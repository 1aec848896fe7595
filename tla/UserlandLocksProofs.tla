------------------------ MODULE UserlandLocksProofs ------------------------
(***************************************************************************)
(* Proof that the lock and condvar protocol keeps IInv, for any number of  *)
(* threads: the handlers that hand the lock over or cancel a wait, and the *)
(* theorems about the whole protocol.                                      *)
(***************************************************************************)
EXTENDS UserlandLocksLemmas

\* After a hand-over of a lock that nobody owns any more, the word is true.
LEMMA HandOverOwners ==
  ASSUME TypeOK, NEW q \in Seq(Threads), q # <<>>, IsInjective(q),
         HandOver(q, info.readers),
         \A u \in Threads : holds'[u] = "no" /\ "lock" \notin woken[u],
         phase'[Head(q)] # "rdwait"
  PROVE  LockWordTrue'
<1>1. /\ Head(q) \in Threads /\ lock'.wr /\ lock'.low = Head(q)
      /\ woken' = [woken EXCEPT ![Head(q)] = @ \cup {"lock"}]
  BY HandOverEffect
<1>2. woken'[Head(q)] = woken[Head(q)] \cup {"lock"}
      /\ \A u \in Threads \ {Head(q)} : woken'[u] = woken[u]
  BY <1>1 DEF TypeOK
<1>3. owns(Head(q))' = "write" /\ \A u \in Threads \ {Head(q)} : owns(u)' = "no"
  BY <1>1, <1>2 DEF owns
<1>4. Writers' = {Head(q)} /\ Readers' = {}
  BY <1>1, <1>3 DEF Writers, Readers
<1> QED BY <1>1, <1>4 DEF LockWordTrue

\* drop_userspace_lock keeps the invariant, in each of the three system calls
\* that call it: lock_unlock, thread_exit, and poll on a condvar.
LEMMA DropStep ==
  ASSUME IInv, TypeOK', NEW t \in Threads, NEW ph \in {"user", "exited", "cvwait"},
         phase[t] \in {"user", "unlock"}, holds[t] # "read",
         drop_userspace_lock(t),
         holds' = [holds EXCEPT ![t] = "no"],
         phase' = [phase EXCEPT ![t] = ph],
         ph # "cvwait" => UNCHANGED <<condvar, cv, timed>>,
         ph = "cvwait" => /\ cv' = [here |-> TRUE, waiting |-> Append(cv.waiting, t)]
                          /\ condvar' = 1
                          /\ \A u \in Threads \ {t} : timed'[u] = timed[u]
  PROVE  IInv'
<1> USE DEF IInv
<1>1. /\ woken[t] = {} /\ ~timed[t]
      /\ t \notin QueuedWriters /\ t \notin WaitingReaders
  BY DEF PhasesMatch, QueuedWriters, WaitingReaders
<1>2. t \notin Range(cv.waiting) /\ Range(cv.waiting) \subseteq Threads
  BY Basics, RangeOfSeq DEF QueuesMatchThreads
<1>3. /\ phase'[t] = ph /\ holds'[t] = "no"
      /\ \A u \in Threads \ {t} : phase'[u] = phase[u] /\ holds'[u] = holds[u]
  BY DEF TypeOK
<1>4. /\ CondvarWordTrue'
      /\ IsInjective(cv'.waiting)
      /\ Range(cv'.waiting) = Range(cv.waiting) \cup (IF ph = "cvwait" THEN {t} ELSE {})
  <2>1. CASE ph = "cvwait"
    <3>1. /\ Append(cv.waiting, t) # <<>>
          /\ Range(Append(cv.waiting, t)) = Range(cv.waiting) \cup {t}
          /\ IsInjective(Append(cv.waiting, t))
      BY <1>2, Basics, AppendRange DEF QueuesMatchThreads
    <3>2. cv'.waiting = Append(cv.waiting, t) /\ condvar' = 1
      BY <2>1
    <3>3. CondvarWordTrue'
      BY <3>1, <3>2 DEF CondvarWordTrue
    <3> QED BY <2>1, <3>1, <3>2, <3>3
  <2>2. CASE ph # "cvwait"
    BY <2>2 DEF CondvarWordTrue, QueuesMatchThreads
  <2> QED BY <2>1, <2>2
<1>5. ASSUME /\ info'.here \/ info' = NoInfo
             /\ woken'[t] = {}
             /\ \A u \in Threads :
                  phase[u] \notin {"rdwait", "wrwait", "cvwait", "relock"} => woken'[u] = woken[u]
      PROVE  PhasesMatch'
  <2>1. ASSUME NEW u \in Threads
        PROVE  /\ phase'[u] \notin {"rdwait", "wrwait", "cvwait", "relock"} =>
                    woken'[u] = {} /\ ~timed'[u]
               /\ holds'[u] # "no" => phase'[u] \in {"user", "unlock", "signal"}
               /\ phase'[u] = "unlock" => holds'[u] = "write"
               /\ phase'[u] = "cvwait" => cv'.here
    <3>1. CASE u = t
      BY <1>1, <1>3, <1>5, <3>1
    <3>2. CASE u # t
      <4>1. timed'[u] = timed[u] /\ (cv.here => cv'.here)
        BY <3>2
      <4> QED BY <1>3, <1>5, <3>2, <4>1 DEF PhasesMatch
    <3> QED BY <3>1, <3>2
  <2> QED BY <1>5, <2>1 DEF PhasesMatch
<1>6. ASSUME \A u \in Range(cv.waiting) : "lock" \notin woken'[u], woken'[t] = {}
      PROVE  \A u \in Range(cv'.waiting) : phase'[u] = "cvwait" /\ "lock" \notin woken'[u]
  BY <1>2, <1>3, <1>4, <1>6 DEF QueuesMatchThreads
<1>7. CASE ~(lock.wr /\ lock.low = t) /\ UNCHANGED <<lock, info, woken, failed>>
  <2>1. holds[t] = "no"
    BY <1>7, HeldLock DEF owns, TypeOK
  <2>2. \A u \in Threads : owns(u)' = owns(u)
    BY <1>1, <1>3, <1>7, <2>1 DEF owns
  <2>3. LockWordTrue' /\ WaitersAreManaged' /\ OtherAssertsHold'
    BY <1>7, <2>2 DEF LockWordTrue, Readers, Writers, WaitersAreManaged, OtherAssertsHold
  <2>4. PhasesMatch'
    BY <1>1, <1>5, <1>7 DEF PhasesMatch
  <2>5. WaitingReaders' = WaitingReaders /\ QueuedWriters' = QueuedWriters
    <3>1. WaitingReaders' = WaitingReaders
      BY <1>3, <1>7 DEF WaitingReaders
    <3>2. ASSUME NEW u \in Threads PROVE u \in QueuedWriters' <=> u \in QueuedWriters
      BY <1>1, <1>3, <1>4, <1>7 DEF QueuedWriters
    <3> QED BY <3>1, <3>2 DEF QueuedWriters
  <2>6. QueuesMatchThreads'
    BY <1>1, <1>4, <1>6, <1>7, <2>5 DEF QueuesMatchThreads
  <2> QED BY <1>4, <2>3, <2>4, <2>6
<1>8. ASSUME lock.wr, lock.low = t
      PROVE  \A u \in Threads : holds'[u] = "no" /\ "lock" \notin woken[u]
  <2>1. Writers = {t} /\ Readers = {}
    BY <1>8 DEF LockWordTrue
  <2>2. \A u \in Threads \ {t} : owns(u) = "no"
    BY <2>1 DEF Writers, Readers, owns, TypeOK
  <2> QED BY <1>1, <1>3, <2>2 DEF owns
<1>9. CASE lock.wr /\ lock.low = t /\ info.writers # <<>> /\ HandOver(info.writers, info.readers)
  <2> DEFINE h == Head(info.writers)
  <2>1. /\ h \in QueuedWriters /\ h \in Threads
        /\ woken' = [woken EXCEPT ![h] = @ \cup {"lock"}]
        /\ info'.readers = info.readers
        /\ IsInjective(info'.writers)
        /\ Range(info'.writers) = QueuedWriters \ {h}
        /\ WaitersAreManaged'
        /\ info'.here \/ info' = NoInfo
        /\ has_conditions(h) => failed' = failed
    BY <1>9, Basics, HandOverEffect DEF QueuesMatchThreads
  <2> HIDE DEF h
  <2>2. /\ h # t /\ phase'[h] = phase[h]
        /\ phase[h] \in {"wrwait", "cvwait", "relock"} /\ "lock" \notin woken[h]
        /\ h \notin Range(cv.waiting)
    BY <1>1, <1>3, <2>1 DEF QueuedWriters, QueuesMatchThreads
  <2>3. woken'[h] = woken[h] \cup {"lock"} /\ \A u \in Threads \ {h} : woken'[u] = woken[u]
    BY <2>1 DEF TypeOK
  <2>4. LockWordTrue'
    BY <1>8, <1>9, <2>2, Basics, HandOverOwners DEF QueuesMatchThreads, h
  <2>5. OtherAssertsHold'
    BY <2>1, <2>2 DEF has_conditions, OtherAssertsHold
  <2>6. PhasesMatch'
    BY <1>1, <1>5, <2>1, <2>2, <2>3
  <2>7. WaitingReaders' = WaitingReaders
    BY <1>1, <1>3, <2>2, <2>3 DEF WaitingReaders
  <2>8. QueuedWriters' = QueuedWriters \ {h}
    <3>1. ASSUME NEW u \in Threads PROVE u \in QueuedWriters' <=> u \in QueuedWriters /\ u # h
      <4>1. CASE u = t
        BY <1>1, <1>3, <1>4, <4>1 DEF QueuedWriters
      <4>2. CASE u = h
        BY <2>3, <4>2 DEF QueuedWriters
      <4>3. CASE u # t /\ u # h
        BY <1>3, <1>4, <2>3, <4>3 DEF QueuedWriters
      <4> QED BY <4>1, <4>2, <4>3
    <3> QED BY <3>1 DEF QueuedWriters
  <2>9. \A u \in Range(cv'.waiting) : phase'[u] = "cvwait" /\ "lock" \notin woken'[u]
    BY <1>1, <1>2, <1>6, <2>2, <2>3 DEF QueuesMatchThreads
  <2>10. QueuesMatchThreads'
    BY <1>4, <2>1, <2>7, <2>8, <2>9 DEF QueuesMatchThreads
  <2> QED BY <1>4, <2>1, <2>4, <2>5, <2>6, <2>10
<1>10. CASE /\ lock.wr /\ lock.low = t /\ info.writers = <<>>
            /\ lock' = [Unlocked EXCEPT !.low = info.readers]
            /\ info' = NoInfo
            /\ woken' = ReadersGranted
            /\ UNCHANGED failed
  <2>1. /\ ~lock'.wr /\ lock'.low = info.readers
        /\ info'.writers = <<>> /\ info'.readers = 0
    BY <1>10 DEF Unlocked, NoInfo
  <2>2. \A u \in Threads : woken'[u] = IF phase[u] = "rdwait" THEN woken[u] \cup {"lock"} ELSE woken[u]
    BY <1>10 DEF ReadersGranted
  <2>3. ASSUME NEW u \in Threads
        PROVE  owns(u)' = IF phase[u] = "rdwait" THEN "read" ELSE "no"
    <3>1. CASE u = t
      BY <1>1, <1>3, <2>2, <3>1 DEF owns
    <3>2. CASE u # t
      <4>1. holds'[u] = "no" /\ "lock" \notin woken[u]
        BY <1>8, <1>10
      <4>2. phase'[u] = phase[u]
        BY <1>3, <3>2
      <4> HIDE DEF IInv
      <4> QED BY <2>2, <4>1, <4>2 DEF owns
    <3> QED BY <3>1, <3>2
  <2>4. Writers' = {} /\ Readers' = WaitingReaders
    BY <1>8, <1>10, <2>3 DEF Writers, Readers, WaitingReaders
  <2>5. LockWordTrue'
    BY <2>1, <2>4 DEF LockWordTrue, QueuesMatchThreads
  <2>6. WaitersAreManaged' /\ OtherAssertsHold'
    BY <1>10, <2>1 DEF WaitersAreManaged, OtherAssertsHold
  <2>7. PhasesMatch'
    BY <1>1, <1>5, <1>10, <2>2
  <2>8. WaitingReaders' = {}
    <3>1. ASSUME NEW u \in Threads PROVE u \notin WaitingReaders'
      BY <1>3, <2>2 DEF WaitingReaders
    <3> QED BY <3>1 DEF WaitingReaders
  <2>9. QueuedWriters' = {}
    <3>1. QueuedWriters = {}
      BY <1>10, Basics
    <3>2. ASSUME NEW u \in Threads PROVE u \notin QueuedWriters'
      <4>1. CASE u = t
        BY <1>3, <1>4, <4>1 DEF QueuedWriters
      <4>2. CASE u # t
        BY <1>3, <1>4, <2>2, <3>1, <4>2 DEF QueuedWriters
      <4> QED BY <4>1, <4>2
    <3> QED BY <3>2 DEF QueuedWriters
  <2>10. \A u \in Range(cv'.waiting) : phase'[u] = "cvwait" /\ "lock" \notin woken'[u]
    BY <1>1, <1>2, <1>6, <2>2 DEF QueuesMatchThreads
  <2>11. QueuesMatchThreads'
    BY <1>4, <2>1, <2>8, <2>9, <2>10, Basics, EmptyRange, FS_EmptySet DEF QueuesMatchThreads
  <2> QED BY <1>4, <2>5, <2>6, <2>7, <2>11
<1> QED BY <1>7, <1>9, <1>10 DEF drop_userspace_lock

\* condvar_signal keeps the invariant: the threads it moves leave the condvar's
\* queue and join the lock's, and a free lock goes to the first of them.
LEMMA SignalStep ==
  ASSUME IInv, TypeOK', NEW t \in Threads, NEW n \in NWaiters, CondvarSignal(t, n),
         failed = {}
  PROVE  IInv'
<1> USE DEF IInv
<1>1. /\ phase[t] = "signal" /\ phase'[t] = "user" /\ UNCHANGED <<timed, holds>>
      /\ woken[t] = {} /\ ~timed[t]
      /\ \A u \in Threads \ {t} : phase'[u] = phase[u]
  <2>1. /\ phase[t] = "signal" /\ phase' = [phase EXCEPT ![t] = "user"]
        /\ UNCHANGED <<timed, holds>>
    BY DEF CondvarSignal
  <2>2. DOMAIN phase = Threads
    BY DEF TypeOK
  <2>3. woken[t] = {} /\ ~timed[t]
    BY <2>1 DEF PhasesMatch
  <2>4. phase'[t] = "user" /\ \A u \in Threads \ {t} : phase'[u] = phase[u]
    BY <2>1, <2>2
  <2> QED BY <2>1, <2>3, <2>4
<1>2. t \notin Range(cv.waiting) /\ t \notin QueuedWriters /\ Range(cv.waiting) \subseteq Threads
  <2>1. t \notin Range(cv.waiting) /\ t \notin QueuedWriters
    BY <1>1 DEF QueuesMatchThreads, QueuedWriters
  <2> QED BY <2>1, Basics
<1>3. CASE UNCHANGED <<lock, info, condvar, cv, woken>>
           /\ (\/ Check("condvar == HAS_NO_WAITERS", condvar = 0) /\ ~cv.here
               \/ Check("condvar != HAS_NO_WAITERS", FALSE))
  <2>1. QueuesMatchThreads'
    BY <1>1, <1>3, QueueFrame, Basics
  <2>2. \A u \in Threads : owns(u)' = owns(u)
    BY <1>1, <1>3 DEF owns
  <2>3. LockWordTrue' /\ WaitersAreManaged' /\ CondvarWordTrue'
    BY <1>3, <2>2 DEF LockWordTrue, Readers, Writers, WaitersAreManaged, CondvarWordTrue
  <2>4. PhasesMatch'
    BY <1>1, <1>3 DEF PhasesMatch
  <2>5. OtherAssertsHold'
    <3>1. ~cv.here => cv.waiting = <<>>
      <4>1. ~cv.here => Range(cv.waiting) = {}
        BY <1>2 DEF QueuesMatchThreads, PhasesMatch
      <4> QED BY <4>1, Basics, EmptyRange
    <3> QED BY <1>3, <3>1 DEF OtherAssertsHold, Check, CondvarWordTrue
  <2> QED BY <2>1, <2>3, <2>4, <2>5
<1>4. CASE signal_userspace_cv(n) /\ cv.here /\ condvar # 0
  <2> DEFINE moved   == IF n < Len(cv.waiting) THEN n ELSE Len(cv.waiting)
             front   == SubSeq(cv.waiting, 1, moved)
             waiting == SubSeq(cv.waiting, moved + 1, Len(cv.waiting))
             writers == info.writers \o front
             h       == Head(writers)
  <2>1. moved \in 0..Len(cv.waiting)
    BY Basics, LenProperties, ThreadsAssumption
  <2>2. /\ cv' = [cv EXCEPT !.waiting = waiting]
        /\ condvar' = IF waiting = <<>> THEN 0 ELSE condvar
        /\ \/ /\ lock.low = 0 /\ writers # <<>>
              /\ HandOver(writers, info.readers)
           \/ /\ ~(lock.low = 0 /\ writers # <<>>)
              /\ lock' = [lock EXCEPT !.km = TRUE]
              /\ info' = [info EXCEPT !.here = TRUE, !.writers = writers]
              /\ UNCHANGED <<woken, failed>>
    BY <1>4 DEF signal_userspace_cv
  <2> HIDE DEF moved
  <2>3. /\ front \in Seq(Threads) /\ waiting \in Seq(Threads)
        /\ IsInjective(front) /\ IsInjective(waiting)
        /\ Range(front) \cap Range(waiting) = {}
        /\ Range(front) \cup Range(waiting) = Range(cv.waiting)
    BY <2>1, Basics, SplitRange DEF QueuesMatchThreads
  <2> HIDE DEF front, waiting
  <2>4. Range(cv.waiting) \cap QueuedWriters = {}
    BY DEF QueuedWriters, QueuesMatchThreads
  <2>5. /\ writers \in Seq(Threads) /\ IsInjective(writers)
        /\ Range(writers) = QueuedWriters \cup Range(front)
    BY <2>3, <2>4, Basics, ConcatRange DEF QueuesMatchThreads
  <2> HIDE DEF writers
  <2>6. cv'.waiting = waiting /\ cv'.here
    BY <1>4, <2>2 DEF TypeOK
  <2>7. CondvarWordTrue'
    BY <1>4, <2>2, <2>6 DEF CondvarWordTrue
  <2>8. \A u \in Range(front) : u \in Threads /\ phase[u] = "cvwait" /\ "lock" \notin woken[u] /\ u # t
    BY <1>2, <2>3 DEF QueuesMatchThreads
  <2>9. CASE lock.low = 0 /\ writers # <<>> /\ HandOver(writers, info.readers)
    <3>1. /\ QueuedWriters = {} /\ WaitingReaders = {} /\ Readers = {} /\ Writers = {}
      BY <2>9, FreeLock
    <3>2. /\ h \in Range(front) /\ h \in Threads
          /\ woken' = [woken EXCEPT ![h] = @ \cup {"lock"}]
          /\ info'.readers = info.readers
          /\ IsInjective(info'.writers)
          /\ Range(info'.writers) = Range(front) \ {h}
          /\ WaitersAreManaged'
          /\ info'.here \/ info' = NoInfo
          /\ has_conditions(h) => failed' = failed
      BY <2>5, <2>9, <3>1, HandOverEffect
    <3>3. \A u \in Threads : holds'[u] = "no" /\ "lock" \notin woken[u]
      BY <1>1, <3>1 DEF Readers, Writers, owns, TypeOK
    <3>4. phase'[h] = "cvwait"
      BY <1>1, <2>8, <3>2
    <3>5. LockWordTrue'
      BY <2>5, <2>9, <3>3, <3>4, HandOverOwners
    <3> HIDE DEF h
    <3>6. woken'[h] = woken[h] \cup {"lock"} /\ \A u \in Threads \ {h} : woken'[u] = woken[u]
      BY <3>2 DEF TypeOK
    <3>7. OtherAssertsHold'
      BY <2>8, <3>2 DEF has_conditions, OtherAssertsHold
    <3>8. PhasesMatch'
      BY <1>1, <2>6, <2>8, <3>2, <3>4, <3>6 DEF PhasesMatch
    <3>9. WaitingReaders' = {}
      <4>1. ASSUME NEW u \in Threads PROVE u \notin WaitingReaders'
        BY <1>1, <3>1, <3>4, <3>6 DEF WaitingReaders
      <4> QED BY <4>1 DEF WaitingReaders
    <3>10. QueuedWriters' = Range(front) \ {h}
      <4>1. ASSUME NEW u \in Threads PROVE u \in QueuedWriters' <=> u \in Range(front) \ {h}
        <5>1. CASE u = t
          BY <1>1, <2>8, <5>1 DEF QueuedWriters
        <5>2. CASE u = h
          BY <3>6, <5>2 DEF QueuedWriters
        <5>3. CASE u # t /\ u # h /\ u \in Range(front)
          BY <1>1, <2>3, <2>6, <2>8, <3>6, <5>3 DEF QueuedWriters
        <5>4. CASE u # t /\ u # h /\ u \notin Range(front)
          BY <1>1, <2>3, <2>6, <3>1, <3>6, <5>4 DEF QueuedWriters
        <5> QED BY <5>1, <5>2, <5>3, <5>4
      <4>2. Range(front) \subseteq Threads
        BY <2>8
      <4> QED BY <4>1, <4>2 DEF QueuedWriters
    <3>11. \A u \in Range(cv'.waiting) : phase'[u] = "cvwait" /\ "lock" \notin woken'[u]
      BY <1>1, <1>2, <2>3, <2>6, <3>2, <3>6 DEF QueuesMatchThreads
    <3>12. QueuesMatchThreads'
      BY <2>3, <2>6, <3>1, <3>2, <3>9, <3>10, <3>11 DEF QueuesMatchThreads
    <3> QED BY <2>7, <3>2, <3>5, <3>7, <3>8, <3>12
  <2>10. CASE /\ ~(lock.low = 0 /\ writers # <<>>)
              /\ lock' = [lock EXCEPT !.km = TRUE]
              /\ info' = [info EXCEPT !.here = TRUE, !.writers = writers]
              /\ UNCHANGED <<woken, failed>>
    <3>1. /\ lock'.wr = lock.wr /\ lock'.low = lock.low /\ lock'.km
          /\ info'.here /\ info'.writers = writers /\ info'.readers = info.readers
      BY <2>10 DEF TypeOK
    <3>2. \A u \in Threads : owns(u)' = owns(u)
      BY <1>1, <2>10 DEF owns
    <3>3. LockWordTrue' /\ OtherAssertsHold'
      BY <2>10, <3>1, <3>2 DEF LockWordTrue, Readers, Writers, OtherAssertsHold
    <3>4. WaitersAreManaged'
      BY <2>10, <3>1, FreeLock DEF WaitersAreManaged
    <3>5. PhasesMatch'
      BY <1>1, <2>6, <2>10, <3>1 DEF PhasesMatch
    <3>6. WaitingReaders' = WaitingReaders
      BY <1>1, <2>10 DEF WaitingReaders
    <3>7. QueuedWriters' = QueuedWriters \cup Range(front)
      <4>1. ASSUME NEW u \in Threads
            PROVE  u \in QueuedWriters' <=> u \in QueuedWriters \/ u \in Range(front)
        <5>1. CASE u = t
          BY <1>1, <1>2, <2>8, <5>1 DEF QueuedWriters
        <5>2. CASE u # t /\ u \in Range(front)
          BY <1>1, <2>3, <2>6, <2>8, <2>10, <5>2 DEF QueuedWriters
        <5>3. CASE u # t /\ u \notin Range(front)
          BY <1>1, <2>3, <2>6, <2>10, <5>3 DEF QueuedWriters
        <5> QED BY <5>1, <5>2, <5>3
      <4>2. Range(front) \subseteq Threads
        BY <2>8
      <4> QED BY <4>1, <4>2 DEF QueuedWriters
    <3>8. \A u \in Range(cv'.waiting) : phase'[u] = "cvwait" /\ "lock" \notin woken'[u]
      BY <1>1, <1>2, <2>3, <2>6, <2>10 DEF QueuesMatchThreads
    <3>9. QueuesMatchThreads'
      BY <2>3, <2>5, <2>6, <3>1, <3>6, <3>7, <3>8 DEF QueuesMatchThreads
    <3> QED BY <2>7, <3>3, <3>4, <3>5, <3>9
  <2> QED BY <2>2, <2>9, <2>10
<1> QED BY <1>3, <1>4 DEF CondvarSignal

\* A deadline that passes changes no owner and no queue.
LEMMA TimeoutStep ==
  ASSUME IInv, TypeOK', NEW t \in Threads, Timeout(t)
  PROVE  IInv'
<1> USE DEF IInv
<1>1. /\ UNCHANGED <<lock, info, condvar, cv, phase, timed, holds, failed>>
      /\ woken'[t] = woken[t] \cup {"clock"}
      /\ \A u \in Threads \ {t} : woken'[u] = woken[u]
  BY DEF Timeout, TypeOK
<1>2. \A u \in Threads : "lock" \in woken'[u] <=> "lock" \in woken[u]
  BY <1>1
<1>3. QueuesMatchThreads'
  BY <1>1, <1>2, QueueFrame, Basics
<1>4. \A u \in Threads : owns(u)' = owns(u)
  BY <1>1, <1>2 DEF owns
<1>5. LockWordTrue' /\ WaitersAreManaged' /\ CondvarWordTrue' /\ OtherAssertsHold'
  BY <1>1, <1>4
  DEF LockWordTrue, Readers, Writers, WaitersAreManaged, CondvarWordTrue, OtherAssertsHold
<1>6. PhasesMatch'
  BY <1>1 DEF PhasesMatch, Timeout
<1> QED BY <1>3, <1>5, <1>6

\* A thread that was granted the lock owned it before it runs.
LEMMA GrantedStep ==
  ASSUME IInv, TypeOK', NEW t \in Threads, PollGranted(t)
  PROVE  IInv'
<1> USE DEF IInv
<1>1. /\ phase[t] \in {"rdwait", "wrwait", "cvwait", "relock"} /\ "lock" \in woken[t]
      /\ UNCHANGED <<lock, info, condvar, cv, failed>>
      /\ phase'[t] = "user" /\ ~timed'[t] /\ woken'[t] = {}
      /\ holds'[t] = IF phase[t] = "rdwait" THEN "read" ELSE "write"
      /\ \A u \in Threads \ {t} : /\ phase'[u] = phase[u] /\ timed'[u] = timed[u]
                                  /\ woken'[u] = woken[u] /\ holds'[u] = holds[u]
  BY DEF PollGranted, Return, TypeOK
<1>2. holds[t] = "no" /\ t \notin Range(cv.waiting)
  BY <1>1 DEF PhasesMatch, QueuesMatchThreads
<1>3. \A u \in Threads : owns(u)' = owns(u)
  BY <1>1, <1>2 DEF owns
<1>4. LockWordTrue' /\ WaitersAreManaged' /\ CondvarWordTrue' /\ OtherAssertsHold'
  <2>1. Readers' = Readers /\ Writers' = Writers
    BY <1>3 DEF Readers, Writers
  <2> QED BY <1>1, <2>1 DEF LockWordTrue, WaitersAreManaged, CondvarWordTrue, OtherAssertsHold
<1>5. PhasesMatch'
  BY <1>1 DEF PhasesMatch
<1>6. WaitingReaders' = WaitingReaders
  BY <1>1 DEF WaitingReaders
<1>7. QueuedWriters' = QueuedWriters
  BY <1>1 DEF QueuedWriters
<1>8. \A u \in Range(cv'.waiting) : phase'[u] = "cvwait" /\ "lock" \notin woken'[u]
  <2>1. Range(cv.waiting) \subseteq Threads
    BY Basics, RangeOfSeq
  <2> QED BY <1>1, <1>2, <2>1 DEF QueuesMatchThreads
<1>9. QueuesMatchThreads'
  BY <1>1, <1>6, <1>7, <1>8 DEF QueuesMatchThreads
<1> QED BY <1>4, <1>5, <1>9

\* A lock poll that timed out leaves the queue it was in.
LEMMA LockCancelledStep ==
  ASSUME IInv, TypeOK', NEW t \in Threads, PollLockCancelled(t)
  PROVE  IInv'
<1> USE DEF IInv
<1>1. /\ phase[t] \in {"rdwait", "wrwait"} /\ woken[t] = {"clock"}
      /\ UNCHANGED <<lock, condvar, cv>>
      /\ phase'[t] = "user" /\ ~timed'[t] /\ woken'[t] = {} /\ holds'[t] = "no"
      /\ \A u \in Threads \ {t} : /\ phase'[u] = phase[u] /\ timed'[u] = timed[u]
                                  /\ woken'[u] = woken[u] /\ holds'[u] = holds[u]
  BY DEF PollLockCancelled, Return, TypeOK
<1>2. /\ holds[t] = "no" /\ t \notin Range(cv.waiting)
      /\ Range(cv.waiting) \subseteq Threads
  <2>1. holds[t] = "no" /\ t \notin Range(cv.waiting)
    BY <1>1 DEF PhasesMatch, QueuesMatchThreads
  <2> QED BY <2>1, Basics
<1>3. \A u \in Threads : owns(u)' = owns(u)
  BY <1>1, <1>2 DEF owns
<1>4. LockWordTrue' /\ CondvarWordTrue'
  BY <1>1, <1>3 DEF LockWordTrue, Readers, Writers, CondvarWordTrue
<1>5. \A u \in Range(cv'.waiting) : phase'[u] = "cvwait" /\ "lock" \notin woken'[u]
  BY <1>1, <1>2 DEF QueuesMatchThreads
<1>6. CASE phase[t] = "wrwait"
  <2>1. /\ info'.writers = remove_one(info.writers, t)
        /\ info'.readers = info.readers /\ info'.here = info.here
        /\ Check("cancel_userspace_lock", info.here /\ ExactlyOne(info.writers, t))
    BY <1>6 DEF PollLockCancelled, cancel_userspace_lock, TypeOK
  <2>2. t \in QueuedWriters /\ t \in Range(info.writers)
    BY <1>1, <1>6 DEF QueuedWriters, QueuesMatchThreads
  <2>3. info.writers # <<>> /\ info.here /\ lock.km /\ lock.low # 0
    BY <2>2, Basics DEF WaitersAreManaged
  <2>4. WaitersAreManaged'
    BY <1>1, <2>1, <2>3 DEF WaitersAreManaged
  <2>5. OtherAssertsHold'
    <3>1. ExactlyOne(info.writers, t)
      BY <2>2 DEF QueuesMatchThreads, ExactlyOne, AtMostOne, IsInjective
    <3> QED BY <2>1, <2>3, <3>1 DEF Check, OtherAssertsHold
  <2>6. PhasesMatch'
    BY <1>1, <2>1, <2>3 DEF PhasesMatch
  <2>7. WaitingReaders' = WaitingReaders
    BY <1>1, <1>6 DEF WaitingReaders
  <2>8. QueuedWriters' = QueuedWriters \ {t}
    BY <1>1 DEF QueuedWriters
  <2>9. IsInjective(info'.writers) /\ Range(info'.writers) = QueuedWriters \ {t}
    BY <2>1, Basics, RemoveRange DEF QueuesMatchThreads
  <2>10. QueuesMatchThreads'
    BY <1>1, <1>5, <2>1, <2>7, <2>8, <2>9 DEF QueuesMatchThreads
  <2> QED BY <1>4, <2>4, <2>5, <2>6, <2>10
<1>7. CASE phase[t] = "rdwait"
  <2>1. t \in WaitingReaders
    BY <1>1, <1>7 DEF WaitingReaders
  <2>2. info.readers # 0 /\ info.readers \in Nat
    BY <2>1, Basics DEF TypeOK
  <2>3. /\ info'.writers = info.writers
        /\ info'.readers = info.readers - 1 /\ info'.here = info.here
        /\ Check("cancel_userspace_lock", info.here /\ info.readers >= 1)
    BY <1>7, <2>2 DEF PollLockCancelled, cancel_userspace_lock, TypeOK
  <2>4. info.here /\ lock.km /\ lock.low # 0
    BY <2>2 DEF WaitersAreManaged
  <2>5. WaitersAreManaged'
    BY <1>1, <2>3, <2>4 DEF WaitersAreManaged
  <2>6. OtherAssertsHold'
    <3>1. info.readers >= 1
      BY <2>2
    <3> QED BY <2>3, <2>4, <3>1 DEF Check, OtherAssertsHold
  <2>7. PhasesMatch'
    BY <1>1, <2>3, <2>4 DEF PhasesMatch
  <2>8. WaitingReaders' = WaitingReaders \ {t}
    BY <1>1 DEF WaitingReaders
  <2>9. Cardinality(WaitingReaders') = Cardinality(WaitingReaders) - 1
    BY <2>1, <2>8, Basics, FS_RemoveElement
  <2>10. QueuedWriters' = QueuedWriters
    BY <1>1, <1>7 DEF QueuedWriters
  <2>11. QueuesMatchThreads'
    BY <1>1, <1>5, <2>3, <2>9, <2>10 DEF QueuesMatchThreads
  <2> QED BY <1>4, <2>5, <2>6, <2>7, <2>11
<1> QED BY <1>1, <1>6, <1>7

\* A condvar poll that timed out leaves the condvar's queue, if it is still in it,
\* and takes the lock back or is queued for it, once.
LEMMA CondvarCancelledStep ==
  ASSUME IInv, TypeOK', NEW t \in Threads, PollCondvarCancelled(t)
  PROVE  IInv'
<1> USE DEF IInv
<1>1. /\ phase[t] = "cvwait" /\ woken[t] = {"clock"} /\ cv.here /\ holds[t] = "no"
      /\ cv'.waiting = remove_one(cv.waiting, t) /\ cv'.here
      /\ condvar' = IF cv'.waiting = <<>> THEN 0 ELSE condvar
  BY DEF PollCondvarCancelled, PhasesMatch, TypeOK
<1>2. /\ IsInjective(cv'.waiting) /\ Range(cv'.waiting) = Range(cv.waiting) \ {t}
      /\ Range(cv.waiting) \subseteq Threads
  <2>1. /\ cv.waiting \in Seq(Threads) /\ Range(cv.waiting) \subseteq Threads
        /\ IsInjective(cv.waiting)
    BY Basics DEF QueuesMatchThreads
  <2> HIDE DEF IInv
  <2> QED BY <1>1, <2>1, RemoveRange
<1>3. CondvarWordTrue'
  <2>1. cv'.waiting # <<>> => cv.waiting # <<>>
    BY <1>1, Basics, EmptyRange DEF remove_one
  <2> QED BY <1>1, <2>1 DEF CondvarWordTrue
<1>4. AtMostOne(cv.waiting, t)
  BY DEF QueuesMatchThreads, AtMostOne, IsInjective
<1>5. CASE lock.low = 0
  <2>1. /\ lock' = [wr |-> TRUE, km |-> FALSE, low |-> t]
        /\ phase'[t] = "user" /\ ~timed'[t] /\ woken'[t] = {} /\ holds'[t] = "write"
        /\ \A u \in Threads \ {t} : /\ phase'[u] = phase[u] /\ timed'[u] = timed[u]
                                    /\ woken'[u] = woken[u] /\ holds'[u] = holds[u]
        /\ Check("cancel_userspace_cv", cv.here /\ AtMostOne(cv.waiting, t))
        /\ UNCHANGED info
    BY <1>5 DEF PollCondvarCancelled, Return, TypeOK
  <2>2. /\ Writers = {} /\ Readers = {} /\ info.writers = <<>> /\ info.readers = 0
        /\ QueuedWriters = {} /\ WaitingReaders = {}
    BY <1>5, FreeLock
  <2>3. owns(t)' = "write" /\ \A u \in Threads \ {t} : owns(u)' = owns(u)
    BY <2>1 DEF owns
  <2>4. Writers' = {t} /\ Readers' = {}
    BY <2>2, <2>3 DEF Writers, Readers
  <2>5. LockWordTrue' /\ WaitersAreManaged'
    BY <2>1, <2>2, <2>4 DEF LockWordTrue, WaitersAreManaged
  <2>6. OtherAssertsHold'
    BY <1>1, <1>4, <2>1 DEF Check, OtherAssertsHold
  <2>7. PhasesMatch'
    BY <1>1, <2>1 DEF PhasesMatch
  <2>8. WaitingReaders' = WaitingReaders
    BY <1>1, <2>1 DEF WaitingReaders
  <2>9. QueuedWriters' = QueuedWriters
    <3>1. ASSUME NEW u \in Threads PROVE u \in QueuedWriters' <=> u \in QueuedWriters
      BY <1>2, <2>1, <2>2 DEF QueuedWriters
    <3> QED BY <3>1 DEF QueuedWriters
  <2>10. \A u \in Range(cv'.waiting) : phase'[u] = "cvwait" /\ "lock" \notin woken'[u]
    BY <1>2, <2>1 DEF QueuesMatchThreads
  <2>11. QueuesMatchThreads'
    BY <1>2, <2>1, <2>8, <2>9, <2>10 DEF QueuesMatchThreads
  <2> QED BY <1>3, <2>5, <2>6, <2>7, <2>11
<1>6. CASE lock.low # 0
  <2> DEFINE on_cv == t \in Range(cv.waiting)
  <2>1. /\ lock'.wr = lock.wr /\ lock'.low = lock.low /\ lock'.km
        /\ info'.here /\ info'.readers = info.readers
        /\ info'.writers = IF on_cv THEN Append(info.writers, t) ELSE info.writers
        /\ phase'[t] = "relock" /\ ~timed'[t] /\ woken'[t] = {} /\ holds'[t] = "no"
        /\ \A u \in Threads \ {t} : /\ phase'[u] = phase[u] /\ timed'[u] = timed[u]
                                    /\ woken'[u] = woken[u] /\ holds'[u] = holds[u]
        /\ Check("cancel_userspace_cv",
                 /\ cv.here /\ AtMostOne(cv.waiting, t)
                 /\ on_cv \/ ExactlyOne(info.writers, t))
    <3>1. /\ lock' = [lock EXCEPT !.km = TRUE]
          /\ info' = [info EXCEPT !.here = TRUE,
                        !.writers = IF on_cv THEN Append(@, t) ELSE @]
          /\ phase' = [phase EXCEPT ![t] = "relock"]
          /\ timed' = [timed EXCEPT ![t] = FALSE]
          /\ woken' = [woken EXCEPT ![t] = {}]
          /\ UNCHANGED holds
          /\ Check("cancel_userspace_cv",
                   /\ cv.here /\ AtMostOne(cv.waiting, t)
                   /\ on_cv \/ ExactlyOne(info.writers, t))
      BY <1>6 DEF PollCondvarCancelled, Wait
    <3>2. lock'.wr = lock.wr /\ lock'.low = lock.low /\ lock'.km
      BY <3>1 DEF TypeOK
    <3>3. /\ info'.here /\ info'.readers = info.readers
          /\ info'.writers = IF on_cv THEN Append(info.writers, t) ELSE info.writers
      BY <3>1 DEF TypeOK
    <3>4. phase'[t] = "relock" /\ ~timed'[t] /\ woken'[t] = {} /\ holds'[t] = "no"
      BY <1>1, <3>1 DEF TypeOK
    <3>5. \A u \in Threads \ {t} : /\ phase'[u] = phase[u] /\ timed'[u] = timed[u]
                                   /\ woken'[u] = woken[u] /\ holds'[u] = holds[u]
      BY <3>1 DEF TypeOK
    <3> QED BY <3>1, <3>2, <3>3, <3>4, <3>5
  <2>2. on_cv <=> t \notin QueuedWriters
    BY <1>1 DEF QueuedWriters
  <2>3. \A u \in Threads : owns(u)' = owns(u)
    BY <1>1, <2>1 DEF owns
  <2>4. LockWordTrue' /\ WaitersAreManaged'
    <3>1. Readers' = Readers /\ Writers' = Writers
      BY <2>3 DEF Readers, Writers
    <3>2. LockWordTrue'
      BY <2>1, <3>1 DEF LockWordTrue
    <3>3. WaitersAreManaged'
      BY <1>6, <2>1 DEF WaitersAreManaged
    <3> QED BY <3>2, <3>3
  <2>5. OtherAssertsHold'
    <3>1. ~on_cv => ExactlyOne(info.writers, t)
      BY <2>2 DEF QueuesMatchThreads, ExactlyOne, AtMostOne, IsInjective
    <3> QED BY <1>1, <1>4, <2>1, <3>1 DEF Check, OtherAssertsHold
  <2>6. PhasesMatch'
    BY <1>1, <2>1 DEF PhasesMatch
  <2>7. WaitingReaders' = WaitingReaders
    BY <1>1, <2>1 DEF WaitingReaders
  <2>8. QueuedWriters' = QueuedWriters \cup {t}
    <3>1. ASSUME NEW u \in Threads PROVE u \in QueuedWriters' <=> u \in QueuedWriters \/ u = t
      <4>1. CASE u = t
        BY <2>1, <4>1 DEF QueuedWriters
      <4>2. CASE u # t
        BY <1>2, <2>1, <4>2 DEF QueuedWriters
      <4> QED BY <4>1, <4>2
    <3> QED BY <3>1 DEF QueuedWriters
  <2>9. IsInjective(info'.writers) /\ Range(info'.writers) = QueuedWriters \cup {t}
    <3>1. CASE on_cv
      <4>1. info'.writers = Append(info.writers, t) /\ info.writers \in Seq(Threads)
        BY <2>1, <3>1, Basics
      <4>2. /\ IsInjective(info.writers) /\ Range(info.writers) = QueuedWriters
            /\ t \notin Range(info.writers)
        BY <2>2, <3>1 DEF QueuesMatchThreads
      <4> HIDE DEF IInv, on_cv
      <4> QED BY <4>1, <4>2, AppendRange
    <3>2. CASE ~on_cv
      BY <2>1, <2>2, <3>2 DEF QueuesMatchThreads
    <3> QED BY <3>1, <3>2
  <2>10. \A u \in Range(cv'.waiting) : phase'[u] = "cvwait" /\ "lock" \notin woken'[u]
    BY <1>2, <2>1 DEF QueuesMatchThreads
  <2>11. QueuesMatchThreads'
    BY <1>2, <2>1, <2>7, <2>8, <2>9, <2>10 DEF QueuesMatchThreads
  <2> QED BY <1>3, <2>4, <2>5, <2>6, <2>11
<1> QED BY <1>5, <1>6 DEF TypeOK

----------------------------------------------------------------------------
\* The invariant holds at first.
LEMMA InitInv ==
  Init => IInv
<1> SUFFICES ASSUME Init PROVE IInv
  OBVIOUS
<1> USE DEF Init
<1>1. TypeOK
  BY DEF TypeOK, Unlocked, NoInfo
<1>2. PhasesMatch
  BY DEF PhasesMatch
<1>3. \A t \in Threads : owns(t) = "no"
  BY DEF owns
<1>4. Writers = {} /\ Readers = {} /\ WaitingReaders = {} /\ QueuedWriters = {}
  BY <1>3 DEF Writers, Readers, WaitingReaders, QueuedWriters
<1>5. LockWordTrue
  BY <1>4, FS_EmptySet DEF LockWordTrue, Unlocked
<1>6. WaitersAreManaged /\ CondvarWordTrue /\ OtherAssertsHold
  BY DEF WaitersAreManaged, CondvarWordTrue, OtherAssertsHold, NoInfo
<1>7. Range(<<>>) = {} /\ IsInjective(<<>>)
  BY DEF Range, IsInjective
<1>8. QueuesMatchThreads
  BY <1>4, <1>7, FS_EmptySet DEF QueuesMatchThreads, NoInfo
<1> QED BY <1>1, <1>2, <1>5, <1>6, <1>8 DEF IInv

\* Every step of every thread keeps it.
LEMMA NextInv ==
  IInv /\ [Next]_vars => IInv'
<1> SUFFICES ASSUME IInv, [Next]_vars PROVE IInv'
  OBVIOUS
<1>1. CASE UNCHANGED vars
  <2>1. UNCHANGED <<lock, info, condvar, cv, phase, timed, woken, holds, failed>>
    BY <1>1 DEF vars
  <2>2. /\ Readers' = Readers /\ Writers' = Writers
        /\ WaitingReaders' = WaitingReaders /\ QueuedWriters' = QueuedWriters
    BY <2>1 DEF Readers, Writers, WaitingReaders, QueuedWriters, owns
  <2>3. TypeOK' /\ PhasesMatch'
    BY <2>1 DEF IInv, TypeOK, PhasesMatch
  <2>4. LockWordTrue' /\ WaitersAreManaged' /\ CondvarWordTrue' /\ OtherAssertsHold'
    BY <2>1, <2>2
    DEF IInv, LockWordTrue, WaitersAreManaged, CondvarWordTrue, OtherAssertsHold
  <2>5. QueuesMatchThreads'
    BY <2>1, <2>2 DEF IInv, QueuesMatchThreads
  <2> QED BY <2>3, <2>4, <2>5 DEF IInv
<1>2. CASE Next
  <2>1. TypeOK'
    BY <1>2, TypeStep
  <2> SUFFICES ASSUME NEW t \in Threads, failed = {}, Step(t) PROVE IInv'
    BY <1>2 DEF Next
  <2>2. CASE \/ UserWrLock(t) \/ UserRdLock(t) \/ UserSignalCheck(t)
             \/ UserWrUnlock(t) \/ UserRdUnlock(t) \/ UserRdConvert(t)
    BY <2>1, <2>2, UserSteps
  <2>3. CASE LockUnlock(t)
    <3>1. /\ phase[t] \in {"user", "unlock"} /\ holds[t] # "read"
          /\ drop_userspace_lock(t)
          /\ phase' = [phase EXCEPT ![t] = "user"]
          /\ holds' = [holds EXCEPT ![t] = "no"]
          /\ UNCHANGED <<condvar, cv, timed>>
      BY <2>3 DEF LockUnlock
    <3> QED BY <2>1, <3>1, DropStep
  <2>4. CASE ThreadExit(t)
    <3>1. /\ phase[t] \in {"user", "unlock"} /\ holds[t] # "read"
          /\ drop_userspace_lock(t)
          /\ phase' = [phase EXCEPT ![t] = "exited"]
          /\ holds' = [holds EXCEPT ![t] = "no"]
          /\ UNCHANGED <<condvar, cv, timed>>
      BY <2>4 DEF ThreadExit
    <3> QED BY <2>1, <3>1, DropStep
  <2>5. ASSUME NEW deadline \in BOOLEAN, PollCondvar(t, deadline) PROVE IInv'
    <3>1. /\ phase[t] \in {"user", "unlock"} /\ holds[t] # "read"
          /\ drop_userspace_lock(t)
          /\ phase' = [phase EXCEPT ![t] = "cvwait"]
          /\ holds' = [holds EXCEPT ![t] = "no"]
          /\ cv' = [here |-> TRUE, waiting |-> Append(cv.waiting, t)]
          /\ condvar' = 1
          /\ timed' = [timed EXCEPT ![t] = deadline]
      BY <2>5 DEF PollCondvar, Wait
    <3>2. \A u \in Threads \ {t} : timed'[u] = timed[u]
      BY <3>1 DEF IInv, TypeOK
    <3> QED BY <2>1, <3>1, <3>2, DropStep
  <2>6. ASSUME NEW type \in {"read", "write"}, NEW deadline \in BOOLEAN,
               PollLock(t, type, deadline)
        PROVE  IInv'
    BY <2>1, <2>6, PollLockStep
  <2>7. ASSUME NEW n \in NWaiters, CondvarSignal(t, n) PROVE IInv'
    BY <2>1, <2>7, SignalStep
  <2>8. CASE Timeout(t)
    BY <2>1, <2>8, TimeoutStep
  <2>9. CASE PollGranted(t)
    BY <2>1, <2>9, GrantedStep
  <2>10. CASE PollLockCancelled(t)
    BY <2>1, <2>10, LockCancelledStep
  <2>11. CASE PollCondvarCancelled(t)
    BY <2>1, <2>11, CondvarCancelledStep
  <2> QED BY <2>2, <2>3, <2>4, <2>5, <2>6, <2>7, <2>8, <2>9, <2>10, <2>11
          DEF Step, Unlock, Resume
<1> QED BY <1>1, <1>2

\* The lock and condvar protocol keeps its inductive invariant, for any finite set
\* of threads and any sequence of userland operations, polls, deadlines and
\* signals.
THEOREM InvariantHolds == Spec => []IInv
<1> QED BY InitInv, NextInv, PTL DEF Spec

\* The lock word always tells the truth about who has the lock: mutual exclusion
\* and the reader count, for any number of threads (acquisition, hand-over and
\* cancellation in fd/thread.cpp).
THEOREM LockWordAlwaysTrue == Spec => []LockWordTrue
<1>1. IInv => LockWordTrue
  BY DEF IInv
<1> QED BY <1>1, InvariantHolds, PTL

\* Nobody waits in the kernel for a lock that userland may release on its own.
THEOREM WaitersAlwaysManaged == Spec => []WaitersAreManaged
<1>1. IInv => WaitersAreManaged
  BY DEF IInv
<1> QED BY <1>1, InvariantHolds, PTL

\* Every waiting thread is queued exactly once, where it waits.
THEOREM QueuesAlwaysMatch == Spec => []QueuesMatchThreads
<1>1. IInv => QueuesMatchThreads
  BY DEF IInv
<1> QED BY <1>1, InvariantHolds, PTL

\* No assertion of the lock and condvar code fails, other than the one of
\* thread.cpp:460, and a condvar word of zero has no waiters.
THEOREM AssertsAlwaysHold == Spec => [](OtherAssertsHold /\ CondvarWordTrue /\ TypeOK)
<1>1. IInv => OtherAssertsHold /\ CondvarWordTrue /\ TypeOK
  BY DEF IInv
<1> QED BY <1>1, InvariantHolds, PTL
=============================================================================
