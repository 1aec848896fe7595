------------------------ MODULE UserlandLocksLemmas ------------------------
(***************************************************************************)
(* Proof that the lock and condvar protocol keeps IInv, for any number of  *)
(* threads.                                                                *)
(***************************************************************************)
EXTENDS UserlandLocks, LinkedListProofs, FiniteSetTheorems

\* Type correctness is kept by the operators shared between the handlers.
LEMMA HandOverType ==
  ASSUME TypeOK, NEW q \in Seq(Threads), q # <<>>, HandOver(q, info.readers)
  PROVE  /\ lock' \in [wr : BOOLEAN, km : BOOLEAN, low : Nat]
         /\ info' \in [here : BOOLEAN, readers : Nat, writers : Seq(Threads)]
         /\ woken' \in [Threads -> SUBSET {"lock", "clock"}]
         /\ failed' \in SUBSET Asserts
<1>1. Head(q) \in Threads /\ Tail(q) \in Seq(Threads)
  BY HeadTailProperties
<1>2. Head(q) \in Nat
  BY <1>1, ThreadsAssumption
<1>3. lock' \in [wr : BOOLEAN, km : BOOLEAN, low : Nat]
  BY <1>2 DEF HandOver
<1>4. info' \in [here : BOOLEAN, readers : Nat, writers : Seq(Threads)]
  BY <1>1 DEF HandOver, TypeOK, NoInfo
<1>5. woken' \in [Threads -> SUBSET {"lock", "clock"}]
  BY <1>1 DEF HandOver, TypeOK
<1>6. failed' \in SUBSET Asserts
  BY DEF HandOver, TypeOK, Check, Asserts
<1> QED BY <1>3, <1>4, <1>5, <1>6

\* drop_userspace_lock keeps the types: what it leaves in the lock word and the wait queues is of
\* the declared kind.
LEMMA DropType ==
  ASSUME TypeOK, NEW t \in Threads, drop_userspace_lock(t)
  PROVE  /\ lock' \in [wr : BOOLEAN, km : BOOLEAN, low : Nat]
         /\ info' \in [here : BOOLEAN, readers : Nat, writers : Seq(Threads)]
         /\ woken' \in [Threads -> SUBSET {"lock", "clock"}]
         /\ failed' \in SUBSET Asserts
<1>1. CASE UNCHANGED <<lock, info, woken, failed>>
  BY <1>1 DEF TypeOK
<1>2. CASE info.writers # <<>> /\ HandOver(info.writers, info.readers)
  <2>1. info.writers \in Seq(Threads)
    BY DEF TypeOK
  <2> QED BY <1>2, <2>1, HandOverType
<1>3. CASE /\ lock' = [Unlocked EXCEPT !.low = info.readers]
           /\ info' = NoInfo
           /\ woken' = ReadersGranted
           /\ UNCHANGED failed
  <2>1. lock' \in [wr : BOOLEAN, km : BOOLEAN, low : Nat]
    BY <1>3 DEF TypeOK, Unlocked
  <2>2. info' \in [here : BOOLEAN, readers : Nat, writers : Seq(Threads)]
    BY <1>3 DEF NoInfo
  <2>3. woken' \in [Threads -> SUBSET {"lock", "clock"}]
    BY <1>3 DEF TypeOK, ReadersGranted
  <2> QED BY <1>3, <2>1, <2>2, <2>3 DEF TypeOK
<1> QED BY <1>1, <1>2, <1>3 DEF drop_userspace_lock

\* Removing a cancelled waiter from a wait queue keeps the queue a sequence of threads (remove_one).
LEMMA RemoveType ==
  ASSUME NEW S, NEW q \in Seq(S), NEW x
  PROVE  remove_one(q, x) \in Seq(S)
<1>1. CASE x \notin Range(q)
  BY <1>1 DEF remove_one
<1>2. CASE x \in Range(q)
  <2> DEFINE k == CHOOSE i \in DOMAIN q : q[i] = x /\ \A j \in 1..(i - 1) : q[j] # x
  <2>1. remove_one(q, x) = [i \in 1..(Len(q) - 1) |-> q[IF i < k THEN i ELSE i + 1]]
    BY <1>2 DEF remove_one
  <2> HIDE DEF k
  <2>2. Len(q) \in Nat /\ DOMAIN q = 1..Len(q) /\ \A i \in 1..Len(q) : q[i] \in S
    BY LenProperties, ElementOfSeq
  <2>3. Len(q) - 1 \in Nat
    BY <1>2, <2>2 DEF Range
  <2>4. \A i \in 1..(Len(q) - 1) : q[IF i < k THEN i ELSE i + 1] \in S
    BY <2>2
  <2>5. remove_one(q, x) \in [1..(Len(q) - 1) -> S]
    BY <2>1, <2>4
  <2> QED BY <2>3, <2>5, SeqDef
<1> QED BY <1>1, <1>2

\* signal_userspace_cv keeps the types while it moves waiters from the condvar to the lock's queue.
LEMMA SignalType ==
  ASSUME TypeOK, NEW n \in Nat, signal_userspace_cv(n)
  PROVE  /\ lock' \in [wr : BOOLEAN, km : BOOLEAN, low : Nat]
         /\ info' \in [here : BOOLEAN, readers : Nat, writers : Seq(Threads)]
         /\ woken' \in [Threads -> SUBSET {"lock", "clock"}]
         /\ failed' \in SUBSET Asserts
         /\ cv' \in [here : BOOLEAN, waiting : Seq(Threads)]
         /\ condvar' \in {0, 1}
<1> DEFINE moved   == IF n < Len(cv.waiting) THEN n ELSE Len(cv.waiting)
           front   == SubSeq(cv.waiting, 1, moved)
           waiting == SubSeq(cv.waiting, moved + 1, Len(cv.waiting))
           writers == info.writers \o front
<1>1. cv.waiting \in Seq(Threads) /\ info.writers \in Seq(Threads) /\ Len(cv.waiting) \in Nat
  BY LenProperties DEF TypeOK
<1>2. moved \in 0..Len(cv.waiting)
  BY <1>1
<1>3. \A i \in 1..Len(cv.waiting) : cv.waiting[i] \in Threads
  BY <1>1, ElementOfSeq
<1> HIDE DEF moved
<1>4. front \in Seq(Threads)
  BY <1>1, <1>2, <1>3, SubSeqProperties
<1>5. waiting \in Seq(Threads)
  BY <1>1, <1>2, <1>3, SubSeqProperties
<1>6. writers \in Seq(Threads)
  BY <1>1, <1>4, ConcatProperties
<1>7. /\ cv' = [cv EXCEPT !.waiting = waiting]
      /\ condvar' = IF waiting = <<>> THEN 0 ELSE condvar
      /\ \/ /\ lock.low = 0 /\ writers # <<>>
            /\ HandOver(writers, info.readers)
         \/ /\ ~(lock.low = 0 /\ writers # <<>>)
            /\ lock' = [lock EXCEPT !.km = TRUE]
            /\ info' = [info EXCEPT !.here = TRUE, !.writers = writers]
            /\ UNCHANGED <<woken, failed>>
  BY DEF signal_userspace_cv, moved
<1> HIDE DEF front, waiting, writers
<1>8. cv' \in [here : BOOLEAN, waiting : Seq(Threads)] /\ condvar' \in {0, 1}
  BY <1>5, <1>7 DEF TypeOK
<1>9. CASE writers # <<>> /\ HandOver(writers, info.readers)
  BY <1>6, <1>8, <1>9, HandOverType
<1>10. CASE /\ lock' = [lock EXCEPT !.km = TRUE]
            /\ info' = [info EXCEPT !.here = TRUE, !.writers = writers]
            /\ UNCHANGED <<woken, failed>>
  BY <1>6, <1>8, <1>10 DEF TypeOK
<1> QED BY <1>7, <1>9, <1>10

\* What the invariant says of the sets of owners and waiters.
LEMMA Basics ==
  ASSUME IInv
  PROVE  /\ IsFiniteSet(Readers) /\ Cardinality(Readers) \in Nat
         /\ IsFiniteSet(WaitingReaders) /\ Cardinality(WaitingReaders) \in Nat
         /\ info.writers \in Seq(Threads) /\ cv.waiting \in Seq(Threads)
         /\ Range(cv.waiting) \subseteq Threads
         /\ info.writers = <<>> <=> QueuedWriters = {}
         /\ info.readers = 0 <=> WaitingReaders = {}
         /\ Readers = {} <=> Cardinality(Readers) = 0
<1>1. IsFiniteSet(Readers) /\ Cardinality(Readers) \in Nat
  BY ThreadsAssumption, FS_Subset, FS_CardinalityType DEF Readers
<1>2. IsFiniteSet(WaitingReaders) /\ Cardinality(WaitingReaders) \in Nat
  BY ThreadsAssumption, FS_Subset, FS_CardinalityType DEF WaitingReaders
<1>3. info.writers \in Seq(Threads) /\ cv.waiting \in Seq(Threads)
  BY DEF IInv, TypeOK
<1>4. info.writers = <<>> <=> QueuedWriters = {}
  BY <1>3, EmptyRange DEF IInv, QueuesMatchThreads
<1>5. info.readers = 0 <=> WaitingReaders = {}
  BY <1>2, FS_EmptySet DEF IInv, QueuesMatchThreads
<1>6. Readers = {} <=> Cardinality(Readers) = 0
  BY <1>1, FS_EmptySet
<1>7. Range(cv.waiting) \subseteq Threads
  BY <1>3, RangeOfSeq
<1> QED BY <1>1, <1>2, <1>3, <1>4, <1>5, <1>6, <1>7

\* A free lock has no owner and no waiter.
LEMMA FreeLock ==
  ASSUME IInv, lock.low = 0
  PROVE  /\ ~lock.wr /\ Writers = {} /\ Readers = {}
         /\ info.writers = <<>> /\ info.readers = 0
         /\ QueuedWriters = {} /\ WaitingReaders = {}
<1>1. ~lock.wr
  <2>1. lock.wr => lock.low \in Threads
    BY DEF IInv, LockWordTrue, Writers
  <2> QED BY <2>1, ThreadsAssumption
<1>2. Writers = {} /\ Readers = {}
  BY <1>1, Basics DEF IInv, LockWordTrue
<1>3. info.writers = <<>> /\ info.readers = 0
  BY DEF IInv, WaitersAreManaged
<1> QED BY <1>1, <1>2, <1>3, Basics

\* A thread that holds a read lock is counted, one that holds the write lock is
\* named in the word.
LEMMA HeldLock ==
  ASSUME IInv, NEW t \in Threads
  PROVE  /\ owns(t) = "read" => ~lock.wr /\ lock.low >= 1 /\ Writers = {}
         /\ owns(t) = "write" => lock.wr /\ lock.low = t /\ Writers = {t} /\ Readers = {}
         /\ lock.wr /\ lock.low = t => owns(t) = "write"
<1>1. ASSUME owns(t) = "read" PROVE ~lock.wr /\ lock.low >= 1 /\ Writers = {}
  <2>1. t \in Readers
    BY <1>1 DEF Readers
  <2> QED BY <2>1, Basics DEF IInv, LockWordTrue
<1>2. ASSUME owns(t) = "write" PROVE lock.wr /\ lock.low = t /\ Writers = {t} /\ Readers = {}
  <2>1. t \in Writers
    BY <1>2 DEF Writers
  <2> QED BY <2>1 DEF IInv, LockWordTrue
<1>3. ASSUME lock.wr, lock.low = t PROVE owns(t) = "write"
  BY <1>3 DEF IInv, LockWordTrue, Writers
<1> QED BY <1>1, <1>2, <1>3

\* Every step keeps the types; that the reader count stays a natural number needs
\* the whole invariant.
LEMMA TypeStep ==
  ASSUME IInv, Next
  PROVE  TypeOK'
<1> USE DEF TypeOK
<1> TypeOK
  BY DEF IInv
<1>0. /\ Threads \subseteq Nat /\ NWaiters \subseteq Nat
      /\ lock.low + 1 \in Nat /\ info.readers + 1 \in Nat
  BY ThreadsAssumption
<1> SUFFICES ASSUME NEW t \in Threads, failed = {}, Step(t) PROVE TypeOK'
  BY DEF Next
<1>1. CASE UserWrLock(t)
  BY <1>0, <1>1 DEF UserWrLock
<1>2. CASE UserRdLock(t)
  BY <1>2 DEF UserRdLock
<1>3. CASE UserSignalCheck(t)
  BY <1>3 DEF UserSignalCheck
<1>4. CASE UserWrUnlock(t)
  BY <1>4 DEF UserWrUnlock, Unlocked
<1>6. CASE UserRdConvert(t)
  BY <1>0, <1>6 DEF UserRdConvert
<1>7. CASE LockUnlock(t)
  BY <1>7, DropType DEF LockUnlock
<1>8. ASSUME NEW type \in {"read", "write"}, NEW deadline \in BOOLEAN,
             PollLock(t, type, deadline)
      PROVE  TypeOK'
  <2>1. CASE can_acquire(type) /\ lock' = acquired_word(t, type)
             /\ holds' = [holds EXCEPT ![t] = type] /\ UNCHANGED <<info, phase, timed>>
    <3>1. lock' \in [wr : BOOLEAN, km : BOOLEAN, low : Nat]
      <4>1. CASE lock.low # 0
        BY <1>0, <2>1, <4>1 DEF acquired_word
      <4>2. CASE lock.low = 0 /\ type = "write"
        BY <1>0, <2>1, <4>2 DEF acquired_word
      <4>3. CASE lock.low = 0 /\ type # "write"
        BY <2>1, <4>3 DEF acquired_word, Unlocked
      <4> QED BY <4>1, <4>2, <4>3
    <3>2. UNCHANGED <<condvar, cv, woken, failed>>
      BY <1>8 DEF PollLock
    <3> QED BY <2>1, <3>1, <3>2
  <2>2. CASE enqueue(t, type) /\ UNCHANGED holds
             /\ Wait(t, IF type = "write" THEN "wrwait" ELSE "rdwait", deadline)
    <3>1. Append(info.writers, t) \in Seq(Threads)
      BY AppendProperties
    <3>2. info' \in [here : BOOLEAN, readers : Nat, writers : Seq(Threads)]
      <4>1. CASE type = "write"
        BY <2>2, <3>1, <4>1 DEF enqueue
      <4>2. CASE type # "write"
        BY <1>0, <2>2, <4>2 DEF enqueue
      <4> QED BY <4>1, <4>2
    <3>3. UNCHANGED <<condvar, cv, woken, failed>>
      BY <1>8 DEF PollLock
    <3> QED BY <2>2, <3>2, <3>3 DEF enqueue, Wait
  <2> QED BY <1>8, <2>1, <2>2 DEF PollLock
<1>9. ASSUME NEW deadline \in BOOLEAN, PollCondvar(t, deadline) PROVE TypeOK'
  <2>1. Append(cv.waiting, t) \in Seq(Threads)
    BY AppendProperties
  <2> QED BY <1>9, <2>1, DropType DEF PollCondvar, Wait
<1>10. ASSUME NEW n \in NWaiters, CondvarSignal(t, n) PROVE TypeOK'
  <2>1. n \in Nat
    BY <1>0
  <2>2. CASE UNCHANGED <<lock, info, condvar, cv, woken>>
             /\ (\/ Check("condvar == HAS_NO_WAITERS", condvar = 0)
                 \/ Check("condvar != HAS_NO_WAITERS", FALSE))
    BY <1>10, <2>2 DEF CondvarSignal, Check, Asserts
  <2>3. CASE signal_userspace_cv(n)
    BY <1>10, <2>1, <2>3, SignalType DEF CondvarSignal
  <2> QED BY <1>10, <2>2, <2>3 DEF CondvarSignal
<1>11. CASE Timeout(t)
  BY <1>11 DEF Timeout
<1>12. CASE PollGranted(t)
  BY <1>12 DEF PollGranted, Return
<1>13. CASE PollLockCancelled(t)
  <2>1. remove_one(info.writers, t) \in Seq(Threads)
    BY RemoveType
  <2>2. info' \in [here : BOOLEAN, readers : Nat, writers : Seq(Threads)]
    <3>1. \/ info' = [info EXCEPT !.writers = remove_one(@, t)]
          \/ info' = [info EXCEPT !.readers = IF @ = 0 THEN 0 ELSE @ - 1]
      BY <1>13 DEF PollLockCancelled, cancel_userspace_lock
    <3>2. CASE info' = [info EXCEPT !.writers = remove_one(@, t)]
      BY <2>1, <3>2
    <3>3. CASE info' = [info EXCEPT !.readers = IF @ = 0 THEN 0 ELSE @ - 1]
      <4>1. (IF info.readers = 0 THEN 0 ELSE info.readers - 1) \in Nat
        OBVIOUS
      <4> QED BY <3>3, <4>1
    <3> QED BY <3>1, <3>2, <3>3
  <2>3. failed' \in SUBSET Asserts
    BY <1>13 DEF PollLockCancelled, cancel_userspace_lock, Check, Asserts
  <2> QED BY <1>13, <2>2, <2>3 DEF PollLockCancelled, Return
<1>14. CASE PollCondvarCancelled(t)
  <2>1. remove_one(cv.waiting, t) \in Seq(Threads)
    BY RemoveType
  <2>2. Append(info.writers, t) \in Seq(Threads)
    BY AppendProperties
  <2>3. cv' \in [here : BOOLEAN, waiting : Seq(Threads)] /\ condvar' \in {0, 1}
    BY <1>14, <2>1 DEF PollCondvarCancelled
  <2>4. CASE lock.low = 0
    <3>1. /\ lock' = [wr |-> TRUE, km |-> FALSE, low |-> t]
          /\ Return(t, "write")
          /\ UNCHANGED info
      BY <1>14, <2>4 DEF PollCondvarCancelled
    <3>2. failed' \in SUBSET Asserts
      BY <1>14, <2>4 DEF PollCondvarCancelled, Check, Asserts
    <3> QED BY <1>0, <2>3, <3>1, <3>2 DEF Return
  <2>5. CASE lock.low # 0
    <3>1. /\ lock' = [lock EXCEPT !.km = TRUE]
          /\ info' = [info EXCEPT !.here = TRUE,
                        !.writers = IF t \in Range(cv.waiting) THEN Append(@, t) ELSE @]
          /\ Wait(t, "relock", FALSE)
          /\ woken' = [woken EXCEPT ![t] = {}]
          /\ UNCHANGED holds
      BY <1>14, <2>5 DEF PollCondvarCancelled
    <3>2. failed' \in SUBSET Asserts
      BY <1>14, <2>5 DEF PollCondvarCancelled, Check, Asserts
    <3> QED BY <2>2, <2>3, <3>1, <3>2 DEF Wait
  <2> QED BY <2>4, <2>5
<1>15. CASE ThreadExit(t)
  BY <1>15, DropType DEF ThreadExit
<1>5. CASE UserRdUnlock(t)
  <2>1. owns(t) = "read"
    BY <1>5 DEF UserRdUnlock, owns
  <2>2. lock.low >= 1 /\ lock.low - 1 \in Nat
    BY <2>1, HeldLock
  <2> QED BY <1>5, <2>2 DEF UserRdUnlock
<1> QED BY <1>1, <1>2, <1>3, <1>4, <1>5, <1>6, <1>7, <1>8, <1>9, <1>10, <1>11,
           <1>12, <1>13, <1>14, <1>15 DEF Step, Unlock, Resume

----------------------------------------------------------------------------
\* A step that leaves the queues and the waiting threads alone keeps the queues
\* in step with the threads.
LEMMA QueueFrame ==
  ASSUME QueuesMatchThreads, UNCHANGED <<info, cv>>,
         \A u \in Threads :
           \/ phase'[u] = phase[u] /\ ("lock" \in woken'[u] <=> "lock" \in woken[u])
           \/ /\ phase[u] \notin {"rdwait", "wrwait", "cvwait", "relock"}
              /\ phase'[u] \notin {"rdwait", "wrwait", "cvwait", "relock"},
         cv.waiting \in Seq(Threads)
  PROVE  QueuesMatchThreads' /\ WaitingReaders' = WaitingReaders
<1>1. WaitingReaders' = WaitingReaders
  BY DEF WaitingReaders
<1>2. QueuedWriters' = QueuedWriters
  BY DEF QueuedWriters
<1>3. Range(cv.waiting) \subseteq Threads
  BY RangeOfSeq
<1>4. \A u \in Range(cv.waiting) : phase'[u] = "cvwait" /\ "lock" \notin woken'[u]
  BY <1>3 DEF QueuesMatchThreads
<1> QED BY <1>1, <1>2, <1>4 DEF QueuesMatchThreads

\* The owners after a step that only changes what thread t holds.
LEMMA OwnersChange ==
  ASSUME TypeOK, NEW t \in Threads, NEW w \in {"no", "read", "write"},
         holds' = [holds EXCEPT ![t] = w], UNCHANGED woken,
         \A u \in Threads \ {t} : phase'[u] = phase[u],
         woken[t] = {}
  PROVE  /\ Writers' = IF w = "write" THEN Writers \cup {t} ELSE Writers \ {t}
         /\ Readers' = IF w = "read" THEN Readers \cup {t} ELSE Readers \ {t}
<1>1. owns(t)' = w
  BY DEF owns, TypeOK
<1>2. \A u \in Threads \ {t} : owns(u)' = owns(u)
  BY DEF owns, TypeOK
<1> QED BY <1>1, <1>2 DEF Writers, Readers

\* The steps that change only the lock word from userland, without the kernel, keep the invariant.
LEMMA UserSteps ==
  ASSUME IInv, TypeOK', NEW t \in Threads,
         \/ UserWrLock(t) \/ UserRdLock(t) \/ UserWrUnlock(t) \/ UserRdUnlock(t)
         \/ UserRdConvert(t) \/ UserSignalCheck(t)
  PROVE  IInv'
<1> USE DEF IInv
<1>1. UNCHANGED <<info, condvar, cv, timed, woken, failed>>
  BY DEF UserWrLock, UserRdLock, UserWrUnlock, UserRdUnlock, UserRdConvert, UserSignalCheck
<1>2. /\ phase[t] = "user" /\ woken[t] = {}
      /\ \A u \in Threads \ {t} : phase'[u] = phase[u]
      /\ phase'[t] \in {"user", "signal", "unlock"}
  <2>1. phase[t] = "user"
    BY DEF UserWrLock, UserRdLock, UserWrUnlock, UserRdUnlock, UserRdConvert, UserSignalCheck
  <2>2. \E ph \in {"user", "signal", "unlock"} : phase' = [phase EXCEPT ![t] = ph]
    <3>1. \/ phase' = phase
          \/ phase' = [phase EXCEPT ![t] = "unlock"]
          \/ phase' = [phase EXCEPT ![t] = "signal"]
      BY DEF UserWrLock, UserRdLock, UserWrUnlock, UserRdUnlock, UserRdConvert, UserSignalCheck
    <3>2. phase = [phase EXCEPT ![t] = "user"]
      BY <2>1 DEF TypeOK
    <3> QED BY <3>1, <3>2
  <2>3. woken[t] = {}
    BY <2>1 DEF PhasesMatch
  <2>4. DOMAIN phase = Threads
    BY DEF TypeOK
  <2>5. /\ \A u \in Threads \ {t} : phase'[u] = phase[u]
        /\ phase'[t] \in {"user", "signal", "unlock"}
    BY <2>2, <2>4
  <2> QED BY <2>1, <2>3, <2>5
<1>3. QueuesMatchThreads' /\ WaitingReaders' = WaitingReaders
  <2>1. \A u \in Threads :
           \/ phase'[u] = phase[u] /\ ("lock" \in woken'[u] <=> "lock" \in woken[u])
           \/ /\ phase[u] \notin {"rdwait", "wrwait", "cvwait", "relock"}
              /\ phase'[u] \notin {"rdwait", "wrwait", "cvwait", "relock"}
    BY <1>1, <1>2
  <2> QED BY <1>1, <2>1, QueueFrame, Basics
<1>4. CondvarWordTrue' /\ OtherAssertsHold'
  BY <1>1 DEF CondvarWordTrue, OtherAssertsHold
<1>5. PhasesMatch'
  <2>1. holds'[t] # "no" => phase'[t] \in {"user", "unlock", "signal"}
    BY <1>2
  <2>2. phase'[t] = "unlock" => holds'[t] = "write"
    BY <1>2 DEF UserWrLock, UserRdLock, UserWrUnlock, UserRdUnlock, UserRdConvert, UserSignalCheck, TypeOK
  <2>3. \A u \in Threads \ {t} : holds'[u] = holds[u]
    BY DEF UserWrLock, UserRdLock, UserWrUnlock, UserRdUnlock, UserRdConvert, UserSignalCheck, TypeOK
  <2>4. phase'[t] # "cvwait"
    BY <1>2
  <2>5. ~timed[t]
    BY <1>2 DEF PhasesMatch
  <2> QED BY <1>1, <1>2, <2>1, <2>2, <2>3, <2>4, <2>5 DEF PhasesMatch, NoInfo
<1>6. CASE UserWrLock(t)
  <2>1. lock.low = 0 /\ lock'.wr /\ lock'.low = t
    BY <1>6 DEF UserWrLock, Unlocked
  <2>2. Writers' = {t} /\ Readers' = {}
    BY <1>1, <1>2, <1>6, <2>1, FreeLock, OwnersChange DEF UserWrLock
  <2>3. LockWordTrue'
    BY <2>1, <2>2 DEF LockWordTrue
  <2>4. WaitersAreManaged'
    BY <1>1, <2>1, FreeLock DEF WaitersAreManaged
  <2> QED BY <1>3, <1>4, <1>5, <2>3, <2>4
<1>7. CASE UserRdLock(t)
  <2>1. ~lock.wr /\ ~lock.km /\ ~lock'.wr /\ lock'.low = lock.low + 1
    BY <1>7 DEF UserRdLock, TypeOK
  <2>2. Writers' = {} /\ Readers' = Readers \cup {t} /\ t \notin Readers
    <3>1. owns(t) = "no"
      BY <1>2, <1>7 DEF UserRdLock, owns
    <3> QED BY <1>1, <1>2, <1>7, <2>1, <3>1, OwnersChange DEF UserRdLock, LockWordTrue, Readers
  <2>3. LockWordTrue'
    <3>1. Cardinality(Readers') = Cardinality(Readers) + 1
      BY <2>2, Basics, FS_AddElement
    <3>2. lock.low = Cardinality(Readers)
      BY <2>1 DEF LockWordTrue
    <3> QED BY <2>1, <2>2, <3>1, <3>2 DEF LockWordTrue
  <2>4. WaitersAreManaged'
    BY <1>1, <2>1 DEF WaitersAreManaged
  <2> QED BY <1>3, <1>4, <1>5, <2>3, <2>4
<1>8. CASE UserWrUnlock(t)
  <2>1. owns(t) = "write" /\ lock' = Unlocked /\ ~lock.km
    BY <1>8 DEF UserWrUnlock, owns
  <2>2. Writers' = {} /\ Readers' = {}
    BY <1>1, <1>2, <1>8, <2>1, HeldLock, OwnersChange DEF UserWrUnlock
  <2>3. LockWordTrue'
    BY <2>1, <2>2, FS_EmptySet DEF LockWordTrue, Unlocked
  <2>4. WaitersAreManaged'
    BY <1>1, <2>1 DEF WaitersAreManaged
  <2> QED BY <1>3, <1>4, <1>5, <2>3, <2>4
<1>9. CASE UserRdUnlock(t)
  <2>1. owns(t) = "read" /\ t \in Readers
    BY <1>9 DEF UserRdUnlock, owns, Readers
  <2>2. ~lock.wr /\ ~lock'.wr /\ lock'.low = lock.low - 1 /\ lock'.km = lock.km
    BY <1>9, <2>1, HeldLock DEF UserRdUnlock, TypeOK
  <2>3. Writers' = {} /\ Readers' = Readers \ {t}
    BY <1>1, <1>2, <1>9, <2>1, HeldLock, OwnersChange DEF UserRdUnlock
  <2>4. LockWordTrue'
    BY <2>1, <2>2, <2>3, Basics, FS_RemoveElement DEF LockWordTrue
  <2>5. WaitersAreManaged'
    <3>1. lock.km => lock.low # 1
      BY <1>9 DEF UserRdUnlock
    <3>2. lock.low \in Nat
      BY DEF TypeOK
    <3> QED BY <1>1, <2>2, <3>1, <3>2 DEF WaitersAreManaged
  <2> QED BY <1>3, <1>4, <1>5, <2>4, <2>5
<1>10. CASE UserRdConvert(t)
  <2>1. owns(t) = "read" /\ t \in Readers /\ lock.low = 1 /\ ~lock.wr
    BY <1>10 DEF UserRdConvert, owns, Readers
  <2>2. lock'.wr /\ lock'.low = t /\ lock'.km /\ lock'.low # 0
    BY <1>10, ThreadsAssumption DEF UserRdConvert
  <2>3. Readers \ {t} = {}
    <3>1. Cardinality(Readers) = 1
      BY <2>1 DEF LockWordTrue
    <3>2. IsFiniteSet(Readers \ {t}) /\ Cardinality(Readers \ {t}) = 1 - 1
      BY <2>1, <3>1, Basics, FS_RemoveElement
    <3> QED BY <3>2, FS_EmptySet
  <2>4. Writers' = {t} /\ Readers' = {}
    BY <1>1, <1>2, <1>10, <2>1, <2>3, HeldLock, OwnersChange DEF UserRdConvert
  <2>5. LockWordTrue'
    BY <2>2, <2>4 DEF LockWordTrue
  <2>6. WaitersAreManaged'
    BY <1>1, <2>2 DEF WaitersAreManaged
  <2> QED BY <1>3, <1>4, <1>5, <2>5, <2>6
<1>11. CASE UserSignalCheck(t)
  <2>1. UNCHANGED <<lock, holds>>
    BY <1>11 DEF UserSignalCheck
  <2>2. \A u \in Threads : owns(u)' = owns(u)
    BY <1>1, <1>2, <2>1 DEF owns
  <2>3. LockWordTrue'
    BY <2>1, <2>2 DEF LockWordTrue, Writers, Readers
  <2>4. WaitersAreManaged'
    BY <1>1, <2>1 DEF WaitersAreManaged
  <2> QED BY <1>3, <1>4, <1>5, <2>3, <2>4
<1> QED BY <1>6, <1>7, <1>8, <1>9, <1>10, <1>11

\* Entering the kernel to wait for the lock (acquire_userspace_lock) keeps the invariant.
LEMMA PollLockStep ==
  ASSUME IInv, TypeOK', NEW t \in Threads, NEW type \in {"read", "write"},
         NEW deadline \in BOOLEAN, PollLock(t, type, deadline)
  PROVE  IInv'
<1> USE DEF IInv
<1>1. /\ phase[t] = "user" /\ woken[t] = {} /\ holds[t] = "no" /\ owns(t) = "no"
      /\ t \notin Readers /\ t \notin Writers
  BY DEF PollLock, PhasesMatch, owns, Readers, Writers
<1>2. UNCHANGED <<condvar, cv, woken, failed>>
  BY DEF PollLock
<1>3. CondvarWordTrue' /\ OtherAssertsHold'
  BY <1>2 DEF CondvarWordTrue, OtherAssertsHold
<1>4. CASE /\ can_acquire(type)
           /\ lock' = acquired_word(t, type)
           /\ holds' = [holds EXCEPT ![t] = type]
           /\ UNCHANGED <<info, phase, timed>>
  <2>1. QueuesMatchThreads' /\ WaitingReaders' = WaitingReaders
    BY <1>2, <1>4, QueueFrame, Basics
  <2>2. PhasesMatch'
    BY <1>1, <1>2, <1>4 DEF PhasesMatch, TypeOK, NoInfo
  <2>3. /\ Writers' = IF type = "write" THEN Writers \cup {t} ELSE Writers \ {t}
        /\ Readers' = IF type = "read" THEN Readers \cup {t} ELSE Readers \ {t}
    BY <1>1, <1>2, <1>4, OwnersChange
  <2>4. CASE lock.low = 0 /\ type = "write"
    <3>1. lock'.wr /\ lock'.low = t
      BY <1>4, <2>4 DEF acquired_word
    <3>2. Writers' = {t} /\ Readers' = {}
      BY <2>3, <2>4, FreeLock
    <3>3. WaitersAreManaged'
      BY <1>4, <2>4, FreeLock DEF WaitersAreManaged
    <3> QED BY <1>3, <2>1, <2>2, <3>1, <3>2, <3>3 DEF LockWordTrue
  <2>5. CASE lock.low = 0 /\ type = "read"
    <3>1. ~lock'.wr /\ lock'.low = 1
      BY <1>4, <2>5 DEF acquired_word, Unlocked
    <3>2. Writers' = {} /\ Readers' = {t}
      BY <2>3, <2>5, FreeLock
    <3>3. WaitersAreManaged'
      BY <1>4, <2>5, FreeLock DEF WaitersAreManaged
    <3>4. LockWordTrue'
      BY <3>1, <3>2, FS_Singleton DEF LockWordTrue
    <3> QED BY <1>3, <2>1, <2>2, <3>3, <3>4
  <2>6. CASE lock.low # 0
    <3>1. ~lock.wr /\ type = "read" /\ info.writers = <<>>
      BY <1>4, <2>6 DEF can_acquire
    <3>2. ~lock'.wr /\ lock'.km = lock.km /\ lock'.low = lock.low + 1
      BY <1>4, <2>6, <3>1 DEF acquired_word, TypeOK
    <3>3. Writers' = {} /\ Readers' = Readers \cup {t}
      BY <1>1, <2>3, <3>1 DEF LockWordTrue
    <3>4. Cardinality(Readers') = Cardinality(Readers) + 1
      BY <1>1, <3>3, Basics, FS_AddElement
    <3>5. LockWordTrue'
      BY <3>1, <3>2, <3>3, <3>4 DEF LockWordTrue
    <3>6. WaitersAreManaged'
      <4>1. lock'.low # 0
        BY <3>2 DEF TypeOK
      <4> QED BY <1>4, <3>2, <4>1 DEF WaitersAreManaged
    <3> QED BY <1>3, <2>1, <2>2, <3>5, <3>6
  <2> QED BY <2>4, <2>5, <2>6
<1>5. CASE /\ ~can_acquire(type)
           /\ enqueue(t, type)
           /\ Wait(t, IF type = "write" THEN "wrwait" ELSE "rdwait", deadline)
           /\ UNCHANGED holds
  <2>1. /\ lock.low # 0 /\ lock'.low = lock.low /\ lock'.wr = lock.wr /\ lock'.km
        /\ info'.here
    BY <1>5 DEF can_acquire, enqueue, TypeOK
  <2>2. /\ phase'[t] = IF type = "write" THEN "wrwait" ELSE "rdwait"
        /\ timed'[t] = deadline
        /\ \A u \in Threads \ {t} : phase'[u] = phase[u] /\ timed'[u] = timed[u]
    BY <1>5 DEF Wait, TypeOK
  <2>3. \A u \in Threads : owns(u)' = owns(u)
    BY <1>1, <1>2, <1>5, <2>2 DEF owns
  <2>4. LockWordTrue'
    BY <2>1, <2>3 DEF LockWordTrue, Readers, Writers
  <2>5. WaitersAreManaged'
    BY <2>1 DEF WaitersAreManaged
  <2>6. PhasesMatch'
    BY <1>1, <1>2, <1>5, <2>1, <2>2 DEF PhasesMatch
  <2>7. t \notin Range(cv.waiting) /\ Range(cv.waiting) \subseteq Threads
    BY <1>1, Basics, RangeOfSeq DEF QueuesMatchThreads
  <2>8. IsInjective(cv.waiting)' /\ \A u \in Range(cv'.waiting) : phase'[u] = "cvwait" /\ "lock" \notin woken'[u]
    BY <1>2, <2>2, <2>7 DEF QueuesMatchThreads
  <2>9. CASE type = "write"
    <3>1. info'.writers = Append(info.writers, t) /\ info'.readers = info.readers
      BY <1>5, <2>9 DEF enqueue, TypeOK
    <3>2. QueuedWriters' = QueuedWriters \cup {t} /\ t \notin QueuedWriters
      BY <1>1, <1>2, <2>2, <2>7, <2>9 DEF QueuedWriters
    <3>3. WaitingReaders' = WaitingReaders
      BY <1>1, <1>2, <2>2, <2>9 DEF WaitingReaders
    <3>4. IsInjective(info'.writers) /\ Range(info'.writers) = QueuedWriters'
      BY <3>1, <3>2, Basics, AppendRange DEF QueuesMatchThreads
    <3>5. QueuesMatchThreads'
      BY <2>8, <3>1, <3>3, <3>4 DEF QueuesMatchThreads
    <3> QED BY <1>3, <2>4, <2>5, <2>6, <3>5
  <2>10. CASE type = "read"
    <3>1. info'.writers = info.writers /\ info'.readers = info.readers + 1
      BY <1>5, <2>10 DEF enqueue, TypeOK
    <3>2. QueuedWriters' = QueuedWriters
      BY <1>1, <1>2, <2>2, <2>10 DEF QueuedWriters
    <3>3. WaitingReaders' = WaitingReaders \cup {t} /\ t \notin WaitingReaders
      BY <1>1, <1>2, <2>2, <2>10 DEF WaitingReaders
    <3>4. Cardinality(WaitingReaders') = Cardinality(WaitingReaders) + 1
      BY <3>3, Basics, FS_AddElement
    <3>5. QueuesMatchThreads'
      BY <2>8, <3>1, <3>2, <3>4 DEF QueuesMatchThreads
    <3> QED BY <1>3, <2>4, <2>5, <2>6, <3>5
  <2> QED BY <2>9, <2>10
<1> QED BY <1>4, <1>5 DEF PollLock

\* What handing the lock to the first waiting writer does.
LEMMA HandOverEffect ==
  ASSUME TypeOK, NEW q \in Seq(Threads), q # <<>>, IsInjective(q), HandOver(q, info.readers)
  PROVE  /\ Head(q) \in Range(q) /\ Head(q) \in Threads
         /\ lock'.wr /\ lock'.low = Head(q) /\ lock'.low # 0
         /\ woken' = [woken EXCEPT ![Head(q)] = @ \cup {"lock"}]
         /\ info'.readers = info.readers
         /\ IsInjective(info'.writers)
         /\ Range(info'.writers) = Range(q) \ {Head(q)}
         /\ WaitersAreManaged'
         /\ (info.here \/ info = NoInfo)'
         /\ has_conditions(Head(q)) => failed' = failed
<1>1. /\ Head(q) \in Range(q) /\ Head(q) \in Threads
      /\ Tail(q) \in Seq(Threads) /\ IsInjective(Tail(q))
      /\ Range(Tail(q)) = Range(q) \ {Head(q)}
  BY TailRange
<1>2. lock'.wr /\ lock'.low = Head(q) /\ lock'.km = (Tail(q) # <<>> \/ info.readers # 0)
  BY DEF HandOver
<1>3. lock'.low # 0
  BY <1>1, <1>2, ThreadsAssumption
<1>4. info'.writers = Tail(q) /\ info'.readers = info.readers /\ (lock'.km => info'.here)
  <2>1. CASE lock'.km
    BY <2>1 DEF HandOver
  <2>2. CASE ~lock'.km
    BY <1>2, <2>2 DEF HandOver, NoInfo
  <2> QED BY <2>1, <2>2
<1>5. WaitersAreManaged'
  BY <1>2, <1>3, <1>4 DEF WaitersAreManaged
<1>6. (info.here \/ info = NoInfo)'
  BY DEF HandOver, NoInfo
<1>7. has_conditions(Head(q)) => failed' = failed
  BY DEF HandOver, Check
<1> QED BY <1>1, <1>2, <1>3, <1>4, <1>5, <1>6, <1>7 DEF HandOver
=============================================================================
