---------------------- MODULE UserlandLocksRefinement ----------------------
(***************************************************************************)
(* What every step does to the owners of the lock, for any number of       *)
(* threads, and two things that follow: the protocol implements RWLock,    *)
(* and nobody overtakes a waiting writer.                                  *)
(***************************************************************************)
EXTENDS UserlandLocksProofs

\* The ways in which a step may change who owns the lock, and what is then known about the
\* waiting writers.
OnlyOwnerOf(t, w) == owns(t)' = w /\ \A u \in Threads \ {t} : owns(u)' = owns(u)

Keeps == \A u \in Threads : owns(u)' = owns(u)

Takes(t, w) ==
  /\ owns(t) = "no" /\ OnlyOwnerOf(t, w)
  /\ IF w = "write" THEN \A u \in Threads : owns(u) = "no" ELSE \A u \in Threads : owns(u) # "write"
  /\ info.writers = <<>>

GivesUp(t) == owns(t) # "no" /\ OnlyOwnerOf(t, "no")

HandsToWriter(t, h) ==
  /\ owns(t) = "write" /\ t # h /\ info.writers # <<>> /\ h = Head(info.writers)
  /\ owns(h)' = "write" /\ \A u \in Threads \ {h} : owns(u)' = "no"

HandsToReaders(t) ==
  /\ owns(t) = "write" /\ t \notin WaitingReaders /\ info.writers = <<>>
  /\ \A u \in Threads : owns(u)' = IF u \in WaitingReaders THEN "read" ELSE "no"

Converts(t) ==
  /\ owns(t) = "read" /\ \A u \in Threads \ {t} : owns(u) = "no"
  /\ OnlyOwnerOf(t, "write")

OwnersStep ==
  \/ Keeps
  \/ \E t \in Threads : \/ \E w \in {"read", "write"} : Takes(t, w)
                        \/ GivesUp(t)
                        \/ \E h \in Threads : HandsToWriter(t, h)
                        \/ HandsToReaders(t)
                        \/ Converts(t)

\* A thread owns nothing, the lock for reading, or the lock for writing.
LEMMA OwnsType ==
  ASSUME TypeOK, NEW t \in Threads
  PROVE  owns(t) \in {"no", "read", "write"}
BY DEF TypeOK, owns

\* Sets of owners and owners say the same.
LEMMA NoOwners ==
  ASSUME IInv
  PROVE  /\ Writers = {} => \A u \in Threads : owns(u) # "write"
         /\ Writers = {} /\ Readers = {} => \A u \in Threads : owns(u) = "no"
         /\ \A t \in Threads : Writers = {t} /\ Readers = {} =>
              \A u \in Threads \ {t} : owns(u) = "no"
<1>1. \A u \in Threads : owns(u) \in {"no", "read", "write"}
  BY OwnsType DEF IInv
<1> QED BY <1>1 DEF Writers, Readers

\* A step in which a thread that is not polling changes what it holds.
LEMMA HoldsChange ==
  ASSUME IInv, NEW t \in Threads, NEW w \in {"no", "read", "write"},
         holds' = [holds EXCEPT ![t] = w], UNCHANGED woken, woken[t] = {},
         \A u \in Threads \ {t} : phase'[u] = phase[u]
  PROVE  OnlyOwnerOf(t, w) /\ owns(t) = holds[t]
<1>1. TypeOK
  BY DEF IInv
<1>2. owns(t)' = w /\ owns(t) = holds[t]
  BY <1>1 DEF owns, TypeOK
<1>3. \A u \in Threads \ {t} : owns(u)' = owns(u)
  BY <1>1 DEF owns, TypeOK
<1> QED BY <1>2, <1>3 DEF OnlyOwnerOf

\* The operations of userland that do not enter the kernel.
LEMMA UserOwners ==
  ASSUME IInv, NEW t \in Threads,
         \/ UserWrLock(t) \/ UserRdLock(t) \/ UserWrUnlock(t) \/ UserRdUnlock(t)
         \/ UserRdConvert(t) \/ UserSignalCheck(t)
  PROVE  OwnersStep
<1>1. phase[t] = "user" /\ UNCHANGED woken
  BY DEF UserWrLock, UserRdLock, UserWrUnlock, UserRdUnlock, UserRdConvert, UserSignalCheck
<1>2. woken[t] = {}
  BY <1>1 DEF IInv, PhasesMatch
<1>3. \A u \in Threads \ {t} : phase'[u] = phase[u]
  BY DEF UserWrLock, UserRdLock, UserWrUnlock, UserRdUnlock, UserRdConvert, UserSignalCheck, IInv, TypeOK
<1>4. CASE UserWrLock(t)
  <2>1. lock.low = 0
    BY <1>4 DEF UserWrLock, Unlocked
  <2>2. Takes(t, "write")
    BY <1>1, <1>2, <1>3, <1>4, <2>1, HoldsChange, FreeLock, NoOwners DEF UserWrLock, Takes
  <2> QED BY <2>2 DEF OwnersStep
<1>5. CASE UserRdLock(t)
  <2>1. ~lock.wr /\ ~lock.km
    BY <1>5 DEF UserRdLock
  <2>2. Writers = {} /\ info.writers = <<>>
    BY <2>1 DEF IInv, LockWordTrue, WaitersAreManaged
  <2>3. Takes(t, "read")
    BY <1>1, <1>2, <1>3, <1>5, <2>2, HoldsChange, NoOwners DEF UserRdLock, Takes
  <2> QED BY <2>3 DEF OwnersStep
<1>6. CASE UserWrUnlock(t) \/ UserRdUnlock(t)
  <2>1. holds[t] # "no" /\ holds' = [holds EXCEPT ![t] = "no"]
    BY <1>6 DEF UserWrUnlock, UserRdUnlock
  <2>2. GivesUp(t)
    BY <1>1, <1>2, <1>3, <2>1, HoldsChange DEF GivesUp
  <2> QED BY <2>2 DEF OwnersStep
<1>7. CASE UserRdConvert(t)
  <2>1. /\ holds[t] = "read" /\ holds' = [holds EXCEPT ![t] = "write"]
        /\ lock.low = 1 /\ ~lock.wr
    BY <1>7 DEF UserRdConvert
  <2>2. owns(t) = "read" /\ OnlyOwnerOf(t, "write")
    BY <1>1, <1>2, <1>3, <2>1, HoldsChange
  <2>3. t \in Readers /\ Cardinality(Readers) = 1 /\ Writers = {}
    BY <2>1, <2>2 DEF Readers, IInv, LockWordTrue
  <2>4. Readers \ {t} = {}
    <3>1. IsFiniteSet(Readers \ {t}) /\ Cardinality(Readers \ {t}) = 1 - 1
      BY <2>3, Basics, FS_RemoveElement
    <3> QED BY <3>1, FS_EmptySet
  <2>5. \A u \in Threads \ {t} : owns(u) = "no"
    <3>1. \A u \in Threads : owns(u) \in {"no", "read", "write"}
      BY OwnsType DEF IInv
    <3> QED BY <2>3, <2>4, <3>1 DEF Readers, Writers
  <2> QED BY <2>2, <2>5 DEF Converts, OwnersStep
<1>8. CASE UserSignalCheck(t)
  <2>1. UNCHANGED <<holds, woken>> /\ holds[t] = owns(t)
    BY <1>2, <1>8 DEF UserSignalCheck, owns, IInv, TypeOK
  <2>2. Keeps
    BY <1>2, <1>3, <2>1 DEF Keeps, owns
  <2> QED BY <2>2 DEF OwnersStep
<1> QED BY <1>4, <1>5, <1>6, <1>7, <1>8

\* After a hand-over by the writer, or of a free lock, the head of the queue is the only owner.
LEMMA HandOverOnly ==
  ASSUME IInv, NEW q \in Seq(Threads), q # <<>>, IsInjective(q), HandOver(q, info.readers),
         \A u \in Threads : holds'[u] = "no" /\ "lock" \notin woken[u],
         phase'[Head(q)] # "rdwait"
  PROVE  /\ Head(q) \in Threads /\ Head(q) \in Range(q)
         /\ owns(Head(q))' = "write"
         /\ \A u \in Threads \ {Head(q)} : owns(u)' = "no"
<1>1. TypeOK
  BY DEF IInv
<1>2. /\ Head(q) \in Threads /\ Head(q) \in Range(q)
      /\ woken' = [woken EXCEPT ![Head(q)] = @ \cup {"lock"}]
  BY <1>1, HandOverEffect
<1>3. /\ woken'[Head(q)] = woken[Head(q)] \cup {"lock"}
      /\ \A u \in Threads \ {Head(q)} : woken'[u] = woken[u]
  BY <1>1, <1>2 DEF TypeOK
<1> QED BY <1>2, <1>3 DEF owns

\* drop_userspace_lock as lock_unlock, thread_exit and poll on a condvar call it.
LEMMA DropOwners ==
  ASSUME IInv, NEW t \in Threads, NEW ph \in {"user", "exited", "cvwait"},
         phase[t] \in {"user", "unlock"}, holds[t] # "read",
         drop_userspace_lock(t),
         holds' = [holds EXCEPT ![t] = "no"],
         phase' = [phase EXCEPT ![t] = ph]
  PROVE  OwnersStep
<1>1. /\ woken[t] = {} /\ owns(t) = holds[t]
      /\ t \notin QueuedWriters /\ t \notin WaitingReaders
  BY DEF IInv, PhasesMatch, QueuedWriters, WaitingReaders, owns, TypeOK
<1>2. /\ phase'[t] = ph /\ holds'[t] = "no"
      /\ \A u \in Threads \ {t} : phase'[u] = phase[u] /\ holds'[u] = holds[u]
  BY DEF IInv, TypeOK
<1>3. CASE ~(lock.wr /\ lock.low = t) /\ UNCHANGED woken
  <2>1. owns(t) # "write"
    BY <1>3, HeldLock
  <2>2. holds[t] = "no"
    BY <1>1, <2>1 DEF IInv, TypeOK
  <2>3. Keeps
    BY <1>1, <1>2, <1>3, <2>2 DEF Keeps, owns
  <2> QED BY <2>3 DEF OwnersStep
<1>4. ASSUME lock.wr, lock.low = t
      PROVE  owns(t) = "write" /\ \A u \in Threads : holds'[u] = "no" /\ "lock" \notin woken[u]
  <2>1. owns(t) = "write" /\ \A u \in Threads \ {t} : owns(u) = "no"
    BY <1>4, HeldLock, NoOwners
  <2>2. \A u \in Threads \ {t} : holds[u] = "no" /\ "lock" \notin woken[u]
    BY <2>1 DEF owns
  <2> QED BY <1>1, <1>2, <2>1, <2>2
<1>5. CASE lock.wr /\ lock.low = t /\ info.writers # <<>> /\ HandOver(info.writers, info.readers)
  <2>1. PICK q \in Seq(Threads) : q = info.writers
    BY Basics
  <2>2. q # <<>> /\ IsInjective(q) /\ Range(q) = QueuedWriters /\ HandOver(q, info.readers)
    BY <1>5, <2>1 DEF IInv, QueuesMatchThreads
  <2>3. PICK h \in Threads : h = Head(q) /\ h \in QueuedWriters
    BY <2>2, TailRange
  <2>4. h # t /\ phase[h] # "rdwait" /\ phase'[h] # "rdwait"
    BY <1>1, <1>2, <2>3 DEF QueuedWriters
  <2>5. \A u \in Threads : holds'[u] = "no" /\ "lock" \notin woken[u]
    BY <1>4, <1>5
  <2>6. owns(h)' = "write" /\ \A u \in Threads \ {h} : owns(u)' = "no"
    BY <2>2, <2>3, <2>4, <2>5, HandOverOnly
  <2>7. HandsToWriter(t, h)
    BY <1>4, <1>5, <2>1, <2>3, <2>4, <2>6 DEF HandsToWriter
  <2> QED BY <2>7 DEF OwnersStep
<1>6. CASE lock.wr /\ lock.low = t /\ info.writers = <<>> /\ woken' = ReadersGranted
  <2>1. ASSUME NEW u \in Threads
        PROVE  owns(u)' = IF u \in WaitingReaders THEN "read" ELSE "no"
    <3>1. holds'[u] = "no" /\ "lock" \notin woken[u]
      BY <1>4, <1>6
    <3>2. u \in WaitingReaders <=> phase[u] = "rdwait"
      BY <3>1 DEF WaitingReaders
    <3>3. woken'[u] = IF phase[u] = "rdwait" THEN woken[u] \cup {"lock"} ELSE woken[u]
      BY <1>6 DEF ReadersGranted
    <3>4. u \in WaitingReaders => phase'[u] = "rdwait"
      BY <1>1, <1>2, <3>2
    <3> QED BY <3>1, <3>2, <3>3, <3>4 DEF owns
  <2>2. HandsToReaders(t)
    BY <1>1, <1>4, <1>6, <2>1 DEF HandsToReaders
  <2> QED BY <2>2 DEF OwnersStep
<1> QED BY <1>3, <1>5, <1>6 DEF drop_userspace_lock

\* poll for the lock: it is taken, or the thread waits for it.
LEMMA PollLockOwners ==
  ASSUME IInv, NEW t \in Threads, NEW type \in {"read", "write"}, NEW deadline \in BOOLEAN,
         PollLock(t, type, deadline)
  PROVE  OwnersStep
<1>1. phase[t] = "user" /\ holds[t] = "no" /\ UNCHANGED woken
  BY DEF PollLock
<1>2. woken[t] = {}
  BY <1>1 DEF IInv, PhasesMatch
<1>3. \A u \in Threads \ {t} : phase'[u] = phase[u]
  BY DEF PollLock, Wait, IInv, TypeOK
<1>4. CASE can_acquire(type) /\ holds' = [holds EXCEPT ![t] = type]
  <2>1. OnlyOwnerOf(t, type) /\ owns(t) = "no"
    BY <1>1, <1>2, <1>3, <1>4, HoldsChange
  <2>2. CASE lock.low = 0
    BY <2>1, <2>2, FreeLock, NoOwners DEF Takes, OwnersStep
  <2>3. CASE ~lock.wr /\ type = "read" /\ info.writers = <<>>
    <3>1. \A u \in Threads : owns(u) # "write"
      BY <2>3, NoOwners DEF IInv, LockWordTrue
    <3> QED BY <2>1, <2>3, <3>1 DEF Takes, OwnersStep
  <2> QED BY <1>4, <2>2, <2>3 DEF can_acquire
<1>5. CASE UNCHANGED holds
  <2>1. Keeps
    BY <1>1, <1>2, <1>3, <1>5 DEF Keeps, owns
  <2> QED BY <2>1 DEF OwnersStep
<1> QED BY <1>4, <1>5 DEF PollLock

\* condvar_signal: a free lock goes to the first thread that is moved to its queue.
LEMMA SignalOwners ==
  ASSUME IInv, NEW t \in Threads, NEW n \in NWaiters, CondvarSignal(t, n)
  PROVE  OwnersStep
<1>1. /\ phase[t] = "signal" /\ UNCHANGED holds
      /\ phase'[t] = "user" /\ \A u \in Threads \ {t} : phase'[u] = phase[u]
  BY DEF CondvarSignal, IInv, TypeOK
<1>2. woken[t] = {}
  BY <1>1 DEF IInv, PhasesMatch
<1>3. CASE UNCHANGED woken
  <2>1. Keeps
    BY <1>1, <1>2, <1>3 DEF Keeps, owns
  <2> QED BY <2>1 DEF OwnersStep
<1>4. ASSUME NEW m \in 0 .. Len(cv.waiting), NEW q,
             q = info.writers \o SubSeq(cv.waiting, 1, m),
             lock.low = 0, q # <<>>, HandOver(q, info.readers)
      PROVE  OwnersStep
  <2>1. info.writers = <<>> /\ \A u \in Threads : owns(u) = "no"
    BY <1>4, FreeLock, NoOwners
  <2>2. cv.waiting \in Seq(Threads) /\ IsInjective(cv.waiting)
    BY Basics DEF IInv, QueuesMatchThreads
  <2>3. /\ SubSeq(cv.waiting, 1, m) \in Seq(Threads)
        /\ IsInjective(SubSeq(cv.waiting, 1, m))
        /\ Range(SubSeq(cv.waiting, 1, m)) \subseteq Range(cv.waiting)
    BY <2>2, SplitRange
  <2>4. q = SubSeq(cv.waiting, 1, m)
    BY <1>4, <2>1, <2>3
  <2>5. q \in Seq(Threads) /\ IsInjective(q) /\ Range(q) \subseteq Range(cv.waiting)
    BY <2>3, <2>4
  <2>6. PICK h \in Threads : h = Head(q) /\ h \in Range(cv.waiting)
    BY <1>4, <2>5, TailRange
  <2>7. phase[h] = "cvwait"
    BY <2>6 DEF IInv, QueuesMatchThreads
  <2>8. phase'[h] # "rdwait"
    BY <1>1, <2>7
  <2>9. \A u \in Threads : holds'[u] = "no" /\ "lock" \notin woken[u]
    BY <1>1, <2>1 DEF owns
  <2>10. owns(h)' = "write" /\ \A u \in Threads \ {h} : owns(u)' = "no"
    BY <1>4, <2>5, <2>6, <2>8, <2>9, HandOverOnly
  <2>11. Takes(h, "write")
    BY <2>1, <2>10 DEF Takes, OnlyOwnerOf
  <2> QED BY <2>11 DEF OwnersStep
<1>5. CASE cv.here /\ condvar # 0 /\ signal_userspace_cv(n)
  <2> DEFINE moved == IF n < Len(cv.waiting) THEN n ELSE Len(cv.waiting)
  <2>1. moved \in 0 .. Len(cv.waiting)
    <3>1. n \in Nat /\ Len(cv.waiting) \in Nat
      BY Basics, ThreadsAssumption, LenProperties
    <3> QED BY <3>1
  <2>2. \/ UNCHANGED woken
        \/ /\ lock.low = 0 /\ info.writers \o SubSeq(cv.waiting, 1, moved) # <<>>
           /\ HandOver(info.writers \o SubSeq(cv.waiting, 1, moved), info.readers)
    BY <1>5 DEF signal_userspace_cv
  <2> HIDE DEF moved
  <2>3. PICK m, q : m = moved /\ q = info.writers \o SubSeq(cv.waiting, 1, m)
    OBVIOUS
  <2> QED BY <1>3, <1>4, <2>1, <2>2, <2>3
<1> QED BY <1>3, <1>5 DEF CondvarSignal

\* The ends of polls, and deadlines: a lock that was granted is already owned.
LEMMA ResumeOwners ==
  ASSUME IInv, NEW t \in Threads, Timeout(t) \/ Resume(t)
  PROVE  OwnersStep
<1>1. TypeOK /\ PhasesMatch
  BY DEF IInv
<1>2. CASE Timeout(t)
  <2>1. UNCHANGED <<phase, holds>> /\ \A u \in Threads : "lock" \in woken'[u] <=> "lock" \in woken[u]
    BY <1>1, <1>2 DEF Timeout, TypeOK
  <2>2. Keeps
    BY <2>1 DEF Keeps, owns
  <2> QED BY <2>2 DEF OwnersStep
<1>3. ASSUME NEW got \in {"no", "read", "write"}, Return(t, got)
      PROVE  OnlyOwnerOf(t, got)
  <2>1. /\ holds'[t] = got /\ woken'[t] = {}
        /\ \A u \in Threads \ {t} : holds'[u] = holds[u] /\ woken'[u] = woken[u] /\ phase'[u] = phase[u]
    BY <1>1, <1>3 DEF Return, TypeOK
  <2> QED BY <2>1 DEF OnlyOwnerOf, owns
<1>4. CASE PollGranted(t)
  <2> PICK got \in {"read", "write"} : got = IF phase[t] = "rdwait" THEN "read" ELSE "write"
    OBVIOUS
  <2>1. Return(t, got) /\ "lock" \in woken[t] /\ holds[t] = "no"
    BY <1>1, <1>4 DEF PollGranted, PhasesMatch, TypeOK
  <2>2. owns(t) = got /\ OnlyOwnerOf(t, got)
    BY <1>3, <2>1 DEF owns
  <2>3. Keeps
    BY <2>2 DEF Keeps, OnlyOwnerOf
  <2> QED BY <2>3 DEF OwnersStep
<1>5. CASE PollLockCancelled(t)
  <2>1. Return(t, "no") /\ "lock" \notin woken[t] /\ holds[t] = "no"
    BY <1>1, <1>5 DEF PollLockCancelled, PhasesMatch, TypeOK
  <2>2. owns(t) = "no" /\ OnlyOwnerOf(t, "no")
    BY <1>3, <2>1 DEF owns
  <2>3. Keeps
    BY <2>2 DEF Keeps, OnlyOwnerOf
  <2> QED BY <2>3 DEF OwnersStep
<1>6. CASE PollCondvarCancelled(t)
  <2>1. phase[t] = "cvwait" /\ "lock" \notin woken[t] /\ holds[t] = "no"
    BY <1>1, <1>6 DEF PollCondvarCancelled, PhasesMatch, TypeOK
  <2>2. CASE lock.low = 0 /\ Return(t, "write")
    <3>1. OnlyOwnerOf(t, "write")
      BY <1>3, <2>2
    <3>2. info.writers = <<>> /\ \A u \in Threads : owns(u) = "no"
      BY <2>2, FreeLock, NoOwners
    <3> QED BY <3>1, <3>2 DEF Takes, OwnersStep
  <2>3. CASE woken' = [woken EXCEPT ![t] = {}] /\ Wait(t, "relock", FALSE) /\ UNCHANGED holds
    <3>1. /\ "lock" \notin woken'[t] /\ holds'[t] = holds[t]
          /\ \A u \in Threads \ {t} : holds'[u] = holds[u] /\ woken'[u] = woken[u] /\ phase'[u] = phase[u]
      BY <1>1, <2>3 DEF Wait, TypeOK
    <3>2. Keeps
      BY <2>1, <3>1 DEF Keeps, owns
    <3> QED BY <3>2 DEF OwnersStep
  <2> QED BY <1>6, <2>2, <2>3 DEF PollCondvarCancelled
<1> QED BY <1>2, <1>4, <1>5, <1>6 DEF Resume

\* Every step changes the owners in one of these ways.
LEMMA NextOwners ==
  ASSUME IInv, [Next]_vars
  PROVE  OwnersStep
<1>1. CASE UNCHANGED vars
  BY <1>1 DEF vars, owns, Keeps, OwnersStep
<1>2. CASE Next
  <2> SUFFICES ASSUME NEW t \in Threads, Step(t) PROVE OwnersStep
    BY <1>2 DEF Next
  <2>1. CASE \/ UserWrLock(t) \/ UserRdLock(t) \/ UserSignalCheck(t)
             \/ UserWrUnlock(t) \/ UserRdUnlock(t) \/ UserRdConvert(t)
    BY <2>1, UserOwners
  <2>2. CASE LockUnlock(t)
    BY <2>2, DropOwners DEF LockUnlock
  <2>3. CASE ThreadExit(t)
    BY <2>3, DropOwners DEF ThreadExit
  <2>4. ASSUME NEW deadline \in BOOLEAN, PollCondvar(t, deadline) PROVE OwnersStep
    BY <2>4, DropOwners DEF PollCondvar, Wait
  <2>5. ASSUME NEW type \in {"read", "write"}, NEW deadline \in BOOLEAN,
               PollLock(t, type, deadline)
        PROVE  OwnersStep
    BY <2>5, PollLockOwners
  <2>6. ASSUME NEW n \in NWaiters, CondvarSignal(t, n) PROVE OwnersStep
    BY <2>6, SignalOwners
  <2>7. CASE Timeout(t) \/ Resume(t)
    BY <2>7, ResumeOwners
  <2> QED BY <2>1, <2>2, <2>3, <2>4, <2>5, <2>6, <2>7 DEF Step, Unlock
<1> QED BY <1>1, <1>2

\* While writers wait, nobody else comes to own the lock than the first of them, for any
\* number of threads: not a thread with a compare-and-swap, nor one that polls or is signalled
\* (can_acquire, drop_userspace_lock and signal_userspace_cv in fd/thread.cpp).
THEOREM NobodyBarges == Spec => NoBarging
<1> DEFINE Fair(t) == info.writers # <<>> /\ owns(t) = "no" /\ owns(t)' # "no" => t = Head(info.writers)
<1>1. IInv /\ OwnersStep => \A t \in Threads : Fair(t)
  BY DEF OwnersStep, OnlyOwnerOf, Keeps, Takes, GivesUp, HandsToWriter, HandsToReaders, Converts
<1>2. IInv /\ [Next]_vars => [\A t \in Threads : Fair(t)]_vars
  BY <1>1, NextOwners
<1> QED BY <1>2, InvariantHolds, PTL DEF Spec, NoBarging

\* The lock word, the kernel's queues, the hand-over to threads that have not run yet, deadlines
\* and condvars implement a reader-writer lock, for any number of threads.
THEOREM LockImplementsRWLock == Spec => ImplementsRWLock
<1> DEFINE owner == [t \in Threads |-> owns(t)]
<1>1. Init => RW!Init
  BY DEF Init, RW!Init, owns
<1>2. IInv /\ OwnersStep => [RW!Next]_owner
  <2> SUFFICES ASSUME IInv, OwnersStep PROVE RW!Next \/ owner' = owner
    OBVIOUS
  <2>1. CASE Keeps
    BY <2>1 DEF Keeps
  <2>2. ASSUME NEW t \in Threads, NEW w \in {"read", "write"}, Takes(t, w) PROVE RW!Next
    <3>1. RW!Acquire(t, w)
      BY <2>2 DEF Takes, OnlyOwnerOf, RW!Acquire, RW!Free, RW!NoWriter
    <3> QED BY <3>1 DEF RW!Next
  <2>3. ASSUME NEW t \in Threads, GivesUp(t) PROVE RW!Next
    <3>1. RW!Release(t)
      BY <2>3 DEF GivesUp, OnlyOwnerOf, RW!Release
    <3> QED BY <3>1 DEF RW!Next
  <2>4. ASSUME NEW t \in Threads, NEW h \in Threads, HandsToWriter(t, h) PROVE RW!Next
    <3>1. \A u \in Threads \ {t} : owns(u) = "no"
      BY <2>4, HeldLock, NoOwners DEF HandsToWriter
    <3>2. RW!PassToWriter(t, h)
      BY <2>4, <3>1 DEF HandsToWriter, RW!PassToWriter
    <3> QED BY <3>2 DEF RW!Next
  <2>5. ASSUME NEW t \in Threads, HandsToReaders(t) PROVE RW!Next
    <3>1. PICK us \in SUBSET Threads : us = WaitingReaders
      BY DEF WaitingReaders
    <3>2. RW!PassToReaders(t, us)
      BY <2>5, <3>1 DEF HandsToReaders, RW!PassToReaders
    <3> QED BY <3>2 DEF RW!Next
  <2>6. ASSUME NEW t \in Threads, Converts(t) PROVE RW!Next
    <3>1. RW!Upgrade(t)
      BY <2>6 DEF Converts, OnlyOwnerOf, RW!Upgrade
    <3> QED BY <3>1 DEF RW!Next
  <2> QED BY <2>1, <2>2, <2>3, <2>4, <2>5, <2>6 DEF OwnersStep
<1>3. IInv /\ [Next]_vars => [RW!Next]_owner
  BY <1>2, NextOwners
<1> QED BY <1>1, <1>3, InvariantHolds, PTL DEF Spec, ImplementsRWLock, RW!Spec
=============================================================================
