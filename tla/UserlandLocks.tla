--------------------------- MODULE UserlandLocks ---------------------------
(***************************************************************************)
(* One userland rwlock word, one condition variable word, and the kernel's *)
(* wait queues for them (fd/thread.cpp, fd/process_fd.cpp and the lock and *)
(* condvar paths of proc/syscall/poll_syscalls.cpp).                       *)
(*                                                                         *)
(* The kernel is not preemptible, so a system call is atomic up to the     *)
(* point where its thread blocks; userland is preempted between any two of *)
(* its atomic instructions, so each of these is an action.  A blocked poll *)
(* has two conditions: "lock" (the lock has been granted) and "clock" (the *)
(* deadline has passed).  `woken' holds those that have been satisfied; a  *)
(* thread with a satisfied condition is ready but has not run yet.  A      *)
(* deadline that lies in the past when poll is called behaves as one that  *)
(* fires before any other thread runs.                                     *)
(***************************************************************************)
EXTENDS Naturals, Sequences, FiniteSets, LinkedList

CONSTANTS Threads,  \* the thread ids of the process
          NWaiters  \* the nwaiters arguments given to condvar_signal

ASSUME ThreadsAssumption ==
  /\ IsFiniteSet(Threads)
  /\ Threads \subseteq Nat \ {0}
  /\ NWaiters \subseteq Nat

VARIABLES
  lock,     \* the lock word: WRLOCKED bit, KERNEL_MANAGED bit, low 30 bits
  info,     \* the process's userland_lock_waiters_t for it, if there is one
  condvar,  \* the condvar word: 0 is CLOUDABI_CONDVAR_HAS_NO_WAITERS
  cv,       \* the process's userland_condvar_waiters_t, if there is one
  phase,    \* where each thread is
  timed,    \* whether its poll also has a clock subscription
  woken,    \* the satisfied conditions of its poll
  holds,    \* what userland believes it holds
  failed    \* kernel assertions that have failed; the kernel then halts

vars == <<lock, info, condvar, cv, phase, timed, woken, holds, failed>>

Unlocked == [wr |-> FALSE, km |-> FALSE, low |-> 0]

NoInfo == [here |-> FALSE, readers |-> 0, writers |-> <<>>]

Init ==
  /\ lock = Unlocked
  /\ info = NoInfo
  /\ condvar = 0
  /\ cv = [here |-> FALSE, waiting |-> <<>>]
  /\ phase = [t \in Threads |-> "user"]
  /\ timed = [t \in Threads |-> FALSE]
  /\ woken = [t \in Threads |-> {}]
  /\ holds = [t \in Threads |-> "no"]
  /\ failed = {}

\* Entering poll, and returning from it to userland.
Wait(t, ph, deadline) ==
  /\ phase' = [phase EXCEPT ![t] = ph]
  /\ timed' = [timed EXCEPT ![t] = deadline]

Return(t, got) ==
  /\ phase' = [phase EXCEPT ![t] = "user"]
  /\ timed' = [timed EXCEPT ![t] = FALSE]
  /\ woken' = [woken EXCEPT ![t] = {}]
  /\ holds' = [holds EXCEPT ![t] = got]

Check(name, ok) == failed' = IF ok THEN failed ELSE failed \cup {name}

----------------------------------------------------------------------------
(***************************************************************************)
(* Userland (cloudlibc): uncontended operations are a compare-and-swap on  *)
(* the word and never enter the kernel.                                    *)
(***************************************************************************)
UserWrLock(t) ==
  /\ phase[t] = "user" /\ holds[t] = "no"
  /\ lock = Unlocked
  /\ lock' = [wr |-> TRUE, km |-> FALSE, low |-> t]
  /\ holds' = [holds EXCEPT ![t] = "write"]
  /\ UNCHANGED <<info, condvar, cv, phase, timed, woken, failed>>

UserRdLock(t) ==
  /\ phase[t] = "user" /\ holds[t] = "no"
  /\ ~lock.wr /\ ~lock.km
  /\ lock' = [lock EXCEPT !.low = @ + 1]
  /\ holds' = [holds EXCEPT ![t] = "read"]
  /\ UNCHANGED <<info, condvar, cv, phase, timed, woken, failed>>

UserWrUnlock(t) ==
  /\ phase[t] = "user" /\ holds[t] = "write"
  /\ lock = [wr |-> TRUE, km |-> FALSE, low |-> t]
  /\ lock' = Unlocked
  /\ holds' = [holds EXCEPT ![t] = "no"]
  /\ UNCHANGED <<info, condvar, cv, phase, timed, woken, failed>>

UserRdUnlock(t) ==
  /\ phase[t] = "user" /\ holds[t] = "read"
  /\ ~(lock.km /\ lock.low = 1)
  /\ lock' = [lock EXCEPT !.low = @ - 1]
  /\ holds' = [holds EXCEPT ![t] = "no"]
  /\ UNCHANGED <<info, condvar, cv, phase, timed, woken, failed>>

\* The last reader of a kernel-managed lock makes itself the writer, and then
\* unlocks through the kernel.
UserRdConvert(t) ==
  /\ phase[t] = "user" /\ holds[t] = "read"
  /\ lock = [wr |-> FALSE, km |-> TRUE, low |-> 1]
  /\ lock' = [wr |-> TRUE, km |-> TRUE, low |-> t]
  /\ holds' = [holds EXCEPT ![t] = "write"]
  /\ phase' = [phase EXCEPT ![t] = "unlock"]
  /\ UNCHANGED <<info, condvar, cv, timed, woken, failed>>

\* pthread_cond_signal enters the kernel only if it saw a nonzero word.
UserSignalCheck(t) ==
  /\ phase[t] = "user"
  /\ condvar # 0
  /\ phase' = [phase EXCEPT ![t] = "signal"]
  /\ UNCHANGED <<lock, info, condvar, cv, timed, woken, holds, failed>>

----------------------------------------------------------------------------
\* A wake item has one condition, that of the thread it was made for.
has_conditions(t) ==
  phase[t] \in {"wrwait", "cvwait", "relock"} /\ "lock" \notin woken[t]

\* Give the lock to the first of the waiting writers q.
HandOver_ForgetsReaders(q, readers) ==
  /\ lock' = [wr |-> TRUE, km |-> Tail(q) # <<>>, low |-> Head(q)]
  /\ info' = IF lock'.km
             THEN [here |-> TRUE, readers |-> readers, writers |-> Tail(q)]
             ELSE NoInfo
  /\ woken' = [woken EXCEPT ![Head(q)] = @ \cup {"lock"}]
  /\ Check("has_conditions", has_conditions(Head(q)))

HandOver(q, readers) ==
  /\ lock' = [wr |-> TRUE, km |-> Tail(q) # <<>> \/ readers # 0, low |-> Head(q)]
  /\ info' = IF lock'.km
             THEN [here |-> TRUE, readers |-> readers, writers |-> Tail(q)]
             ELSE NoInfo
  /\ woken' = [woken EXCEPT ![Head(q)] = @ \cup {"lock"}]
  /\ Check("has_conditions", has_conditions(Head(q)))

ReadersGranted ==
  [t \in Threads |-> IF phase[t] = "rdwait" THEN woken[t] \cup {"lock"} ELSE woken[t]]

drop_userspace_lock(t) ==
  \/ /\ ~(lock.wr /\ lock.low = t)
     /\ UNCHANGED <<lock, info, woken, failed>>
  \/ /\ lock.wr /\ lock.low = t
     /\ info.writers # <<>>
     /\ HandOver(info.writers, info.readers)
  \/ /\ lock.wr /\ lock.low = t
     /\ info.writers = <<>>
     /\ lock' = [Unlocked EXCEPT !.low = info.readers]
     /\ info' = NoInfo
     /\ woken' = ReadersGranted
     /\ UNCHANGED failed

\* The lock can be taken without waiting: the word it then has.
acquired_word(t, type) ==
  IF lock.low # 0 THEN [lock EXCEPT !.low = @ + 1]
  ELSE IF type = "write" THEN [wr |-> TRUE, km |-> FALSE, low |-> t]
  ELSE [Unlocked EXCEPT !.low = 1]

can_acquire_ReadersIgnoreWriter(type) ==
  \/ lock.low = 0
  \/ type = "read" /\ info.writers = <<>>

can_acquire_ReadersBarge(type) ==
  \/ lock.low = 0
  \/ ~lock.wr /\ type = "read"

can_acquire(type) ==
  \/ lock.low = 0
  \/ ~lock.wr /\ type = "read" /\ info.writers = <<>>

enqueue(t, type) ==
  /\ lock' = [lock EXCEPT !.km = TRUE]
  /\ info' = IF type = "write"
             THEN [info EXCEPT !.here = TRUE, !.writers = Append(@, t)]
             ELSE [info EXCEPT !.here = TRUE, !.readers = @ + 1]

\* poll with a LOCK_RDLOCK or LOCK_WRLOCK subscription and possibly a clock.
PollLock(t, type, deadline) ==
  /\ phase[t] = "user" /\ holds[t] = "no"
  /\ \/ /\ can_acquire(type)
        /\ lock' = acquired_word(t, type)
        /\ holds' = [holds EXCEPT ![t] = type]
        /\ UNCHANGED <<info, phase, timed>>
     \/ /\ ~can_acquire(type)
        /\ enqueue(t, type)
        /\ Wait(t, IF type = "write" THEN "wrwait" ELSE "rdwait", deadline)
        /\ UNCHANGED holds
  /\ UNCHANGED <<condvar, cv, woken, failed>>

\* lock_unlock.
LockUnlock(t) ==
  /\ phase[t] \in {"user", "unlock"} /\ holds[t] = "write"
  /\ drop_userspace_lock(t)
  /\ phase' = [phase EXCEPT ![t] = "user"]
  /\ holds' = [holds EXCEPT ![t] = "no"]
  /\ UNCHANGED <<condvar, cv, timed>>

\* thread_exit, which also drops the lock it is given.
ThreadExit(t) ==
  /\ phase[t] = "user" /\ holds[t] # "read"
  /\ drop_userspace_lock(t)
  /\ phase' = [phase EXCEPT ![t] = "exited"]
  /\ holds' = [holds EXCEPT ![t] = "no"]
  /\ UNCHANGED <<condvar, cv, timed>>

----------------------------------------------------------------------------
\* poll with a CONDVAR subscription: drop the lock, join the condvar's queue.
PollCondvar(t, deadline) ==
  /\ phase[t] = "user" /\ holds[t] = "write"
  /\ drop_userspace_lock(t)
  /\ condvar' = 1
  /\ cv' = [here |-> TRUE, waiting |-> Append(cv.waiting, t)]
  /\ holds' = [holds EXCEPT ![t] = "no"]
  /\ Wait(t, "cvwait", deadline)

\* Move the waiters, but leave a free lock for the next unlock to hand over.
signal_userspace_cv_NoHandOver(n) ==
  LET moved == IF n < Len(cv.waiting) THEN n ELSE Len(cv.waiting)
  IN  /\ cv' = [cv EXCEPT !.waiting = SubSeq(@, moved + 1, Len(@))]
      /\ condvar' = IF cv'.waiting = <<>> THEN 0 ELSE condvar
      /\ lock' = [lock EXCEPT !.km = TRUE]
      /\ info' = [info EXCEPT !.here = TRUE,
                    !.writers = @ \o SubSeq(cv.waiting, 1, moved)]
      /\ UNCHANGED <<woken, failed>>

\* Move the first n condvar waiters behind the waiting writers; if the lock is
\* free, give it to the first of these.
signal_userspace_cv(n) ==
  LET moved   == IF n < Len(cv.waiting) THEN n ELSE Len(cv.waiting)
      writers == info.writers \o SubSeq(cv.waiting, 1, moved)
      waiting == SubSeq(cv.waiting, moved + 1, Len(cv.waiting))
  IN  /\ cv' = [cv EXCEPT !.waiting = waiting]
      /\ condvar' = IF waiting = <<>> THEN 0 ELSE condvar
      /\ \/ /\ lock.low = 0 /\ writers # <<>>
            /\ HandOver(writers, info.readers)
         \/ /\ ~(lock.low = 0 /\ writers # <<>>)
            /\ lock' = [lock EXCEPT !.km = TRUE]
            /\ info' = [info EXCEPT !.here = TRUE, !.writers = writers]
            /\ UNCHANGED <<woken, failed>>

\* condvar_signal.
CondvarSignal(t, n) ==
  /\ phase[t] = "signal"
  /\ phase' = [phase EXCEPT ![t] = "user"]
  /\ \/ /\ ~cv.here
        /\ Check("condvar == HAS_NO_WAITERS", condvar = 0)
        /\ UNCHANGED <<lock, info, condvar, cv, woken>>
     \/ /\ cv.here /\ condvar = 0
        /\ Check("condvar != HAS_NO_WAITERS", FALSE)
        /\ UNCHANGED <<lock, info, condvar, cv, woken>>
     \/ /\ cv.here /\ condvar # 0
        /\ signal_userspace_cv(n)
  /\ UNCHANGED <<timed, holds>>

----------------------------------------------------------------------------
\* The clock's signaler fires for a poll that is still waiting.
Timeout(t) ==
  /\ timed[t] /\ "clock" \notin woken[t]
  /\ woken' = [woken EXCEPT ![t] = @ \cup {"clock"}]
  /\ UNCHANGED <<lock, info, condvar, cv, phase, timed, holds, failed>>

\* The waiting lists hold a thread at most once, which the code asserts, so that
\* its remove_all is remove_one.
cancel_userspace_lock_KeepsCount(t, type) ==
  /\ info' = IF type = "write"
             THEN [info EXCEPT !.writers = remove_one(@, t)]
             ELSE info
  /\ UNCHANGED failed

cancel_userspace_lock(t, type) ==
  /\ info' = IF type = "write"
             THEN [info EXCEPT !.writers = remove_one(@, t)]
             ELSE [info EXCEPT !.readers = IF @ = 0 THEN 0 ELSE @ - 1]
  /\ Check("cancel_userspace_lock",
           /\ info.here
           /\ IF type = "write"
              THEN ExactlyOne(info.writers, t)
              ELSE info.readers >= 1)

\* The end of a poll whose lock was granted, whether or not it also timed out.
PollGranted(t) ==
  /\ phase[t] \in {"rdwait", "wrwait", "cvwait", "relock"}
  /\ "lock" \in woken[t]
  /\ Return(t, IF phase[t] = "rdwait" THEN "read" ELSE "write")
  /\ UNCHANGED <<lock, info, condvar, cv, failed>>

\* The end of a lock poll that timed out.
PollLockCancelled(t) ==
  /\ phase[t] \in {"rdwait", "wrwait"}
  /\ woken[t] = {"clock"}
  /\ cancel_userspace_lock(t, IF phase[t] = "wrwait" THEN "write" ELSE "read")
  /\ Return(t, "no")
  /\ UNCHANGED <<lock, condvar, cv>>

\* cancel_userspace_cv: the end of a condvar poll that timed out; the lock is
\* taken back, after blocking for it if need be.
PollCondvarCancelled(t) ==
  /\ phase[t] = "cvwait" /\ woken[t] = {"clock"}
  /\ cv' = [cv EXCEPT !.waiting = remove_one(@, t)]
  /\ condvar' = IF cv'.waiting = <<>> THEN 0 ELSE condvar
  /\ LET was_blocked_on_cv == t \in Range(cv.waiting)
     IN  \/ /\ lock.low = 0
            /\ lock' = [wr |-> TRUE, km |-> FALSE, low |-> t]
            /\ Return(t, "write")
            /\ Check("cancel_userspace_cv", cv.here /\ AtMostOne(cv.waiting, t))
            /\ UNCHANGED info
         \/ /\ lock.low # 0
            /\ lock' = [lock EXCEPT !.km = TRUE]
            /\ info' = [info EXCEPT !.here = TRUE,
                          !.writers = IF was_blocked_on_cv THEN Append(@, t) ELSE @]
            /\ Wait(t, "relock", FALSE)
            /\ woken' = [woken EXCEPT ![t] = {}]
            /\ Check("cancel_userspace_cv",
                     /\ cv.here /\ AtMostOne(cv.waiting, t)
                     /\ was_blocked_on_cv \/ ExactlyOne(info.writers, t))
            /\ UNCHANGED holds

----------------------------------------------------------------------------
Unlock(t) == UserWrUnlock(t) \/ UserRdUnlock(t) \/ UserRdConvert(t) \/ LockUnlock(t)

Resume(t) == PollGranted(t) \/ PollLockCancelled(t) \/ PollCondvarCancelled(t)

Step(t) ==
  \/ UserWrLock(t)
  \/ UserRdLock(t)
  \/ UserSignalCheck(t)
  \/ Unlock(t)
  \/ \E type \in {"read", "write"}, deadline \in BOOLEAN : PollLock(t, type, deadline)
  \/ \E deadline \in BOOLEAN : PollCondvar(t, deadline)
  \/ \E n \in NWaiters : CondvarSignal(t, n)
  \/ Timeout(t)
  \/ Resume(t)
  \/ ThreadExit(t)

Next == failed = {} /\ \E t \in Threads : Step(t)

Spec == Init /\ [][Next]_vars

(***************************************************************************)
(* Scheduling is round-robin, so a thread whose condition is satisfied     *)
(* runs; and userland is assumed to end every critical section.            *)
(***************************************************************************)
Fairness ==
  \A t \in Threads :
    /\ WF_vars(failed = {} /\ Resume(t))
    /\ SF_vars(failed = {} /\ Unlock(t))
    /\ WF_vars(failed = {} /\ \E n \in NWaiters : CondvarSignal(t, n))

FairSpec == Spec /\ Fairness

----------------------------------------------------------------------------
\* What a thread owns: what it believes it holds, or what it was granted while
\* it waited and will learn of when it runs.
owns(t) ==
  IF holds[t] # "no" THEN holds[t]
  ELSE IF "lock" \notin woken[t] THEN "no"
  ELSE IF phase[t] = "rdwait" THEN "read" ELSE "write"

Writers == {t \in Threads : owns(t) = "write"}
Readers == {t \in Threads : owns(t) = "read"}

WaitingReaders == {t \in Threads : phase[t] = "rdwait" /\ "lock" \notin woken[t]}

QueuedWriters ==
  {t \in Threads : /\ "lock" \notin woken[t]
                   /\ \/ phase[t] \in {"wrwait", "relock"}
                      \/ phase[t] = "cvwait" /\ t \notin Range(cv.waiting)}

Asserts == {"has_conditions", "cancel_userspace_lock", "cancel_userspace_cv",
            "condvar == HAS_NO_WAITERS", "condvar != HAS_NO_WAITERS"}

TypeOK ==
  /\ lock \in [wr : BOOLEAN, km : BOOLEAN, low : Nat]
  /\ info \in [here : BOOLEAN, readers : Nat, writers : Seq(Threads)]
  /\ condvar \in {0, 1}
  /\ cv \in [here : BOOLEAN, waiting : Seq(Threads)]
  /\ phase \in [Threads -> {"user", "unlock", "signal", "rdwait", "wrwait", "cvwait", "relock", "exited"}]
  /\ timed \in [Threads -> BOOLEAN]
  /\ woken \in [Threads -> SUBSET {"lock", "clock"}]
  /\ holds \in [Threads -> {"no", "read", "write"}]
  /\ failed \in SUBSET Asserts

\* The lock word never lies about who has the lock, whatever the interleaving of
\* userland compare-and-swaps, hand-overs to threads that have not run yet, and
\* cancelled polls: a write lock has the one owner the word names and no reader,
\* and otherwise the word counts the readers.
LockWordTrue ==
  IF lock.wr THEN Writers = {lock.low} /\ Readers = {}
             ELSE Writers = {} /\ lock.low = Cardinality(Readers)

\* No unlock goes unnoticed: while a thread waits in the kernel for the lock,
\* the lock is taken and marked KERNEL_MANAGED, so that its holder cannot release
\* it by a userland store alone.
WaitersAreManaged ==
  info.writers # <<>> \/ info.readers # 0 => info.here /\ lock.km /\ lock.low # 0

\* A waiting thread is in the queue it waits in exactly once, and nobody else is:
\* acquisition, condvar signals (which move threads between queues) and timeouts
\* (which take them out) keep queues and threads in step.
QueuesMatchThreads ==
  /\ IsInjective(info.writers)
  /\ Range(info.writers) = QueuedWriters
  /\ IsInjective(cv.waiting)
  /\ \A t \in Range(cv.waiting) : phase[t] = "cvwait" /\ "lock" \notin woken[t]
  /\ info.readers = Cardinality(WaitingReaders)

\* Userland may skip condvar_signal when the word is zero: a thread that waits
\* on the condvar keeps the word nonzero, through partial signals and timeouts.
CondvarWordTrue == condvar = 0 <=> cv.waiting = <<>>

\* The assertions of the lock and condvar code never fail, except the one that
\* condvar_signal is only called while there are waiters.
OtherAssertsHold == failed \subseteq {"condvar != HAS_NO_WAITERS"}

\* What the other invariants need to be inductive: a thread has satisfied
\* conditions only while it polls, holds the lock only while it runs in userland,
\* and the kernel has a record for every queue that is in use.
PhasesMatch ==
  /\ info.here \/ info = NoInfo
  /\ \A t \in Threads :
       /\ phase[t] \notin {"rdwait", "wrwait", "cvwait", "relock"} =>
            woken[t] = {} /\ ~timed[t]
       /\ holds[t] # "no" => phase[t] \in {"user", "unlock", "signal"}
       /\ phase[t] = "unlock" => holds[t] = "write"
       /\ phase[t] = "cvwait" => cv.here

\* The inductive invariant of the lock and condvar protocol.
IInv ==
  /\ TypeOK
  /\ PhasesMatch
  /\ LockWordTrue
  /\ WaitersAreManaged
  /\ QueuesMatchThreads
  /\ CondvarWordTrue
  /\ OtherAssertsHold

\* thread.cpp:460 asserts that a condvar that has a wait record has waiters.
CondvarAssertHolds == "condvar != HAS_NO_WAITERS" \notin failed

\* Nobody overtakes a waiting writer: while writers are queued, a thread that
\* comes to own the lock is the first of them (acquisition, hand-over and the
\* userland fast paths together).
NoBarging ==
  [][\A t \in Threads :
       info.writers # <<>> /\ owns(t) = "no" /\ owns(t)' # "no"
         => t = Head(info.writers)]_vars

\* A thread that waits for the write lock, or to get it back after a condvar
\* timeout, returns from poll (unless the kernel has halted).
WritersServed ==
  \A t \in Threads :
    phase[t] \in {"wrwait", "relock"} ~> (phase[t] = "user" \/ failed # {})

\* A thread that condvar_signal moved to the lock's queue returns from poll.
SignalledServed ==
  \A t \in Threads :
    (phase[t] = "cvwait" /\ t \notin Range(cv.waiting))
      ~> (phase[t] = "user" \/ failed # {})

\* The lock with its kernel queues, userland fast paths, deadlines and delayed
\* wake-ups implements a reader-writer lock.
RW == INSTANCE RWLock WITH owner <- [t \in Threads |-> owns(t)]

ImplementsRWLock == RW!Spec
=============================================================================
