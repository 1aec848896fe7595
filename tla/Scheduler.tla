----------------------------- MODULE Scheduler -----------------------------
(***************************************************************************)
(* The kernel's scheduler and the conditions threads block on              *)
(* (fd/scheduler.cpp, fd/thread.cpp, concur/condition.cpp, the thread      *)
(* handling of fd/process_fd.cpp and the interrupt entry of                *)
(* hw/interrupt.cpp).                                                      *)
(*                                                                         *)
(* There is one processor and the kernel runs with interrupts disabled,    *)
(* except in the idle loop of wait_for_next.  The processor is in a thread *)
(* ("thread"), in schedule_next ("sched") or in the idle loop ("idle"): no *)
(* action but Schedule is possible in "sched".  A thread that was switched *)
(* away from is inside thread_yield ("yield") or in the thread_block of    *)
(* thread_condition_waiter::wait ("wait"), and continues there when it is  *)
(* switched to; its kernel stack then holds references to it, in           *)
(* interrupt_handler::handle and in wait.                                  *)
(*                                                                         *)
(* A signaler is here only its list of subscribed conditions; a condition  *)
(* is named by the thread that waits on it.  A process is the name of its  *)
(* termination signaler.  Waits that are satisfied at once do not reach    *)
(* the scheduler.                                                          *)
(***************************************************************************)
EXTENDS Naturals, Sequences, FiniteSets, LinkedList

CONSTANTS Threads,     \* thread objects
          Processes,   \* processes
          Signalers,   \* signalers other than the processes' own
          process,     \* the process of each thread
          FirstThread, \* init's main thread
          None         \* no thread

ASSUME SchedulerAssumption ==
  /\ process \in [Threads -> Processes]
  /\ FirstThread \in Threads
  /\ None \notin Threads

VARIABLES
  cpu,           \* what the processor does
  running,       \* the running thread, or None
  ready,         \* the ready list
  dealloc_later, \* exited threads to free after the next switch
  old_thread,    \* the thread that called wait_for_next, on whose stack we are
  pc,            \* where each thread is
  blocked, unscheduled, exited, \* the threads with these flags
  threads,       \* the threads in the thread list of their process
  alive,         \* the running processes
  conditions,    \* for each signaler, the threads subscribed to it
  waiting,       \* for each thread in wait, the signalers of its conditions
  satisfied,     \* those of them that have been satisfied
  failed         \* assertions and panics that were hit; the kernel then halts

sched_vars == <<running, dealloc_later, old_thread>>
thread_vars == <<exited, threads, alive>>
vars == <<cpu, ready, pc, blocked, unscheduled, conditions, waiting, satisfied,
          failed, sched_vars, thread_vars>>

init == process[FirstThread]

AllSignalers == Signalers \cup Processes

Init ==
  /\ cpu = "thread" /\ running = FirstThread /\ old_thread = None
  /\ ready = <<>> /\ dealloc_later = <<>>
  /\ pc = [t \in Threads |-> IF t = FirstThread THEN "user" ELSE "unborn"]
  /\ blocked = {} /\ unscheduled = {} /\ exited = {}
  /\ threads = {FirstThread}
  /\ alive = {init}
  /\ conditions = [s \in AllSignalers |-> <<>>]
  /\ waiting = [t \in Threads |-> {}]
  /\ satisfied = [t \in Threads |-> {}]
  /\ failed = {}

Check(name, ok) == failed' = IF ok THEN failed ELSE failed \cup {name}

\* Who holds a reference to a thread, beside the scheduler's lists: the process's
\* list, and frames on the thread's own kernel stack.
held(t) == t \in threads \/ pc[t] \in {"yield", "wait"}

listed(t) == t = running \/ t \in Range(ready) \/ t \in Range(dealloc_later)

\* The object is gone.
freed(t) == pc[t] # "unborn" /\ ~held(t) /\ ~listed(t)

----------------------------------------------------------------------------
(***************************************************************************)
(* Signalers.  satisfy(s, q): thread_condition::satisfy on the conditions  *)
(* of the threads q, the first ones subscribed to s; thread_unblock puts   *)
(* those that were blocked and unscheduled on the ready list.              *)
(***************************************************************************)
thread_unblock_Forgets(q) ==
  /\ blocked' = blocked \ Range(q)
  /\ UNCHANGED <<ready, unscheduled>>

thread_unblock(q) ==
  LET wakes(t) == t \in blocked /\ t \in unscheduled
  IN  /\ blocked' = blocked \ Range(q)
      /\ ready' = ready \o SelectSeq(q, wakes)
      /\ unscheduled' = unscheduled \ {t \in Range(q) : wakes(t)}

satisfy(s, q) ==
  /\ conditions' = [conditions EXCEPT ![s] = SubSeq(@, Len(q) + 1, Len(@))]
  /\ satisfied' = [t \in Threads |->
                     IF t \in Range(q) THEN satisfied[t] \cup {s} ELSE satisfied[t]]
  /\ thread_unblock(q)
  /\ Check("satisfy", \A t \in Range(q) : ~freed(t) /\ s \notin satisfied[t])

condition_notify(s) ==
  satisfy(s, IF conditions[s] = <<>> THEN <<>> ELSE <<Head(conditions[s])>>)

condition_broadcast(s) == satisfy(s, conditions[s])

----------------------------------------------------------------------------
(***************************************************************************)
(* The scheduler.                                                          *)
(***************************************************************************)
is_ready(t) == t \notin exited /\ process[t] \in alive /\ t \notin blocked

requeued_InFront(t) ==
  IF t # None /\ t \notin exited /\ t \notin blocked THEN <<t>> \o ready ELSE ready

requeued(t) ==
  IF t # None /\ t \notin exited /\ t \notin blocked THEN Append(ready, t) ELSE ready

first_ready(q) ==
  CHOOSE i \in 1..(Len(q) + 1) :
    /\ i <= Len(q) => is_ready(q[i])
    /\ \A j \in 1..(i - 1) : ~is_ready(q[j])

\* The flag of the old thread is set only if another one is switched to at once.
now_unscheduled_NotIdle(old, next) ==
  {t \in {old} \cap blocked : next # None /\ t # next /\ t \notin exited}

now_unscheduled(old, next) ==
  {t \in {old} \cap blocked : t # next /\ t \notin exited}

\* One turn of the loop in wait_for_next: schedule_next, and the switch if there
\* is a thread to switch to.
Schedule ==
  /\ cpu = "sched"
  /\ LET q    == requeued(running)
         k    == first_ready(q)
         next == IF k <= Len(q) THEN q[k] ELSE None
     IN  /\ running' = next
         /\ ready' = SubSeq(q, k + 1, Len(q))
         /\ unscheduled' = unscheduled \cup {q[i] : i \in 1..(k - 1)}
                                       \cup now_unscheduled(running, next)
         /\ dealloc_later' = IF running # next /\ running \in exited
                             THEN Append(dealloc_later, running) ELSE dealloc_later
         /\ IF next = None
            THEN cpu' = "idle" /\ UNCHANGED old_thread
            ELSE cpu' = "thread" /\ old_thread' = None
         /\ Check("schedule", /\ \A t \in {running} \ (exited \cup blocked \cup {None}) :
                                   process[t] \in alive
                              /\ \A t \in {old_thread} \ {None, next} :
                                   held(t) \/ t \in Range(dealloc_later'))
  /\ UNCHANGED <<pc, blocked, conditions, waiting, satisfied, thread_vars>>

\* wait_for_next, called by the running thread.
wait_for_next(t) == cpu' = "sched" /\ old_thread' = t /\ UNCHANGED <<running, dealloc_later>>

\* The thread that was switched to continues in the kernel.
Continue(t) ==
  /\ cpu = "thread" /\ running = t /\ pc[t] \in {"new", "yield", "wait"}
  /\ pc' = [pc EXCEPT ![t] = "user"]
  /\ dealloc_later' = IF pc[t] = "new" THEN dealloc_later ELSE <<>>
  /\ conditions' = [s \in AllSignalers |->
                      IF s \in waiting[t] \ satisfied[t]
                      THEN remove_one(conditions[s], t) ELSE conditions[s]]
  /\ waiting' = [waiting EXCEPT ![t] = {}]
  /\ satisfied' = [satisfied EXCEPT ![t] = {}]
  /\ Check("continue", /\ pc[t] = "wait" => satisfied[t] # {}
                       /\ pc[t] # "new" => \A u \in Range(dealloc_later) :
                            ~held(u) /\ u \notin Range(ready) /\ ExactlyOne(dealloc_later, u))
  /\ UNCHANGED <<cpu, running, ready, old_thread, blocked, unscheduled, thread_vars>>

----------------------------------------------------------------------------
(***************************************************************************)
(* What a thread does when it runs, and interrupts.                        *)
(***************************************************************************)
InUserland(t) == cpu = "thread" /\ running = t /\ pc[t] = "user"

\* The timer interrupt, or thread_yield.
Yield(t) ==
  /\ InUserland(t)
  /\ pc' = [pc EXCEPT ![t] = "yield"]
  /\ wait_for_next(t)
  /\ UNCHANGED <<ready, blocked, unscheduled, conditions, waiting, satisfied, failed, thread_vars>>

\* A system call that waits for any of the signalers S, none of them satisfied.
wait(t, S) ==
  /\ InUserland(t)
  /\ S \cap Processes \subseteq alive
  /\ pc' = [pc EXCEPT ![t] = "wait"]
  /\ conditions' = [s \in AllSignalers |->
                      IF s \in S THEN Append(conditions[s], t) ELSE conditions[s]]
  /\ waiting' = [waiting EXCEPT ![t] = S]
  /\ blocked' = blocked \cup {t}
  /\ unscheduled' = unscheduled \ {t}
  /\ wait_for_next(t)
  /\ Check("thread_block", t \notin blocked /\ t \notin exited)
  /\ UNCHANGED <<ready, satisfied, thread_vars>>

\* A system call or a device interrupt wakes up one or all waiters.
Signal(t, s) ==
  /\ InUserland(t)
  /\ condition_notify(s) \/ condition_broadcast(s)
  /\ UNCHANGED <<cpu, pc, waiting, sched_vars, thread_vars>>

\* An interrupt in the idle loop, after which it calls schedule_next again.
IdleInterrupt ==
  /\ cpu = "idle"
  /\ cpu' = "sched"
  /\ \/ \E s \in Signalers : condition_notify(s) \/ condition_broadcast(s)
     \/ UNCHANGED <<conditions, satisfied, blocked, ready, unscheduled, failed>>
  /\ UNCHANGED <<pc, waiting, sched_vars, thread_vars>>

\* thread_create, and fork, whose child starts with one thread.
Create(t, u) ==
  /\ InUserland(t)
  /\ pc[u] = "unborn"
  /\ \/ process[u] = process[t]
     \/ process[u] \notin alive /\ \A v \in Threads : process[v] = process[u] => pc[v] = "unborn"
  /\ pc' = [pc EXCEPT ![u] = "new"]
  /\ threads' = threads \cup {u}
  /\ alive' = alive \cup {process[u]}
  /\ ready' = Append(ready, u)
  /\ UNCHANGED <<cpu, blocked, unscheduled, exited, conditions, waiting, satisfied, failed, sched_vars>>

\* thread_exit, and then thread_final_yield.
ThreadExit(t) ==
  /\ InUserland(t)
  /\ exited' = exited \cup {t}
  /\ threads' = threads \ {t}
  /\ pc' = [pc EXCEPT ![t] = "dead"]
  /\ wait_for_next(t)
  /\ Check("thread_exit", t \notin exited /\ t \in threads)
  /\ UNCHANGED <<ready, blocked, unscheduled, alive, conditions, waiting, satisfied>>

\* proc_exit, proc_raise and fatal exceptions.  The kernel panics if init exits.
ProcExit(t) ==
  /\ InUserland(t)
  /\ process[t] # init
  /\ LET members == {u \in threads : process[u] = process[t]}
     IN  exited' = exited \cup members /\ threads' = threads \ members
  /\ alive' = alive \ {process[t]}
  /\ condition_broadcast(process[t])
  /\ pc' = [pc EXCEPT ![t] = "dead"]
  /\ wait_for_next(t)
  /\ UNCHANGED waiting

Next ==
  /\ failed = {}
  /\ \/ Schedule
     \/ IdleInterrupt
     \/ \E t \in Threads :
          \/ Continue(t)
          \/ Yield(t)
          \/ \E S \in SUBSET AllSignalers \ {{}} : wait(t, S)
          \/ \E s \in Signalers : Signal(t, s)
          \/ \E u \in Threads : Create(t, u)
          \/ ThreadExit(t)
          \/ ProcExit(t)

Spec == Init /\ [][Next]_vars

(***************************************************************************)
(* The scheduler's own steps happen, and so does the timer interrupt.      *)
(***************************************************************************)
Fairness ==
  /\ WF_vars(failed = {} /\ Schedule)
  /\ WF_vars(failed = {} /\ IdleInterrupt)
  /\ \A t \in Threads : WF_vars(failed = {} /\ Continue(t)) /\ WF_vars(failed = {} /\ Yield(t))

FairSpec == Spec /\ Fairness

----------------------------------------------------------------------------
TypeOK ==
  /\ cpu \in {"thread", "sched", "idle"}
  /\ running \in Threads \cup {None}
  /\ cpu = "thread" => running # None
  /\ cpu = "idle" => running = None
  /\ old_thread \in Threads \cup {None}
  /\ ready \in Seq(Threads) /\ dealloc_later \in Seq(Threads)
  /\ pc \in [Threads -> {"unborn", "new", "user", "yield", "wait", "dead"}]
  /\ blocked \subseteq Threads /\ unscheduled \subseteq Threads /\ exited \subseteq Threads
  /\ threads \subseteq Threads /\ alive \subseteq Processes
  /\ conditions \in [AllSignalers -> Seq(Threads)]
  /\ waiting \in [Threads -> SUBSET AllSignalers]
  /\ satisfied \in [Threads -> SUBSET AllSignalers]
  /\ failed \subseteq {"satisfy", "schedule", "continue", "thread_block", "thread_exit", "thread_yield"}

\* The scheduler neither loses a thread nor has it twice: a thread of a process
\* is running, or once in the ready list, or it is blocked and marked so that
\* whoever unblocks it puts it back in the list; and the list holds no blocked
\* thread.  Blocking, idling, yielding and waking up keep it so between them.
ThreadsKept ==
  \A t \in threads :
    /\ AtMostOne(ready, t)
    /\ IF t = running THEN t \notin Range(ready)
       ELSE t \in Range(ready) <=> ~(t \in blocked /\ t \in unscheduled)
    /\ t \in Range(ready) => t \notin blocked

\* No wake-up is lost between a signaler and a waiter: a signaler's list holds the
\* threads whose condition on it is not satisfied yet, each once, and a thread is
\* blocked exactly while it waits and none of its conditions is satisfied.
SubscriptionsMatch ==
  \A t \in Threads :
    /\ \A s \in AllSignalers :
         IF s \in waiting[t] \ satisfied[t] THEN ExactlyOne(conditions[s], t)
                                            ELSE t \notin Range(conditions[s])
    /\ t \in blocked <=> pc[t] = "wait" /\ satisfied[t] = {}

\* The scheduler, the waiters and the signalers hit none of their assertions and
\* panics: among them that a thread freed after a switch has no reference left,
\* and that a condition being satisfied belongs to a thread that still exists.
NoPanic == failed = {}

\* The scheduler's lists, the signalers' lists and the threads agree, in every state between
\* two blocking points of any thread, and no assertion or panic is hit: the three together
\* are what lets any code block a thread and rely on being run again.
SchedulerConsistent == TypeOK /\ ThreadsKept /\ SubscriptionsMatch /\ NoPanic

\* A thread in the ready list runs, however the others behave.
ReadyRuns ==
  \A t \in Threads :
    (t \in threads /\ t \in Range(ready)) ~> (running = t \/ t \notin threads \/ failed # {})

\* A thread whose condition is satisfied returns from wait.
WokenReturns ==
  \A t \in Threads : satisfied[t] # {} ~> (pc[t] # "wait" \/ t \notin threads \/ failed # {})
=============================================================================
