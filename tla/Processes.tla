----------------------------- MODULE Processes ------------------------------
\* Processes and their descriptor tables (fd/process_fd.cpp, proc/syscall/proc_syscalls.cpp,
\* proc/syscall/fd_syscalls.cpp): init, which forks, waits for and drops one child at a time,
\* and the child, whose two threads share its table.
\*
\* The kernel does not preempt: `cpu' is the thread inside a system call, and no other thread
\* moves until the call returns or blocks. A call is a stack of frames, because closing a
\* descriptor may destroy a process, which closes descriptors. It blocks in the destructor of
\* a pseudo fd, which sends a request, and in the read of a program by exec.
EXTENDS MemMapping, Sequences

CONSTANTS Slots,     \* the capacity of a descriptor table, which here does not grow
          MaxRefs,   \* the most references to an object
          Keeps,     \* the lists of descriptors that exec keeps, without repetitions
          Masks      \* the rights that stat_put keeps

VARIABLES fds,     \* fds[p][n]: the descriptor mapping of process p at number n, or Closed
          refs,    \* shared_count of the objects that descriptors refer to
          proc,    \* per process: running, exit status and memory
          thr,     \* per thread: whether it is in its process's list, and its kernel stack
          cpu,     \* the thread inside the kernel, or NoThread
          waiter,  \* init's poll for the end of the child: NotWaiting, Waiting or a status
          leaked,  \* history: references to an object that nothing will ever release
          late,    \* history: a descriptor was added to a process that was exiting
          lost,    \* history: frames of address spaces that a failing exec dropped
          failed   \* assertions that failed, and references that a race lost; the end of the behaviour

pvars == <<fds, refs, proc, thr, cpu, waiter, leaked, late, lost, failed>>

Procs == {"init", "child"}
Threads == {"i1", "c1", "c2"}
ProcOf(t) == IF t = "i1" THEN "init" ELSE "child"
Numbers == 0 .. Slots - 1

\* What exec is told to keep are numbers of descriptors: get_fd refuses others.
ASSUME TableAssumption == Slots \in Nat \ {0} /\ Keeps \subseteq Seq(Numbers)

\* A program file, a pseudo fd, and the child process itself.
Objects == {"file", "pseudo", "child"}
Rights == {"read", "write", "exec"}
Closed == [obj |-> "none", rights |-> {}]
NoThread == "none"
Alive == [code |-> "alive"]
NotWaiting == [code |-> "not waiting"]
Waiting == [code |-> "waiting"]
EmptyStack == <<>>

\* The image exec builds: one anonymous mapping, backed.
Image ==
  LET mp == mem_mapping_t(0, 1, "anon", 0, {"r", "w"}, FALSE)
      m == add_mem_mapping(NoMemory([i \in 0 .. FilePages - 1 |-> FilePage(i)]), mp, FALSE, FALSE)
  IN ensure_completely_backed(m, mp)
NoImage == NoMemory([i \in 0 .. FilePages - 1 |-> FilePage(i)])
\* What the destructor and exec do with an old address space.
Released(m) == LET Drop(mp, acc) == Release(FALSE, acc, mp) IN FoldSet(Drop, m, m.maps)

Descriptor(o, rights) == [obj |-> o, rights |-> rights]
Free(p) == {n \in Numbers : fds[p][n] = Closed}
Open(p) == Numbers \ Free(p)
Users(o) == {pn \in Procs \X Numbers : fds[pn[1]][pn[2]].obj = o}
TypeOfSlots == {Closed} \cup {Descriptor(o, r) : o \in Objects, r \in SUBSET Rights}

PTypeOK ==
  /\ fds \in [Procs -> [Numbers -> TypeOfSlots]]
  /\ refs \in [Objects -> 0 .. MaxRefs]
  /\ cpu \in Threads \cup {NoThread}
  /\ \A p \in Procs : proc[p].running \in BOOLEAN
  /\ \A t \in Threads : thr[t].live \in BOOLEAN

PInit ==
  /\ fds = [p \in Procs |-> [n \in Numbers |->
              IF p = "init" /\ n = 0 THEN Descriptor("file", {"read", "exec"})
              ELSE IF p = "init" /\ n = 1 THEN Descriptor("pseudo", {"read"}) ELSE Closed]]
  /\ refs = [o \in Objects |-> IF o = "child" THEN 0 ELSE 1]
  /\ proc = [p \in Procs |-> [running |-> p = "init", status |-> Alive,
                              mem |-> IF p = "init" THEN Image ELSE NoImage]]
  /\ thr = [t \in Threads |-> [live |-> t = "i1", stack |-> EmptyStack]]
  /\ cpu = NoThread /\ waiter = NotWaiting
  /\ leaked = [o \in Objects |-> 0] /\ late = FALSE /\ lost = 0 /\ failed = {}

\* ------------------------------------------------------- system calls that do not block

\* Thread t of p makes a system call.
Enter(t) == failed = {} /\ cpu = NoThread /\ thr[t].live /\ thr[t].stack = EmptyStack
            /\ proc[ProcOf(t)].running /\ (t = "i1" => waiter = NotWaiting)

\* get_fd, as a condition.
get_fd(p, n, rights) == fds[p][n] # Closed /\ rights \subseteq fds[p][n].rights
\* add_fd takes the lowest free number.
add_fd(p, d) == [fds EXCEPT ![p][Min(Free(p))] = d]
Frame(op, p, n) == [op |-> op, p |-> p, n |-> n]
Frames(t) == {thr[t].stack[i] : i \in DOMAIN thr[t].stack}
AllFrames == UNION {Frames(t) : t \in Threads}
\* Whether a thread is inside exit of p.
Exiting(p) == \E f \in AllFrames : f.op = "exit" /\ f.p = p

\* A copy of a shared_ptr asserts that the object lives.
Increment(o) ==
  IF refs[o] = 0 THEN failed' = failed \cup {"shared_count"} /\ UNCHANGED refs
  ELSE refs[o] < MaxRefs /\ refs' = [refs EXCEPT ![o] = @ + 1] /\ UNCHANGED failed

syscall_fd_dup_SharesReference(t, n) ==
  LET p == ProcOf(t)
  IN /\ Enter(t) /\ get_fd(p, n, {}) /\ Free(p) # {}
     /\ fds' = add_fd(p, fds[p][n])
     /\ late' = (late \/ Exiting(p))
     /\ UNCHANGED <<refs, proc, thr, cpu, waiter, leaked, lost, failed>>
syscall_fd_dup(t, n) ==
  LET p == ProcOf(t)
  IN /\ Enter(t) /\ get_fd(p, n, {}) /\ Free(p) # {}
     /\ Increment(fds[p][n].obj)
     /\ fds' = add_fd(p, fds[p][n])
     /\ late' = (late \/ Exiting(p))
     /\ UNCHANGED <<proc, thr, cpu, waiter, leaked, lost>>

\* replace_fd assigns to a shared_ptr that holds an object, and does not release it. If the
\* descriptor is being closed, the new reference is forgotten when the destructor of the old
\* object returns.
syscall_fd_replace_KeepsRights(t, from, to) ==
  LET p == ProcOf(t)
  IN /\ Enter(t) /\ get_fd(p, from, {}) /\ get_fd(p, to, {}) /\ from # to
     /\ Increment(fds[p][from].obj)
     /\ fds' = [fds EXCEPT ![p][to].obj = fds[p][from].obj]
     /\ leaked' = [leaked EXCEPT ![fds[p][to].obj] = @ + 1]
     /\ UNCHANGED <<proc, thr, cpu, waiter, late, lost>>
syscall_fd_replace(t, from, to) ==
  LET p == ProcOf(t)
  IN /\ Enter(t) /\ get_fd(p, from, {}) /\ get_fd(p, to, {}) /\ from # to
     /\ IF Frame("closed", p, to) \in AllFrames THEN failed' = {"replaced in close"} /\ UNCHANGED refs
        ELSE Increment(fds[p][from].obj)
     /\ fds' = [fds EXCEPT ![p][to] = fds[p][from]]
     /\ leaked' = [leaked EXCEPT ![fds[p][to].obj] = @ + 1]
     /\ UNCHANGED <<proc, thr, cpu, waiter, late, lost>>

syscall_fd_stat_put(t, n, keep) ==
  /\ Enter(t) /\ get_fd(ProcOf(t), n, {})
  /\ fds' = [fds EXCEPT ![ProcOf(t)][n].rights = @ \cap keep]
  /\ UNCHANGED <<refs, proc, thr, cpu, waiter, leaked, late, lost, failed>>

\* A new object: fd_create1, or opening the file or pseudo fd once nothing refers to it.
CreateFd(t, o, rights) ==
  LET p == ProcOf(t)
  IN /\ Enter(t) /\ Free(p) # {} /\ o # "child" /\ refs[o] = 0 /\ Users(o) = {} /\ leaked[o] = 0
     /\ refs' = [refs EXCEPT ![o] = 1]
     /\ fds' = add_fd(p, Descriptor(o, rights))
     /\ late' = (late \/ Exiting(p))
     /\ UNCHANGED <<proc, thr, cpu, waiter, leaked, lost, failed>>

\* fork: the child gets the caller as its only thread, a copy of the table and a copy of the
\* memory; the caller gets a descriptor for the child.
Copy(m) == [m EXCEPT !.pt = [a \in UserPages |->
              IF is_backed(m, a) THEN [@[a] EXCEPT !.dirty = FALSE] ELSE @[a]]]
syscall_proc_fork(t) ==
  LET copies(o) == Cardinality({n \in Open("init") : fds["init"][n].obj = o})
  IN /\ Enter(t) /\ refs["child"] = 0 /\ Users("child") = {} /\ leaked["child"] = 0
     /\ Free("init") # {}
     /\ \A o \in Objects : refs[o] + copies(o) <= MaxRefs
     /\ fds' = [add_fd("init", Descriptor("child", {"read"})) EXCEPT !["child"] = fds["init"]]
     /\ refs' = [o \in Objects |-> IF o = "child" THEN 1 ELSE refs[o] + copies(o)]
     /\ proc' = [proc EXCEPT !["child"] = [running |-> TRUE, status |-> Alive,
                                           mem |-> Copy(proc["init"].mem)]]
     /\ thr' = [thr EXCEPT !["c1"].live = TRUE]
     /\ UNCHANGED <<cpu, waiter, leaked, late, lost, failed>>

syscall_thread_create(t) ==
  /\ Enter(t) /\ t = "c1" /\ ~thr["c2"].live
  /\ thr' = [thr EXCEPT !["c2"].live = TRUE]
  /\ UNCHANGED <<fds, refs, proc, cpu, waiter, leaked, late, lost, failed>>

\* poll for the end of the child: satisfied already, or subscribed to its signaler.
PollTermination(t) ==
  /\ Enter(t)
  /\ \E n \in Open("init") : fds["init"][n].obj = "child"
  /\ waiter' = IF proc["child"].running THEN Waiting ELSE proc["child"].status
  /\ UNCHANGED <<fds, refs, proc, thr, cpu, leaked, late, lost, failed>>
PollReturns ==
  /\ failed = {} /\ cpu = NoThread /\ waiter \notin {NotWaiting, Waiting}
  /\ waiter' = NotWaiting
  /\ UNCHANGED <<fds, refs, proc, thr, cpu, leaked, late, lost, failed>>

\* ----------------------------------------------------------- system calls that may block

Top(t) == Head(thr[t].stack)
Goto(t, stack) == thr' = [thr EXCEPT ![t].stack = stack]
Begin(t, frame) ==
  /\ Enter(t) /\ cpu' = t /\ Goto(t, <<frame>>)
  /\ UNCHANGED <<fds, refs, proc, waiter, leaked, late, lost, failed>>

syscall_fd_close(t, n) == get_fd(ProcOf(t), n, {}) /\ Begin(t, Frame("close", ProcOf(t), n))
\* proc_exit and a fatal proc_raise; when init exits the kernel stops.
syscall_proc_exit(t, status) ==
  ProcOf(t) # "init" /\ Begin(t, [op |-> "exit", p |-> ProcOf(t), n |-> 0, status |-> status])

\* A child, after fork: exec looks up the program and the descriptors to keep, and keeps pointers to their
\* mappings while it reads the program.
syscall_proc_exec(t, n, keep) ==
  LET p == ProcOf(t)
  IN /\ Enter(t) /\ p # "init" /\ get_fd(p, n, {"exec"}) /\ "write" \notin fds[p][n].rights
     /\ \A i \in DOMAIN keep : get_fd(p, keep[i], {})
     /\ Increment(fds[p][n].obj)
     /\ Goto(t, <<[op |-> "exec read", p |-> p, keep |-> keep, obj |-> fds[p][n].obj, stale |-> FALSE]>>)
     /\ UNCHANGED <<fds, proc, cpu, waiter, leaked, late, lost>>

\* ------------------------------------------------------------------- inside the kernel

Running(t, op) == failed = {} /\ cpu = t /\ thr[t].stack # EmptyStack /\ Top(t).op = op
Pop(t) == Tail(thr[t].stack)

\* Releasing a reference: the last one destroys the object, while the shared_ptr still
\* points to it. `stack' is what the thread does afterwards.
Reset(t, o, stack) ==
  IF refs[o] = 0 THEN failed' = failed \cup {"shared_count"} /\ UNCHANGED <<refs, thr>>
  ELSE /\ refs' = [refs EXCEPT ![o] = @ - 1]
       /\ Goto(t, IF refs[o] = 1 THEN <<Frame("destroy", o, 0)>> \o stack ELSE stack)
       /\ UNCHANGED failed

close_fd(t) ==
  LET f == Top(t)
  IN /\ Running(t, "close")
     /\ IF fds[f.p][f.n] = Closed THEN Goto(t, Pop(t)) /\ UNCHANGED <<refs, failed>>
        ELSE Reset(t, fds[f.p][f.n].obj, <<Frame("closed", f.p, f.n)>> \o Pop(t))
     /\ UNCHANGED <<fds, proc, cpu, waiter, leaked, late, lost>>

\* The mapping is deallocated, and with it what an exec in progress may point to.
close_fd_done(t) ==
  LET f == Top(t)
      Stale(fr) == IF fr.op = "exec read" /\ fr.p = f.p /\ \E i \in DOMAIN fr.keep : fr.keep[i] = f.n
                   THEN [fr EXCEPT !.stale = TRUE] ELSE fr
  IN /\ Running(t, "closed")
     /\ fds' = [fds EXCEPT ![f.p][f.n] = Closed]
     /\ thr' = [u \in Threads |-> IF u = t THEN [thr[t] EXCEPT !.stack = Pop(t)]
                  ELSE [thr[u] EXCEPT !.stack = [i \in DOMAIN @ |-> Stale(@[i])]]]
     /\ UNCHANGED <<refs, proc, cpu, waiter, leaked, late, lost, failed>>

\* The destructor of an object. That of a pseudo fd blocks until the server has answered; a
\* thread that has exited must not block. ~process_fd ends the process first.
Destroy(t) ==
  LET o == Top(t).p
  IN /\ Running(t, "destroy")
     /\ CASE o = "file" -> Goto(t, Pop(t)) /\ UNCHANGED <<cpu, failed>>
          [] o = "pseudo" /\ thr[t].live ->
               Goto(t, <<Frame("answer", o, 0)>> \o Pop(t)) /\ cpu' = NoThread /\ UNCHANGED failed
          [] o = "pseudo" /\ ~thr[t].live ->
               failed' = failed \cup {"thread_block"} /\ UNCHANGED <<thr, cpu>>
          [] o = "child" ->
               Goto(t, (IF proc[o].running
                        THEN <<[op |-> "exit", p |-> o, n |-> 0, status |-> [code |-> "killed"]]>>
                        ELSE EmptyStack) \o <<Frame("~process_fd", o, 0)>> \o Pop(t))
               /\ UNCHANGED <<cpu, failed>>
     /\ UNCHANGED <<fds, refs, proc, waiter, leaked, late, lost>>

\* The server answers, and the thread goes on.
Answer(t) ==
  /\ failed = {} /\ cpu = NoThread /\ thr[t].stack # EmptyStack /\ Top(t).op = "answer"
  /\ cpu' = t /\ Goto(t, Pop(t))
  /\ UNCHANGED <<fds, refs, proc, waiter, leaked, late, lost, failed>>

\* exit_all_threads: the threads leave the process; the ones that were blocked are never
\* resumed, so an exec among them keeps its reference, and a descriptor that one of them was
\* closing stays in the table although its object is gone (noted in failed).
Others(t, p) == {u \in Threads \ {t} : ProcOf(u) = p}
ExitAllThreads(t, p, stack) ==
  thr' = [u \in Threads |->
            IF u = t THEN [live |-> thr[t].live /\ ProcOf(t) # p, stack |-> stack]
            ELSE IF u \in Others(t, p) THEN [live |-> FALSE, stack |-> EmptyStack] ELSE thr[u]]
Abandoned(t, p) ==
  [o \in Objects |-> Cardinality({u \in Others(t, p) :
     \E i \in DOMAIN thr[u].stack : thr[u].stack[i].op = "exec read" /\ thr[u].stack[i].obj = o})]
KilledInClose(t, p) ==
  IF \E u \in Others(t, p) : \E f \in Frames(u) : f.op = "closed" THEN {"killed in close"} ELSE {}
Plus(f, g) == [o \in Objects |-> f[o] + g[o]]

\* exit closes the descriptors one by one, then ends the threads and tells who waits.
exit_StatusNotStored(t) ==
  LET f == Top(t)
  IN /\ Running(t, "exit")
     /\ IF f.n < Slots
        THEN /\ Goto(t, <<Frame("close", f.p, f.n), [f EXCEPT !.n = @ + 1]>> \o Pop(t))
             /\ UNCHANGED <<proc, waiter, leaked, failed>>
        ELSE /\ ExitAllThreads(t, f.p, Pop(t))
             /\ leaked' = Plus(leaked, Abandoned(t, f.p))
             /\ proc' = [proc EXCEPT ![f.p].running = FALSE]
             /\ waiter' = IF waiter = Waiting THEN f.status ELSE waiter
             /\ failed' = KilledInClose(t, f.p)
     /\ UNCHANGED <<fds, refs, cpu, late, lost>>
exit_ForgetsWaiter(t) ==
  LET f == Top(t)
  IN /\ Running(t, "exit")
     /\ IF f.n < Slots
        THEN /\ Goto(t, <<Frame("close", f.p, f.n), [f EXCEPT !.n = @ + 1]>> \o Pop(t))
             /\ UNCHANGED <<proc, waiter, leaked, failed>>
        ELSE /\ ExitAllThreads(t, f.p, Pop(t))
             /\ leaked' = Plus(leaked, Abandoned(t, f.p))
             /\ proc' = [proc EXCEPT ![f.p].running = FALSE, ![f.p].status = f.status]
             /\ waiter' = waiter
             /\ failed' = KilledInClose(t, f.p)
     /\ UNCHANGED <<fds, refs, cpu, late, lost>>
exit(t) ==
  LET f == Top(t)
  IN /\ Running(t, "exit")
     /\ IF f.n < Slots
        THEN /\ Goto(t, <<Frame("close", f.p, f.n), [f EXCEPT !.n = @ + 1]>> \o Pop(t))
             /\ UNCHANGED <<proc, waiter, leaked, failed>>
        ELSE /\ ExitAllThreads(t, f.p, Pop(t))
             /\ leaked' = Plus(leaked, Abandoned(t, f.p))
             /\ proc' = [proc EXCEPT ![f.p].running = FALSE, ![f.p].status = f.status]
             /\ waiter' = IF waiter = Waiting THEN f.status ELSE waiter
             /\ failed' = KilledInClose(t, f.p)
     /\ UNCHANGED <<fds, refs, cpu, late, lost>>

\* ~process_fd: the table itself is freed, not the mappings that are left in it.
DestructProcess(t) ==
  LET p == Top(t).p
  IN /\ Running(t, "~process_fd")
     /\ leaked' = Plus(leaked, [o \in Objects |-> Cardinality({n \in Open(p) : fds[p][n].obj = o})])
     /\ fds' = [fds EXCEPT ![p] = [n \in Numbers |-> Closed]]
     /\ proc' = [proc EXCEPT ![p].mem = Released(@)]
     /\ Goto(t, Pop(t))
     /\ UNCHANGED <<refs, cpu, waiter, late, lost, failed>>

\* A call that is done: the thread returns to userland, if it still has one.
Return(t) ==
  /\ failed = {} /\ cpu = t /\ thr[t].stack = EmptyStack
  /\ cpu' = NoThread
  /\ UNCHANGED <<fds, refs, proc, thr, waiter, leaked, late, lost, failed>>

\* The program was read and is not one: the new address space is dropped with the frame of
\* the argument data.
exec_fails(t) ==
  /\ failed = {} /\ cpu = NoThread /\ thr[t].stack # EmptyStack /\ Top(t).op = "exec read"
  /\ cpu' = t /\ lost' = 1
  /\ Reset(t, Top(t).obj, EmptyStack)
  /\ UNCHANGED <<fds, proc, waiter, leaked, late>>

\* The program was read: the threads end, the caller among them, and a new main thread is
\* made, which runs when the caller is done. A mapping that was closed meanwhile, or that
\* another thread is still closing, is one that exec should not have held on to.
exec_succeeds(t) ==
  LET f == Top(t)
  IN /\ failed = {} /\ cpu = NoThread /\ thr[t].stack # EmptyStack /\ f.op = "exec read"
     /\ cpu' = t
     /\ IF f.stale \/ \E g \in AllFrames : g.op = "closed" /\ g.p = f.p
        THEN failed' = failed \cup {"exec mapping"} /\ UNCHANGED <<thr, leaked>>
        ELSE /\ ExitAllThreads(t, f.p, <<[op |-> "exec close", p |-> f.p, n |-> 0, keep |-> f.keep, obj |-> f.obj]>>)
             /\ leaked' = Plus(leaked, Abandoned(t, f.p))
             /\ UNCHANGED failed
     /\ UNCHANGED <<fds, refs, proc, waiter, late, lost>>

\* Descriptors are closed unless their object is that of one to keep; then the kept mappings
\* move to the front, and whatever else is left in the table is forgotten.
Kept(f) == {fds[f.p][f.keep[i]].obj : i \in DOMAIN f.keep}
exec_close(t) ==
  LET f == Top(t)
      d == fds[f.p][f.n]
  IN /\ Running(t, "exec close") /\ f.n < Slots
     /\ Goto(t, (IF d # Closed /\ d.obj \notin Kept(f) THEN <<Frame("close", f.p, f.n)>> ELSE EmptyStack)
                \o <<[f EXCEPT !.n = @ + 1]>>)
     /\ UNCHANGED <<fds, refs, proc, cpu, waiter, leaked, late, lost, failed>>

\* exec ends: table, memory, main thread, and the reference to the program.
exec_done(t) ==
  LET f == Top(t)
      main == IF f.p = "child" THEN "c1" ELSE "i1"
      forgotten(o) == Cardinality({n \in Open(f.p) : fds[f.p][n].obj = o
                                     /\ ~\E i \in DOMAIN f.keep : f.keep[i] = n})
      rest == IF refs[f.obj] = 1 THEN <<Frame("destroy", f.obj, 0)>> ELSE EmptyStack
  IN /\ Running(t, "exec close") /\ f.n = Slots
     /\ fds' = [fds EXCEPT ![f.p] = [n \in Numbers |->
                  IF n + 1 \in DOMAIN f.keep THEN fds[f.p][f.keep[n + 1]] ELSE Closed]]
     /\ leaked' = Plus(leaked, [o \in Objects |-> forgotten(o)])
     /\ proc' = [proc EXCEPT ![f.p].mem = [Image EXCEPT !.used = Released(proc[f.p].mem).used + 1]]
     /\ refs' = [refs EXCEPT ![f.obj] = @ - 1]
     /\ IF rest # EmptyStack /\ f.obj = "pseudo"
        THEN failed' = failed \cup {"thread_block"} /\ UNCHANGED <<thr, cpu>>
        ELSE /\ thr' = [thr EXCEPT ![t] = [live |-> FALSE, stack |-> EmptyStack],
                                   ![main] = [live |-> TRUE, stack |-> EmptyStack]]
             /\ cpu' = NoThread /\ UNCHANGED failed
     /\ UNCHANGED <<waiter, late, lost>>

\* What the processes do: init forks, waits for the child and closes descriptors, and the
\* threads of the child use all of the calls.
InitCall(t) ==
  \/ syscall_proc_fork(t) \/ PollTermination(t) \/ PollReturns
  \/ \E n \in Numbers : syscall_fd_close(t, n)
ChildCall(t) ==
  \/ \E n \in Numbers : syscall_fd_dup(t, n) \/ syscall_fd_close(t, n)
  \/ \E n, m \in Numbers : syscall_fd_replace(t, n, m)
  \/ \E n \in Numbers, keep \in Masks : syscall_fd_stat_put(t, n, keep)
  \/ CreateFd(t, "pseudo", {"read"})
  \/ syscall_thread_create(t)
  \/ syscall_proc_exit(t, [code |-> "exited"])
  \/ \E n \in Numbers, keep \in Keeps : syscall_proc_exec(t, n, keep)
Kernel(t) ==
  \/ close_fd(t) \/ close_fd_done(t) \/ Destroy(t) \/ Answer(t) \/ exit(t) \/ DestructProcess(t)
  \/ Return(t) \/ exec_fails(t) \/ exec_succeeds(t) \/ exec_close(t) \/ exec_done(t)

PNext == InitCall("i1") \/ (\E t \in Threads : Kernel(t)) \/ (\E t \in {"c1", "c2"} : ChildCall(t))
\* A thread in the kernel goes on; servers answer, and the scheduler's queue is first in,
\* first out, so a thread whose answer has come runs even if others keep making calls.
PFairness == \A t \in Threads : WF_pvars(Kernel(t)) /\ SF_pvars(Answer(t))
PSpec == PInit /\ [][PNext]_pvars /\ PFairness

\* -------------------------------------------------------------------- properties

\* Descriptors that hold a reference: not the ones that were reset and wait to be nulled.
Holding(o) == {pn \in Users(o) : Frame("closed", pn[1], pn[2]) \notin AllFrames}
ByExec(o) == {t \in Threads : \E f \in Frames(t) : f.op \in {"exec read", "exec close"} /\ f.obj = o}

\* The reference count of an object is the number of descriptors and running execs that
\* refer to it, plus those known to be leaked (by replace_fd, by exec with a duplicate of a
\* kept descriptor, by threads killed in exec, by descriptors that arrive late): a
\* descriptor in a table refers to a live object, and the last close destroys it.
RefsCounted ==
  failed = {} => \A o \in Objects :
    refs[o] = Cardinality(Holding(o)) + Cardinality(ByExec(o)) + leaked[o]

HeldRights(p, o) == UNION {fds[p][n].rights : n \in {m \in Numbers : fds[p][m].obj = o}}

\* Capabilities only shrink: whatever dup, replace, fork, exec and stat_put do, a right on an
\* object that a process holds was held before by that process or its parent, unless the
\* object was created in this step.
RightsOnlyShrink ==
  [][\A p \in Procs, o \in Objects : refs[o] > 0 =>
       HeldRights(p, o)' \subseteq HeldRights(p, o) \cup HeldRights("init", o)]_pvars

\* A process that has exited holds no descriptor, unless another thread of it added one
\* while exit was blocked in closing them; and a process that is gone holds no frame.
ExitedHoldsNothing ==
  failed = {} /\ ~proc["child"].running =>
    /\ ~late => Open("child") = {}
    /\ refs["child"] = 0 /\ (\A f \in AllFrames : f.p # "child") => proc["child"].mem.used = 0
    /\ \A t \in Threads \ {"i1"} : ~thr[t].live

\* What init is told about the child is how the child ended.
ToldTheTruth ==
  waiter \notin {NotWaiting, Waiting} /\ ~proc["child"].running => waiter = proc["child"].status

\* An exited process holds nothing, and whoever waited for it is told how it ended.
ExitedCleanly == PTypeOK /\ ExitedHoldsNothing /\ ToldTheTruth

\* A process that began to exit, by itself or because its last reference was closed, does
\* end, and init, if it waits for it, is told.
ExitCompletes ==
  Exiting("child") ~> (failed # {} \/ (~proc["child"].running /\ waiter # Waiting))
=============================================================================
