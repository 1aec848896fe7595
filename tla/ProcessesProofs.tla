-------------------------- MODULE ProcessesProofs --------------------------
(***************************************************************************)
(* Proof that rights only shrink, for descriptor tables of any size, any   *)
(* lists of descriptors that exec keeps and any masks of stat_put.         *)
(***************************************************************************)
EXTENDS Processes, SequenceTheorems, TLAPS

\* The frames of a kernel stack. What exec keeps across its read are numbers of descriptors.
FdFrames == [op : {"close", "closed"}, p : Procs, n : Numbers]
ObjectFrames == [op : {"destroy", "answer", "~process_fd"}, p : Objects, n : {0}]
ExitFrames == [op : {"exit"}, p : Procs, n : Nat, status : [code : {"exited", "killed"}]]
ReadFrames == [op : {"exec read"}, p : Procs, keep : Seq(Numbers), obj : Objects, stale : BOOLEAN]
CloseFrames == [op : {"exec close"}, p : Procs, n : Nat, keep : Seq(Numbers), obj : Objects]
AnyFrame == FdFrames \cup ObjectFrames \cup ExitFrames \cup ReadFrames \cup CloseFrames

\* The inductive invariant: tables hold descriptors, and stacks hold frames.
TablesTyped == fds \in [Procs -> [Numbers -> TypeOfSlots]]
StacksTyped == thr \in [Threads -> [live : BOOLEAN, stack : Seq(AnyFrame)]]
TInv == TablesTyped /\ StacksTyped

\* Every descriptor for an object that exists comes from one of the process or of its parent,
\* with no more rights than that had.
Derived ==
  \A p \in Procs, n \in Numbers :
    fds'[p][n].obj \in Objects /\ refs[fds'[p][n].obj] > 0 =>
      \E q \in {p, "init"}, m \in Numbers :
        fds[q][m].obj = fds'[p][n].obj /\ fds'[p][n].rights \subseteq fds[q][m].rights

\* Descriptors are what slots hold.
LEMMA DescriptorType ==
  ASSUME NEW o \in Objects, NEW r \in SUBSET Rights
  PROVE  Descriptor(o, r) \in TypeOfSlots /\ Descriptor(o, r).obj = o /\ Descriptor(o, r).rights = r
BY DEF TypeOfSlots, Descriptor

\* What is in a slot: nothing, or an object with rights.
LEMMA SlotType ==
  ASSUME TablesTyped, NEW p \in Procs, NEW n \in Numbers
  PROVE  /\ fds[p][n] \in TypeOfSlots
         /\ fds[p][n] # Closed => fds[p][n].obj \in Objects /\ fds[p][n].rights \in SUBSET Rights
BY DEF TablesTyped, TypeOfSlots, Descriptor

\* A slot is set to a descriptor.
LEMMA SetSlot ==
  ASSUME TablesTyped, NEW p, NEW n, NEW d \in TypeOfSlots,
         fds' = [fds EXCEPT ![p][n] = d],
         \/ d.obj \notin Objects
         \/ refs[d.obj] = 0
         \/ p \in Procs /\ \E m \in Numbers :
              fds[p][m].obj = d.obj /\ d.rights \subseteq fds[p][m].rights
  PROVE  TablesTyped' /\ Derived
<1>1. TablesTyped'
  BY DEF TablesTyped
<1>2. ASSUME NEW q \in Procs, NEW m \in Numbers,
             fds'[q][m].obj \in Objects, refs[fds'[q][m].obj] > 0
      PROVE  \E r \in {q, "init"}, k \in Numbers :
               fds[r][k].obj = fds'[q][m].obj /\ fds'[q][m].rights \subseteq fds[r][k].rights
  <2>1. CASE q = p /\ m = n
    <3>1. fds'[q][m] = d
      BY <2>1 DEF TablesTyped
    <3> QED BY <1>2, <2>1, <3>1
  <2>2. CASE ~(q = p /\ m = n)
    <3>1. fds'[q][m] = fds[q][m]
      BY <2>2 DEF TablesTyped
    <3> QED BY <1>2, <3>1
  <2> QED BY <2>1, <2>2
<1> QED BY <1>1, <1>2 DEF Derived

\* The tables are left alone.
LEMMA SameTables ==
  ASSUME TablesTyped, UNCHANGED fds
  PROVE  TablesTyped' /\ Derived
BY DEF TablesTyped, Derived

\* The stack of one thread is set.
LEMMA SetStack ==
  ASSUME StacksTyped, NEW t \in Threads, NEW s \in Seq(AnyFrame), Goto(t, s)
  PROVE  StacksTyped'
BY DEF StacksTyped, Goto

\* A stack that is not empty has a frame on top, and the rest is a stack.
LEMMA TopType ==
  ASSUME StacksTyped, NEW t \in Threads, thr[t].stack # EmptyStack
  PROVE  Top(t) \in AnyFrame /\ Pop(t) \in Seq(AnyFrame)
<1>1. thr[t].stack \in Seq(AnyFrame)
  BY DEF StacksTyped
<1> QED BY <1>1, HeadTailProperties DEF Top, Pop, EmptyStack

\* Stacks are put together from frames and stacks.
LEMMA Push ==
  ASSUME NEW f \in AnyFrame, NEW s \in Seq(AnyFrame)
  PROVE  <<f>> \o s \in Seq(AnyFrame) /\ EmptyStack \o s \in Seq(AnyFrame) /\ EmptyStack \in Seq(AnyFrame)
         /\ <<f>> \in Seq(AnyFrame)
BY DEF EmptyStack

\* Frames that have no fields of their own.
LEMMA FdFrame ==
  ASSUME NEW op \in {"close", "closed"}, NEW p \in Procs, NEW n \in Numbers
  PROVE  Frame(op, p, n) \in AnyFrame
BY DEF Frame, AnyFrame, FdFrames
LEMMA ObjectFrame ==
  ASSUME NEW op \in {"destroy", "answer", "~process_fd"}, NEW o \in Objects
  PROVE  Frame(op, o, 0) \in AnyFrame
BY DEF Frame, AnyFrame, ObjectFrames

\* Frames by their operation.
LEMMA FrameKinds ==
  ASSUME NEW f \in AnyFrame
  PROVE  /\ f.op \in {"close", "closed"} => f \in FdFrames
         /\ f.op \in {"destroy", "answer", "~process_fd"} => f \in ObjectFrames
         /\ f.op = "exit" => f \in ExitFrames
         /\ f.op = "exec read" => f \in ReadFrames
         /\ f.op = "exec close" => f \in CloseFrames
BY DEF AnyFrame, FdFrames, ObjectFrames, ExitFrames, ReadFrames, CloseFrames

\* A reference is released, and a stack is left.
LEMMA ResetStacks ==
  ASSUME StacksTyped, NEW t \in Threads, NEW o \in Objects, NEW s \in Seq(AnyFrame),
         Reset(t, o, s)
  PROVE  StacksTyped'
<1>1. CASE refs[o] = 0
  BY <1>1 DEF Reset, StacksTyped
<1>2. CASE refs[o] # 0
  <2>1. Frame("destroy", o, 0) \in AnyFrame
    BY ObjectFrame
  <2>2. <<Frame("destroy", o, 0)>> \o s \in Seq(AnyFrame)
    BY <2>1, Push
  <2>3. PICK r \in Seq(AnyFrame) : Goto(t, r)
    BY <1>2, <2>2 DEF Reset
  <2> QED BY <2>3, SetStack
<1> QED BY <1>1, <1>2

\* Threads leave their process.
LEMMA ExitAllThreadsStacks ==
  ASSUME StacksTyped, NEW t \in Threads, NEW p, NEW s \in Seq(AnyFrame), ExitAllThreads(t, p, s)
  PROVE  StacksTyped'
BY DEF ExitAllThreads, StacksTyped, EmptyStack

\* Initially.
LEMMA InitTyped == PInit => TInv
<1> SUFFICES ASSUME PInit PROVE TInv
  OBVIOUS
<1>1. TablesTyped
  <2>1. /\ Descriptor("file", {"read", "exec"}) \in TypeOfSlots
        /\ Descriptor("pseudo", {"read"}) \in TypeOfSlots
        /\ Closed \in TypeOfSlots
    <3>1. /\ "file" \in Objects /\ "pseudo" \in Objects
          /\ {"read", "exec"} \in SUBSET Rights /\ {"read"} \in SUBSET Rights
      BY DEF Objects, Rights
    <3> QED BY <3>1, DescriptorType DEF TypeOfSlots
  <2> QED BY <2>1 DEF PInit, TablesTyped
<1>2. StacksTyped
  BY DEF PInit, StacksTyped, EmptyStack
<1> QED BY <1>1, <1>2 DEF TInv

\* The calls of init.
LEMMA InitCallSteps ==
  ASSUME TInv, InitCall("i1")
  PROVE  TInv' /\ Derived
<1> USE DEF TInv
<1>0. "i1" \in Threads /\ ProcOf("i1") = "init" /\ "init" \in Procs /\ "child" \in Procs
  BY DEF Threads, ProcOf, Procs
<1>1. CASE syscall_proc_fork("i1")
  <2> DEFINE d == Descriptor("child", {"read"})
             k == Min(Free("init"))
  <2>1. d \in TypeOfSlots /\ d.obj = "child" /\ refs["child"] = 0
    <3>1. "child" \in Objects /\ {"read"} \in SUBSET Rights
      BY DEF Objects, Rights
    <3> QED BY <1>1, <3>1, DescriptorType DEF syscall_proc_fork
  <2>2. fds' = [[fds EXCEPT !["init"][k] = d] EXCEPT !["child"] = fds["init"]]
    BY <1>1 DEF syscall_proc_fork, add_fd
  <2>3. TablesTyped'
    BY <1>0, <2>1, <2>2 DEF TablesTyped
  <2>4. ASSUME NEW p \in Procs, NEW n \in Numbers
        PROVE  fds'[p][n] = fds["init"][n] \/ fds'[p][n].obj = "child"
    BY <1>0, <2>1, <2>2 DEF TablesTyped, Procs
  <2>5. Derived
    BY <2>1, <2>4 DEF Derived
  <2>6. StacksTyped'
    BY <1>1 DEF syscall_proc_fork, StacksTyped
  <2> QED BY <2>3, <2>5, <2>6
<1>2. CASE PollTermination("i1") \/ PollReturns
  <2>1. UNCHANGED <<fds, thr>>
    BY <1>2 DEF PollTermination, PollReturns
  <2> QED BY <2>1, SameTables DEF StacksTyped
<1>3. CASE \E n \in Numbers : syscall_fd_close("i1", n)
  <2>1. PICK n \in Numbers : syscall_fd_close("i1", n)
    BY <1>3
  <2>2. Frame("close", "init", n) \in AnyFrame
    BY <1>0, FdFrame
  <2>3. UNCHANGED fds /\ Goto("i1", <<Frame("close", "init", n)>>)
    BY <1>0, <2>1 DEF syscall_fd_close, Begin
  <2>4. <<Frame("close", "init", n)>> \in Seq(AnyFrame)
    BY <2>2
  <2> QED BY <1>0, <2>3, <2>4, SameTables, SetStack
<1> QED BY <1>1, <1>2, <1>3 DEF InitCall

\* The calls of a child's threads.
LEMMA ChildCallSteps ==
  ASSUME TInv, NEW t \in {"c1", "c2"}, ChildCall(t)
  PROVE  TInv' /\ Derived
<1> USE DEF TInv
<1>0. t \in Threads /\ ProcOf(t) = "child" /\ "child" \in Procs
  BY DEF Threads, ProcOf, Procs
<1>1. ASSUME NEW n \in Numbers, syscall_fd_dup(t, n)
      PROVE  TInv' /\ Derived
  <2> DEFINE d == fds["child"][n]
             k == Min(Free("child"))
  <2>1. d \in TypeOfSlots
    BY <1>0, SlotType
  <2>2. fds' = [fds EXCEPT !["child"][k] = d] /\ UNCHANGED thr
    BY <1>0, <1>1 DEF syscall_fd_dup, add_fd
  <2>3. \E m \in Numbers : fds["child"][m].obj = d.obj /\ d.rights \subseteq fds["child"][m].rights
    OBVIOUS
  <2> HIDE DEF d, k
  <2>4. TablesTyped' /\ Derived
    BY <1>0, <2>1, <2>2, <2>3, SetSlot
  <2> QED BY <2>2, <2>4 DEF StacksTyped
<1>2. ASSUME NEW n \in Numbers, syscall_fd_close(t, n)
      PROVE  TInv' /\ Derived
  <2>1. Frame("close", "child", n) \in AnyFrame
    BY <1>0, FdFrame
  <2>2. UNCHANGED fds /\ Goto(t, <<Frame("close", "child", n)>>)
    BY <1>0, <1>2 DEF syscall_fd_close, Begin
  <2>3. <<Frame("close", "child", n)>> \in Seq(AnyFrame)
    BY <2>1
  <2> QED BY <1>0, <2>2, <2>3, SameTables, SetStack
<1>3. ASSUME NEW from \in Numbers, NEW to \in Numbers, syscall_fd_replace(t, from, to)
      PROVE  TInv' /\ Derived
  <2> DEFINE d == fds["child"][from]
  <2>1. d \in TypeOfSlots
    BY <1>0, SlotType
  <2>2. fds' = [fds EXCEPT !["child"][to] = d] /\ UNCHANGED thr
    BY <1>0, <1>3 DEF syscall_fd_replace
  <2>3. \E m \in Numbers : fds["child"][m].obj = d.obj /\ d.rights \subseteq fds["child"][m].rights
    OBVIOUS
  <2> HIDE DEF d
  <2>4. TablesTyped' /\ Derived
    BY <1>0, <2>1, <2>2, <2>3, SetSlot
  <2> QED BY <2>2, <2>4 DEF StacksTyped
<1>4. ASSUME NEW n \in Numbers, NEW keep \in Masks, syscall_fd_stat_put(t, n, keep)
      PROVE  TInv' /\ Derived
  <2> DEFINE d == [fds["child"][n] EXCEPT !.rights = @ \cap keep]
  <2>1. /\ d \in TypeOfSlots
        /\ d.obj = fds["child"][n].obj /\ d.rights \subseteq fds["child"][n].rights
    <3>1. fds["child"][n] # Closed
      BY <1>0, <1>4 DEF syscall_fd_stat_put, get_fd
    <3>2. \E o \in Objects, r \in SUBSET Rights : fds["child"][n] = Descriptor(o, r)
      <4>1. fds["child"][n] \in TypeOfSlots
        BY <1>0, SlotType
      <4> QED BY <3>1, <4>1 DEF TypeOfSlots
    <3>2a. PICK o \in Objects, r \in SUBSET Rights : fds["child"][n] = [obj |-> o, rights |-> r]
      BY <3>2 DEF Descriptor
    <3>3. d = [obj |-> o, rights |-> r \cap keep]
      BY <3>2a
    <3> QED BY <3>2a, <3>3 DEF TypeOfSlots, Descriptor
  <2>2. fds' = [fds EXCEPT !["child"][n] = d] /\ UNCHANGED thr
    BY <1>0, <1>4 DEF syscall_fd_stat_put, TablesTyped
  <2>3. \E m \in Numbers : fds["child"][m].obj = d.obj /\ d.rights \subseteq fds["child"][m].rights
    BY <2>1
  <2> HIDE DEF d
  <2>4. TablesTyped' /\ Derived
    BY <1>0, <2>1, <2>2, <2>3, SetSlot
  <2> QED BY <2>2, <2>4 DEF StacksTyped
<1>5. CASE CreateFd(t, "pseudo", {"read"})
  <2> DEFINE d == Descriptor("pseudo", {"read"})
             k == Min(Free("child"))
  <2>1. d \in TypeOfSlots /\ refs[d.obj] = 0
    <3>1. "pseudo" \in Objects /\ {"read"} \in SUBSET Rights
      BY DEF Objects, Rights
    <3> QED BY <1>5, <3>1, DescriptorType DEF CreateFd
  <2>2. fds' = [fds EXCEPT !["child"][k] = d] /\ UNCHANGED thr
    BY <1>0, <1>5 DEF CreateFd, add_fd
  <2> HIDE DEF d, k
  <2>3. TablesTyped' /\ Derived
    BY <2>1, <2>2, SetSlot
  <2> QED BY <2>2, <2>3 DEF StacksTyped
<1>6. CASE syscall_thread_create(t)
  <2>1. UNCHANGED fds /\ StacksTyped'
    BY <1>6 DEF syscall_thread_create, StacksTyped
  <2> QED BY <2>1, SameTables
<1>7. CASE syscall_proc_exit(t, [code |-> "exited"])
  <2> DEFINE f == [op |-> "exit", p |-> "child", n |-> 0, status |-> [code |-> "exited"]]
  <2>1. f \in AnyFrame
    BY <1>0 DEF AnyFrame, ExitFrames
  <2>2. UNCHANGED fds /\ Goto(t, <<f>>)
    BY <1>0, <1>7 DEF syscall_proc_exit, Begin
  <2> HIDE DEF f
  <2>3. <<f>> \in Seq(AnyFrame)
    BY <2>1
  <2> QED BY <1>0, <2>2, <2>3, SameTables, SetStack
<1>8. ASSUME NEW n \in Numbers, NEW keep \in Keeps, syscall_proc_exec(t, n, keep)
      PROVE  TInv' /\ Derived
  <2> DEFINE f == [op |-> "exec read", p |-> "child", keep |-> keep, obj |-> fds["child"][n].obj,
                   stale |-> FALSE]
  <2>1. fds["child"][n].obj \in Objects
    BY <1>0, <1>8, SlotType DEF syscall_proc_exec, get_fd
  <2>2. keep \in Seq(Numbers)
    BY TableAssumption
  <2>3. f \in AnyFrame
    BY <1>0, <2>1, <2>2 DEF AnyFrame, ReadFrames
  <2>4. UNCHANGED fds /\ Goto(t, <<f>>)
    BY <1>0, <1>8 DEF syscall_proc_exec
  <2> HIDE DEF f
  <2>5. <<f>> \in Seq(AnyFrame)
    BY <2>3
  <2> QED BY <1>0, <2>4, <2>5, SameTables, SetStack
<1> QED BY <1>1, <1>2, <1>3, <1>4, <1>5, <1>6, <1>7, <1>8 DEF ChildCall

\* The steps inside the kernel.
LEMMA KernelSteps ==
  ASSUME TInv, NEW t \in Threads, Kernel(t)
  PROVE  TInv' /\ Derived
<1> USE DEF TInv
<1>e. EmptyStack \in Seq(AnyFrame)
  BY DEF EmptyStack
<1>1. CASE close_fd(t)
  <2>1. PICK f \in FdFrames, rest \in Seq(AnyFrame) : f = Top(t) /\ rest = Pop(t)
    BY <1>1, TopType, FrameKinds DEF close_fd, Running
  <2>2. f.p \in Procs /\ f.n \in Numbers
    BY <2>1 DEF FdFrames
  <2>3. UNCHANGED fds
    BY <1>1 DEF close_fd
  <2>4. CASE fds[f.p][f.n] = Closed
    <3>1. Goto(t, rest)
      BY <1>1, <2>1, <2>4 DEF close_fd
    <3> QED BY <2>3, <3>1, SetStack, SameTables
  <2>5. CASE fds[f.p][f.n] # Closed
    <3>1. PICK s \in Seq(AnyFrame) : s = <<Frame("closed", f.p, f.n)>> \o rest
      <4>1. Frame("closed", f.p, f.n) \in AnyFrame
        BY <2>2, FdFrame
      <4> QED BY <4>1, Push
    <3>2. PICK o \in Objects : o = fds[f.p][f.n].obj
      BY <2>2, <2>5, SlotType
    <3>3. Reset(t, o, s)
      BY <1>1, <2>1, <2>5, <3>1, <3>2 DEF close_fd
    <3> QED BY <2>3, <3>3, ResetStacks, SameTables
  <2> QED BY <2>4, <2>5
<1>2. CASE close_fd_done(t)
  <2>1. PICK f \in FdFrames, rest \in Seq(AnyFrame) : f = Top(t) /\ rest = Pop(t)
    BY <1>2, TopType, FrameKinds DEF close_fd_done, Running
  <2>2. f.p \in Procs /\ f.n \in Numbers
    BY <2>1 DEF FdFrames
  <2> DEFINE Stale(fr) == IF fr.op = "exec read" /\ fr.p = f.p /\ \E i \in DOMAIN fr.keep : fr.keep[i] = f.n
                          THEN [fr EXCEPT !.stale = TRUE] ELSE fr
  <2>3. ASSUME NEW fr \in AnyFrame PROVE Stale(fr) \in AnyFrame
    <3>1. CASE fr.op = "exec read"
      <4>1. fr \in ReadFrames
        BY <3>1, FrameKinds
      <4>2. [fr EXCEPT !.stale = TRUE] \in ReadFrames
        BY <4>1 DEF ReadFrames
      <4> QED BY <4>2 DEF AnyFrame
    <3> QED BY <3>1
  <2>4. ASSUME NEW u \in Threads
        PROVE  [thr[u] EXCEPT !.stack = [i \in DOMAIN @ |-> Stale(@[i])]]
                 \in [live : BOOLEAN, stack : Seq(AnyFrame)]
    <3>1. PICK s \in Seq(AnyFrame) : s = thr[u].stack
      BY DEF StacksTyped
    <3>2. [i \in DOMAIN s |-> Stale(s[i])] \in Seq(AnyFrame)
      <4>1. Len(s) \in Nat /\ DOMAIN s = 1 .. Len(s)
        OBVIOUS
      <4>2. \A i \in 1 .. Len(s) : Stale(s[i]) \in AnyFrame
        <5> TAKE i \in 1 .. Len(s)
        <5>1. s[i] \in AnyFrame
          BY <4>1
        <5> HIDE DEF Stale
        <5> QED BY <2>3, <5>1
      <4> HIDE DEF Stale
      <4> QED BY <4>1, <4>2
    <3> HIDE DEF Stale
    <3> QED BY <3>1, <3>2 DEF StacksTyped
  <2>5. thr' = [u \in Threads |-> IF u = t THEN [thr[t] EXCEPT !.stack = rest]
                  ELSE [thr[u] EXCEPT !.stack = [i \in DOMAIN @ |-> Stale(@[i])]]]
    BY <1>2, <2>1 DEF close_fd_done
  <2>6. [thr[t] EXCEPT !.stack = rest] \in [live : BOOLEAN, stack : Seq(AnyFrame)]
    BY DEF StacksTyped
  <2> HIDE DEF Stale
  <2>7. StacksTyped'
    BY <2>4, <2>5, <2>6 DEF StacksTyped
  <2>8. fds' = [fds EXCEPT ![f.p][f.n] = Closed]
    BY <1>2, <2>1 DEF close_fd_done
  <2>9. Closed \in TypeOfSlots /\ Closed.obj \notin Objects
    BY DEF TypeOfSlots, Closed, Objects
  <2> QED BY <2>7, <2>8, <2>9, SetSlot
<1>3. CASE Destroy(t)
  <2>1. PICK f \in ObjectFrames, rest \in Seq(AnyFrame) : f = Top(t) /\ rest = Pop(t)
    BY <1>3, TopType, FrameKinds DEF Destroy, Running
  <2>2. PICK o \in Objects : o = f.p
    BY <2>1 DEF ObjectFrames
  <2>3. UNCHANGED fds
    BY <1>3 DEF Destroy
  <2>4. CASE o = "file"
    <3>1. Goto(t, rest)
      BY <1>3, <2>1, <2>2, <2>4 DEF Destroy
    <3> QED BY <2>3, <3>1, SetStack, SameTables
  <2>5. CASE o = "pseudo" /\ thr[t].live
    <3>1. PICK s \in Seq(AnyFrame) : s = <<Frame("answer", o, 0)>> \o rest
      <4>1. Frame("answer", o, 0) \in AnyFrame
        BY ObjectFrame
      <4> QED BY <4>1, Push
    <3>2. Goto(t, s)
      BY <1>3, <2>1, <2>2, <2>5, <3>1 DEF Destroy
    <3> QED BY <2>3, <3>2, SetStack, SameTables
  <2>6. CASE o = "pseudo" /\ ~thr[t].live
    <3>1. UNCHANGED thr
      BY <1>3, <2>1, <2>2, <2>6 DEF Destroy
    <3> QED BY <2>3, <3>1, SameTables DEF StacksTyped
  <2>7. CASE o = "child"
    <3> DEFINE e == [op |-> "exit", p |-> o, n |-> 0, status |-> [code |-> "killed"]]
    <3>1. e \in AnyFrame
      BY <2>7 DEF AnyFrame, ExitFrames, Procs
    <3>2. PICK first \in Seq(AnyFrame) : first = (IF proc[o].running THEN <<e>> ELSE EmptyStack)
      <4> HIDE DEF e
      <4>1. <<e>> \in Seq(AnyFrame)
        BY <3>1
      <4> QED BY <1>e, <4>1, Zenon
    <3>3. Frame("~process_fd", o, 0) \in AnyFrame
      BY ObjectFrame
    <3>4. PICK s \in Seq(AnyFrame) : s = first \o <<Frame("~process_fd", o, 0)>> \o rest
      <4>1. <<Frame("~process_fd", o, 0)>> \in Seq(AnyFrame)
        BY <3>3
      <4>2. first \o <<Frame("~process_fd", o, 0)>> \in Seq(AnyFrame)
        BY <4>1, ConcatProperties
      <4> QED BY <4>2, ConcatProperties
    <3>5. Goto(t, s)
      BY <1>3, <2>1, <2>2, <2>7, <3>2, <3>4 DEF Destroy
    <3> QED BY <2>3, <3>5, SetStack, SameTables
  <2> QED BY <2>4, <2>5, <2>6, <2>7 DEF Objects
<1>4. CASE Answer(t)
  <2>1. PICK rest \in Seq(AnyFrame) : rest = Pop(t)
    BY <1>4, TopType DEF Answer
  <2>2. UNCHANGED fds /\ Goto(t, rest)
    BY <1>4, <2>1 DEF Answer
  <2> QED BY <2>2, SetStack, SameTables
<1>5. CASE exit(t)
  <2>1. PICK f \in ExitFrames, rest \in Seq(AnyFrame) : f = Top(t) /\ rest = Pop(t)
    BY <1>5, TopType, FrameKinds DEF exit, Running
  <2>2. f.p \in Procs /\ f.n \in Nat
    BY <2>1 DEF ExitFrames
  <2>3. UNCHANGED fds
    BY <1>5 DEF exit
  <2>4. CASE f.n < Slots
    <3>1. Frame("close", f.p, f.n) \in AnyFrame
      <4>1. f.n \in Numbers
        BY <2>2, <2>4, TableAssumption DEF Numbers
      <4> QED BY <2>2, <4>1, FdFrame
    <3>2. [f EXCEPT !.n = @ + 1] \in AnyFrame
      BY <2>1 DEF ExitFrames, AnyFrame
    <3>3. PICK s \in Seq(AnyFrame) : s = <<Frame("close", f.p, f.n), [f EXCEPT !.n = @ + 1]>> \o rest
      <4>1. <<Frame("close", f.p, f.n), [f EXCEPT !.n = @ + 1]>> \in Seq(AnyFrame)
        BY <3>1, <3>2
      <4> QED BY <4>1, ConcatProperties
    <3>4. Goto(t, s)
      BY <1>5, <2>1, <2>4, <3>3 DEF exit
    <3> QED BY <2>3, <3>4, SetStack, SameTables
  <2>5. CASE ~(f.n < Slots)
    <3>1. ExitAllThreads(t, f.p, rest)
      BY <1>5, <2>1, <2>5 DEF exit
    <3> QED BY <2>3, <3>1, ExitAllThreadsStacks, SameTables
  <2> QED BY <2>4, <2>5

<1>6. CASE DestructProcess(t)
  <2>1. PICK f \in ObjectFrames, rest \in Seq(AnyFrame) : f = Top(t) /\ rest = Pop(t)
    BY <1>6, TopType, FrameKinds DEF DestructProcess, Running
  <2>2. fds' = [fds EXCEPT ![f.p] = [n \in Numbers |-> Closed]] /\ Goto(t, rest)
    BY <1>6, <2>1 DEF DestructProcess
  <2>3. Closed \in TypeOfSlots /\ Closed.obj \notin Objects
    BY DEF TypeOfSlots, Closed, Objects
  <2>4. TablesTyped'
    BY <2>2, <2>3 DEF TablesTyped
  <2>5. ASSUME NEW p \in Procs, NEW n \in Numbers
        PROVE  fds'[p][n] = fds[p][n] \/ fds'[p][n] = Closed
    BY <2>2 DEF TablesTyped
  <2>6. Derived
    BY <2>3, <2>5 DEF Derived
  <2> QED BY <2>2, <2>4, <2>6, SetStack
<1>7. CASE Return(t)
  <2>1. UNCHANGED <<fds, thr>>
    BY <1>7 DEF Return
  <2> QED BY <2>1, SameTables DEF StacksTyped
<1>8. CASE exec_fails(t)
  <2>1. PICK f \in ReadFrames : f = Top(t)
    BY <1>8, TopType, FrameKinds DEF exec_fails
  <2>2. PICK o \in Objects : o = f.obj
    BY <2>1 DEF ReadFrames
  <2>3. UNCHANGED fds /\ Reset(t, o, EmptyStack)
    BY <1>8, <2>1, <2>2 DEF exec_fails
  <2> QED BY <1>e, <2>3, ResetStacks, SameTables
<1>9. CASE exec_succeeds(t)
  <2>1. PICK f \in ReadFrames : f = Top(t)
    BY <1>9, TopType, FrameKinds DEF exec_succeeds
  <2> DEFINE c == [op |-> "exec close", p |-> f.p, n |-> 0, keep |-> f.keep, obj |-> f.obj]
  <2>2. c \in AnyFrame
    BY <2>1 DEF ReadFrames, CloseFrames, AnyFrame
  <2>3. UNCHANGED fds
    BY <1>9 DEF exec_succeeds
  <2>4. UNCHANGED thr \/ ExitAllThreads(t, f.p, <<c>>)
    BY <1>9, <2>1 DEF exec_succeeds
  <2> HIDE DEF c
  <2>5. <<c>> \in Seq(AnyFrame)
    BY <2>2
  <2>6. StacksTyped'
    <3>1. CASE UNCHANGED thr
      BY <3>1 DEF StacksTyped
    <3>2. CASE ExitAllThreads(t, f.p, <<c>>)
      BY <2>5, <3>2, ExitAllThreadsStacks
    <3> QED BY <2>4, <3>1, <3>2
  <2> QED BY <2>3, <2>6, SameTables
<1>10. CASE exec_close(t)
  <2>1. PICK f \in CloseFrames : f = Top(t)
    BY <1>10, TopType, FrameKinds DEF exec_close, Running
  <2>2. f.p \in Procs /\ f.n \in Numbers
    <3>1. f.p \in Procs /\ f.n \in Nat
      BY <2>1 DEF CloseFrames
    <3>2. f.n < Slots
      BY <1>10, <2>1 DEF exec_close
    <3> QED BY <3>1, <3>2, TableAssumption DEF Numbers
  <2>3. Frame("close", f.p, f.n) \in AnyFrame
    BY <2>2, FdFrame
  <2>4. PICK g \in AnyFrame : g = [f EXCEPT !.n = @ + 1]
    <3>1. [f EXCEPT !.n = @ + 1] \in CloseFrames
      <4>0. f.n \in Nat
        BY <2>1 DEF CloseFrames
      <4>1. PICK k \in Nat : k = f.n + 1
        BY <4>0
      <4>2. [f EXCEPT !.n = k] \in CloseFrames
        BY <2>1 DEF CloseFrames
      <4> QED BY <4>1, <4>2
    <3> QED BY <3>1 DEF AnyFrame
  <2>5. PICK closing \in BOOLEAN :
          Goto(t, (IF closing THEN <<Frame("close", f.p, f.n)>> ELSE EmptyStack) \o <<g>>)
    <3>1. Goto(t, (IF fds[f.p][f.n] # Closed /\ fds[f.p][f.n].obj \notin Kept(f)
                   THEN <<Frame("close", f.p, f.n)>> ELSE EmptyStack) \o <<g>>)
      BY <1>10, <2>1, <2>4 DEF exec_close
    <3> QED BY <3>1
  <2>6. <<g>> \in Seq(AnyFrame) /\ <<Frame("close", f.p, f.n)>> \in Seq(AnyFrame)
    BY <2>3
  <2>7. PICK s \in Seq(AnyFrame) : Goto(t, s)
    <3>1. CASE closing
      BY <2>5, <2>6, <3>1, ConcatProperties
    <3>2. CASE ~closing
      BY <1>e, <2>5, <2>6, <3>2, ConcatProperties
    <3> QED BY <3>1, <3>2
  <2>8. UNCHANGED fds
    BY <1>10 DEF exec_close
  <2> QED BY <2>7, <2>8, SetStack, SameTables
<1>11. CASE exec_done(t)
  <2>1. PICK f \in CloseFrames : f = Top(t)
    BY <1>11, TopType, FrameKinds DEF exec_done, Running
  <2>2. PICK p \in Procs, keep \in Seq(Numbers) : p = f.p /\ keep = f.keep
    BY <2>1 DEF CloseFrames
  <2> DEFINE table == [n \in Numbers |-> IF n + 1 \in DOMAIN keep THEN fds[p][keep[n + 1]] ELSE Closed]
  <2>3. fds' = [fds EXCEPT ![p] = table]
    BY <1>11, <2>1, <2>2 DEF exec_done
  <2>4. ASSUME NEW n \in Numbers
        PROVE  table[n] = Closed \/ \E m \in Numbers : table[n] = fds[p][m]
    <3>1. CASE n + 1 \in DOMAIN keep
      <4>1. keep[n + 1] \in Numbers
        BY <3>1
      <4> QED BY <3>1, <4>1
    <3> QED BY <3>1
  <2>5. Closed \in TypeOfSlots /\ Closed.obj \notin Objects
    BY DEF TypeOfSlots, Closed, Objects
  <2>6. table \in [Numbers -> TypeOfSlots]
    <3>1. \A n \in Numbers : table[n] \in TypeOfSlots
      <4> HIDE DEF table
      <4> QED BY <2>4, <2>5, SlotType
    <3> QED BY <3>1
  <2> HIDE DEF table
  <2>7. TablesTyped'
    BY <2>3, <2>6 DEF TablesTyped
  <2>8. ASSUME NEW q \in Procs, NEW n \in Numbers
        PROVE  fds'[q][n] = Closed \/ \E m \in Numbers : fds'[q][n] = fds[q][m]
    BY <2>3, <2>4 DEF TablesTyped
  <2>9. Derived
    BY <2>5, <2>8 DEF Derived
  <2>10. StacksTyped'
    <3> DEFINE gone == [live |-> FALSE, stack |-> EmptyStack]
               fresh == [live |-> TRUE, stack |-> EmptyStack]
    <3>1. UNCHANGED thr \/ \E main : thr' = [thr EXCEPT ![t] = gone, ![main] = fresh]
      BY <1>11 DEF exec_done
    <3>2. /\ gone \in [live : BOOLEAN, stack : Seq(AnyFrame)]
          /\ fresh \in [live : BOOLEAN, stack : Seq(AnyFrame)]
      BY <1>e
    <3> HIDE DEF gone, fresh
    <3> QED BY <3>1, <3>2 DEF StacksTyped
  <2> QED BY <2>7, <2>9, <2>10
<1> QED BY <1>1, <1>2, <1>3, <1>4, <1>5, <1>6, <1>7, <1>8, <1>9, <1>10, <1>11 DEF Kernel

\* Every step keeps the invariant, and what it puts into tables is derived.
LEMMA NextDerives ==
  ASSUME TInv, PNext
  PROVE  TInv' /\ Derived
BY InitCallSteps, ChildCallSteps, KernelSteps DEF PNext

\* What is derived has no rights that its origin lacked.
LEMMA DerivedShrinks ==
  ASSUME TInv, TInv', Derived, NEW p \in Procs, NEW o \in Objects, refs[o] > 0
  PROVE  HeldRights(p, o)' \subseteq HeldRights(p, o) \cup HeldRights("init", o)
<1> SUFFICES ASSUME NEW r \in HeldRights(p, o)'
             PROVE  r \in HeldRights(p, o) \cup HeldRights("init", o)
  OBVIOUS
<1>1. PICK n \in Numbers : fds'[p][n].obj = o /\ r \in fds'[p][n].rights
  BY DEF HeldRights
<1>2. PICK q \in {p, "init"}, m \in Numbers : fds[q][m].obj = o /\ fds'[p][n].rights \subseteq fds[q][m].rights
  BY <1>1 DEF Derived
<1>3. r \in HeldRights(q, o)
  BY <1>1, <1>2 DEF HeldRights
<1> QED BY <1>2, <1>3

\* Descriptor tables hold descriptors and kernel stacks hold the frames of calls, whatever
\* the system calls of processes do: in particular exec finds the descriptors it was told to
\* keep among the numbers of the table.
THEOREM TablesAndStacks == PSpec => []TInv
<1>1. TInv /\ UNCHANGED pvars => TInv'
  BY DEF TInv, TablesTyped, StacksTyped, pvars
<1> QED BY <1>1, InitTyped, NextDerives, PTL DEF PSpec

\* Capabilities only shrink: with tables of any size and any arguments of exec and stat_put,
\* no step of any system call or of the kernel gives a process a right on an existing object
\* that neither it nor its parent held.
THEOREM CapabilitiesShrink == PSpec => RightsOnlyShrink
<1> DEFINE Shrinks == \A p \in Procs, o \in Objects : refs[o] > 0 =>
                        HeldRights(p, o)' \subseteq HeldRights(p, o) \cup HeldRights("init", o)
<1>1. TInv /\ TInv' /\ [PNext]_pvars => [Shrinks]_pvars
  BY NextDerives, DerivedShrinks
<1> QED BY <1>1, TablesAndStacks, PTL DEF PSpec, RightsOnlyShrink
=============================================================================
