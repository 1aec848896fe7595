-------------------------------- MODULE Vfs ---------------------------------
\* File system calls of two threads on a directory that a tmpfs serves
\* (proc/syscall/file_syscalls.cpp, fd/vfs.cpp, fd/pseudo_fd.cpp, and the dispatch of requests
\* in userland/libpseudofd/reversefd.cpp).
\*
\* Every operation on a pseudo fd is a request that blocks the thread, so the other thread may
\* run between any two requests of a call: here a step is one request, its handling by the
\* file system, and what the thread does with the answer until its next request. That a
\* request gets its own answer is what ReverseFd shows. The first lookup on a pseudo fd is
\* preceded by a stat request for the device number, which never changes; it is left out.
\*
\* A path is the sequence of its components, "/" in front if it is absolute and "" at the end
\* if it ends in a slash. Name lengths and control characters in names are left out.
EXTENDS TmpFs, SequencesExt, Integers

CONSTANTS PathCalls,   \* the calls that traverse a path
          Targets,     \* the targets of the symbolic link in the initial tree
          Rights,      \* the rights of each thread's directory descriptor
          SharedRoot,  \* whether the threads use one directory descriptor or one each
          MaxSymlinks, \* max_symlinks_followed
          MaxCalls     \* calls made by both threads

VARIABLES fs,       \* the file system
          thr,      \* what each thread does: a call in progress
          desc,     \* the open files of each thread: pseudo fd, position, append flag, rights
          error,    \* fd_t::error of the directory descriptors
          mistaken, \* history: a traversal returned something else than it found
          appended, \* history: appends to the file since it was last truncated
          odd,      \* history: operations after which the tree or its links are wrong
          calls     \* calls made, bounded by MaxCalls

vvars == <<fs, thr, desc, error, mistaken, appended, odd, calls>>

Threads == {0, 1}
\* The initial tree: /s, /a/l -> a target, /a/b/f. The directory descriptors refer to /a.
Outside == 1 .. 2
Dir == 3
File == 6
InitialNodes(target) ==
  <<Node("dir", "." :> 1 @@ ".." :> 1 @@ "a" :> 3 @@ "s" :> 2, <<>>), Node("file", <<>>, <<>>),
    Node("dir", "." :> 3 @@ ".." :> 1 @@ "b" :> 4 @@ "l" :> 5, <<>>),
    Node("dir", "." :> 4 @@ ".." :> 3 @@ "f" :> 6, <<>>),
    Node("link", <<>>, target), Node("file", <<>>, <<>>)>>
RootOf(t) == IF SharedRoot THEN 0 ELSE t

Idle == [pc |-> "idle"]
Descriptor(fd, flags) ==
  [fd |-> fd, pos |-> 0, append |-> "append" \in flags, write |-> "write" \in flags]

VInit ==
  /\ \E target \in Targets :
       fs = [nodes |-> InitialNodes(target), open |-> 0 :> Dir @@ 1 :> Dir @@ 2 :> File @@ 3 :> File]
  /\ thr = [t \in Threads |-> Idle]
  /\ desc = [t \in Threads |-> {Descriptor(t + 2, {"write", "append"})}]
  /\ error = [r \in Threads |-> "ok"]
  /\ mistaken = FALSE /\ appended = 0 /\ odd = {} /\ calls = 0

\* ------------------------------------------------------------------- traverse

\* A thread in a call: `path' is what is left of it, `entered' the directories entered, the
\* innermost first, `res' the results of traversals, `closing' the pseudo fds whose
\* destructors run next, fd the new descriptor of openat, `own' the result of the last lookup
\* or traversal, and e the error field of the directory descriptor, while a step lasts.
Begin(call, root, e) ==
  [pc |-> "", call |-> call, root |-> root, path |-> call.path, entered |-> <<root>>, links |-> 0,
   entry |-> 0, res |-> <<>>, closing |-> <<>>, fd |-> -1, own |-> "ok", e |-> e, wrong |-> FALSE]

Flagged(x, flag) == flag \in x.call.flags

\* The call returns; the results of its traversals are destroyed. An error is stored in the
\* descriptor before that.
Return(x) ==
  LET held == SelectSeq([i \in DOMAIN x.res |-> x.res[i].dir], LAMBDA d : d # x.root)
  IN [x EXCEPT !.closing = held, !.res = <<>>, !.pc = IF held = <<>> THEN "done" ELSE "return"]
Fail(x, err) == Return([x EXCEPT !.e = err])

\* A mutant of Finish: after an error the list of directories is forgotten, not cleared.
FinishLeaking(x, err) ==
  [x EXCEPT !.e = err, !.own = err, !.entered = <<>>, !.pc = "clear",
            !.closing = IF err = "ok" THEN SelectSeq(Tail(x.entered), LAMBDA d : d # x.root) ELSE <<>>,
            !.res = IF err # "ok" THEN @
                    ELSE Append(@, [dir |-> Head(x.entered), name |-> Head(x.path), errno |-> x.own,
                                    entry |-> x.entry])]

\* What traverse does on a success or an error: the result keeps the directory, and the list
\* of directories is cleared.
Finish(x, err) ==
  LET inner == IF err = "ok" THEN Tail(x.entered) ELSE x.entered
      res == [dir |-> Head(x.entered), name |-> Head(x.path), errno |-> x.own, entry |-> x.entry]
  IN [x EXCEPT !.e = err, !.own = err,
               !.closing = SelectSeq(inner, LAMBDA d : d # x.root),
               !.res = IF err = "ok" THEN Append(@, res) ELSE @,
               !.entered = <<>>, !.pc = "clear"]

\* The head of the loop: leading "." components are dropped.
SkipDots(p) ==
  LET k == CHOOSE k \in 0 .. Len(p) :
             /\ \A i \in 1 .. k : p[i] = "." /\ i < Len(p)
             /\ k < Len(p) - 1 => p[k + 1] # "."
  IN SubSeq(p, k + 1, Len(p))
Loop(x) ==
  LET p == SkipDots(x.path)
      y == [x EXCEPT !.path = p]
      top == Len(x.entered) = 1
  IN CASE p \in {<<>>, <<"">>} -> Finish([y EXCEPT !.path = <<"">>], "ENOENT")
       [] p # <<>> /\ Head(p) = "/" -> Finish(y, "ENOTCAPABLE")
       [] p # <<>> /\ Head(p) = ".." /\ top -> Finish(y, "ENOTCAPABLE")
       [] p # <<>> /\ Head(p) = ".." /\ ~top /\ Len(p) > 1 -> [y EXCEPT !.pc = "pop"]
       [] OTHER -> [y EXCEPT !.pc = "lookup"]

\* A request on a directory sets its error field, which may be the one of the descriptor.
OnDir(x, dir, err) == IF dir = x.root THEN [x EXCEPT !.e = err] ELSE x

\* A symbolic link is followed unless it is empty or one too many.
Follow(x) ==
  IF x.entry.size = 0 \/ x.links + 1 >= MaxSymlinks THEN Finish(x, "ELOOP")
  ELSE [x EXCEPT !.links = @ + 1, !.pc = "follow"]

\* The answer to a lookup, of the last component or of one before it.
AfterLookup(x, r) ==
  LET final == Len(x.path) = 1
      y == [OnDir(x, Head(x.entered), r.err) EXCEPT !.entry = IF r.err = "ok" THEN r.val ELSE 0,
                                                    !.own = r.err]
      isLink == r.err = "ok" /\ r.val.type = "link"
  IN IF final /\ isLink /\ Flagged(x, "follow") /\ x.res = <<>> THEN Follow(y)
     ELSE IF final THEN Finish(y, "ok")
     ELSE IF r.err # "ok" THEN Finish(y, r.err)
     ELSE IF isLink THEN Follow(y)
     ELSE IF r.val.type # "dir" THEN Finish(y, "ENOTDIR")
     ELSE IF Tail(x.path) = <<"">> THEN Finish(y, "ok")
     ELSE [y EXCEPT !.pc = "enter"]

\* The target of the link replaces the component.
AfterReadlink(x, r) ==
  LET y == OnDir(x, Head(x.entered), r.err)
  IN IF r.err # "ok" THEN Finish(y, r.err) ELSE Loop([y EXCEPT !.path = r.val \o Tail(@)])

AfterEnter(x, r) ==
  LET y == OnDir(x, Head(x.entered), r.err)
  IN IF r.err # "ok" THEN Finish(y, r.err)
     ELSE Loop([y EXCEPT !.path = Tail(@), !.entered = <<r.val.fd>> \o @])

\* --------------------------------------------------------- operations after traverse

\* traverse returned 0 and `res' has its result: what each call does before its own request,
\* which is made in a step of its own.
Issue(x) == [x EXCEPT !.pc = x.call.op]
Errno(x) == Last(x.res).errno
Type(x) == Last(x.res).entry.type

vfs_openat(x) ==
  IF Errno(x) # "ok" THEN Fail(x, Errno(x))
  ELSE IF Flagged(x, "directory") /\ Type(x) # "dir" THEN Fail(x, "ENOTDIR")
  ELSE Issue(x)
vfs_create(x) ==
  IF Errno(x) = "ok" THEN Fail(x, "EEXIST")
  ELSE IF Errno(x) # "ENOENT" THEN Fail(x, Errno(x)) ELSE Issue(x)
vfs_symlink(x) == vfs_create(x)
vfs_unlink(x) == Issue(x)
vfs_stat_get(x) == IF Errno(x) = "ok" THEN Return(x) ELSE Fail(x, Errno(x))
vfs_stat_put(x) == IF Errno(x) # "ok" THEN Fail(x, Errno(x)) ELSE Issue(x)
vfs_readlink(x) ==
  IF Errno(x) # "ok" THEN Fail(x, Errno(x)) ELSE IF Type(x) # "link" THEN Fail(x, "EINVAL") ELSE Issue(x)
\* In a call with two paths the second traversal follows.
Second(x) == Loop([x EXCEPT !.path = x.call.path2, !.entered = <<x.root>>, !.links = 0])
vfs_link(x) ==
  IF Len(x.res) = 2 THEN vfs_create(x)
  ELSE IF Errno(x) # "ok" THEN Fail(x, Errno(x))
  ELSE IF Type(x) = "dir" THEN Fail(x, "EPERM") ELSE Second(x)
\* rename gives up when the destination exists, with the result of the lookup: 0.
vfs_rename(x) ==
  IF Len(x.res) = 1 THEN IF Errno(x) # "ok" THEN Fail(x, Errno(x)) ELSE Second(x)
  ELSE IF Errno(x) # "ENOENT" THEN Fail(x, Errno(x)) ELSE Issue(x)

Operate(x) ==
  CASE x.call.op = "open" -> vfs_openat(x)         [] x.call.op = "create" -> vfs_create(x)
    [] x.call.op = "symlink" -> vfs_symlink(x)     [] x.call.op = "unlink" -> vfs_unlink(x)
    [] x.call.op = "stat_get" -> vfs_stat_get(x)   [] x.call.op = "stat_put" -> vfs_stat_put(x)
    [] x.call.op = "readlink" -> vfs_readlink(x)   [] x.call.op = "link" -> vfs_link(x)
    [] x.call.op = "rename" -> vfs_rename(x)

\* The list is clear: traverse returns the error field of the descriptor. If that is not what
\* this traversal wrote there, its result is lost, or used although there is none.
AfterClear(x) ==
  IF x.e # x.own THEN [Return(x) EXCEPT !.wrong = TRUE]
  ELSE IF x.e # "ok" THEN Return(x) ELSE Operate(x)

\* openat has its descriptor: it may have to destroy it again.
AfterOpen(x, r) ==
  LET y == OnDir([x EXCEPT !.fd = IF r.err = "ok" THEN r.val.fd ELSE -1], Last(x.res).dir, r.err)
  IN IF r.err # "ok" THEN Fail(y, r.err)
     ELSE IF r.val.type = "dir" /\ Flagged(x, "write") THEN [y EXCEPT !.pc = "reset", !.own = "EISDIR"]
     ELSE IF Flagged(x, "trunc") /\ ~Flagged(x, "write") THEN [y EXCEPT !.pc = "reset", !.own = "EINVAL"]
     ELSE IF Flagged(x, "trunc") THEN [y EXCEPT !.pc = "trunc"]
     ELSE Return(y)

\* -------------------------------------------------------------------- actions

Working(t, pc) == odd = {} /\ thr[t].pc = pc
Load(t) == [thr[t] EXCEPT !.e = error[RootOf(t)]]
\* A list that is already empty is cleared without a request.
Settle(x) == IF x.pc = "clear" /\ x.closing = <<>> THEN AfterClear(x) ELSE x
Settled(x) == Settle(Settle(x))

\* The thread has got this far; when its call is done a new descriptor goes into the table.
Store(t, x0) ==
  LET x == Settled(x0)
      new == IF x.pc = "done" /\ x.fd # -1 THEN {Descriptor(x.fd, x.call.flags)} ELSE {}
  IN /\ thr' = [thr EXCEPT ![t] = IF x.pc = "done" THEN Idle ELSE [x EXCEPT !.e = "ok"]]
     /\ error' = [error EXCEPT ![RootOf(t)] = x.e]
     /\ desc' = [desc EXCEPT ![t] = @ \cup new]
     /\ mistaken' = (mistaken \/ x.wrong)

\* Files that lose what was appended to them.
Emptied(before, after) == Len(after.nodes[File].data) < Len(before.nodes[File].data)
Request(t, r, x) ==
  /\ fs' = r.fs
  /\ Len(r.fs.nodes) <= MaxNodes
  /\ appended' = IF Emptied(fs, r.fs) THEN 0 ELSE appended
  /\ Store(t, x)
  /\ UNCHANGED calls

\* The calls: get_fd has found the right in the descriptor, or the call fails at once.
Start(t, call, op, right) ==
  /\ odd = {} /\ thr[t] = Idle /\ calls < MaxCalls
  /\ call.op = op /\ right \in Rights[t]
  /\ calls' = calls + 1
  /\ LET x == Begin(call, RootOf(t), error[RootOf(t)])
     IN Store(t, IF {"creat", "directory"} \subseteq call.flags THEN Fail(x, "EINVAL") ELSE Loop(x))
  /\ UNCHANGED <<fs, appended, odd>>
\* A descriptor inherits no more than the directory lets it.
syscall_file_open(t, c) ==
  Start(t, c, "open", "open") /\ ("write" \in c.flags => "inherit write" \in Rights[t])
syscall_file_create(t, c) == Start(t, c, "create", "create")
syscall_file_symlink(t, c) == Start(t, c, "symlink", "symlink")
syscall_file_unlink(t, c) == Start(t, c, "unlink", "unlink")
syscall_file_stat_get(t, c) == Start(t, c, "stat_get", "stat")
syscall_file_stat_put(t, c) == Start(t, c, "stat_put", "stat")
syscall_file_readlink(t, c) == Start(t, c, "readlink", "stat")
syscall_file_link(t, c) == Start(t, c, "link", "link")
syscall_file_rename(t, c) == Start(t, c, "rename", "rename")

Lookup(t) ==
  LET x == Load(t)
      r == lookup(fs, Head(x.entered), Head(x.path), IF Len(x.path) = 1 THEN x.call.flags ELSE {})
  IN Working(t, "lookup") /\ Request(t, r, AfterLookup(x, r)) /\ UNCHANGED odd
Readlink(t) ==
  LET x == Load(t)
      r == readlink(fs, Head(x.entered), Head(x.path), x.entry.size)
  IN Working(t, "follow") /\ Request(t, r, AfterReadlink(x, r)) /\ UNCHANGED odd
Enter(t) ==
  LET x == Load(t)
      r == open(fs, x.entry.ino)
  IN Working(t, "enter") /\ Request(t, r, AfterEnter(x, r)) /\ UNCHANGED odd
\* "..": the innermost directory is left, and its pseudo fd destroyed.
Pop(t) ==
  LET x == Load(t)
      r == close(fs, Head(x.entered))
  IN /\ Working(t, "pop") /\ UNCHANGED odd
     /\ Request(t, r, Loop([x EXCEPT !.entered = Tail(@), !.path = Tail(@)]))
Clear(t) ==
  LET x == Load(t)
      r == close(fs, Head(x.closing))
  IN Working(t, "clear") /\ Request(t, r, [x EXCEPT !.closing = Tail(@)]) /\ UNCHANGED odd
ReturnClosing(t) ==
  LET x == Load(t)
      r == close(fs, Head(x.closing))
  IN /\ Working(t, "return") /\ UNCHANGED odd
     /\ Request(t, r, [x EXCEPT !.closing = Tail(@), !.pc = IF Len(x.closing) = 1 THEN "done" ELSE @])

\* The request of the call itself, on the directory that was found, and its error.
Perform(t, op, r) ==
  LET x == Load(t)
  IN Working(t, op) /\ Request(t, r, Fail(x, r.err))
At(t) == Last(thr[t].res)
file_create(t) == Perform(t, "create", create(fs, At(t).dir, At(t).name, "dir")) /\ UNCHANGED odd
file_symlink(t) ==
  Perform(t, "symlink", symlink(fs, At(t).dir, thr[t].call.target, At(t).name)) /\ UNCHANGED odd
file_readlink(t) ==
  Perform(t, "readlink", readlink(fs, At(t).dir, At(t).name, MaxSize)) /\ UNCHANGED odd
file_stat_put(t) == Perform(t, "stat_put", stat_put(fs, At(t).dir, At(t).name, 0)) /\ UNCHANGED odd
file_link(t) ==
  /\ Perform(t, "link", link(fs, thr[t].res[1].dir, thr[t].res[1].name, At(t).dir, At(t).name))
  /\ UNCHANGED odd
\* A directory that removes its own entry "." is one of the odd operations.
file_unlink(t) ==
  LET r == unlink(fs, At(t).dir, At(t).name, "removedir" \in thr[t].call.flags)
  IN /\ Perform(t, "unlink", r)
     /\ odd' = IF r.err = "ok" /\ At(t).name \in Dots THEN {"removed its own entry"} ELSE odd
\* The directories above d, itself included, in a tree of this size.
Above(d) == LET up(n) == fs.nodes[n].files[".."] IN {d, up(d), up(up(d)), up(up(up(d)))}
file_rename(t) ==
  LET one == thr[t].res[1]
      r == rename(fs, one.dir, one.name, At(t).dir, At(t).name)
      ok == r.err = "ok"
  IN /\ Perform(t, "rename", r)
     /\ odd' = IF ok /\ Has(fs, At(t).dir, At(t).name) THEN {"overwrote"}
               ELSE IF ok /\ Named(fs, one.dir, one.name) \in Above(Of(fs, At(t).dir))
               THEN {"moved into itself"} ELSE odd
inode_open(t) ==
  LET x == Load(t)
      r == open(fs, At(t).entry.ino)
  IN Working(t, "open") /\ Request(t, r, AfterOpen(x, r)) /\ UNCHANGED odd
\* O_TRUNC: file_stat_fput of the new descriptor, which is a regular file, so that it succeeds.
TruncateOpened(t) ==
  LET r == stat_fput(fs, thr[t].fd, 0)
  IN Working(t, "trunc") /\ Request(t, r, Return(Load(t))) /\ UNCHANGED odd
ResetOpened(t) ==
  LET x == Load(t)
      r == close(fs, x.fd)
  IN Working(t, "reset") /\ Request(t, r, Fail([x EXCEPT !.fd = -1], x.own)) /\ UNCHANGED odd

\* ------------------------------------------------- calls on an open file: one request

FileCall(t, r) ==
  /\ odd = {} /\ thr[t] = Idle /\ calls < MaxCalls
  /\ calls' = calls + 1
  /\ fs' = r.fs
  /\ Len(fs'.nodes[File].data) <= MaxSize
  /\ UNCHANGED <<thr, error, odd, mistaken>>
Moved(t, d, pos) == desc' = [desc EXCEPT ![t] = (@ \ {d}) \cup {[d EXCEPT !.pos = pos]}]

\* write: with FDFLAG_APPEND the file system finds the offset, and the position becomes the
\* size it answers.
\* A mutant of Where: the kernel's position is used.
WherePosition(d) == d.pos
Where(d) == IF d.append THEN Len(Data(fs, d.fd)) ELSE d.pos
fd_write(t, d) ==
  LET r == pwrite(fs, d.fd, Where(d), <<"x">>)
  IN /\ FileCall(t, r)
     /\ Moved(t, d, IF r.err # "ok" THEN d.pos ELSE Where(d) + 1)
     /\ appended' = IF d.append /\ Of(fs, d.fd) = File THEN appended + 1 ELSE appended
fd_read(t, d) ==
  LET r == pread(fs, d.fd, d.pos, 1)
  IN /\ FileCall(t, r) /\ UNCHANGED appended
     /\ Moved(t, d, IF r.err # "ok" THEN d.pos ELSE d.pos + Len(r.val))
\* pwrite at offset 0: the position and the append flag are put back.
fd_pwrite(t, d) == FileCall(t, pwrite(fs, d.fd, 0, <<"y">>)) /\ UNCHANGED <<desc, appended>>
\* fd_seek to the end: a stat request.
fd_seek(t, d) ==
  LET r == stat_fget(fs, d.fd)
  IN FileCall(t, r) /\ Moved(t, d, r.val.size) /\ UNCHANGED appended
\* The error of an allocation is lost.
file_allocate(t, d) ==
  FileCall(t, allocate(fs, d.fd, 1, 1)) /\ UNCHANGED <<desc, appended>>
file_readdir(t) == FileCall(t, readdir(fs, RootOf(t), 0)) /\ UNCHANGED <<desc, appended>>
fd_close(t, d) ==
  FileCall(t, close(fs, d.fd)) /\ desc' = [desc EXCEPT ![t] = @ \ {d}] /\ UNCHANGED appended

Traversing(t) == Lookup(t) \/ Readlink(t) \/ Enter(t) \/ Pop(t) \/ Clear(t) \/ ReturnClosing(t)
Operating(t) ==
  \/ file_create(t) \/ file_symlink(t) \/ file_readlink(t) \/ file_stat_put(t) \/ file_link(t)
  \/ file_unlink(t) \/ file_rename(t) \/ inode_open(t) \/ TruncateOpened(t) \/ ResetOpened(t)
OnFile(t) ==
  \/ file_readdir(t)
  \/ \E d \in desc[t] :
       \/ fd_read(t, d) \/ fd_seek(t, d) \/ fd_close(t, d)
       \/ d.write /\ (fd_write(t, d) \/ fd_pwrite(t, d) \/ file_allocate(t, d))
Calling(t, c) ==
  \/ syscall_file_open(t, c) \/ syscall_file_create(t, c) \/ syscall_file_symlink(t, c)
  \/ syscall_file_unlink(t, c) \/ syscall_file_stat_get(t, c) \/ syscall_file_stat_put(t, c)
  \/ syscall_file_readlink(t, c) \/ syscall_file_link(t, c) \/ syscall_file_rename(t, c)
VNext ==
  \E t \in Threads : (\E c \in PathCalls : Calling(t, c)) \/ Traversing(t) \/ Operating(t) \/ OnFile(t)
VSpec == VInit /\ [][VNext]_vvars

\* -------------------------------------------------------------------- properties

NodeSet == DOMAIN fs.nodes
Directories == {i \in NodeSet : TypeOf(fs, i) = "dir"}
\* The entries of directories that name node i, as pairs of directory and name.
Entries(i) ==
  UNION {{<<d, n>> : n \in {m \in DOMAIN fs.nodes[d].files \ Dots : fs.nodes[d].files[m] = i}}
         : d \in Directories}

\* The tree stays a tree: the link count of every node but the root is the number of entries
\* that name it, a directory has at most one, and ".." of a directory that has one leads to
\* the directory that holds it (tmpfs::create, link, unlink and rename), whatever requests of
\* the two threads come between a lookup and the operation that follows it.
DirectoriesConsistent ==
  odd = {} =>
    /\ \A i \in NodeSet \ {Root} : fs.nodes[i].links = Cardinality(Entries(i))
    /\ \A d \in Directories \ {Root} :
         Cardinality(Entries(d)) <= 1 /\ \A e \in Entries(d) : fs.nodes[d].files[".."] = e[1]

\* The pseudo fds a thread is responsible for.
OwnedBy(t) ==
  LET x == thr[t]
      held == IF x = Idle THEN <<>>
              ELSE x.entered \o x.closing \o [i \in DOMAIN x.res |-> x.res[i].dir] \o <<x.fd>>
  IN ({held[i] : i \in DOMAIN held} \ {-1}) \cup {d.fd : d \in desc[t]}

\* No pseudo fd is leaked or closed twice: what the file system has open are the directory
\* descriptors, the open files, and the directories that traverse has entered or that its
\* results hold; no two threads hold the same one.
NoPseudoFdLost ==
  /\ DOMAIN fs.open = Threads \cup OwnedBy(0) \cup OwnedBy(1)
  /\ OwnedBy(0) \cap OwnedBy(1) \subseteq IF SharedRoot THEN {0} ELSE {}


\* Appends of two descriptors do not overwrite each other: since its last truncation the file
\* has at least one unit for each append (FDFLAG_APPEND in pseudo_fd::write and pwrite).
AppendsKept == Len(fs.nodes[File].data) >= appended

=============================================================================
