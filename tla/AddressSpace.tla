---------------------------- MODULE AddressSpace ----------------------------
\* Threads of one process that map, protect, sync, unmap and access its memory
\* (proc/syscall/mem_syscalls.cpp, the memory half of fd/process_fd.cpp).
\*
\* The kernel does not preempt, so a system call is one step unless it blocks. The read from
\* the backing file inside ensure_backed may block: a page fault on a mapped file is a begin
\* and an end with steps of other threads between them, or one step when the read does not
\* block. One thread at a time is blocked in a fault; the other steps are those of any number
\* of other threads. Writing back is one step.
EXTENDS MemMapping

CONSTANTS MapProtections, Protections, \* the protections of new mappings, and of mem_protect
          MapLengths, \* the lengths of new mappings
          MaxCalls    \* system calls made

VARIABLES mem,     \* the memory of the process
          fault,   \* the page fault that a thread is blocked in, or NoFault
          running, \* process_fd::running
          raced,   \* history: a fault ended on a page that was no longer the one it began on
          wfailed, \* history: a write to the backing file failed
          calls    \* system calls made, bounded by MaxCalls

asvars == <<mem, fault, running, raced, wfailed, calls>>

NoFault == [page |-> -1]
InitialFile == [i \in 0 .. FilePages - 1 |-> FilePage(i)]

Idle == mem.failed = {} /\ ~raced /\ running
\* A system call, of which a process makes a bounded number.
Call == Idle /\ calls < MaxCalls /\ calls' = calls + 1
\* A write to the file can fail if there is one to be done.
MayFail(werr) == werr => \E mp \in mem.maps : ToWrite(mem, mp, {"sync"}) # {}
\* The mapping object that the blocked thread holds a pointer to, if it still exists.
Held == {mp \in mem.maps : mp.held}
InFlight == IF fault = NoFault THEN 0 ELSE 1

ASTypeOK ==
  /\ \A mp \in mem.maps : /\ mp.begin \in UserPages /\ mp.pages \in 1 .. NPages
                          /\ mp.prot \in Prots /\ mp.held \in BOOLEAN
  /\ DOMAIN mem.pt = UserPages /\ mem.used \in Nat
  /\ running \in BOOLEAN /\ raced \in BOOLEAN /\ wfailed \in BOOLEAN

ASInit ==
  /\ mem = NoMemory(InitialFile)
  /\ fault = NoFault
  /\ running = TRUE /\ raced = FALSE /\ wfailed = FALSE /\ calls = 0

\* Pages of the file that are mapped already; the file is mapped at most once at a time.
FileMapped == \E mp \in mem.maps : mp.fd = "file"

\* syscall_mem_map: `begin' is -1 for a null address without MAP_FIXED. A hint is only given
\* for a range that is free.
syscall_mem_map(begin, n, prot, fixed, fd, off, shared, werr) ==
  LET addr == IF ~fixed /\ begin = -1 THEN find_free_virtual_range(mem, n) ELSE begin
      mp   == mem_mapping_t(addr, n, fd, off, prot, shared)
  IN /\ Call
     /\ ~({"x", "w"} \subseteq prot)
     /\ shared => fd = "file"
     /\ fd = "file" => ~FileMapped
     /\ addr >= 0 /\ addr + n <= NPages
     /\ ~fixed /\ begin >= 0 => \A x \in mem.maps : Outside(x, addr, addr + n)
     /\ MayFail(werr)
     /\ mem' = add_mem_mapping(mem, mp, fixed, werr)
     /\ wfailed' = (wfailed \/ werr)
     /\ UNCHANGED <<fault, running, raced>>

syscall_mem_protect(begin, n, prot) ==
  /\ Call /\ ~({"x", "w"} \subseteq prot)
  /\ mem' = mem_protect(mem, begin, n, prot)
  /\ UNCHANGED <<fault, running, raced, wfailed>>

SyncFlags == {{"sync"}, {"async"}, {"sync", "invalidate"}}
syscall_mem_sync(begin, n, flags, werr) ==
  /\ Call /\ MayFail(werr)
  /\ mem' = mem_sync(mem, begin, n, flags, werr).mem
  /\ wfailed' = (wfailed \/ werr)
  /\ UNCHANGED <<fault, running, raced>>

syscall_mem_unmap(begin, n, werr) ==
  /\ Call /\ MayFail(werr)
  /\ mem' = mem_unmap(mem, begin, n, werr)
  /\ wfailed' = (wfailed \/ werr)
  /\ UNCHANGED <<fault, running, raced>>

\* ----------------------------------------------------- memory accesses and faults

\* The processor lets an access through; a write marks the page dirty.
Write(a) ==
  /\ Idle /\ is_backed(mem, a) /\ mem.pt[a].bits.user /\ mem.pt[a].bits.write
  /\ mem' = [mem EXCEPT !.pt[a].val = Written, !.pt[a].dirty = TRUE]
  /\ UNCHANGED <<fault, running, raced, wfailed, calls>>

Faults(a, kind) ==
  is_backed(mem, a) => ~mem.pt[a].bits.user \/ (kind = "w" /\ ~mem.pt[a].bits.write)

\* The conditions under which handle_pagefault backs the page.
Allowed(a, kind) ==
  /\ \E mp \in Covering(mem, a) : kind = "r" \/ kind \in mp.prot
  /\ ~is_backed(mem, a)

\* handle_pagefault, with a read that does not block if the mapping has a file.
PageFault(a, kind) ==
  \E mp \in Covering(mem, a) :
    /\ Idle /\ Faults(a, kind) /\ Allowed(a, kind)
    /\ mem' = ensure_backed(mem, mp, a)
    /\ UNCHANGED <<fault, running, raced, wfailed, calls>>

\* handle_pagefault on a mapped file: the frame is taken, then pread blocks.
PageFaultBlocks(a, kind) ==
  \E mp \in Covering(mem, a) :
    /\ Idle /\ Faults(a, kind) /\ Allowed(a, kind) /\ mp.fd = "file" /\ fault = NoFault
    /\ mem' = [mem EXCEPT !.used = @ + 1, !.maps = (@ \ {mp}) \cup {[mp EXCEPT !.held = TRUE]}]
    /\ fault' = [page |-> a, off |-> fd_offset(mp, a)]
    /\ UNCHANGED <<running, raced, wfailed, calls>>

\* pread returns: the entry is written whatever it holds by now, with the protection of the
\* mapping object the thread came with; if that was freed meanwhile, with any protection.
PageFaultResumes ==
  \E prot \in (IF Held = {} THEN Protections ELSE {mp.prot : mp \in Held}) :
    LET a == fault.page
    IN /\ Idle /\ fault # NoFault
       /\ mem' = [Fill(mem, a, "file", fault.off, prot)
                  EXCEPT !.maps = {[mp EXCEPT !.held = FALSE] : mp \in @}]
       /\ raced' = (is_backed(mem, a) \/ ~\E mp \in Held : a \in PagesOf(mp))
       /\ fault' = NoFault
       /\ UNCHANGED <<running, wfailed, calls>>

\* A fault that handle_pagefault refuses ends the process with SIGSEGV. Its threads are gone;
\* a frame that one of them had taken for a fault is never given back.
SegmentationFault(a, kind) ==
  /\ Idle /\ Faults(a, kind) /\ ~Allowed(a, kind)
  /\ running' = FALSE
  /\ raced' = (raced \/ fault # NoFault)
  /\ fault' = NoFault
  /\ mem' = [mem EXCEPT !.maps = {[mp EXCEPT !.held = FALSE] : mp \in @}]
  /\ UNCHANGED <<wfailed, calls>>

\* ~process_fd releases the mappings and then the page tables; another process starts.
DestroyProcess(werr) ==
  LET Drop(mp, acc) == Release(werr, acc, mp)
      left == FoldSet(Drop, mem, mem.maps)
  IN /\ ~running /\ ~raced /\ mem.failed = {} /\ MayFail(werr)
     /\ mem' = [left EXCEPT !.pt = [a \in UserPages |-> NotPresent]]
     /\ running' = TRUE
     /\ wfailed' = (wfailed \/ werr)
     /\ UNCHANGED <<fault, raced, calls>>

MapAny ==
  \E begin \in -1 .. NPages - 1, n \in MapLengths, prot \in MapProtections, fixed \in BOOLEAN :
    \/ syscall_mem_map(begin, n, prot, fixed, "anon", 0, FALSE, FALSE)
    \/ \E off \in 0 .. FilePages - 1, shared, werr \in BOOLEAN :
         syscall_mem_map(begin, n, prot, fixed, "file", off, shared, werr)
RangeCall ==
  \E begin \in UserPages, n \in 1 .. NPages :
    \/ \E prot \in Protections : syscall_mem_protect(begin, n, prot)
    \/ \E flags \in SyncFlags, werr \in BOOLEAN : syscall_mem_sync(begin, n, flags, werr)
    \/ \E werr \in BOOLEAN : syscall_mem_unmap(begin, n, werr)
Access ==
  \E a \in UserPages :
    \/ Write(a)
    \/ \E kind \in {"r", "w", "x"} :
         PageFault(a, kind) \/ PageFaultBlocks(a, kind) \/ SegmentationFault(a, kind)

ASNext ==
  \/ MapAny \/ RangeCall \/ Access \/ PageFaultResumes
  \/ \E werr \in BOOLEAN : DestroyProcess(werr)

ASSpec == ASInit /\ [][ASNext]_asvars

\* -------------------------------------------------------------------- properties

\* However mappings are split, overwritten and removed, no two of them overlap: a page fault
\* finds one mapping at most (the assertion in handle_pagefault).
MappingsApart ==
  \A x, y \in mem.maps : x = y \/ PagesOf(x) \cap PagesOf(y) = {}

\* The frames a process took are the ones in its page tables and the ones its faults hold,
\* and the entries are those of mapped pages with the mapping's protection: no frame is lost
\* or given back twice by splitting, overwriting, syncing, failed writes or destruction,
\* until a fault races (see raced).
FramesAccounted ==
  ~raced /\ mem.failed = {} =>
    /\ mem.used = Cardinality({a \in UserPages : is_backed(mem, a)}) + InFlight
    /\ \A a \in UserPages : is_backed(mem, a) =>
         \E mp \in mem.maps : a \in PagesOf(mp) /\ mem.pt[a].bits = prot_to_bits(mp.prot)

\* A page of a shared mapping that is not dirty holds what the file holds: what a thread
\* wrote is either still marked or was written back (sync, unmap_completely), until a write
\* to the file fails, which leaves the page unmarked.
CleanPagesMatchFile ==
  ~raced /\ ~wfailed =>
    \A mp \in mem.maps : \A a \in Backed(mem, mp) :
      mp.shared /\ ~mem.pt[a].dirty /\ fd_offset(mp, a) < FilePages =>
        mem.pt[a].val = mem.file[fd_offset(mp, a)] \/ mem.pt[a].val = Zero

\* In every memory that is reached, splitting around a page and unmapping it leave what a
\* thread reads at the other pages as it was, and so does a page fault at the page itself:
\* split mappings keep their file offsets and contents.
ContentsKept ==
  fault = NoFault => \A p \in UserPages :
    LET split == iterate_mappings(mem, p, 1)
        unmapped == mem_unmap(mem, p, 1, FALSE)
    IN /\ \A a \in UserPages : View(split, a) = View(mem, a)
       /\ unmapped.file = mem.file => \A a \in UserPages \ {p} : View(unmapped, a) = View(mem, a)
       /\ \A mp \in Covering(split, p) : View(ensure_backed(split, mp, p), p) = View(mem, p)

\* No assertion on mappings fails, apart from the one in the destructor.
MappingAssertsHold == mem.failed \subseteq {"~mem_mapping_t"}


=============================================================================
