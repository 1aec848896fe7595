----------------------------- MODULE MemMapping -----------------------------
\* The memory of one process: its mappings (fd/mem_mapping.cpp), its page tables and the
\* operations of process_fd on them.
\*
\* A memory is a record
\*   maps   the list of mappings, as a set: no operation depends on its order
\*   pt     the page table entries of the user pages 0 .. NPages-1
\*   used   the number of page frames taken for this process and not given back
\*   file   the contents of the pages of the one file that mappings are backed by
\*   failed the assertions that failed
\* A frame is used by one entry only, so its contents stand in the entry. A mapping is
\* `held' when a thread that is blocked inside its ensure_backed has a pointer to it.
\* Operations take and return a memory; page numbers stand for page-aligned addresses.
EXTENDS Integers, FiniteSets, FiniteSetsExt

CONSTANTS NPages,    \* user pages: _kernel_virtual_base in pages
          FirstFree, \* where find_free_virtual_range starts
          FilePages  \* length of the backing file in pages

ASSUME SizesAssumption == NPages \in Nat \ {0} /\ FirstFree \in 0 .. NPages /\ FilePages \in Nat

UserPages == 0 .. NPages - 1
\* What a page may hold: zeroes, the initial contents of a page of the file, or what a
\* thread wrote.
Zero == <<"zero">>
Written == <<"written">>
FilePage(i) == <<"file", i>>
Prots == SUBSET {"r", "w", "x"}
NotPresent == [present |-> FALSE]

\* The bits of a page table entry that come from the protection of the mapping.
prot_to_bits(p) == [user |-> p # {}, write |-> "w" \in p]

Entry(val, prot) == [present |-> TRUE, val |-> val, bits |-> prot_to_bits(prot), dirty |-> FALSE]

EndOf(mp) == mp.begin + mp.pages
PagesOf(mp) == mp.begin .. EndOf(mp) - 1
fd_offset(mp, a) == mp.off + (a - mp.begin)
is_backed(m, a) == m.pt[a].present
Backed(m, mp) == {a \in PagesOf(mp) : is_backed(m, a)}
Covering(m, a) == {mp \in m.maps : a \in PagesOf(mp)}
Fail(m, name) == [m EXCEPT !.failed = @ \cup {name}]

NoMemory(file) ==
  [maps |-> {}, pt |-> [a \in UserPages |-> NotPresent], used |-> 0, file |-> file, failed |-> {}]

\* What a page read from the backing file holds: a read that fails, as one past the end does
\* with EIO, leaves a page of zeroes.
FileContents(m, off) == IF off \in 0 .. FilePages - 1 THEN m.file[off] ELSE Zero

\* What a thread finds at page a, were it to read it: the frame, or what a fault would bring.
View(m, a) ==
  IF is_backed(m, a) THEN m.pt[a].val
  ELSE IF Covering(m, a) = {} THEN <<"unmapped">>
  ELSE LET mp == CHOOSE x \in Covering(m, a) : TRUE
       IN IF mp.fd = "anon" THEN Zero ELSE FileContents(m, fd_offset(mp, a))

\* ---------------------------------------------------------------- mem_mapping_t

\* The constructor, with its assertions.
mem_mapping_t(begin, n, fd, off, prot, shared) ==
  [begin |-> begin, pages |-> n, fd |-> fd, off |-> off, prot |-> prot, shared |-> shared,
   held |-> FALSE]
ConstructorAsserts(mp) == (mp.shared => mp.fd # "anon") /\ mp.begin < NPages /\ EndOf(mp) <= NPages

\* The filling of a page that ensure_backed does after its test and the allocation.
Fill(m, a, fd, off, prot) ==
  [m EXCEPT !.pt[a] = Entry(IF fd = "anon" THEN Zero ELSE FileContents(m, off), prot)]

ensure_backed(m, mp, a) ==
  IF is_backed(m, a) THEN m
  ELSE [Fill(m, a, mp.fd, fd_offset(mp, a), mp.prot) EXCEPT !.used = @ + 1]

\* One page after the other: ensure_completely_backed of a mapping that is all anonymous.
ensure_completely_backed(m, mp) ==
  LET new == PagesOf(mp) \ Backed(m, mp)
  IN [m EXCEPT !.pt = [a \in UserPages |-> IF a \in new THEN Entry(Zero, mp.prot) ELSE @[a]],
               !.used = @ + Cardinality(new)]

set_protection(m, mp, prot) ==
  [m EXCEPT !.maps = (@ \ {mp}) \cup {[mp EXCEPT !.prot = prot]},
            !.pt = [a \in UserPages |->
              IF a \in Backed(m, mp) THEN [@[a] EXCEPT !.bits = prot_to_bits(prot)] ELSE @[a]]]

split_at(mp, lo, hi) ==
  [mp EXCEPT !.begin = lo, !.pages = hi - lo, !.off = fd_offset(mp, lo), !.shared = FALSE,
             !.held = FALSE]

\* The pages of mp that sync writes back, and the page at which it stops because pwrite
\* fails (werr): every write fails, or none.
ToWrite(m, mp, flags) ==
  IF {"sync", "async"} \cap flags # {} /\ mp.shared /\ mp.fd # "anon"
  THEN {a \in Backed(m, mp) : m.pt[a].dirty} ELSE {}
SyncFails(m, mp, flags, werr) == werr /\ ToWrite(m, mp, flags) # {}

\* sync_completely: dirty pages of a shared mapping are marked clean and written, and with
\* MS_INVALIDATE the pages are taken out and their frames freed. MS_ASYNC counts as MS_SYNC
\* alone. The first write that fails ends it.
sync_completely(m, mp, flags, werr) ==
  LET dirty == ToWrite(m, mp, flags)
      stop  == IF SyncFails(m, mp, flags, werr) THEN Min(dirty) ELSE NPages
      done  == {a \in Backed(m, mp) : a < stop}
      gone  == IF "invalidate" \in flags /\ "async" \notin flags THEN done ELSE {}
  IN [m EXCEPT
        !.pt = [a \in UserPages |->
                  IF a \in gone THEN NotPresent
                  ELSE IF a \in dirty /\ a <= stop THEN [@[a] EXCEPT !.dirty = FALSE]
                  ELSE @[a]],
        !.used = @ - Cardinality(gone),
        !.file = [i \in DOMAIN @ |->
                    IF \E a \in dirty \cap done : fd_offset(mp, a) = i
                    THEN m.pt[CHOOSE a \in dirty \cap done : fd_offset(mp, a) = i].val
                    ELSE @[i]]]

unmap_completely(m, mp, werr) == sync_completely(m, mp, {"sync", "invalidate"}, werr)

\* The destructor asserts that no page of the mapping is backed.
DestroyMapping(m, mp) ==
  LET gone == [m EXCEPT !.maps = @ \ {mp}]
  IN IF Backed(m, mp) # {} THEN Fail(gone, "~mem_mapping_t") ELSE gone

\* ------------------------------------------------------------------- process_fd

InRange(mp, begin, end) == begin <= mp.begin /\ EndOf(mp) <= end
Outside(mp, begin, end) == end <= mp.begin \/ EndOf(mp) <= begin

\* iterate_mappings splits the mappings that stick out of the range: the part inside stays
\* the same object, the parts before and after it are new. Afterwards every mapping is
\* InRange or Outside, and the caller's function was applied to the ones in range.
Pieces(mp, begin, end) ==
  IF Outside(mp, begin, end) THEN {mp}
  ELSE LET lo == Max({begin, mp.begin})
           hi == Min({end, EndOf(mp)})
       IN {[mp EXCEPT !.begin = lo, !.pages = hi - lo, !.off = fd_offset(mp, lo)]}
          \cup (IF mp.begin < begin THEN {split_at(mp, mp.begin, begin)} ELSE {})
          \cup (IF end < EndOf(mp) THEN {split_at(mp, end, EndOf(mp))} ELSE {})
iterate_mappings(m, begin, n) ==
  [m EXCEPT !.maps = UNION {Pieces(mp, begin, begin + n) : mp \in @}]
Selected(m, begin, n) == {mp \in m.maps : InRange(mp, begin, begin + n)}

\* A mapping that is unmapped and deallocated, in one of the loops that do so.
Release(werr, m, mp) == DestroyMapping(unmap_completely(m, mp, werr), mp)

mem_unmap(m, begin, n, werr) ==
  LET m1 == iterate_mappings(m, begin, n)
      Drop(mp, acc) == Release(werr, acc, mp)
      part == \E mp \in m1.maps : ~InRange(mp, begin, begin + n) /\ ~Outside(mp, begin, begin + n)
      m2 == FoldSet(Drop, m1, Selected(m1, begin, n))
  IN IF part THEN Fail(m2, "partial mappings") ELSE m2

mem_protect(m, begin, n, prot) ==
  LET m1 == iterate_mappings(m, begin, n)
      Protect(mp, acc) == set_protection(acc, mp, prot)
  IN FoldSet(Protect, m1, Selected(m1, begin, n))

\* mem_sync stops syncing at the first mapping that fails.
mem_sync(m, begin, n, flags, werr) ==
  LET m1 == iterate_mappings(m, begin, n)
      Sync(mp, acc) == IF acc.err THEN acc
                       ELSE [mem |-> sync_completely(acc.mem, mp, flags, werr),
                             err |-> SyncFails(acc.mem, mp, flags, werr)]
  IN FoldSet(Sync, [mem |-> m1, err |-> FALSE], Selected(m1, begin, n))

add_mem_mapping(m, mp, overwrite, werr) ==
  LET m1 == IF overwrite THEN mem_unmap(m, mp.begin, mp.pages, werr) ELSE m
      overlaps == \E x \in m1.maps : ~Outside(x, mp.begin, EndOf(mp))
      m2 == [m1 EXCEPT !.maps = @ \cup {mp}]
  IN IF ~ConstructorAsserts(mp) THEN Fail(m, "mem_mapping_t")
     ELSE IF overlaps THEN Fail(m1, "overlapping mapping") ELSE m2

\* The first address from `from' on where n pages fit, strictly below the kernel, or -1.
FindFrom[from \in 0 .. 2 * NPages, n \in 1 .. NPages, maps \in SUBSET [begin : UserPages, pages : 1 .. NPages]] ==
  LET above  == {mp \in maps : mp.begin + mp.pages > from}
      lowest == CHOOSE mp \in above : \A x \in above : mp.begin <= x.begin
  IN IF from + n >= NPages THEN -1
     ELSE IF above = {} THEN from
     ELSE IF from + n <= lowest.begin THEN from
     ELSE FindFrom[lowest.begin + lowest.pages, n, maps]
find_free_virtual_range(m, n) ==
  FindFrom[FirstFree, n, {[begin |-> mp.begin, pages |-> mp.pages] : mp \in m.maps}]
=============================================================================
