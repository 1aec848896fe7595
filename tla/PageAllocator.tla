--------------------------- MODULE PageAllocator ---------------------------
(***************************************************************************)
(* The physical page allocator (memory/page_allocator.cpp).  Pages are     *)
(* numbered by their physical address.  Its state is a record:             *)
(*   free_pages   the pages of the free list, in order                     *)
(*   used_pages   the number of items in the list of used pages, whose     *)
(*                contents are overwritten before they are read again      *)
(*   tail         where free_pages_tail points: 0 is the last item of the  *)
(*                free list, k > 0 the k-th item of the used list, and     *)
(*                more than used_pages an item that is in no list          *)
(*   failed       the assertion that failed or null pointer followed       *)
(* The operations take that record and return a new one.                   *)
(***************************************************************************)
EXTENDS Naturals, Sequences, SequencesExt, FiniteSetsExt

null == 0

\* The constructor: every page of the memory map, in its order.
page_allocator(mmap) ==
  [free_pages |-> mmap, used_pages |-> 0, tail |-> 0, failed |-> {}]

\* num items move to the front of the used list; the pointer stays on its item.  It is
\* set when the free list becomes non-empty again, and not read before.
used_more(pa, num, rest, tail) ==
  [pa EXCEPT !.free_pages = rest, !.used_pages = @ + num,
             !.tail = IF rest = <<>> THEN 0 ELSE tail]

moved_tail(pa, num) == IF pa.tail = 0 THEN 0 ELSE pa.tail + num

\* The page handed out (null if there is none) and the new state.
allocate_phys(pa) ==
  IF pa.free_pages = <<>> THEN [page |-> null, pa |-> pa]
  ELSE [page |-> Head(pa.free_pages),
        pa |-> used_more(pa, 1, Tail(pa.free_pages), moved_tail(pa, 1))]

\* The first num neighbouring items whose pages are contiguous.  The tail pointer stays
\* where it is, also when it points to the last of them.
allocate_contiguous_phys(pa, num) ==
  LET q == pa.free_pages
      starts == {s \in 1..Len(q) :
                   /\ s + num - 1 <= Len(q)
                   /\ \A k \in 1..(num - 1) : q[s + k] = q[s] + k}
      s == Min(starts)
  IN  IF q = <<>> THEN [page |-> null, pa |-> [pa EXCEPT !.failed = {"null pointer"}]]
      ELSE IF starts = {} THEN [page |-> null, pa |-> pa]
      ELSE [page |-> q[s],
            pa |-> used_more(pa, num, SubSeq(q, 1, s - 1) \o SubSeq(q, s + num, Len(q)),
                             IF pa.tail = 0 /\ s + num - 1 = Len(q) THEN num
                             ELSE moved_tail(pa, num))]

\* deallocate_phys of one page: the first used item takes it back.  It is linked behind
\* the item that free_pages_tail points to; if that is not in the free list, neither is
\* the page, and the used list ends there.
deallocate_phys(pa, page) ==
  IF pa.used_pages = 0 THEN [pa EXCEPT !.failed = {"used_pages"}]
  ELSE IF pa.tail = 0 \/ pa.free_pages = <<>>
  THEN [pa EXCEPT !.free_pages = Append(@, page), !.used_pages = @ - 1, !.tail = 0]
  ELSE IF pa.tail \in 2..pa.used_pages THEN [pa EXCEPT !.used_pages = pa.tail]
  ELSE [pa EXCEPT !.used_pages = @ - 1, !.tail = pa.used_pages]
=============================================================================
