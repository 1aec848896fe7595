----------------------------- MODULE MapVirtual -----------------------------
(***************************************************************************)
(* Kernel virtual memory (memory/map_virtual.cpp, oslibc/bitmap.cpp) on    *)
(* top of the page allocator.  Its state is a record: the page allocator,  *)
(* the bitmap of virtual pages in use (a set), and the kernel page tables  *)
(* as one function from virtual pages to physical pages, null where the    *)
(* page is not present, and the assertions that failed.                    *)
(*                                                                         *)
(* Virtual pages are numbered from 1; the kernel's identity mapping maps   *)
(* virtual page p to physical page p.                                      *)
(***************************************************************************)
EXTENDS PageAllocator

CONSTANTS PAGE_SIZE,        \* bytes
          NUM_KERNEL_PAGES, \* virtual pages of the kernel
          MemoryMap,        \* the available physical pages, in the boot loader's order
          BitmapPages,      \* pages for the virtual memory bitmap
          NUM_KERNEL_PAGE_TABLES

ASSUME MapVirtualAssumption ==
  /\ PAGE_SIZE \in Nat \ {0} /\ NUM_KERNEL_PAGES \in Nat
  /\ BitmapPages \in Nat \ {0} /\ NUM_KERNEL_PAGE_TABLES \in Nat
  /\ MemoryMap \in Seq(Nat \ {0}) /\ IsInjective(MemoryMap)
  /\ Len(MemoryMap) > BitmapPages + NUM_KERNEL_PAGE_TABLES + 1
  /\ \A k \in 1..BitmapPages : MemoryMap[k] = MemoryMap[1] + k - 1

VirtualPages == 1..NUM_KERNEL_PAGES

num_pages_for_size(size) ==
  IF size % PAGE_SIZE # 0 THEN size \div PAGE_SIZE + 1 ELSE size \div PAGE_SIZE

\* Bitmap::get_contiguous_free: the first of num free bits, or null.
get_contiguous_free_LastBitNotSeen(bitmap, num) ==
  LET starts == {s \in VirtualPages :
                   /\ num > 0 /\ s + num - 1 \in VirtualPages
                   /\ \A v \in s..(s + (IF num > 1 THEN num - 2 ELSE 0)) : v \notin bitmap}
  IN  IF starts = {} THEN null ELSE Min(starts)

get_contiguous_free(bitmap, num) ==
  LET starts == {s \in VirtualPages :
                   num > 0 /\ \A v \in s..(s + num - 1) : v \in VirtualPages \ bitmap}
  IN  IF starts = {} THEN null ELSE Min(starts)

----------------------------------------------------------------------------
\* Enter a physical page in the tables, where the code asserts there is none.
map_page(mv, v, page) ==
  [mv EXCEPT !.tables[v] = page,
             !.failed = IF mv.tables[v] = null THEN @ ELSE @ \cup {"entry"}]

reserve(mv, v, num) == [mv EXCEPT !.bitmap = @ \cup v..(v + num - 1)]

\* A result without memory.
Failed(mv) == [ptr |-> null, mv |-> mv]

\* allocate: when physical pages run out half-way, the pages mapped so far and the
\* virtual pages remain taken.
allocate(mv, size) ==
  LET num == num_pages_for_size(size)
      v == get_contiguous_free(mv.bitmap, num)
      step(st, i) ==
        LET r == allocate_phys(st.mv.pa)
        IN  IF st.ptr = null THEN st
            ELSE IF r.page = null THEN [st EXCEPT !.ptr = null]
            ELSE [st EXCEPT !.mv = [map_page(st.mv, i, r.page) EXCEPT !.pa = r.pa]]
  IN  IF v = null THEN Failed(mv)
      ELSE FoldLeft(step, [ptr |-> v * PAGE_SIZE, mv |-> reserve(mv, v, num)],
                    [i \in 1..num |-> v + i - 1])

\* map_virtual::allocate_contiguous_phys: the virtual pages remain taken when there
\* are no contiguous physical pages.
allocate_contiguous(mv, size) ==
  LET num == num_pages_for_size(size)
      v == get_contiguous_free(mv.bitmap, num)
      r == allocate_contiguous_phys(mv.pa, num)
      mapped == FoldLeft(LAMBDA m, i : map_page(m, v + i - 1, r.page + i - 1),
                         reserve(mv, v, num), [i \in 1..num |-> i])
  IN  IF v = null THEN Failed(mv)
      ELSE IF r.page = null THEN Failed([reserve(mv, v, num) EXCEPT !.pa = r.pa])
      ELSE [ptr |-> v * PAGE_SIZE, mv |-> [mapped EXCEPT !.pa = r.pa]]

map_pages_only(mv, page, num) ==
  LET v == get_contiguous_free(mv.bitmap, num)
  IN  IF v = null THEN Failed(mv)
      ELSE [ptr |-> v * PAGE_SIZE,
            mv |-> FoldLeft(LAMBDA m, i : map_page(m, v + i - 1, page + i - 1),
                            reserve(mv, v, num), [i \in 1..num |-> i])]

unmap_page_only(mv, v) ==
  [mv EXCEPT !.tables[v] = null, !.bitmap = @ \ {v}]

pages_of_RoundsDown(ptr, size) ==
  [i \in 1..(size \div PAGE_SIZE) |-> ptr \div PAGE_SIZE + i - 1]

pages_of(ptr, size) ==
  [i \in 1..num_pages_for_size(size) |-> ptr \div PAGE_SIZE + i - 1]

to_physical_address(mv, v) == mv.tables[v]

deallocate(mv, ptr, size) ==
  LET step(m, v) ==
        LET page == to_physical_address(m, v)
        IN  IF page = null THEN [m EXCEPT !.failed = @ \cup {"phys_addr"}]
            ELSE [unmap_page_only(m, v) EXCEPT !.pa = deallocate_phys(@, page)]
  IN  FoldLeft(step, mv, pages_of(ptr, size))

----------------------------------------------------------------------------
\* The constructor: bitmap, page tables, a temporary page directory, and a page to
\* see how far the identity mapping must go, which is given back.
map_virtual(pa) ==
  LET bitmap == allocate_contiguous_phys(pa, BitmapPages)
      taken == FoldLeft(LAMBDA p, i : allocate_phys(p).pa, bitmap.pa,
                        [i \in 1..NUM_KERNEL_PAGE_TABLES |-> i])
      stage2 == allocate_phys(taken)
      first_free == allocate_phys(stage2.pa)
      identity == 1..(first_free.page - 1)
  IN  [pa |-> deallocate_phys(first_free.pa, first_free.page),
       bitmap |-> identity,
       tables |-> [v \in VirtualPages |-> IF v \in identity THEN v ELSE null],
       stage2 |-> stage2.page,
       failed |-> {}]

free_paging_stage2(mv) ==
  [mv EXCEPT !.pa = deallocate_phys(@, mv.stage2), !.stage2 = null]
=============================================================================
