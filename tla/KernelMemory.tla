---------------------------- MODULE KernelMemory ----------------------------
(***************************************************************************)
(* The kernel's heap (memory/allocator.hpp, segregator.hpp,                *)
(* bucketizer.hpp) on top of map_virtual and the page allocator, and the   *)
(* other users of these: page frames for userland (fd/mem_mapping.cpp),    *)
(* DMA buffers and device memory (hw/).                                    *)
(*                                                                         *)
(* Small sizes come from bins, which take a page at a time and never give  *)
(* it back; a bin is named by the size of its blocks and is the list of    *)
(* its free blocks, the first one being the tail pointer of the code.      *)
(***************************************************************************)
EXTENDS MapVirtual, FiniteSets

CONSTANTS SmallStep, SmallMax, \* the small bucketizer's step and maximum; its minimum is 0
          LargeStep,           \* the large one's step, from SmallMax to PAGE_SIZE
          Sizes,               \* the sizes asked for
          Alignments,          \* and the alignments
          DmaSizes,            \* the sizes of DMA buffers
          DevicePages,         \* physical pages that are device memory
          MaxBlks              \* bound: blocks of the heap in use at a time

ASSUME KernelMemoryAssumption ==
  /\ SmallMax % SmallStep = 0 /\ (PAGE_SIZE - SmallMax) % LargeStep = 0
  /\ Sizes \subseteq Nat /\ DmaSizes \subseteq Nat
  /\ \A a \in Alignments : PAGE_SIZE % a = 0
  /\ DevicePages \cap Range(MemoryMap) = {}

VARIABLES
  mv,         \* map_virtual
  bins,       \* for each block size, the addresses of the free blocks
  blks,       \* the blocks the heap has handed out
  dma,        \* buffers in contiguous memory
  devices,    \* mapped device memory
  filling,    \* pages of the kernel that are being filled for userland
  user,       \* physical pages that back userland mappings
  lost,       \* virtual pages taken by allocations that then failed
  booted,     \* the kernel has left kernel_main: processes run
  tail_taken, \* a contiguous allocation took the page free_pages_tail points to
  failed      \* assertions and panics; the kernel then halts

vars == <<mv, bins, blks, dma, devices, filling, user, lost, booted, tail_taken, failed>>

Blk == [ptr : Nat, size : Nat]

BinSizes == {SmallStep * k : k \in 1..(SmallMax \div SmallStep)}
              \cup {SmallMax + LargeStep * k : k \in 1..((PAGE_SIZE - SmallMax) \div LargeStep)}

Init ==
  /\ mv = map_virtual(page_allocator(MemoryMap))
  /\ bins = [c \in BinSizes |-> <<>>]
  /\ blks = {} /\ dma = {} /\ devices = {} /\ filling = {} /\ user = {}
  /\ lost = {} /\ booted = FALSE /\ tail_taken = FALSE /\ failed = {}

\* The end of every action: an assertion of the allocators below halts the kernel, and
\* so does what the caller makes of memory it does not get.
SettleOr(refused, outcome) ==
  failed' = mv'.failed \cup mv'.pa.failed \cup (IF refused THEN {outcome} ELSE {})
Settle == SettleOr(FALSE, "panic")

----------------------------------------------------------------------------
(***************************************************************************)
(* Bucketizers.                                                            *)
(***************************************************************************)
\* get_bin_sized, after the segregators chose the bucketizer.
get_bin_sized(s) ==
  LET min == IF s < SmallMax THEN 0 ELSE SmallMax
      step == IF s < SmallMax THEN SmallStep ELSE LargeStep
      up == (s - min + step - 1) \div step
  IN  min + step * (IF up = 0 THEN 1 ELSE up)

\* fill: a new page cut in blocks, the last of them on top.
fill(c, ptr, bin) ==
  LET n == PAGE_SIZE \div c
  IN  [i \in 1..n |-> ptr + (n - i) * c] \o bin

\* The first aligned block of a bin, 0 if there is none.
aligned_block(bin, align) ==
  LET k == {i \in DOMAIN bin : bin[i] % align = 0} IN IF k = {} THEN 0 ELSE Min(k)

take_block(c, bin, align, size) ==
  LET k == aligned_block(bin, align)
  IN  /\ bins' = [bins EXCEPT ![c] = IF k = 0 THEN bin ELSE RemoveAt(bin, k)]
      /\ blks' = IF k = 0 THEN blks ELSE blks \cup {[ptr |-> bin[k], size |-> size]}
      /\ SettleOr(k = 0, "panic")

\* Bucketizer::allocate is allocate_aligned with alignment 1: both fill the bin when
\* it has no suitable block.
AllocateSmall(size, align) ==
  LET c == get_bin_sized(size)
      page == allocate(mv, PAGE_SIZE)
  IN  /\ size < PAGE_SIZE /\ Cardinality(blks) < MaxBlks
      /\ \/ /\ aligned_block(bins[c], align) # 0
            /\ UNCHANGED mv
            /\ take_block(c, bins[c], align, size)
         \/ /\ aligned_block(bins[c], align) = 0
            /\ mv' = page.mv
            /\ IF page.ptr = null THEN UNCHANGED <<bins, blks>> /\ SettleOr(TRUE, "panic")
               ELSE take_block(c, fill(c, page.ptr, bins[c]), align, size)
      /\ UNCHANGED <<dma, devices, filling, user, lost, booted, tail_taken>>

\* Whole pages come from map_virtual and may fail.
AllocateLarge(size) ==
  LET r == allocate(mv, size)
  IN  /\ size >= PAGE_SIZE /\ Cardinality(blks) < MaxBlks
      /\ mv' = r.mv
      /\ blks' = IF r.ptr = null THEN blks ELSE blks \cup {[ptr |-> r.ptr, size |-> size]}
      /\ lost' = IF r.ptr = null THEN lost \cup (r.mv.bitmap \ mv.bitmap) ELSE lost
      /\ Settle
      /\ UNCHANGED <<bins, dma, devices, filling, user, booted, tail_taken>>

DeallocateSmall(b) ==
  /\ b.size < PAGE_SIZE
  /\ blks' = blks \ {b}
  /\ bins' = [bins EXCEPT ![get_bin_sized(b.size)] = <<b.ptr>> \o @]
  /\ UNCHANGED <<mv, dma, devices, filling, user, lost, booted, tail_taken, failed>>

DeallocateLarge(b) ==
  /\ b.size >= PAGE_SIZE
  /\ blks' = blks \ {b}
  /\ mv' = deallocate(mv, b.ptr, b.size)
  /\ Settle
  /\ UNCHANGED <<bins, dma, devices, filling, user, lost, booted, tail_taken>>

----------------------------------------------------------------------------
(***************************************************************************)
(* The other users.                                                        *)
(***************************************************************************)
\* kernel_main: paging with the init process's directory; then the drivers start, and
\* last the processes.
FreePagingStage2 ==
  /\ mv.stage2 # null
  /\ mv' = free_paging_stage2(mv)
  /\ Settle
  /\ UNCHANGED <<bins, blks, dma, devices, filling, user, lost, booted, tail_taken>>

DriversStart == mv.stage2 = null /\ ~booted /\ filling = {}

InitialYield ==
  /\ DriversStart
  /\ booted' = TRUE
  /\ UNCHANGED <<mv, bins, blks, dma, devices, filling, user, lost, tail_taken, failed>>

\* A network driver allocates its rings, which it keeps, and clears without a check.
AllocateDma(size) ==
  LET r == allocate_contiguous(mv, size)
  IN  /\ DriversStart
      /\ mv' = r.mv
      /\ dma' = IF r.ptr = null THEN dma ELSE dma \cup {[ptr |-> r.ptr, size |-> size]}
      /\ tail_taken' = (tail_taken \/ r.mv.pa.tail # 0)
      /\ SettleOr(r.ptr = null, "null pointer")
      /\ UNCHANGED <<bins, blks, devices, filling, user, lost, booted>>

\* A driver maps the memory of its device.
MapDevice(page) ==
  LET r == map_pages_only(mv, page, 1)
  IN  /\ DriversStart
      /\ \A d \in devices : to_physical_address(mv, d.ptr \div PAGE_SIZE) # page
      /\ mv' = r.mv
      /\ devices' = IF r.ptr = null THEN devices
                    ELSE devices \cup {[ptr |-> r.ptr, size |-> PAGE_SIZE]}
      /\ Settle
      /\ UNCHANGED <<bins, blks, dma, filling, user, lost, booted, tail_taken>>

\* mem_mapping_t::ensure_backed: a page is allocated and filled through its kernel
\* mapping, by a read that may block; then it moves to userland.  The first of them are
\* for the init process, during boot.
EnsureBackedAllocate ==
  LET r == allocate(mv, PAGE_SIZE)
  IN  /\ mv.stage2 = null
      /\ mv' = r.mv
      /\ filling' = IF r.ptr = null THEN filling ELSE filling \cup {r.ptr}
      /\ SettleOr(r.ptr = null, "panic")
      /\ UNCHANGED <<bins, blks, dma, devices, user, lost, booted, tail_taken>>

EnsureBackedRemap(ptr) ==
  LET v == ptr \div PAGE_SIZE
  IN  /\ user' = user \cup {to_physical_address(mv, v)}
      /\ mv' = unmap_page_only(mv, v)
      /\ filling' = filling \ {ptr}
      /\ UNCHANGED <<bins, blks, dma, devices, lost, booted, tail_taken, failed>>

\* mem_mapping_t::sync with INVALIDATE.
Invalidate(page) ==
  /\ booted
  /\ mv' = [mv EXCEPT !.pa = deallocate_phys(@, page)]
  /\ user' = user \ {page}
  /\ Settle
  /\ UNCHANGED <<bins, blks, dma, devices, filling, lost, booted, tail_taken>>

Next ==
  /\ failed = {}
  /\ \/ \E s \in Sizes, a \in Alignments : AllocateSmall(s, a)
     \/ \E s \in Sizes : AllocateLarge(s)
     \/ \E b \in blks : DeallocateSmall(b) \/ DeallocateLarge(b)
     \/ \E s \in DmaSizes : AllocateDma(s)
     \/ \E p \in DevicePages : MapDevice(p)
     \/ EnsureBackedAllocate
     \/ \E ptr \in filling : EnsureBackedRemap(ptr)
     \/ \E p \in user : Invalidate(p)
     \/ FreePagingStage2
     \/ InitialYield

Spec == Init /\ [][Next]_vars

----------------------------------------------------------------------------
(***************************************************************************)
(* Properties.                                                             *)
(***************************************************************************)
Frames == Range(MemoryMap)

\* The state after the constructor: the virtual pages that are identity-mapped, and
\* the frames that boot keeps.
Constructed == map_virtual(page_allocator(MemoryMap))
BootVirtual == Constructed.bitmap
BootFrames ==
  (BootVirtual \cap Frames) \ (IF mv.stage2 = null THEN {Constructed.stage2} ELSE {})

Mapped == {v \in VirtualPages \ BootVirtual : mv.tables[v] # null}

\* Types; the values that are pages and frames are in range.
TypeOK ==
  /\ mv.bitmap \subseteq VirtualPages
  /\ mv.tables \in [VirtualPages -> Frames \cup DevicePages \cup BootVirtual \cup {null}]
  /\ Range(mv.pa.free_pages) \subseteq Frames
  /\ bins \in [BinSizes -> Seq(Nat)]
  /\ blks \subseteq Blk /\ dma \subseteq Blk /\ devices \subseteq Blk
  /\ filling \subseteq Nat /\ user \subseteq Frames /\ lost \subseteq VirtualPages
  /\ booted \in BOOLEAN /\ tail_taken \in BOOLEAN
  /\ failed \subseteq {"null pointer", "used_pages", "entry", "phys_addr", "panic"}

\* A page frame has one owner: it is in the free list, once, or mapped in the kernel,
\* once, or given to userland, or in use since boot.
FramesOwnedOnce ==
  LET f == mv.pa.free_pages
      kernel == {mv.tables[v] : v \in Mapped}
  IN  /\ IsInjective(f)
      /\ \A v, w \in Mapped : mv.tables[v] = mv.tables[w] => v = w
      /\ Range(f) \cap (kernel \cup user \cup BootFrames) = {}
      /\ kernel \cap (user \cup BootFrames) = {}
      /\ user \cap BootFrames = {}

\* Memory that is in use, and memory waiting in the bins.
Areas ==
  blks \cup dma \cup devices \cup {[ptr |-> p, size |-> PAGE_SIZE] : p \in filling}
    \cup UNION {{[ptr |-> bins[c][k], size |-> c] : k \in DOMAIN bins[c]} : c \in BinSizes}

InUse == UNION {(a.ptr \div PAGE_SIZE)..((a.ptr + a.size - 1) \div PAGE_SIZE) : a \in Areas}

\* And it has an owner: whatever is deallocated can be allocated again, frames and
\* virtual pages, although the list items travel between the lists without regard to
\* the pages they stand for.  The exceptions are the pages of an allocation that
\* failed half-way, and what follows after a contiguous allocation has taken the tail.
NoFrameLost ==
  failed = {} =>
    /\ mv.bitmap \subseteq BootVirtual \cup InUse \cup lost
    /\ \/ tail_taken
       \/ Frames \subseteq Range(mv.pa.free_pages) \cup user \cup BootFrames
                            \cup {mv.tables[v] : v \in InUse \cup lost}

\* No two allocations overlap, neither with each other nor with a free block of a bin,
\* all of their pages are mapped and reserved, and a bin has a block once.
AreasDisjoint ==
  /\ \A a, b \in Areas :
       a # b => a.ptr + a.size <= b.ptr \/ b.ptr + b.size <= a.ptr
  /\ InUse \subseteq Mapped \cap mv.bitmap
  /\ \A c \in BinSizes : IsInjective(bins[c])

\* No assertion of the allocators fails (unless a contiguous allocation has taken the
\* tail): a virtual page found free has no page table entry, a page being deallocated
\* has one, and the list of used pages does not run out.  What can happen is a panic
\* when memory runs out, and the null pointer that a driver or a contiguous allocation
\* then follows.
AssertsHold == tail_taken \/ failed \subseteq {"panic", "null pointer"}

\* Every frame has exactly one owner, and the allocators agree about it: none is lost, none is
\* given out twice, allocations do not overlap, and no assertion of the page and virtual
\* allocators fails.
FramesConsistent == TypeOK /\ FramesOwnedOnce /\ NoFrameLost /\ AreasDisjoint /\ AssertsHold

\* Memory stays where it is: while an allocation lives, no other operation changes the
\* frames behind it.
AllocationsStable ==
  [][/\ \A b \in (blks \cap blks') \cup (dma \cap dma') \cup (devices \cap devices') :
          \A v \in Range(pages_of(b.ptr, b.size)) : mv'.tables[v] = mv.tables[v]
      /\ \A p \in filling \cap filling' :
          mv'.tables[p \div PAGE_SIZE] = mv.tables[p \div PAGE_SIZE]]_vars
=============================================================================
