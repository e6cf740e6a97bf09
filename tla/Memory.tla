------------------------------- MODULE Memory -------------------------------
(***************************************************************************)
(* memory::init of kernel/src/memory: the physical frame allocator over    *)
(* the bootloader's memory map, and the loop that maps the kernel heap.    *)
(*                                                                         *)
(* init_heap draws a frame for every heap page; map_to draws more from the *)
(* same allocator for the page tables that are missing on the way to the   *)
(* page.  Any of these can find the memory map exhausted.  Interrupts are  *)
(* disabled: the only process is kernel_main.                              *)
(***************************************************************************)
EXTENDS Integers, Sequences, FiniteSets

CONSTANTS
  PageSize,     \* 4096
  Fanout,       \* entries of a page table: 512
  HEAP_START,
  HEAP_SIZE,
  MemoryMaps    \* the maps a bootloader may hand over: sequences of regions

Aligned(a) == \E s \in 0 .. a : a = s * PageSize

\* Usable regions do not overlap.
Apart(r, q) == r.end <= q.start \/ q.end <= r.start

ASSUME MemoryAssumption ==
  /\ PageSize \in Nat \ {0}
  /\ Fanout \in Nat \ {0}
  /\ HEAP_START \in Nat
  /\ HEAP_SIZE \in Nat \ {0}

\* What UEFI promises of its map: whole pages.
ASSUME MapsAligned ==
  \A map \in MemoryMaps :
    /\ \A i \in DOMAIN map :
         /\ map[i] \in [start : Nat, end : Nat, kind : {"Usable", "Bootloader"}]
         /\ Aligned(map[i].start) /\ Aligned(map[i].end)
    /\ \A i, j \in DOMAIN map : i # j => Apart(map[i], map[j])

-----------------------------------------------------------------------------
(* The frame allocator.  A frame is its first address.                      *)

NoFrame == -1

\* PhysFrame::containing_address.
Containing(addr) == addr - (addr % PageSize)

\* How many items (start..end).step_by(4096) has.
StepCount(region) ==
  IF region.kind = "Usable"
  THEN (region.end - region.start + PageSize - 1) \div PageSize
  ELSE 0

\* How many items of the flattened iterator come before those of region i.
Before(map) ==
  LET before[i \in 0 .. Len(map)] ==
        IF i = 0 THEN 0 ELSE before[i - 1] + StepCount(map[i])
  IN  [i \in DOMAIN map |-> before[i - 1]]

\* The address of item n if it is one of region i.
ItemAddr(map, n, i) == map[i].start + (n - Before(map)[i]) * PageSize

\* Item n of the iterator is one of region i.
IsItemOf(map, n, i) ==
  /\ map[i].kind = "Usable"
  /\ Before(map)[i] \in 0 .. n
  /\ ItemAddr(map, n, i) < map[i].end

\* usable_frames().nth(n).
Nth(map, n) ==
  IF \E i \in DOMAIN map : IsItemOf(map, n, i)
  THEN Containing(ItemAddr(map, n, CHOOSE i \in DOMAIN map : IsItemOf(map, n, i)))
  ELSE NoFrame

-----------------------------------------------------------------------------
(* The heap's pages and the tables that lead to a page: one of level 1      *)
(* covers Fanout pages, one of level 2 Fanout of those, and so on.          *)

FirstPage == HEAP_START \div PageSize

\* Mutant: Page::range up to the page after the heap, which forgets a last page that
\* the heap ends in the middle of.
LastPage_Whole == (HEAP_START + HEAP_SIZE) \div PageSize - 1

LastPage == (HEAP_START + HEAP_SIZE - 1) \div PageSize

Table(level, p) ==
  <<level, p \div (CASE level = 1 -> Fanout
                     [] level = 2 -> Fanout * Fanout
                     [] level = 3 -> Fanout * Fanout * Fanout)>>

VARIABLES
  regions,   \* boot_info.memory_regions
  offset,    \* does boot_info hold physical_memory_offset?
  next,      \* BootInfoFrameAllocator::next
  tables,    \* page tables created: <<level, index>> -> frame
  mapped,    \* pages mapped: page -> frame
  page,      \* the page of the current iteration
  frame,     \* the frame drawn for it
  at         \* where memory::init is

mvars == <<regions, offset, next, tables, mapped, page, frame, at>>

MemoryInit ==
  /\ regions \in MemoryMaps
  /\ offset \in BOOLEAN
  /\ next = 0
  /\ tables = << >>
  /\ mapped = << >>
  /\ page = FirstPage
  /\ frame = NoFrame
  /\ at = "start"

Fails ==
  /\ at' = "panicked"
  /\ UNCHANGED <<tables, mapped, page, frame>>

\* Without the offset mapping there is no way to the page tables.
Start ==
  /\ at = "start"
  /\ at' = IF offset THEN "page" ELSE "panicked"
  /\ UNCHANGED <<regions, offset, next, tables, mapped, page, frame>>

\* Mutant: map_to draws from a copy of the allocator.
Advance_Copy == next' = IF at = "tables" THEN next ELSE next + 1

\* allocate_frame counts its calls, also the ones that return None.
Advance == next' = next + 1

\* A frame for the page; `ok_or(FrameAllocationFailed)?` ends in a panic.
DrawFrame ==
  /\ at = "page"
  /\ Advance
  /\ LET f == Nth(regions, next)
     IN  \/ f = NoFrame /\ Fails
         \/ /\ f # NoFrame
            /\ frame' = f
            /\ at' = "tables"
            /\ UNCHANGED <<tables, mapped, page>>
  /\ UNCHANGED <<regions, offset>>

\* The level of the first table that map_to misses on its way down.
MissingAt(level) ==
  /\ Table(level, page) \notin DOMAIN tables
  /\ \A l \in level + 1 .. 3 : Table(l, page) \in DOMAIN tables

CreateTable(level) ==
  /\ at = "tables"
  /\ MissingAt(level)
  /\ Advance
  /\ LET f == Nth(regions, next)
     IN  \/ f = NoFrame /\ Fails
         \/ /\ f # NoFrame
            /\ tables' = [t \in DOMAIN tables \cup {Table(level, page)} |->
                            IF t \in DOMAIN tables THEN tables[t] ELSE f]
            /\ UNCHANGED <<mapped, page, frame, at>>
  /\ UNCHANGED <<regions, offset>>

\* The page is mapped; after the last one the heap allocator gets the range.
MapPage ==
  /\ at = "tables"
  /\ \A l \in 1 .. 3 : Table(l, page) \in DOMAIN tables
  /\ mapped' = [p \in DOMAIN mapped \cup {page} |->
                  IF p = page THEN frame ELSE mapped[p]]
  /\ frame' = NoFrame
  /\ page' = page + 1
  /\ at' = IF page = LastPage THEN "ready" ELSE "page"
  /\ UNCHANGED <<regions, offset, next, tables>>

MemoryNext ==
  \/ Start
  \/ DrawFrame
  \/ \E level \in 1 .. 3 : CreateTable(level)
  \/ MapPage

MemorySpec == MemoryInit /\ [][MemoryNext]_mvars

-----------------------------------------------------------------------------
(* Properties.                                                              *)

MemoryTypeOK ==
  /\ regions \in MemoryMaps
  /\ offset \in BOOLEAN
  /\ next \in Nat
  /\ frame \in Nat \cup {NoFrame}
  /\ at \in {"start", "page", "tables", "ready", "panicked"}
  /\ page \in FirstPage .. LastPage + 1

\* The whole of frame f belongs to one usable region.
InUsable(f) ==
  \E i \in DOMAIN regions :
    /\ regions[i].kind = "Usable"
    /\ regions[i].start <= f /\ f + PageSize <= regions[i].end

\* allocate_frame hands every frame out once, and only memory that is usable as
\* a whole: no two heap pages, no two page tables, and no page and page table
\* share a frame, at any point of the loop.
FramesSound ==
  /\ \A p \in DOMAIN mapped :
       /\ InUsable(mapped[p])
       /\ mapped[p] # frame
       /\ \A q \in DOMAIN mapped : p # q => mapped[p] # mapped[q]
       /\ \A t \in DOMAIN tables : mapped[p] # tables[t]
  /\ \A t \in DOMAIN tables :
       /\ InUsable(tables[t])
       /\ tables[t] # frame
       /\ \A u \in DOMAIN tables : t # u => tables[t] # tables[u]

\* When the allocator is given HEAP_START and HEAP_SIZE, every byte of that range
\* lies on a mapped page with all the tables that lead to it.
HeapBacked ==
  at = "ready" =>
    \A a \in HEAP_START .. HEAP_START + HEAP_SIZE - 1 :
      /\ a \div PageSize \in DOMAIN mapped
      /\ \A l \in 1 .. 3 : Table(l, a \div PageSize) \in DOMAIN tables

=============================================================================
