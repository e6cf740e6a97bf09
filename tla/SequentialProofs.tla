-------------------------- MODULE SequentialProofs --------------------------
(***************************************************************************)
(* Proofs about the components that run one call after the other, without  *)
(* interrupts: what kernel_main initialises (Memory, Pci and Boot) and the *)
(* file calls (FdTable).  They share no state.                             *)
(*                                                                         *)
(* The allocator hands out no frame twice, and the heap is backed, for     *)
(* every page size, table size, heap and memory map of whole pages;        *)
(* enumerate finds every function that is plugged in, once, for every      *)
(* machine; and what is proved of the parts holds of the boot sequence     *)
(* made of them, Spec.  The offsets of open files stay inside the files,   *)
(* and the table with its holes is a map from descriptors to files, for    *)
(* every length of the table, every content and every argument of FdSpec.  *)
(***************************************************************************)
EXTENDS Boot, FdTable, TLAPS

-----------------------------------------------------------------------------
(* Memory: arithmetic first.                                                *)

\* Multiples are ordered as their factors.
LEMMA TimesMonotone ==
  ASSUME NEW a \in Int, NEW b \in Int, NEW p \in Nat \ {0}, a < b
  PROVE  a * p + p <= b * p
  <1>1. b - a - 1 \in Nat
    OBVIOUS
  <1>2. (b - a - 1) * p >= 0
    BY <1>1
  <1>3. (b - a - 1) * p = b * p - a * p - p
    OBVIOUS
  <1> QED  BY <1>2, <1>3

\* Equal multiples have equal factors.
LEMMA TimesInjective ==
  ASSUME NEW a \in Int, NEW b \in Int, NEW p \in Nat \ {0}, a * p = b * p
  PROVE  a = b
  <1>1. CASE a < b
    BY <1>1, TimesMonotone
  <1>2. CASE b < a
    BY <1>2, TimesMonotone
  <1> QED  BY <1>1, <1>2

\* The factors of ordered multiples are ordered.
LEMMA TimesReflectsLess ==
  ASSUME NEW a \in Int, NEW b \in Int, NEW p \in Nat \ {0}, a * p < b * p
  PROVE  a < b
  <1>1. CASE b < a
    BY <1>1, TimesMonotone
  <1> QED  BY <1>1

\* A multiple of the page size is the start of its page.
LEMMA ContainingMultiple ==
  ASSUME NEW t \in Nat
  PROVE  Containing(t * PageSize) = t * PageSize
  <1> DEFINE a == t * PageSize
             q == a \div PageSize
             r == a % PageSize
  <1>0. PageSize \in Nat \ {0}
    BY MemoryAssumption
  <1>1. a \in Nat
    BY <1>0
  <1>2. q \in Int /\ r \in 0 .. PageSize - 1 /\ a = q * PageSize + r
    BY <1>0, <1>1
  <1>3. CASE t < q
    <2>1. t * PageSize + PageSize <= q * PageSize
      BY <1>0, <1>2, <1>3, TimesMonotone
    <2> QED  BY <1>0, <1>2, <2>1
  <1>4. CASE q < t
    <2>1. q * PageSize + PageSize <= t * PageSize
      BY <1>0, <1>2, <1>4, TimesMonotone
    <2> QED  BY <1>0, <1>2, <2>1
  <1>5. CASE t = q
    BY <1>0, <1>1, <1>2, <1>5 DEF Containing
  <1> QED  BY <1>2, <1>3, <1>4, <1>5

\* Quotients by the page size are ordered as the addresses.
LEMMA DivMonotone ==
  ASSUME NEW a \in Nat, NEW b \in Nat, a <= b, NEW p \in Nat \ {0}
  PROVE  a \div p <= b \div p
  <1> DEFINE x == a \div p
             y == b \div p
  <1>1. x \in Int /\ a % p \in 0 .. p - 1 /\ a = x * p + (a % p)
    OBVIOUS
  <1>2. y \in Int /\ b % p \in 0 .. p - 1 /\ b = y * p + (b % p)
    OBVIOUS
  <1>3. CASE y < x
    <2>1. y * p + p <= x * p
      BY <1>1, <1>2, <1>3, TimesMonotone
    <2> QED  BY <1>1, <1>2, <2>1
  <1> QED  BY <1>1, <1>2, <1>3

-----------------------------------------------------------------------------
(* The frame iterator.                                                      *)

\* What a region of a map is made of.
LEMMA RegionBounds ==
  ASSUME NEW map \in MemoryMaps, NEW i \in DOMAIN map
  PROVE  \E s \in Nat, e \in Nat : /\ map[i].start = s * PageSize
                                   /\ map[i].end = e * PageSize
  <1>1. map[i] \in [start : Nat, end : Nat, kind : {"Usable", "Bootloader"}]
    BY MapsAligned
  <1>2. Aligned(map[i].start) /\ Aligned(map[i].end)
    BY MapsAligned
  <1> QED  BY <1>1, <1>2 DEF Aligned

\* An item of a region is a whole page of it.
LEMMA ItemIsPage ==
  ASSUME NEW map \in MemoryMaps, NEW n \in Nat, NEW i \in DOMAIN map, IsItemOf(map, n, i)
  PROVE  /\ ItemAddr(map, n, i) \in Nat
         /\ Containing(ItemAddr(map, n, i)) = ItemAddr(map, n, i)
         /\ map[i].kind = "Usable"
         /\ map[i].start \in Nat /\ map[i].end \in Nat
         /\ map[i].start <= ItemAddr(map, n, i)
         /\ ItemAddr(map, n, i) + PageSize <= map[i].end
  <1> DEFINE b == Before(map)[i]
  <1>0. PageSize \in Nat \ {0}
    BY MemoryAssumption
  <1>1. b \in 0 .. n /\ map[i].kind = "Usable" /\ ItemAddr(map, n, i) < map[i].end
    BY DEF IsItemOf
  <1>2. PICK s \in Nat, e \in Nat : map[i].start = s * PageSize /\ map[i].end = e * PageSize
    BY RegionBounds
  <1>3. ItemAddr(map, n, i) = s * PageSize + (n - b) * PageSize
    BY <1>2 DEF ItemAddr
  <1> HIDE DEF b
  <1>4. n - b \in Nat
    BY <1>1
  <1>5. s * PageSize + (n - b) * PageSize = (s + (n - b)) * PageSize
    BY <1>0, <1>4
  <1>6. s + (n - b) \in Nat
    BY <1>4
  <1>7. Containing(ItemAddr(map, n, i)) = ItemAddr(map, n, i)
    BY <1>3, <1>5, <1>6, ContainingMultiple
  <1>8. s + (n - b) < e
    <2>1. (s + (n - b)) * PageSize < e * PageSize
      BY <1>1, <1>2, <1>3, <1>5
    <2> QED  BY <1>0, <1>6, <2>1, TimesReflectsLess
  <1>9. (s + (n - b)) * PageSize + PageSize <= e * PageSize
    BY <1>0, <1>6, <1>8, TimesMonotone
  <1>10. (n - b) * PageSize \in Nat /\ s * PageSize \in Nat /\ e * PageSize \in Nat
    BY <1>0, <1>4
  <1> QED  BY <1>0, <1>1, <1>2, <1>3, <1>5, <1>7, <1>9, <1>10

\* What nth returns is an item of some region.
LEMMA NthIsItem ==
  ASSUME NEW map \in MemoryMaps, NEW n \in Nat, Nth(map, n) # NoFrame
  PROVE  \E i \in DOMAIN map : IsItemOf(map, n, i) /\ Nth(map, n) = ItemAddr(map, n, i)
  <1> DEFINE c == CHOOSE i \in DOMAIN map : IsItemOf(map, n, i)
  <1>1. \E i \in DOMAIN map : IsItemOf(map, n, i)
    BY DEF Nth
  <1>2. c \in DOMAIN map /\ IsItemOf(map, n, c)
    BY <1>1
  <1>3. Nth(map, n) = Containing(ItemAddr(map, n, c))
    BY <1>1 DEF Nth
  <1> HIDE DEF c
  <1>4. Containing(ItemAddr(map, n, c)) = ItemAddr(map, n, c)
    BY <1>2, ItemIsPage
  <1> QED  BY <1>2, <1>3, <1>4

\* usable_frames().nth(n) and nth(m) are different frames if n and m are different.
LEMMA NthInjective ==
  ASSUME NEW map \in MemoryMaps, NEW n \in Nat, NEW m \in Nat, n # m,
         Nth(map, n) # NoFrame, Nth(map, m) # NoFrame
  PROVE  Nth(map, n) # Nth(map, m)
  <1>0. PageSize \in Nat \ {0}
    BY MemoryAssumption
  <1>1. PICK i \in DOMAIN map : IsItemOf(map, n, i) /\ Nth(map, n) = ItemAddr(map, n, i)
    BY NthIsItem
  <1>2. PICK j \in DOMAIN map : IsItemOf(map, m, j) /\ Nth(map, m) = ItemAddr(map, m, j)
    BY NthIsItem
  <1>3. CASE i = j
    <2> DEFINE b == Before(map)[i]
    <2>1. b \in 0 .. n /\ b \in 0 .. m
      BY <1>1, <1>2, <1>3 DEF IsItemOf
    <2>2. map[i].start \in Nat
      BY <1>1, ItemIsPage
    <2>3. /\ ItemAddr(map, n, i) = map[i].start + (n - b) * PageSize
          /\ ItemAddr(map, m, j) = map[i].start + (m - b) * PageSize
      BY <1>3 DEF ItemAddr
    <2> HIDE DEF b
    <2>4. n - b \in Int /\ m - b \in Int /\ n - b # m - b
      BY <2>1
    <2>5. (n - b) * PageSize # (m - b) * PageSize
      BY <1>0, <2>4, TimesInjective
    <2>6. (n - b) * PageSize \in Int /\ (m - b) * PageSize \in Int
      BY <1>0, <2>4
    <2> QED  BY <1>1, <1>2, <2>2, <2>3, <2>5, <2>6
  <1>4. CASE i # j
    <2>1. Apart(map[i], map[j])
      BY <1>4, MapsAligned
    <2>2. /\ ItemAddr(map, n, i) \in Nat /\ map[i].end \in Nat /\ map[i].start \in Nat
          /\ map[i].start <= ItemAddr(map, n, i)
          /\ ItemAddr(map, n, i) + PageSize <= map[i].end
      BY <1>1, ItemIsPage
    <2>3. /\ ItemAddr(map, m, j) \in Nat /\ map[j].end \in Nat /\ map[j].start \in Nat
          /\ map[j].start <= ItemAddr(map, m, j)
          /\ ItemAddr(map, m, j) + PageSize <= map[j].end
      BY <1>2, ItemIsPage
    <2> QED  BY <1>0, <1>1, <1>2, <2>1, <2>2, <2>3 DEF Apart
  <1> QED  BY <1>3, <1>4

-----------------------------------------------------------------------------
(* The invariant.                                                           *)

\* f is one of the frames that allocate_frame has returned.
Drawn(f) == f # NoFrame /\ \E n \in 0 .. next - 1 : Nth(regions, n) = f

\* FramesSound needs to know where the frames come from, HeapBacked which pages are
\* behind the loop.
MemoryInv ==
  /\ regions \in MemoryMaps
  /\ next \in Nat
  /\ page \in Int
  /\ \A p \in DOMAIN mapped : Drawn(mapped[p])
  /\ \A t \in DOMAIN tables : Drawn(tables[t])
  /\ frame # NoFrame => Drawn(frame)
  /\ at \in {"start", "page"} => frame = NoFrame
  /\ at = "tables" => frame # NoFrame
  /\ FramesSound
  /\ at = "ready" => page > LastPage
  /\ \A q \in FirstPage .. page - 1 :
       q \in DOMAIN mapped /\ \A l \in 1 .. 3 : Table(l, q) \in DOMAIN tables

\* The pages of the heap have numbers.
LEMMA PagesAreInts == FirstPage \in Int /\ LastPage \in Int
  BY MemoryAssumption DEF FirstPage, LastPage

\* A frame that was drawn lies in a usable region.
LEMMA DrawnInUsable ==
  ASSUME MemoryInv, NEW f, Drawn(f)
  PROVE  InUsable(f)
  <1>1. PICK n \in 0 .. next - 1 : Nth(regions, n) = f
    BY DEF Drawn
  <1>2. n \in Nat /\ regions \in MemoryMaps
    BY DEF MemoryInv
  <1>3. PICK i \in DOMAIN regions : IsItemOf(regions, n, i) /\ f = ItemAddr(regions, n, i)
    BY <1>1, <1>2, NthIsItem DEF Drawn
  <1> QED  BY <1>2, <1>3, ItemIsPage, ZenonT(40) DEF InUsable

\* The frame that is drawn now was not drawn before.
LEMMA DrawnIsOld ==
  ASSUME MemoryInv, NEW f, Drawn(f), Nth(regions, next) # NoFrame
  PROVE  f # Nth(regions, next)
  <1>1. PICK n \in 0 .. next - 1 : Nth(regions, n) = f
    BY DEF Drawn
  <1>2. n \in Nat /\ next \in Nat /\ n # next /\ regions \in MemoryMaps
    BY DEF MemoryInv
  <1> QED  BY <1>1, <1>2, NthInjective DEF Drawn

\* A frame stays drawn, and the one drawn now becomes so.
LEMMA DrawnAfter ==
  ASSUME MemoryInv, regions' = regions, Advance
  PROVE  /\ \A f : Drawn(f) => Drawn(f)'
         /\ \A f : f = Nth(regions, next) /\ f # NoFrame => Drawn(f)'
  <1>1. next' = next + 1 /\ next \in Nat
    BY DEF MemoryInv, Advance
  <1>2. next \in 0 .. next' - 1 /\ 0 .. next - 1 \subseteq 0 .. next' - 1
    BY <1>1
  <1>3. ASSUME NEW f, Drawn(f) PROVE Drawn(f)'
    BY <1>2, <1>3 DEF Drawn, NoFrame
  <1>4. ASSUME NEW f, f = Nth(regions, next), f # NoFrame PROVE Drawn(f)'
    BY <1>2, <1>4 DEF Drawn, NoFrame
  <1> QED  BY <1>3, <1>4

\* Nothing is drawn while the allocator stands still.
LEMMA DrawnStays ==
  ASSUME regions' = regions, next' = next
  PROVE  \A f : Drawn(f)' <=> Drawn(f)
  BY DEF Drawn

\* The regions stay what they are.
LEMMA UsableStays ==
  ASSUME regions' = regions
  PROVE  \A f : InUsable(f)' <=> InUsable(f)
  BY DEF InUsable

\* Memory starts in its invariant.
LEMMA InitInv == MemoryInit => MemoryInv
  <1> SUFFICES ASSUME MemoryInit PROVE MemoryInv
    OBVIOUS
  <1>1. DOMAIN mapped = {} /\ DOMAIN tables = {}
    BY DEF MemoryInit
  <1>2. FramesSound
    BY <1>1 DEF FramesSound
  <1>3. FirstPage .. page - 1 = {} /\ page \in Int
    BY PagesAreInts DEF MemoryInit
  <1> QED  BY <1>1, <1>2, <1>3 DEF MemoryInit, MemoryInv

\* init_heap begins to map the heap.
LEMMA StartInv == MemoryInv /\ Start => MemoryInv'
  <1> SUFFICES ASSUME MemoryInv, Start PROVE MemoryInv'
    OBVIOUS
  <1>1. FramesSound'
    BY UsableStays DEF MemoryInv, Start, FramesSound
  <1> QED  BY <1>1, DrawnStays DEF MemoryInv, Start, Table, LastPage, FirstPage

\* A frame is drawn for the page that is to be mapped.
LEMMA DrawFrameInv == MemoryInv /\ DrawFrame => MemoryInv'
  <1> SUFFICES ASSUME MemoryInv, DrawFrame PROVE MemoryInv'
    OBVIOUS
  <1>f. PICK f : f = Nth(regions, next)
    OBVIOUS
  <1>0. /\ regions' = regions /\ Advance /\ at = "page"
        /\ tables' = tables /\ mapped' = mapped /\ page' = page
        /\ \/ frame' = frame /\ at' = "panicked"
           \/ f # NoFrame /\ frame' = f /\ at' = "tables"
    BY <1>f DEF DrawFrame, Fails
  <1>1. next' \in Nat
    BY <1>0 DEF MemoryInv, Advance
  <1>2. /\ \A g : Drawn(g) => Drawn(g)'
        /\ f # NoFrame => Drawn(f)'
    BY <1>f, <1>0, DrawnAfter
  <1>3. \A g : Drawn(g) /\ f # NoFrame => g # f
    BY <1>f, DrawnIsOld
  <1>4. FramesSound'
    BY <1>0, <1>3, UsableStays DEF MemoryInv, FramesSound
  <1> QED  BY <1>0, <1>1, <1>2, <1>4 DEF MemoryInv, Table, LastPage, FirstPage

\* A frame is drawn for a page table.
LEMMA CreateTableInv ==
  ASSUME MemoryInv, NEW level \in 1 .. 3, CreateTable(level)
  PROVE  MemoryInv'
  <1>f. PICK f : f = Nth(regions, next)
    OBVIOUS
  <1>t. PICK t0 : t0 = Table(level, page)
    OBVIOUS
  <1>0. /\ regions' = regions /\ Advance /\ at = "tables"
        /\ mapped' = mapped /\ page' = page /\ frame' = frame
    BY DEF CreateTable, Fails
  <1>1. next' \in Nat
    BY <1>0 DEF MemoryInv, Advance
  <1>2. /\ \A g : Drawn(g) => Drawn(g)'
        /\ f # NoFrame => Drawn(f)'
    BY <1>f, <1>0, DrawnAfter
  <1>3. \A g : Drawn(g) /\ f # NoFrame => g # f
    BY <1>f, DrawnIsOld
  <1>4. CASE tables' = tables /\ at' = "panicked"
    <2>1. FramesSound'
      BY <1>0, <1>4, UsableStays DEF MemoryInv, FramesSound
    <2> QED  BY <1>0, <1>1, <1>2, <1>4, <2>1 DEF MemoryInv, Table, LastPage, FirstPage
  <1>5. CASE /\ f # NoFrame /\ at' = at
             /\ tables' = [t \in DOMAIN tables \cup {t0} |->
                             IF t \in DOMAIN tables THEN tables[t] ELSE f]
    <2>0. t0 \notin DOMAIN tables
      BY <1>t DEF CreateTable, MissingAt
    <2>1. /\ DOMAIN tables' = DOMAIN tables \cup {t0}
          /\ tables'[t0] = f
          /\ \A t \in DOMAIN tables : tables'[t] = tables[t]
      BY <1>5, <2>0
    <2>2. Drawn(f)' /\ InUsable(f)'
      <3>1. PICK i \in DOMAIN regions : IsItemOf(regions, next, i) /\ f = ItemAddr(regions, next, i)
        BY <1>f, <1>5, NthIsItem DEF MemoryInv
      <3>2. InUsable(f)
        BY <3>1, ItemIsPage DEF InUsable, MemoryInv
      <3> QED  BY <1>0, <1>2, <1>5, <3>2, UsableStays
    <2>3. FramesSound'
      <3>1. \A p \in DOMAIN mapped' :
              /\ InUsable(mapped[p])'
              /\ mapped'[p] # frame'
              /\ \A q \in DOMAIN mapped' : p # q => mapped'[p] # mapped'[q]
              /\ \A t \in DOMAIN tables' : mapped'[p] # tables'[t]
        BY <1>0, <1>3, <1>5, <2>1, UsableStays, SMTT(30) DEF MemoryInv, FramesSound
      <3>2. \A t \in DOMAIN tables' :
              /\ InUsable(tables[t])'
              /\ tables'[t] # frame'
              /\ \A u \in DOMAIN tables' : t # u => tables'[t] # tables'[u]
        BY <1>0, <1>3, <1>5, <2>1, <2>2, UsableStays DEF MemoryInv, FramesSound
      <3> QED  BY <3>1, <3>2 DEF FramesSound
    <2> QED  BY <1>0, <1>1, <1>2, <1>5, <2>1, <2>2, <2>3 DEF MemoryInv, Table, LastPage, FirstPage
  <1> QED  BY <1>f, <1>t, <1>4, <1>5 DEF CreateTable, Fails

\* A page is mapped to the frame drawn for it.
LEMMA MapPageInv == MemoryInv /\ MapPage => MemoryInv'
  <1> SUFFICES ASSUME MemoryInv, MapPage PROVE MemoryInv'
    OBVIOUS
  <1>0. /\ regions' = regions /\ next' = next /\ tables' = tables
        /\ at = "tables" /\ at' \in {"page", "ready"} /\ (at' = "ready" => page = LastPage)
        /\ frame # NoFrame /\ Drawn(frame)
        /\ frame' = NoFrame /\ page' = page + 1 /\ page \in Int
        /\ \A l \in 1 .. 3 : Table(l, page) \in DOMAIN tables
    BY DEF MapPage, MemoryInv
  <1>1. /\ DOMAIN mapped' = DOMAIN mapped \cup {page}
        /\ mapped'[page] = frame
        /\ \A p \in DOMAIN mapped : p # page => mapped'[p] = mapped[p]
    BY DEF MapPage
  <1>2. \A p \in DOMAIN mapped' : Drawn(mapped[p])'
    BY <1>0, <1>1, DrawnStays DEF MemoryInv
  <1>3. InUsable(frame)
    BY <1>0, DrawnInUsable
  <1>4. FramesSound'
    <2>1. \A p \in DOMAIN mapped' :
            /\ InUsable(mapped[p])'
            /\ mapped'[p] # frame'
            /\ \A q \in DOMAIN mapped' : p # q => mapped'[p] # mapped'[q]
            /\ \A t \in DOMAIN tables' : mapped'[p] # tables'[t]
      BY <1>0, <1>1, <1>3, UsableStays, SMTT(30) DEF MemoryInv, FramesSound, Drawn
    <2>2. \A t \in DOMAIN tables' :
            /\ InUsable(tables[t])'
            /\ tables'[t] # frame'
            /\ \A u \in DOMAIN tables' : t # u => tables'[t] # tables'[u]
      BY <1>0, UsableStays DEF MemoryInv, FramesSound, Drawn
    <2> QED  BY <2>1, <2>2, SMTT(30) DEF FramesSound
  <1>5. \A q \in FirstPage .. page' - 1 :
          q \in DOMAIN mapped' /\ \A l \in 1 .. 3 : Table(l, q) \in DOMAIN tables'
    <2>1. \A q \in FirstPage .. page' - 1 : q \in FirstPage .. page - 1 \/ q = page
      BY <1>0, PagesAreInts
    <2> QED  BY <1>0, <1>1, <2>1 DEF MemoryInv
  <1>6. at' = "ready" => page' > LastPage
    BY <1>0, PagesAreInts
  <1>7. \A t \in DOMAIN tables' : Drawn(tables[t])'
    BY <1>0, DrawnStays DEF MemoryInv
  <1>8. page' \in Int
    BY <1>0
  <1> QED  BY <1>0, <1>2, <1>4, <1>5, <1>6, <1>7, <1>8 DEF MemoryInv, Table, LastPage, FirstPage

\* The invariant holds of every behaviour of memory::init.
THEOREM MemoryInvariant == MemorySpec => []MemoryInv
  <1>1. MemoryInv /\ [MemoryNext]_mvars => MemoryInv'
    <2> SUFFICES ASSUME MemoryInv, [MemoryNext]_mvars PROVE MemoryInv'
      OBVIOUS
    <2>1. CASE \E level \in 1 .. 3 : CreateTable(level)
      BY <2>1, CreateTableInv
    <2>2. CASE UNCHANGED mvars
      <3>1. FramesSound'
        BY <2>2, UsableStays DEF mvars, MemoryInv, FramesSound
      <3> QED  BY <2>2, <3>1, DrawnStays DEF mvars, MemoryInv, Table, LastPage, FirstPage
    <2> QED  BY <2>1, <2>2, StartInv, DrawFrameInv, MapPageInv DEF MemoryNext
  <1> QED  BY <1>1, InitInv, PTL DEF MemorySpec

\* allocate_frame hands every frame out once and only usable memory: no two heap
\* pages or page tables share a frame, for every memory map of whole pages.
THEOREM FramesAreSound == MemorySpec => []FramesSound
  <1>1. MemoryInv => FramesSound
    BY DEF MemoryInv
  <1> QED  BY <1>1, MemoryInvariant, PTL

\* When init_heap is done, every byte of the heap lies on a mapped page, wherever the
\* heap starts and ends.
THEOREM HeapIsBacked == MemorySpec => []HeapBacked
  <1>1. MemoryInv => HeapBacked
    <2> SUFFICES ASSUME MemoryInv, at = "ready",
                        NEW a \in HEAP_START .. HEAP_START + HEAP_SIZE - 1
                 PROVE  /\ a \div PageSize \in DOMAIN mapped
                        /\ \A l \in 1 .. 3 : Table(l, a \div PageSize) \in DOMAIN tables
      BY DEF HeapBacked
    <2>1. /\ PageSize \in Nat \ {0}
          /\ a \in Nat /\ HEAP_START \in Nat /\ HEAP_START + HEAP_SIZE - 1 \in Nat
          /\ HEAP_START <= a /\ a <= HEAP_START + HEAP_SIZE - 1
      BY MemoryAssumption
    <2>2. FirstPage <= a \div PageSize
      BY <2>1, DivMonotone DEF FirstPage
    <2>3. a \div PageSize <= LastPage
      BY <2>1, DivMonotone DEF LastPage
    <2>4. a \div PageSize \in Int
      BY <2>1
    <2>5. a \div PageSize \in FirstPage .. page - 1
      BY <2>2, <2>3, <2>4, PagesAreInts DEF MemoryInv
    <2> QED  BY <2>5 DEF MemoryInv
  <1> QED  BY <1>1, MemoryInvariant, PTL

-----------------------------------------------------------------------------
(* Pci.                                                                     *)

\* The four fields of the address word do not overlap: the bridge selects the
\* function that config_read32 was asked for.
LEMMA AddressSelects ==
  ASSUME NEW bus \in 0 .. 255, NEW device \in 0 .. 31, NEW function \in 0 .. 7,
         NEW reg \in {0, 8, 12}
  PROVE  Selected(Address(bus, device, function, reg)) = <<bus, device, function>>
  <1> DEFINE word == bus * 65536 + device * 2048 + function * 256 + reg
  <1>1. Address(bus, device, function, reg) = word
    BY DEF Address
  <1>2. word \div 65536 = bus
    OBVIOUS
  <1>3. (word \div 2048) % 32 = device
    <2>1. word \div 2048 = bus * 32 + device
      OBVIOUS
    <2> QED  BY <2>1
  <1>4. (word \div 256) % 8 = function
    <2>1. word \div 256 = bus * 256 + device * 8 + function
      OBVIOUS
    <2> QED  BY <2>1
  <1> QED  BY <1>1, <1>2, <1>3, <1>4 DEF Selected

\* The low byte of the word is the register.
LEMMA AddressRegister ==
  ASSUME NEW bus \in 0 .. 255, NEW device \in 0 .. 31, NEW function \in 0 .. 7,
         NEW reg \in {0, 8, 12}
  PROVE  SelectedRegister(Address(bus, device, function, reg)) = reg
  BY DEF Address, SelectedRegister

\* A triple is made of its components.
LEMMA AddressTriple ==
  ASSUME NEW a \in Addresses
  PROVE  /\ a = <<a[1], a[2], a[3]>>
         /\ a[1] \in 0 .. LastBus /\ a[2] \in 0 .. DeviceCount - 1 /\ a[3] \in 0 .. FunctionCount - 1
         /\ a[1] \in 0 .. 255 /\ a[2] \in 0 .. 31 /\ a[3] \in 0 .. 7
  BY PciAssumption, SMTT(30) DEF Addresses

\* A register is read from the function at a, or nobody answers.
LEMMA ReadsRegister ==
  ASSUME NEW a \in Addresses, NEW reg \in {0, 8, 12}
  PROVE  /\ a \notin DOMAIN machine =>
              ConfigRead32(a[1], a[2], a[3], reg) = << 255, 255, 255, 255 >>
         /\ a \in DOMAIN machine =>
              ConfigRead32(a[1], a[2], a[3], reg) = Register(machine[a], reg)
  <1>1. a[1] \in 0 .. 255 /\ a[2] \in 0 .. 31 /\ a[3] \in 0 .. 7
    BY AddressTriple, SMTT(30)
  <1>2. Selected(Address(a[1], a[2], a[3], reg)) = <<a[1], a[2], a[3]>>
    BY <1>1, AddressSelects, ZenonT(40)
  <1>3. SelectedRegister(Address(a[1], a[2], a[3], reg)) = reg
    BY <1>1, AddressRegister, ZenonT(40)
  <1>4. a = <<a[1], a[2], a[3]>>
    BY AddressTriple
  <1> QED  BY <1>2, <1>3, <1>4 DEF ConfigRead32

\* The values of a u16 are numbers.
LEMMA U16Nat == ASSUME NEW n \in u16 PROVE n \in Nat
  BY DEF u16

\* Two bytes make up the number they were taken from.
LEMMA TwoBytes ==
  ASSUME NEW n \in Nat
  PROVE  (n % 256) + 256 * (n \div 256) = n
  OBVIOUS

\* What the vector says of the function at a.
Entry(a) ==
  [address |-> a,
   vendor_id |-> machine[a].vendor_id, device_id |-> machine[a].device_id,
   revision |-> machine[a].revision, prog_if |-> machine[a].prog_if,
   subclass |-> machine[a].subclass, class |-> machine[a].class,
   header_type |-> machine[a].header_type]

\* Where nothing is plugged in, nothing answers.
LEMMA NobodyAnswers ==
  ASSUME NEW a \in Addresses, a \notin DOMAIN machine
  PROVE  ~DeviceExists(a)
  <1>1. ConfigRead32(a[1], a[2], a[3], 0) = << 255, 255, 255, 255 >>
    BY ReadsRegister
  <1> QED  BY <1>1 DEF DeviceExists, Word, NoVendor

\* What is plugged in answers, and probe takes its registers apart as the function
\* has put them together.
LEMMA Answers ==
  ASSUME machine \in Machines, NEW a \in DOMAIN machine
  PROVE  /\ a \in Addresses
         /\ machine[a] \in Cards
         /\ DeviceExists(a)
         /\ Probe(a) = Entry(a)
  <1>1. a \in Addresses /\ machine[a] \in Cards
    BY PciAssumption, ZenonT(40)
  <1>2. PICK card : card = machine[a]
    OBVIOUS
  <1>3. card.vendor_id \in Nat /\ card.vendor_id # NoVendor /\ card.device_id \in Nat
    <2>2. card.vendor_id \in u16 /\ card.vendor_id # NoVendor /\ card.device_id \in u16
      BY <1>1, <1>2 DEF Cards
    <2> QED  BY <2>2, U16Nat, Zenon
  <1>4. /\ ConfigRead32(a[1], a[2], a[3], 0) = Register(card, 0)
        /\ ConfigRead32(a[1], a[2], a[3], 8) = Register(card, 8)
        /\ ConfigRead32(a[1], a[2], a[3], 12) = Register(card, 12)
    BY <1>1, <1>2, ReadsRegister
  <1>5. Word(Register(card, 0), 0) = card.vendor_id
    <2>1. Word(Register(card, 0), 0) = (card.vendor_id % 256) + 256 * (card.vendor_id \div 256)
      BY DEF Word, Register
    <2> QED  BY <1>3, <2>1, TwoBytes
  <1>6. Word(Register(card, 0), 2) = card.device_id
    <2>1. Word(Register(card, 0), 2) = (card.device_id % 256) + 256 * (card.device_id \div 256)
      BY DEF Word, Register
    <2> QED  BY <1>3, <2>1, TwoBytes
  <1>7. /\ Byte(Register(card, 8), 0) = card.revision /\ Byte(Register(card, 8), 1) = card.prog_if
        /\ Byte(Register(card, 8), 2) = card.subclass /\ Byte(Register(card, 8), 3) = card.class
    BY DEF Byte, Register
  <1>8. Byte(Register(card, 12), 2) = card.header_type
    BY DEF Byte, Register
  <1>9. DeviceExists(a)
    BY <1>3, <1>4, <1>5 DEF DeviceExists
  <1>10. Probe(a) = Entry(a)
    BY <1>2, <1>4, <1>5, <1>6, <1>7, <1>8, Zenon DEF Probe, Entry
  <1> QED  BY <1>1, <1>9, <1>10

-----------------------------------------------------------------------------
(* The order of the loops.                                                  *)

\* enumerate goes on to the other functions of a device that has them.
LEMMA FunctionsFollow ==
  ASSUME machine \in Machines, NEW a \in DOMAIN machine, NEW c \in Addresses,
         a[1] = c[1], a[2] = c[2], c[3] < a[3]
  PROVE  MoreFunctions(c)
  <1>1. DOMAIN machine \subseteq Addresses
    BY PciAssumption
  <1>2. a[3] \in 0 .. FunctionCount - 1 /\ c[3] \in 0 .. FunctionCount - 1 /\ FunctionCount \in Int
    BY <1>1, AddressTriple, PciAssumption
  <1>3. c[3] + 1 < FunctionCount
    BY <1>2
  <1>4. CASE c[3] = 0
    <2>1. c = <<a[1], a[2], 0>>
      BY <1>4, AddressTriple
    <2>2. c \in DOMAIN machine /\ MultiFunction(machine[c].header_type)
      BY <1>2, <1>4, <2>1, PciAssumption
    <2>3. DeviceExists(c) /\ Probe(c) = Entry(c)
      BY <2>2, Answers, Zenon
    <2>4. Probe(c).header_type = machine[c].header_type
      BY <2>3 DEF Entry
    <2> QED  BY <1>3, <2>2, <2>3, <2>4 DEF MoreFunctions
  <1>5. CASE c[3] > 0
    BY <1>3, <1>5 DEF MoreFunctions
  <1> QED  BY <1>2, <1>4, <1>5

\* The address after c, in one of three places.
LEMMA AfterIs ==
  ASSUME NEW c \in Addresses, ~IsLast(c)
  PROVE  \/ MoreFunctions(c) /\ c[3] + 1 < FunctionCount /\ After(c) = <<c[1], c[2], c[3] + 1>>
         \/ ~MoreFunctions(c) /\ c[2] + 1 < DeviceCount /\ After(c) = <<c[1], c[2] + 1, 0>>
         \/ /\ ~MoreFunctions(c) /\ c[2] + 1 = DeviceCount /\ c[1] < LastBus
            /\ After(c) = <<c[1] + 1, 0, 0>>
  <1>1. /\ c[1] \in 0 .. LastBus /\ c[2] \in 0 .. DeviceCount - 1
        /\ LastBus \in Nat /\ DeviceCount \in Nat
    BY AddressTriple, PciAssumption
  <1>2. MoreFunctions(c) => c[3] + 1 < FunctionCount
    BY DEF MoreFunctions
  <1>3. ~MoreFunctions(c) /\ ~(c[2] + 1 < DeviceCount) => c[2] + 1 = DeviceCount /\ c[1] < LastBus
    BY <1>1 DEF IsLast
  <1> QED  BY <1>1, <1>2, <1>3 DEF After, NextBus

\* What comes after an address that is not the last is an address.
LEMMA AfterType ==
  ASSUME NEW c \in Addresses, ~IsLast(c)
  PROVE  After(c) \in Addresses
  <1>1. /\ c[1] \in 0 .. LastBus /\ c[2] \in 0 .. DeviceCount - 1 /\ c[3] \in 0 .. FunctionCount - 1
        /\ LastBus \in Nat /\ DeviceCount \in Nat /\ FunctionCount \in Nat
        /\ DeviceCount > 0 /\ FunctionCount > 0
    BY AddressTriple, PciAssumption
  <1> QED  BY <1>1, AfterIs DEF Addresses

\* One iteration passes c, and nothing else that is plugged in.
LEMMA AfterPassesOne ==
  ASSUME machine \in Machines, NEW a \in DOMAIN machine, NEW c \in Addresses, ~IsLast(c)
  PROVE  Precedes(a, After(c)) <=> (Precedes(a, c) \/ a = c)
  <1>1. DOMAIN machine \subseteq Addresses
    BY PciAssumption
  <1>2. /\ a = <<a[1], a[2], a[3]>> /\ c = <<c[1], c[2], c[3]>>
        /\ a[1] \in Nat /\ a[2] \in 0 .. DeviceCount - 1 /\ a[3] \in Nat
        /\ c[1] \in Nat /\ c[2] \in 0 .. DeviceCount - 1 /\ c[3] \in Nat
        /\ DeviceCount \in Int
    BY <1>1, AddressTriple, PciAssumption
  <1>3. a[1] = c[1] /\ a[2] = c[2] /\ c[3] < a[3] => MoreFunctions(c)
    BY FunctionsFollow
  <1>4. CASE MoreFunctions(c) /\ After(c) = <<c[1], c[2], c[3] + 1>>
    BY <1>2, <1>4 DEF Precedes
  <1>5. CASE ~MoreFunctions(c) /\ After(c) = <<c[1], c[2] + 1, 0>>
    BY <1>2, <1>3, <1>5 DEF Precedes
  <1>6. CASE ~MoreFunctions(c) /\ c[2] + 1 = DeviceCount /\ After(c) = <<c[1] + 1, 0, 0>>
    BY <1>2, <1>3, <1>6 DEF Precedes
  <1> QED  BY <1>4, <1>5, <1>6, AfterIs

\* The last iteration leaves nothing out.
LEMMA LastIsLast ==
  ASSUME machine \in Machines, NEW a \in DOMAIN machine, NEW c \in Addresses, IsLast(c)
  PROVE  Precedes(a, c) \/ a = c
  <1>1. DOMAIN machine \subseteq Addresses
    BY PciAssumption
  <1>2. /\ a = <<a[1], a[2], a[3]>> /\ c = <<c[1], c[2], c[3]>>
        /\ a[1] \in 0 .. LastBus /\ a[2] \in 0 .. DeviceCount - 1 /\ a[3] \in Nat
        /\ c[3] \in Nat /\ DeviceCount \in Int /\ LastBus \in Int
    BY <1>1, AddressTriple, PciAssumption
  <1>3. c[1] = LastBus /\ c[2] = DeviceCount - 1 /\ ~MoreFunctions(c)
    BY <1>2, AddressTriple, PciAssumption DEF IsLast
  <1>4. ~(a[1] = c[1] /\ a[2] = c[2] /\ c[3] < a[3])
    BY <1>3, FunctionsFollow
  <1> QED  BY <1>2, <1>3, <1>4 DEF Precedes

-----------------------------------------------------------------------------
(* The invariant.                                                           *)

Entries == {Entry(a) : a \in DOMAIN machine}

PciInv ==
  /\ machine \in Machines
  /\ cursor \in Addresses
  /\ devices \in Seq(Entries)
  /\ \A a \in DOMAIN machine : Passed(a) => \E i \in DOMAIN devices : devices[i].address = a
  /\ \A i \in DOMAIN devices : Passed(devices[i].address)
  /\ \A i, j \in DOMAIN devices : i < j => Precedes(devices[i].address, devices[j].address)

\* The entries of the vector are those of functions that are plugged in.
LEMMA PciInvFound == PciInv => DevicesFound
  <1> SUFFICES ASSUME PciInv PROVE DevicesFound
    OBVIOUS
  <1>1. ASSUME NEW i \in DOMAIN devices
        PROVE  /\ devices[i].address \in DOMAIN machine
               /\ \A field \in Fields : devices[i][field] = machine[devices[i].address][field]
    <2>1. devices[i] \in Entries
      BY <1>1 DEF PciInv
    <2>2. PICK a \in DOMAIN machine : devices[i] = Entry(a)
      BY <2>1 DEF Entries
    <2>3. devices[i].address = a
      BY <2>2 DEF Entry
    <2>4. \A field \in Fields : Entry(a)[field] = machine[a][field]
      BY DEF Entry, Fields
    <2> QED  BY <2>2, <2>3, <2>4, Zenon
  <1> QED  BY <1>1 DEF PciInv, DevicesFound

\* The enumeration starts in its invariant.
LEMMA PciInitInv == PciInit => PciInv
  <1> SUFFICES ASSUME PciInit PROVE PciInv
    OBVIOUS
  <1>1. cursor = <<0, 0, 0>> /\ devices = << >> /\ scanned = FALSE /\ machine \in Machines
    BY DEF PciInit
  <1>2. cursor \in Addresses /\ devices \in Seq(Entries)
    BY <1>1, PciAssumption DEF Addresses
  <1>3. cursor[1] = 0 /\ cursor[2] = 0 /\ cursor[3] = 0
    BY <1>1
  <1>4. ASSUME NEW a \in DOMAIN machine PROVE ~Passed(a)
    <2>1. a \in Addresses
      BY <1>1, Answers
    <2>2. a[1] \in 0 .. 255 /\ a[2] \in 0 .. 31 /\ a[3] \in 0 .. 7
      BY <2>1, AddressTriple
    <2>3. ~Precedes(a, cursor)
      BY <1>3, <2>2 DEF Precedes
    <2> QED  BY <1>1, <2>3, Zenon DEF Passed
  <1> QED  BY <1>1, <1>2, <1>4 DEF PciInv

\* One iteration is done with what it was done with before, and with the cursor.
LEMMA EnumeratePasses ==
  ASSUME PciInv, Enumerate
  PROVE  \A a \in DOMAIN machine : Passed(a)' <=> (Precedes(a, cursor) \/ a = cursor)
  <1> SUFFICES ASSUME NEW a \in DOMAIN machine
               PROVE  Passed(a)' <=> (Precedes(a, cursor) \/ a = cursor)
    OBVIOUS
  <1>1. machine \in Machines /\ cursor \in Addresses
    BY DEF PciInv
  <1>2. CASE IsLast(cursor)
    <2>1. scanned'
      BY <1>2 DEF Enumerate
    <2>2. Precedes(a, cursor) \/ a = cursor
      BY <1>1, <1>2, LastIsLast, Zenon
    <2> QED  BY <2>1, <2>2 DEF Passed
  <1>3. CASE ~IsLast(cursor)
    <2>1. ~scanned' /\ cursor' = After(cursor)
      BY <1>3 DEF Enumerate
    <2>2. Passed(a)' <=> Precedes(a, After(cursor))
      BY <2>1 DEF Passed, Precedes
    <2>3. Precedes(a, After(cursor)) <=> (Precedes(a, cursor) \/ a = cursor)
      BY <1>1, <1>3, AfterPassesOne, Zenon
    <2> QED  BY <2>2, <2>3
  <1> QED  BY <1>2, <1>3

\* Each address that is probed keeps it.
LEMMA EnumerateInv == PciInv /\ Enumerate => PciInv'
  <1> SUFFICES ASSUME PciInv, Enumerate PROVE PciInv'
    OBVIOUS
  <1>1. /\ machine \in Machines /\ machine' = machine /\ devices \in Seq(Entries)
        /\ cursor \in Addresses /\ ~scanned
    BY DEF PciInv, Enumerate
  <1>2. cursor' \in Addresses
    BY <1>1, AfterType DEF Enumerate
  <1>3. \A a \in DOMAIN machine : Passed(a)' <=> (Precedes(a, cursor) \/ a = cursor)
    BY EnumeratePasses
  <1>4. \A a \in DOMAIN machine : Passed(a) <=> Precedes(a, cursor)
    BY <1>1 DEF Passed
  <1>5. \A i \in DOMAIN devices : devices[i].address \in DOMAIN machine
    BY PciInvFound DEF DevicesFound
  <1>6. Entries' = Entries
    BY <1>1 DEF Entries, Entry
  <1>7. CASE ~DeviceExists(cursor)
    <2>1. devices' = devices
      BY <1>7 DEF Enumerate
    <2>2. cursor \notin DOMAIN machine
      BY <1>1, <1>7, Answers, Zenon
    <2>3. \A a \in DOMAIN machine : Passed(a)' <=> Passed(a)
      BY <1>3, <1>4, <2>2, Zenon
    <2>4. \A a \in DOMAIN machine' : Passed(a)' => \E i \in DOMAIN devices' : devices'[i].address = a
      BY <1>1, <2>1, <2>3, Zenon DEF PciInv
    <2>5. \A i \in DOMAIN devices' : Passed(devices[i].address)'
      BY <1>5, <2>1, <2>3, Zenon DEF PciInv
    <2> QED  BY <1>1, <1>2, <1>6, <2>1, <2>4, <2>5 DEF PciInv
  <1>8. CASE DeviceExists(cursor)
    <2>1. cursor \in DOMAIN machine
      BY <1>1, <1>8, NobodyAnswers, Zenon
    <2>2. PICK d : d = Probe(cursor)
      OBVIOUS
    <2>3. d = Entry(cursor)
      BY <1>1, <2>1, <2>2, Answers, Zenon
    <2>4. d.address = cursor /\ d \in Entries
      BY <2>1, <2>3 DEF Entry, Entries
    <2>5. devices' = Append(devices, d)
      BY <1>8, <2>2 DEF Enumerate
    <2>6. /\ devices' \in Seq(Entries)
          /\ DOMAIN devices' = DOMAIN devices \cup {Len(devices) + 1}
          /\ devices'[Len(devices) + 1] = d
          /\ \A i \in DOMAIN devices : /\ devices'[i] = devices[i]
                                       /\ i \in Int /\ i < Len(devices) + 1
          /\ Len(devices) \in Nat
      BY <1>1, <2>4, <2>5, SMTT(30)
    <2>7. ASSUME NEW a \in DOMAIN machine, Passed(a)'
          PROVE  \E i \in DOMAIN devices' : devices'[i].address = a
      BY <1>3, <1>4, <2>4, <2>6, <2>7 DEF PciInv
    <2>8. ASSUME NEW i \in DOMAIN devices'
          PROVE  Passed(devices[i].address)'
      BY <1>3, <1>4, <1>5, <2>1, <2>4, <2>6 DEF PciInv
    <2>9. \A i, j \in DOMAIN devices' :
            i < j => Precedes(devices'[i].address, devices'[j].address)
      BY <1>4, <1>5, <2>4, <2>6, SMTT(30) DEF PciInv
    <2> QED  BY <1>1, <1>2, <1>6, <2>6, <2>7, <2>8, <2>9 DEF PciInv
  <1> QED  BY <1>7, <1>8

\* enumerate finds every function that is plugged in among the addresses it is done
\* with, once, in order and with its own fields, for every machine.
THEOREM EnumerateFindsDevices == PciSpec => []DevicesFound
  <1>1. PciInv /\ [Enumerate]_pvars => PciInv'
    <2> SUFFICES ASSUME PciInv, [Enumerate]_pvars PROVE PciInv'
      OBVIOUS
    <2>1. CASE UNCHANGED pvars
      BY <2>1 DEF pvars, PciInv, Passed, Precedes, Entries, Entry
    <2> QED  BY <2>1, EnumerateInv, SMTT(30)
  <1> QED  BY <1>1, PciInvFound, PciInitInv, PTL DEF PciSpec

-----------------------------------------------------------------------------
(* The composition.                                                         *)

\* Boot, seen through the variables of one part, is that part.
LEMMA BootIsMemory == Spec => MemorySpec
  <1>1. Init => MemoryInit
    BY DEF Init
  <1>2. [Next]_bvars => [MemoryNext]_mvars
    BY DEF Next, bvars
  <1> QED  BY <1>1, <1>2, PTL DEF Spec, MemorySpec

\* A boot is an enumeration, seen from the bus.
LEMMA BootIsPci == Spec => PciSpec
  <1>1. Init => PciInit
    BY DEF Init
  <1>2. [Next]_bvars => [Enumerate]_pvars
    BY DEF Next, bvars
  <1> QED  BY <1>1, <1>2, PTL DEF Spec, PciSpec

\* All through boot, frames are handed out once, the heap is backed when it is used,
\* and the devices found are those that are there.
THEOREM BootIsSafe == Spec => [](FramesSound /\ HeapBacked /\ DevicesFound)
  BY BootIsMemory, BootIsPci, FramesAreSound, HeapIsBacked, EnumerateFindsDevices, PTL

-----------------------------------------------------------------------------
(* The file calls.                                                          *)

Slot == Files \cup {None}

FdInv == TypeOK /\ OffsetInContent

\* What the table is made of.
LEMMA SlotFacts ==
  ASSUME TypeOK
  PROVE  /\ Len(slots) \in Nat /\ Len(slots) <= MaxSlots
         /\ DOMAIN slots = 1 .. Len(slots)
         /\ \A i \in DOMAIN slots : slots[i] \in Slot
         /\ digits \in Nat
  BY FdTableAssumption DEF TypeOK, Slot

\* A function on 1..n with values that are slots is a table.
LEMMA IsTable ==
  ASSUME NEW n \in Nat, NEW f \in [1 .. n -> Slot]
  PROVE  f \in Seq(Slot) /\ Len(f) = n
  OBVIOUS

\* Files and the empty slot are told apart by their node.
LEMMA NoneIsNoFile == None \notin Files /\ None.node \notin PseudoNode
  BY DEF None, Files, PseudoNode, ReadOnly, Static, Devices

\* A slot that is not empty has a node and an offset.
LEMMA FileFields ==
  ASSUME NEW s \in Slot, s # None
  PROVE  s \in Files /\ s.node \in PseudoNode /\ s.offset \in 0 .. OffsetMax
         /\ s = [node |-> s.node, offset |-> s.offset]
  BY DEF Slot, Files

\* What read returns is at most the count it was given.
LEMMA BytesReadType ==
  ASSUME TypeOK, NEW f \in Files, NEW count \in Nat
  PROVE  BytesRead(f, count) \in 0 .. count
  <1>1. f.offset \in Nat /\ f.node \in PseudoNode
    BY FdTableAssumption DEF Files
  <1>2. ASSUME NEW node \in ReadOnly, NEW from \in Nat
        PROVE  ReadStatic(node, from, count) \in 0 .. count
    <2>1. Len1(node) \in Nat
      BY SlotFacts, FdTableAssumption DEF Len1, UptimeLen, ReadOnly
    <2> QED  BY <2>1 DEF ReadStatic, MinOf
  <1>3. CASE f.node \in ReadOnly
    BY <1>1, <1>2, <1>3 DEF BytesRead, ReadOnly, Static
  <1>4. CASE f.node \in {"DevZero", "DevFull"}
    BY <1>4 DEF BytesRead, ReadOnly, Static
  <1>5. CASE f.node \notin ReadOnly /\ f.node \notin {"DevZero", "DevFull"}
    BY <1>5 DEF BytesRead
  <1> QED  BY <1>3, <1>4, <1>5

\* The table starts in its invariant.
LEMMA InitFdInv == FdInit => FdInv
  <1> SUFFICES ASSUME FdInit PROVE FdInv
    OBVIOUS
  <1>1. slots = << >> /\ digits = 1 /\ call[1] = "none" /\ ret = 0 /\ panicked = FALSE
    BY DEF FdInit
  <1>2. TypeOK
    <2>1. slots \in Seq(Files \cup {None}) /\ Len(slots) <= MaxSlots
      BY <1>1, FdTableAssumption
    <2>2. digits \in 1 .. MaxDigits /\ ret \in Int
      BY <1>1, FdTableAssumption
    <2>3. panicked \in BOOLEAN /\ call[1] \in Ops
      BY <1>1, Zenon DEF Ops
    <2> QED  BY <2>1, <2>2, <2>3 DEF TypeOK
  <1>3. OffsetInContent
    BY <1>1 DEF OffsetInContent
  <1> QED  BY <1>2, <1>3 DEF FdInv

\* A call that only answers.
LEMMA AnswerInv ==
  ASSUME FdInv, NEW c, c[1] \in Ops, NEW value \in Int, Answer(c, value)
  PROVE  FdInv'
  BY DEF FdInv, TypeOK, OffsetInContent, Answer, Returns

\* A call on a descriptor with no file keeps it.
LEMMA NoFileInv ==
  ASSUME FdInv, NEW c, c[1] \in Ops, NEW fd \in Fds, NoFile(c, fd)
  PROVE  FdInv'
  <1>1. CASE Answer(c, BadF)
    BY <1>1, AnswerInv DEF BadF
  <1>2. CASE panicked' = TRUE /\ UNCHANGED <<slots, digits, call, ret>>
    BY <1>2 DEF FdInv, TypeOK, OffsetInContent
  <1> QED  BY <1>1, <1>2, ZenonT(40) DEF NoFile

\* The table after slot i has become s.
LEMMA SetSlot ==
  ASSUME FdInv, NEW i \in 1 .. MaxSlots, i <= Len(slots) + 1, NEW s \in Slot,
         slots' = [j \in DOMAIN slots \cup {i} |-> IF j = i THEN s ELSE slots[j]],
         s.node \in Static => s.offset <= ContentLen[s.node],
         NEW c, c[1] \in Ops, NEW value \in Int, Returns(c, value)
  PROVE  /\ FdInv'
         /\ DOMAIN slots' = DOMAIN slots \cup {i}
         /\ slots'[i] = s
         /\ \A j \in DOMAIN slots : j # i => slots'[j] = slots[j]
  <1>1. /\ Len(slots) \in Nat /\ Len(slots) <= MaxSlots /\ DOMAIN slots = 1 .. Len(slots)
        /\ \A j \in DOMAIN slots : slots[j] \in Slot
        /\ MaxSlots \in Nat
    BY SlotFacts, FdTableAssumption DEF FdInv
  <1>2. PICK n \in Nat : n <= MaxSlots /\ DOMAIN slots \cup {i} = 1 .. n
    <2>1. CASE i <= Len(slots)
      BY <1>1, <2>1
    <2>2. CASE i = Len(slots) + 1
      <3>1. DOMAIN slots \cup {i} = 1 .. Len(slots) + 1
        BY <1>1, <2>2
      <3>2. Len(slots) + 1 \in Nat /\ Len(slots) + 1 <= MaxSlots
        BY <1>1, <2>2
      <3> QED  BY <3>1, <3>2
    <2> QED  BY <1>1, <2>1, <2>2
  <1>3. slots' \in [1 .. n -> Slot]
    BY <1>1, <1>2
  <1>4. slots' \in Seq(Slot) /\ Len(slots') = n
    BY <1>3, IsTable, ZenonT(40)
  <1>5. /\ DOMAIN slots' = DOMAIN slots \cup {i}
        /\ slots'[i] = s
        /\ \A j \in DOMAIN slots : j # i => slots'[j] = slots[j]
    OBVIOUS
  <1>6. TypeOK'
    BY <1>2, <1>4, ZenonT(40) DEF TypeOK, FdInv, Slot, Returns
  <1>7. OffsetInContent'
    BY <1>5 DEF OffsetInContent, FdInv
  <1> QED  BY <1>5, <1>6, <1>7 DEF FdInv

\* sys_open: an answer, or a new file in the first free slot.
LEMMA OpenCases ==
  ASSUME NEW node \in PseudoNode, NEW access, Open(node, access)
  PROVE  \/ Answer(<<"open", node>>, Acces)
         \/ \E i \in 1 .. MaxSlots :
              /\ FirstFree(i)
              /\ slots' = [j \in DOMAIN slots \cup {i} |->
                             IF j = i THEN [node |-> node, offset |-> 0] ELSE slots[j]]
              /\ Returns(<<"open", node>>, (i - 1) + 3)
  BY SMTT(30) DEF Open

\* sys_open keeps it.
LEMMA OpenInv ==
  ASSUME FdInv, NEW node \in PseudoNode, NEW access, Open(node, access)
  PROVE  FdInv'
  <1>0. PICK c : c = <<"open", node>>
    BY ZenonT(40)
  <1>1. c[1] \in Ops
    BY <1>0 DEF Ops
  <1>2. CASE Answer(c, Acces)
    BY <1>1, <1>2, AnswerInv DEF Acces
  <1>3. ASSUME NEW i \in 1 .. MaxSlots, FirstFree(i),
               slots' = [j \in DOMAIN slots \cup {i} |->
                           IF j = i THEN [node |-> node, offset |-> 0] ELSE slots[j]],
               Returns(c, (i - 1) + 3)
        PROVE  FdInv'
    <2> DEFINE s == [node |-> node, offset |-> 0]
    <2>1. s \in Slot /\ s.offset = 0 /\ s.node = node
      BY FdTableAssumption DEF Slot, Files
    <2>2. s.node \in Static => s.offset <= ContentLen[s.node]
      BY <2>1, FdTableAssumption, SMTT(30)
    <2>3. i <= Len(slots) + 1
      BY <1>3, SlotFacts, SMTT(30) DEF FirstFree, FdInv
    <2>4. PICK value \in Int : value = (i - 1) + 3
      BY SMTT(30)
    <2> HIDE DEF s
    <2>5. slots' = [j \in DOMAIN slots \cup {i} |-> IF j = i THEN s ELSE slots[j]]
      BY <1>3 DEF s
    <2> QED  BY <1>1, <1>3, <2>1, <2>2, <2>3, <2>4, <2>5, SetSlot, ZenonT(40)
  <1> QED  BY <1>0, <1>2, <1>3, OpenCases, ZenonT(40)

\* An update of an open slot, as SetSlot has it.
LEMMA UpdateIsSet ==
  ASSUME NEW i \in DOMAIN slots, NEW s
  PROVE  [slots EXCEPT ![i] = s] = [j \in DOMAIN slots \cup {i} |-> IF j = i THEN s ELSE slots[j]]
  <1>1. DOMAIN slots \cup {i} = DOMAIN slots
    OBVIOUS
  <1> QED  BY <1>1

\* The slot of an open descriptor.
LEMMA OpenSlot ==
  ASSUME FdInv, NEW fd \in Fds, IsOpen(fd)
  PROVE  \E i \in 1 .. MaxSlots : /\ i = fd - 2 /\ i \in DOMAIN slots /\ i <= Len(slots) + 1
                                  /\ slots[i] \in Files
  <1>1. /\ fd - 2 \in DOMAIN slots /\ fd - 2 \in 1 .. MaxSlots /\ fd - 2 <= Len(slots) + 1
    BY SlotFacts, FdTableAssumption DEF IsOpen, FdInv
  <1>2. slots[fd - 2] \in Files
    BY <1>1, SlotFacts, FileFields DEF IsOpen, FdInv
  <1> QED  BY <1>1, <1>2

\* sys_close keeps it.
LEMMA CloseInv ==
  ASSUME FdInv, NEW fd \in Fds, Close(fd)
  PROVE  FdInv'
  <1>0. PICK c : c = <<"close", fd>>
    BY ZenonT(40)
  <1>1. c[1] \in Ops
    BY <1>0 DEF Ops
  <1>2. CASE Answer(c, 0) \/ Answer(c, BadF)
    BY <1>1, <1>2, AnswerInv DEF BadF
  <1>3. CASE IsOpen(fd) /\ slots' = [slots EXCEPT ![fd - 2] = None] /\ Returns(c, 0)
    <2>1. PICK i \in 1 .. MaxSlots : i = fd - 2 /\ i \in DOMAIN slots /\ i <= Len(slots) + 1
      BY <1>3, OpenSlot
    <2>2. None \in Slot /\ None.node \notin Static
      BY DEF Slot, None, Static
    <2>3. slots' = [j \in DOMAIN slots \cup {i} |-> IF j = i THEN None ELSE slots[j]]
      BY <1>3, <2>1, UpdateIsSet, ZenonT(40)
    <2>4. PICK value \in Int : value = 0
      BY SMTT(30)
    <2> QED  BY <1>1, <1>3, <2>1, <2>2, <2>3, <2>4, SetSlot, ZenonT(40)
  <1> QED  BY <1>0, <1>2, <1>3 DEF Close

\* What read does to an open file: the offset moves by what it returns, stops at
\* OffsetMax and stays inside the content.
LEMMA ReadMoves ==
  ASSUME FdInv, NEW f \in Files, NEW count \in Nat,
         f.node \in Static => f.offset <= ContentLen[f.node]
  PROVE  LET n == BytesRead(f, count)
             g == [node |-> f.node, offset |-> MinOf(f.offset + n, OffsetMax)]
         IN  /\ n \in 0 .. count /\ g \in Files
             /\ g.offset >= f.offset /\ g.offset <= f.offset + n
             /\ g.node \in Static => g.offset <= ContentLen[g.node]
  <1> DEFINE n == BytesRead(f, count)
             g == [node |-> f.node, offset |-> MinOf(f.offset + n, OffsetMax)]
  <1>1. n \in 0 .. count /\ n \in Nat
    BY BytesReadType DEF FdInv
  <1>2. f.offset \in 0 .. OffsetMax /\ f.node \in PseudoNode /\ OffsetMax \in Nat
    BY FdTableAssumption DEF Files
  <1>3. f.node \in Static => f.offset + n <= ContentLen[f.node]
    <2> SUFFICES ASSUME f.node \in Static PROVE f.offset + n <= ContentLen[f.node]
      OBVIOUS
    <2>1. n = ReadStatic(f.node, f.offset, count)
      BY DEF BytesRead, ReadOnly, Static
    <2>2. Len1(f.node) = ContentLen[f.node] /\ ContentLen[f.node] \in Nat
      BY FdTableAssumption DEF Len1, Static
    <2> QED  BY <1>2, <2>1, <2>2 DEF ReadStatic, MinOf
  <1> HIDE DEF n
  <1>4. /\ MinOf(f.offset + n, OffsetMax) \in 0 .. OffsetMax
        /\ MinOf(f.offset + n, OffsetMax) >= f.offset
        /\ MinOf(f.offset + n, OffsetMax) <= f.offset + n
    BY <1>1, <1>2 DEF MinOf
  <1>5. g \in Files /\ g.node = f.node /\ g.offset = MinOf(f.offset + n, OffsetMax)
    BY <1>2, <1>4, SMTT(30) DEF Files
  <1>6. g.node \in Static => g.offset <= ContentLen[g.node]
    BY <1>1, <1>2, <1>3, <1>4, <1>5, FdTableAssumption
  <1> QED  BY <1>1, <1>4, <1>5, <1>6 DEF n

\* sys_read: an answer, no open file, or a read of one.
LEMMA ReadCases ==
  ASSUME NEW fd, NEW count \in Nat, Read(fd, count), NEW c, c = <<"read", fd, count>>
  PROVE  \/ count = 0 /\ Answer(c, 0)
         \/ Answer(c, Fault)
         \/ NoFile(c, fd)
         \/ \E n : /\ IsOpen(fd)
                   /\ n = BytesRead(slots[fd - 2], count)
                   /\ slots' = [slots EXCEPT ![fd - 2].offset = MinOf(@ + n, OffsetMax)]
                   /\ Returns(c, n)
  BY DEF Read

\* What a read of an open file does: its offset moves by at most n, the count read.
ReadEffect(fd, count, n) ==
  \E i \in 1 .. MaxSlots, g \in Files :
    /\ i = fd - 2 /\ i \in DOMAIN slots /\ slots[i] \in Files
    /\ n \in 0 .. count
    /\ g.offset \in slots[i].offset .. slots[i].offset + n
    /\ g.node = slots[i].node
    /\ DOMAIN slots' = DOMAIN slots \cup {i}
    /\ slots'[i] = g
    /\ \A j \in DOMAIN slots : j # i => slots'[j] = slots[j]

\* The slot after a read.
LEMMA ReadSlot ==
  ASSUME FdInv, NEW fd \in Fds, NEW count \in Counts, IsOpen(fd),
         NEW n, n = BytesRead(slots[fd - 2], count),
         slots' = [slots EXCEPT ![fd - 2].offset = MinOf(@ + n, OffsetMax)],
         NEW c, c[1] \in Ops, Returns(c, n)
  PROVE  ReadEffect(fd, count, n) /\ FdInv'
  <1>1. PICK i \in 1 .. MaxSlots : /\ i = fd - 2 /\ i \in DOMAIN slots /\ i <= Len(slots) + 1
                                   /\ slots[i] \in Files
    BY OpenSlot
  <1>2. PICK f \in Files : f = slots[i]
    BY <1>1
  <1>3. PICK g : g = [node |-> f.node, offset |-> MinOf(f.offset + n, OffsetMax)]
    BY ZenonT(40)
  <1>4. count \in Nat /\ (f.node \in Static => f.offset <= ContentLen[f.node])
    BY <1>1, <1>2, FdTableAssumption DEF FdInv, OffsetInContent
  <1>5. n = BytesRead(f, count)
    BY <1>1, <1>2
  <1>6. /\ n \in 0 .. count /\ g \in Files
        /\ g.offset >= f.offset /\ g.offset <= f.offset + n
        /\ g.node \in Static => g.offset <= ContentLen[g.node]
    BY <1>3, <1>4, <1>5, ReadMoves
  <1>7. [f EXCEPT !.offset = MinOf(@ + n, OffsetMax)] = g
    BY <1>3 DEF Files
  <1>8. slots' = [slots EXCEPT ![i] = g]
    BY <1>1, <1>2, <1>7, ZenonT(40)
  <1>9. slots' = [j \in DOMAIN slots \cup {i} |-> IF j = i THEN g ELSE slots[j]]
    BY <1>1, <1>8, UpdateIsSet, ZenonT(60)
  <1>10. /\ FdInv'
         /\ DOMAIN slots' = DOMAIN slots \cup {i}
         /\ slots'[i] = g
         /\ \A j \in DOMAIN slots : j # i => slots'[j] = slots[j]
    <2>1. g \in Slot /\ n \in Int
      BY <1>4, <1>6 DEF Slot
    <2> QED  BY <1>1, <1>6, <1>9, <2>1, SetSlot, ZenonT(60)
  <1>11. g.offset \in f.offset .. f.offset + n /\ g.node = f.node
    BY <1>3, <1>4, <1>6, FdTableAssumption DEF Files
  <1> QED  BY <1>1, <1>2, <1>6, <1>10, <1>11, ZenonT(40) DEF ReadEffect

\* sys_read keeps it.
LEMMA ReadInv ==
  ASSUME FdInv, NEW fd \in Fds, NEW count \in Counts, Read(fd, count)
  PROVE  FdInv'
  <1>0. PICK c : c = <<"read", fd, count>>
    BY ZenonT(40)
  <1>1. c[1] \in Ops /\ count \in Nat
    BY <1>0, FdTableAssumption DEF Ops
  <1>2. CASE Answer(c, 0) \/ Answer(c, Fault)
    BY <1>1, <1>2, AnswerInv DEF Fault
  <1>3. CASE NoFile(c, fd)
    BY <1>1, <1>3, NoFileInv
  <1> QED  BY <1>0, <1>1, <1>2, <1>3, ReadCases, ReadSlot, ZenonT(40)

\* sys_write: an answer, or no open file.
LEMMA WriteCases ==
  ASSUME NEW fd, NEW count, Write(fd, count), NEW c, c = <<"write", fd, count>>
  PROVE  \/ NoFile(c, fd)
         \/ Answer(c, Fault) \/ Answer(c, NoSpc) \/ Answer(c, Perm)
         \/ Answer(c, count) /\ (count = 0 \/ fd \in {1, 2} \/ IsOpen(fd))
  BY DEF Write

\* sys_write keeps it.
LEMMA WriteInv ==
  ASSUME FdInv, NEW fd \in Fds, NEW count \in Counts, Write(fd, count)
  PROVE  FdInv'
  <1>0. PICK c : c = <<"write", fd, count>>
    BY ZenonT(40)
  <1>1. c[1] \in Ops
    BY <1>0 DEF Ops
  <1>2. CASE NoFile(c, fd)
    BY <1>1, <1>2, NoFileInv
  <1>3. CASE \E v \in {Fault, count, NoSpc, Perm} : Answer(c, v)
    <2>1. {Fault, count, NoSpc, Perm} \subseteq Int
      BY FdTableAssumption DEF Fault, NoSpc, Perm
    <2> QED  BY <1>1, <1>3, <2>1, AnswerInv
  <1> QED  BY <1>0, <1>2, <1>3, WriteCases

\* Every step keeps it.
LEMMA NextFdInv == FdInv /\ [FdNext]_fvars => FdInv'
  <1> SUFFICES ASSUME FdInv, [FdNext]_fvars PROVE FdInv'
    OBVIOUS
  <1>1. CASE Uptime
    <2>1. digits' \in 1 .. MaxDigits
      BY <1>1, FdTableAssumption DEF Uptime, FdInv, TypeOK
    <2> QED  BY <1>1, <2>1 DEF Uptime, FdInv, TypeOK, OffsetInContent
  <1>2. CASE \E node \in PseudoNode, access \in 0 .. 3 : Open(node, access)
    BY <1>2, OpenInv
  <1>3. CASE OpenFails
    <2>0. PICK c : c = <<"open", "None">>
      BY ZenonT(40)
    <2>1. PICK e \in {NoEnt, Fault} : Answer(c, e)
      BY <1>3, <2>0 DEF OpenFails
    <2>2. c[1] \in Ops /\ e \in Int
      BY <2>0, <2>1 DEF Ops, NoEnt, Fault
    <2> QED  BY <2>1, <2>2, AnswerInv
  <1>4. CASE \E fd \in Fds : Close(fd)
    BY <1>4, CloseInv
  <1>5. CASE \E fd \in Fds, count \in Counts : Read(fd, count) \/ Write(fd, count)
    BY <1>5, ReadInv, WriteInv
  <1>6. CASE UNCHANGED fvars
    BY <1>6 DEF fvars, FdInv, TypeOK, OffsetInContent
  <1> QED  BY <1>1, <1>2, <1>3, <1>4, <1>5, <1>6, SMTT(30) DEF FdNext, Call

\* What every call of syscall/mod.rs on FD_TABLE keeps: the invariant behind the two
\* theorems below.
THEOREM FdInvariant == FdSpec => []FdInv
  BY InitFdInv, NextFdInv, PTL DEF FdSpec

\* Whatever is opened, closed and read, the table is well formed and the offset of a
\* file of constant content stays inside it, so that read's slice is in bounds.
THEOREM OffsetsStayInside == FdSpec => [](TypeOK /\ OffsetInContent)
  BY FdInvariant, PTL DEF FdInv

-----------------------------------------------------------------------------
(* The refinement.                                                          *)

\* The map from descriptors to files that a table stands for.
FmOf(s) == [fd \in {i + 2 : i \in {j \in DOMAIN s : s[j] # None}} |-> s[fd - 2]]

\* The map a table stands for: a descriptor for each slot in use.
LEMMA FmFacts ==
  ASSUME NEW s \in Seq(Slot)
  PROVE  /\ DOMAIN FmOf(s) \subseteq Int
         /\ \A fd \in Int : fd \in DOMAIN FmOf(s) <=> (fd - 2 \in DOMAIN s /\ s[fd - 2] # None)
         /\ \A fd \in DOMAIN FmOf(s) : FmOf(s)[fd] = s[fd - 2]
         /\ FmOf(s) = [fd \in DOMAIN FmOf(s) |-> s[fd - 2]]
  <1>1. DOMAIN s = 1 .. Len(s) /\ Len(s) \in Nat
    OBVIOUS
  <1>2. DOMAIN FmOf(s) = {i + 2 : i \in {j \in DOMAIN s : s[j] # None}}
    BY DEF FmOf
  <1>3. \A fd \in DOMAIN FmOf(s) : FmOf(s)[fd] = s[fd - 2]
    BY DEF FmOf
  <1>4. FmOf(s) = [fd \in DOMAIN FmOf(s) |-> s[fd - 2]]
    BY <1>2 DEF FmOf
  <1>5. \A fd \in Int : fd \in DOMAIN FmOf(s) <=> (fd - 2 \in DOMAIN s /\ s[fd - 2] # None)
    BY <1>1, <1>2
  <1> QED  BY <1>1, <1>2, <1>3, <1>4, <1>5

\* A map with f at k, and without k.
With(m, k, f) == [fd \in DOMAIN m \cup {k} |-> IF fd = k THEN f ELSE m[fd]]
Without(m, k) == [fd \in DOMAIN m \ {k} |-> m[fd]]

\* What the map becomes when slot i becomes a file.
LEMMA FmSet ==
  ASSUME NEW s \in Seq(Slot), NEW t \in Seq(Slot), NEW i \in Int, NEW f, f # None,
         DOMAIN t = DOMAIN s \cup {i}, t[i] = f,
         \A j \in DOMAIN s : j # i => t[j] = s[j]
  PROVE  FmOf(t) = With(FmOf(s), i + 2, f)
  <1>1. ASSUME NEW fd \in Int PROVE fd \in DOMAIN FmOf(t) <=> (fd \in DOMAIN FmOf(s) \/ fd = i + 2)
    <2>1. CASE fd = i + 2
      <3>1. fd - 2 = i
        BY <2>1
      <3> QED  BY <2>1, <3>1, FmFacts
    <2>2. CASE fd # i + 2
      <3>1. fd - 2 # i
        BY <2>2
      <3>2. (fd - 2 \in DOMAIN t /\ t[fd - 2] # None) <=> (fd - 2 \in DOMAIN s /\ s[fd - 2] # None)
        BY <3>1
      <3>3. fd \in DOMAIN FmOf(t) <=> fd \in DOMAIN FmOf(s)
        BY <3>2, FmFacts
      <3> QED  BY <2>2, <3>3
    <2> QED  BY <2>1, <2>2
  <1>2. DOMAIN FmOf(t) \subseteq Int /\ DOMAIN FmOf(s) \subseteq Int
    BY FmFacts
  <1>3. DOMAIN FmOf(t) = DOMAIN FmOf(s) \cup {i + 2}
    <2>1. i + 2 \in Int
      BY SMTT(30)
    <2> QED  BY <1>1, <1>2, <2>1, ZenonT(40)
  <1>4. ASSUME NEW fd \in DOMAIN FmOf(t)
        PROVE  t[fd - 2] = IF fd = i + 2 THEN f ELSE FmOf(s)[fd]
    <2>1. CASE fd = i + 2
      <3>1. fd - 2 = i
        BY <2>1
      <3> QED  BY <2>1, <3>1
    <2>2. CASE fd # i + 2
      <3>1. fd \in DOMAIN FmOf(s) /\ fd \in Int
        BY <1>2, <1>3, <2>2
      <3>2. fd - 2 \in DOMAIN s /\ fd - 2 # i
        BY <2>2, <3>1, FmFacts
      <3>3. FmOf(s)[fd] = s[fd - 2]
        BY <3>1, FmFacts
      <3> QED  BY <2>2, <3>2, <3>3
    <2> QED  BY <2>1, <2>2
  <1>5. FmOf(t) = [fd \in DOMAIN FmOf(t) |-> t[fd - 2]]
    BY FmFacts
  <1> QED  BY <1>3, <1>4, <1>5 DEF With

\* What the map becomes when slot i is emptied.
LEMMA FmClear ==
  ASSUME NEW s \in Seq(Slot), NEW t \in Seq(Slot), NEW i \in DOMAIN s,
         DOMAIN t = DOMAIN s, t[i] = None,
         \A j \in DOMAIN s : j # i => t[j] = s[j]
  PROVE  FmOf(t) = Without(FmOf(s), i + 2)
  <1>0. i \in Int
    OBVIOUS
  <1>1. ASSUME NEW fd \in Int PROVE fd \in DOMAIN FmOf(t) <=> (fd \in DOMAIN FmOf(s) /\ fd # i + 2)
    <2>1. CASE fd = i + 2
      <3>1. fd - 2 = i
        BY <1>0, <2>1
      <3> QED  BY <2>1, <3>1, FmFacts
    <2>2. CASE fd # i + 2
      <3>1. fd - 2 # i
        BY <1>0, <2>2
      <3>2. (fd - 2 \in DOMAIN t /\ t[fd - 2] # None) <=> (fd - 2 \in DOMAIN s /\ s[fd - 2] # None)
        BY <3>1
      <3>3. fd \in DOMAIN FmOf(t) <=> fd \in DOMAIN FmOf(s)
        BY <3>2, FmFacts
      <3> QED  BY <2>2, <3>3
    <2> QED  BY <2>1, <2>2
  <1>2. DOMAIN FmOf(t) \subseteq Int /\ DOMAIN FmOf(s) \subseteq Int
    BY FmFacts
  <1>3. DOMAIN FmOf(t) = DOMAIN FmOf(s) \ {i + 2}
    BY <1>1, <1>2, ZenonT(40)
  <1>4. ASSUME NEW fd \in DOMAIN FmOf(t)
        PROVE  t[fd - 2] = FmOf(s)[fd]
    <2>1. fd \in DOMAIN FmOf(s) /\ fd \in Int /\ fd # i + 2
      BY <1>2, <1>3
    <2>2. fd - 2 \in DOMAIN s /\ fd - 2 # i
      BY <1>0, <2>1, FmFacts
    <2>3. FmOf(s)[fd] = s[fd - 2]
      BY <2>1, FmFacts
    <2> QED  BY <2>2, <2>3
  <1>5. FmOf(t) = [fd \in DOMAIN FmOf(t) |-> t[fd - 2]]
    BY FmFacts
  <1> QED  BY <1>3, <1>4, <1>5 DEF Without

\* The table is a sequence of slots before and after a step.
LEMMA TablesAreSeqs ==
  ASSUME FdInv, FdInv'
  PROVE  slots \in Seq(Slot) /\ slots' \in Seq(Slot)
  BY DEF FdInv, TypeOK, Slot

\* The map's operators, with the table's map for its variable: a new file,
LEMMA MapOpen ==
  ASSUME NEW node \in {f.node : f \in Files}, call' = <<"open", node>>, ret' \in Nat,
         ret' \notin DOMAIN FmOf(slots), ret' >= 3,
         \A g \in 3 .. ret' - 1 : g \in DOMAIN FmOf(slots),
         FmOf(slots') = With(FmOf(slots), ret', [node |-> node, offset |-> 0])
  PROVE  Map!Open(node)
  BY ZenonT(40) DEF Map!Open, Map!Nodes, Map!OpenFds, Map!LowestFree, FmOf, With

\* ... or none,
LEMMA MapOpenFails ==
  ASSUME NEW node, call' = <<"open", node>>, ret' < 0, slots' = slots
  PROVE  Map!Open(node)
  BY ZenonT(40) DEF Map!Open

\* ... a descriptor that leaves the map,
LEMMA MapClose ==
  ASSUME NEW fd \in DOMAIN FmOf(slots), call' = <<"close", fd>>, ret' = 0,
         FmOf(slots') = Without(FmOf(slots), fd)
  PROVE  Map!Close(fd)
  BY SMTT(30) DEF Map!Close, Map!OpenFds, FmOf, Without

\* ... or was not in it,
LEMMA MapCloseFails ==
  ASSUME NEW fd, fd \notin DOMAIN FmOf(slots), call' = <<"close", fd>>,
         ret' = IF fd < 3 THEN 0 ELSE BadF, slots' = slots
  PROVE  Map!Close(fd)
  BY ZenonT(40) DEF Map!Close, Map!OpenFds, Map!BadFd, FmOf, BadF

\* ... an offset that advances by at most what was read,
LEMMA MapRead ==
  ASSUME NEW fd \in DOMAIN FmOf(slots), NEW count, call' = <<"read", fd, count>>,
         ret' \in 0 .. count,
         NEW to \in FmOf(slots)[fd].offset .. FmOf(slots)[fd].offset + ret',
         FmOf(slots') = [FmOf(slots) EXCEPT ![fd].offset = to]
  PROVE  Map!Read(fd, count)
  BY ZenonT(40) DEF Map!Read, Map!OpenFds, FmOf

\* ... or nothing read,
LEMMA MapReadFails ==
  ASSUME NEW fd, NEW count, call' = <<"read", fd, count>>,
         ret' < 0 \/ (count = 0 /\ ret' = 0), slots' = slots
  PROVE  Map!Read(fd, count)
  BY ZenonT(40) DEF Map!Read

\* ... and a write.
LEMMA MapWrite ==
  ASSUME NEW fd, NEW count, call' = <<"write", fd, count>>, slots' = slots,
         \/ ret' < 0
         \/ ret' = count /\ (~(count > 0) \/ fd \in DOMAIN FmOf(slots) \/ fd \in {1, 2})
  PROVE  Map!Write(fd, count)
  BY ZenonT(40) DEF Map!Write, Map!OpenFds, FmOf

\* sys_open answers the lowest descriptor that is free.
LEMMA OpenMaps ==
  ASSUME FdInv, FdInv', NEW node \in PseudoNode, NEW i \in 1 .. MaxSlots, FirstFree(i),
         slots' = [j \in DOMAIN slots \cup {i} |->
                     IF j = i THEN [node |-> node, offset |-> 0] ELSE slots[j]],
         Returns(<<"open", node>>, (i - 1) + 3)
  PROVE  Map!Open(node)
  <1> DEFINE f == [node |-> node, offset |-> 0]
  <1>0. ret' = i + 2 /\ ret' \in Nat /\ ret' >= 3 /\ i \in Int
    BY FdTableAssumption, SMTT(30) DEF Returns
  <1>1. slots \in Seq(Slot) /\ slots' \in Seq(Slot)
    BY TablesAreSeqs, SMTT(30)
  <1>2. f \in Files /\ f # None
    BY NoneIsNoFile, FdTableAssumption, SMTT(30) DEF Files
  <1>3. f.node = node
    BY SMTT(30)
  <1> HIDE DEF f
  <1>4. /\ DOMAIN slots' = DOMAIN slots \cup {i} /\ slots'[i] = f
        /\ \A j \in DOMAIN slots : j # i => slots'[j] = slots[j]
    BY DEF f
  <1>5. FmOf(slots') = With(FmOf(slots), i + 2, f)
    BY <1>0, <1>1, <1>2, <1>4, FmSet, ZenonT(40)
  <1>6. i + 2 \notin DOMAIN FmOf(slots)
    <2>1. ~(i \in DOMAIN slots /\ slots[i] # None)
      BY <1>1, SMTT(30) DEF FirstFree
    <2>2. (i + 2) - 2 = i /\ i + 2 \in Int
      BY <1>0
    <2> QED  BY <1>1, <2>1, <2>2, FmFacts
  <1>7. \A g \in 3 .. ret' - 1 : g \in DOMAIN FmOf(slots)
    <2> SUFFICES ASSUME NEW g \in 3 .. ret' - 1 PROVE g \in DOMAIN FmOf(slots)
      BY SMTT(30)
    <2>1. g - 2 \in 1 .. i - 1 /\ g \in Int
      BY <1>0, SMTT(30)
    <2>2. g - 2 \in DOMAIN slots /\ slots[g - 2] # None
      BY <1>0, <1>1, <2>1, SMTT(30) DEF FirstFree
    <2> QED  BY <1>1, <2>1, <2>2, FmFacts, SMTT(30)
  <1>8. node \in {h.node : h \in Files}
    BY <1>2, <1>3
  <1>9. call' = <<"open", node>>
    BY DEF Returns
  <1> QED  BY <1>0, <1>5, <1>6, <1>7, <1>8, <1>9, MapOpen, SMTT(30) DEF f

\* A descriptor is in the map when its slot is in use.
LEMMA OpenIsMapped ==
  ASSUME FdInv, NEW fd \in Fds
  PROVE  IsOpen(fd) <=> fd \in DOMAIN FmOf(slots)
  <1>1. slots \in Seq(Slot) /\ fd \in Int
    BY FdTableAssumption DEF FdInv, TypeOK, Slot
  <1> QED  BY <1>1, FmFacts DEF IsOpen

\* sys_close frees the descriptor it is given.
LEMMA CloseMaps ==
  ASSUME FdInv, FdInv', NEW fd \in Fds, IsOpen(fd),
         slots' = [slots EXCEPT ![fd - 2] = None], Returns(<<"close", fd>>, 0)
  PROVE  Map!Close(fd)
  <1>1. slots \in Seq(Slot) /\ slots' \in Seq(Slot) /\ fd \in Int
    BY TablesAreSeqs, FdTableAssumption
  <1>2. PICK i \in DOMAIN slots : i = fd - 2 /\ slots[i] # None
    BY DEF IsOpen
  <1>3. fd = i + 2
    BY <1>1, <1>2
  <1>4. /\ DOMAIN slots' = DOMAIN slots /\ slots'[i] = None
        /\ \A j \in DOMAIN slots : j # i => slots'[j] = slots[j]
    BY <1>2
  <1>5. FmOf(slots') = Without(FmOf(slots), i + 2)
    BY <1>1, <1>4, FmClear, ZenonT(40)
  <1>6. fd \in DOMAIN FmOf(slots)
    BY OpenIsMapped
  <1>7. call' = <<"close", fd>> /\ ret' = 0
    BY DEF Returns
  <1> QED  BY <1>3, <1>5, <1>6, <1>7, MapClose, ZenonT(40)

\* sys_read advances the offset of the descriptor it is given.
LEMMA ReadMaps ==
  ASSUME FdInv, FdInv', NEW fd \in Fds, NEW count, NEW i \in DOMAIN slots, i = fd - 2,
         slots[i] \in Files, NEW g \in Files, g.node = slots[i].node,
         NEW n \in 0 .. count, g.offset \in slots[i].offset .. slots[i].offset + n,
         DOMAIN slots' = DOMAIN slots \cup {i}, slots'[i] = g,
         \A j \in DOMAIN slots : j # i => slots'[j] = slots[j],
         Returns(<<"read", fd, count>>, n)
  PROVE  Map!Read(fd, count)
  <1>1. slots \in Seq(Slot) /\ slots' \in Seq(Slot) /\ fd \in Int
    BY TablesAreSeqs, FdTableAssumption
  <1>2. i \in Int /\ i + 2 = fd
    BY <1>1
  <1>3. g # None /\ slots[i] # None
    BY NoneIsNoFile, SMTT(30)
  <1>4. FmOf(slots') = With(FmOf(slots), fd, g)
    <2>1. FmOf(slots') = With(FmOf(slots), i + 2, g)
      BY <1>1, <1>2, <1>3, FmSet, ZenonT(40)
    <2> QED  BY <1>2, <2>1, SMTT(30)
  <1>5. fd \in DOMAIN FmOf(slots) /\ FmOf(slots)[fd] = slots[i]
    BY <1>1, <1>2, <1>3, FmFacts, SMTT(30)
  <1>6. FmOf(slots) = [h \in DOMAIN FmOf(slots) |-> slots[h - 2]]
    BY <1>1, FmFacts, SMTT(30)
  <1>7. FmOf(slots') = [FmOf(slots) EXCEPT ![fd] = g]
    BY <1>4, <1>5, <1>6, SMTT(30) DEF With
  <1>8. PICK to \in slots[i].offset .. slots[i].offset + n : to = g.offset
    OBVIOUS
  <1>9. FmOf(slots') = [FmOf(slots) EXCEPT ![fd].offset = to]
    <2>1. g = [slots[i] EXCEPT !.offset = to]
      BY <1>8 DEF Files
    <2> QED  BY <1>5, <1>7, <2>1, ZenonT(40)
  <1>10. call' = <<"read", fd, count>> /\ ret' = n
    BY DEF Returns
  <1> QED  BY <1>5, <1>8, <1>9, <1>10, MapRead, ZenonT(40)

\* The map's variables do not change.
Still == UNCHANGED <<slots, call, ret>>

\* What an answer and a call without a file are in the map's terms.
LEMMA AnswerIs ==
  ASSUME NEW c, NEW value, Answer(c, value)
  PROVE  slots' = slots /\ call' = c /\ ret' = value
  BY DEF Answer, Returns

\* A call on a descriptor with no file answers an error or panics.
LEMMA NoFileIs ==
  ASSUME NEW c, NEW fd, NoFile(c, fd)
  PROVE  Still \/ (slots' = slots /\ call' = c /\ ret' = BadF)
  BY AnswerIs, ZenonT(40) DEF NoFile, Still

\* The error numbers are negative.
LEMMA ErrorsNegative ==
  BadF < 0 /\ Fault < 0 /\ NoEnt < 0 /\ Acces < 0 /\ NoSpc < 0 /\ Perm < 0
  BY DEF BadF, Fault, NoEnt, Acces, NoSpc, Perm

\* Each call is the map's call with the same arguments.
LEMMA OpenIsOpen ==
  ASSUME FdInv, FdInv', NEW node \in PseudoNode, NEW access, Open(node, access)
  PROVE  Map!Open(node)
  <1>1. CASE Answer(<<"open", node>>, Acces)
    <2>1. slots' = slots /\ call' = <<"open", node>> /\ ret' < 0
      BY <1>1, AnswerIs, ErrorsNegative, SMTT(30)
    <2> QED  BY <2>1, MapOpenFails, ZenonT(40)
  <1> QED  BY <1>1, OpenCases, OpenMaps, ZenonT(40)

\* sys_close is the map's Close of the same descriptor.
LEMMA CloseIsClose ==
  ASSUME FdInv, FdInv', NEW fd \in Fds, Close(fd)
  PROVE  Map!Close(fd)
  <1>1. CASE fd < 3 /\ Answer(<<"close", fd>>, 0)
    <2>1. fd \notin DOMAIN FmOf(slots)
      <3>1. ~(fd - 2 \in DOMAIN slots)
        BY <1>1, SlotFacts, FdTableAssumption DEF FdInv
      <3> QED  BY <3>1, OpenIsMapped DEF IsOpen
    <2> QED  BY <1>1, <2>1, AnswerIs, MapCloseFails, ZenonT(40)
  <1>2. CASE fd >= 3 /\ ~IsOpen(fd) /\ Answer(<<"close", fd>>, BadF)
    <2>1. ~(fd < 3)
      BY <1>2, FdTableAssumption
    <2> QED  BY <1>2, <2>1, AnswerIs, OpenIsMapped, MapCloseFails, ZenonT(40)
  <1>3. CASE /\ IsOpen(fd) /\ slots' = [slots EXCEPT ![fd - 2] = None]
             /\ Returns(<<"close", fd>>, 0)
    BY <1>3, CloseMaps
  <1> QED  BY <1>1, <1>2, <1>3, ZenonT(40) DEF Close

\* sys_read is the map's Read of the same descriptor and count, or panics.
LEMMA ReadIsRead ==
  ASSUME FdInv, FdInv', NEW fd \in Fds, NEW count \in Counts, Read(fd, count)
  PROVE  Map!Read(fd, count) \/ Still
  <1>0. PICK c : c = <<"read", fd, count>>
    BY ZenonT(40)
  <1>1. c[1] \in Ops /\ count \in Nat
    BY <1>0, FdTableAssumption DEF Ops
  <1>2. CASE (count = 0 /\ Answer(c, 0)) \/ Answer(c, Fault)
    <2>1. slots' = slots /\ call' = c /\ (ret' < 0 \/ (count = 0 /\ ret' = 0))
      BY <1>2, AnswerIs, ErrorsNegative, SMTT(30)
    <2> QED  BY <1>0, <2>1, MapReadFails, ZenonT(40)
  <1>3. CASE NoFile(c, fd)
    <2>1. Still \/ (slots' = slots /\ call' = c /\ ret' < 0)
      BY <1>3, NoFileIs, ErrorsNegative, SMTT(30)
    <2> QED  BY <1>0, <2>1, MapReadFails, ZenonT(40)
  <1>4. ASSUME NEW n, IsOpen(fd), n = BytesRead(slots[fd - 2], count),
               slots' = [slots EXCEPT ![fd - 2].offset = MinOf(@ + n, OffsetMax)],
               Returns(c, n)
        PROVE  Map!Read(fd, count)
    <2>1. ReadEffect(fd, count, n)
      BY <1>1, <1>4, ReadSlot, ZenonT(40)
    <2>2. PICK i \in 1 .. MaxSlots, g \in Files :
            /\ i = fd - 2 /\ i \in DOMAIN slots /\ slots[i] \in Files
            /\ n \in 0 .. count
            /\ g.offset \in slots[i].offset .. slots[i].offset + n
            /\ g.node = slots[i].node
            /\ DOMAIN slots' = DOMAIN slots \cup {i}
            /\ slots'[i] = g
            /\ \A j \in DOMAIN slots : j # i => slots'[j] = slots[j]
      BY <2>1, ZenonT(40) DEF ReadEffect
    <2> QED  BY <1>0, <1>4, <2>2, ReadMaps, ZenonT(40)
  <1> QED  BY <1>0, <1>1, <1>2, <1>3, <1>4, ReadCases, ZenonT(40)

\* sys_write is the map's Write of the same descriptor and count, or panics.
LEMMA WriteIsWrite ==
  ASSUME FdInv, NEW fd \in Fds, NEW count \in Counts, Write(fd, count)
  PROVE  Map!Write(fd, count) \/ Still
  <1>0. PICK c : c = <<"write", fd, count>>
    BY ZenonT(40)
  <1>1. CASE NoFile(c, fd)
    <2>1. Still \/ (slots' = slots /\ call' = c /\ ret' < 0)
      BY <1>1, NoFileIs, ErrorsNegative, SMTT(30)
    <2> QED  BY <1>0, <2>1, MapWrite, ZenonT(40)
  <1>2. CASE Answer(c, Fault) \/ Answer(c, NoSpc) \/ Answer(c, Perm)
    <2>1. slots' = slots /\ call' = c /\ ret' < 0
      BY <1>2, AnswerIs, ErrorsNegative, SMTT(30)
    <2> QED  BY <1>0, <2>1, MapWrite, ZenonT(40)
  <1>3. CASE Answer(c, count) /\ (count = 0 \/ fd \in {1, 2} \/ IsOpen(fd))
    <2>1. ~(count > 0) \/ fd \in DOMAIN FmOf(slots) \/ fd \in {1, 2}
      BY <1>3, OpenIsMapped
    <2>2. slots' = slots /\ call' = c /\ ret' = count
      BY <1>3, AnswerIs, SMTT(30)
    <2> QED  BY <1>0, <2>1, <2>2, MapWrite, ZenonT(40)
  <1> QED  BY <1>0, <1>1, <1>2, <1>3, WriteCases, ZenonT(40)

\* Every step of the table is a step of the map, or leaves it alone.
LEMMA StepMaps ==
  ASSUME FdInv, FdInv', [FdNext]_fvars
  PROVE  Map!MapNext \/ Still
  <1>1. CASE Uptime \/ UNCHANGED fvars
    BY <1>1, SMTT(30) DEF Uptime, fvars, Still
  <1>2. ASSUME NEW node \in PseudoNode, NEW access \in 0 .. 3, Open(node, access)
        PROVE  Map!MapNext
    <2>1. node \in {f.node : f \in Files}
      <3>1. [node |-> node, offset |-> 0] \in Files
        BY FdTableAssumption DEF Files
      <3> QED  BY <3>1
    <2> QED  BY <1>2, <2>1, OpenIsOpen, ZenonT(40) DEF Map!MapNext, Map!Nodes
  <1>3. CASE OpenFails
    <2>1. slots' = slots /\ call' = <<"open", "None">> /\ ret' < 0
      BY <1>3, AnswerIs, ErrorsNegative, SMTT(30) DEF OpenFails
    <2>2. Map!Open("None")
      BY <2>1, MapOpenFails, ZenonT(40)
    <2> QED  BY <2>2, ZenonT(40) DEF Map!MapNext
  <1>4. ASSUME NEW fd \in Fds, Close(fd)
        PROVE  Map!MapNext
    BY <1>4, CloseIsClose, ZenonT(40) DEF Map!MapNext
  <1>5. ASSUME NEW fd \in Fds, NEW count \in Counts, Read(fd, count) \/ Write(fd, count)
        PROVE  Map!MapNext \/ Still
    BY <1>5, ReadIsRead, WriteIsWrite, ZenonT(40) DEF Map!MapNext
  <1> QED  BY <1>1, <1>2, <1>3, <1>4, <1>5, ZenonT(40) DEF FdNext, Call

\* Whatever calls are made with whatever arguments, sys_open, sys_close, sys_read
\* and sys_write on FD_TABLE (syscall/mod.rs) are calls on a map from descriptors
\* to files: open answers the lowest descriptor that is free, close frees the one
\* it is given, read moves the offset of the one it is given, by no more than it
\* returned, and no other file changes.
THEOREM TableIsMap == FdSpec => ImplementsFdMap
  <1> DEFINE files == [fd \in {i + 2 : i \in {j \in DOMAIN slots : slots[j] # None}}
                         |-> slots[fd - 2]]
  <1>1. FdInit => Map!MapInit
    BY DEF FdInit, Map!MapInit
  <1>2. FdInv /\ FdInv' /\ [FdNext]_fvars => [Map!MapNext]_<<files, call, ret>>
    BY StepMaps DEF Still
  <1>3. FdSpec => []FdInv
    BY FdInvariant
  <1> QED  BY <1>1, <1>2, <1>3, PTL DEF FdSpec, ImplementsFdMap, Map!MapSpec

=============================================================================
