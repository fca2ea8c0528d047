------------------------ MODULE EepromEmulatorProofs ------------------------
(***************************************************************************)
(* Proofs about EepromEmulator, for every number of rows and every content  *)
(* of the pages: the layout of the flash is sound between two calls, and    *)
(* the emulator implements EepromStore, its refinement mapping being the    *)
(* views at the end of EepromEmulator.  Least and greatest copies and free  *)
(* pages are least and greatest elements of sets of numbers.                *)
(*                                                                         *)
(* They assume what the code does not ensure: that power is lost only       *)
(* while every page has a copy in the flash (~LossInMove; the run           *)
(* eeprom_loss shows what happens otherwise), and that no commit interrupts *)
(* a write (~Unguarded; the run eeprom_unguarded).                          *)
(***************************************************************************)
EXTENDS EepromEmulator, WellFoundedInduction, TLAPS

-----------------------------------------------------------------------------
(* The layout of the flash.                                                 *)

DataRows == 0 .. MasterRow - 1

(* The first page of the pair that page p belongs to.                       *)
Base(p) == p - (p % 2)

(* A row of data has copies of the two pages of one pair: first one of each *)
(* page, in their order, then newer ones, then erased pages only.           *)
RowSound(f, r) ==
  /\ First(f, r) \in Pages /\ First(f, r) % 2 = 0
  /\ \A n \in RowPhys(r) :
       /\ f[n].header \in {First(f, r), First(f, r) + 1, Free}
       /\ n = r * RowPages + 1 => f[n].header # First(f, r)
       /\ f[n].header = Free => \A m \in RowPhys(r) : n <= m => f[m] = Erased

(* The spare row s is erased, the last row has the master page only, and    *)
(* each of the others has one of the pairs.                                 *)
Layout(f, s) ==
  /\ f \in [Phys -> Contents]
  /\ \A n \in Phys : f[n].data # Garbage
  /\ s \in DataRows /\ \A n \in RowPhys(s) : f[n] = Erased
  /\ f[MasterPage].header = Master
  /\ \A n \in RowPhys(MasterRow) \ {MasterPage} : f[n] = Erased
  /\ \A r \in DataRows \ {s} : RowSound(f, r)
  /\ \A q, r \in DataRows \ {s} : First(f, q) = First(f, r) => q = r

(* Page p has its last copy at n.                                           *)
LastCopy(f, p, n) == n \in Copies(f, p) /\ \A m \in Copies(f, p) : m <= n

(* Page n is the one that the next copy of page p is programmed into.       *)
NextCopy(f, s, p, n) ==
  /\ n \in Phys /\ RowOf(n) \in DataRows \ {s} /\ First(f, RowOf(n)) = Base(p)
  /\ f[n] = Erased
  /\ \A m \in RowPhys(RowOf(n)) : m < n => f[m].header # Free
  /\ n = RowOf(n) * RowPages + 1 => p % 2 = 1

FullRow(f, r) == \A n \in RowPhys(r) : f[n].header # Free

IsCached(p) == cache_active /\ cache.header = p

-----------------------------------------------------------------------------
(* The inductive invariant.                                                 *)

(* What is in the cache is in the page buffer, too.                         *)
CacheSound ==
  cache_active => nvm_buffer = cache /\ cache.header \in Pages /\ cache.data # Garbage

RequestSound == pc # "idle" => request.page \in Pages /\ request.data # Garbage

(* No row is moved: a page is mapped to its last copy or, in the cache, to  *)
(* the place of the next one, and so is the page that is being written.     *)
Settled ==
  /\ Layout(flash, spare_row)
  /\ \A p \in Pages : IF IsCached(p) THEN NextCopy(flash, spare_row, p, page_map[p])
                                     ELSE LastCopy(flash, p, page_map[p])
  /\ pc \in {"fill", "activate"} =>
       /\ NextCopy(flash, spare_row, request.page, target)
       /\ cache_active => IsCached(request.page) /\ page_map[request.page] = target
  /\ pc = "activate" => /\ cache = [header |-> request.page, data |-> request.data]
                        /\ nvm_buffer = cache

(* A row is moved: the flash without what has been moved, and the new       *)
(* content of a page.                                                       *)
Before == ErasedRow(flash, spare_row)
OldRow == RowOf(target)
Moved(c) == Base(request.page) + c
NewData(p) == IF p = request.page THEN request.data ELSE DurablePages(Before)[p]
NewPage(p) == [header |-> p, data |-> NewData(p)]

Moves ==
  /\ Layout(Before, spare_row)
  /\ target = OldRow * RowPages /\ OldRow \in DataRows \ {spare_row}
  /\ First(Before, OldRow) = Moved(0) /\ FullRow(Before, OldRow)
  /\ \A p \in Pages \ {Moved(0), Moved(1)} : LastCopy(Before, p, page_map[p])
  /\ \A c \in 0 .. 1 : Copies(Before, Moved(c)) # {}
  /\ pc = "move0" => /\ ~cache_active /\ flash = Before
                     /\ \A c \in 0 .. 1 : LastCopy(flash, Moved(c), page_map[Moved(c)])
  /\ pc = "move1" => /\ cache_active /\ flash = Before
                     /\ cache = NewPage(Moved(0))
                     /\ page_map[Moved(0)] = spare_row * RowPages
                     /\ LastCopy(flash, Moved(1), page_map[Moved(1)])
  /\ pc = "erase" => /\ cache_active
                     /\ flash = [Before EXCEPT ![spare_row * RowPages] = NewPage(Moved(0))]
                     /\ cache = NewPage(Moved(1))
                     /\ page_map[Moved(0)] = spare_row * RowPages
                     /\ page_map[Moved(1)] = spare_row * RowPages + 1

IInv ==
  /\ TypeOK /\ CacheSound /\ RequestSound
  /\ IF Moving THEN Moves ELSE Settled
-----------------------------------------------------------------------------
(* Least and greatest elements.                                             *)

LEMMA LeastExists ==
  ASSUME NEW S \in SUBSET Nat, S # {}
  PROVE  \E m \in S : \A n \in S : m <= n
  <1> DEFINE R == OpToRel(<, Nat)
  <1>1. IsWellFoundedOn(R, Nat)
    BY NatLessThanWellFounded
  <1>2. \A m, n \in Nat : n < m => <<n, m>> \in R
    BY DEF OpToRel
  <1> HIDE DEF R
  <1>3. PICK m \in S : \A n \in S : ~(<<n, m>> \in R)
    BY <1>1, WFMin
  <1>4. \A n \in S : ~(n < m) /\ n \in Nat /\ m \in Nat
    BY <1>2, <1>3
  <1>5. \A n \in S : m <= n
    BY <1>4
  <1> QED BY <1>5

LEMMA GreatestExists ==
  ASSUME NEW k \in Nat, NEW S \in SUBSET (0 .. k), S # {}
  PROVE  \E m \in S : \A n \in S : n <= m
  <1> DEFINE T == {k - n : n \in S}
  <1>1. T \in SUBSET Nat /\ T # {}
    <2>1. \A n \in S : k - n \in Nat
      OBVIOUS
    <2>2. T \in SUBSET Nat
      BY <2>1
    <2>3. PICK n \in S : TRUE
      OBVIOUS
    <2>4. k - n \in T
      BY <2>3
    <2> QED BY <2>2, <2>4
  <1>2. \A n \in S : k - n \in T
    OBVIOUS
  <1>3. \A u \in T : \E n \in S : u = k - n
    OBVIOUS
  <1> HIDE DEF T
  <1>4. PICK u \in T : \A v \in T : u <= v
    BY <1>1, LeastExists
  <1>5. PICK m \in S : u = k - m
    BY <1>3
  <1>6. \A n \in S : n <= m
    BY <1>2, <1>4, <1>5
  <1> QED BY <1>6

LEMMA MinIs ==
  ASSUME NEW S \in SUBSET Nat, NEW m \in S, \A n \in S : m <= n
  PROVE  Min(S) = m
  <1>1. \A x \in S : (\A y \in S : x <= y) => x = m
    OBVIOUS
  <1> QED BY <1>1 DEF Min

LEMMA MinType ==
  ASSUME NEW S \in SUBSET Nat, S # {}
  PROVE  Min(S) \in S /\ \A n \in S : Min(S) <= n
  BY LeastExists, MinIs

LEMMA MaxIs ==
  ASSUME NEW S \in SUBSET Nat, NEW m \in S, \A n \in S : n <= m
  PROVE  Max(S) = m
  <1>1. \A x \in S : (\A y \in S : x >= y) => x = m
    OBVIOUS
  <1>2. \A y \in S : m >= y
    OBVIOUS
  <1> QED BY <1>1, <1>2 DEF Max

LEMMA MaxType ==
  ASSUME NEW k \in Nat, NEW S \in SUBSET (0 .. k), S # {}
  PROVE  Max(S) \in S /\ \A n \in S : n <= Max(S)
  <1>1. S \in SUBSET Nat
    OBVIOUS
  <1> QED BY <1>1, GreatestExists, MaxIs
-----------------------------------------------------------------------------
(* Rows and pages.                                                          *)

LEMMA Sizes ==
  /\ Rows \in Nat /\ Rows >= 3 /\ RowPages = 4 /\ MasterRow = Rows - 1
  /\ MasterPage = MasterRow * RowPages + 3 /\ MasterPage \in Phys
  /\ LogicalPages = 2 * (Rows - 2) /\ Free = LogicalPages /\ Master = LogicalPages + 1
  /\ Pages = 0 .. LogicalPages - 1
  /\ Phys = 0 .. MasterPage
  <1>1. Rows \in Nat /\ Rows >= 3 /\ RowPages = 4 /\ MasterRow = Rows - 1
    BY RowsAssumption DEF RowPages, MasterRow
  <1>2. MasterPage = MasterRow * RowPages + 3
    BY <1>1 DEF MasterPage
  <1>3. Phys = 0 .. MasterPage /\ MasterPage \in Phys
    BY <1>1 DEF MasterPage, Phys
  <1>4. LogicalPages = 2 * (Rows - 2)
    BY <1>1 DEF LogicalPages
  <1> QED BY <1>1, <1>2, <1>3, <1>4 DEF Free, Master, Pages

LEMMA PhysNat == Phys \in SUBSET Nat
  BY Sizes

LEMMA PageInRow ==
  ASSUME NEW n \in Phys
  PROVE  RowOf(n) \in 0 .. MasterRow /\ n \in RowPhys(RowOf(n))
  BY Sizes DEF RowOf, RowPhys

LEMMA RowPage ==
  ASSUME NEW r \in 0 .. MasterRow
  PROVE  /\ \A n \in RowPhys(r) : n \in Phys /\ RowOf(n) = r /\ r * RowPages <= n
         /\ \A c \in 0 .. 3 : r * RowPages + c \in RowPhys(r)
         /\ \A n \in RowPhys(r) : \E c \in 0 .. 3 : n = r * RowPages + c
  BY Sizes DEF RowOf, RowPhys

LEMMA RowPhysOf ==
  ASSUME NEW r \in 0 .. MasterRow
  PROVE  RowPhys(r) = {n \in Phys : RowOf(n) = r}
  BY RowPage, PageInRow

LEMMA DataRow ==
  ASSUME NEW r \in DataRows
  PROVE  r \in 0 .. MasterRow /\ r # MasterRow /\ MasterPage \notin RowPhys(r)
  BY Sizes DEF DataRows, RowPhys

(* The pages of a pair.                                                     *)
LEMMA BaseType ==
  ASSUME NEW p \in Pages
  PROVE  /\ Base(p) \in Pages /\ Base(p) + 1 \in Pages /\ Base(p) % 2 = 0
         /\ p = IF p % 2 = 0 THEN Base(p) ELSE Base(p) + 1
         /\ p % 2 \in 0 .. 1 /\ (Base(p) + 1) % 2 = 1
         /\ Base(p) + 1 # Base(p) /\ p # Free /\ p # Master /\ Base(p) # Free
         /\ Base(Base(p)) = Base(p) /\ Base(Base(p) + 1) = Base(p)
  BY Sizes DEF Base

LEMMA BaseIs ==
  ASSUME NEW p \in Pages, NEW a \in Pages, a % 2 = 0, p \in {a, a + 1}
  PROVE  a = Base(p)
  BY Sizes DEF Base
-----------------------------------------------------------------------------
(* Copies in a sound layout.                                                *)

LEMMA CopiesAreFinite ==
  ASSUME NEW f, NEW p
  PROVE  Copies(f, p) \in SUBSET (0 .. MasterPage) /\ Copies(f, p) \in SUBSET Phys /\ MasterPage \in Nat
  BY Sizes DEF Copies

LEMMA LastCopyIs ==
  ASSUME NEW f, NEW p \in Pages, NEW n, LastCopy(f, p, n)
  PROVE  /\ Max(Copies(f, p)) = n /\ n \in Phys /\ f[n].header = p
         /\ DurablePages(f)[p] = f[n].data
  <1>1. n \in Copies(f, p) /\ \A m \in Copies(f, p) : m <= n
    BY DEF LastCopy
  <1>2. Copies(f, p) \in SUBSET Nat
    BY CopiesAreFinite
  <1>3. Max(Copies(f, p)) = n
    BY <1>1, <1>2, MaxIs
  <1>4. n \in Phys /\ f[n].header = p
    BY <1>1 DEF Copies
  <1> QED BY <1>1, <1>3, <1>4 DEF DurablePages

LEMMA LastCopyExists ==
  ASSUME NEW f, NEW p \in Pages, Copies(f, p) # {}
  PROVE  LastCopy(f, p, Max(Copies(f, p)))
  BY CopiesAreFinite, MaxType DEF LastCopy

(* A copy of a page is in the row of its pair, and there is but one.        *)
LEMMA CopyInRow ==
  ASSUME NEW f, NEW s, Layout(f, s), NEW p \in Pages, NEW n \in Copies(f, p)
  PROVE  /\ n \in Phys /\ f[n].header = p /\ n \in RowPhys(RowOf(n))
         /\ RowOf(n) \in DataRows \ {s} /\ First(f, RowOf(n)) = Base(p)
  <1>1. n \in Phys /\ n # MasterPage /\ f[n].header = p
    BY DEF Copies
  <1>2. RowOf(n) \in 0 .. MasterRow /\ n \in RowPhys(RowOf(n))
    BY <1>1, PageInRow
  <1>3. Erased.header = Free /\ p # Free
    BY BaseType DEF Erased
  <1>4. RowOf(n) # s /\ RowOf(n) # MasterRow
    BY <1>1, <1>2, <1>3 DEF Layout
  <1>5. RowOf(n) \in DataRows \ {s}
    BY <1>2, <1>4, Sizes DEF DataRows
  <1>6. RowSound(f, RowOf(n))
    BY <1>5 DEF Layout
  <1>7. p \in {First(f, RowOf(n)), First(f, RowOf(n)) + 1}
    BY <1>1, <1>2, <1>3, <1>6 DEF RowSound
  <1>8. First(f, RowOf(n)) = Base(p)
    BY <1>6, <1>7, BaseIs DEF RowSound
  <1> QED BY <1>1, <1>2, <1>5, <1>8

LEMMA SameRow ==
  ASSUME NEW f, NEW s, Layout(f, s), NEW q \in DataRows \ {s}, NEW r \in DataRows \ {s},
         First(f, q) = First(f, r)
  PROVE  q = r
  BY DEF Layout

(* Erased pages follow the copies of a row.                                 *)
LEMMA CopiesBeforeErased ==
  ASSUME NEW f, NEW s, Layout(f, s), NEW p \in Pages, NEW n \in Copies(f, p),
         NEW m \in RowPhys(RowOf(n)), f[m].header = Free
  PROVE  n < m
  <1>1. /\ n \in RowPhys(RowOf(n)) /\ f[n].header = p /\ RowOf(n) \in DataRows \ {s}
        /\ n \in Phys
    BY CopyInRow
  <1>2. RowSound(f, RowOf(n))
    BY <1>1 DEF Layout
  <1>3. m <= n => f[n] = Erased
    BY <1>1, <1>2 DEF RowSound
  <1>4. Erased.header # p
    BY BaseType DEF Erased
  <1>5. m \in Nat /\ n \in Nat
    BY <1>1, RowPage, DataRow, PhysNat
  <1> QED BY <1>1, <1>3, <1>4, <1>5

(* The place of the next copy is after all copies of the page.              *)
LEMMA NextCopyIsLater ==
  ASSUME NEW f, NEW s, Layout(f, s), NEW p \in Pages, NEW n, NextCopy(f, s, p, n)
  PROVE  \A m \in Copies(f, p) : RowOf(m) = RowOf(n) /\ m < n
  <1> SUFFICES ASSUME NEW m \in Copies(f, p) PROVE RowOf(m) = RowOf(n) /\ m < n
    OBVIOUS
  <1>1. RowOf(m) = RowOf(n)
    BY CopyInRow, SameRow DEF NextCopy
  <1>2. n \in RowPhys(RowOf(n)) /\ f[n].header = Free
    BY PageInRow DEF NextCopy, Erased
  <1> QED BY <1>1, <1>2, CopiesBeforeErased

LEMMA ErasedRowType ==
  ASSUME NEW f \in [Phys -> Contents], NEW r \in 0 .. MasterRow
  PROVE  /\ ErasedRow(f, r) \in [Phys -> Contents]
         /\ \A n \in RowPhys(r) : ErasedRow(f, r)[n] = Erased
         /\ \A n \in Phys : RowOf(n) # r => ErasedRow(f, r)[n] = f[n]
  <1>1. Erased \in Contents
    BY DEF Erased, Contents, Data
  <1> QED BY <1>1, RowPhysOf DEF ErasedRow

LEMMA SpareErased ==
  ASSUME NEW f, NEW s, Layout(f, s)
  PROVE  ErasedRow(f, s) = f
  <1>1. f \in [Phys -> Contents] /\ \A n \in RowPhys(s) : f[n] = Erased
    BY DEF Layout
  <1>2. \A n \in Phys : (IF n \in RowPhys(s) THEN Erased ELSE f[n]) = f[n]
    BY <1>1
  <1> QED BY <1>1, <1>2 DEF ErasedRow
-----------------------------------------------------------------------------
LEMMA ProgramErased ==
  ASSUME NEW f \in [Phys -> Contents], NEW n \in Phys, f[n] = Erased, NEW b \in Contents
  PROVE  Programmed(f, n, b) = [f EXCEPT ![n] = b]
  <1>1. f[n].header = Free /\ f[n].data = Blank
    BY DEF Erased
  <1>2. b = [header |-> b.header, data |-> b.data]
    BY DEF Contents
  <1>3. Overlay(f[n].header, b.header, Free) = b.header /\ Overlay(f[n].data, b.data, Blank) = b.data
    BY <1>1 DEF Overlay
  <1> QED BY <1>2, <1>3 DEF Programmed

(* Programming the next copy of a page keeps the layout: the page that is   *)
(* programmed is an erased one, so it holds what the buffer has.            *)
LEMMA ProgramNext ==
  ASSUME NEW f, NEW s, Layout(f, s), NEW p \in Pages, NEW n, NextCopy(f, s, p, n),
         NEW b \in Contents, b.header = p, b.data # Garbage
  PROVE  /\ Programmed(f, n, b) = [f EXCEPT ![n] = b]
         /\ Layout(Programmed(f, n, b), s)
         /\ LastCopy(Programmed(f, n, b), p, n)
         /\ \A q \in Pages \ {p} : Copies(Programmed(f, n, b), q) = Copies(f, q)
         /\ \A r \in 0 .. MasterRow : First(Programmed(f, n, b), r) = First(f, r)
  <1> DEFINE g == [f EXCEPT ![n] = b]
             r0 == RowOf(n)
  <1>1. /\ n \in Phys /\ r0 \in DataRows \ {s} /\ First(f, r0) = Base(p) /\ f[n] = Erased
        /\ \A m \in RowPhys(r0) : m < n => f[m].header # Free
        /\ n = r0 * RowPages + 1 => p % 2 = 1
    BY DEF NextCopy
  <1>2. f \in [Phys -> Contents]
    BY DEF Layout
  <1>3. Programmed(f, n, b) = g
    BY <1>1, <1>2, ProgramErased
  <1>4. g \in [Phys -> Contents] /\ g[n] = b /\ \A m \in Phys : m # n => g[m] = f[m]
    BY <1>1, <1>2
  <1>5. r0 \in 0 .. MasterRow /\ r0 # MasterRow /\ n \in RowPhys(r0) /\ n # MasterPage
    BY <1>1, DataRow, PageInRow
  <1>6. \A r \in 0 .. MasterRow : r * RowPages \in RowPhys(r) /\ r * RowPages \in Phys
    <2> TAKE r \in 0 .. MasterRow
    <2>1. r * RowPages + 0 \in RowPhys(r)
      BY RowPage
    <2>2. r * RowPages + 0 = r * RowPages
      BY Sizes
    <2> QED BY <2>1, <2>2, RowPage
  <1>7. \A r \in 0 .. MasterRow : r * RowPages # n
    <2> SUFFICES ASSUME NEW r \in 0 .. MasterRow, r * RowPages = n PROVE FALSE
      OBVIOUS
    <2>1. r0 = r
      BY <1>6, RowPage
    <2>2. First(f, r0) = Free
      BY <1>1, <2>1 DEF First, Erased
    <2> QED BY <1>1, <2>2, BaseType
  <1>8. \A r \in 0 .. MasterRow : First(g, r) = First(f, r)
    BY <1>4, <1>6, <1>7 DEF First
  <1>9. \A r \in 0 .. MasterRow : r # r0 => \A m \in RowPhys(r) : g[m] = f[m] /\ m \in Phys
    BY <1>4, <1>5, RowPage
  <1> HIDE DEF g
  <1>10. \A r \in DataRows \ {s} : RowSound(g, r)
    <2> SUFFICES ASSUME NEW r \in DataRows \ {s} PROVE RowSound(g, r)
      OBVIOUS
    <2>1. RowSound(f, r) /\ r \in 0 .. MasterRow /\ First(g, r) = First(f, r)
      BY <1>8, DataRow DEF Layout
    <2>2. CASE r # r0
      BY <1>9, <2>1, <2>2 DEF RowSound
    <2>3. CASE r = r0
      <3>1. \A m \in RowPhys(r) : m \in Phys /\ m \in Nat
        BY <2>1, RowPage, PhysNat
      <3>2. n \in Nat
        BY <1>1, PhysNat
      <3>3. p \in {First(g, r), First(g, r) + 1} /\ p # Free /\ (p % 2 = 1 => p # First(g, r))
        BY <1>1, <2>1, <2>3, BaseType
      <3>4. ASSUME NEW m \in RowPhys(r)
            PROVE  /\ g[m].header \in {First(g, r), First(g, r) + 1, Free}
                   /\ m = r * RowPages + 1 => g[m].header # First(g, r)
                   /\ g[m].header = Free => \A k \in RowPhys(r) : m <= k => g[k] = Erased
        <4>1. CASE m = n
          BY <1>1, <1>4, <2>3, <3>3, <4>1
        <4>2. CASE m # n
          <5>1. g[m] = f[m]
            BY <1>4, <3>1, <4>2
          <5>2. g[m].header = Free => n < m
            BY <1>1, <2>3, <3>1, <3>2, <4>2, <5>1
          <5>3. \A k \in RowPhys(r) : n < m /\ m <= k => g[k] = f[k]
            BY <1>4, <3>1, <3>2
          <5> QED BY <2>1, <5>1, <5>2, <5>3 DEF RowSound
        <4> QED BY <4>1, <4>2
      <3> QED BY <2>1, <3>4 DEF RowSound
    <2> QED BY <2>2, <2>3
  <1>11. Layout(g, s)
    <2>1. \A m \in Phys : g[m].data # Garbage
      BY <1>4 DEF Layout
    <2>2. s \in DataRows /\ \A m \in RowPhys(s) : g[m] = Erased
      BY <1>1, <1>9, DataRow DEF Layout
    <2>3. g[MasterPage].header = Master
      BY <1>4, <1>5, Sizes DEF Layout
    <2>4. \A m \in RowPhys(MasterRow) \ {MasterPage} : g[m] = Erased
      BY <1>5, <1>9, Sizes DEF Layout
    <2>5. \A q, r \in DataRows \ {s} : First(g, q) = First(g, r) => q = r
      BY <1>8, DataRow DEF Layout
    <2> QED BY <1>4, <1>10, <2>1, <2>2, <2>3, <2>4, <2>5 DEF Layout
  <1>12. Copies(g, p) = Copies(f, p) \cup {n}
    BY <1>1, <1>4, <1>5 DEF Copies
  <1>13. \A q \in Pages \ {p} : Copies(g, q) = Copies(f, q)
    <2>1. f[n].header \notin Pages
      BY <1>1, BaseType DEF Erased
    <2> QED BY <1>1, <1>4, <2>1 DEF Copies
  <1>14. LastCopy(g, p, n)
    <2>1. \A m \in Copies(f, p) : m < n /\ m \in Nat /\ n \in Nat
      BY <1>1, NextCopyIsLater, CopyInRow, PhysNat
    <2>2. n \in Nat
      BY <1>1, PhysNat
    <2>3. \A m \in Copies(f, p) \cup {n} : m <= n
      BY <2>1, <2>2
    <2>4. n \in Copies(g, p)
      BY <1>12
    <2>5. \A m \in Copies(g, p) : m <= n
      BY <1>12, <2>3
    <2> QED BY <2>4, <2>5 DEF LastCopy
  <1>15. Programmed(f, n, b) = [f EXCEPT ![n] = b]
    BY <1>3 DEF g
  <1> QED BY <1>3, <1>8, <1>11, <1>13, <1>14, <1>15
-----------------------------------------------------------------------------
(* Start-up.                                                                *)

(* The first page of each row is not the master page.                       *)
LEMMA FirstOfRow ==
  ASSUME NEW r \in 0 .. MasterRow
  PROVE  /\ r * RowPages \in RowPhys(r) /\ r * RowPages \in Phys /\ r * RowPages # MasterPage
         /\ r * RowPages + 1 \in RowPhys(r) /\ r * RowPages + 2 \in RowPhys(r)
  <1>1. r * RowPages + 0 \in RowPhys(r) /\ r * RowPages + 0 = r * RowPages
    BY RowPage, Sizes
  <1>2. r * RowPages # MasterPage
    BY Sizes
  <1> QED BY <1>1, <1>2, RowPage

LEMMA RowBegins ==
  ASSUME NEW f, NEW s, Layout(f, s), NEW r \in 0 .. MasterRow, First(f, r) # Free
  PROVE  r \in DataRows \ {s}
  <1>1. r * RowPages \in RowPhys(r) \ {MasterPage}
    BY FirstOfRow
  <1>2. r # s /\ r # MasterRow
    BY <1>1 DEF Layout, First, Erased
  <1> QED BY <1>2, Sizes DEF DataRows

(* A sound layout has one erased row, which is found.                       *)
LEMMA SpareRowFound ==
  ASSUME NEW f, NEW s, Layout(f, s)
  PROVE  SpareRow(f) = s /\ s # NoRow
  <1> DEFINE spare == {r \in 0 .. MasterRow :
                         \A n \in RowPhys(r) \ {MasterPage} : f[n].header = Free}
  <1>1. s \in spare /\ s \in DataRows
    BY DataRow DEF Layout, Erased
  <1>2. \A r \in spare : r = s \/ r = MasterRow
    <2> SUFFICES ASSUME NEW r \in spare, r # s, r # MasterRow PROVE FALSE
      OBVIOUS
    <2>1. r \in DataRows \ {s}
      BY Sizes DEF DataRows
    <2>2. First(f, r) \in Pages
      BY <2>1 DEF Layout, RowSound
    <2>3. First(f, r) = Free
      BY FirstOfRow DEF First
    <2> QED BY <2>2, <2>3, BaseType
  <1>3. spare \in SUBSET Nat
    OBVIOUS
  <1>4. \A r \in spare : s <= r
    BY <1>1, <1>2, Sizes DEF DataRows
  <1>5. Min(spare) = s
    BY <1>1, <1>3, <1>4, MinIs
  <1>6. s # NoRow
    BY <1>1, Sizes DEF DataRows, NoRow
  <1> HIDE DEF spare
  <1>7. SpareRow(f) = IF spare = {} THEN NoRow ELSE Min(spare)
    BY DEF SpareRow, spare
  <1> QED BY <1>1, <1>5, <1>6, <1>7

(* Start-up leaves a sound layout as it is.                                 *)
LEMMA MountedSound ==
  ASSUME NEW f, NEW s, Layout(f, s)
  PROVE  Mounted(f) = f
  <1>1. f \in [Phys -> Contents]
    BY DEF Layout
  <1>2. \A r \in 0 .. MasterRow : Kept(f, r)
    <2> SUFFICES ASSUME NEW r \in 0 .. MasterRow, First(f, r) # Free,
                        NEW q \in 0 .. MasterRow, First(f, q) = First(f, r)
                 PROVE  q = r
      BY Sizes DEF Kept
    <2> QED BY RowBegins, SameRow
  <1>3. check_logical_page(f) = f
    BY <1>1, <1>2, PageInRow DEF check_logical_page
  <1>4. f[MasterPage].header = Master
    BY DEF Layout
  <1> QED BY <1>3, <1>4, SpareRowFound DEF Mounted

LEMMA MappingSound ==
  ASSUME NEW f, NEW p \in Pages, Copies(f, p) # {}
  PROVE  LastCopy(f, p, Mapping(f)[p])
  BY LastCopyExists DEF Mapping

(* Start-up when a row has been moved but not erased.  The new row, whose   *)
(* second page is not programmed yet, and the old one are both taken for    *)
(* full, so the later one of them is kept: the old one, as every page has a *)
(* copy afterwards.                                                         *)
LEMMA MountedInMove ==
  ASSUME NEW f, NEW s, Layout(f, s), NEW old \in DataRows \ {s}, FullRow(f, old),
         NEW b \in Contents, b.header = First(f, old),
         \A p \in Pages : Copies(Mounted([f EXCEPT ![s * RowPages] = b]), p) # {}
  PROVE  Mounted([f EXCEPT ![s * RowPages] = b]) = f
  <1> DEFINE g == [f EXCEPT ![s * RowPages] = b]
             a == First(f, old)
  <1>1. /\ f \in [Phys -> Contents] /\ s \in 0 .. MasterRow /\ old \in 0 .. MasterRow /\ old # s
        /\ s \in DataRows /\ s # MasterRow /\ RowSound(f, old) /\ \A n \in RowPhys(s) : f[n] = Erased
        /\ \A n \in RowPhys(s) : n \in Phys
    BY DataRow, RowPage DEF Layout
  <1>2. s * RowPages \in Phys /\ s * RowPages \in RowPhys(s)
    BY <1>1, FirstOfRow
  <1>3. /\ g \in [Phys -> Contents] /\ g[s * RowPages] = b
        /\ \A n \in Phys : n # s * RowPages => g[n] = f[n]
    BY <1>1, <1>2
  <1>4. \A n \in Phys : RowOf(n) # s => g[n] = f[n]
    BY <1>1, <1>2, <1>3, RowPage
  <1> HIDE DEF g
  <1>5. a \in Pages /\ a % 2 = 0 /\ a # Free /\ a + 1 \in Pages /\ Base(a + 1) = a /\ a + 1 # a /\ Base(a) = a
    <2>1. a \in Pages /\ a % 2 = 0
      BY <1>1 DEF RowSound
    <2>2. a = Base(a)
      BY <2>1, BaseIs
    <2> QED BY <2>1, <2>2, BaseType
  <1>6. \A r \in 0 .. MasterRow : r # s => First(g, r) = First(f, r)
    BY <1>4, FirstOfRow, RowPage DEF First
  <1>7. First(g, s) = a /\ First(g, old) = a
    BY <1>1, <1>3, <1>6 DEF First
  <1>8. \A r \in 0 .. MasterRow : First(g, r) = a => r \in {s, old}
    <2> SUFFICES ASSUME NEW r \in 0 .. MasterRow, First(g, r) = a, r # s PROVE r = old
      OBVIOUS
    <2>1. First(f, r) = a
      BY <1>6
    <2> QED BY <1>5, <2>1, RowBegins, SameRow
  <1>9. IsFullRow(g, s)
    <2>1. s * RowPages + 1 \in RowPhys(s) /\ s * RowPages + 2 \in RowPhys(s)
      BY <1>1, FirstOfRow
    <2>2. s * RowPages + 1 # s * RowPages /\ s * RowPages + 2 # s * RowPages
      BY <1>1, Sizes
    <2>3. g[s * RowPages + 1] = Erased /\ g[s * RowPages + 2] = Erased
      BY <1>1, <1>3, <2>1, <2>2
    <2> QED BY <2>3 DEF IsFullRow
  <1>10. IsFullRow(g, old)
    <2>1. old * RowPages + 1 \in RowPhys(old) /\ old * RowPages + 2 \in RowPhys(old)
      BY <1>1, FirstOfRow
    <2>2. /\ f[old * RowPages + 1].header = a + 1
          /\ f[old * RowPages + 2].header \in {a, a + 1}
      BY <1>1, <2>1 DEF RowSound, FullRow
    <2>3. g[old * RowPages + 1] = f[old * RowPages + 1] /\ g[old * RowPages + 2] = f[old * RowPages + 2]
      BY <1>1, <1>4, <2>1, RowPage
    <2> QED BY <1>7, <2>2, <2>3 DEF IsFullRow
  <1>11. \A r \in 0 .. MasterRow : r \notin {s, old} => Kept(g, r)
    <2> SUFFICES ASSUME NEW r \in 0 .. MasterRow, r \notin {s, old}, First(g, r) # Free,
                        NEW q \in 0 .. MasterRow, First(g, q) = First(g, r)
                 PROVE  q = r
      BY Sizes DEF Kept
    <2>1. First(g, r) # a /\ q \notin {s, old}
      BY <1>7, <1>8
    <2> QED BY <1>6, <2>1, RowBegins, SameRow
  <1>12. \A n \in Phys : check_logical_page(g)[n] = IF Kept(g, RowOf(n)) THEN g[n] ELSE Erased
    BY DEF check_logical_page
  <1>13. CASE s < old
    <2>1. ~Kept(g, s)
      BY <1>1, <1>5, <1>7, <1>9, <1>13 DEF Kept
    <2>2. Kept(g, old)
      <3> SUFFICES ASSUME NEW q \in 0 .. MasterRow, First(g, q) = a
                   PROVE  (q < old => IsFullRow(g, q)) /\ q <= old
        BY <1>7 DEF Kept
      <3> QED BY <1>1, <1>8, <1>9, <1>13
    <2>3. \A n \in Phys : check_logical_page(g)[n] = f[n]
      <3> SUFFICES ASSUME NEW n \in Phys PROVE check_logical_page(g)[n] = f[n]
        OBVIOUS
      <3>1. RowOf(n) = s => f[n] = Erased
        BY <1>1, PageInRow
      <3> QED BY <1>4, <1>11, <1>12, <2>1, <2>2, <3>1, PageInRow
    <2>4. check_logical_page(g) = f
      BY <1>1, <2>3 DEF check_logical_page
    <2>5. f[MasterPage].header = Master
      BY DEF Layout
    <2> QED BY <2>4, <2>5, SpareRowFound DEF Mounted, g
  <1>14. CASE old < s
    <2> DEFINE h == check_logical_page(g)
    <2>1. ~Kept(g, old)
      BY <1>1, <1>5, <1>7, <1>10, <1>14 DEF Kept
    <2>2. \A n \in Phys : RowOf(n) = old => h[n] = Erased
      BY <1>12, <2>1
    <2>3. \A n \in Phys : h[n] \in {Erased, g[n]}
      BY <1>12
    <2> HIDE DEF h
    <2>4. h[MasterPage].header = Master
      <3>1. MasterPage \in Phys /\ RowOf(MasterPage) = MasterRow /\ MasterRow \in 0 .. MasterRow
        BY Sizes DEF RowOf
      <3>2. h[MasterPage] = g[MasterPage] /\ g[MasterPage] = f[MasterPage]
        BY <1>1, <1>4, <1>11, <1>12, <3>1, DataRow DEF h
      <3> QED BY <3>2 DEF Layout
    <2>5. SpareRow(h) # NoRow
      <3> DEFINE spare == {r \in 0 .. MasterRow :
                             \A n \in RowPhys(r) \ {MasterPage} : h[n].header = Free}
      <3>1. old \in spare
        BY <1>1, <2>2, RowPage DEF Erased
      <3>2. spare \in SUBSET Nat /\ spare # {}
        BY <3>1
      <3>3. Min(spare) \in spare
        BY <3>2, MinType
      <3>4. Min(spare) # NoRow
        BY <3>3, Sizes DEF NoRow
      <3> HIDE DEF spare
      <3>5. SpareRow(h) = IF spare = {} THEN NoRow ELSE Min(spare)
        BY DEF SpareRow, spare
      <3> QED BY <3>2, <3>4, <3>5
    <2>6. Mounted(g) = h
      BY <2>4, <2>5 DEF Mounted, h
    <2>7. Copies(h, a + 1) = {}
      <3> SUFFICES ASSUME NEW n \in Copies(h, a + 1) PROVE FALSE
        OBVIOUS
      <3>1. n \in Phys /\ n # MasterPage /\ h[n].header = a + 1
        BY DEF Copies
      <3>2. a + 1 # Free
        BY <1>5, BaseType
      <3>3. RowOf(n) # old /\ h[n] = g[n]
        BY <2>2, <2>3, <3>1, <3>2 DEF Erased
      <3>4. n # s * RowPages
        BY <1>3, <1>5, <3>1, <3>3
      <3>5. n \in Copies(f, a + 1)
        BY <1>3, <3>1, <3>3, <3>4 DEF Copies
      <3>6. RowOf(n) \in DataRows \ {s} /\ First(f, RowOf(n)) = a
        BY <1>5, <3>5, CopyInRow
      <3> QED BY <3>3, <3>6, SameRow
    <2> QED BY <1>5, <2>6, <2>7 DEF g
  <1> QED BY <1>1, <1>13, <1>14
-----------------------------------------------------------------------------
(* What a write finds on the row of its page.                               *)

LEMMA FreePageIsNext ==
  ASSUME NEW f, NEW s, Layout(f, s), NEW p \in Pages, NEW n, NextCopy(f, s, p, n)
  PROVE  FreeOnRow(f, n) # {} /\ Min(FreeOnRow(f, n)) = n
  <1>1. n \in Phys /\ n \in Nat /\ n \in RowPhys(RowOf(n)) /\ f[n].header = Free
    BY PageInRow, PhysNat DEF NextCopy, Erased
  <1>2. n \in FreeOnRow(f, n)
    BY <1>1 DEF FreeOnRow
  <1>3. FreeOnRow(f, n) \in SUBSET Nat /\ \A m \in FreeOnRow(f, n) : n <= m
    BY <1>1, PageInRow, RowPage, PhysNat DEF FreeOnRow
  <1> QED BY <1>2, <1>3, MinIs

LEMMA FreePageFound ==
  ASSUME NEW f, NEW s, Layout(f, s), NEW p \in Pages, NEW n, LastCopy(f, p, n),
         Copies(f, Base(p) + 1) # {}
  PROVE  /\ RowOf(n) \in DataRows \ {s} /\ First(f, RowOf(n)) = Base(p)
         /\ FreeOnRow(f, n) # {} => NextCopy(f, s, p, Min(FreeOnRow(f, n)))
         /\ FreeOnRow(f, n) = {} => FullRow(f, RowOf(n))
  <1> DEFINE r == RowOf(n)
  <1>1. n \in Copies(f, p)
    BY DEF LastCopy
  <1>2. /\ n \in Phys /\ n \in Nat /\ f[n].header = p /\ n \in RowPhys(r)
        /\ r \in DataRows \ {s} /\ First(f, r) = Base(p)
    BY <1>1, CopyInRow, PhysNat
  <1>3. RowSound(f, r) /\ r \in 0 .. MasterRow
    BY <1>2, DataRow DEF Layout
  <1>4. \A m \in RowPhys(r) : m \in Phys /\ m \in Nat /\ RowOf(m) = r
    BY <1>3, RowPage, PhysNat
  <1>5. \A m \in RowPhys(r) : f[m].header = Free => n < m /\ m \in FreeOnRow(f, n)
    BY <1>1, <1>2, <1>4, CopiesBeforeErased DEF FreeOnRow
  <1>6. FreeOnRow(f, n) = {} => FullRow(f, r)
    BY <1>5 DEF FullRow
  <1>7. ASSUME FreeOnRow(f, n) # {}
        PROVE  NextCopy(f, s, p, Min(FreeOnRow(f, n)))
    <2> DEFINE m == Min(FreeOnRow(f, n))
    <2>1. FreeOnRow(f, n) \in SUBSET RowPhys(r) /\ FreeOnRow(f, n) \in SUBSET Nat
      BY <1>4 DEF FreeOnRow
    <2>2. m \in FreeOnRow(f, n) /\ \A k \in FreeOnRow(f, n) : m <= k
      BY <1>7, <2>1, MinType
    <2> HIDE DEF m
    <2>3. m \in RowPhys(r) /\ m \in Phys /\ m \in Nat /\ RowOf(m) = r /\ f[m].header = Free
      BY <1>4, <2>1, <2>2 DEF FreeOnRow
    <2>4. f[m] = Erased
      BY <1>3, <2>3 DEF RowSound
    <2>5. \A k \in RowPhys(r) : k < m => f[k].header # Free
      BY <1>4, <1>5, <2>2, <2>3
    <2>6. ASSUME m = r * RowPages + 1 PROVE p % 2 = 1
      <3> SUFFICES ASSUME p % 2 # 1 PROVE FALSE
        OBVIOUS
      <3>1. PICK k \in Copies(f, Base(p) + 1) : TRUE
        OBVIOUS
      <3>2. Base(p) + 1 \in Pages /\ Base(Base(p) + 1) = Base(p) /\ Base(p) + 1 # Base(p)
        BY BaseType
      <3>3. RowOf(k) = r /\ f[k].header = Base(p) + 1 /\ k \in RowPhys(r)
        BY <1>2, <3>1, <3>2, CopyInRow, SameRow
      <3>4. k < m
        BY <2>3, <3>1, <3>2, <3>3, CopiesBeforeErased
      <3>5. r * RowPages <= k /\ k \in Nat /\ r * RowPages \in Nat
        BY <1>3, <1>4, <3>3, RowPage, Sizes
      <3>6. k = r * RowPages
        BY <2>6, <3>4, <3>5
      <3> QED BY <1>2, <3>2, <3>3, <3>6 DEF First
    <2> QED BY <1>2, <2>3, <2>4, <2>5, <2>6 DEF NextCopy, m
  <1> QED BY <1>2, <1>6, <1>7

(* The copies of a page in a full row are where a move looks for them.      *)
LEMMA CopiesOfFullRow ==
  ASSUME NEW f, NEW s, Layout(f, s), NEW r \in DataRows \ {s}, FullRow(f, r), NEW c \in 0 .. 1
  PROVE  /\ f[r * RowPages + c].header = First(f, r) + c
         /\ First(f, r) + c \in Pages /\ First(f, r) = Base(First(f, r) + c)
         /\ Copies(f, First(f, r) + c) =
              {r * RowPages + c}
                \cup {m \in r * RowPages + 2 .. r * RowPages + 3 : f[m].header = f[r * RowPages + c].header}
  <1> DEFINE a == First(f, r)
             n == r * RowPages
  <1>1. r \in 0 .. MasterRow /\ RowSound(f, r) /\ MasterPage \notin RowPhys(r) /\ n \in Nat
    BY DataRow, Sizes DEF Layout
  <1>2. a \in Pages /\ a % 2 = 0 /\ a = Base(a) /\ a # Free /\ a + 1 \in Pages /\ Base(a + 1) = a
    <2>1. a \in Pages /\ a % 2 = 0
      BY <1>1 DEF RowSound
    <2>2. a = Base(a)
      BY <2>1, BaseIs
    <2> QED BY <2>1, <2>2, BaseType
  <1>3. \A d \in 0 .. 3 : n + d \in RowPhys(r)
    BY <1>1, RowPage
  <1>4. \A m \in RowPhys(r) : /\ f[m].header \in {a, a + 1} /\ m \in Phys /\ RowOf(m) = r
                              /\ \E d \in 0 .. 3 : m = n + d
    BY <1>1, RowPage DEF RowSound, FullRow
  <1>5. f[n].header = a /\ f[n + 1].header = a + 1
    <2>1. n + 1 \in RowPhys(r)
      BY <1>3
    <2> QED BY <1>1, <1>4, <2>1 DEF RowSound, First
  <1>6. f[n + c].header = a + c /\ a + c \in Pages /\ Base(a + c) = a
    BY <1>1, <1>2, <1>5, Sizes
  <1>7. \A m : m \in Copies(f, a + c) <=> m \in RowPhys(r) /\ f[m].header = a + c
    <2>1. \A m \in Copies(f, a + c) : m \in RowPhys(r) /\ f[m].header = a + c
      BY <1>6, CopyInRow, SameRow
    <2>2. \A m \in RowPhys(r) : f[m].header = a + c => m \in Copies(f, a + c)
      BY <1>1, <1>4 DEF Copies
    <2> QED BY <2>1, <2>2
  <1> HIDE DEF a, n
  <1>8. ASSUME NEW m
        PROVE  m \in RowPhys(r) /\ f[m].header = a + c
                 <=> m = n + c \/ (m \in n + 2 .. n + 3 /\ f[m].header = f[n + c].header)
    <2>1. ASSUME m \in RowPhys(r), f[m].header = a + c
          PROVE  m = n + c \/ m \in n + 2 .. n + 3
      <3>1. PICK d \in 0 .. 3 : m = n + d
        BY <1>4, <2>1
      <3>2. a + 1 # a
        BY <1>2, Sizes
      <3>3. d \in 0 .. 1 => d = c
        <4>1. a \in Int
          BY <1>2, Sizes
        <4>2. CASE d = 0
          <5>1. m = n
            BY <1>1, <3>1, <4>2
          <5>2. a + c = a
            BY <1>5, <2>1, <5>1
          <5> QED BY <4>1, <4>2, <5>2
        <4>3. CASE d = 1
          <5>1. a + c = a + 1
            BY <1>5, <2>1, <3>1, <4>3
          <5> QED BY <4>1, <4>3, <5>1
        <4> QED BY <4>2, <4>3
      <3> QED BY <1>1, <3>1, <3>3
    <2>2. n + c \in RowPhys(r)
      BY <1>3
    <2>3. \A k \in n + 2 .. n + 3 : k \in RowPhys(r)
      <3>1. n + 2 \in RowPhys(r) /\ n + 3 \in RowPhys(r)
        BY <1>3
      <3> QED BY <1>1, <3>1
    <2> QED BY <1>6, <2>1, <2>2, <2>3
  <1>9. Copies(f, a + c) = {n + c} \cup {m \in n + 2 .. n + 3 : f[m].header = f[n + c].header}
    BY <1>7, <1>8
  <1> QED BY <1>6, <1>9 DEF a, n

(* When the old row is erased, the pair is in the new one: its first page   *)
(* there, its second page in the cache.  The old row is the spare one.      *)
LEMMA EraseSound ==
  ASSUME NEW f, NEW s, Layout(f, s), NEW old \in DataRows \ {s}, NEW b \in Contents,
         b.header = First(f, old), b.data # Garbage,
         NEW h \in [Phys -> Contents], h[s * RowPages] = b,
         \A n \in RowPhys(old) : h[n] = Erased,
         \A n \in Phys : RowOf(n) # old /\ n # s * RowPages => h[n] = f[n]
  PROVE  /\ Layout(h, old)
         /\ LastCopy(h, b.header, s * RowPages)
         /\ Copies(h, b.header + 1) = {} /\ NextCopy(h, old, b.header + 1, s * RowPages + 1)
         /\ \A q \in Pages \ {b.header, b.header + 1} :
              /\ Copies(h, q) = Copies(f, q)
              /\ \A n \in Copies(f, q) : h[n] = f[n]
  <1> DEFINE a == b.header
             n0 == s * RowPages
  <1>1. /\ s \in 0 .. MasterRow /\ old \in 0 .. MasterRow /\ old # s
        /\ s \in DataRows /\ old \in DataRows /\ s # MasterRow /\ old # MasterRow
        /\ RowSound(f, old) /\ \A n \in RowPhys(s) : f[n] = Erased
    BY DataRow DEF Layout
  <1>0. /\ \A n \in RowPhys(s) : n \in Phys /\ n \in Nat /\ RowOf(n) = s /\ n0 <= n
        /\ n0 \in Nat
    <2>1. s \in Nat
      BY <1>1
    <2> QED BY <1>1, <2>1, RowPage, PhysNat, Sizes
  <1>2. n0 \in Phys /\ n0 \in RowPhys(s) /\ RowOf(n0) = s /\ n0 + 1 \in RowPhys(s) /\ n0 # MasterPage
    BY <1>0, <1>1, FirstOfRow
  <1>4. /\ h \in [Phys -> Contents]
        /\ \A n \in RowPhys(old) : h[n] = Erased
    OBVIOUS
  <1>5. h[n0] = b
    OBVIOUS
  <1>6. \A n \in Phys : RowOf(n) # old /\ n # n0 => h[n] = f[n]
    OBVIOUS
  <1> HIDE DEF n0
  <1>7. a \in Pages /\ a % 2 = 0 /\ a # Free /\ a + 1 \in Pages /\ a + 1 # a /\ Base(a + 1) = a
        /\ (a + 1) % 2 = 1 /\ Base(a) = a
    <2>1. a \in Pages /\ a % 2 = 0
      BY <1>1 DEF RowSound
    <2>2. a = Base(a)
      BY <2>1, BaseIs
    <2> QED BY <2>1, <2>2, BaseType
  <1> HIDE DEF a
  <1>8. First(h, s) = a
    BY <1>5 DEF First, n0, a
  <1>9. \A r \in 0 .. MasterRow : r \notin {s, old} =>
          First(h, r) = First(f, r) /\ \A n \in RowPhys(r) : n \in Phys /\ h[n] = f[n]
    <2> SUFFICES ASSUME NEW r \in 0 .. MasterRow, r \notin {s, old}
                 PROVE  First(h, r) = First(f, r) /\ \A n \in RowPhys(r) : n \in Phys /\ h[n] = f[n]
      OBVIOUS
    <2>1. \A n \in RowPhys(r) : n \in Phys /\ h[n] = f[n]
      BY <1>2, <1>6, RowPage
    <2> QED BY <2>1, FirstOfRow DEF First
  <1>10. \A n \in RowPhys(s) : n # n0 => h[n] = Erased
    BY <1>0, <1>1, <1>6
  <1>11. RowSound(h, s)
    <2> SUFFICES ASSUME NEW n \in RowPhys(s)
                 PROVE  /\ h[n].header \in {a, a + 1, Free}
                        /\ n = n0 + 1 => h[n].header # a
                        /\ h[n].header = Free => \A m \in RowPhys(s) : n <= m => h[m] = Erased
      BY <1>7, <1>8 DEF RowSound, n0
    <2>1. CASE n = n0
      BY <1>0, <1>5, <1>7, <2>1 DEF a
    <2>2. CASE n # n0
      <3>1. h[n] = Erased /\ n0 < n
        BY <1>0, <1>10, <2>2
      <3>2. \A m \in RowPhys(s) : n <= m => h[m] = Erased
        BY <1>0, <1>10, <3>1
      <3> QED BY <1>7, <3>1, <3>2 DEF Erased
    <2> QED BY <2>1, <2>2
  <1>12. \A r \in DataRows \ {old} : RowSound(h, r)
    <2> SUFFICES ASSUME NEW r \in DataRows \ {old}, r # s PROVE RowSound(h, r)
      BY <1>11
    <2>1. RowSound(f, r) /\ r \in 0 .. MasterRow
      BY DataRow DEF Layout
    <2> QED BY <1>9, <2>1 DEF RowSound
  <1>13. ASSUME NEW r \in DataRows \ {s, old} PROVE First(f, r) # a
    BY SameRow DEF a
  <1>14. \A q, r \in DataRows \ {old} : First(h, q) = First(h, r) => q = r
    <2> SUFFICES ASSUME NEW q \in DataRows \ {old}, NEW r \in DataRows \ {old},
                        First(h, q) = First(h, r)
                 PROVE  q = r
      OBVIOUS
    <2>1. q # s => First(h, q) = First(f, q) /\ First(f, q) # a
      BY <1>9, <1>13, DataRow
    <2>2. r # s => First(h, r) = First(f, r) /\ First(f, r) # a
      BY <1>9, <1>13, DataRow
    <2>3. ASSUME q # s, r # s PROVE q = r
      <3>1. First(f, q) = First(f, r)
        BY <2>1, <2>2, <2>3
      <3> QED BY <2>3, <3>1, SameRow
    <2> QED BY <1>8, <2>1, <2>2, <2>3
  <1>15. Layout(h, old)
    <2>1. \A n \in Phys : h[n].data # Garbage
      <3> SUFFICES ASSUME NEW n \in Phys PROVE h[n].data # Garbage
        OBVIOUS
      <3>1. Erased.data # Garbage
        <4>1. f[n0].data # Garbage /\ f[n0] = Erased
          BY <1>1, <1>2 DEF Layout
        <4> QED BY <4>1
      <3>2. RowOf(n) = old => h[n] = Erased
        BY <1>1, <1>4, RowPhysOf
      <3> QED BY <1>5, <1>6, <3>1, <3>2 DEF Layout
    <2>2. MasterRow \in 0 .. MasterRow /\ MasterPage \in RowPhys(MasterRow)
      BY Sizes DEF RowPhys
    <2>3. \A n \in RowPhys(MasterRow) : h[n] = f[n]
      BY <1>1, <1>9, <2>2
    <2>4. h[MasterPage].header = Master /\ \A n \in RowPhys(MasterRow) \ {MasterPage} : h[n] = Erased
      BY <2>2, <2>3 DEF Layout
    <2> QED BY <1>1, <1>4, <1>12, <1>14, <2>1, <2>4 DEF Layout
  <1>21. \A r \in DataRows \ {old} : First(h, r) = a => r = s
    BY <1>1, <1>8, <1>14
  <1>16. Copies(h, a + 1) = {}
    <2> SUFFICES ASSUME NEW n \in Copies(h, a + 1) PROVE FALSE
      OBVIOUS
    <2>1. RowOf(n) = s /\ n \in RowPhys(s) /\ h[n].header = a + 1
      <3>1. /\ RowOf(n) \in DataRows \ {old} /\ First(h, RowOf(n)) = a
            /\ n \in RowPhys(RowOf(n)) /\ h[n].header = a + 1
        BY <1>7, <1>15, CopyInRow
      <3>2. RowOf(n) = s
        BY <3>1, <1>21
      <3> QED BY <3>1, <3>2
    <2>2. h[n0].header = a /\ a + 1 # Free
      BY <1>5, <1>7, BaseType DEF a
    <2> QED BY <1>7, <1>10, <2>1, <2>2 DEF Erased
  <1>17. Copies(h, a) = {n0}
    <2>1. n0 \in Copies(h, a)
      BY <1>2, <1>5 DEF Copies, a
    <2>2. ASSUME NEW n \in Copies(h, a) PROVE n = n0
      <3>1. RowOf(n) = s /\ n \in RowPhys(s) /\ h[n].header = a
        <4>1. /\ RowOf(n) \in DataRows \ {old} /\ First(h, RowOf(n)) = a
              /\ n \in RowPhys(RowOf(n)) /\ h[n].header = a
          BY <1>7, <1>15, <2>2, CopyInRow
        <4>2. RowOf(n) = s
          BY <4>1, <1>21
        <4> QED BY <4>1, <4>2
      <3> QED BY <1>7, <1>10, <3>1 DEF Erased
    <2> QED BY <2>1, <2>2
  <1>18. LastCopy(h, a, n0)
    BY <1>0, <1>17 DEF LastCopy
  <1>19. NextCopy(h, old, a + 1, n0 + 1)
    <2>1. n0 + 1 \in Phys /\ RowOf(n0 + 1) = s /\ n0 + 1 # n0
      BY <1>0, <1>2
    <2>2. h[n0 + 1] = Erased
      BY <1>2, <1>10, <2>1
    <2>3. \A m \in RowPhys(s) : m < n0 + 1 => h[m].header # Free
      <3> SUFFICES ASSUME NEW m \in RowPhys(s), m < n0 + 1 PROVE h[m].header # Free
        OBVIOUS
      <3>1. m = n0
        BY <1>0
      <3> QED BY <1>5, <1>7, <3>1 DEF a
    <2> QED BY <1>1, <1>7, <1>8, <2>1, <2>2, <2>3 DEF NextCopy
  <1>20. ASSUME NEW q \in Pages \ {a, a + 1}
         PROVE  Copies(h, q) = Copies(f, q) /\ \A n \in Copies(f, q) : h[n] = f[n]
    <2>1. Erased.header # q
      BY BaseType DEF Erased
    <2>2. \A n \in Copies(f, q) : RowOf(n) # old /\ n # n0
      <3> SUFFICES ASSUME NEW n \in Copies(f, q) PROVE RowOf(n) # old /\ n # n0
        OBVIOUS
      <3>1. First(f, RowOf(n)) = Base(q) /\ RowOf(n) # s
        BY CopyInRow
      <3>2. Base(q) # a
        <4>1. q = Base(q) \/ q = Base(q) + 1
          BY BaseType
        <4> QED BY <4>1
      <3> QED BY <1>2, <3>1, <3>2 DEF a
    <2>3. \A n \in Copies(f, q) : h[n] = f[n]
      BY <1>6, <2>2 DEF Copies
    <2>4. \A n \in Copies(h, q) : n \in Copies(f, q)
      <3> SUFFICES ASSUME NEW n \in Copies(h, q) PROVE n \in Copies(f, q)
        OBVIOUS
      <3>1. n \in Phys /\ n # MasterPage /\ h[n].header = q
        BY DEF Copies
      <3>2. RowOf(n) # old
        BY <1>1, <1>4, <2>1, <3>1, RowPhysOf
      <3>3. n # n0
        BY <1>5, <3>1 DEF a
      <3> QED BY <1>6, <3>1, <3>2, <3>3 DEF Copies
    <2>5. \A n \in Copies(f, q) : n \in Copies(h, q)
      BY <2>3 DEF Copies
    <2> QED BY <2>3, <2>4, <2>5
  <1> QED BY <1>15, <1>16, <1>18, <1>19, <1>20 DEF a, n0
-----------------------------------------------------------------------------
(* A formatted flash.                                                       *)

LEMMA FormattedPages ==
  /\ Formatted \in [Phys -> Contents]
  /\ Formatted[MasterPage] = [Erased EXCEPT !.header = Master]
  /\ \A r \in 0 .. MasterRow : \A c \in 0 .. 3 :
       r * RowPages + c # MasterPage =>
         Formatted[r * RowPages + c] =
           IF r \in 1 .. MasterRow - 1 /\ c < 2
           THEN [header |-> 2 * (r - 1) + c, data |-> Blank] ELSE Erased
  /\ \A r \in 1 .. MasterRow - 1 : 2 * (r - 1) \in Pages /\ 2 * (r - 1) + 1 \in Pages
  /\ \A n \in Phys : Formatted[n].data = Blank
  <1>1. \A r \in 1 .. MasterRow - 1 : 2 * (r - 1) \in Pages /\ 2 * (r - 1) + 1 \in Pages
    BY Sizes
  <1>2. \A n \in Phys : /\ RowOf(n) \in Int /\ n % RowPages \in 0 .. 3
    BY Sizes DEF RowOf
  <1>3. /\ Erased \in Contents /\ [Erased EXCEPT !.header = Master] \in Contents
        /\ \A p \in Pages : [Erased EXCEPT !.header = p] = [header |-> p, data |-> Blank]
        /\ \A p \in Pages : [header |-> p, data |-> Blank] \in Contents
    BY DEF Erased, Contents, Data
  <1>4. \A n \in Phys : Formatted[n] =
          IF n = MasterPage THEN [Erased EXCEPT !.header = Master]
          ELSE IF RowOf(n) \in 1 .. MasterRow - 1 /\ n % RowPages < 2
          THEN [Erased EXCEPT !.header = 2 * (RowOf(n) - 1) + (n % RowPages)]
          ELSE Erased
    <2> SUFFICES ASSUME NEW n \in Phys
                 PROVE  /\ n = MasterPage => Formatted[n] = [Erased EXCEPT !.header = Master]
                        /\ n # MasterPage /\ RowOf(n) \in 1 .. MasterRow - 1 /\ n % RowPages < 2
                             => Formatted[n] = [Erased EXCEPT !.header = 2 * (RowOf(n) - 1) + (n % RowPages)]
                        /\ n # MasterPage /\ ~(RowOf(n) \in 1 .. MasterRow - 1 /\ n % RowPages < 2)
                             => Formatted[n] = Erased
      OBVIOUS
    <2>1. n = MasterPage => Formatted[n] = [Erased EXCEPT !.header = Master]
      BY Sizes, PageInRow DEF Formatted
    <2>2. n # MasterPage /\ RowOf(n) \in 1 .. MasterRow - 1 /\ n % RowPages < 2
            => Formatted[n] = [Erased EXCEPT !.header = 2 * (RowOf(n) - 1) + (n % RowPages)]
      BY DEF Formatted
    <2>3. n # MasterPage /\ ~(RowOf(n) \in 1 .. MasterRow - 1 /\ n % RowPages < 2)
            => Formatted[n] = Erased
      BY DEF Formatted
    <2> QED BY <2>1, <2>2, <2>3
  <1>5. ASSUME NEW n \in Phys, RowOf(n) \in 1 .. MasterRow - 1, n % RowPages < 2
        PROVE  2 * (RowOf(n) - 1) + (n % RowPages) \in Pages
    <2>1. n % RowPages = 0 \/ n % RowPages = 1
      BY <1>2, <1>5
    <2>2. 2 * (RowOf(n) - 1) \in Pages /\ 2 * (RowOf(n) - 1) + 1 \in Pages
      BY <1>1, <1>5
    <2>3. 2 * (RowOf(n) - 1) + 0 = 2 * (RowOf(n) - 1)
      BY <1>2
    <2> QED BY <2>1, <2>2, <2>3
  <1>6. \A n \in Phys : Formatted[n] \in Contents /\ Formatted[n].data = Blank
    <2> SUFFICES ASSUME NEW n \in Phys
                 PROVE  Formatted[n] \in Contents /\ Formatted[n].data = Blank
      OBVIOUS
    <2>1. CASE n = MasterPage
      BY <1>3, <1>4, <2>1 DEF Erased
    <2>2. CASE n # MasterPage /\ RowOf(n) \in 1 .. MasterRow - 1 /\ n % RowPages < 2
      <3> DEFINE p == 2 * (RowOf(n) - 1) + (n % RowPages)
      <3>1. p \in Pages /\ Formatted[n] = [Erased EXCEPT !.header = p]
        BY <1>4, <1>5, <2>2
      <3> HIDE DEF p
      <3> QED BY <1>3, <3>1
    <2>3. CASE n # MasterPage /\ ~(RowOf(n) \in 1 .. MasterRow - 1 /\ n % RowPages < 2)
      <3>1. Formatted[n] = Erased
        BY <1>4, <2>3
      <3> QED BY <1>3, <3>1 DEF Erased
    <2> QED BY <2>1, <2>2, <2>3
  <1>7. Formatted \in [Phys -> Contents]
    <2>1. Formatted = [n \in Phys |-> Formatted[n]]
      BY DEF Formatted
    <2> QED BY <1>6, <2>1
  <1>8. Formatted[MasterPage] = [Erased EXCEPT !.header = Master]
    BY <1>4, Sizes
  <1>9. ASSUME NEW r \in 0 .. MasterRow, NEW c \in 0 .. 3, r * RowPages + c # MasterPage
        PROVE  Formatted[r * RowPages + c] =
                 IF r \in 1 .. MasterRow - 1 /\ c < 2
                 THEN [header |-> 2 * (r - 1) + c, data |-> Blank] ELSE Erased
    <2> DEFINE n == r * RowPages + c
    <2>1. n \in Phys /\ RowOf(n) = r
      BY RowPage
    <2>2. n % RowPages = c
      BY Sizes
    <2> HIDE DEF n
    <2>3. RowOf(n) \in 1 .. MasterRow - 1 /\ n % RowPages < 2
            => [Erased EXCEPT !.header = 2 * (r - 1) + c] = [header |-> 2 * (r - 1) + c, data |-> Blank]
      BY <1>3, <1>5, <2>1, <2>2
    <2>4. n # MasterPage
      BY <1>9 DEF n
    <2>5. Formatted[n] = IF r \in 1 .. MasterRow - 1 /\ c < 2
                         THEN [header |-> 2 * (r - 1) + c, data |-> Blank] ELSE Erased
      BY <1>4, <2>1, <2>2, <2>3, <2>4
    <2> QED BY <2>5 DEF n
  <1> QED BY <1>1, <1>6, <1>7, <1>8, <1>9

LEMMA FormattedSound ==
  Layout(Formatted, 0) /\ \A p \in Pages : Copies(Formatted, p) # {}
  <1> DEFINE F == Formatted
  <1>1. /\ F \in [Phys -> Contents] /\ F[MasterPage].header = Master
        /\ \A n \in Phys : F[n].data # Garbage
    <2>1. Blank # Garbage
      <3>1. 0 \in DOMAIN Writes
        BY DataAssumption, Sizes DEF DataAssumption
      <3> QED BY <3>1, DataAssumption DEF DataAssumption
    <2> QED BY <2>1, FormattedPages DEF Erased
  <1>2. \A r \in 0 .. MasterRow : \A c \in 0 .. 3 :
          r * RowPages + c # MasterPage =>
            F[r * RowPages + c] = IF r \in 1 .. MasterRow - 1 /\ c < 2
                                  THEN [header |-> 2 * (r - 1) + c, data |-> Blank] ELSE Erased
    BY FormattedPages
  <1>3. \A r \in 1 .. MasterRow - 1 : 2 * (r - 1) \in Pages /\ 2 * (r - 1) + 1 \in Pages
    BY FormattedPages
  <1> HIDE DEF F
  <1>4. 0 \in DataRows /\ 0 \in 0 .. MasterRow /\ MasterRow \in 0 .. MasterRow
        /\ 0 \notin 1 .. MasterRow - 1 /\ MasterRow \notin 1 .. MasterRow - 1
    BY Sizes DEF DataRows
  <1>5. \A n \in RowPhys(0) : F[n] = Erased
    <2> SUFFICES ASSUME NEW n \in RowPhys(0) PROVE F[n] = Erased
      OBVIOUS
    <2>1. PICK c \in 0 .. 3 : n = 0 * RowPages + c
      BY <1>4, RowPage
    <2>2. n # MasterPage
      BY <1>4, DataRow
    <2> QED BY <1>2, <1>4, <2>1, <2>2
  <1>6. \A n \in RowPhys(MasterRow) \ {MasterPage} : F[n] = Erased
    <2> SUFFICES ASSUME NEW n \in RowPhys(MasterRow), n # MasterPage PROVE F[n] = Erased
      OBVIOUS
    <2>1. PICK c \in 0 .. 3 : n = MasterRow * RowPages + c
      BY <1>4, RowPage
    <2> QED BY <1>2, <1>4, <2>1
  <1>7. ASSUME NEW r \in DataRows \ {0}
        PROVE  /\ r \in 1 .. MasterRow - 1 /\ r \in 0 .. MasterRow /\ r \in Int
               /\ First(F, r) = 2 * (r - 1)
               /\ \A c \in 0 .. 3 : F[r * RowPages + c] =
                    IF c < 2 THEN [header |-> 2 * (r - 1) + c, data |-> Blank] ELSE Erased
    <2>1. r \in 1 .. MasterRow - 1 /\ r \in 0 .. MasterRow /\ r \in Int
      BY Sizes DEF DataRows
    <2>2. \A c \in 0 .. 3 : r * RowPages + c # MasterPage
      BY <2>1, DataRow, RowPage
    <2>3. \A c \in 0 .. 3 : F[r * RowPages + c] =
            IF c < 2 THEN [header |-> 2 * (r - 1) + c, data |-> Blank] ELSE Erased
      BY <1>2, <2>1, <2>2
    <2>4. F[r * RowPages + 0].header = 2 * (r - 1) + 0
      BY <2>3
    <2>5. r * RowPages + 0 = r * RowPages /\ 2 * (r - 1) + 0 = 2 * (r - 1)
      BY <2>1, Sizes
    <2> QED BY <2>1, <2>3, <2>4, <2>5 DEF First
  <1>8. ASSUME NEW r \in DataRows \ {0} PROVE RowSound(F, r)
    <2> DEFINE a == 2 * (r - 1)
    <2>1. a \in Pages /\ a % 2 = 0 /\ First(F, r) = a /\ a # Free /\ a + 1 # Free /\ a + 1 # a /\ a \in Int
      <3>1. a \in Pages /\ a + 1 \in Pages
        BY <1>3, <1>7
      <3>2. a % 2 = 0
        <4>1. \A k \in Int : (2 * k) % 2 = 0
          OBVIOUS
        <4>2. r - 1 \in Int
          BY Sizes DEF DataRows
        <4> QED BY <4>1, <4>2
      <3>3. First(F, r) = a
        BY <1>7
      <3> HIDE DEF a
      <3>4. a # Free /\ a + 1 # Free
        BY <3>1, BaseType
      <3>5. a \in Int
        BY <3>1, Sizes
      <3> QED BY <3>1, <3>2, <3>3, <3>4, <3>5
    <2>2. \A c \in 0 .. 3 : F[r * RowPages + c] =
            IF c < 2 THEN [header |-> a + c, data |-> Blank] ELSE Erased
      BY <1>7
    <2> HIDE DEF a
    <2>3. r \in Nat /\ r * RowPages \in Nat
      <3>1. r \in Nat /\ RowPages = 4
        BY Sizes DEF DataRows
      <3> QED BY <3>1
    <2> SUFFICES ASSUME NEW n \in RowPhys(r)
                 PROVE  /\ F[n].header \in {a, a + 1, Free}
                        /\ n = r * RowPages + 1 => F[n].header # a
                        /\ F[n].header = Free => \A m \in RowPhys(r) : n <= m => F[m] = Erased
      BY <2>1 DEF RowSound
    <2>4. PICK c \in 0 .. 3 : n = r * RowPages + c
      BY <1>7, RowPage
    <2>5. F[n].header = IF c < 2 THEN a + c ELSE Free
      BY <2>2, <2>4 DEF Erased
    <2>6. F[n].header \in {a, a + 1, Free}
      BY <2>1, <2>5
    <2>7. ASSUME n = r * RowPages + 1 PROVE F[n].header # a
      <3>1. c = 1
        BY <2>3, <2>4, <2>7
      <3> QED BY <2>1, <2>5, <3>1
    <2>8. ASSUME F[n].header = Free, NEW m \in RowPhys(r), n <= m PROVE F[m] = Erased
      <3>1. PICK d \in 0 .. 3 : m = r * RowPages + d
        BY <1>7, RowPage
      <3>2. ~(c < 2)
        <4> SUFFICES ASSUME c < 2 PROVE FALSE
          OBVIOUS
        <4>1. c = 0 \/ c = 1
          OBVIOUS
        <4> QED BY <2>1, <2>5, <2>8, <4>1
      <3>3. c <= d
        BY <2>3, <2>4, <2>8, <3>1
      <3> QED BY <2>2, <3>1, <3>2, <3>3
    <2> QED BY <2>6, <2>7, <2>8
  <1>9. \A q, r \in DataRows \ {0} : First(F, q) = First(F, r) => q = r
    <2> SUFFICES ASSUME NEW q \in DataRows \ {0}, NEW r \in DataRows \ {0}, First(F, q) = First(F, r)
                 PROVE  q = r
      OBVIOUS
    <2>1. 2 * (q - 1) = 2 * (r - 1) /\ q \in Int /\ r \in Int
      BY <1>7
    <2> QED BY <2>1
  <1>10. Layout(F, 0)
    BY <1>1, <1>4, <1>5, <1>6, <1>8, <1>9 DEF Layout
  <1>11. ASSUME NEW p \in Pages PROVE Copies(F, p) # {}
    <2> DEFINE r == (p \div 2) + 1
               c == p % 2
    <2>1. r \in DataRows \ {0} /\ c \in 0 .. 3 /\ c < 2 /\ p = 2 * (r - 1) + c
      BY Sizes DEF DataRows
    <2> HIDE DEF r, c
    <2>2. F[r * RowPages + c].header = p
      <3>1. \A d \in 0 .. 3 : F[r * RowPages + d] =
              IF d < 2 THEN [header |-> 2 * (r - 1) + d, data |-> Blank] ELSE Erased
        BY <1>7, <2>1
      <3>2. F[r * RowPages + c] = [header |-> 2 * (r - 1) + c, data |-> Blank]
        BY <2>1, <3>1
      <3> QED BY <2>1, <3>2
    <2>3. r * RowPages + c \in Phys /\ r * RowPages + c # MasterPage
      BY <1>7, <2>1, DataRow, RowPage
    <2>4. r * RowPages + c \in Copies(F, p)
      BY <2>2, <2>3 DEF Copies
    <2> QED BY <2>4
  <1> QED BY <1>10, <1>11 DEF F
-----------------------------------------------------------------------------
(* The state after a start, and after a commit.                             *)

LEMMA Types ==
  /\ Erased \in Contents /\ NoRequest \in [page : Pages \cup {Free}, data : Data] /\ 0 \in Phys
  /\ Blank # Garbage
  /\ \A p \in Pages : \A v \in Writes[p] : v \in Data /\ v # Garbage
  /\ \A p \in Pages : \A v \in Data : [header |-> p, data |-> v] \in Contents
  <1>1. \A p \in Pages : \A v \in Writes[p] : v \in Data
    BY DEF Data
  <1>2. \A p \in Pages : Garbage \notin Writes[p] \cup {Blank}
    BY DataAssumption DEF DataAssumption, Pages
  <1>3. 0 \in Pages /\ 0 \in Phys
    BY Sizes
  <1>4. \A p \in Pages : \A v \in Data : [header |-> p, data |-> v] \in Contents
    BY DEF Contents
  <1>5. Blank # Garbage /\ \A p \in Pages : \A v \in Writes[p] : v # Garbage
    BY <1>2, <1>3
  <1>6. Erased \in Contents /\ NoRequest \in [page : Pages \cup {Free}, data : Data]
    BY DEF Erased, NoRequest, Contents, Data
  <1> QED BY <1>1, <1>3, <1>4, <1>5, <1>6

LEMMA MappedSound ==
  ASSUME NEW f, NEW s, Layout(f, s), \A p \in Pages : Copies(f, p) # {}
  PROVE  /\ Mapping(f) \in [Pages -> Phys] /\ SpareRow(f) = s /\ s \in 0 .. MasterRow
         /\ \A p \in Pages : LastCopy(f, p, Mapping(f)[p])
  <1>1. \A p \in Pages : LastCopy(f, p, Mapping(f)[p])
    BY MappingSound
  <1>2. \A p \in Pages : Mapping(f)[p] \in Phys
    BY <1>1, LastCopyIs
  <1>3. Mapping(f) = [p \in Pages |-> Mapping(f)[p]]
    BY DEF Mapping
  <1>4. s \in 0 .. MasterRow
    BY DataRow DEF Layout
  <1> QED BY <1>1, <1>2, <1>3, <1>4, SpareRowFound

LEMMA InitIInv == Init => IInv
  <1> SUFFICES ASSUME Init PROVE IInv
    OBVIOUS
  <1>1. /\ flash = Formatted /\ page_map = Mapping(flash) /\ spare_row = SpareRow(flash)
        /\ cache = Erased /\ cache_active = FALSE /\ nvm_buffer = Erased
        /\ pc = "idle" /\ request = NoRequest /\ target = 0
    BY DEF Init
  <1>2. Layout(flash, 0) /\ \A p \in Pages : Copies(flash, p) # {}
    BY <1>1, FormattedSound
  <1>3. /\ page_map \in [Pages -> Phys] /\ spare_row = 0 /\ spare_row \in 0 .. MasterRow
        /\ \A p \in Pages : LastCopy(flash, p, page_map[p])
    BY <1>1, <1>2, MappedSound
  <1>4. flash \in [Phys -> Contents]
    BY <1>2 DEF Layout
  <1>5. TypeOK
    BY <1>1, <1>3, <1>4, Types DEF TypeOK
  <1>6. CacheSound /\ RequestSound
    BY <1>1 DEF CacheSound, RequestSound
  <1>7. Settled
    BY <1>1, <1>2, <1>3 DEF Settled, IsCached
  <1> QED BY <1>1, <1>5, <1>6, <1>7 DEF IInv, Moving

(* A commit programs the cached page into the place of its next copy: every *)
(* page is then in the flash as it was read before.                         *)
LEMMA CommitSound ==
  ASSUME IInv, ~Moving
  PROVE  /\ Layout(CommittedFlash, spare_row)
         /\ \A p \in Pages : LastCopy(CommittedFlash, p, page_map[p])
         /\ \A p \in Pages : CommittedFlash[page_map[p]].data = ReadPage(p)
         /\ \A r \in 0 .. MasterRow : First(CommittedFlash, r) = First(flash, r)
  <1>1. TypeOK /\ CacheSound /\ Settled
    BY DEF IInv
  <1>2. CASE ~cache_active
    <2>1. CommittedFlash = flash
      BY <1>2 DEF CommittedFlash
    <2> QED BY <1>1, <1>2, <2>1 DEF Settled, IsCached, ReadPage
  <1>3. CASE cache_active
    <2> DEFINE c == cache.header
               n == page_map[c]
               g == CommittedFlash
    <2>1. c \in Pages /\ cache \in Contents /\ cache.data # Garbage /\ nvm_buffer = cache
      BY <1>1, <1>3 DEF TypeOK, CacheSound
    <2>2. NextCopy(flash, spare_row, c, n) /\ Layout(flash, spare_row)
      BY <1>1, <1>3, <2>1 DEF Settled, IsCached
    <2>3. g = Programmed(flash, n, cache)
      BY <1>3, <2>1 DEF CommittedFlash
    <2> HIDE DEF g
    <2>4. /\ g = [flash EXCEPT ![n] = cache] /\ Layout(g, spare_row) /\ LastCopy(g, c, n)
          /\ \A q \in Pages \ {c} : Copies(g, q) = Copies(flash, q)
          /\ \A r \in 0 .. MasterRow : First(g, r) = First(flash, r)
      BY <2>1, <2>2, <2>3, ProgramNext
    <2>5. flash \in [Phys -> Contents] /\ n \in Phys /\ flash[n] = Erased
      BY <2>2 DEF Layout, NextCopy
    <2>6. ASSUME NEW q \in Pages, q # c
          PROVE  LastCopy(g, q, page_map[q]) /\ g[page_map[q]].data = ReadPage(q)
      <3>1. LastCopy(flash, q, page_map[q])
        BY <1>1, <2>6 DEF Settled, IsCached
      <3>2. page_map[q] \in Phys /\ flash[page_map[q]].header = q
        BY <3>1, LastCopyIs
      <3>3. page_map[q] # n
        BY <2>5, <3>2, BaseType DEF Erased
      <3>4. g[page_map[q]] = flash[page_map[q]]
        BY <2>4, <2>5, <3>2, <3>3
      <3>5. LastCopy(g, q, page_map[q])
        <4>1. Copies(g, q) = Copies(flash, q)
          BY <2>4, <2>6
        <4> QED BY <3>1, <4>1 DEF LastCopy
      <3>6. ReadPage(q) = flash[page_map[q]].data
        BY <2>6 DEF ReadPage
      <3> QED BY <3>4, <3>5, <3>6
    <2>7. g[n].data = ReadPage(c)
      BY <1>3, <2>4, <2>5 DEF ReadPage
    <2> QED BY <2>4, <2>6, <2>7 DEF g
  <1> QED BY <1>2, <1>3
-----------------------------------------------------------------------------
(* The steps of a write keep the invariant.                                 *)

(* The flash at the end of the commit that a write starts with.             *)
LEMMA StartedFlash ==
  ASSUME IInv, pc = "idle", NEW p \in Pages, NEW g, NEW active,
         g = IF cache_active /\ cache.header # p THEN CommittedFlash ELSE flash,
         active <=> IsCached(p)
  PROVE  /\ Layout(g, spare_row) /\ g \in [Phys -> Contents]
         /\ \A q \in Pages : IF active /\ q = p THEN NextCopy(g, spare_row, q, page_map[q])
                                               ELSE LastCopy(g, q, page_map[q])
  <1>1. Settled /\ ~Moving
    BY DEF IInv, Moving
  <1>2. CASE cache_active /\ cache.header # p
    <2>1. ~active /\ g = CommittedFlash
      BY <1>2 DEF IsCached
    <2> QED BY <1>1, <2>1, CommitSound DEF Layout
  <1>3. CASE ~(cache_active /\ cache.header # p)
    <2>1. g = flash /\ Layout(g, spare_row)
      BY <1>1, <1>3 DEF Settled
    <2>2. \A q \in Pages : IsCached(q) <=> active /\ q = p
      BY <1>3 DEF IsCached
    <2> QED BY <1>1, <2>1, <2>2 DEF Settled, Layout
  <1> QED BY <1>2, <1>3

(* A write of page p with the data v begins.                                *)
Starts(p, v) ==
  LET commit == cache_active /\ cache.header # p
      free == FreeOnRow(flash', page_map[p])
  IN /\ request' = [page |-> p, data |-> v]
     /\ flash' = IF commit THEN CommittedFlash ELSE flash
     /\ nvm_buffer' = IF commit THEN Erased ELSE nvm_buffer
     /\ cache_active' = (cache_active /\ ~commit)
     /\ IF free # {} THEN pc' = "fill" /\ target' = Min(free)
                    ELSE pc' = "move0" /\ target' = RowOf(page_map[p]) * RowPages

LEMMA WriteStarts ==
  ASSUME StartWrite
  PROVE  \E p \in Pages : \E v \in Writes[p] : Starts(p, v)
  BY DEF StartWrite, Starts

LEMMA StartStep ==
  ASSUME IInv, StartWrite
  PROVE  IInv'
  <1>p. PICK p \in Pages : \E v \in Writes[p] : Starts(p, v)
    BY WriteStarts
  <1>v. PICK v \in Writes[p] : Starts(p, v)
    BY <1>p
  <1>1. /\ request' = [page |-> p, data |-> v]
        /\ flash' = IF cache_active /\ cache.header # p THEN CommittedFlash ELSE flash
        /\ cache_active' = (cache_active /\ ~(cache_active /\ cache.header # p))
        /\ cache_active' => nvm_buffer' = nvm_buffer
        /\ nvm_buffer' \in {nvm_buffer, Erased}
        /\ LET free == FreeOnRow(flash', page_map[p])
           IN IF free # {}
              THEN pc' = "fill" /\ target' = Min(free)
              ELSE pc' = "move0" /\ target' = RowOf(page_map[p]) * RowPages
    BY <1>v DEF Starts
  <1>2. pc = "idle" /\ page_map' = page_map /\ spare_row' = spare_row /\ cache' = cache
    BY DEF StartWrite
  <1>3. TypeOK /\ CacheSound
    BY DEF IInv
  <1> DEFINE free == FreeOnRow(flash', page_map[p])
             r == RowOf(page_map[p])
  <1>4. cache_active' <=> IsCached(p)
    BY <1>1, <1>3 DEF IsCached, TypeOK
  <1>5. /\ Layout(flash', spare_row) /\ flash' \in [Phys -> Contents]
        /\ \A q \in Pages : IF cache_active' /\ q = p THEN NextCopy(flash', spare_row, q, page_map[q])
                                                     ELSE LastCopy(flash', q, page_map[q])
    BY <1>1, <1>2, <1>4, StartedFlash
  <1>6. /\ free # {} => NextCopy(flash', spare_row, p, target')
        /\ cache_active' => free # {} /\ target' = page_map[p]
        /\ free = {} => /\ r \in DataRows \ {spare_row} /\ First(flash', r) = Base(p)
                        /\ FullRow(flash', r) /\ target' = r * RowPages
    <2>1. CASE cache_active'
      BY <1>1, <1>5, <2>1, FreePageIsNext
    <2>2. CASE ~cache_active'
      <3>1. LastCopy(flash', p, page_map[p]) /\ Copies(flash', Base(p) + 1) # {}
        BY <1>5, <2>2, BaseType DEF LastCopy
      <3> QED BY <1>1, <1>5, <2>2, <3>1, FreePageFound
    <2> QED BY <2>1, <2>2
  <1>7. CacheSound' /\ RequestSound'
    <2>1. cache_active' => nvm_buffer' = nvm_buffer /\ cache_active
      BY <1>1
    <2>2. CacheSound'
      BY <1>2, <1>3, <2>1 DEF CacheSound
    <2> QED BY <1>1, <2>2, Types DEF RequestSound
  <1>8. CASE free # {}
    <2>1. pc' = "fill" /\ target' \in Phys
      BY <1>1, <1>6, <1>8 DEF NextCopy
    <2>2. TypeOK'
      BY <1>1, <1>2, <1>3, <1>5, <2>1, Types DEF TypeOK
    <2>3. \A q \in Pages : IsCached(q)' <=> cache_active' /\ q = p
      BY <1>2, <1>4 DEF IsCached
    <2>4. request'.page = p
      BY <1>1
    <2>5. Settled'
      BY <1>2, <1>5, <1>6, <1>8, <2>1, <2>3, <2>4 DEF Settled
    <2> QED BY <1>7, <2>1, <2>2, <2>5 DEF IInv, Moving
  <1>9. CASE free = {}
    <2>1. pc' = "move0" /\ ~cache_active' /\ target' = r * RowPages
      BY <1>1, <1>6, <1>9
    <2>2. target' \in Phys /\ OldRow' = r
      BY <1>6, <1>9, <2>1, FirstOfRow, DataRow, RowPage DEF OldRow
    <2>3. TypeOK'
      BY <1>1, <1>2, <1>3, <1>5, <2>1, <2>2, Types DEF TypeOK
    <2>4. Before' = flash'
      BY <1>2, <1>5, SpareErased DEF Before
    <2>5. \A c \in 0 .. 1 : Moved(c)' \in Pages
      <3>1. \A c \in 0 .. 1 : Moved(c)' = Base(p) + c
        BY <1>1 DEF Moved
      <3>2. Base(p) + 0 = Base(p) /\ \A c \in 0 .. 1 : c = 0 \/ c = 1
        BY BaseType, Sizes
      <3> QED BY <3>1, <3>2, BaseType
    <2>6. Moved(0)' = Base(p)
      BY <1>1, BaseType, Sizes DEF Moved
    <2>7. \A q \in Pages : LastCopy(flash', q, page_map[q]) /\ Copies(flash', q) # {}
      BY <1>5, <2>1 DEF LastCopy
    <2>8. Moves'
      BY <1>2, <1>5, <1>6, <1>9, <2>1, <2>2, <2>4, <2>5, <2>6, <2>7 DEF Moves
    <2> QED BY <1>7, <2>1, <2>3, <2>8 DEF IInv, Moving
  <1> QED BY <1>8, <1>9

LEMMA FillStep ==
  ASSUME IInv, FillPage
  PROVE  IInv'
  <1>1. /\ pc = "fill" /\ cache' = [header |-> request.page, data |-> request.data]
        /\ nvm_buffer' = cache' /\ pc' = "activate"
        /\ flash' = flash /\ page_map' = page_map /\ spare_row' = spare_row
        /\ cache_active' = cache_active /\ request' = request /\ target' = target
    BY DEF FillPage, layout
  <1>2. TypeOK /\ CacheSound /\ RequestSound /\ Settled
    BY <1>1 DEF IInv, Moving
  <1>3. request.page \in Pages /\ request.data \in Data /\ request.data # Garbage
    BY <1>1, <1>2 DEF TypeOK, RequestSound
  <1>4. cache' \in Contents
    BY <1>1, <1>3, Types
  <1>5. TypeOK'
    BY <1>1, <1>2, <1>4 DEF TypeOK
  <1>6. CacheSound' /\ RequestSound'
    BY <1>1, <1>3 DEF CacheSound, RequestSound
  <1>7. \A q \in Pages : IsCached(q)' <=> IsCached(q)
    BY <1>1, <1>2 DEF Settled, IsCached
  <1>8. Settled'
    BY <1>1, <1>2, <1>3, <1>7 DEF Settled
  <1> QED BY <1>1, <1>5, <1>6, <1>8 DEF IInv, Moving

LEMMA ActivateStep ==
  ASSUME IInv, ActivatePage
  PROVE  IInv'
  <1>1. /\ pc = "activate" /\ page_map' = [page_map EXCEPT ![request.page] = target]
        /\ cache_active' = TRUE /\ pc' = "idle" /\ request' = NoRequest /\ target' = 0
        /\ flash' = flash /\ spare_row' = spare_row /\ cache' = cache /\ nvm_buffer' = nvm_buffer
    BY DEF ActivatePage
  <1>2. TypeOK /\ CacheSound /\ RequestSound /\ Settled
    BY <1>1 DEF IInv, Moving
  <1>3. request.page \in Pages /\ request.data # Garbage /\ target \in Phys
    BY <1>1, <1>2 DEF TypeOK, RequestSound
  <1>4. cache = [header |-> request.page, data |-> request.data] /\ nvm_buffer = cache
    BY <1>1, <1>2 DEF Settled
  <1>5. page_map' \in [Pages -> Phys]
    BY <1>1, <1>2, <1>3 DEF TypeOK
  <1>6. TypeOK'
    BY <1>1, <1>2, <1>5, Types DEF TypeOK
  <1>7. CacheSound' /\ RequestSound'
    BY <1>1, <1>3, <1>4 DEF CacheSound, RequestSound
  <1>8. ASSUME NEW q \in Pages
        PROVE  IF IsCached(q)' THEN NextCopy(flash, spare_row, q, page_map'[q])
                               ELSE LastCopy(flash, q, page_map'[q])
    <2>1. IsCached(q)' <=> q = request.page
      BY <1>1, <1>4 DEF IsCached
    <2>2. CASE q = request.page
      <3>1. page_map'[q] = target
        BY <1>1, <1>2, <1>3, <2>2 DEF TypeOK
      <3> QED BY <1>1, <1>2, <2>1, <2>2, <3>1 DEF Settled
    <2>3. CASE q # request.page
      <3>1. page_map'[q] = page_map[q] /\ ~IsCached(q)
        BY <1>1, <1>2, <1>4, <2>3 DEF TypeOK, IsCached
      <3> QED BY <1>2, <2>1, <2>3, <3>1 DEF Settled
    <2> QED BY <2>2, <2>3
  <1>9. Settled'
    BY <1>1, <1>2, <1>8 DEF Settled
  <1> QED BY <1>1, <1>6, <1>7, <1>9 DEF IInv, Moving
-----------------------------------------------------------------------------
(* The steps that move a row keep the invariant.                            *)

LEMMA MovedPages ==
  ASSUME IInv, Moving
  PROVE  /\ TypeOK /\ CacheSound /\ RequestSound /\ Moves
         /\ request.page \in Pages /\ request.data \in Data /\ request.data # Garbage
         /\ Moved(0) \in Pages /\ Moved(1) \in Pages /\ Moved(1) = Moved(0) + 1 /\ Moved(0) # Moved(1)
         /\ spare_row \in DataRows /\ spare_row \in 0 .. MasterRow
         /\ spare_row * RowPages \in Phys /\ spare_row * RowPages + 1 \in Phys
         /\ spare_row * RowPages + 0 = spare_row * RowPages
         /\ RowOf(spare_row * RowPages) = spare_row
         /\ spare_row * RowPages \in RowPhys(spare_row)
         /\ \A n \in RowPhys(spare_row) : n \in Phys /\ Before[n] = Erased
         /\ \A n \in Phys : RowOf(n) # spare_row => Before[n] = flash[n]
         /\ Before \in [Phys -> Contents]
  <1>1. TypeOK /\ CacheSound /\ RequestSound /\ Moves
    BY DEF IInv
  <1>2. request.page \in Pages /\ request.data \in Data /\ request.data # Garbage
    BY <1>1 DEF TypeOK, RequestSound, Moving
  <1>3. Moved(0) \in Pages /\ Moved(1) \in Pages /\ Moved(1) = Moved(0) + 1 /\ Moved(0) # Moved(1)
    <2>1. Base(request.page) \in Pages /\ Base(request.page) + 1 \in Pages
      BY <1>2, BaseType
    <2>2. Base(request.page) + 0 = Base(request.page) /\ Base(request.page) + 1 # Base(request.page)
      BY <2>1, Sizes
    <2> QED BY <2>1, <2>2 DEF Moved
  <1>4. spare_row \in DataRows /\ spare_row \in 0 .. MasterRow
    BY <1>1, DataRow DEF Moves, Layout
  <1>5. spare_row * RowPages + 0 = spare_row * RowPages
    BY <1>4, Sizes
  <1>6. \A c \in 0 .. 3 : spare_row * RowPages + c \in RowPhys(spare_row)
    BY <1>4, RowPage
  <1>7. spare_row * RowPages \in RowPhys(spare_row) /\ spare_row * RowPages + 1 \in RowPhys(spare_row)
    BY <1>5, <1>6
  <1>8. flash \in [Phys -> Contents]
    BY <1>1 DEF TypeOK
  <1> QED BY <1>1, <1>2, <1>3, <1>4, <1>5, <1>7, <1>8, RowPage, ErasedRowType DEF Before

(* The copy of a page that is moved is its last one, and the data of the    *)
(* request replaces it.                                                     *)
LEMMA NewestIs ==
  ASSUME IInv, pc \in {"move0", "move1"}, NEW c \in 0 .. 1
  PROVE  /\ flash[target + c].header = Moved(c)
         /\ (IF Moved(c) = request.page THEN [header |-> Moved(c), data |-> request.data]
                                        ELSE flash[Newest(c)]) = NewPage(Moved(c))
         /\ NewPage(Moved(c)) \in Contents /\ NewData(Moved(c)) # Garbage
  <1>1. Moving
    BY DEF Moving
  <1>2. flash = Before /\ Layout(flash, spare_row) /\ OldRow \in DataRows \ {spare_row}
        /\ FullRow(flash, OldRow) /\ target = OldRow * RowPages /\ First(flash, OldRow) = Moved(0)
    BY <1>1, MovedPages DEF Moves
  <1>3. Moved(0) + c = Moved(c) /\ Moved(c) \in Pages
    <2>1. c = 0 \/ c = 1
      OBVIOUS
    <2>2. Moved(0) + 0 = Moved(0)
      BY <1>1, MovedPages, Sizes
    <2> QED BY <1>1, <2>1, <2>2, MovedPages
  <1>4. /\ flash[target + c].header = Moved(c)
        /\ Copies(flash, Moved(c)) =
             {target + c} \cup {m \in target + 2 .. target + 3 : flash[m].header = flash[target + c].header}
    BY <1>2, <1>3, CopiesOfFullRow
  <1>5. Newest(c) = Max(Copies(flash, Moved(c)))
    BY <1>4 DEF Newest
  <1>6. LastCopy(flash, Moved(c), Newest(c))
    BY <1>3, <1>4, <1>5, LastCopyExists
  <1>7. /\ Newest(c) \in Phys /\ flash[Newest(c)].header = Moved(c)
        /\ DurablePages(Before)[Moved(c)] = flash[Newest(c)].data
    <2>1. /\ Newest(c) \in Phys /\ flash[Newest(c)].header = Moved(c)
          /\ DurablePages(flash)[Moved(c)] = flash[Newest(c)].data
      BY <1>3, <1>6, LastCopyIs
    <2> QED BY <1>2, <2>1
  <1>8. /\ flash[Newest(c)] \in Contents /\ flash[Newest(c)].data # Garbage
    BY <1>2, <1>7 DEF Layout
  <1>9. /\ flash[Newest(c)] = [header |-> Moved(c), data |-> DurablePages(Before)[Moved(c)]]
        /\ DurablePages(Before)[Moved(c)] \in Data /\ DurablePages(Before)[Moved(c)] # Garbage
    BY <1>7, <1>8 DEF Contents
  <1>10. NewData(Moved(c)) \in Data /\ NewData(Moved(c)) # Garbage
    BY <1>1, <1>9, MovedPages DEF NewData
  <1>11. NewPage(Moved(c)) \in Contents
    BY <1>3, <1>10, Types DEF NewPage
  <1> QED BY <1>4, <1>9, <1>10, <1>11 DEF NewPage, NewData

LEMMA MoveFirstStep ==
  ASSUME IInv, MovePage(0)
  PROVE  IInv' /\ Moving' /\ Before' = Before
  <1>1. pc = "move0" /\ Moving
    BY DEF MovePage, Moving
  <1>2. /\ TypeOK /\ RequestSound /\ Moves /\ ~cache_active /\ flash = Before
        /\ \A c \in 0 .. 1 : LastCopy(flash, Moved(c), page_map[Moved(c)])
    BY <1>1, MovedPages DEF Moves
  <1>3. target + 0 = target
    BY <1>2, Sizes DEF TypeOK
  <1>4. /\ flash[target + 0].header = Moved(0)
        /\ (IF Moved(0) = request.page THEN [header |-> Moved(0), data |-> request.data]
                                       ELSE flash[Newest(0)]) = NewPage(Moved(0))
        /\ NewPage(Moved(0)) \in Contents /\ NewData(Moved(0)) # Garbage
    BY <1>1, NewestIs
  <1>5. /\ cache' = NewPage(Moved(0)) /\ nvm_buffer' = cache' /\ cache_active' = TRUE
        /\ page_map' = [page_map EXCEPT ![Moved(0)] = spare_row * RowPages]
        /\ pc' = "move1" /\ spare_row' = spare_row /\ request' = request /\ target' = target
        /\ flash' = flash
    <2>1. CommittedFlash = flash
      BY <1>2 DEF CommittedFlash
    <2>2. <<"move1", "erase">>[0 + 1] = "move1"
      OBVIOUS
    <2> QED BY <1>1, <1>4, <2>1, <2>2, MovedPages DEF MovePage
  <1>6. page_map' \in [Pages -> Phys] /\ page_map'[Moved(0)] = spare_row * RowPages
        /\ \A p \in Pages \ {Moved(0)} : page_map'[p] = page_map[p]
    BY <1>1, <1>2, <1>5, MovedPages DEF TypeOK
  <1>7. TypeOK'
    BY <1>2, <1>4, <1>5, <1>6 DEF TypeOK
  <1>8. CacheSound' /\ RequestSound'
    BY <1>1, <1>2, <1>4, <1>5, MovedPages DEF CacheSound, RequestSound, NewPage
  <1>9. /\ Before' = Before /\ OldRow' = OldRow /\ \A c \in 0 .. 1 : Moved(c)' = Moved(c)
        /\ NewPage(Moved(0))' = NewPage(Moved(0))
    BY <1>5 DEF Before, OldRow, Moved, NewPage, NewData
  <1>10. Moves'
    BY <1>1, <1>2, <1>5, <1>6, <1>9, MovedPages DEF Moves
  <1> QED BY <1>5, <1>7, <1>8, <1>9, <1>10 DEF IInv, Moving

LEMMA MoveSecondStep ==
  ASSUME IInv, MovePage(1)
  PROVE  IInv' /\ Moving' /\ Before' = Before
  <1> DEFINE n0 == spare_row * RowPages
  <1>1. pc = "move1" /\ Moving
    BY DEF MovePage, Moving
  <1>2. /\ TypeOK /\ CacheSound /\ RequestSound /\ Moves /\ cache_active /\ flash = Before
        /\ cache = NewPage(Moved(0)) /\ page_map[Moved(0)] = n0
    BY <1>1, MovedPages DEF Moves
  <1>3. /\ flash[target + 1].header = Moved(1)
        /\ (IF Moved(1) = request.page THEN [header |-> Moved(1), data |-> request.data]
                                       ELSE flash[Newest(1)]) = NewPage(Moved(1))
        /\ NewPage(Moved(1)) \in Contents /\ NewData(Moved(1)) # Garbage
        /\ NewPage(Moved(0)) \in Contents
    BY <1>1, NewestIs
  <1>4. CommittedFlash = [flash EXCEPT ![n0] = NewPage(Moved(0))]
    <2>1. nvm_buffer = NewPage(Moved(0)) /\ cache.header = Moved(0)
      BY <1>2 DEF CacheSound, NewPage
    <2>2. flash[n0] = Erased /\ flash \in [Phys -> Contents] /\ n0 \in Phys
      BY <1>1, <1>2, MovedPages
    <2>3. CommittedFlash = Programmed(flash, n0, NewPage(Moved(0)))
      BY <1>2, <2>1 DEF CommittedFlash
    <2> HIDE DEF n0
    <2> QED BY <1>3, <2>2, <2>3, ProgramErased
  <1>5. /\ cache' = NewPage(Moved(1)) /\ nvm_buffer' = cache' /\ cache_active' = TRUE
        /\ page_map' = [page_map EXCEPT ![Moved(1)] = n0 + 1]
        /\ pc' = "erase" /\ spare_row' = spare_row /\ request' = request /\ target' = target
        /\ flash' = [flash EXCEPT ![n0] = NewPage(Moved(0))]
    <2>1. <<"move1", "erase">>[1 + 1] = "erase"
      OBVIOUS
    <2> QED BY <1>3, <1>4, <2>1 DEF MovePage
  <1>6. /\ page_map' \in [Pages -> Phys] /\ page_map'[Moved(1)] = n0 + 1
        /\ \A p \in Pages \ {Moved(1)} : page_map'[p] = page_map[p]
    BY <1>1, <1>2, <1>5, MovedPages DEF TypeOK
  <1>7. flash' \in [Phys -> Contents]
    BY <1>1, <1>2, <1>3, <1>5, MovedPages
  <1>8. TypeOK'
    BY <1>2, <1>3, <1>5, <1>6, <1>7 DEF TypeOK
  <1>9. CacheSound' /\ RequestSound'
    BY <1>1, <1>2, <1>3, <1>5, MovedPages DEF CacheSound, RequestSound, NewPage
  <1>10. Before' = Before
    <2>1. \A n \in Phys : n # n0 => flash'[n] = flash[n]
      BY <1>1, <1>2, <1>5, MovedPages
    <2>2. \A n \in Phys : (IF n \in RowPhys(spare_row) THEN Erased ELSE flash'[n])
                         = (IF n \in RowPhys(spare_row) THEN Erased ELSE flash[n])
      BY <1>1, <2>1, MovedPages
    <2> QED BY <1>5, <2>2 DEF Before, ErasedRow
  <1>11. /\ OldRow' = OldRow /\ \A c \in 0 .. 1 : Moved(c)' = Moved(c)
         /\ NewPage(Moved(0))' = NewPage(Moved(0)) /\ NewPage(Moved(1))' = NewPage(Moved(1))
    BY <1>5, <1>10 DEF OldRow, Moved, NewPage, NewData
  <1>12. Moves'
    <2>1. /\ \A p \in Pages \ {Moved(0), Moved(1)} : page_map'[p] = page_map[p]
          /\ page_map'[Moved(0)] = n0 /\ page_map'[Moved(1)] = n0 + 1
      BY <1>1, <1>2, <1>6, MovedPages
    <2>2. flash' = [Before EXCEPT ![n0] = NewPage(Moved(0))]
      BY <1>2, <1>5
    <2>3. \A p \in Pages \ {Moved(0), Moved(1)} : LastCopy(Before, p, page_map'[p])
      BY <1>2, <2>1 DEF Moves
    <2>4. /\ Layout(Before, spare_row) /\ First(Before, OldRow) = Moved(0) /\ FullRow(Before, OldRow)
          /\ target = OldRow * RowPages /\ OldRow \in DataRows \ {spare_row}
          /\ \A c \in 0 .. 1 : Copies(Before, Moved(c)) # {}
      BY <1>2 DEF Moves
    <2> HIDE DEF n0
    <2>5. /\ Moved(0)' = Moved(0) /\ Moved(1)' = Moved(1) /\ OldRow' = OldRow
          /\ \A c \in 0 .. 1 : Copies(Before', Moved(c)') # {}
      BY <1>10, <1>11, <2>4
    <2>6. /\ cache_active' /\ cache' = NewPage(Moved(1))' /\ pc' = "erase"
          /\ flash' = [Before' EXCEPT ![spare_row' * RowPages] = NewPage(Moved(0))']
          /\ page_map'[Moved(0)] = spare_row' * RowPages
          /\ page_map'[Moved(1)] = spare_row' * RowPages + 1
      BY <1>5, <1>10, <1>11, <2>1, <2>2 DEF n0
    <2>7. /\ Layout(Before', spare_row') /\ First(Before', OldRow') = Moved(0)' /\ FullRow(Before', OldRow')
          /\ target' = OldRow' * RowPages /\ OldRow' \in DataRows \ {spare_row'}
          /\ \A p \in Pages \ {Moved(0)', Moved(1)'} : LastCopy(Before', p, page_map'[p])
      BY <1>5, <1>10, <2>3, <2>4, <2>5
    <2>8. ~(pc' = "move0") /\ ~(pc' = "move1")
      BY <2>6
    <2> QED BY <2>5, <2>6, <2>7, <2>8 DEF Moves
  <1> QED BY <1>5, <1>8, <1>9, <1>10, <1>12 DEF IInv, Moving

(* The flash after the old row has been erased.                             *)
LEMMA ErasedOldRow ==
  ASSUME IInv, pc = "erase", NEW h, h = ErasedRow(flash, RowOf(target))
  PROVE  /\ Layout(h, OldRow)
         /\ LastCopy(h, Moved(0), spare_row * RowPages) /\ h[spare_row * RowPages] = NewPage(Moved(0))
         /\ Copies(h, Moved(1)) = {} /\ NextCopy(h, OldRow, Moved(1), spare_row * RowPages + 1)
         /\ \A q \in Pages \ {Moved(0), Moved(1)} :
              Copies(h, q) = Copies(Before, q) /\ \A n \in Copies(Before, q) : h[n] = Before[n]
  <1> DEFINE n0 == spare_row * RowPages
             b == NewPage(Moved(0))
  <1>1. Moving /\ Moves /\ flash = [Before EXCEPT ![n0] = b]
        /\ OldRow \in DataRows \ {spare_row} /\ OldRow \in 0 .. MasterRow
    <2>1. Moving /\ Moves
      BY MovedPages DEF Moving
    <2> QED BY <2>1, DataRow DEF Moves
  <1>2. flash \in [Phys -> Contents] /\ n0 \in Phys /\ RowOf(n0) = spare_row /\ Before \in [Phys -> Contents]
    BY <1>1, MovedPages DEF TypeOK
  <1>3. flash[n0] = b /\ \A n \in Phys : n # n0 => flash[n] = Before[n]
    BY <1>1, <1>2
  <1>4. b \in Contents /\ b.header = Moved(0) /\ Layout(Before, spare_row)
        /\ First(Before, OldRow) = Moved(0)
    <2>1. flash[n0] \in Contents
      BY <1>2
    <2> QED BY <1>1, <1>3, <2>1 DEF NewPage, Moves
  <1>5. b.data # Garbage
    <2>1. cache_active /\ CacheSound
      BY <1>1, MovedPages DEF Moves
    <2>2. DurablePages(Before)[Moved(0)] # Garbage
      <3>1. LastCopy(Before, Moved(0), Max(Copies(Before, Moved(0))))
        BY <1>1, LastCopyExists, MovedPages DEF Moves
      <3>2. DurablePages(Before)[Moved(0)] = Before[Max(Copies(Before, Moved(0)))].data
            /\ Max(Copies(Before, Moved(0))) \in Phys
        BY <1>1, <3>1, LastCopyIs, MovedPages
      <3> QED BY <1>4, <3>2 DEF Layout
    <2> QED BY <1>1, <2>2, MovedPages DEF NewPage, NewData
  <1>6. /\ h \in [Phys -> Contents] /\ \A n \in RowPhys(OldRow) : h[n] = Erased
        /\ \A n \in Phys : RowOf(n) # OldRow => h[n] = flash[n]
    <2>1. h = ErasedRow(flash, OldRow)
      BY DEF OldRow
    <2>2. flash \in [Phys -> Contents] /\ OldRow \in 0 .. MasterRow
      BY <1>1, <1>2
    <2>3. /\ ErasedRow(flash, OldRow) \in [Phys -> Contents]
          /\ \A n \in RowPhys(OldRow) : ErasedRow(flash, OldRow)[n] = Erased
          /\ \A n \in Phys : RowOf(n) # OldRow => ErasedRow(flash, OldRow)[n] = flash[n]
      BY <2>2, ErasedRowType
    <2> QED BY <2>1, <2>3
  <1>7. h[n0] = b
    BY <1>1, <1>2, <1>3, <1>6
  <1>8. \A n \in Phys : RowOf(n) # OldRow /\ n # n0 => h[n] = Before[n]
    BY <1>3, <1>6
  <1>9. Moved(0) + 1 = Moved(1)
    BY <1>1, MovedPages
  <1> HIDE DEF b
  <1>10. b.header = First(Before, OldRow)
    BY <1>4
  <1>11. /\ Layout(h, OldRow)
         /\ LastCopy(h, b.header, n0)
         /\ Copies(h, b.header + 1) = {} /\ NextCopy(h, OldRow, b.header + 1, n0 + 1)
         /\ \A q \in Pages \ {b.header, b.header + 1} :
              /\ Copies(h, q) = Copies(Before, q)
              /\ \A n \in Copies(Before, q) : h[n] = Before[n]
    <2>1. Layout(Before, spare_row) /\ OldRow \in DataRows \ {spare_row} /\ b \in Contents
      BY <1>1, <1>4
    <2>2. h[spare_row * RowPages] = b /\ \A n \in Phys : RowOf(n) # OldRow /\ n # spare_row * RowPages => h[n] = Before[n]
      BY <1>7, <1>8
    <2> QED BY <1>5, <1>6, <1>10, <2>1, <2>2, EraseSound
  <1> QED BY <1>4, <1>7, <1>9, <1>11 DEF b

LEMMA EraseStep ==
  ASSUME IInv, EraseOldRow
  PROVE  IInv'
  <1>1. /\ pc = "erase" /\ flash' = ErasedRow(flash, RowOf(target)) /\ spare_row' = OldRow
        /\ pc' = "idle" /\ request' = NoRequest /\ target' = 0 /\ page_map' = page_map
        /\ cache' = cache /\ cache_active' = cache_active /\ nvm_buffer' = nvm_buffer
    BY DEF EraseOldRow, cacheVars, OldRow
  <1>2. Moving
    BY <1>1 DEF Moving
  <1>3. /\ TypeOK /\ CacheSound /\ Moves /\ cache_active /\ cache.header = Moved(1)
        /\ OldRow \in 0 .. MasterRow
        /\ page_map[Moved(0)] = spare_row * RowPages /\ page_map[Moved(1)] = spare_row * RowPages + 1
        /\ \A p \in Pages \ {Moved(0), Moved(1)} : LastCopy(Before, p, page_map[p])
    <2>1. TypeOK /\ CacheSound /\ Moves
      BY <1>2, MovedPages
    <2>2. OldRow \in 0 .. MasterRow
      BY <2>1, DataRow DEF Moves
    <2> QED BY <1>1, <2>1, <2>2 DEF Moves, NewPage
  <1>4. /\ Layout(flash', OldRow)
        /\ LastCopy(flash', Moved(0), spare_row * RowPages)
        /\ NextCopy(flash', OldRow, Moved(1), spare_row * RowPages + 1)
        /\ \A q \in Pages \ {Moved(0), Moved(1)} : Copies(flash', q) = Copies(Before, q)
    BY <1>1, ErasedOldRow
  <1>5. TypeOK'
    <2>1. flash' \in [Phys -> Contents]
      BY <1>4 DEF Layout
    <2> QED BY <1>1, <1>3, <2>1, Types DEF TypeOK
  <1>6. CacheSound' /\ RequestSound'
    BY <1>1, <1>3 DEF CacheSound, RequestSound
  <1>7. \A q \in Pages : IsCached(q)' <=> q = Moved(1)
    BY <1>1, <1>3 DEF IsCached
  <1>8. ASSUME NEW q \in Pages
        PROVE  IF q = Moved(1) THEN NextCopy(flash', OldRow, q, page_map[q])
                               ELSE LastCopy(flash', q, page_map[q])
    <2>1. CASE q \in {Moved(0), Moved(1)}
      BY <1>2, <1>3, <1>4, <2>1, MovedPages
    <2>2. CASE q \notin {Moved(0), Moved(1)}
      BY <1>3, <1>4, <2>2 DEF LastCopy
    <2> QED BY <2>1, <2>2
  <1>9. Settled'
    BY <1>1, <1>4, <1>7, <1>8 DEF Settled
  <1> QED BY <1>1, <1>5, <1>6, <1>9 DEF IInv, Moving
-----------------------------------------------------------------------------
(* So do an interrupt between two writes and a loss of power.               *)

LEMMA CommitStep ==
  ASSUME IInv, ~Unguarded, Commit
  PROVE  IInv'
  <1>1. /\ pc = "idle" /\ flash' = CommittedFlash /\ nvm_buffer' = CommittedBuffer
        /\ cache_active' = FALSE /\ page_map' = page_map /\ spare_row' = spare_row /\ cache' = cache
        /\ pc' = pc /\ request' = request /\ target' = target
    BY DEF Commit, callVars
  <1>2. TypeOK /\ RequestSound /\ ~Moving
    BY <1>1 DEF IInv, Moving
  <1>3. /\ Layout(flash', spare_row)
        /\ \A p \in Pages : LastCopy(flash', p, page_map[p])
    BY <1>1, <1>2, CommitSound
  <1>4. flash' \in [Phys -> Contents] /\ nvm_buffer' \in Contents
    BY <1>1, <1>2, <1>3, Types DEF TypeOK, Layout, CommittedBuffer
  <1>5. TypeOK'
    BY <1>1, <1>2, <1>4 DEF TypeOK
  <1>6. CacheSound' /\ RequestSound'
    BY <1>1, <1>2 DEF CacheSound, RequestSound
  <1>7. Settled'
    BY <1>1, <1>3 DEF Settled, IsCached
  <1> QED BY <1>1, <1>5, <1>6, <1>7 DEF IInv, Moving

(* The next start finds the flash without what has been moved.              *)
LEMMA StartFinds ==
  ASSUME IInv
  PROVE  /\ Layout(Before, spare_row)
         /\ NoPageHomeless => Mounted(flash) = Before
         /\ pc # "erase" => flash = Before
  <1>1. CASE ~Moving
    <2>1. Layout(flash, spare_row)
      BY <1>1 DEF IInv, Settled
    <2>2. Before = flash
      BY <2>1, SpareErased DEF Before
    <2> QED BY <2>1, <2>2, MountedSound
  <1>2. CASE Moving
    <2>1. Moves /\ Layout(Before, spare_row)
      BY <1>2, MovedPages DEF Moves
    <2>2. CASE pc # "erase"
      <3>1. flash = Before
        BY <1>2, <2>1, <2>2 DEF Moves, Moving
      <3> QED BY <2>1, <3>1, MountedSound
    <2>3. CASE pc = "erase"
      <3>1. flash = [Before EXCEPT ![spare_row * RowPages] = NewPage(Moved(0))]
        BY <2>1, <2>3 DEF Moves
      <3>2. /\ OldRow \in DataRows \ {spare_row} /\ FullRow(Before, OldRow)
            /\ NewPage(Moved(0)).header = First(Before, OldRow)
        BY <2>1 DEF Moves, NewPage
      <3>3. NewPage(Moved(0)) \in Contents
        <4>1. flash \in [Phys -> Contents] /\ spare_row * RowPages \in Phys /\ Before \in [Phys -> Contents]
          BY <1>2, MovedPages DEF TypeOK
        <4>2. flash[spare_row * RowPages] = NewPage(Moved(0))
          BY <3>1, <4>1
        <4> QED BY <4>1, <4>2
      <3>4. NoPageHomeless => \A p \in Pages : Copies(Mounted(flash), p) # {}
        BY DEF NoPageHomeless
      <3>5. NoPageHomeless => Mounted(flash) = Before
        <4> DEFINE b == NewPage(Moved(0))
        <4>1. b \in Contents /\ b.header = First(Before, OldRow)
          BY <3>2, <3>3
        <4> HIDE DEF b
        <4>2. flash = [Before EXCEPT ![spare_row * RowPages] = b]
          BY <3>1 DEF b
        <4> SUFFICES ASSUME NoPageHomeless PROVE Mounted(flash) = Before
          OBVIOUS
        <4>3. \A p \in Pages : Copies(Mounted([Before EXCEPT ![spare_row * RowPages] = b]), p) # {}
          BY <3>4, <4>2
        <4>4. Mounted([Before EXCEPT ![spare_row * RowPages] = b]) = Before
          BY <2>1, <3>2, <4>1, <4>3, MountedInMove
        <4> QED BY <4>2, <4>4
      <3> QED BY <2>1, <2>3, <3>5
    <2> QED BY <2>2, <2>3
  <1> QED BY <1>1, <1>2

LEMMA LossStep ==
  ASSUME IInv, ~LossInMove, PowerLoss
  PROVE  IInv'
  <1>1. /\ NoPageHomeless /\ flash' = Mounted(flash) /\ page_map' = Mapping(flash')
        /\ spare_row' = SpareRow(flash') /\ cache' = Erased /\ cache_active' = FALSE
        /\ nvm_buffer' = Erased /\ pc' = "idle" /\ request' = NoRequest /\ target' = 0
    BY DEF PowerLoss, StartUp
  <1>2. Layout(flash', spare_row) /\ \A p \in Pages : Copies(flash', p) # {}
    BY <1>1, StartFinds DEF NoPageHomeless
  <1>3. /\ page_map' \in [Pages -> Phys] /\ spare_row' = spare_row /\ spare_row' \in 0 .. MasterRow
        /\ \A p \in Pages : LastCopy(flash', p, page_map'[p])
    BY <1>1, <1>2, MappedSound
  <1>4. flash' \in [Phys -> Contents]
    BY <1>2 DEF Layout
  <1>5. TypeOK'
    BY <1>1, <1>3, <1>4, Types DEF TypeOK
  <1>6. CacheSound' /\ RequestSound'
    BY <1>1 DEF CacheSound, RequestSound
  <1>7. Settled'
    BY <1>1, <1>2, <1>3 DEF Settled, IsCached
  <1> QED BY <1>1, <1>5, <1>6, <1>7 DEF IInv, Moving

LEMMA StepIInv ==
  ASSUME ~LossInMove, ~Unguarded, IInv, [Next]_vars
  PROVE  IInv'
  <1>1. CASE UNCHANGED vars
    <2>1. /\ flash' = flash /\ page_map' = page_map /\ spare_row' = spare_row
          /\ cache' = cache /\ cache_active' = cache_active /\ nvm_buffer' = nvm_buffer
          /\ pc' = pc /\ request' = request /\ target' = target
      BY <1>1 DEF vars, layout, cacheVars, callVars
    <2>2. TypeOK' = TypeOK /\ CacheSound' = CacheSound /\ RequestSound' = RequestSound /\ Moving' = Moving
      BY <2>1 DEF TypeOK, CacheSound, RequestSound, Moving
    <2>3. \A p : IsCached(p)' <=> IsCached(p)
      BY <2>1 DEF IsCached
    <2>4. Settled => Settled'
      BY <2>1, <2>3 DEF Settled
    <2>5. /\ Before' = Before /\ OldRow' = OldRow /\ \A c \in 0 .. 1 : Moved(c)' = Moved(c)
          /\ NewPage(Moved(0))' = NewPage(Moved(0)) /\ NewPage(Moved(1))' = NewPage(Moved(1))
      BY <2>1 DEF Before, OldRow, Moved, NewPage, NewData
    <2>6. Moves => Moves'
      BY <2>1, <2>5 DEF Moves
    <2> QED BY <2>2, <2>4, <2>6 DEF IInv
  <1>2. CASE StartWrite
    BY <1>2, StartStep
  <1>3. CASE FillPage
    BY <1>3, FillStep
  <1>4. CASE ActivatePage
    BY <1>4, ActivateStep
  <1>5. CASE MovePage(0)
    BY <1>5, MoveFirstStep
  <1>6. CASE MovePage(1)
    BY <1>6, MoveSecondStep
  <1>7. CASE EraseOldRow
    BY <1>7, EraseStep
  <1>8. CASE Commit
    BY <1>8, CommitStep
  <1>9. CASE PowerLoss
    BY <1>9, LossStep
  <1> QED BY <1>1, <1>2, <1>3, <1>4, <1>5, <1>6, <1>7, <1>8, <1>9 DEF Next

LEMMA IInvHolds ==
  ASSUME ~LossInMove, ~Unguarded
  PROVE  Spec => []IInv
  <1>1. IInv /\ [Next]_vars => IInv'
    BY StepIInv
  <1> QED BY <1>1, InitIInv, PTL DEF Spec

(* Both pages of a pair are mapped to the row that begins with the first    *)
(* one.                                                                     *)
LEMMA MappedToRow ==
  ASSUME Settled, NEW p \in Pages
  PROVE  /\ RowOf(page_map[p]) \in DataRows \ {spare_row}
         /\ First(flash, RowOf(page_map[p])) = Base(p)
         /\ \A n \in Copies(flash, p) : RowOf(n) = RowOf(page_map[p]) /\ n <= page_map[p]
         /\ IF IsCached(p) THEN flash[page_map[p]] = Erased ELSE flash[page_map[p]].header = p
  <1>1. Layout(flash, spare_row)
    BY DEF Settled
  <1>2. CASE IsCached(p)
    <2>1. NextCopy(flash, spare_row, p, page_map[p])
      BY <1>2 DEF Settled
    <2>2. \A n \in Copies(flash, p) : RowOf(n) = RowOf(page_map[p]) /\ n < page_map[p]
      BY <1>1, <2>1, NextCopyIsLater
    <2>3. \A n \in Copies(flash, p) : n \in Nat /\ page_map[p] \in Nat
      BY <2>1, CopiesAreFinite, PhysNat DEF NextCopy
    <2> QED BY <1>2, <2>1, <2>2, <2>3 DEF NextCopy
  <1>3. CASE ~IsCached(p)
    <2>1. LastCopy(flash, p, page_map[p])
      BY <1>3 DEF Settled
    <2>2. page_map[p] \in Copies(flash, p) /\ \A n \in Copies(flash, p) : n <= page_map[p]
      BY <2>1 DEF LastCopy
    <2>3. \A n \in Copies(flash, p) :
            /\ RowOf(n) \in DataRows \ {spare_row} /\ First(flash, RowOf(n)) = Base(p)
            /\ flash[n].header = p
      BY <1>1, CopyInRow
    <2>4. \A n \in Copies(flash, p) : RowOf(n) = RowOf(page_map[p])
      BY <1>1, <2>2, <2>3, SameRow
    <2> QED BY <1>3, <2>2, <2>3, <2>4
  <1> QED BY <1>2, <1>3

LEMMA IInvLayout == IInv => TypeOK /\ LayoutSound
  <1> SUFFICES ASSUME IInv PROVE TypeOK /\ LayoutSound
    OBVIOUS
  <1>1. TypeOK
    BY DEF IInv
  <1> SUFFICES ASSUME pc = "idle" PROVE LayoutSound
    BY <1>1 DEF LayoutSound
  <1>2. Settled
    BY DEF IInv, Moving
  <1>3. /\ spare_row < MasterRow /\ \A n \in RowPhys(spare_row) : flash[n] = Erased
        /\ flash[MasterPage].header = Master
        /\ \A n \in Phys : flash[n].data # Garbage
    <2>1. Layout(flash, spare_row)
      BY <1>2 DEF Settled
    <2>2. spare_row < MasterRow
      BY <2>1, Sizes DEF Layout, DataRows
    <2> QED BY <2>1, <2>2 DEF Layout
  <1>4. ASSUME NEW p \in Pages
        PROVE  /\ RowOf(page_map[p]) = RowOf(page_map[p - (p % 2)])
               /\ IF cache_active /\ cache.header = p
                  THEN flash[page_map[p]] = Erased
                  ELSE flash[page_map[p]].header = p
               /\ \A n \in Copies(flash, p) : RowOf(n) = RowOf(page_map[p]) /\ n <= page_map[p]
    <2>1. Base(p) \in Pages /\ Base(Base(p)) = Base(p)
      BY BaseType
    <2>2. RowOf(page_map[p]) = RowOf(page_map[Base(p)])
      <3>1. Layout(flash, spare_row)
        BY <1>2 DEF Settled
      <3>2. RowOf(page_map[p]) \in DataRows \ {spare_row} /\ First(flash, RowOf(page_map[p])) = Base(p)
        BY <1>2, MappedToRow
      <3>3. /\ RowOf(page_map[Base(p)]) \in DataRows \ {spare_row}
            /\ First(flash, RowOf(page_map[Base(p)])) = Base(p)
        BY <1>2, <2>1, MappedToRow
      <3> QED BY <3>1, <3>2, <3>3, SameRow
    <2> QED BY <1>2, <2>2, MappedToRow DEF Base, IsCached
  <1> QED BY <1>3, <1>4 DEF LayoutSound

(* Where power is lost only while every page has a copy in the flash, and a *)
(* write is in a critical section, every variable of the emulator keeps its *)
(* type.                                                                    *)
THEOREM TypeCorrect ==
  ASSUME ~LossInMove, ~Unguarded
  PROVE  Spec => []TypeOK
  <1>1. IInv => TypeOK
    BY IInvLayout
  <1> QED BY <1>1, IInvHolds, PTL

(* Under the same assumptions the layout that move_data_to_spare and the    *)
(* next start rely on is sound between two calls, after any sequence of     *)
(* writes, moves, commits and losses of power, for every number of rows.    *)
THEOREM LayoutStaysSound ==
  ASSUME ~LossInMove, ~Unguarded
  PROVE  Spec => []LayoutSound
  <1>1. IInv => LayoutSound
    BY IInvLayout
  <1> QED BY <1>1, IInvHolds, PTL
-----------------------------------------------------------------------------
(* The refinement: what the views are where the invariant holds.            *)

Views ==
  /\ storeView = DurablePages(Before)
  /\ ~Moving => flash = Before /\ eepromView = [p \in Pages |-> ReadPage(p)]
  /\ Moving \/ ~cache_active => eepromView = storeView /\ cachedView = LogicalPages
  /\ cache_active /\ ~Moving => cachedView = cache.header

LEMMA ViewsAre == IInv => Views
  <1> SUFFICES ASSUME IInv PROVE Views
    OBVIOUS
  <1>1. CASE Moving
    BY <1>1 DEF Views, storeView, eepromView, cachedView, Before
  <1>2. CASE ~Moving
    <2>1. Settled /\ flash = Before
      BY <1>2, StartFinds DEF IInv, Moving
    <2>2. storeView = DurablePages(Before) /\ eepromView = [p \in Pages |-> ReadPage(p)]
      BY <1>2, <2>1 DEF storeView, eepromView
    <2>3. ASSUME ~cache_active PROVE eepromView = storeView
      <3>1. \A p \in Pages : ReadPage(p) = DurablePages(flash)[p]
        BY <2>1, <2>3, LastCopyIs DEF Settled, IsCached, ReadPage
      <3>2. DurablePages(flash) = [p \in Pages |-> DurablePages(flash)[p]]
        BY DEF DurablePages
      <3> QED BY <2>1, <2>2, <3>1, <3>2
    <2>4. cachedView = IF cache_active THEN cache.header ELSE LogicalPages
      BY <1>2 DEF cachedView
    <2> QED BY <1>2, <2>1, <2>2, <2>3, <2>4 DEF Views
  <1> QED BY <1>1, <1>2

LEMMA ViewsNext == IInv' => Views'
  BY ViewsAre, PTL

LEMMA DurableIs ==
  ASSUME NEW f
  PROVE  /\ DurablePages(f) = [p \in Pages |-> DurablePages(f)[p]]
         /\ \A p \in Pages : Copies(f, p) = {} => DurablePages(f)[p] = Gone
  BY DEF DurablePages

LEMMA DurableType ==
  ASSUME NEW f \in [Phys -> Contents], \A p \in Pages : Copies(f, p) # {}
  PROVE  DurablePages(f) \in [Pages -> Data]
  <1>1. ASSUME NEW p \in Pages PROVE DurablePages(f)[p] \in Data
    <2>1. LastCopy(f, p, Max(Copies(f, p)))
      BY LastCopyExists
    <2>2. Max(Copies(f, p)) \in Phys /\ DurablePages(f)[p] = f[Max(Copies(f, p))].data
      BY <2>1, LastCopyIs
    <2> QED BY <2>2 DEF Contents
  <1> QED BY <1>1, DurableIs

(* The names of EepromStore.                                                *)
LEMMA StoreNames ==
  /\ Store!Pages = Pages /\ Store!NoPage = LogicalPages
  /\ \A p \in Pages : p # LogicalPages /\ Store!Second(p) = Base(p) + 1
  <1>1. \A p \in Pages : p # LogicalPages
    BY Sizes
  <1>2. \A p \in Pages : Store!Second(p) = Base(p) + 1
    BY BaseType, Sizes DEF Store!Second
  <1> QED BY <1>1, <1>2 DEF Store!Pages, Store!NoPage, Pages

LEMMA InitRefines == Init => Store!Init
  <1> SUFFICES ASSUME Init PROVE Store!Init
    OBVIOUS
  <1>1. IInv /\ ~cache_active /\ flash = Formatted
    BY InitIInv DEF Init
  <1>2. Views
    BY <1>1, ViewsAre
  <1>3. ~Moving
    BY DEF Init, Moving
  <1>4. eepromView = storeView /\ cachedView = LogicalPages /\ storeView = DurablePages(flash)
    BY <1>1, <1>2, <1>3 DEF Views
  <1>5. DurablePages(flash) \in [Pages -> Data]
    BY <1>1, FormattedPages, FormattedSound, DurableType
  <1> QED BY <1>4, <1>5, StoreNames DEF Store!Init

(* A commit makes what is read durable.                                     *)
LEMMA CommitRefines ==
  ASSUME IInv, IInv', ~Moving, flash' = CommittedFlash, page_map' = page_map, ~cache_active',
         spare_row' = spare_row
  PROVE  Store!Commit
  <1>1. Views /\ Views'
    BY ViewsAre, ViewsNext
  <1>2. flash' = Before'
    <2>1. Layout(flash', spare_row')
      BY CommitSound
    <2> QED BY <2>1, SpareErased DEF Before
  <1>3. ASSUME NEW p \in Pages PROVE DurablePages(flash')[p] = ReadPage(p)
    <2>1. LastCopy(flash', p, page_map[p]) /\ flash'[page_map[p]].data = ReadPage(p)
      BY CommitSound
    <2>2. DurablePages(flash')[p] = flash'[page_map[p]].data
      BY <2>1, LastCopyIs
    <2> QED BY <2>1, <2>2
  <1>4. DurablePages(flash') = [p \in Pages |-> ReadPage(p)]
    BY <1>3, DurableIs
  <1>5. storeView' = eepromView
    BY <1>1, <1>2, <1>4 DEF Views
  <1>6. eepromView' = storeView' /\ cachedView' = LogicalPages
    BY <1>1 DEF Views
  <1> QED BY <1>5, <1>6, StoreNames DEF Store!Commit

(* The page that is written becomes the cached one; no other page is cached *)
(* before.                                                                  *)
LEMMA CacheRefines ==
  ASSUME IInv, IInv', ~Moving, ~Moving', flash' = flash, NEW p \in Pages, NEW v \in Data,
         cache_active => cache.header = p, cache_active', cache'.header = p, cache'.data = v,
         \A q \in Pages \ {p} : page_map'[q] = page_map[q]
  PROVE  Store!WriteCached(p, v) /\ eepromView'[p] = v
  <1>1. Views /\ Views'
    BY ViewsAre, ViewsNext
  <1>2. storeView' = storeView
    BY <1>1 DEF Views
  <1>3. cachedView' = p /\ cachedView \in {LogicalPages, p}
    BY <1>1 DEF Views
  <1>4. \A q \in Pages : ReadPage(q)' = IF q = p THEN v ELSE ReadPage(q)
    BY DEF ReadPage
  <1>5. eepromView' = [q \in Pages |-> ReadPage(q)'] /\ eepromView = [q \in Pages |-> ReadPage(q)]
    BY <1>1 DEF Views
  <1>6. eepromView' = [eepromView EXCEPT ![p] = v]
    BY <1>4, <1>5
  <1>7. eepromView'[p] = v
    BY <1>4, <1>5
  <1> QED BY <1>2, <1>3, <1>6, <1>7, StoreNames DEF Store!WriteCached

LEMMA WriteOf ==
  ASSUME NEW p \in Pages, NEW v \in Data, eepromView'[p] = v,
         Store!WriteCached(p, v) \/ Store!WriteMoving(p, v)
  PROVE  Store!Next
  <1>1. Store!Write(p)
    BY DEF Store!Write
  <1> QED BY <1>1, StoreNames DEF Store!Next
-----------------------------------------------------------------------------
(* Each step is one of EepromStore or changes no view.                      *)

Stutters == UNCHANGED <<storeView, eepromView, cachedView>>

LEMMA StartRefines ==
  ASSUME IInv, IInv', StartWrite
  PROVE  Store!Next \/ Stutters
  <1>1. PICK p \in Pages : \E v \in Writes[p] : Starts(p, v)
    BY WriteStarts
  <1>2. PICK v \in Writes[p] : Starts(p, v)
    BY <1>1
  <1>3. /\ flash' = IF cache_active /\ cache.header # p THEN CommittedFlash ELSE flash
        /\ cache_active' <=> cache_active /\ cache.header = p
        /\ pc' = "fill" \/ pc' = "move0"
        /\ ~Moving /\ page_map' = page_map /\ spare_row' = spare_row /\ cache' = cache
    BY <1>2 DEF Starts, StartWrite, Moving, IInv, TypeOK
  <1>4. Views /\ Views'
    BY ViewsAre, ViewsNext
  <1>5. CASE cache_active /\ cache.header # p
    <2>1. Store!Commit
      BY <1>3, <1>5, CommitRefines
    <2> QED BY <2>1 DEF Store!Next
  <1>6. CASE ~(cache_active /\ cache.header # p)
    <2>1. flash' = flash /\ (cache_active' <=> cache_active)
      BY <1>3, <1>6
    <2>2. storeView' = storeView
      <3>1. Before' = Before
        BY <1>3, <2>1 DEF Before
      <3> QED BY <1>4, <3>1 DEF Views
    <2>3. CASE ~cache_active
      BY <1>4, <2>1, <2>2, <2>3 DEF Views, Stutters
    <2>4. CASE cache_active
      <3>1. pc' = "fill" /\ ~Moving'
        <4>1. Moving' => ~(pc' = "fill")
          BY DEF Moving
        <4>2. pc' = "move0" => Moves'
          BY DEF IInv, Moving
        <4>3. pc' = "move0" => ~cache_active'
          BY <4>2 DEF Moves
        <4> QED BY <1>3, <2>1, <2>4, <4>3 DEF Moving
      <3>2. \A q \in Pages : ReadPage(q)' = ReadPage(q)
        BY <1>3, <2>1 DEF ReadPage
      <3>3. eepromView' = eepromView
        BY <1>3, <1>4, <3>1, <3>2 DEF Views
      <3>4. cachedView' = cachedView
        BY <1>3, <1>4, <2>1, <2>4, <3>1 DEF Views
      <3> QED BY <2>2, <3>3, <3>4 DEF Stutters
    <2> QED BY <2>3, <2>4
  <1> QED BY <1>5, <1>6

LEMMA FillRefines ==
  ASSUME IInv, IInv', FillPage
  PROVE  Store!Next \/ Stutters
  <1>1. /\ pc = "fill" /\ cache' = [header |-> request.page, data |-> request.data]
        /\ pc' = "activate" /\ flash' = flash /\ page_map' = page_map /\ spare_row' = spare_row
        /\ cache_active' = cache_active /\ ~Moving /\ ~Moving'
    BY DEF FillPage, layout, Moving
  <1>2. TypeOK /\ RequestSound /\ Settled
    BY <1>1 DEF IInv
  <1>3. request.page \in Pages /\ request.data \in Data
    BY <1>1, <1>2 DEF TypeOK, RequestSound
  <1>4. CASE cache_active
    <2>1. cache.header = request.page
      BY <1>1, <1>2, <1>4 DEF Settled, IsCached
    <2>2. Store!WriteCached(request.page, request.data) /\ eepromView'[request.page] = request.data
      BY <1>1, <1>3, <1>4, <2>1, CacheRefines
    <2> QED BY <1>3, <2>2, WriteOf
  <1>5. CASE ~cache_active
    <2>1. Views /\ Views'
      BY ViewsAre, ViewsNext
    <2>2. Before' = Before
      BY <1>1 DEF Before
    <2> QED BY <1>1, <1>5, <2>1, <2>2 DEF Views, Stutters
  <1> QED BY <1>4, <1>5

LEMMA ActivateRefines ==
  ASSUME IInv, IInv', ActivatePage
  PROVE  Store!Next \/ Stutters
  <1>1. /\ pc = "activate" /\ page_map' = [page_map EXCEPT ![request.page] = target]
        /\ cache_active' /\ pc' = "idle" /\ ~Moving /\ ~Moving'
        /\ flash' = flash /\ spare_row' = spare_row /\ cache' = cache
    BY DEF ActivatePage, Moving
  <1>2. TypeOK /\ RequestSound /\ Settled
    BY <1>1 DEF IInv
  <1>3. request.page \in Pages /\ request.data \in Data /\ page_map \in [Pages -> Phys]
    BY <1>1, <1>2 DEF TypeOK, RequestSound
  <1>4. cache.header = request.page /\ cache.data = request.data
    BY <1>1, <1>2 DEF Settled
  <1>5. CASE cache_active
    <2>1. page_map' = page_map
      <3>1. page_map[request.page] = target
        BY <1>1, <1>2, <1>5 DEF Settled
      <3> QED BY <1>1, <1>3, <3>1
    <2>2. Views /\ Views'
      BY ViewsAre, ViewsNext
    <2>3. storeView' = storeView
      BY <1>1, <2>2 DEF Views
    <2>4. \A q \in Pages : ReadPage(q)' = ReadPage(q)
      BY <1>1, <1>5, <2>1 DEF ReadPage
    <2>5. eepromView' = eepromView /\ cachedView' = cachedView
      BY <1>1, <1>5, <2>2, <2>4 DEF Views
    <2> QED BY <2>3, <2>5 DEF Stutters
  <1>6. CASE ~cache_active
    <2>1. \A q \in Pages \ {request.page} : page_map'[q] = page_map[q]
      BY <1>1, <1>3
    <2>2. cache'.header = request.page /\ cache'.data = request.data
      BY <1>1, <1>4
    <2>3. Store!WriteCached(request.page, request.data) /\ eepromView'[request.page] = request.data
      BY <1>1, <1>3, <1>6, <2>1, <2>2, CacheRefines
    <2> QED BY <1>3, <2>3, WriteOf
  <1> QED BY <1>5, <1>6

LEMMA MoveRefines ==
  ASSUME IInv, IInv', MovePage(0) \/ MovePage(1)
  PROVE  Stutters
  <1>1. Moving' /\ Before' = Before
    BY MoveFirstStep, MoveSecondStep
  <1>2. Moving
    <2>1. pc = <<"move0", "move1">>[0 + 1] \/ pc = <<"move0", "move1">>[1 + 1]
      BY DEF MovePage
    <2>2. <<"move0", "move1">>[0 + 1] = "move0" /\ <<"move0", "move1">>[1 + 1] = "move1"
      OBVIOUS
    <2> QED BY <2>1, <2>2 DEF Moving
  <1>3. Views /\ Views'
    BY ViewsAre, ViewsNext
  <1> QED BY <1>1, <1>2, <1>3 DEF Views, Stutters

LEMMA EraseRefines ==
  ASSUME IInv, IInv', EraseOldRow
  PROVE  Store!Next
  <1> DEFINE p == request.page
             v == request.data
             n0 == spare_row * RowPages
  <1>1. /\ pc = "erase" /\ flash' = ErasedRow(flash, RowOf(target)) /\ page_map' = page_map
        /\ cache' = cache /\ cache_active' = cache_active /\ Moving /\ ~Moving'
    BY DEF EraseOldRow, cacheVars, Moving
  <1>2. Moves /\ p \in Pages /\ v \in Data /\ Moved(0) \in Pages /\ Moved(1) \in Pages
        /\ Moved(0) # Moved(1)
    BY <1>1, MovedPages
  <1>3. /\ cache_active /\ cache = NewPage(Moved(1))
        /\ page_map[Moved(0)] = n0
        /\ \A q \in Pages \ {Moved(0), Moved(1)} : LastCopy(Before, q, page_map[q])
    BY <1>1, <1>2 DEF Moves
  <1>4. /\ LastCopy(flash', Moved(0), n0) /\ flash'[n0] = NewPage(Moved(0))
        /\ Copies(flash', Moved(1)) = {}
        /\ \A q \in Pages \ {Moved(0), Moved(1)} :
             Copies(flash', q) = Copies(Before, q) /\ \A n \in Copies(Before, q) : flash'[n] = Before[n]
    BY <1>1, ErasedOldRow
  <1>5. Views /\ Views'
    BY ViewsAre, ViewsNext
  <1>6. eepromView = DurablePages(Before) /\ cachedView = LogicalPages
    BY <1>1, <1>5 DEF Views
  <1>7. /\ cachedView' = Moved(1) /\ storeView' = DurablePages(flash')
        /\ eepromView' = [q \in Pages |-> ReadPage(q)']
    BY <1>1, <1>3, <1>5 DEF Views, NewPage
  <1>8. ASSUME NEW q \in Pages
        PROVE  /\ ReadPage(q)' = NewData(q)
               /\ DurablePages(flash')[q] = IF q = Moved(1) THEN Gone ELSE NewData(q)
    <2>1. CASE q = Moved(1)
      BY <1>1, <1>3, <1>4, <2>1, DurableIs DEF ReadPage, NewPage
    <2>2. CASE q = Moved(0)
      <3>1. ReadPage(q)' = flash'[n0].data
        BY <1>1, <1>2, <1>3, <2>2 DEF ReadPage, NewPage
      <3>2. DurablePages(flash')[q] = flash'[n0].data
        BY <1>2, <1>4, <2>2, LastCopyIs
      <3> QED BY <1>2, <1>4, <2>2, <3>1, <3>2 DEF NewPage
    <2>3. CASE q \notin {Moved(0), Moved(1)}
      <3>1. LastCopy(Before, q, page_map[q]) /\ Copies(flash', q) = Copies(Before, q)
        BY <1>3, <1>4, <2>3
      <3>2. LastCopy(flash', q, page_map[q]) /\ flash'[page_map[q]] = Before[page_map[q]]
        BY <1>4, <2>3, <3>1 DEF LastCopy
      <3>3. /\ DurablePages(Before)[q] = Before[page_map[q]].data
            /\ DurablePages(flash')[q] = flash'[page_map[q]].data
        BY <3>1, <3>2, LastCopyIs
      <3>4. ReadPage(q)' = flash'[page_map[q]].data
        BY <1>1, <1>3, <2>3 DEF ReadPage, NewPage
      <3>5. q # p
        <4>1. p = Moved(0) \/ p = Moved(1)
          <5>1. p = Base(p) \/ p = Base(p) + 1
            BY <1>2, BaseType
          <5>2. Moved(0) = Base(p) /\ Moved(1) = Base(p) + 1
            <6>1. Base(p) \in Pages
              BY <1>2, BaseType
            <6>2. Base(p) + 0 = Base(p)
              BY <6>1, Sizes
            <6> QED BY <6>2 DEF Moved
          <5> QED BY <5>1, <5>2
        <4> QED BY <2>3, <4>1
      <3> QED BY <2>3, <3>2, <3>3, <3>4, <3>5 DEF NewData
    <2> QED BY <2>1, <2>2, <2>3
  <1>9. eepromView' = [eepromView EXCEPT ![p] = v] /\ eepromView'[p] = v
    <2>1. \A q \in Pages : ReadPage(q)' = IF q = p THEN v ELSE DurablePages(Before)[q]
      BY <1>8 DEF NewData
    <2> QED BY <1>2, <1>6, <1>7, <2>1, DurableIs
  <1>10. storeView' = [eepromView' EXCEPT ![Moved(1)] = Gone]
    <2>1. DurablePages(flash') = [q \in Pages |-> DurablePages(flash')[q]]
      BY DurableIs
    <2>2. \A q \in Pages : DurablePages(flash')[q] = IF q = Moved(1) THEN Gone ELSE ReadPage(q)'
      BY <1>8
    <2> QED BY <1>7, <2>1, <2>2
  <1>11. Store!Second(p) = Moved(1) /\ cachedView # p
    BY <1>2, <1>6, StoreNames DEF Moved
  <1>12. Store!WriteMoving(p, v)
    BY <1>7, <1>9, <1>10, <1>11 DEF Store!WriteMoving
  <1> QED BY <1>2, <1>9, <1>12, WriteOf

LEMMA LossRefines ==
  ASSUME IInv, IInv', ~LossInMove, PowerLoss
  PROVE  Store!Loss
  <1>1. /\ NoPageHomeless /\ flash' = Mounted(flash) /\ ~cache_active' /\ ~Moving'
    BY DEF PowerLoss, StartUp, Moving
  <1>2. flash' = Before /\ Layout(Before, spare_row) /\ \A p \in Pages : Copies(Before, p) # {}
    BY <1>1, StartFinds DEF NoPageHomeless
  <1>3. Views /\ Views'
    BY ViewsAre, ViewsNext
  <1>4. storeView' = storeView /\ eepromView' = storeView /\ cachedView' = LogicalPages
    BY <1>1, <1>2, <1>3 DEF Views
  <1>5. storeView \in [Pages -> Data]
    BY <1>2, <1>3, DurableType DEF Views, Layout
  <1> QED BY <1>4, <1>5, StoreNames DEF Store!Loss

LEMMA StepRefines ==
  ASSUME ~LossInMove, ~Unguarded, IInv, IInv', [Next]_vars
  PROVE  [Store!Next]_(Store!vars)
  <1>1. CASE UNCHANGED vars
    <2>1. /\ flash' = flash /\ page_map' = page_map /\ spare_row' = spare_row
          /\ cache' = cache /\ cache_active' = cache_active /\ pc' = pc
      BY <1>1 DEF vars, layout, cacheVars, callVars
    <2>2. Views /\ Views' /\ Before' = Before /\ (Moving' <=> Moving)
      BY <2>1, ViewsAre, ViewsNext DEF Before, Moving
    <2>3. \A q \in Pages : ReadPage(q)' = ReadPage(q)
      BY <2>1 DEF ReadPage
    <2>4. Stutters
      BY <2>1, <2>2, <2>3 DEF Views, Stutters
    <2> QED BY <2>4 DEF Stutters, Store!vars
  <1>2. CASE StartWrite
    BY <1>2, StartRefines DEF Stutters, Store!vars
  <1>3. CASE FillPage
    BY <1>3, FillRefines DEF Stutters, Store!vars
  <1>4. CASE ActivatePage
    BY <1>4, ActivateRefines DEF Stutters, Store!vars
  <1>5. CASE MovePage(0) \/ MovePage(1)
    BY <1>5, MoveRefines DEF Stutters, Store!vars
  <1>6. CASE EraseOldRow
    BY <1>6, EraseRefines
  <1>7. CASE Commit
    <2>1. /\ ~Moving /\ flash' = CommittedFlash /\ page_map' = page_map /\ ~cache_active'
          /\ spare_row' = spare_row
      BY <1>7 DEF Commit, Moving
    <2> QED BY <2>1, CommitRefines DEF Store!Next
  <1>8. CASE PowerLoss
    BY <1>8, LossRefines DEF Store!Next
  <1> QED BY <1>1, <1>2, <1>3, <1>4, <1>5, <1>6, <1>7, <1>8 DEF Next

(* The emulator implements EepromStore: callers read what was written last, *)
(* only the cached page is ever lost, and the move of a row changes nothing *)
(* but the page that is written, if power is lost only while every page has *)
(* a copy in the flash, and no commit comes between the steps of a write.   *)
THEOREM EmulatorImplementsStore ==
  ASSUME ~LossInMove, ~Unguarded
  PROVE  Spec => ImplementsEepromStore
  <1>1. IInv /\ IInv' /\ [Next]_vars => [Store!Next]_(Store!vars)
    BY StepRefines
  <1> QED BY <1>1, IInvHolds, InitRefines, PTL DEF Spec, ImplementsEepromStore, Store!Spec
=============================================================================
