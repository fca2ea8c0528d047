---------------------------- MODULE EepromEmulator ----------------------------
(***************************************************************************)
(* The EEPROM emulator (eeprom.c): logical pages are kept as successive     *)
(* copies in the rows of a flash memory, two pages to a row of four copies, *)
(* with a spare row that a full row moves to.  The last page that was       *)
(* written is in a cache in RAM and in the page buffer of the NVM           *)
(* controller; committing it programs the buffer into its physical page.    *)
(*                                                                         *)
(* Erasing a row and programming a page are atomic.  The data of a page is  *)
(* one value, Blank when it has only ones; bits can only be programmed from *)
(* one to zero, so a page programmed twice holds Garbage.                   *)
(***************************************************************************)
EXTENDS Integers, FiniteSetsExt

CONSTANTS
  Rows,          \* rows of the flash, NVMCTRL_ROW_PAGES pages each
  Blank,         \* data of an erased page, and of a page after formatting
  Garbage,       \* outcome of programming a page twice
  Writes,        \* the data that is written to each logical page
  LossInMove,    \* power may be lost while a page is nowhere but in the cache
  Unguarded      \* writes are not in a critical section

RowPages == 4
LogicalPages == (Rows * RowPages - 2 * RowPages) \div 2

ASSUME RowsAssumption == Rows \in Nat /\ Rows >= 3
ASSUME DataAssumption == /\ Writes \in [0 .. LogicalPages - 1 -> SUBSET Nat]
                         /\ Blank \in Nat /\ Garbage \in Nat
                         /\ \A p \in DOMAIN Writes : Garbage \notin Writes[p] \cup {Blank}
                         /\ Garbage > LogicalPages + 1
ASSUME SwitchAssumption == LossInMove \in BOOLEAN /\ Unguarded \in BOOLEAN

Phys == 0 .. Rows * RowPages - 1
Pages == 0 .. LogicalPages - 1
MasterPage == Rows * RowPages - 1
MasterRow == Rows - 1
NoRow == Rows

(* The headers of a page without content and of the master page.            *)
Free == LogicalPages
Master == LogicalPages + 1

Data == {Blank, Garbage} \cup UNION {Writes[p] : p \in Pages}
Contents == [header : Pages \cup {Free, Master}, data : Data]
Erased == [header |-> Free, data |-> Blank]
NoRequest == [page |-> Free, data |-> Blank]

VARIABLES
  flash, page_map, spare_row,
  cache, cache_active,
  nvm_buffer,    \* the page buffer of the NVM controller
  pc,            \* where eeprom_emulator_write_page is
  request,       \* its parameters
  target         \* the free page, or the first page of the full row, it has found

cacheVars == <<cache, cache_active>>
layout == <<flash, page_map, spare_row>>
callVars == <<pc, request, target>>
vars == <<layout, cacheVars, nvm_buffer, callVars>>

-----------------------------------------------------------------------------
(* The flash.                                                               *)

RowOf(n) == n \div RowPages
RowPhys(r) == r * RowPages .. r * RowPages + RowPages - 1

ErasedRow(f, r) == [n \in Phys |-> IF n \in RowPhys(r) THEN Erased ELSE f[n]]

Overlay(old, new, ones) ==
  IF old = ones THEN new ELSE IF new \in {old, ones} THEN old ELSE Garbage

(* Page n after the buffer b has been programmed into it.                   *)
Programmed(f, n, b) ==
  [f EXCEPT ![n] = [header |-> Overlay(f[n].header, b.header, Free),
                    data |-> Overlay(f[n].data, b.data, Blank)]]

(* Row 0 is the spare row, then come two blank pages to a row.              *)
Formatted ==
  [n \in Phys |-> CASE n = MasterPage -> [Erased EXCEPT !.header = Master]
                    [] RowOf(n) \in 1 .. MasterRow - 1 /\ n % RowPages < 2 ->
                         [Erased EXCEPT !.header = 2 * (RowOf(n) - 1) + (n % RowPages)]
                    [] OTHER -> Erased]

-----------------------------------------------------------------------------
(* Start-up.                                                                *)

First(f, r) == f[r * RowPages].header
IsFullRow(f, r) == f[r * RowPages + 2].header \in {First(f, r), f[r * RowPages + 1].header}

(* Of the rows that begin with the same page, the first one that is not     *)
(* taken for full is kept, or the last one if all of them are.              *)
Kept(f, r) ==
  LET same == {s \in 0 .. MasterRow : First(f, s) = First(f, r)}
  IN  First(f, r) # Free =>
        /\ \A s \in same : s < r => IsFullRow(f, s)
        /\ IsFullRow(f, r) => \A s \in same : s <= r

(* The other rows are erased.                                               *)
check_logical_page(f) == [n \in Phys |-> IF Kept(f, RowOf(n)) THEN f[n] ELSE Erased]

Copies(f, p) == {n \in Phys \ {MasterPage} : f[n].header = p}

(* Mutant: the first copy that is found is kept.                            *)
MappingFirst(f) == [p \in Pages |-> IF Copies(f, p) = {} THEN 0 ELSE Min(Copies(f, p))]

(* The last copy of each page; the map is all zeros before.                 *)
Mapping(f) == [p \in Pages |-> IF Copies(f, p) = {} THEN 0 ELSE Max(Copies(f, p))]

(* The first row without a page.                                            *)
SpareRow(f) ==
  LET spare == {r \in 0 .. MasterRow :
                  \A n \in RowPhys(r) \ {MasterPage} : f[n].header = Free}
  IN IF spare = {} THEN NoRow ELSE Min(spare)

(* The flash after eeprom_init: it is formatted again if it looks corrupt.  *)
Mounted(f) ==
  LET checked == check_logical_page(f)
  IN IF SpareRow(checked) = NoRow \/ checked[MasterPage].header # Master
     THEN Formatted ELSE checked

(* RAM after a reset, with f in the flash.                                  *)
StartUp(f) ==
  /\ flash' = Mounted(f)
  /\ page_map' = Mapping(flash')
  /\ spare_row' = SpareRow(flash')
  /\ cache' = Erased /\ cache_active' = FALSE
  /\ nvm_buffer' = Erased
  /\ pc' = "idle" /\ request' = NoRequest /\ target' = 0

Init ==
  /\ flash = Formatted
  /\ page_map = Mapping(flash)
  /\ spare_row = SpareRow(flash)
  /\ cache = Erased /\ cache_active = FALSE
  /\ nvm_buffer = Erased
  /\ pc = "idle" /\ request = NoRequest /\ target = 0

-----------------------------------------------------------------------------
(* Writing a page.                                                          *)

(* eeprom_emulator_commit_page_buffer programs the buffer, which is empty   *)
(* afterwards.                                                              *)
CommittedFlash ==
  IF cache_active THEN Programmed(flash, page_map[cache.header], nvm_buffer) ELSE flash

CommittedBuffer == IF cache_active THEN Erased ELSE nvm_buffer

FreeOnRow(f, n) == {m \in RowPhys(RowOf(n)) : m >= n /\ f[m].header = Free}

(* Mutant: the page that is in the cache is not committed.                  *)
StartWithoutCommit ==
  /\ pc = "idle"
  /\ \E p \in Pages : \E v \in Writes[p] :
       /\ request' = [page |-> p, data |-> v]
       /\ LET free == FreeOnRow(flash, page_map[p])
          IN IF free # {}
             THEN pc' = "fill" /\ target' = Min(free)
             ELSE pc' = "move0" /\ target' = RowOf(page_map[p]) * RowPages
  /\ UNCHANGED <<layout, cacheVars, nvm_buffer>>

(* Another page in the cache is committed; is there a free page on the row? *)
StartWrite ==
  /\ pc = "idle"
  /\ \E p \in Pages : \E v \in Writes[p] :
       LET commit == cache_active /\ cache.header # p IN
       /\ request' = [page |-> p, data |-> v]
       /\ flash' = IF commit THEN CommittedFlash ELSE flash
       /\ nvm_buffer' = IF commit THEN Erased ELSE nvm_buffer
       /\ cache_active' = (cache_active /\ ~commit)
       /\ LET free == FreeOnRow(flash', page_map[p])
          IN IF free # {}
             THEN pc' = "fill" /\ target' = Min(free)
             ELSE pc' = "move0" /\ target' = RowOf(page_map[p]) * RowPages
  /\ UNCHANGED <<page_map, spare_row, cache>>

(* The page is copied to the cache and to the buffer.                       *)
FillPage ==
  /\ pc = "fill"
  /\ cache' = [header |-> request.page, data |-> request.data]
  /\ nvm_buffer' = cache'
  /\ pc' = "activate"
  /\ UNCHANGED <<layout, cache_active, request, target>>

ActivatePage ==
  /\ pc = "activate"
  /\ page_map' = [page_map EXCEPT ![request.page] = target]
  /\ cache_active' = TRUE
  /\ pc' = "idle" /\ request' = NoRequest /\ target' = 0
  /\ UNCHANGED <<flash, spare_row, cache, nvm_buffer>>

(* The last copy of page number c of the row that is moved.                 *)
Newest(c) ==
  Max({target + c} \cup {m \in target + 2 .. target + 3 : flash[m].header = flash[target + c].header})

(* Page number c goes to the cache, the page moved before it to the flash.  *)
MovePage(c) ==
  /\ pc = <<"move0", "move1">>[c + 1]
  /\ LET p == flash[target + c].header IN
     /\ cache' = IF p = request.page
                 THEN [header |-> p, data |-> request.data]
                 ELSE flash[Newest(c)]
     /\ page_map' = [page_map EXCEPT ![p] = spare_row * RowPages + c]
  /\ flash' = CommittedFlash
  /\ nvm_buffer' = cache'
  /\ cache_active' = TRUE
  /\ pc' = <<"move1", "erase">>[c + 1]
  /\ UNCHANGED <<spare_row, request, target>>

EraseOldRow ==
  /\ pc = "erase"
  /\ flash' = ErasedRow(flash, RowOf(target))
  /\ spare_row' = RowOf(target)
  /\ pc' = "idle" /\ request' = NoRequest /\ target' = 0
  /\ UNCHANGED <<page_map, cacheVars, nvm_buffer>>

-----------------------------------------------------------------------------
(* Interrupts and resets.                                                   *)

(* The brown-out or the watchdog interrupt commits, as SYSTEM_RESET and a   *)
(* write outside the holding area do; a critical section keeps it waiting.  *)
Commit ==
  /\ pc = "idle" \/ Unguarded
  /\ flash' = CommittedFlash
  /\ nvm_buffer' = CommittedBuffer
  /\ cache_active' = FALSE
  /\ UNCHANGED <<page_map, spare_row, cache, callVars>>

(* Every page has a copy that the next start will find.                     *)
NoPageHomeless == LET f == Mounted(flash) IN \A p \in Pages : Copies(f, p) # {}

(* Power is lost, or the reset pin is pulled.                               *)
PowerLoss ==
  /\ LossInMove \/ NoPageHomeless
  /\ StartUp(flash)

Next == \/ StartWrite \/ FillPage \/ ActivatePage
        \/ MovePage(0) \/ MovePage(1) \/ EraseOldRow
        \/ Commit \/ PowerLoss

Spec == Init /\ [][Next]_vars

-----------------------------------------------------------------------------
(* The pages as a caller reads them, and what the flash holds of them.      *)

ReadPage(p) ==
  IF cache_active /\ cache.header = p THEN cache.data ELSE flash[page_map[p]].data

Gone == Garbage + 1

DurablePages(f) ==
  [p \in Pages |-> IF Copies(f, p) = {} THEN Gone ELSE f[Max(Copies(f, p))].data]

(* While a row moves the abstract store is still the one before the move;   *)
(* it changes when the old row is erased.                                   *)
Moving == pc \in {"move0", "move1", "erase"}
storeView == DurablePages(IF Moving THEN ErasedRow(flash, spare_row) ELSE flash)
eepromView == IF Moving THEN storeView ELSE [p \in Pages |-> ReadPage(p)]
cachedView == IF cache_active /\ ~Moving THEN cache.header ELSE LogicalPages

Store == INSTANCE EepromStore
           WITH NumPages <- LogicalPages, store <- storeView, eeprom <- eepromView,
                cached <- cachedView

-----------------------------------------------------------------------------
(* Properties.                                                              *)

(* Every variable has its type, and every physical page the header of one   *)
(* logical page.                                                            *)
TypeOK ==
  /\ flash \in [Phys -> Contents] /\ page_map \in [Pages -> Phys]
  /\ spare_row \in 0 .. MasterRow
  /\ cache \in Contents /\ cache_active \in BOOLEAN /\ nvm_buffer \in Contents
  /\ pc \in {"idle", "fill", "activate", "move0", "move1", "erase"}
  /\ request \in [page : Pages \cup {Free}, data : Data] /\ target \in Phys

(* Between two calls the layout is the one that move_data_to_spare and the  *)
(* next start rely on, after any sequence of writes, moves, commits and     *)
(* losses of power: the spare row is erased and is not the row of the       *)
(* master page, the master page is intact, and the pages of a pair are      *)
(* mapped to the same row, each to its last copy or, while it is cached, to  *)
(* a free page after all copies; no page has been programmed twice.         *)
LayoutSound ==
  pc = "idle" =>
    /\ spare_row < MasterRow /\ \A n \in RowPhys(spare_row) : flash[n] = Erased
    /\ flash[MasterPage].header = Master
    /\ \A n \in Phys : flash[n].data # Garbage
    /\ \A p \in Pages :
         /\ RowOf(page_map[p]) = RowOf(page_map[p - (p % 2)])
         /\ IF cache_active /\ cache.header = p
            THEN flash[page_map[p]] = Erased
            ELSE flash[page_map[p]].header = p
         /\ \A n \in Copies(flash, p) : RowOf(n) = RowOf(page_map[p]) /\ n <= page_map[p]

(* Callers of the emulator see the pages and the durability of EepromStore: *)
(* what was written last is read, only the cached page is ever lost, and    *)
(* moving a row changes nothing but the page that is written.               *)
ImplementsEepromStore == Store!Spec

(* The documentation of the emulator (eeprom.h:111, 187): in the event of a *)
(* failed update the previous data is not lost, as the pages of a full row  *)
(* are written to the spare row before the old row is erased.  Whenever     *)
(* power is lost, every page then reads as it was last written or as it was *)
(* last in the flash.                                                       *)
PreviousDataKept ==
  [][PowerLoss => \A p \in Pages : ReadPage(p)' \in {ReadPage(p), DurablePages(flash)[p]}]_vars

(* The comment of eeprom_emulator_commit_page_buffer (eeprom.c:1001): it    *)
(* ensures that any outstanding cached data is preserved.                   *)
CommitPreservesData == [][Commit => \A p \in Pages : ReadPage(p)' = ReadPage(p)]_vars
=============================================================================
