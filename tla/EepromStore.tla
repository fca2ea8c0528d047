----------------------------- MODULE EepromStore -----------------------------
(***************************************************************************)
(* What the EEPROM emulator promises its callers (eeprom.h): pages that are *)
(* read as they were last written, and that survive a loss of power except  *)
(* for the one page in the write cache, which then has its former content.  *)
(*                                                                          *)
(* The exception to the promise is part of it: a write to a full row moves  *)
(* the row, after which one of its two pages is nowhere but in the cache.   *)
(***************************************************************************)
EXTENDS Integers

CONSTANTS
  NumPages,   \* logical pages
  Data,       \* contents of a page
  Gone        \* no content: the page is only in the cache

Pages == 0 .. NumPages - 1
NoPage == NumPages

VARIABLES
  store,      \* the pages in non-volatile memory
  eeprom,     \* the pages as they are read
  cached      \* the page in the write cache, or NoPage

vars == <<store, eeprom, cached>>

(* Pages 2k and 2k + 1 share a row; the second one is moved last.           *)
Second(p) == IF p % 2 = 0 THEN p + 1 ELSE p

Init ==
  /\ eeprom \in [Pages -> Data]
  /\ store = eeprom
  /\ cached = NoPage

(* Page p becomes the cached one, and the page cached before it is durable. *)
WriteCached(p, v) ==
  /\ cached' = p
  /\ eeprom' = [eeprom EXCEPT ![p] = v]
  /\ store' = IF cached \in {NoPage, p} THEN store ELSE eeprom

(* The row of page p is full and moves; its old copy is erased.             *)
WriteMoving(p, v) ==
  /\ cached # p /\ cached' = Second(p)
  /\ eeprom' = [eeprom EXCEPT ![p] = v]
  /\ store' = [eeprom' EXCEPT ![Second(p)] = Gone]

(* A write outside the holding area, which is committed at once.            *)
WriteThrough(p, v) ==
  /\ cached' = NoPage
  /\ eeprom' = [eeprom EXCEPT ![p] = v]
  /\ store' = eeprom'

Commit ==
  /\ cached' = NoPage
  /\ store' = eeprom
  /\ UNCHANGED eeprom

(* Power is lost while every page has a durable copy.                       *)
Loss ==
  /\ cached' = NoPage
  /\ store \in [Pages -> Data]
  /\ eeprom' = store
  /\ UNCHANGED store

(* What is written is what is read afterwards.                              *)
Write(p) ==
  LET v == eeprom'[p]
  IN  v \in Data /\ (WriteCached(p, v) \/ WriteMoving(p, v) \/ WriteThrough(p, v))

Next == Commit \/ Loss \/ \E p \in Pages : Write(p)

Spec == Init /\ [][Next]_vars
=============================================================================
