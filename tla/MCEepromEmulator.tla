--------------------------- MODULE MCEepromEmulator ---------------------------
(***************************************************************************)
(* Two rows of data, one spare row and the master row: four pages.  One     *)
(* page of the first row is written with two values, the other one and a    *)
(* page of the second row with one, so that every order of copies and moves *)
(* occurs, and each of the three rows is the spare one in turn.             *)
(***************************************************************************)
EXTENDS EepromEmulator, SequencesExt

MCWrites == (0 :> {1, 2}) @@ (1 :> {1}) @@ (2 :> {1}) @@ (3 :> {})

(* The check at start-up as the loops of the code run it: row i is compared *)
(* with each later row j, by what row i began with when its turn came.      *)
CheckRow(f, i) ==
  LET first == First(f, i)
      check(g, j) == IF j > i /\ first # Free /\ First(g, j) = first
                     THEN ErasedRow(g, IF IsFullRow(g, i) THEN i ELSE j)
                     ELSE g
  IN FoldLeft(check, f, [k \in 1 .. Rows |-> k - 1])
CheckByLoops(f) == FoldLeft(CheckRow, f, [k \in 1 .. Rows |-> k - 1])

(* Rows that begin with page 0, with page 2 or are empty, and are full, not *)
(* full, or are taken for full as the page after the first is free.         *)
RowHeaders == {<<Free, Free, Free>>} \cup {<<p, x, y>> : p \in {0, 2}, x \in {1, Free}, y \in {0, Free}}
Flash(rows) == [n \in Phys |-> IF n % RowPages = 3 THEN Erased
                               ELSE [Erased EXCEPT !.header = rows[RowOf(n)][(n % RowPages) + 1]]]

ASSUME CheckAssumption ==
  \A rows \in [0 .. MasterRow -> RowHeaders] : check_logical_page(Flash(rows)) = CheckByLoops(Flash(rows))
=============================================================================
