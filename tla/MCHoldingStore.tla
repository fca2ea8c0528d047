--------------------------- MODULE MCHoldingStore ---------------------------
(* HoldingStore for TLC: the reset value is 1, the master writes 2 to a      *)
(* configuration register, and 0 or 1 to the requests.                      *)
EXTENDS HoldingStore

MCWritten == [r \in Regs |-> CASE r \in Restored -> {2}
                               [] r = "SOFTWARE_RESET" -> {0, 1}
                               [] r = "UPGRADE_FUNCTION" -> {1}]
=============================================================================
