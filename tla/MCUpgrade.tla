----------------------------- MODULE MCUpgrade -----------------------------
(***************************************************************************)
(* Upgrades through one front end for TLC: either by MODBUS, with failing  *)
(* SPI operations, or from the console.  What happens when both are used   *)
(* at once is another run's question.                                      *)
(***************************************************************************)
EXTENDS MCFirmwareUpgrade

VARIABLE frontEnd

C == INSTANCE FirmwareUpgrade WITH UseModbus <- FALSE, UseConsole <- TRUE, SpiFaults <- FALSE

OneInit == Init /\ frontEnd \in {"modbus", "console"}
OneNext ==
  \/ frontEnd = "modbus" /\ Next /\ UNCHANGED frontEnd
  \/ frontEnd = "console" /\ C!Next /\ UNCHANGED frontEnd

(* bootloader is the same for both.                                         *)
OneSpec == OneInit /\ [][OneNext]_<<vars, frontEnd>> /\ WF_vars(bootloader)
=============================================================================
