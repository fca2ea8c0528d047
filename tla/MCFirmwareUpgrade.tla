------------------------- MODULE MCFirmwareUpgrade -------------------------
(* FirmwareUpgrade for TLC: a shorter and a longer image, the second not a  *)
(* multiple of the erase row.                                               *)
EXTENDS FirmwareUpgrade

CONSTANTS old, new

MCImages == {old, new}
MCImageSize == [img \in MCImages |-> IF img = old THEN 2 ELSE 3]
=============================================================================
