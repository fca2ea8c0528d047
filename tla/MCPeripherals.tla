--------------------------- MODULE MCPeripherals ---------------------------
(***************************************************************************)
(* Peripherals for TLC.                                                    *)
(***************************************************************************)
EXTENDS Peripherals

(* Nought or two pulses for each rotation (as bytes), the fan on and off    *)
(* its curve.                                                               *)
MCPulses == {0, 2}
MCCurves == {1, 3}

ASSUME PeripheralsAssumption
=============================================================================
