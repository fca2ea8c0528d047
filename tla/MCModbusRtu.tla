---------------------------- MODULE MCModbusRtu ----------------------------
(* ModbusRtu for TLC: a buffer of six characters, frames that just reach    *)
(* the minimum or fill the buffer exactly, and two of them, sent without a  *)
(* silence between, that exceed it.                                         *)
EXTENDS ModbusRtu

MCSizes == {5, 6}
MCAddresses == {1, 2}
OneAddress == {1}
MCReplySizes == {5}
=============================================================================
