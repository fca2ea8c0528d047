----------------------------- MODULE MCSpiFlash -----------------------------
(* SpiFlash for TLC: 16 bytes in blocks of 4 and pages of 2; an image that  *)
(* ends in the middle of its second block.                                  *)
EXTENDS SpiFlash

MCImage == << {}, {0}, {1}, {0}, {}, {1} >>
MCRecords == {<<0, 3>>, <<3, 3>>}
=============================================================================
