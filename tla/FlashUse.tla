------------------------------ MODULE FlashUse ------------------------------
(***************************************************************************)
(* The two uses of the SPI flash (SpiFlash): an upload by the master, and  *)
(* the development commands of the console.  A behaviour is one of a       *)
(* single use, chosen in the beginning: the commands write over an image.  *)
(* `part` may also name a part of a module that extends this one.          *)
(***************************************************************************)
CONSTANTS
  Bits, AddrMod, Total, Block, Page, Retries, FirmwareStart, FirmwareImage, Chunk,
  Records, Writes, Erases                      \* of SpiFlash

VARIABLES
  part, mem, busy, detected, pc, ret, call, addr, retries, hashed, status, flash_last_addr,
  flash_offset, promised, ready, acked, refused, skipped
spi == <<mem, busy, detected, pc, ret, call, addr, retries, hashed, status, flash_last_addr,
  flash_offset, promised, ready, acked, refused, skipped>>
use == <<part, spi>>

F == INSTANCE SpiFlash WITH Start <- FirmwareStart, Image <- FirmwareImage,
       last_addr <- flash_last_addr

UseInit == F!Init

UseNext ==
  /\ \/ part \in {"flash upload", "flash commands"} /\ (F!Ready \/ F!Driver \/ F!Returns)
     \/ part = "flash upload" /\ F!Uploads
     \/ part = "flash commands" /\ F!Commands
  /\ UNCHANGED part

UseSpec == UseInit /\ [][UseNext]_use
-----------------------------------------------------------------------------
(* The properties, as SpiFlash states them.                                 *)

(* A call that succeeds has done what it says, one that fails nothing else  *)
(* (spi_flash.c:123-198).                                                   *)
CallKeepsItsPromise == F!CallKeepsItsPromise
(* What a write has confirmed is in the flash (upgrade.c:115-122).          *)
UploadIsInPlace == F!UploadIsInPlace
(* The verification passes a complete image, and nothing that is not the    *)
(* image (upgrade.c:125-156).                                               *)
VerifiesExactlyTheImage == F!VerifiesExactlyTheImage
=============================================================================
