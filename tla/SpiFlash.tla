------------------------------ MODULE SpiFlash ------------------------------
(***************************************************************************)
(* The SPI flash driver (spi_flash.c) with what uses it: the upload of an  *)
(* image at its addresses, its verification and its activation             *)
(* (upgrade.c), by the master's requests (modbus.c), and the development   *)
(* commands of the console (cli.c).                                        *)
(*                                                                         *)
(* The device erases blocks and programs pages on its own; meanwhile it is *)
(* busy and answers nothing but its status.  The driver polls it for a     *)
(* limited time, then gives up: the device may be busy when the next call  *)
(* begins.  SPI transfers do not fail: the ASF driver waits in master      *)
(* mode.  Resets are in FirmwareUpgrade, but for the one of an activation. *)
(*                                                                         *)
(* A byte is the set of its bits that are 1.  The checksum is ideal: it    *)
(* accepts the image and nothing else.                                     *)
(***************************************************************************)
EXTENDS Integers, Sequences

CONSTANTS
  Bits, AddrMod,         \* of a byte; the addresses (2^32)
  Total, Block, Page,    \* bytes of the device, erased at once, programmed at once
  Retries,               \* of spi_flash_wait_ready (5000)
  Start,                 \* CFG_FIRMWARE_START
  Image,                 \* the image that is sent, with its CRC in the last two bytes
  Chunk,                 \* of upgrade_verify (256)
  Records,               \* positions in the image and lengths of the writes
  Writes, Erases         \* arguments of flash_write and flash_erase

(* The records are of the image, which fits behind the header's block; the  *)
(* commands stay inside the device, and an erasure begins with a block.     *)
SpiFlashAssumption ==
  /\ {Total, Block, Page, Retries, Chunk} \subseteq Nat \ {0} /\ Start \in Nat
  /\ Total % Block = 0 /\ Block % Page = 0 /\ Block > 1
  /\ AddrMod \in Nat /\ AddrMod > Start + Total
  /\ Image \in Seq(SUBSET Bits) /\ Len(Image) > 2 /\ Block + Len(Image) <= Total
  /\ Records \subseteq Nat \X Nat /\ \A rec \in Records : rec[1] + rec[2] <= Len(Image)
  /\ Writes \subseteq Nat \X Seq(SUBSET Bits) /\ \A w \in Writes : w[1] + Len(w[2]) <= Total
  /\ Erases \subseteq Nat \X (Int \ {0})
  /\ \A e \in Erases : e[1] % Block = 0 /\ e[1] + e[2] <= Total

Addresses == 0 .. Total - 1
Erased == Bits
Header == << {} >>             \* struct flash_header, shorter than a page
Operations == {"none", "start", "erase", "write", "program", "activate", "verify", "clear"}
Idle == [op |-> "none", end |-> 0, data |-> << >>]

VARIABLES
  mem, busy,              \* the device
  detected,               \* spi_flash_type is set
  pc, ret,                \* "idle", "loop", "wait", "read", "return"; the result
  call, addr, retries,    \* the call in progress and its variables
  hashed,                 \* bytes that upgrade_verify has read
  status, last_addr, flash_offset,
  promised,               \* history: the memory as the call should leave it,
  ready,                  \*   whether the device was ready when it began,
  acked, refused, skipped \*   positions of the image written since the last upgrade_start,
                          \*   the write that was refused last, and whether one was not repeated
device == <<mem, busy>>
driver == <<call, addr, retries, hashed>>
upgrade == <<status, last_addr, flash_offset>>
upload == <<acked, refused, skipped>>
vars == <<device, detected, pc, ret, driver, upgrade, promised, ready, upload>>

TypeOK ==
  /\ mem \in [Addresses -> SUBSET Bits]
  /\ pc \in {"idle", "loop", "wait", "read", "return"} /\ ret \in {0, -1}
  /\ {busy, detected, ready, skipped} \subseteq BOOLEAN
  /\ {addr, last_addr, flash_offset} \subseteq 0 .. AddrMod - 1
  /\ call \in [op : Operations, end : 0 .. AddrMod - 1, data : Seq(SUBSET Bits)]
  /\ hashed \in Seq(SUBSET Bits)
  /\ retries \in 0 .. Retries
  /\ status \in {"NO_UPGRADE", "IN_PROGRESS", "VERIFIED", "ERROR"}
  /\ promised \in [Addresses -> SUBSET Bits]
  /\ acked \subseteq 1 .. Len(Image) /\ refused \in Records \cup {<< >>}

Init ==
  /\ mem = [x \in Addresses |-> Erased] /\ busy = FALSE /\ detected = TRUE
  /\ pc = "idle" /\ ret = 0 /\ call = Idle /\ addr = 0 /\ retries = 0 /\ hashed = << >>
  /\ status = "NO_UPGRADE" /\ last_addr = 0 /\ flash_offset = 0
  /\ promised = mem /\ ready = TRUE
  /\ acked = {} /\ refused = << >> /\ skipped = FALSE
-----------------------------------------------------------------------------
(* The device.                                                              *)

BlockAt(a) == {x \in Addresses : x \div Block = (a % Total) \div Block}

EraseBlock(m, a) == [x \in Addresses |-> IF x \in BlockAt(a) THEN Erased ELSE m[x]]

(* A page program wraps around in its page, and can only clear bits.        *)
PageProgram(m, a, bytes) ==
  LET base == (a % Total) - (a % Page)
      Byte(x) == {i \in 1 .. Len(bytes) : base + ((a + i - 1) % Page) = x}
  IN  [x \in Addresses |-> {b \in m[x] : \A i \in Byte(x) : b \in bytes[i]}]

Ready ==
  /\ busy /\ busy' = FALSE
  /\ UNCHANGED <<mem, detected, pc, ret, driver, upgrade, promised, ready, upload>>
-----------------------------------------------------------------------------
(* The driver.                                                              *)

IsErase == call.op \in {"start", "erase", "clear"}

(* Mutant: a chunk starts at the address, not at the rest of its page.      *)
WholePages ==
  LET chunk == Page
  IN  IF addr + chunk >= call.end THEN call.end - addr ELSE chunk
ProgramChunk ==
  LET chunk == Page - (addr % Page)
  IN  IF addr + chunk >= call.end THEN call.end - addr ELSE chunk

Step == IF IsErase THEN Block ELSE ProgramChunk
More == IF IsErase THEN addr <= call.end ELSE addr < call.end

(* Write enable and the command; a busy device ignores both.                *)
SendCommand ==
  /\ pc = "loop" /\ More
  /\ pc' = "wait" /\ retries' = Retries /\ busy' = TRUE
  /\ mem' = IF busy THEN mem
            ELSE IF IsErase THEN EraseBlock(mem, addr)
            ELSE PageProgram(mem, addr, SubSeq(call.data, 1, ProgramChunk))
  /\ UNCHANGED <<detected, ret, call, addr, hashed, upgrade, promised, ready, upload>>

LoopEnds ==
  /\ pc = "loop" /\ ~More
  /\ pc' = "return" /\ ret' = 0
  /\ UNCHANGED <<device, detected, driver, upgrade, promised, ready, upload>>

PollsLeft == retries - 1
TimedOut == PollsLeft = 0

(* spi_flash_wait_ready: one poll, or the time-out.                         *)
Poll ==
  /\ pc = "wait" /\ retries' = PollsLeft
  /\ \/ TimedOut /\ pc' = "return" /\ ret' = -1 /\ UNCHANGED <<call, addr>>
     \/ ~TimedOut /\ busy /\ UNCHANGED <<pc, ret, call, addr>>
     \/ /\ ~TimedOut /\ ~busy
        /\ pc' = "loop" /\ addr' = (addr + Step) % AddrMod
        /\ call' = IF IsErase THEN call
                   ELSE [call EXCEPT !.data = SubSeq(@, ProgramChunk + 1, Len(@))]
        /\ UNCHANGED ret
  /\ UNCHANGED <<device, detected, hashed, upgrade, promised, ready, upload>>

(* spi_flash_read; nothing drives the line while the device is busy.        *)
Read(a, len) == [i \in 1 .. len |-> IF busy THEN Bits ELSE mem[(a + i - 1) % Total]]

(* The beginning of each call.                                              *)
Begin(op, a, end, data, later) ==
  /\ pc' = (IF detected' THEN "loop" ELSE "return")
  /\ ret' = -1 /\ addr' = a /\ call' = [op |-> op, end |-> end, data |-> data]
  /\ promised' = later /\ ready' = ~busy
  /\ UNCHANGED <<device, retries, hashed>>

spi_flash_program(op, a, data) ==
  Begin(op, a, (a + Len(data)) % AddrMod, data,
        [x \in Addresses |-> IF x \in a .. a + Len(data) - 1
                             THEN mem[x] \cap data[x - a + 1] ELSE mem[x]])

spi_flash_erase(op, a, len) ==
  LET first == IF len < 0 THEN 0 ELSE a
      last == IF len < 0 THEN Total - 1 ELSE (a + len - 1) % AddrMod
  IN  Begin(op, first, last, << >>,
            [x \in Addresses |-> IF x \in UNION {BlockAt(y) : y \in first .. last}
                                 THEN Erased ELSE mem[x]])
-----------------------------------------------------------------------------
(* upgrade.c, called by do_modbus as far as UPGRADE_STATUS allows.          *)

upgrade_start ==
  /\ pc = "idle" /\ UNCHANGED detected /\ spi_flash_erase("start", 0, -1)
  /\ last_addr' = 0 /\ flash_offset' = IF detected THEN Block ELSE AddrMod - 1
  /\ acked' = {} /\ refused' = << >> /\ skipped' = FALSE
  /\ UNCHANGED status

(* Mutant: the records are taken to come in order.                          *)
LastOfThis(end) == end
LastOf(end) == IF end > last_addr THEN end ELSE last_addr

(* Mutant: the image is not put behind the block of the header.             *)
InFlashUnshifted(a) == a
InFlash(a) == (a + flash_offset) % AddrMod

(* The record's address is one of the program memory.                       *)
upgrade_write_data ==
  /\ pc = "idle" /\ status = "IN_PROGRESS" /\ UNCHANGED detected
  /\ \E rec \in Records :
       LET a == (Start + rec[1] - Start) % AddrMod
       IN  /\ last_addr' = LastOf((a + rec[2]) % AddrMod)
           /\ spi_flash_program("write", InFlash(a), SubSeq(Image, rec[1] + 1, rec[1] + rec[2]))
           /\ refused' = rec /\ skipped' = (skipped \/ refused \notin {<< >>, rec})
  /\ UNCHANGED <<acked, status, flash_offset>>

upgrade_activate ==
  /\ pc = "idle" /\ status = "VERIFIED" /\ UNCHANGED detected
  /\ spi_flash_program("activate", 0, Header)
  /\ UNCHANGED <<upgrade, upload>>

upgrade_verify ==
  /\ status = "IN_PROGRESS" /\ pc = "idle" /\ pc' = "read"
  /\ addr' = flash_offset /\ hashed' = << >>
  /\ call' = [op |-> "verify", end |-> (flash_offset + last_addr - 2) % AddrMod, data |-> << >>]
  /\ UNCHANGED <<device, detected, ret, retries, upgrade, promised, ready, upload>>

VerifyChunk == IF call.end - addr > Chunk THEN Chunk ELSE call.end - addr

ReadChunk ==
  /\ pc = "read" /\ addr < call.end
  /\ hashed' = hashed \o Read(addr, VerifyChunk)
  /\ addr' = (addr + VerifyChunk) % AddrMod
  /\ UNCHANGED <<device, detected, pc, ret, call, retries, upgrade, promised, ready, upload>>

CompareCrc ==
  /\ pc = "read" /\ addr >= call.end /\ pc' = "return"
  /\ ret' = IF hashed \o Read(call.end, 2) = Image THEN 0 ELSE -1
  /\ UNCHANGED <<device, detected, driver, upgrade, promised, ready, upload>>

Return ==
  /\ pc = "return" /\ pc' = "idle" /\ ret' = 0 /\ call' = Idle /\ addr' = 0 /\ hashed' = << >>
  /\ retries' = 0 /\ promised' = mem /\ ready' = TRUE
  /\ UNCHANGED device

(* What the caller makes of the result.                                     *)
StartReturns ==
  /\ call.op = "start" /\ Return
  /\ status' = IF ret < 0 THEN "ERROR" ELSE "IN_PROGRESS"
  /\ UNCHANGED <<detected, last_addr, flash_offset, upload>>

WriteReturns ==
  /\ call.op = "write" /\ Return
  /\ IF ret < 0 THEN UNCHANGED <<acked, refused>>
     ELSE acked' = acked \cup (refused[1] + 1 .. refused[1] + refused[2]) /\ refused' = << >>
  /\ UNCHANGED <<detected, upgrade, skipped>>

VerifyReturns ==
  /\ call.op = "verify" /\ Return
  /\ status' = IF ret < 0 THEN "ERROR" ELSE "VERIFIED"
  /\ UNCHANGED <<detected, last_addr, flash_offset, upload>>

(* An activation ends in a reset.  The boot loader looks for the device,    *)
(* copies the image and clears the header, whatever becomes of that.        *)
ActivateReturns ==
  /\ call.op = "activate"
  /\ \/ ret < 0 /\ Return /\ UNCHANGED <<detected, upgrade, upload>>
     \/ /\ pc = "return" /\ ret = 0 /\ detected' = ~busy
        /\ spi_flash_erase("clear", 0, Len(Header))
        /\ status' = "NO_UPGRADE" /\ last_addr' = 0 /\ flash_offset' = 0
        /\ acked' = {} /\ refused' = << >> /\ skipped' = FALSE

(* The firmware starts and looks for the device again.                      *)
ClearReturns ==
  /\ call.op = "clear" /\ Return
  /\ detected' = ~busy
  /\ UNCHANGED <<upgrade, upload>>

(* Development commands.                                                    *)
cli_cmd_flash_write ==
  /\ pc = "idle" /\ UNCHANGED detected
  /\ \E w \in Writes : spi_flash_program("program", w[1], w[2])
  /\ UNCHANGED <<upgrade, upload>>

cli_cmd_flash_erase ==
  /\ pc = "idle" /\ UNCHANGED detected
  /\ \E e \in Erases : spi_flash_erase("erase", e[1], e[2])
  /\ UNCHANGED <<upgrade, upload>>

CommandReturns ==
  /\ call.op \in {"program", "erase"} /\ Return
  /\ UNCHANGED <<detected, upgrade, upload>>
-----------------------------------------------------------------------------
Driver == SendCommand \/ LoopEnds \/ Poll \/ ReadChunk \/ CompareCrc
Returns ==
  StartReturns \/ WriteReturns \/ VerifyReturns \/ ActivateReturns \/ ClearReturns \/ CommandReturns
Uploads == upgrade_start \/ upgrade_write_data \/ upgrade_verify \/ upgrade_activate
Commands == cli_cmd_flash_write \/ cli_cmd_flash_erase
Next == Ready \/ Driver \/ Returns \/ Uploads \/ Commands
Spec == Init /\ [][Next]_vars
-----------------------------------------------------------------------------
(* Properties *)

(* A call that finds the device ready and succeeds has programmed its bytes *)
(* and no others, or erased the blocks of its range and no others; one that *)
(* fails has only not finished (spi_flash.c:123-198).                       *)
CallKeepsItsPromise ==
  ready =>
    /\ pc = "return" /\ ret = 0 => mem = promised
    /\ call.op # "none" =>
         \A x \in Addresses : IF IsErase THEN mem[x] \subseteq promised[x]
                               ELSE promised[x] \subseteq mem[x]

(* Data that a write has confirmed is in the flash, behind the header's     *)
(* block, also when the device was still busy with an earlier call, as long *)
(* as the master repeats a write that was refused (upgrade.c:115-122).      *)
UploadIsInPlace ==
  ~skipped => \A p \in acked : mem[Block + p - 1] = Image[p]

(* An image of which every byte was confirmed, in whatever order, passes    *)
(* the verification (upgrade.c:125-156).                                    *)
CompleteImageIsVerified ==
  pc = "return" /\ call.op = "verify" /\ acked = 1 .. Len(Image) /\ ~skipped /\ refused = << >>
    => ret = 0

(* A verified image is the one that was sent, at its place, although reads  *)
(* and writes may have been lost on a busy device.                          *)
VerifiedImageIsInPlace ==
  status = "VERIFIED" /\ call.op # "start" => \A p \in 1 .. Len(Image) : mem[Block + p - 1] = Image[p]

(* The verification passes a complete image, and nothing that is not the    *)
(* image.                                                                   *)
VerifiesExactlyTheImage == CompleteImageIsVerified /\ VerifiedImageIsInPlace

(* An upgrade_start that succeeds has erased the flash, as the comment says *)
(* at upgrade.c:31: "Start the upgrade: erase Flash and set up the          *)
(* pointers".                                                               *)
StartErasesFlash ==
  pc = "return" /\ call.op = "start" /\ ret = 0 => \A x \in Addresses : mem[x] = Erased
=============================================================================
