--------------------------- MODULE FirmwareUpgrade ---------------------------
(***************************************************************************)
(* Firmware upgrade: the image is uploaded to the SPI flash by MODBUS      *)
(* (modbus.c) or by the console (cli.c), verified, activated by a header   *)
(* in flash block 0 (upgrade.c), and copied to the program memory by the   *)
(* boot loader (bootloader.c) after the reset.                             *)
(*                                                                         *)
(* Everything but the reset runs in the main loop, so the two front ends   *)
(* alternate at the granularity of do_cli and do_modbus; a reset or a      *)
(* power failure may come between any two steps and inside an erase or a   *)
(* program operation.  SPI operations may fail.  A call whose polling gives*)
(* up, or that a reset cuts, leaves the device busy: it then ignores the   *)
(* first command of the next call, and its reads, and is not detected.     *)
(*                                                                         *)
(* Memory is divided into pages; a page holds a page of an image, or is    *)
(* Erased or Garbage.  The checksum is ideal: it accepts exactly the pages *)
(* of one image, complete.                                                 *)
(***************************************************************************)
EXTENDS Integers

CONSTANTS
  Images,        \* firmware images with a valid trailing CRC
  ImageSize,     \* their sizes, in pages
  MaxPages,      \* pages of the program memory and of the image area in flash
  RowPages,      \* pages erased at once in the program memory
  Factory,       \* the image the device is shipped with
  UseModbus,     \* the upgrade registers are used
  UseConsole,    \* the console command "upgrade" is used
  SpiFaults,     \* SPI operations of the main loop may fail
  MaxResets,     \* bound: resets that the firmware does not ask for
  MaxReadFaults  \* bound: SPI reads that fail in the boot loader

Pages == 1 .. MaxPages

ASSUME SizeAssumption == MaxPages \in Nat /\ ImageSize \in [Images -> Pages]
ASSUME RowAssumption == RowPages \in Nat \ {0}
ASSUME FactoryAssumption == Factory \in Images
ASSUME FrontEndAssumption == {UseModbus, UseConsole, SpiFaults} \subseteq BOOLEAN
ASSUME UpgradeBoundsAssumption == MaxResets \in Nat /\ MaxReadFaults \in Nat

(* hdr is the size in a header whose magic number is right, else NoHeader.  *)
NoHeader == MaxPages + 1

(* Contents of a page.                                                      *)
Erased == [image |-> {}, page |-> 0]
Garbage == [image |-> {}, page |-> 1]
PageOf(img, p) == [image |-> {img}, page |-> p]
Cells == [image : SUBSET Images, page : 0 .. NoHeader]

(* Values of UPGRADE_FUNCTION and UPGRADE_STATUS.                           *)
Functions == {"none", "PREPARE", "VERIFY", "ACTIVATE"}
Statuses == {"NO_UPGRADE", "IN_PROGRESS", "VERIFIED", "ERROR"}

MainPoints == {"cli", "modbus", "dispatch"}
BootPoints == {"boot", "erase", "copy", "clear", "jump"}

VARIABLES
  pc,                     \* a point of the main loop or of the boot loader,
                          \*   or "hung": an incomplete firmware was started
  hdr, flash,             \* SPI flash: block 0 and the image area
  busy,                   \* the SPI flash goes on with a command nobody waits for
  detected,               \* spi_flash_type of the firmware is set
  nvm,                    \* program memory, above the boot loader
  offset,                 \* loop variable of upgrade_copy_to_nvm
  last_addr,              \* last transmitted address + 1
  status, function,       \* UPGRADE_STATUS and UPGRADE_FUNCTION
  disabled,               \* environment: disable_update_ability
  upgrade_mode,           \* the console takes IHEX records
  resets, readFaults,
  ignored                 \* history: the last erase of block 0 by upgrade_start
                          \*   met a busy device

flashVars == <<hdr, flash, busy, ignored>>
ramVars == <<last_addr, status, function, upgrade_mode>>
envVars == <<disabled, resets, readFaults>>
vars == <<pc, flashVars, detected, nvm, offset, ramVars, envVars>>

(* The first n pages are exactly one image, with its CRC at the end: what   *)
(* upgrade_verify accepts.                                                  *)
Complete(mem, n) ==
  \E img \in Images :
    ImageSize[img] = n /\ \A p \in 1 .. n : mem[p] = PageOf(img, p)

(* A memory that starts with a complete image runs.                         *)
Runs(mem) == \E n \in Pages : Complete(mem, n)

Init ==
  /\ pc = "boot"
  /\ hdr = NoHeader
  /\ flash = [p \in Pages |-> Erased]
  /\ busy = FALSE /\ detected = FALSE /\ ignored = FALSE
  /\ nvm = [p \in Pages |-> IF p <= ImageSize[Factory] THEN PageOf(Factory, p)
                            ELSE Erased]
  /\ offset = 0
  /\ last_addr = 0 /\ status = "NO_UPGRADE" /\ function = "none"
  /\ upgrade_mode = FALSE
  /\ disabled = FALSE
  /\ resets = 0 /\ readFaults = 0

-----------------------------------------------------------------------------
(* Resets and the SPI flash.                                                *)

(* RAM after a reset, as modbus_init leaves it: UPGRADE_STATUS is           *)
(* NO_UPGRADE, UPGRADE_FUNCTION is 0 even when the EEPROM restores the rest.*)
Restart ==
  /\ pc' = "boot"
  /\ offset' = 0
  /\ last_addr' = 0 /\ status' = "NO_UPGRADE" /\ function' = "none"
  /\ upgrade_mode' = FALSE /\ detected' = FALSE

(* A reset that comes by itself: watchdog, brown-out, power, reset pin.     *)
Interrupted ==
  /\ resets < MaxResets
  /\ resets' = resets + 1
  /\ Restart
  /\ UNCHANGED <<disabled, readFaults>>

(* Programming can only clear bits.                                         *)
Programmed(old, new) == IF old \in {Erased, new} THEN new ELSE Garbage

(* What is in a page when its programming does not report success.          *)
HalfProgrammed(old, new) == {old, Programmed(old, new), Garbage}

(* The device completes the command that nobody waits for.                  *)
Ready ==
  /\ busy /\ busy' = FALSE
  /\ UNCHANGED <<pc, hdr, flash, ignored, nvm, offset, ramVars, detected, envVars>>

(* A call that gives up on the device, or is cut, may leave it busy.        *)
MayStayBusy == busy' \in BOOLEAN

(* The first command of spi_flash_erase(0, -1), which a busy device ignores:*)
(* the polling that follows takes its readiness for the end of the erase.   *)
EraseHeader ==
  /\ hdr' = IF busy THEN hdr ELSE NoHeader
  /\ ignored' = busy

(* Mutant: the header's block is erased after the others.                   *)
EraseHeaderLast(k) ==
  /\ UNCHANGED <<hdr, ignored>>
  /\ flash' = [p \in Pages |-> IF p <= k THEN Erased ELSE flash[p]]

(* spi_flash_erase(0, -1) that stops after k of its blocks, the header's    *)
(* first; the block being erased when it stops may hold anything.           *)
EraseFlash(k) ==
  /\ \/ k > 0 /\ EraseHeader
     \/ k = 0 /\ UNCHANGED <<hdr, ignored>>
  /\ \E torn \in BOOLEAN :
       flash' = [p \in Pages |-> IF p < k THEN Erased
                                 ELSE IF p = k /\ torn THEN Garbage ELSE flash[p]]

EraseAllFlash ==
  /\ EraseHeader
  /\ flash' = [p \in Pages |-> Erased]

(* upgrade_start: it succeeds, fails because of SPI or because the device   *)
(* was not detected, or is cut by a reset.                                  *)
upgrade_start(ok, failed) ==
  \/ /\ detected /\ EraseAllFlash /\ busy' = FALSE
     /\ last_addr' = 0
     /\ ok
     /\ UNCHANGED <<nvm, offset, detected, envVars>>
  \/ /\ \/ detected /\ SpiFaults /\ (\E k \in 0 .. MaxPages : EraseFlash(k)) /\ MayStayBusy
        \/ ~detected /\ UNCHANGED flashVars
     /\ last_addr' = 0
     /\ failed
     /\ UNCHANGED <<nvm, offset, detected, envVars>>
  \/ /\ detected /\ (\E k \in 0 .. MaxPages : EraseFlash(k)) /\ MayStayBusy
     /\ Interrupted
     /\ UNCHANGED nvm

(* upgrade_write_data and the data record of upgrade_parse_ihex: the image  *)
(* grows before its page is programmed, whatever becomes of that.  A busy   *)
(* device ignores what comes first, perhaps all, and the call succeeds.     *)
WriteData(ok, failed) ==
  \E p \in Pages : \E new \in {PageOf(img, p) : img \in Images} \cup {Garbage} :
    \/ /\ \E c \in (IF busy THEN HalfProgrammed(flash[p], new) ELSE {Programmed(flash[p], new)}) :
            flash' = [flash EXCEPT ![p] = c]
       /\ busy' = FALSE
       /\ last_addr' = IF p > last_addr THEN p ELSE last_addr
       /\ ok
       /\ UNCHANGED <<hdr, ignored, nvm, offset, detected, envVars>>
    \/ /\ SpiFaults /\ MayStayBusy
       /\ \E c \in HalfProgrammed(flash[p], new) : flash' = [flash EXCEPT ![p] = c]
       /\ last_addr' = IF p > last_addr THEN p ELSE last_addr
       /\ failed
       /\ UNCHANGED <<hdr, ignored, nvm, offset, detected, envVars>>
    \/ /\ \E c \in HalfProgrammed(flash[p], new) : flash' = [flash EXCEPT ![p] = c]
       /\ MayStayBusy /\ Interrupted
       /\ UNCHANGED <<hdr, ignored, nvm>>

(* upgrade_verify: a busy device answers no read, so no checksum is right.  *)
Verified == Complete(flash, last_addr) /\ ~busy
NotVerified == ~Verified \/ SpiFaults

(* Block 0 after hdr.size = last_addr is programmed over what it holds; a   *)
(* busy device ignores it.                                                  *)
Headers ==
  IF busy THEN {hdr}
  ELSE IF hdr \in {NoHeader, last_addr} THEN {last_addr}
  ELSE {n \in 0 .. hdr : n <= last_addr}

(* upgrade_activate: the header, then SYSTEM_RESET; or a failure of SPI or  *)
(* a reset after which the header may be there all the same.                *)
upgrade_activate(failed) ==
  \/ /\ hdr' \in Headers /\ busy' = FALSE
     /\ Restart
     /\ UNCHANGED <<flash, ignored, nvm, envVars>>
  \/ /\ SpiFaults
     /\ hdr' \in Headers \cup {hdr} /\ MayStayBusy
     /\ failed
     /\ UNCHANGED <<flash, ignored, nvm, offset, last_addr, detected, envVars>>
  \/ /\ hdr' \in Headers \cup {hdr} /\ MayStayBusy
     /\ Interrupted
     /\ UNCHANGED <<flash, ignored, nvm>>

-----------------------------------------------------------------------------
(* do_cli: the command "upgrade" and, in upgrade mode, IHEX lines.          *)

CliDone == pc' = "modbus" /\ UNCHANGED <<status, function>>

CliIdle ==
  /\ pc = "cli"
  /\ CliDone
  /\ UNCHANGED <<flashVars, nvm, offset, last_addr, upgrade_mode, detected, envVars>>

cli_cmd_upgrade ==
  /\ pc = "cli" /\ UseConsole /\ ~upgrade_mode
  /\ upgrade_start(CliDone /\ upgrade_mode' = TRUE,
                   CliDone /\ UNCHANGED upgrade_mode)

IhexData ==
  /\ pc = "cli" /\ upgrade_mode
  /\ WriteData(CliDone /\ UNCHANGED upgrade_mode,
               CliDone /\ upgrade_mode' = FALSE)

(* A malformed record or CTRL+C leaves the upgrade mode.                    *)
IhexAbort ==
  /\ pc = "cli" /\ upgrade_mode
  /\ CliDone
  /\ upgrade_mode' = FALSE
  /\ UNCHANGED <<flashVars, nvm, offset, last_addr, detected, envVars>>

(* The end-of-file record: the image is verified and activated at once.     *)
IhexEof ==
  /\ pc = "cli" /\ upgrade_mode
  /\ \/ /\ Verified
        /\ upgrade_activate(CliDone /\ UNCHANGED upgrade_mode)
     \/ /\ NotVerified
        /\ CliDone
        /\ UNCHANGED <<flashVars, nvm, offset, last_addr, upgrade_mode, detected, envVars>>

(* setenv disable_update_ability; env_reset has the effect of setting it to  *)
(* 0 and a Reset.                                                           *)
SetEnv ==
  /\ pc = "cli" /\ ~upgrade_mode
  /\ disabled' = ~disabled
  /\ CliDone
  /\ UNCHANGED <<flashVars, nvm, offset, last_addr, upgrade_mode, detected, resets, readFaults>>

do_cli == CliIdle \/ cli_cmd_upgrade \/ IhexData \/ IhexAbort \/ IhexEof \/ SetEnv

-----------------------------------------------------------------------------
(* do_modbus: at most one frame, then the upgrade function.                 *)

FrameDone == pc' = "dispatch" /\ UNCHANGED <<status, upgrade_mode>>

NoUpgradeFrame ==
  /\ pc = "modbus"
  /\ FrameDone
  /\ UNCHANGED <<flashVars, nvm, offset, last_addr, function, detected, envVars>>

WriteFunction ==
  /\ pc = "modbus" /\ UseModbus
  /\ function' \in Functions \ {"none"}
  /\ FrameDone
  /\ UNCHANGED <<flashVars, nvm, offset, last_addr, detected, envVars>>

(* Function 16 beyond MODBUS_UPGRADE_DATA_ADDRESS; without IN_PROGRESS it   *)
(* is an exception, which changes nothing.                                  *)
WriteUpgradeData ==
  /\ pc = "modbus" /\ UseModbus
  /\ status = "IN_PROGRESS"
  /\ WriteData(FrameDone /\ UNCHANGED function, FrameDone /\ UNCHANGED function)

(* UPGRADE_FUNCTION is cleared when it has been served.                     *)
Served(s) == pc' = "cli" /\ status' = s /\ function' = "none" /\ UNCHANGED upgrade_mode

(* The register is neither served nor cleared while upgrades are disabled.  *)
DispatchDisabled ==
  /\ pc = "dispatch" /\ disabled
  /\ pc' = "cli"
  /\ UNCHANGED <<flashVars, nvm, offset, ramVars, detected, envVars>>

Unserved(s) == Served(s) /\ UNCHANGED <<flashVars, nvm, offset, last_addr, detected, envVars>>

DispatchNone ==
  /\ pc = "dispatch" /\ ~disabled /\ function = "none"
  /\ Unserved(status)

DispatchPrepare ==
  /\ pc = "dispatch" /\ ~disabled /\ function = "PREPARE"
  /\ upgrade_start(Served("IN_PROGRESS"), Served("ERROR"))

(* Only an upgrade in progress is verified, and SPI may fail meanwhile.     *)
DispatchVerify ==
  /\ pc = "dispatch" /\ ~disabled /\ function = "VERIFY"
  /\ \/ /\ status = "IN_PROGRESS" /\ Verified
        /\ Unserved("VERIFIED")
     \/ /\ status = "IN_PROGRESS" => NotVerified
        /\ Unserved("ERROR")

(* When upgrade_activate fails the status stays as it is.                   *)
DispatchActivate ==
  /\ pc = "dispatch" /\ ~disabled /\ function = "ACTIVATE"
  /\ \/ status = "VERIFIED" /\ upgrade_activate(Served(status))
     \/ status # "VERIFIED" /\ Unserved("ERROR")

do_modbus == \/ NoUpgradeFrame \/ WriteFunction \/ WriteUpgradeData
             \/ DispatchDisabled \/ DispatchNone \/ DispatchPrepare
             \/ DispatchVerify \/ DispatchActivate

-----------------------------------------------------------------------------
(* The boot loader: upgrade_copy_to_nvm, whose result is ignored, and       *)
(* jump_to_firmware.                                                        *)

bootUnchanged == UNCHANGED <<ramVars, detected, disabled, resets>>

(* Mutant: the header is erased after a failed copy as well.                *)
ReadFaultClears ==
  /\ pc = "copy" /\ offset < hdr
  /\ readFaults < MaxReadFaults
  /\ readFaults' = readFaults + 1
  /\ pc' = "clear"
  /\ UNCHANGED <<flashVars, nvm, offset>> /\ bootUnchanged

(* A failed SPI read ends the copy wherever it is.                          *)
ReadFault ==
  /\ pc \in {"boot", "copy"}
  /\ pc = "copy" => offset < hdr
  /\ readFaults < MaxReadFaults
  /\ readFaults' = readFaults + 1
  /\ pc' = "jump"
  /\ UNCHANGED <<flashVars, nvm, offset>> /\ bootUnchanged

(* A busy device is not detected, and the copy is left out.                 *)
NotDetected ==
  /\ pc = "boot" /\ busy
  /\ pc' = "jump"
  /\ UNCHANGED <<flashVars, nvm, offset, readFaults>> /\ bootUnchanged

ReadHeader ==
  /\ pc = "boot" /\ ~busy
  /\ pc' = IF hdr = NoHeader THEN "jump" ELSE "erase"
  /\ offset' = 0
  /\ UNCHANGED <<flashVars, nvm, readFaults>> /\ bootUnchanged

EraseRow ==
  /\ pc = "erase" /\ offset < hdr
  /\ nvm' = [p \in Pages |-> IF p \in offset + 1 .. offset + RowPages THEN Erased
                             ELSE nvm[p]]
  /\ offset' = offset + RowPages
  /\ UNCHANGED <<pc, flashVars, readFaults>> /\ bootUnchanged

(* Mutant: the loop ends only when the rows add up to the image size.       *)
EraseDoneExact ==
  /\ pc = "erase" /\ offset = hdr
  /\ pc' = "copy" /\ offset' = 0
  /\ UNCHANGED <<flashVars, nvm, readFaults>> /\ bootUnchanged

EraseDone ==
  /\ pc = "erase" /\ offset >= hdr
  /\ pc' = "copy" /\ offset' = 0
  /\ UNCHANGED <<flashVars, nvm, readFaults>> /\ bootUnchanged

CopyPage ==
  /\ pc = "copy" /\ offset < hdr
  /\ nvm' = [nvm EXCEPT ![offset + 1] = Programmed(@, flash[offset + 1])]
  /\ offset' = offset + 1
  /\ UNCHANGED <<pc, flashVars, readFaults>> /\ bootUnchanged

(* Mutant: the last page is not copied.                                     *)
CopyDoneEarly ==
  /\ pc = "copy" /\ offset + 1 >= hdr
  /\ pc' = "clear"
  /\ UNCHANGED <<flashVars, nvm, offset, readFaults>> /\ bootUnchanged

CopyDone ==
  /\ pc = "copy" /\ offset >= hdr
  /\ pc' = "clear"
  /\ UNCHANGED <<flashVars, nvm, offset, readFaults>> /\ bootUnchanged

(* The erase of block 0; its result is ignored.                             *)
ClearHeader ==
  /\ pc = "clear"
  /\ pc' = "jump"
  /\ \/ hdr' = NoHeader /\ UNCHANGED busy
     \/ SpiFaults /\ hdr' \in {hdr, NoHeader} /\ MayStayBusy
  /\ UNCHANGED <<flash, ignored, nvm, offset, readFaults>> /\ bootUnchanged

(* The boot loader jumps to whatever is there; the firmware looks for the   *)
(* device again.                                                            *)
jump_to_firmware ==
  /\ pc = "jump"
  /\ pc' = IF Runs(nvm) THEN "cli" ELSE "hung"
  /\ offset' = 0
  /\ detected' = ~busy
  /\ UNCHANGED <<flashVars, nvm, ramVars, disabled, resets, readFaults>>

bootloader == \/ ReadFault \/ NotDetected \/ ReadHeader \/ EraseRow \/ EraseDone
              \/ CopyPage \/ CopyDone \/ ClearHeader \/ jump_to_firmware

(* A reset between two steps; one row or page may be half erased or written,*)
(* or the device may go on with the erase of block 0.                       *)
Reset ==
  /\ Interrupted
  /\ \/ UNCHANGED <<flashVars, nvm>>
     \/ /\ pc \in {"erase", "copy"} /\ offset < hdr
        /\ \E p \in offset + 1 .. offset + RowPages :
             p \in Pages /\ nvm' = [nvm EXCEPT ![p] = Garbage]
        /\ UNCHANGED flashVars
     \/ /\ pc = "clear"
        /\ hdr' = NoHeader /\ MayStayBusy
        /\ UNCHANGED <<flash, ignored, nvm>>

Next == do_cli \/ do_modbus \/ bootloader \/ Reset \/ Ready

(* The processor runs; SPI faults and resets are bounded by the constants.  *)
Spec == Init /\ [][Next]_vars /\ WF_vars(bootloader)

-----------------------------------------------------------------------------
(* Properties.                                                              *)

(* Every variable has its type; the header is blank or names a size.         *)
TypeOK ==
  /\ pc \in MainPoints \cup BootPoints \cup {"hung"}
  /\ hdr \in 0 .. NoHeader
  /\ flash \in [Pages -> Cells] /\ nvm \in [Pages -> Cells]
  /\ offset \in Nat
  /\ last_addr \in 0 .. MaxPages
  /\ status \in Statuses /\ function \in Functions
  /\ upgrade_mode \in BOOLEAN /\ disabled \in BOOLEAN
  /\ busy \in BOOLEAN /\ detected \in BOOLEAN /\ ignored \in BOOLEAN
  /\ resets \in Nat /\ readFaults \in Nat

(* upgrade.c:163: when the header is programmed, the entire image has been  *)
(* received and verified.                                                   *)
HeaderNamesCompleteImage == hdr # NoHeader => Complete(flash, hdr)

(* The header keeps telling the truth through aborted erases, calls that    *)
(* fail or give up on a busy device, and resets until it is removed, unless *)
(* upgrade_start took the end of another command for the end of its erase   *)
(* (spi_flash.c:135-153 does not wait for the device before it).            *)
HeaderTellsTheTruth == ~ignored => HeaderNamesCompleteImage

(* Whatever is interrupted, the device keeps a complete firmware: in the    *)
(* program memory, or activated in the flash so that the boot loader copies *)
(* it again; under the same condition.                                      *)
FirmwareNeverLost == ~ignored => Runs(nvm) \/ (hdr # NoHeader /\ Complete(flash, hdr))

(* An incomplete firmware is only started after a read fault, and then the  *)
(* next power cycle repeats the copy; under the same condition.             *)
HangIsRetryable ==
  pc = "hung" /\ ~ignored => readFaults > 0 /\ hdr # NoHeader /\ Complete(flash, hdr)

(* upgrade.c:225 "Upgrade successful: erase the first block to prevent      *)
(* upgrade on next reboot": what the boot loader has copied runs.           *)
UpgradeSuccessful == pc = "clear" => Runs(nvm)

(* Once the boot loader has seen an activated image on a device that is     *)
(* ready, that image gets to run, if the resets come to an end and the SPI  *)
(* reads work.  (The boot loader leaves the image in the flash.)            *)
ActivatedImageRuns ==
  (pc = "boot" /\ ~busy /\ hdr # NoHeader /\ Complete(flash, hdr))
    ~> \/ /\ pc = "cli"
          /\ \E n \in Pages : Complete(flash, n) /\ \A p \in 1 .. n : nvm[p] = flash[p]
       \/ readFaults > 0
=============================================================================
