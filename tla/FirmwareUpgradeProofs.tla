------------------------ MODULE FirmwareUpgradeProofs ------------------------
(***************************************************************************)
(* Proofs about FirmwareUpgrade with one front end, for every set of       *)
(* images, image size, memory size and erase-row size, and every number of *)
(* resets.                                                                 *)
(*                                                                         *)
(* The argument: the flash only changes while an upgrade is in progress,   *)
(* and then no header is there, because erasing starts with its block; the *)
(* status VERIFIED stands for a complete image of last_addr pages until    *)
(* the flash changes; and the boot loader keeps the header as long as the  *)
(* program memory is not a copy of the image.  All of this fails once a    *)
(* busy device has ignored the erase of the header's block, and holds      *)
(* again from the next erase that finds the device ready.                  *)
(***************************************************************************)
EXTENDS FirmwareUpgrade, TLAPS

(* One front end is used: MODBUS, whatever fails, or the console, which     *)
(* stays in upgrade mode when SPI fails in the activation.                  *)
OneFrontEnd == ~UseConsole \/ (~UseModbus /\ ~SpiFaults)

(* Whatever the device ignores: the main loop only runs from a complete     *)
(* firmware, each front end's state is used by that front end only, and the *)
(* boot loader has found the device ready when it copies.                   *)
MainInv ==
  /\ pc \in MainPoints => Runs(nvm)
  /\ upgrade_mode => UseConsole
  /\ status # "NO_UPGRADE" \/ function # "none" => UseModbus
  /\ pc \in {"erase", "copy", "clear"} => ~busy

(* The upload protocol of the main loop, by the front end in use.           *)
UploadInv ==
  /\ upgrade_mode => hdr = NoHeader
  /\ status = "IN_PROGRESS" => hdr = NoHeader
  /\ status = "VERIFIED" => Complete(flash, last_addr) /\ hdr \in {NoHeader, last_addr}

(* How far the boot loader's copy has come.                                 *)
CopyInv ==
  /\ pc \in {"erase", "copy", "clear"} => hdr # NoHeader
  /\ pc = "erase" => \A p \in Pages : p <= offset => nvm[p] = Erased
  /\ pc = "copy" => \A p \in Pages :
       /\ p <= offset => nvm[p] = flash[p]
       /\ offset < p /\ p <= hdr => nvm[p] = Erased
  /\ pc = "clear" => \A p \in Pages : p <= hdr => nvm[p] = flash[p]

(* A firmware is in the program memory or activated in a flash that the     *)
(* next boot finds ready.                                                   *)
FirmwareInv ==
  /\ Runs(nvm) \/ (hdr # NoHeader /\ ~busy)
  /\ pc \in {"jump", "hung"} => Runs(nvm) \/ (readFaults > 0 /\ hdr # NoHeader)
  /\ pc = "hung" => readFaults > 0 /\ hdr # NoHeader

(* What holds as long as no erase of the header's block was ignored.        *)
HeaderInv == HeaderNamesCompleteImage /\ UploadInv /\ CopyInv /\ FirmwareInv

UInv == TypeOK /\ MainInv /\ (~ignored => HeaderInv)

-----------------------------------------------------------------------------
(* Pages and images.                                                        *)

(* What a page holds after any operation is a cell.                         *)
LEMMA CellFacts ==
  /\ Erased \in Cells /\ Garbage \in Cells
  /\ \A img \in Images, p \in Pages : PageOf(img, p) \in Cells
  /\ \A old, new \in Cells : Programmed(old, new) \in Cells
  /\ \A old, new \in Cells : HalfProgrammed(old, new) \subseteq Cells
<1>1. 0 \in 0 .. NoHeader /\ 1 \in 0 .. NoHeader /\ Pages \subseteq 0 .. NoHeader
  BY SizeAssumption DEF NoHeader, Pages
<1>2. Erased \in Cells /\ Garbage \in Cells
  BY <1>1 DEF Erased, Garbage, Cells
<1>3. \A img \in Images, p \in Pages : PageOf(img, p) \in Cells
  BY <1>1 DEF PageOf, Cells
<1>4. \A old, new \in Cells : Programmed(old, new) \in Cells
  BY <1>2 DEF Programmed
<1>5. \A old, new \in Cells : HalfProgrammed(old, new) \subseteq Cells
  BY <1>2, <1>4 DEF HalfProgrammed
<1>6. QED
  BY <1>2, <1>3, <1>4, <1>5

(* An erased page takes what is programmed.                                 *)
LEMMA ProgrammedErased == \A new : Programmed(Erased, new) = new
  BY DEF Programmed

(* The header can name a complete image, and a complete image of n pages    *)
(* fits.                                                                    *)
LEMMA CompleteSize == \A mem, n : Complete(mem, n) => n \in Pages
  BY SizeAssumption DEF Complete

(* Being complete depends on the first n pages only.                        *)
LEMMA CompleteSame ==
  ASSUME NEW m1, NEW m2, NEW n,
         Complete(m1, n), \A p \in Pages : p <= n => m2[p] = m1[p]
  PROVE  Complete(m2, n)
<1>1. n \in Pages
  BY CompleteSize
<1>2. 1 .. n \subseteq Pages /\ \A p \in 1 .. n : p <= n
  BY <1>1, SizeAssumption DEF Pages
<1>3. \A p \in 1 .. n : m2[p] = m1[p]
  BY <1>2
<1>4. QED
  BY <1>3 DEF Complete

(* A program memory that holds a complete image runs.                       *)
LEMMA CompleteRuns == \A mem, n : Complete(mem, n) => Runs(mem)
  BY CompleteSize DEF Runs

-----------------------------------------------------------------------------
(* Type correctness.                                                        *)

(* The state after the first power-on has the types.                        *)
LEMMA TypeInit == Init => TypeOK
<1> SUFFICES ASSUME Init PROVE TypeOK
  OBVIOUS
<1>1. hdr \in 0 .. NoHeader
  BY SizeAssumption DEF Init, NoHeader
<1>2. flash \in [Pages -> Cells]
  BY CellFacts DEF Init
<1>3. nvm \in [Pages -> Cells]
  BY CellFacts, FactoryAssumption DEF Init
<1>4. last_addr \in 0 .. MaxPages /\ offset \in Nat /\ resets \in Nat /\ readFaults \in Nat
  BY SizeAssumption DEF Init
<1>5. QED
  BY <1>1, <1>2, <1>3, <1>4 DEF Init, TypeOK, MainPoints, BootPoints, Statuses, Functions

(* An erase of the flash, however far it gets, leaves cells.                *)
LEMMA EraseType ==
  ASSUME TypeOK, NEW k \in 0 .. MaxPages, EraseFlash(k)
  PROVE  hdr' \in 0 .. NoHeader /\ flash' \in [Pages -> Cells] /\ ignored' \in BOOLEAN
<1>1. NoHeader \in 0 .. NoHeader
  BY SizeAssumption DEF NoHeader
<1>2. hdr' \in 0 .. NoHeader
  BY <1>1 DEF EraseFlash, EraseHeader, TypeOK
<1>3. flash' \in [Pages -> Cells]
  BY CellFacts DEF EraseFlash, TypeOK
<1>4. ignored' \in BOOLEAN
  BY Zenon DEF EraseFlash, EraseHeader, TypeOK
<1>5. QED
  BY <1>2, <1>3, <1>4

(* After any reset the variables of the RAM have their types.               *)
LEMMA RestartType ==
  ASSUME TypeOK, Restart
  PROVE  /\ pc' = "boot" /\ offset' \in Nat /\ last_addr' \in 0 .. MaxPages
         /\ status' \in Statuses /\ function' \in Functions
         /\ upgrade_mode' \in BOOLEAN /\ detected' \in BOOLEAN
<1>1. 0 \in 0 .. MaxPages /\ 0 \in Nat
  BY SizeAssumption
<1>2. upgrade_mode' \in BOOLEAN /\ detected' \in BOOLEAN
  BY Zenon DEF Restart
<1>3. QED
  BY <1>1, <1>2 DEF Restart, Statuses, Functions

(* A header that is programmed names at most last_addr pages.               *)
LEMMA HeadersType == TypeOK => Headers \cup {hdr} \subseteq 0 .. NoHeader
  BY SizeAssumption DEF TypeOK, Headers, NoHeader

(* The common part of a reset.                                              *)
LEMMA InterruptedType ==
  ASSUME TypeOK, Interrupted, hdr' \in 0 .. NoHeader, flash' \in [Pages -> Cells],
         nvm' \in [Pages -> Cells], busy' \in BOOLEAN, ignored' \in BOOLEAN
  PROVE  TypeOK'
<1>1. disabled' \in BOOLEAN
  BY Zenon DEF Interrupted, TypeOK
<1>2. resets' \in Nat /\ readFaults' \in Nat /\ Restart
  BY DEF Interrupted, TypeOK
<1>3. QED
  BY <1>1, <1>2, RestartType DEF TypeOK, BootPoints

(* A step within the main loop that leaves the boot loader's state alone.   *)
LEMMA MainType ==
  ASSUME TypeOK, pc' \in MainPoints, hdr' \in 0 .. NoHeader, flash' \in [Pages -> Cells],
         last_addr' \in 0 .. MaxPages, status' \in Statuses, function' \in Functions,
         upgrade_mode' \in BOOLEAN, disabled' \in BOOLEAN, busy' \in BOOLEAN, ignored' \in BOOLEAN,
         UNCHANGED <<nvm, offset, detected, resets, readFaults>>
  PROVE  TypeOK'
<1>1. detected' \in BOOLEAN
  BY Zenon DEF TypeOK
<1>2. QED
  BY <1>1 DEF TypeOK

(* The three ends of a call that erases, writes or activates.               *)
LEMMA StartType ==
  ASSUME TypeOK, NEW ACTION okay, NEW ACTION failed, upgrade_start(okay, failed)
  PROVE  /\ hdr' \in 0 .. NoHeader /\ flash' \in [Pages -> Cells]
         /\ busy' \in BOOLEAN /\ ignored' \in BOOLEAN
         /\ \/ Interrupted /\ UNCHANGED nvm
            \/ /\ okay \/ failed
               /\ last_addr' = 0 /\ UNCHANGED <<nvm, offset, detected, disabled, resets, readFaults>>
<1>1. CASE EraseAllFlash /\ busy' = FALSE
  <2>1. NoHeader \in 0 .. NoHeader
    BY SizeAssumption DEF NoHeader
  <2>2. hdr' \in 0 .. NoHeader /\ flash' \in [Pages -> Cells]
    BY <1>1, <2>1, CellFacts DEF EraseAllFlash, EraseHeader, TypeOK
  <2>3. busy' \in BOOLEAN /\ ignored' \in BOOLEAN
    BY <1>1, Zenon DEF EraseAllFlash, EraseHeader, TypeOK
  <2>4. QED
    BY <2>2, <2>3 DEF upgrade_start, envVars
<1>2. CASE (\E k \in 0 .. MaxPages : EraseFlash(k)) /\ MayStayBusy
  <2>1. hdr' \in 0 .. NoHeader /\ flash' \in [Pages -> Cells] /\ ignored' \in BOOLEAN
    BY <1>2, EraseType
  <2>2. busy' \in BOOLEAN
    BY <1>2 DEF MayStayBusy
  <2>3. QED
    BY <2>1, <2>2 DEF upgrade_start, envVars
<1>3. CASE UNCHANGED flashVars
  <2>1. busy' \in BOOLEAN /\ ignored' \in BOOLEAN
    BY <1>3, Zenon DEF flashVars, TypeOK
  <2>2. hdr' \in 0 .. NoHeader /\ flash' \in [Pages -> Cells]
    BY <1>3 DEF flashVars, TypeOK
  <2>3. QED
    BY <2>1, <2>2 DEF upgrade_start, envVars
<1>4. QED
  BY <1>1, <1>2, <1>3 DEF upgrade_start

LEMMA DataType ==
  ASSUME TypeOK, NEW ACTION okay, NEW ACTION failed, WriteData(okay, failed)
  PROVE  /\ flash' \in [Pages -> Cells] /\ hdr' = hdr /\ ignored' = ignored /\ nvm' = nvm
         /\ busy' \in BOOLEAN
         /\ \/ Interrupted
            \/ /\ okay \/ failed
               /\ last_addr' \in 0 .. MaxPages
               /\ UNCHANGED <<offset, detected, disabled, resets, readFaults>>
<1>0. PICK p \in Pages : \E new \in {PageOf(img, p) : img \in Images} \cup {Garbage} :
        \E c \in HalfProgrammed(flash[p], new) :
        /\ flash' = [flash EXCEPT ![p] = c] /\ UNCHANGED <<hdr, ignored, nvm>>
        /\ busy' = FALSE \/ MayStayBusy
        /\ \/ Interrupted
           \/ /\ okay \/ failed
              /\ last_addr' = (IF p > last_addr THEN p ELSE last_addr)
              /\ UNCHANGED <<offset, detected, disabled, resets, readFaults>>
  BY DEF WriteData, HalfProgrammed, envVars
<1>a. PICK new \in {PageOf(img, p) : img \in Images} \cup {Garbage} :
        \E c \in HalfProgrammed(flash[p], new) :
        /\ flash' = [flash EXCEPT ![p] = c] /\ UNCHANGED <<hdr, ignored, nvm>>
        /\ busy' = FALSE \/ MayStayBusy
        /\ \/ Interrupted
           \/ /\ okay \/ failed
              /\ last_addr' = (IF p > last_addr THEN p ELSE last_addr)
              /\ UNCHANGED <<offset, detected, disabled, resets, readFaults>>
  BY <1>0
<1>1. PICK c \in HalfProgrammed(flash[p], new) :
        /\ flash' = [flash EXCEPT ![p] = c] /\ UNCHANGED <<hdr, ignored, nvm>>
        /\ busy' = FALSE \/ MayStayBusy
        /\ \/ Interrupted
           \/ /\ okay \/ failed
              /\ last_addr' = (IF p > last_addr THEN p ELSE last_addr)
              /\ UNCHANGED <<offset, detected, disabled, resets, readFaults>>
  BY <1>a
<1>2. new \in Cells /\ flash[p] \in Cells
  BY CellFacts DEF TypeOK
<1>3. c \in Cells
  BY <1>2, CellFacts
<1>4. flash' \in [Pages -> Cells]
  BY <1>1, <1>3 DEF TypeOK
<1>5. busy' \in BOOLEAN
  BY <1>1 DEF MayStayBusy
<1>6. (IF p > last_addr THEN p ELSE last_addr) \in 0 .. MaxPages
  BY SizeAssumption DEF TypeOK, Pages
<1>7. QED
  BY <1>1, <1>4, <1>5, <1>6

LEMMA ActivateType ==
  ASSUME TypeOK, NEW ACTION failed, upgrade_activate(failed)
  PROVE  /\ hdr' \in Headers \cup {hdr} /\ hdr' \in 0 .. NoHeader
         /\ UNCHANGED <<flash, ignored, nvm>> /\ busy' \in BOOLEAN
         /\ \/ Restart /\ UNCHANGED <<disabled, readFaults>> /\ resets' \in Nat
            \/ failed /\ UNCHANGED <<offset, last_addr, detected, disabled, resets, readFaults>>
<1>1. hdr' \in Headers \cup {hdr} /\ UNCHANGED <<flash, ignored, nvm>>
  BY DEF upgrade_activate
<1>2. hdr' \in 0 .. NoHeader
  BY <1>1, HeadersType
<1>3. busy' \in BOOLEAN
  BY DEF upgrade_activate, MayStayBusy
<1>4. QED
  BY <1>1, <1>2, <1>3 DEF upgrade_activate, Interrupted, envVars, TypeOK

(* Every step of the main loop, of the boot loader and every reset keeps    *)
(* the types.                                                               *)
LEMMA TypeStep == TypeOK /\ [Next]_vars => TypeOK'
<1> SUFFICES ASSUME TypeOK, [Next]_vars PROVE TypeOK'
  OBVIOUS
<1>0. NoHeader \in 0 .. NoHeader /\ 0 \in 0 .. MaxPages /\ Pages \subseteq 0 .. MaxPages
  BY SizeAssumption DEF NoHeader, Pages
<1>a. /\ upgrade_mode \in BOOLEAN /\ disabled \in BOOLEAN /\ busy \in BOOLEAN
      /\ detected \in BOOLEAN /\ ignored \in BOOLEAN
      /\ status \in Statuses /\ function \in Functions
  BY Zenon DEF TypeOK
<1>1. CASE do_cli
  <2>1. CASE CliIdle \/ IhexAbort \/ SetEnv
    <3>1. disabled' \in BOOLEAN /\ upgrade_mode' \in BOOLEAN /\ pc' = "modbus"
      BY <2>1, <1>a, Zenon DEF CliIdle, IhexAbort, SetEnv, CliDone, envVars
    <3>2. UNCHANGED <<flashVars, nvm, offset, last_addr, status, function, detected, resets, readFaults>>
      BY <2>1 DEF CliIdle, IhexAbort, SetEnv, CliDone, envVars
    <3>3. QED
      BY <3>1, <3>2, <1>a, MainType DEF TypeOK, MainPoints, flashVars
  <2>2. CASE cli_cmd_upgrade
    <3>1. upgrade_start(CliDone /\ upgrade_mode' = TRUE, CliDone /\ UNCHANGED upgrade_mode)
      BY <2>2 DEF cli_cmd_upgrade
    <3>2. CASE Interrupted /\ UNCHANGED nvm
      BY <3>1, <3>2, StartType, InterruptedType DEF TypeOK
    <3>3. CASE CliDone /\ upgrade_mode' \in {TRUE, upgrade_mode} /\ last_addr' = 0
               /\ UNCHANGED <<nvm, offset, detected, disabled, resets, readFaults>>
      BY <3>1, <3>3, <1>0, <1>a, StartType, MainType DEF CliDone, MainPoints
    <3>4. QED
      BY <3>1, <3>2, <3>3, StartType
  <2>3. CASE IhexData
    <3>1. WriteData(CliDone /\ UNCHANGED upgrade_mode, CliDone /\ upgrade_mode' = FALSE)
      BY <2>3 DEF IhexData
    <3>2. CASE Interrupted
      BY <3>1, <3>2, <1>a, DataType, InterruptedType DEF TypeOK
    <3>3. CASE CliDone /\ upgrade_mode' \in {FALSE, upgrade_mode} /\ last_addr' \in 0 .. MaxPages
               /\ UNCHANGED <<offset, detected, disabled, resets, readFaults>>
      BY <3>1, <3>3, <1>a, DataType, MainType DEF TypeOK, CliDone, MainPoints
    <3>4. QED
      BY <3>1, <3>2, <3>3, DataType
  <2>4. CASE IhexEof
    <3>1. CASE upgrade_activate(CliDone /\ UNCHANGED upgrade_mode)
      <4>1. CASE Restart /\ UNCHANGED <<disabled, readFaults>> /\ resets' \in Nat
        BY <3>1, <4>1, <1>a, ActivateType, RestartType DEF TypeOK, BootPoints
      <4>2. CASE CliDone /\ UNCHANGED <<upgrade_mode, offset, last_addr, detected, disabled, resets, readFaults>>
        BY <3>1, <4>2, <1>a, ActivateType, MainType DEF TypeOK, CliDone, MainPoints
      <4>3. QED
        BY <3>1, <4>1, <4>2, ActivateType
    <3>2. CASE CliDone /\ UNCHANGED <<flashVars, nvm, offset, last_addr, upgrade_mode, detected, envVars>>
      BY <3>2, <1>a, MainType DEF CliDone, TypeOK, MainPoints, envVars, flashVars
    <3>3. QED
      BY <2>4, <3>1, <3>2 DEF IhexEof
  <2>5. QED
    BY <1>1, <2>1, <2>2, <2>3, <2>4 DEF do_cli
<1>2. CASE do_modbus
  <2>0. "ERROR" \in Statuses /\ "VERIFIED" \in Statuses /\ "IN_PROGRESS" \in Statuses
        /\ "none" \in Functions
    BY DEF Statuses, Functions
  <2>1. CASE NoUpgradeFrame \/ WriteFunction
    <3>1. /\ pc' = "dispatch" /\ function' \in Functions
          /\ UNCHANGED <<flashVars, nvm, offset, last_addr, status, upgrade_mode, detected, envVars>>
      BY <2>1, <1>a DEF NoUpgradeFrame, WriteFunction, FrameDone
    <3>2. QED
      BY <3>1, <1>a, MainType DEF TypeOK, MainPoints, flashVars, envVars
  <2>2. CASE WriteUpgradeData
    <3>1. WriteData(FrameDone /\ UNCHANGED function, FrameDone /\ UNCHANGED function)
      BY <2>2 DEF WriteUpgradeData
    <3>2. CASE Interrupted
      BY <3>1, <3>2, <1>a, DataType, InterruptedType DEF TypeOK
    <3>3. CASE FrameDone /\ UNCHANGED function /\ last_addr' \in 0 .. MaxPages
               /\ UNCHANGED <<offset, detected, disabled, resets, readFaults>>
      BY <3>1, <3>3, <1>a, DataType, MainType DEF TypeOK, FrameDone, MainPoints
    <3>4. QED
      BY <3>1, <3>2, <3>3, DataType
  <2>3. CASE DispatchDisabled \/ DispatchNone \/ DispatchVerify
    <3>1. /\ pc' = "cli" /\ function' \in Functions /\ status' \in Statuses
          /\ UNCHANGED <<flashVars, nvm, offset, last_addr, upgrade_mode, detected, envVars>>
      BY <2>3, <2>0, <1>a DEF DispatchDisabled, DispatchNone, DispatchVerify, Unserved, Served, ramVars
    <3>2. QED
      BY <3>1, <1>a, MainType DEF TypeOK, MainPoints, flashVars, envVars
  <2>4. CASE DispatchPrepare
    <3>1. upgrade_start(Served("IN_PROGRESS"), Served("ERROR"))
      BY <2>4 DEF DispatchPrepare
    <3>2. CASE Interrupted /\ UNCHANGED nvm
      BY <3>1, <3>2, StartType, InterruptedType DEF TypeOK
    <3>3. CASE (Served("IN_PROGRESS") \/ Served("ERROR")) /\ last_addr' = 0
               /\ UNCHANGED <<nvm, offset, detected, disabled, resets, readFaults>>
      <4>1. pc' \in MainPoints /\ status' \in Statuses /\ function' \in Functions /\ upgrade_mode' \in BOOLEAN
        BY <3>3, <2>0, <1>a DEF Served, MainPoints
      <4>2. QED
        BY <3>1, <3>3, <4>1, <1>0, <1>a, StartType, MainType
    <3>4. QED
      BY <3>1, <3>2, <3>3, StartType
  <2>5. CASE DispatchActivate
    <3>1. CASE upgrade_activate(Served(status))
      <4>1. CASE Restart /\ UNCHANGED <<disabled, readFaults>> /\ resets' \in Nat
        BY <3>1, <4>1, <1>a, ActivateType, RestartType DEF TypeOK, BootPoints
      <4>2. CASE Served(status) /\ UNCHANGED <<offset, last_addr, detected, disabled, resets, readFaults>>
        <5>1. pc' \in MainPoints /\ status' \in Statuses /\ function' \in Functions /\ upgrade_mode' \in BOOLEAN
          BY <4>2, <2>0, <1>a DEF Served, MainPoints
        <5>2. QED
          BY <3>1, <4>2, <5>1, <1>a, ActivateType, MainType DEF TypeOK
      <4>3. QED
        BY <3>1, <4>1, <4>2, ActivateType
    <3>2. CASE Unserved("ERROR")
      BY <3>2, <2>0, <1>a, MainType DEF Unserved, Served, TypeOK, MainPoints, flashVars, envVars
    <3>3. QED
      BY <2>5, <3>1, <3>2 DEF DispatchActivate
  <2>6. QED
    BY <1>2, <2>1, <2>2, <2>3, <2>4, <2>5 DEF do_modbus
<1>3. CASE bootloader
  <2>1. CASE ReadFault \/ NotDetected \/ ReadHeader \/ EraseDone \/ CopyDone
    <3>1. /\ pc' \in BootPoints /\ offset' \in Nat /\ readFaults' \in Nat
          /\ UNCHANGED <<flashVars, nvm, ramVars, detected, disabled, resets>>
      BY <2>1 DEF ReadFault, NotDetected, ReadHeader, EraseDone, CopyDone, bootUnchanged,
                  TypeOK, BootPoints
    <3>2. QED
      BY <3>1, <1>a DEF TypeOK, flashVars, ramVars
  <2>2. CASE ClearHeader
    <3>1. hdr' \in 0 .. NoHeader
      BY <2>2, <1>0 DEF ClearHeader, TypeOK
    <3>2. busy' \in BOOLEAN
      BY <2>2, <1>a DEF ClearHeader, MayStayBusy
    <3>3. pc' = "jump" /\ UNCHANGED <<flash, ignored, nvm, offset, readFaults, ramVars, detected, disabled, resets>>
      BY <2>2 DEF ClearHeader, bootUnchanged
    <3>4. QED
      BY <3>1, <3>2, <3>3, <1>a DEF TypeOK, BootPoints, ramVars
  <2>3. CASE EraseRow
    <3>1. nvm' \in [Pages -> Cells]
      BY <2>3, CellFacts DEF EraseRow, TypeOK
    <3>2. offset' \in Nat
      BY <2>3, RowAssumption DEF EraseRow, TypeOK
    <3>3. UNCHANGED <<pc, flashVars, readFaults, ramVars, detected, disabled, resets>>
      BY <2>3 DEF EraseRow, bootUnchanged
    <3>4. QED
      BY <3>1, <3>2, <3>3, <1>a DEF TypeOK, flashVars, ramVars
  <2>4. CASE CopyPage
    <3>1. nvm' \in [Pages -> Cells]
      <4>1. CASE offset + 1 \in Pages
        <5>1. Programmed(nvm[offset + 1], flash[offset + 1]) \in Cells
          BY <4>1, CellFacts DEF TypeOK
        <5>2. nvm' = [nvm EXCEPT ![offset + 1] = Programmed(nvm[offset + 1], flash[offset + 1])]
          BY <2>4 DEF CopyPage
        <5>3. QED
          BY <5>1, <5>2 DEF TypeOK
      <4>2. CASE offset + 1 \notin Pages
        BY <2>4, <4>2 DEF CopyPage, TypeOK
      <4>3. QED
        BY <4>1, <4>2
    <3>2. offset' \in Nat
      BY <2>4 DEF CopyPage, TypeOK
    <3>3. UNCHANGED <<pc, flashVars, readFaults, ramVars, detected, disabled, resets>>
      BY <2>4 DEF CopyPage, bootUnchanged
    <3>4. QED
      BY <3>1, <3>2, <3>3, <1>a DEF TypeOK, flashVars, ramVars
  <2>5. CASE jump_to_firmware
    <3>1. detected' \in BOOLEAN
      BY <2>5, <1>a, Zenon DEF jump_to_firmware
    <3>2. /\ pc' \in MainPoints \cup {"hung"} /\ offset' \in Nat
          /\ UNCHANGED <<flashVars, nvm, ramVars, disabled, resets, readFaults>>
      BY <2>5 DEF jump_to_firmware, MainPoints
    <3>3. QED
      BY <3>1, <3>2, <1>a DEF TypeOK, flashVars, ramVars
  <2>6. QED
    BY <1>3, <2>1, <2>2, <2>3, <2>4, <2>5 DEF bootloader
<1>4. CASE Reset
  <2>1. nvm' \in [Pages -> Cells]
    BY <1>4, CellFacts DEF Reset, TypeOK
  <2>2. hdr' \in 0 .. NoHeader /\ flash' \in [Pages -> Cells]
    BY <1>4, <1>0 DEF Reset, TypeOK, flashVars
  <2>3. busy' \in BOOLEAN /\ ignored' \in BOOLEAN
    BY <1>4, <1>a DEF Reset, MayStayBusy, flashVars
  <2>4. QED
    BY <1>4, <2>1, <2>2, <2>3, InterruptedType DEF Reset
<1>5. CASE Ready
  BY <1>5, <1>a DEF Ready, ramVars, envVars, TypeOK
<1>6. CASE UNCHANGED vars
  BY <1>6, <1>a DEF vars, flashVars, ramVars, envVars, TypeOK
<1>7. QED
  BY <1>1, <1>2, <1>3, <1>4, <1>5, <1>6 DEF Next

(* Whatever is uploaded, by either front end, and wherever it is cut, every *)
(* variable of the upgrade keeps to its type.                               *)
THEOREM TypeCorrect == Spec => []TypeOK
<1>1. QED
  BY TypeInit, TypeStep, PTL DEF Spec

-----------------------------------------------------------------------------
(* The invariant of an upgrade.                                             *)

(* The factory state satisfies the invariant.                               *)
LEMMA UInvInit == Init => UInv
<1> SUFFICES ASSUME Init PROVE UInv
  OBVIOUS
<1>1. Complete(nvm, ImageSize[Factory])
  <2>1. ImageSize[Factory] \in Pages
    BY SizeAssumption, FactoryAssumption
  <2>2. 1 .. ImageSize[Factory] \subseteq Pages /\ \A p \in 1 .. ImageSize[Factory] : p <= ImageSize[Factory]
    BY <2>1, SizeAssumption DEF Pages
  <2>3. \A p \in 1 .. ImageSize[Factory] : nvm[p] = PageOf(Factory, p)
    BY <2>2 DEF Init
  <2>4. QED
    BY <2>3, FactoryAssumption DEF Complete
<1>2. Runs(nvm)
  BY <1>1, CompleteRuns
<1>3. pc = "boot" /\ hdr = NoHeader /\ status = "NO_UPGRADE" /\ function = "none" /\ ~upgrade_mode
  BY Zenon DEF Init
<1>4. HeaderNamesCompleteImage /\ UploadInv /\ MainInv
  BY <1>2, <1>3 DEF HeaderNamesCompleteImage, UploadInv, MainInv
<1>5. CopyInv /\ FirmwareInv
  BY <1>2, <1>3 DEF CopyInv, FirmwareInv
<1>6. QED
  BY <1>4, <1>5, TypeInit DEF UInv, HeaderInv

(* Whether a memory runs only depends on it.                                *)
LEMMA SameRuns == ASSUME UNCHANGED nvm PROVE Runs(nvm)' <=> Runs(nvm)
  BY DEF Runs, Complete

(* A step of the main loop that leaves the firmware alone keeps what holds  *)
(* in any case; and the rest too, where the header tells the truth and the  *)
(* upload protocol is kept.                                                 *)
LEMMA MainQuiet ==
  ASSUME UInv, TypeOK', pc \in MainPoints, pc' \in MainPoints, UNCHANGED nvm,
         upgrade_mode' => UseConsole,
         status' # "NO_UPGRADE" \/ function' # "none" => UseModbus,
         ~ignored' => HeaderNamesCompleteImage' /\ UploadInv'
  PROVE  UInv'
<1>1. Runs(nvm)'
  BY SameRuns DEF UInv, MainInv
<1>2. MainInv'
  BY <1>1 DEF MainInv, MainPoints
<1>3. CopyInv' /\ FirmwareInv'
  BY <1>1 DEF CopyInv, FirmwareInv, MainPoints
<1>4. QED
  BY <1>2, <1>3 DEF UInv, HeaderInv

(* A reset keeps the invariant if the header still tells the truth and a    *)
(* firmware is left.                                                        *)
LEMMA RestartQuiet ==
  ASSUME TypeOK', Restart,
         ~ignored' => HeaderNamesCompleteImage' /\ (Runs(nvm)' \/ (hdr' # NoHeader /\ ~busy'))
  PROVE  UInv'
<1>1. pc' = "boot" /\ status' = "NO_UPGRADE" /\ function' = "none" /\ ~upgrade_mode'
  BY Zenon DEF Restart
<1>2. UploadInv' /\ CopyInv' /\ MainInv'
  BY <1>1 DEF UploadInv, CopyInv, MainInv, MainPoints
<1>3. ~ignored' => FirmwareInv'
  BY <1>1 DEF FirmwareInv
<1>4. QED
  BY <1>2, <1>3 DEF UInv, HeaderInv

(* However far an erase gets, it leaves no header that names an image it    *)
(* has damaged: the header's block goes first, unless that was ignored.     *)
LEMMA EraseKeepsHeaderTrue ==
  ASSUME TypeOK, ~ignored => HeaderNamesCompleteImage, NEW k \in 0 .. MaxPages, EraseFlash(k),
         ~ignored'
  PROVE  HeaderNamesCompleteImage'
<1>1. CASE k > 0 /\ EraseHeader
  BY <1>1 DEF EraseHeader, HeaderNamesCompleteImage
<1>2. CASE k = 0 /\ UNCHANGED <<hdr, ignored>>
  <2>1. \A p \in Pages : ~(p < k) /\ p # k
    BY <1>2, SizeAssumption DEF Pages
  <2>2. \A p \in Pages : flash'[p] = flash[p]
    BY <2>1 DEF EraseFlash
  <2>3. Complete(flash, hdr) => Complete(flash', hdr)
    BY <2>2, CompleteSame
  <2>4. QED
    BY <1>2, <2>3 DEF HeaderNamesCompleteImage, Complete
<1>3. QED
  BY <1>1, <1>2 DEF EraseFlash

(* The ends of upgrade_start: the header is gone or tells the truth; it is  *)
(* gone when the start succeeds.                                            *)
LEMMA StartStep ==
  ASSUME UInv, NEW ACTION okay, NEW ACTION failed, upgrade_start(okay, failed)
  PROVE  /\ UNCHANGED nvm
         /\ ~ignored' => HeaderNamesCompleteImage'
         /\ \/ Restart
            \/ okay /\ (~ignored' => hdr' = NoHeader)
            \/ failed
<1>1. CASE EraseAllFlash
  <2>1. ~ignored' => hdr' = NoHeader
    BY <1>1 DEF EraseAllFlash, EraseHeader
  <2>2. QED
    BY <2>1 DEF upgrade_start, HeaderNamesCompleteImage, Interrupted
<1>2. CASE \E k \in 0 .. MaxPages : EraseFlash(k)
  <2>1. ~ignored' => HeaderNamesCompleteImage'
    BY <1>2, EraseKeepsHeaderTrue DEF UInv, HeaderInv
  <2>2. ASSUME EraseAllFlash, ~ignored' PROVE hdr' = NoHeader
    BY <2>2 DEF EraseAllFlash, EraseHeader
  <2>3. QED
    BY <2>1, <2>2 DEF upgrade_start, Interrupted
<1>3. CASE UNCHANGED flashVars
  <2>1. ~ignored' => HeaderNamesCompleteImage'
    BY <1>3 DEF UInv, HeaderInv, HeaderNamesCompleteImage, Complete, flashVars
  <2>2. ASSUME EraseAllFlash, ~ignored' PROVE hdr' = NoHeader
    BY <2>2 DEF EraseAllFlash, EraseHeader
  <2>3. QED
    BY <2>1, <2>2 DEF upgrade_start, Interrupted
<1>4. QED
  BY <1>1, <1>2, <1>3 DEF upgrade_start

(* What the header says stays true when the flash does not change.          *)
LEMMA HeaderUntouched ==
  ASSUME UInv, UNCHANGED <<hdr, flash, ignored>>, ~ignored'
  PROVE  HeaderNamesCompleteImage'
  BY DEF UInv, HeaderInv, HeaderNamesCompleteImage, Complete

(* The upgrade register PREPARE.                                            *)
LEMMA PrepareStep ==
  ASSUME OneFrontEnd, UInv, TypeOK', DispatchPrepare
  PROVE  UInv'
<1>1. pc = "dispatch" /\ UseModbus /\ ~upgrade_mode /\ Runs(nvm)
  BY DEF DispatchPrepare, UInv, MainInv, MainPoints, OneFrontEnd
<1>2. upgrade_start(Served("IN_PROGRESS"), Served("ERROR"))
  BY DEF DispatchPrepare
<1>3. UNCHANGED nvm /\ (~ignored' => HeaderNamesCompleteImage')
  BY <1>2, StartStep
<1>4. CASE Restart
  BY <1>1, <1>3, <1>4, SameRuns, RestartQuiet
<1>5. CASE \/ Served("IN_PROGRESS") /\ (~ignored' => hdr' = NoHeader)
           \/ Served("ERROR")
  <2>1. /\ pc' = "cli" /\ upgrade_mode' = upgrade_mode
        /\ status' = "ERROR" \/ (status' = "IN_PROGRESS" /\ (~ignored' => hdr' = NoHeader))
    BY <1>5 DEF Served
  <2>2. ~ignored' => UploadInv'
    BY <1>1, <2>1 DEF UploadInv
  <2>3. pc \in MainPoints /\ pc' \in MainPoints /\ (upgrade_mode' => UseConsole)
    BY <1>1, <2>1 DEF MainPoints
  <2>4. QED
    BY <1>1, <1>3, <2>2, <2>3, MainQuiet
<1>6. QED
  BY <1>2, <1>4, <1>5, StartStep

(* What a write leaves alone, and how it ends.                              *)
LEMMA DataStep ==
  ASSUME UInv, NEW ACTION okay, NEW ACTION failed, WriteData(okay, failed)
  PROVE  UNCHANGED <<hdr, ignored, nvm>> /\ (Restart \/ okay \/ failed)
  BY DEF WriteData, Interrupted

(* The image is written while no header is there.                           *)
LEMMA WriteStep ==
  ASSUME OneFrontEnd, UInv, TypeOK', WriteUpgradeData
  PROVE  UInv'
<1>1. pc = "modbus" /\ status = "IN_PROGRESS"
  BY DEF WriteUpgradeData
<1>2. Runs(nvm) /\ UseModbus /\ ~upgrade_mode
  BY <1>1 DEF UInv, MainInv, MainPoints, OneFrontEnd
<1>3. WriteData(FrameDone /\ UNCHANGED function, FrameDone /\ UNCHANGED function)
  BY DEF WriteUpgradeData
<1>4. UNCHANGED <<hdr, ignored, nvm>>
  BY <1>3, DataStep
<1>5. ~ignored' => hdr' = NoHeader
  BY <1>1, <1>4 DEF UInv, HeaderInv, UploadInv
<1>6. ~ignored' => HeaderNamesCompleteImage'
  BY <1>5 DEF HeaderNamesCompleteImage
<1>7. CASE Restart
  BY <1>2, <1>4, <1>6, <1>7, SameRuns, RestartQuiet
<1>8. CASE FrameDone
  <2>1. pc' = "dispatch" /\ status' = "IN_PROGRESS" /\ upgrade_mode' = upgrade_mode
    BY <1>1, <1>8 DEF FrameDone
  <2>2. ~ignored' => UploadInv'
    BY <1>2, <1>5, <2>1 DEF UploadInv
  <2>3. pc \in MainPoints /\ pc' \in MainPoints /\ (upgrade_mode' => UseConsole)
    BY <1>1, <1>2, <2>1 DEF MainPoints
  <2>4. QED
    BY <1>2, <1>4, <1>6, <2>2, <2>3, MainQuiet
<1>9. QED
  BY <1>3, <1>7, <1>8, DataStep

(* The ends of an activation.                                               *)
LEMMA ActivateEnds ==
  ASSUME NEW ACTION failed, upgrade_activate(failed)
  PROVE  /\ UNCHANGED <<flash, ignored, nvm>> /\ hdr' \in Headers \cup {hdr}
         /\ Restart \/ (failed /\ SpiFaults /\ UNCHANGED last_addr)
  BY DEF upgrade_activate, Interrupted

(* The header is only written for a verified image, over no other.          *)
LEMMA ActivateStep ==
  ASSUME OneFrontEnd, UInv, TypeOK', DispatchActivate, status = "VERIFIED"
  PROVE  UInv'
<1>1. pc = "dispatch" /\ Runs(nvm) /\ UseModbus /\ ~upgrade_mode
  BY DEF DispatchActivate, UInv, MainInv, MainPoints, OneFrontEnd
<1>2. upgrade_activate(Served(status))
  BY DEF DispatchActivate
<1>3. UNCHANGED <<flash, ignored, nvm>> /\ hdr' \in Headers \cup {hdr}
  BY <1>2, ActivateEnds
<1>4. ASSUME ~ignored'
      PROVE  Complete(flash, last_addr) /\ hdr' \in {NoHeader, last_addr}
  <2>1. Complete(flash, last_addr) /\ hdr \in {NoHeader, last_addr}
    BY <1>3, <1>4 DEF UInv, HeaderInv, UploadInv
  <2>2. Headers \subseteq {hdr, last_addr}
    BY <2>1 DEF Headers
  <2>3. QED
    BY <1>3, <2>1, <2>2
<1>5. ~ignored' => HeaderNamesCompleteImage'
  BY <1>3, <1>4 DEF HeaderNamesCompleteImage, Complete
<1>6. CASE Restart
  BY <1>1, <1>3, <1>5, <1>6, SameRuns, RestartQuiet
<1>7. CASE Served(status) /\ UNCHANGED last_addr
  <2>1. pc' = "cli" /\ status' = "VERIFIED" /\ upgrade_mode' = upgrade_mode
    BY <1>7 DEF Served
  <2>2. ~ignored' => Complete(flash, last_addr)' /\ (hdr \in {NoHeader, last_addr})'
    BY <1>3, <1>4, <1>7 DEF Complete
  <2>3. ~ignored' => UploadInv'
    BY <1>1, <2>1, <2>2 DEF UploadInv
  <2>4. pc \in MainPoints /\ pc' \in MainPoints /\ (upgrade_mode' => UseConsole)
    BY <1>1, <2>1 DEF MainPoints
  <2>5. QED
    BY <1>1, <1>3, <1>5, <2>3, <2>4, MainQuiet
<1>8. QED
  BY <1>2, <1>6, <1>7, ActivateEnds

(* The state of the other front end while the console is in use.            *)
LEMMA ConsoleAlone ==
  ASSUME OneFrontEnd, UInv, UseConsole
  PROVE  ~UseModbus /\ ~SpiFaults /\ status = "NO_UPGRADE" /\ function = "none"
  BY DEF OneFrontEnd, UInv, MainInv

(* The console erases the flash, all of it or until a reset, and then takes *)
(* records.                                                                 *)
LEMMA ConsoleStartStep ==
  ASSUME OneFrontEnd, UInv, TypeOK', cli_cmd_upgrade
  PROVE  UInv'
<1>1. pc = "cli" /\ Runs(nvm) /\ UseConsole /\ ~upgrade_mode
  BY DEF cli_cmd_upgrade, UInv, MainInv, MainPoints
<1>2. status = "NO_UPGRADE" /\ function = "none"
  BY <1>1, ConsoleAlone
<1>3. upgrade_start(CliDone /\ upgrade_mode' = TRUE, CliDone /\ UNCHANGED upgrade_mode)
  BY DEF cli_cmd_upgrade
<1>4. UNCHANGED nvm /\ (~ignored' => HeaderNamesCompleteImage')
  BY <1>3, StartStep
<1>5. CASE Restart
  BY <1>1, <1>4, <1>5, SameRuns, RestartQuiet
<1>6. CASE /\ CliDone
           /\ \/ upgrade_mode' = TRUE /\ (~ignored' => hdr' = NoHeader)
              \/ UNCHANGED upgrade_mode
  <2>1. pc' = "modbus" /\ status' = "NO_UPGRADE" /\ function' = "none"
    BY <1>2, <1>6 DEF CliDone
  <2>2. ~ignored' => UploadInv'
    BY <1>1, <1>6, <2>1 DEF UploadInv
  <2>3. pc \in MainPoints /\ pc' \in MainPoints
    BY <1>1, <2>1 DEF MainPoints
  <2>4. QED
    BY <1>1, <1>4, <2>1, <2>2, <2>3, MainQuiet
<1>7. QED
  BY <1>3, <1>5, <1>6, StartStep

(* A record of the console is written while no header is there.             *)
LEMMA ConsoleWriteStep ==
  ASSUME OneFrontEnd, UInv, TypeOK', IhexData
  PROVE  UInv'
<1>1. pc = "cli" /\ Runs(nvm) /\ UseConsole /\ upgrade_mode
  BY DEF IhexData, UInv, MainInv, MainPoints
<1>2. status = "NO_UPGRADE" /\ function = "none"
  BY <1>1, ConsoleAlone
<1>3. WriteData(CliDone /\ UNCHANGED upgrade_mode, CliDone /\ upgrade_mode' = FALSE)
  BY DEF IhexData
<1>4. UNCHANGED <<hdr, ignored, nvm>>
  BY <1>3, DataStep
<1>5. ~ignored' => hdr' = NoHeader
  BY <1>1, <1>4 DEF UInv, HeaderInv, UploadInv
<1>6. ~ignored' => HeaderNamesCompleteImage'
  BY <1>5 DEF HeaderNamesCompleteImage
<1>7. CASE Restart
  BY <1>1, <1>4, <1>6, <1>7, SameRuns, RestartQuiet
<1>8. CASE CliDone
  <2>1. pc' = "modbus" /\ status' = "NO_UPGRADE" /\ function' = "none"
    BY <1>2, <1>8 DEF CliDone
  <2>2. ~ignored' => UploadInv'
    BY <1>5, <2>1 DEF UploadInv
  <2>3. pc \in MainPoints /\ pc' \in MainPoints
    BY <1>1, <2>1 DEF MainPoints
  <2>4. QED
    BY <1>1, <1>4, <1>6, <2>1, <2>2, <2>3, MainQuiet
<1>9. QED
  BY <1>3, <1>7, <1>8, DataStep

(* The end of the file verifies what is there and writes its header.        *)
LEMMA ConsoleEofStep ==
  ASSUME OneFrontEnd, UInv, TypeOK', IhexEof
  PROVE  UInv'
<1>1. pc = "cli" /\ Runs(nvm) /\ UseConsole /\ upgrade_mode
  BY DEF IhexEof, UInv, MainInv, MainPoints
<1>2. ~SpiFaults /\ status = "NO_UPGRADE" /\ function = "none"
  BY <1>1, ConsoleAlone
<1>3. ~ignored => hdr = NoHeader
  BY <1>1 DEF UInv, HeaderInv, UploadInv
<1>4. CASE Verified /\ upgrade_activate(CliDone /\ UNCHANGED upgrade_mode)
  <2>1. /\ UNCHANGED <<flash, ignored, nvm>> /\ hdr' \in Headers \cup {hdr} /\ Restart
    BY <1>2, <1>4, ActivateEnds
  <2>2. ~ignored' => hdr' \in {NoHeader, last_addr}
    BY <1>3, <2>1 DEF Headers
  <2>3. Complete(flash, last_addr)
    BY <1>4 DEF Verified
  <2>4. ~ignored' => HeaderNamesCompleteImage'
    BY <2>1, <2>2, <2>3 DEF HeaderNamesCompleteImage, Complete
  <2>5. QED
    BY <1>1, <2>1, <2>4, SameRuns, RestartQuiet
<1>5. CASE CliDone /\ UNCHANGED <<flashVars, nvm, upgrade_mode>>
  <2>1. pc' = "modbus" /\ status' = "NO_UPGRADE" /\ function' = "none"
    BY <1>2, <1>5 DEF CliDone
  <2>2. UNCHANGED <<hdr, flash, ignored, nvm>>
    BY <1>5 DEF flashVars
  <2>3. ~ignored' => UploadInv' /\ HeaderNamesCompleteImage'
    BY <1>3, <2>1, <2>2, HeaderUntouched DEF UploadInv
  <2>4. pc \in MainPoints /\ pc' \in MainPoints
    BY <1>1, <2>1 DEF MainPoints
  <2>5. QED
    BY <1>1, <2>1, <2>2, <2>3, <2>4, MainQuiet
<1>6. QED
  BY <1>4, <1>5 DEF IhexEof

(* The boot loader does not touch the flash, its state or the protocol; it  *)
(* keeps the invariant if its copy does.                                    *)
LEMMA BootFrame ==
  ASSUME UInv, TypeOK', bootloader, ~ClearHeader,
         pc' \in MainPoints => Runs(nvm)',
         pc' \in {"erase", "copy", "clear"} => ~busy,
         ~ignored => CopyInv' /\ FirmwareInv'
  PROVE  UInv'
<1>1. UNCHANGED <<hdr, flash, busy, ignored, status, function, last_addr, upgrade_mode>>
  BY DEF bootloader, ReadFault, NotDetected, ReadHeader, EraseRow, EraseDone, CopyPage, CopyDone,
         jump_to_firmware, bootUnchanged, flashVars, ramVars
<1>2. ~ignored' => HeaderNamesCompleteImage'
  BY <1>1, HeaderUntouched
<1>3. ~ignored' => UploadInv'
  BY <1>1 DEF UInv, HeaderInv, UploadInv, Complete
<1>4. MainInv'
  BY <1>1 DEF UInv, MainInv
<1>5. QED
  BY <1>1, <1>2, <1>3, <1>4 DEF UInv, HeaderInv

(* A failed read, or a device that is not detected, leaves the copy out.    *)
LEMMA BootJumps ==
  ASSUME UInv, TypeOK', ReadFault \/ NotDetected
  PROVE  UInv'
<1>1. /\ pc \in {"boot", "copy"} /\ pc' = "jump" /\ UNCHANGED <<hdr, nvm, busy>>
      /\ readFaults' \in Nat
      /\ readFaults' > 0 \/ (busy /\ pc = "boot")
  BY DEF ReadFault, NotDetected, flashVars, UInv, TypeOK
<1>2. ASSUME ~ignored PROVE CopyInv' /\ FirmwareInv'
  <2>1. FirmwareInv
    BY <1>2 DEF UInv, HeaderInv
  <2>2. Runs(nvm)' <=> Runs(nvm)
    BY <1>1, SameRuns
  <2>3. Runs(nvm) \/ (hdr # NoHeader /\ ~busy)
    BY <2>1 DEF FirmwareInv
  <2>4. QED
    BY <1>1, <2>2, <2>3 DEF CopyInv, FirmwareInv
<1>3. ~ClearHeader /\ bootloader
  BY <1>1 DEF ClearHeader, bootloader
<1>4. QED
  BY <1>1, <1>2, <1>3, BootFrame DEF MainPoints

LEMMA BootReadHeader ==
  ASSUME UInv, TypeOK', ReadHeader
  PROVE  UInv'
<1>1. /\ pc = "boot" /\ ~busy /\ pc' = (IF hdr = NoHeader THEN "jump" ELSE "erase")
      /\ offset' = 0 /\ UNCHANGED <<hdr, nvm, busy>>
  BY DEF ReadHeader, flashVars
<1>2. ASSUME ~ignored PROVE CopyInv' /\ FirmwareInv'
  <2>1. Runs(nvm) \/ hdr # NoHeader
    BY <1>2 DEF UInv, HeaderInv, FirmwareInv
  <2>2. Runs(nvm)' <=> Runs(nvm)
    BY <1>1, SameRuns
  <2>3. \A p \in Pages : ~(p <= 0)
    BY SizeAssumption DEF Pages
  <2>4. QED
    BY <1>1, <2>1, <2>2, <2>3 DEF CopyInv, FirmwareInv
<1>3. ~ClearHeader /\ bootloader
  BY <1>1 DEF ClearHeader, bootloader
<1>4. QED
  BY <1>1, <1>2, <1>3, BootFrame DEF MainPoints

LEMMA BootEraseRow ==
  ASSUME UInv, TypeOK', EraseRow
  PROVE  UInv'
<1>1. pc = "erase" /\ pc' = "erase" /\ UNCHANGED <<hdr, busy>>
  BY DEF EraseRow, flashVars
<1>2. ASSUME ~ignored PROVE CopyInv' /\ FirmwareInv'
  <2>1. CopyInv /\ TypeOK /\ hdr # NoHeader /\ ~busy
    BY <1>1, <1>2 DEF UInv, HeaderInv, CopyInv, MainInv
  <2>2. ASSUME NEW p \in Pages, p <= offset'
        PROVE  nvm'[p] = Erased
    <3>1. CASE p <= offset
      BY <1>1, <2>1, <3>1 DEF EraseRow, CopyInv
    <3>2. CASE ~(p <= offset)
      <4>1. p \in offset + 1 .. offset + RowPages
        BY <2>1, <2>2, <3>2, RowAssumption, SizeAssumption DEF EraseRow, TypeOK, Pages
      <4>2. QED
        BY <4>1 DEF EraseRow
    <3>3. QED
      BY <3>1, <3>2
  <2>3. QED
    BY <1>1, <2>1, <2>2 DEF CopyInv, FirmwareInv
<1>3. ~ClearHeader /\ bootloader
  BY <1>1 DEF ClearHeader, bootloader
<1>4. ~busy
  BY <1>1 DEF UInv, MainInv
<1>5. QED
  BY <1>1, <1>2, <1>3, <1>4, BootFrame DEF MainPoints

LEMMA BootEraseDone ==
  ASSUME UInv, TypeOK', EraseDone
  PROVE  UInv'
<1>1. /\ pc = "erase" /\ pc' = "copy" /\ offset' = 0 /\ offset >= hdr
      /\ UNCHANGED <<hdr, nvm, busy>>
  BY DEF EraseDone, flashVars
<1>2. ~busy
  BY <1>1 DEF UInv, MainInv
<1>3. ASSUME ~ignored PROVE CopyInv' /\ FirmwareInv'
  <2>1. CopyInv /\ TypeOK /\ hdr # NoHeader
    BY <1>1, <1>3 DEF UInv, HeaderInv, CopyInv
  <2>2. \A p \in Pages : ~(p <= 0) /\ (p <= hdr => p <= offset)
    BY <1>1, <2>1, SizeAssumption DEF Pages, TypeOK, NoHeader
  <2>3. \A p \in Pages : p <= hdr => nvm[p] = Erased
    BY <1>1, <2>1, <2>2 DEF CopyInv
  <2>4. QED
    BY <1>1, <1>2, <2>1, <2>2, <2>3 DEF CopyInv, FirmwareInv
<1>4. ~ClearHeader /\ bootloader
  BY <1>1 DEF ClearHeader, bootloader
<1>5. QED
  BY <1>1, <1>2, <1>3, <1>4, BootFrame DEF MainPoints

LEMMA BootCopyPage ==
  ASSUME UInv, TypeOK', CopyPage
  PROVE  UInv'
<1>1. /\ pc = "copy" /\ pc' = "copy" /\ offset' = offset + 1 /\ offset < hdr
      /\ UNCHANGED <<hdr, flash, busy>>
  BY DEF CopyPage, flashVars
<1>2. ~busy
  BY <1>1 DEF UInv, MainInv
<1>3. ASSUME ~ignored PROVE CopyInv' /\ FirmwareInv'
  <2>1. CopyInv /\ TypeOK /\ HeaderNamesCompleteImage /\ hdr # NoHeader
    BY <1>1, <1>3 DEF UInv, HeaderInv, CopyInv
  <2>2. hdr \in Pages
    BY <2>1, CompleteSize DEF HeaderNamesCompleteImage
  <2>3. offset + 1 \in Pages /\ offset + 1 <= hdr /\ offset \in Nat
    BY <1>1, <2>1, <2>2, SizeAssumption DEF Pages, TypeOK
  <2>4. nvm[offset + 1] = Erased
    BY <1>1, <2>1, <2>3 DEF CopyInv
  <2>5. nvm' = [nvm EXCEPT ![offset + 1] = flash[offset + 1]]
    BY <2>4, ProgrammedErased DEF CopyPage
  <2>6. ASSUME NEW p \in Pages
        PROVE  /\ p <= offset' => nvm'[p] = flash[p]
               /\ offset' < p /\ p <= hdr => nvm'[p] = Erased
    <3>1. p = offset + 1 => nvm'[p] = flash[p] /\ p <= offset'
      BY <1>1, <2>1, <2>3, <2>5 DEF TypeOK
    <3>2. p # offset + 1 => nvm'[p] = nvm[p]
      BY <2>1, <2>5 DEF TypeOK
    <3>3. p # offset + 1 => (p <= offset' => p <= offset) /\ (offset' < p => offset < p)
      BY <1>1, <2>3, SizeAssumption DEF Pages
    <3>4. p = offset + 1 => ~(offset' < p)
      BY <1>1, <2>3
    <3>5. QED
      BY <1>1, <2>1, <3>1, <3>2, <3>3, <3>4 DEF CopyInv
  <2>7. QED
    BY <1>1, <1>2, <2>1, <2>6 DEF CopyInv, FirmwareInv
<1>4. ~ClearHeader /\ bootloader
  BY <1>1 DEF ClearHeader, bootloader
<1>5. QED
  BY <1>1, <1>2, <1>3, <1>4, BootFrame DEF MainPoints

LEMMA BootCopyDone ==
  ASSUME UInv, TypeOK', CopyDone
  PROVE  UInv'
<1>1. /\ pc = "copy" /\ pc' = "clear" /\ offset >= hdr /\ UNCHANGED <<hdr, flash, nvm, busy>>
  BY DEF CopyDone, flashVars
<1>2. ~busy
  BY <1>1 DEF UInv, MainInv
<1>3. ASSUME ~ignored PROVE CopyInv' /\ FirmwareInv'
  <2>1. CopyInv /\ TypeOK /\ hdr # NoHeader
    BY <1>1, <1>3 DEF UInv, HeaderInv, CopyInv
  <2>2. \A p \in Pages : p <= hdr => p <= offset
    BY <1>1, <2>1, SizeAssumption DEF Pages, TypeOK, NoHeader
  <2>3. \A p \in Pages : p <= hdr => nvm[p] = flash[p]
    BY <1>1, <2>1, <2>2 DEF CopyInv
  <2>4. QED
    BY <1>1, <1>2, <2>1, <2>3 DEF CopyInv, FirmwareInv
<1>4. ~ClearHeader /\ bootloader
  BY <1>1 DEF ClearHeader, bootloader
<1>5. QED
  BY <1>1, <1>2, <1>3, <1>4, BootFrame DEF MainPoints

(* When the header is cleared the copy is complete.                         *)
LEMMA ClearRuns ==
  ASSUME UInv, pc = "clear", ~ignored
  PROVE  Runs(nvm)
<1>1. CopyInv /\ HeaderNamesCompleteImage /\ hdr # NoHeader
  BY DEF UInv, HeaderInv, CopyInv
<1>2. Complete(flash, hdr) /\ \A p \in Pages : p <= hdr => nvm[p] = flash[p]
  BY <1>1 DEF CopyInv, HeaderNamesCompleteImage
<1>3. Complete(nvm, hdr)
  BY <1>2, CompleteSame
<1>4. QED
  BY <1>3, CompleteRuns

LEMMA BootClearHeader ==
  ASSUME UInv, TypeOK', ClearHeader
  PROVE  UInv'
<1>1. /\ pc = "clear" /\ pc' = "jump" /\ hdr' \in {hdr, NoHeader}
      /\ UNCHANGED <<flash, ignored, nvm, status, function, last_addr, upgrade_mode>>
  BY DEF ClearHeader, bootUnchanged, ramVars
<1>2. ASSUME ~ignored' PROVE HeaderInv'
  <2>1. Runs(nvm)'
    BY <1>1, <1>2, ClearRuns, SameRuns
  <2>2. HeaderNamesCompleteImage' /\ UploadInv'
    BY <1>1, <1>2 DEF UInv, HeaderInv, HeaderNamesCompleteImage, UploadInv, Complete
  <2>3. CopyInv' /\ FirmwareInv'
    BY <1>1, <2>1 DEF CopyInv, FirmwareInv
  <2>4. QED
    BY <2>2, <2>3 DEF HeaderInv
<1>3. MainInv'
  BY <1>1 DEF UInv, MainInv, MainPoints
<1>4. QED
  BY <1>2, <1>3 DEF UInv

LEMMA BootJump ==
  ASSUME UInv, TypeOK', jump_to_firmware
  PROVE  UInv'
<1>1. /\ pc = "jump" /\ pc' = (IF Runs(nvm) THEN "cli" ELSE "hung")
      /\ UNCHANGED <<hdr, busy, nvm, readFaults>>
  BY DEF jump_to_firmware, flashVars
<1>2. Runs(nvm)' <=> Runs(nvm)
  BY <1>1, SameRuns
<1>3. ASSUME ~ignored PROVE CopyInv' /\ FirmwareInv'
  BY <1>1, <1>2, <1>3 DEF UInv, HeaderInv, CopyInv, FirmwareInv
<1>4. ~ClearHeader /\ bootloader
  BY <1>1 DEF ClearHeader, bootloader
<1>5. QED
  BY <1>1, <1>2, <1>3, <1>4, BootFrame DEF MainPoints

(* Each step of the boot loader keeps how far its copy has come.            *)
LEMMA BootStep ==
  ASSUME UInv, TypeOK', bootloader
  PROVE  UInv'
BY BootJumps, BootReadHeader, BootEraseRow, BootEraseDone, BootCopyPage, BootCopyDone,
   BootClearHeader, BootJump DEF bootloader

(* A reset tears at most a page that the boot loader is copying, and then   *)
(* the header is still there; or it cuts the clearing of the header, and    *)
(* then the copy is complete.                                               *)
LEMMA ResetStep ==
  ASSUME UInv, TypeOK', Reset
  PROVE  UInv'
<1>1. Restart /\ UNCHANGED <<flash, ignored>>
  BY DEF Reset, Interrupted, flashVars
<1>2. CASE UNCHANGED <<flashVars, nvm>>
  <2>1. UNCHANGED <<hdr, busy, nvm>>
    BY <1>2 DEF flashVars
  <2>2. ~ignored' => HeaderNamesCompleteImage'
    BY <1>1, <2>1, HeaderUntouched
  <2>3. ~ignored' => Runs(nvm)' \/ (hdr' # NoHeader /\ ~busy')
    BY <1>1, <2>1, SameRuns DEF UInv, HeaderInv, FirmwareInv
  <2>4. QED
    BY <1>1, <2>2, <2>3, RestartQuiet
<1>3. CASE pc \in {"erase", "copy"} /\ UNCHANGED flashVars
  <2>1. UNCHANGED <<hdr, busy>>
    BY <1>3 DEF flashVars
  <2>2. ~ignored' => HeaderNamesCompleteImage'
    BY <1>1, <2>1, HeaderUntouched
  <2>3. ~ignored' => hdr' # NoHeader /\ ~busy'
    BY <1>1, <1>3, <2>1 DEF UInv, HeaderInv, CopyInv, MainInv
  <2>4. QED
    BY <1>1, <2>2, <2>3, RestartQuiet
<1>4. CASE pc = "clear" /\ hdr' = NoHeader /\ UNCHANGED nvm
  <2>1. ~ignored' => Runs(nvm)' /\ HeaderNamesCompleteImage'
    BY <1>1, <1>4, ClearRuns, SameRuns DEF HeaderNamesCompleteImage
  <2>2. QED
    BY <1>1, <2>1, RestartQuiet
<1>5. QED
  BY <1>2, <1>3, <1>4 DEF Reset

(* The device gets ready by itself.                                         *)
LEMMA ReadyStep ==
  ASSUME UInv, TypeOK', Ready
  PROVE  UInv'
<1>1. UNCHANGED <<pc, hdr, flash, ignored, nvm, offset, last_addr, status, function, upgrade_mode, readFaults>>
      /\ ~busy'
  BY DEF Ready, ramVars, envVars
<1>2. Runs(nvm)' <=> Runs(nvm)
  BY <1>1, SameRuns
<1>3. MainInv'
  BY <1>1, <1>2 DEF UInv, MainInv
<1>4. ASSUME ~ignored' PROVE HeaderInv'
  <2>1. HeaderNamesCompleteImage' /\ UploadInv'
    BY <1>1, <1>4 DEF UInv, HeaderInv, HeaderNamesCompleteImage, UploadInv, Complete
  <2>2. CopyInv'
    BY <1>1, <1>4 DEF UInv, HeaderInv, CopyInv
  <2>3. FirmwareInv'
    BY <1>1, <1>2, <1>4 DEF UInv, HeaderInv, FirmwareInv
  <2>4. QED
    BY <2>1, <2>2, <2>3 DEF HeaderInv
<1>5. QED
  BY <1>3, <1>4 DEF UInv

(* A step of the main loop that touches neither memory.                     *)
LEMMA QuietStep ==
  ASSUME UInv, TypeOK', pc \in MainPoints, pc' \in MainPoints,
         UNCHANGED <<hdr, flash, ignored, nvm>>,
         upgrade_mode' => UseConsole,
         status' # "NO_UPGRADE" \/ function' # "none" => UseModbus,
         ~ignored => UploadInv'
  PROVE  UInv'
<1>1. ~ignored' => HeaderNamesCompleteImage'
  BY HeaderUntouched
<1>2. QED
  BY <1>1, MainQuiet

(* With one front end, every step keeps the invariant.                      *)
LEMMA UInvStep ==
  ASSUME OneFrontEnd, UInv, [Next]_vars
  PROVE  UInv'
<1>1. TypeOK'
  BY TypeStep DEF UInv
<1>2. /\ upgrade_mode => UseConsole
      /\ status # "NO_UPGRADE" \/ function # "none" => UseModbus
  BY DEF UInv, MainInv
<1>3. CASE do_cli
  <2>1. CASE cli_cmd_upgrade \/ IhexData \/ IhexEof
    BY <1>1, <2>1, ConsoleStartStep, ConsoleWriteStep, ConsoleEofStep
  <2>2. CASE CliIdle \/ SetEnv \/ IhexAbort
    <3>1. /\ pc = "cli" /\ pc' = "modbus"
          /\ UNCHANGED <<hdr, flash, ignored, nvm, last_addr, status, function>>
          /\ (upgrade_mode' => upgrade_mode)
      BY <2>2 DEF CliIdle, SetEnv, IhexAbort, CliDone, flashVars
    <3>2. ~ignored => UploadInv'
      BY <3>1 DEF UInv, HeaderInv, UploadInv, Complete
    <3>3. pc \in MainPoints /\ pc' \in MainPoints
      BY <3>1 DEF MainPoints
    <3>4. QED
      BY <1>1, <1>2, <3>1, <3>2, <3>3, QuietStep
  <2>3. QED
    BY <1>3, <2>1, <2>2 DEF do_cli
<1>4. CASE do_modbus
  <2>1. CASE WriteUpgradeData \/ DispatchPrepare
    BY <1>1, <2>1, WriteStep, PrepareStep
  <2>2. CASE DispatchActivate /\ status = "VERIFIED"
    BY <1>1, <2>2, ActivateStep
  <2>3. CASE NoUpgradeFrame \/ WriteFunction \/ DispatchDisabled
    <3>1. /\ pc \in MainPoints /\ pc' \in MainPoints
          /\ UNCHANGED <<hdr, flash, ignored, nvm, last_addr, status, upgrade_mode>>
          /\ function' = function \/ UseModbus
      BY <2>3 DEF NoUpgradeFrame, WriteFunction, DispatchDisabled, FrameDone, MainPoints,
                  flashVars, ramVars
    <3>2. ~ignored => UploadInv'
      BY <3>1 DEF UInv, HeaderInv, UploadInv, Complete
    <3>3. QED
      BY <1>1, <1>2, <3>1, <3>2, QuietStep
  <2>4. CASE DispatchNone \/ DispatchVerify \/ (DispatchActivate /\ status # "VERIFIED")
    <3>1. /\ pc = "dispatch" /\ pc' = "cli"
          /\ UNCHANGED <<hdr, flash, ignored, nvm, last_addr, upgrade_mode>>
          /\ function' = "none"
      BY <2>4 DEF DispatchNone, DispatchVerify, DispatchActivate, Unserved, Served, flashVars
    <3>2. \/ status' = status
          \/ function # "none" /\ status' = "ERROR"
          \/ function # "none" /\ Complete(flash, last_addr) /\ status' = "VERIFIED" /\ status = "IN_PROGRESS"
      BY <2>4 DEF DispatchNone, DispatchVerify, DispatchActivate, Unserved, Served, Verified
    <3>3. ~ignored => UploadInv'
      BY <3>1, <3>2 DEF UInv, HeaderInv, UploadInv, Complete
    <3>4. /\ upgrade_mode' => UseConsole
          /\ status' # "NO_UPGRADE" \/ function' # "none" => UseModbus
      BY <1>2, <3>1, <3>2
    <3>5. pc \in MainPoints /\ pc' \in MainPoints
      BY <3>1 DEF MainPoints
    <3>6. QED
      BY <1>1, <3>1, <3>3, <3>4, <3>5, QuietStep
  <2>5. QED
    BY <1>4, <2>1, <2>2, <2>3, <2>4 DEF do_modbus
<1>5. CASE bootloader
  BY <1>1, <1>5, BootStep
<1>6. CASE Reset
  BY <1>1, <1>6, ResetStep
<1>7. CASE Ready
  BY <1>1, <1>7, ReadyStep
<1>8. CASE UNCHANGED vars
  BY <1>1, <1>8 DEF vars, flashVars, ramVars, envVars, UInv, MainInv, HeaderInv,
                    HeaderNamesCompleteImage, UploadInv, CopyInv, FirmwareInv, Runs, Complete
<1>9. QED
  BY <1>3, <1>4, <1>5, <1>6, <1>7, <1>8 DEF Next

(* The conjunction that the theorems below follow from holds in every state *)
(* of a device that is upgraded through one front end.                      *)
THEOREM UInvHolds == ASSUME OneFrontEnd PROVE Spec => []UInv
<1>1. UInv /\ [Next]_vars => UInv'
  BY UInvStep
<1>2. QED
  BY <1>1, UInvInit, PTL DEF Spec

(* Whatever is aborted, fails, gives up or is cut by a reset, a header in   *)
(* the flash names a complete and verified image, as the comment of         *)
(* upgrade_activate has it: unless the last upgrade_start found the device  *)
(* busy, which ignored the erase of the header's block.                     *)
THEOREM HeaderIsTrue == ASSUME OneFrontEnd PROVE Spec => []HeaderTellsTheTruth
<1>1. UInv => HeaderTellsTheTruth
  BY DEF UInv, HeaderInv, HeaderTellsTheTruth
<1>2. QED
  BY <1>1, UInvHolds, PTL

(* The device has a complete firmware to run or to copy, with the same      *)
(* exception.                                                               *)
THEOREM FirmwareKept == ASSUME OneFrontEnd PROVE Spec => []FirmwareNeverLost
<1>1. UInv => FirmwareNeverLost
  BY DEF UInv, HeaderInv, HeaderNamesCompleteImage, FirmwareInv, FirmwareNeverLost
<1>2. QED
  BY <1>1, UInvHolds, PTL

(* Only a failed read starts an incomplete firmware, and the next reset     *)
(* copies the image again, with the same exception.                         *)
THEOREM HangRetried == ASSUME OneFrontEnd PROVE Spec => []HangIsRetryable
<1>1. UInv => HangIsRetryable
  BY DEF UInv, HeaderInv, HeaderNamesCompleteImage, FirmwareInv, HangIsRetryable
<1>2. QED
  BY <1>1, UInvHolds, PTL

(* What the boot loader has copied when it takes the upgrade for successful *)
(* runs, with the same exception.                                           *)
THEOREM CopyIsSuccessful ==
  ASSUME OneFrontEnd PROVE Spec => [](~ignored => UpgradeSuccessful)
<1>1. UInv => (~ignored => UpgradeSuccessful)
  BY ClearRuns DEF UpgradeSuccessful
<1>2. QED
  BY <1>1, UInvHolds, PTL
=============================================================================
