------------------------------ MODULE Console ------------------------------
(***************************************************************************)
(* The console (cli.c): the line editor, the split of a line into a        *)
(* command and its arguments, and the upgrade mode, in which lines are     *)
(* records of an Intel HEX file (upgrade_parse_ihex in upgrade.c).         *)
(*                                                                         *)
(* A user types and edits commands; then the host sends a file, over a     *)
(* line that loses, doubles or changes a character (into any other) now    *)
(* and then, and does not wait for an answer.  upgrade is the command that *)
(* matters; quiet has the value of upgrade_mode, prompt is layout; both    *)
(* are left out.  The verification is ideal (Checksums), the rest of the   *)
(* upgrade is in FirmwareUpgrade, the device in SpiFlash.                  *)
(***************************************************************************)
EXTENDS Integers, Sequences, FiniteSets, SequencesExt

CONSTANTS
  Size,          \* CLI_INBUF_SIZE
  Digits,        \* the hexadecimal digits in their order
  Start,         \* CFG_FIRMWARE_START
  Files,         \* sequences of records [type, addr, bytes], two bytes for type 4
  Keys,          \* what a user types
  MaxKeys,       \* bound: keys of the user
  MaxFaults      \* bound: wrong characters and SPI errors, one in a line

Base == Len(Digits)
Byte == Base * Base              \* 256
Word == Byte * Byte * Byte * Byte    \* of a uint32_t

ASSUME ConsoleAssumption ==
  /\ Size \in Nat \ {0, 1} /\ Start \in Nat /\ MaxKeys \in Nat /\ MaxFaults \in Nat
  /\ \A f \in Files : \A i \in DOMAIN f :
       /\ f[i].addr < Byte * Byte /\ Len(f[i].bytes) < Byte
       /\ f[i].type = 4 => Len(f[i].bytes) = 2

Blanks == {" ", "TAB"}
Controls == {"CR", "LF", "BS", "DEL", "ETX"}       \* ETX is CTRL+C
Characters == ToSet(Digits) \cup {":", "NUL", "u", " "} \cup Controls
-----------------------------------------------------------------------------
(* The file the host sends.                                                 *)

SumOf(bytes) == FoldLeft(LAMBDA a, b : a + b, 0, bytes)
RecordBytes(r) ==
  LET body == <<Len(r.bytes), r.addr \div Byte, r.addr % Byte, r.type>> \o r.bytes
  IN  Append(body, (Byte - (SumOf(body) % Byte)) % Byte)
Line(r) ==
  <<":">> \o FlattenSeq([i \in DOMAIN RecordBytes(r) |->
    LET b == RecordBytes(r)[i] IN <<Digits[b \div Base + 1], Digits[(b % Base) + 1]>>])
Text == [f \in Files |->
           FlattenSeq([i \in DOMAIN f |-> Line(f[i]) \o <<"CR", "LF">>])]

(* Where the bytes of a record belong: addresses count from the last        *)
(* record of type 4 before it.  The offset in the image is a uint32_t.      *)
Upper(f, i) ==
  LET before == {j \in 1 .. i : f[j].type = 4}
      last == CHOOSE j \in before : \A k \in before : k <= j
  IN  IF before = {} THEN 0
      ELSE (f[last].bytes[1] * Byte + f[last].bytes[2]) * Byte * Byte
Placed(addr, bytes) == {<<(addr - Start + k - 1) % Word, bytes[k]>> : k \in DOMAIN bytes}
DataRecords(f) == {i \in DOMAIN f : f[i].type = 0}
Image ==
  [f \in Files |->
     UNION {Placed(Upper(f, i) + f[i].addr, f[i].bytes) : i \in DataRecords(f)}]
(* And where they go when records of type 4 are missed.                     *)
Displaced ==
  [f \in Files |->
     UNION {Placed(Upper(f, j) + f[i].addr, f[i].bytes) :
              <<i, j>> \in {<<i, j>> \in DataRecords(f) \X (0 .. Len(f)) : j <= i}}]

(* The files whose lines fit in the buffer.                                 *)
Fitting == {f \in Files : \A i \in DOMAIN f : Len(Line(f[i])) < Size}
-----------------------------------------------------------------------------
VARIABLES
  inbuf,         \* the first inbuf_ptr characters
  screen,        \* what the terminal shows after the prompt
  argv,          \* the last command with its arguments, and its line
  upgrade_mode, ihex_upper, last_addr,
  flash,         \* <<offset, byte>> programmed since the erase
  activated,
  file, pos,     \* what the host sends, and how much of it was sent
  sending,
  clean,         \* ghost: since it began nothing went wrong
  cut,           \* ghost: the line has lost characters for want of room
  unnoticed,     \* ghost: what went wrong since the erase without an error
  keys, faults, lineFaults

upgradeVars == <<upgrade_mode, ihex_upper, last_addr, flash, activated>>
hostVars == <<file, pos, sending, clean>>
ghosts == <<cut, unnoticed>>
bounds == <<keys, faults, lineFaults>>
consoleVars == <<inbuf, screen, argv, upgradeVars, ghosts>>
vars == <<consoleVars, hostVars, bounds>>

Init ==
  /\ inbuf = << >> /\ screen = << >> /\ argv = [line |-> << >>, words |-> << >>]
  /\ upgrade_mode = FALSE /\ ihex_upper = 0 /\ last_addr = 0
  /\ flash = {} /\ activated = FALSE
  /\ file \in Files /\ pos = 0 /\ sending = FALSE /\ clean = FALSE
  /\ cut = FALSE /\ unnoticed = {}
  /\ keys = 0 /\ faults = 0 /\ lineFaults = 0

TypeOK ==
  /\ inbuf \in Seq(Characters \cup Keys) /\ Len(inbuf) < Size
  /\ {upgrade_mode, activated, sending, clean, cut} \subseteq BOOLEAN
  /\ unnoticed \subseteq {"skipped", "cut"}
  /\ ihex_upper \in Nat /\ last_addr \in 0 .. Word - 1 /\ flash \subseteq (0 .. Word - 1) \X (0 .. Byte - 1)
  /\ pos \in 0 .. Len(Text[file]) /\ faults \in 0 .. MaxFaults /\ lineFaults \in 0 .. 1
-----------------------------------------------------------------------------
(* A line in command mode.                                                  *)

(* The string in the buffer ends at its first NUL.                          *)
CString(line) ==
  LET nul == SelectInSeq(line, LAMBDA c : c = "NUL")
  IN  IF nul = 0 THEN line ELSE SubSeq(line, 1, nul - 1)

(* The loop of cli_parse.                                                   *)
Words(line) ==
  LET next(acc, c) ==
        IF c \in Blanks THEN [acc EXCEPT !.inside = FALSE]
        ELSE IF acc.inside
             THEN [acc EXCEPT !.words[Len(acc.words)] = Append(@, c)]
             ELSE [words |-> Append(acc.words, <<c>>), inside |-> TRUE]
  IN  FoldLeft(next, [words |-> << >>, inside |-> FALSE], line).words

(* upgrade erases the flash, or a part of it, and enters the upgrade mode.  *)
cli_cmd_upgrade(failed) ==
  /\ last_addr' = 0
  /\ IF failed THEN flash' \in SUBSET flash /\ UNCHANGED <<upgrade_mode, ihex_upper>>
     ELSE upgrade_mode' = TRUE /\ ihex_upper' = 0 /\ flash' = {}
  /\ UNCHANGED activated

cli_parse(line, failed) ==
  /\ argv' = [line |-> line, words |-> Words(line)]
  /\ IF Words(line) # << >> /\ Words(line)[1] = <<"u">> THEN cli_cmd_upgrade(failed)
     ELSE UNCHANGED upgradeVars
-----------------------------------------------------------------------------
(* A line in upgrade mode: upgrade_parse_ihex.                              *)

HEX2BYTE(c) == (CHOOSE i \in DOMAIN Digits : Digits[i] = c) - 1

IsHex(s) == Len(s) % 2 = 0 /\ \A i \in DOMAIN s : s[i] \in ToSet(Digits)

Decoded(s) ==
  [k \in 1 .. Len(s) \div 2 |-> Base * HEX2BYTE(s[2 * k - 1]) + HEX2BYTE(s[2 * k])]

(* Mutant: the checksum in the record is not verified.                      *)
IsRecordOfAnySum(line) ==
  /\ line[1] = ":" /\ IsHex(Tail(line))
  /\ LET decoded == Decoded(Tail(line))
     IN  Len(decoded) >= 5 /\ Len(decoded) = decoded[1] + 5

(* What is refused has no effect but the end of the upgrade mode.           *)
IsRecord(line) ==
  /\ line[1] = ":" /\ IsHex(Tail(line))
  /\ LET decoded == Decoded(Tail(line))
     IN  /\ Len(decoded) >= 5 /\ Len(decoded) = decoded[1] + 5
         /\ SumOf(decoded) % Byte = 0

(* When SPI fails a part of the bytes may be programmed.                    *)
Programmed(addr, bytes, failed) ==
  /\ IF failed THEN \E part \in SUBSET Placed(addr, bytes) : flash' = flash \cup part
     ELSE flash' = flash \cup Placed(addr, bytes)
  /\ upgrade_mode' = ~failed

End(addr, bytes) == (addr - Start + Len(bytes)) % Word

(* Mutant: the last record ends the image, wherever it is.                  *)
DataInOrder(addr, bytes, failed) ==
  /\ last_addr' = End(addr, bytes)
  /\ Programmed(addr, bytes, failed)
  /\ UNCHANGED <<ihex_upper, activated>>

(* A data record.                                                           *)
Data(addr, bytes, failed) ==
  /\ last_addr' = IF End(addr, bytes) > last_addr THEN End(addr, bytes) ELSE last_addr
  /\ Programmed(addr, bytes, failed)
  /\ UNCHANGED <<ihex_upper, activated>>

(* upgrade_verify: exactly the bytes of the image.                          *)
Verified == flash = Image[file] /\ last_addr = Max({b[1] + 1 : b \in flash} \cup {0})

(* When verification or activation fails the upgrade mode stays.            *)
EndOfFile(failed) ==
  /\ activated' = (Verified /\ ~failed)
  /\ UNCHANGED <<upgrade_mode, ihex_upper, last_addr, flash>>

cli_upgrade_parse(line, failed) ==
  IF line = << >> THEN UNCHANGED upgradeVars
  ELSE IF ~IsRecord(line)
  THEN upgrade_mode' = FALSE /\ UNCHANGED <<ihex_upper, last_addr, flash, activated>>
  ELSE LET decoded == Decoded(Tail(line))
           addr == decoded[2] * Byte + decoded[3] + ihex_upper    \* no bits in common
           bytes == SubSeq(decoded, 5, Len(decoded) - 1)
       IN  CASE decoded[4] = 0 -> Data(addr, bytes, failed)
             [] decoded[4] = 1 -> EndOfFile(failed)
             [] decoded[4] = 4 ->
                  /\ ihex_upper' = (decoded[5] * Byte + decoded[6]) * Byte * Byte
                  /\ UNCHANGED <<upgrade_mode, last_addr, flash, activated>>
             [] OTHER -> UNCHANGED upgradeVars
-----------------------------------------------------------------------------
(* do_cli: one character.  The terminal erases what it is told to.          *)

EndOfLine(failed) ==
  /\ inbuf' = << >> /\ screen' = << >>
  /\ IF upgrade_mode THEN cli_upgrade_parse(CString(inbuf), failed) /\ UNCHANGED argv
     ELSE cli_parse(CString(inbuf), failed)

Erase ==
  /\ IF inbuf = << >> THEN UNCHANGED <<inbuf, screen>>
     ELSE inbuf' = Front(inbuf) /\ screen' = IF screen = << >> THEN screen ELSE Front(screen)
  /\ UNCHANGED <<argv, upgradeVars>>

Cancel ==
  /\ inbuf' = << >> /\ screen' = << >> /\ upgrade_mode' = FALSE
  /\ UNCHANGED <<argv, ihex_upper, last_addr, flash, activated>>

(* Mutant: the echo does not look at the room in the buffer.                *)
InsertEchoed(c) ==
  /\ inbuf' = IF Len(inbuf) < Size - 1 THEN Append(inbuf, c) ELSE inbuf
  /\ screen' = IF upgrade_mode THEN screen ELSE Append(screen, c)
  /\ UNCHANGED <<argv, upgradeVars>>

Insert(c) ==
  /\ IF Len(inbuf) < Size - 1
     THEN inbuf' = Append(inbuf, c) /\ screen' = IF upgrade_mode THEN screen ELSE Append(screen, c)
     ELSE UNCHANGED <<inbuf, screen>>
  /\ UNCHANGED <<argv, upgradeVars>>

(* What nobody is told of: characters for which there is no room, a record  *)
(* whose line begins with a NUL (it is neither refused nor acknowledged),   *)
(* and one that lost characters and is a record all the same.               *)
Unnoticed(c) ==
  LET line == CString(inbuf)
      skipped == IF inbuf # << >> /\ line = << >> THEN {"skipped"} ELSE {}
      accepted == IF cut /\ line # << >> /\ IsRecord(line) THEN {"cut"} ELSE {}
  IN  /\ cut' = (c \notin {"CR", "ETX"} /\ (cut \/ (c # "LF" /\ Len(inbuf) = Size - 1)))
      /\ unnoticed' = IF c # "CR" THEN unnoticed
                      ELSE IF upgrade_mode THEN unnoticed \cup skipped \cup accepted
                      ELSE IF upgrade_mode' THEN {} ELSE unnoticed

do_cli(c, failed) ==
  /\ CASE c = "LF" -> UNCHANGED <<inbuf, screen, argv, upgradeVars>>
       [] c = "CR" -> EndOfLine(failed)
       [] c \in {"BS", "DEL"} /\ ~upgrade_mode -> Erase
       [] c = "ETX" -> Cancel
       [] OTHER -> Insert(c)
  /\ Unnoticed(c)
-----------------------------------------------------------------------------
(* The user and the host.                                                   *)

Key ==
  /\ ~activated /\ ~sending /\ keys < MaxKeys /\ keys' = keys + 1
  /\ \E c \in Keys, failed \in BOOLEAN : do_cli(c, failed)
  /\ UNCHANGED <<hostVars, faults, lineFaults>>

(* The host begins once the command has succeeded.                          *)
StartUpload ==
  /\ ~activated /\ ~sending
  /\ upgrade_mode /\ ihex_upper = 0 /\ last_addr = 0
  /\ sending' = TRUE /\ pos' = 0 /\ clean' = (inbuf = << >>)
  /\ lineFaults' = 0
  /\ UNCHANGED <<consoleVars, file, keys, faults>>

Fault ==
  /\ faults < MaxFaults /\ lineFaults = 0
  /\ faults' = faults + 1 /\ lineFaults' = 1 /\ clean' = FALSE

NextChar == Text[file][pos + 1]
Sending == ~activated /\ sending /\ pos < Len(Text[file])

Arrives ==
  /\ Sending /\ pos' = pos + 1
  /\ do_cli(NextChar, FALSE)
  /\ lineFaults' = IF NextChar = "CR" THEN 0 ELSE lineFaults
  /\ UNCHANGED <<file, sending, clean, keys, faults>>
SpiFails ==
  /\ Sending /\ NextChar = "CR" /\ pos' = pos + 1
  /\ do_cli("CR", TRUE) /\ Fault
  /\ UNCHANGED <<file, sending, keys>>
Lost ==
  /\ Sending /\ pos' = pos + 1 /\ Fault
  /\ UNCHANGED <<consoleVars, file, sending, keys>>
Changed ==
  /\ Sending /\ pos' = pos + 1 /\ Fault
  /\ \E c \in Characters \ {NextChar} : do_cli(c, FALSE)
  /\ UNCHANGED <<file, sending, keys>>
Doubled ==
  /\ Sending /\ UNCHANGED pos /\ Fault
  /\ do_cli(NextChar, FALSE)
  /\ UNCHANGED <<file, sending, keys>>

(* The end of the file, or the user presses CTRL+C and begins again.        *)
EndUpload ==
  /\ ~activated /\ sending /\ sending' = FALSE
  /\ clean' = FALSE /\ pos' = 0
  /\ \/ pos = Len(Text[file]) /\ UNCHANGED consoleVars
     \/ do_cli("ETX", FALSE)
  /\ UNCHANGED <<file, bounds>>

Next == Key \/ StartUpload \/ Arrives \/ SpiFails \/ Lost \/ Changed \/ Doubled \/ EndUpload
Spec == Init /\ [][Next]_vars
-----------------------------------------------------------------------------
(* Properties *)

(* In command mode the terminal shows the line that will be executed, at    *)
(* the end of the buffer and after an upload too (cli.c:734-764).           *)
ScreenShowsTheLine == ~upgrade_mode => screen = inbuf

(* The command and its arguments are the runs of the line between blanks,   *)
(* none is lost, divided or empty (cli.c:658-680).                          *)
ArgumentsAreTheWords ==
  LET line == argv.line
      begins == {i \in DOMAIN line : line[i] \notin Blanks /\
                                     (i > 1 => line[i - 1] \in Blanks)}
  IN  /\ Len(argv.words) = Cardinality(begins)
      /\ << >> \notin ToSet(argv.words)
      /\ FlattenSeq(argv.words) = SelectSeq(line, LAMBDA c : c \notin Blanks)

(* Whatever the line does to one character in a record, and whatever was    *)
(* typed before, only bytes of the file are programmed, each in its place,  *)
(* with two exceptions that nobody is told of.  A record whose first        *)
(* character becomes a NUL is skipped: if it was one of type 4, the bytes   *)
(* after it go where the previous upper half of the address puts them, but  *)
(* still no other bytes.  And a line that is longer than the buffer, by a   *)
(* doubled character, loses its end and may have a right checksum by chance *)
(* (upgrade.c:50-107, cli.c:693-706, 759).                                  *)
OnlyTheFileIsProgrammed ==
  /\ unnoticed = {} => flash \subseteq Image[file]
  /\ unnoticed = {"skipped"} => flash \subseteq Displaced[file]

(* An upload without a fault, whose lines fit in the buffer, is activated   *)
(* (cli.c:708-718).                                                         *)
CompleteUploadIsActivated ==
  clean /\ pos = Len(Text[file]) /\ file \in Fitting => activated
=============================================================================
