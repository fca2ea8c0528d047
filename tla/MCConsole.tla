----------------------------- MODULE MCConsole -----------------------------
(***************************************************************************)
(* The console and the SPI flash for TLC.  The console edits lines and is  *)
(* fed files; the flash is written and verified as an upload does or       *)
(* called on its own (FlashUse).  Console abstracts from the flash and     *)
(* SpiFlash from the console, so a behaviour is one of a single part,      *)
(* chosen in the beginning, while the other stands: the sum of the state   *)
(* spaces and not their product.                                           *)
(***************************************************************************)
EXTENDS Console, FlashUse

(* Hexadecimal becomes base 3, so that a byte has 9 values and type 4       *)
(* exists.  The longest record that fits, one of three bytes, fills the     *)
(* buffer, as one of 122 bytes does in the code; one of four is cut off.    *)
(* With a doubled character that of 0, 2, 6 becomes, cut, one of 0, 2, 8.   *)
MCDigits == <<"0", "1", "2">>
MCStart == 70
R(t, a, b) == [type |-> t, addr |-> a, bytes |-> b]
EndRecord == R(1, 0, << >>)
MCFiles ==
  { << R(0, 70, <<7>>), R(4, 0, <<0, 1>>), R(0, 0, <<3, 8>>), EndRecord >>,
    << R(0, 72, <<2>>), R(2, 0, <<4>>), R(0, 70, <<0, 1>>), EndRecord >>,
    << R(0, 70, <<0, 2, 6>>), EndRecord >>,
    << R(0, 70, <<0, 1, 2, 3>>), EndRecord >> }
MCKeys == {"u", " ", "CR", "DEL", "ETX"}

console == vars
allVars == <<use, console>>

(* A device of 16 bytes in blocks of four and pages of two; an image that   *)
(* ends in the middle of its second block, sent in records across pages and *)
(* blocks.                                                                  *)
MCImage == << {}, {0}, {1}, {0}, {}, {1} >>
MCRecords == {<<0, 3>>, <<3, 3>>, <<1, 1>>, <<4, 0>>}
(* Writes within a page, across pages and over the end of a block; erasures *)
(* that begin with a block.                                                 *)
MCWrites == {<<1, << {0}, {1}, {} >> >>, <<3, << {1}, {0}, {0}, {} >> >>, <<6, << {0} >> >>}
MCErases == {<<0, 4>>, <<4, 5>>, <<8, 1>>, <<0, -1>>}

ASSUME F!SpiFlashAssumption

AnyInit ==
  /\ part \in {"console", "flash upload", "flash commands"}
  /\ Init /\ (part # "console" => file = << R(0, 70, <<0, 2, 6>>), EndRecord >>)
  /\ UseInit

(* The host may stop after a file, and the user after the last key.         *)
AnyNext ==
  \/ part = "console" /\ Next /\ UNCHANGED use
  \/ UseNext /\ UNCHANGED console

AnySpec == AnyInit /\ [][AnyNext]_allVars
-----------------------------------------------------------------------------
(* The terminal shows the line that is edited, and its words become the     *)
(* command and its arguments (cli.c:658-680, 734-764).                      *)
LineIsShownAndSplit == ScreenShowsTheLine /\ ArgumentsAreTheWords
=============================================================================
