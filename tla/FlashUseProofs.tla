--------------------------- MODULE FlashUseProofs ---------------------------
(***************************************************************************)
(* Proofs about FlashUse, for every size of the device, its blocks and     *)
(* pages, every image, every set of records and every limit of the polls:  *)
(* that a call keeps its promise, and that an upload is in place and is    *)
(* verified as what it is, although the driver gives up on a device that   *)
(* goes on.                                                                *)
(***************************************************************************)
EXTENDS FlashUse, Integers, Sequences, TLAPS
-----------------------------------------------------------------------------
(* A call in progress.                                                      *)
Running == pc \in {"loop", "wait"}
Programs == call.op \in {"write", "program", "activate"}
(* Where its next command goes, behind the one the device may be busy with. *)
Behind == IF pc = "wait" THEN addr + F!Step ELSE addr
BlockOf(x) == x \div Block

CallTypes ==
  /\ mem \in [F!Addresses -> SUBSET Bits] /\ promised \in [F!Addresses -> SUBSET Bits]
  /\ busy \in BOOLEAN /\ detected \in BOOLEAN /\ ready \in BOOLEAN
  /\ pc \in {"idle", "loop", "wait", "read", "return"} /\ ret \in {0, -1}
  /\ addr \in 0 .. AddrMod - 1 /\ retries \in 0 .. Retries
  /\ call \in [op : F!Operations, end : 0 .. AddrMod - 1, data : Seq(SUBSET Bits)]
  /\ hashed \in Seq(SUBSET Bits)
UploadTypes ==
  /\ status \in {"NO_UPGRADE", "IN_PROGRESS", "VERIFIED", "ERROR"} /\ skipped \in BOOLEAN
  /\ flash_last_addr \in 0 .. AddrMod - 1 /\ flash_offset \in 0 .. AddrMod - 1
  /\ acked \subseteq 1 .. Len(FirmwareImage) /\ refused \in Records \cup {<< >>}
Basics ==
  /\ CallTypes /\ UploadTypes
  /\ pc = "idle" <=> call.op = "none"
  /\ pc = "read" => call.op = "verify"
  /\ Running => detected /\ (F!IsErase \/ Programs)
  /\ pc = "wait" => F!More /\ retries > 0
RangeOfCall ==
  /\ Running /\ Programs => addr + Len(call.data) = call.end /\ call.end <= Total
  /\ Running /\ F!IsErase => addr % Block = 0 /\ addr <= Total /\ call.end < Total

(* What a call that found the device ready has still to do.                 *)
ToProgram ==
  \A x \in F!Addresses :
    promised[x] = IF x \in Behind .. call.end - 1 THEN mem[x] \cap call.data[x - addr + 1] ELSE mem[x]
ToErase ==
  \A x \in F!Addresses :
    promised[x] = IF BlockOf(x) \in BlockOf(Behind) .. BlockOf(call.end) THEN F!Erased ELSE mem[x]
CallInv ==
  /\ Basics /\ RangeOfCall /\ CallKeepsItsPromise
  /\ pc = "idle" \/ call.op = "verify" => promised = mem
  /\ ready /\ pc = "loop" => ~busy
  /\ ready /\ Running /\ Programs => ToProgram
  /\ ready /\ Running /\ F!IsErase => ToErase

(* An upload: the byte at a position of the image.                          *)
Positions == 1 .. Len(FirmwareImage)
Place(p) == mem[Block + p - 1]
InPlace(p) == Place(p) = FirmwareImage[p]
(* The image can still be programmed.                                       *)
Programmable == \A p \in Positions : FirmwareImage[p] \subseteq Place(p)
BehindHeaderErased(limit) ==
  \A x \in F!Addresses : BlockOf(x) \in 1 .. limit - 1 => mem[x] = F!Erased
(* The positions that the first command of a write is for.                  *)
FirstChunk(rec) ==
  {p \in rec[1] + 1 .. rec[1] + rec[2] : p - rec[1] <= Page - ((Block + rec[1]) % Page)}
FirstChunkInPlace == refused[2] > 0 /\ \A p \in FirstChunk(refused) : InPlace(p)

Uploading == status = "IN_PROGRESS" /\ call.op # "start"
(* After an upload has begun, or failed to.                                 *)
StartInv ==
  call.op = "start" =>
    /\ acked = {} /\ refused = << >> /\ ~skipped /\ flash_last_addr = 0
    /\ detected => flash_offset = Block
    /\ Running => call.end = Total - 1 /\ BehindHeaderErased(BlockOf(Behind))
    /\ pc = "loop" /\ busy => addr = 0
    /\ pc = "return" /\ ret = 0 => detected /\ ~busy /\ BehindHeaderErased(Total)
(* While it goes on: a device that is busy is so with the refused write.    *)
UploadInv ==
  Uploading =>
    /\ detected /\ flash_offset = Block /\ flash_last_addr <= Len(FirmwareImage)
    /\ acked \subseteq 1 .. flash_last_addr
    /\ Programmable
    /\ busy /\ ~skipped => refused # << >> /\ FirstChunkInPlace
WriteInv ==
  call.op = "write" =>
    /\ status = "IN_PROGRESS" /\ refused # << >> /\ refused[1] + refused[2] <= flash_last_addr
    /\ Running =>
         /\ call.end = Block + refused[1] + refused[2] /\ addr >= Block + refused[1]
         /\ \A j \in 1 .. Len(call.data) : call.data[j] = FirmwareImage[addr - Block + j]
         /\ ~skipped =>
              /\ \A p \in refused[1] + 1 .. Behind - Block : InPlace(p)
              /\ pc = "wait" \/ addr # Block + refused[1] => FirstChunkInPlace
    /\ pc = "loop" /\ busy => addr = Block + refused[1]
    /\ pc = "return" /\ ret = 0 /\ ~skipped =>
         ~busy /\ \A p \in refused[1] + 1 .. refused[1] + refused[2] : InPlace(p)
VerifyInv ==
  call.op = "verify" =>
    /\ status = "IN_PROGRESS"
    /\ pc = "read" =>
         /\ call.end = Block + flash_last_addr - 2 /\ addr = Block + Len(hashed)
         /\ hashed # << >> => addr <= call.end
         /\ \A i \in 1 .. Len(hashed) : hashed[i] = Place(i) \/ (hashed[i] = F!Erased /\ (skipped \/ refused # << >>))
    /\ pc = "return" /\ ret = 0 => \A p \in Positions : InPlace(p)
ActivateInv ==
  /\ call.op = "activate" => status = "VERIFIED" /\ (Running => call.end = 1)
  /\ call.op = "clear" => status = "NO_UPGRADE" /\ acked = {}
(* The device is used by the development commands.                          *)
Commanded == part = "flash commands"
CommandInv ==
  /\ Commanded =>
       status = "NO_UPGRADE" /\ acked = {} /\ call.op \in {"none", "program", "erase"}
  /\ call.op \in {"program", "erase"} => Commanded
ImageInv ==
  /\ Basics /\ RangeOfCall
  /\ StartInv /\ UploadInv /\ WriteInv /\ VerifyInv /\ ActivateInv /\ CommandInv
  /\ UploadIsInPlace /\ VerifiesExactlyTheImage
(* Blocks and pages.                                                        *)

LEMMA DivMod ==
  ASSUME NEW n \in Nat, NEW d \in Nat, d > 0
  PROVE  /\ n \div d \in Nat /\ n % d \in 0 .. d - 1
         /\ n = (d * (n \div d)) + (n % d)
  BY SMT

LEMMA OneQuotient ==
  ASSUME NEW n \in Nat, NEW d \in Nat, d > 0, NEW q \in Nat, NEW r \in 0 .. d - 1, n = (d * q) + r
  PROVE  n \div d = q /\ n % d = r
  BY SMT

LEMMA DivMonotone ==
  ASSUME NEW m \in Nat, NEW n \in Nat, m <= n, NEW d \in Nat, d > 0
  PROVE  m \div d <= n \div d
  BY SMT

LEMMA DivNext ==
  ASSUME NEW a \in Nat, NEW d \in Nat, d > 0
  PROVE  (a + d) \div d = (a \div d) + 1 /\ (a + d) % d = a % d
  <1>1. a + d = (d * ((a \div d) + 1)) + (a % d)
    BY DivMod, SMT
  <1> QED BY <1>1, DivMod, OneQuotient, SMT

LEMMA DivAligned ==
  ASSUME NEW a \in Nat, NEW e \in Nat, NEW d \in Nat, d > 0, a % d = 0, e < a
  PROVE  e \div d < a \div d
  BY DivMod, SMT

LEMMA AlignedStep ==
  ASSUME NEW a \in Nat, NEW t \in Nat, NEW d \in Nat, d > 0, a % d = 0, t % d = 0, a < t
  PROVE  a + d <= t
  <1> DEFINE k == a \div d
             l == t \div d
  <1>1. k \in Nat /\ l \in Nat /\ a = d * k /\ t = d * l
    BY DivMod, SMT
  <1> HIDE DEF k, l
  <1>2. \A p, q \in Nat : p <= q => d * p <= d * q
    BY SMT
  <1>3. k + 1 <= l
    BY <1>1, <1>2, SMT
  <1>4. d * (k + 1) <= d * l
    BY <1>1, <1>2, <1>3, SMT
  <1>5. d * (k + 1) = (d * k) + d
    BY <1>1, SMT
  <1> QED BY <1>1, <1>4, <1>5, SMT

LEMMA DivPositive ==
  ASSUME NEW x \in Nat, NEW d \in Nat, d > 0
  PROVE  (x >= d) <=> (x \div d >= 1)
  BY DivMod, SMT

LEMMA ModInside ==
  ASSUME NEW a \in Nat, NEW d \in Nat, d > 0, NEW j \in Nat, (a % d) + j < d
  PROVE  (a + j) % d = (a % d) + j
  <1>1. a + j = (d * (a \div d)) + ((a % d) + j)
    BY DivMod, SMT
  <1> QED BY <1>1, DivMod, OneQuotient, SMT
-----------------------------------------------------------------------------
(* The device.                                                              *)

LEMMA Sizes ==
  ASSUME F!SpiFlashAssumption
  PROVE  /\ Total \in Nat /\ Block \in Nat /\ Page \in Nat /\ Retries \in Nat /\ Chunk \in Nat
         /\ Total > 0 /\ Block > 1 /\ Page > 0 /\ Retries > 0 /\ Chunk > 0
         /\ Total % Block = 0 /\ Block % Page = 0
         /\ AddrMod \in Nat /\ FirmwareStart \in Nat /\ AddrMod > FirmwareStart + Total
         /\ FirmwareImage \in Seq(SUBSET Bits) /\ Len(FirmwareImage) > 2
         /\ Block + Len(FirmwareImage) <= Total
  BY SMT DEF F!SpiFlashAssumption

LEMMA EraseBlockIs ==
  ASSUME F!SpiFlashAssumption, NEW a \in F!Addresses, NEW m
  PROVE  F!EraseBlock(m, a) =
           [x \in F!Addresses |-> IF BlockOf(x) = BlockOf(a) THEN F!Erased ELSE m[x]]
  <1>0. a \in Nat /\ Total \in Nat /\ a < Total
    BY Sizes, SMT DEF F!Addresses
  <1>1. a % Total = a
    BY <1>0, SMT
  <1>2. \A x \in F!Addresses : (x \in F!BlockAt(a)) <=> (BlockOf(x) = BlockOf(a))
    BY <1>1, Zenon DEF F!BlockAt, BlockOf
  <1> QED BY <1>2, Zenon DEF F!EraseBlock

(* The blocks of a range of addresses.                                      *)
LEMMA EraseRange ==
  ASSUME F!SpiFlashAssumption, NEW first \in F!Addresses, NEW last \in F!Addresses, first <= last,
         NEW x \in F!Addresses
  PROVE  (x \in UNION {F!BlockAt(y) : y \in first .. last})
           <=> (BlockOf(x) \in BlockOf(first) .. BlockOf(last))
  <1>1. /\ first \in Nat /\ last \in Nat /\ x \in Nat /\ Block \in Nat /\ Block > 0
        /\ Total \in Nat /\ last < Total
    BY Sizes, SMT DEF F!Addresses
  <1>2. BlockOf(first) \in Nat /\ BlockOf(last) \in Nat /\ BlockOf(x) \in Nat
    BY <1>1, DivMod, SMT DEF BlockOf
  <1>3. \A y \in first .. last : (x \in F!BlockAt(y)) <=> (BlockOf(x) = BlockOf(y))
    <2> TAKE y \in first .. last
    <2>1. y \in Nat /\ y < Total
      BY <1>1, SMT
    <2>2. y % Total = y
      BY <1>1, <2>1, SMT
    <2> QED BY <2>2, Zenon DEF F!BlockAt, BlockOf
  <1>4. ASSUME NEW y \in first .. last, BlockOf(x) = BlockOf(y)
        PROVE  BlockOf(x) \in BlockOf(first) .. BlockOf(last)
    <2>1. y \in Nat /\ first <= y /\ y <= last
      BY <1>1, SMT
    <2>2. first \div Block <= y \div Block /\ y \div Block <= last \div Block
      BY <1>1, <2>1, DivMonotone, SMT
    <2> QED BY <1>2, <1>4, <2>2, SMT DEF BlockOf
  <1>5. ASSUME BlockOf(x) \in BlockOf(first) .. BlockOf(last)
        PROVE  \E y \in first .. last : BlockOf(x) = BlockOf(y)
    <2>1. CASE x < first
      <3>1. x \div Block <= first \div Block
        BY <1>1, <2>1, DivMonotone, SMT
      <3>2. BlockOf(x) = BlockOf(first)
        BY <1>2, <1>5, <3>1, SMT DEF BlockOf
      <3> QED BY <1>1, <3>2, SMT
    <2>2. CASE x > last
      <3>1. last \div Block <= x \div Block
        BY <1>1, <2>2, DivMonotone, SMT
      <3>2. BlockOf(x) = BlockOf(last)
        BY <1>2, <1>5, <3>1, SMT DEF BlockOf
      <3> QED BY <1>1, <3>2, SMT
    <2>3. CASE x \in first .. last
      BY <2>3
    <2> QED BY <1>1, <2>1, <2>2, <2>3, SMT
  <1>6. (x \in UNION {F!BlockAt(y) : y \in first .. last}) <=> \E y \in first .. last : x \in F!BlockAt(y)
    BY Zenon
  <1> QED BY <1>3, <1>4, <1>5, <1>6, Zenon

(* Bytes that do not cross the end of their page are programmed in place.   *)
LEMMA PageProgramIs ==
  ASSUME F!SpiFlashAssumption, NEW m \in [F!Addresses -> SUBSET Bits],
         NEW bytes \in Seq(SUBSET Bits), NEW a \in F!Addresses,
         a + Len(bytes) <= Total, Len(bytes) <= Page - (a % Page)
  PROVE  F!PageProgram(m, a, bytes) =
           [x \in F!Addresses |->
              IF x \in a .. a + Len(bytes) - 1 THEN m[x] \cap bytes[x - a + 1] ELSE m[x]]
  <1>1. a \in Nat /\ Page \in Nat /\ Page > 0 /\ Total \in Nat /\ a < Total /\ Len(bytes) \in Nat
    BY Sizes, SMT DEF F!Addresses
  <1>2. a % Total = a
    BY <1>1, SMT
  <1>3. a % Page \in Nat
    BY <1>1, DivMod, SMT
  <1> DEFINE base == (a % Total) - (a % Page)
             Here(x) == {i \in 1 .. Len(bytes) : base + ((a + i - 1) % Page) = x}
  <1>4. ASSUME NEW i \in 1 .. Len(bytes) PROVE base + ((a + i - 1) % Page) = a + i - 1
    <2>1. i - 1 \in Nat /\ (a % Page) + (i - 1) < Page /\ a + i - 1 = a + (i - 1)
      BY <1>1, <1>3, SMT
    <2>2. (a + (i - 1)) % Page = (a % Page) + (i - 1)
      <3> DEFINE j == i - 1
      <3>1. j \in Nat /\ (a % Page) + j < Page
        BY <2>1
      <3> HIDE DEF j
      <3>2. (a + j) % Page = (a % Page) + j
        BY <1>1, <3>1, ModInside, Zenon
      <3> QED BY <3>2, Zenon DEF j
    <2> QED BY <1>1, <1>2, <1>3, <2>1, <2>2, SMT
  <1>5. \A x \in F!Addresses : Here(x) = {i \in 1 .. Len(bytes) : a + i - 1 = x}
    BY <1>4, Zenon
  <1> HIDE DEF base
  <1>6. ASSUME NEW x \in F!Addresses
        PROVE  {b \in m[x] : \A i \in Here(x) : b \in bytes[i]} =
                 IF x \in a .. a + Len(bytes) - 1 THEN m[x] \cap bytes[x - a + 1] ELSE m[x]
    <2>0. x \in Int
      BY <1>1, SMT DEF F!Addresses
    <2>1. CASE x \in a .. a + Len(bytes) - 1
      <3>1. Here(x) = {x - a + 1}
        <4>1. x - a + 1 \in 1 .. Len(bytes)
          BY <1>1, <2>0, <2>1, SMT
        <4>2. \A i \in 1 .. Len(bytes) : (a + i - 1 = x) <=> (i = x - a + 1)
          BY <1>1, <2>0, SMT
        <4>3. Here(x) = {i \in 1 .. Len(bytes) : a + i - 1 = x}
          BY <1>5, Zenon
        <4> HIDE DEF Here
        <4>4. \A i : i \in Here(x) <=> i = x - a + 1
          BY <4>1, <4>2, <4>3, Zenon
        <4> QED BY <4>4, Zenon
      <3> HIDE DEF Here
      <3> QED BY <2>1, <3>1, Zenon
    <2>2. CASE x \notin a .. a + Len(bytes) - 1
      <3>1. Here(x) = {}
        BY <1>1, <1>5, <2>0, <2>2, SMT
      <3> HIDE DEF Here
      <3> QED BY <2>2, <3>1, Zenon
    <2> QED BY <2>1, <2>2, Zenon
  <1>7. F!PageProgram(m, a, bytes) =
          [x \in F!Addresses |-> {b \in m[x] : \A i \in Here(x) : b \in bytes[i]}]
    BY Zenon DEF F!PageProgram, base
  <1> HIDE DEF Here
  <1> QED BY <1>6, <1>7, Zenon
-----------------------------------------------------------------------------
(* The driver's calls.                                                      *)

LEMMA CallFields ==
  ASSUME F!SpiFlashAssumption, CallTypes
  PROVE  /\ call.op \in F!Operations /\ call.end \in Nat /\ call.end < AddrMod
         /\ call.data \in Seq(SUBSET Bits) /\ Len(call.data) \in Nat
         /\ addr \in Nat /\ addr < AddrMod /\ retries \in Nat /\ retries <= Retries
         /\ hashed \in Seq(SUBSET Bits) /\ Len(hashed) \in Nat
  <1>1. /\ call.op \in F!Operations /\ call.end \in 0 .. AddrMod - 1
        /\ call.data \in Seq(SUBSET Bits)
    BY Zenon DEF CallTypes
  <1>2. /\ addr \in 0 .. AddrMod - 1 /\ retries \in 0 .. Retries /\ hashed \in Seq(SUBSET Bits)
    BY Zenon DEF CallTypes
  <1>3. Len(call.data) \in Nat /\ Len(hashed) \in Nat
    BY <1>1, <1>2, SMT
  <1>4. AddrMod \in Nat /\ Retries \in Nat
    BY Sizes, Zenon
  <1>5. call.end \in Nat /\ call.end < AddrMod
    BY <1>1, <1>4, SMT
  <1>6. addr \in Nat /\ addr < AddrMod /\ retries \in Nat /\ retries <= Retries
    BY <1>2, <1>4, SMT
  <1> QED BY <1>1, <1>2, <1>3, <1>5, <1>6, Zenon

(* What is left of a page, or of the data.                                  *)
LEMMA ChunkIs ==
  ASSUME F!SpiFlashAssumption, CallTypes, addr < call.end
  PROVE  /\ F!ProgramChunk \in 1 .. call.end - addr
         /\ F!ProgramChunk <= Page - (addr % Page)
         /\ F!ProgramChunk = call.end - addr \/ F!ProgramChunk = Page - (addr % Page)
  <1>1. addr \in Nat /\ call.end \in Nat /\ Page \in Nat /\ Page > 0
    BY Sizes, CallFields, SMT
  <1>2. addr % Page \in 0 .. Page - 1
    BY <1>1, DivMod, SMT
  <1> QED BY <1>1, <1>2, SMT DEF F!ProgramChunk

Began(op, a, end, data) ==
  /\ call' = [op |-> op, end |-> end, data |-> data] /\ addr' = a /\ ret' = -1
  /\ pc' = (IF detected' THEN "loop" ELSE "return")
  /\ ready' = ~busy /\ UNCHANGED <<mem, busy, retries, hashed>>

LEMMA BeginTypes ==
  ASSUME F!SpiFlashAssumption, CallTypes, detected' \in BOOLEAN,
         NEW op \in F!Operations, NEW a \in 0 .. AddrMod - 1, NEW end \in 0 .. AddrMod - 1,
         NEW data \in Seq(SUBSET Bits), NEW later \in [F!Addresses -> SUBSET Bits],
         F!Begin(op, a, end, data, later)
  PROVE  CallTypes' /\ Began(op, a, end, data) /\ promised' = later
  <1>1. Began(op, a, end, data) /\ promised' = later
    BY Zenon DEF F!Begin, F!device, Began
  <1>2. call' \in [op : F!Operations, end : 0 .. AddrMod - 1, data : Seq(SUBSET Bits)]
    BY <1>1, SMT DEF Began
  <1>3. ready' \in BOOLEAN
    BY <1>1, Zenon DEF Began
  <1>4. pc' \in {"idle", "loop", "wait", "read", "return"} /\ ret' \in {0, -1}
    BY <1>1, SMT DEF Began
  <1> QED BY <1>1, <1>2, <1>3, <1>4, Zenon DEF Began, CallTypes, F!Addresses, F!Operations

LEMMA ProgramBegins ==
  ASSUME F!SpiFlashAssumption, CallTypes, detected' \in BOOLEAN,
         NEW op \in {"write", "program", "activate"}, NEW a \in Nat, NEW data \in Seq(SUBSET Bits),
         a + Len(data) <= Total, F!spi_flash_program(op, a, data)
  PROVE  /\ CallTypes' /\ Began(op, a, a + Len(data), data)
         /\ promised' = [x \in F!Addresses |-> IF x \in a .. a + Len(data) - 1
                                               THEN mem[x] \cap data[x - a + 1] ELSE mem[x]]
  <1>1. /\ Len(data) \in Nat /\ a \in 0 .. AddrMod - 1 /\ op \in F!Operations
        /\ a + Len(data) \in 0 .. AddrMod - 1 /\ AddrMod \in Nat /\ AddrMod > 0
    BY Sizes, SMT DEF F!Operations
  <1>2. (a + Len(data)) % AddrMod = a + Len(data)
    BY <1>1, SMT
  <1> DEFINE later == [x \in F!Addresses |-> IF x \in a .. a + Len(data) - 1
                                             THEN mem[x] \cap data[x - a + 1] ELSE mem[x]]
  <1>3. later \in [F!Addresses -> SUBSET Bits]
    BY Zenon DEF CallTypes
  <1>4. F!Begin(op, a, a + Len(data), data, later)
    BY <1>2, Zenon DEF F!spi_flash_program
  <1> HIDE DEF later
  <1>5. CallTypes' /\ Began(op, a, a + Len(data), data) /\ promised' = later
    BY <1>1, <1>3, <1>4, BeginTypes, Zenon
  <1> QED BY <1>5, Zenon DEF later

LEMMA EraseBegins ==
  ASSUME F!SpiFlashAssumption, CallTypes, detected' \in BOOLEAN,
         NEW op \in {"start", "erase", "clear"}, NEW a \in Nat, NEW len \in Int, len # 0,
         a % Block = 0, a + len <= Total, F!spi_flash_erase(op, a, len)
  PROVE  /\ CallTypes'
         /\ \E first, last \in F!Addresses :
              /\ first <= last /\ first % Block = 0 /\ Began(op, first, last, << >>)
              /\ len < 0 => first = 0 /\ last = Total - 1
              /\ promised' = [x \in F!Addresses |->
                   IF BlockOf(x) \in BlockOf(first) .. BlockOf(last) THEN F!Erased ELSE mem[x]]
  <1> DEFINE first == IF len < 0 THEN 0 ELSE a
             last == IF len < 0 THEN Total - 1 ELSE a + len - 1
  <1>1. /\ AddrMod \in Nat /\ AddrMod > Total /\ Total \in Nat /\ Total > 0
        /\ Block \in Nat /\ Block > 0
    BY Sizes, SMT
  <1>2. first \in F!Addresses /\ last \in F!Addresses /\ first <= last
    BY <1>1, SMT DEF F!Addresses
  <1>3. first % Block = 0
    BY <1>1, SMT
  <1>4. last = IF len < 0 THEN Total - 1 ELSE (a + len - 1) % AddrMod
    <2>1. CASE len < 0
      BY <2>1
    <2>2. CASE ~(len < 0)
      <3>1. a + len - 1 \in Nat /\ a + len - 1 < AddrMod
        BY <1>1, <2>2, SMT
      <3>2. (a + len - 1) % AddrMod = a + len - 1
        BY <1>1, <3>1, SMT
      <3> QED BY <2>2, <3>2, Zenon
    <2> QED BY <2>1, <2>2
  <1> DEFINE later == [x \in F!Addresses |-> IF x \in UNION {F!BlockAt(y) : y \in first .. last}
                                             THEN F!Erased ELSE mem[x]]
             inBlocks == [x \in F!Addresses |-> IF BlockOf(x) \in BlockOf(first) .. BlockOf(last)
                                                THEN F!Erased ELSE mem[x]]
  <1>5. F!Begin(op, first, last, << >>, later)
    BY <1>4, Zenon DEF F!spi_flash_erase
  <1>6. len < 0 => first = 0 /\ last = Total - 1
    BY Zenon
  <1> HIDE DEF first, last
  <1>7. later = inBlocks
    BY <1>2, EraseRange, Zenon
  <1>8. F!Erased \in SUBSET Bits
    BY DEF F!Erased
  <1>9. inBlocks \in [F!Addresses -> SUBSET Bits]
    BY <1>8, Zenon DEF CallTypes
  <1> HIDE DEF later, inBlocks
  <1>10. << >> \in Seq(SUBSET Bits) /\ op \in F!Operations
    BY SMT DEF F!Operations
  <1>11. first \in 0 .. AddrMod - 1 /\ last \in 0 .. AddrMod - 1
    BY <1>1, <1>2, SMT DEF F!Addresses
  <1>12. CallTypes' /\ Began(op, first, last, << >>) /\ promised' = inBlocks
    BY <1>5, <1>7, <1>9, <1>10, <1>11, BeginTypes, Zenon
  <1> QED BY <1>2, <1>3, <1>6, <1>12, Zenon DEF inBlocks
-----------------------------------------------------------------------------
(* One step of a call.                                                      *)

LEMMA Kinds ==
  ASSUME CallTypes
  PROVE  /\ F!IsErase <=> call.op \in {"start", "erase", "clear"}
         /\ F!IsErase => ~Programs
         /\ Programs => ~F!IsErase
  BY DEF F!IsErase, Programs

LEMMA RangeIs ==
  ASSUME F!SpiFlashAssumption, Basics, RangeOfCall, Running, F!More
  PROVE  /\ addr \in F!Addresses /\ addr \in Nat /\ F!Step \in Nat /\ F!Step > 0
         /\ addr + F!Step \in Nat /\ addr + F!Step <= Total /\ addr + F!Step < AddrMod
         /\ F!IsErase => F!Step = Block /\ addr <= call.end
         /\ Programs => /\ F!Step = F!ProgramChunk /\ addr < call.end
                        /\ addr + Len(call.data) = call.end /\ call.end <= Total
                        /\ F!ProgramChunk \in 1 .. Len(call.data)
                        /\ F!ProgramChunk <= Page - (addr % Page)
                        /\ F!ProgramChunk = Len(call.data) \/ F!ProgramChunk = Page - (addr % Page)
  <1>1. CallTypes /\ (F!IsErase \/ Programs)
    BY Zenon DEF Basics
  <1>2. /\ addr \in Nat /\ call.end \in Nat /\ Len(call.data) \in Nat
        /\ call.data \in Seq(SUBSET Bits)
    BY <1>1, CallFields, Zenon
  <1>3. /\ Total \in Nat /\ AddrMod \in Nat /\ Block \in Nat /\ Block > 1 /\ Total % Block = 0
        /\ AddrMod > FirmwareStart + Total /\ FirmwareStart \in Nat
    BY Sizes, Zenon
  <1>4. CASE F!IsErase
    <2>1. F!Step = Block /\ addr <= call.end /\ ~Programs
      BY <1>1, <1>4, Kinds, Zenon DEF F!Step, F!More
    <2>2. addr % Block = 0 /\ addr <= Total /\ call.end < Total
      BY <1>4, Zenon DEF RangeOfCall
    <2>3. addr < Total
      BY <1>2, <1>3, <2>1, <2>2, SMT
    <2>4. Block > 0
      BY <1>3, SMT
    <2>5. addr + Block <= Total
      BY <1>2, <1>3, <2>2, <2>3, <2>4, AlignedStep, Zenon
    <2>6. addr \in F!Addresses
      BY <1>2, <1>3, <2>3, SMT DEF F!Addresses
    <2>7. Block \in Nat /\ Block > 0 /\ addr + Block \in Nat /\ addr + Block < AddrMod
      BY <1>2, <1>3, <2>5, SMT
    <2> QED BY <1>2, <2>1, <2>5, <2>6, <2>7, Zenon
  <1>5. CASE Programs
    <2>1. F!Step = F!ProgramChunk /\ addr < call.end /\ ~F!IsErase
      BY <1>1, <1>5, Kinds, Zenon DEF F!Step, F!More
    <2>2. addr + Len(call.data) = call.end /\ call.end <= Total
      BY <1>5, Zenon DEF RangeOfCall
    <2>3. /\ F!ProgramChunk \in 1 .. call.end - addr
          /\ F!ProgramChunk <= Page - (addr % Page)
          /\ F!ProgramChunk = call.end - addr \/ F!ProgramChunk = Page - (addr % Page)
      BY <1>1, <2>1, ChunkIs, Zenon
    <2>4. call.end - addr = Len(call.data)
      BY <1>2, <2>2, SMT
    <2>5. /\ F!ProgramChunk \in Nat /\ F!ProgramChunk > 0
          /\ addr + F!ProgramChunk \in Nat /\ addr + F!ProgramChunk <= Total
          /\ addr + F!ProgramChunk < AddrMod
      BY <1>2, <1>3, <2>2, <2>3, SMT
    <2>6. addr \in F!Addresses
      BY <1>2, <1>3, <2>1, <2>2, SMT DEF F!Addresses
    <2> QED BY <1>2, <2>1, <2>2, <2>3, <2>4, <2>5, <2>6, Zenon
  <1> QED BY <1>1, <1>4, <1>5

(* The rest of the state.                                                   *)
Rest == <<status, flash_last_addr, flash_offset, promised, ready, acked, refused, skipped>>

LEMMA SendIs ==
  ASSUME F!SpiFlashAssumption, Basics, RangeOfCall, F!SendCommand
  PROVE  /\ Basics' /\ RangeOfCall' /\ Running /\ F!More /\ pc = "loop" /\ pc' = "wait" /\ busy' = TRUE
         /\ UNCHANGED <<detected, ret, call, addr, hashed, Rest>>
         /\ Behind = addr /\ Behind' = addr + F!Step
         /\ busy => mem' = mem
         /\ ~busy /\ F!IsErase =>
              mem' = [x \in F!Addresses |-> IF BlockOf(x) = BlockOf(addr) THEN F!Erased ELSE mem[x]]
         /\ ~busy /\ Programs =>
              mem' = [x \in F!Addresses |-> IF x \in addr .. addr + F!ProgramChunk - 1
                                            THEN mem[x] \cap call.data[x - addr + 1] ELSE mem[x]]
  <1>1. /\ pc = "loop" /\ F!More /\ pc' = "wait" /\ retries' = Retries /\ busy' = TRUE
        /\ mem' = IF busy THEN mem
                  ELSE IF F!IsErase THEN F!EraseBlock(mem, addr)
                  ELSE F!PageProgram(mem, addr, SubSeq(call.data, 1, F!ProgramChunk))
        /\ UNCHANGED <<detected, ret, call, addr, hashed, Rest>>
    BY Zenon DEF F!SendCommand, F!upgrade, F!upload, Rest
  <1>2. Running /\ CallTypes /\ (F!IsErase \/ Programs)
    BY <1>1, Zenon DEF Running, Basics
  <1>3. /\ addr \in F!Addresses /\ addr \in Nat /\ addr + F!Step <= Total
        /\ Programs => /\ F!Step = F!ProgramChunk /\ call.end <= Total
                       /\ F!ProgramChunk \in 1 .. Len(call.data)
                       /\ F!ProgramChunk <= Page - (addr % Page)
    BY <1>1, <1>2, RangeIs, Zenon
  <1>4. /\ mem \in [F!Addresses -> SUBSET Bits] /\ call.data \in Seq(SUBSET Bits)
        /\ Len(call.data) \in Nat
    BY <1>2, CallFields, Zenon DEF CallTypes
  <1>5. ASSUME F!IsErase
        PROVE  F!EraseBlock(mem, addr) =
                 [x \in F!Addresses |-> IF BlockOf(x) = BlockOf(addr) THEN F!Erased ELSE mem[x]]
    BY <1>3, EraseBlockIs, Zenon
  <1>6. ASSUME Programs
        PROVE  F!PageProgram(mem, addr, SubSeq(call.data, 1, F!ProgramChunk)) =
                 [x \in F!Addresses |-> IF x \in addr .. addr + F!ProgramChunk - 1
                                        THEN mem[x] \cap call.data[x - addr + 1] ELSE mem[x]]
    <2> DEFINE c == F!ProgramChunk
               bytes == SubSeq(call.data, 1, c)
    <2>1. c \in 1 .. Len(call.data) /\ c <= Page - (addr % Page) /\ addr + c <= Total
      BY <1>3, <1>6, Zenon
    <2> HIDE DEF c
    <2>2. /\ bytes \in Seq(SUBSET Bits) /\ Len(bytes) = c
          /\ \A j \in 1 .. c : bytes[j] = call.data[j]
      BY <1>4, <2>1, SMT
    <2> HIDE DEF bytes
    <2>3. F!PageProgram(mem, addr, bytes) =
            [x \in F!Addresses |-> IF x \in addr .. addr + Len(bytes) - 1
                                   THEN mem[x] \cap bytes[x - addr + 1] ELSE mem[x]]
      BY <1>3, <1>4, <2>1, <2>2, PageProgramIs, Zenon
    <2>4. \A x \in addr .. addr + c - 1 : x - addr + 1 \in 1 .. c
      BY <1>3, <1>4, <2>1, SMT
    <2>5. \A x \in addr .. addr + c - 1 : bytes[x - addr + 1] = call.data[x - addr + 1]
      BY <2>2, <2>4, Zenon
    <2>6. F!PageProgram(mem, addr, bytes) =
            [x \in F!Addresses |-> IF x \in addr .. addr + c - 1
                                   THEN mem[x] \cap call.data[x - addr + 1] ELSE mem[x]]
      BY <2>2, <2>3, <2>5, Zenon
    <2> QED BY <2>6, Zenon DEF bytes, c
  <1>7. /\ busy => mem' = mem
        /\ ~busy /\ F!IsErase =>
             mem' = [x \in F!Addresses |-> IF BlockOf(x) = BlockOf(addr) THEN F!Erased ELSE mem[x]]
        /\ ~busy /\ Programs =>
             mem' = [x \in F!Addresses |-> IF x \in addr .. addr + F!ProgramChunk - 1
                                           THEN mem[x] \cap call.data[x - addr + 1] ELSE mem[x]]
    <2>1. Programs => ~F!IsErase
      BY <1>2, Kinds, Zenon
    <2> QED BY <1>1, <1>5, <1>6, <2>1, Zenon
  <1>8. mem' \in [F!Addresses -> SUBSET Bits]
    <2>1. F!Erased \in SUBSET Bits
      BY Zenon DEF F!Erased
    <2>2. \A x \in F!Addresses : mem[x] \in SUBSET Bits
      BY <1>4, Zenon
    <2>3. CASE busy
      BY <1>4, <1>7, <2>3, Zenon
    <2>4. CASE ~busy /\ F!IsErase
      BY <1>7, <2>1, <2>2, <2>4, Zenon
    <2>5. CASE ~busy /\ Programs
      <3> DEFINE b(x) == IF x \in addr .. addr + F!ProgramChunk - 1
                         THEN mem[x] \cap call.data[x - addr + 1] ELSE mem[x]
      <3>1. \A x \in F!Addresses : b(x) \in SUBSET Bits
        BY <2>2, Zenon
      <3>2. mem' = [x \in F!Addresses |-> b(x)]
        BY <1>7, <2>5, Zenon
      <3> HIDE DEF b
      <3> QED BY <3>1, <3>2, Zenon
    <2> QED BY <1>2, <2>3, <2>4, <2>5, Zenon
  <1>9. Behind = addr /\ Behind' = addr + F!Step
    <2>1. F!Step' = F!Step
      BY <1>1, Zenon DEF F!Step, F!IsErase, F!ProgramChunk
    <2> QED BY <1>1, <2>1, Zenon DEF Behind
  <1>10. CallTypes'
    <2>1. busy' \in BOOLEAN
      BY <1>1, Zenon
    <2>2. detected' \in BOOLEAN /\ ready' \in BOOLEAN
      BY <1>1, <1>2, Zenon DEF CallTypes, Rest
    <2>3. retries' \in 0 .. Retries /\ pc' \in {"idle", "loop", "wait", "read", "return"}
      BY <1>1, Sizes, SMT
    <2> QED BY <1>1, <1>2, <1>8, <2>1, <2>2, <2>3, Zenon DEF CallTypes, Rest, F!Addresses, F!Operations
  <1>11. Basics'
    <2>1. UploadTypes'
      BY <1>1, Zenon DEF UploadTypes, Basics, Rest
    <2>2. retries' > 0
      BY <1>1, Sizes, SMT
    <2>3. F!More' /\ (F!IsErase \/ Programs)' /\ detected'
      BY <1>1, <1>2, Zenon DEF F!More, F!IsErase, Programs, Basics
    <2>4. call'.op # "none"
      BY <1>1, Zenon DEF Basics
    <2> QED BY <1>1, <1>10, <2>1, <2>2, <2>3, <2>4, Zenon DEF Basics, Running
  <1>12. RangeOfCall'
    BY <1>1, <1>2, Zenon DEF RangeOfCall, Running, Programs, F!IsErase
  <1> QED BY <1>1, <1>2, <1>7, <1>9, <1>11, <1>12, Zenon

LEMMA EndIs ==
  ASSUME F!SpiFlashAssumption, Basics, RangeOfCall, F!LoopEnds
  PROVE  /\ Basics' /\ RangeOfCall' /\ Running /\ pc = "loop" /\ pc' = "return" /\ ret' = 0
         /\ UNCHANGED <<mem, busy, detected, call, addr, hashed, Rest>>
         /\ F!IsErase => addr % Block = 0 /\ call.end < addr /\ addr <= Total /\ call.end \in Nat
         /\ Programs => addr = call.end /\ Len(call.data) = 0
         /\ Behind = addr /\ addr \in Nat /\ (F!IsErase \/ Programs)
  <1>1. /\ pc = "loop" /\ ~F!More /\ pc' = "return" /\ ret' = 0
        /\ UNCHANGED <<mem, busy, detected, call, addr, retries, hashed, Rest>>
    BY Zenon DEF F!LoopEnds, F!device, F!driver, F!upgrade, F!upload, Rest
  <1>2. Running /\ CallTypes /\ (F!IsErase \/ Programs)
    BY <1>1, Zenon DEF Running, Basics
  <1>3. addr \in Nat /\ call.end \in Nat /\ Len(call.data) \in Nat
    BY <1>2, CallFields, Zenon
  <1>4. F!IsErase => addr % Block = 0 /\ call.end < addr /\ addr <= Total
    <2> SUFFICES ASSUME F!IsErase PROVE addr % Block = 0 /\ call.end < addr /\ addr <= Total
      OBVIOUS
    <2>1. ~(addr <= call.end)
      BY <1>1, Zenon DEF F!More
    <2>2. addr % Block = 0 /\ addr <= Total
      BY <1>2, Zenon DEF RangeOfCall
    <2>3. call.end < addr
      BY <1>3, <2>1, SMT
    <2> QED BY <2>2, <2>3
  <1>5. Programs => addr = call.end /\ Len(call.data) = 0
    <2> SUFFICES ASSUME Programs PROVE addr = call.end /\ Len(call.data) = 0
      OBVIOUS
    <2>1. ~(addr < call.end)
      BY <1>1, <1>2, Kinds, Zenon DEF F!More
    <2>2. addr + Len(call.data) = call.end
      BY <1>2, Zenon DEF RangeOfCall
    <2> QED BY <1>3, <2>1, <2>2, SMT
  <1>6. Basics'
    <2>1. CallTypes'
      <3>1. pc' \in {"idle", "loop", "wait", "read", "return"} /\ ret' \in {0, -1}
        BY <1>1, SMT
      <3>2. UNCHANGED <<mem, promised, busy, detected, ready, addr, retries, call, hashed>>
        BY <1>1, Zenon DEF Rest
      <3> QED BY <1>2, <3>1, <3>2, Zenon DEF CallTypes, F!Addresses, F!Operations
    <2>2. UploadTypes'
      BY <1>1, Zenon DEF UploadTypes, Basics, Rest
    <2>3. call'.op # "none"
      BY <1>1, Zenon DEF Basics
    <2> QED BY <1>1, <2>1, <2>2, <2>3, Zenon DEF Basics, Running
  <1>7. RangeOfCall'
    BY <1>1, Zenon DEF RangeOfCall, Running
  <1>8. Behind = addr
    BY <1>1, Zenon DEF Behind
  <1> QED BY <1>1, <1>2, <1>3, <1>4, <1>5, <1>6, <1>7, <1>8, Zenon

(* A poll gives up, goes on, or lets the loop go on behind the command.     *)
GivesUp == pc' = "return" /\ ret' = -1 /\ UNCHANGED <<call, addr>>
PollsOn == pc' = "wait" /\ busy /\ UNCHANGED <<ret, call, addr>>
GoesOn ==
  /\ pc' = "loop" /\ ~busy /\ ret' = ret
  /\ addr' = addr + F!Step /\ Behind' = Behind
  /\ call'.op = call.op /\ call'.end = call.end
  /\ F!IsErase => call' = call
  /\ Programs => /\ Len(call'.data) = Len(call.data) - F!ProgramChunk
                 /\ \A j \in 1 .. Len(call'.data) : call'.data[j] = call.data[F!ProgramChunk + j]

LEMMA PollIs ==
  ASSUME F!SpiFlashAssumption, Basics, RangeOfCall, F!Poll
  PROVE  /\ Basics' /\ RangeOfCall' /\ Running /\ F!More /\ pc = "wait" /\ (F!IsErase \/ Programs)
         /\ UNCHANGED <<mem, busy, detected, hashed, Rest>>
         /\ GivesUp \/ PollsOn \/ GoesOn
         /\ PollsOn => Behind' = Behind
  <1>1. /\ pc = "wait" /\ retries' = retries - 1
        /\ UNCHANGED <<mem, busy, detected, hashed, Rest>>
    BY Zenon DEF F!Poll, F!PollsLeft, F!device, F!upgrade, F!upload, Rest
  <1>2. Running /\ CallTypes /\ (F!IsErase \/ Programs) /\ F!More /\ retries > 0 /\ UploadTypes
        /\ call.op # "none" /\ detected /\ call.op # "verify"
    BY <1>1, Zenon DEF Running, Basics, F!IsErase, Programs
  <1>3. /\ addr \in Nat /\ call.end \in Nat /\ Len(call.data) \in Nat /\ call.op \in F!Operations
        /\ call.data \in Seq(SUBSET Bits) /\ retries \in Nat /\ retries <= Retries
    BY <1>2, CallFields, Zenon
  <1>4. /\ F!Step \in Nat /\ F!Step > 0 /\ addr + F!Step <= Total
        /\ addr + F!Step \in Nat /\ addr + F!Step < AddrMod
        /\ F!IsErase => F!Step = Block /\ addr <= call.end
        /\ Programs => /\ F!Step = F!ProgramChunk /\ addr < call.end
                       /\ addr + Len(call.data) = call.end /\ call.end <= Total
                       /\ F!ProgramChunk \in 1 .. Len(call.data)
    BY <1>2, RangeIs, Zenon
  <1>5. retries' \in 0 .. Retries
    BY <1>1, <1>2, <1>3, Sizes, SMT
  <1>6. UploadTypes'
    BY <1>1, <1>2, Zenon DEF UploadTypes, Rest
  <1>7. UNCHANGED <<mem, promised, busy, detected, ready, hashed>>
    BY <1>1, Zenon DEF Rest
  <1>8. CASE F!TimedOut /\ GivesUp
    <2>1. pc' \in {"idle", "loop", "wait", "read", "return"} /\ ret' \in {0, -1}
      BY <1>8, SMT DEF GivesUp
    <2>2. UNCHANGED <<addr, call>> /\ pc' = "return"
      BY <1>8, Zenon DEF GivesUp
    <2>3. CallTypes'
      BY <1>2, <1>5, <1>7, <2>1, <2>2, Zenon DEF CallTypes, F!Addresses, F!Operations
    <2>4. Basics' /\ RangeOfCall'
      BY <1>2, <1>6, <2>2, <2>3, Zenon DEF Basics, RangeOfCall, Running
    <2>5. ~PollsOn
      BY <2>2, Zenon DEF PollsOn
    <2> QED BY <1>1, <1>2, <1>8, <2>4, <2>5, Zenon
  <1>9. CASE ~F!TimedOut /\ busy /\ UNCHANGED <<pc, ret, call, addr>>
    <2>1. UNCHANGED <<addr, call, pc, ret>> /\ pc' = "wait"
      BY <1>1, <1>9, Zenon
    <2>2. CallTypes'
      BY <1>2, <1>5, <1>7, <2>1, Zenon DEF CallTypes, F!Addresses, F!Operations
    <2>3. retries' > 0
      BY <1>1, <1>2, <1>3, <1>9, SMT DEF F!TimedOut, F!PollsLeft
    <2>4. F!More' /\ (F!IsErase \/ Programs)' /\ detected' /\ F!Step' = F!Step
      BY <1>2, <1>7, <2>1, Zenon DEF F!More, F!IsErase, Programs, F!Step, F!ProgramChunk
    <2>5. Basics'
      BY <1>1, <1>2, <1>6, <2>1, <2>2, <2>3, <2>4, Zenon DEF Basics, Running
    <2>6. RangeOfCall'
      BY <1>2, <2>1, Zenon DEF RangeOfCall, Running, Programs, F!IsErase
    <2>7. Behind' = Behind
      BY <2>1, <2>4, Zenon DEF Behind
    <2>8. PollsOn
      BY <1>9, <2>1, Zenon DEF PollsOn
    <2> QED BY <1>1, <1>2, <2>5, <2>6, <2>7, <2>8, Zenon
  <1>10. CASE /\ ~F!TimedOut /\ ~busy /\ pc' = "loop" /\ addr' = (addr + F!Step) % AddrMod
              /\ call' = IF F!IsErase THEN call
                         ELSE [call EXCEPT !.data = SubSeq(@, F!ProgramChunk + 1, Len(@))]
              /\ UNCHANGED ret
    <2>1. addr' = addr + F!Step
      <3>1. AddrMod \in Nat /\ AddrMod > 0
        BY Sizes, SMT
      <3>2. (addr + F!Step) % AddrMod = addr + F!Step
        BY <1>4, <3>1, SMT
      <3> QED BY <1>10, <3>2, Zenon
    <2>2. call \in [op : F!Operations, end : 0 .. AddrMod - 1, data : Seq(SUBSET Bits)]
      BY <1>2, Zenon DEF CallTypes
    <2>3. /\ call'.op = call.op /\ call'.end = call.end
          /\ call' \in [op : F!Operations, end : 0 .. AddrMod - 1, data : Seq(SUBSET Bits)]
          /\ F!IsErase => call' = call
          /\ Programs => call'.data = SubSeq(call.data, F!ProgramChunk + 1, Len(call.data))
      <3>1. CASE F!IsErase
        <4>1. call' = call /\ ~Programs
          BY <1>2, <1>10, <3>1, Kinds, Zenon
        <4> QED BY <2>2, <4>1, Zenon
      <3>2. CASE Programs
        <4> DEFINE d == SubSeq(call.data, F!ProgramChunk + 1, Len(call.data))
        <4>1. F!ProgramChunk \in 1 .. Len(call.data)
          BY <1>4, <3>2, Zenon
        <4>2. d \in Seq(SUBSET Bits)
          <5> DEFINE c == F!ProgramChunk
          <5> HIDE DEF c
          <5>1. c \in 1 .. Len(call.data) => SubSeq(call.data, c + 1, Len(call.data)) \in Seq(SUBSET Bits)
            BY <1>3, SMT
          <5> QED BY <4>1, <5>1, Zenon DEF c
        <4>3. call' = [call EXCEPT !.data = d] /\ ~F!IsErase
          BY <1>2, <1>10, <3>2, Kinds, Zenon
        <4> HIDE DEF d
        <4>4. call' = [op |-> call.op, end |-> call.end, data |-> d]
          BY <2>2, <4>3, SMT
        <4>5. call.op \in F!Operations /\ call.end \in 0 .. AddrMod - 1
          BY <2>2, Zenon
        <4>6. call' \in [op : F!Operations, end : 0 .. AddrMod - 1, data : Seq(SUBSET Bits)]
          BY <4>2, <4>4, <4>5, Zenon
        <4>7. call'.op = call.op /\ call'.end = call.end /\ call'.data = d
          BY <4>4, Zenon
        <4> QED BY <4>3, <4>6, <4>7, Zenon DEF d
      <3> QED BY <1>2, <3>1, <3>2, Zenon
    <2>4. Programs => /\ Len(call'.data) = Len(call.data) - F!ProgramChunk
                      /\ \A j \in 1 .. Len(call'.data) : call'.data[j] = call.data[F!ProgramChunk + j]
      <3> SUFFICES ASSUME Programs
                   PROVE  /\ Len(call'.data) = Len(call.data) - F!ProgramChunk
                          /\ \A j \in 1 .. Len(call'.data) :
                               call'.data[j] = call.data[F!ProgramChunk + j]
        OBVIOUS
      <3> DEFINE c == F!ProgramChunk
                 d == SubSeq(call.data, c + 1, Len(call.data))
      <3>1. c \in 1 .. Len(call.data) /\ call'.data = d
        BY <1>4, <2>3, Zenon
      <3> HIDE DEF c
      <3>2. Len(d) = Len(call.data) - c /\ \A j \in 1 .. Len(d) : d[j] = call.data[c + j]
        BY <1>3, <3>1, SMT
      <3> HIDE DEF d
      <3>3. Len(call'.data) = Len(call.data) - c
            /\ \A j \in 1 .. Len(call'.data) : call'.data[j] = call.data[c + j]
        BY <3>1, <3>2, Zenon
      <3> QED BY <3>3, Zenon DEF c
    <2>5. CallTypes'
      <3>1. pc' \in {"idle", "loop", "wait", "read", "return"} /\ ret' \in {0, -1}
        BY <1>2, <1>10, Zenon DEF CallTypes
      <3>2. addr' \in 0 .. AddrMod - 1
        BY <1>4, <2>1, Sizes, SMT
      <3> QED BY <1>2, <1>5, <1>7, <2>3, <3>1, <3>2, Zenon DEF CallTypes, F!Addresses, F!Operations
    <2>6. (F!IsErase \/ Programs)' /\ (F!IsErase' => F!IsErase) /\ (Programs' => Programs)
      BY <1>2, <2>3, Zenon DEF F!IsErase, Programs
    <2>7. Basics'
      BY <1>2, <1>6, <1>7, <1>10, <2>3, <2>5, <2>6, Zenon DEF Basics, Running
    <2>8. RangeOfCall'
      <3>1. ASSUME Programs PROVE addr' + Len(call'.data) = call'.end /\ call'.end <= Total
        <4>1. F!ProgramChunk \in Int
          BY <1>4, <3>1, SMT
        <4>2. addr' + Len(call'.data) = (addr + F!ProgramChunk) + (Len(call.data) - F!ProgramChunk)
          BY <1>4, <2>1, <2>4, <3>1, Zenon
        <4>3. \A a, c, n \in Int : (a + c) + (n - c) = a + n
          BY SMT
        <4>4. addr \in Int /\ Len(call.data) \in Int
          BY <1>3, SMT
        <4>5. addr' + Len(call'.data) = addr + Len(call.data)
          BY <4>1, <4>2, <4>3, <4>4, Zenon
        <4> QED BY <1>4, <2>3, <3>1, <4>5, Zenon
      <3>2. ASSUME F!IsErase PROVE addr' % Block = 0 /\ addr' <= Total /\ call'.end < Total
        <4>1. addr % Block = 0 /\ call.end < Total
          BY <1>2, <3>2, Zenon DEF RangeOfCall
        <4>2. Block \in Nat /\ Block > 0 /\ Total \in Nat
          BY Sizes, SMT
        <4>3. (addr + Block) % Block = 0
          BY <1>3, <4>1, <4>2, DivNext, Zenon
        <4> QED BY <1>4, <2>1, <2>3, <3>2, <4>1, <4>3, Zenon
      <3> QED BY <2>6, <3>1, <3>2, Zenon DEF RangeOfCall
    <2>9. Behind' = Behind
      BY <1>1, <1>10, <2>1, Zenon DEF Behind
    <2>10. GoesOn
      BY <1>10, <2>1, <2>3, <2>4, <2>9, Zenon DEF GoesOn
    <2>11. ~PollsOn
      BY <1>10, Zenon DEF PollsOn
    <2> QED BY <1>1, <1>2, <2>7, <2>8, <2>10, <2>11, Zenon
  <1> QED BY <1>8, <1>9, <1>10, Zenon DEF F!Poll, GivesUp

LEMMA ReadyIs ==
  ASSUME Basics, RangeOfCall, F!Ready
  PROVE  /\ Basics' /\ RangeOfCall' /\ busy' = FALSE
         /\ UNCHANGED <<mem, detected, pc, ret, call, addr, hashed, Rest>> /\ Behind' = Behind
  <1>1. /\ busy' = FALSE
        /\ UNCHANGED <<mem, detected, pc, ret, call, addr, retries, hashed, Rest>>
    BY Zenon DEF F!Ready, F!driver, F!upgrade, F!upload, Rest
  <1>2. busy' \in BOOLEAN /\ UNCHANGED <<mem, promised, detected, ready, pc, ret, call, addr, retries, hashed>>
    BY <1>1, Zenon DEF Rest
  <1>3. CallTypes' /\ UploadTypes'
    BY <1>1, <1>2, Zenon DEF CallTypes, UploadTypes, Basics, Rest, F!Addresses, F!Operations
  <1>4. F!More' = F!More /\ F!IsErase' = F!IsErase /\ Programs' = Programs /\ F!Step' = F!Step /\ Running' = Running
    BY <1>2, Zenon DEF F!More, F!IsErase, Programs, F!Step, F!ProgramChunk, Running
  <1>5. Basics'
    BY <1>2, <1>3, <1>4, Zenon DEF Basics
  <1>6. RangeOfCall'
    BY <1>2, <1>4, Zenon DEF RangeOfCall
  <1>7. Behind' = Behind
    BY <1>2, <1>4, Zenon DEF Behind
  <1> QED BY <1>1, <1>5, <1>6, <1>7, Zenon

LEMMA ReturnIs ==
  ASSUME F!SpiFlashAssumption, Basics, F!Return, detected' \in BOOLEAN, UploadTypes'
  PROVE  /\ Basics' /\ RangeOfCall' /\ pc = "return" /\ pc' = "idle" /\ call'.op = "none"
         /\ UNCHANGED <<mem, busy>> /\ promised' = mem
  <1>1. /\ pc = "return" /\ pc' = "idle" /\ ret' = 0 /\ call' = F!Idle /\ addr' = 0 /\ hashed' = << >>
        /\ retries' = 0 /\ promised' = mem /\ ready' = TRUE
        /\ UNCHANGED <<mem, busy>>
    BY Zenon DEF F!Return, F!device
  <1>2. call'.op = "none"
    BY <1>1, SMT DEF F!Idle
  <1>3. call' \in [op : F!Operations, end : 0 .. AddrMod - 1, data : Seq(SUBSET Bits)]
    <2>1. 0 \in 0 .. AddrMod - 1
      BY Sizes, SMT
    <2>2. "none" \in F!Operations /\ << >> \in Seq(SUBSET Bits)
      BY SMT DEF F!Operations
    <2> QED BY <1>1, <2>1, <2>2, Zenon DEF F!Idle
  <1>4. /\ pc' \in {"idle", "loop", "wait", "read", "return"} /\ ret' \in {0, -1}
        /\ addr' \in 0 .. AddrMod - 1 /\ retries' \in 0 .. Retries /\ hashed' \in Seq(SUBSET Bits)
    BY <1>1, Sizes, SMT
  <1>5. ready' \in BOOLEAN /\ busy' \in BOOLEAN
    BY <1>1, Zenon DEF Basics, CallTypes
  <1>6. CallTypes'
    BY <1>1, <1>3, <1>4, <1>5, Zenon DEF Basics, CallTypes, F!Addresses, F!Operations
  <1>7. Basics' /\ RangeOfCall'
    BY <1>1, <1>2, <1>6, Zenon DEF Basics, RangeOfCall, Running
  <1> QED BY <1>1, <1>2, <1>7, Zenon

(* Every call that begins is in range.                                      *)
LEMMA BegunIsInRange ==
  ASSUME F!SpiFlashAssumption, CallTypes', UploadTypes',
         NEW op, NEW a \in Nat, NEW end \in Nat, NEW data, Began(op, a, end, data),
         \/ op \in {"write", "program", "activate"} /\ a + Len(data) = end /\ end <= Total
         \/ op \in {"start", "erase", "clear"} /\ a % Block = 0 /\ a < Total /\ end < Total
  PROVE  Basics' /\ RangeOfCall' /\ call'.op = op /\ Behind' = a
  <1>1. /\ call'.op = op /\ call'.end = end /\ call'.data = data /\ addr' = a
        /\ pc' = "loop" \/ pc' = "return"
        /\ detected' \/ pc' = "return"
    BY Zenon DEF Began
  <1>2. /\ F!IsErase' \/ Programs'
        /\ F!IsErase' <=> op \in {"start", "erase", "clear"}
        /\ Programs' <=> op \in {"write", "program", "activate"}
        /\ op # "none"
    BY <1>1 DEF F!IsErase, Programs
  <1>3. Basics'
    BY <1>1, <1>2, Zenon DEF Basics, Running
  <1>4. RangeOfCall'
    <2>1. a < Total => a <= Total
      BY Sizes, SMT
    <2>2. Programs' => addr' + Len(call'.data) = call'.end /\ call'.end <= Total
      BY <1>1, <1>2, Zenon
    <2>3. F!IsErase' => addr' % Block = 0 /\ addr' <= Total /\ call'.end < Total
      BY <1>1, <1>2, <2>1, Zenon
    <2> QED BY <2>2, <2>3, Zenon DEF RangeOfCall
  <1>5. Behind' = a
    BY <1>1, Zenon DEF Behind
  <1> QED BY <1>1, <1>3, <1>4, <1>5, Zenon

LEMMA ReadIs ==
  ASSUME F!SpiFlashAssumption, NEW a \in Nat, NEW n \in Nat, a + n <= Total, CallTypes
  PROVE  /\ F!Read(a, n) \in Seq(SUBSET Bits) /\ Len(F!Read(a, n)) = n
         /\ \A i \in 1 .. n : F!Read(a, n)[i] = IF busy THEN F!Erased ELSE mem[a + i - 1]
  <1>1. Total \in Nat
    BY Sizes, Zenon
  <1>2. ASSUME NEW i \in 1 .. n PROVE (a + i - 1) % Total = a + i - 1 /\ a + i - 1 \in F!Addresses
    <2>1. a + i - 1 \in Nat /\ a + i - 1 < Total
      BY <1>1, SMT
    <2> QED BY <1>1, <2>1, SMT DEF F!Addresses
  <1> DEFINE r(i) == IF busy THEN F!Erased ELSE mem[a + i - 1]
  <1>3. F!Read(a, n) = [i \in 1 .. n |-> r(i)]
    BY <1>2, Zenon DEF F!Read, F!Erased
  <1>4. \A i \in 1 .. n : r(i) \in SUBSET Bits
    <2>1. F!Erased \in SUBSET Bits
      BY Zenon DEF F!Erased
    <2> QED BY <1>2, <2>1, Zenon DEF CallTypes
  <1>5. F!Read(a, n) \in Seq(SUBSET Bits) /\ Len(F!Read(a, n)) = n
    <2> DEFINE s == F!Read(a, n)
    <2> HIDE DEF r
    <2>1. s = [i \in 1 .. n |-> r(i)]
      BY <1>3, Zenon
    <2> HIDE DEF s
    <2> QED BY <1>4, <2>1, SMT DEF s
  <1>6. \A i \in 1 .. n : F!Read(a, n)[i] = r(i)
    BY <1>3, Zenon
  <1> QED BY <1>5, <1>6, Zenon
-----------------------------------------------------------------------------
(* A call keeps its promise: the invariant CallInv.                         *)

LEMMA CallProgramBegins ==
  ASSUME F!SpiFlashAssumption, CallTypes, Basics', RangeOfCall',
         NEW op \in {"write", "program", "activate"}, NEW a \in Nat, NEW data \in Seq(SUBSET Bits),
         Began(op, a, a + Len(data), data), Behind' = a,
         promised' = [x \in F!Addresses |-> IF x \in a .. a + Len(data) - 1
                                            THEN mem[x] \cap data[x - a + 1] ELSE mem[x]]
  PROVE  CallInv'
  <1>1. /\ call'.op = op /\ call'.end = a + Len(data) /\ call'.data = data /\ addr' = a
        /\ ret' = -1 /\ mem' = mem /\ busy' = busy /\ ready' = ~busy /\ pc' \in {"loop", "return"}
    BY SMT DEF Began
  <1>2. ~F!IsErase' /\ Programs' /\ op \notin {"none", "verify"} /\ pc' # "idle"
    BY <1>1, Zenon DEF F!IsErase, Programs
  <1>3. ret' # 0
    BY <1>1, SMT
  <1>4. \A x \in F!Addresses : promised'[x] = IF x \in a .. a + Len(data) - 1
                                              THEN mem[x] \cap data[x - a + 1] ELSE mem[x]
    BY Zenon
  <1>5. \A x \in F!Addresses : promised'[x] \subseteq mem'[x]
    BY <1>1, <1>4, Zenon
  <1>6. ToProgram'
    <2>1. \A x \in F!Addresses :
            promised'[x] = IF x \in Behind' .. call'.end - 1
                           THEN mem'[x] \cap call'.data[x - addr' + 1] ELSE mem'[x]
      <3>1. \A x \in F!Addresses : (x \in Behind' .. call'.end - 1) <=> (x \in a .. a + Len(data) - 1)
        <4>1. Behind' = a /\ call'.end = a + Len(data)
          BY <1>1
        <4>2. Behind' .. call'.end - 1 = a .. a + Len(data) - 1
          BY <4>1
        <4> QED BY <4>2, Zenon
      <3>2. \A x : call'.data[x - addr' + 1] = data[x - a + 1]
        BY <1>1, Zenon
      <3> QED BY <1>1, <1>4, <3>1, <3>2, Zenon
    <2> QED BY <2>1, Zenon DEF ToProgram, F!Addresses
  <1>7. CallKeepsItsPromise'
    BY <1>2, <1>3, <1>5, Zenon DEF CallKeepsItsPromise, F!CallKeepsItsPromise, F!Addresses
  <1> QED BY <1>1, <1>2, <1>6, <1>7, Zenon DEF CallInv

LEMMA CallEraseBegins ==
  ASSUME F!SpiFlashAssumption, CallTypes, Basics', RangeOfCall',
         NEW op \in {"start", "erase", "clear"}, NEW first \in F!Addresses, NEW last \in F!Addresses,
         Began(op, first, last, << >>), Behind' = first,
         promised' = [x \in F!Addresses |->
                        IF BlockOf(x) \in BlockOf(first) .. BlockOf(last) THEN F!Erased ELSE mem[x]]
  PROVE  CallInv'
  <1>1. /\ call'.op = op /\ call'.end = last /\ addr' = first
        /\ ret' = -1 /\ mem' = mem /\ busy' = busy /\ ready' = ~busy /\ pc' \in {"loop", "return"}
    BY SMT DEF Began
  <1>2. F!IsErase' /\ ~Programs' /\ op \notin {"none", "verify"} /\ pc' # "idle"
    BY <1>1, Zenon DEF F!IsErase, Programs
  <1>3. ret' # 0
    BY <1>1, SMT
  <1>4. \A x \in F!Addresses :
          promised'[x] = IF BlockOf(x) \in BlockOf(first) .. BlockOf(last) THEN F!Erased ELSE mem[x]
    BY Zenon
  <1>5. \A x \in F!Addresses : mem'[x] \subseteq promised'[x]
    <2>1. \A x \in F!Addresses : mem[x] \subseteq F!Erased
      BY Zenon DEF CallTypes, F!Erased
    <2> QED BY <1>1, <1>4, <2>1, Zenon
  <1>6. ToErase'
    BY <1>1, <1>4, Zenon DEF ToErase, F!Addresses, F!Erased, BlockOf
  <1>7. CallKeepsItsPromise'
    BY <1>2, <1>3, <1>5, Zenon DEF CallKeepsItsPromise, F!CallKeepsItsPromise, F!Addresses
  <1> QED BY <1>1, <1>2, <1>6, <1>7, Zenon DEF CallInv

LEMMA CallSends ==
  ASSUME F!SpiFlashAssumption, CallInv, F!SendCommand
  PROVE  CallInv'
  <1>1. Basics /\ RangeOfCall /\ CallTypes
    BY Zenon DEF CallInv, Basics
  <1>2. /\ Basics' /\ RangeOfCall' /\ Running /\ F!More /\ pc = "loop" /\ pc' = "wait"
        /\ UNCHANGED <<ret, call, addr, promised, ready>>
        /\ Behind = addr /\ Behind' = addr + F!Step
        /\ ~busy /\ F!IsErase =>
             mem' = [x \in F!Addresses |-> IF BlockOf(x) = BlockOf(addr) THEN F!Erased ELSE mem[x]]
        /\ ~busy /\ Programs =>
             mem' = [x \in F!Addresses |-> IF x \in addr .. addr + F!ProgramChunk - 1
                                           THEN mem[x] \cap call.data[x - addr + 1] ELSE mem[x]]
    BY <1>1, SendIs, Zenon DEF Rest
  <1>3. /\ addr \in F!Addresses /\ addr \in Nat
        /\ F!IsErase => F!Step = Block /\ addr <= call.end
        /\ Programs => /\ F!Step = F!ProgramChunk /\ addr < call.end
                       /\ addr + Len(call.data) = call.end
                       /\ F!ProgramChunk \in 1 .. Len(call.data)
    BY <1>1, <1>2, RangeIs, Zenon
  <1>4. (F!IsErase \/ Programs) /\ (F!IsErase => ~Programs) /\ call.op # "none" /\ call.op # "verify"
    BY <1>1, <1>2, Kinds, Zenon DEF Basics, Programs, F!IsErase
  <1>5. (F!IsErase' <=> F!IsErase) /\ (Programs' <=> Programs)
    BY <1>2, Zenon DEF F!IsErase, Programs
  <1>6. call.end \in Nat /\ Len(call.data) \in Nat /\ Block \in Nat /\ Block > 1
    BY <1>1, CallFields, Sizes, Zenon
  <1>7. ASSUME ready PROVE ~busy
    BY <1>2, <1>7, Zenon DEF CallInv
  <1>8. ASSUME ready, Programs PROVE ToProgram' /\ \A x \in F!Addresses : promised'[x] \subseteq mem'[x]
    <2> DEFINE c == F!ProgramChunk
    <2>1. /\ c \in 1 .. Len(call.data) /\ Behind' = addr + c /\ addr + Len(call.data) = call.end
          /\ mem' = [x \in F!Addresses |-> IF x \in addr .. addr + c - 1
                                           THEN mem[x] \cap call.data[x - addr + 1] ELSE mem[x]]
      BY <1>2, <1>3, <1>7, <1>8, Zenon
    <2>2. \A x \in F!Addresses :
            promised[x] = IF x \in addr .. call.end - 1 THEN mem[x] \cap call.data[x - addr + 1] ELSE mem[x]
      BY <1>2, <1>8, Zenon DEF CallInv, ToProgram
    <2> HIDE DEF c
    <2>3. \A x \in Int : /\ x \in addr .. addr + c - 1 => x \in addr .. call.end - 1 /\ x \notin addr + c .. call.end - 1
                         /\ x \in addr + c .. call.end - 1 => x \in addr .. call.end - 1
                         /\ x \notin addr .. addr + c - 1 /\ x \notin addr + c .. call.end - 1
                              => x \notin addr .. call.end - 1
      BY <1>3, <1>6, <2>1, SMT
    <2>4. \A x \in F!Addresses : x \in Int
      BY Sizes, SMT DEF F!Addresses
    <2>5. \A x \in F!Addresses :
            promised[x] = IF x \in addr + c .. call.end - 1 THEN mem'[x] \cap call.data[x - addr + 1] ELSE mem'[x]
      <3> TAKE x \in F!Addresses
      <3>1. mem'[x] = IF x \in addr .. addr + c - 1 THEN mem[x] \cap call.data[x - addr + 1] ELSE mem[x]
        BY <2>1, Zenon
      <3>2. CASE x \in addr .. addr + c - 1
        BY <2>2, <2>3, <2>4, <3>1, <3>2, Zenon
      <3>3. CASE x \in addr + c .. call.end - 1
        BY <2>2, <2>3, <2>4, <3>1, <3>3, Zenon
      <3>4. CASE x \notin addr .. addr + c - 1 /\ x \notin addr + c .. call.end - 1
        BY <2>2, <2>3, <2>4, <3>1, <3>4, Zenon
      <3> QED BY <3>2, <3>3, <3>4
    <2>6. ToProgram'
      BY <1>2, <2>1, <2>5, Zenon DEF ToProgram, F!Addresses
    <2>7. \A x \in F!Addresses : promised[x] \subseteq mem'[x]
      BY <2>5, Zenon
    <2> QED BY <1>2, <2>6, <2>7, Zenon
  <1>9. ASSUME ready, F!IsErase PROVE ToErase' /\ \A x \in F!Addresses : mem'[x] \subseteq promised'[x]
    <2> DEFINE b == BlockOf(addr)
               e == BlockOf(call.end)
    <2>1. /\ Behind' = addr + Block
          /\ mem' = [x \in F!Addresses |-> IF BlockOf(x) = b THEN F!Erased ELSE mem[x]]
      BY <1>2, <1>3, <1>7, <1>9, Zenon
    <2>2. \A x \in F!Addresses : promised[x] = IF BlockOf(x) \in b .. e THEN F!Erased ELSE mem[x]
      BY <1>2, <1>9, Zenon DEF CallInv, ToErase
    <2>3. Block > 0
      BY <1>6, SMT
    <2>4. b \in Nat /\ e \in Nat /\ b <= e /\ BlockOf(addr + Block) = b + 1
      BY <1>3, <1>6, <1>9, <2>3, DivMod, DivMonotone, DivNext, Zenon DEF BlockOf
    <2>5. \A x \in F!Addresses : BlockOf(x) \in Nat
      <3>1. \A x \in F!Addresses : x \in Nat
        BY Sizes, SMT DEF F!Addresses
      <3> QED BY <1>6, <2>3, <3>1, DivMod, Zenon DEF BlockOf
    <2> HIDE DEF b, e
    <2>6. \A k \in Nat : (k \in b .. e) <=> (k = b \/ k \in b + 1 .. e)
      BY <2>4, SMT
    <2>7. \A x \in F!Addresses : promised[x] = IF BlockOf(x) \in b + 1 .. e THEN F!Erased ELSE mem'[x]
      <3> TAKE x \in F!Addresses
      <3>1. mem'[x] = IF BlockOf(x) = b THEN F!Erased ELSE mem[x]
        BY <2>1, Zenon
      <3> QED BY <2>2, <2>5, <2>6, <3>1, Zenon
    <2>8. ToErase'
      <3>1. BlockOf(Behind)' = b + 1 /\ BlockOf(call.end)' = e
        BY <1>2, <2>1, <2>4, Zenon DEF e, BlockOf
      <3> QED BY <1>2, <2>7, <3>1, Zenon DEF ToErase, F!Addresses, F!Erased, BlockOf
    <2>9. \A x \in F!Addresses : mem'[x] \subseteq promised[x]
      <3>1. \A x \in F!Addresses : mem'[x] \subseteq F!Erased
        BY <1>2, Zenon DEF Basics, CallTypes, F!Erased, F!Addresses
      <3> QED BY <2>7, <3>1, Zenon
    <2> QED BY <1>2, <2>8, <2>9, Zenon
  <1>10. CallKeepsItsPromise'
    BY <1>2, <1>4, <1>5, <1>8, <1>9, Zenon DEF CallKeepsItsPromise, F!CallKeepsItsPromise, F!Addresses
  <1> QED BY <1>2, <1>4, <1>5, <1>8, <1>9, <1>10, Zenon DEF CallInv

LEMMA CallEnds ==
  ASSUME F!SpiFlashAssumption, CallInv, F!LoopEnds
  PROVE  CallInv'
  <1>1. Basics /\ RangeOfCall /\ CallTypes
    BY Zenon DEF CallInv, Basics
  <1>2. /\ Basics' /\ RangeOfCall' /\ Running /\ pc = "loop" /\ pc' = "return"
        /\ UNCHANGED <<mem, busy, call, addr, promised, ready>>
        /\ F!IsErase => addr % Block = 0 /\ call.end < addr /\ addr <= Total /\ call.end \in Nat
        /\ Programs => addr = call.end
        /\ Behind = addr /\ addr \in Nat /\ (F!IsErase \/ Programs)
    BY <1>1, EndIs, Zenon DEF Rest
  <1>3. call.op # "none" /\ call.op # "verify"
    BY <1>2, Zenon DEF Programs, F!IsErase
  <1>4. ASSUME ready PROVE \A x \in F!Addresses : promised[x] = mem[x]
    <2>1. CASE Programs
      <3>1. \A x \in F!Addresses : x \notin addr .. call.end - 1
        <4>1. addr .. call.end - 1 = {}
          BY <1>2, <2>1, SMT
        <4> QED BY <4>1, Zenon
      <3> QED BY <1>2, <1>4, <2>1, <3>1, Zenon DEF CallInv, ToProgram
    <2>2. CASE F!IsErase
      <3>0. Block \in Nat /\ Block > 1
        BY Sizes, Zenon
      <3>1. Block > 0
        BY <3>0, SMT
      <3>2. BlockOf(call.end) < BlockOf(addr)
        BY <1>2, <2>2, <3>0, <3>1, DivAligned, Zenon DEF BlockOf
      <3>3. BlockOf(call.end) \in Nat /\ BlockOf(addr) \in Nat
        BY <1>2, <2>2, <3>0, <3>1, DivMod, Zenon DEF BlockOf
      <3>4. BlockOf(addr) .. BlockOf(call.end) = {}
        BY <3>2, <3>3, SMT
      <3> QED BY <1>2, <1>4, <2>2, <3>4, Zenon DEF CallInv, ToErase
    <2> QED BY <1>2, <2>1, <2>2
  <1>5. ASSUME ready PROVE mem = promised
    <2>1. mem \in [F!Addresses -> SUBSET Bits] /\ promised \in [F!Addresses -> SUBSET Bits]
      BY <1>1, Zenon DEF CallTypes
    <2>2. mem = [x \in F!Addresses |-> mem[x]] /\ promised = [x \in F!Addresses |-> promised[x]]
      BY <2>1, Zenon
    <2>3. [x \in F!Addresses |-> promised[x]] = [x \in F!Addresses |-> mem[x]]
      BY <1>4, <1>5, Zenon
    <2> QED BY <2>2, <2>3, Zenon
  <1>6. CallKeepsItsPromise'
    BY <1>2, <1>5, Zenon DEF CallKeepsItsPromise, F!CallKeepsItsPromise, F!Addresses
  <1> QED BY <1>2, <1>3, <1>6, Zenon DEF CallInv, Running

LEMMA CallPolls ==
  ASSUME F!SpiFlashAssumption, CallInv, F!Poll
  PROVE  CallInv'
  <1>1. Basics /\ RangeOfCall /\ CallTypes
    BY Zenon DEF CallInv, Basics
  <1>2. /\ Basics' /\ RangeOfCall' /\ Running /\ F!More /\ pc = "wait" /\ (F!IsErase \/ Programs)
        /\ UNCHANGED <<mem, busy, promised, ready>>
        /\ GivesUp \/ PollsOn \/ GoesOn
        /\ PollsOn => Behind' = Behind
    BY <1>1, PollIs, Zenon DEF Rest
  <1>3. call.op # "none" /\ call.op # "verify"
    BY <1>2, Zenon DEF Programs, F!IsErase
  <1>4. call'.op = call.op /\ call'.end = call.end
    BY <1>2, Zenon DEF GivesUp, PollsOn, GoesOn
  <1>5. F!IsErase' = F!IsErase /\ Programs' = Programs
    BY <1>4, Zenon DEF F!IsErase, Programs
  <1>6. ~(pc' = "return" /\ ret' = 0) /\ pc' # "idle"
    BY <1>2, SMT DEF GivesUp, PollsOn, GoesOn
  <1>7. CallKeepsItsPromise'
    BY <1>2, <1>3, <1>4, <1>5, <1>6, Zenon
      DEF CallInv, CallKeepsItsPromise, F!CallKeepsItsPromise, F!Addresses
  <1>8. CASE GivesUp
    <2>1. ~Running' /\ pc' # "loop"
      BY <1>8, Zenon DEF GivesUp, Running
    <2> QED BY <1>2, <1>3, <1>4, <1>6, <1>7, <2>1, Zenon DEF CallInv
  <1>9. CASE PollsOn
    <2>1. UNCHANGED <<call, addr>> /\ pc' # "loop" /\ Behind' = Behind
      BY <1>2, <1>9, Zenon DEF PollsOn
    <2>2. ToProgram' = ToProgram
      BY <1>2, <2>1, Zenon DEF ToProgram, F!Addresses
    <2>3. ToErase' = ToErase
      BY <1>2, <2>1, Zenon DEF ToErase, F!Addresses, F!Erased, BlockOf
    <2> QED BY <1>2, <1>3, <1>4, <1>5, <1>6, <1>7, <2>1, <2>2, <2>3, Zenon DEF CallInv
  <1>10. CASE GoesOn
    <2>1. pc' = "loop" /\ ~busy /\ addr' = addr + F!Step /\ Behind' = Behind
      BY <1>10, Zenon DEF GoesOn
    <2>2. ASSUME ready, F!IsErase PROVE ToErase'
      <3>1. call' = call
        BY <1>10, <2>2, Zenon DEF GoesOn
      <3> QED BY <1>2, <2>1, <2>2, <3>1, Zenon DEF CallInv, ToErase, F!Addresses, F!Erased, BlockOf
    <2>3. ASSUME ready, Programs PROVE ToProgram'
      <3> DEFINE c == F!ProgramChunk
      <3>1. /\ addr' = addr + c /\ c \in Nat /\ addr \in Nat /\ addr + Len(call.data) = call.end
            /\ Len(call.data) \in Nat /\ c \in 1 .. Len(call.data)
        <4>1. /\ F!Step = c /\ addr \in Nat /\ addr + Len(call.data) = call.end
              /\ c \in 1 .. Len(call.data) /\ F!Step \in Nat
          BY <1>1, <1>2, <2>3, RangeIs, Zenon
        <4> HIDE DEF c
        <4> QED BY <1>1, <2>1, <4>1, CallFields, Zenon
      <3>2. /\ Len(call'.data) = Len(call.data) - c
            /\ \A j \in 1 .. Len(call'.data) : call'.data[j] = call.data[c + j]
        BY <1>10, <2>3, Zenon DEF GoesOn
      <3> HIDE DEF c
      <3>3. Behind = addr + c
        BY <1>2, <2>1, <3>1, Zenon DEF Behind
      <3>4. \A x \in F!Addresses : x \in Int
        BY Sizes, SMT DEF F!Addresses
      <3>5. \A x \in Int : x \in Behind .. call.end - 1 =>
              /\ x - (addr + c) + 1 \in 1 .. Len(call.data) - c
              /\ c + (x - (addr + c) + 1) = x - addr + 1
        BY <3>1, <3>3, SMT
      <3>6. \A x \in F!Addresses : x \in Behind .. call.end - 1 =>
              call'.data[x - addr' + 1] = call.data[x - addr + 1]
        <4> SUFFICES ASSUME NEW x \in F!Addresses, x \in Behind .. call.end - 1
                     PROVE  call'.data[x - addr' + 1] = call.data[x - addr + 1]
          OBVIOUS
        <4> DEFINE j == x - (addr + c) + 1
        <4>1. j \in 1 .. Len(call.data) - c /\ c + j = x - addr + 1
          BY <3>4, <3>5, Zenon
        <4>2. x - addr' + 1 = j
          BY <3>1, Zenon
        <4> HIDE DEF j
        <4>3. call'.data[j] = call.data[c + j]
          BY <3>2, <4>1, Zenon
        <4> QED BY <4>1, <4>2, <4>3, Zenon
      <3>7. \A x \in F!Addresses :
              promised[x] = IF x \in Behind .. call.end - 1
                            THEN mem[x] \cap call.data[x - addr + 1] ELSE mem[x]
        BY <1>2, <2>3, Zenon DEF CallInv, ToProgram
      <3>8. \A x \in F!Addresses :
              promised'[x] = IF x \in Behind' .. call'.end - 1
                             THEN mem'[x] \cap call'.data[x - addr' + 1] ELSE mem'[x]
        BY <1>2, <1>4, <2>1, <3>6, <3>7, Zenon
      <3> QED BY <3>8, Zenon DEF ToProgram, F!Addresses
    <2> QED BY <1>2, <1>3, <1>4, <1>5, <1>6, <1>7, <2>1, <2>2, <2>3, Zenon DEF CallInv
  <1> QED BY <1>2, <1>8, <1>9, <1>10

LEMMA CallReturns ==
  ASSUME Basics', RangeOfCall', pc' = "idle", call'.op = "none", promised' = mem, mem' = mem
  PROVE  CallInv'
  <1>1. ~Running' /\ pc' # "loop" /\ pc' # "return"
    BY Zenon DEF Running
  <1>2. CallKeepsItsPromise'
    BY <1>1, Zenon DEF CallKeepsItsPromise, F!CallKeepsItsPromise
  <1> QED BY <1>1, <1>2, Zenon DEF CallInv

LEMMA CallReadies ==
  ASSUME CallInv, F!Ready
  PROVE  CallInv'
  <1>1. /\ Basics' /\ RangeOfCall' /\ busy' = FALSE /\ Behind' = Behind
        /\ UNCHANGED <<mem, pc, ret, call, addr, promised, ready>>
    BY ReadyIs, Zenon DEF CallInv, Rest
  <1>2. /\ F!IsErase' = F!IsErase /\ Programs' = Programs /\ Running' = Running
        /\ ToProgram' = ToProgram /\ ToErase' = ToErase
    BY <1>1, Zenon DEF F!IsErase, Programs, Running, ToProgram, ToErase, BlockOf, F!Addresses, F!Erased
  <1>3. CallKeepsItsPromise'
    BY <1>1, <1>2, Zenon DEF CallInv, CallKeepsItsPromise, F!CallKeepsItsPromise, F!Addresses
  <1> QED BY <1>1, <1>2, <1>3, Zenon DEF CallInv

(* A verification reads only.                                               *)
LEMMA CallVerifies ==
  ASSUME Basics', RangeOfCall', promised = mem, call'.op = "verify", pc' \in {"read", "return"},
         UNCHANGED <<mem, promised>>
  PROVE  CallInv'
  <1>1. ~Running' /\ pc' # "loop" /\ pc' # "idle" /\ ~F!IsErase'
    BY Zenon DEF Running, F!IsErase
  <1>2. CallKeepsItsPromise'
    BY <1>1, Zenon DEF CallKeepsItsPromise, F!CallKeepsItsPromise
  <1> QED BY <1>1, <1>2, Zenon DEF CallInv
-----------------------------------------------------------------------------
(* The image in the flash: the invariant ImageInv.                          *)

LEMMA RecordIs ==
  ASSUME F!SpiFlashAssumption, NEW rec \in Records
  PROVE  /\ rec[1] \in Nat /\ rec[2] \in Nat /\ rec[1] + rec[2] <= Len(FirmwareImage)
         /\ rec # << >>
  <1>1. rec \in Nat \X Nat /\ rec[1] + rec[2] <= Len(FirmwareImage)
    BY Zenon DEF F!SpiFlashAssumption
  <1>2. rec[1] \in Nat /\ rec[2] \in Nat /\ rec = <<rec[1], rec[2]>>
    BY <1>1, SMT
  <1>3. rec # << >>
    BY <1>2, SMT
  <1> QED BY <1>1, <1>2, <1>3, Zenon

LEMMA PlaceIs ==
  ASSUME F!SpiFlashAssumption, NEW p \in Positions
  PROVE  /\ p \in Nat /\ p >= 1 /\ p <= Len(FirmwareImage)
         /\ Block + p - 1 \in F!Addresses /\ Block + p - 1 \in Nat /\ Block + p - 1 >= Block
         /\ BlockOf(Block + p - 1) \in Nat /\ BlockOf(Block + p - 1) >= 1
         /\ FirmwareImage[p] \in SUBSET Bits
  <1>1. /\ Total \in Nat /\ Block \in Nat /\ Block > 1 /\ FirmwareImage \in Seq(SUBSET Bits)
        /\ Len(FirmwareImage) > 2 /\ Block + Len(FirmwareImage) <= Total
    BY Sizes, Zenon
  <1>2. Len(FirmwareImage) \in Nat
    BY <1>1, SMT
  <1>3. p \in Nat /\ p >= 1 /\ p <= Len(FirmwareImage)
    BY <1>2, SMT DEF Positions
  <1>4. Block + p - 1 \in F!Addresses /\ Block + p - 1 \in Nat /\ Block + p - 1 >= Block
    BY <1>1, <1>2, <1>3, SMT DEF F!Addresses
  <1>5. FirmwareImage[p] \in SUBSET Bits
    BY <1>1, SMT DEF Positions
  <1>6. BlockOf(Block + p - 1) \in Nat /\ BlockOf(Block + p - 1) >= 1
    <2> DEFINE x == Block + p - 1
    <2>1. x \in Nat /\ x >= Block /\ Block > 0
      BY <1>1, <1>4, SMT
    <2> HIDE DEF x
    <2>2. x \div Block \in Nat /\ x \div Block >= 1
      BY <1>1, <2>1, DivMod, DivPositive, Zenon
    <2> QED BY <2>2, Zenon DEF BlockOf, x
  <1> QED BY <1>3, <1>4, <1>5, <1>6, Zenon

(* A program command of a write puts bytes of the image at their places.    *)
LEMMA WriteSends ==
  ASSUME F!SpiFlashAssumption, ImageInv, F!SendCommand, call.op = "write"
  PROVE  /\ Programmable'
         /\ \A p \in Positions : InPlace(p) => Place(p)' = FirmwareImage[p]
         /\ ~busy => \A p \in Positions :
              p \in addr - Block + 1 .. addr - Block + F!Step => Place(p)' = FirmwareImage[p]
  <1>1. Basics /\ RangeOfCall /\ CallTypes /\ Programs /\ ~F!IsErase
    BY Zenon DEF ImageInv, Basics, Programs, F!IsErase
  <1>2. /\ Running /\ F!More
        /\ busy => mem' = mem
        /\ ~busy => mem' = [x \in F!Addresses |-> IF x \in addr .. addr + F!ProgramChunk - 1
                                                  THEN mem[x] \cap call.data[x - addr + 1] ELSE mem[x]]
    BY <1>1, SendIs, Zenon
  <1> DEFINE c == F!Step
  <1>3. addr \in Nat /\ c = F!ProgramChunk /\ c \in 1 .. Len(call.data) /\ c \in Nat
    BY <1>1, <1>2, RangeIs, Zenon
  <1>4. Block \in Nat /\ Len(call.data) \in Nat
    BY <1>1, Sizes, CallFields, Zenon
  <1>5. Programmable
    BY Zenon DEF ImageInv, UploadInv, WriteInv, Uploading
  <1>6. \A j \in 1 .. Len(call.data) : call.data[j] = FirmwareImage[addr - Block + j]
    BY <1>2, Zenon DEF ImageInv, WriteInv
  <1> HIDE DEF c
  <1>7. ASSUME NEW p \in Positions, ~busy
        PROVE  /\ p \in addr - Block + 1 .. addr - Block + c =>
                    Place(p)' = Place(p) \cap FirmwareImage[p]
               /\ p \notin addr - Block + 1 .. addr - Block + c => Place(p)' = Place(p)
    <2> DEFINE x == Block + p - 1
    <2>1. x \in F!Addresses /\ x \in Nat /\ p \in Nat
      BY PlaceIs, Zenon
    <2>2. mem'[x] = IF x \in addr .. addr + c - 1 THEN mem[x] \cap call.data[x - addr + 1] ELSE mem[x]
      BY <1>2, <1>3, <1>7, <2>1, Zenon
    <2>3. (x \in addr .. addr + c - 1) <=> (p \in addr - Block + 1 .. addr - Block + c)
      BY <1>3, <1>4, <2>1, SMT
    <2>4. ASSUME p \in addr - Block + 1 .. addr - Block + c
          PROVE  call.data[x - addr + 1] = FirmwareImage[p]
      <3> DEFINE j == x - addr + 1
      <3>1. j \in 1 .. Len(call.data) /\ addr - Block + j = p
        BY <1>3, <1>4, <2>1, <2>4, SMT
      <3> HIDE DEF j
      <3>2. call.data[j] = FirmwareImage[p]
        BY <1>6, <3>1, Zenon
      <3> QED BY <3>2, Zenon DEF j
    <2>5. Place(p)' = mem'[x] /\ Place(p) = mem[x]
      BY Zenon DEF Place
    <2> HIDE DEF x
    <2> QED BY <2>2, <2>3, <2>4, <2>5, Zenon
  <1>8. ASSUME busy PROVE \A p \in Positions : Place(p)' = Place(p)
    BY <1>2, <1>8, Zenon DEF Place
  <1>9. \A p \in Positions : FirmwareImage[p] \subseteq Place(p)
    BY <1>5, Zenon DEF Programmable
  <1>10. \A p \in Positions : FirmwareImage[p] \subseteq Place(p)'
    BY <1>7, <1>8, <1>9, Zenon
  <1>11. \A p \in Positions : InPlace(p) => Place(p)' = FirmwareImage[p]
    <2> SUFFICES ASSUME NEW p \in Positions, Place(p) = FirmwareImage[p]
                 PROVE  Place(p)' = FirmwareImage[p]
      BY Zenon DEF InPlace
    <2>1. Place(p)' = Place(p) \/ Place(p)' = Place(p) \cap FirmwareImage[p]
      BY <1>7, <1>8, Zenon
    <2> QED BY <2>1, Zenon
  <1>12. ASSUME ~busy, NEW p \in Positions, p \in addr - Block + 1 .. addr - Block + c
         PROVE  Place(p)' = FirmwareImage[p]
    <2>1. Place(p)' = Place(p) \cap FirmwareImage[p] /\ FirmwareImage[p] \subseteq Place(p)
      BY <1>7, <1>9, <1>12, Zenon
    <2> QED BY <2>1, Zenon
  <1>13. Programmable'
    BY <1>10, Zenon DEF Programmable, Place, Positions
  <1> QED BY <1>11, <1>12, <1>13, Zenon DEF c

(* An activation writes the header, not the image.                          *)
LEMMA ActivateSends ==
  ASSUME F!SpiFlashAssumption, ImageInv, F!SendCommand, call.op = "activate"
  PROVE  \A p \in Positions : Place(p)' = Place(p)
  <1>1. Basics /\ RangeOfCall /\ CallTypes /\ Programs /\ ~F!IsErase
    BY Zenon DEF ImageInv, Basics, Programs, F!IsErase
  <1>2. /\ Running /\ F!More
        /\ busy => mem' = mem
        /\ ~busy => mem' = [x \in F!Addresses |-> IF x \in addr .. addr + F!ProgramChunk - 1
                                                  THEN mem[x] \cap call.data[x - addr + 1] ELSE mem[x]]
    BY <1>1, SendIs, Zenon
  <1> DEFINE c == F!ProgramChunk
  <1>3. addr \in Nat /\ c \in 1 .. Len(call.data) /\ c \in Nat /\ addr + Len(call.data) = call.end
    <2>1. addr \in Nat /\ c \in 1 .. Len(call.data) /\ F!Step = c /\ F!Step \in Nat
          /\ addr + Len(call.data) = call.end
      BY <1>1, <1>2, RangeIs, Zenon
    <2> QED BY <2>1, Zenon
  <1>4. call.end = 1 /\ Block \in Nat /\ Block > 1 /\ Len(call.data) \in Nat
    BY <1>1, <1>2, Sizes, CallFields, Zenon DEF ImageInv, ActivateInv
  <1> HIDE DEF c
  <1>5. ASSUME NEW p \in Positions PROVE Place(p)' = Place(p)
    <2> DEFINE x == Block + p - 1
    <2>1. x \in F!Addresses /\ x \in Nat /\ x >= Block
      BY PlaceIs, Zenon
    <2> HIDE DEF x
    <2>2. x \notin addr .. addr + c - 1
      BY <1>3, <1>4, <2>1, SMT
    <2>3. mem'[x] = mem[x]
      BY <1>2, <2>1, <2>2, Zenon DEF c
    <2> QED BY <2>3, Zenon DEF x, Place
  <1> QED BY <1>5

LEMMA ChunkBounds ==
  ASSUME NEW b \in Nat, NEW a \in Nat, NEW r \in Nat, NEW n \in Nat, NEW l \in Nat, NEW c \in 1 .. l,
         NEW room \in Int, a + l = b + r + n, a = b + r, c <= room, c = l \/ c = room
  PROVE  /\ \A p \in r + 1 .. (a + c) - b : p \in r + 1 .. r + n /\ p - r <= room
         /\ \A p \in r + 1 .. r + n : p - r <= room => p \in a - b + 1 .. a - b + c
  BY SMT

(* The first command of a write goes as far as its page or its data.        *)
LEMMA ChunkInPlace ==
  ASSUME F!SpiFlashAssumption, ImageInv, F!SendCommand, call.op = "write", ~skipped
  PROVE  /\ \A p \in refused[1] + 1 .. (addr + F!Step) - Block : Place(p)' = FirmwareImage[p]
         /\ FirstChunkInPlace'
  <1>1. Basics /\ RangeOfCall /\ CallTypes /\ UploadTypes /\ Programs
    BY Zenon DEF ImageInv, Basics, Programs
  <1>2. /\ Running /\ F!More /\ pc = "loop" /\ Behind = addr
        /\ busy => mem' = mem
        /\ UNCHANGED <<refused, skipped>>
    BY <1>1, SendIs, Zenon DEF Rest
  <1> DEFINE c == F!Step
             r == refused[1]
             n == refused[2]
  <1>3. /\ addr \in Nat /\ addr + Len(call.data) = call.end /\ c \in 1 .. Len(call.data)
        /\ c <= Page - (addr % Page)
        /\ c = Len(call.data) \/ c = Page - (addr % Page)
    <2>1. /\ addr \in Nat /\ addr + Len(call.data) = call.end /\ c = F!ProgramChunk
          /\ F!ProgramChunk \in 1 .. Len(call.data)
          /\ F!ProgramChunk <= Page - (addr % Page)
          /\ F!ProgramChunk = Len(call.data) \/ F!ProgramChunk = Page - (addr % Page)
      BY <1>1, <1>2, RangeIs, Zenon
    <2> HIDE DEF c
    <2> QED BY <2>1, Zenon
  <1>4. /\ Block \in Nat /\ Len(call.data) \in Nat /\ Page \in Nat /\ Page > 0
        /\ Len(FirmwareImage) > 2 /\ FirmwareImage \in Seq(SUBSET Bits)
    BY <1>1, Sizes, CallFields, Zenon
  <1>5. /\ refused # << >> /\ status = "IN_PROGRESS"
        /\ call.end = Block + r + n /\ addr >= Block + r
        /\ \A p \in r + 1 .. addr - Block : InPlace(p)
        /\ addr # Block + r => FirstChunkInPlace
        /\ busy => addr = Block + r
    BY <1>2, Zenon DEF ImageInv, WriteInv
  <1>6. r \in Nat /\ n \in Nat /\ r + n <= Len(FirmwareImage)
    <2>1. refused \in Records
      BY <1>1, <1>5, Zenon DEF UploadTypes
    <2> QED BY <2>1, RecordIs, Zenon
  <1>7. busy => FirstChunkInPlace
    BY <1>5, Zenon DEF ImageInv, UploadInv, Uploading
  <1>8. addr % Page \in Nat /\ addr % Page < Page
    BY <1>3, <1>4, DivMod, SMT
  <1>9. Len(FirmwareImage) \in Nat
    BY <1>4, SMT
  <1>10. /\ \A p \in Positions : InPlace(p) => Place(p)' = FirmwareImage[p]
         /\ ~busy => \A p \in Positions :
              p \in addr - Block + 1 .. addr - Block + c => Place(p)' = FirmwareImage[p]
    BY WriteSends, Zenon
  <1>11. FirstChunk(refused) = {p \in r + 1 .. r + n : p - r <= Page - ((Block + r) % Page)}
    BY Zenon DEF FirstChunk
  <1>12. FirstChunkInPlace => n > 0 /\ \A p \in FirstChunk(refused) : InPlace(p)
    BY Zenon DEF FirstChunkInPlace
  <1> HIDE DEF c, r, n
  <1>13. /\ r + 1 .. r + n \subseteq Positions
         /\ r + 1 .. (addr + c) - Block \subseteq Positions
    BY <1>3, <1>4, <1>5, <1>6, <1>9, SMT DEF Positions
  <1> DEFINE l == Len(call.data)
  <1>20. addr + l = Block + r + n /\ addr >= Block + r /\ c \in 1 .. l
    BY <1>3, <1>5, Zenon
  <1>21. addr \in Nat /\ Block \in Nat /\ r \in Nat /\ n \in Nat /\ l \in Nat
    BY <1>3, <1>4, <1>6, Zenon
  <1>22. c = l \/ c = Page - (addr % Page)
    BY <1>3, Zenon
  <1> HIDE DEF l
  <1>14. FirstChunk(refused) \subseteq Positions
    BY <1>11, <1>13, Zenon
  <1>15. ASSUME NEW p \in r + 1 .. (addr + c) - Block PROVE Place(p)' = FirmwareImage[p]
    <2>1. p \in Positions
      BY <1>13, <1>15, Zenon
    <2>2. CASE busy
      <3>1. addr = Block + r
        BY <1>5, <2>2, Zenon
      <3>2. p \in r + 1 .. r + n /\ p - r <= Page - (addr % Page)
        <4> DEFINE room == Page - (addr % Page)
        <4>1. room \in Int
          BY <1>4, <1>8, SMT
        <4>2. c <= room /\ (c = l \/ c = room)
          BY <1>3, <1>22, Zenon
        <4> HIDE DEF room
        <4>3. p \in r + 1 .. r + n /\ p - r <= room
          BY <1>15, <1>20, <1>21, <3>1, <4>1, <4>2, ChunkBounds, SMT
        <4> QED BY <4>3, Zenon DEF room
      <3>3. p \in FirstChunk(refused)
        BY <1>11, <3>1, <3>2, Zenon
      <3> QED BY <1>7, <1>10, <1>12, <2>1, <2>2, <3>3, Zenon
    <2>3. CASE ~busy
      <3>1. p \in r + 1 .. addr - Block \/ p \in addr - Block + 1 .. addr - Block + c
        BY <1>3, <1>4, <1>5, <1>6, <1>15, SMT
      <3> QED BY <1>5, <1>10, <2>1, <2>3, <3>1, Zenon
    <2> QED BY <2>2, <2>3
  <1>16. n > 0
    BY <1>3, <1>4, <1>5, <1>6, SMT
  <1>17. ASSUME NEW p \in FirstChunk(refused) PROVE Place(p)' = FirmwareImage[p]
    <2>1. p \in Positions
      BY <1>14, <1>17, Zenon
    <2>2. CASE FirstChunkInPlace
      BY <1>10, <1>12, <1>17, <2>1, <2>2, Zenon
    <2>3. CASE ~FirstChunkInPlace
      <3>1. addr = Block + r /\ ~busy
        BY <1>5, <1>7, <2>3, Zenon
      <3>2. p \in r + 1 .. r + n /\ p - r <= Page - (addr % Page)
        BY <1>11, <1>17, <3>1, Zenon
      <3>3. p \in addr - Block + 1 .. addr - Block + c
        <4> DEFINE room == Page - (addr % Page)
        <4>1. room \in Int
          BY <1>4, <1>8, SMT
        <4>2. c <= room /\ (c = l \/ c = room) /\ p - r <= room
          BY <1>3, <1>22, <3>2, Zenon
        <4> HIDE DEF room
        <4> QED BY <1>20, <1>21, <3>1, <3>2, <4>1, <4>2, ChunkBounds, SMT
      <3> QED BY <1>10, <2>1, <3>1, <3>3, Zenon
    <2> QED BY <2>2, <2>3
  <1>18. FirstChunk(refused)' = FirstChunk(refused)
    BY <1>2, Zenon DEF FirstChunk
  <1>19. FirstChunkInPlace'
    <2>1. refused'[2] > 0
      BY <1>2, <1>16, Zenon DEF n
    <2>2. \A p \in FirstChunk(refused)' : InPlace(p)'
      BY <1>17, <1>18, Zenon DEF InPlace
    <2> QED BY <2>1, <2>2, Zenon DEF FirstChunkInPlace
  <1> QED BY <1>15, <1>19, Zenon DEF c, r

(* The kind of a call, by what the upload is doing.                         *)
LEMMA KindIs ==
  ASSUME ImageInv, call.op # "start", call.op # "none"
  PROVE  /\ status = "IN_PROGRESS" => call.op \in {"write", "verify"}
         /\ status = "VERIFIED" => call.op = "activate"
         /\ call.op \notin {"write", "verify", "activate"} => acked = {} /\ status = "NO_UPGRADE"
  <1>1. call.op \in {"none", "start", "erase", "write", "program", "activate", "verify", "clear"}
    BY Zenon DEF ImageInv, Basics, CallTypes, F!Operations
  <1>2. /\ call.op = "activate" => status = "VERIFIED"
        /\ call.op = "clear" => status = "NO_UPGRADE" /\ acked = {}
        /\ call.op \in {"program", "erase"} => status = "NO_UPGRADE" /\ acked = {}
        /\ call.op = "write" => status = "IN_PROGRESS"
        /\ call.op = "verify" => status = "IN_PROGRESS"
    BY Zenon DEF ImageInv, ActivateInv, CommandInv, Commanded, WriteInv, VerifyInv
  <1> QED BY <1>1, <1>2

LEMMA StartSends ==
  ASSUME F!SpiFlashAssumption, ImageInv, F!SendCommand, call.op = "start"
  PROVE  BehindHeaderErased(BlockOf(Behind))'
  <1>1. Basics /\ RangeOfCall /\ F!IsErase
    BY Zenon DEF ImageInv, F!IsErase
  <1>2. /\ Running /\ F!More /\ pc = "loop" /\ Behind = addr /\ Behind' = addr + F!Step
        /\ busy => mem' = mem
        /\ ~busy => mem' = [x \in F!Addresses |-> IF BlockOf(x) = BlockOf(addr) THEN F!Erased ELSE mem[x]]
    BY <1>1, SendIs, Zenon
  <1>3. addr \in Nat /\ F!Step = Block /\ Block \in Nat /\ Block > 1
    BY <1>1, <1>2, RangeIs, Sizes, Zenon
  <1>4. Block > 0
    BY <1>3, SMT
  <1> DEFINE b == BlockOf(addr)
  <1>5. b \in Nat /\ BlockOf(addr + Block) = b + 1
    BY <1>3, <1>4, DivMod, DivNext, Zenon DEF BlockOf
  <1>6. BehindHeaderErased(b) /\ (busy => addr = 0)
    BY <1>2, Zenon DEF ImageInv, StartInv
  <1>7. \A x \in F!Addresses : BlockOf(x) \in Nat
    <2>1. \A x \in F!Addresses : x \in Nat
      BY Sizes, SMT DEF F!Addresses
    <2> QED BY <1>3, <1>4, <2>1, DivMod, Zenon DEF BlockOf
  <1>8. busy => b = 0
    <2>1. 0 \div Block = 0
      BY <1>3, <1>4, SMT
    <2> QED BY <1>6, <2>1, Zenon DEF BlockOf
  <1> HIDE DEF b
  <1>9. ASSUME NEW x \in F!Addresses, BlockOf(x) \in 1 .. (b + 1) - 1 PROVE mem'[x] = F!Erased
    <2>1. CASE busy
      BY <1>5, <1>7, <1>8, <1>9, <2>1, SMT
    <2>2. CASE ~busy
      <3>1. BlockOf(x) = b \/ BlockOf(x) \in 1 .. b - 1
        BY <1>5, <1>7, <1>9, SMT
      <3>2. mem'[x] = IF BlockOf(x) = b THEN F!Erased ELSE mem[x]
        BY <1>2, <2>2, Zenon DEF b
      <3> QED BY <1>6, <3>1, <3>2, Zenon DEF BehindHeaderErased
    <2> QED BY <2>1, <2>2
  <1>10. BlockOf(Behind)' = b + 1
    BY <1>2, <1>3, <1>5, Zenon DEF BlockOf
  <1> DEFINE k == BlockOf(Behind)'
  <1>11. \A x \in F!Addresses : BlockOf(x) \in 1 .. k - 1 => mem'[x] = F!Erased
    <2>1. k = b + 1
      BY <1>10, Zenon
    <2> HIDE DEF k
    <2>2. 1 .. k - 1 = 1 .. (b + 1) - 1
      BY <2>1
    <2> QED BY <1>9, <2>2, Zenon
  <1>12. BehindHeaderErased(BlockOf(Behind))' =
           \A x \in F!Addresses : BlockOf(x) \in 1 .. k - 1 => mem'[x] = F!Erased
    BY DEF BehindHeaderErased, BlockOf, F!Addresses, F!Erased
  <1> QED BY <1>11, <1>12, Zenon

LEMMA ImageSends ==
  ASSUME F!SpiFlashAssumption, ImageInv, F!SendCommand, part' = part
  PROVE  ImageInv'
  <1>1. Basics /\ RangeOfCall /\ UploadIsInPlace
    BY Zenon DEF ImageInv
  <1>2. /\ Basics' /\ RangeOfCall' /\ Running /\ F!More /\ pc = "loop" /\ pc' = "wait"
        /\ UNCHANGED <<detected, ret, call, addr, hashed>>
        /\ UNCHANGED <<status, flash_last_addr, flash_offset, acked, refused, skipped>>
        /\ Behind' = addr + F!Step
    BY <1>1, SendIs, Zenon DEF Rest
  <1>3. call.op \notin {"none", "verify"} /\ Running'
    BY <1>1, <1>2, Zenon DEF Basics, Running, F!IsErase, Programs
  <1>4. StartInv'
    <2> SUFFICES ASSUME call.op = "start" PROVE StartInv'
      BY <1>2, Zenon DEF StartInv
    <2>1. BehindHeaderErased(BlockOf(Behind))'
      BY StartSends, Zenon
    <2>2. /\ acked = {} /\ refused = << >> /\ ~skipped /\ flash_last_addr = 0
          /\ detected => flash_offset = Block
          /\ call.end = Total - 1
      BY <1>2, Zenon DEF ImageInv, StartInv
    <2> QED BY <1>2, <2>1, <2>2, Zenon DEF StartInv
  <1>5. ASSUME Uploading' PROVE call.op = "write" /\ Uploading
    <2>1. status = "IN_PROGRESS" /\ call.op # "start"
      BY <1>2, <1>5, Zenon DEF Uploading
    <2> QED BY <1>3, <2>1, KindIs, Zenon DEF Uploading
  <1>6. UploadInv'
    <2> SUFFICES ASSUME Uploading' PROVE UploadInv'
      BY Zenon DEF UploadInv
    <2>1. call.op = "write" /\ Uploading
      BY <1>5, Zenon
    <2>2. /\ detected /\ flash_offset = Block /\ flash_last_addr <= Len(FirmwareImage)
          /\ acked \subseteq 1 .. flash_last_addr /\ refused # << >>
      BY <2>1, Zenon DEF ImageInv, UploadInv, WriteInv
    <2>3. Programmable' /\ (~skipped => FirstChunkInPlace')
      BY <2>1, WriteSends, ChunkInPlace, Zenon
    <2> QED BY <1>2, <2>2, <2>3, Zenon DEF UploadInv
  <1>7. WriteInv'
    <2> SUFFICES ASSUME call.op = "write" PROVE WriteInv'
      BY <1>2, Zenon DEF WriteInv
    <2>1. /\ status = "IN_PROGRESS" /\ refused # << >> /\ refused[1] + refused[2] <= flash_last_addr
          /\ call.end = Block + refused[1] + refused[2] /\ addr >= Block + refused[1]
          /\ \A j \in 1 .. Len(call.data) : call.data[j] = FirmwareImage[addr - Block + j]
      BY <1>2, Zenon DEF ImageInv, WriteInv
    <2>2. ~skipped => /\ \A p \in refused[1] + 1 .. (addr + F!Step) - Block : Place(p)' = FirmwareImage[p]
                      /\ FirstChunkInPlace'
      BY ChunkInPlace, Zenon
    <2>3. ~skipped' => \A p \in (refused[1] + 1 .. Behind - Block)' : InPlace(p)'
      <3>1. refused'[1] + 1 .. Behind' - Block = refused[1] + 1 .. (addr + F!Step) - Block
        BY <1>2, Zenon
      <3> QED BY <1>2, <2>2, <3>1, Zenon DEF InPlace
    <2> QED BY <1>2, <2>1, <2>2, <2>3, Zenon DEF WriteInv
  <1>8. VerifyInv' /\ ActivateInv' /\ CommandInv'
    <2>1. VerifyInv'
      BY <1>2, <1>3, Zenon DEF VerifyInv
    <2>2. ActivateInv'
      BY <1>2, Zenon DEF ImageInv, ActivateInv
    <2>3. CommandInv'
      BY <1>2, Zenon DEF ImageInv, CommandInv, Commanded
    <2> QED BY <2>1, <2>2, <2>3
  <1>9. UploadIsInPlace'
    <2> SUFFICES ASSUME ~skipped, NEW p \in acked PROVE Place(p)' = FirmwareImage[p]
      BY <1>2, Zenon DEF UploadIsInPlace, F!UploadIsInPlace, Place
    <2>1. Place(p) = FirmwareImage[p] /\ p \in Positions
      BY <1>1, Zenon DEF UploadIsInPlace, F!UploadIsInPlace, Place, Positions, Basics, UploadTypes
    <2>2. call.op \in {"write", "activate"}
      <3>1. acked # {}
        BY Zenon
      <3>2. call.op # "start"
        BY <3>1, Zenon DEF ImageInv, StartInv
      <3> QED BY <1>3, <3>1, <3>2, KindIs, Zenon
    <2>3. CASE call.op = "write"
      BY <2>1, <2>3, WriteSends, Zenon DEF InPlace
    <2>4. CASE call.op = "activate"
      BY <2>1, <2>4, ActivateSends, Zenon
    <2> QED BY <2>2, <2>3, <2>4, Zenon
  <1>10. VerifiesExactlyTheImage'
    <2>1. F!CompleteImageIsVerified'
      BY <1>2, Zenon DEF F!CompleteImageIsVerified
    <2>2. ASSUME status = "VERIFIED", call.op # "start", NEW p \in Positions
          PROVE  Place(p)' = FirmwareImage[p]
      <3>1. call.op = "activate"
        BY <1>3, <2>2, KindIs, Zenon
      <3>2. Place(p) = FirmwareImage[p]
        BY <2>2, Zenon DEF ImageInv, VerifiesExactlyTheImage, F!VerifiesExactlyTheImage,
                           F!VerifiedImageIsInPlace, Place, Positions
      <3> QED BY <3>1, <3>2, ActivateSends, Zenon
    <2>3. F!VerifiedImageIsInPlace'
      BY <1>2, <2>2, Zenon DEF F!VerifiedImageIsInPlace, Place, Positions
    <2> QED BY <2>1, <2>3, Zenon DEF VerifiesExactlyTheImage, F!VerifiesExactlyTheImage
  <1> QED BY <1>2, <1>4, <1>6, <1>7, <1>8, <1>9, <1>10, Zenon DEF ImageInv

LEMMA ImageEnds ==
  ASSUME F!SpiFlashAssumption, ImageInv, F!LoopEnds, part' = part
  PROVE  ImageInv'
  <1>1. Basics /\ RangeOfCall
    BY Zenon DEF ImageInv
  <1>2. /\ Basics' /\ RangeOfCall' /\ Running /\ pc = "loop" /\ pc' = "return"
        /\ UNCHANGED <<mem, busy, detected, call, addr, hashed>>
        /\ UNCHANGED <<status, flash_last_addr, flash_offset, acked, refused, skipped>>
        /\ F!IsErase => call.end < addr /\ addr <= Total /\ call.end \in Nat
        /\ Programs => addr = call.end
        /\ Behind = addr /\ addr \in Nat
    BY <1>1, EndIs, Zenon DEF Rest
  <1>3. call.op \notin {"none", "verify"} /\ ~Running' /\ detected
    BY <1>1, <1>2, Zenon DEF Basics, Running, F!IsErase, Programs
  <1>4. StartInv'
    <2> SUFFICES ASSUME call.op = "start" PROVE StartInv'
      BY <1>2, Zenon DEF StartInv
    <2>1. /\ acked = {} /\ refused = << >> /\ ~skipped /\ flash_last_addr = 0
          /\ detected => flash_offset = Block
          /\ call.end = Total - 1 /\ BehindHeaderErased(BlockOf(addr))
          /\ busy => addr = 0
      BY <1>2, Zenon DEF ImageInv, StartInv
    <2>2. F!IsErase
      BY Zenon DEF F!IsErase
    <2>3. /\ Total \in Nat /\ Total > 0 /\ Total % Block = 0 /\ Block \in Nat /\ Block > 1
      BY Sizes, Zenon
    <2>4. addr = Total /\ ~busy /\ Block > 0
      BY <1>2, <2>1, <2>2, <2>3, SMT
    <2>5. BehindHeaderErased(Total)
      <3> SUFFICES ASSUME NEW x \in F!Addresses, BlockOf(x) \in 1 .. Total - 1
                   PROVE  mem[x] = F!Erased
        BY Zenon DEF BehindHeaderErased
      <3>1. x \in Nat /\ x < Total
        BY <2>3, SMT DEF F!Addresses
      <3>2. x \div Block < Total \div Block
        BY <2>3, <2>4, <3>1, DivAligned, Zenon
      <3>3. x \div Block \in Nat /\ Total \div Block \in Nat
        BY <2>3, <2>4, <3>1, DivMod, Zenon
      <3>4. BlockOf(x) \in 1 .. BlockOf(Total) - 1
        <4> DEFINE k == x \div Block
                   l == Total \div Block
        <4>1. k < l /\ k \in Nat /\ l \in Nat /\ k \in 1 .. Total - 1
          BY <3>2, <3>3, Zenon DEF BlockOf
        <4> HIDE DEF k, l
        <4>2. k \in 1 .. l - 1
          BY <2>3, <4>1, SMT
        <4> QED BY <4>2, Zenon DEF k, l, BlockOf
      <3> QED BY <2>1, <2>4, <3>4, Zenon DEF BehindHeaderErased
    <2>6. BehindHeaderErased(Total)'
      BY <1>2, <2>5, Zenon DEF BehindHeaderErased, F!Addresses, F!Erased, BlockOf
    <2> QED BY <1>2, <1>3, <2>1, <2>4, <2>6, Zenon DEF StartInv
  <1>5. UploadInv'
    BY <1>2, Zenon DEF ImageInv, UploadInv, Uploading, Programmable, FirstChunkInPlace, FirstChunk,
                       InPlace, Place, Positions
  <1>6. WriteInv'
    <2> SUFFICES ASSUME call.op = "write" PROVE WriteInv'
      BY <1>2, Zenon DEF WriteInv
    <2>1. /\ status = "IN_PROGRESS" /\ refused # << >> /\ refused[1] + refused[2] <= flash_last_addr
          /\ call.end = Block + refused[1] + refused[2]
          /\ ~skipped => \A p \in refused[1] + 1 .. addr - Block : InPlace(p)
          /\ busy => addr = Block + refused[1]
      BY <1>2, Zenon DEF ImageInv, WriteInv
    <2>2. busy /\ ~skipped => refused[2] > 0
      BY <2>1, Zenon DEF ImageInv, UploadInv, Uploading, FirstChunkInPlace
    <2>3. addr = call.end
      BY <1>2, Zenon DEF Programs
    <2>4. refused[1] \in Nat /\ refused[2] \in Nat /\ Block \in Nat
      BY <1>1, <2>1, RecordIs, Sizes, Zenon DEF Basics, UploadTypes
    <2>5. ~skipped => ~busy
      BY <2>1, <2>2, <2>3, <2>4, SMT
    <2>6. addr - Block = refused[1] + refused[2]
      BY <2>1, <2>3, <2>4, SMT
    <2>7. ~skipped => \A p \in refused[1] + 1 .. refused[1] + refused[2] : InPlace(p)
      BY <2>1, <2>6, Zenon
    <2> QED BY <1>2, <1>3, <2>1, <2>5, <2>7, Zenon DEF WriteInv, InPlace, Place
  <1>7. VerifyInv' /\ ActivateInv' /\ CommandInv'
    <2>1. VerifyInv'
      BY <1>2, <1>3, Zenon DEF VerifyInv
    <2>2. ActivateInv'
      BY <1>2, <1>3, Zenon DEF ImageInv, ActivateInv
    <2>3. CommandInv'
      BY <1>2, Zenon DEF ImageInv, CommandInv, Commanded
    <2> QED BY <2>1, <2>2, <2>3
  <1>8. UploadIsInPlace'
    BY <1>2, Zenon DEF ImageInv, UploadIsInPlace, F!UploadIsInPlace
  <1>9. VerifiesExactlyTheImage'
    <2>1. F!CompleteImageIsVerified'
      BY <1>2, <1>3, Zenon DEF F!CompleteImageIsVerified
    <2>2. F!VerifiedImageIsInPlace'
      BY <1>2, Zenon DEF ImageInv, VerifiesExactlyTheImage, F!VerifiesExactlyTheImage,
                         F!VerifiedImageIsInPlace
    <2> QED BY <2>1, <2>2, Zenon DEF VerifiesExactlyTheImage, F!VerifiesExactlyTheImage
  <1> QED BY <1>2, <1>4, <1>5, <1>6, <1>7, <1>8, <1>9, Zenon DEF ImageInv

LEMMA ImagePolls ==
  ASSUME F!SpiFlashAssumption, ImageInv, F!Poll, part' = part
  PROVE  ImageInv'
  <1>1. Basics /\ RangeOfCall /\ CallTypes
    BY Zenon DEF ImageInv, Basics
  <1>2. /\ Basics' /\ RangeOfCall' /\ Running /\ F!More /\ pc = "wait" /\ (F!IsErase \/ Programs)
        /\ UNCHANGED <<mem, busy, detected, hashed>>
        /\ UNCHANGED <<status, flash_last_addr, flash_offset, acked, refused, skipped>>
        /\ GivesUp \/ PollsOn \/ GoesOn
        /\ PollsOn => Behind' = Behind
    BY <1>1, PollIs, Zenon DEF Rest
  <1>3. call'.op = call.op /\ call'.end = call.end
    BY <1>2, Zenon DEF GivesUp, PollsOn, GoesOn
  <1>4. call.op # "none" /\ call.op # "verify"
    BY <1>2, Zenon DEF Programs, F!IsErase
  <1>5. /\ ~(pc' = "return" /\ ret' = 0) /\ pc' # "idle" /\ pc' # "read"
        /\ Running' => Behind' = Behind /\ ~(pc' = "loop" /\ busy')
    <2>1. CASE GivesUp
      BY <2>1, SMT DEF GivesUp, Running
    <2>2. CASE PollsOn
      BY <1>2, <2>2, Zenon DEF PollsOn, Running
    <2>3. CASE GoesOn
      BY <1>2, <2>3, Zenon DEF GoesOn, Running
    <2> QED BY <1>2, <2>1, <2>2, <2>3
  <1>6. /\ Programmable' = Programmable /\ FirstChunkInPlace' = FirstChunkInPlace
        /\ UploadIsInPlace' = UploadIsInPlace
        /\ F!VerifiedImageIsInPlace' = F!VerifiedImageIsInPlace
    BY <1>2, <1>3, Zenon DEF Programmable, FirstChunkInPlace, FirstChunk, UploadIsInPlace,
         F!UploadIsInPlace, F!VerifiedImageIsInPlace, InPlace, Place, Positions
  <1>7. StartInv'
    <2> SUFFICES ASSUME call.op = "start" PROVE StartInv'
      BY <1>3, Zenon DEF StartInv
    <2>1. /\ acked = {} /\ refused = << >> /\ ~skipped /\ flash_last_addr = 0
          /\ detected => flash_offset = Block
          /\ call.end = Total - 1 /\ BehindHeaderErased(BlockOf(Behind))
      BY <1>2, Zenon DEF ImageInv, StartInv
    <2>2. Running' => BehindHeaderErased(BlockOf(Behind))'
      BY <1>2, <1>5, <2>1, Zenon DEF BehindHeaderErased, F!Addresses, F!Erased, BlockOf
    <2> QED BY <1>2, <1>3, <1>5, <2>1, <2>2, Zenon DEF StartInv, Running
  <1>8. UploadInv'
    BY <1>2, <1>3, <1>6, Zenon DEF ImageInv, UploadInv, Uploading
  <1>9. WriteInv'
    <2> SUFFICES ASSUME call.op = "write" PROVE WriteInv'
      BY <1>3, Zenon DEF WriteInv
    <2>1. /\ status = "IN_PROGRESS" /\ refused # << >> /\ refused[1] + refused[2] <= flash_last_addr
          /\ call.end = Block + refused[1] + refused[2] /\ addr >= Block + refused[1]
          /\ \A j \in 1 .. Len(call.data) : call.data[j] = FirmwareImage[addr - Block + j]
          /\ ~skipped => /\ \A p \in refused[1] + 1 .. Behind - Block : InPlace(p)
                         /\ FirstChunkInPlace
      BY <1>2, Zenon DEF ImageInv, WriteInv
    <2>2. ASSUME Running'
          PROVE  /\ addr' >= Block + refused[1]
                 /\ \A j \in 1 .. Len(call'.data) : call'.data[j] = FirmwareImage[addr' - Block + j]
      <3>1. CASE PollsOn
        BY <2>1, <3>1, Zenon DEF PollsOn
      <3>2. CASE GoesOn
        <4> DEFINE c == F!ProgramChunk
        <4>1. /\ Len(call'.data) = Len(call.data) - c
              /\ \A j \in 1 .. Len(call'.data) : call'.data[j] = call.data[c + j]
              /\ addr' = addr + F!Step
          BY <3>2, Zenon DEF GoesOn, Programs
        <4>2. F!Step = c /\ c \in 1 .. Len(call.data) /\ addr \in Nat
          BY <1>1, <1>2, RangeIs, Zenon DEF Programs
        <4> DEFINE m == Len(call.data)
        <4>3. m \in Nat /\ Block \in Nat /\ refused[1] \in Nat
          BY <1>1, <2>1, CallFields, RecordIs, Sizes, Zenon DEF Basics, UploadTypes
        <4>4. addr' = addr + c /\ c \in 1 .. m /\ Len(call'.data) = m - c
          BY <4>1, <4>2, Zenon
        <4> HIDE DEF c, m
        <4>5. addr' >= Block + refused[1]
          BY <2>1, <4>2, <4>3, <4>4, SMT
        <4>6. ASSUME NEW j \in 1 .. Len(call'.data)
              PROVE  call'.data[j] = FirmwareImage[addr' - Block + j]
          <5>1. c + j \in 1 .. m /\ addr - Block + (c + j) = addr' - Block + j
            BY <4>2, <4>3, <4>4, <4>6, SMT
          <5> DEFINE i == c + j
          <5>2. i \in 1 .. Len(call.data) /\ addr - Block + i = addr' - Block + j
            BY <5>1, Zenon DEF m
          <5>3. call'.data[j] = call.data[i]
            BY <4>1, <4>6, Zenon DEF c
          <5> HIDE DEF i
          <5>4. call.data[i] = FirmwareImage[addr - Block + i]
            BY <2>1, <5>2, Zenon
          <5> QED BY <5>2, <5>3, <5>4, Zenon
        <4> QED BY <4>5, <4>6, Zenon
      <3>3. CASE GivesUp
        BY <2>2, <3>3, Zenon DEF GivesUp, Running
      <3> QED BY <1>2, <3>1, <3>2, <3>3
    <2>3. Running' /\ ~skipped => \A p \in refused'[1] + 1 .. Behind' - Block : InPlace(p)'
      BY <1>2, <1>5, <2>1, Zenon DEF InPlace, Place
    <2> QED BY <1>2, <1>3, <1>5, <1>6, <2>1, <2>2, <2>3, Zenon DEF WriteInv, Running
  <1>10. VerifyInv' /\ ActivateInv' /\ CommandInv'
    <2>1. VerifyInv'
      BY <1>3, <1>4, Zenon DEF VerifyInv
    <2>2. ActivateInv'
      BY <1>2, <1>3, Zenon DEF ImageInv, ActivateInv
    <2>3. CommandInv'
      BY <1>2, <1>3, Zenon DEF ImageInv, CommandInv, Commanded
    <2> QED BY <2>1, <2>2, <2>3
  <1>11. VerifiesExactlyTheImage'
    <2>1. F!CompleteImageIsVerified'
      BY <1>3, <1>4, Zenon DEF F!CompleteImageIsVerified
    <2> QED BY <1>6, <2>1, Zenon DEF ImageInv, VerifiesExactlyTheImage, F!VerifiesExactlyTheImage
  <1> QED BY <1>2, <1>6, <1>7, <1>8, <1>9, <1>10, <1>11, Zenon DEF ImageInv

LEMMA ImageReadies ==
  ASSUME ImageInv, F!Ready, part' = part
  PROVE  ImageInv'
  <1>1. /\ Basics' /\ RangeOfCall' /\ busy' = FALSE /\ Behind' = Behind
        /\ UNCHANGED <<mem, detected, pc, ret, call, addr, hashed>>
        /\ UNCHANGED <<status, flash_last_addr, flash_offset, acked, refused, skipped>>
    BY ReadyIs, Zenon DEF ImageInv, Rest
  <1>2. /\ Running' = Running /\ Uploading' = Uploading
        /\ Programmable' = Programmable /\ FirstChunkInPlace' = FirstChunkInPlace
        /\ UploadIsInPlace' = UploadIsInPlace /\ VerifiesExactlyTheImage' = VerifiesExactlyTheImage
    BY <1>1, Zenon DEF Running, Uploading, Programmable, FirstChunkInPlace, FirstChunk, UploadIsInPlace,
         F!UploadIsInPlace, InPlace, Place, Positions, VerifiesExactlyTheImage,
         F!VerifiesExactlyTheImage, F!VerifiedImageIsInPlace, F!CompleteImageIsVerified
  <1>3. StartInv'
    BY <1>1, <1>2, Zenon DEF ImageInv, StartInv, BehindHeaderErased, F!Addresses, F!Erased, BlockOf
  <1>4. UploadInv'
    BY <1>1, <1>2, Zenon DEF ImageInv, UploadInv
  <1>5. WriteInv'
    BY <1>1, <1>2, Zenon DEF ImageInv, WriteInv, InPlace, Place
  <1>6. VerifyInv'
    BY <1>1, Zenon DEF ImageInv, VerifyInv, InPlace, Place, Positions, F!Erased
  <1>7. ActivateInv' /\ CommandInv'
    BY <1>1, <1>2, Zenon DEF ImageInv, ActivateInv, CommandInv, Commanded
  <1> QED BY <1>1, <1>2, <1>3, <1>4, <1>5, <1>6, <1>7, Zenon DEF ImageInv

(* What a verification has read ends with the checksum's beginning.         *)
LEMMA VerifyIs ==
  ASSUME F!SpiFlashAssumption, ImageInv, pc = "read"
  PROVE  /\ Basics /\ CallTypes /\ call.op = "verify" /\ Uploading /\ UploadInv /\ flash_offset = Block
         /\ addr \in Nat /\ call.end \in Nat /\ Len(hashed) \in Nat /\ hashed \in Seq(SUBSET Bits)
         /\ call.end = Block + flash_last_addr - 2 /\ addr = Block + Len(hashed)
         /\ flash_last_addr \in Nat /\ flash_last_addr <= Len(FirmwareImage)
         /\ call.end + 2 <= Total /\ (hashed # << >> => addr <= call.end)
         /\ busy => skipped \/ refused # << >>
         /\ \A i \in 1 .. Len(hashed) :
              hashed[i] = Place(i) \/ (hashed[i] = F!Erased /\ (skipped \/ refused # << >>))
  <1>1. Basics /\ CallTypes /\ UploadTypes /\ call.op = "verify"
    BY Zenon DEF ImageInv, Basics
  <1>2. addr \in Nat /\ call.end \in Nat /\ Len(hashed) \in Nat /\ hashed \in Seq(SUBSET Bits)
    BY <1>1, CallFields, Zenon
  <1>3. /\ status = "IN_PROGRESS" /\ call.end = Block + flash_last_addr - 2
        /\ addr = Block + Len(hashed) /\ (hashed # << >> => addr <= call.end)
        /\ \A i \in 1 .. Len(hashed) :
             hashed[i] = Place(i) \/ (hashed[i] = F!Erased /\ (skipped \/ refused # << >>))
    BY <1>1, Zenon DEF ImageInv, VerifyInv
  <1>4. Uploading /\ UploadInv /\ call.op # "start"
    BY <1>1, <1>3, Zenon DEF ImageInv, Uploading
  <1>5. flash_last_addr <= Len(FirmwareImage) /\ flash_offset = Block /\ (busy => skipped \/ refused # << >>)
    BY <1>4, Zenon DEF UploadInv
  <1>6. flash_last_addr \in Nat
    BY <1>1, Sizes, SMT DEF UploadTypes
  <1>7. call.end + 2 <= Total
    <2>1. /\ Block \in Nat /\ Total \in Nat /\ Block + Len(FirmwareImage) <= Total
          /\ FirmwareImage \in Seq(SUBSET Bits)
      BY Sizes, Zenon
    <2>2. Len(FirmwareImage) \in Nat
      BY <2>1, SMT
    <2> QED BY <1>3, <1>5, <1>6, <2>1, <2>2, SMT
  <1> QED BY <1>1, <1>2, <1>3, <1>4, <1>5, <1>6, <1>7, Zenon

(* A verification changes nothing of the upload.                            *)
LEMMA VerifyFrame ==
  ASSUME ImageInv, Basics', RangeOfCall', part' = part, call'.op = "verify", call.op = "verify" \/ pc = "idle",
         status = "IN_PROGRESS",
         pc' \in {"read", "return"}, VerifyInv', F!CompleteImageIsVerified',
         UNCHANGED <<mem, busy, detected, status, flash_last_addr, flash_offset, acked, refused, skipped>>
  PROVE  ImageInv'
  <1>1. /\ Uploading /\ Uploading'
    BY Zenon DEF Uploading, ImageInv, Basics
  <1>2. /\ Programmable' = Programmable /\ FirstChunkInPlace' = FirstChunkInPlace
        /\ UploadIsInPlace' = UploadIsInPlace
    BY Zenon DEF Programmable, FirstChunkInPlace, FirstChunk, UploadIsInPlace,
         F!UploadIsInPlace, InPlace, Place, Positions
  <1>3. UploadInv'
    BY <1>1, <1>2, Zenon DEF ImageInv, UploadInv
  <1>4. StartInv' /\ WriteInv' /\ ActivateInv'
    BY Zenon DEF StartInv, WriteInv, ActivateInv
  <1>5. ~Commanded
    BY Zenon DEF ImageInv, CommandInv, Commanded
  <1>6. CommandInv'
    BY <1>5, Zenon DEF CommandInv, Commanded
  <1>7. VerifiesExactlyTheImage'
    BY Zenon DEF VerifiesExactlyTheImage, F!VerifiesExactlyTheImage, F!VerifiedImageIsInPlace
  <1> QED BY <1>2, <1>3, <1>4, <1>6, <1>7, Zenon DEF ImageInv

LEMMA ImageReads ==
  ASSUME F!SpiFlashAssumption, ImageInv, F!ReadChunk, part' = part
  PROVE  ImageInv' /\ UNCHANGED <<mem, promised>> /\ call'.op = "verify" /\ pc' = "read"
  <1> DEFINE n == F!VerifyChunk
  <1>1. /\ pc = "read" /\ pc' = "read" /\ addr < call.end /\ hashed' = hashed \o F!Read(addr, n)
        /\ addr' = (addr + n) % AddrMod
        /\ UNCHANGED <<mem, busy, detected, ret, call, retries, status, flash_last_addr, flash_offset,
                       promised, ready, acked, refused, skipped>>
    BY Zenon DEF F!ReadChunk, F!device, F!upgrade, F!upload
  <1>2. /\ Basics /\ CallTypes /\ call.op = "verify" /\ Uploading
        /\ addr \in Nat /\ call.end \in Nat /\ Len(hashed) \in Nat /\ hashed \in Seq(SUBSET Bits)
        /\ call.end = Block + flash_last_addr - 2 /\ addr = Block + Len(hashed)
        /\ call.end + 2 <= Total
        /\ busy => skipped \/ refused # << >>
        /\ \A i \in 1 .. Len(hashed) :
             hashed[i] = Place(i) \/ (hashed[i] = F!Erased /\ (skipped \/ refused # << >>))
    BY <1>1, VerifyIs, Zenon
  <1>3. /\ Chunk \in Nat /\ Chunk > 0 /\ Total \in Nat /\ AddrMod \in Nat /\ Block \in Nat
        /\ AddrMod > FirmwareStart + Total /\ FirmwareStart \in Nat
    BY Sizes, Zenon
  <1>4. n \in Nat /\ n > 0 /\ addr + n <= call.end
    <2> DEFINE e == call.end
    <2>1. e \in Nat /\ addr \in Nat /\ addr < e /\ Chunk \in Nat /\ Chunk > 0
      BY <1>1, <1>2, <1>3, Zenon
    <2>2. n = IF e - addr > Chunk THEN Chunk ELSE e - addr
      BY Zenon DEF F!VerifyChunk
    <2> HIDE DEF n, e
    <2>3. n \in Nat /\ n > 0 /\ addr + n <= e
      BY <2>1, <2>2, SMT
    <2> QED BY <2>3, Zenon DEF e
  <1> HIDE DEF n
  <1>5. addr' = addr + n /\ addr + n < AddrMod /\ addr + n \in Nat /\ addr + n <= Total
    <2> DEFINE e == call.end
    <2>1. e \in Nat /\ addr \in Nat /\ e + 2 <= Total /\ addr + n <= e /\ n \in Nat
      BY <1>2, <1>4, Zenon
    <2> HIDE DEF e
    <2>2. addr + n < AddrMod /\ addr + n \in Nat /\ addr + n <= Total /\ AddrMod > 0
      BY <1>3, <2>1, SMT
    <2>3. (addr + n) % AddrMod = addr + n
      BY <1>3, <2>2, SMT
    <2> QED BY <1>1, <2>2, <2>3, Zenon
  <1> DEFINE s == F!Read(addr, n)
  <1>6. /\ s \in Seq(SUBSET Bits) /\ Len(s) = n
        /\ \A i \in 1 .. n : s[i] = IF busy THEN F!Erased ELSE mem[addr + i - 1]
    BY <1>2, <1>4, <1>5, ReadIs, Zenon
  <1>7. hashed' = hashed \o s
    BY <1>1, Zenon
  <1> HIDE DEF s
  <1>8. /\ hashed' \in Seq(SUBSET Bits) /\ Len(hashed') = Len(hashed) + n
        /\ \A i \in 1 .. Len(hashed) : hashed'[i] = hashed[i]
        /\ \A i \in 1 .. n : hashed'[Len(hashed) + i] = s[i]
    <2>1. \A u, v \in Seq(SUBSET Bits) :
            /\ u \o v \in Seq(SUBSET Bits) /\ Len(u \o v) = Len(u) + Len(v)
            /\ \A i \in 1 .. Len(u) : (u \o v)[i] = u[i]
            /\ \A i \in 1 .. Len(v) : (u \o v)[Len(u) + i] = v[i]
      BY SMT
    <2> QED BY <1>2, <1>6, <1>7, <2>1, Zenon
  <1>9. Basics'
    <2>1. addr' \in 0 .. AddrMod - 1
      BY <1>3, <1>5, SMT
    <2>2. CallTypes'
      BY <1>1, <1>2, <1>8, <2>1, Zenon DEF CallTypes, F!Addresses, F!Operations
    <2>3. UploadTypes'
      BY <1>1, <1>2, Zenon DEF UploadTypes, Basics
    <2> QED BY <1>1, <1>2, <2>2, <2>3, Zenon DEF Basics, Running
  <1>10. RangeOfCall'
    BY <1>1, Zenon DEF RangeOfCall, Running
  <1>11. status = "IN_PROGRESS"
    BY <1>2, Zenon DEF Uploading
  <1>12. VerifyInv'
    <2>1. addr' = Block + Len(hashed')
      BY <1>2, <1>3, <1>4, <1>5, <1>8, SMT
    <2>2. addr' <= call.end
      BY <1>4, <1>5, Zenon
    <2>3. ASSUME NEW i \in 1 .. Len(hashed')
          PROVE  hashed'[i] = Place(i) \/ (hashed'[i] = F!Erased /\ (skipped \/ refused # << >>))
      <3> DEFINE h == Len(hashed)
      <3>1. h \in Nat /\ i \in 1 .. h + n /\ addr = Block + h
        BY <1>2, <1>8, <2>3, Zenon
      <3> HIDE DEF h
      <3>2. CASE i \in 1 .. h
        BY <1>2, <1>8, <3>2, Zenon DEF h
      <3>3. CASE i \notin 1 .. h
        <4> DEFINE j == i - h
        <4>1. j \in 1 .. n /\ h + j = i /\ addr + j - 1 = Block + i - 1
          BY <1>3, <1>4, <3>1, <3>3, SMT
        <4> HIDE DEF j
        <4>2. hashed'[i] = s[j]
          BY <1>8, <4>1, Zenon DEF h
        <4>3. s[j] = IF busy THEN F!Erased ELSE mem[addr + j - 1]
          BY <1>6, <4>1, Zenon
        <4>4. (s[j] = F!Erased /\ busy) \/ s[j] = Place(i)
          BY <4>1, <4>3, Zenon DEF Place
        <4> QED BY <1>2, <4>2, <4>4, Zenon
      <3> QED BY <3>2, <3>3
    <2> QED BY <1>1, <1>2, <1>11, <2>1, <2>2, <2>3, Zenon DEF VerifyInv, Place, F!Erased
  <1>13. F!CompleteImageIsVerified'
    BY <1>1, Zenon DEF F!CompleteImageIsVerified
  <1>14. call'.op = "verify"
    BY <1>1, <1>2, Zenon
  <1>15. ImageInv'
    BY <1>1, <1>2, <1>9, <1>10, <1>11, <1>12, <1>13, <1>14, VerifyFrame, Zenon
  <1> QED BY <1>1, <1>14, <1>15, Zenon

LEMMA SeqFacts ==
         /\ \A u \in Seq(SUBSET Bits) : Len(u) \in Nat /\ (u # << >> <=> Len(u) > 0)
         /\ \A u, v \in Seq(SUBSET Bits) :
              Len(u) = Len(v) /\ (\A i \in 1 .. Len(u) : u[i] = v[i]) => u = v
         /\ \A u, v \in Seq(SUBSET Bits) :
              /\ u \o v \in Seq(SUBSET Bits) /\ Len(u \o v) = Len(u) + Len(v)
              /\ \A i \in 1 .. Len(u) : (u \o v)[i] = u[i]
              /\ \A i \in 1 .. Len(v) : (u \o v)[Len(u) + i] = v[i]
  <1>1. \A u \in Seq(SUBSET Bits) : Len(u) \in Nat /\ (u # << >> <=> Len(u) > 0)
    BY SMT
  <1>2. \A u, v \in Seq(SUBSET Bits) :
          Len(u) = Len(v) /\ (\A i \in 1 .. Len(u) : u[i] = v[i]) => u = v
    BY SMT
  <1>3. \A u, v \in Seq(SUBSET Bits) :
          /\ u \o v \in Seq(SUBSET Bits) /\ Len(u \o v) = Len(u) + Len(v)
          /\ \A i \in 1 .. Len(u) : (u \o v)[i] = u[i]
          /\ \A i \in 1 .. Len(v) : (u \o v)[Len(u) + i] = v[i]
    BY SMT
  <1> QED BY <1>1, <1>2, <1>3, Zenon

LEMMA ImageCompares ==
  ASSUME F!SpiFlashAssumption, ImageInv, F!CompareCrc, part' = part
  PROVE  ImageInv' /\ UNCHANGED <<mem, promised>> /\ call'.op = "verify" /\ pc' = "return"
  <1> DEFINE s == F!Read(call.end, 2)
             h == Len(hashed)
             L == Len(FirmwareImage)
             all == hashed \o s
  <1>1. /\ pc = "read" /\ addr >= call.end /\ pc' = "return"
        /\ ret' = IF all = FirmwareImage THEN 0 ELSE -1
        /\ UNCHANGED <<mem, busy, detected, call, addr, retries, hashed, status, flash_last_addr, flash_offset,
                       promised, ready, acked, refused, skipped>>
    BY Zenon DEF F!CompareCrc, F!device, F!driver, F!upgrade, F!upload
  <1>2. /\ Basics /\ CallTypes /\ call.op = "verify" /\ Uploading /\ UploadInv
        /\ addr \in Nat /\ call.end \in Nat /\ h \in Nat /\ hashed \in Seq(SUBSET Bits)
        /\ call.end = Block + flash_last_addr - 2 /\ addr = Block + h
        /\ flash_last_addr \in Nat /\ flash_last_addr <= L
        /\ call.end + 2 <= Total /\ (hashed # << >> => addr <= call.end)
        /\ busy => skipped \/ refused # << >>
        /\ \A i \in 1 .. h :
             hashed[i] = Place(i) \/ (hashed[i] = F!Erased /\ (skipped \/ refused # << >>))
    BY <1>1, VerifyIs, Zenon
  <1>3. /\ Block \in Nat /\ FirmwareImage \in Seq(SUBSET Bits) /\ L > 2
    BY Sizes, Zenon
  <1>4. L \in Nat
    BY <1>3, SeqFacts, Zenon
  <1>5. /\ s \in Seq(SUBSET Bits) /\ Len(s) = 2
        /\ \A i \in 1 .. 2 : s[i] = IF busy THEN F!Erased ELSE mem[call.end + i - 1]
    <2>1. 2 \in Nat
      BY SMT
    <2> QED BY <1>2, <2>1, ReadIs, Zenon
  <1> HIDE DEF s
  <1>6. /\ all \in Seq(SUBSET Bits) /\ Len(all) = h + 2
        /\ \A i \in 1 .. h : all[i] = hashed[i]
        /\ \A i \in 1 .. 2 : all[h + i] = s[i]
    <2>1. /\ all \in Seq(SUBSET Bits) /\ Len(all) = Len(hashed) + Len(s)
          /\ \A i \in 1 .. Len(hashed) : all[i] = hashed[i]
          /\ \A i \in 1 .. Len(s) : all[Len(hashed) + i] = s[i]
      BY <1>2, <1>5, SeqFacts, Zenon
    <2> HIDE DEF all
    <2> QED BY <1>5, <2>1, Zenon
  <1>7. hashed # << >> <=> h > 0
    BY <1>2, SeqFacts, Zenon
  <1> HIDE DEF h, L, all
  <1>8. ASSUME h > 0
        PROVE  /\ addr = call.end
               /\ \A i \in 1 .. 2 : (s[i] = F!Erased /\ busy) \/ s[i] = Place(h + i)
    <2> DEFINE e == call.end
    <2>1. e \in Nat /\ addr \in Nat /\ addr <= e /\ addr >= e /\ addr = Block + h /\ h \in Nat
      BY <1>1, <1>2, <1>7, <1>8, Zenon
    <2> HIDE DEF e
    <2>2. addr = e
      BY <2>1, SMT
    <2>3. \A i \in 1 .. 2 : e + i - 1 = Block + (h + i) - 1
      BY <1>3, <2>1, <2>2, SMT
    <2>4. ASSUME NEW i \in 1 .. 2 PROVE (s[i] = F!Erased /\ busy) \/ s[i] = Place(h + i)
      <3>1. s[i] = IF busy THEN F!Erased ELSE mem[e + i - 1]
        BY <1>5, Zenon DEF e
      <3>2. mem[e + i - 1] = Place(h + i)
        BY <2>3, Zenon DEF Place
      <3> QED BY <3>1, <3>2, Zenon
    <2> QED BY <2>2, <2>4, Zenon DEF e
  <1>9. ASSUME all = FirmwareImage, NEW p \in Positions
        PROVE  InPlace(p)
    <2>1. L = h + 2 /\ h > 0
      <3>1. L = h + 2
        BY <1>6, <1>9, Zenon DEF L
      <3> QED BY <1>2, <1>3, <3>1, SMT
    <2>2. /\ p \in Nat /\ p >= 1 /\ p <= L /\ FirmwareImage[p] \in SUBSET Bits
          /\ Block + p - 1 \in F!Addresses
      BY PlaceIs, Zenon DEF L
    <2>3. Place(p) \subseteq F!Erased /\ FirmwareImage[p] \subseteq Place(p)
      <3>1. Place(p) \in SUBSET Bits
        BY <1>2, <2>2, Zenon DEF CallTypes, Place
      <3>2. Programmable
        BY <1>2, Zenon DEF UploadInv
      <3> QED BY <3>1, <3>2, Zenon DEF Programmable, F!Erased
    <2>4. FirmwareImage[p] = Place(p) \/ FirmwareImage[p] = F!Erased
      <3>1. CASE p \in 1 .. h
        <4>1. FirmwareImage[p] = hashed[p]
          BY <1>6, <1>9, <3>1, Zenon
        <4> QED BY <1>2, <3>1, <4>1, Zenon
      <3>2. CASE p \notin 1 .. h
        <4> DEFINE i == p - h
        <4>1. i \in 1 .. 2 /\ h + i = p
          BY <1>2, <2>1, <2>2, <3>2, SMT
        <4> HIDE DEF i
        <4>2. FirmwareImage[p] = s[i]
          BY <1>6, <1>9, <4>1, Zenon
        <4> QED BY <1>8, <2>1, <4>1, <4>2, Zenon
      <3> QED BY <3>1, <3>2
    <2> QED BY <2>3, <2>4, Zenon DEF InPlace
  <1>10. ASSUME acked = 1 .. L, ~skipped, refused = << >>
         PROVE  all = FirmwareImage
    <2>1. flash_last_addr = L
      <3>1. L \in 1 .. L
        BY <1>3, <1>4, SMT
      <3>2. L \in 1 .. flash_last_addr
        BY <1>2, <1>10, <3>1, Zenon DEF UploadInv
      <3> QED BY <1>2, <1>4, <3>2, SMT
    <2>2. h > 0 /\ L = h + 2
      <3> DEFINE e == call.end
      <3>1. /\ e = Block + L - 2 /\ addr = Block + h /\ addr >= e /\ (h > 0 => addr <= e)
            /\ h \in Nat /\ e \in Nat /\ addr \in Nat
        BY <1>1, <1>2, <1>7, <2>1, Zenon
      <3> HIDE DEF e
      <3> QED BY <1>3, <1>4, <3>1, SMT
    <2>3. ~busy /\ UploadIsInPlace
      BY <1>2, <1>10, Zenon DEF ImageInv
    <2>4. \A p \in 1 .. L : Place(p) = FirmwareImage[p]
      BY <1>10, <2>3, Zenon DEF UploadIsInPlace, F!UploadIsInPlace, Place
    <2>5. ASSUME NEW p \in 1 .. L PROVE all[p] = FirmwareImage[p]
      <3>1. CASE p \in 1 .. h
        BY <1>2, <1>6, <1>10, <2>4, <2>5, <3>1, Zenon
      <3>2. CASE p \notin 1 .. h
        <4> DEFINE i == p - h
        <4>1. i \in 1 .. 2 /\ h + i = p
          BY <1>2, <2>2, <2>5, <3>2, SMT
        <4> HIDE DEF i
        <4>2. all[p] = s[i] /\ s[i] = Place(p)
          BY <1>6, <1>8, <2>2, <2>3, <4>1, Zenon
        <4> QED BY <2>4, <2>5, <4>2, Zenon
      <3> QED BY <3>1, <3>2
    <2>6. Len(all) = Len(FirmwareImage) /\ Len(all) = L
      BY <1>6, <2>2, Zenon DEF L
    <2> QED BY <1>3, <1>6, <2>5, <2>6, SeqFacts, Zenon
  <1>11. VerifyInv'
    <2>1. ret' = 0 => all = FirmwareImage
      BY <1>1, SMT
    <2>2. ret' = 0 => \A p \in Positions : InPlace(p)
      BY <1>9, <2>1, Zenon
    <2>3. status' = "IN_PROGRESS"
      BY <1>1, <1>2, Zenon DEF Uploading
    <2> QED BY <1>1, <2>2, <2>3, Zenon DEF VerifyInv, InPlace, Place, Positions
  <1>12. F!CompleteImageIsVerified'
    BY <1>1, <1>10, Zenon DEF F!CompleteImageIsVerified, L
  <1>13. Basics' /\ RangeOfCall'
    <2>1. ret' \in {0, -1}
      BY <1>1, SMT
    <2>2. CallTypes'
      BY <1>1, <1>2, <2>1, Zenon DEF CallTypes, F!Addresses, F!Operations
    <2>3. UploadTypes'
      BY <1>1, <1>2, Zenon DEF UploadTypes, Basics
    <2> QED BY <1>1, <1>2, <2>2, <2>3, Zenon DEF Basics, RangeOfCall, Running
  <1>14. call'.op = "verify" /\ status = "IN_PROGRESS"
    BY <1>1, <1>2, Zenon DEF Uploading
  <1>15. ImageInv'
    BY <1>1, <1>2, <1>11, <1>12, <1>13, <1>14, VerifyFrame, Zenon
  <1> QED BY <1>1, <1>14, <1>15, Zenon

LEMMA VerifyBegins ==
  ASSUME F!SpiFlashAssumption, ImageInv, F!upgrade_verify, part' = part
  PROVE  /\ ImageInv' /\ UNCHANGED <<mem, promised>> /\ call'.op = "verify" /\ pc' = "read" /\ pc = "idle"
  <1> DEFINE e == (flash_offset + flash_last_addr - 2) % AddrMod
  <1>1. /\ status = "IN_PROGRESS" /\ pc = "idle" /\ pc' = "read"
        /\ addr' = flash_offset /\ hashed' = << >>
        /\ call' = [op |-> "verify", end |-> e, data |-> << >>]
        /\ UNCHANGED <<mem, busy, detected, ret, retries, status, flash_last_addr, flash_offset,
                       promised, ready, acked, refused, skipped>>
    BY Zenon DEF F!upgrade_verify, F!device, F!upgrade, F!upload
  <1>2. Basics /\ CallTypes /\ UploadTypes /\ call.op = "none"
    BY <1>1, Zenon DEF ImageInv, Basics
  <1>3. flash_offset = Block /\ flash_last_addr <= Len(FirmwareImage)
    BY <1>1, <1>2, Zenon DEF ImageInv, UploadInv, Uploading
  <1>4. /\ Block \in Nat /\ Block > 1 /\ Total \in Nat /\ Block + Len(FirmwareImage) <= Total
        /\ AddrMod \in Nat /\ AddrMod > FirmwareStart + Total /\ FirmwareStart \in Nat
        /\ Len(FirmwareImage) \in Nat
    BY Sizes, SeqFacts, Zenon
  <1>5. flash_last_addr \in Nat
    BY <1>2, <1>4, SMT DEF UploadTypes
  <1>6. e = Block + flash_last_addr - 2 /\ e \in 0 .. AddrMod - 1 /\ Block \in 0 .. AddrMod - 1
    <2> DEFINE L == Len(FirmwareImage)
    <2>1. flash_last_addr <= L /\ L \in Nat /\ Block + L <= Total
      BY <1>3, <1>4, Zenon
    <2> HIDE DEF L
    <2>2. Block + flash_last_addr - 2 \in Nat /\ Block + flash_last_addr - 2 < AddrMod
      BY <1>4, <1>5, <2>1, SMT
    <2>3. Block \in 0 .. AddrMod - 1 /\ AddrMod > 0
      BY <1>4, <2>1, SMT
    <2>4. (Block + flash_last_addr - 2) % AddrMod = Block + flash_last_addr - 2
      BY <1>4, <1>5, <2>2, <2>3, SMT
    <2>5. e = Block + flash_last_addr - 2
      BY <1>3, <2>4, Zenon
    <2> QED BY <1>4, <2>2, <2>3, <2>5, SMT
  <1> HIDE DEF e
  <1>7. << >> \in Seq(SUBSET Bits) /\ Len(<< >>) = 0
    BY SMT
  <1>8. call'.op = "verify" /\ call'.end = e
    BY <1>1, SMT
  <1>9. CallTypes'
    <2>1. call' \in [op : F!Operations, end : 0 .. AddrMod - 1, data : Seq(SUBSET Bits)]
      <3>1. "verify" \in F!Operations
        BY Zenon DEF F!Operations
      <3> QED BY <1>1, <1>6, <1>7, <3>1, Zenon
    <2>2. addr' \in 0 .. AddrMod - 1 /\ hashed' \in Seq(SUBSET Bits)
      BY <1>1, <1>3, <1>6, <1>7, Zenon
    <2>3. pc' \in {"idle", "loop", "wait", "read", "return"}
      BY <1>1, Zenon
    <2>4. /\ mem' = mem /\ promised' = promised /\ busy' = busy /\ detected' = detected
          /\ ready' = ready /\ ret' = ret /\ retries' = retries
      BY <1>1, Zenon
    <2> QED BY <1>2, <2>1, <2>2, <2>3, <2>4, Zenon DEF CallTypes, F!Addresses, F!Operations
  <1>10. Basics' /\ RangeOfCall'
    <2>1. UploadTypes'
      BY <1>1, <1>2, Zenon DEF UploadTypes
    <2> QED BY <1>1, <1>8, <1>9, <2>1, Zenon DEF Basics, RangeOfCall, Running
  <1>11. VerifyInv'
    <2>1. addr' = Block + Len(hashed')
      BY <1>1, <1>3, <1>4, <1>7, SMT
    <2>2. 1 .. Len(hashed') = {}
      BY <1>1, <1>7, SMT
    <2>3. call'.end = Block + flash_last_addr - 2
      BY <1>6, <1>8, Zenon
    <2> QED BY <1>1, <2>1, <2>2, <2>3, Zenon DEF VerifyInv
  <1>12. F!CompleteImageIsVerified'
    BY <1>1, Zenon DEF F!CompleteImageIsVerified
  <1>13. ImageInv'
    BY <1>1, <1>8, <1>10, <1>11, <1>12, VerifyFrame, Zenon
  <1> QED BY <1>1, <1>8, <1>13, Zenon

LEMMA DivAtMost ==
  ASSUME NEW n \in Nat, NEW d \in Nat, d > 0
  PROVE  n \div d <= n
  <1>1. n \div d \in Nat /\ n % d \in Nat /\ n = (d * (n \div d)) + (n % d)
    BY DivMod, SMT
  <1> DEFINE k == n \div d
             r == n % d
  <1>2. k \in Nat /\ r \in Nat /\ n = (d * k) + r
    BY <1>1, Zenon
  <1> HIDE DEF k, r
  <1>3. d * k >= k
    <2>1. \A a, b \in Nat : a * b \in Nat /\ (a + 1) * b = (a * b) + b
      BY SMT
    <2>2. d - 1 \in Nat /\ (d - 1) + 1 = d
      BY SMT
    <2>3. (d - 1) * k \in Nat /\ d * k = ((d - 1) * k) + k
      BY <1>2, <2>1, <2>2, Zenon
    <2> QED BY <1>2, <2>3, SMT
  <1>4. k <= n
    BY <1>2, <1>3, SMT
  <1> QED BY <1>4, Zenon DEF k

(* After a return there is no call.                                         *)
LEMMA AfterReturn ==
  ASSUME Basics', RangeOfCall', pc' = "idle", call'.op = "none", UploadInv', UploadIsInPlace',
         F!VerifiedImageIsInPlace',
         Commanded' => status' = "NO_UPGRADE" /\ acked' = {}
  PROVE  ImageInv'
  <1>1. StartInv' /\ WriteInv' /\ VerifyInv' /\ ActivateInv'
    BY Zenon DEF StartInv, WriteInv, VerifyInv, ActivateInv
  <1>2. CommandInv'
    BY Zenon DEF CommandInv, Commanded
  <1>3. VerifiesExactlyTheImage'
    BY Zenon DEF VerifiesExactlyTheImage, F!VerifiesExactlyTheImage, F!CompleteImageIsVerified
  <1> QED BY <1>1, <1>2, <1>3, Zenon DEF ImageInv

LEMMA StartReturns ==
  ASSUME F!SpiFlashAssumption, ImageInv, F!StartReturns, part' = part
  PROVE  ImageInv' /\ CallInv'
  <1>1. /\ call.op = "start" /\ F!Return /\ pc = "return"
        /\ status' = IF ret < 0 THEN "ERROR" ELSE "IN_PROGRESS"
        /\ UNCHANGED <<mem, busy, detected, flash_last_addr, flash_offset, acked, refused, skipped>>
    BY Zenon DEF F!StartReturns, F!Return, F!device, F!upload
  <1>2. Basics /\ CallTypes /\ UploadTypes
    BY Zenon DEF ImageInv, Basics
  <1>3. /\ UploadTypes' /\ detected' \in BOOLEAN
    <2>1. status' \in {"NO_UPGRADE", "IN_PROGRESS", "VERIFIED", "ERROR"}
      BY <1>1, Zenon
    <2>2. UploadTypes'
      BY <1>1, <1>2, <2>1, Zenon DEF UploadTypes
    <2> QED BY <1>1, <1>2, <2>2, Zenon DEF CallTypes
  <1>4. /\ Basics' /\ RangeOfCall' /\ pc' = "idle" /\ call'.op = "none"
        /\ mem' = mem /\ promised' = mem
    BY <1>1, <1>2, <1>3, ReturnIs, Zenon
  <1>5. /\ acked = {} /\ flash_last_addr = 0 /\ (detected => flash_offset = Block)
        /\ ret = 0 => detected /\ ~busy /\ BehindHeaderErased(Total)
    BY <1>1, Zenon DEF ImageInv, StartInv
  <1>6. status' = "IN_PROGRESS" => ret = 0
    <2>1. ret \in {0, -1}
      BY <1>2, Zenon DEF CallTypes
    <2> QED BY <1>1, <2>1, SMT
  <1>7. ASSUME BehindHeaderErased(Total) PROVE Programmable
    <2> SUFFICES ASSUME NEW p \in Positions PROVE FirmwareImage[p] \subseteq Place(p)
      BY Zenon DEF Programmable
    <2> DEFINE x == Block + p - 1
    <2>1. x \in F!Addresses /\ x \in Nat /\ BlockOf(x) >= 1 /\ BlockOf(x) \in Nat
          /\ FirmwareImage[p] \in SUBSET Bits
      BY PlaceIs, Zenon
    <2> HIDE DEF x
    <2>2. Block \in Nat /\ Block > 1 /\ Total \in Nat
      BY Sizes, Zenon
    <2>3. x \div Block <= x /\ x < Total
      <3>1. Block > 0
        BY <2>2, SMT
      <3>2. x \div Block <= x
        BY <2>1, <2>2, <3>1, DivAtMost, Zenon
      <3> QED BY <2>1, <2>2, <3>2, SMT DEF F!Addresses
    <2>4. BlockOf(x) \in 1 .. Total - 1
      <3> DEFINE k == BlockOf(x)
      <3>1. k \in Nat /\ k >= 1 /\ k <= x
        BY <2>1, <2>3, Zenon DEF BlockOf
      <3> HIDE DEF k
      <3>2. k \in 1 .. Total - 1
        BY <2>1, <2>2, <2>3, <3>1, SMT
      <3> QED BY <3>2, Zenon DEF k
    <2>5. mem[x] = F!Erased
      BY <1>7, <2>1, <2>4, Zenon DEF BehindHeaderErased
    <2> QED BY <2>1, <2>5, Zenon DEF Place, x, F!Erased
  <1>8. UploadInv'
    <2> SUFFICES ASSUME status' = "IN_PROGRESS" PROVE UploadInv'
      BY Zenon DEF UploadInv, Uploading
    <2>1. detected /\ ~busy /\ flash_offset = Block /\ flash_last_addr = 0 /\ acked = {}
          /\ Programmable
      BY <1>5, <1>6, <1>7, Zenon
    <2>2. 0 <= Len(FirmwareImage)
      BY Sizes, SeqFacts, SMT
    <2>3. Programmable'
      BY <1>1, <2>1, Zenon DEF Programmable, Place, Positions
    <2> QED BY <1>1, <2>1, <2>2, <2>3, Zenon DEF UploadInv
  <1>9. UploadIsInPlace' /\ F!VerifiedImageIsInPlace'
    BY <1>1, <1>5, Zenon DEF UploadIsInPlace, F!UploadIsInPlace, F!VerifiedImageIsInPlace
  <1>10. ~Commanded'
    BY <1>1, Zenon DEF ImageInv, CommandInv, Commanded
  <1>11. ImageInv'
    BY <1>4, <1>8, <1>9, <1>10, AfterReturn, Zenon
  <1>12. CallInv'
    BY <1>4, CallReturns, Zenon
  <1> QED BY <1>11, <1>12

LEMMA WriteReturns ==
  ASSUME F!SpiFlashAssumption, ImageInv, F!WriteReturns, part' = part
  PROVE  ImageInv' /\ CallInv'
  <1>1. /\ call.op = "write" /\ F!Return /\ pc = "return"
        /\ IF ret < 0 THEN UNCHANGED <<acked, refused>>
           ELSE acked' = acked \cup (refused[1] + 1 .. refused[1] + refused[2]) /\ refused' = << >>
        /\ UNCHANGED <<mem, busy, detected, status, flash_last_addr, flash_offset, skipped>>
    BY Zenon DEF F!WriteReturns, F!Return, F!device, F!upgrade
  <1>2. Basics /\ CallTypes /\ UploadTypes
    BY Zenon DEF ImageInv, Basics
  <1>3. ret = 0 \/ ret < 0
    <2>1. ret \in {0, -1}
      BY <1>2, Zenon DEF CallTypes
    <2> QED BY <2>1, SMT
  <1>4. /\ status = "IN_PROGRESS" /\ refused # << >> /\ refused[1] + refused[2] <= flash_last_addr
        /\ ret = 0 /\ ~skipped =>
             ~busy /\ \A p \in refused[1] + 1 .. refused[1] + refused[2] : InPlace(p)
    BY <1>1, Zenon DEF ImageInv, WriteInv
  <1>5. /\ Uploading /\ detected /\ flash_offset = Block /\ flash_last_addr <= Len(FirmwareImage)
        /\ acked \subseteq 1 .. flash_last_addr /\ Programmable
        /\ busy /\ ~skipped => refused # << >> /\ FirstChunkInPlace
    BY <1>1, <1>4, Zenon DEF ImageInv, UploadInv, Uploading
  <1> DEFINE new == refused[1] + 1 .. refused[1] + refused[2]
  <1>6. new \subseteq 1 .. flash_last_addr /\ new \subseteq 1 .. Len(FirmwareImage)
    <2>1. /\ refused[1] \in Nat /\ refused[2] \in Nat
          /\ refused[1] + refused[2] <= Len(FirmwareImage)
      BY <1>2, <1>4, RecordIs, Zenon DEF UploadTypes
    <2>2. flash_last_addr \in Nat /\ Len(FirmwareImage) \in Nat
      <3>1. AddrMod \in Nat /\ FirmwareImage \in Seq(SUBSET Bits)
        BY Sizes, Zenon
      <3>2. flash_last_addr \in 0 .. AddrMod - 1
        BY <1>2, Zenon DEF UploadTypes
      <3> QED BY <3>1, <3>2, SeqFacts, SMT
    <2> QED BY <1>4, <2>1, <2>2, SMT
  <1> HIDE DEF new
  <1>7. \/ ret < 0 /\ acked' = acked /\ refused' = refused
        \/ ret = 0 /\ acked' = acked \cup new /\ refused' = << >>
    <2>1. ret < 0 => acked' = acked /\ refused' = refused
      BY <1>1, Zenon
    <2>2. ret = 0 => ~(ret < 0)
      BY SMT
    <2> QED BY <1>1, <1>3, <2>1, <2>2, Zenon DEF new
  <1>8. UploadTypes' /\ detected' \in BOOLEAN
    <2>1. acked' \subseteq 1 .. Len(FirmwareImage) /\ refused' \in Records \cup {<< >>}
      BY <1>2, <1>6, <1>7, Zenon DEF UploadTypes
    <2>2. UploadTypes'
      BY <1>1, <1>2, <2>1, Zenon DEF UploadTypes
    <2> QED BY <1>1, <1>2, <2>2, Zenon DEF CallTypes
  <1>9. /\ Basics' /\ RangeOfCall' /\ pc' = "idle" /\ call'.op = "none"
        /\ mem' = mem /\ promised' = mem
    BY <1>1, <1>2, <1>8, ReturnIs, Zenon
  <1>10. UploadInv'
    <2>1. acked' \subseteq 1 .. flash_last_addr
      BY <1>5, <1>6, <1>7, Zenon
    <2>2. Programmable'
      BY <1>1, <1>5, Zenon DEF Programmable, Place, Positions
    <2>3. busy' /\ ~skipped' => refused' = refused
      BY <1>1, <1>4, <1>7, Zenon
    <2>4. refused' = refused => FirstChunkInPlace' = FirstChunkInPlace
      BY <1>1, Zenon DEF FirstChunkInPlace, FirstChunk, InPlace, Place
    <2> QED BY <1>1, <1>5, <2>1, <2>2, <2>3, <2>4, Zenon DEF UploadInv
  <1>11. UploadIsInPlace'
    <2>1. ~skipped => \A p \in acked' : InPlace(p)
      <3>1. ~skipped => \A p \in acked : InPlace(p)
        BY Zenon DEF ImageInv, UploadIsInPlace, F!UploadIsInPlace, InPlace, Place
      <3> QED BY <1>4, <1>7, <3>1, Zenon DEF new
    <2> QED BY <1>1, <2>1, Zenon DEF UploadIsInPlace, F!UploadIsInPlace, InPlace, Place
  <1>12. F!VerifiedImageIsInPlace'
    BY <1>1, <1>4, Zenon DEF F!VerifiedImageIsInPlace
  <1>13. ~Commanded'
    BY <1>1, Zenon DEF ImageInv, CommandInv, Commanded
  <1>14. ImageInv'
    BY <1>9, <1>10, <1>11, <1>12, <1>13, AfterReturn, Zenon
  <1>15. CallInv'
    BY <1>9, CallReturns, Zenon
  <1> QED BY <1>14, <1>15

LEMMA VerifyReturns ==
  ASSUME F!SpiFlashAssumption, ImageInv, F!VerifyReturns, part' = part
  PROVE  ImageInv' /\ CallInv'
  <1>1. /\ call.op = "verify" /\ F!Return /\ pc = "return"
        /\ status' = IF ret < 0 THEN "ERROR" ELSE "VERIFIED"
        /\ UNCHANGED <<mem, busy, detected, flash_last_addr, flash_offset, acked, refused, skipped>>
    BY Zenon DEF F!VerifyReturns, F!Return, F!device, F!upload
  <1>2. Basics /\ CallTypes /\ UploadTypes
    BY Zenon DEF ImageInv, Basics
  <1>3. UploadTypes' /\ detected' \in BOOLEAN
    <2>1. status' \in {"NO_UPGRADE", "IN_PROGRESS", "VERIFIED", "ERROR"}
      BY <1>1, Zenon
    <2>2. UploadTypes'
      BY <1>1, <1>2, <2>1, Zenon DEF UploadTypes
    <2> QED BY <1>1, <1>2, <2>2, Zenon DEF CallTypes
  <1>4. /\ Basics' /\ RangeOfCall' /\ pc' = "idle" /\ call'.op = "none"
        /\ mem' = mem /\ promised' = mem
    BY <1>1, <1>2, <1>3, ReturnIs, Zenon
  <1>5. status' = "VERIFIED" => \A p \in Positions : InPlace(p)
    <2>1. status' = "VERIFIED" => ret = 0
      <3>1. ret \in {0, -1}
        BY <1>2, Zenon DEF CallTypes
      <3> QED BY <1>1, <3>1, SMT
    <2> QED BY <1>1, <2>1, Zenon DEF ImageInv, VerifyInv
  <1>6. UploadInv'
    BY <1>1, Zenon DEF UploadInv, Uploading
  <1>7. UploadIsInPlace' /\ F!VerifiedImageIsInPlace'
    <2>1. UploadIsInPlace'
      BY <1>1, Zenon DEF ImageInv, UploadIsInPlace, F!UploadIsInPlace
    <2>2. F!VerifiedImageIsInPlace'
      BY <1>1, <1>5, Zenon DEF F!VerifiedImageIsInPlace, InPlace, Place, Positions
    <2> QED BY <2>1, <2>2
  <1>8. ~Commanded'
    BY <1>1, Zenon DEF ImageInv, CommandInv, Commanded
  <1>9. ImageInv'
    BY <1>4, <1>6, <1>7, <1>8, AfterReturn, Zenon
  <1>10. CallInv'
    BY <1>4, CallReturns, Zenon
  <1> QED BY <1>9, <1>10

(* The other returns change neither the image nor what is known of it.      *)
LEMMA OtherReturns ==
  ASSUME F!SpiFlashAssumption, ImageInv, F!Return, part' = part,
         call.op \in {"activate", "clear", "program", "erase"}, detected' \in BOOLEAN,
         UNCHANGED <<status, flash_last_addr, flash_offset, acked, refused, skipped>>
  PROVE  ImageInv' /\ CallInv'
  <1>1. Basics /\ UploadTypes /\ status \in {"VERIFIED", "NO_UPGRADE"}
    BY Zenon DEF ImageInv, Basics, ActivateInv, CommandInv, Commanded
  <1>2. UploadTypes'
    BY <1>1, Zenon DEF UploadTypes
  <1>3. /\ Basics' /\ RangeOfCall' /\ pc' = "idle" /\ call'.op = "none"
        /\ mem' = mem /\ promised' = mem
    BY <1>1, <1>2, ReturnIs, Zenon
  <1>4. UploadInv'
    BY <1>1, Zenon DEF UploadInv, Uploading
  <1>5. UploadIsInPlace'
    BY <1>3, Zenon DEF ImageInv, UploadIsInPlace, F!UploadIsInPlace
  <1>6. F!VerifiedImageIsInPlace'
    BY <1>3, Zenon DEF ImageInv, VerifiesExactlyTheImage, F!VerifiesExactlyTheImage,
                       F!VerifiedImageIsInPlace
  <1>7. Commanded' => status' = "NO_UPGRADE" /\ acked' = {}
    BY Zenon DEF ImageInv, CommandInv, Commanded
  <1>8. ImageInv'
    BY <1>3, <1>4, <1>5, <1>6, <1>7, AfterReturn, Zenon
  <1>9. CallInv'
    BY <1>3, CallReturns, Zenon
  <1> QED BY <1>8, <1>9

(* A call begins while the device's memory stays as it is.                  *)
LEMMA StartBegins ==
  ASSUME F!SpiFlashAssumption, ImageInv, F!upgrade_start, part' = part, ~Commanded
  PROVE  ImageInv' /\ CallInv'
  <1>1. /\ detected' = detected /\ F!spi_flash_erase("start", 0, -1)
        /\ flash_last_addr' = 0 /\ flash_offset' = IF detected THEN Block ELSE AddrMod - 1
        /\ acked' = {} /\ refused' = << >> /\ skipped' = FALSE /\ status' = status
    BY Zenon DEF F!upgrade_start
  <1>2. Basics /\ CallTypes /\ UploadTypes /\ detected' \in BOOLEAN
    BY <1>1, Zenon DEF ImageInv, Basics, CallTypes
  <1>3. /\ Total \in Nat /\ Total > 0 /\ Block \in Nat /\ Block > 1 /\ AddrMod \in Nat
        /\ AddrMod > FirmwareStart + Total /\ FirmwareStart \in Nat
        /\ Block + Len(FirmwareImage) <= Total /\ Len(FirmwareImage) \in Nat
    BY Sizes, SeqFacts, Zenon
  <1>4. 0 % Block = 0 /\ 0 + (-1) <= Total /\ -1 \in Int /\ -1 # 0 /\ 0 \in Nat
    BY <1>3, SMT
  <1>5. -1 < 0
    BY SMT
  <1>6. PICK first \in F!Addresses, last \in F!Addresses :
          /\ first <= last /\ first % Block = 0 /\ Began("start", first, last, << >>)
          /\ -1 < 0 => first = 0 /\ last = Total - 1
          /\ promised' = [x \in F!Addresses |->
               IF BlockOf(x) \in BlockOf(first) .. BlockOf(last) THEN F!Erased ELSE mem[x]]
    BY <1>1, <1>2, <1>4, EraseBegins, Zenon
  <1>7. CallTypes'
    BY <1>1, <1>2, <1>4, EraseBegins, Zenon
  <1>8. UploadTypes'
    <2>1. flash_last_addr' \in 0 .. AddrMod - 1 /\ flash_offset' \in 0 .. AddrMod - 1
      BY <1>1, <1>3, SMT
    <2> QED BY <1>1, <1>2, <2>1, Zenon DEF UploadTypes
  <1>9. first \in Nat /\ last \in Nat /\ first < Total /\ last < Total
    BY <1>3, SMT DEF F!Addresses
  <1>10. Basics' /\ RangeOfCall' /\ call'.op = "start" /\ Behind' = first
    BY <1>6, <1>7, <1>8, <1>9, BegunIsInRange, Zenon
  <1>11. CallInv'
    BY <1>2, <1>6, <1>10, CallEraseBegins, Zenon
  <1>12. /\ addr' = 0 /\ call'.end = Total - 1 /\ ret' = -1 /\ Behind' = 0
    BY <1>5, <1>6, <1>10, SMT DEF Began
  <1>13. StartInv'
    <2>1. BehindHeaderErased(BlockOf(Behind))'
      <3>1. BlockOf(Behind)' = 0
        <4>1. 0 \div Block = 0
          BY <1>3, SMT
        <4> QED BY <1>12, <4>1, Zenon DEF BlockOf
      <3>2. 1 .. 0 - 1 = {}
        BY SMT
      <3>3. \A x \in F!Addresses : BlockOf(x) \in 1 .. 0 - 1 => mem'[x] = F!Erased
        BY <3>2, Zenon
      <3> QED BY <3>1, <3>3, Zenon DEF BehindHeaderErased, BlockOf, F!Addresses, F!Erased
    <2>2. detected' => flash_offset' = Block
      BY <1>1, Zenon
    <2>3. ret' # 0
      BY <1>12, SMT
    <2> QED BY <1>1, <1>12, <2>1, <2>2, <2>3, Zenon DEF StartInv
  <1>14. UploadInv' /\ WriteInv' /\ VerifyInv' /\ ActivateInv'
    BY <1>10, Zenon DEF UploadInv, Uploading, WriteInv, VerifyInv, ActivateInv
  <1>15. CommandInv'
    BY <1>10, Zenon DEF CommandInv, Commanded
  <1>16. UploadIsInPlace'
    BY <1>1, Zenon DEF UploadIsInPlace, F!UploadIsInPlace
  <1>17. VerifiesExactlyTheImage'
    BY <1>10, Zenon DEF VerifiesExactlyTheImage, F!VerifiesExactlyTheImage,
                        F!VerifiedImageIsInPlace, F!CompleteImageIsVerified
  <1>18. ImageInv'
    BY <1>10, <1>13, <1>14, <1>15, <1>16, <1>17, Zenon DEF ImageInv
  <1> QED BY <1>11, <1>18

LEMMA WriteBegins ==
  ASSUME F!SpiFlashAssumption, ImageInv, F!upgrade_write_data, part' = part, ~Commanded
  PROVE  ImageInv' /\ CallInv'
  <1>1. PICK rec \in Records :
          LET a == (FirmwareStart + rec[1] - FirmwareStart) % AddrMod
          IN  /\ flash_last_addr' = F!LastOf((a + rec[2]) % AddrMod)
              /\ F!spi_flash_program("write", F!InFlash(a),
                                     SubSeq(FirmwareImage, rec[1] + 1, rec[1] + rec[2]))
              /\ refused' = rec /\ skipped' = (skipped \/ refused \notin {<< >>, rec})
    BY Zenon DEF F!upgrade_write_data
  <1>2. /\ pc = "idle" /\ status = "IN_PROGRESS"
        /\ UNCHANGED <<detected, acked, status, flash_offset>>
    BY Zenon DEF F!upgrade_write_data
  <1>3. Basics /\ CallTypes /\ UploadTypes /\ detected' \in BOOLEAN /\ call.op = "none"
    BY <1>2, Zenon DEF ImageInv, Basics, CallTypes
  <1> DEFINE L == Len(FirmwareImage)
             r == rec[1]
             n == rec[2]
             data == SubSeq(FirmwareImage, r + 1, r + n)
  <1>4. /\ detected /\ flash_offset = Block /\ flash_last_addr <= L
        /\ acked \subseteq 1 .. flash_last_addr /\ Programmable
        /\ busy /\ ~skipped => refused # << >> /\ FirstChunkInPlace
    BY <1>2, <1>3, Zenon DEF ImageInv, UploadInv, Uploading
  <1>5. /\ r \in Nat /\ n \in Nat /\ r + n <= L /\ rec # << >>
    BY RecordIs, Zenon
  <1>6. /\ Total \in Nat /\ Block \in Nat /\ Block > 1 /\ AddrMod \in Nat
        /\ AddrMod > FirmwareStart + Total /\ FirmwareStart \in Nat
        /\ Block + L <= Total /\ L \in Nat /\ FirmwareImage \in Seq(SUBSET Bits)
    BY Sizes, SeqFacts, Zenon
  <1>7. flash_last_addr \in Nat
    BY <1>3, <1>6, SMT DEF UploadTypes
  <1>8. /\ data \in Seq(SUBSET Bits) /\ Len(data) = n
        /\ \A j \in 1 .. n : data[j] = FirmwareImage[r + j]
    <2> HIDE DEF r, n
    <2>1. r + n <= Len(FirmwareImage)
      BY <1>5, Zenon
    <2>2. Len(FirmwareImage) \in Nat
      BY <1>6, Zenon
    <2> QED BY <1>5, <1>6, <2>1, <2>2, SMT
  <1> HIDE DEF L
  <1>9. /\ (FirmwareStart + r - FirmwareStart) % AddrMod = r
        /\ (r + n) % AddrMod = r + n /\ (r + Block) % AddrMod = Block + r
        /\ Block + r + n <= Total
    <2> HIDE DEF r, n, data
    <2>1. FirmwareStart + r - FirmwareStart = r /\ AddrMod > 0
      BY <1>5, <1>6, SMT
    <2>2. /\ r < AddrMod /\ r + n < AddrMod /\ Block + r < AddrMod /\ Block + r + n <= Total
          /\ r + n \in Nat /\ Block + r \in Nat /\ r + Block = Block + r
      BY <1>5, <1>6, SMT
    <2>3. \A k \in Nat : k < AddrMod => k % AddrMod = k
      BY <1>6, <2>1, SMT
    <2> QED BY <1>5, <2>1, <2>2, <2>3, Zenon
  <1>10. /\ flash_last_addr' = IF r + n > flash_last_addr THEN r + n ELSE flash_last_addr
         /\ F!spi_flash_program("write", Block + r, data)
         /\ refused' = rec /\ skipped' = (skipped \/ refused \notin {<< >>, rec})
    <2>1. F!LastOf((r + n) % AddrMod) = IF r + n > flash_last_addr THEN r + n ELSE flash_last_addr
      BY <1>9, Zenon DEF F!LastOf
    <2>2. F!InFlash(r) = Block + r
      BY <1>4, <1>9, Zenon DEF F!InFlash
    <2> QED BY <1>1, <1>9, <2>1, <2>2, Zenon
  <1> HIDE DEF r, n, data
  <1>11. /\ CallTypes' /\ Began("write", Block + r, Block + r + n, data)
         /\ promised' = [x \in F!Addresses |-> IF x \in Block + r .. Block + r + Len(data) - 1
                                               THEN mem[x] \cap data[x - (Block + r) + 1] ELSE mem[x]]
    <2> DEFINE a == Block + r
    <2>1. a \in Nat /\ a + Len(data) <= Total
      BY <1>5, <1>6, <1>8, <1>9, SMT
    <2>4. F!spi_flash_program("write", a, data)
      BY <1>10, Zenon
    <2>2. a + Len(data) = a + n
      BY <1>8, Zenon
    <2> HIDE DEF a
    <2>3. /\ CallTypes' /\ Began("write", a, a + Len(data), data)
          /\ promised' = [x \in F!Addresses |-> IF x \in a .. a + Len(data) - 1
                                                THEN mem[x] \cap data[x - a + 1] ELSE mem[x]]
      BY <1>3, <1>8, <2>1, <2>4, ProgramBegins, Zenon
    <2> QED BY <2>2, <2>3, Zenon DEF a
  <1>12. UploadTypes'
    <2>1. flash_last_addr' \in 0 .. AddrMod - 1
      BY <1>4, <1>5, <1>6, <1>7, <1>10, SMT
    <2>2. skipped' \in BOOLEAN /\ refused' \in Records \cup {<< >>}
      BY <1>10, Zenon
    <2> QED BY <1>2, <1>3, <2>1, <2>2, Zenon DEF UploadTypes, L
  <1>13. Block + r \in Nat /\ Block + r + n \in Nat /\ (Block + r) + Len(data) = Block + r + n
    BY <1>5, <1>6, <1>8, SMT
  <1>14. Basics' /\ RangeOfCall' /\ call'.op = "write" /\ Behind' = Block + r
    BY <1>9, <1>11, <1>12, <1>13, BegunIsInRange, Zenon
  <1>15. CallInv'
    <2>1. Began("write", Block + r, (Block + r) + Len(data), data)
      BY <1>11, <1>13, Zenon
    <2> QED BY <1>3, <1>8, <1>11, <1>13, <1>14, <2>1, CallProgramBegins, Zenon
  <1>16. /\ addr' = Block + r /\ call'.end = Block + r + n /\ call'.data = data /\ ret' = -1
         /\ mem' = mem /\ busy' = busy /\ pc' \in {"loop", "return"}
    BY <1>11, SMT DEF Began
  <1>17. ~skipped' => ~skipped /\ refused \in {<< >>, rec}
    BY <1>10, Zenon
  <1>18. /\ flash_last_addr' \in Nat /\ flash_last_addr' <= L /\ r + n <= flash_last_addr'
         /\ flash_last_addr <= flash_last_addr'
    BY <1>4, <1>5, <1>6, <1>7, <1>10, SMT
  <1>19. UploadInv'
    <2>1. acked \subseteq 1 .. flash_last_addr'
      <3>1. 1 .. flash_last_addr \subseteq 1 .. flash_last_addr'
        BY <1>7, <1>18, SMT
      <3> QED BY <1>4, <3>1, Zenon
    <2>2. Programmable'
      BY <1>4, <1>16, Zenon DEF Programmable, Place, Positions
    <2>3. busy' /\ ~skipped' => refused' # << >> /\ FirstChunkInPlace'
      <3> SUFFICES ASSUME busy, ~skipped' PROVE refused' # << >> /\ FirstChunkInPlace'
        BY <1>16, Zenon
      <3>1. refused' = refused /\ FirstChunkInPlace
        BY <1>4, <1>10, <1>17, Zenon
      <3> QED BY <1>5, <1>10, <1>16, <3>1, Zenon DEF FirstChunkInPlace, FirstChunk, InPlace, Place
    <2> QED BY <1>2, <1>4, <1>18, <2>1, <2>2, <2>3, Zenon DEF UploadInv, L
  <1>20. WriteInv'
    <2>1. refused' = rec /\ refused'[1] = r /\ refused'[2] = n
      BY <1>10, Zenon DEF r, n
    <2>2. /\ status' = "IN_PROGRESS" /\ refused' # << >> /\ refused'[1] + refused'[2] <= flash_last_addr'
      BY <1>2, <1>5, <1>18, <2>1, Zenon
    <2>3. call'.end = Block + refused'[1] + refused'[2] /\ addr' = Block + refused'[1]
      BY <1>16, <2>1, Zenon
    <2>4. addr' >= Block + refused'[1]
      <3>1. Block + r >= Block + r
        BY <1>13, SMT
      <3> QED BY <1>16, <2>1, <3>1, Zenon
    <2>5. \A j \in 1 .. Len(call'.data) : call'.data[j] = FirmwareImage[addr' - Block + j]
      <3>1. addr' - Block = r
        BY <1>5, <1>6, <1>16, SMT
      <3> QED BY <1>8, <1>16, <3>1, Zenon
    <2>6. \A p \in refused'[1] + 1 .. Behind' - Block : InPlace(p)'
      <3>1. Behind' - Block = r
        BY <1>5, <1>6, <1>14, SMT
      <3>2. r + 1 .. r = {}
        BY <1>5, SMT
      <3> QED BY <2>1, <3>1, <3>2, Zenon
    <2>7. ret' # 0 /\ pc' # "wait"
      BY <1>16, SMT
    <2> QED BY <2>2, <2>3, <2>4, <2>5, <2>6, <2>7, Zenon DEF WriteInv
  <1>21. StartInv' /\ VerifyInv' /\ ActivateInv'
    BY <1>14, Zenon DEF StartInv, VerifyInv, ActivateInv
  <1>22. CommandInv'
    BY <1>14, Zenon DEF CommandInv, Commanded
  <1>23. UploadIsInPlace'
    BY <1>2, <1>16, <1>17, Zenon DEF ImageInv, UploadIsInPlace, F!UploadIsInPlace
  <1>24. VerifiesExactlyTheImage'
    BY <1>2, <1>14, Zenon DEF VerifiesExactlyTheImage, F!VerifiesExactlyTheImage,
                        F!VerifiedImageIsInPlace, F!CompleteImageIsVerified
  <1>25. ImageInv'
    BY <1>14, <1>19, <1>20, <1>21, <1>22, <1>23, <1>24, Zenon DEF ImageInv
  <1> QED BY <1>15, <1>25

(* A call that is not of an upload begins.                                  *)
LEMMA ActivateBegins ==
  ASSUME F!SpiFlashAssumption, ImageInv, F!upgrade_activate, part' = part, ~Commanded
  PROVE  ImageInv' /\ CallInv'
  <1>1. /\ pc = "idle" /\ status = "VERIFIED" /\ F!spi_flash_program("activate", 0, F!Header)
        /\ UNCHANGED <<detected, status, flash_last_addr, flash_offset, acked, refused, skipped>>
    BY Zenon DEF F!upgrade_activate, F!upgrade, F!upload
  <1>2. Basics /\ CallTypes /\ UploadTypes /\ detected' \in BOOLEAN /\ call.op = "none"
    BY <1>1, Zenon DEF ImageInv, Basics, CallTypes
  <1> DEFINE data == F!Header
  <1>3. data \in Seq(SUBSET Bits) /\ Len(data) = 1
    BY SMT DEF F!Header
  <1> HIDE DEF data
  <1>4. 0 + Len(data) <= Total /\ 0 \in Nat /\ 0 + Len(data) = 1 /\ 1 \in Nat /\ 1 <= Total
    BY <1>3, Sizes, SMT
  <1>5. /\ CallTypes' /\ Began("activate", 0, 0 + Len(data), data)
        /\ promised' = [x \in F!Addresses |-> IF x \in 0 .. 0 + Len(data) - 1
                                              THEN mem[x] \cap data[x - 0 + 1] ELSE mem[x]]
    BY <1>1, <1>2, <1>3, <1>4, ProgramBegins, Zenon DEF data
  <1>6. UploadTypes'
    BY <1>1, <1>2, Zenon DEF UploadTypes
  <1>7. Basics' /\ RangeOfCall' /\ call'.op = "activate" /\ Behind' = 0
    BY <1>4, <1>5, <1>6, BegunIsInRange, Zenon
  <1>8. CallInv'
    BY <1>2, <1>3, <1>4, <1>5, <1>7, CallProgramBegins, Zenon
  <1>9. mem' = mem /\ call'.end = 1
    BY <1>4, <1>5, SMT DEF Began
  <1>10. StartInv' /\ UploadInv' /\ WriteInv' /\ VerifyInv'
    BY <1>1, <1>7, Zenon DEF StartInv, UploadInv, Uploading, WriteInv, VerifyInv
  <1>11. ActivateInv' /\ CommandInv'
    BY <1>1, <1>7, <1>9, Zenon DEF ActivateInv, CommandInv, Commanded
  <1>12. UploadIsInPlace'
    BY <1>1, <1>9, Zenon DEF ImageInv, UploadIsInPlace, F!UploadIsInPlace
  <1>13. VerifiesExactlyTheImage'
    <2>1. \A p \in 1 .. Len(FirmwareImage) : mem[Block + p - 1] = FirmwareImage[p]
      BY <1>1, <1>2, Zenon DEF ImageInv, VerifiesExactlyTheImage, F!VerifiesExactlyTheImage,
                               F!VerifiedImageIsInPlace
    <2>2. F!VerifiedImageIsInPlace' /\ F!CompleteImageIsVerified'
      BY <1>7, <1>9, <2>1, Zenon DEF F!VerifiedImageIsInPlace, F!CompleteImageIsVerified
    <2> QED BY <2>2, Zenon DEF VerifiesExactlyTheImage, F!VerifiesExactlyTheImage
  <1>14. ImageInv'
    BY <1>7, <1>10, <1>11, <1>12, <1>13, Zenon DEF ImageInv
  <1> QED BY <1>8, <1>14

(* A call that begins where there is no upload.                             *)
LEMMA BeginsWithoutUpload ==
  ASSUME Basics', RangeOfCall', status' = "NO_UPGRADE", acked' = {},
         (call'.op = "clear" /\ ~Commanded') \/ (call'.op \in {"program", "erase"} /\ Commanded')
  PROVE  ImageInv'
  <1>1. StartInv' /\ UploadInv' /\ WriteInv' /\ VerifyInv' /\ ActivateInv'
    BY Zenon DEF StartInv, UploadInv, Uploading, WriteInv, VerifyInv, ActivateInv
  <1>2. CommandInv'
    BY Zenon DEF CommandInv
  <1>3. UploadIsInPlace' /\ VerifiesExactlyTheImage'
    BY Zenon DEF UploadIsInPlace, F!UploadIsInPlace, VerifiesExactlyTheImage,
         F!VerifiesExactlyTheImage, F!VerifiedImageIsInPlace, F!CompleteImageIsVerified
  <1> QED BY <1>1, <1>2, <1>3, Zenon DEF ImageInv

LEMMA AddressIs ==
  ASSUME F!SpiFlashAssumption, NEW x \in F!Addresses
  PROVE  x \in Nat /\ x < Total
  BY Sizes, SMT DEF F!Addresses

LEMMA EraseCallBegins ==
  ASSUME F!SpiFlashAssumption, CallTypes, detected' \in BOOLEAN, UploadTypes',
         NEW op \in {"start", "erase", "clear"}, NEW a \in Nat, NEW len \in Int, len # 0,
         a % Block = 0, a + len <= Total, F!spi_flash_erase(op, a, len)
  PROVE  Basics' /\ RangeOfCall' /\ call'.op = op /\ CallInv'
  <1>1. PICK first \in F!Addresses, last \in F!Addresses :
          /\ first <= last /\ first % Block = 0 /\ Began(op, first, last, << >>)
          /\ len < 0 => first = 0 /\ last = Total - 1
          /\ promised' = [x \in F!Addresses |->
               IF BlockOf(x) \in BlockOf(first) .. BlockOf(last) THEN F!Erased ELSE mem[x]]
    BY EraseBegins, Zenon
  <1>2. CallTypes'
    BY EraseBegins, Zenon
  <1>3. first \in Nat /\ last \in Nat /\ first < Total /\ last < Total
    BY AddressIs, Zenon
  <1>4. Basics' /\ RangeOfCall' /\ call'.op = op /\ Behind' = first
    BY <1>1, <1>2, <1>3, BegunIsInRange, Zenon
  <1>5. CallInv'
    BY <1>1, <1>4, CallEraseBegins, Zenon
  <1> QED BY <1>4, <1>5

LEMMA ActivateReturns ==
  ASSUME F!SpiFlashAssumption, ImageInv, F!ActivateReturns, part' = part
  PROVE  ImageInv' /\ CallInv'
  <1>1. call.op = "activate" /\ Basics /\ CallTypes /\ UploadTypes
    BY Zenon DEF F!ActivateReturns, ImageInv, Basics
  <1>2. CASE ret < 0 /\ F!Return /\ UNCHANGED <<detected, F!upgrade, F!upload>>
    <2>1. detected' \in BOOLEAN /\ UNCHANGED <<status, flash_last_addr, flash_offset, acked, refused, skipped>>
      BY <1>1, <1>2, Zenon DEF CallTypes, F!upgrade, F!upload
    <2> QED BY <1>1, <1>2, <2>1, OtherReturns, Zenon
  <1>3. CASE /\ detected' = ~busy /\ F!spi_flash_erase("clear", 0, Len(F!Header))
             /\ status' = "NO_UPGRADE" /\ flash_last_addr' = 0 /\ flash_offset' = 0
             /\ acked' = {} /\ refused' = << >> /\ skipped' = FALSE
    <2> DEFINE n == Len(F!Header)
    <2>1. n = 1
      BY SMT DEF F!Header
    <2> HIDE DEF n
    <2>2. 0 % Block = 0 /\ 0 + n <= Total /\ n \in Int /\ n # 0 /\ 0 \in Nat
      BY <2>1, Sizes, SMT
    <2>3. UploadTypes'
      <3>1. 0 \in 0 .. AddrMod - 1
        BY Sizes, SMT
      <3> QED BY <1>3, <3>1, Zenon DEF UploadTypes
    <2>4. F!spi_flash_erase("clear", 0, n) /\ detected' \in BOOLEAN
      BY <1>3, Zenon DEF n
    <2>5. Basics' /\ RangeOfCall' /\ call'.op = "clear" /\ CallInv'
      BY <1>1, <2>2, <2>3, <2>4, EraseCallBegins, Zenon
    <2>6. ~Commanded'
      BY <1>1, Zenon DEF ImageInv, CommandInv, Commanded
    <2>7. ImageInv'
      <3>1. status' = "NO_UPGRADE" /\ acked' = {}
        BY <1>3
      <3>2. (call'.op = "clear" /\ ~Commanded') \/ (call'.op \in {"program", "erase"} /\ Commanded')
        BY <2>5, <2>6, Zenon
      <3> QED BY <2>5, <3>1, <3>2, BeginsWithoutUpload, Zenon
    <2> QED BY <2>5, <2>7
  <1> QED BY <1>2, <1>3, Zenon DEF F!ActivateReturns

LEMMA CommandBegins ==
  ASSUME F!SpiFlashAssumption, ImageInv, F!Commands, part' = part, Commanded
  PROVE  ImageInv' /\ CallInv'
  <1>1. /\ detected' = detected
        /\ UNCHANGED <<status, flash_last_addr, flash_offset, acked, refused, skipped>>
        /\ \/ \E w \in Writes : F!spi_flash_program("program", w[1], w[2])
           \/ \E e \in Erases : F!spi_flash_erase("erase", e[1], e[2])
    BY Zenon DEF F!Commands, F!cli_cmd_flash_write, F!cli_cmd_flash_erase, F!upgrade, F!upload
  <1>2. /\ Basics /\ CallTypes /\ UploadTypes /\ detected' \in BOOLEAN
        /\ status = "NO_UPGRADE" /\ acked = {}
    BY <1>1, Zenon DEF ImageInv, Basics, CallTypes, CommandInv
  <1>3. UploadTypes' /\ Commanded'
    BY <1>1, <1>2, Zenon DEF UploadTypes, Commanded
  <1>4. CASE \E e \in Erases : F!spi_flash_erase("erase", e[1], e[2])
    <2>1. PICK e \in Erases : F!spi_flash_erase("erase", e[1], e[2])
      BY <1>4
    <2>2. e[1] \in Nat /\ e[2] \in Int /\ e[2] # 0 /\ e[1] % Block = 0 /\ e[1] + e[2] <= Total
      <3>1. e \in Nat \X (Int \ {0}) /\ e[1] % Block = 0 /\ e[1] + e[2] <= Total
        BY Zenon DEF F!SpiFlashAssumption
      <3> QED BY <3>1, SMT
    <2>3. Basics' /\ RangeOfCall' /\ call'.op = "erase" /\ CallInv'
      BY <1>2, <1>3, <2>1, <2>2, EraseCallBegins, Zenon
    <2>4. ImageInv'
      BY <1>1, <1>2, <1>3, <2>3, BeginsWithoutUpload, Zenon
    <2> QED BY <2>3, <2>4
  <1>5. CASE \E w \in Writes : F!spi_flash_program("program", w[1], w[2])
    <2>1. PICK w \in Writes : F!spi_flash_program("program", w[1], w[2])
      BY <1>5
    <2> DEFINE a == w[1]
               data == w[2]
    <2>2. a \in Nat /\ data \in Seq(SUBSET Bits) /\ a + Len(data) <= Total
      <3>1. w \in Nat \X Seq(SUBSET Bits) /\ w[1] + Len(w[2]) <= Total
        BY Zenon DEF F!SpiFlashAssumption
      <3> QED BY <3>1, SMT
    <2>3. F!spi_flash_program("program", a, data)
      BY <2>1, Zenon
    <2> HIDE DEF a, data
    <2>4. a + Len(data) \in Nat
      BY <2>2, SMT
    <2>5. /\ CallTypes' /\ Began("program", a, a + Len(data), data)
          /\ promised' = [x \in F!Addresses |-> IF x \in a .. a + Len(data) - 1
                                                THEN mem[x] \cap data[x - a + 1] ELSE mem[x]]
      BY <1>2, <2>2, <2>3, ProgramBegins, Zenon
    <2>6. Basics' /\ RangeOfCall' /\ call'.op = "program" /\ Behind' = a
      BY <1>3, <2>2, <2>4, <2>5, BegunIsInRange, Zenon
    <2>7. CallInv'
      BY <1>2, <2>2, <2>5, <2>6, CallProgramBegins, Zenon
    <2>8. ImageInv'
      BY <1>1, <1>2, <1>3, <2>6, BeginsWithoutUpload, Zenon
    <2> QED BY <2>7, <2>8
  <1> QED BY <1>1, <1>4, <1>5
-----------------------------------------------------------------------------
(* Both invariants hold, with the memory that a reading call leaves alone.  *)

LEMMA InvBegin ==
  ASSUME F!SpiFlashAssumption, UseInit
  PROVE  ImageInv /\ CallInv
  <1>1. /\ mem = [x \in F!Addresses |-> F!Erased] /\ busy = FALSE /\ detected = TRUE
        /\ pc = "idle" /\ ret = 0 /\ call = F!Idle /\ addr = 0 /\ retries = 0 /\ hashed = << >>
        /\ status = "NO_UPGRADE" /\ flash_last_addr = 0 /\ flash_offset = 0
        /\ promised = mem /\ ready = TRUE
        /\ acked = {} /\ refused = << >> /\ skipped = FALSE
    BY Zenon DEF UseInit, F!Init
  <1>2. call.op = "none"
    BY <1>1, SMT DEF F!Idle
  <1>3. CallTypes
    <2>1. mem \in [F!Addresses -> SUBSET Bits]
      BY <1>1, Zenon DEF F!Erased
    <2>2. call \in [op : F!Operations, end : 0 .. AddrMod - 1, data : Seq(SUBSET Bits)]
      <3>1. 0 \in 0 .. AddrMod - 1 /\ "none" \in F!Operations /\ << >> \in Seq(SUBSET Bits)
        BY Sizes, SMT DEF F!Operations
      <3> QED BY <1>1, <3>1, Zenon DEF F!Idle
    <2>3. /\ pc \in {"idle", "loop", "wait", "read", "return"} /\ ret \in {0, -1}
          /\ addr \in 0 .. AddrMod - 1 /\ retries \in 0 .. Retries /\ hashed \in Seq(SUBSET Bits)
      BY <1>1, Sizes, SMT
    <2>4. busy \in BOOLEAN /\ detected \in BOOLEAN /\ ready \in BOOLEAN
      BY <1>1, Zenon
    <2> QED BY <1>1, <2>1, <2>2, <2>3, <2>4, Zenon DEF CallTypes
  <1>4. UploadTypes
    <2>1. 0 \in 0 .. AddrMod - 1
      BY Sizes, SMT
    <2> QED BY <1>1, <2>1, Zenon DEF UploadTypes
  <1>5. Basics /\ RangeOfCall
    BY <1>1, <1>2, <1>3, <1>4, Zenon DEF Basics, RangeOfCall, Running
  <1>6. CallInv
    <2>1. CallKeepsItsPromise
      BY <1>1, <1>2, Zenon DEF CallKeepsItsPromise, F!CallKeepsItsPromise
    <2> QED BY <1>1, <1>5, <2>1, Zenon DEF CallInv, Running
  <1>7. StartInv /\ UploadInv /\ WriteInv /\ VerifyInv /\ ActivateInv /\ CommandInv
    BY <1>1, <1>2, Zenon DEF StartInv, UploadInv, Uploading, WriteInv, VerifyInv, ActivateInv, CommandInv
  <1>8. UploadIsInPlace /\ VerifiesExactlyTheImage
    BY <1>1, Zenon DEF UploadIsInPlace, F!UploadIsInPlace, VerifiesExactlyTheImage,
         F!VerifiesExactlyTheImage, F!VerifiedImageIsInPlace, F!CompleteImageIsVerified
  <1> QED BY <1>5, <1>6, <1>7, <1>8, Zenon DEF ImageInv

LEMMA InvStep ==
  ASSUME F!SpiFlashAssumption, ImageInv /\ CallInv, UseNext
  PROVE  (ImageInv /\ CallInv)'
  <1>1. ImageInv /\ CallInv /\ part' = part
    BY Zenon DEF UseNext
  <1>2. CASE F!Ready
    BY <1>1, <1>2, ImageReadies, CallReadies, Zenon
  <1>3. CASE F!Driver
    <2>1. CASE F!SendCommand
      BY <1>1, <2>1, ImageSends, CallSends, Zenon
    <2>2. CASE F!LoopEnds
      BY <1>1, <2>2, ImageEnds, CallEnds, Zenon
    <2>3. CASE F!Poll
      BY <1>1, <2>3, ImagePolls, CallPolls, Zenon
    <2>4. CASE F!ReadChunk \/ F!CompareCrc
      <3>1. pc = "read"
        BY <2>4, Zenon DEF F!ReadChunk, F!CompareCrc
      <3>2. promised = mem
        BY <1>1, <3>1, VerifyIs, Zenon DEF CallInv
      <3>3. /\ ImageInv' /\ UNCHANGED <<mem, promised>> /\ call'.op = "verify"
            /\ pc' \in {"read", "return"}
        <4>1. CASE F!ReadChunk
          BY <1>1, <4>1, ImageReads, Zenon
        <4>2. CASE F!CompareCrc
          BY <1>1, <4>2, ImageCompares, Zenon
        <4> QED BY <2>4, <4>1, <4>2
      <3>4. Basics' /\ RangeOfCall'
        BY <3>3, Zenon DEF ImageInv
      <3> QED BY <3>2, <3>3, <3>4, CallVerifies, Zenon
    <2> QED BY <1>3, <2>1, <2>2, <2>3, <2>4, Zenon DEF F!Driver
  <1>4. CASE F!Returns
    <2>1. CASE F!ClearReturns \/ F!CommandReturns
      <3>1. /\ call.op \in {"activate", "clear", "program", "erase"} /\ F!Return /\ detected' \in BOOLEAN
            /\ UNCHANGED <<status, flash_last_addr, flash_offset, acked, refused, skipped>>
        BY <1>1, <2>1, Zenon DEF F!ClearReturns, F!CommandReturns, F!upgrade, F!upload,
                                 ImageInv, Basics, CallTypes
      <3> QED BY <1>1, <3>1, OtherReturns, Zenon
    <2> QED BY <1>1, <1>4, <2>1, StartReturns, WriteReturns, VerifyReturns, ActivateReturns, Zenon
            DEF F!Returns
  <1>5. CASE part = "flash upload" /\ F!Uploads
    <2>1. ~Commanded
      BY <1>5 DEF Commanded
    <2>2. CASE F!upgrade_verify
      <3>1. /\ ImageInv' /\ UNCHANGED <<mem, promised>> /\ call'.op = "verify" /\ pc' = "read" /\ pc = "idle"
        BY <1>1, <2>2, VerifyBegins, Zenon
      <3>2. promised = mem /\ Basics' /\ RangeOfCall'
        BY <1>1, <3>1, Zenon DEF CallInv, ImageInv
      <3> QED BY <3>1, <3>2, CallVerifies, Zenon
    <2> QED BY <1>1, <1>5, <2>1, <2>2, StartBegins, WriteBegins, ActivateBegins, Zenon DEF F!Uploads
  <1>6. CASE part = "flash commands" /\ F!Commands
    BY <1>1, <1>6, CommandBegins, Zenon DEF Commanded
  <1> QED BY <1>2, <1>3, <1>4, <1>5, <1>6, Zenon DEF UseNext

LEMMA InvStutters ==
  ASSUME ImageInv /\ CallInv, UNCHANGED use
  PROVE  (ImageInv /\ CallInv)'
  <1>1. /\ part' = part /\ mem' = mem /\ busy' = busy /\ detected' = detected /\ pc' = pc /\ ret' = ret
        /\ call' = call /\ addr' = addr /\ retries' = retries /\ hashed' = hashed /\ status' = status
        /\ flash_last_addr' = flash_last_addr /\ flash_offset' = flash_offset
        /\ promised' = promised /\ ready' = ready
        /\ acked' = acked /\ refused' = refused /\ skipped' = skipped
    BY Zenon DEF use, spi
  <1>2. Running' = Running /\ Programs' = Programs /\ F!IsErase' = F!IsErase /\ F!More' = F!More
        /\ F!Step' = F!Step
    BY <1>1, Zenon DEF Running, Programs, F!IsErase, F!More, F!Step, F!ProgramChunk
  <1>3. Basics' /\ RangeOfCall' /\ Behind' = Behind
    <2>1. CallTypes' /\ UploadTypes'
      <3>1. CallTypes /\ UploadTypes  BY Zenon DEF ImageInv, Basics
      <3>2. CallTypes'                BY <1>1, <3>1, Zenon DEF CallTypes, F!Addresses, F!Operations
      <3>3. UploadTypes'              BY <1>1, <3>1, Zenon DEF UploadTypes
      <3> QED BY <3>2, <3>3, Zenon
    <2>2. Basics'
      BY <1>1, <1>2, <2>1, Zenon DEF ImageInv, Basics
    <2> QED BY <1>1, <1>2, <2>2, Zenon DEF ImageInv, RangeOfCall, Behind
  <1>4. CallInv'
    <2>1. ToProgram' = ToProgram /\ ToErase' = ToErase /\ CallKeepsItsPromise' = CallKeepsItsPromise
      BY <1>1, <1>2, <1>3, Zenon DEF ToProgram, ToErase, CallKeepsItsPromise, F!CallKeepsItsPromise,
           F!Addresses, F!Erased, BlockOf
    <2> QED BY <1>1, <1>2, <1>3, <2>1, Zenon DEF CallInv
  <1>5. /\ Uploading' = Uploading
        /\ Programmable' = Programmable /\ FirstChunkInPlace' = FirstChunkInPlace
        /\ UploadIsInPlace' = UploadIsInPlace /\ VerifiesExactlyTheImage' = VerifiesExactlyTheImage
    BY <1>1, Zenon DEF Uploading, Programmable, FirstChunkInPlace, FirstChunk, UploadIsInPlace,
         F!UploadIsInPlace, InPlace, Place, Positions, VerifiesExactlyTheImage,
         F!VerifiesExactlyTheImage, F!VerifiedImageIsInPlace, F!CompleteImageIsVerified
  <1>6. StartInv' /\ UploadInv'
    BY <1>1, <1>2, <1>3, <1>5, Zenon DEF ImageInv, StartInv, BehindHeaderErased, UploadInv,
         F!Addresses, F!Erased, BlockOf
  <1>7. WriteInv' /\ VerifyInv'
    BY <1>1, <1>2, <1>3, <1>5, Zenon DEF ImageInv, WriteInv, VerifyInv, InPlace, Place, Positions, F!Erased
  <1>8. ActivateInv' /\ CommandInv'
    BY <1>1, <1>2, Zenon DEF ImageInv, ActivateInv, CommandInv, Commanded
  <1>9. ImageInv'
    BY <1>3, <1>5, <1>6, <1>7, <1>8, Zenon DEF ImageInv
  <1> QED BY <1>4, <1>9

LEMMA InvariantsHold ==
  ASSUME F!SpiFlashAssumption
  PROVE  UseSpec => [](ImageInv /\ CallInv)
  <1>1. UseInit => ImageInv /\ CallInv
    BY InvBegin, Zenon
  <1>2. (ImageInv /\ CallInv) /\ [UseNext]_use => (ImageInv /\ CallInv)'
    <2> SUFFICES ASSUME ImageInv /\ CallInv, [UseNext]_use PROVE (ImageInv /\ CallInv)'
      OBVIOUS
    <2>1. CASE UseNext
      BY <2>1, InvStep, Zenon
    <2>2. CASE UNCHANGED use
      BY <2>2, InvStutters, Zenon
    <2> QED BY <2>1, <2>2
  <1> QED BY <1>1, <1>2, PTL DEF UseSpec
-----------------------------------------------------------------------------
(* The theorems.                                                            *)

(* Every variable of the driver, of the device and of the upload keeps its  *)
(* type: no address, no length and no offset leaves the range that the code *)
(* computes with (spi_flash.c:123-198, upgrade.c:31-156).                   *)
THEOREM TypeCorrect ==
  ASSUME F!SpiFlashAssumption
  PROVE  UseSpec => []F!TypeOK
  <1>1. ImageInv => F!TypeOK
    <2> SUFFICES ASSUME CallTypes, UploadTypes PROVE F!TypeOK
      BY Zenon DEF ImageInv, Basics
    <2>1. {busy, detected, ready, skipped} \subseteq BOOLEAN
      BY Zenon DEF CallTypes, UploadTypes
    <2>2. {addr, flash_last_addr, flash_offset} \subseteq 0 .. AddrMod - 1
      BY Zenon DEF CallTypes, UploadTypes
    <2> QED BY <2>1, <2>2, Zenon DEF CallTypes, UploadTypes, F!TypeOK
  <1> QED BY <1>1, InvariantsHold, PTL

(* A call of the driver that finds the device ready has programmed or       *)
(* erased what it was asked to, and nothing else, when it returns success   *)
(* (spi_flash.c:123-198).                                                   *)
THEOREM CallsKeepTheirPromise ==
  ASSUME F!SpiFlashAssumption
  PROVE  UseSpec => []CallKeepsItsPromise
  <1>1. CallInv => CallKeepsItsPromise
    BY Zenon DEF CallInv
  <1> QED BY <1>1, InvariantsHold, PTL

(* What a write has confirmed is at its place in the flash, although a      *)
(* write may find the device busy with the one that was refused before      *)
(* (upgrade.c:93-122).                                                      *)
THEOREM UploadsAreInPlace ==
  ASSUME F!SpiFlashAssumption
  PROVE  UseSpec => []UploadIsInPlace
  <1>1. ImageInv => UploadIsInPlace
    BY Zenon DEF ImageInv
  <1> QED BY <1>1, InvariantsHold, PTL

(* A complete image passes the verification, and what has passed it is the  *)
(* image, at its place (upgrade.c:125-156).                                 *)
THEOREM VerificationIsExact ==
  ASSUME F!SpiFlashAssumption
  PROVE  UseSpec => []VerifiesExactlyTheImage
  <1>1. ImageInv => VerifiesExactlyTheImage
    BY Zenon DEF ImageInv
  <1> QED BY <1>1, InvariantsHold, PTL
====
