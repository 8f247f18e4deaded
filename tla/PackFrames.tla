----------------------------- MODULE PackFrames -----------------------------
(***************************************************************************)
(* ParseAnalogPacks and ParseWarningPacks of internal/pace/protocol.go:    *)
(* how the info of an answer is cut into packs.  Nothing in it says where  *)
(* a pack ends, so each is read from where the one before was taken to     *)
(* end.  One step reads one pack; info, offset, index and packs are the    *)
(* variables of the Go code (offsets count from 0, as there).              *)
(*                                                                         *)
(* Measured values are the words as sent (the code divides them), the      *)
(* status is its twelve bytes (the code names their bits).                 *)
(***************************************************************************)
EXTENDS Sequences, Integers

VARIABLES
  kind,     \* which of the two functions: "analog", "warning"
  asked,    \* requestedPack
  info,     \* the decoded info of the answer
  offset,
  index,    \* packIndex
  packs,    \* packs, statuses
  result    \* "reading", "ok" or "error"

frameVars == <<kind, asked, info, offset, index, packs, result>>

Byte == 0 .. 255

(* The byte and the big-endian word at offset o                            *)
At(o) == info[o + 1]
Word(o) == 256 * At(o) + At(o + 1)
Words(o, n) == [k \in 1 .. n |-> Word(o + 2 * (k - 1))]
Bytes(o, n) == [k \in 1 .. n |-> At(o + k - 1)]

Signed(w) == IF w >= 32768 THEN w - 65536 ELSE w

PlausibleCellCount(n) == n \in 1 .. 32

(* Mutant: any voltage will do.                                            *)
AnyMillivolts(w) == TRUE

PlausibleMillivolts(w) == w \in 2000 .. 4500
PlausibleTemperatureCount(n) == n \in 1 .. 12

FramesInit ==
  /\ kind \in {"analog", "warning"}
  /\ asked \in Byte
  /\ info \in Seq(Byte)
  /\ offset = 0 /\ index = 0
  /\ packs = <<>>
  /\ result = "reading"

Count == At(1)

(* Mutant: the address that was asked is that of every pack.               *)
AddressAsked == asked

Address == IF Count > 1 \/ asked = 255 THEN index + 1 ELSE asked

(* The reading is refused as a whole.                                      *)
Refuse ==
  /\ result' = "error" /\ packs' = <<>>
  /\ UNCHANGED <<kind, asked, info, offset, index>>

Header ==
  /\ result = "reading" /\ offset = 0
  /\ Len(info) >= 2 /\ Count # 0
  /\ offset' = 2
  /\ UNCHANGED <<kind, asked, info, index, packs, result>>

BadHeader ==
  /\ result = "reading" /\ offset = 0
  /\ Len(info) < 2 \/ Count = 0
  /\ Refuse

-----------------------------------------------------------------------------
(* An analog reading: cells, temperatures, current, voltage, remaining     *)
(* capacity, a byte, full capacity, and if there is room cycles and design *)
(* capacity; then one of several tails.                                    *)

TempsAt(o) == o + 1 + 2 * At(o)
CurrentAt(o) == TempsAt(o) + 1 + 2 * At(TempsAt(o))
FullEnd(o) == CurrentAt(o) + 9

AnalogFits(o) ==
  /\ o < Len(info) /\ PlausibleCellCount(At(o))
  /\ TempsAt(o) < Len(info)
  /\ \A k \in 1 .. At(o) : PlausibleMillivolts(Word(o + 2 * k - 1))
  /\ PlausibleTemperatureCount(At(TempsAt(o)))
  /\ FullEnd(o) <= Len(info)

TailAt(o) ==
  FullEnd(o) + (IF FullEnd(o) + 4 <= Len(info) THEN 4
                ELSE IF FullEnd(o) + 2 <= Len(info) THEN 2 ELSE 0)

(* Mutant: the next pack is looked for one byte early.                     *)
HasV2TailOff(t) ==
  /\ t + 14 <= Len(info)
  /\ index + 1 = Count \/ (t + 13 < Len(info) /\ PlausibleCellCount(At(t + 13)))

(* hasAnalogV2Tail: there is room for one, and a count of cells behind it. *)
HasV2Tail(t) ==
  /\ t + 14 <= Len(info)
  /\ index + 1 = Count \/ (t + 14 < Len(info) /\ PlausibleCellCount(At(t + 14)))

(* Mutant: a byte is skipped, there or not.                                *)
SkipBlindly(o) == o + 1

Skip(o) == IF o < Len(info) THEN o + 1 ELSE o

(* Without that tail, a flag byte is skipped, and one more if what follows *)
(* is not this pack's count of cells.                                      *)
AnalogEnd(o) ==
  LET t == TailAt(o)
      s == Skip(t) IN
  IF HasV2Tail(t) THEN t + 14
  ELSE IF index + 1 < Count /\ s < Len(info) /\ At(s) # At(o) THEN s + 1
  ELSE s

(* A word that may be missing                                              *)
IfThere(o) == IF o + 2 <= Len(info) THEN Word(o) ELSE 0

(* A reading without a charge <<SOC, SOH>> of its own gets one that is     *)
(* computed from its capacities, whatever the bytes behind them say.       *)
Reading(o) ==
  [address |-> Address,
   cells |-> Words(o + 1, At(o)),
   temps |-> Words(TempsAt(o) + 1, At(TempsAt(o))),
   current |-> Signed(Word(CurrentAt(o))),
   voltage |-> Word(CurrentAt(o) + 2),
   capacity |-> <<Word(CurrentAt(o) + 4), Word(CurrentAt(o) + 7)>>,
   cycles |-> IfThere(FullEnd(o)),
   design |-> IfThere(FullEnd(o) + 2),
   charge |-> IF HasV2Tail(TailAt(o)) THEN <<At(TailAt(o)), At(TailAt(o) + 9)>>
                                      ELSE <<>>]

ReadAnalog ==
  /\ result = "reading" /\ offset > 0 /\ kind = "analog"
  /\ index < Count /\ AnalogFits(offset)
  /\ packs' = Append(packs, Reading(offset))
  /\ offset' = AnalogEnd(offset)
  /\ index' = index + 1
  /\ UNCHANGED <<kind, asked, info, result>>

-----------------------------------------------------------------------------
(* A status: warning levels of cells and temperatures, and twelve bytes.   *)

LevelsAt(o) == o + 1 + At(o)
StatusAt(o) == LevelsAt(o) + 1 + At(LevelsAt(o))

StatusFits(o) ==
  /\ o < Len(info) /\ LevelsAt(o) < Len(info)
  /\ StatusAt(o) + 12 <= Len(info)

Power == <<1, 2, 4, 8, 16, 32, 64, 128,
           256, 512, 1024, 2048, 4096, 8192, 16384, 32768>>

(* decodeBalancingCells: the mask has sixteen cells.                       *)
Balancing(s1, s2, n) ==
  {i \in 1 .. 16 : i <= (IF n = 0 THEN 16 ELSE n)
                   /\ ((s1 + 256 * s2) \div Power[i]) % 2 = 1}

(* A reserved byte is skipped where no count of cells follows.             *)
StatusEnd(o) ==
  LET e == StatusAt(o) + 12 IN
  IF e < Len(info) /\ (index + 1 = Count \/ ~ PlausibleCellCount(At(e)))
    THEN e + 1 ELSE e

Status(o) ==
  [address |-> Address,
   cells |-> Bytes(o + 1, At(o)),
   temps |-> Bytes(LevelsAt(o) + 1, At(LevelsAt(o))),
   status |-> Bytes(StatusAt(o), 12),
   balancing |-> Balancing(At(StatusAt(o) + 8), At(StatusAt(o) + 9), At(o))]

ReadWarning ==
  /\ result = "reading" /\ offset > 0 /\ kind = "warning"
  /\ index < Count /\ StatusFits(offset)
  /\ packs' = Append(packs, Status(offset))
  /\ offset' = StatusEnd(offset)
  /\ index' = index + 1
  /\ UNCHANGED <<kind, asked, info, result>>

-----------------------------------------------------------------------------

BadPack ==
  /\ result = "reading" /\ offset > 0 /\ index < Count
  /\ IF kind = "analog" THEN ~ AnalogFits(offset) ELSE ~ StatusFits(offset)
  /\ Refuse

Finish ==
  /\ result = "reading" /\ offset > 0 /\ index = Count
  /\ result' = "ok"
  /\ UNCHANGED <<kind, asked, info, offset, index, packs>>

FramesNext ==
  Header \/ BadHeader \/ ReadAnalog \/ ReadWarning \/ BadPack \/ Finish

FramesSpec == FramesInit /\ [][FramesNext]_frameVars

-----------------------------------------------------------------------------
(* Properties *)

(* The reader never leaves the info: the process would not survive an      *)
(* index beyond it.  It has as many packs as it has counted.               *)
FramesTypeOK ==
  /\ kind \in {"analog", "warning"} /\ asked \in Byte /\ info \in Seq(Byte)
  /\ result \in {"reading", "ok", "error"}
  /\ offset \in 0 .. Len(info)
  /\ index \in Nat
  /\ result # "error" => Len(packs) = index
  /\ offset > 0 => Len(info) >= 2 /\ index <= Count

(* No pack of an answer takes the place of another one in the store, and   *)
(* an answer that is not refused has all the packs it announced.           *)
PacksAreApart ==
  /\ \A j, k \in 1 .. Len(packs) : packs[j].address = packs[k].address => j = k
  /\ result = "ok" => Len(packs) = Count

=============================================================================
