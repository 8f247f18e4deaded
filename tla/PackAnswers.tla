----------------------------- MODULE PackAnswers -----------------------------
(***************************************************************************)
(* The answers of a BMS to the analog and the status command, put in front *)
(* of the reader of PackFrames: what was sent against what is read.        *)
(*                                                                         *)
(* External: the layouts.  "v2" is the one of the frames recorded in       *)
(* internal/pace/protocol_test.go; "flagged" the one the comment in        *)
(* protocol.go:284 gives to answers with several packs; "documented" is    *)
(* in docs/PROTOCOL.md:45, "bare" in its shortest form.  A status is       *)
(* "bare" (docs/PROTOCOL.md:46) or has a "reserved" byte (protocol.go:769).*)
(***************************************************************************)
EXTENDS PackFrames

CONSTANTS
  AnalogPack,   \* packs whose readings are sent
  StatusPack,   \* packs whose status is sent
  MaxPacks,     \* packs in an answer
  AskedFor      \* addresses that are asked

Short == 0 .. 65535
Level == 0 .. 2 \cup 128 .. 240   \* what warningLevel has a name for

Bit(byte, i) == (byte \div Power[i]) % 2 = 1

(* A pack in service: between one and 32 cells, whose voltages are no      *)
(* nonsense, and at least one temperature.                                 *)
ASSUME AnalogAssumption ==
  \A p \in AnalogPack :
    /\ p.cells \in Seq(2000 .. 4500) /\ Len(p.cells) \in 1 .. 32
    /\ p.temps \in Seq(Short) /\ Len(p.temps) \in 1 .. 12
    /\ p.current \in Int /\ p.current + 32768 \in Short
    /\ {p.voltage, p.cycles, p.design} \subseteq Short
    /\ p.capacity \in Short \X Short
    /\ {p.soc, p.soh} \subseteq Byte

ASSUME StatusAssumption ==
  \A p \in StatusPack :
    /\ p.cells \in Seq(Level) /\ Len(p.cells) \in 1 .. 32
    /\ p.temps \in Seq(Level) /\ Len(p.temps) \in Byte
    /\ p.status \in Seq(Byte) /\ Len(p.status) = 12
    /\ p.balancing = {i \in 1 .. 8 : Bit(p.status[9], i)}
                       \cup {i \in 9 .. 16 : Bit(p.status[10], i - 8)}

ASSUME PacksAssumption == MaxPacks \in Byte /\ AskedFor \subseteq Byte

VARIABLES
  sent,   \* the answer: [what, layout, packs]
  cuts    \* where its packs begin and end, as far as they are written

answerVars == <<frameVars, sent, cuts>>

(* Words, high byte first                                                  *)
Bigs(s) ==
  [k \in 1 .. 2 * Len(s) |->
     IF k % 2 = 1 THEN s[(k + 1) \div 2] \div 256 ELSE s[k \div 2] % 256]

(* What ends a pack in an answer                                           *)
Trailer(layout, p) ==
  CASE layout = "v2" -> <<p.soc, 113, 113, 113, 113, 113, 113, 113, 113, p.soh,
                          202, 18, 0, 0>>
    [] layout = "flagged" -> <<0>>
    [] layout = "documented" -> <<p.soc, p.soh>>
    [] layout = "reserved" -> <<0>>
    [] layout = "bare" -> <<>>

AnalogBlock(layout, p) ==
  <<Len(p.cells)>> \o Bigs(p.cells) \o <<Len(p.temps)>> \o Bigs(p.temps)
    \o Bigs(<<p.current % 65536, p.voltage, p.capacity[1]>>)
    \o <<9>> \o Bigs(<<p.capacity[2], p.cycles, p.design>>) \o Trailer(layout, p)

StatusBlock(layout, p) ==
  <<Len(p.cells)>> \o p.cells \o <<Len(p.temps)>> \o p.temps \o p.status
    \o Trailer(layout, p)

Answer ==
  [what : {"analog"}, layout : {"v2", "flagged", "documented", "bare"},
   packs : UNION {[1 .. n -> AnalogPack] : n \in 1 .. MaxPacks}]
  \cup
  [what : {"warning"}, layout : {"bare", "reserved"},
   packs : UNION {[1 .. n -> StatusPack] : n \in 1 .. MaxPacks}]

Block(k) ==
  IF sent.what = "analog" THEN AnalogBlock(sent.layout, sent.packs[k])
                          ELSE StatusBlock(sent.layout, sent.packs[k])

AnswerInit ==
  /\ sent \in Answer
  /\ info = <<0, Len(sent.packs)>> /\ cuts = <<2>>
  /\ asked \in AskedFor
  /\ FramesInit

(* The BMS appends its packs, one by one.                                  *)
Write ==
  /\ Len(cuts) <= Len(sent.packs)
  /\ info' = info \o Block(Len(cuts))
  /\ cuts' = Append(cuts, Len(info'))
  /\ UNCHANGED <<kind, asked, offset, index, packs, result, sent>>

(* The answer is read when it is complete.                                 *)
Read ==
  /\ Len(cuts) > Len(sent.packs)
  /\ FramesNext
  /\ UNCHANGED <<sent, cuts>>

AnswerNext == Write \/ Read

AnswerSpec == AnswerInit /\ [][AnswerNext]_answerVars

-----------------------------------------------------------------------------
(* Properties *)

Done == result # "reading"

(* The charge the reader takes from the answer.  soc and soh of the        *)
(* documented layout (docs/PROTOCOL.md:45) are sent and never read: the    *)
(* first goes for a flag byte, and both are computed from the capacities.  *)
ChargeRead(p) == IF sent.layout = "v2" THEN <<p.soc, p.soh>> ELSE <<>>

(* What should be read of the pack at place k                              *)
Expected(k) ==
  LET p == sent.packs[k]
      address == IF Len(sent.packs) > 1 \/ asked = 255 THEN k ELSE asked IN
  IF sent.what = "analog"
    THEN [address |-> address, cells |-> p.cells, temps |-> p.temps,
          current |-> p.current, voltage |-> p.voltage, capacity |-> p.capacity,
          cycles |-> p.cycles, design |-> p.design, charge |-> ChargeRead(p)]
    ELSE [address |-> address, cells |-> p.cells, temps |-> p.temps,
          status |-> p.status,
          balancing |-> {i \in DOMAIN p.cells : i \in p.balancing}]

AsSent == result = "ok" /\ packs = [k \in 1 .. Len(sent.packs) |-> Expected(k)]

(* Of several packs with the long tail, of one pack with any tail and of   *)
(* statuses with or without the reserved byte, each field is read as it    *)
(* was sent, also where a charge or a voltage looks like a count of cells, *)
(* with one exception: soc and soh of the documented layout (ChargeRead).  *)
ReadAsSent ==
  Done /\ kind = sent.what
    /\ (sent.what = "analog" => sent.layout = "v2" \/ Len(sent.packs) = 1) => AsSent

(* A status that comes where a reading is expected is refused: it never    *)
(* gets into the store as cell voltages.  (The other way round it may.)    *)
StatusIsNoReading == kind = "analog" /\ sent.what = "warning" => result # "ok"

(* "Multi-pack RS232 responses include one trailing flag byte per pack":   *)
(* such answers are read.                                                  *)
FlaggedAnswersAreRead ==
  Done /\ kind = sent.what /\ sent.layout = "flagged" /\ Len(sent.packs) > 1 => AsSent

=============================================================================
