--------------------------- MODULE PaceLink_proof ---------------------------
(***************************************************************************)
(* Proofs about PaceLink, for any number of requests: its types, and that  *)
(* a quiet link stays in step.                                             *)
(***************************************************************************)
EXTENDS PaceLink, SequenceTheorems, TLAPS

-----------------------------------------------------------------------------
(* Types *)

(* A unit is followed by a unit or by nothing.                             *)
LEMMA AfterType == ASSUME NEW u \in Unit PROVE After(u) \in Unit \cup {Nil}
  BY DEF After, Unit, Part

(* What parseEnvelope takes for an answer is one.                          *)
LEMMA ParsedType ==
  ASSUME NEW bytes \in Seq(Unit), bytes # <<>>
  PROVE  Parsed(bytes) \in Request \cup {Nil}
<1> DEFINE raw == IF bytes[1].part = "~" THEN Tail(bytes) ELSE bytes
<1>1. raw \in Seq(Unit) BY DEF Unit
<1>2. ASSUME Len(raw) >= 2 PROVE raw[1].req \in Request
  <2>1. raw[1] \in Unit BY <1>1, <1>2
  <2> QED BY <2>1 DEF Unit
<1>3. Intact(raw) => Len(raw) >= 2 BY DEF Intact
<1> QED BY <1>2, <1>3 DEF Parsed

(* The flags apart from the rest                                           *)
FlagsOK == broken \in BOOLEAN /\ quiet \in BOOLEAN /\ faulty \in BOOLEAN

BytesOK ==
  /\ at \in {"idle", "reading"}
  /\ current \in Request \cup {Nil} /\ result \in Request \cup {Nil}
  /\ buf \in Seq(Unit) /\ wire \in Seq(Unit)
  /\ pending \in SUBSET Request
  /\ sending \in Unit \cup {Nil}
  /\ buf # <<>> => FALSE \in MayEnd(buf)

LEMMA LinkTypeInit == LinkInit => LinkTypeOK
<1> SUFFICES ASSUME LinkInit PROVE LinkTypeOK
  OBVIOUS
<1>1. FlagsOK BY DEF LinkInit, FlagsOK
<1>2. BytesOK BY DEF LinkInit, BytesOK
<1> QED BY <1>1, <1>2 DEF FlagsOK, BytesOK, LinkTypeOK

LEMMA FlagsStep == FlagsOK /\ [LinkNext]_linkVars => FlagsOK'
<1> SUFFICES ASSUME FlagsOK, [LinkNext]_linkVars PROVE FlagsOK'
  OBVIOUS
<1> USE DEF FlagsOK
<1>1. ASSUME NEW r \in Request, Send(r) PROVE FlagsOK'
  BY <1>1 DEF Send, Quiet
<1>2. ASSUME NEW r \in Request, Answer(r) \/ Ignore(r) PROVE FlagsOK'
  BY <1>2 DEF Answer, Ignore
<1>3. CASE ReadUnit \/ Deadline \/ PortFails BY <1>3 DEF ReadUnit, Deadline, PortFails, Quiet
<1>4. CASE Reopen \/ UnitArrives \/ BreakOff BY <1>4 DEF Reopen, UnitArrives, BreakOff
<1>5. CASE Forget \/ PortBreaks BY <1>5 DEF Forget, PortBreaks
<1>6. CASE UNCHANGED linkVars BY <1>6 DEF linkVars
<1> QED BY <1>1, <1>2, <1>3, <1>4, <1>5, <1>6 DEF LinkNext

LEMMA BytesStep == BytesOK /\ [LinkNext]_linkVars => BytesOK'
<1> SUFFICES ASSUME BytesOK, [LinkNext]_linkVars PROVE BytesOK'
  OBVIOUS
<1> USE DEF BytesOK, link
<1>1. ASSUME NEW r \in Request, Send(r) PROVE BytesOK'
  BY <1>1 DEF Send
<1>2. ASSUME NEW r \in Request, Answer(r) PROVE BytesOK'
  BY <1>2 DEF Answer, Unit, Part
<1>3. ASSUME NEW r \in Request, Ignore(r) PROVE BytesOK'
  BY <1>3 DEF Ignore
<1>4. CASE ReadUnit
  <2> DEFINE bytes == Append(buf, Head(wire))
  <2>1. wire' \in Seq(Unit) /\ bytes \in Seq(Unit) /\ bytes # <<>>
    BY <1>4 DEF ReadUnit
  <2>2. Parsed(bytes) \in Request \cup {Nil} BY <2>1, ParsedType
  <2>3. PICK ends \in MayEnd(bytes) :
          IF ends THEN Return(Parsed(bytes))
                  ELSE buf' = bytes /\ UNCHANGED <<at, result>>
    BY <1>4 DEF ReadUnit
  <2>4. CASE ends BY <1>4, <2>1, <2>2, <2>3, <2>4 DEF ReadUnit, Return
  <2>5. CASE ~ ends
    <3>1. ends = FALSE BY <2>5, <2>1 DEF MayEnd
    <3> QED BY <1>4, <2>1, <2>3, <2>5, <3>1 DEF ReadUnit
  <2> QED BY <2>4, <2>5
<1>5. CASE Deadline
  <2>1. buf # <<>> => Parsed(buf) \in Request \cup {Nil} BY ParsedType
  <2> QED BY <1>5, <2>1 DEF Deadline, Return
<1>6. CASE PortFails BY <1>6 DEF PortFails, Return
<1>7. CASE Reopen
  <2> HIDE DEF BytesOK
  <2>0. wire' \in {wire, <<>>} BY <1>7 DEF Reopen
  <2>1. wire' \in Seq(Unit)
    <3>1. wire \in Seq(Unit) BY DEF BytesOK
    <3>2. <<>> \in Seq(Unit) OBVIOUS
    <3> QED BY <2>0, <3>1, <3>2, Zenon
  <2>2. pending' \in SUBSET Request /\ sending' \in Unit \cup {Nil}
    BY <1>7 DEF Reopen, BytesOK
  <2> QED BY <1>7, <2>1, <2>2 DEF Reopen, BytesOK
<1>8. CASE UnitArrives
  <2>1. sending \in Unit BY <1>8 DEF UnitArrives
  <2>2. wire' \in Seq(Unit) BY <1>8, <2>1 DEF UnitArrives
  <2>3. sending' \in Unit \cup {Nil} BY <1>8, <2>1, AfterType DEF UnitArrives
  <2> QED BY <1>8, <2>2, <2>3 DEF UnitArrives
<1>9. CASE BreakOff BY <1>9 DEF BreakOff
<1>10. CASE Forget
  <2>1. wire' \in Seq(Unit) BY <1>10 DEF Forget
  <2> QED BY <1>10, <2>1 DEF Forget
<1>11. CASE PortBreaks BY <1>11 DEF PortBreaks
<1>12. CASE UNCHANGED linkVars BY <1>12 DEF linkVars
<1> QED BY <1>1, <1>2, <1>3, <1>4, <1>5, <1>6, <1>7, <1>8, <1>9, <1>10, <1>11, <1>12
       DEF LinkNext

LEMMA LinkTypeStep == LinkTypeOK /\ [LinkNext]_linkVars => LinkTypeOK'
<1>1. LinkTypeOK <=> FlagsOK /\ BytesOK BY DEF LinkTypeOK, FlagsOK, BytesOK
<1>2. LinkTypeOK' <=> FlagsOK' /\ BytesOK' BY DEF LinkTypeOK, FlagsOK, BytesOK
<1> QED BY <1>1, <1>2, FlagsStep, BytesStep

(* The types hold, and ReadFrame never holds bytes that should have ended  *)
(* it.                                                                     *)
THEOREM LinkTypeCorrect == LinkSpec => []LinkTypeOK
  BY LinkTypeInit, LinkTypeStep, PTL DEF LinkSpec


-----------------------------------------------------------------------------
(* A quiet link *)

(* The units of an answer to the current request, in their order           *)
Nth(k) == [req |-> current,
           part |-> IF k = 1 THEN "~" ELSE IF k = 2 THEN "head"
                    ELSE IF k = 3 THEN "body" ELSE "cr"]

(* Nothing of the answer is on its way yet...                              *)
Asked == pending = {current} /\ sending = Nil /\ wire = <<>> /\ buf = <<>>

(* ...or n units are, and buf and wire are these and nothing else.         *)
Underway(n) ==
  /\ pending = {}
  /\ sending = IF n = 4 THEN Nil ELSE Nth(n + 1)
  /\ Len(buf) + Len(wire) = n /\ Len(buf) < 4
  /\ \A k \in 1 .. Len(buf) : buf[k] = Nth(k)
  /\ \A k \in 1 .. Len(wire) : wire[k] = Nth(Len(buf) + k)

InStep ==
  /\ at = "idle" => result = current /\ Quiet
  /\ at = "reading" => current \in Request /\ (Asked \/ \E n \in 0 .. 4 : Underway(n))

StepInv ==
  /\ broken => faulty
  /\ quiet /\ ~ faulty => InStep

LEMMA StepInit == LinkInit => StepInv
  BY DEF LinkInit, StepInv

(* The four units, and only they, are the answer.                          *)
LEMMA WholeAnswer ==
  ASSUME NEW bytes \in Seq(Unit), Len(bytes) \in 1 .. 4, current \in Request,
         \A k \in 1 .. Len(bytes) : bytes[k] = Nth(k)
  PROVE  /\ MayEnd(bytes) = {Len(bytes) >= 4}
         /\ Len(bytes) = 4 => Parsed(bytes) = current
<1>1. bytes[1].part = "~"
  <2>1. bytes[1] = Nth(1) OBVIOUS
  <2> QED BY <2>1 DEF Nth
<1>2. CASE Len(bytes) <= 3 BY <1>1, <1>2 DEF MayEnd
<1>3. CASE Len(bytes) = 4
  <2> DEFINE raw == Tail(bytes)
  <2>1. /\ raw \in Seq(Unit) /\ Len(raw) = 3
        /\ raw[1] = bytes[2] /\ raw[2] = bytes[3]
    <3>1. bytes # <<>> BY <1>3
    <3>2. raw \in Seq(Unit) /\ Len(raw) = 3 BY <1>3, <3>1
    <3>3. \A k \in 1 .. Len(raw) : raw[k] = bytes[k + 1] BY <3>1, HeadTailProperties
    <3> HIDE DEF raw
    <3> QED BY <3>2, <3>3
  <2>2. bytes[2] = [req |-> current, part |-> "head"] BY <1>3 DEF Nth
  <2>3. bytes[3] = [req |-> current, part |-> "body"] BY <1>3 DEF Nth
  <2>4. Intact(Tail(bytes)) BY <2>1, <2>2, <2>3 DEF Intact
  <2>5. Parsed(bytes) = current BY <1>1, <2>1, <2>2, <2>4 DEF Parsed
  <2> QED BY <1>1, <1>3, <2>4, <2>5 DEF MayEnd
<1> QED BY <1>2, <1>3

LEMMA StepStep == LinkTypeOK /\ StepInv /\ [LinkNext]_linkVars => StepInv'
<1> SUFFICES ASSUME LinkTypeOK, StepInv, [LinkNext]_linkVars PROVE StepInv'
  OBVIOUS
<1>1. (broken => faulty)'
  <2>1. ASSUME NEW r \in Request, Send(r) \/ Answer(r) \/ Ignore(r)
        PROVE  (broken => faulty)'
    <3>1. CASE Send(r) BY <3>1 DEF Send
    <3>2. CASE Answer(r) BY <3>2 DEF StepInv, Answer
    <3>3. CASE Ignore(r) BY <3>3 DEF Ignore
    <3> QED BY <2>1, <3>1, <3>2, <3>3
  <2>2. CASE ReadUnit \/ Deadline \/ PortFails \/ Reopen
    BY <2>2 DEF StepInv, ReadUnit, Deadline, PortFails, Reopen
  <2>3. CASE UnitArrives \/ BreakOff \/ Forget \/ PortBreaks
    BY <2>3 DEF StepInv, UnitArrives, BreakOff, Forget, PortBreaks
  <2> QED BY <2>1, <2>2, <2>3 DEF StepInv, LinkNext, linkVars
<1> SUFFICES ASSUME quiet', ~ faulty' PROVE InStep'
  BY <1>1 DEF StepInv
<1> USE DEF link
<1>2. ASSUME NEW r \in Request, Send(r) PROVE InStep'
  <2>1. Quiet BY <1>2 DEF Send
  <2>2. Asked' /\ current' \in Request /\ at' = "reading"
    BY <1>2, <2>1 DEF Send, Quiet, Asked
  <2> QED BY <2>2 DEF InStep
<1>3. CASE \E r \in Request : Answer(r)
  <2> PICK r \in Request : Answer(r) BY <1>3
  <2>1. InStep /\ pending # {} /\ ~ Quiet BY DEF StepInv, Answer, Quiet
  <2>2. at = "reading" /\ current \in Request /\ Asked
    BY <2>1 DEF InStep, Underway, LinkTypeOK
  <2>3. Underway(0)' BY <2>2 DEF Answer, Asked, Underway, Nth
  <2> QED BY <2>2, <2>3 DEF InStep, Answer
<1>4. CASE ReadUnit
  <2> DEFINE bytes == Append(buf, Head(wire))
  <2>1. InStep /\ at = "reading" /\ wire # <<>> BY <1>4 DEF StepInv, ReadUnit
  <2>2. PICK n \in 0 .. 4 : Underway(n)
    BY <2>1 DEF InStep, Asked
  <2>3. /\ current \in Request /\ bytes \in Seq(Unit)
        /\ Len(bytes) = Len(buf) + 1 /\ Len(bytes) \in 1 .. 4
        /\ \A k \in 1 .. Len(bytes) : bytes[k] = Nth(k)
    BY <2>1, <2>2 DEF InStep, Underway, LinkTypeOK
  <2>4. /\ wire' \in Seq(Unit) /\ Len(wire') = Len(wire) - 1
        /\ \A k \in 1 .. Len(wire') : wire'[k] = Nth(Len(bytes) + k)
    BY <1>4, <2>1, <2>2, <2>3 DEF ReadUnit, Underway, LinkTypeOK
  <2>5. PICK ends \in {Len(bytes) >= 4} :
          IF ends THEN Return(Parsed(bytes))
                  ELSE buf' = bytes /\ UNCHANGED <<at, result>>
    BY <1>4, <2>3, WholeAnswer DEF ReadUnit
  <2>6. CASE Len(bytes) = 4
    <3>1. Return(current)
      <4>1. ends = (Len(bytes) >= 4) BY <2>5
      <4>2. Len(bytes) >= 4 BY <2>6
      <4>3. ends BY <4>1, <4>2, Zenon
      <4>4. Parsed(bytes) = current BY <2>3, <2>6, WholeAnswer
      <4> QED BY <2>5, <4>3, <4>4
    <3>2. Len(wire) = 1 /\ n = 4 BY <2>1, <2>2, <2>3, <2>4, <2>6 DEF Underway, LinkTypeOK
    <3>3. Quiet' BY <1>4, <2>2, <2>4, <3>2 DEF Underway, ReadUnit, Quiet
    <3> QED BY <1>4, <3>1, <3>3 DEF InStep, Return, ReadUnit
  <2>7. CASE Len(bytes) # 4
    <3>1. buf' = bytes /\ UNCHANGED <<at, result, current, pending, sending>>
      <4>1. ends = (Len(bytes) >= 4) BY <2>5
      <4>2. ~ (Len(bytes) >= 4) BY <2>3, <2>7
      <4>3. ~ ends BY <4>1, <4>2, Zenon
      <4> QED BY <1>4, <2>5, <4>3 DEF ReadUnit
    <3>2. Underway(n)'
      BY <2>2, <2>3, <2>4, <2>7, <3>1 DEF Underway, Nth, LinkTypeOK
    <3> QED BY <2>1, <2>3, <3>1, <3>2 DEF InStep
  <2> QED BY <2>6, <2>7
<1>5. CASE Deadline
  <2>1. InStep /\ at = "reading" /\ Quiet BY <1>5 DEF StepInv, Deadline
  <2>2. ~ Asked BY <2>1 DEF Asked, Quiet
  <2>3. PICK n \in 0 .. 4 : Underway(n) BY <2>1, <2>2 DEF InStep
  <2>4. Len(buf) = n /\ n < 4 BY <2>1, <2>3 DEF Underway, Quiet, LinkTypeOK
  <2>5. Nth(n + 1) # Nil
    BY <2>1, <2>4, NilAssumption DEF InStep, Nth, Unit, Part
  <2> QED BY <2>1, <2>3, <2>4, <2>5 DEF Underway, Quiet
<1>6. CASE UnitArrives
  <2>1. InStep /\ ~ Quiet BY <1>6 DEF StepInv, UnitArrives, Quiet
  <2>2. at = "reading" /\ current \in Request BY <2>1 DEF InStep, LinkTypeOK
  <2>3. PICK n \in 0 .. 4 : Underway(n) BY <1>6, <2>1, <2>2 DEF InStep, Asked, UnitArrives
  <2>4. n \in 0 .. 3 /\ sending = Nth(n + 1) BY <1>6, <2>3 DEF Underway, UnitArrives
  <2>5. sending' = IF n + 1 = 4 THEN Nil ELSE Nth(n + 2)
    BY <1>6, <2>2, <2>4 DEF UnitArrives, After, Nth
  <2>6. /\ Len(wire') = Len(wire) + 1
        /\ \A k \in 1 .. Len(wire') : wire'[k] = Nth(Len(buf) + k)
    BY <1>6, <2>3, <2>4 DEF UnitArrives, Underway, LinkTypeOK
  <2>7. Underway(n + 1)' BY <1>6, <2>3, <2>4, <2>5, <2>6 DEF UnitArrives, Underway, Nth, LinkTypeOK
  <2> QED BY <1>6, <2>2, <2>4, <2>7 DEF UnitArrives, InStep
<1>7. CASE PortFails BY <1>7 DEF PortFails, StepInv
<1>8. CASE Reopen \/ BreakOff \/ PortBreaks BY <1>8 DEF Reopen, BreakOff, PortBreaks
<1>9. CASE \E r \in Request : Ignore(r) BY <1>9 DEF Ignore
<1>10. CASE Forget
  <2>1. InStep /\ at = "idle" BY <1>10 DEF StepInv, Forget
  <2> QED BY <1>10, <2>1 DEF InStep, Forget, Quiet
<1>11. CASE UNCHANGED linkVars
  <2>1. InStep BY <1>11 DEF StepInv, linkVars
  <2> QED BY <1>11, <2>1 DEF linkVars, InStep, Asked, Underway, Nth, Quiet
<1> QED BY <1>2, <1>3, <1>4, <1>5, <1>6, <1>7, <1>8, <1>9, <1>10, <1>11 DEF LinkNext

(* A request on a quiet link that is answered whole and in time gets its   *)
(* own answer and leaves the link quiet.                                   *)
THEOREM StepCorrect == LinkSpec => []StaysInStep
<1>1. StepInv => StaysInStep BY DEF StepInv, InStep, StaysInStep
<1> QED BY <1>1, LinkTypeInit, LinkTypeStep, StepInit, StepStep, PTL DEF LinkSpec

=============================================================================
