---------------------------- MODULE Bridge_proof ----------------------------
(***************************************************************************)
(* For any number of packs and any selection of commands: what a round     *)
(* without crossed answers puts into the store, and what it gives up.      *)
(***************************************************************************)
EXTENDS Bridge, SequenceTheorems, TLAPS

Current == [pack |-> Pack, cmd |-> Asked]

(* Whatever is on its way in such a round is for the query that waits.     *)
Undisturbed ==
  clean /\ at = "wait" =>
    /\ \A r \in Request : owed[r] > 0 => r = Current /\ owed[r] = 1 /\ line = <<>>
    /\ line = <<>> \/ line = <<Current>>

Places ==
  /\ v2 => Plan[k] = "inverter_protocol"
  /\ at \in {"closed", "idle"} \/ idx = N + 1 => k = 1
  /\ k <= 4 => draft = {}

BridgeInv == BridgeTypeOK /\ Places /\ Undisturbed /\ FilesRightly

-----------------------------------------------------------------------------

(* What follows a sequence does not change it.                             *)
LEMMA Longer ==
  ASSUME NEW S, NEW s \in Seq(S), NEW t \in Seq(S)
  PROVE  /\ s \o t \in Seq(S)
         /\ Len(s \o t) = Len(s) + Len(t)
         /\ \A j \in 1 .. Len(s) : (s \o t)[j] = s[j]
BY ConcatProperties

(* The commands of Plan, and where the ones that are always asked are.     *)
LEMMA PlanFacts ==
  /\ Len(Plan) \in Nat /\ Len(Plan) >= 4
  /\ \A j \in 1 .. Len(Plan) : Plan[j] \in Command
  /\ Plan[1] = "analog" /\ Plan[3] = "current_limit_parameter" /\ Plan[4] = "bms_datetime"
  /\ Plan[2] = "warning_info"
<1>. DEFINE always == <<"analog", "warning_info", "current_limit_parameter", "bms_datetime">>
            U == {InfoCommand[j] : j \in 1 .. Len(InfoCommand)}
                   \cup {ParamCommand[j] : j \in 1 .. Len(ParamCommand)}
                   \cup {"analog", "warning_info", "current_limit_parameter", "bms_datetime"}
            first == always \o InfoAsked
<1>1. InfoAsked \in Seq(U) /\ ParamsAsked \in Seq(U)
  BY AskedAssumption
<1>2. always \in Seq(U)
  OBVIOUS
<1>3. /\ Len(always) = 4 /\ always[1] = "analog" /\ always[2] = "warning_info"
      /\ always[3] = "current_limit_parameter" /\ always[4] = "bms_datetime"
  OBVIOUS
<1>4. Plan = first \o ParamsAsked
  BY DEF Plan
<1>. HIDE DEF always, U
<1>5. /\ first \in Seq(U) /\ Len(first) = Len(always) + Len(InfoAsked)
      /\ \A j \in 1 .. Len(always) : first[j] = always[j]
  BY <1>1, <1>2, ConcatProperties
<1>. HIDE DEF first
<1>6. Len(InfoAsked) \in Nat /\ Len(ParamsAsked) \in Nat
  BY <1>1
<1>7. /\ Len(first \o ParamsAsked) = Len(first) + Len(ParamsAsked)
      /\ \A j \in 1 .. Len(first) : (first \o ParamsAsked)[j] = first[j]
  BY <1>1, <1>5, Longer
<1>8. /\ Len(Plan) \in Nat /\ Len(Plan) >= 4
      /\ \A j \in 1 .. 4 : Plan[j] = always[j]
  BY <1>3, <1>4, <1>5, <1>6, <1>7
<1>. QED
  BY <1>3, <1>8 DEF Command

(* There are packs to poll.                                                *)
LEMMA PolledFacts == N \in Nat \ {0}
BY PolledAssumption DEF N

(* The pack whose turn it is has an address.                               *)
LEMMA PackFacts ==
  ASSUME idx \in 1 .. N
  PROVE  Pack \in Address
BY DEF Pack, Address

LEMMA AskedIsCommand ==
  ASSUME BridgeInv
  PROVE  Asked \in Command /\ Plan[k] \in Command
BY PlanFacts DEF BridgeInv, BridgeTypeOK, Asked, Command

(* What is filed comes from a request, and from this one in a clean round. *)
LEMMA FileFacts ==
  ASSUME BridgeInv, idx <= N, NEW f \in Request
  PROVE  /\ File(f, Pack) \in Filing /\ File(f, LimitAddress(f)) \in Filing
         /\ f = Current => Own(File(f, Pack)) /\ Own(File(f, LimitAddress(f)))
<1>1. idx \in 1 .. N
  BY PolledFacts DEF BridgeInv, BridgeTypeOK
<1>2. Plan[k] \in Command /\ f.pack \in Address /\ Pack \in Address
  BY <1>1, AskedIsCommand, PackFacts DEF Request
<1>3. v2 => Plan[k] = "inverter_protocol"
  BY DEF BridgeInv, Places
<1>4. File(f, Pack) \in Filing /\ File(f, LimitAddress(f)) \in Filing
  BY <1>2 DEF File, Filing, LimitAddress
<1>5. ASSUME f = Current
      PROVE  Own(File(f, Pack)) /\ Own(File(f, LimitAddress(f)))
  BY <1>3, <1>5 DEF Current, Asked, Own, File, LimitAddress
<1>. QED
  BY <1>4, <1>5

(* The loops over packs and commands go on inside their bounds.            *)
LEMMA GoOnFacts ==
  ASSUME BridgeInv, idx <= N, NEW more, GoOn(more)
  PROVE  /\ at' = "ask" /\ v2' = FALSE
         /\ idx' \in 1 .. N + 1 /\ k' \in 1 .. Len(Plan)
         /\ k' = 1 \/ (more /\ k < Len(Plan) /\ k' = k + 1 /\ idx' = idx)
<1>1. idx \in 1 .. N /\ k \in 1 .. Len(Plan) /\ Len(Plan) \in Nat /\ N \in Nat
  BY PlanFacts, PolledFacts DEF BridgeInv, BridgeTypeOK
<1>2. CASE more /\ k < Len(Plan)
  <2>1. at' = "ask" /\ v2' = FALSE /\ k' = k + 1 /\ idx' = idx
    BY <1>2 DEF GoOn
  <2>. QED
    BY <1>1, <1>2, <2>1
<1>3. CASE ~ (more /\ k < Len(Plan))
  <2>1. at' = "ask" /\ v2' = FALSE /\ k' = 1 /\ idx' = idx + 1
    BY <1>3 DEF GoOn
  <2>. QED
    BY <1>1, <2>1, PlanFacts
<1>. QED
  BY <1>2, <1>3

(* What a query that ends leaves behind: only what is written down anew    *)
(* has to be looked at.                                                    *)
LEMMA LeavesInv ==
  ASSUME BridgeInv, idx <= N, BridgeTypeOK', NEW more, GoOn(more),
         k' <= 4 => draft' = {}, FilesRightly'
  PROVE  BridgeInv'
<1>1. at' = "ask" /\ v2' = FALSE
  BY GoOnFacts
<1>2. idx' = N + 1 => k' = 1
  <2>1. idx <= N /\ idx \in Nat /\ N \in Nat
    BY PolledFacts DEF BridgeInv, BridgeTypeOK
  <2>2. k' = 1 \/ idx' = idx
    BY GoOnFacts
  <2>. QED
    BY <2>1, <2>2
<1>3. Places' /\ Undisturbed'
  BY <1>1, <1>2 DEF Places, Undisturbed
<1>. QED
  BY <1>3 DEF BridgeInv

(* The query ends with an answer or without one.                           *)
LEMMA ConcludeStep ==
  ASSUME BridgeInv, at = "wait", NEW f, f \in Request \/ f = NoAnswer,
         clean => f = Current \/ f = NoAnswer,
         Conclude(f), line' \in Seq(Request)
  PROVE  BridgeInv'
<1>. idx \in 1 .. N /\ idx <= N
  BY PolledFacts DEF BridgeInv, BridgeTypeOK
<1>1. /\ statusDue' \in BOOLEAN /\ clean' \in BOOLEAN /\ refuses' \subseteq Request
      /\ owed' \in [Request -> Nat] /\ clean' = clean
  BY DEF Conclude, BridgeInv, BridgeTypeOK
<1>2. \A good \in Good(f) : good => f # NoAnswer
  BY DEF Good
<1>3. ASSUME NEW good \in Good(f), good
      PROVE  /\ File(f, Pack) \in Filing /\ File(f, LimitAddress(f)) \in Filing
             /\ clean => Own(File(f, Pack)) /\ Own(File(f, LimitAddress(f)))
  BY <1>2, <1>3, FileFacts
<1>4. draft \subseteq Filing /\ (clean => \A file \in draft : Own(file))
  BY DEF BridgeInv, BridgeTypeOK, FilesRightly
<1>5. k \in 1 .. Len(Plan) /\ Len(Plan) \in Nat
  BY PlanFacts DEF BridgeInv, BridgeTypeOK
<1>6. CASE EndAnalog(f)
  <2>1. PICK good \in Good(f) :
          IF good THEN stored' = {File(f, Pack)} /\ success' = TRUE /\ GoOn(statusDue)
                         /\ UNCHANGED lastErr
                  ELSE lastErr' = TRUE /\ GoOn(FALSE) /\ stored' = {} /\ UNCHANGED success
    BY <1>6 DEF EndAnalog
  <2>2. k = 1 /\ draft' = draft /\ UNCHANGED memory
    BY <1>6 DEF EndAnalog
  <2>3. PICK more : GoOn(more)
    BY <2>1
  <2>4. draft' = {}
    BY <2>2 DEF BridgeInv, Places
  <2>5. stored' \subseteq Filing /\ FilesRightly'
    BY <1>1, <1>3, <2>1, <2>4 DEF FilesRightly
  <2>6. BridgeTypeOK'
    BY <1>1, <2>1, <2>2, <2>3, <2>4, <2>5, GoOnFacts DEF BridgeInv, BridgeTypeOK, memory
  <2>. QED
    BY <2>3, <2>4, <2>5, <2>6, LeavesInv
<1>7. CASE EndWarning(f)
  <2>1. PICK good \in Good(f) :
          IF good THEN stored' = {File(f, Pack)} /\ GoOn(TRUE) /\ UNCHANGED lastErr
                  ELSE stored' = {} /\ GoOn(FALSE) /\ lastErr' = TRUE
    BY <1>7 DEF EndWarning
  <2>2. k = 2 /\ draft' = draft /\ UNCHANGED memory /\ UNCHANGED success
    BY <1>7 DEF EndWarning
  <2>3. PICK more : GoOn(more)
    BY <2>1
  <2>4. draft' = {}
    BY <2>2 DEF BridgeInv, Places
  <2>5. stored' \subseteq Filing /\ FilesRightly'
    BY <1>1, <1>3, <2>1, <2>4 DEF FilesRightly
  <2>6. BridgeTypeOK'
    BY <1>1, <2>1, <2>2, <2>3, <2>4, <2>5, GoOnFacts DEF BridgeInv, BridgeTypeOK, memory
  <2>. QED
    BY <2>3, <2>4, <2>5, <2>6, LeavesInv
<1>8. CASE EndLimit(f)
  <2>1. PICK good \in Good(f) : stored' = IF good THEN {File(f, LimitAddress(f))} ELSE {}
    BY <1>8 DEF EndLimit
  <2>2. /\ k = 3 /\ draft' = draft /\ UNCHANGED <<lastErr, success, clockOff, unsupported>>
        /\ limitOff' = (limitOff \/ Refused(f)) /\ GoOn(TRUE)
    BY <1>8 DEF EndLimit
  <2>3. draft' = {}
    BY <2>2 DEF BridgeInv, Places
  <2>4. stored' \subseteq Filing /\ FilesRightly'
    BY <1>1, <1>3, <2>1, <2>3 DEF FilesRightly
  <2>5. limitOff' \in BOOLEAN
    BY <2>2
  <2>6. BridgeTypeOK'
    BY <1>1, <2>2, <2>3, <2>4, <2>5, GoOnFacts DEF BridgeInv, BridgeTypeOK
  <2>. QED
    BY <2>2, <2>3, <2>4, <2>6, LeavesInv
<1>9. CASE EndClock(f)
  <2>1. PICK good \in Good(f) : stored' = IF good THEN {File(f, Pack)} ELSE {}
    BY <1>9 DEF EndClock
  <2>2. /\ k = 4 /\ draft' = draft /\ UNCHANGED <<lastErr, success, limitOff, unsupported>>
        /\ clockOff' = (clockOff \/ Refused(f))
    BY <1>9 DEF EndClock
  <2>3. PICK more : GoOn(more)
    BY <1>9 DEF EndClock
  <2>4. draft' = {}
    BY <2>2 DEF BridgeInv, Places
  <2>5. stored' \subseteq Filing /\ FilesRightly'
    BY <1>1, <1>3, <2>1, <2>4 DEF FilesRightly
  <2>6. clockOff' \in BOOLEAN
    BY <2>2
  <2>7. BridgeTypeOK'
    BY <1>1, <2>2, <2>3, <2>4, <2>5, <2>6, GoOnFacts DEF BridgeInv, BridgeTypeOK
  <2>. QED
    BY <2>3, <2>4, <2>5, <2>7, LeavesInv
<1>10. CASE EndOptional(f)
  <2>1. PICK good \in Good(f) :
          IF ~ good /\ Asked = "inverter_protocol"
            THEN /\ v2' = TRUE /\ at' = "ask" /\ stored' = {}
                 /\ UNCHANGED <<idx, k, draft, unsupported>>
            ELSE /\ Draft(IF good THEN draft \cup {File(f, Pack)} ELSE draft)
                 /\ unsupported' =
                      IF Refused(f) THEN unsupported \cup {<<Pack, Plan[k]>>} ELSE unsupported
                 /\ GoOn(TRUE)
    BY <1>10 DEF EndOptional
  <2>2. k > 4 /\ UNCHANGED <<lastErr, success, limitOff, clockOff>>
    BY <1>10 DEF EndOptional
  <2>3. CASE ~ good /\ Asked = "inverter_protocol"
    <3>1. /\ v2' = TRUE /\ at' = "ask" /\ stored' = {}
          /\ UNCHANGED <<idx, k, draft, unsupported>>
      BY <2>1, <2>3
    <3>2. Plan[k] = "inverter_protocol"
      BY <2>3 DEF Asked
    <3>3. BridgeTypeOK'
      BY <1>1, <2>2, <3>1 DEF BridgeInv, BridgeTypeOK
    <3>4. Places' /\ Undisturbed'
      BY <2>2, <3>1, <3>2 DEF BridgeInv, Places, Undisturbed, BridgeTypeOK
    <3>5. FilesRightly'
      BY <1>1, <1>4, <3>1 DEF FilesRightly
    <3>. QED
      BY <3>3, <3>4, <3>5 DEF BridgeInv
  <2>4. CASE ~ (~ good /\ Asked = "inverter_protocol")
    <3>. DEFINE d == IF good THEN draft \cup {File(f, Pack)} ELSE draft
    <3>1. /\ Draft(d) /\ GoOn(TRUE)
          /\ unsupported' =
               IF Refused(f) THEN unsupported \cup {<<Pack, Plan[k]>>} ELSE unsupported
      BY <2>1, <2>4
    <3>2. d \subseteq Filing /\ (clean => \A file \in d : Own(file))
      BY <1>3, <1>4
    <3>. HIDE DEF d
    <3>3. /\ stored' \subseteq Filing /\ draft' \subseteq Filing
          /\ clean => \A file \in stored' \cup draft' : Own(file)
      BY <3>1, <3>2 DEF Draft
    <3>4. k' <= 4 => draft' = {}
      <4>1. k' = 1 \/ k' = k + 1
        BY <3>1, GoOnFacts
      <4>2. k' = 1 => k = Len(Plan)
        BY <1>5, <3>1 DEF GoOn
      <4>. QED
        BY <1>5, <2>2, <3>1, <4>1, <4>2 DEF Draft
    <3>5. unsupported' \subseteq Address \X Command
      <4>1. <<Pack, Plan[k]>> \in Address \X Command
        BY AskedIsCommand, PackFacts
      <4>. QED
        BY <3>1, <4>1 DEF BridgeInv, BridgeTypeOK
    <3>6. BridgeTypeOK'
      BY <1>1, <2>2, <3>1, <3>3, <3>5, GoOnFacts DEF BridgeInv, BridgeTypeOK
    <3>7. FilesRightly'
      BY <1>1, <3>3 DEF FilesRightly
    <3>. QED
      BY <3>1, <3>4, <3>6, <3>7, LeavesInv
  <2>. QED
    BY <2>3, <2>4
<1>. QED
  BY <1>6, <1>7, <1>8, <1>9, <1>10 DEF Conclude

LEMMA InitHolds ==
  ASSUME BridgeInit
  PROVE  BridgeInv
<1>1. 1 \in 1 .. N + 1 /\ 1 \in 1 .. Len(Plan) /\ 1 # N + 1
  BY PlanFacts, PolledFacts
<1>2. <<>> \in Seq(Request) /\ NothingOwed \in [Request -> Nat]
  BY DEF NothingOwed
<1>3. BridgeTypeOK
  BY <1>1, <1>2 DEF BridgeInit, BridgeTypeOK
<1>4. Places /\ Undisturbed /\ FilesRightly
  BY DEF BridgeInit, Places, Undisturbed, FilesRightly
<1>. QED
  BY <1>3, <1>4 DEF BridgeInv

(* What Query reads in such a round is its own answer.                     *)
LEMMA ReadIsCurrent ==
  ASSUME BridgeInv, at = "wait", line # <<>>
  PROVE  /\ Head(line) \in Request /\ Tail(line) \in Seq(Request)
         /\ clean => Head(line) = Current
<1>1. line \in Seq(Request)
  BY DEF BridgeInv, BridgeTypeOK
<1>2. Head(line) \in Request /\ Tail(line) \in Seq(Request)
  BY <1>1
<1>3. clean => line = <<Current>>
  BY DEF BridgeInv, Undisturbed
<1>. QED
  BY <1>2, <1>3

(* Every step keeps the invariant.                                         *)
LEMMA BridgeStep ==
  ASSUME BridgeInv, [BridgeNext]_bridgeVars
  PROVE  BridgeInv'
<1>. USE DEF external, memory
<1>1. CASE BeginRound
  <2>1. 1 \in 1 .. N + 1 /\ 1 \in 1 .. Len(Plan) /\ 1 # N + 1
    BY PlanFacts, PolledFacts
  <2>2. draft' = {} /\ ~ v2 /\ v2' = v2
    BY <1>1, PlanFacts DEF BeginRound, BridgeInv, Places
  <2>3. BridgeTypeOK'
    BY <1>1, <2>1 DEF BeginRound, BridgeInv, BridgeTypeOK
  <2>4. Places' /\ Undisturbed' /\ FilesRightly'
    BY <1>1, <2>2 DEF BeginRound, Places, Undisturbed, FilesRightly
  <2>. QED
    BY <2>3, <2>4 DEF BridgeInv
<1>2. CASE Skip
  <2>1. idx <= N /\ UNCHANGED <<statusDue, lastErr, success, memory, external>>
    BY <1>2 DEF Skip
  <2>2. PICK more : GoOn(more) /\ (k # 4 => more = TRUE)
    BY <1>2 DEF Skip
  <2>3. k \in 1 .. Len(Plan) /\ Len(Plan) \in Nat
    BY PlanFacts DEF BridgeInv, BridgeTypeOK
  <2>4. /\ stored' \subseteq draft /\ draft' \subseteq draft
        /\ k > 4 /\ k = Len(Plan) => draft' = {}
        /\ k <= 4 => draft' = draft
    <3>1. CASE k > 4
      BY <1>2, <2>3, <3>1 DEF Skip, Draft
    <3>2. CASE k <= 4
      BY <1>2, <2>3, <3>2 DEF Skip
    <3>. QED
      BY <2>3, <3>1, <3>2
  <2>5. k' <= 4 => draft' = {}
    <3>1. CASE k <= 4
      BY <2>4, <3>1 DEF BridgeInv, Places
    <3>2. CASE k > 4
      <4>1. k' = 1 => k = Len(Plan)
        BY <2>2, <2>3, <3>2 DEF GoOn
      <4>2. k' = 1 \/ k' = k + 1
        BY <2>1, <2>2, GoOnFacts
      <4>. QED
        BY <2>4, <2>3, <3>2, <4>1, <4>2
    <3>. QED
      BY <2>3, <3>1, <3>2
  <2>6. BridgeTypeOK'
    BY <2>1, <2>2, <2>4, GoOnFacts DEF BridgeInv, BridgeTypeOK
  <2>7. FilesRightly'
    BY <2>1, <2>4 DEF BridgeInv, FilesRightly
  <2>. QED
    BY <2>1, <2>2, <2>5, <2>6, <2>7, LeavesInv
<1>3. CASE Ask
  <2>1. Current \in Request
    <3>1. idx \in 1 .. N
      BY <1>3, PolledFacts DEF Ask, BridgeInv, BridgeTypeOK
    <3>. QED
      BY <3>1, AskedIsCommand, PackFacts DEF Current, Request
  <2>2. owed' = [owed EXCEPT ![Current] = @ + 1] /\ Current' = Current
    BY <1>3 DEF Ask, Adr, Current, Pack, Asked, Plan
  <2>3. BridgeTypeOK'
    BY <1>3, <2>1, <2>2 DEF Ask, BridgeInv, BridgeTypeOK
  <2>4. Places'
    BY <1>3 DEF Ask, BridgeInv, Places
  <2>5. Undisturbed'
    <3>1. SUFFICES ASSUME clean'
          PROVE  /\ \A r \in Request :
                      owed'[r] > 0 => r = Current /\ owed'[r] = 1 /\ line' = <<>>
                 /\ line' = <<>>
      BY <2>2 DEF Undisturbed
    <3>2. line = <<>> /\ owed = NothingOwed /\ line' = line
      BY <1>3, <3>1 DEF Ask, Quiet
    <3>3. \A r \in Request : owed[r] = 0
      BY <3>2 DEF NothingOwed
    <3>4. \A r \in Request : owed'[r] = IF r = Current THEN 1 ELSE 0
      BY <2>1, <2>2, <3>3 DEF BridgeInv, BridgeTypeOK
    <3>. QED
      BY <3>2, <3>4
  <2>6. FilesRightly'
    BY <1>3 DEF Ask, BridgeInv, FilesRightly
  <2>. QED
    BY <2>3, <2>4, <2>5, <2>6 DEF BridgeInv
<1>4. CASE TakeFrame
  <2>1. at = "wait" /\ line # <<>> /\ line' = Tail(line) /\ Conclude(Head(line))
    BY <1>4 DEF TakeFrame
  <2>. QED
    BY <2>1, ReadIsCurrent, ConcludeStep
<1>5. CASE TimeOut
  <2>1. at = "wait" /\ line' \in Seq(Request) /\ Conclude(NoAnswer)
    BY <1>5 DEF TimeOut, BridgeInv, BridgeTypeOK
  <2>. QED
    BY <2>1, ConcludeStep
<1>6. CASE EndRound
  <2>1. 1 \in 1 .. N + 1 /\ 1 # N + 1
    BY PolledFacts
  <2>2. BridgeTypeOK'
    BY <1>6, <2>1 DEF EndRound, BridgeInv, BridgeTypeOK
  <2>3. k = 1
    <3>1. idx = N + 1
      BY <1>6, PolledFacts DEF EndRound, BridgeInv, BridgeTypeOK
    <3>. QED
      BY <3>1 DEF BridgeInv, Places
  <2>4. Places' /\ Undisturbed' /\ FilesRightly'
    BY <1>6, <2>3 DEF EndRound, BridgeInv, Places, Undisturbed, FilesRightly
  <2>. QED
    BY <2>2, <2>4 DEF BridgeInv
<1>7. CASE OpenClient
  <2>1. NothingOwed \in [Request -> Nat] /\ <<>> \in Seq(Request)
    BY DEF NothingOwed
  <2>2. BridgeTypeOK'
    BY <1>7, <2>1 DEF OpenClient, BridgeInv, BridgeTypeOK
  <2>3. Places' /\ Undisturbed' /\ FilesRightly'
    BY <1>7 DEF OpenClient, BridgeInv, Places, Undisturbed, FilesRightly
  <2>. QED
    BY <2>2, <2>3 DEF BridgeInv
<1>8. ASSUME NEW r \in Request, Answer(r) \/ Ignore(r)
      PROVE  BridgeInv'
  <2>1. /\ owed[r] > 0 /\ owed' = [owed EXCEPT ![r] = @ - 1] /\ stored' = {}
        /\ line' = line \/ line' = Append(line, r)
        /\ UNCHANGED <<at, idx, k, v2, statusDue, lastErr, success, memory, draft, refuses,
                       clean>>
    BY <1>8 DEF Answer, Ignore
  <2>2. owed[r] \in Nat /\ line \in Seq(Request) /\ owed \in [Request -> Nat]
    BY DEF BridgeInv, BridgeTypeOK
  <2>3. line' \in Seq(Request) /\ owed' \in [Request -> Nat]
    BY <2>1, <2>2
  <2>4. BridgeTypeOK'
    BY <2>1, <2>3 DEF BridgeInv, BridgeTypeOK
  <2>5. Places' /\ FilesRightly'
    BY <2>1 DEF BridgeInv, Places, FilesRightly
  <2>6. Undisturbed'
    <3>1. SUFFICES ASSUME clean, at = "wait"
          PROVE  /\ \A x \in Request :
                      owed'[x] > 0 => x = Current /\ owed'[x] = 1 /\ line' = <<>>
                 /\ line' = <<>> \/ line' = <<Current>>
      BY <2>1 DEF Undisturbed, Current, Pack, Asked, Plan
    <3>2. r = Current /\ owed[r] = 1 /\ line = <<>>
      BY <2>1, <3>1 DEF BridgeInv, Undisturbed
    <3>3. \A x \in Request : x # r => ~ (owed[x] > 0)
      BY <3>1, <3>2 DEF BridgeInv, Undisturbed
    <3>4. \A x \in Request : ~ (owed'[x] > 0)
      BY <2>1, <2>2, <3>2, <3>3
    <3>5. line' = <<>> \/ line' = <<Current>>
      BY <2>1, <3>2
    <3>. QED
      BY <3>4, <3>5
  <2>. QED
    BY <2>4, <2>5, <2>6 DEF BridgeInv
<1>9. CASE UNCHANGED bridgeVars
  BY <1>9 DEF bridgeVars, BridgeInv, BridgeTypeOK, Places, Undisturbed, FilesRightly,
              Current, Pack, Asked
<1>. QED
  BY <1>1, <1>2, <1>3, <1>4, <1>5, <1>6, <1>7, <1>8, <1>9 DEF BridgeNext

(* A query of such a round takes for a refusal only what refused it.       *)
LEMMA RefusalIsOwn ==
  ASSUME BridgeInv, at = "wait", clean, NEW f, f = Current \/ f = NoAnswer, Refused(f)
  PROVE  \E r \in refuses : r.pack = Pack /\ r.cmd = Asked
<1>1. f = Current /\ f \in refuses
  BY DEF Refused
<1>2. Current.pack = Pack /\ Current.cmd = Asked
  BY DEF Current
<1>. QED
  BY <1>1, <1>2

LEMMA RefusalStep ==
  ASSUME BridgeInv, BridgeNext, clean
  PROVE  /\ \A u \in unsupported' \ unsupported :
              \E r \in refuses : r.pack = u[1] /\ (r.cmd = u[2] \/ r.cmd = Asked)
         /\ limitOff' # limitOff => \E r \in refuses : r.cmd = "current_limit_parameter"
         /\ clockOff' # clockOff => \E r \in refuses : r.cmd = "bms_datetime"
<1>1. ASSUME at = "wait", NEW f, f = Current \/ f = NoAnswer, Conclude(f)
      PROVE  /\ unsupported' \subseteq unsupported
                  \/ (Refused(f) /\ unsupported' = unsupported \cup {<<Pack, Plan[k]>>})
             /\ limitOff' # limitOff => Refused(f) /\ k = 3
             /\ clockOff' # clockOff => Refused(f) /\ k = 4
  <2>1. CASE EndAnalog(f) \/ EndWarning(f)
    BY <2>1 DEF EndAnalog, EndWarning, memory
  <2>2. CASE EndLimit(f)
    <3>1. k = 3 /\ limitOff' = (limitOff \/ Refused(f)) /\ UNCHANGED <<clockOff, unsupported>>
      BY <2>2 DEF EndLimit
    <3>2. limitOff \in BOOLEAN /\ Refused(f) \in BOOLEAN
      BY DEF BridgeInv, BridgeTypeOK, Refused
    <3>. QED
      BY <3>1, <3>2
  <2>3. CASE EndClock(f)
    <3>1. k = 4 /\ clockOff' = (clockOff \/ Refused(f)) /\ UNCHANGED <<limitOff, unsupported>>
      BY <2>3 DEF EndClock
    <3>2. clockOff \in BOOLEAN /\ Refused(f) \in BOOLEAN
      BY DEF BridgeInv, BridgeTypeOK, Refused
    <3>. QED
      BY <3>1, <3>2
  <2>4. CASE EndOptional(f)
    <3>1. UNCHANGED <<limitOff, clockOff>>
      BY <2>4 DEF EndOptional
    <3>2. \/ unsupported' = unsupported
          \/ unsupported' =
               IF Refused(f) THEN unsupported \cup {<<Pack, Plan[k]>>} ELSE unsupported
      BY <2>4 DEF EndOptional
    <3>. QED
      BY <3>1, <3>2
  <2>. QED
    BY <1>1, <2>1, <2>2, <2>3, <2>4 DEF Conclude
<1>2. ASSUME at = "wait", NEW f, f = Current \/ f = NoAnswer, Conclude(f)
      PROVE  /\ \A u \in unsupported' \ unsupported :
                  \E r \in refuses : r.pack = u[1] /\ (r.cmd = u[2] \/ r.cmd = Asked)
             /\ limitOff' # limitOff => \E r \in refuses : r.cmd = "current_limit_parameter"
             /\ clockOff' # clockOff => \E r \in refuses : r.cmd = "bms_datetime"
  <2>1. Refused(f) => \E r \in refuses : r.pack = Pack /\ r.cmd = Asked
    BY <1>2, RefusalIsOwn
  <2>2. k = 3 => Asked = "current_limit_parameter"
    BY PlanFacts DEF BridgeInv, Places, Asked
  <2>3. k = 4 => Asked = "bms_datetime"
    BY PlanFacts DEF BridgeInv, Places, Asked
  <2>4. ASSUME NEW u \in unsupported' \ unsupported
        PROVE  \E r \in refuses : r.pack = u[1] /\ (r.cmd = u[2] \/ r.cmd = Asked)
    <3>1. Refused(f) /\ u = <<Pack, Plan[k]>>
      BY <1>1, <1>2, <2>4
    <3>. QED
      BY <2>1, <3>1
  <2>5. limitOff' # limitOff => Refused(f) /\ k = 3
    BY <1>1, <1>2
  <2>6. clockOff' # clockOff => Refused(f) /\ k = 4
    BY <1>1, <1>2
  <2>. QED
    BY <2>1, <2>2, <2>3, <2>4, <2>5, <2>6
<1>3. CASE TakeFrame
  BY <1>2, <1>3, ReadIsCurrent DEF TakeFrame
<1>4. CASE TimeOut
  BY <1>2, <1>4 DEF TimeOut
<1>5. CASE BeginRound \/ Skip \/ Ask \/ EndRound \/ OpenClient
            \/ \E r \in Request : Answer(r) \/ Ignore(r)
  <2>1. UNCHANGED memory
    BY <1>5 DEF BeginRound, Skip, Ask, EndRound, OpenClient, Answer, Ignore, memory
  <2>. QED
    BY <2>1 DEF memory
<1>. QED
  BY <1>3, <1>4, <1>5 DEF BridgeNext

-----------------------------------------------------------------------------

(* The invariant holds of every behaviour.                                 *)
LEMMA BridgeInvariant == BridgeSpec => []BridgeInv
<1>1. BridgeInit => BridgeInv
  BY InitHolds
<1>2. BridgeInv /\ [BridgeNext]_bridgeVars => BridgeInv'
  BY BridgeStep
<1>. QED
  BY <1>1, <1>2, PTL DEF BridgeSpec

(* Every variable keeps its type, and both loops stay inside their lists.  *)
THEOREM BridgeTypeCorrect == BridgeSpec => []BridgeTypeOK
<1>1. BridgeInv => BridgeTypeOK
  BY DEF BridgeInv
<1>. QED
  BY <1>1, BridgeInvariant, PTL

(* In a round in which no query finds an earlier answer open, all that is  *)
(* stored is what that pack said of it, although no frame tells.           *)
THEOREM FiledRightly == BridgeSpec => []FilesRightly
<1>1. BridgeInv => FilesRightly
  BY DEF BridgeInv
<1>. QED
  BY <1>1, BridgeInvariant, PTL

(* Such a round gives up no command but one that was refused: by that      *)
(* pack, if it is given up for one pack only.                              *)
THEOREM RefusedRightly == BridgeSpec => RefusalsAreOwn
<1>1. BridgeInv /\ [BridgeNext]_bridgeVars =>
        [clean =>
          /\ \A u \in unsupported' \ unsupported :
               \E r \in refuses : r.pack = u[1] /\ (r.cmd = u[2] \/ r.cmd = Asked)
          /\ limitOff' # limitOff => \E r \in refuses : r.cmd = "current_limit_parameter"
          /\ clockOff' # clockOff => \E r \in refuses : r.cmd = "bms_datetime"]_bridgeVars
  BY RefusalStep
<1>. QED
  BY <1>1, BridgeInvariant, PTL DEF BridgeSpec, RefusalsAreOwn

-----------------------------------------------------------------------------
(* Two bytes of info: only the limit itself and the short protocol answer. *)
LEMMA TwoBytes ==
  ASSUME NEW d
  PROVE  Accepts("current_limit_parameter", InfoLength(d))
           => d \in {"current_limit_parameter", "inverter_protocol_v2"}
<1>1. Width(Parser("current_limit_parameter")) = 2
  BY DEF Parser, Width, Fields, ParseCurrentLimitParameter
<1>2. CASE d \in {"analog", "warning_info", "software_version", "pace_software_version",
                 "product_info", "inverter_protocol"}
  BY <1>1, <1>2 DEF Accepts, InfoLength
<1>3. CASE d \notin {"analog", "warning_info", "software_version", "pace_software_version",
                    "product_info", "inverter_protocol"}
  <2>1. InfoLength(d) = Width(Parser(d))
    BY <1>3 DEF InfoLength
  <2>2. Width(Parser(d)) = 2 =>
          d \in {"current_limit_parameter", "inverter_protocol", "inverter_protocol_v2"}
    BY DEF Parser, Width, Fields, ParseBMSDateTime, ParseInverterProtocol,
       ParseEqualizationParameters, ParseFullChargeParameters,
       ParseSingleHibernateParameters, ParseVoltageProtectionParameters,
       ParseCurrentProtectionParameters, ParseDischargeOCP2Parameters,
       ParseShortCircuitDelay, ParseDualTemperatureProtectionParameters,
       ParseSingleTemperatureProtectionParameters, ParseCurrentLimitParameter, ParseText
  <2>. QED
    BY <1>1, <1>3, <2>1, <2>2 DEF Accepts
<1>. QED
  BY <1>2, <1>3

LEMMA Associative ==
  ASSUME NEW S, NEW r \in Seq(S), NEW s \in Seq(S), NEW t \in Seq(S)
  PROVE  (r \o s) \o t = r \o (s \o t)
BY SMT

(* The limit has one place in a round.                                     *)
LEMMA LimitIsThird ==
  ASSUME NEW j \in 1 .. Len(Plan), Plan[j] = "current_limit_parameter"
  PROVE  j = 3
<1>. DEFINE always == <<"analog", "warning_info", "current_limit_parameter", "bms_datetime">>
            I == {InfoCommand[i] : i \in 1 .. Len(InfoCommand)}
            P == {ParamCommand[i] : i \in 1 .. Len(ParamCommand)}
            O == I \cup P
            rest == InfoAsked \o ParamsAsked
<1>1. InfoAsked \in Seq(O) /\ ParamsAsked \in Seq(O)
  BY AskedAssumption
<1>2. "current_limit_parameter" \notin I
  BY DEF InfoCommand
<1>3. "current_limit_parameter" \notin P
  BY DEF ParamCommand
<1>4. "current_limit_parameter" \notin O
  BY <1>2, <1>3
<1>. HIDE DEF O
<1>5. /\ always \in Seq(O \cup {"analog", "warning_info", "current_limit_parameter",
                               "bms_datetime"})
      /\ Len(always) = 4
  OBVIOUS
<1>6. rest \in Seq(O) /\ Len(rest) \in Nat
  BY <1>1, ConcatProperties
<1>7. Plan = always \o rest
  <2>. DEFINE T == O \cup {"analog", "warning_info", "current_limit_parameter",
                           "bms_datetime"}
  <2>1. Plan = (always \o InfoAsked) \o ParamsAsked
    BY DEF Plan
  <2>2. always \in Seq(T) /\ InfoAsked \in Seq(T) /\ ParamsAsked \in Seq(T)
    BY <1>1, <1>5
  <2>. HIDE DEF T, always
  <2>3. (always \o InfoAsked) \o ParamsAsked = always \o (InfoAsked \o ParamsAsked)
    BY <2>2, Associative
  <2>. QED
    BY <2>1, <2>3
<1>8. CASE j > 4
  <2>. DEFINE T == O \cup {"analog", "warning_info", "current_limit_parameter",
                           "bms_datetime"}
  <2>1. Plan[j] = rest[j - 4] /\ j - 4 \in 1 .. Len(rest)
    <3>1. always \in Seq(T) /\ rest \in Seq(T)
      BY <1>5, <1>6
    <3>. HIDE DEF always, rest, T
    <3>2. /\ Len(always \o rest) = Len(always) + Len(rest)
          /\ \A i \in 1 .. Len(rest) : (always \o rest)[Len(always) + i] = rest[i]
      BY <3>1, ConcatProperties
    <3>3. Len(Plan) = 4 + Len(rest) /\ j \in Int
      BY <1>5, <1>6, <1>7, <3>2
    <3>4. j - 4 \in 1 .. Len(rest) /\ j = 4 + (j - 4)
      BY <1>6, <1>8, <3>3
    <3>. QED
      BY <1>5, <1>7, <3>2, <3>4
  <2>2. rest[j - 4] \in O
    <3>. HIDE DEF rest
    <3>. QED
      BY <1>6, <2>1
  <2>. QED
    BY <1>4, <2>1, <2>2
<1>9. CASE j <= 4
  BY <1>9, PlanFacts
<1>. QED
  BY <1>8, <1>9

(* What waits to be stored as a whole has no limit in it.                  *)
LimitInv ==
  /\ LimitsAreTheSenders
  /\ \A file \in draft : file.cmd # "current_limit_parameter"

(* A query that ends files a limit for the pack the frame is from, or one  *)
(* of pack 0 for the pack it has asked.                                    *)
LEMMA LimitConclude ==
  ASSUME BridgeInv, LimitInv, NEW f, f \in Request \/ f = NoAnswer, Conclude(f)
  PROVE  LimitInv'
<1>1. k \in 1 .. Len(Plan) /\ Len(Plan) \in Nat
  BY PlanFacts DEF BridgeInv, BridgeTypeOK
<1>2. ASSUME k # 3, NEW p
      PROVE  File(f, p).cmd # "current_limit_parameter"
  BY <1>1, <1>2, LimitIsThird DEF File
<1>3. CASE EndLimit(f)
  <2>1. PICK good \in Good(f) : stored' = IF good THEN {File(f, LimitAddress(f))} ELSE {}
    BY <1>3 DEF EndLimit
  <2>2. k = 3 /\ draft' = draft
    BY <1>3 DEF EndLimit
  <2>3. ASSUME good PROVE f.cmd \in {"current_limit_parameter", "inverter_protocol_v2"}
    <3>1. Asked = "current_limit_parameter"
      BY <2>2, PlanFacts DEF BridgeInv, Places, Asked
    <3>2. good \in Parses(Asked, f.cmd)
      BY <2>3 DEF Good
    <3>3. good \in {Accepts("current_limit_parameter", InfoLength(f.cmd))}
      BY <3>1, <3>2 DEF Parses
    <3>. QED
      BY <2>3, <3>3, TwoBytes
  <2>4. /\ f.pack \in {0, File(f, LimitAddress(f)).pack}
        /\ File(f, LimitAddress(f)).from = f
    BY DEF File, LimitAddress
  <2>. QED
    BY <2>1, <2>2, <2>3, <2>4 DEF LimitInv, LimitsAreTheSenders
<1>4. CASE EndAnalog(f) \/ EndWarning(f) \/ EndClock(f)
  <2>1. k # 3 /\ draft' = draft
    <3>1. EndAnalog(f) => k = 1 /\ draft' = draft
      BY DEF EndAnalog
    <3>2. EndWarning(f) => k = 2 /\ draft' = draft
      BY DEF EndWarning
    <3>3. EndClock(f) => k = 4 /\ draft' = draft
      BY DEF EndClock
    <3>. QED
      BY <1>4, <3>1, <3>2, <3>3
  <2>2. stored' = {} \/ stored' = {File(f, Pack)}
    <3>1. CASE EndAnalog(f)
      <4>1. PICK good \in Good(f) :
              IF good THEN stored' = {File(f, Pack)} /\ success' = TRUE /\ GoOn(statusDue)
                             /\ UNCHANGED lastErr
                      ELSE lastErr' = TRUE /\ GoOn(FALSE) /\ stored' = {} /\ UNCHANGED success
        BY <3>1 DEF EndAnalog
      <4>. QED
        BY <4>1
    <3>2. CASE EndWarning(f)
      <4>1. PICK good \in Good(f) :
              IF good THEN stored' = {File(f, Pack)} /\ GoOn(TRUE) /\ UNCHANGED lastErr
                      ELSE stored' = {} /\ GoOn(FALSE) /\ lastErr' = TRUE
        BY <3>2 DEF EndWarning
      <4>. QED
        BY <4>1
    <3>3. CASE EndClock(f)
      <4>1. PICK good \in Good(f) : stored' = IF good THEN {File(f, Pack)} ELSE {}
        BY <3>3 DEF EndClock
      <4>. QED
        BY <4>1
    <3>. QED
      BY <1>4, <3>1, <3>2, <3>3
  <2>. QED
    BY <1>2, <2>1, <2>2 DEF LimitInv, LimitsAreTheSenders
<1>5. CASE EndOptional(f)
  <2>1. k # 3
    BY <1>1, <1>5 DEF EndOptional
  <2>2. PICK good \in Good(f) :
          \/ stored' = {} /\ draft' = draft
          \/ Draft(IF good THEN draft \cup {File(f, Pack)} ELSE draft)
    BY <1>5 DEF EndOptional
  <2>3. \A file \in stored' \cup draft' : file \in draft \/ file = File(f, Pack)
    <3>1. CASE stored' = {} /\ draft' = draft
      BY <3>1
    <3>2. ASSUME NEW d, d \subseteq draft \cup {File(f, Pack)}, Draft(d)
          PROVE  stored' \cup draft' \subseteq draft \cup {File(f, Pack)}
      BY <3>2 DEF Draft
    <3>. QED
      BY <2>2, <3>1, <3>2
  <2>. QED
    BY <1>2, <2>1, <2>3 DEF LimitInv, LimitsAreTheSenders
<1>. QED
  BY <1>3, <1>4, <1>5 DEF Conclude

(* A limit is of the pack it is filed under, or of the pack at address 0,  *)
(* however late its frame comes and however many others are on the line,   *)
(* in any round: address 0 excepted, a late limit is never misfiled.       *)
THEOREM LimitsCorrect == BridgeSpec => []LimitsAreTheSenders
<1>1. BridgeInit => LimitInv
  BY DEF BridgeInit, LimitInv, LimitsAreTheSenders
<1>2. BridgeInv /\ LimitInv /\ [BridgeNext]_bridgeVars => LimitInv'
  <2> SUFFICES ASSUME BridgeInv, LimitInv, [BridgeNext]_bridgeVars
               PROVE  LimitInv'
    OBVIOUS
  <2>1. CASE TakeFrame
    <3>1. at = "wait" /\ line # <<>> /\ Conclude(Head(line))
      BY <2>1 DEF TakeFrame
    <3>. QED
      BY <3>1, ReadIsCurrent, LimitConclude
  <2>2. CASE TimeOut
    BY <2>2, LimitConclude DEF TimeOut
  <2>3. CASE Skip
    <3>1. \A file \in stored' \cup draft' : file \in draft
      BY <2>3 DEF Skip, Draft
    <3>. QED
      BY <3>1 DEF LimitInv, LimitsAreTheSenders
  <2>4. CASE BeginRound \/ Ask \/ EndRound \/ OpenClient
               \/ \E r \in Request : Answer(r) \/ Ignore(r)
    <3>1. stored' = {} /\ draft' = draft
      BY <2>4 DEF BeginRound, Ask, EndRound, OpenClient, Answer, Ignore
    <3>. QED
      BY <3>1 DEF LimitInv, LimitsAreTheSenders
  <2>5. CASE UNCHANGED bridgeVars
    BY <2>5 DEF bridgeVars, LimitInv, LimitsAreTheSenders
  <2>. QED
    BY <2>1, <2>2, <2>3, <2>4, <2>5 DEF BridgeNext
<1>3. LimitInv => LimitsAreTheSenders
  BY DEF LimitInv
<1>. QED
  BY <1>1, <1>2, <1>3, BridgeInvariant, PTL DEF BridgeSpec

=============================================================================
