------------------------------- MODULE Bridge -------------------------------
(***************************************************************************)
(* The collector on its link: which answer ends up where.  The rounds of   *)
(* pollOnce on RS485 (internal/collector/service.go), frame by frame, over *)
(* a client that takes the next frame on the line for the answer to its    *)
(* query, as PaceLink shows; what the parsers let through is in            *)
(* PaceCommands and PackFrames.  Collector has the timers, the discovery   *)
(* and the context; here the status and the metadata may be due or not.    *)
(*                                                                         *)
(* External: the packs and the line.  A pack answers a query in time, late *)
(* or never, and refuses the commands it does not know.  A frame is the    *)
(* request it answers; its info is as long as docs/PROTOCOL.md says.       *)
(***************************************************************************)
EXTENDS PaceCommands, FiniteSets

CONSTANTS
  Polled,     \* s.packs: the addresses that are polled, in their order
  InfoAsked, ParamsAsked,   \* the optional commands, in their order: all of
                            \* them, or a selection for a bounded instance
  NoAnswer,   \* what a query that times out has for an answer
  LateMax     \* bound of the model: answers that are owed or unread

ASSUME PolledAssumption == Polled \in Seq(0 .. 254) /\ Polled # <<>>
ASSUME AskedAssumption ==
  /\ InfoAsked \in Seq({InfoCommand[j] : j \in 1 .. Len(InfoCommand)})
  /\ ParamsAsked \in Seq({ParamCommand[j] : j \in 1 .. Len(ParamCommand)})
ASSUME LateMaxAssumption == LateMax \in Nat

N == Len(Polled)
Address == {Polled[j] : j \in 1 .. N}

(* What a pack is asked in a round, if all of it is due                    *)
Plan ==
  <<"analog", "warning_info", "current_limit_parameter", "bms_datetime">>
    \o InfoAsked \o ParamsAsked

InfoEnd == 4 + Len(InfoAsked)

Command == {Plan[j] : j \in 1 .. Len(Plan)} \cup {"inverter_protocol_v2"}
Request == [pack : Address, cmd : Command]

ASSUME NoAnswerAssumption == NoAnswer \notin Request

VARIABLES
  at,           \* "closed" (no client), "idle", "ask" or "wait" (in Query)
  idx,          \* the loop over s.packs
  k,            \* the next command of Plan
  v2,           \* InverterProtocol is at its second query
  statusDue,
  lastErr, success,
  limitOff, clockOff, unsupported,
  draft,        \* info and params in the making
  stored,       \* what the last step has put into the store
  refuses,      \* external: the requests that are refused
  line,         \* external: frames that have arrived and are not read
  owed,         \* external: how often each request is still to be answered
  clean         \* history: no query of the round found an earlier one open

bridgeVars ==
  <<at, idx, k, v2, statusDue, lastErr, success, limitOff, clockOff, unsupported,
    draft, stored, refuses, line, owed, clean>>
external == <<refuses, line, owed, clean>>
memory == <<limitOff, clockOff, unsupported>>

Filing == [pack : Address, cmd : Command, from : Request]

NothingOwed == [r \in Request |-> 0]
Quiet == line = <<>> /\ owed = NothingOwed

BridgeInit ==
  /\ at = "closed"
  /\ idx = 1 /\ k = 1 /\ v2 = FALSE
  /\ statusDue = FALSE /\ lastErr = FALSE /\ success = FALSE
  /\ limitOff = FALSE /\ clockOff = FALSE /\ unsupported = {}
  /\ draft = {} /\ stored = {}
  /\ refuses \in SUBSET {r \in Request : r.cmd \notin {"analog", "warning_info"}}
  /\ line = <<>> /\ owed = NothingOwed
  /\ clean = FALSE

(* The pack whose turn it is                                               *)
Pack == Polled[idx]

-----------------------------------------------------------------------------
(* What becomes of the answer f to the query for c *)

(* External: the bytes of an info.                                         *)
InfoLength(c) ==
  CASE c \in {"analog", "warning_info"} -> 60
    [] c = "software_version" -> 20
    [] c \in {"pace_software_version", "product_info"} -> 40
    [] c = "inverter_protocol" -> 3
    [] OTHER -> Width(Parser(c))

(* Whether the parser of c takes an answer to d.  That of the analog       *)
(* reading asks for plausible cells; what that of the status makes of such *)
(* a reading depends on the values.                                        *)
Parses(c, d) ==
  CASE c = "analog" -> {d = "analog"}
    [] c = "warning_info" -> IF d = "analog" THEN BOOLEAN ELSE {d = "warning_info"}
    [] OTHER -> {Accepts(c, InfoLength(d))}

Asked == IF v2 THEN "inverter_protocol_v2" ELSE Plan[k]

Good(f) ==
  IF f = NoAnswer \/ f \in refuses THEN {FALSE} ELSE Parses(Asked, f.cmd)

(* Mutant: no answer is a refusal.                                         *)
RefusedOrSilent(f) == f = NoAnswer \/ f \in refuses

(* isUnsupportedCommandError: the answer has a return code.                *)
Refused(f) == f # NoAnswer /\ f \in refuses

File(f, pack) == [pack |-> pack, cmd |-> Plan[k], from |-> f]

(* On to the next command for this pack, or to the next pack.              *)
GoOn(more) ==
  /\ at' = "ask" /\ v2' = FALSE
  /\ IF more /\ k < Len(Plan)
       THEN k' = k + 1 /\ idx' = idx
       ELSE k' = 1 /\ idx' = idx + 1

(* The analog reading of a pack is filed under the address that was asked. *)
EndAnalog(f) ==
  /\ k = 1
  /\ \E good \in Good(f) :
       IF good
         THEN /\ stored' = {File(f, Pack)}
              /\ success' = TRUE
              /\ GoOn(statusDue)
              /\ UNCHANGED lastErr
         ELSE /\ lastErr' = TRUE
              /\ GoOn(FALSE)
              /\ stored' = {} /\ UNCHANGED success
  /\ UNCHANGED <<draft, memory>>

EndWarning(f) ==
  /\ k = 2
  /\ \E good \in Good(f) :
       IF good THEN stored' = {File(f, Pack)} /\ GoOn(TRUE) /\ UNCHANGED lastErr
               ELSE stored' = {} /\ GoOn(FALSE) /\ lastErr' = TRUE
  /\ UNCHANGED <<success, draft, memory>>

(* Mutant: the address that was asked.                                     *)
LimitAddressAsked(f) == Pack

(* A limit is filed under the address in the frame, unless that is 0: then *)
(* under the one that was asked.                                           *)
LimitAddress(f) == IF f.pack # 0 THEN f.pack ELSE Pack

EndLimit(f) ==
  /\ k = 3
  /\ \E good \in Good(f) : stored' = IF good THEN {File(f, LimitAddress(f))} ELSE {}
  /\ limitOff' = (limitOff \/ Refused(f))
  /\ GoOn(TRUE)
  /\ UNCHANGED <<lastErr, success, draft, clockOff, unsupported>>

EndClock(f) ==
  /\ k = 4
  /\ \E good \in Good(f) : stored' = IF good THEN {File(f, Pack)} ELSE {}
  /\ clockOff' = (clockOff \/ Refused(f))
  /\ \E metadataDue \in BOOLEAN : GoOn(metadataDue)
  /\ UNCHANGED <<lastErr, success, draft, limitOff, unsupported>>

(* The info, and later the parameters, are stored as a whole.              *)
Draft(d) ==
  IF k \in {InfoEnd, Len(Plan)}
    THEN stored' = d /\ draft' = {}
    ELSE stored' = {} /\ draft' = d

(* InverterProtocol tries a second command before it gives up.             *)
EndOptional(f) ==
  /\ k > 4
  /\ \E good \in Good(f) :
       IF ~ good /\ Asked = "inverter_protocol"
         THEN /\ v2' = TRUE /\ at' = "ask" /\ stored' = {}
              /\ UNCHANGED <<idx, k, draft, unsupported>>
         ELSE /\ Draft(IF good THEN draft \cup {File(f, Pack)} ELSE draft)
              /\ unsupported' =
                   IF Refused(f) THEN unsupported \cup {<<Pack, Plan[k]>>} ELSE unsupported
              /\ GoOn(TRUE)
  /\ UNCHANGED <<lastErr, success, limitOff, clockOff>>

Conclude(f) ==
  /\ EndAnalog(f) \/ EndWarning(f) \/ EndLimit(f) \/ EndClock(f) \/ EndOptional(f)
  /\ UNCHANGED <<statusDue, refuses, owed, clean>>

-----------------------------------------------------------------------------

BeginRound ==
  /\ at = "idle"
  /\ at' = "ask" /\ idx' = 1 /\ k' = 1
  /\ statusDue' \in BOOLEAN
  /\ lastErr' = FALSE /\ success' = FALSE
  /\ stored' = {}
  /\ clean' = TRUE
  /\ UNCHANGED <<v2, memory, draft, refuses, line, owed>>

(* A command that was refused once is not asked any more.                  *)
Skipped ==
  \/ k = 3 /\ limitOff
  \/ k = 4 /\ clockOff
  \/ k > 4 /\ <<Pack, Plan[k]>> \in unsupported

Skip ==
  /\ at = "ask" /\ idx <= N /\ Skipped
  /\ IF k = 4 THEN \E metadataDue \in BOOLEAN : GoOn(metadataDue) ELSE GoOn(TRUE)
  /\ IF k > 4 THEN Draft(draft) ELSE stored' = {} /\ UNCHANGED draft
  /\ UNCHANGED <<statusDue, lastErr, success, memory, external>>

(* Mutant: all packs are asked at the address of a console.                *)
AdrOfConsole == 1

(* The address BuildRequest puts into the frame                            *)
Adr == Pack

(* Query writes its request; what is on the line stays there.              *)
Ask ==
  /\ at = "ask" /\ idx <= N /\ ~ Skipped
  /\ at' = "wait"
  /\ owed' = [owed EXCEPT ![[pack |-> Adr, cmd |-> Asked]] = @ + 1]
  /\ clean' = (clean /\ Quiet)
  /\ stored' = {}
  /\ UNCHANGED <<idx, k, v2, statusDue, lastErr, success, memory, draft, refuses, line>>

(* Query takes what comes first.                                           *)
TakeFrame ==
  /\ at = "wait" /\ line # <<>>
  /\ line' = Tail(line)
  /\ Conclude(Head(line))

Late == Len(line) + Cardinality({r \in Request : owed[r] > 0})

TimeOut ==
  /\ at = "wait" /\ line = <<>>
  /\ Late <= LateMax /\ \A r \in Request : owed[r] <= 1
  /\ UNCHANGED line
  /\ Conclude(NoAnswer)

(* Only a round without a reading closes the client.                       *)
EndRound ==
  /\ at = "ask" /\ idx > N
  /\ at' = IF ~ success /\ lastErr THEN "closed" ELSE "idle"
  /\ idx' = 1
  /\ stored' = {}
  /\ UNCHANGED <<k, v2, statusDue, lastErr, success, memory, draft, external>>

(* The line may keep what it holds, or lose part of it.                    *)
OpenClient ==
  /\ at = "closed"
  /\ at' = "idle"
  /\ \/ UNCHANGED <<line, owed>>
     \/ line' = <<>> /\ UNCHANGED owed
     \/ line' = <<>> /\ owed' = NothingOwed
  /\ stored' = {}
  /\ UNCHANGED <<idx, k, v2, statusDue, lastErr, success, memory, draft, refuses, clean>>

(* External: a pack answers, or never does.                                *)
Answer(r) ==
  /\ owed[r] > 0
  /\ owed' = [owed EXCEPT ![r] = @ - 1]
  /\ line' = Append(line, r)
  /\ stored' = {}
  /\ UNCHANGED <<at, idx, k, v2, statusDue, lastErr, success, memory, draft, refuses, clean>>

Ignore(r) ==
  /\ owed[r] > 0
  /\ owed' = [owed EXCEPT ![r] = @ - 1]
  /\ stored' = {}
  /\ UNCHANGED <<at, idx, k, v2, statusDue, lastErr, success, memory, draft, refuses, line,
                 clean>>

BridgeNext ==
  \/ BeginRound \/ Skip \/ Ask \/ TakeFrame \/ TimeOut \/ EndRound \/ OpenClient
  \/ \E r \in Request : Answer(r) \/ Ignore(r)

BridgeSpec == BridgeInit /\ [][BridgeNext]_bridgeVars

-----------------------------------------------------------------------------
(* Properties *)

(* Every variable keeps its type, and the loops over packs and commands    *)
(* stay inside them.                                                       *)
BridgeTypeOK ==
  /\ at \in {"closed", "idle", "ask", "wait"}
  /\ idx \in 1 .. N + 1 /\ k \in 1 .. Len(Plan)
  /\ at = "wait" => idx <= N
  /\ v2 \in BOOLEAN /\ statusDue \in BOOLEAN /\ clean \in BOOLEAN
  /\ lastErr \in BOOLEAN /\ success \in BOOLEAN
  /\ limitOff \in BOOLEAN /\ clockOff \in BOOLEAN
  /\ unsupported \subseteq Address \X Command
  /\ draft \subseteq Filing /\ stored \subseteq Filing
  /\ refuses \subseteq Request
  /\ line \in Seq(Request)
  /\ owed \in [Request -> Nat]

(* The answer is one that pack gave to that command.                       *)
Own(file) ==
  /\ file.from.pack = file.pack
  /\ file.from.cmd = file.cmd
       \/ (file.cmd = "inverter_protocol" /\ file.from.cmd = "inverter_protocol_v2")

(* Nothing in a frame says which query it answers, and yet: in a round in  *)
(* which no query found an earlier answer still to come, whatever was lost *)
(* or refused, all that goes into the store is what that pack said of it.  *)
FilesRightly == clean => \A file \in stored \cup draft : Own(file)

(* Nor does such a round give up a command that was not refused.           *)
RefusalsAreOwn ==
  [][clean =>
       /\ \A u \in unsupported' \ unsupported :
            \E r \in refuses : r.pack = u[1] /\ (r.cmd = u[2] \/ r.cmd = Asked)
       /\ limitOff' # limitOff => \E r \in refuses : r.cmd = "current_limit_parameter"
       /\ clockOff' # clockOff => \E r \in refuses : r.cmd = "bms_datetime"]_bridgeVars

(* However late it comes, a limit is of the pack it is filed under, but    *)
(* for that of address 0: the parser takes 0 for no address, and a late    *)
(* limit of pack 0 becomes that of the pack which is asked then.  Only     *)
(* another answer of two bytes passes for a limit, the short protocol      *)
(* answer, for the parser takes no other length.                           *)
LimitsAreTheSenders ==
  \A file \in stored :
    file.cmd = "current_limit_parameter" =>
      /\ file.from.pack \in {0, file.pack}
      /\ file.from.cmd \in {"current_limit_parameter", "inverter_protocol_v2"}

=============================================================================
