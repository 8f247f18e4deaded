------------------------------ MODULE PaceLink ------------------------------
(***************************************************************************)
(* One client on its link: Query and ReadFrame of internal/pace, which     *)
(* send a request and take the next frame on the wire for its answer,      *)
(* and parseEnvelope, which decides whether it is a frame at all.          *)
(*                                                                         *)
(* The bytes of an answer are four units: "~", the header up to the length *)
(* field (12 bytes), the info with its checksum, and the closing "\r".     *)
(* That is as fine as ReadFrame cuts, but for a length field that belongs  *)
(* to other bytes than those that follow it, see MayEnd.                   *)
(*                                                                         *)
(* External: the BMS and the line.  An answer may be late, missing or      *)
(* broken off; answers do not mix, and come in any order.  A request has   *)
(* an identity here, as it has none on the wire; one that no byte on the   *)
(* link belongs to any more may be used again.                             *)
(***************************************************************************)
EXTENDS Sequences, Naturals

CONSTANTS
  Request,    \* identities of requests
  Nil

ASSUME RequestAssumption == Request # {}

VARIABLES
  at,         \* "idle", or "reading": Query is in ReadFrame
  current,    \* the last request written
  buf,        \* buf of ReadFrame
  result,     \* the request whose answer the last Query took, Nil on error
  wire,       \* external: bytes that have arrived and are not read
  pending,    \* external: requests the BMS has yet to answer
  sending,    \* external: the unit to come of the answer on its way, or Nil
  broken,     \* external: reads and writes fail, with no timeout
  quiet,      \* history: the link was quiet when the last request was written
  faulty      \* history: something went wrong on the link since then

link == <<wire, pending, sending>>
linkVars == <<at, current, buf, result, link, broken, quiet, faulty>>

Part == {"~", "head", "body", "cr"}
Unit == [req : Request, part : Part]

ASSUME NilAssumption == Nil \notin Request /\ Nil \notin Unit

After(u) ==
  CASE u.part = "~" -> [u EXCEPT !.part = "head"]
    [] u.part = "head" -> [u EXCEPT !.part = "body"]
    [] u.part = "body" -> [u EXCEPT !.part = "cr"]
    [] u.part = "cr" -> Nil

Quiet == wire = <<>> /\ pending = {} /\ sending = Nil

(* The requests some byte on the link belongs to, or will                  *)
OnLink ==
  pending \cup {wire[k].req : k \in 1 .. Len(wire)}
    \cup (IF sending = Nil THEN {} ELSE {sending.req})

LinkInit ==
  /\ at = "idle"
  /\ current = Nil
  /\ buf = <<>>
  /\ result = Nil
  /\ wire = <<>> /\ pending = {} /\ sending = Nil
  /\ broken = FALSE
  /\ quiet = FALSE /\ faulty = FALSE

-----------------------------------------------------------------------------
(* ReadFrame and parseEnvelope *)

(* Header and info of one answer follow each other.                        *)
Intact(bytes) ==
  /\ Len(bytes) >= 2
  /\ bytes[1].part = "head"
  /\ bytes[2] = [req |-> bytes[1].req, part |-> "body"]

(* Mutant: expectedFrameLength without the closing byte.                   *)
MayEndEarly(bytes) ==
  IF bytes[1].part # "~" THEN {bytes[Len(bytes)].part = "cr"}
  ELSE IF Len(bytes) <= 3 \/ Intact(Tail(bytes)) THEN {Len(bytes) >= 3}
  ELSE BOOLEAN

(* Whether ReadFrame returns with these bytes.  Without a "~" in front the *)
(* first "\r" ends them.  Behind "~" and a header, the length field says   *)
(* how many bytes follow, whatever they are, and "\r" ends nothing: if     *)
(* they are not those of the header, the frame may end anywhere, but not   *)
(* before its 18th byte.                                                   *)
MayEnd(bytes) ==
  IF bytes[1].part # "~" THEN {bytes[Len(bytes)].part = "cr"}
  ELSE IF Len(bytes) <= 3 \/ Intact(Tail(bytes)) THEN {Len(bytes) >= 4}
  ELSE BOOLEAN

(* parseEnvelope: a "~" in front is not needed, nor is the end; the        *)
(* checksum covers all between.  Neither the address nor anything else is  *)
(* compared with the request.                                              *)
Parsed(bytes) ==
  LET raw == IF bytes[1].part = "~" THEN Tail(bytes) ELSE bytes IN
  IF Intact(raw) THEN raw[1].req ELSE Nil

Return(answer) ==
  /\ at' = "idle"
  /\ result' = answer
  /\ buf' = <<>>

(* Query: the request is written; what is still unread on the wire stays.  *)
Send(r) ==
  /\ at = "idle" /\ ~ broken /\ r \notin OnLink
  /\ at' = "reading"
  /\ current' = r
  /\ buf' = <<>>
  /\ pending' = pending \cup {r}
  /\ quiet' = Quiet
  /\ faulty' = FALSE
  /\ UNCHANGED <<result, wire, sending, broken>>

(* One more unit is read, and ReadFrame returns or goes on.                *)
ReadUnit ==
  /\ at = "reading" /\ wire # <<>>
  /\ wire' = Tail(wire)
  /\ LET bytes == Append(buf, Head(wire)) IN
     \E ends \in MayEnd(bytes) :
       IF ends THEN Return(Parsed(bytes))
               ELSE buf' = bytes /\ UNCHANGED <<at, result>>
  /\ UNCHANGED <<current, pending, sending, broken, quiet, faulty>>

(* Mutant: the deadline is only looked at while nothing has been read.     *)
DeadlineIfEmpty ==
  /\ at = "reading" /\ buf = <<>>
  /\ Return(Nil)
  /\ faulty' = (faulty \/ ~ Quiet)
  /\ UNCHANGED <<current, link, broken, quiet>>

(* The deadline passes: an error, or what there is.  (The link is at fault *)
(* if there was more to come.)                                             *)
Deadline ==
  /\ at = "reading"
  /\ Return(IF buf = <<>> THEN Nil ELSE Parsed(buf))
  /\ faulty' = (faulty \/ ~ Quiet)
  /\ UNCHANGED <<current, link, broken, quiet>>

(* Write or Read fails, with an error that is no timeout.                  *)
PortFails ==
  /\ broken
  /\ Return(Nil)
  /\ UNCHANGED <<current, link, broken, quiet, faulty>>

(* Close and Open: what the line holds may survive it.                     *)
Reopen ==
  /\ at = "idle"
  /\ broken' = FALSE
  /\ \/ UNCHANGED link
     \/ wire' = <<>> /\ UNCHANGED <<pending, sending>>
     \/ wire' = <<>> /\ pending' = {} /\ sending' = Nil
  /\ faulty' = TRUE
  /\ UNCHANGED <<at, current, buf, result, quiet>>

-----------------------------------------------------------------------------
(* The BMS and the line *)

Answer(r) ==
  /\ sending = Nil /\ r \in pending
  /\ pending' = pending \ {r}
  /\ sending' = [req |-> r, part |-> "~"]
  /\ UNCHANGED <<at, current, buf, result, wire, broken, quiet, faulty>>

UnitArrives ==
  /\ sending # Nil
  /\ wire' = Append(wire, sending)
  /\ sending' = After(sending)
  /\ UNCHANGED <<at, current, buf, result, pending, broken, quiet, faulty>>

BreakOff ==
  /\ sending # Nil
  /\ sending' = Nil
  /\ faulty' = TRUE
  /\ UNCHANGED <<at, current, buf, result, wire, pending, broken, quiet>>

Ignore(r) ==
  /\ r \in pending
  /\ pending' = pending \ {r}
  /\ faulty' = TRUE
  /\ UNCHANGED <<at, current, buf, result, wire, sending, broken, quiet>>

(* Bound of the model: a line that holds all requests forgets them.        *)
Forget ==
  /\ at = "idle" /\ OnLink = Request
  /\ wire' = <<>> /\ pending' = {} /\ sending' = Nil
  /\ UNCHANGED <<at, current, buf, result, broken, quiet, faulty>>

PortBreaks ==
  /\ ~ broken
  /\ broken' = TRUE /\ faulty' = TRUE
  /\ UNCHANGED <<at, current, buf, result, link, quiet>>

LinkNext ==
  \/ \E r \in Request : Send(r) \/ Answer(r) \/ Ignore(r)
  \/ ReadUnit \/ Deadline \/ PortFails \/ Reopen
  \/ UnitArrives \/ BreakOff \/ Forget \/ PortBreaks

(* The reader reads what is there and looks at the clock; the collector    *)
(* goes on asking, and opens a broken link again.  Nothing is assumed of   *)
(* the BMS.                                                                *)
LinkFairness ==
  /\ WF_linkVars(ReadUnit)
  /\ WF_linkVars(Deadline)
  /\ WF_linkVars(\E r \in Request : Send(r))
  /\ WF_linkVars(broken /\ Reopen)
  /\ WF_linkVars(Forget)

LinkSpec == LinkInit /\ [][LinkNext]_linkVars /\ LinkFairness

-----------------------------------------------------------------------------
(* Properties *)

(* Every variable keeps its type, and ReadFrame has read nothing that      *)
(* should have ended it.                                                   *)
LinkTypeOK ==
  /\ at \in {"idle", "reading"}
  /\ current \in Request \cup {Nil} /\ result \in Request \cup {Nil}
  /\ buf \in Seq(Unit) /\ wire \in Seq(Unit)
  /\ pending \in SUBSET Request
  /\ sending \in Unit \cup {Nil}
  /\ broken \in BOOLEAN /\ quiet \in BOOLEAN /\ faulty \in BOOLEAN
  /\ buf # <<>> => FALSE \in MayEnd(buf)

(* A request on a quiet link that is answered whole and in time gets that  *)
(* answer, whatever went wrong before, and leaves a quiet link behind: as  *)
(* nothing is compared with the request, that is all that keeps answers    *)
(* and requests in step.                                                   *)
StaysInStep ==
  at = "idle" /\ quiet /\ ~ faulty => result = current /\ Quiet

(* Every Query returns.                                                    *)
QueryEnds == at = "reading" ~> at = "idle"

(* Once the line and the BMS behave, what broken answers have left behind  *)
(* costs only so many queries: from then on each one gets a frame that     *)
(* parses, be it that of an earlier request.                               *)
FramingRecovers ==
  <>[](~ faulty /\ ~ broken) => <>[](at = "idle" => result # Nil)

=============================================================================
