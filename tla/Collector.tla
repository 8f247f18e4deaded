----------------------------- MODULE Collector -----------------------------
(***************************************************************************)
(* The collector: Run, pollOnce and what they call, from                   *)
(* internal/collector/service.go, on top of PackDiscovery.  One goroutine  *)
(* opens the link, discovers the packs once, and polls them in rounds.     *)
(* One action is one query with what the code does on its answer; the link *)
(* may change between any two of them, and the context be cancelled.       *)
(*                                                                         *)
(* External: the BMS behind the link.  A query is answered by the address  *)
(* it reaches if that is in up, with "BMS returned code" if it is also in  *)
(* refuses and the command is an optional one; any other query fails.      *)
(* What an address refuses is a matter of its firmware and does not change.*)
(*                                                                         *)
(* The configuration is read anew before each round, so it may change with *)
(* any of them.  The protocol of an open client stays what it was.         *)
(*                                                                         *)
(* Time passes while the collector sleeps, one tick at a time.  The 4 info *)
(* commands and 15 parameter commands of pollMetadataAndParameters are     *)
(* numbered in their order, 1 .. InfoCmds and then ParamCmds more.         *)
(***************************************************************************)
EXTENDS PackDiscovery, FiniteSets

CONSTANTS
  Device,           \* addresses the link may ever answer at
  Behind,           \* number of packs an address reports
  StatusInterval,   \* polling.status_interval, in ticks
  MetadataInterval, \* metadataPollInterval, in ticks
  Choice,           \* configurations the file may hold
  InfoCmds,         \* number of info commands (4 in the code)
  ParamCmds         \* number of parameter commands (15 in the code)

ASSUME DeviceAssumption == Device \subseteq Byte
ASSUME ChoiceAssumption == Choice \subseteq DeviceConfig
ASSUME BehindAssumption == Behind \in [Byte -> Byte \ {0}]
ASSUME TimerAssumption ==
  {StatusInterval, MetadataInterval, InfoCmds, ParamCmds} \subseteq Nat \ {0}

VARIABLES
  at,               \* where the goroutine is
  client,           \* the protocol of the open client, or Closed (nil)
  idx,              \* the loop over s.packs
  batch,            \* addresses of the last analog answer
  b,                \* the loop over them
  cmd,              \* the next command of pollMetadataAndParameters
  lastErr,          \* lastErr != nil
  success,          \* success > 0
  statusDue, statusAttempted,
  statusAge,        \* ticks since lastStatusPoll, at most StatusInterval
  metaAge,          \* per address, since lastMetadataPoll, likewise
  limitOff,         \* s.currentLimitPollDisabled
  clockOff,         \* s.bmsDateTimePollDisabled
  unsupported,      \* s.unsupportedCommands, as <<address, command>>
  has,              \* hasInfo, hasParams
  known,            \* <<address, section>> stored so far in the runtime state
  service,          \* status of the service "pace"
  portOk,           \* external: the serial port can be opened
  up,               \* external: the addresses that answer
  refuses           \* external: the addresses that refuse optional commands

round == <<idx, batch, b, cmd, lastErr, success, statusDue, statusAttempted, has>>
memory == <<statusAge, metaAge, limitOff, clockOff, unsupported>>
link == <<portOk, up, refuses>>
collectorVars ==
  <<discoveryVars, at, client, round, memory, known, service, link>>

Place == {"open", "start", "pack", "warning", "limit", "clock", "meta",
          "sleep", "retry", "stopped"}
Closed == "closed"
Section == {"analog", "status", "info", "params"}
Cmds == InfoCmds + ParamCmds

Elems(s) == {s[k] : k \in 1 .. Len(s)}

(* Where BuildRequest sends a query about pack a: on RS232 to 00, which is *)
(* the one device there is (UMax here), on a console to 01.  Only analog   *)
(* and warning_info say which pack they are about, all else is about the   *)
(* device itself.                                                          *)
Adr(a) == CASE client = "rs232" -> UMax [] client = "console" -> 1 [] OTHER -> a

Reaches(a) == {a, Adr(a)} \subseteq up

(* The addresses ParseAnalogPacks and ParseWarningPacks give to the packs  *)
(* in an answer: the one asked, or their position if there are several or  *)
(* nobody in particular was asked.                                         *)
Addresses(a) ==
  IF Behind[a] > 1 \/ a = UMax THEN [k \in 1 .. Behind[a] |-> k] ELSE <<a>>

Stored == {a \in Byte : <<a, "analog">> \in known}

(* The store ignores all but an analog reading of an address it has no     *)
(* pack for.                                                               *)
Upsert(addresses, section) ==
  known' = known \cup
    {<<a, section>> : a \in IF section = "analog" THEN addresses
                                                   ELSE addresses \cap Stored}

Idle(record) == record = [info |-> FALSE, params |-> FALSE]

-----------------------------------------------------------------------------

CollectorInit ==
  /\ DiscoveryInit /\ cfg \in Choice
  /\ at = "open"
  /\ client = Closed
  /\ idx = 1 /\ batch = <<>> /\ b = 1 /\ cmd = 1
  /\ lastErr = FALSE /\ success = FALSE
  /\ statusDue = FALSE /\ statusAttempted = FALSE
  /\ Idle(has)
  /\ statusAge = StatusInterval
  /\ metaAge = [a \in Byte |-> MetadataInterval]
  /\ limitOff = FALSE /\ clockOff = FALSE /\ unsupported = {}
  /\ known = {}
  /\ service = "starting"
  /\ portOk \in BOOLEAN
  /\ up \in SUBSET Device
  /\ refuses \in SUBSET Device

Goto(place) == at' = place

OpenLink ==
  /\ at = "open"
  /\ IF portOk
       THEN client' = cfg.protocol /\ Goto("start") /\ UNCHANGED service
       ELSE service' = "error" /\ Goto("retry") /\ UNCHANGED client
  /\ UNCHANGED <<discoveryVars, round, memory, known, link>>

(* discoverPacks, asking the packs on the link: the head of pollOnce while *)
(* no packs are known.                                                     *)
Discover ==
  /\ at = "start" /\ packs = <<>>
  /\ \/ DiscoverRS232 \/ FillConsole \/ StartScan \/ EndScan \/ AdoptPacks
     \/ Adr(cfg.first) \in up /\ \E got \in Byte : AskConsole(got)
     \/ Adr(cfg.first) \notin up /\ ConsoleFails
     \/ Adr(cursor) \in up /\ \E got \in Byte : ScanAnswered(got)
     \/ Adr(cursor) \notin up /\ ScanFails
  /\ UNCHANGED <<at, client, round, memory, known, service, link>>

BeginRound ==
  /\ at = "start" /\ packs # <<>>
  /\ idx' = 1
  /\ lastErr' = FALSE /\ success' = FALSE
  /\ statusDue' = (statusAge >= StatusInterval)
  /\ statusAttempted' = FALSE
  /\ Goto("pack")
  /\ UNCHANGED <<discoveryVars, client, batch, b, cmd, has, memory, known, service, link>>

(* The locals of pollOnce are gone when it returns.                        *)
Return(place) ==
  /\ Goto(place)
  /\ idx' = 1 /\ batch' = <<>> /\ b' = 1 /\ cmd' = 1
  /\ lastErr' = FALSE /\ success' = FALSE
  /\ statusDue' = FALSE /\ statusAttempted' = FALSE
  /\ has' = [info |-> FALSE, params |-> FALSE]

(* The context is done at the head of the loop: pollOnce returns nil.      *)
RoundCancelled ==
  /\ at = "pack" /\ idx <= Len(packs) /\ ctxDone
  /\ Return("sleep")
  /\ UNCHANGED <<discoveryVars, client, memory, known, service, link>>

(* AnalogPacks answers: the packs are stored, and if the status is due, it *)
(* is asked next.                                                          *)
AnalogAnswered(a) ==
  /\ at = "pack" /\ idx <= Len(packs) /\ ~ ctxDone
  /\ a = packs[idx] /\ Reaches(a)
  /\ batch' = Addresses(a)
  /\ Upsert(Elems(batch'), "analog")
  /\ success' = TRUE
  /\ IF statusDue
       THEN statusAttempted' = TRUE /\ Goto("warning") /\ UNCHANGED idx
       ELSE idx' = idx + 1 /\ UNCHANGED <<statusAttempted, at>>
  /\ UNCHANGED <<discoveryVars, client, b, cmd, lastErr, statusDue, has, memory,
                 service, link>>

(* Mutant: break instead of continue.                                      *)
AnalogFailsBreaks ==
  /\ at = "pack" /\ idx <= Len(packs) /\ ~ ctxDone /\ ~ Reaches(packs[idx])
  /\ lastErr' = TRUE
  /\ idx' = Len(packs) + 1
  /\ UNCHANGED <<discoveryVars, at, client, batch, b, cmd, success, statusDue,
                 statusAttempted, has, memory, known, service, link>>

AnalogFails ==
  /\ at = "pack" /\ idx <= Len(packs) /\ ~ ctxDone /\ ~ Reaches(packs[idx])
  /\ lastErr' = TRUE
  /\ idx' = idx + 1
  /\ UNCHANGED <<discoveryVars, at, client, batch, b, cmd, success, statusDue,
                 statusAttempted, has, memory, known, service, link>>

WarningAnswered(a) ==
  /\ at = "warning" /\ a = packs[idx] /\ Reaches(a)
  /\ Upsert(Elems(Addresses(a)), "status")
  /\ Goto("limit")
  /\ UNCHANGED <<discoveryVars, client, round, memory, service, link>>

WarningFails ==
  /\ at = "warning" /\ ~ Reaches(packs[idx])
  /\ lastErr' = TRUE
  /\ idx' = idx + 1
  /\ Goto("pack")
  /\ UNCHANGED <<discoveryVars, client, batch, b, cmd, success, statusDue,
                 statusAttempted, has, memory, known, service, link>>

(* pollCurrentLimitParameter: a refusal by one pack ends it for all.  (The *)
(* limit it stores is telemetry, see StateStore.)                          *)
PollLimit ==
  /\ at = "limit"
  /\ LET a == Adr(packs[idx]) IN
     limitOff' = (limitOff \/ (a \in up /\ a \in refuses))
  /\ b' = 1
  /\ Goto("clock")
  /\ UNCHANGED <<discoveryVars, client, idx, batch, cmd, lastErr, success, statusDue,
                 statusAttempted, has, statusAge, metaAge, clockOff, unsupported,
                 known, service, link>>

MetadataDue(a) == metaAge[a] >= MetadataInterval

(* pollBMSDateTime for the next pack of the answer, which then has its     *)
(* metadata read if that is due.                                           *)
PollClock ==
  /\ at = "clock" /\ b <= Len(batch)
  /\ LET a == batch[b] IN
     /\ IF clockOff \/ Adr(a) \notin up THEN UNCHANGED <<known, clockOff>>
        ELSE IF Adr(a) \in refuses THEN clockOff' = TRUE /\ UNCHANGED known
        ELSE Upsert({a}, "info") /\ UNCHANGED clockOff
     /\ IF MetadataDue(a)
          THEN Goto("meta") /\ UNCHANGED b
          ELSE b' = b + 1 /\ UNCHANGED at
  /\ cmd' = 1
  /\ has' = [info |-> FALSE, params |-> FALSE]
  /\ UNCHANGED <<discoveryVars, client, idx, batch, lastErr, success, statusDue,
                 statusAttempted, statusAge, metaAge, limitOff, unsupported,
                 service, link>>

(* The loop over the answer is over, and with it its loop variable.        *)
NextPack ==
  /\ at = "clock" /\ b > Len(batch)
  /\ idx' = idx + 1 /\ b' = 1
  /\ Goto("pack")
  /\ UNCHANGED <<discoveryVars, client, batch, cmd, lastErr, success, statusDue,
                 statusAttempted, has, memory, known, service, link>>

(* What the commands up to the last of a kind have found is stored when    *)
(* the last one is through.                                                *)
StoreAfter(c, a, found2) ==
  IF c = InfoCmds /\ found2.info THEN Upsert({a}, "info")
  ELSE IF c = Cmds /\ found2.params THEN Upsert({a}, "params")
  ELSE UNCHANGED known

(* Mutant: any failure counts as unsupported.                              *)
TryCmdGivesUp ==
  /\ at = "meta" /\ cmd <= Cmds
  /\ LET a == batch[b]
         skip == <<a, cmd>> \in unsupported \/ ctxDone
         answered == ~ skip /\ Adr(a) \in up /\ Adr(a) \notin refuses
         found2 == IF ~ answered THEN has
                   ELSE IF cmd <= InfoCmds THEN [has EXCEPT !.info = TRUE]
                   ELSE [has EXCEPT !.params = TRUE] IN
     /\ unsupported' = IF ~ skip /\ ~ answered
                         THEN unsupported \cup {<<a, cmd>>} ELSE unsupported
     /\ has' = found2
     /\ StoreAfter(cmd, a, found2)
  /\ cmd' = cmd + 1
  /\ UNCHANGED <<discoveryVars, at, client, idx, batch, b, lastErr, success, statusDue,
                 statusAttempted, statusAge, metaAge, limitOff, clockOff, service, link>>

(* tryCmd: known to be unsupported, or the pause was cut short; else asked. *)
TryCmd ==
  /\ at = "meta" /\ cmd <= Cmds
  /\ LET a == batch[b]
         skip == <<a, cmd>> \in unsupported \/ ctxDone
         answered == ~ skip /\ Adr(a) \in up /\ Adr(a) \notin refuses
         found2 == IF ~ answered THEN has
                   ELSE IF cmd <= InfoCmds THEN [has EXCEPT !.info = TRUE]
                   ELSE [has EXCEPT !.params = TRUE] IN
     /\ unsupported' = IF ~ skip /\ Adr(a) \in up /\ Adr(a) \in refuses
                         THEN unsupported \cup {<<a, cmd>>} ELSE unsupported
     /\ has' = found2
     /\ StoreAfter(cmd, a, found2)
  /\ cmd' = cmd + 1
  /\ UNCHANGED <<discoveryVars, at, client, idx, batch, b, lastErr, success, statusDue,
                 statusAttempted, statusAge, metaAge, limitOff, clockOff, service, link>>

(* lastMetadataPoll is set whatever came of the commands.                  *)
MetadataDone ==
  /\ at = "meta" /\ cmd > Cmds
  /\ metaAge' = [metaAge EXCEPT ![batch[b]] = 0]
  /\ b' = b + 1
  /\ Goto("clock")
  /\ UNCHANGED <<discoveryVars, client, idx, batch, cmd, lastErr, success, statusDue,
                 statusAttempted, has, statusAge, limitOff, clockOff, unsupported,
                 known, service, link>>

(* Mutant: errors are only logged.                                         *)
EndRoundIgnoresErrors ==
  /\ at = "pack" /\ idx > Len(packs)
  /\ statusAge' = IF statusAttempted THEN 0 ELSE statusAge
  /\ service' = "connected" /\ Return("sleep")
  /\ UNCHANGED <<discoveryVars, client, metaAge, limitOff, clockOff, unsupported, known,
                 link>>

(* Mutant: one error fails the round.                                      *)
EndRoundAnyError ==
  /\ at = "pack" /\ idx > Len(packs)
  /\ statusAge' = IF statusAttempted THEN 0 ELSE statusAge
  /\ IF lastErr
       THEN client' = Closed /\ service' = "error" /\ Return("retry")
       ELSE service' = "connected" /\ UNCHANGED client /\ Return("sleep")
  /\ UNCHANGED <<discoveryVars, metaAge, limitOff, clockOff, unsupported, known, link>>

(* Mutant: lastStatusPoll is set whether the status was asked or not.      *)
EndRoundStampsStatus ==
  /\ at = "pack" /\ idx > Len(packs)
  /\ statusAge' = 0
  /\ IF ~ success /\ lastErr
       THEN client' = Closed /\ service' = "error" /\ Return("retry")
       ELSE service' = "connected" /\ UNCHANGED client /\ Return("sleep")
  /\ UNCHANGED <<discoveryVars, metaAge, limitOff, clockOff, unsupported, known, link>>

(* The round is over: nothing but errors closes the client.                *)
EndRound ==
  /\ at = "pack" /\ idx > Len(packs)
  /\ statusAge' = IF statusAttempted THEN 0 ELSE statusAge
  /\ IF ~ success /\ lastErr
       THEN client' = Closed /\ service' = "error" /\ Return("retry")
       ELSE service' = "connected" /\ UNCHANGED client /\ Return("sleep")
  /\ UNCHANGED <<discoveryVars, metaAge, limitOff, clockOff, unsupported, known, link>>

(* A tick of the clock, as far as the timers can tell (bound of the model: *)
(* an age stops where it is due)                                           *)
Older(age, due) == IF age < due THEN age + 1 ELSE due

(* sleep(ctx, ...) runs its time, and the configuration is read.           *)
Wake ==
  /\ at \in {"sleep", "retry"}
  /\ statusAge' = Older(statusAge, StatusInterval)
  /\ metaAge' = [a \in Byte |-> Older(metaAge[a], MetadataInterval)]
  /\ Goto(IF client # Closed THEN "start" ELSE "open")
  /\ cfg' \in Choice
  /\ UNCHANGED <<ctxDone, dpc, cursor, count, found, packs, client, round, limitOff,
                 clockOff, unsupported, known, service, link>>

(* Mutant: only the sleep after a good round looks at the context.         *)
StopRunAfterGoodRound ==
  /\ at = "sleep" /\ ctxDone
  /\ client' = Closed
  /\ Goto("stopped")
  /\ UNCHANGED <<discoveryVars, round, memory, known, service, link>>

(* sleep is cut short: Run returns, and its deferred function closes the   *)
(* client.                                                                 *)
StopRun ==
  /\ at \in {"sleep", "retry"} /\ ctxDone
  /\ client' = Closed
  /\ Goto("stopped")
  /\ UNCHANGED <<discoveryVars, round, memory, known, service, link>>

CollectorStep ==
  \/ OpenLink \/ Discover \/ BeginRound \/ RoundCancelled
  \/ \E a \in Byte : AnalogAnswered(a) \/ WarningAnswered(a)
  \/ AnalogFails \/ WarningFails \/ PollLimit \/ PollClock \/ NextPack
  \/ TryCmd \/ MetadataDone \/ EndRound \/ Wake \/ StopRun

LinkChanges ==
  /\ at # "stopped"
  /\ portOk' \in BOOLEAN
  /\ up' \in SUBSET Device
  /\ UNCHANGED <<discoveryVars, at, client, round, memory, known, service, refuses>>

CancelCollector ==
  /\ Cancel
  /\ UNCHANGED <<at, client, round, memory, known, service, link>>

CollectorNext == CollectorStep \/ LinkChanges \/ CancelCollector

(* Queries and sleeps end by their timeouts, and select does not ignore a  *)
(* done context for ever.  Nothing is assumed of the link.                 *)
CollectorFairness == WF_collectorVars(CollectorStep) /\ SF_collectorVars(StopRun)

CollectorSpec == CollectorInit /\ [][CollectorNext]_collectorVars
FairCollectorSpec == CollectorSpec /\ CollectorFairness

-----------------------------------------------------------------------------
(* Properties *)

(* Every variable keeps its type: the loops over packs and answers stay    *)
(* within them, and the ages are what the timers can tell.                 *)
CollectorTypeOK ==
  /\ DiscoveryTypeOK
  /\ at \in Place /\ service \in {"starting", "error", "connected"}
  /\ client \in Protocol \cup {Closed}
  /\ {lastErr, success, statusDue, statusAttempted, limitOff, clockOff, portOk}
       \subseteq BOOLEAN
  /\ has \in [info : BOOLEAN, params : BOOLEAN]
  /\ idx \in 1 .. Len(packs) + 1
  /\ batch \in Seq(Byte)
  /\ b \in 1 .. Len(batch) + 1
  /\ cmd \in 1 .. Cmds + 1
  /\ statusAge \in 0 .. StatusInterval
  /\ metaAge \in [Byte -> 0 .. MetadataInterval]
  /\ unsupported \in SUBSET (Byte \X (1 .. Cmds))
  /\ known \in SUBSET (Byte \X Section)
  /\ up \in SUBSET Device /\ refuses \in SUBSET Device

(* Queries need an open client (a nil one would panic), and a port is only *)
(* opened while no other one is.                                           *)
ClientIsOpen ==
  client = Closed <=> at \in {"open", "retry", "stopped"}

(* A command, the current limit or the clock is only ever given up because *)
(* a device has refused it: no silence, however long, is taken for that.   *)
GivenUpWasRefused ==
  /\ \A q \in unsupported : {q[1], 1, UMax} \cap refuses # {}
  /\ limitOff \/ clockOff => refuses # {}

(* The file may change before any round, but never under a scan: what is   *)
(* adopted are the packs of one configuration, the one in force.  (Proved  *)
(* for any set of configurations; no run checks it.)                       *)
AdoptsOneConfiguration ==
  [][dpc # "set" /\ dpc' = "set" =>
       (PolledPacksAreConfigured /\ WrappedWindowPollsFirst)']_collectorVars

(* Pack a was found and answers from now on, and nobody stops the service. *)
Calm(a) == a \in Elems(packs) /\ Reaches(a) /\ portOk /\ ~ ctxDone

(* Dead packs do not starve a live one: while a pack answers, its analog   *)
(* reading is stored again and again, whatever the others do.              *)
LivePacksStayFresh ==
  \A a \in Device : <>[]Calm(a) => []<><<AnalogAnswered(a)>>_collectorVars

(* Nor do they keep its status from being read again and again.            *)
StatusStaysFresh ==
  \A a \in Device : <>[]Calm(a) => []<><<WarningAnswered(a)>>_collectorVars

(* The link comes back: as soon as one pack answers for good, the service  *)
(* ends up connected, however often the link was lost before.              *)
LinkComesBack == (\E a \in Device : <>[]Calm(a)) => <>[](service = "connected")

(* A dead link is reported: when nothing answers any more, the service     *)
(* ends up in error.                                                       *)
DeadLinkIsReported ==
  <>[](up = {} /\ ~ ctxDone) => <>[](service = "error")

(* The metadata of all packs behind an address that answers and refuses    *)
(* nothing arrives, however many attempts failed before: a failed attempt  *)
(* is not the last one.                                                    *)
MetadataArrives ==
  \A a \in Device :
    [](refuses = {})
      /\ <>[](Calm(a) /\ \A k \in DOMAIN Addresses(a) : Adr(Addresses(a)[k]) \in up)
      => <>(Elems(Addresses(a)) \X {"info", "params"} \subseteq known)

(* A cancelled context stops the collector.                                *)
CancelStopsCollector == ctxDone ~> at = "stopped"

=============================================================================
