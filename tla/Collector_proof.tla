--------------------------- MODULE Collector_proof ---------------------------
(***************************************************************************)
(* For every size of byte, every set of devices and configurations, every  *)
(* pair of intervals and any number of commands: the collector keeps its   *)
(* types, so that no loop leaves its list; it never asks through a client  *)
(* it does not have; it gives up only what was refused; what it adopts are *)
(* the packs of one configuration; and each round ends by itself.          *)
(***************************************************************************)
EXTENDS Collector, PackDiscovery_proof

(* Where the places of the goroutine bound the loop variables, and where   *)
(* discovery can be while the collector is elsewhere.                      *)
Loops ==
  /\ at \in {"warning", "limit", "clock", "meta"} => idx <= Len(packs)
  /\ at = "meta" => b <= Len(batch)
  /\ at \notin {"clock", "meta"} => b = 1
  /\ dpc \notin {"idle", "set"} => at = "start"
  /\ dpc = "idle" => found = <<>>
  /\ packs # <<>> => dpc = "set"

CollectorInv == CollectorTypeOK /\ Loops

(* The actions that leave discovery alone, and the one that does not       *)
PollStep ==
  \/ OpenLink \/ BeginRound \/ RoundCancelled
  \/ \E a \in Byte : AnalogAnswered(a) \/ WarningAnswered(a)
  \/ AnalogFails \/ WarningFails \/ PollLimit \/ PollClock \/ NextPack
  \/ TryCmd \/ MetadataDone \/ EndRound \/ StopRun \/ LinkChanges

LEMMA PollLeavesDiscovery == PollStep => UNCHANGED discoveryVars
BY DEF PollStep, OpenLink, BeginRound, RoundCancelled, AnalogAnswered,
       WarningAnswered, AnalogFails, WarningFails, PollLimit, PollClock, NextPack,
       TryCmd, MetadataDone, EndRound, StopRun, LinkChanges

LEMMA DiscoverIsDiscovery ==
  Discover => DiscoveryStep /\ at = "start" /\ packs = <<>>
                /\ UNCHANGED <<at, client, round, memory, known, service, link>>
BY DEF Discover, DiscoveryStep

(* A step of the collector is one of discovery, one that leaves it alone,  *)
(* or the end of a sleep, after which the configuration may be another.    *)
LEMMA CollectorSteps ==
  [CollectorNext]_collectorVars =>
    Discover \/ PollStep \/ Wake \/ CancelCollector \/ UNCHANGED collectorVars
BY DEF CollectorNext, CollectorStep, PollStep

LEMMA Numbers ==
  /\ StatusInterval \in Nat /\ MetadataInterval \in Nat
  /\ StatusInterval > 0 /\ MetadataInterval > 0
  /\ InfoCmds \in Nat /\ ParamCmds \in Nat /\ Cmds \in Nat /\ Cmds > 1
BY TimerAssumption DEF Cmds

LEMMA ElemsType ==
  ASSUME NEW S, NEW s \in Seq(S)
  PROVE  Elems(s) \subseteq S
<1>1. \A k \in 1 .. Len(s) : s[k] \in S
  OBVIOUS
<1> QED BY <1>1 DEF Elems

(* An answer has packs, and their addresses are bytes.                     *)
LEMMA AddressesType ==
  ASSUME NEW a \in Byte
  PROVE  Addresses(a) \in Seq(Byte) /\ Elems(Addresses(a)) \subseteq Byte
<1>1. Behind[a] \in 1 .. UMax /\ Behind[a] \in Nat
  BY BehindAssumption, UMaxAssumption DEF Byte
<1>2. [k \in 1 .. Behind[a] |-> k] \in Seq(Byte)
  BY <1>1, UMaxAssumption DEF Byte
<1>3. Addresses(a) \in Seq(Byte)
  BY <1>2 DEF Addresses
<1> QED BY <1>3, ElemsType

LEMMA UpsertType ==
  ASSUME known \in SUBSET (Byte \X Section), NEW A \in SUBSET Byte,
         NEW s \in Section, Upsert(A, s)
  PROVE  known' \in SUBSET (Byte \X Section)
<1> DEFINE new == {<<a, s>> : a \in IF s = "analog" THEN A ELSE A \cap Stored}
<1>1. ASSUME NEW x \in new PROVE x \in Byte \X Section
  <2>1. PICK a \in A : x = <<a, s>>
    OBVIOUS
  <2> QED BY <2>1
<1>2. known' = known \cup new
  BY DEF Upsert
<1>3. new \subseteq Byte \X Section
  BY <1>1
<1> HIDE DEF new
<1> QED BY <1>2, <1>3

(* A timer never runs past its interval.                                   *)
LEMMA OlderType ==
  ASSUME NEW due \in Nat, NEW age \in 0 .. due
  PROVE  Older(age, due) \in 0 .. due
BY DEF Older

-----------------------------------------------------------------------------
LEMMA CollectorInvInit == CollectorInit => CollectorInv
<1> SUFFICES ASSUME CollectorInit PROVE CollectorInv
  OBVIOUS
<1>1. DiscoveryTypeOK
  <2>1. 0 \in Byte /\ <<>> \in Seq(Byte)
    BY UMaxAssumption DEF Byte
  <2> QED BY <2>1 DEF CollectorInit, DiscoveryInit, DiscoveryTypeOK
<1>2. packs = <<>> /\ found = <<>> /\ dpc = "idle" /\ Len(packs) = 0
  BY DEF CollectorInit, DiscoveryInit
<1>3. /\ idx \in 1 .. Len(packs) + 1 /\ b \in 1 .. Len(batch) + 1
      /\ cmd \in 1 .. Cmds + 1 /\ batch \in Seq(Byte)
  BY <1>2, Numbers DEF CollectorInit
<1>4. statusAge \in 0 .. StatusInterval
  BY Numbers DEF CollectorInit
<1>5. metaAge \in [Byte -> 0 .. MetadataInterval]
  BY Numbers DEF CollectorInit
<1>6. CollectorTypeOK
  BY <1>1, <1>3, <1>4, <1>5
     DEF CollectorInit, CollectorTypeOK, Place, Idle
<1>7. Loops
  BY <1>2 DEF CollectorInit, Loops
<1> QED BY <1>6, <1>7 DEF CollectorInv

-----------------------------------------------------------------------------
(* Every step of a round, of the client and of the link keeps the types    *)
(* and the bounds of the loops.                                            *)
LEMMA PollStepType ==
  ASSUME CollectorInv, PollStep
  PROVE  CollectorInv'
<1>0. UNCHANGED discoveryVars /\ DiscoveryTypeOK'
  <2>1. UNCHANGED discoveryVars
    BY PollLeavesDiscovery
  <2> QED BY <2>1, DiscoveryTypeStep DEF CollectorInv, CollectorTypeOK
<1>1. /\ UNCHANGED <<cfg, ctxDone, dpc, cursor, count, found, packs>>
      /\ packs \in Seq(Byte) /\ Len(packs) \in Nat /\ cfg \in DeviceConfig
      /\ Len(batch) \in Nat
  BY <1>0 DEF discoveryVars, CollectorInv, CollectorTypeOK, DiscoveryTypeOK
<1> USE DEF CollectorInv, CollectorTypeOK, Loops, Goto, Place,
            round, memory, link, discoveryVars
<1>2. CASE OpenLink
  <2>1. cfg.protocol \in Protocol
    BY <1>1 DEF DeviceConfig
  <2> QED BY <1>0, <1>1, <1>2, <2>1 DEF OpenLink
<1>3. CASE BeginRound
  <2>1. {lastErr', success', statusDue', statusAttempted'} \subseteq BOOLEAN
    <3>1. lastErr' = FALSE /\ success' = FALSE /\ statusAttempted' = FALSE
      BY <1>3 DEF BeginRound
    <3>2. statusDue' = (statusAge >= StatusInterval)
      BY <1>3 DEF BeginRound
    <3>3. statusDue' \in BOOLEAN
      <4> HIDE DEF CollectorInv
      <4> QED BY <3>2
    <3> QED BY <3>1, <3>3
  <2>2. at' = "pack" /\ idx' = 1 /\ UNCHANGED <<client, batch, b, cmd, has, memory, known, service, link>>
    BY <1>3 DEF BeginRound
  <2>3. idx' \in 1 .. Len(packs') + 1 /\ b = 1
    BY <1>1, <1>3, <2>2 DEF BeginRound
  <2>4. CollectorTypeOK'
    BY <1>0, <1>1, <2>1, <2>2, <2>3
  <2>5. at = "start" /\ packs # <<>>
    BY <1>3 DEF BeginRound
  <2>6. dpc' = "set"
    BY <1>1, <2>5
  <2> QED BY <1>1, <2>2, <2>3, <2>4, <2>6
<1>4. ASSUME NEW place \in {"sleep", "retry"}, Return(place)
      PROVE  /\ at' \in Place /\ at' = place
             /\ idx' = 1 /\ b' = 1 /\ batch' \in Seq(Byte)
             /\ idx' \in 1 .. Len(packs) + 1 /\ b' \in 1 .. Len(batch') + 1
             /\ cmd' \in 1 .. Cmds + 1
             /\ {lastErr', success', statusDue', statusAttempted'} \subseteq BOOLEAN
             /\ has' \in [info : BOOLEAN, params : BOOLEAN]
  <2>1. /\ at' = place /\ idx' = 1 /\ b' = 1 /\ batch' = <<>> /\ cmd' = 1
        /\ {lastErr', success', statusDue', statusAttempted'} \subseteq BOOLEAN
        /\ has' \in [info : BOOLEAN, params : BOOLEAN]
    BY <1>4 DEF Return
  <2>2. <<>> \in Seq(Byte) /\ Len(<<>>) = 0
    OBVIOUS
  <2> QED BY <1>1, <2>1, <2>2, Numbers
<1>5. CASE RoundCancelled
  BY <1>0, <1>1, <1>4, <1>5 DEF RoundCancelled
<1>6. ASSUME NEW a \in Byte, AnalogAnswered(a) PROVE CollectorInv'
  <2>1. batch' \in Seq(Byte) /\ Elems(batch') \in SUBSET Byte /\ Len(batch') \in Nat
    BY <1>6, AddressesType DEF AnalogAnswered
  <2>2. known' \in SUBSET (Byte \X Section)
    BY <1>6, <2>1, UpsertType DEF AnalogAnswered, Section
  <2>3. /\ at = "pack" /\ idx <= Len(packs) /\ idx \in 1 .. Len(packs) /\ b = 1
        /\ UNCHANGED <<client, b, cmd, lastErr, statusDue, has, memory, service, link>>
    BY <1>1, <1>6 DEF AnalogAnswered
  <2>4. /\ {lastErr', success', statusDue', statusAttempted'} \subseteq BOOLEAN
        /\ \/ at' = "warning" /\ idx' = idx
           \/ at' = "pack" /\ idx' = idx + 1
    BY <1>6 DEF AnalogAnswered
  <2>5. b' \in 1 .. Len(batch') + 1 /\ idx' \in 1 .. Len(packs') + 1
    BY <1>1, <2>1, <2>3, <2>4
  <2> QED BY <1>0, <1>1, <2>1, <2>2, <2>3, <2>4, <2>5
<1>7. CASE AnalogFails
  BY <1>0, <1>1, <1>7 DEF AnalogFails
<1>8. ASSUME NEW a \in Byte, WarningAnswered(a) PROVE CollectorInv'
  <2>1. known' \in SUBSET (Byte \X Section)
    BY <1>8, AddressesType, UpsertType DEF WarningAnswered, Section
  <2> QED BY <1>0, <1>1, <1>8, <2>1 DEF WarningAnswered
<1>9. CASE WarningFails
  BY <1>0, <1>1, <1>9 DEF WarningFails
<1>10. CASE PollLimit
  BY <1>0, <1>1, <1>10 DEF PollLimit
<1>11. CASE PollClock
  <2>1. b \in 1 .. Len(batch) /\ batch[b] \in Byte
    BY <1>1, <1>11 DEF PollClock
  <2>2. known' \in SUBSET (Byte \X Section) /\ clockOff' \in BOOLEAN
    BY <1>11, <2>1, UpsertType DEF PollClock, Section
  <2>3. /\ at = "clock" /\ UNCHANGED <<client, idx, batch, lastErr, success, statusDue,
                 statusAttempted, statusAge, metaAge, limitOff, unsupported, service, link>>
        /\ has' \in [info : BOOLEAN, params : BOOLEAN]
        /\ cmd' \in 1 .. Cmds + 1
        /\ \/ at' = "meta" /\ b' = b
           \/ at' = "clock" /\ b' = b + 1
    BY <1>11, Numbers DEF PollClock
  <2>4. b' \in 1 .. Len(batch') + 1 /\ (at' = "meta" => b' <= Len(batch'))
    <3>1. batch' = batch /\ b \in 1 .. Len(batch) /\ Len(batch) \in Nat
      BY <1>1, <2>1, <2>3
    <3>2. (at' # "meta" /\ b' = b + 1) \/ b' = b
      BY <2>3
    <3> HIDE DEF CollectorInv
    <3> QED BY <3>1, <3>2
  <2> QED BY <1>0, <1>1, <2>2, <2>3, <2>4
<1>12. CASE NextPack
  BY <1>0, <1>1, <1>12 DEF NextPack
<1>13. CASE TryCmd
  <2>1. b \in 1 .. Len(batch) /\ batch[b] \in Byte /\ cmd \in 1 .. Cmds
    BY <1>1, <1>13, Numbers DEF TryCmd
  <2>2. unsupported' \in SUBSET (Byte \X (1 .. Cmds))
    BY <1>13, <2>1 DEF TryCmd
  <2>3. has' \in [info : BOOLEAN, params : BOOLEAN]
    BY <1>13 DEF TryCmd
  <2>4. known' \in SUBSET (Byte \X Section)
    <3>1. known' = known \/ Upsert({batch[b]}, "info") \/ Upsert({batch[b]}, "params")
      BY <1>13 DEF TryCmd, StoreAfter
    <3> QED BY <2>1, <3>1, UpsertType DEF Section
  <2>5. cmd' \in 1 .. Cmds + 1
    <3>1. cmd' = cmd + 1
      BY <1>13 DEF TryCmd
    <3> QED BY <2>1, <3>1, Numbers
  <2> QED BY <1>0, <1>1, <1>13, <2>2, <2>3, <2>4, <2>5 DEF TryCmd
<1>14. CASE MetadataDone
  <2>1. b \in 1 .. Len(batch) /\ batch[b] \in Byte
    BY <1>1, <1>14 DEF MetadataDone
  <2>2. metaAge' \in [Byte -> 0 .. MetadataInterval]
    BY <1>14, <2>1, Numbers DEF MetadataDone
  <2> QED BY <1>0, <1>1, <1>14, <2>1, <2>2 DEF MetadataDone
<1>15. CASE EndRound
  <2>1. statusAge' \in 0 .. StatusInterval
    BY <1>15, Numbers DEF EndRound
  <2>2. Return("sleep") \/ Return("retry")
    BY <1>15 DEF EndRound
  <2> QED BY <1>0, <1>1, <1>4, <1>15, <2>1, <2>2 DEF EndRound
<1>16. CASE StopRun
  BY <1>0, <1>1, <1>16 DEF StopRun
<1>17. CASE LinkChanges
  BY <1>0, <1>1, <1>17 DEF LinkChanges
<1> QED BY <1>2, <1>3, <1>5, <1>6, <1>7, <1>8, <1>9, <1>10, <1>11, <1>12,
           <1>13, <1>14, <1>15, <1>16, <1>17 DEF PollStep

(* Discovery runs in the first round only: the list it builds has not been *)
(* looped over yet.                                                        *)
LEMMA DiscoverType ==
  ASSUME CollectorInv, Discover
  PROVE  CollectorInv'
<1>1. /\ DiscoveryStep /\ at = "start" /\ packs = <<>>
      /\ UNCHANGED <<at, client, round, memory, known, service, link>>
  BY DiscoverIsDiscovery
<1>2. DiscoveryTypeOK'
  BY <1>1, DiscoveryTypeStep DEF CollectorInv, CollectorTypeOK, DiscoveryNext
<1>3. packs' \in Seq(Byte) /\ Len(packs') \in Nat /\ idx = 1
  <2>1. Len(packs) = 0
    BY <1>1
  <2> QED BY <1>2, <2>1 DEF DiscoveryTypeOK, CollectorInv, CollectorTypeOK
<1>4. dpc' # "idle" /\ (packs' # <<>> => dpc' = "set")
  BY <1>1 DEF DiscoveryStep, DiscoverRS232, AskConsole, ConsoleFails, FillConsole,
       StartScan, EndScan, ScanAnswered, ScanFails, AdoptPacks
<1> QED BY <1>1, <1>2, <1>3, <1>4
        DEF CollectorInv, CollectorTypeOK, Loops, Place, round, memory, link

LEMMA WakeType ==
  ASSUME CollectorInv, Wake
  PROVE  CollectorInv'
<1>1. cfg' \in DeviceConfig
  BY ChoiceAssumption DEF Wake
<1>2. DiscoveryTypeOK'
  BY <1>1 DEF CollectorInv, CollectorTypeOK, DiscoveryTypeOK, Wake
<1>3. statusAge' \in 0 .. StatusInterval /\ metaAge' \in [Byte -> 0 .. MetadataInterval]
  BY Numbers, OlderType DEF CollectorInv, CollectorTypeOK, Wake
<1> QED BY <1>2, <1>3
        DEF CollectorInv, CollectorTypeOK, Loops, Wake, Goto, Place, round, link

LEMMA CollectorInvStep ==
  CollectorInv /\ [CollectorNext]_collectorVars => CollectorInv'
<1> SUFFICES ASSUME CollectorInv, [CollectorNext]_collectorVars
             PROVE  CollectorInv'
  OBVIOUS
<1>1. CASE CancelCollector
  <2>1. DiscoveryTypeOK'
    BY <1>1, DiscoveryTypeStep
       DEF CancelCollector, DiscoveryNext, CollectorInv, CollectorTypeOK
  <2> QED BY <1>1, <2>1 DEF CancelCollector, Cancel, CollectorInv, CollectorTypeOK,
          Loops, round, memory, link
<1>2. CASE UNCHANGED collectorVars
  BY <1>2 DEF collectorVars, discoveryVars, CollectorInv, CollectorTypeOK,
       DiscoveryTypeOK, Loops, round, memory, link
<1> QED BY <1>1, <1>2, CollectorSteps, DiscoverType, PollStepType, WakeType

-----------------------------------------------------------------------------
(* The types of the collector, in particular the bounds of its three       *)
(* loops, whatever the link does and whatever the file is changed to.      *)
THEOREM CollectorTypeCorrect == CollectorSpec => []CollectorTypeOK
<1>1. CollectorInv => CollectorTypeOK
  BY DEF CollectorInv
<1> QED BY <1>1, CollectorInvInit, CollectorInvStep, PTL DEF CollectorSpec

(* A client is there wherever it is used, and no port is opened twice.     *)
THEOREM ClientCorrect == CollectorSpec => []ClientIsOpen
<1>1. CollectorInit => ClientIsOpen
  BY DEF CollectorInit, ClientIsOpen
<1>2. CollectorInv /\ ClientIsOpen /\ [CollectorNext]_collectorVars => ClientIsOpen'
  <2> SUFFICES ASSUME CollectorInv, ClientIsOpen, [CollectorNext]_collectorVars
               PROVE  ClientIsOpen'
    OBVIOUS
  <2> USE DEF ClientIsOpen, Goto
  <2>1. at \in Place /\ client \in Protocol \cup {Closed} /\ cfg.protocol # Closed
    BY DEF CollectorInv, CollectorTypeOK, DiscoveryTypeOK, DeviceConfig, Protocol, Closed
  <2>2. CASE Discover
    BY <2>2, DiscoverIsDiscovery
  <2>3. CASE PollStep
    <3>1. CASE OpenLink \/ BeginRound
      BY <2>1, <3>1 DEF OpenLink, BeginRound
    <3>2. CASE RoundCancelled \/ EndRound
      BY <3>2 DEF RoundCancelled, EndRound, Return
    <3>3. CASE \E a \in Byte : AnalogAnswered(a) \/ WarningAnswered(a)
      BY <3>3 DEF AnalogAnswered, WarningAnswered
    <3>4. CASE AnalogFails \/ WarningFails \/ PollLimit \/ PollClock \/ NextPack
      BY <3>4 DEF AnalogFails, WarningFails, PollLimit, PollClock, NextPack
    <3>5. CASE TryCmd \/ MetadataDone \/ StopRun \/ LinkChanges
      BY <3>5 DEF TryCmd, MetadataDone, StopRun, LinkChanges
    <3> QED BY <2>3, <3>1, <3>2, <3>3, <3>4, <3>5 DEF PollStep
  <2>4. CASE Wake
    BY <2>4 DEF Wake
  <2>5. CASE CancelCollector \/ UNCHANGED collectorVars
    BY <2>5 DEF CancelCollector, collectorVars
  <2> QED BY <2>2, <2>3, <2>4, <2>5, CollectorSteps
<1> QED BY <1>1, <1>2, CollectorInvInit, CollectorInvStep, PTL DEF CollectorSpec

(* Only a refusal ends the poll of a command, of the limit or of the       *)
(* clock: no timeout and no lost link does, on any protocol.               *)
THEOREM GivenUpCorrect == CollectorSpec => []GivenUpWasRefused
<1>1. CollectorInit => GivenUpWasRefused
  BY DEF CollectorInit, GivenUpWasRefused
<1>2. CollectorInv /\ GivenUpWasRefused /\ [CollectorNext]_collectorVars
        => GivenUpWasRefused'
  <2> SUFFICES ASSUME CollectorInv, GivenUpWasRefused, [CollectorNext]_collectorVars
               PROVE  GivenUpWasRefused'
    OBVIOUS
  <2> USE DEF GivenUpWasRefused
  <2>1. ASSUME NEW a PROVE Adr(a) \in {a, 1, UMax}
    BY DEF Adr
  <2>2. CASE Discover \/ Wake \/ CancelCollector \/ UNCHANGED collectorVars
    BY <2>2, DiscoverIsDiscovery
       DEF Wake, CancelCollector, collectorVars, memory, link
  <2>3. CASE PollStep
    <3>1. CASE OpenLink \/ BeginRound \/ RoundCancelled \/ EndRound
      BY <3>1 DEF OpenLink, BeginRound, RoundCancelled, EndRound, memory, link
    <3>2. CASE \E a \in Byte : AnalogAnswered(a) \/ WarningAnswered(a)
      BY <3>2 DEF AnalogAnswered, WarningAnswered, memory, link
    <3>3. CASE AnalogFails \/ WarningFails \/ NextPack \/ MetadataDone
      BY <3>3 DEF AnalogFails, WarningFails, NextPack, MetadataDone, memory, link
    <3>4. CASE StopRun \/ LinkChanges
      BY <3>4 DEF StopRun, LinkChanges, memory, link
    <3>5. CASE PollLimit
      BY <3>5 DEF PollLimit, link
    <3>6. CASE PollClock
      BY <3>6 DEF PollClock, link
    <3>7. CASE TryCmd
      <4>1. /\ UNCHANGED <<limitOff, clockOff, refuses>>
            /\ \/ unsupported' = unsupported
               \/ /\ unsupported' = unsupported \cup {<<batch[b], cmd>>}
                  /\ Adr(batch[b]) \in refuses
        BY <3>7 DEF TryCmd, link
      <4> QED BY <2>1, <4>1
    <3> QED BY <2>3, <3>1, <3>2, <3>3, <3>4, <3>5, <3>6, <3>7 DEF PollStep
  <2> QED BY <2>2, <2>3, CollectorSteps
<1> QED BY <1>1, <1>2, CollectorInvInit, CollectorInvStep, PTL DEF CollectorSpec

-----------------------------------------------------------------------------
(* While the packs are not set, discovery follows the window of the        *)
(* configuration in force: it may have been replaced before, not since.    *)
ScanInv == dpc # "set" => WindowInv /\ WrapInv

LEMMA ScanInvStep ==
  CollectorInv /\ ScanInv /\ [CollectorNext]_collectorVars
    => /\ ScanInv'
       /\ dpc # "set" /\ dpc' = "set" => (PolledPacksAreConfigured /\ WrappedWindowPollsFirst)'
<1> SUFFICES ASSUME CollectorInv, ScanInv, [CollectorNext]_collectorVars
             PROVE  /\ ScanInv'
                    /\ dpc # "set" /\ dpc' = "set" =>
                         (PolledPacksAreConfigured /\ WrappedWindowPollsFirst)'
  OBVIOUS
<1>1. DiscoveryTypeOK /\ DiscoveryTypeOK'
  BY CollectorInvStep DEF CollectorInv, CollectorTypeOK
<1>2. CASE Wake
  <2>1. dpc \in {"idle", "set"} /\ (dpc = "idle" => found = <<>>)
    BY <1>2 DEF CollectorInv, Loops, Wake
  <2>2. dpc' = dpc /\ found' = found
    BY <1>2 DEF Wake
  <2> QED BY <2>1, <2>2 DEF ScanInv, WindowInv, WrapInv
<1>3. CASE [DiscoveryNext]_discoveryVars
  <2>1. CASE dpc = "set"
    <3>1. dpc' = "set"
      BY <1>3, <2>1 DEF DiscoveryNext, DiscoveryStep, DiscoverRS232, AskConsole,
         ConsoleFails, FillConsole, StartScan, EndScan, ScanAnswered, ScanFails,
         AdoptPacks, Cancel, discoveryVars
    <3> QED BY <2>1, <3>1 DEF ScanInv
  <2>2. CASE dpc # "set"
    <3>1. WindowInv' /\ WrapInv'
      BY <1>1, <1>3, <2>2, WindowStep, WrapStep DEF ScanInv
    <3>2. (DiscoveryTypeOK /\ WindowInv => PolledPacksAreConfigured)'
      BY WindowIsPolled, PTL
    <3>3. WrappedWindowPollsFirst'
      BY <3>1 DEF WrapInv, WrappedWindowPollsFirst
    <3> QED BY <1>1, <3>1, <3>2, <3>3 DEF ScanInv
  <2> QED BY <2>1, <2>2
<1>4. Discover => DiscoveryNext
  BY DiscoverIsDiscovery DEF DiscoveryNext
<1>5. CancelCollector => DiscoveryNext
  BY DEF CancelCollector, DiscoveryNext
<1>6. PollStep \/ UNCHANGED collectorVars => UNCHANGED discoveryVars
  BY PollLeavesDiscovery DEF collectorVars
<1> QED BY <1>2, <1>3, <1>4, <1>5, <1>6, CollectorSteps

(* What the collector adopts are the packs of one configuration, although  *)
(* the file may change before every round.                                 *)
THEOREM AdoptionCorrect == CollectorSpec => AdoptsOneConfiguration
<1>1. CollectorInit => ScanInv
  BY DEF CollectorInit, DiscoveryInit, ScanInv, WindowInv, WrapInv
<1> QED BY <1>1, CollectorInvInit, CollectorInvStep, ScanInvStep, PTL
        DEF CollectorSpec, AdoptsOneConfiguration

-----------------------------------------------------------------------------
(* What is left of a round: packs, stages of the pack, packs of its answer *)
(* and commands of that pack.  A command of one more stands for the clock. *)
InRound == at \in {"pack", "warning", "limit", "clock", "meta"}

PacksLeft == Len(packs) + 1 - idx

StagesLeft ==
  CASE at = "pack"    -> 3
    [] at = "warning" -> 2
    [] at = "limit"   -> 1
    [] OTHER          -> 0

AnswersLeft == IF at \in {"clock", "meta"} THEN Len(batch) + 1 - b ELSE 0

CmdsLeft ==
  CASE at = "clock" -> Cmds + 1
    [] at = "meta"  -> Cmds + 1 - cmd
    [] OTHER        -> 0

RoundShrinks ==
  \/ PacksLeft' < PacksLeft
  \/ PacksLeft' = PacksLeft /\ StagesLeft' < StagesLeft
  \/ UNCHANGED <<PacksLeft, StagesLeft>> /\ AnswersLeft' < AnswersLeft
  \/ UNCHANGED <<PacksLeft, StagesLeft, AnswersLeft>> /\ CmdsLeft' < CmdsLeft

(* Whoever is silent and whatever is refused, each step of a round leaves  *)
(* less of it or ends it, and nothing outside the goroutine adds to it.    *)
RoundGetsOn ==
  [][InRound /\ InRound' =>
       IF CollectorStep THEN RoundShrinks
       ELSE UNCHANGED <<PacksLeft, StagesLeft, AnswersLeft, CmdsLeft>>]_collectorVars

LEMMA RoundLeftType ==
  ASSUME CollectorInv, InRound
  PROVE  /\ PacksLeft \in 0 .. Len(packs) /\ StagesLeft \in 0 .. 3
         /\ AnswersLeft \in 0 .. Len(batch) /\ CmdsLeft \in 0 .. Cmds + 1
         /\ Len(packs) \in Nat /\ Len(batch) \in Nat /\ Cmds \in Nat
<1>1. /\ Len(packs) \in Nat /\ idx \in 1 .. Len(packs) + 1
      /\ Len(batch) \in Nat /\ b \in 1 .. Len(batch) + 1
      /\ Cmds \in Nat /\ cmd \in 1 .. Cmds + 1
  BY Numbers DEF CollectorInv, CollectorTypeOK, DiscoveryTypeOK
<1>2. PacksLeft \in 0 .. Len(packs)
  BY <1>1 DEF PacksLeft
<1>3. StagesLeft \in 0 .. 3
  BY DEF StagesLeft
<1>4. AnswersLeft \in 0 .. Len(batch)
  BY <1>1 DEF AnswersLeft
<1>5. CmdsLeft \in 0 .. Cmds + 1
  BY <1>1 DEF CmdsLeft
<1>. QED
  BY <1>1, <1>2, <1>3, <1>4, <1>5

LEMMA RoundStep ==
  ASSUME CollectorInv, InRound, InRound', CollectorStep
  PROVE  RoundShrinks
<1>1. /\ Len(packs) \in Nat /\ idx \in 1 .. Len(packs) + 1 /\ idx \in Int
      /\ Len(batch) \in Nat /\ b \in 1 .. Len(batch) + 1 /\ b \in Int
      /\ Cmds \in Nat /\ cmd \in 1 .. Cmds + 1 /\ cmd \in Int
  BY Numbers DEF CollectorInv, CollectorTypeOK, DiscoveryTypeOK
<1>2. CASE /\ packs' = packs /\ idx' = idx + 1
  BY <1>1, <1>2 DEF RoundShrinks, PacksLeft
<1>3. CASE /\ UNCHANGED <<packs, idx>>
           /\ \/ at = "pack" /\ at' = "warning"
              \/ at = "warning" /\ at' = "limit"
              \/ at = "limit" /\ at' = "clock"
  BY <1>3 DEF RoundShrinks, PacksLeft, StagesLeft
<1>4. CASE /\ UNCHANGED <<packs, idx, batch>> /\ b' = b + 1
           /\ at \in {"clock", "meta"} /\ at' = "clock"
  <2>1. PacksLeft' = PacksLeft /\ StagesLeft' = StagesLeft
    BY <1>4 DEF PacksLeft, StagesLeft
  <2>2. AnswersLeft' < AnswersLeft
    BY <1>1, <1>4 DEF AnswersLeft
  <2>. QED
    BY <2>1, <2>2 DEF RoundShrinks
<1>5. CASE /\ UNCHANGED <<packs, idx, batch, b>> /\ at' = "meta"
           /\ (at = "clock" /\ cmd' = 1) \/ (at = "meta" /\ cmd' = cmd + 1)
  <2>1. UNCHANGED <<PacksLeft, StagesLeft, AnswersLeft>>
    BY <1>5 DEF PacksLeft, StagesLeft, AnswersLeft
  <2>2. Cmds' = Cmds
    BY DEF Cmds
  <2>3. CmdsLeft' < CmdsLeft
    BY <1>1, <1>5, <2>2 DEF CmdsLeft
  <2>. QED
    BY <2>1, <2>3 DEF RoundShrinks
<1>6. CASE OpenLink \/ Discover \/ BeginRound \/ Wake \/ StopRun
  BY <1>6 DEF OpenLink, Discover, BeginRound, Wake, StopRun, InRound
<1>7. CASE RoundCancelled \/ EndRound
  BY <1>7 DEF RoundCancelled, EndRound, Return, Goto, InRound
<1>8. ASSUME NEW a \in Byte, AnalogAnswered(a) PROVE RoundShrinks
  BY <1>2, <1>3, <1>8 DEF AnalogAnswered, Goto, discoveryVars
<1>9. ASSUME NEW a \in Byte, WarningAnswered(a) PROVE RoundShrinks
  BY <1>3, <1>9 DEF WarningAnswered, Goto, discoveryVars, round
<1>10. CASE AnalogFails \/ WarningFails \/ NextPack
  BY <1>2, <1>10 DEF AnalogFails, WarningFails, NextPack, discoveryVars
<1>11. CASE PollLimit
  BY <1>3, <1>11 DEF PollLimit, Goto, discoveryVars
<1>12. CASE PollClock
  <2>1. /\ UNCHANGED <<packs, idx, batch>> /\ at = "clock" /\ cmd' = 1
        /\ (at' = "meta" /\ b' = b) \/ (at' = at /\ b' = b + 1)
    BY <1>12 DEF PollClock, Goto, discoveryVars
  <2>. QED
    BY <1>4, <1>5, <2>1
<1>13. CASE TryCmd
  <2>1. UNCHANGED <<packs, idx, batch, b, at>> /\ at = "meta" /\ cmd' = cmd + 1
    BY <1>13 DEF TryCmd, discoveryVars
  <2>. QED
    BY <1>5, <2>1
<1>14. CASE MetadataDone
  BY <1>4, <1>14 DEF MetadataDone, Goto, discoveryVars
<1>. QED
  BY <1>6, <1>7, <1>8, <1>9, <1>10, <1>11, <1>12, <1>13, <1>14 DEF CollectorStep

(* A round ends by itself: what LivePacksStayFresh needs besides fairness, *)
(* for any number of packs, of packs behind them, and of commands.         *)
THEOREM RoundProgresses == CollectorSpec => RoundGetsOn
<1>1. CollectorInv /\ [CollectorNext]_collectorVars =>
        [InRound /\ InRound' =>
           IF CollectorStep THEN RoundShrinks
           ELSE UNCHANGED <<PacksLeft, StagesLeft, AnswersLeft, CmdsLeft>>]_collectorVars
  <2>. SUFFICES ASSUME CollectorInv, CollectorNext, InRound, InRound'
                PROVE  IF CollectorStep THEN RoundShrinks
                       ELSE UNCHANGED <<PacksLeft, StagesLeft, AnswersLeft, CmdsLeft>>
    OBVIOUS
  <2>1. CASE CollectorStep
    BY <2>1, RoundStep
  <2>2. CASE ~ CollectorStep
    <3>1. LinkChanges \/ CancelCollector
      BY <2>2 DEF CollectorNext
    <3>2. UNCHANGED <<packs, at, idx, batch, b, cmd>>
      BY <3>1 DEF LinkChanges, CancelCollector, Cancel, discoveryVars, round
    <3>3. Cmds' = Cmds
      BY DEF Cmds
    <3>4. UNCHANGED <<PacksLeft, StagesLeft, AnswersLeft, CmdsLeft>>
      BY <3>2, <3>3 DEF PacksLeft, StagesLeft, AnswersLeft, CmdsLeft
    <3>. QED
      BY <2>2, <3>4
  <2>. QED
    BY <2>1, <2>2
<1>. QED
  BY <1>1, CollectorInvInit, CollectorInvStep, PTL DEF CollectorSpec, RoundGetsOn

=============================================================================
