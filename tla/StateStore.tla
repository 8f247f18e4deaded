----------------------------- MODULE StateStore -----------------------------
(***************************************************************************)
(* The runtime state shared by the collector (writer), the MQTT publisher  *)
(* and the HTTP server (readers): internal/state/store.go, with the part   *)
(* of internal/pace/types.go that says which telemetry a pack has.         *)
(*                                                                         *)
(* Every method holds the store's mutex from its first line to its last,   *)
(* so it is one action.  What the mutex does not cover is memory: packs    *)
(* are copied by value, but the parameters of a pack hang from a pointer,  *)
(* and a snapshot copies the pointer.  PackParameters objects therefore    *)
(* live in a heap; an object that nobody points to is collected at once.   *)
(* Status and info objects are never written once they hang from a pack,   *)
(* so they are plain values.                                               *)
(***************************************************************************)
EXTENDS Integers, FiniteSets

CONSTANTS
  Addr,           \* pack addresses
  NoPrefix,       \* stands for the pack prefix of a telemetry id without one
  GlobalAddr,     \* the addresses whose current limit has no pack prefix: 0, 255
  Service,        \* names given to SetServiceStatus: "pace", "mqtt"
  Val,            \* values a field can have
  AnalogField,    \* fields of an analog reading (a cell may be missing)
  InfoField,      \* fields of PackInfo
  ParamField,     \* fields of PackParameters other than CurrentLimitA
  Published,      \* the parameter fields that have telemetry
  Reader,         \* holders of a snapshot
  Ref,            \* heap references of PackParameters objects
  Nil,            \* no value, nil pointer
  Free            \* an unused heap cell

ASSUME PublishedAssumption == Published \subseteq ParamField
ASSUME GlobalAssumption == GlobalAddr \subseteq Addr
ASSUME NoAddrAssumption == NoPrefix \notin Addr
ASSUME FieldAssumption ==
  /\ "status" \notin AnalogField \cup InfoField \cup ParamField
  /\ "limit" \notin AnalogField \cup InfoField \cup ParamField
  /\ AnalogField \cap InfoField = {}
  /\ (AnalogField \cup InfoField) \cap ParamField = {}

VARIABLES
  services,       \* per service: has it ever succeeded (lastSuccess is set)
  store,          \* per address: the pack, or Nil (s.packs)
  heap,           \* PackParameters objects
  telemetry,      \* per address and field: the published value, or Nil
  snaps           \* per reader: the snapshot it holds, or Nil

storeVars == <<services, store, heap, telemetry, snaps>>

Opt(S) == S \cup {Nil}

Analog == [AnalogField -> Opt(Val)]
Info == [InfoField -> Opt(Val)]
ParamFields == [ParamField -> Opt(Val)]

(* A pack as ParseAnalogPacks builds it has an analog reading and nothing  *)
(* else; status, info and params are filled in by the store.               *)
Pack == [analog : Analog, status : Opt(Val), info : Opt(Info), params : Opt(Ref)]
Params == [fields : ParamFields, limit : Opt(Val)]

ASSUME NilAssumption ==
  /\ Nil \notin Val /\ Nil \notin Ref
  /\ Nil \notin Pack /\ Nil \notin Info /\ Nil \notin Params
ASSUME FreeAssumption == Free \notin Params

(* packID(address, field); NoPrefix is the prefix the current limit    *)
(* of a global address does without.                                       *)
Key == Addr \cup {NoPrefix}
Field == AnalogField \cup InfoField \cup Published \cup {"status", "limit"}

(* Mutant: every limit is the one of the bus.                              *)
LimitKeyGlobal(a) == NoPrefix

LimitKey(a) == IF a \in GlobalAddr THEN NoPrefix ELSE a

(* A snapshot: the pointer of each pack in it, and (a history variable)    *)
(* what the object behind it said when the snapshot was taken.             *)
Snapshot == [params : [Addr -> Opt(Ref)], seen : [Addr -> Opt(ParamFields)]]
ASSUME SnapshotAssumption == Nil \notin Snapshot

-----------------------------------------------------------------------------
(* Telemetry of a pack, on the heap h: what TelemetryForPack appends.      *)

TelemetryForPack(p, h) ==
  [f \in Field |->
     CASE f \in AnalogField -> p.analog[f]
       [] f = "status"      -> p.status
       [] f \in InfoField   -> IF p.info = Nil THEN Nil ELSE p.info[f]
       [] f \in Published   -> IF p.params = Nil THEN Nil ELSE h[p.params].fields[f]
       [] OTHER             -> Nil]

(* for _, value := range TelemetryForPack(pack): entries are overwritten   *)
(* or added, never removed.                                                *)
Refresh(t, a, p, h) ==
  [t EXCEPT ![a] = [f \in Field |->
     IF TelemetryForPack(p, h)[f] # Nil THEN TelemetryForPack(p, h)[f]
                                        ELSE t[a][f]]]

(* The objects somebody still points to *)
Reachable(st, sn) ==
  {st[a].params : a \in {b \in Addr : st[b] # Nil}}
    \cup UNION {{sn[r].params[a] : a \in Addr} : r \in {q \in Reader : sn[q] # Nil}}

Collect(h, st, sn) ==
  [r \in Ref |-> IF r \in Reachable(st, sn) THEN h[r] ELSE Free]

(* The parameters pointer of the pack at address a, if there is one *)
ParamsOf(a) == IF store[a] = Nil THEN Nil ELSE store[a].params

(* Mutant: one variable for the parameters of every call.                  *)
FreshOrNot(r) == TRUE

(* &params: a heap cell nobody uses *)
Fresh(r) == heap[r] = Free

-----------------------------------------------------------------------------

StoreInit ==
  /\ services = [s \in Service |-> FALSE]
  /\ store = [a \in Addr |-> Nil]
  /\ heap = [r \in Ref |-> Free]
  /\ telemetry = [k \in Key |-> [f \in Field |-> Nil]]
  /\ snaps = [r \in Reader |-> Nil]

(* A zero lastSuccess keeps the one already there.                         *)
SetServiceStatus(s, succeeded) ==
  /\ services' = [services EXCEPT ![s] = succeeded \/ services[s]]
  /\ UNCHANGED <<store, heap, telemetry, snaps>>

NewPack(reading) == [analog |-> reading, status |-> Nil, info |-> Nil, params |-> Nil]

(* Mutant: the status is not lent.                                         *)
MergedWithoutStatus(old, new) ==
  IF old = Nil THEN new
  ELSE [new EXCEPT !.info   = IF new.info = Nil THEN old.info ELSE new.info,
                   !.params = IF new.params = Nil THEN old.params ELSE new.params]

(* upsertPackLocked: what the new pack does not know, the old one lends.   *)
Merged(old, new) ==
  IF old = Nil THEN new
  ELSE [new EXCEPT !.status = IF new.status = Nil THEN old.status ELSE new.status,
                   !.info   = IF new.info = Nil THEN old.info ELSE new.info,
                   !.params = IF new.params = Nil THEN old.params ELSE new.params]

UpsertPack(a, reading) ==
  LET p == Merged(store[a], NewPack(reading)) IN
  /\ store' = [store EXCEPT ![a] = p]
  /\ telemetry' = Refresh(telemetry, a, p, heap)
  /\ UNCHANGED <<services, heap, snaps>>

(* Packs not in the new list go, with the telemetry under their prefix; a  *)
(* global current limit has none and stays.                                *)
ReplacePacks(S, readings) ==
  LET kept == [a \in Addr |-> IF a \in S THEN Merged(store[a], NewPack(readings[a]))
                                         ELSE Nil]
      gone == {a \in Addr : store[a] # Nil /\ a \notin S} IN
  /\ store' = kept
  /\ telemetry' = [k \in Key |->
       IF k \in gone THEN [f \in Field |-> Nil]
       ELSE IF k \in S THEN Refresh(telemetry, k, kept[k], heap)[k]
       ELSE telemetry[k]]
  /\ heap' = Collect(heap, kept, snaps)
  /\ UNCHANGED <<services, snaps>>

(* Mutant: the telemetry is taken from the pack before the change.         *)
UpsertPackStatusLate(a, v) ==
  /\ store[a] # Nil
  /\ store' = [store EXCEPT ![a] = [store[a] EXCEPT !.status = v]]
  /\ telemetry' = Refresh(telemetry, a, store[a], heap)
  /\ UNCHANGED <<services, heap, snaps>>

UpsertPackStatus(a, v) ==
  /\ store[a] # Nil
  /\ LET p == [store[a] EXCEPT !.status = v] IN
     /\ store' = [store EXCEPT ![a] = p]
     /\ telemetry' = Refresh(telemetry, a, p, heap)
  /\ UNCHANGED <<services, heap, snaps>>

(* Info is merged into a copy, field by field: an empty field keeps what   *)
(* an earlier answer said.                                                 *)
UpsertPackInfo(a, info) ==
  /\ store[a] # Nil
  /\ LET merged == [f \in InfoField |->
           IF store[a].info # Nil /\ info[f] = Nil THEN store[a].info[f] ELSE info[f]]
         p == [store[a] EXCEPT !.info = merged] IN
     /\ store' = [store EXCEPT ![a] = p]
     /\ telemetry' = Refresh(telemetry, a, p, heap)
  /\ UNCHANGED <<services, heap, snaps>>

(* Mutant: *pack.Parameters = params, if the pack has parameters.          *)
UpsertPackParametersInPlace(a, fields, r) ==
  /\ store[a] # Nil /\ Fresh(r)
  /\ LET old == store[a].params
         ref == IF old = Nil THEN r ELSE old
         limit == IF old = Nil THEN Nil ELSE heap[old].limit
         h == [heap EXCEPT ![ref] = [fields |-> fields, limit |-> limit]]
         p == [store[a] EXCEPT !.params = ref] IN
     /\ store' = [store EXCEPT ![a] = p]
     /\ telemetry' = Refresh(telemetry, a, p, h)
     /\ heap' = Collect(h, store', snaps)
  /\ UNCHANGED <<services, snaps>>

(* Parameters are replaced by a new object, which inherits the limit.      *)
UpsertPackParameters(a, fields, r) ==
  /\ store[a] # Nil /\ Fresh(r)
  /\ LET old == store[a].params
         limit == IF old = Nil THEN Nil ELSE heap[old].limit
         h == [heap EXCEPT ![r] = [fields |-> fields, limit |-> limit]]
         p == [store[a] EXCEPT !.params = r] IN
     /\ store' = [store EXCEPT ![a] = p]
     /\ telemetry' = Refresh(telemetry, a, p, h)
     /\ heap' = Collect(h, store', snaps)
  /\ UNCHANGED <<services, snaps>>

(* The limit is telemetry whether the pack is known or not; in the pack it *)
(* is written through the pointer the snapshots share.                     *)
UpsertCurrentLimitParameter(a, v, r) ==
  /\ telemetry' = [telemetry EXCEPT ![LimitKey(a)]["limit"] = v]
  /\ IF store[a] = Nil THEN UNCHANGED <<store, heap>>
     ELSE IF store[a].params = Nil
       THEN /\ Fresh(r)
            /\ store' = [store EXCEPT ![a].params = r]
            /\ heap' = [heap EXCEPT ![r] =
                 [fields |-> [f \in ParamField |-> Nil], limit |-> v]]
       ELSE /\ heap' = [heap EXCEPT ![store[a].params].limit = v]
            /\ UNCHANGED store
  /\ UNCHANGED <<services, snaps>>

(* What a reader of the parameters of a pack sees through its pointer *)
Deref(ref) == IF ref = Nil THEN Nil ELSE heap[ref].fields

(* Snapshot() copies the packs with their pointers.                        *)
TakeSnapshot(q) ==
  LET ptr == [a \in Addr |-> ParamsOf(a)]
      held == [snaps EXCEPT ![q] =
        [params |-> ptr, seen |-> [a \in Addr |-> Deref(ptr[a])]]] IN
  /\ snaps' = held
  /\ heap' = Collect(heap, store, held)
  /\ UNCHANGED <<services, store, telemetry>>

(* The reader is done with it (the response is encoded).                   *)
DropSnapshot(q) ==
  /\ snaps[q] # Nil
  /\ snaps' = [snaps EXCEPT ![q] = Nil]
  /\ heap' = Collect(heap, store, snaps')
  /\ UNCHANGED <<services, store, telemetry>>

StoreNext ==
  \/ \E s \in Service, ok \in BOOLEAN : SetServiceStatus(s, ok)
  \/ \E a \in Addr, reading \in Analog : UpsertPack(a, reading)
  \/ \E S \in SUBSET Addr, readings \in [Addr -> Analog] : ReplacePacks(S, readings)
  \/ \E a \in Addr, v \in Val : UpsertPackStatus(a, v)
  \/ \E a \in Addr, info \in Info : UpsertPackInfo(a, info)
  \/ \E a \in Addr, fields \in ParamFields, r \in Ref : UpsertPackParameters(a, fields, r)
  \/ \E a \in Addr, v \in Val, r \in Ref : UpsertCurrentLimitParameter(a, v, r)
  \/ \E q \in Reader : TakeSnapshot(q) \/ DropSnapshot(q)

StoreSpec == StoreInit /\ [][StoreNext]_storeVars

-----------------------------------------------------------------------------
(* The store without its pointers: the object stands for the pointer that  *)
(* leads to it.                                                            *)

PackValue == [analog : Analog, status : Opt(Val), info : Opt(Info), params : Opt(Params)]
ASSUME ValueAssumption == Nil \notin PackValue

Unref(p, h) ==
  [p EXCEPT !.params = IF p.params = Nil THEN Nil ELSE h[p.params]]

PackValues ==
  [a \in Addr |-> IF store[a] = Nil THEN Nil ELSE Unref(store[a], heap)]

Views ==
  [q \in Reader |-> IF snaps[q] = Nil THEN Nil
                    ELSE [a \in Addr |-> Deref(snaps[q].params[a])]]

Values == INSTANCE SnapshotStore WITH packs <- PackValues, views <- Views

-----------------------------------------------------------------------------
(* Properties *)

(* Every map holds what its Go type says: a status, an info and a parameters *)
(* pointer are there or nil, never a zero value that looks like an answer. *)
StoreTypeOK ==
  /\ services \in [Service -> BOOLEAN]
  /\ store \in [Addr -> Opt(Pack)]
  /\ heap \in [Ref -> Params \cup {Free}]
  /\ telemetry \in [Key -> [Field -> Opt(Val)]]
  /\ snaps \in [Reader -> Opt(Snapshot)]

(* Every field a pack holds is in the telemetry with the pack's value:     *)
(* what MQTT publishes never contradicts what the HTTP API shows.          *)
TelemetryMatchesPacks ==
  \A a \in Addr : store[a] # Nil =>
    \A f \in Field :
      TelemetryForPack(store[a], heap)[f] # Nil =>
        telemetry[a][f] = TelemetryForPack(store[a], heap)[f]

(* The same for the current limit of a pack with an address of its own,    *)
(* which the store writes to the pack and to the telemetry by hand.        *)
LimitAgrees ==
  \A a \in Addr \ GlobalAddr :
    ParamsOf(a) # Nil /\ heap[ParamsOf(a)].limit # Nil =>
      telemetry[a]["limit"] = heap[ParamsOf(a)].limit

(* No two packs share a parameters object, and no pack or snapshot points  *)
(* to a collected one: a limit written through the pointer of one pack is  *)
(* never seen in another.                                                  *)
PointersAreOwned ==
  /\ \A a, b \in Addr :
       a # b /\ ParamsOf(a) # Nil => ParamsOf(a) # ParamsOf(b)
  /\ \A a \in Addr : ParamsOf(a) # Nil => heap[ParamsOf(a)] # Free
  /\ \A q \in Reader : snaps[q] # Nil =>
       \A a \in Addr : snaps[q].params[a] # Nil => heap[snaps[q].params[a]] # Free

(* The thresholds in a snapshot do not move while a reader encodes it,     *)
(* whatever the collector stores meanwhile.  (CurrentLimitA does.)         *)
SnapshotThresholdsFrozen ==
  \A q \in Reader : snaps[q] # Nil =>
    \A a \in Addr : Deref(snaps[q].params[a]) = snaps[q].seen[a]

(* The pointers cannot be told from values: every step of the store is one *)
(* a store of plain packs could take, in which no call changes another     *)
(* pack and a snapshot is a copy.  So the mutex of Store is enough, though *)
(* readers follow the pointers after it is released; with CurrentLimitA,   *)
(* which is left out of the copy, it would not be.                         *)
ActsOnValues == Values!SnapshotSpec

(* While a pack stays, nothing learnt about it is unlearnt: its status,    *)
(* each field of its info and its current limit, however sparse the later  *)
(* answers are.  A service that has succeeded keeps its last success.      *)
KnownStaysKnown ==
  [][ /\ \A a \in Addr : store[a] # Nil /\ store'[a] # Nil =>
           /\ store[a].status # Nil => store'[a].status # Nil
           /\ store[a].info # Nil =>
                /\ store'[a].info # Nil
                /\ \A f \in InfoField :
                     store[a].info[f] # Nil => store'[a].info[f] # Nil
           /\ store[a].params # Nil =>
                /\ store'[a].params # Nil
                /\ heap[store[a].params].limit # Nil =>
                     heap'[store'[a].params].limit # Nil
      /\ \A s \in Service : services[s] => services'[s] ]_storeVars

=============================================================================
