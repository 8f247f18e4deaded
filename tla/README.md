# Verification of pace-bms-mqtt-bridge

TLA+ models of the PACE BMS to MQTT bridge, the TLC runs that check them on
small instances, and TLAPS proofs of what matters most for every instance.
Line numbers are those of `src/`. `PROJECT.json` lists components, runs,
mutants, the map from definitions to lines, findings, hazards and theorems.

## The system

One process, four goroutines started by `app.Run`, a store between them.

| part | state | operations | interacts with |
|---|---|---|---|
| pack discovery (`collector/service.go`, `discoverPacks`) | the addresses to poll, once per process | scan of an RS485 window, pack number of a console, the fixed address of RS232 | asks the link; result used by the collector |
| collector (`collector/service.go`) | the open client, timers of status and metadata, commands known to be unsupported, two global switches | `Run` opens, polls, closes, sleeps; `pollOnce` is a round; optional polls hang from a status poll | link below, store above, context for shutdown |
| state store (`state/store.go`, `pace/types.go`) | services, packs, telemetry, under one mutex | seven writers, one `Snapshot` | written by collector and MQTT publisher, read by MQTT publisher and HTTP server |
| MQTT publisher (`mqtt/service.go`) | the paho client and its key, what was announced, what was last published | `sync` every five seconds, `disconnect` | reads configuration and store; paho calls `OnConnectionLost` on its own goroutine |
| configuration (`config/config.go`, `app/app.go`) | a YAML file and its copy in memory | load or create at startup, `UpdateConfig` | HTTP requests write; collector and publisher read at each round |
| application (`app/app.go`, `cmd/`) | the error group, the listener | start, signals, shutdown with a deadline | all |
| PACE link (`pace/client.go`, `ReadFrame`) | an open port, its unread bytes | `Query` | collector |
| PACE frames and decoders (`pace/protocol.go`) | none | build and check frames, cut answers into packs, decode commands | link, collector |
| HTTP server (`httpapi`), web page, probe command, port detection | none of their own | requests | store, configuration |

### What is hard

* *Discovery*: loops on `uint8` that wrap (l.630, 637, 646), a `continue` that
  jumps over the only exit (l.646), failures at any address, cancellation
  between any two queries.
* *Collector*: a bus on which some packs are dead and others live, answers
  that carry several packs, failures that must not count as refusals, one
  status for many packs, timers that move on a failure as well, a
  configuration that may change before any round under a client that stays.
* *Link*: the line is not emptied before a request, and nothing in an answer
  is compared with its request; frames that break off, and a deadline that
  passes in the middle of one.
* *Frames*: neither the kind of an answer nor the end of a pack is marked; the
  parsers go by lengths and by what the next byte looks like.
* *Store*: everything is under a mutex but the objects behind the pointers a
  snapshot shares; two copies of the current limit; sparse answers.
* *MQTT*: a client that reconnects by itself while `sync` goes on, publishes
  that are lost, late or doubly reported, a configuration that changes between
  two steps of one `sync`, two clients with one client id.
* *Configuration and life of the process*: several requests that share one
  temporary file, failing system calls, a crash between two of them, a signal
  or a dead listener while a save is under way.

The properties that make each part correct are in the table of runs below;
the hazards behind them, each at its line, in `PROJECT.json`.

## Modules

| module | models | state and actions |
|---|---|---|
| `PackDiscovery` | `discoverPacks`, head of `pollOnce` | `cursor`, `count`, `found`, `packs` are the variables of the Go code; one action per loop iteration (`ScanAnswered`, `ScanFails`, `FillConsole`, ...), `AdoptPacks` for the fallback, `Cancel` for the context |
| `Collector` (extends it) | `Run`, `pollOnce`, `pollCurrentLimitParameter`, `pollBMSDateTime`, `pollMetadataAndParameters` | one action per query with all the code does on its answer; `Wake` is a tick of the clock; `known` is what the store has, by address and section; `Reconfigure` is a new configuration, under which the old client stays open |
| `PaceLink` | `NewClient`, `Close`, `Query`, `ReadFrame`, what `parseEnvelope` lets through | `buf` and the bytes on the wire as the four units a frame can be cut at; one action per unit read, `Deadline`, `PortFails`, `Reopen`; BMS and line are external and may delay, drop or break off an answer |
| `PackFrames` | `ParseAnalogPacks`, `ParseWarningPacks` and their helpers | one step reads one pack from the bytes of an answer; `info`, `offset`, `index`, `packs` are the variables of the Go code |
| `PackAnswers` (extends it) | external: what a BMS sends | an encoder for the layouts the repository knows, as reference for the reader: `Write` appends the packs of `sent` one by one (`cuts` has where each begins), then `Read` is a step of `PackFrames` |
| `PaceCommands` | the read commands and the lengths their parsers insist on, `tryCmd`'s list of commands | which foreign answer passes for which command (`Passes`) |
| `Bridge` (extends it) | the rounds of `pollOnce` on RS485 over `Query` | `Ask` writes a request, `TakeFrame` takes whatever frame comes first, `TimeOut` none; `stored` is what the step files under which pack and command, and from which answer it is |
| `StateStore` | `state.Store`, telemetry of a pack | one action per method; parameters objects in a `heap`, `TakeSnapshot` shares the pointers |
| `SnapshotStore` | what the store promises | no pointers: a pack is a value, a call replaces a section of it, a snapshot is a copy; `StateStore` implements it |
| `MqttService` | `mqtt.Service` | `sync` cut where another goroutine or the world can come in between: `SyncBegin`, `KeepClient`/`DropClient`, `Connect`, `CheckConnection`, one action per publish, `SyncEnd`; paho and the broker are external |
| `ConfigStore` | `config.Load`, `LoadOrCreate`, `Save`, `app.UpdateConfig` | one action per system call, per writer; two names and, per writer, the file it has open |
| `Application` (extends it) | `main`, `app.Run`, start and shutdown of the HTTP server | `Launch` starts the group, `Signal`, `ListenFails`, `ShutdownBegins`, `ShutdownEnds`, `ShutdownTimesOut`, `Exit` |
| `AtomicConfig` | what the configuration promises | the file is replaced as a whole, the process follows, a restart finds it |
| `*_proof` | | theorems and their proofs |
| `MC*` | | instances for TLC |

How they compose: `Collector` runs on `PackDiscovery` (same packs, same
context, answers from the same link). `Bridge` puts the rounds of the collector
on a line that behaves as `PaceLink` shows (an answer is whatever comes next),
with the parsers of `PaceCommands` in between; it names what reaches the store.
`Application` runs the savers of `ConfigStore` inside the process that is told
to stop. Each module defines, before some of its definitions, an operator whose
comment starts with *Mutant*: the same piece of code with a plausible bug. They
are never part of a specification; they show that each property would notice
such a bug.

### Abstractions

* In discovery and collector a byte is `0 .. UMax`; `UMax` is both the largest
  `uint8` and the literal address 255. Lists of packs are cut at `MaxFound`
  (only the two endless loops of discovery reach it). `PackFrames` has real
  bytes.
* To `Collector` a query is one step that is answered, refused ("BMS returned
  code") or fails. `Bridge` has the query in two steps and answers that may
  belong to earlier queries; it leaves timers, discovery and the context to
  `Collector`, and takes frames as whole. What a frame is made of, and what
  becomes of pieces of one, is in `PaceLink`.
* In `PaceLink` requests have identities, and in `Bridge` a frame is the
  request it answers; the wire carries neither, and no guard of the client
  looks at them. Where a length field belongs to other bytes than those that
  follow, the frame may end after any of them. A corrupted info fails like one
  that is refused, and is left out; noise between frames and corrupted headers
  are, too.
* In `Bridge` an info has the length `docs/PROTOCOL.md` gives it. An analog
  answer is one pack (RS485). A pack refuses the same commands for ever.
* `PackFrames` keeps the words as sent: the code divides them by constants,
  and whether those constants are right is not a question of states (see
  *Observations*). Names of bits, codes and levels are wording.
* Time is ticks that pass while the collector sleeps. The 4 and 15 optional
  commands are two counters `InfoCmds`, `ParamCmds` in `Collector`, and by name
  in `Bridge`.
* In the store, a field has a value or none; time stamps, names, units and the
  three aggregate power values (a function of the snapshot) are left out.
  Unreachable objects are collected at once so that few references are enough.
* In `MqttService` a topic prefix stands for everything in `mqttKey`.
  A client that `Disconnect` closed is an identity that may be used again.
  `unhealthySince` is written and never read, and left out.
* In `ConfigStore` a write over the text of another writer leaves either the
  new text or a torn file; a torn file does not load, or loads as any
  configuration. Loss of power (the code does not sync) is not modelled.
* In `Application` the collector and the publisher are running or done; that
  they stop when told is `CancelStopsCollector` and `CancelStops`. The loop over
  a console of 255 packs (service.go:630), in which the collector would not stop,
  is outside both (`DiscoveryEnds` names it). A request that was accepted may begin
  its save after the listener has died, or while `Shutdown` waits for it.

## Runs

| run | instance | shows |
|---|---|---|
| `discovery` | bytes 0..5, every configuration | `PolledPacksAreConfigured`: a window below the last address leaves 1..max addresses, distinct, in order, in the window. `WrappedWindowPollsFirst`: a wrapped window asks nobody. `DiscoveryEnds` but for the two loops that cannot; `CancelEndsScan` in any case |
| `discovery_max` (violation) | the shipped configuration | more packs than `max_parallel_packs` are polled |
| `collector` | two single packs on RS485, an RS232 line with two packs behind one address, a console with one; packs come and go, refuse, and a bus is reconfigured as a line | `LivePacksStayFresh`, `StatusStaysFresh` (dead packs starve nobody), `LinkComesBack`, `DeadLinkIsReported`, `MetadataArrives`, `CancelStopsCollector`; `GivenUpWasRefused`: no command is given up because of silence |
| `link` | three requests | `StaysInStep`: a request on a quiet link that is answered in time gets its own answer and leaves the link quiet. `QueryEnds`. `FramingRecovers`: once the line behaves, pieces of frames cost only so many queries |
| `frames` | answers of one to three packs in every layout, asked of addresses 1, 2 and 255, read by both parsers | `FramesTypeOK` (no index leaves the answer), `PacksAreApart`, `ReadAsSent` where the layout allows it (every field of a pack, but for the `soc` and `soh` of the documented layout, which are skipped), `StatusIsNoReading` |
| `frames_flagged` (violation) | the same | the layout a comment describes is not always read |
| `bridge` | two packs, at addresses 0 and 1, one info and one parameter command, one late answer | `FilesRightly`: in a round that starts with nothing outstanding, everything is filed under its pack and command, whatever is lost or refused. `RefusalsAreOwn`: such a round gives up no command but a refused one. `LimitsAreTheSenders`, in any round: a limit is that of the pack it is filed under, or of pack 0 |
| `store` | two packs (one at address 0), a field of info and one of parameters, a reader, four references | `ActsOnValues`: sharing and reusing parameters objects is not to be seen, the store acts as `SnapshotStore`. `TelemetryMatchesPacks` and `LimitAgrees` (the two copies), `SnapshotThresholdsFrozen`, `KnownStaysKnown` |
| `mqtt_caches` | two clients, two prefixes, one value | `DiscoveryBeforeState`: the broker has the discovery config of an entity before its value is sent, unless the config was dropped unseen. `CachesMatchBroker`. Both also when one client takes over from another; `LiveClientsAccounted` |
| `mqtt_live` | one client, two values | `RecoversConnected`, `DownIsReported`, `ValuesArrive`, `CancelStops` |
| `mqtt_lost` (violation) | a broker that forgets nothing | without the condition that no message was lost silently, values need not arrive |
| `application` | two writers, three configurations, one process after another | as long as saves come one at a time, `SavesAtomically` (the application implements `AtomicConfig`, crashes and failing calls included) and `MemoryMatchesDisk`. `LoneSaveIsAtomic`: after any mess left by overlapping saves, a save of its own is all or nothing. `CleanExitKeepsConfig`: a `Run` that returns nil has cut no save short. `EndsAsAWhole` |

The history variables: `overlapped` of `ConfigStore` says that two saves have
been under way at once, after which neither of the first two properties of
`application` holds; `clean` of `Bridge`, that no query of this round found an
earlier answer still to come; `faithful` of `MqttService`, that each publish
since the client was made reported what became of it, and `unheard`, for which
entities the discovery config counts as published although it was dropped or
forgotten.

All type invariants are proved, which covers every instance, and so are
`PointersAreOwned` of the store and `AdoptsOneConfiguration` of the collector. Of
these only `FramesTypeOK` is in a run, for it says that no index leaves the answer.

**Bounds.** Discovery loops over bytes, and 0..5 has windows that start at 0,
end at, one before and beyond the last address, of every length. Two packs are
enough for one to starve or mislead the other; status and metadata intervals
of 2 and 3 ticks are out of step, and metadata due in some status rounds only.
`LinksSpec` of `MCCollector` lets packs that are not of the configuration stay
silent and the file change from a bus to a line only, and fixes what may refuse.
A store needs two packs to share a pointer; with two values as well its states
are out of reach, so a field has one value or none: that a new value replaces
an old one is in the proofs, which are for any set of them. Four references are one per pack, one more while
a snapshot holds each old one. It has no analog field: those are replaced
whole with every answer (the proofs include them). Two MQTT clients are enough
for a takeover, two prefixes for a change of key, one value where only its
presence counts, one telemetry id since ids do not interact but through the
loop index. Two writers and
three configurations tell the old, the new and the other one apart. Three
requests on one line are the current one and two late or broken answers before
it; a line that holds all three at the next request forgets them (`Forget`). In
`Bridge` one answer may be late at a time (`LateMax`), and at most one request
is refused: two packs and two optional commands are enough for an answer of
another pack or of another command of equal length, and they are at 0, the default
of `first_pack_address`, which the parser of a limit takes for no address, and at 1.
Address 255 is left out there: it stands for every pack, and a bus is asked for it
only where it is the first address. The packs of `MCPackAnswers` are
chosen for bytes that the reader can mistake for a count of cells: 13 or 16
cells, charges of 16 and 32, voltages whose high byte is a count; with one to
three of them in any order.

**Fairness.** The goroutines of the collector and the publisher are never
blocked for ever: queries, publishes and sleeps have timeouts (weak fairness
of their steps). A `select` between a timer and a done context chooses either
when both are ready, so a done context is taken eventually (strong fairness of
`StopRun` and `Stop`). The clock of `ReadFrame` runs, and the collector goes on
asking and opens a broken link again (weak fairness). paho retries and runs its
callbacks (weak fairness). In `Application` system calls return, goroutines
run, and `Shutdown` has a deadline (app.go:93). Nothing is assumed of the link,
the network, the broker, the users or the packs: where a property needs them to
behave, it says so on its left side.

`CHECK_DEADLOCK FALSE` is used where the program stops: discovery ends, the
reader of an answer ends, and the services stop with their context. The other
runs check deadlock; in `application` whatever state the two files are in, the
next start or save goes on.

## Proofs

Each proof module has one inductive invariant, one lemma per action (or per
group of actions that disturb the same conjuncts), and a theorem per property.
They rest on the named assumptions of the modules only, which TLC evaluates in
every run.

`PackDiscovery_proof`, for every `UMax`, `MaxFound` and configuration:
`DiscoveryTypeCorrect`; `PolledPacksCorrect`, whose property speaks of the end of
a scan, so that `WindowInv` follows the scan: `found` is rising and within the
window below the cursor, and the cursor is at most one past the end, which is
why it cannot wrap. The number of packs is bounded by a lemma on rising lists
in an interval. `WrappedWindowCorrect` by `WrapInv`: the end of a wrapped window
lies below its start, so the cursor is never in it. `DiscoveryProgresses`: see
*Progress* below.

`PaceLink_proof`, for any set of requests: `LinkTypeCorrect`; `StepCorrect`, by
`StepInv`: after a quiet start, either nothing of the answer is on its way
(`Asked`), or the bytes read, the bytes on the wire and the one to come are its
four units in order (`Underway`). `WholeAnswer` says that `ReadFrame` ends on
just these four.

`PackFrames_proof`, for **any** bytes of any length, which TLC cannot come near:
`FramesTypeCorrect`, no index leaves the answer, so that nothing a BMS sends can
panic the process; `PacksApart`, the packs of one answer have different addresses
and none that was announced is missing. `FramesInv` adds that the addresses of
the packs read so far are their positions (`Addressed`), and that an answer with
several packs is never read under the address that was asked.

Then, for answers (`PackAnswers`) of up to 255 packs with any cells, temperatures,
currents, voltages, capacities, cycles and charges: `AnswersReadAsSent` and `StatusesNeverRead`. The invariant
`AnswerInv` follows the answer first, and its reader then. `Written`: as much as is
written stands in the info pack by pack, between the cuts. `InOrder`: the reader
stands at the cut of the next pack, and what it has read are the packs as sent.
`Refused`: a reader of readings does not get past the first pack of a status. The
lemmas below are about bytes: what is laid down as words is read as words
(`BigsRead`), a current below zero comes back from its complement (`SignedRead`),
two bytes of flags are the mask of their bits (`MaskRead`), a block is its parts one
behind the other (`AnalogCut`, `StatusCut`). What is expected of a reading are all
the words sent; the charge only where it is in the long tail (`ChargeRead`): of
the layout of `docs/PROTOCOL.md:45` the theorem states that `soc` and `soh` are not
read. Then `AnalogRead` and `StatusRead` say that a
pack that stands in the info is read as it was sent, and `AnalogStep` and
`StatusStep` that the guess at its end is right: behind the long tail there is
nothing, or a pack that begins with a count of cells, and a reserved byte is no
such count. `StatusDoesNotFit` is arithmetic: no level of a cell, times 256, comes
near to 2000 .. 4500. They rest on `AnalogAssumption` and `StatusAssumption`: packs in
service, with 1 to 32 cells (2000 to 4500 mV), 1 to 12 temperatures for a reading,
12 status bytes and levels that `warningLevel` knows for a status.

`Bridge_proof`, for any number of packs and any choice of optional commands:
`BridgeTypeCorrect`; `FiledRightly` and `RefusedRightly`. The invariant `BridgeInv`
adds `Undisturbed`: while a query of a clean round waits, the only answer owed or
on the line is its own, at most one of them; and `Places`, which says where a
round can be when nothing is collected. Only with `Undisturbed` is the frame that
is taken the answer to the question; that a query which timed out leaves its
answer owed is what makes the next one not clean. `LimitsCorrect` holds in any round,
with answers as late as they like: only the limit and the short protocol answer
have two bytes (`TwoBytes`), the address of a limit is taken from its frame unless
it is 0, and no metadata that waits to be filed is a limit (`LimitInv`). The packs
are any at addresses 0 .. 254.

`Collector_proof`, over the proofs of `PackDiscovery`, for every set of devices and
configurations: `CollectorTypeCorrect`, `ClientCorrect` (a query has an open client),
`GivenUpCorrect`, and `AdoptionCorrect`, an action property. `Loops` bounds the
variables of a loop by the list the loop is in, and says where discovery can be
while the collector is elsewhere. For adoption, a scan is the one `PackDiscovery`
proves correct as long as nothing but discovery moves: the configuration changes
only in `Wake`, where no scan is under way (`ScanInv`).

`StateStore_proof`, for all sets of addresses, fields, values, readers and
references: the conjunction `StoreInv` of the five invariants is inductive. They
need each other: the telemetry of a pack is defined only while its pointer is
good; a pointer stays good since a new object is one that nobody holds; and
writing the limit in place is harmless because no two packs share an object
and no telemetry of a pack reads the limit there. `StoreTypeCorrect`,
`PointersCorrect`, `TelemetryCorrect`, `LimitCorrect`, `SnapshotsCorrect` follow.
`KnowledgeGrows` is `KnownStaysKnown` from the same invariant: `Keeps(c)` is what it
asks of one pack, with a lemma per method. The limit of another pack stays
because pointers are owned, that of this one because the new object inherits it.
`StoreRefines` is the refinement of `SnapshotStore`: `PackValues` looks through the
pointers of the store, `Views` through those of the snapshots, and each method is
one step of the abstract store or none. `StoreInv` is what it needs: a write in place
changes the value of one pack only since no other owns that object, and that of no
snapshot since the fields a snapshot shows are not those written in place.

`MqttService_proof`, for any number of clients, prefixes, ids and values:
`MqttTypeCorrect`, `DiscoveryFirst`, `CachesCorrect`, `ConnectionsAccounted`. Their
conjunction is inductive with three additions: `Underway`, that from `ensure` on
`sync` publishes under the key of the client it has, though the configuration may
be another by then; `NothingKept`, that no client means empty caches; and
`Announced`, that what the client has announced the broker has under its prefix, or
it is `unheard`. A step
that leaves the caches and the connections alone is dealt with by one lemma,
`Elsewhere`.

`Application_proof`, for any set of writers and configurations: `AppTypeCorrect`,
`MemoryIsDisk`, `CleanExit`, and `SavesRefine`, the refinement of `AtomicConfig` by
the whole application. `OneSave` says what the two files hold at each point of a
save that is alone; `AppInv` adds that a shutdown without an error has waited for
every save. `LoneSavesAtomic` is `LoneSaveIsAtomic` by `LoneInv`, which compares the
files at each point of a save that nobody overlaps with those it started from,
torn ones included.

*Progress.* Liveness is beyond the prover, but what it rests on besides fairness,
that a loop gets nearer to its end with each step, is not. Three theorems state
it with a measure: `DiscoveryProgresses` (`StepsLeft`, at most `UMax + 4`, where the
two loops that need not end are left out), `RoundProgresses` (packs, stages,
packs of an answer, commands, in this order) and `SyncProgresses` (`SyncLeft`, at
most `2 N + 6`). None of them says that a step can be taken: that is `ENABLED`, and
stays with TLC.

Model-checked only: liveness, of every module (fairness is beyond the prover).
Every invariant, action property and refinement a passing run checks is also
proved. Not proved, because a `violation` run refutes it or no run states it:
what overlapping saves leave, and how the flagged layout is read.

## Findings

1. `collector/service.go:646`: with first address 255 and one pack, as
   `configs/config.example.yaml` has it, RS485 discovery wraps and scans all
   addresses unless 255 answers at once.
2. `mqtt/service.go:166`: a value dropped during a reconnection counts as
   published and is not sent again until it changes.
3. `pace/protocol.go:273`: the comment at line 284 says that answers with several
   packs have one flag byte per pack; such an answer is cut at the wrong place
   when the byte fourteen behind the flag looks like a count of cells.

### Observations

Met while modelling, and not made into runs, since no run could say more than
the sentence:

* `discover_on_startup` (`configs/config.example.yaml:8`, `web/dist/app.js:711`) is
  loaded and shown, and nothing else reads it.
* The packs found once are kept when the configuration changes: after a change
  of the protocol the old addresses are polled on the new line. The client that
  is open keeps its port and protocol, too, until a round fails.
  `http.listen` is read once.
* The fallback address is kept for ever; one refusal ends the poll of the
  current limit or the clock for all packs; old telemetry is never withdrawn.
* Where `soc` and `soh` follow the design capacity, as `docs/PROTOCOL.md:45` has it,
  the code skips them (as a flag and an INFOFLAG byte, protocol.go:284-291) and
  publishes values computed from the capacities; `define` is not looked at. The
  exception of `ReadAsSent` says just this.
* A late limit of pack 0, the default first address, is filed under the pack that
  is asked when it comes (protocol.go:603). A discovery config dropped during a
  reconnection counts as published, and its values follow. These are the
  exceptions of `LimitsAreTheSenders` and `DiscoveryBeforeState`.
* On RS232 and a console all metadata is asked of the device, and filed under
  each of its packs.
* A late answer puts all later ones one request behind, until one is missing or
  the line is emptied. A late two-byte answer to the second protocol command may
  be filed as a current limit (`LimitsAreTheSenders` says that no other can).
* `offline` goes to the topic of the new configuration; there is no last will.
* Overlapping configuration updates can tear the file or leave it different
  from memory.
* A status is never read as a reading (`StatusIsNoReading`), but a reading may
  be read as a status.
* Decodings in which the code differs from `docs/PROTOCOL.md`: temperature limits
  (offset 273.0 in protocol.go:804, 2731 in the document and 273.15 for readings);
  the delays of the short circuit and second discharge protections (times 25 in
  protocol.go:535 and 520; times 20 and 100 in the document); the voltage of a pack,
  its limits and full charge (0.01 V in the document, thousandths in the code); `enable`, where
  0 means enabled in the document and the code takes what is above 0; the pack
  number of a console (two bytes in the document, one read); the order of the
  bytes of `0xEB`. Which side is right is a matter of the BMS.

## Not modelled

* Serial port detection, probe command, build information, web page, routing and
  JSON of the HTTP server: pure input and output.
* Units, names of bits and codes of the decoders, the two checksums: data
  without control. `ReadAsSent` is on the words as sent; an envelope is good or
  bad in `PaceLink`.
* `Validate`: a set of accepted configurations stands for it.
* `logStatusChange`: what it keeps decides only what is logged.
* `pollOnce` on RS232 and a console at the level of frames: `Bridge` is RS485,
  where requests differ in their address; `Collector` has all three.

## Plan

Modelled and proved: see above. What is left, in this order:

1. Proofs: what `FramingRecovers` rests on, that a query on a line that behaves
   leaves fewer pieces of frames on it; that the saves of `Application` end.
2. Larger instances of `Bridge` (two late answers, more commands) should its state
   space allow it.
