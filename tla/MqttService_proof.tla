-------------------------- MODULE MqttService_proof --------------------------
(***************************************************************************)
(* For any number of clients, prefixes, ids and values: what the publisher *)
(* remembers of the broker, and which connections it leaves behind.        *)
(***************************************************************************)
EXTENDS MqttService, TLAPS

(* What sync() relies on from one step to the next: its configuration, the *)
(* client made for it, and the entry it is about to publish.               *)
Underway ==
  /\ pc \in {"ensure", "connect", "check", "online", "discover", "publish", "healthy"}
       => local \in Config
  /\ pc = "connect" => client = Nil
  /\ pc \in {"check", "online", "discover", "publish", "healthy"}
       => client # Nil /\ key = local.prefix
  /\ pc = "publish" => i \in Id

(* Without a client nothing is remembered.                                 *)
NothingKept == client = Nil => discovered = {} /\ lastPublished = EmptyCache

(* A config that counts as published is at the broker, for the topics of   *)
(* this client, or was lost unseen.                                        *)
Announced ==
  /\ pc = "publish" => i \in discovered
  /\ \A n \in discovered : announced[n] = key \/ n \in unheard

MqttInv ==
  /\ MqttTypeOK
  /\ Underway
  /\ NothingKept
  /\ Announced
  /\ CachesMatchBroker
  /\ LiveClientsAccounted

-----------------------------------------------------------------------------

LEMMA IdFacts == Id \subseteq Nat /\ 1 \in 1 .. N + 1 /\ \A n \in Id : n + 1 \in 1 .. N + 1
BY NAssumption DEF Id

LEMMA Empty == EmptyCache \in [Id -> Opt(Val)] /\ \A n \in Id : EmptyCache[n] = Nil
BY DEF EmptyCache, Opt

LEMMA PrefixOf == \A c \in Config : c.prefix \in Prefix
BY DEF Config

LEMMA InitHolds ==
  ASSUME MqttInit
  PROVE  MqttInv
<1>1. MqttTypeOK
  BY Empty, IdFacts DEF MqttInit, MqttTypeOK, EmptyCache, Opt, Place, Status
<1>2. Underway /\ NothingKept
  BY DEF MqttInit, Underway, NothingKept
<1>3. Announced
  BY Empty DEF MqttInit, Announced
<1>4. CachesMatchBroker /\ LiveClientsAccounted
  BY DEF MqttInit, CachesMatchBroker, LiveClientsAccounted, Live
<1>. QED
  BY <1>1, <1>2, <1>3, <1>4 DEF MqttInv

-----------------------------------------------------------------------------
(* A step that leaves alone the client, its caches and what the broker     *)
(* shows of them, and makes no connection, needs only its types and its    *)
(* place in sync().                                                        *)
LEMMA Elsewhere ==
  ASSUME MqttInv, MqttTypeOK', Underway', pc' = "publish" => i' \in discovered,
         UNCHANGED <<client, key, discovered, lastPublished, abandoned, shown, announced, unheard>>,
         \A c \in Client : Live(c)' => Live(c),
         faithful' => faithful
  PROVE  MqttInv'
<1>1. NothingKept'
  BY DEF MqttInv, NothingKept
<1>2. Announced'
  BY DEF MqttInv, Announced
<1>3. CachesMatchBroker'
  BY DEF MqttInv, CachesMatchBroker
<1>4. LiveClientsAccounted'
  BY DEF MqttInv, LiveClientsAccounted
<1>. QED
  BY <1>1, <1>2, <1>3, <1>4 DEF MqttInv

LEMMA ElsewhereSteps ==
  ASSUME MqttInv, UNCHANGED world,
         SyncBegin \/ Stop \/ KeepClient \/ ConnectFails \/ CheckConnection
           \/ SkipDiscovery \/ SkipValue \/ SyncEnd
  PROVE  MqttInv'
<1>. USE DEF MqttInv, world, paho, broker, history, Live
<1>1. CASE SyncBegin
  <2>1. MqttTypeOK'
    BY <1>1 DEF SyncBegin, MqttTypeOK, Goto, Place, Opt
  <2>2. Underway' /\ pc' # "publish"
    BY <1>1 DEF SyncBegin, MqttTypeOK, Underway, Goto
  <2>. QED
    BY <1>1, <2>1, <2>2, Elsewhere DEF SyncBegin
<1>2. CASE Stop
  <2>1. MqttTypeOK' /\ Underway' /\ pc' # "publish"
    BY <1>2 DEF Stop, MqttTypeOK, Underway, GoOn, Goto, Locals, Place
  <2>. QED
    BY <1>2, <2>1, Elsewhere DEF Stop
<1>3. CASE KeepClient
  <2>1. MqttTypeOK' /\ Underway' /\ pc' # "publish"
    BY <1>3 DEF KeepClient, MqttTypeOK, Underway, GoOn, Goto, Locals, Place
  <2>. QED
    BY <1>3, <2>1, Elsewhere DEF KeepClient
<1>4. CASE ConnectFails
  <2>1. MqttTypeOK'
    BY <1>4, Empty, IdFacts DEF ConnectFails, MqttTypeOK, Return, Goto, Place, Status, Opt
  <2>2. Underway' /\ pc' # "publish"
    BY <1>4 DEF ConnectFails, Underway, Return, Goto
  <2>. QED
    BY <1>4, <2>1, <2>2, Elsewhere DEF ConnectFails
<1>5. CASE CheckConnection
  <2>1. MqttTypeOK'
    BY <1>5, Empty, IdFacts
       DEF CheckConnection, MqttTypeOK, Return, GoOn, Locals, Goto, Place, Status, Opt
  <2>2. Underway' /\ pc' # "publish"
    BY <1>5 DEF CheckConnection, Underway, Return, GoOn, Locals, Goto
  <2>. QED
    BY <1>5, <2>1, <2>2, Elsewhere DEF CheckConnection
<1>6. CASE SkipDiscovery
  <2>1. i \in Id \/ i > N
    BY NAssumption DEF MqttTypeOK, Id
  <2>2. MqttTypeOK'
    BY <1>6, <2>1, IdFacts, NAssumption DEF SkipDiscovery, MqttTypeOK, Goto, Place
  <2>3. Underway'
    BY <1>6, <2>1 DEF SkipDiscovery, Underway, Goto, MqttTypeOK
  <2>4. pc' = "publish" => i' \in discovered
    BY <1>6 DEF SkipDiscovery, Goto
  <2>. QED
    BY <1>6, <2>2, <2>3, <2>4, Elsewhere DEF SkipDiscovery
<1>7. CASE SkipValue
  <2>1. MqttTypeOK'
    BY <1>7, IdFacts DEF SkipValue, MqttTypeOK, Underway, Goto, Place
  <2>2. Underway' /\ pc' # "publish"
    BY <1>7 DEF SkipValue, Underway, Goto
  <2>. QED
    BY <1>7, <2>1, <2>2, Elsewhere DEF SkipValue
<1>8. CASE SyncEnd
  <2>1. MqttTypeOK'
    BY <1>8, Empty, IdFacts DEF SyncEnd, MqttTypeOK, Return, Goto, Place, Status, Opt
  <2>2. Underway' /\ pc' # "publish"
    BY <1>8 DEF SyncEnd, Underway, Return, Goto
  <2>. QED
    BY <1>8, <2>1, <2>2, Elsewhere DEF SyncEnd
<1>. QED
  BY <1>1, <1>2, <1>3, <1>4, <1>5, <1>6, <1>7, <1>8

-----------------------------------------------------------------------------
(* disconnect(): an open client is closed, another one is accounted for.   *)
LEMMA DisconnectStep ==
  ASSUME MqttInv, UNCHANGED world, Disconnect
  PROVE  MqttInv'
<1>. USE DEF MqttInv, world
<1>1. MqttTypeOK'
  <2>1. cfg.prefix \in Prefix
    BY PrefixOf DEF MqttTypeOK
  <2>2. avail' \in [Prefix -> {Nil, "online", "offline"}]
    BY <2>1 DEF Disconnect, MqttTypeOK
  <2>3. /\ conn' \in [Client -> {"closed", "open", "reconnecting"}]
        /\ abandoned' \in SUBSET Client
    BY DEF Disconnect, MqttTypeOK, Opt
  <2>4. /\ pc' \in Place /\ status' \in Status /\ local' \in Opt(Config)
        /\ snap' \in [Id -> Opt(Val)] /\ i' \in 1 .. N + 1
    BY Empty, IdFacts
       DEF Disconnect, MqttTypeOK, Return, GoOn, Locals, Goto, Place, Status, Opt
  <2>. QED
    BY <2>2, <2>3, <2>4, Empty DEF Disconnect, MqttTypeOK, Opt
<1>2. Underway' /\ pc' # "publish"
  BY DEF Disconnect, Underway, Return, GoOn, Goto
<1>3. NothingKept' /\ Announced' /\ CachesMatchBroker'
  BY <1>2, Empty DEF Disconnect, NothingKept, Announced, CachesMatchBroker
<1>4. LiveClientsAccounted'
  <2>1. CASE Open(client)
    BY <2>1 DEF Disconnect, LiveClientsAccounted, Live, MqttTypeOK
  <2>2. CASE ~ Open(client)
    BY <2>2, NilAssumption DEF Disconnect, LiveClientsAccounted, Live
  <2>. QED
    BY <2>1, <2>2
<1>. QED
  BY <1>1, <1>2, <1>3, <1>4

LEMMA DropClientStep ==
  ASSUME MqttInv, UNCHANGED world, DropClient
  PROVE  MqttInv'
<1>. USE DEF MqttInv, world, broker
<1>1. MqttTypeOK'
  BY Empty DEF DropClient, MqttTypeOK, GoOn, Goto, Locals, Place, Opt
<1>2. Underway' /\ pc' # "publish"
  BY DEF DropClient, Underway, GoOn, Goto, Locals
<1>3. NothingKept' /\ Announced' /\ CachesMatchBroker'
  BY <1>2, Empty DEF DropClient, NothingKept, Announced, CachesMatchBroker
<1>4. LiveClientsAccounted'
  BY DEF DropClient, LiveClientsAccounted, Live
<1>. QED
  BY <1>1, <1>2, <1>3, <1>4

(* The broker closes connections, it makes none: only c is newly live.     *)
LEMMA OnlyOneOpens ==
  ASSUME MqttTypeOK, NEW c \in Client, OpenConnection(c)
  PROVE  /\ conn' \in [Client -> {"closed", "open", "reconnecting"}]
         /\ lostCalls' \in SUBSET Client
         /\ \A d \in Client : Live(d)' => Live(d) \/ d = c
<1>1. conn' \in [Client -> {"closed", "open", "reconnecting"}]
  BY DEF OpenConnection, MqttTypeOK
<1>2. lostCalls' \in SUBSET Client
  BY DEF OpenConnection, MqttTypeOK
<1>3. \A d \in Client : Live(d)' => Live(d) \/ d = c
  BY DEF OpenConnection, Live
<1>. QED
  BY <1>1, <1>2, <1>3

LEMMA ConnectStep ==
  ASSUME MqttInv, UNCHANGED world, NEW c \in Client, Connect(c)
  PROVE  MqttInv'
<1>. USE DEF MqttInv, world, broker
<1>1. client = Nil /\ discovered = {} /\ lastPublished = EmptyCache /\ local \in Config
  BY DEF Connect, Underway, NothingKept
<1>2. MqttTypeOK'
  BY <1>1, OnlyOneOpens, PrefixOf
     DEF Connect, MqttTypeOK, GoOn, Goto, Locals, Place, Opt
<1>3. Underway' /\ pc' # "publish"
  BY <1>1, NilAssumption DEF Connect, Underway, GoOn, Goto, Locals
<1>4. NothingKept' /\ Announced' /\ CachesMatchBroker'
  BY <1>1, <1>3, Empty, NilAssumption
     DEF Connect, NothingKept, Announced, CachesMatchBroker
<1>5. LiveClientsAccounted'
  <2>1. \A d \in Client : Live(d)' => Live(d) \/ d = c
    BY OnlyOneOpens DEF Connect
  <2>. QED
    BY <1>1, <2>1, NilAssumption DEF Connect, LiveClientsAccounted
<1>. QED
  BY <1>2, <1>3, <1>4, <1>5

-----------------------------------------------------------------------------
(* The three steps that publish.                                           *)

LEMMA PublishOnlineStep ==
  ASSUME MqttInv, UNCHANGED world, PublishOnline
  PROVE  MqttInv'
<1>. USE DEF MqttInv, world, paho
<1>1. PICK ok \in BOOLEAN, got \in BOOLEAN :
        /\ avail' = IF got THEN [avail EXCEPT ![local.prefix] = "online"] ELSE avail
        /\ Track(ok, got)
        /\ IF ok THEN snap' = tele /\ UNCHANGED <<local, i, status>> /\ Goto("discover")
                 ELSE Fail
  BY DEF PublishOnline
<1>2. local \in Config /\ local.prefix \in Prefix /\ client # Nil /\ key = local.prefix
  BY PrefixOf DEF PublishOnline, Underway
<1>3. avail' \in [Prefix -> {Nil, "online", "offline"}]
  BY <1>1, <1>2 DEF MqttTypeOK
<1>4. faithful' \in BOOLEAN /\ (faithful' => faithful)
  BY <1>1 DEF Track, MqttTypeOK
<1>5. /\ pc' \in Place /\ status' \in Status /\ local' \in Opt(Config)
      /\ snap' \in [Id -> Opt(Val)] /\ i' \in 1 .. N + 1
  BY <1>1, Empty, IdFacts DEF MqttTypeOK, Fail, Return, Goto, Place, Status, Opt
<1>6. MqttTypeOK'
  BY <1>3, <1>4, <1>5 DEF PublishOnline, MqttTypeOK
<1>7. Underway' /\ pc' # "publish"
  BY <1>1, <1>2 DEF PublishOnline, Underway, Fail, Return, Goto
<1>. QED
  BY <1>4, <1>6, <1>7, Elsewhere DEF PublishOnline, Live

LEMMA PublishDiscoveryStep ==
  ASSUME MqttInv, UNCHANGED world, PublishDiscovery
  PROVE  MqttInv'
<1>. USE DEF MqttInv, world, paho
<1>1. PICK ok \in BOOLEAN, got \in BOOLEAN :
        /\ announced' = IF got THEN [announced EXCEPT ![i] = local.prefix] ELSE announced
        /\ unheard' = IF ok /\ ~ got THEN unheard \cup {i} ELSE unheard
        /\ Track(ok, got)
        /\ IF ok THEN /\ discovered' = discovered \cup {i}
                      /\ status' = status
                      /\ GoOn("publish")
                 ELSE Fail /\ UNCHANGED discovered
  BY DEF PublishDiscovery
<1>2. /\ local \in Config /\ local.prefix \in Prefix /\ client # Nil /\ key = local.prefix
  BY PrefixOf DEF PublishDiscovery, Underway
<1>3. i \in Id
  BY NAssumption DEF PublishDiscovery, MqttTypeOK, Id
<1>4. announced' \in [Id -> Opt(Prefix)]
  BY <1>1, <1>2 DEF MqttTypeOK, Opt
<1>5. faithful' \in BOOLEAN /\ (faithful' => faithful /\ (ok <=> got))
  BY <1>1 DEF Track, MqttTypeOK
<1>6. /\ pc' \in Place /\ status' \in Status /\ local' \in Opt(Config)
      /\ snap' \in [Id -> Opt(Val)] /\ i' \in 1 .. N + 1 /\ discovered' \in SUBSET Id
      /\ unheard' \in SUBSET Id
  BY <1>1, <1>3, Empty, IdFacts
     DEF MqttTypeOK, Fail, Return, GoOn, Locals, Goto, Place, Status, Opt
<1>7. MqttTypeOK'
  BY <1>4, <1>5, <1>6 DEF PublishDiscovery, MqttTypeOK
<1>8. Underway'
  BY <1>1, <1>2, <1>3 DEF PublishDiscovery, Underway, Fail, Return, GoOn, Locals, Goto
<1>9. NothingKept' /\ LiveClientsAccounted'
  BY <1>2 DEF PublishDiscovery, NothingKept, LiveClientsAccounted, Live
<1>10. Announced'
  <2>1. pc' = "publish" => i' \in discovered'
    BY <1>1 DEF Fail, Return, GoOn, Locals, Goto
  <2>2. ASSUME NEW n \in discovered'
        PROVE  announced'[n] = key \/ n \in unheard'
    <3>1. CASE n = i
      BY <1>1, <1>2, <1>3, <2>2, <3>1 DEF PublishDiscovery, MqttTypeOK
    <3>2. CASE n # i
      <4>1. n \in discovered /\ announced'[n] = announced[n] /\ unheard \subseteq unheard'
        BY <1>1, <1>3, <2>2, <3>2 DEF MqttTypeOK
      <4>. QED
        BY <4>1 DEF Announced
    <3>. QED
      BY <3>1, <3>2
  <2>. QED
    BY <2>1, <2>2 DEF PublishDiscovery, Announced
<1>11. CachesMatchBroker'
  <2>. SUFFICES ASSUME faithful'
                PROVE  /\ \A n \in discovered' : announced'[n] = key
                       /\ \A n \in Id : lastPublished[n] # Nil
                                          => shown[key][n] = lastPublished[n]
    BY DEF PublishDiscovery, CachesMatchBroker
  <2>1. /\ \A n \in discovered : announced[n] = key
        /\ \A n \in Id : lastPublished[n] # Nil => shown[key][n] = lastPublished[n]
    BY <1>2, <1>5 DEF CachesMatchBroker
  <2>2. CASE ok
    BY <1>1, <1>2, <1>3, <1>5, <2>1, <2>2 DEF MqttTypeOK
  <2>3. CASE ~ ok
    BY <1>1, <1>5, <2>1, <2>3
  <2>. QED
    BY <2>2, <2>3
<1>. QED
  BY <1>7, <1>8, <1>9, <1>10, <1>11

LEMMA PublishValueStep ==
  ASSUME MqttInv, UNCHANGED world, PublishValue
  PROVE  MqttInv'
<1>. USE DEF MqttInv, world, paho
<1>1. PICK ok \in BOOLEAN, got \in BOOLEAN :
        /\ shown' = IF got THEN [shown EXCEPT ![local.prefix][i] = snap[i]] ELSE shown
        /\ Track(ok, got)
        /\ IF ok THEN /\ lastPublished' = [lastPublished EXCEPT ![i] = snap[i]]
                      /\ i' = i + 1
                      /\ Goto("discover")
                      /\ UNCHANGED <<local, snap, status>>
                 ELSE Fail /\ UNCHANGED lastPublished
  BY DEF PublishValue
<1>2. /\ local \in Config /\ local.prefix \in Prefix /\ client # Nil /\ key = local.prefix
      /\ i \in Id /\ i \in discovered
  BY PrefixOf DEF PublishValue, Underway, Announced
<1>3. snap[i] \in Opt(Val)
  BY <1>2 DEF MqttTypeOK
<1>4. shown' \in [Prefix -> [Id -> Opt(Val)]]
  <2>1. [shown[local.prefix] EXCEPT ![i] = snap[i]] \in [Id -> Opt(Val)]
    BY <1>2, <1>3 DEF MqttTypeOK
  <2>. QED
    BY <1>1, <1>2, <2>1 DEF MqttTypeOK
<1>5. faithful' \in BOOLEAN /\ (faithful' => faithful /\ (ok <=> got))
  BY <1>1 DEF Track, MqttTypeOK
<1>6. /\ pc' \in Place /\ status' \in Status /\ local' \in Opt(Config)
      /\ snap' \in [Id -> Opt(Val)] /\ i' \in 1 .. N + 1
  BY <1>1, <1>2, Empty, IdFacts DEF MqttTypeOK, Fail, Return, Goto, Place, Status, Opt
<1>7. lastPublished' \in [Id -> Opt(Val)]
  BY <1>1, <1>3 DEF MqttTypeOK
<1>8. MqttTypeOK'
  BY <1>4, <1>5, <1>6, <1>7 DEF PublishValue, MqttTypeOK
<1>9. Underway' /\ pc' # "publish"
  BY <1>1, <1>2 DEF PublishValue, Underway, Fail, Return, Goto
<1>10. NothingKept' /\ LiveClientsAccounted'
  BY <1>2 DEF PublishValue, NothingKept, LiveClientsAccounted, Live
<1>11. Announced'
  BY <1>9 DEF PublishValue, Announced
<1>12. CachesMatchBroker'
  <2>. SUFFICES ASSUME faithful', NEW n \in Id, lastPublished'[n] # Nil
                PROVE  shown'[key][n] = lastPublished'[n]
    <3>1. faithful' => \A n \in discovered : announced[n] = key
      BY <1>2, <1>5 DEF CachesMatchBroker
    <3>. QED
      BY <3>1 DEF PublishValue, CachesMatchBroker
  <2>1. lastPublished[n] # Nil => shown[key][n] = lastPublished[n]
    BY <1>2, <1>5 DEF CachesMatchBroker
  <2>2. CASE ok
    <3>1. shown' = [shown EXCEPT ![key][i] = snap[i]]
      BY <1>1, <1>2, <1>5, <2>2
    <3>2. shown'[key] = [shown[key] EXCEPT ![i] = snap[i]]
      BY <1>2, <3>1 DEF MqttTypeOK
    <3>3. shown'[key][n] = IF n = i THEN snap[i] ELSE shown[key][n]
      BY <1>2, <3>2 DEF MqttTypeOK
    <3>4. lastPublished'[n] = IF n = i THEN snap[i] ELSE lastPublished[n]
      BY <1>1, <2>2 DEF MqttTypeOK
    <3>. QED
      BY <2>1, <3>3, <3>4
  <2>3. CASE ~ ok
    BY <1>1, <1>5, <2>1, <2>3
  <2>. QED
    BY <2>2, <2>3
<1>. QED
  BY <1>8, <1>9, <1>10, <1>11, <1>12

-----------------------------------------------------------------------------
(* The goroutines of paho and the rest of the world.                       *)

LEMMA PahoSteps ==
  ASSUME MqttInv, PahoStep
  PROVE  MqttInv'
<1>. USE DEF MqttInv, world, service, broker, history
<1>1. PICK c \in Client : LoseConnection(c) \/ OnConnectionLost(c) \/ Reconnect(c)
  BY DEF PahoStep
<1>2. CASE LoseConnection(c)
  <2>1. MqttTypeOK'
    BY <1>2 DEF LoseConnection, MqttTypeOK
  <2>2. Underway' /\ \A d \in Client : Live(d)' => Live(d)
    BY <1>2 DEF LoseConnection, Underway, Live, MqttTypeOK
  <2>. QED
    BY <1>2, <2>1, <2>2, Elsewhere DEF LoseConnection, Announced
<1>3. CASE OnConnectionLost(c)
  <2>1. MqttTypeOK'
    BY <1>3 DEF OnConnectionLost, MqttTypeOK, Status
  <2>2. Underway' /\ \A d \in Client : Live(d)' => Live(d)
    BY <1>3 DEF OnConnectionLost, Underway, Live
  <2>. QED
    BY <1>3, <2>1, <2>2, Elsewhere DEF OnConnectionLost, Announced
<1>4. CASE Reconnect(c)
  <2>1. MqttTypeOK'
    BY <1>4, OnlyOneOpens DEF Reconnect, MqttTypeOK
  <2>2. Underway'
    BY <1>4 DEF Reconnect, Underway
  <2>3. \A d \in Client : Live(d)' => Live(d)
    BY <1>4, OnlyOneOpens DEF Reconnect, Live
  <2>. QED
    BY <1>4, <2>1, <2>2, <2>3, Elsewhere DEF Reconnect, Announced
<1>. QED
  BY <1>1, <1>2, <1>3, <1>4

LEMMA EnvironmentSteps ==
  ASSUME MqttInv, Environment
  PROVE  MqttInv'
<1>. USE DEF MqttInv, world, service, paho, broker, history, Live
<1>1. CASE \E n \in Id, v \in Val : CollectorStores(n, v)
  <2>1. MqttTypeOK' /\ Underway'
    BY <1>1 DEF CollectorStores, MqttTypeOK, Underway, Opt
  <2>. QED
    BY <1>1, <2>1, Elsewhere DEF CollectorStores, Announced
<1>2. CASE \E c \in Config : ConfigChanges(c)
  <2>1. MqttTypeOK' /\ Underway'
    BY <1>2 DEF ConfigChanges, MqttTypeOK, Underway
  <2>. QED
    BY <1>2, <2>1, Elsewhere DEF ConfigChanges, Announced
<1>3. CASE NetChanges
  <2>1. MqttTypeOK' /\ Underway'
    BY <1>3 DEF NetChanges, MqttTypeOK, Underway
  <2>. QED
    BY <1>3, <2>1, Elsewhere DEF NetChanges, Announced
<1>4. CASE BrokerForgets
  <2>1. MqttTypeOK'
    BY <1>4, Empty DEF BrokerForgets, MqttTypeOK, Opt
  <2>2. Underway' /\ NothingKept' /\ Announced' /\ LiveClientsAccounted'
    BY <1>4 DEF BrokerForgets, Underway, NothingKept, Announced,
                LiveClientsAccounted
  <2>3. CachesMatchBroker'
    BY <1>4 DEF BrokerForgets, CachesMatchBroker
  <2>. QED
    BY <2>1, <2>2, <2>3
<1>5. CASE Cancel
  <2>1. MqttTypeOK' /\ Underway'
    BY <1>5 DEF Cancel, MqttTypeOK, Underway
  <2>. QED
    BY <1>5, <2>1, Elsewhere DEF Cancel, Announced
<1>. QED
  BY <1>1, <1>2, <1>3, <1>4, <1>5 DEF Environment

-----------------------------------------------------------------------------

(* MqttInv is inductive: it holds in every state the publisher reaches.    *)
THEOREM MqttInvariant == MqttSpec => []MqttInv
<1>1. MqttInit => MqttInv
  BY InitHolds
<1>2. MqttInv /\ [MqttNext]_mqttVars => MqttInv'
  <2>. SUFFICES ASSUME MqttInv, [MqttNext]_mqttVars
                PROVE  MqttInv'
    OBVIOUS
  <2>1. CASE ServiceMoves
    BY <2>1, ElsewhereSteps, DisconnectStep, DropClientStep, ConnectStep,
       PublishOnlineStep, PublishDiscoveryStep, PublishValueStep
       DEF ServiceMoves, ServiceStep
  <2>2. CASE PahoStep
    BY <2>2, PahoSteps
  <2>3. CASE Environment
    BY <2>3, EnvironmentSteps
  <2>4. CASE UNCHANGED mqttVars
    <3>. USE <2>4 DEF MqttInv, mqttVars, world, service, paho, broker, history
    <3>1. MqttTypeOK' /\ Underway' /\ NothingKept'
      BY DEF MqttTypeOK, Underway, NothingKept
    <3>2. Announced' /\ CachesMatchBroker' /\ LiveClientsAccounted'
      BY DEF Announced, CachesMatchBroker, LiveClientsAccounted, Live
    <3>. QED
      BY <3>1, <3>2
  <2>. QED
    BY <2>1, <2>2, <2>3, <2>4 DEF MqttNext
<1>. QED
  BY <1>1, <1>2, PTL DEF MqttSpec

(* Type correctness: sync() never keeps an index or a key of another kind. *)
THEOREM MqttTypeCorrect == MqttSpec => []MqttTypeOK
BY MqttInvariant, PTL DEF MqttInv

(* Where a value is published, the broker has the discovery config of its  *)
(* entity for that topic, unless just that config was lost unseen.         *)
THEOREM DiscoveryFirst == MqttSpec => []DiscoveryBeforeState
<1>1. MqttInv => DiscoveryBeforeState
  BY DEF MqttInv, Underway, Announced, DiscoveryBeforeState
<1>. QED
  BY <1>1, MqttInvariant, PTL

(* While Publish reports what happened and the broker forgets nothing, the *)
(* caches that let sync() skip a message are what the broker has.          *)
THEOREM CachesCorrect == MqttSpec => []CachesMatchBroker
BY MqttInvariant, PTL DEF MqttInv

(* Every live connection is that of the client in hand, or one that        *)
(* disconnect() let go of while it was reconnecting.                       *)
THEOREM ConnectionsAccounted == MqttSpec => []LiveClientsAccounted
BY MqttInvariant, PTL DEF MqttInv

-----------------------------------------------------------------------------
(* What is left of a sync(), in steps of its goroutine at most             *)
SyncLeft ==
  CASE pc = "ensure"   -> 2 * N + 6
    [] pc = "connect"  -> 2 * N + 5
    [] pc = "check"    -> 2 * N + 4
    [] pc = "online"   -> 2 * N + 3
    [] pc = "discover" -> 2 * (N + 1 - i) + 2
    [] pc = "publish"  -> 2 * (N + 1 - i) + 1
    [] pc \in {"healthy", "disconnect", "stopping"} -> 1
    [] pc \in {"wait", "stopped"} -> 0

(* Once begun, a sync() gets nearer to its end with each of its steps,     *)
(* whatever the client, the broker and the configuration do meanwhile.     *)
SyncGetsOn ==
  [][IF ServiceMoves THEN pc # "wait" => SyncLeft' < SyncLeft
                     ELSE SyncLeft' = SyncLeft]_mqttVars

LEMMA SyncLeftType ==
  ASSUME MqttInv
  PROVE  SyncLeft \in 0 .. 2 * N + 6
<1>1. N \in Nat /\ i \in 1 .. N + 1 /\ pc \in Place
  BY NAssumption DEF MqttInv, MqttTypeOK
<1>2. /\ 2 * (N + 1 - i) + 2 \in 0 .. 2 * N + 6
      /\ 2 * (N + 1 - i) + 1 \in 0 .. 2 * N + 6
  BY <1>1
<1>. QED
  BY <1>1, <1>2 DEF SyncLeft, Place

LEMMA SyncStep ==
  ASSUME MqttInv, ServiceMoves, pc # "wait"
  PROVE  SyncLeft' < SyncLeft
<1>1. N \in Nat /\ i \in 1 .. N + 1 /\ i \in Int /\ pc \in Place
  BY NAssumption DEF MqttInv, MqttTypeOK
<1>2. SyncLeft \in Int
  BY <1>1, SyncLeftType
<1>3. CASE pc' \in {"wait", "stopped"} /\ pc \notin {"wait", "stopped"}
  <2>1. 1 <= 2 * (N + 1 - i) + 1 /\ 1 <= 2 * (N + 1 - i) + 2 /\ 1 <= 2 * N + 3
    BY <1>1
  <2>2. 1 <= SyncLeft
    BY <1>1, <1>3, <2>1 DEF SyncLeft, Place
  <2>3. SyncLeft' = 0
    BY <1>3 DEF SyncLeft
  <2>. QED
    BY <1>2, <2>2, <2>3
<1>4. CASE \/ pc = "ensure" /\ pc' \in {"connect", "check"}
           \/ pc = "connect" /\ pc' = "check"
           \/ pc = "check" /\ pc' = "online"
  BY <1>1, <1>4 DEF SyncLeft
<1>5. CASE /\ i' = i
           /\ \/ pc = "online" /\ pc' = "discover"
              \/ pc = "discover" /\ pc' = "publish"
  BY <1>1, <1>5 DEF SyncLeft
<1>6. CASE pc = "discover" /\ pc' = "healthy"
  BY <1>1, <1>6 DEF SyncLeft
<1>7. CASE /\ i' = i + 1 /\ pc' = "discover" /\ pc \in {"discover", "publish"}
  BY <1>1, <1>7 DEF SyncLeft
<1>. USE DEF GoOn, Goto, Return, Locals, Fail
<1>8. CASE SyncBegin \/ Stop
  BY <1>8 DEF SyncBegin, Stop
<1>9. CASE Disconnect
  BY <1>3, <1>9 DEF Disconnect
<1>10. CASE KeepClient \/ DropClient \/ (\E c \in Client : Connect(c))
  BY <1>4, <1>10 DEF KeepClient, DropClient, Connect
<1>11. CASE ConnectFails \/ CheckConnection
  BY <1>3, <1>4, <1>11 DEF ConnectFails, CheckConnection
<1>12. CASE PublishOnline
  BY <1>3, <1>5, <1>12 DEF PublishOnline
<1>13. CASE SkipDiscovery
  BY <1>5, <1>6, <1>7, <1>13 DEF SkipDiscovery
<1>14. CASE PublishDiscovery
  BY <1>3, <1>5, <1>14 DEF PublishDiscovery
<1>15. CASE SkipValue \/ PublishValue
  BY <1>3, <1>7, <1>15 DEF SkipValue, PublishValue
<1>16. CASE SyncEnd
  BY <1>3, <1>16 DEF SyncEnd
<1>. QED
  BY <1>8, <1>9, <1>10, <1>11, <1>12, <1>13, <1>14, <1>15, <1>16
     DEF ServiceMoves, ServiceStep

(* A sync() is over after 2 N + 6 steps at most, and so is the last one    *)
(* before Run returns: what CancelStops and ValuesArrive need besides      *)
(* fairness, for any number of entries.                                    *)
THEOREM SyncProgresses == MqttSpec => [](SyncLeft \in 0 .. 2 * N + 6) /\ SyncGetsOn
<1>1. MqttInv => SyncLeft \in 0 .. 2 * N + 6
  BY SyncLeftType
<1>2. MqttInv /\ [MqttNext]_mqttVars =>
        [IF ServiceMoves THEN pc # "wait" => SyncLeft' < SyncLeft
                         ELSE SyncLeft' = SyncLeft]_mqttVars
  <2>. SUFFICES ASSUME MqttInv, MqttNext
                PROVE  IF ServiceMoves THEN pc # "wait" => SyncLeft' < SyncLeft
                                       ELSE SyncLeft' = SyncLeft
    OBVIOUS
  <2>1. CASE ServiceMoves
    BY <2>1, SyncStep
  <2>2. CASE ~ ServiceMoves
    <3>1. PahoStep \/ Environment
      BY <2>2 DEF MqttNext
    <3>2. UNCHANGED service
      BY <3>1 DEF PahoStep, LoseConnection, OnConnectionLost, Reconnect, Environment,
           CollectorStores, ConfigChanges, NetChanges, BrokerForgets, Cancel
    <3>3. UNCHANGED <<pc, i>>
      BY <3>2 DEF service
    <3>4. SyncLeft' = SyncLeft
      BY <3>3 DEF SyncLeft
    <3>. QED
      BY <2>2, <3>4
  <2>. QED
    BY <2>1, <2>2
<1>. QED
  BY <1>1, <1>2, MqttInvariant, PTL DEF MqttSpec, SyncGetsOn

=============================================================================
