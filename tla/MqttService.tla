---------------------------- MODULE MqttService ----------------------------
(***************************************************************************)
(* The MQTT publisher: internal/mqtt/service.go.  One goroutine runs       *)
(* sync() every five seconds; the paho client runs its own goroutines,     *)
(* which lose and restore the connection and call OnConnectionLost.        *)
(*                                                                         *)
(* External, as the code uses it: a paho client with AutoReconnect,        *)
(* QoS 0 and a clean session.  While it reconnects, Publish drops the      *)
(* message and completes its token without an error.  The broker keeps     *)
(* the last message of a topic, and closes a connection when another one   *)
(* arrives with the same client id (all clients here have the same).       *)
(*                                                                         *)
(* A configuration is the broker ("" disables MQTT) and the topic prefix,  *)
(* which stands for every part of mqttKey.  The telemetry ids are 1 .. N,  *)
(* in the order of the snapshot.  unhealthySince is left out: the code     *)
(* writes it and never reads it.                                           *)
(***************************************************************************)
EXTENDS Integers, FiniteSets

CONSTANTS
  N,          \* number of telemetry ids
  Val,        \* rendered values
  Prefix,     \* topic prefixes
  Client,     \* identities of paho clients; a closed one may be used again
  Nil

ASSUME NAssumption == N \in Nat \ {0}
ASSUME NilAssumption == Nil \notin Val /\ Nil \notin Client /\ Nil \notin Prefix

VARIABLES
  cfg,            \* the configuration of the application
  tele,           \* the telemetry in the store, Nil where there is none
  ctxDone,        \* the context of Run has been cancelled
  pc,             \* where the goroutine of Run is
  local,          \* the configuration sync() read
  snap,           \* the snapshot publishTelemetry iterates over
  i,              \* its next entry
  client,         \* s.client
  key,            \* s.key, Nil for ""
  discovered,     \* s.discovered
  lastPublished,  \* s.lastPublished, by id (all topics have the prefix of key)
  status,         \* status of the service "mqtt" in the store
  conn,           \* external: state of each paho client
  lostCalls,      \* external: clients whose OnConnectionLost has yet to run
  net,            \* external: "good" delivers; "bad" may lose anything
  shown,          \* external: last message of each state topic
  announced,      \* external: state topic prefix in the last discovery config
  avail,          \* external: last message of each availability topic
  abandoned,      \* history: live clients that disconnect() let go of
  faithful,       \* history: since the client was made, each Publish
                  \* reported what happened and the broker forgot nothing
  unheard         \* history: ids whose discovery config was dropped without
                  \* an error, or is forgotten by the broker

world == <<cfg, tele, ctxDone, net>>
service == <<pc, local, snap, i, client, key, discovered, lastPublished>>
paho == <<conn, lostCalls, abandoned>>
broker == <<shown, announced, avail>>
history == <<faithful, unheard>>
mqttVars == <<world, service, status, paho, broker, history>>

Opt(S) == S \cup {Nil}
Id == 1 .. N
Config == [broker : {"", "tcp"}, prefix : Prefix]
Status == {"starting", "disabled", "connecting", "connected", "error"}
Place == {"wait", "disconnect", "ensure", "connect", "check", "online",
          "discover", "publish", "healthy", "stopping", "stopped"}

Open(c) == c # Nil /\ conn[c] = "open"
Live(c) == conn[c] \in {"open", "reconnecting"}

EmptyCache == [n \in Id |-> Nil]

MqttInit ==
  /\ cfg \in Config
  /\ tele = [n \in Id |-> Nil]
  /\ ctxDone = FALSE
  /\ pc = "wait"
  /\ local = Nil
  /\ snap = EmptyCache
  /\ i = 1
  /\ client = Nil
  /\ key = Nil
  /\ discovered = {}
  /\ lastPublished = EmptyCache
  /\ status = "starting"
  /\ conn = [c \in Client |-> "closed"]
  /\ lostCalls = {}
  /\ net = "good"
  /\ shown = [p \in Prefix |-> [n \in Id |-> Nil]]
  /\ announced = [n \in Id |-> Nil]
  /\ avail = [p \in Prefix |-> Nil]
  /\ abandoned = {}
  /\ faithful = TRUE
  /\ unheard = {}

-----------------------------------------------------------------------------
(* External: what becomes of client.Publish. *)

(* The token ends without an error (ok); the broker gets the message (got) *)
Outcome(ok, got) ==
  \/ Open(client) /\ net = "good" /\ ok /\ got
  \/ Open(client) /\ net = "bad"
  \/ ~ Open(client) /\ ok /\ ~ got

Track(ok, got) == faithful' = (faithful /\ (ok <=> got))

-----------------------------------------------------------------------------
(* The goroutine of Run *)

Goto(place) == pc' = place

(* Where sync() goes on, its local variables stay; where it returns, they  *)
(* are gone.                                                               *)
Locals == <<local, snap, i>>
Return == Goto("wait") /\ local' = Nil /\ snap' = EmptyCache /\ i' = 1
GoOn(place) == Goto(place) /\ UNCHANGED Locals

(* A tick: sync() reads the configuration.                                 *)
SyncBegin ==
  /\ pc = "wait"
  /\ local' = cfg
  /\ Goto(IF cfg.broker = "" THEN "disconnect" ELSE "ensure")
  /\ UNCHANGED <<snap, i, client, key, discovered, lastPublished, status, paho,
                 broker, history>>

(* Mutant: disconnect() without the return.                                *)
StopWithoutReturn ==
  /\ pc = "wait" /\ ctxDone
  /\ GoOn("disconnect")
  /\ UNCHANGED <<client, key, discovered, lastPublished, status, paho, broker,
                 history>>

(* The context is done: disconnect() and return.                           *)
Stop ==
  /\ pc = "wait" /\ ctxDone
  /\ GoOn("stopping")
  /\ UNCHANGED <<client, key, discovered, lastPublished, status, paho, broker,
                 history>>

(* Mutant: the client is forgotten without client.Disconnect.              *)
DisconnectForgets ==
  /\ pc \in {"disconnect", "stopping"}
  /\ client' = Nil /\ key' = Nil
  /\ discovered' = {} /\ lastPublished' = EmptyCache
  /\ unheard' = {}
  /\ IF Open(client)
       THEN \E ok, got \in BOOLEAN :
              /\ Outcome(ok, got)
              /\ avail' = IF got THEN [avail EXCEPT ![cfg.prefix] = "offline"] ELSE avail
              /\ UNCHANGED abandoned
       ELSE abandoned' = abandoned \cup ({client} \ {Nil}) /\ UNCHANGED avail
  /\ IF pc = "disconnect"
       THEN status' = "disabled" /\ Return
       ELSE status' = status /\ GoOn("stopped")
  /\ UNCHANGED <<conn, lostCalls, shown, announced, faithful>>

(* disconnect() reads the configuration again.  An open client says        *)
(* goodbye, on the topic of that configuration, and is closed; one that is *)
(* reconnecting is forgotten as it is.                                     *)
Disconnect ==
  /\ pc \in {"disconnect", "stopping"}
  /\ client' = Nil
  /\ key' = Nil
  /\ discovered' = {}
  /\ lastPublished' = EmptyCache
  /\ unheard' = {}
  /\ IF Open(client)
       THEN /\ \E ok, got \in BOOLEAN :
                 /\ Outcome(ok, got)
                 /\ avail' = IF got THEN [avail EXCEPT ![cfg.prefix] = "offline"]
                                    ELSE avail
            /\ conn' = [conn EXCEPT ![client] = "closed"]
            /\ UNCHANGED abandoned
       ELSE /\ abandoned' = abandoned \cup ({client} \ {Nil})
            /\ UNCHANGED <<avail, conn>>
  /\ IF pc = "disconnect"
       THEN status' = "disabled" /\ Return
       ELSE status' = status /\ GoOn("stopped")
  /\ UNCHANGED <<lostCalls, shown, announced, faithful>>

(* ensureClient: the client in hand has the key of the configuration...    *)
KeepClient ==
  /\ pc = "ensure" /\ client # Nil /\ key = local.prefix
  /\ GoOn("check")
  /\ UNCHANGED <<client, key, discovered, lastPublished, status, paho, broker,
                 history>>

(* ...or it goes, with what it has published, and a new one is made.       *)
DropClient ==
  /\ pc = "ensure" /\ ~ (client # Nil /\ key = local.prefix)
  /\ client' = Nil
  /\ key' = Nil
  /\ discovered' = {}
  /\ lastPublished' = EmptyCache
  /\ conn' = [c \in Client |-> IF c = client THEN "closed" ELSE conn[c]]
  /\ unheard' = {}
  /\ GoOn("connect")
  /\ UNCHANGED <<status, lostCalls, abandoned, broker, faithful>>

(* Connection c opens: the broker closes the others with its client id.    *)
OpenConnection(c) ==
  LET kicked == {d \in Client \ {c} : conn[d] = "open"} IN
  /\ conn' = [d \in Client |-> IF d = c THEN "open"
                               ELSE IF d \in kicked THEN "reconnecting"
                               ELSE conn[d]]
  /\ lostCalls' = lostCalls \cup kicked

Connect(c) ==
  /\ pc = "connect" /\ conn[c] = "closed"
  /\ OpenConnection(c)
  /\ client' = c
  /\ key' = local.prefix
  /\ faithful' = TRUE
  /\ GoOn("check")
  /\ UNCHANGED <<discovered, lastPublished, status, abandoned, broker, unheard>>

(* Connect fails or times out: resetClient, and the next tick tries again. *)
(* (Bound of the model: it also fails when every identity is in use.)      *)
ConnectFails ==
  /\ pc = "connect"
  /\ net = "bad" \/ \A c \in Client : conn[c] # "closed"
  /\ status' = "error" /\ Return
  /\ UNCHANGED <<client, key, discovered, lastPublished, paho, broker, history>>

(* Mutant: sync() does not ask IsConnectionOpen.                           *)
CheckNothing ==
  /\ pc = "check"
  /\ GoOn("online")
  /\ UNCHANGED <<client, key, discovered, lastPublished, status, paho, broker, history>>

CheckConnection ==
  /\ pc = "check"
  /\ IF Open(client) THEN status' = status /\ GoOn("online")
                     ELSE status' = "connecting" /\ Return
  /\ UNCHANGED <<client, key, discovered, lastPublished, paho, broker, history>>

(* recordError, and sync returns *)
Fail == status' = "error" /\ Return

(* publishAvailability(cfg, "online"), and the snapshot.                   *)
PublishOnline ==
  /\ pc = "online"
  /\ \E ok, got \in BOOLEAN :
       /\ Outcome(ok, got)
       /\ avail' = IF got THEN [avail EXCEPT ![local.prefix] = "online"] ELSE avail
       /\ Track(ok, got)
       /\ IF ok THEN snap' = tele /\ UNCHANGED <<local, i, status>> /\ Goto("discover")
                ELSE Fail
  /\ UNCHANGED <<client, key, discovered, lastPublished, paho, shown, announced, unheard>>

(* The entry needs no discovery config: it is not in the snapshot, or the  *)
(* config has been published.  The loop ends after the last entry.         *)
SkipDiscovery ==
  /\ pc = "discover"
  /\ \/ i > N /\ i' = i /\ Goto("healthy")
     \/ i <= N /\ snap[i] = Nil /\ i' = i + 1 /\ pc' = pc
     \/ i <= N /\ snap[i] # Nil /\ i \in discovered /\ i' = i /\ Goto("publish")
  /\ UNCHANGED <<local, snap, client, key, discovered, lastPublished, status, paho,
                 broker, history>>

(* Mutant: an entry whose config could not be published has its value      *)
(* published nevertheless.                                                 *)
PublishDiscoveryGoesOn ==
  /\ pc = "discover" /\ i <= N /\ snap[i] # Nil /\ i \notin discovered
  /\ \E ok, got \in BOOLEAN :
       /\ Outcome(ok, got)
       /\ announced' = IF got THEN [announced EXCEPT ![i] = local.prefix] ELSE announced
       /\ unheard' = IF ok /\ ~ got THEN unheard \cup {i} ELSE unheard
       /\ Track(ok, got)
       /\ discovered' = IF ok THEN discovered \cup {i} ELSE discovered
       /\ GoOn("publish")
  /\ UNCHANGED <<client, key, lastPublished, status, paho, shown, avail>>

(* ensureDiscovery publishes the config of a new entry.                    *)
PublishDiscovery ==
  /\ pc = "discover" /\ i <= N /\ snap[i] # Nil /\ i \notin discovered
  /\ \E ok, got \in BOOLEAN :
       /\ Outcome(ok, got)
       /\ announced' = IF got THEN [announced EXCEPT ![i] = local.prefix] ELSE announced
       /\ unheard' = IF ok /\ ~ got THEN unheard \cup {i} ELSE unheard
       /\ Track(ok, got)
       /\ IF ok THEN /\ discovered' = discovered \cup {i}
                     /\ status' = status
                     /\ GoOn("publish")
                ELSE Fail /\ UNCHANGED discovered
  /\ UNCHANGED <<client, key, lastPublished, paho, shown, avail>>

(* The value was the last one published on its topic.                      *)
SkipValue ==
  /\ pc = "publish" /\ lastPublished[i] = snap[i]
  /\ i' = i + 1
  /\ Goto("discover")
  /\ UNCHANGED <<local, snap, client, key, discovered, lastPublished, status, paho,
                 broker, history>>

(* Mutant: setLastPublished before the error is looked at.                 *)
PublishValueMarksFirst ==
  /\ pc = "publish" /\ lastPublished[i] # snap[i]
  /\ lastPublished' = [lastPublished EXCEPT ![i] = snap[i]]
  /\ \E ok, got \in BOOLEAN :
       /\ Outcome(ok, got)
       /\ shown' = IF got THEN [shown EXCEPT ![local.prefix][i] = snap[i]] ELSE shown
       /\ Track(ok, got)
       /\ IF ok THEN i' = i + 1 /\ Goto("discover") /\ UNCHANGED <<local, snap, status>>
                ELSE Fail
  /\ UNCHANGED <<client, key, discovered, paho, announced, avail, unheard>>

PublishValue ==
  /\ pc = "publish" /\ lastPublished[i] # snap[i]
  /\ \E ok, got \in BOOLEAN :
       /\ Outcome(ok, got)
       /\ shown' = IF got THEN [shown EXCEPT ![local.prefix][i] = snap[i]] ELSE shown
       /\ Track(ok, got)
       /\ IF ok THEN /\ lastPublished' = [lastPublished EXCEPT ![i] = snap[i]]
                     /\ i' = i + 1
                     /\ Goto("discover")
                     /\ UNCHANGED <<local, snap, status>>
                ELSE Fail /\ UNCHANGED lastPublished
  /\ UNCHANGED <<client, key, discovered, paho, announced, avail, unheard>>

(* Mutant: an error, once reported, stays.                                 *)
SyncEndKeepsError ==
  /\ pc = "healthy"
  /\ status' = IF status = "error" THEN status ELSE "connected"
  /\ Return
  /\ UNCHANGED <<client, key, discovered, lastPublished, paho, broker, history>>

(* markHealthy and the status of a sync that went through.                 *)
SyncEnd ==
  /\ pc = "healthy"
  /\ status' = "connected" /\ Return
  /\ UNCHANGED <<client, key, discovered, lastPublished, paho, broker, history>>

ServiceStep ==
  \/ SyncBegin \/ Stop \/ Disconnect \/ KeepClient \/ DropClient
  \/ \E c \in Client : Connect(c)
  \/ ConnectFails \/ CheckConnection \/ PublishOnline
  \/ SkipDiscovery \/ PublishDiscovery \/ SkipValue \/ PublishValue \/ SyncEnd

(* The goroutine of Run takes a step; the world stands still.              *)
ServiceMoves == ServiceStep /\ UNCHANGED world

-----------------------------------------------------------------------------
(* The goroutines of paho, which end with the process *)

Running == pc # "stopped"

(* The connection of c breaks.                                             *)
LoseConnection(c) ==
  /\ Running /\ net = "bad" /\ conn[c] = "open"
  /\ conn' = [conn EXCEPT ![c] = "reconnecting"]
  /\ lostCalls' = lostCalls \cup {c}
  /\ UNCHANGED <<world, service, status, abandoned, broker, history>>

(* OnConnectionLost, whichever client it was given to.                     *)
OnConnectionLost(c) ==
  /\ Running /\ c \in lostCalls
  /\ lostCalls' = lostCalls \ {c}
  /\ status' = "error"
  /\ UNCHANGED <<world, service, conn, abandoned, broker, history>>

Reconnect(c) ==
  /\ Running /\ net = "good" /\ conn[c] = "reconnecting"
  /\ OpenConnection(c)
  /\ UNCHANGED <<world, service, status, abandoned, broker, history>>

PahoStep == \E c \in Client : LoseConnection(c) \/ OnConnectionLost(c) \/ Reconnect(c)

-----------------------------------------------------------------------------
(* The rest of the process and the world, as long as the service runs *)

(* The collector stores a new value (telemetry is never withdrawn).        *)
CollectorStores(n, v) ==
  /\ Running
  /\ tele' = [tele EXCEPT ![n] = v]
  /\ UNCHANGED <<cfg, ctxDone, net, service, status, paho, broker, history>>

(* UpdateConfig *)
ConfigChanges(c) ==
  /\ Running
  /\ cfg' = c
  /\ UNCHANGED <<tele, ctxDone, net, service, status, paho, broker, history>>

NetChanges ==
  /\ Running
  /\ net' = IF net = "good" THEN "bad" ELSE "good"
  /\ UNCHANGED <<cfg, tele, ctxDone, service, status, paho, broker, history>>

(* The broker restarts without its retained messages.                      *)
BrokerForgets ==
  /\ Running /\ net = "bad" /\ \A c \in Client : conn[c] # "open"
  /\ shown' = [p \in Prefix |-> EmptyCache]
  /\ announced' = [n \in Id |-> Nil]
  /\ avail' = [p \in Prefix |-> Nil]
  /\ faithful' = FALSE
  /\ unheard' = discovered
  /\ UNCHANGED <<world, service, status, paho>>

Cancel ==
  /\ ~ ctxDone
  /\ ctxDone' = TRUE
  /\ UNCHANGED <<cfg, tele, net, service, status, paho, broker, history>>

Environment ==
  \/ \E n \in Id, v \in Val : CollectorStores(n, v)
  \/ \E c \in Config : ConfigChanges(c)
  \/ NetChanges \/ BrokerForgets \/ Cancel

MqttNext == ServiceMoves \/ PahoStep \/ Environment

(* The ticker keeps coming, so the goroutine keeps stepping; select does   *)
(* not ignore a done context for ever; paho keeps trying to reconnect and  *)
(* runs its callbacks.  Nothing is assumed of the network, the users or    *)
(* the collector.                                                          *)
MqttFairness ==
  /\ WF_mqttVars(ServiceMoves)
  /\ SF_mqttVars(Stop /\ UNCHANGED world)
  /\ \A c \in Client : WF_mqttVars(OnConnectionLost(c)) /\ WF_mqttVars(Reconnect(c))

MqttSpec == MqttInit /\ [][MqttNext]_mqttVars
FairMqttSpec == MqttSpec /\ MqttFairness

-----------------------------------------------------------------------------
(* Properties *)

(* Every variable keeps its type; in particular s.key is "" or a key made *)
(* by mqttKey, and an index of the loop never passes the end by more than 1. *)
MqttTypeOK ==
  /\ cfg \in Config /\ local \in Opt(Config)
  /\ tele \in [Id -> Opt(Val)] /\ snap \in [Id -> Opt(Val)]
  /\ ctxDone \in BOOLEAN /\ faithful \in BOOLEAN
  /\ pc \in Place /\ status \in Status
  /\ i \in 1 .. N + 1
  /\ client \in Opt(Client) /\ key \in Opt(Prefix)
  /\ discovered \in SUBSET Id /\ unheard \in SUBSET Id
  /\ lastPublished \in [Id -> Opt(Val)]
  /\ conn \in [Client -> {"closed", "open", "reconnecting"}]
  /\ lostCalls \in SUBSET Client /\ abandoned \in SUBSET Client
  /\ net \in {"good", "bad"}
  /\ shown \in [Prefix -> [Id -> Opt(Val)]]
  /\ announced \in [Id -> Opt(Prefix)]
  /\ avail \in [Prefix -> {Nil, "online", "offline"}]

(* Home Assistant hears of an entity before its values: where sync() turns *)
(* to a value, the broker has the discovery config of its entity, and the  *)
(* config names the very topic, also after failed publishes, changes of    *)
(* the prefix and takeovers by another client.  The exception is a config  *)
(* that was dropped without an error or forgotten by the broker: it counts *)
(* as published, and the values follow though nobody has heard of them.    *)
DiscoveryBeforeState ==
  pc = "publish" => announced[i] = local.prefix \/ i \in unheard

(* As long as every Publish since the client was made reported what became *)
(* of the message and the broker forgot nothing, the caches are what the   *)
(* broker has; skipping an unchanged value or a known config is then right. *)
CachesMatchBroker ==
  faithful /\ client # Nil =>
    /\ \A n \in discovered : announced[n] = key
    /\ \A n \in Id : lastPublished[n] # Nil => shown[key][n] = lastPublished[n]

(* The only live connection is the client in hand, but for those that      *)
(* disconnect() let go of while they were reconnecting.                    *)
LiveClientsAccounted ==
  \A c \in Client : Live(c) => c = client \/ c \in abandoned

Calm == net = "good" /\ abandoned = {} /\ ~ ctxDone

(* The status comes right: with MQTT configured, a network that stays good *)
(* and no forgotten client, the service ends up connected and the          *)
(* availability topic online, whatever was lost, late or overtaken before. *)
RecoversConnected ==
  \A p \in Prefix :
    <>[](Calm /\ cfg = [broker |-> "tcp", prefix |-> p])
      => <>[](status = "connected" /\ avail[p] = "online" /\ Open(client))

(* A connection that stays down is not reported as connected for ever.     *)
DownIsReported ==
  <>[](~ Open(client) /\ ~ ctxDone) => <>[](status # "connected")

(* A value that stays gets to the broker, if no message was lost behind    *)
(* the client's back.                                                      *)
ValuesArrive ==
  \A p \in Prefix, n \in Id, v \in Val :
    <>[](Calm /\ faithful /\ cfg = [broker |-> "tcp", prefix |-> p] /\ tele[n] = v)
      => <>[](shown[p][n] = v)

(* The same without that condition: telemetry is published to MQTT.        *)
TelemetryIsPublished ==
  \A p \in Prefix, n \in Id, v \in Val :
    <>[](Calm /\ cfg = [broker |-> "tcp", prefix |-> p] /\ tele[n] = v)
      => <>[](shown[p][n] = v)

(* A cancelled context stops the service.                                  *)
CancelStops == ctxDone ~> pc = "stopped"

=============================================================================
