----------------------------- MODULE Application -----------------------------
(***************************************************************************)
(* The life of the process: main.go and Run of internal/app/app.go over    *)
(* ConfigStore.  Run loads the configuration and starts an errgroup of     *)
(* four goroutines: the collector, the publisher, the web server, and one  *)
(* that waits for the group's context and then shuts the server down.  It  *)
(* returns when all four have.                                             *)
(*                                                                         *)
(* The collector and the publisher stop once the context is done, as       *)
(* Collector and MqttService show; here they are running or not.  Requests *)
(* other than PUT /api/v1/config change nothing, but any request may keep  *)
(* Shutdown waiting until its deadline.                                    *)
(*                                                                         *)
(* External: net/http.  From Shutdown on no connection is accepted, and    *)
(* those in service are waited for.                                        *)
(***************************************************************************)
EXTENDS ConfigStore

VARIABLES
  part,    \* of the goroutines "pace", "mqtt", "web": "off", "running", "done"
  closer,  \* the fourth: "off", "waiting", "draining", "done"
  told,    \* SIGINT or SIGTERM has come
  failed   \* a goroutine has returned an error

lifeVars == <<part, closer, told, failed>>
appVars == <<configVars, lifeVars>>

Part == {"pace", "mqtt", "web"}

AppInit ==
  /\ ConfigInit
  /\ part = [p \in Part |-> "off"] /\ closer = "off"
  /\ told = FALSE /\ failed = FALSE

(* Mutant: the goroutines look at main's context, not at the group's.      *)
CancelledBySignal == told

(* groupCtx.Done(): main's context, or the first error of the group        *)
Cancelled == told \/ failed

(* A startup that fails ends the process before there is a group.          *)
Saves(w) ==
  /\ SaveStep(w)
  /\ told' = (told /\ phase' # "down")
  /\ UNCHANGED <<part, closer, failed>>

Load == Start /\ UNCHANGED lifeVars

(* group.Go, four times                                                    *)
Launch ==
  /\ phase = "up" /\ closer = "off"
  /\ part' = [p \in Part |-> "running"]
  /\ closer' = "waiting"
  /\ UNCHANGED <<configVars, told, failed>>

(* A connection that was accepted before the listener died or Shutdown     *)
(* began is served all the same: its body may be read, and its save begin, *)
(* only then.                                                              *)
Handles == closer \in {"waiting", "draining"}

(* handleUpdateConfig                                                      *)
Put(w, c) == Handles /\ UpdateConfig(w, c) /\ UNCHANGED lifeVars

Signal ==
  /\ phase # "down" /\ ~ told
  /\ told' = TRUE
  /\ UNCHANGED <<configVars, part, closer, failed>>

(* ListenAndServe returns an error: the port is taken, or accepting fails. *)
ListenFails ==
  /\ part["web"] = "running" /\ closer = "waiting"
  /\ part' = [part EXCEPT !["web"] = "done"]
  /\ failed' = TRUE
  /\ UNCHANGED <<configVars, closer, told>>

(* Run of the collector or of the publisher returns nil.  The loop over a  *)
(* console of 255 packs (service.go:630), which never looks at the         *)
(* context, is left out here; DiscoveryEnds of PackDiscovery names it.     *)
PartStops(p) ==
  /\ p \in {"pace", "mqtt"} /\ part[p] = "running" /\ Cancelled
  /\ part' = [part EXCEPT ![p] = "done"]
  /\ UNCHANGED <<configVars, closer, told, failed>>

ShutdownBegins ==
  /\ closer = "waiting" /\ Cancelled
  /\ closer' = "draining"
  /\ UNCHANGED <<configVars, part, told, failed>>

(* ListenAndServe returns ErrServerClosed as soon as Shutdown has begun.   *)
WebStops ==
  /\ part["web"] = "running" /\ closer \in {"draining", "done"}
  /\ part' = [part EXCEPT !["web"] = "done"]
  /\ UNCHANGED <<configVars, closer, told, failed>>

Serving == {w \in Writer : wpc[w] # "idle"}

(* Mutant: Close, which waits for nobody.                                  *)
CloseEnds ==
  /\ closer = "draining"
  /\ closer' = "done"
  /\ UNCHANGED <<configVars, part, told, failed>>

ShutdownEnds ==
  /\ closer = "draining" /\ Serving = {}
  /\ closer' = "done"
  /\ UNCHANGED <<configVars, part, told, failed>>

(* A request takes longer than Shutdown may.                               *)
ShutdownTimesOut ==
  /\ closer = "draining"
  /\ closer' = "done" /\ failed' = TRUE
  /\ UNCHANGED <<configVars, part, told>>

(* The process is over or killed: what still runs is cut.                  *)
Ends ==
  /\ Crash
  /\ part' = [p \in Part |-> "off"] /\ closer' = "off"
  /\ told' = FALSE /\ failed' = FALSE

(* group.Wait returns, and then main, with an error if there was one.      *)
Exit == closer = "done" /\ (\A p \in Part : part[p] = "done") /\ Ends

AppNext ==
  \/ Load \/ Launch \/ Signal \/ ListenFails
  \/ ShutdownBegins \/ WebStops \/ ShutdownEnds \/ ShutdownTimesOut \/ Exit \/ Ends
  \/ \E p \in Part : PartStops(p)
  \/ \E w \in Writer : Saves(w) \/ \E c \in Cfg : Put(w, c)

(* System calls return, goroutines run, and Shutdown has a deadline.       *)
AppFairness ==
  /\ WF_appVars(Saves(Starter)) /\ WF_appVars(Launch)
  /\ WF_appVars(PartStops("pace")) /\ WF_appVars(PartStops("mqtt"))
  /\ WF_appVars(ShutdownBegins) /\ WF_appVars(WebStops)
  /\ WF_appVars(ShutdownEnds \/ ShutdownTimesOut)
  /\ WF_appVars(Exit)

AppSpec == AppInit /\ [][AppNext]_appVars /\ AppFairness

-----------------------------------------------------------------------------
(* Properties *)

(* Every variable keeps its type, and a group runs only in a process that  *)
(* has loaded its configuration.                                           *)
AppTypeOK ==
  /\ ConfigTypeOK
  /\ part \in [Part -> {"off", "running", "done"}]
  /\ closer \in {"off", "waiting", "draining", "done"}
  /\ told \in BOOLEAN /\ failed \in BOOLEAN
  /\ closer # "off" => phase = "up"

(* Run returns nil only when it has cut no save short: none is under way,  *)
(* and if the saves came one at a time, the next process will load the     *)
(* configuration this one used.                                            *)
CleanExitKeepsConfig ==
  closer = "done" /\ ~ failed =>
    /\ Serving = {}
    /\ ~ overlapped => mem = Loaded(path)

(* One dead listener, or one signal at any moment from the start of the    *)
(* process, ends all of it, whatever requests are in service: as long as   *)
(* the collector stops when told (see PartStops).                          *)
EndsAsAWhole == (told \/ failed) ~> phase = "down"

=============================================================================
