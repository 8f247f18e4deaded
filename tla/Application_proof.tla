-------------------------- MODULE Application_proof --------------------------
(***************************************************************************)
(* For any configurations and any number of requests: the types, and what  *)
(* the process uses and leaves behind while its saves do not overlap.      *)
(***************************************************************************)
EXTENDS Application, TLAPS

(* One save at a time: where it is, and what the files say by then.        *)
OneSave ==
  /\ \A w, o \in Writer : wpc[w] # "idle" /\ wpc[o] # "idle" => w = o
  /\ path \in Cfg \cup {"empty", None}
  /\ \A w \in Writer :
       /\ wpc[w] = "write" => fd[w] = "tmp" /\ tmp = "empty"
       /\ wpc[w] = "rename" => tmp = want[w]
       /\ wpc[w] = "set" => path = want[w]
  /\ phase = "up" /\ (\A w \in Writer : wpc[w] # "set") => path # None /\ mem = Loaded(path)

ConfigInv ==
  /\ ConfigTypeOK
  /\ \A w \in Writer : wpc[w] # "idle" => want[w] \in Cfg /\ phase # "down"
  /\ ~ overlapped => OneSave

AppInv ==
  /\ AppTypeOK
  /\ ConfigInv
  /\ phase = "creating" => \A w \in Writer : wpc[w] # "idle" => w = Starter
  /\ closer = "done" /\ ~ failed => Serving = {}

-----------------------------------------------------------------------------

LEMMA ConfigInitHolds ==
  ASSUME ConfigInit
  PROVE  ConfigInv
BY NoneAssumption
   DEF ConfigInit, ConfigInv, ConfigTypeOK, OneSave, Content

(* A save begins; what it overlaps is no longer one at a time.             *)
LEMMA BeginsFacts ==
  ASSUME ConfigInv, NEW w \in Writer, NEW c \in Cfg, Begins(w, c), wpc[w] = "idle"
  PROVE  /\ wpc' = [wpc EXCEPT ![w] = "open"] /\ want' = [want EXCEPT ![w] = c]
         /\ wpc' \in [Writer -> {"idle", "open", "write", "rename", "set"}]
         /\ want' \in [Writer -> Cfg \cup {None}]
         /\ base' \in [Writer -> {None} \cup [disk : Content \cup {None}, mem : Cfg \cup {None}]]
         /\ overlapped' \in BOOLEAN
         /\ ~ overlapped' => ~ overlapped /\ \A o \in Writer : wpc[o] = "idle"
<1>1. /\ wpc' = [wpc EXCEPT ![w] = "open"] /\ want' = [want EXCEPT ![w] = c]
      /\ overlapped' = (overlapped \/ Others(w) # {})
  BY DEF Begins
<1>2. path \in Content \cup {None} /\ mem \in Cfg \cup {None}
  BY DEF ConfigInv, ConfigTypeOK
<1>3. base' \in [Writer -> {None} \cup [disk : Content \cup {None}, mem : Cfg \cup {None}]]
  BY <1>2 DEF Begins
<1>4. ~ overlapped' => ~ overlapped /\ \A o \in Writer : wpc[o] = "idle"
  BY <1>1 DEF Others
<1>5. overlapped' \in BOOLEAN
  BY <1>1
<1>. QED
  BY <1>1, <1>3, <1>4, <1>5 DEF ConfigInv, ConfigTypeOK

LEMMA StartStep ==
  ASSUME ConfigInv, Start
  PROVE  ConfigInv' /\ phase' # "down"
<1>1. \A w \in Writer : wpc[w] = "idle"
  BY DEF Start, ConfigInv
<1>2. CASE path = None
  <2>1. phase' = "creating" /\ Begins(Starter, Default) /\ UNCHANGED <<mem, path, tmp, fd>>
    BY <1>2 DEF Start
  <2>. USE StarterAssumption, DefaultAssumption
  <2>2. /\ wpc' = [wpc EXCEPT ![Starter] = "open"] /\ want' = [want EXCEPT ![Starter] = Default]
        /\ wpc' \in [Writer -> {"idle", "open", "write", "rename", "set"}]
        /\ want' \in [Writer -> Cfg \cup {None}]
        /\ base' \in [Writer -> {None} \cup [disk : Content \cup {None}, mem : Cfg \cup {None}]]
        /\ overlapped' \in BOOLEAN
    BY <1>1, <2>1, BeginsFacts
  <2>3. ConfigTypeOK'
    BY <1>1, <2>1, <2>2 DEF ConfigInv, ConfigTypeOK
  <2>4. \A w \in Writer : wpc'[w] # "idle" => want'[w] \in Cfg /\ phase' # "down"
    BY <1>1, <2>1, <2>2 DEF ConfigInv, ConfigTypeOK
  <2>5. OneSave'
    BY <1>1, <1>2, <2>1, <2>2 DEF ConfigInv, ConfigTypeOK, OneSave
  <2>. QED
    BY <2>1, <2>3, <2>4, <2>5 DEF ConfigInv
<1>3. CASE path # None
  <2>1. /\ mem' \in IF path = "torn" THEN Cfg ELSE {Loaded(path)}
        /\ phase' = "up" /\ UNCHANGED <<path, tmp, fd, wpc, want, base, overlapped>>
    BY <1>3 DEF Start
  <2>2. mem' \in Cfg
    BY <1>3, <2>1, DefaultAssumption DEF Loaded, ConfigInv, ConfigTypeOK, Content
  <2>3. ConfigTypeOK'
    BY <2>1, <2>2 DEF ConfigInv, ConfigTypeOK
  <2>4. ~ overlapped => OneSave'
    BY <1>1, <1>3, <2>1, NoneAssumption DEF ConfigInv, OneSave, Loaded
  <2>. QED
    BY <1>1, <2>1, <2>3, <2>4 DEF ConfigInv
<1>. QED
  BY <1>2, <1>3

LEMMA UpdateStep ==
  ASSUME ConfigInv, NEW w \in Writer, NEW c \in Cfg, UpdateConfig(w, c)
  PROVE  ConfigInv'
<1>1. /\ phase = "up" /\ wpc[w] = "idle" /\ Begins(w, c)
      /\ UNCHANGED <<phase, mem, path, tmp, fd>>
  BY DEF UpdateConfig
<1>2. /\ wpc' = [wpc EXCEPT ![w] = "open"] /\ want' = [want EXCEPT ![w] = c]
      /\ wpc' \in [Writer -> {"idle", "open", "write", "rename", "set"}]
      /\ want' \in [Writer -> Cfg \cup {None}]
      /\ base' \in [Writer -> {None} \cup [disk : Content \cup {None}, mem : Cfg \cup {None}]]
      /\ overlapped' \in BOOLEAN
      /\ ~ overlapped' => ~ overlapped /\ \A o \in Writer : wpc[o] = "idle"
  BY <1>1, BeginsFacts
<1>3. ConfigTypeOK'
  BY <1>1, <1>2 DEF ConfigInv, ConfigTypeOK
<1>4. \A o \in Writer : wpc'[o] # "idle" => want'[o] \in Cfg /\ phase' # "down"
  BY <1>1, <1>2 DEF ConfigInv, ConfigTypeOK
<1>5. ~ overlapped' => OneSave'
  BY <1>1, <1>2 DEF ConfigInv, ConfigTypeOK, OneSave, Loaded
<1>. QED
  BY <1>3, <1>4, <1>5 DEF ConfigInv

LEMMA OpenStep ==
  ASSUME ConfigInv, NEW w \in Writer, OpenTmp(w)
  PROVE  ConfigInv'
<1>. USE DEF OpenTmp
<1>1. ConfigTypeOK'
  BY NoneAssumption DEF ConfigInv, ConfigTypeOK, Content
<1>2. \A o \in Writer : wpc'[o] # "idle" => want'[o] \in Cfg /\ phase' # "down"
  BY DEF ConfigInv, ConfigTypeOK
<1>3. ~ overlapped' => OneSave'
  BY DEF ConfigInv, ConfigTypeOK, OneSave, Loaded
<1>. QED
  BY <1>1, <1>2, <1>3 DEF ConfigInv

LEMMA WriteStep ==
  ASSUME ConfigInv, NEW w \in Writer, WriteTmp(w)
  PROVE  ConfigInv'
<1>1. /\ wpc[w] = "write" /\ wpc' = [wpc EXCEPT ![w] = "rename"]
      /\ fd' = [fd EXCEPT ![w] = None]
      /\ UNCHANGED <<phase, mem, want, base, overlapped>>
  BY DEF WriteTmp
<1>2. want[w] \in Cfg
  BY <1>1 DEF ConfigInv
<1>3. /\ tmp' \in Content \cup {None} /\ path' \in Content \cup {None}
      /\ fd[w] = "tmp" => path' = path
      /\ fd[w] = "tmp" /\ tmp = "empty" => tmp' = want[w]
  BY <1>2 DEF WriteTmp, Over, ConfigInv, ConfigTypeOK, Content
<1>4. ConfigTypeOK'
  BY <1>1, <1>3 DEF ConfigInv, ConfigTypeOK
<1>5. \A o \in Writer : wpc'[o] # "idle" => want'[o] \in Cfg /\ phase' # "down"
  BY <1>1 DEF ConfigInv, ConfigTypeOK
<1>6. ~ overlapped' => OneSave'
  BY <1>1, <1>3 DEF ConfigInv, ConfigTypeOK, OneSave, Loaded
<1>. QED
  BY <1>4, <1>5, <1>6 DEF ConfigInv

LEMMA RenameStep ==
  ASSUME ConfigInv, NEW w \in Writer, RenameTmp(w)
  PROVE  ConfigInv'
<1>1. /\ wpc[w] = "rename" /\ tmp # None /\ path' = tmp /\ tmp' = None
      /\ wpc' = [wpc EXCEPT ![w] = "set"]
      /\ UNCHANGED <<phase, mem, want, base, overlapped>>
  BY DEF RenameTmp
<1>2. /\ fd' \in [Writer -> {"tmp", "path", "gone", None}]
      /\ \A o \in Writer : fd'[o] # None <=> fd[o] # None
  BY NoneAssumption DEF RenameTmp, ConfigInv, ConfigTypeOK
<1>3. ConfigTypeOK'
  BY <1>1, <1>2 DEF ConfigInv, ConfigTypeOK
<1>4. \A o \in Writer : wpc'[o] # "idle" => want'[o] \in Cfg /\ phase' # "down"
  BY <1>1 DEF ConfigInv, ConfigTypeOK
<1>5. ASSUME ~ overlapped'
      PROVE  OneSave'
  <2>1. OneSave /\ want[w] \in Cfg
    BY <1>1, <1>5 DEF ConfigInv
  <2>2. \A o \in Writer : o # w => wpc[o] = "idle"
    BY <1>1, <2>1 DEF OneSave
  <2>3. path' = want[w] /\ wpc'[w] = "set"
    BY <1>1, <2>1 DEF OneSave, ConfigInv, ConfigTypeOK
  <2>. QED
    BY <1>1, <2>1, <2>2, <2>3 DEF OneSave, ConfigInv, ConfigTypeOK
<1>. QED
  BY <1>3, <1>4, <1>5 DEF ConfigInv

LEMMA SetStep ==
  ASSUME ConfigInv, NEW w \in Writer, SetConfig(w)
  PROVE  ConfigInv' /\ phase' = "up"
<1>1. /\ wpc[w] = "set" /\ mem' = want[w] /\ phase' = "up"
      /\ wpc' = [wpc EXCEPT ![w] = "idle"] /\ want' = [want EXCEPT ![w] = None]
      /\ base' = [base EXCEPT ![w] = None]
      /\ UNCHANGED <<path, tmp, fd, overlapped>>
  BY DEF SetConfig
<1>2. want[w] \in Cfg
  BY <1>1 DEF ConfigInv
<1>3. ConfigTypeOK'
  BY <1>1, <1>2 DEF ConfigInv, ConfigTypeOK
<1>4. \A o \in Writer : wpc'[o] # "idle" => want'[o] \in Cfg /\ phase' # "down"
  BY <1>1 DEF ConfigInv, ConfigTypeOK
<1>5. ASSUME ~ overlapped'
      PROVE  OneSave'
  <2>1. OneSave
    BY <1>1, <1>5 DEF ConfigInv
  <2>2. \A o \in Writer : wpc'[o] = "idle"
    BY <1>1, <2>1 DEF OneSave, ConfigInv, ConfigTypeOK
  <2>3. path = want[w]
    BY <1>1, <2>1 DEF OneSave
  <2>4. path' # None /\ mem' = Loaded(path')
    BY <1>1, <1>2, <2>3, NoneAssumption DEF Loaded
  <2>5. path' \in Cfg \cup {"empty", None}
    BY <1>1, <2>1 DEF OneSave
  <2>. QED
    BY <2>2, <2>4, <2>5 DEF OneSave
<1>. QED
  BY <1>1, <1>3, <1>4, <1>5 DEF ConfigInv

LEMMA FailStep ==
  ASSUME ConfigInv, NEW w \in Writer, SaveFails(w),
         phase = "creating" => \A o \in Writer : wpc[o] # "idle" => o = w
  PROVE  ConfigInv'
<1>1. /\ wpc[w] \in {"open", "write", "rename"}
      /\ wpc' = [wpc EXCEPT ![w] = "idle"] /\ want' = [want EXCEPT ![w] = None]
      /\ fd' = [fd EXCEPT ![w] = None] /\ base' = [base EXCEPT ![w] = None]
      /\ phase' = IF phase = "creating" THEN "down" ELSE phase
      /\ UNCHANGED <<mem, overlapped>>
  BY DEF SaveFails
<1>2. /\ tmp' \in Content \cup {None} /\ path' \in Content \cup {None}
      /\ fd[w] # "path" => path' = path
  BY DEF SaveFails, ConfigInv, ConfigTypeOK, Content
<1>3. ConfigTypeOK'
  BY <1>1, <1>2 DEF ConfigInv, ConfigTypeOK
<1>4. \A o \in Writer : wpc'[o] # "idle" => want'[o] \in Cfg /\ phase' # "down"
  BY <1>1 DEF ConfigInv, ConfigTypeOK
<1>5. ASSUME ~ overlapped'
      PROVE  OneSave'
  <2>1. OneSave
    BY <1>1, <1>5 DEF ConfigInv
  <2>2. \A o \in Writer : wpc'[o] = "idle"
    BY <1>1, <2>1 DEF OneSave, ConfigInv, ConfigTypeOK
  <2>3. fd[w] # "path"
    <3>1. CASE wpc[w] = "write"
      BY <2>1, <3>1 DEF OneSave
    <3>2. CASE wpc[w] # "write"
      BY <3>2, NoneAssumption DEF ConfigInv, ConfigTypeOK
    <3>. QED
      BY <3>1, <3>2
  <2>4. path' = path
    BY <1>2, <2>3
  <2>5. \A o \in Writer : wpc[o] # "set"
    BY <1>1, <2>1 DEF OneSave
  <2>6. phase' = "up" => path' # None /\ mem' = Loaded(path')
    BY <1>1, <2>1, <2>4, <2>5 DEF OneSave, Loaded
  <2>. QED
    BY <2>1, <2>2, <2>4, <2>6 DEF OneSave
<1>. QED
  BY <1>3, <1>4, <1>5 DEF ConfigInv

LEMMA CrashStep ==
  ASSUME ConfigInv, Crash
  PROVE  ConfigInv' /\ phase' = "down"
<1>1. ConfigTypeOK'
  BY DEF Crash, ConfigInv, ConfigTypeOK
<1>2. ~ overlapped' => OneSave'
  BY DEF Crash, ConfigInv, OneSave
<1>. QED
  BY <1>1, <1>2 DEF Crash, ConfigInv

(* A step of a save changes the life of no other save.                     *)
LEMMA SavesFacts ==
  ASSUME AppInv, NEW w \in Writer, SaveStep(w)
  PROVE  /\ ConfigInv'
         /\ wpc[w] # "idle" /\ \A o \in Writer : o # w => wpc'[o] = wpc[o]
         /\ phase' = phase \/ (phase = "creating" /\ phase' \in {"up", "down"})
         /\ phase' = "creating" => phase = "creating"
<1>1. wpc[w] # "idle" /\ \A o \in Writer : o # w => wpc'[o] = wpc[o]
  BY DEF SaveStep, OpenTmp, WriteTmp, RenameTmp, SetConfig, SaveFails,
         AppInv, ConfigInv, ConfigTypeOK
<1>2. phase \in {"creating", "up"} /\ want[w] \in Cfg
  BY <1>1 DEF AppInv, ConfigInv, ConfigTypeOK
<1>3. phase = "creating" => \A o \in Writer : wpc[o] # "idle" => o = w
  BY <1>1 DEF AppInv
<1>4. ConfigInv'
  BY <1>3, OpenStep, WriteStep, RenameStep, SetStep, FailStep DEF SaveStep, AppInv
<1>5. phase' = phase \/ (phase = "creating" /\ phase' \in {"up", "down"})
  BY <1>2 DEF SaveStep, OpenTmp, WriteTmp, RenameTmp, SetConfig, SaveFails
<1>. QED
  BY <1>1, <1>2, <1>4, <1>5

(* Steps that leave the files alone                                        *)
LEMMA LifeStep ==
  ASSUME AppInv, UNCHANGED configVars,
         part' \in [Part -> {"off", "running", "done"}],
         closer' \in {"off", "waiting", "draining", "done"},
         told' \in BOOLEAN, failed' \in BOOLEAN,
         closer' # "off" => phase = "up",
         closer' = "done" /\ ~ failed' => Serving = {}
  PROVE  AppInv'
<1>1. ConfigInv'
  BY DEF AppInv, configVars, ConfigInv, ConfigTypeOK, OneSave, Loaded
<1>2. AppTypeOK'
  BY <1>1 DEF AppTypeOK, ConfigInv, configVars
<1>3. Serving' = Serving /\ UNCHANGED <<phase, wpc>>
  BY DEF configVars, Serving
<1>. QED
  BY <1>1, <1>2, <1>3 DEF AppInv

(* Every step keeps the invariant.                                         *)
LEMMA AppStep ==
  ASSUME AppInv, [AppNext]_appVars
  PROVE  AppInv'
<1>. USE DEF lifeVars
<1>t. /\ part \in [Part -> {"off", "running", "done"}]
      /\ closer \in {"off", "waiting", "draining", "done"}
      /\ told \in BOOLEAN /\ failed \in BOOLEAN
      /\ closer # "off" => phase = "up"
      /\ closer = "done" /\ ~ failed => Serving = {}
  BY DEF AppInv, AppTypeOK
<1>1. CASE Load
  <2>1. ConfigInv /\ Start /\ UNCHANGED lifeVars
    BY <1>1 DEF Load, AppInv
  <2>2. ConfigInv' /\ closer = "off"
    BY <1>t, <2>1, StartStep DEF Start
  <2>3. AppTypeOK'
    BY <1>t, <2>1, <2>2 DEF AppTypeOK, ConfigInv
  <2>4. phase' = "creating" => \A w \in Writer : wpc'[w] # "idle" => w = Starter
    <3>1. \A w \in Writer : wpc[w] = "idle"
      BY <2>1 DEF Start, ConfigInv
    <3>2. wpc' = wpc \/ wpc' = [wpc EXCEPT ![Starter] = "open"]
      BY <2>1 DEF Start, Begins
    <3>. QED
      BY <2>1, <3>1, <3>2 DEF ConfigInv, ConfigTypeOK
  <2>. QED
    BY <2>1, <2>2, <2>3, <2>4 DEF AppInv
<1>2. CASE Launch
  <2>1. phase = "up" /\ closer = "off" /\ closer' = "waiting"
        /\ part' \in [Part -> {"off", "running", "done"}]
        /\ UNCHANGED <<configVars, told, failed>>
    BY <1>2 DEF Launch
  <2>. QED
    BY <1>t, <2>1, LifeStep
<1>3. CASE Signal
  BY <1>t, <1>3, LifeStep DEF Signal
<1>4. CASE ListenFails
  <2>1. part' \in [Part -> {"off", "running", "done"}]
    BY <1>t, <1>4 DEF ListenFails
  <2>. QED
    BY <1>t, <1>4, <2>1, LifeStep DEF ListenFails
<1>5. CASE ShutdownBegins
  BY <1>t, <1>5, LifeStep DEF ShutdownBegins
<1>6. CASE WebStops
  <2>1. part' \in [Part -> {"off", "running", "done"}]
    BY <1>t, <1>6 DEF WebStops
  <2>. QED
    BY <1>t, <1>6, <2>1, LifeStep DEF WebStops
<1>7. CASE ShutdownEnds
  BY <1>t, <1>7, LifeStep DEF ShutdownEnds
<1>8. CASE ShutdownTimesOut
  BY <1>t, <1>8, LifeStep DEF ShutdownTimesOut
<1>9. CASE Exit \/ Ends
  <2>1. /\ Crash /\ closer' = "off" /\ told' = FALSE /\ failed' = FALSE
        /\ part' \in [Part -> {"off", "running", "done"}]
    BY <1>9 DEF Exit, Ends
  <2>2. ConfigInv' /\ phase' = "down"
    BY <2>1, CrashStep DEF AppInv
  <2>3. AppTypeOK'
    BY <2>1, <2>2 DEF AppTypeOK, ConfigInv
  <2>. QED
    BY <2>1, <2>2, <2>3 DEF AppInv
<1>10. ASSUME NEW p \in Part, PartStops(p)
       PROVE  AppInv'
  <2>1. part' \in [Part -> {"off", "running", "done"}]
    BY <1>t, <1>10 DEF PartStops
  <2>. QED
    BY <1>t, <1>10, <2>1, LifeStep DEF PartStops
<1>11. ASSUME NEW w \in Writer, Saves(w)
       PROVE  AppInv'
  <2>1. SaveStep(w) /\ told' = (told /\ phase' # "down") /\ UNCHANGED <<part, closer, failed>>
    BY <1>11 DEF Saves
  <2>2. /\ ConfigInv'
        /\ wpc[w] # "idle" /\ \A o \in Writer : o # w => wpc'[o] = wpc[o]
        /\ phase' = phase \/ (phase = "creating" /\ phase' \in {"up", "down"})
        /\ phase' = "creating" => phase = "creating"
    BY <2>1, SavesFacts
  <2>3. told' \in BOOLEAN
    BY <1>t, <2>1
  <2>4. closer' # "off" => phase' = "up"
    BY <1>t, <2>1, <2>2
  <2>5. AppTypeOK'
    BY <1>t, <2>1, <2>2, <2>3, <2>4 DEF AppTypeOK, ConfigInv
  <2>6. phase' = "creating" => \A o \in Writer : wpc'[o] # "idle" => o = Starter
    BY <2>2 DEF AppInv
  <2>7. closer' = "done" /\ ~ failed' => Serving' = {}
    BY <1>t, <2>1, <2>2 DEF Serving
  <2>. QED
    BY <2>2, <2>5, <2>6, <2>7 DEF AppInv
<1>12. ASSUME NEW w \in Writer, NEW c \in Cfg, Put(w, c)
       PROVE  AppInv'
  <2>1. closer \in {"waiting", "draining"} /\ UpdateConfig(w, c) /\ UNCHANGED lifeVars
    BY <1>12 DEF Put, Handles
  <2>2. ConfigInv' /\ phase' = "up"
    BY <2>1, UpdateStep DEF AppInv, UpdateConfig
  <2>3. AppTypeOK'
    BY <1>t, <2>1, <2>2 DEF AppTypeOK, ConfigInv
  <2>. QED
    BY <2>1, <2>2, <2>3 DEF AppInv
<1>13. CASE UNCHANGED appVars
  BY <1>t, <1>13, LifeStep DEF appVars
<1>. QED
  BY <1>1, <1>2, <1>3, <1>4, <1>5, <1>6, <1>7, <1>8, <1>9, <1>10, <1>11, <1>12, <1>13
     DEF AppNext

-----------------------------------------------------------------------------

LEMMA AppInvariant == AppSpec => []AppInv
<1>1. AppInit => AppInv
  BY ConfigInitHolds, NoneAssumption
     DEF AppInit, AppInv, AppTypeOK, ConfigInv, ConfigInit
<1>2. AppInv /\ [AppNext]_appVars => AppInv'
  BY AppStep
<1>. QED
  BY <1>1, <1>2, PTL DEF AppSpec

(* Every variable keeps its type, whatever the process lives through.      *)
THEOREM AppTypeCorrect == AppSpec => []AppTypeOK
<1>1. AppInv => AppTypeOK
  BY DEF AppInv
<1>. QED
  BY <1>1, AppInvariant, PTL

(* Until two saves overlap, the process uses what a restart would find.    *)
THEOREM MemoryIsDisk == AppSpec => []MemoryMatchesDisk
<1>1. AppInv => MemoryMatchesDisk
  BY DEF AppInv, ConfigInv, OneSave, MemoryMatchesDisk
<1>. QED
  BY <1>1, AppInvariant, PTL

(* Run returns nil only when it has cut no save short.                     *)
THEOREM CleanExit == AppSpec => []CleanExitKeepsConfig
<1>1. AppInv => CleanExitKeepsConfig
  <2>1. SUFFICES ASSUME AppInv, closer = "done", ~ failed
        PROVE  Serving = {} /\ (~ overlapped => mem = Loaded(path))
    BY DEF CleanExitKeepsConfig
  <2>2. Serving = {} /\ phase = "up"
    BY <2>1 DEF AppInv, AppTypeOK
  <2>3. \A w \in Writer : wpc[w] # "set"
    BY <2>2 DEF Serving
  <2>. QED
    BY <2>1, <2>2, <2>3 DEF AppInv, ConfigInv, OneSave
<1>. QED
  BY <1>1, AppInvariant, PTL

(* Every step is one the abstract configuration takes, or none.            *)
LEMMA AtomicStep ==
  ASSUME AppInv, [AppNext]_appVars
  PROVE  [Atomic!AtomicNext]_Atomic!atomicVars
<1>1. CASE overlapped' = TRUE
  BY <1>1 DEF Atomic!AtomicNext
<1>2. CASE overlapped' # TRUE
  <2>1. overlapped' = FALSE
    BY <1>2, AppStep DEF AppInv, ConfigInv, ConfigTypeOK
  <2>2. SUFFICES \/ Atomic!Replace \/ Atomic!Adopt \/ Atomic!Die
                 \/ UNCHANGED <<path, mem, overlapped>>
    BY <2>1 DEF Atomic!AtomicNext, Atomic!atomicVars
  <2>3. CASE Load
    <3>1. Start
      BY <2>3 DEF Load
    <3>2. CASE path = None
      <4>1. Begins(Starter, Default) /\ UNCHANGED <<mem, path>>
        BY <3>1, <3>2 DEF Start
      <4>2. overlapped = FALSE
        BY <2>1, <4>1 DEF Begins, AppInv, ConfigInv, ConfigTypeOK
      <4>. QED
        BY <2>1, <4>1, <4>2
    <3>3. CASE path # None
      <4>1. mem' \in (IF path = "torn" THEN Cfg ELSE {Loaded(path)}) /\ UNCHANGED <<path, overlapped>>
        BY <3>1, <3>3 DEF Start
      <4>2. path # "torn"
        BY <2>1, <3>3, <4>1, NoneAssumption DEF AppInv, ConfigInv, OneSave
      <4>. QED
        BY <3>3, <4>1, <4>2 DEF Atomic!Adopt, Loaded
    <3>. QED
      BY <3>2, <3>3
  <2>4. CASE Exit \/ Ends
    BY <2>4 DEF Exit, Ends, Crash, Atomic!Die
  <2>5. ASSUME NEW w \in Writer, Saves(w)
        PROVE  Atomic!Replace \/ Atomic!Adopt \/ UNCHANGED <<path, mem, overlapped>>
    <3>1. SaveStep(w)
      BY <2>5 DEF Saves
    <3>2. overlapped = FALSE
      BY <2>1, <3>1 DEF SaveStep, OpenTmp, WriteTmp, RenameTmp, SetConfig, SaveFails
    <3>3. OneSave /\ ConfigTypeOK /\ \A o \in Writer : wpc[o] # "idle" => want[o] \in Cfg
      BY <3>2 DEF AppInv, ConfigInv
    <3>4. CASE OpenTmp(w)
      BY <3>4 DEF OpenTmp
    <3>5. CASE WriteTmp(w)
      <4>1. fd[w] = "tmp"
        BY <3>3, <3>5 DEF WriteTmp, OneSave
      <4>. QED
        BY <3>5, <4>1 DEF WriteTmp
    <3>6. CASE RenameTmp(w)
      <4>1. path' = want[w] /\ want[w] \in Cfg /\ mem' = mem
        BY <3>3, <3>6 DEF RenameTmp, OneSave
      <4>. QED
        BY <4>1 DEF Atomic!Replace
    <3>7. CASE SetConfig(w)
      <4>1. path = want[w] /\ want[w] \in Cfg /\ mem' = want[w] /\ path' = path
        BY <3>3, <3>7 DEF SetConfig, OneSave
      <4>2. path # "empty" /\ path # None
        BY <4>1, NoneAssumption
      <4>. QED
        BY <4>1, <4>2 DEF Atomic!Adopt
    <3>8. CASE SaveFails(w)
      <4>1. fd[w] # "path"
        <5>1. CASE wpc[w] = "write"
          BY <3>3, <5>1 DEF OneSave
        <5>2. CASE wpc[w] # "write"
          BY <3>3, <5>2, NoneAssumption DEF ConfigTypeOK
        <5>. QED
          BY <5>1, <5>2
      <4>. QED
        BY <3>8, <4>1 DEF SaveFails
    <3>. QED
      BY <3>1, <3>4, <3>5, <3>6, <3>7, <3>8 DEF SaveStep
  <2>6. ASSUME NEW w \in Writer, NEW c \in Cfg, Put(w, c)
        PROVE  UNCHANGED <<path, mem, overlapped>>
    <3>1. Begins(w, c) /\ UNCHANGED <<path, mem>>
      BY <2>6 DEF Put, UpdateConfig
    <3>2. overlapped = FALSE
      BY <2>1, <3>1 DEF Begins, AppInv, ConfigInv, ConfigTypeOK
    <3>. QED
      BY <2>1, <3>1, <3>2
  <2>7. CASE \/ Launch \/ Signal \/ ListenFails \/ ShutdownBegins \/ WebStops
             \/ ShutdownEnds \/ ShutdownTimesOut \/ (\E p \in Part : PartStops(p))
             \/ UNCHANGED appVars
    BY <2>7 DEF Launch, Signal, ListenFails, ShutdownBegins, WebStops, ShutdownEnds,
                ShutdownTimesOut, PartStops, appVars, configVars
  <2>. QED
    BY <2>3, <2>4, <2>5, <2>6, <2>7 DEF AppNext
<1>. QED
  BY <1>1, <1>2

(* The file and its copy in memory do what AtomicConfig promises: as long  *)
(* as saves do not overlap, the file is replaced as a whole and a restart  *)
(* finds what was saved last.                                              *)
THEOREM SavesRefine == AppSpec => SavesAtomically
<1>1. AppInit => Atomic!AtomicInit
  BY DEF AppInit, ConfigInit, Atomic!AtomicInit
<1>2. AppInv /\ [AppNext]_appVars => [Atomic!AtomicNext]_Atomic!atomicVars
  BY AtomicStep
<1>. QED
  BY <1>1, <1>2, AppInvariant, PTL DEF AppSpec, SavesAtomically, Atomic!AtomicSpec

-----------------------------------------------------------------------------
(* A save that is alone, after any mess: what the two files say at each    *)
(* point of it, against what it started from.                              *)
LoneSave(w) ==
  /\ \A o \in Writer : wpc[o] # "idle" => o = w
  /\ mem = base[w].mem
  /\ wpc[w] \in {"open", "write", "rename"} => path = base[w].disk
  /\ wpc[w] = "write" => fd[w] = "tmp" /\ tmp = "empty"
  /\ wpc[w] = "rename" => tmp = want[w]
  /\ wpc[w] = "set" => path = want[w]

LoneInv ==
  \A w \in Writer : base[w] # None =>
    /\ wpc[w] # "idle" => LoneSave(w)
    /\ base[w].disk \in Content \cup {None}

(* Only a save that finds all others idle is alone when it begins.         *)
LEMMA LoneBegins ==
  ASSUME AppInv, NEW v \in Writer, NEW c \in Cfg, Begins(v, c), wpc[v] = "idle",
         UNCHANGED <<mem, path>>
  PROVE  LoneInv'
<1>. SUFFICES ASSUME NEW w \in Writer, base'[w] # None
              PROVE  /\ wpc'[w] # "idle" => LoneSave(w)'
                     /\ base'[w].disk \in Content \cup {None}
  BY DEF LoneInv
<1>1. w = v /\ Others(v) = {} /\ base'[w] = [disk |-> path, mem |-> mem]
  BY DEF Begins
<1>2. wpc' = [wpc EXCEPT ![v] = "open"]
  BY DEF Begins
<1>3. wpc \in [Writer -> {"idle", "open", "write", "rename", "set"}]
        /\ path \in Content \cup {None}
  BY DEF AppInv, AppTypeOK, ConfigTypeOK
<1>4. base'[w].disk = path /\ base'[w].mem = mem
  BY <1>1
<1>5. wpc'[w] = "open" /\ \A o \in Writer : wpc'[o] # "idle" => o = w
  BY <1>1, <1>2, <1>3 DEF Others
<1>. QED
  BY <1>3, <1>4, <1>5 DEF LoneSave

(* One system call of a save, or its assignment.                           *)
LEMMA LoneSaves ==
  ASSUME AppInv, LoneInv, NEW v \in Writer, SaveStep(v)
  PROVE  LoneInv'
<1>. SUFFICES ASSUME NEW w \in Writer, base'[w] # None
              PROVE  /\ wpc'[w] # "idle" => LoneSave(w)'
                     /\ base'[w].disk \in Content \cup {None}
  BY DEF LoneInv
<1>1. /\ wpc \in [Writer -> {"idle", "open", "write", "rename", "set"}]
      /\ fd \in [Writer -> {"tmp", "path", "gone", None}]
      /\ base \in [Writer -> {None} \cup [disk : Content \cup {None}, mem : Cfg \cup {None}]]
      /\ wpc[v] # "idle"
  BY DEF AppInv, AppTypeOK, ConfigTypeOK, SaveStep, OpenTmp, WriteTmp, RenameTmp, SetConfig,
         SaveFails
<1>2. base'[w] = base[w]
  BY <1>1 DEF SaveStep, OpenTmp, WriteTmp, RenameTmp, SetConfig, SaveFails
<1>3. base[w].disk \in Content \cup {None}
  BY <1>2 DEF LoneInv
<1>4. \A o \in Writer : o # v => wpc'[o] = wpc[o]
  BY <1>1 DEF SaveStep, OpenTmp, WriteTmp, RenameTmp, SetConfig, SaveFails
<1>5. ASSUME wpc'[w] # "idle"
      PROVE  LoneSave(w)'
  <2>1. wpc[w] # "idle"
    BY <1>1, <1>4, <1>5
  <2>2. LoneSave(w)
    BY <1>2, <2>1 DEF LoneInv
  <2>3. w = v
    BY <1>1, <2>2 DEF LoneSave
  <2>4. \A o \in Writer : wpc'[o] # "idle" => o = w
    BY <1>4, <2>2, <2>3 DEF LoneSave
  <2>5. CASE OpenTmp(v)
    BY <1>1, <1>2, <2>2, <2>3, <2>4, <2>5 DEF OpenTmp, LoneSave
  <2>6. CASE WriteTmp(v)
    <3>1. wpc[w] = "write" /\ fd[w] = "tmp" /\ tmp = "empty"
      BY <2>2, <2>3, <2>6 DEF WriteTmp, LoneSave
    <3>2. tmp' = want[w] /\ path' = path
      BY <2>3, <2>6, <3>1 DEF WriteTmp, Over
    <3>3. wpc'[w] = "rename" /\ want' = want /\ mem' = mem
      BY <1>1, <2>3, <2>6 DEF WriteTmp
    <3>4. mem = base[w].mem /\ path = base[w].disk
      BY <2>2, <3>1 DEF LoneSave
    <3>. QED
      BY <1>2, <2>4, <3>2, <3>3, <3>4 DEF LoneSave
  <2>7. CASE RenameTmp(v)
    BY <1>1, <1>2, <2>2, <2>3, <2>4, <2>7 DEF RenameTmp, LoneSave
  <2>8. CASE SetConfig(v) \/ SaveFails(v)
    BY <1>1, <1>5, <2>3, <2>8 DEF SetConfig, SaveFails
  <2>. QED
    BY <2>5, <2>6, <2>7, <2>8 DEF SaveStep
<1>. QED
  BY <1>2, <1>3, <1>5

LEMMA LoneStep ==
  ASSUME AppInv, LoneInv, [AppNext]_appVars
  PROVE  LoneInv'
<1>1. CASE Load
  <2>1. CASE path = None
    <3>1. Begins(Starter, Default) /\ UNCHANGED <<mem, path>> /\ phase = "down"
      BY <1>1, <2>1 DEF Load, Start
    <3>2. wpc[Starter] = "idle"
      BY <3>1, StarterAssumption DEF AppInv, ConfigInv
    <3>. QED
      BY <3>1, <3>2, LoneBegins, StarterAssumption, DefaultAssumption
  <2>2. CASE path # None
    <3>1. UNCHANGED <<wpc, base>> /\ phase = "down"
      BY <1>1, <2>2 DEF Load, Start
    <3>2. \A w \in Writer : wpc'[w] = "idle"
      BY <3>1 DEF AppInv, ConfigInv
    <3>. QED
      BY <3>1, <3>2 DEF LoneInv
  <2>. QED
    BY <2>1, <2>2
<1>2. CASE Exit \/ Ends
  BY <1>2 DEF Exit, Ends, Crash, LoneInv
<1>3. CASE \E w \in Writer : Saves(w)
  BY <1>3, LoneSaves DEF Saves
<1>4. ASSUME NEW w \in Writer, NEW c \in Cfg, Put(w, c)
      PROVE  LoneInv'
  BY <1>4, LoneBegins DEF Put, UpdateConfig
<1>5. CASE \/ Launch \/ Signal \/ ListenFails \/ ShutdownBegins \/ WebStops
           \/ ShutdownEnds \/ ShutdownTimesOut \/ (\E p \in Part : PartStops(p))
           \/ UNCHANGED appVars
  <2>1. UNCHANGED configVars
    BY <1>5 DEF Launch, Signal, ListenFails, ShutdownBegins, WebStops, ShutdownEnds,
                ShutdownTimesOut, PartStops, appVars
  <2>. QED
    BY <2>1 DEF configVars, LoneInv, LoneSave
<1>. QED
  BY <1>1, <1>2, <1>3, <1>4, <1>5 DEF AppNext

(* The step that ends a save which is alone                                *)
LEMMA LoneEnd ==
  ASSUME AppInv, LoneInv, [AppNext]_appVars, NEW w \in Writer,
         wpc[w] # "idle", wpc'[w] = "idle", phase' = "up", base[w] # None
  PROVE  \/ path' = want[w] /\ mem' = want[w]
         \/ path' = base[w].disk /\ mem' = base[w].mem
<1>1. LoneSave(w) /\ ConfigTypeOK
  BY DEF LoneInv, AppInv, AppTypeOK
<1>2. PICK v \in Writer : SaveStep(v)
  <2>1. ~ (Load /\ path = None) /\ ~ (\E o \in Writer, c \in Cfg : Put(o, c))
    BY <1>1 DEF Load, Start, Put, UpdateConfig, Begins, ConfigTypeOK
  <2>2. ~ (Load /\ path # None) /\ ~ Exit /\ ~ Ends
    BY DEF Load, Start, Exit, Ends, Crash
  <2>3. wpc' # wpc
    OBVIOUS
  <2>4. ~ (\/ Launch \/ Signal \/ ListenFails \/ ShutdownBegins \/ WebStops
           \/ ShutdownEnds \/ ShutdownTimesOut \/ (\E p \in Part : PartStops(p))
           \/ UNCHANGED appVars)
    BY <2>3 DEF Launch, Signal, ListenFails, ShutdownBegins, WebStops, ShutdownEnds,
                ShutdownTimesOut, PartStops, appVars, configVars
  <2>. QED
    BY <2>1, <2>2, <2>4 DEF AppNext, Saves
<1>3. v = w
  BY <1>1, <1>2 DEF LoneSave, SaveStep, OpenTmp, WriteTmp, RenameTmp, SetConfig, SaveFails
<1>4. CASE SetConfig(w)
  BY <1>1, <1>4 DEF SetConfig, LoneSave
<1>5. CASE SaveFails(w)
  <2>1. fd[w] # "path"
    <3>1. CASE wpc[w] = "write"
      BY <1>1, <3>1 DEF LoneSave
    <3>2. CASE wpc[w] # "write"
      BY <1>1, <3>2, NoneAssumption DEF ConfigTypeOK
    <3>. QED
      BY <3>1, <3>2
  <2>. QED
    BY <1>1, <1>5, <2>1 DEF SaveFails, LoneSave
<1>6. CASE OpenTmp(w) \/ WriteTmp(w) \/ RenameTmp(w)
  BY <1>1, <1>6 DEF OpenTmp, WriteTmp, RenameTmp, ConfigTypeOK
<1>. QED
  BY <1>2, <1>3, <1>4, <1>5, <1>6 DEF SaveStep

(* Whatever overlapping saves have left behind, one that nobody overlaps   *)
(* is all or nothing: the file and its copy both change, or neither does.  *)
THEOREM LoneSavesAtomic == AppSpec => LoneSaveIsAtomic
<1>1. AppInit => LoneInv
  BY DEF AppInit, ConfigInit, LoneInv
<1>2. AppInv /\ LoneInv /\ [AppNext]_appVars => LoneInv'
  BY LoneStep
<1>3. AppInv /\ LoneInv /\ [AppNext]_appVars =>
        [ \A w \in Writer :
            wpc[w] # "idle" /\ wpc'[w] = "idle" /\ phase = "up" /\ phase' = "up"
              /\ base[w] # None =>
              \/ path' = want[w] /\ mem' = want[w]
              \/ path' = base[w].disk /\ mem' = base[w].mem ]_configVars
  BY LoneEnd
<1>. QED
  BY <1>1, <1>2, <1>3, AppInvariant, PTL DEF AppSpec, LoneSaveIsAtomic

=============================================================================
