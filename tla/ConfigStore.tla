----------------------------- MODULE ConfigStore -----------------------------
(***************************************************************************)
(* The configuration file and its copy in memory: Load, LoadOrCreate and   *)
(* Save of internal/config/config.go, and Run and UpdateConfig of          *)
(* internal/app/app.go.                                                    *)
(*                                                                         *)
(* A PUT of /api/v1/config is served on a goroutine of its own.  Save      *)
(* holds no lock, and every Save uses the same temporary file, so the      *)
(* steps of two of them interleave, and a writer keeps its file when the   *)
(* name moves.  The process may die between any two steps.  A              *)
(* configuration Validate rejects changes nothing and is left out.         *)
(*                                                                         *)
(* External: the file system.  Opening truncates, a write starts at the    *)
(* beginning, a rename replaces the target at once.                        *)
(***************************************************************************)

CONSTANTS
  Cfg,        \* the configurations Validate accepts
  Default,    \* Default()
  Writer,     \* goroutines that may run Save at the same time
  Starter,    \* the writer that stands for the main goroutine at startup
  None

ASSUME DefaultAssumption == Default \in Cfg
ASSUME StarterAssumption == Starter \in Writer
ASSUME NoneAssumption ==
  /\ None \notin Cfg \cup {"empty", "torn", "tmp", "path", "gone"}
  /\ {"empty", "torn"} \cap Cfg = {}

VARIABLES
  phase,      \* of the process: "down", "creating", "up"
  mem,        \* a.cfg
  path, tmp,  \* what the two files say; None if there is none
  wpc,        \* per writer: "idle", "open", "write", "rename", "set"
  want,       \* the configuration it saves
  fd,         \* the file it has open: "tmp", "path", "gone", or None
  base,       \* history: what a save that is alone started from, or None
  overlapped  \* history: two saves have overlapped

configVars == <<phase, mem, path, tmp, wpc, want, fd, base, overlapped>>

Content == Cfg \cup {"empty", "torn"}

ConfigInit ==
  /\ phase = "down" /\ mem = None
  /\ path \in Cfg \cup {"empty", None} /\ tmp = None
  /\ wpc = [w \in Writer |-> "idle"]
  /\ want = [w \in Writer |-> None]
  /\ fd = [w \in Writer |-> None]
  /\ base = [w \in Writer |-> None]
  /\ overlapped = FALSE

Others(w) == {o \in Writer \ {w} : wpc[o] # "idle"}

(* Save(path, c) is called by w.                                           *)
Begins(w, c) ==
  /\ wpc' = [wpc EXCEPT ![w] = "open"]
  /\ want' = [want EXCEPT ![w] = c]
  /\ base' = [o \in Writer |->
       IF o = w /\ Others(w) = {} THEN [disk |-> path, mem |-> mem] ELSE None]
  /\ overlapped' = (overlapped \/ Others(w) # {})

(* What Load makes of a file that parses: keys it does not find keep their *)
(* defaults, so an empty file is Default().                                *)
Loaded(c) == IF c = "empty" THEN Default ELSE c

(* Run: LoadOrCreate.  A missing file is created.  With a torn one, the    *)
(* start fails, or it finds a configuration that nobody saved.             *)
Start ==
  /\ phase = "down"
  /\ IF path = None
       THEN /\ phase' = "creating"
            /\ Begins(Starter, Default)
            /\ UNCHANGED mem
       ELSE /\ mem' \in IF path = "torn" THEN Cfg ELSE {Loaded(path)}
            /\ phase' = "up"
            /\ UNCHANGED <<wpc, want, base, overlapped>>
  /\ UNCHANGED <<path, tmp, fd>>

(* Mutant: the copy in memory changes before the file.                     *)
UpdateMemoryFirst(w, c) ==
  /\ phase = "up" /\ wpc[w] = "idle"
  /\ Begins(w, c)
  /\ mem' = c
  /\ UNCHANGED <<phase, path, tmp, fd>>

(* UpdateConfig is called.                                                 *)
UpdateConfig(w, c) ==
  /\ phase = "up" /\ wpc[w] = "idle"
  /\ Begins(w, c)
  /\ UNCHANGED <<phase, mem, path, tmp, fd>>

(* Mutant: the file itself is opened for writing.                          *)
OpenInPlace(w) ==
  /\ wpc[w] = "open"
  /\ path' = "empty"
  /\ fd' = [fd EXCEPT ![w] = "path"]
  /\ wpc' = [wpc EXCEPT ![w] = "write"]
  /\ UNCHANGED <<phase, mem, tmp, want, base, overlapped>>

(* Mutant: what is in the temporary file stays.                            *)
OpenTmpAsIs(w) ==
  /\ wpc[w] = "open"
  /\ tmp' = IF tmp = None THEN "empty" ELSE tmp
  /\ fd' = [fd EXCEPT ![w] = "tmp"]
  /\ wpc' = [wpc EXCEPT ![w] = "write"]
  /\ UNCHANGED <<phase, mem, path, want, base, overlapped>>

(* os.WriteFile opens the temporary file, the one of another writer too.   *)
OpenTmp(w) ==
  /\ wpc[w] = "open"
  /\ tmp' = "empty"
  /\ fd' = [fd EXCEPT ![w] = "tmp"]
  /\ wpc' = [wpc EXCEPT ![w] = "write"]
  /\ UNCHANGED <<phase, mem, path, want, base, overlapped>>

(* What is there after the write: over the text of another writer, the end *)
(* of a longer text remains.                                               *)
Over(c, old) == IF old \in {"empty", c} THEN {c} ELSE {c, "torn"}

(* It writes and closes the file it opened, whatever its name is now.      *)
WriteTmp(w) ==
  /\ wpc[w] = "write"
  /\ fd' = [fd EXCEPT ![w] = None]
  /\ tmp' \in IF fd[w] = "tmp" THEN Over(want[w], tmp) ELSE {tmp}
  /\ path' \in IF fd[w] = "path" THEN Over(want[w], path) ELSE {path}
  /\ wpc' = [wpc EXCEPT ![w] = "rename"]
  /\ UNCHANGED <<phase, mem, want, base, overlapped>>

(* os.Rename moves what is called path.tmp now; what was called path loses *)
(* its name.                                                               *)
RenameTmp(w) ==
  /\ wpc[w] = "rename" /\ tmp # None
  /\ path' = tmp
  /\ tmp' = None
  /\ fd' = [o \in Writer |->
       CASE fd[o] = "tmp" -> "path" [] fd[o] = "path" -> "gone" [] OTHER -> fd[o]]
  /\ wpc' = [wpc EXCEPT ![w] = "set"]
  /\ UNCHANGED <<phase, mem, want, base, overlapped>>

(* Save has returned: a.cfg = cfg, under the lock.                         *)
SetConfig(w) ==
  /\ wpc[w] = "set"
  /\ mem' = want[w]
  /\ phase' = "up"
  /\ wpc' = [wpc EXCEPT ![w] = "idle"]
  /\ want' = [want EXCEPT ![w] = None]
  /\ base' = [base EXCEPT ![w] = None]
  /\ UNCHANGED <<path, tmp, fd, overlapped>>

(* A system call of Save fails (the rename does when another writer has    *)
(* taken the temporary file), a write perhaps half way.  UpdateConfig      *)
(* returns the error; the startup gives up.                                *)
SaveFails(w) ==
  /\ wpc[w] \in {"open", "write", "rename"}
  /\ fd' = [fd EXCEPT ![w] = None]
  /\ tmp' \in {tmp} \cup (IF fd[w] = "tmp" THEN {"torn"} ELSE {})
  /\ path' \in {path} \cup (IF fd[w] = "path" THEN {"torn"} ELSE {})
  /\ phase' = IF phase = "creating" THEN "down" ELSE phase
  /\ wpc' = [wpc EXCEPT ![w] = "idle"]
  /\ want' = [want EXCEPT ![w] = None]
  /\ base' = [base EXCEPT ![w] = None]
  /\ UNCHANGED <<mem, overlapped>>

(* The process dies, with its descriptors.                                 *)
Crash ==
  /\ phase # "down"
  /\ phase' = "down" /\ mem' = None
  /\ wpc' = [w \in Writer |-> "idle"]
  /\ want' = [w \in Writer |-> None]
  /\ fd' = [w \in Writer |-> None]
  /\ base' = [w \in Writer |-> None]
  /\ UNCHANGED <<path, tmp, overlapped>>

SaveStep(w) == OpenTmp(w) \/ WriteTmp(w) \/ RenameTmp(w) \/ SetConfig(w) \/ SaveFails(w)

-----------------------------------------------------------------------------
(* Properties *)

(* Every variable keeps its type: the configuration in use is one that     *)
(* Validate accepts, and who writes has a file open.                       *)
ConfigTypeOK ==
  /\ phase \in {"down", "creating", "up"}
  /\ mem \in Cfg \cup {None} /\ (phase = "up" => mem \in Cfg)
  /\ {path, tmp} \subseteq Content \cup {None}
  /\ wpc \in [Writer -> {"idle", "open", "write", "rename", "set"}]
  /\ want \in [Writer -> Cfg \cup {None}]
  /\ fd \in [Writer -> {"tmp", "path", "gone", None}]
  /\ base \in [Writer -> {None} \cup [disk : Content \cup {None}, mem : Cfg \cup {None}]]
  /\ overlapped \in BOOLEAN
  /\ \A w \in Writer : (wpc[w] = "write") = (fd[w] # None)

(* As long as saves come one at a time, and but for the moment between the *)
(* rename and the assignment, the process uses what a restart would find.  *)
MemoryMatchesDisk ==
  ~ overlapped /\ phase = "up" /\ (\A w \in Writer : wpc[w] # "set") =>
    mem = Loaded(path)

(* As long as saves come one at a time, the file is replaced as a whole,   *)
(* and the process follows it, whatever fails and whenever it dies.        *)
Atomic == INSTANCE AtomicConfig WITH disk <- path
SavesAtomically == Atomic!AtomicSpec

(* A save that nobody else overlapped is all or nothing, whatever the      *)
(* overlapping ones before it have left behind: it ends with file and      *)
(* memory both changed, or both as they were when it began.                *)
LoneSaveIsAtomic ==
  [][ \A w \in Writer :
        wpc[w] # "idle" /\ wpc'[w] = "idle" /\ phase = "up" /\ phase' = "up"
          /\ base[w] # None =>
          \/ path' = want[w] /\ mem' = want[w]
          \/ path' = base[w].disk /\ mem' = base[w].mem ]_configVars

=============================================================================
