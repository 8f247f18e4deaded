----------------------------- MODULE AtomicConfig -----------------------------
(***************************************************************************)
(* What the bridge promises of its configuration as long as updates come   *)
(* one at a time: the file is replaced as a whole or not at all, the       *)
(* running process follows it, and a restart finds what was saved last.    *)
(* Once two updates have overlapped, nothing is promised here.             *)
(***************************************************************************)

CONSTANTS
  Cfg,        \* the configurations Validate accepts
  Default,    \* the one written when there is no file
  None        \* no file, no process

VARIABLES
  disk,       \* what the file says: a configuration, "empty", or None
  mem,        \* what the process uses, None while it is down
  overlapped  \* two updates have overlapped

atomicVars == <<disk, mem, overlapped>>

AtomicInit ==
  /\ disk \in Cfg \cup {"empty", None}
  /\ mem = None
  /\ overlapped = FALSE

(* The file is replaced.                                                   *)
Replace == disk' \in Cfg /\ mem' = mem

(* The process adopts what the file says; an empty file says the defaults. *)
Adopt ==
  /\ disk # None
  /\ mem' = IF disk = "empty" THEN Default ELSE disk
  /\ disk' = disk

Die == mem' = None /\ disk' = disk

AtomicNext == overlapped' \/ (~ overlapped' /\ (Replace \/ Adopt \/ Die))

AtomicSpec == AtomicInit /\ [][AtomicNext]_atomicVars

=============================================================================
