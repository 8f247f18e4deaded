----------------------------- MODULE MCPaceLink -----------------------------
(* PaceLink with three requests. *)
EXTENDS PaceLink

CONSTANTS r1, r2, r3

=============================================================================
