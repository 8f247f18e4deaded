---------------------------- MODULE MCStateStore ----------------------------
(* StateStore with one pack behind a prefix of its own and one without,    *)
(* one field of info and one of parameters, no analog field, and one       *)
(* reader of snapshots.                                                    *)
EXTENDS StateStore, TLC

CONSTANTS v1, r1, r2, r3, r4

RefSymmetry == Permutations({r1, r2, r3, r4})

=============================================================================
