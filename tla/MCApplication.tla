---------------------------- MODULE MCApplication ----------------------------
(* Application with two writers: the startup and a PUT, or two PUTs.       *)
EXTENDS Application

CONSTANTS c0, c1, c2, w1, w2

=============================================================================
