------------------------------ MODULE MCBridge ------------------------------
(* Bridge with two packs, at the default first address and the next, and   *)
(* two of the optional commands: the one that is asked twice, and one with *)
(* parameters.  One pack refuses one command.                              *)
EXTENDS Bridge

MCPolled == <<0, 1>>
MCInfo == <<"inverter_protocol">>
MCParams == <<"cell_ovp_params">>

RefusalInit == BridgeInit /\ Cardinality(refuses) <= 1
RefusalSpec == RefusalInit /\ [][BridgeNext]_bridgeVars

=============================================================================
