--------------------------- MODULE MCPackDiscovery ---------------------------
(* PackDiscovery on a small byte.  The passing run takes every             *)
(* configuration; the other starts from the configuration file shipped in  *)
(* configs/config.example.yaml.                                            *)
EXTENDS PackDiscovery

(* protocol: rs485, first_pack_address: 255, max_parallel_packs: 1 *)
ExampleConfig == [protocol |-> "rs485", first |-> UMax, maxPacks |-> 1]

ExampleSpec ==
  /\ DiscoveryInit /\ cfg = ExampleConfig
  /\ [][DiscoveryNext]_discoveryVars

=============================================================================
