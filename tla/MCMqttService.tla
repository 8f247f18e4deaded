--------------------------- MODULE MCMqttService ---------------------------
(* MqttService on small instances. *)
EXTENDS MqttService, TLC

CONSTANTS c1, c2, v1, v2, p1, p2

Symmetry == Permutations({c1, c2}) \cup Permutations({p1, p2})

(* A broker that never forgets: what is lost is lost by the client.        *)
KeptSpec == MqttInit /\ [][MqttNext /\ ~ BrokerForgets]_mqttVars /\ MqttFairness

=============================================================================
