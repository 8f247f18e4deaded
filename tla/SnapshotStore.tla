---------------------------- MODULE SnapshotStore ----------------------------
(***************************************************************************)
(* The runtime store as its users think of it: there are no pointers.  A   *)
(* pack is a value, a call replaces one section of it, and a snapshot is a *)
(* copy of the thresholds of every pack at one instant, which nothing that *)
(* is stored later can change.                                             *)
(***************************************************************************)

CONSTANTS
  Addr,           \* pack addresses
  Reader,         \* holders of a snapshot
  Val,            \* values a field can have
  AnalogField, InfoField, ParamField,   \* the fields of a pack's sections
  Nil             \* no value

VARIABLES
  packs,          \* per address: the pack, or Nil
  views           \* per reader: the thresholds it was given, or Nil

snapshotVars == <<packs, views>>

Row(F) == [F -> Val \cup {Nil}]

Or(x, y) == IF x = Nil THEN y ELSE x

(* A pack with this reading, and with what is known of the others.         *)
Measured(a, reading) ==
  [analog |-> reading,
   status |-> IF packs[a] = Nil THEN Nil ELSE packs[a].status,
   info   |-> IF packs[a] = Nil THEN Nil ELSE packs[a].info,
   params |-> IF packs[a] = Nil THEN Nil ELSE packs[a].params]

Thresholds(pack) ==
  IF pack = Nil \/ pack.params = Nil THEN Nil ELSE pack.params.fields

Limit(pack) == IF pack.params = Nil THEN Nil ELSE pack.params.limit

SnapshotInit ==
  /\ packs = [a \in Addr |-> Nil]
  /\ views = [q \in Reader |-> Nil]

Measure(a, reading) ==
  /\ packs' = [packs EXCEPT ![a] = Measured(a, reading)]
  /\ views' = views

(* The packs of S are all there are.                                       *)
List(S, readings) ==
  /\ packs' = [a \in Addr |-> IF a \in S THEN Measured(a, readings[a]) ELSE Nil]
  /\ views' = views

SetStatus(a, v) ==
  /\ packs[a] # Nil
  /\ packs' = [packs EXCEPT ![a].status = v]
  /\ views' = views

(* An answer without a field does not unlearn it.                          *)
Inform(a, info) ==
  /\ packs[a] # Nil
  /\ packs' = [packs EXCEPT ![a].info =
       IF packs[a].info = Nil THEN info
       ELSE [f \in InfoField |-> Or(info[f], packs[a].info[f])]]
  /\ views' = views

SetThresholds(a, fields) ==
  /\ packs[a] # Nil
  /\ packs' = [packs EXCEPT ![a].params =
       [fields |-> fields, limit |-> Limit(packs[a])]]
  /\ views' = views

SetLimit(a, v) ==
  /\ packs[a] # Nil
  /\ packs' = [packs EXCEPT ![a].params =
       [fields |-> IF packs[a].params = Nil THEN [f \in ParamField |-> Nil]
                                            ELSE packs[a].params.fields,
        limit  |-> v]]
  /\ views' = views

Look(q) ==
  /\ views' = [views EXCEPT ![q] = [a \in Addr |-> Thresholds(packs[a])]]
  /\ packs' = packs

Release(q) ==
  /\ views' = [views EXCEPT ![q] = Nil]
  /\ packs' = packs

SnapshotNext ==
  \/ \E a \in Addr, reading \in Row(AnalogField) : Measure(a, reading)
  \/ \E S \in SUBSET Addr, readings \in [Addr -> Row(AnalogField)] : List(S, readings)
  \/ \E a \in Addr, v \in Val : SetStatus(a, v) \/ SetLimit(a, v)
  \/ \E a \in Addr, info \in Row(InfoField) : Inform(a, info)
  \/ \E a \in Addr, fields \in Row(ParamField) : SetThresholds(a, fields)
  \/ \E q \in Reader : Look(q) \/ Release(q)

SnapshotSpec == SnapshotInit /\ [][SnapshotNext]_snapshotVars

=============================================================================
