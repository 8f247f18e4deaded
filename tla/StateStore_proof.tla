--------------------------- MODULE StateStore_proof ---------------------------
(***************************************************************************)
(* For every set of addresses, fields, values, readers and references: the *)
(* telemetry in the store agrees with the packs, no two packs share a      *)
(* parameters object, and the thresholds in a snapshot never move.         *)
(*                                                                         *)
(* The five invariants are proved together: the telemetry of a pack is     *)
(* only well defined while its pointer is good, and a pointer stays good   *)
(* because a new object is never one that somebody holds.                  *)
(***************************************************************************)
EXTENDS StateStore, TLAPS

Heap == [Ref -> Params \cup {Free}]
Telemetry == [Key -> [Field -> Opt(Val)]]

(* Pointer ref is nil or leads to an object of heap h.                     *)
Good(ref, h) == ref = Nil \/ (ref \in Ref /\ h[ref] \in Params)

StoreInv ==
  /\ StoreTypeOK
  /\ PointersAreOwned
  /\ TelemetryMatchesPacks
  /\ LimitAgrees
  /\ SnapshotThresholdsFrozen

-----------------------------------------------------------------------------
(* Telemetry of one pack *)

(* TelemetryForPack gives every field a value or none, and the field of    *)
(* the current limit none.                                                 *)
LEMMA TelemetryType ==
  ASSUME NEW p \in Pack, NEW h \in Heap, Good(p.params, h)
  PROVE  /\ TelemetryForPack(p, h) \in [Field -> Opt(Val)]
         /\ TelemetryForPack(p, h)["limit"] = Nil
<1> DEFINE T == TelemetryForPack(p, h)
<1>1. /\ p.analog \in [AnalogField -> Opt(Val)]
      /\ p.status \in Opt(Val)
      /\ p.info # Nil => p.info \in [InfoField -> Opt(Val)]
  BY DEF Pack, Analog, Info, Opt
<1>2. p.params # Nil => h[p.params].fields \in [ParamField -> Opt(Val)]
  BY DEF Good, Params, ParamFields
<1>3. T = [f \in Field |-> T[f]]
  BY DEF TelemetryForPack
<1>4. ASSUME NEW f \in Field PROVE T[f] \in Opt(Val)
  <2>1. CASE f \in AnalogField
    BY <2>1, <1>1, FieldAssumption, PublishedAssumption DEF TelemetryForPack
  <2>2. CASE f = "status"
    BY <2>2, <1>1, FieldAssumption, PublishedAssumption DEF TelemetryForPack
  <2>3. CASE f \in InfoField
    <3>1. T[f] = IF p.info = Nil THEN Nil ELSE p.info[f]
      BY <2>3, FieldAssumption, PublishedAssumption DEF TelemetryForPack
    <3> QED BY <2>3, <3>1, <1>1 DEF Opt
  <2>4. CASE f \in Published
    <3>1. T[f] = IF p.params = Nil THEN Nil ELSE h[p.params].fields[f]
      BY <2>4, FieldAssumption, PublishedAssumption DEF TelemetryForPack
    <3> QED BY <2>4, <3>1, <1>2, PublishedAssumption DEF Opt
  <2>5. CASE f = "limit"
    BY <2>5, FieldAssumption, PublishedAssumption DEF TelemetryForPack, Opt
  <2> QED BY <2>1, <2>2, <2>3, <2>4, <2>5 DEF Field
<1>5. T["limit"] = Nil
  BY FieldAssumption, PublishedAssumption DEF TelemetryForPack, Field
<1> QED BY <1>3, <1>4, <1>5

(* It reads nothing of the heap but the fields behind the pack's pointer.  *)
LEMMA TelemetrySame ==
  ASSUME NEW p, NEW h, NEW h2,
         p.params # Nil => h[p.params].fields = h2[p.params].fields
  PROVE  TelemetryForPack(p, h) = TelemetryForPack(p, h2)
BY DEF TelemetryForPack

(* Refresh writes the fields the pack has, under its own address only.     *)
LEMMA RefreshFacts ==
  ASSUME NEW t \in Telemetry, NEW a \in Addr, NEW p \in Pack, NEW h \in Heap,
         Good(p.params, h)
  PROVE  /\ Refresh(t, a, p, h) \in Telemetry
         /\ \A k \in Key : k # a => Refresh(t, a, p, h)[k] = t[k]
         /\ \A f \in Field : TelemetryForPack(p, h)[f] # Nil =>
              Refresh(t, a, p, h)[a][f] = TelemetryForPack(p, h)[f]
         /\ Refresh(t, a, p, h)[a]["limit"] = t[a]["limit"]
<1> DEFINE T == TelemetryForPack(p, h)
           row == [f \in Field |-> IF T[f] # Nil THEN T[f] ELSE t[a][f]]
<1>1. T \in [Field -> Opt(Val)] /\ T["limit"] = Nil
  BY TelemetryType
<1>2. a \in Key /\ t[a] \in [Field -> Opt(Val)] /\ "limit" \in Field
  BY DEF Key, Telemetry, Field
<1>3. Refresh(t, a, p, h) = [t EXCEPT ![a] = row]
  BY DEF Refresh
<1> HIDE DEF T
<1>4. row \in [Field -> Opt(Val)]
  BY <1>1, <1>2
<1>5. row["limit"] = t[a]["limit"]
  BY <1>1, <1>2
<1>6. \A f \in Field : T[f] # Nil => row[f] = T[f]
  OBVIOUS
<1> HIDE DEF row
<1> QED BY <1>2, <1>3, <1>4, <1>5, <1>6 DEF Telemetry, T

-----------------------------------------------------------------------------
(* Collection keeps what a pack or a snapshot points to. *)

LEMMA CollectFacts ==
  ASSUME NEW h \in Heap,
         NEW st \in [Addr -> Opt(Pack)], NEW sn \in [Reader -> Opt(Snapshot)]
  PROVE  /\ Collect(h, st, sn) \in Heap
         /\ \A a \in Addr : st[a] # Nil /\ st[a].params # Nil =>
              Collect(h, st, sn)[st[a].params] = h[st[a].params]
         /\ \A q \in Reader, a \in Addr :
              sn[q] # Nil /\ sn[q].params[a] # Nil =>
                Collect(h, st, sn)[sn[q].params[a]] = h[sn[q].params[a]]
<1>1. Collect(h, st, sn) \in Heap
  BY DEF Collect, Heap
<1>2. ASSUME NEW a \in Addr, st[a] # Nil, st[a].params # Nil
      PROVE  Collect(h, st, sn)[st[a].params] = h[st[a].params]
  <2>1. st[a].params \in Ref
    BY <1>2 DEF Pack, Opt
  <2>2. st[a].params \in Reachable(st, sn)
    BY <1>2 DEF Reachable
  <2> QED BY <2>1, <2>2 DEF Collect
<1>3. ASSUME NEW q \in Reader, NEW a \in Addr, sn[q] # Nil, sn[q].params[a] # Nil
      PROVE  Collect(h, st, sn)[sn[q].params[a]] = h[sn[q].params[a]]
  <2>1. sn[q].params \in [Addr -> Opt(Ref)]
    BY <1>3 DEF Snapshot, Opt
  <2>2. sn[q].params[a] \in Ref
    BY <2>1, <1>3 DEF Opt
  <2>3. sn[q].params[a] \in Reachable(st, sn)
    BY <1>3 DEF Reachable
  <2> QED BY <2>2, <2>3 DEF Collect
<1> QED BY <1>1, <1>2, <1>3

-----------------------------------------------------------------------------
(* What the invariant says of one pack and of one snapshot *)

LEMMA PackFacts ==
  ASSUME StoreInv, NEW a \in Addr
  PROVE  /\ ParamsOf(a) \in Opt(Ref) /\ Good(ParamsOf(a), heap)
         /\ store[a] # Nil => store[a] \in Pack /\ store[a].params = ParamsOf(a)
         /\ store \in [Addr -> Opt(Pack)] /\ heap \in Heap /\ telemetry \in Telemetry
<1>1. store \in [Addr -> Opt(Pack)] /\ heap \in Heap /\ telemetry \in Telemetry
  BY DEF StoreInv, StoreTypeOK, Heap, Telemetry
<1>2. store[a] # Nil => store[a] \in Pack /\ store[a].params = ParamsOf(a)
  BY <1>1 DEF Opt, ParamsOf
<1>3. ParamsOf(a) \in Opt(Ref)
  BY <1>2 DEF ParamsOf, Pack, Opt
<1>4. Good(ParamsOf(a), heap)
  BY <1>1, <1>3 DEF StoreInv, PointersAreOwned, Good, Heap, Opt
<1> QED BY <1>1, <1>2, <1>3, <1>4

LEMMA SnapFacts ==
  ASSUME StoreInv, NEW q \in Reader, NEW a \in Addr, snaps[q] # Nil
  PROVE  /\ snaps[q].params[a] \in Opt(Ref)
         /\ snaps[q].params[a] # Nil => heap[snaps[q].params[a]] \in Params
<1>1. snaps[q] \in Snapshot
  BY DEF StoreInv, StoreTypeOK, Opt
<1>2. snaps[q].params[a] \in Opt(Ref)
  BY <1>1 DEF Snapshot
<1>3. snaps[q].params[a] # Nil => heap[snaps[q].params[a]] # Free
  BY DEF StoreInv, PointersAreOwned
<1> QED BY <1>2, <1>3 DEF StoreInv, StoreTypeOK, Opt

(* UpsertPack, UpsertPackStatus and UpsertPackInfo put a pack with the     *)
(* pointer of the old one in its place and refresh its telemetry.          *)
LEMMA UpsertSection ==
  ASSUME StoreInv, NEW a \in Addr, NEW p \in Pack, p.params = ParamsOf(a),
         store' = [store EXCEPT ![a] = p],
         telemetry' = Refresh(telemetry, a, p, heap),
         UNCHANGED <<services, heap, snaps>>
  PROVE  StoreInv'
<1>1. /\ Good(ParamsOf(a), heap)
      /\ store \in [Addr -> Opt(Pack)] /\ heap \in Heap /\ telemetry \in Telemetry
  BY PackFacts
<1>2. /\ telemetry' \in Telemetry
      /\ \A k \in Key : k # a => telemetry'[k] = telemetry[k]
      /\ \A f \in Field : TelemetryForPack(p, heap)[f] # Nil =>
           telemetry'[a][f] = TelemetryForPack(p, heap)[f]
      /\ telemetry'[a]["limit"] = telemetry[a]["limit"]
  BY <1>1, RefreshFacts
<1>3. /\ store' \in [Addr -> Opt(Pack)] /\ store'[a] = p /\ p # Nil
      /\ \A c \in Addr : c # a => store'[c] = store[c]
  BY <1>1, NilAssumption DEF Opt
<1>4. \A c \in Addr : ParamsOf(c)' = ParamsOf(c)
  BY <1>3 DEF ParamsOf
<1>5. StoreTypeOK'
  BY <1>2, <1>3 DEF StoreInv, StoreTypeOK, Telemetry
<1>6. PointersAreOwned'
  BY <1>4 DEF StoreInv, PointersAreOwned
<1>7. TelemetryMatchesPacks'
  BY <1>2, <1>3 DEF StoreInv, TelemetryMatchesPacks, Key
<1>8. LimitAgrees'
  BY <1>2, <1>4 DEF StoreInv, LimitAgrees, Key
<1>9. SnapshotThresholdsFrozen'
  BY DEF StoreInv, SnapshotThresholdsFrozen, Deref
<1> QED BY <1>5, <1>6, <1>7, <1>8, <1>9 DEF StoreInv

(* A merged pack keeps the pointer of the old one.                          *)
LEMMA MergedFacts ==
  ASSUME StoreInv, NEW a \in Addr, NEW reading \in Analog
  PROVE  /\ Merged(store[a], NewPack(reading)) \in Pack
         /\ Merged(store[a], NewPack(reading)).params = ParamsOf(a)
<1>1. NewPack(reading) \in Pack /\ NewPack(reading).params = Nil
  BY DEF NewPack, Pack, Opt
<1>2. CASE store[a] = Nil
  BY <1>1, <1>2 DEF Merged, ParamsOf
<1>3. CASE store[a] # Nil
  <2>1. store[a] \in Pack /\ store[a].params = ParamsOf(a)
    BY <1>3, PackFacts
  <2> QED BY <1>3, <2>1 DEF Merged, NewPack, Pack
<1> QED BY <1>2, <1>3

LEMMA UpsertPackInv ==
  ASSUME StoreInv, NEW a \in Addr, NEW reading \in Analog, UpsertPack(a, reading)
  PROVE  StoreInv'
<1> DEFINE p == Merged(store[a], NewPack(reading))
<1>1. p \in Pack /\ p.params = ParamsOf(a)
  BY MergedFacts
<1> HIDE DEF p
<1>2. /\ store' = [store EXCEPT ![a] = p]
      /\ telemetry' = Refresh(telemetry, a, p, heap)
      /\ UNCHANGED <<services, heap, snaps>>
  BY DEF UpsertPack, p
<1> QED BY <1>1, <1>2, UpsertSection

LEMMA UpsertPackStatusInv ==
  ASSUME StoreInv, NEW a \in Addr, NEW v \in Val, UpsertPackStatus(a, v)
  PROVE  StoreInv'
<1> DEFINE p == [store[a] EXCEPT !.status = v]
<1>1. store[a] \in Pack /\ store[a].params = ParamsOf(a)
  BY PackFacts DEF UpsertPackStatus
<1>2. p \in Pack /\ p.params = ParamsOf(a)
  BY <1>1 DEF Pack, Opt
<1> HIDE DEF p
<1>3. /\ store' = [store EXCEPT ![a] = p]
      /\ telemetry' = Refresh(telemetry, a, p, heap)
      /\ UNCHANGED <<services, heap, snaps>>
  BY DEF UpsertPackStatus, p
<1> QED BY <1>2, <1>3, UpsertSection

LEMMA UpsertPackInfoInv ==
  ASSUME StoreInv, NEW a \in Addr, NEW info \in Info, UpsertPackInfo(a, info)
  PROVE  StoreInv'
<1> DEFINE merged == [f \in InfoField |->
             IF store[a].info # Nil /\ info[f] = Nil THEN store[a].info[f] ELSE info[f]]
           p == [store[a] EXCEPT !.info = merged]
<1>1. store[a] \in Pack /\ store[a].params = ParamsOf(a)
  BY PackFacts DEF UpsertPackInfo
<1>2. merged \in Info
  <2>1. store[a].info # Nil => store[a].info \in [InfoField -> Opt(Val)]
    BY <1>1 DEF Pack, Info, Opt
  <2> QED BY <2>1 DEF Info
<1> HIDE DEF merged
<1>3. p \in Pack /\ p.params = ParamsOf(a)
  BY <1>1, <1>2 DEF Pack, Opt
<1> HIDE DEF p
<1>4. /\ store' = [store EXCEPT ![a] = p]
      /\ telemetry' = Refresh(telemetry, a, p, heap)
      /\ UNCHANGED <<services, heap, snaps>>
  BY DEF UpsertPackInfo, p, merged
<1> QED BY <1>3, <1>4, UpsertSection

(* ReplacePacks drops packs with their telemetry and refreshes the rest.   *)
LEMMA ReplacePacksInv ==
  ASSUME StoreInv, NEW S \in SUBSET Addr, NEW readings \in [Addr -> Analog],
         ReplacePacks(S, readings)
  PROVE  StoreInv'
<1> DEFINE kept == [a \in Addr |-> IF a \in S THEN Merged(store[a], NewPack(readings[a]))
                                              ELSE Nil]
           gone == {a \in Addr : store[a] # Nil /\ a \notin S}
<1>1. /\ store' = kept
      /\ telemetry' = [k \in Key |->
           IF k \in gone THEN [f \in Field |-> Nil]
           ELSE IF k \in S THEN Refresh(telemetry, k, kept[k], heap)[k]
           ELSE telemetry[k]]
      /\ heap' = Collect(heap, kept, snaps)
      /\ UNCHANGED <<services, snaps>>
  BY DEF ReplacePacks
<1>2. ASSUME NEW a \in Addr
      PROVE  /\ a \in S => kept[a] \in Pack /\ kept[a] # Nil /\ kept[a].params = ParamsOf(a)
             /\ a \notin S => kept[a] = Nil
  BY MergedFacts, NilAssumption
<1>3. kept \in [Addr -> Opt(Pack)]
  BY <1>2 DEF Opt
<1>4. gone \cap S = {} /\ gone \subseteq Key /\ S \subseteq Key
  BY DEF Key
<1> HIDE DEF kept, gone
<1>5. heap \in Heap /\ telemetry \in Telemetry /\ snaps \in [Reader -> Opt(Snapshot)]
  BY DEF StoreInv, StoreTypeOK, Heap, Telemetry
<1>6. ASSUME NEW a \in S
      PROVE  /\ telemetry'[a] \in [Field -> Opt(Val)]
             /\ \A f \in Field : TelemetryForPack(kept[a], heap)[f] # Nil =>
                  telemetry'[a][f] = TelemetryForPack(kept[a], heap)[f]
             /\ telemetry'[a]["limit"] = telemetry[a]["limit"]
  <2>1. telemetry'[a] = Refresh(telemetry, a, kept[a], heap)[a]
    BY <1>1, <1>4
  <2>2. Good(kept[a].params, heap) /\ kept[a] \in Pack
    BY <1>2, PackFacts
  <2>3. Refresh(telemetry, a, kept[a], heap) \in Telemetry /\ a \in Key
    BY <1>4, <1>5, <2>2, RefreshFacts
  <2>4. telemetry'[a] \in [Field -> Opt(Val)]
    BY <2>1, <2>3 DEF Telemetry
  <2> QED BY <1>5, <2>1, <2>2, <2>4, RefreshFacts
<1>7. telemetry' \in Telemetry
  <2> SUFFICES ASSUME NEW k \in Key PROVE telemetry'[k] \in [Field -> Opt(Val)]
    BY <1>1 DEF Telemetry
  <2>1. CASE k \in S
    BY <1>6, <2>1
  <2>2. CASE k \in gone
    BY <1>1, <2>2 DEF Opt
  <2>3. CASE k \notin S \cup gone
    BY <1>1, <1>5, <2>3 DEF Telemetry
  <2> QED BY <2>1, <2>2, <2>3
<1>8. /\ heap' \in Heap
      /\ \A a \in Addr : kept[a] # Nil /\ kept[a].params # Nil =>
           heap'[kept[a].params] = heap[kept[a].params]
      /\ \A q \in Reader, a \in Addr : snaps[q] # Nil /\ snaps[q].params[a] # Nil =>
           heap'[snaps[q].params[a]] = heap[snaps[q].params[a]]
  BY <1>1, <1>3, <1>5, CollectFacts
<1>9. \A a \in Addr : ParamsOf(a)' = IF a \in S THEN ParamsOf(a) ELSE Nil
  BY <1>1, <1>2 DEF ParamsOf
<1>10. \A a \in Addr : ParamsOf(a)' # Nil => heap'[ParamsOf(a)] = heap[ParamsOf(a)]
  BY <1>2, <1>8, <1>9
<1>11. StoreTypeOK'
  BY <1>1, <1>3, <1>7, <1>8 DEF StoreInv, StoreTypeOK, Telemetry, Heap
<1>12. PointersAreOwned'
  BY <1>1, <1>8, <1>9, <1>10 DEF StoreInv, PointersAreOwned
<1>13. TelemetryMatchesPacks'
  <2> SUFFICES ASSUME NEW a \in S
               PROVE  \A f \in Field : TelemetryForPack(kept[a], heap')[f] # Nil =>
                        telemetry'[a][f] = TelemetryForPack(kept[a], heap')[f]
    BY <1>1, <1>2 DEF TelemetryMatchesPacks
  <2>1. TelemetryForPack(kept[a], heap') = TelemetryForPack(kept[a], heap)
    BY <1>2, <1>8, TelemetrySame
  <2> QED BY <1>6, <2>1
<1>14. LimitAgrees'
  BY <1>6, <1>9, <1>10 DEF StoreInv, LimitAgrees
<1>15. SnapshotThresholdsFrozen'
  BY <1>1, <1>8 DEF StoreInv, SnapshotThresholdsFrozen, Deref
<1> QED BY <1>11, <1>12, <1>13, <1>14, <1>15 DEF StoreInv

(* UpsertPackParameters hangs a new object from the pack.                  *)
LEMMA UpsertPackParametersInv ==
  ASSUME StoreInv, NEW a \in Addr, NEW fields \in ParamFields, NEW r \in Ref,
         UpsertPackParameters(a, fields, r)
  PROVE  StoreInv'
<1> DEFINE old == ParamsOf(a)
           limit == IF old = Nil THEN Nil ELSE heap[old].limit
           object == [fields |-> fields, limit |-> limit]
           h == [heap EXCEPT ![r] = object]
           p == [store[a] EXCEPT !.params = r]
<1>1. /\ store[a] # Nil /\ heap[r] = Free
      /\ store' = [store EXCEPT ![a] = p]
      /\ telemetry' = Refresh(telemetry, a, p, h)
      /\ heap' = Collect(h, store', snaps)
      /\ UNCHANGED <<services, snaps>>
  <2>1. store[a] # Nil /\ old = store[a].params
    BY DEF UpsertPackParameters, ParamsOf
  <2> QED BY <2>1, Zenon DEF UpsertPackParameters, Fresh
<1>2. /\ store[a] \in Pack /\ Good(old, heap)
      /\ store \in [Addr -> Opt(Pack)] /\ heap \in Heap /\ telemetry \in Telemetry
  BY <1>1, PackFacts
<1>3. object \in Params /\ object.limit = limit
  BY <1>2 DEF Params, Good, Opt
<1>4. p \in Pack /\ p.params = r
  BY <1>2 DEF Pack, Opt
<1>5. r # Nil
  BY NilAssumption
<1> HIDE DEF object, p, limit, old
<1>6. h \in Heap /\ h[r] = object /\ \A x \in Ref : x # r => h[x] = heap[x]
  BY <1>2, <1>3 DEF Heap
<1> HIDE DEF h
<1>7. /\ telemetry' \in Telemetry
      /\ \A k \in Key : k # a => telemetry'[k] = telemetry[k]
      /\ \A f \in Field : TelemetryForPack(p, h)[f] # Nil =>
           telemetry'[a][f] = TelemetryForPack(p, h)[f]
      /\ telemetry'[a]["limit"] = telemetry[a]["limit"]
  <2>1. Good(p.params, h)
    BY <1>3, <1>4, <1>6 DEF Good
  <2> QED BY <1>1, <1>2, <1>4, <1>6, <2>1, RefreshFacts
<1>8. /\ store' \in [Addr -> Opt(Pack)] /\ store'[a] = p /\ p # Nil
      /\ \A c \in Addr : c # a => store'[c] = store[c]
  BY <1>1, <1>2, <1>4, NilAssumption DEF Opt
<1>9. snaps \in [Reader -> Opt(Snapshot)]
  BY DEF StoreInv, StoreTypeOK
<1>10. /\ heap' \in Heap
       /\ \A c \in Addr : store'[c] # Nil /\ store'[c].params # Nil =>
            heap'[store'[c].params] = h[store'[c].params]
       /\ \A q \in Reader, c \in Addr : snaps[q] # Nil /\ snaps[q].params[c] # Nil =>
            heap'[snaps[q].params[c]] = h[snaps[q].params[c]]
  <2> DEFINE st == store'
  <2>1. st \in [Addr -> Opt(Pack)] /\ heap' = Collect(h, st, snaps)
    BY <1>1, <1>8
  <2> HIDE DEF st
  <2>2. /\ Collect(h, st, snaps) \in Heap
        /\ \A c \in Addr : st[c] # Nil /\ st[c].params # Nil =>
             Collect(h, st, snaps)[st[c].params] = h[st[c].params]
        /\ \A q \in Reader, c \in Addr : snaps[q] # Nil /\ snaps[q].params[c] # Nil =>
             Collect(h, st, snaps)[snaps[q].params[c]] = h[snaps[q].params[c]]
    BY <1>6, <1>9, <2>1, CollectFacts
  <2> QED BY <2>1, <2>2 DEF st
<1>11. ParamsOf(a)' = r /\ heap'[r] = object
  BY <1>4, <1>5, <1>6, <1>8, <1>10 DEF ParamsOf
<1>12. ASSUME NEW c \in Addr, c # a
       PROVE  /\ ParamsOf(c)' = ParamsOf(c)
              /\ ParamsOf(c) # Nil => ParamsOf(c) # r /\ heap'[ParamsOf(c)] = heap[ParamsOf(c)]
  <2>1. ParamsOf(c)' = ParamsOf(c)
    BY <1>8, <1>12 DEF ParamsOf
  <2>2. ParamsOf(c) # Nil => ParamsOf(c) \in Ref /\ heap[ParamsOf(c)] # Free
    BY PackFacts DEF StoreInv, PointersAreOwned, Opt
  <2>3. ParamsOf(c) # Nil => heap'[ParamsOf(c)] = h[ParamsOf(c)]
    BY <1>8, <1>10, <1>12 DEF ParamsOf
  <2> QED BY <1>1, <1>6, <2>1, <2>2, <2>3
<1>13. ASSUME NEW q \in Reader, NEW c \in Addr, snaps[q] # Nil, snaps[q].params[c] # Nil
       PROVE  heap'[snaps[q].params[c]] = heap[snaps[q].params[c]]
  <2>1. snaps[q].params[c] \in Ref /\ heap[snaps[q].params[c]] # Free
    BY <1>13, SnapFacts, FreeAssumption DEF Opt
  <2> QED BY <1>1, <1>6, <1>10, <1>13, <2>1
<1>14. StoreTypeOK'
  BY <1>1, <1>7, <1>8, <1>9, <1>10 DEF StoreInv, StoreTypeOK, Telemetry, Heap
<1>15. PointersAreOwned'
  <2>1. \A c, d \in Addr : c # d /\ ParamsOf(c)' # Nil => ParamsOf(c)' # ParamsOf(d)'
    BY <1>5, <1>11, <1>12 DEF StoreInv, PointersAreOwned
  <2>2. \A c \in Addr : ParamsOf(c)' # Nil => heap'[ParamsOf(c)'] # Free
    BY <1>3, <1>11, <1>12, FreeAssumption DEF StoreInv, PointersAreOwned
  <2>3. \A q \in Reader : snaps'[q] # Nil =>
          \A c \in Addr : snaps'[q].params[c] # Nil => heap'[snaps'[q].params[c]] # Free
    BY <1>1, <1>13 DEF StoreInv, PointersAreOwned
  <2> QED BY <2>1, <2>2, <2>3 DEF PointersAreOwned
<1>16. TelemetryMatchesPacks'
  <2> SUFFICES ASSUME NEW c \in Addr, store'[c] # Nil
               PROVE  \A f \in Field : TelemetryForPack(store'[c], heap')[f] # Nil =>
                        telemetry'[c][f] = TelemetryForPack(store'[c], heap')[f]
    BY DEF TelemetryMatchesPacks
  <2>1. CASE c = a
    <3>1. TelemetryForPack(p, heap') = TelemetryForPack(p, h)
      BY <1>4, <1>6, <1>11, TelemetrySame
    <3> QED BY <1>7, <1>8, <2>1, <3>1
  <2>2. CASE c # a
    <3>1. store'[c] = store[c] /\ store[c].params = ParamsOf(c)
      BY <1>8, <2>2 DEF ParamsOf
    <3>2. TelemetryForPack(store[c], heap') = TelemetryForPack(store[c], heap)
      BY <1>12, <2>2, <3>1, TelemetrySame
    <3> QED BY <1>7, <2>2, <3>1, <3>2 DEF StoreInv, TelemetryMatchesPacks, Key
  <2> QED BY <2>1, <2>2
<1>17. LimitAgrees'
  <2> SUFFICES ASSUME NEW c \in Addr \ GlobalAddr, ParamsOf(c)' # Nil,
                      heap'[ParamsOf(c)'].limit # Nil
               PROVE  telemetry'[c]["limit"] = heap'[ParamsOf(c)'].limit
    BY DEF LimitAgrees
  <2>1. CASE c = a
    <3>1. heap'[ParamsOf(c)'].limit = limit /\ limit # Nil
      BY <1>3, <1>11, <2>1
    <3>2. old # Nil /\ limit = heap[old].limit
      BY <3>1 DEF limit
    <3> QED BY <1>7, <2>1, <3>1, <3>2 DEF StoreInv, LimitAgrees, old
  <2>2. CASE c # a
    BY <1>7, <1>12, <2>2 DEF StoreInv, LimitAgrees, Key
  <2> QED BY <2>1, <2>2
<1>18. SnapshotThresholdsFrozen'
  BY <1>1, <1>13 DEF StoreInv, SnapshotThresholdsFrozen, Deref
<1> QED BY <1>14, <1>15, <1>16, <1>17, <1>18 DEF StoreInv

(* Storing a limit changes one telemetry value and one object, whose other *)
(* fields no telemetry and no snapshot sees change.                        *)
LEMMA LimitSection ==
  ASSUME StoreInv, NEW a \in Addr, NEW v \in Val, NEW r \in Ref,
         UpsertCurrentLimitParameter(a, v, r),
         store' \in [Addr -> Opt(Pack)], heap' \in Heap,
         \A c \in Addr : c # a => store'[c] = store[c],
         store'[a] # Nil => store[a] # Nil,
         store'[a] # Nil => \A f \in Field : TelemetryForPack(store'[a], heap')[f] # Nil =>
           TelemetryForPack(store'[a], heap')[f] = TelemetryForPack(store[a], heap)[f],
         ParamsOf(a)' # Nil =>
           /\ heap'[ParamsOf(a)'] \in Params /\ heap'[ParamsOf(a)'].limit = v
           /\ \A c \in Addr : c # a => ParamsOf(c) # ParamsOf(a)',
         \A c \in Addr : c # a /\ ParamsOf(c) # Nil =>
           heap'[ParamsOf(c)] = heap[ParamsOf(c)],
         \A q \in Reader, c \in Addr : snaps[q] # Nil /\ snaps[q].params[c] # Nil =>
           /\ heap'[snaps[q].params[c]] \in Params
           /\ heap'[snaps[q].params[c]].fields = heap[snaps[q].params[c]].fields
  PROVE  StoreInv'
<1>1. /\ telemetry' = [telemetry EXCEPT ![LimitKey(a)]["limit"] = v]
      /\ UNCHANGED <<services, snaps>>
  BY DEF UpsertCurrentLimitParameter
<1>2. telemetry \in Telemetry /\ LimitKey(a) \in Key /\ "limit" \in Field
  BY DEF StoreInv, StoreTypeOK, Telemetry, LimitKey, Key, Field
<1>3. /\ telemetry' \in Telemetry
      /\ telemetry'[LimitKey(a)]["limit"] = v
      /\ \A k \in Key, f \in Field : k # LimitKey(a) \/ f # "limit" =>
           telemetry'[k][f] = telemetry[k][f]
  <2>1. telemetry[LimitKey(a)] \in [Field -> Opt(Val)]
    BY <1>2 DEF Telemetry
  <2> DEFINE row == [telemetry[LimitKey(a)] EXCEPT !["limit"] = v]
  <2>2. /\ row \in [Field -> Opt(Val)] /\ row["limit"] = v
        /\ \A f \in Field : f # "limit" => row[f] = telemetry[LimitKey(a)][f]
    BY <1>2, <2>1 DEF Opt
  <2>3. telemetry' = [telemetry EXCEPT ![LimitKey(a)] = row]
    BY <1>1
  <2> HIDE DEF row
  <2> QED BY <1>2, <2>2, <2>3 DEF Telemetry
<1>4. \A c \in Addr : c # a => ParamsOf(c)' = ParamsOf(c)
  BY DEF ParamsOf
<1>5. StoreTypeOK'
  BY <1>1, <1>3 DEF StoreInv, StoreTypeOK, Telemetry, Heap
<1>6. PointersAreOwned'
  <2>1. \A c, d \in Addr : c # d /\ ParamsOf(c)' # Nil => ParamsOf(c)' # ParamsOf(d)'
    <3> SUFFICES ASSUME NEW c \in Addr, NEW d \in Addr, c # d, ParamsOf(c)' # Nil
                 PROVE  ParamsOf(c)' # ParamsOf(d)'
      OBVIOUS
    <3>1. CASE c = a
      BY <1>4, <3>1
    <3>2. CASE d = a
      BY <1>4, <3>2
    <3>3. CASE c # a /\ d # a
      BY <1>4, <3>3 DEF StoreInv, PointersAreOwned
    <3> QED BY <3>1, <3>2, <3>3
  <2>2. \A c \in Addr : ParamsOf(c)' # Nil => heap'[ParamsOf(c)'] # Free
    BY <1>4, FreeAssumption DEF StoreInv, PointersAreOwned
  <2>3. \A q \in Reader : snaps'[q] # Nil =>
          \A c \in Addr : snaps'[q].params[c] # Nil => heap'[snaps'[q].params[c]] # Free
    BY <1>1, FreeAssumption
  <2> QED BY <2>1, <2>2, <2>3 DEF PointersAreOwned
<1>7. TelemetryMatchesPacks'
  <2> SUFFICES ASSUME NEW c \in Addr, store'[c] # Nil, NEW f \in Field,
                      TelemetryForPack(store'[c], heap')[f] # Nil
               PROVE  telemetry'[c][f] = TelemetryForPack(store'[c], heap')[f]
    BY DEF TelemetryMatchesPacks
  <2>1. store[c] # Nil
    BY DEF StoreInv
  <2>2. TelemetryForPack(store'[c], heap')[f] = TelemetryForPack(store[c], heap)[f]
    <3>1. CASE c = a
      BY <3>1
    <3>2. CASE c # a
      <4>1. store'[c] = store[c]
        BY <3>2
      <4>2. store[c].params # Nil => heap'[store[c].params] = heap[store[c].params]
        BY <2>1, <3>2 DEF ParamsOf
      <4>3. TelemetryForPack(store[c], heap') = TelemetryForPack(store[c], heap)
        BY <4>2, TelemetrySame
      <4> QED BY <4>1, <4>3
    <3> QED BY <3>1, <3>2
  <2>3. f # "limit"
    <3>1. store[c] \in Pack /\ Good(store[c].params, heap) /\ heap \in Heap
      BY <2>1, PackFacts
    <3> QED BY <2>2, <3>1, TelemetryType
  <2>4. telemetry'[c][f] = telemetry[c][f]
    BY <1>3, <2>3 DEF Key
  <2> QED BY <2>1, <2>2, <2>4 DEF StoreInv, TelemetryMatchesPacks
<1>8. LimitAgrees'
  <2> SUFFICES ASSUME NEW c \in Addr \ GlobalAddr, ParamsOf(c)' # Nil,
                      heap'[ParamsOf(c)'].limit # Nil
               PROVE  telemetry'[c]["limit"] = heap'[ParamsOf(c)'].limit
    BY DEF LimitAgrees
  <2>1. CASE c = a
    BY <1>3, <2>1 DEF LimitKey
  <2>2. CASE c # a
    <3>1. c # LimitKey(a) /\ c \in Key
      BY <2>2, NoAddrAssumption DEF LimitKey, Key
    <3> QED BY <1>2, <1>3, <1>4, <2>2, <3>1 DEF StoreInv, LimitAgrees
  <2> QED BY <2>1, <2>2
<1>9. SnapshotThresholdsFrozen'
  BY <1>1 DEF StoreInv, SnapshotThresholdsFrozen, Deref
<1> QED BY <1>5, <1>6, <1>7, <1>8, <1>9 DEF StoreInv

(* A pack without parameters gets a new object, one with parameters is     *)
(* written through its pointer.                                            *)
LEMMA UpsertCurrentLimitParameterInv ==
  ASSUME StoreInv, NEW a \in Addr, NEW v \in Val, NEW r \in Ref,
         UpsertCurrentLimitParameter(a, v, r)
  PROVE  StoreInv'
<1>1. /\ store \in [Addr -> Opt(Pack)] /\ heap \in Heap
      /\ store[a] # Nil => store[a] \in Pack /\ store[a].params = ParamsOf(a)
      /\ ParamsOf(a) # Nil => ParamsOf(a) \in Ref /\ heap[ParamsOf(a)] \in Params
  BY PackFacts DEF Good
<1>2. ASSUME NEW q \in Reader, NEW c \in Addr, snaps[q] # Nil, snaps[q].params[c] # Nil
      PROVE  snaps[q].params[c] \in Ref /\ heap[snaps[q].params[c]] \in Params
  BY <1>2, SnapFacts DEF Opt
<1>3. \A c \in Addr : ParamsOf(c) # Nil => ParamsOf(c) \in Ref /\ heap[ParamsOf(c)] # Free
  BY PackFacts DEF StoreInv, PointersAreOwned, Opt
<1>4. CASE store[a] = Nil
  <2>1. UNCHANGED <<store, heap>>
    BY <1>4 DEF UpsertCurrentLimitParameter
  <2>2. ParamsOf(a)' = Nil
    BY <1>4, <2>1 DEF ParamsOf
  <2> QED BY <1>1, <1>2, <1>4, <2>1, <2>2, LimitSection
<1>5. CASE store[a] # Nil /\ store[a].params = Nil
  <2> DEFINE object == [fields |-> [f \in ParamField |-> Nil], limit |-> v]
             p == [store[a] EXCEPT !.params = r]
  <2>1. /\ heap[r] = Free
        /\ store' = [store EXCEPT ![a] = p]
        /\ heap' = [heap EXCEPT ![r] = object]
    BY <1>5, Zenon DEF UpsertCurrentLimitParameter, Fresh
  <2>2. /\ object \in Params /\ object.limit = v
        /\ \A f \in ParamField : object.fields[f] = Nil
    BY DEF Params, ParamFields, Opt
  <2>3. /\ p \in Pack /\ p.params = r /\ p.analog = store[a].analog
        /\ p.status = store[a].status /\ p.info = store[a].info
    BY <1>1, <1>5 DEF Pack, Opt
  <2>4. p # Nil /\ r # Nil
    BY <2>3, NilAssumption
  <2> HIDE DEF object, p
  <2>5. /\ store' \in [Addr -> Opt(Pack)] /\ store'[a] = p
        /\ \A c \in Addr : c # a => store'[c] = store[c]
    BY <1>1, <2>1, <2>3 DEF Opt
  <2>6. /\ heap' \in Heap /\ heap'[r] = object
        /\ \A x \in Ref : x # r => heap'[x] = heap[x]
    BY <1>1, <2>1, <2>2 DEF Heap
  <2>7. ParamsOf(a)' = r
    BY <2>3, <2>4, <2>5 DEF ParamsOf
  <2>8. \A c \in Addr : ParamsOf(c) # Nil =>
          ParamsOf(c) # r /\ heap'[ParamsOf(c)] = heap[ParamsOf(c)]
    BY <1>3, <2>1, <2>6
  <2>9. \A q \in Reader, c \in Addr : snaps[q] # Nil /\ snaps[q].params[c] # Nil =>
          heap'[snaps[q].params[c]] = heap[snaps[q].params[c]]
    BY <1>2, <2>1, <2>6, FreeAssumption
  <2>10. \A f \in Field : TelemetryForPack(p, heap')[f] # Nil =>
           TelemetryForPack(p, heap')[f] = TelemetryForPack(store[a], heap)[f]
    <3>1. \A f \in Published : heap'[p.params].fields[f] = Nil
      BY <2>2, <2>3, <2>6, PublishedAssumption
    <3> QED BY <1>5, <2>3, <2>4, <3>1 DEF TelemetryForPack
  <2> QED BY <1>2, <1>5, <2>2, <2>4, <2>5, <2>6, <2>7, <2>8, <2>9, <2>10, LimitSection
<1>6. CASE store[a] # Nil /\ store[a].params # Nil
  <2> DEFINE x == ParamsOf(a)
             object == [heap[x] EXCEPT !.limit = v]
  <2>1. x \in Ref /\ x # Nil /\ heap[x] \in Params /\ x = store[a].params
    BY <1>1, <1>6
  <2>2. /\ UNCHANGED store
        /\ heap' = [heap EXCEPT ![x] = object]
    BY <1>6, <2>1 DEF UpsertCurrentLimitParameter
  <2>3. object \in Params /\ object.limit = v /\ object.fields = heap[x].fields
    BY <2>1 DEF Params, Opt
  <2> HIDE DEF object
  <2>4. /\ heap' \in Heap /\ heap'[x] = object
        /\ \A y \in Ref : y # x => heap'[y] = heap[y]
    BY <1>1, <2>1, <2>2, <2>3 DEF Heap
  <2>5. \A c \in Addr : ParamsOf(c)' = ParamsOf(c)
    BY <2>2 DEF ParamsOf
  <2>6. \A c \in Addr : c # a => ParamsOf(c) # x
    BY <2>1 DEF StoreInv, PointersAreOwned
  <2>7. \A y \in Ref : heap[y] \in Params =>
          heap'[y] \in Params /\ heap'[y].fields = heap[y].fields
    BY <2>1, <2>3, <2>4
  <2>8. TelemetryForPack(store[a], heap') = TelemetryForPack(store[a], heap)
    BY <2>1, <2>7, TelemetrySame
  <2> HIDE DEF x
  <2>9. ParamsOf(a)' = x
    BY <2>5 DEF x
  <2>10. \A q \in Reader, c \in Addr : snaps[q] # Nil /\ snaps[q].params[c] # Nil =>
           /\ heap'[snaps[q].params[c]] \in Params
           /\ heap'[snaps[q].params[c]].fields = heap[snaps[q].params[c]].fields
    BY <1>2, <2>7
  <2>11. \A c \in Addr : c # a /\ ParamsOf(c) # Nil =>
           heap'[ParamsOf(c)] = heap[ParamsOf(c)]
    BY <1>3, <2>4, <2>6
  <2> QED BY <1>1, <1>6, <2>2, <2>3, <2>4, <2>6, <2>8, <2>9, <2>10, <2>11, LimitSection
<1> QED BY <1>4, <1>5, <1>6

-----------------------------------------------------------------------------
(* Snapshots and services *)

(* Taking or dropping a snapshot collects what nobody holds any more.      *)
LEMMA SnapshotSection ==
  ASSUME StoreInv, NEW held \in [Reader -> Opt(Snapshot)],
         snaps' = held, heap' = Collect(heap, store, held),
         UNCHANGED <<services, store, telemetry>>,
         \A q \in Reader, a \in Addr : held[q] # Nil =>
           /\ held[q].params[a] # Nil => heap[held[q].params[a]] # Free
           /\ Deref(held[q].params[a]) = held[q].seen[a]
  PROVE  StoreInv'
<1>1. /\ store \in [Addr -> Opt(Pack)] /\ heap \in Heap /\ telemetry \in Telemetry
      /\ services \in [Service -> BOOLEAN]
  BY DEF StoreInv, StoreTypeOK, Heap, Telemetry
<1>2. /\ heap' \in Heap
      /\ \A a \in Addr : store[a] # Nil /\ store[a].params # Nil =>
           heap'[store[a].params] = heap[store[a].params]
      /\ \A q \in Reader, a \in Addr : held[q] # Nil /\ held[q].params[a] # Nil =>
           heap'[held[q].params[a]] = heap[held[q].params[a]]
  BY <1>1, CollectFacts
<1>3. \A a \in Addr : ParamsOf(a)' = ParamsOf(a)
  BY DEF ParamsOf
<1>4. \A a \in Addr : ParamsOf(a) # Nil => heap'[ParamsOf(a)] = heap[ParamsOf(a)]
  BY <1>2 DEF ParamsOf
<1>5. StoreTypeOK'
  BY <1>1, <1>2 DEF StoreTypeOK, Telemetry, Heap
<1>6. PointersAreOwned'
  BY <1>2, <1>3, <1>4 DEF StoreInv, PointersAreOwned
<1>7. TelemetryMatchesPacks'
  <2> SUFFICES ASSUME NEW a \in Addr, store[a] # Nil
               PROVE  TelemetryForPack(store[a], heap') = TelemetryForPack(store[a], heap)
    BY DEF StoreInv, TelemetryMatchesPacks
  <2> QED BY <1>2, TelemetrySame
<1>8. LimitAgrees'
  BY <1>3, <1>4 DEF StoreInv, LimitAgrees
<1>9. SnapshotThresholdsFrozen'
  BY <1>2 DEF SnapshotThresholdsFrozen, Deref
<1> QED BY <1>5, <1>6, <1>7, <1>8, <1>9 DEF StoreInv

(* What a snapshot points to is what a pack points to.                     *)
LEMMA TakeSnapshotInv ==
  ASSUME StoreInv, NEW q \in Reader, TakeSnapshot(q)
  PROVE  StoreInv'
<1> DEFINE ptr == [a \in Addr |-> ParamsOf(a)]
           taken == [params |-> ptr, seen |-> [a \in Addr |-> Deref(ptr[a])]]
           held == [snaps EXCEPT ![q] = taken]
<1>1. /\ snaps' = held
      /\ heap' = Collect(heap, store, held)
      /\ UNCHANGED <<services, store, telemetry>>
  BY Zenon DEF TakeSnapshot
<1>2. \A a \in Addr : /\ ptr[a] = ParamsOf(a) /\ ParamsOf(a) \in Opt(Ref)
                      /\ ParamsOf(a) # Nil => heap[ParamsOf(a)] \in Params
                      /\ Deref(ptr[a]) \in Opt(ParamFields)
  BY PackFacts DEF Good, Deref, Params, Opt
<1>3. taken \in Snapshot /\ taken.params = ptr /\ \A a \in Addr : taken.seen[a] = Deref(ptr[a])
  BY <1>2 DEF Snapshot
<1>4. /\ store \in [Addr -> Opt(Pack)] /\ heap \in Heap /\ telemetry \in Telemetry
      /\ snaps \in [Reader -> Opt(Snapshot)] /\ services \in [Service -> BOOLEAN]
  BY DEF StoreInv, StoreTypeOK, Heap, Telemetry
<1> HIDE DEF taken
<1>5. /\ held \in [Reader -> Opt(Snapshot)] /\ held[q] = taken
      /\ \A o \in Reader : o # q => held[o] = snaps[o]
  BY <1>3, <1>4 DEF Opt
<1> HIDE DEF held, ptr
<1>6. ASSUME NEW o \in Reader, NEW a \in Addr, held[o] # Nil
      PROVE  /\ held[o].params[a] # Nil => heap[held[o].params[a]] # Free
             /\ Deref(held[o].params[a]) = held[o].seen[a]
  <2>1. CASE o = q
    BY <1>2, <1>3, <1>5, <2>1, FreeAssumption
  <2>2. CASE o # q
    BY <1>5, <1>6, <2>2 DEF StoreInv, PointersAreOwned, SnapshotThresholdsFrozen
  <2> QED BY <2>1, <2>2
<1> QED BY <1>1, <1>5, <1>6, SnapshotSection

LEMMA DropSnapshotInv ==
  ASSUME StoreInv, NEW q \in Reader, DropSnapshot(q)
  PROVE  StoreInv'
<1> DEFINE held == [snaps EXCEPT ![q] = Nil]
<1>1. /\ snaps' = held /\ heap' = Collect(heap, store, held)
      /\ UNCHANGED <<services, store, telemetry>>
  BY DEF DropSnapshot
<1>2. /\ held \in [Reader -> Opt(Snapshot)] /\ held[q] = Nil
      /\ \A o \in Reader : o # q => held[o] = snaps[o]
  BY DEF StoreInv, StoreTypeOK, Opt
<1> HIDE DEF held
<1>3. \A o \in Reader, a \in Addr : held[o] # Nil =>
        /\ held[o].params[a] # Nil => heap[held[o].params[a]] # Free
        /\ Deref(held[o].params[a]) = held[o].seen[a]
  BY <1>2 DEF StoreInv, PointersAreOwned, SnapshotThresholdsFrozen
<1> QED BY <1>1, <1>2, <1>3, SnapshotSection

LEMMA SameInv ==
  ASSUME StoreInv, UNCHANGED <<store, heap, telemetry, snaps>>,
         services' \in [Service -> BOOLEAN]
  PROVE  StoreInv'
BY DEF StoreInv, StoreTypeOK, PointersAreOwned, ParamsOf, TelemetryMatchesPacks,
       LimitAgrees, SnapshotThresholdsFrozen, Deref

LEMMA SetServiceStatusInv ==
  ASSUME StoreInv, NEW s \in Service, NEW ok \in BOOLEAN, SetServiceStatus(s, ok)
  PROVE  StoreInv'
<1>1. services \in [Service -> BOOLEAN]
  BY DEF StoreInv, StoreTypeOK
<1>2. services' \in [Service -> BOOLEAN] /\ UNCHANGED <<store, heap, telemetry, snaps>>
  BY <1>1 DEF SetServiceStatus
<1> QED BY <1>2, SameInv

-----------------------------------------------------------------------------
(* The invariant holds in every reachable state *)

LEMMA StoreInitInv == StoreInit => StoreInv
<1> SUFFICES ASSUME StoreInit PROVE StoreInv
  OBVIOUS
<1>1. /\ \A a \in Addr : store[a] = Nil /\ ParamsOf(a) = Nil
      /\ \A q \in Reader : snaps[q] = Nil
  BY DEF StoreInit, ParamsOf
<1>2. StoreTypeOK
  BY DEF StoreInit, StoreTypeOK, Opt
<1> QED BY <1>1, <1>2 DEF StoreInv, PointersAreOwned, TelemetryMatchesPacks,
                          LimitAgrees, SnapshotThresholdsFrozen

LEMMA StoreStepInv == StoreInv /\ [StoreNext]_storeVars => StoreInv'
<1> SUFFICES ASSUME StoreInv, [StoreNext]_storeVars PROVE StoreInv'
  OBVIOUS
<1>1. CASE \E s \in Service, ok \in BOOLEAN : SetServiceStatus(s, ok)
  BY <1>1, SetServiceStatusInv
<1>2. CASE \E a \in Addr, reading \in Analog : UpsertPack(a, reading)
  BY <1>2, UpsertPackInv
<1>3. CASE \E S \in SUBSET Addr, readings \in [Addr -> Analog] : ReplacePacks(S, readings)
  BY <1>3, ReplacePacksInv
<1>4. CASE \E a \in Addr, v \in Val : UpsertPackStatus(a, v)
  BY <1>4, UpsertPackStatusInv
<1>5. CASE \E a \in Addr, info \in Info : UpsertPackInfo(a, info)
  BY <1>5, UpsertPackInfoInv
<1>6. CASE \E a \in Addr, fields \in ParamFields, r \in Ref :
             UpsertPackParameters(a, fields, r)
  BY <1>6, UpsertPackParametersInv
<1>7. CASE \E a \in Addr, v \in Val, r \in Ref : UpsertCurrentLimitParameter(a, v, r)
  BY <1>7, UpsertCurrentLimitParameterInv
<1>8. CASE \E q \in Reader : TakeSnapshot(q) \/ DropSnapshot(q)
  BY <1>8, TakeSnapshotInv, DropSnapshotInv
<1>9. CASE UNCHANGED storeVars
  <2>1. services' \in [Service -> BOOLEAN] /\ UNCHANGED <<store, heap, telemetry, snaps>>
    BY <1>9 DEF storeVars, StoreInv, StoreTypeOK
  <2> QED BY <2>1, SameInv
<1> QED BY <1>1, <1>2, <1>3, <1>4, <1>5, <1>6, <1>7, <1>8, <1>9 DEF StoreNext

(* The store as a whole: its invariant is inductive.                       *)
THEOREM StoreCorrect == StoreSpec => []StoreInv
BY StoreInitInv, StoreStepInv, PTL DEF StoreSpec

(* Every map of the store holds what its Go type says.                     *)
THEOREM StoreTypeCorrect == StoreSpec => []StoreTypeOK
<1>1. StoreInv => StoreTypeOK
  BY DEF StoreInv
<1> QED BY <1>1, StoreCorrect, PTL

(* No two packs share a parameters object and no pointer dangles.          *)
THEOREM PointersCorrect == StoreSpec => []PointersAreOwned
<1>1. StoreInv => PointersAreOwned
  BY DEF StoreInv
<1> QED BY <1>1, StoreCorrect, PTL

(* What MQTT publishes of a pack is what the HTTP API shows of it.         *)
THEOREM TelemetryCorrect == StoreSpec => []TelemetryMatchesPacks
<1>1. StoreInv => TelemetryMatchesPacks
  BY DEF StoreInv
<1> QED BY <1>1, StoreCorrect, PTL

(* The two copies of a current limit agree.                                *)
THEOREM LimitCorrect == StoreSpec => []LimitAgrees
<1>1. StoreInv => LimitAgrees
  BY DEF StoreInv
<1> QED BY <1>1, StoreCorrect, PTL

(* The thresholds a reader holds never move under it.                      *)
THEOREM SnapshotsCorrect == StoreSpec => []SnapshotThresholdsFrozen
<1>1. StoreInv => SnapshotThresholdsFrozen
  BY DEF StoreInv
<1> QED BY <1>1, StoreCorrect, PTL

-----------------------------------------------------------------------------
(* What KnownStaysKnown asks of the pack at c                              *)
Keeps(c) ==
  store[c] # Nil /\ store'[c] # Nil =>
    /\ store[c].status # Nil => store'[c].status # Nil
    /\ store[c].info # Nil =>
         /\ store'[c].info # Nil
         /\ \A f \in InfoField : store[c].info[f] # Nil => store'[c].info[f] # Nil
    /\ store[c].params # Nil =>
         /\ store'[c].params # Nil
         /\ heap[store[c].params].limit # Nil => heap'[store'[c].params].limit # Nil

(* A pack that is not touched keeps what it has, if its object does.       *)
LEMMA KeepsUntouched ==
  ASSUME NEW c \in Addr, store'[c] = store[c],
         ParamsOf(c) # Nil => heap'[ParamsOf(c)].limit = heap[ParamsOf(c)].limit
  PROVE  Keeps(c)
BY DEF Keeps, ParamsOf

(* A new reading borrows the other sections from the old pack.             *)
LEMMA KeepsMerged ==
  ASSUME StoreInv, NEW c \in Addr, NEW reading \in Analog,
         store'[c] = Merged(store[c], NewPack(reading)),
         ParamsOf(c) # Nil => heap'[ParamsOf(c)] = heap[ParamsOf(c)]
  PROVE  Keeps(c)
<1>1. NewPack(reading) \in Pack
  BY DEF NewPack, Pack, Opt
<1>2. CASE store[c] = Nil
  BY <1>2 DEF Keeps
<1>3. CASE store[c] # Nil
  <2>1. /\ store'[c].status = store[c].status /\ store'[c].info = store[c].info
        /\ store'[c].params = store[c].params
    BY <1>1, <1>3 DEF Merged, NewPack, Pack
  <2>. QED
    BY <1>3, <2>1 DEF Keeps, ParamsOf
<1>. QED
  BY <1>2, <1>3

LEMMA KeepsOnReading ==
  ASSUME StoreInv, NEW a \in Addr, NEW reading \in Analog, UpsertPack(a, reading),
         NEW c \in Addr
  PROVE  Keeps(c)
<1>1. store \in [Addr -> Opt(Pack)] /\ heap' = heap
  BY PackFacts DEF UpsertPack
<1>2. CASE c = a
  <2>1. store'[c] = Merged(store[c], NewPack(reading))
    BY <1>1, <1>2 DEF UpsertPack
  <2>. QED
    BY <1>1, <2>1, KeepsMerged
<1>3. CASE c # a
  <2>1. store'[c] = store[c]
    BY <1>1, <1>3 DEF UpsertPack
  <2>. QED
    BY <1>1, <2>1, KeepsUntouched
<1>. QED
  BY <1>2, <1>3

LEMMA KeepsOnReplace ==
  ASSUME StoreInv, NEW S \in SUBSET Addr, NEW readings \in [Addr -> Analog],
         ReplacePacks(S, readings), NEW c \in Addr
  PROVE  Keeps(c)
<1>1. /\ store'[c] = IF c \in S THEN Merged(store[c], NewPack(readings[c])) ELSE Nil
      /\ heap' = Collect(heap, store', snaps)
  BY DEF ReplacePacks
<1>2. CASE c \notin S
  BY <1>1, <1>2 DEF Keeps
<1>3. CASE c \in S
  <2>1. store' \in [Addr -> Opt(Pack)]
    BY ReplacePacksInv DEF StoreInv, StoreTypeOK
  <2>2. heap \in Heap /\ snaps \in [Reader -> Opt(Snapshot)] /\ readings[c] \in Analog
    BY DEF StoreInv, StoreTypeOK, Heap
  <2>3. /\ store'[c] \in Pack /\ store'[c].params = ParamsOf(c)
        /\ store'[c] = Merged(store[c], NewPack(readings[c]))
    BY <1>1, <1>3, <2>2, MergedFacts
  <2>4. store'[c] # Nil
    BY <2>3, NilAssumption
  <2>5. ParamsOf(c) # Nil => heap'[ParamsOf(c)] = heap[ParamsOf(c)]
    BY <1>1, <2>1, <2>2, <2>3, <2>4, CollectFacts
  <2>. QED
    BY <2>2, <2>3, <2>5, KeepsMerged
<1>. QED
  BY <1>2, <1>3

LEMMA KeepsOnStatus ==
  ASSUME StoreInv, NEW a \in Addr, NEW v \in Val, UpsertPackStatus(a, v), NEW c \in Addr
  PROVE  Keeps(c)
<1>1. store \in [Addr -> Opt(Pack)] /\ heap' = heap /\ (store[a] # Nil => store[a] \in Pack)
  BY PackFacts DEF UpsertPackStatus
<1>2. CASE c = a
  <2>1. store'[c] = [store[c] EXCEPT !.status = v] /\ store[c] \in Pack
    BY <1>1, <1>2 DEF UpsertPackStatus
  <2>2. /\ store'[c].status = v /\ store'[c].info = store[c].info
        /\ store'[c].params = store[c].params
    BY <2>1 DEF Pack
  <2>. QED
    BY <1>1, <2>2, NilAssumption DEF Keeps
<1>3. CASE c # a
  <2>1. store'[c] = store[c]
    BY <1>1, <1>3 DEF UpsertPackStatus
  <2>. QED
    BY <1>1, <2>1, KeepsUntouched
<1>. QED
  BY <1>2, <1>3

LEMMA KeepsOnInfo ==
  ASSUME StoreInv, NEW a \in Addr, NEW info \in Info, UpsertPackInfo(a, info), NEW c \in Addr
  PROVE  Keeps(c)
<1>1. store \in [Addr -> Opt(Pack)] /\ heap' = heap /\ (store[a] # Nil => store[a] \in Pack)
  BY PackFacts DEF UpsertPackInfo
<1>2. CASE c = a
  <2> DEFINE merged == [f \in InfoField |->
               IF store[c].info # Nil /\ info[f] = Nil THEN store[c].info[f] ELSE info[f]]
  <2>1. store'[c] = [store[c] EXCEPT !.info = merged] /\ store[c] \in Pack
    BY <1>1, <1>2 DEF UpsertPackInfo
  <2>2. /\ store'[c].status = store[c].status /\ store'[c].info = merged
        /\ store'[c].params = store[c].params
    BY <2>1 DEF Pack
  <2>3. merged \in Info
    BY <2>1 DEF Pack, Info, Opt
  <2>4. merged # Nil
    BY <2>3, NilAssumption
  <2>5. \A f \in InfoField : store[c].info # Nil /\ store[c].info[f] # Nil => merged[f] # Nil
    OBVIOUS
  <2>. HIDE DEF merged
  <2>. QED
    BY <1>1, <2>2, <2>4, <2>5 DEF Keeps
<1>3. CASE c # a
  <2>1. store'[c] = store[c]
    BY <1>1, <1>3 DEF UpsertPackInfo
  <2>. QED
    BY <1>1, <2>1, KeepsUntouched
<1>. QED
  BY <1>2, <1>3

(* The object UpsertPackParameters makes inherits the limit, and no other   *)
(* pack had its cell.                                                       *)
LEMMA NewObject ==
  ASSUME StoreInv, NEW a \in Addr, NEW fields \in ParamFields, NEW r \in Ref,
         UpsertPackParameters(a, fields, r)
  PROVE  /\ store' = [store EXCEPT ![a] = [store[a] EXCEPT !.params = r]]
         /\ snaps' = snaps
         /\ heap'[r] = [fields |-> fields,
                        limit  |-> IF ParamsOf(a) = Nil THEN Nil ELSE heap[ParamsOf(a)].limit]
         /\ heap'[r] \in Params
         /\ \A c \in Addr : c # a /\ ParamsOf(c) # Nil =>
              heap'[ParamsOf(c)] = heap[ParamsOf(c)]
<1> DEFINE limit == IF ParamsOf(a) = Nil THEN Nil ELSE heap[ParamsOf(a)].limit
           object == [fields |-> fields, limit |-> limit]
           h == [heap EXCEPT ![r] = object]
<1>1. /\ store \in [Addr -> Opt(Pack)] /\ heap \in Heap
      /\ snaps \in [Reader -> Opt(Snapshot)]
  BY PackFacts DEF StoreInv, StoreTypeOK
<1>2. /\ store[a] # Nil /\ store[a] \in Pack /\ store[a].params = ParamsOf(a)
      /\ Good(ParamsOf(a), heap)
  BY PackFacts DEF UpsertPackParameters
<1>3. /\ store' = [store EXCEPT ![a] = [store[a] EXCEPT !.params = r]]
      /\ heap' = Collect(h, store', snaps) /\ heap[r] = Free /\ snaps' = snaps
  BY <1>2, Zenon DEF UpsertPackParameters, Fresh
<1>4. object \in Params
  BY <1>2 DEF Good, Params, Opt
<1>. HIDE DEF object
<1>5. h \in Heap /\ h[r] = object /\ \A o \in Ref : o # r => h[o] = heap[o]
  BY <1>1, <1>4 DEF Heap
<1>6. store' \in [Addr -> Opt(Pack)]
  BY UpsertPackParametersInv DEF StoreInv, StoreTypeOK
<1>. HIDE DEF h
<1>7. \A d \in Addr : store'[d] # Nil /\ store'[d].params # Nil =>
        heap'[store'[d].params] = h[store'[d].params]
  <2>1. \A d \in Addr : store'[d] # Nil /\ store'[d].params # Nil =>
          Collect(h, store', snaps)[store'[d].params] = h[store'[d].params]
    BY <1>1, <1>5, <1>6, CollectFacts
  <2>. QED
    BY <1>3, <2>1
<1>8. heap'[r] = object
  <2>1. store'[a] = [store[a] EXCEPT !.params = r]
    BY <1>1, <1>3
  <2>2. store'[a] \in Pack /\ store'[a].params = r
    BY <1>2, <2>1 DEF Pack, Opt
  <2>. QED
    BY <1>5, <1>7, <2>2, NilAssumption
<1>9. ASSUME NEW c \in Addr, c # a, ParamsOf(c) # Nil
      PROVE  heap'[ParamsOf(c)] = heap[ParamsOf(c)]
  <2>1. store'[c] = store[c]
    BY <1>1, <1>3, <1>9
  <2>2. ParamsOf(c) \in Ref /\ heap[ParamsOf(c)] # Free
    BY <1>9, PackFacts DEF StoreInv, PointersAreOwned, Opt
  <2>3. store[c] # Nil /\ store[c].params = ParamsOf(c)
    BY <1>9 DEF ParamsOf
  <2>. QED
    BY <1>3, <1>5, <1>7, <1>9, <2>1, <2>2, <2>3
<1>. QED
  BY <1>3, <1>4, <1>8, <1>9 DEF object

LEMMA KeepsOnParameters ==
  ASSUME StoreInv, NEW a \in Addr, NEW fields \in ParamFields, NEW r \in Ref,
         UpsertPackParameters(a, fields, r), NEW c \in Addr
  PROVE  Keeps(c)
<1>1. /\ store \in [Addr -> Opt(Pack)] /\ r # Nil
      /\ store' = [store EXCEPT ![a] = [store[a] EXCEPT !.params = r]]
  BY PackFacts, NewObject, NilAssumption
<1>2. CASE c = a
  <2>1. store[a] # Nil /\ store[a] \in Pack /\ store[a].params = ParamsOf(a)
    BY PackFacts DEF UpsertPackParameters
  <2>2. store'[c] = [store[c] EXCEPT !.params = r]
    BY <1>1, <1>2
  <2>3. /\ store'[c].status = store[c].status /\ store'[c].info = store[c].info
        /\ store'[c].params = r
    BY <1>2, <2>1, <2>2 DEF Pack
  <2>4. heap'[r].limit = IF ParamsOf(a) = Nil THEN Nil ELSE heap[ParamsOf(a)].limit
    <3>1. heap'[r] = [fields |-> fields,
                      limit  |-> IF ParamsOf(a) = Nil THEN Nil ELSE heap[ParamsOf(a)].limit]
      BY NewObject
    <3>. QED
      BY <3>1
  <2>. QED
    BY <1>1, <1>2, <2>1, <2>3, <2>4 DEF Keeps
<1>3. CASE c # a
  <2>1. store'[c] = store[c]
    BY <1>1, <1>3
  <2>2. ParamsOf(c) # Nil => heap'[ParamsOf(c)] = heap[ParamsOf(c)]
    BY <1>3, NewObject
  <2>. QED
    BY <2>1, <2>2, KeepsUntouched
<1>. QED
  BY <1>2, <1>3

(* A limit is written over one of this pack only.                          *)
LEMMA KeepsOnLimit ==
  ASSUME StoreInv, NEW a \in Addr, NEW v \in Val, NEW r \in Ref,
         UpsertCurrentLimitParameter(a, v, r), NEW c \in Addr
  PROVE  Keeps(c)
<1>1. /\ store \in [Addr -> Opt(Pack)] /\ heap \in Heap
      /\ ParamsOf(c) \in Opt(Ref) /\ Good(ParamsOf(c), heap)
  BY PackFacts
<1>2. ParamsOf(c) # Nil => ParamsOf(c) \in Ref /\ heap[ParamsOf(c)] \in Params
  BY <1>1 DEF Good, Opt
<1>3. CASE store[a] = Nil
  <2>1. store' = store /\ heap' = heap
    BY <1>3 DEF UpsertCurrentLimitParameter
  <2>. QED
    BY <2>1, KeepsUntouched
<1>4. CASE store[a] # Nil /\ store[a].params = Nil
  <2>1. /\ store' = [store EXCEPT ![a].params = r] /\ heap[r] = Free
        /\ heap' = [heap EXCEPT ![r] = [fields |-> [f \in ParamField |-> Nil], limit |-> v]]
    BY <1>4 DEF UpsertCurrentLimitParameter, Fresh
  <2>2. CASE c = a
    <3>1. store'[c] = [store[c] EXCEPT !.params = r] /\ store[c] \in Pack
      BY <1>1, <1>4, <2>1, <2>2 DEF Opt
    <3>2. store'[c].status = store[c].status /\ store'[c].info = store[c].info
      BY <3>1 DEF Pack
    <3>. QED
      BY <1>4, <2>2, <3>2 DEF Keeps
  <2>3. CASE c # a
    <3>1. store'[c] = store[c]
      BY <1>1, <2>1, <2>3
    <3>2. ParamsOf(c) # Nil => ParamsOf(c) # r
      BY <1>2, <2>1, FreeAssumption
    <3>3. ParamsOf(c) # Nil => heap'[ParamsOf(c)] = heap[ParamsOf(c)]
      BY <1>1, <1>2, <2>1, <3>2 DEF Heap
    <3>. QED
      BY <3>1, <3>3, KeepsUntouched
  <2>. QED
    BY <2>2, <2>3
<1>5. CASE store[a] # Nil /\ store[a].params # Nil
  <2>1. store' = store /\ heap' = [heap EXCEPT ![store[a].params].limit = v]
    BY <1>5 DEF UpsertCurrentLimitParameter
  <2>2. CASE c = a
    <3>1. store[a].params = ParamsOf(c) /\ ParamsOf(c) # Nil
      BY <1>5, <2>2 DEF ParamsOf
    <3>2. heap'[ParamsOf(c)] = [heap[ParamsOf(c)] EXCEPT !.limit = v]
      BY <1>1, <1>2, <2>1, <3>1 DEF Heap
    <3>3. heap'[ParamsOf(c)].limit = v
      BY <1>2, <3>1, <3>2 DEF Params
    <3>. QED
      BY <2>1, <2>2, <3>1, <3>3, NilAssumption DEF Keeps
  <2>3. CASE c # a
    <3>1. ParamsOf(c) # Nil => ParamsOf(c) # store[a].params
      BY <1>5, <2>3 DEF StoreInv, PointersAreOwned, ParamsOf
    <3>2. ParamsOf(c) # Nil => heap'[ParamsOf(c)] = heap[ParamsOf(c)]
      BY <1>1, <1>2, <2>1, <3>1 DEF Heap
    <3>. QED
      BY <2>1, <3>2, KeepsUntouched
  <2>. QED
    BY <2>2, <2>3
<1>. QED
  BY <1>3, <1>4, <1>5

(* Collection takes nothing from a pack.                                   *)
LEMMA KeepsOnSnapshot ==
  ASSUME StoreInv, NEW q \in Reader, TakeSnapshot(q) \/ DropSnapshot(q), NEW c \in Addr
  PROVE  Keeps(c)
<1>1. store' = store /\ heap' = Collect(heap, store, snaps')
  BY DEF TakeSnapshot, DropSnapshot
<1>2. store \in [Addr -> Opt(Pack)] /\ heap \in Heap /\ snaps' \in [Reader -> Opt(Snapshot)]
  BY PackFacts, TakeSnapshotInv, DropSnapshotInv DEF StoreInv, StoreTypeOK
<1>3. ParamsOf(c) # Nil => heap'[ParamsOf(c)] = heap[ParamsOf(c)]
  BY <1>1, <1>2, CollectFacts DEF ParamsOf
<1>. QED
  BY <1>1, <1>3, KeepsUntouched

LEMMA KeepsStep ==
  ASSUME StoreInv, [StoreNext]_storeVars
  PROVE  /\ \A c \in Addr : Keeps(c)
         /\ \A s \in Service : services[s] => services'[s]
<1>1. ASSUME NEW c \in Addr PROVE Keeps(c)
  <2>1. CASE (\E s \in Service, ok \in BOOLEAN : SetServiceStatus(s, ok))
               \/ UNCHANGED storeVars
    <3>1. store' = store /\ heap' = heap
      BY <2>1 DEF SetServiceStatus, storeVars
    <3>. QED
      BY <3>1, KeepsUntouched
  <2>. QED
    BY <2>1, KeepsOnReading, KeepsOnReplace, KeepsOnStatus, KeepsOnInfo,
       KeepsOnParameters, KeepsOnLimit, KeepsOnSnapshot DEF StoreNext
<1>2. ASSUME NEW s \in Service, services[s] PROVE services'[s]
  <2>1. services \in [Service -> BOOLEAN]
    BY DEF StoreInv, StoreTypeOK
  <2>2. CASE \E t \in Service, ok \in BOOLEAN : SetServiceStatus(t, ok)
    BY <1>2, <2>1, <2>2 DEF SetServiceStatus
  <2>3. CASE UNCHANGED services
    BY <1>2, <2>3
  <2>4. UNCHANGED services
          \/ \E t \in Service, ok \in BOOLEAN : SetServiceStatus(t, ok)
    BY DEF StoreNext, storeVars, UpsertPack, ReplacePacks, UpsertPackStatus, UpsertPackInfo,
           UpsertPackParameters, UpsertCurrentLimitParameter, TakeSnapshot, DropSnapshot
  <2>. QED
    BY <2>2, <2>3, <2>4
<1>. QED
  BY <1>1, <1>2

(* However sparse the answers, nothing learnt of a pack that stays is      *)
(* unlearnt, and no service forgets that it has succeeded.                 *)
THEOREM KnowledgeGrows == StoreSpec => KnownStaysKnown
<1>1. StoreInv /\ [StoreNext]_storeVars =>
        [ /\ \A a \in Addr : store[a] # Nil /\ store'[a] # Nil =>
               /\ store[a].status # Nil => store'[a].status # Nil
               /\ store[a].info # Nil =>
                    /\ store'[a].info # Nil
                    /\ \A f \in InfoField :
                         store[a].info[f] # Nil => store'[a].info[f] # Nil
               /\ store[a].params # Nil =>
                    /\ store'[a].params # Nil
                    /\ heap[store[a].params].limit # Nil =>
                         heap'[store'[a].params].limit # Nil
          /\ \A s \in Service : services[s] => services'[s] ]_storeVars
  BY KeepsStep DEF Keeps
<1>. QED
  BY <1>1, StoreCorrect, PTL DEF StoreSpec, KnownStaysKnown

-----------------------------------------------------------------------------
(* The store without its pointers *)

(* Two packs without pointers are the same if their sections are.          *)
LEMMA SameValue ==
  ASSUME NEW x \in PackValue, NEW y \in PackValue,
         x.analog = y.analog, x.status = y.status, x.info = y.info, x.params = y.params
  PROVE  x = y
BY DEF PackValue

LEMMA UnrefFacts ==
  ASSUME NEW p \in Pack, NEW h, Good(p.params, h)
  PROVE  /\ Unref(p, h) \in PackValue /\ Unref(p, h) # Nil
         /\ Unref(p, h).analog = p.analog
         /\ Unref(p, h).status = p.status
         /\ Unref(p, h).info = p.info
         /\ Unref(p, h).params = IF p.params = Nil THEN Nil ELSE h[p.params]
<1> DEFINE object == IF p.params = Nil THEN Nil ELSE h[p.params]
           v == [p EXCEPT !.params = object]
<1>1. object \in Opt(Params)
  BY DEF Good, Opt
<1> HIDE DEF object
<1>2. /\ v \in PackValue
      /\ v.analog = p.analog /\ v.status = p.status /\ v.info = p.info /\ v.params = object
  BY <1>1 DEF Pack, PackValue
<1>3. Unref(p, h) = v
  BY DEF Unref, object
<1> HIDE DEF v
<1> QED BY <1>2, <1>3, ValueAssumption DEF object

(* The value of a pack is its own sections and the object it points to.    *)
LEMMA ValueFacts ==
  ASSUME StoreInv, NEW a \in Addr
  PROVE  /\ PackValues[a] = Nil <=> store[a] = Nil
         /\ store[a] # Nil =>
              /\ PackValues[a] \in PackValue
              /\ PackValues[a].analog = store[a].analog
              /\ PackValues[a].status = store[a].status
              /\ PackValues[a].info = store[a].info
              /\ PackValues[a].params = IF ParamsOf(a) = Nil THEN Nil ELSE heap[ParamsOf(a)]
<1>1. PackValues[a] = IF store[a] = Nil THEN Nil ELSE Unref(store[a], heap)
  BY DEF PackValues
<1>2. store[a] # Nil =>
        /\ store[a] \in Pack /\ store[a].params = ParamsOf(a) /\ Good(store[a].params, heap)
  BY PackFacts
<1>3. CASE store[a] = Nil
  BY <1>1, <1>3
<1>4. CASE store[a] # Nil
  <2>1. PackValues[a] = Unref(store[a], heap)
    BY <1>1, <1>4
  <2> QED BY <1>2, <1>4, <2>1, UnrefFacts
<1> QED BY <1>3, <1>4

(* A pack that is not touched keeps its value, if its object does.         *)
LEMMA ValueStays ==
  ASSUME NEW c \in Addr, store'[c] = store[c],
         ParamsOf(c) # Nil => heap'[ParamsOf(c)] = heap[ParamsOf(c)]
  PROVE  PackValues'[c] = PackValues[c]
<1>1. /\ PackValues[c] = IF store[c] = Nil THEN Nil ELSE Unref(store[c], heap)
      /\ PackValues'[c] = IF store[c] = Nil THEN Nil ELSE Unref(store[c], heap')
  BY DEF PackValues
<1>2. store[c] # Nil => Unref(store[c], heap') = Unref(store[c], heap)
  BY DEF Unref, ParamsOf
<1> QED BY <1>1, <1>2

LEMMA OneValue ==
  ASSUME NEW a \in Addr, NEW v, PackValues'[a] = v,
         \A c \in Addr : c # a => PackValues'[c] = PackValues[c]
  PROVE  PackValues' = [PackValues EXCEPT ![a] = v]
BY DEF PackValues

(* As long as the thresholds of a snapshot do not move, a view is what the *)
(* snapshot said when it was taken.                                        *)
LEMMA ViewFacts ==
  StoreInv => Views = [q \in Reader |-> IF snaps[q] = Nil THEN Nil ELSE snaps[q].seen]
<1> SUFFICES ASSUME StoreInv, NEW q \in Reader, snaps[q] # Nil
             PROVE  [a \in Addr |-> Deref(snaps[q].params[a])] = snaps[q].seen
  BY DEF Views
<1>1. snaps[q].seen \in [Addr -> Opt(ParamFields)]
  BY DEF StoreInv, StoreTypeOK, Snapshot, Opt
<1>2. \A a \in Addr : Deref(snaps[q].params[a]) = snaps[q].seen[a]
  BY DEF StoreInv, SnapshotThresholdsFrozen
<1> QED BY <1>1, <1>2

LEMMA LaterViews ==
  StoreInv' => Views' = [q \in Reader |-> IF snaps'[q] = Nil THEN Nil ELSE snaps'[q].seen]
<1>1. (StoreInv => Views = [q \in Reader |-> IF snaps[q] = Nil THEN Nil ELSE snaps[q].seen])'
  BY ViewFacts, PTL
<1> QED BY <1>1

LEMMA ViewsStay ==
  ASSUME StoreInv, StoreInv', snaps' = snaps
  PROVE  Views' = Views
<1>1. Views' = [q \in Reader |-> IF snaps'[q] = Nil THEN Nil ELSE snaps'[q].seen]
  BY LaterViews
<1>2. Views = [q \in Reader |-> IF snaps[q] = Nil THEN Nil ELSE snaps[q].seen]
  BY ViewFacts
<1> QED BY <1>1, <1>2

(* The three calls that put a pack with the pointer of the old one in its  *)
(* place, each as the value of the pack they make.                         *)
LEMMA PackOnly ==
  ASSUME StoreInv, StoreInv', NEW a \in Addr, NEW p \in Pack, p.params = ParamsOf(a),
         store' = [store EXCEPT ![a] = p], heap' = heap, snaps' = snaps
  PROVE  /\ PackValues' = [PackValues EXCEPT ![a] = Unref(p, heap)]
         /\ Views' = Views
         /\ Unref(p, heap) \in PackValue
         /\ Unref(p, heap).analog = p.analog
         /\ Unref(p, heap).status = p.status
         /\ Unref(p, heap).info = p.info
         /\ Unref(p, heap).params = IF ParamsOf(a) = Nil THEN Nil ELSE heap[ParamsOf(a)]
<1>1. store \in [Addr -> Opt(Pack)] /\ Good(ParamsOf(a), heap) /\ p # Nil
  BY PackFacts, NilAssumption
<1>2. store'[a] = p /\ \A c \in Addr : c # a => store'[c] = store[c]
  BY <1>1
<1>3. PackValues'[a] = Unref(p, heap)
  BY <1>1, <1>2 DEF PackValues
<1>4. \A c \in Addr : c # a => PackValues'[c] = PackValues[c]
  BY <1>2, ValueStays
<1>5. PackValues' = [PackValues EXCEPT ![a] = Unref(p, heap)]
  BY <1>3, <1>4, OneValue
<1> QED BY <1>1, <1>5, UnrefFacts, ViewsStay

(* A new reading, over whatever is known of the pack.                      *)
LEMMA MeasuredFacts ==
  ASSUME StoreInv, NEW a \in Addr, NEW reading \in Analog
  PROVE  Unref(Merged(store[a], NewPack(reading)), heap) = Values!Measured(a, reading)
<1> DEFINE p == Merged(store[a], NewPack(reading))
           m == Values!Measured(a, reading)
<1>1. p \in Pack /\ p.params = ParamsOf(a)
  BY MergedFacts
<1>2. Good(p.params, heap) /\ (store[a] # Nil => store[a] \in Pack)
  BY <1>1, PackFacts
<1>3. /\ p.analog = reading
      /\ p.status = IF store[a] = Nil THEN Nil ELSE store[a].status
      /\ p.info = IF store[a] = Nil THEN Nil ELSE store[a].info
  <2>1. NewPack(reading) \in Pack
    BY DEF NewPack, Pack, Opt
  <2>2. CASE store[a] = Nil
    BY <2>2 DEF Merged, NewPack
  <2>3. CASE store[a] # Nil
    BY <2>1, <2>3 DEF Merged, NewPack, Pack
  <2> QED BY <2>2, <2>3
<1>4. /\ Unref(p, heap) \in PackValue
      /\ Unref(p, heap).analog = reading
      /\ Unref(p, heap).status = IF store[a] = Nil THEN Nil ELSE store[a].status
      /\ Unref(p, heap).info = IF store[a] = Nil THEN Nil ELSE store[a].info
      /\ Unref(p, heap).params = IF ParamsOf(a) = Nil THEN Nil ELSE heap[ParamsOf(a)]
  BY <1>1, <1>2, <1>3, UnrefFacts
<1>5. /\ m.analog = reading
      /\ m.status = IF store[a] = Nil THEN Nil ELSE store[a].status
      /\ m.info = IF store[a] = Nil THEN Nil ELSE store[a].info
      /\ m.params = IF ParamsOf(a) = Nil THEN Nil ELSE heap[ParamsOf(a)]
  <2>1. store[a] = Nil => ParamsOf(a) = Nil
    BY DEF ParamsOf
  <2> QED BY <2>1, ValueFacts DEF Values!Measured
<1>6. m \in PackValue
  <2>1. /\ m.analog \in Analog /\ m.status \in Opt(Val) /\ m.info \in Opt(Info)
        /\ m.params \in Opt(Params)
    BY <1>4, <1>5 DEF PackValue
  <2> QED BY <2>1 DEF PackValue, Values!Measured
<1> HIDE DEF p, m
<1>7. Unref(p, heap) = m
  BY <1>4, <1>5, <1>6, SameValue
<1> QED BY <1>7 DEF p, m

LEMMA MeasureStep ==
  ASSUME StoreInv, NEW a \in Addr, NEW reading \in Analog, UpsertPack(a, reading)
  PROVE  Values!Measure(a, reading)
<1> DEFINE p == Merged(store[a], NewPack(reading))
<1>1. p \in Pack /\ p.params = ParamsOf(a)
  BY MergedFacts
<1>2. store' = [store EXCEPT ![a] = p] /\ heap' = heap /\ snaps' = snaps
  BY DEF UpsertPack
<1>3. StoreInv'
  BY UpsertPackInv
<1>4. Unref(p, heap) = Values!Measured(a, reading)
  BY MeasuredFacts
<1> HIDE DEF p
<1> QED BY <1>1, <1>2, <1>3, <1>4, PackOnly DEF Values!Measure

LEMMA ListStep ==
  ASSUME StoreInv, NEW S \in SUBSET Addr, NEW readings \in [Addr -> Analog],
         ReplacePacks(S, readings)
  PROVE  Values!List(S, readings)
<1>1. StoreInv' /\ snaps' = snaps
  BY ReplacePacksInv DEF ReplacePacks
<1>2. ASSUME NEW a \in Addr
      PROVE  PackValues'[a] = IF a \in S THEN Values!Measured(a, readings[a]) ELSE Nil
  <2>1. /\ store'[a] = IF a \in S THEN Merged(store[a], NewPack(readings[a])) ELSE Nil
        /\ heap' = Collect(heap, store', snaps)
    BY DEF ReplacePacks
  <2>2. CASE a \notin S
    BY <2>1, <2>2 DEF PackValues
  <2>3. CASE a \in S
    <3> DEFINE p == Merged(store[a], NewPack(readings[a]))
    <3>1. store' \in [Addr -> Opt(Pack)] /\ store \in [Addr -> Opt(Pack)] /\ heap \in Heap
      BY <1>1, PackFacts DEF StoreInv, StoreTypeOK
    <3>2. p \in Pack /\ p.params = ParamsOf(a) /\ store'[a] = p
      BY <2>1, <2>3, MergedFacts
    <3>3. Unref(p, heap) = Values!Measured(a, readings[a])
      BY MeasuredFacts
    <3> HIDE DEF p
    <3>4. p # Nil /\ snaps \in [Reader -> Opt(Snapshot)]
      BY <3>2, NilAssumption DEF StoreInv, StoreTypeOK
    <3>5. p.params # Nil => heap'[p.params] = heap[p.params]
      BY <2>1, <3>1, <3>2, <3>4, CollectFacts
    <3>6. Unref(p, heap') = Unref(p, heap)
      BY <3>5 DEF Unref
    <3> QED BY <2>3, <3>2, <3>3, <3>4, <3>6 DEF PackValues
  <2> QED BY <2>2, <2>3
<1>3. PackValues' = [a \in Addr |-> IF a \in S THEN Values!Measured(a, readings[a]) ELSE Nil]
  <2>1. PackValues' = [a \in Addr |-> PackValues'[a]]
    BY DEF PackValues
  <2> QED BY <1>2, <2>1
<1> QED BY <1>1, <1>3, ViewsStay DEF Values!List

LEMMA StatusStep ==
  ASSUME StoreInv, NEW a \in Addr, NEW v \in Val, UpsertPackStatus(a, v)
  PROVE  Values!SetStatus(a, v)
<1> DEFINE p == [store[a] EXCEPT !.status = v]
           w == [PackValues[a] EXCEPT !.status = v]
<1>1. store[a] # Nil /\ store[a] \in Pack /\ store[a].params = ParamsOf(a)
  BY PackFacts DEF UpsertPackStatus
<1>2. /\ p \in Pack /\ p.params = ParamsOf(a) /\ p.analog = store[a].analog
      /\ p.status = v /\ p.info = store[a].info
  BY <1>1 DEF Pack, Opt
<1>3. store' = [store EXCEPT ![a] = p] /\ heap' = heap /\ snaps' = snaps
  BY DEF UpsertPackStatus
<1>4. StoreInv'
  BY UpsertPackStatusInv
<1> HIDE DEF p
<1>5. /\ PackValues' = [PackValues EXCEPT ![a] = Unref(p, heap)] /\ Views' = Views
      /\ Unref(p, heap) \in PackValue
      /\ Unref(p, heap).analog = p.analog /\ Unref(p, heap).status = p.status
      /\ Unref(p, heap).info = p.info
      /\ Unref(p, heap).params = IF ParamsOf(a) = Nil THEN Nil ELSE heap[ParamsOf(a)]
  BY <1>2, <1>3, <1>4, PackOnly
<1>6. /\ PackValues[a] # Nil /\ PackValues[a] \in PackValue
      /\ PackValues[a].analog = store[a].analog /\ PackValues[a].info = store[a].info
      /\ PackValues[a].params = IF ParamsOf(a) = Nil THEN Nil ELSE heap[ParamsOf(a)]
  BY <1>1, ValueFacts
<1>7. /\ w \in PackValue /\ w.status = v /\ w.analog = PackValues[a].analog
      /\ w.info = PackValues[a].info /\ w.params = PackValues[a].params
  BY <1>6 DEF PackValue, Opt
<1>8. [PackValues EXCEPT ![a].status = v] = [PackValues EXCEPT ![a] = w]
  OBVIOUS
<1> HIDE DEF w
<1>9. Unref(p, heap) = w
  BY <1>2, <1>5, <1>6, <1>7, SameValue
<1> QED BY <1>5, <1>6, <1>8, <1>9 DEF Values!SetStatus

LEMMA InformStep ==
  ASSUME StoreInv, NEW a \in Addr, NEW info \in Info, UpsertPackInfo(a, info)
  PROVE  Values!Inform(a, info)
<1> DEFINE merged == [f \in InfoField |->
             IF store[a].info # Nil /\ info[f] = Nil THEN store[a].info[f] ELSE info[f]]
           learnt == IF PackValues[a].info = Nil THEN info
                     ELSE [f \in InfoField |-> Values!Or(info[f], PackValues[a].info[f])]
           p == [store[a] EXCEPT !.info = merged]
           w == [PackValues[a] EXCEPT !.info = learnt]
<1>1. store[a] # Nil /\ store[a] \in Pack /\ store[a].params = ParamsOf(a)
  BY PackFacts DEF UpsertPackInfo
<1>2. /\ PackValues[a] # Nil /\ PackValues[a] \in PackValue
      /\ PackValues[a].analog = store[a].analog /\ PackValues[a].status = store[a].status
      /\ PackValues[a].info = store[a].info
      /\ PackValues[a].params = IF ParamsOf(a) = Nil THEN Nil ELSE heap[ParamsOf(a)]
  BY <1>1, ValueFacts
<1>3. merged = learnt /\ merged \in Info
  <2>1. store[a].info # Nil => store[a].info \in [InfoField -> Opt(Val)]
    BY <1>1 DEF Pack, Info, Opt
  <2>2. merged \in Info
    BY <2>1 DEF Info
  <2>3. CASE store[a].info = Nil
    BY <1>2, <2>3 DEF Info
  <2>4. CASE store[a].info # Nil
    <3>1. \A f \in InfoField :
            (IF store[a].info # Nil /\ info[f] = Nil THEN store[a].info[f] ELSE info[f])
              = Values!Or(info[f], PackValues[a].info[f])
      BY <1>2, <2>4 DEF Values!Or
    <3>2. learnt = [f \in InfoField |-> Values!Or(info[f], PackValues[a].info[f])]
      BY <1>2, <2>4
    <3> QED BY <2>2, <3>1, <3>2
  <2> QED BY <2>2, <2>3, <2>4
<1>4. store' = [store EXCEPT ![a] = p] /\ heap' = heap /\ snaps' = snaps
  BY DEF UpsertPackInfo
<1>5. [PackValues EXCEPT ![a].info = learnt] = [PackValues EXCEPT ![a] = w]
  OBVIOUS
<1>6. Values!Inform(a, info) <=>
        /\ PackValues[a] # Nil
        /\ PackValues' = [PackValues EXCEPT ![a].info = learnt]
        /\ Views' = Views
  BY DEF Values!Inform
<1> HIDE DEF merged, learnt
<1>7. /\ p \in Pack /\ p.params = ParamsOf(a) /\ p.analog = store[a].analog
      /\ p.status = store[a].status /\ p.info = merged
  BY <1>1, <1>3 DEF Pack, Opt
<1>8. /\ w \in PackValue /\ w.status = PackValues[a].status
      /\ w.analog = PackValues[a].analog /\ w.info = learnt
      /\ w.params = PackValues[a].params
  BY <1>2, <1>3 DEF PackValue, Opt
<1>9. StoreInv'
  BY UpsertPackInfoInv
<1> HIDE DEF p, w
<1>10. /\ PackValues' = [PackValues EXCEPT ![a] = Unref(p, heap)] /\ Views' = Views
       /\ Unref(p, heap) \in PackValue
       /\ Unref(p, heap).analog = p.analog /\ Unref(p, heap).status = p.status
       /\ Unref(p, heap).info = p.info
       /\ Unref(p, heap).params = IF ParamsOf(a) = Nil THEN Nil ELSE heap[ParamsOf(a)]
  BY <1>4, <1>7, <1>9, PackOnly
<1>11. Unref(p, heap) = w
  BY <1>2, <1>3, <1>7, <1>8, <1>10, SameValue
<1> QED BY <1>2, <1>5, <1>6, <1>10, <1>11

(* A pack whose pointer or object changes, and no other.                   *)
LEMMA ObjectOnly ==
  ASSUME StoreInv, StoreInv', NEW a \in Addr, NEW r \in Ref, store[a] # Nil,
         store' = [store EXCEPT ![a] = [store[a] EXCEPT !.params = r]],
         snaps' = snaps, heap'[r] \in Params,
         \A c \in Addr : c # a /\ ParamsOf(c) # Nil =>
           heap'[ParamsOf(c)] = heap[ParamsOf(c)]
  PROVE  /\ PackValues' = [PackValues EXCEPT ![a].params = heap'[r]]
         /\ Views' = Views
<1> DEFINE p == [store[a] EXCEPT !.params = r]
           w == [PackValues[a] EXCEPT !.params = heap'[r]]
<1>1. store \in [Addr -> Opt(Pack)] /\ store[a] \in Pack
  BY PackFacts
<1>2. store'[a] = p /\ \A c \in Addr : c # a => store'[c] = store[c]
  BY <1>1
<1>3. /\ p \in Pack /\ p.analog = store[a].analog /\ p.status = store[a].status
      /\ p.info = store[a].info /\ p.params = r /\ r # Nil
  BY <1>1, NilAssumption DEF Pack, Opt
<1> HIDE DEF p
<1>4. p # Nil /\ Good(p.params, heap')
  BY <1>3, NilAssumption DEF Good
<1>5. PackValues'[a] = Unref(p, heap')
  BY <1>2, <1>4 DEF PackValues
<1>6. /\ Unref(p, heap') \in PackValue
      /\ Unref(p, heap').analog = store[a].analog
      /\ Unref(p, heap').status = store[a].status
      /\ Unref(p, heap').info = store[a].info
      /\ Unref(p, heap').params = heap'[r]
  BY <1>3, <1>4, UnrefFacts
<1>7. /\ PackValues[a] \in PackValue
      /\ PackValues[a].analog = store[a].analog
      /\ PackValues[a].status = store[a].status
      /\ PackValues[a].info = store[a].info
  BY ValueFacts
<1>8. /\ w \in PackValue /\ w.analog = store[a].analog /\ w.status = store[a].status
      /\ w.info = store[a].info /\ w.params = heap'[r]
  BY <1>7 DEF PackValue, Opt
<1>9. [PackValues EXCEPT ![a].params = heap'[r]] = [PackValues EXCEPT ![a] = w]
  OBVIOUS
<1> HIDE DEF w
<1>10. PackValues'[a] = w
  BY <1>5, <1>6, <1>8, SameValue
<1>11. \A c \in Addr : c # a => PackValues'[c] = PackValues[c]
  BY <1>2, ValueStays
<1>12. PackValues' = [PackValues EXCEPT ![a] = w]
  BY <1>10, <1>11, OneValue
<1> QED BY <1>9, <1>12, ViewsStay

LEMMA ThresholdsStep ==
  ASSUME StoreInv, NEW a \in Addr, NEW fields \in ParamFields, NEW r \in Ref,
         UpsertPackParameters(a, fields, r)
  PROVE  Values!SetThresholds(a, fields)
<1>1. StoreInv' /\ store[a] # Nil
  BY UpsertPackParametersInv DEF UpsertPackParameters
<1>2. PackValues' = [PackValues EXCEPT ![a].params = heap'[r]] /\ Views' = Views
  BY <1>1, NewObject, ObjectOnly
<1>3. /\ PackValues[a] # Nil
      /\ PackValues[a].params = IF ParamsOf(a) = Nil THEN Nil ELSE heap[ParamsOf(a)]
  BY <1>1, ValueFacts
<1>4. ParamsOf(a) # Nil => heap[ParamsOf(a)] # Nil
  BY PackFacts, NilAssumption DEF Good
<1>5. Values!Limit(PackValues[a]) = IF ParamsOf(a) = Nil THEN Nil ELSE heap[ParamsOf(a)].limit
  BY <1>3, <1>4 DEF Values!Limit
<1>6. heap'[r] = [fields |-> fields, limit |-> Values!Limit(PackValues[a])]
  BY <1>5, NewObject
<1> QED BY <1>2, <1>3, <1>6 DEF Values!SetThresholds

(* A limit for an unknown pack is telemetry only.                          *)
LEMMA LimitStep ==
  ASSUME StoreInv, NEW a \in Addr, NEW v \in Val, NEW r \in Ref,
         UpsertCurrentLimitParameter(a, v, r)
  PROVE  Values!SetLimit(a, v) \/ UNCHANGED <<PackValues, Views>>
<1>1. StoreInv' /\ snaps' = snaps
  BY UpsertCurrentLimitParameterInv DEF UpsertCurrentLimitParameter
<1>2. /\ store \in [Addr -> Opt(Pack)] /\ heap \in Heap
      /\ store[a] # Nil => store[a] \in Pack /\ store[a].params = ParamsOf(a)
      /\ ParamsOf(a) # Nil => ParamsOf(a) \in Ref /\ heap[ParamsOf(a)] \in Params
  BY PackFacts DEF Good
<1>3. \A c \in Addr : ParamsOf(c) # Nil => ParamsOf(c) \in Ref /\ heap[ParamsOf(c)] # Free
  BY PackFacts DEF StoreInv, PointersAreOwned, Opt
<1>4. store[a] # Nil =>
        /\ PackValues[a] # Nil
        /\ PackValues[a].params = IF ParamsOf(a) = Nil THEN Nil ELSE heap[ParamsOf(a)]
  BY ValueFacts
<1>5. CASE store[a] = Nil
  <2>1. store' = store /\ heap' = heap
    BY <1>5 DEF UpsertCurrentLimitParameter
  <2> QED BY <1>1, <2>1, ViewsStay DEF PackValues
<1>6. CASE store[a] # Nil /\ store[a].params = Nil
  <2> DEFINE object == [fields |-> [f \in ParamField |-> Nil], limit |-> v]
  <2>1. /\ heap[r] = Free
        /\ store' = [store EXCEPT ![a] = [store[a] EXCEPT !.params = r]]
        /\ heap' = [heap EXCEPT ![r] = object]
    BY <1>6, Zenon DEF UpsertCurrentLimitParameter, Fresh
  <2>2. object \in Params
    BY DEF Params, ParamFields, Opt
  <2>3. PackValues[a].params = Nil
    BY <1>2, <1>4, <1>6
  <2>4. Values!SetLimit(a, v) <=>
          /\ PackValues[a] # Nil
          /\ PackValues' = [PackValues EXCEPT ![a].params = object]
          /\ Views' = Views
    BY <2>3 DEF Values!SetLimit
  <2> HIDE DEF object
  <2>5. heap'[r] = object /\ \A x \in Ref : x # r => heap'[x] = heap[x]
    BY <1>2, <2>1 DEF Heap
  <2>6. \A c \in Addr : c # a /\ ParamsOf(c) # Nil => heap'[ParamsOf(c)] = heap[ParamsOf(c)]
    BY <1>3, <2>1, <2>5
  <2>7. heap'[r] \in Params /\ store[a] # Nil
    BY <1>6, <2>2, <2>5
  <2>8. PackValues' = [PackValues EXCEPT ![a].params = heap'[r]] /\ Views' = Views
    BY <1>1, <2>1, <2>6, <2>7, ObjectOnly
  <2> QED BY <1>4, <1>6, <2>4, <2>5, <2>8
<1>7. CASE store[a] # Nil /\ store[a].params # Nil
  <2> DEFINE x == ParamsOf(a)
             object == [heap[x] EXCEPT !.limit = v]
  <2>1. x \in Ref /\ x # Nil /\ heap[x] \in Params /\ x = store[a].params
    BY <1>2, <1>7
  <2>2. store' = store /\ heap' = [heap EXCEPT ![x] = object]
    BY <1>7, <2>1 DEF UpsertCurrentLimitParameter
  <2>3. /\ object \in Params
        /\ object = [fields |-> heap[x].fields, limit |-> v]
    BY <2>1 DEF Params, Opt
  <2>4. PackValues[a].params = heap[x] /\ heap[x] # Nil
    BY <1>4, <1>7, <2>1, NilAssumption
  <2>5. Values!SetLimit(a, v) <=>
          /\ PackValues[a] # Nil
          /\ PackValues' = [PackValues EXCEPT ![a].params =
               [fields |-> heap[x].fields, limit |-> v]]
          /\ Views' = Views
    BY <2>4 DEF Values!SetLimit
  <2> HIDE DEF object, x
  <2>6. heap'[x] = object /\ \A y \in Ref : y # x => heap'[y] = heap[y]
    BY <1>2, <2>1, <2>2 DEF Heap
  <2>7. \A c \in Addr : c # a /\ ParamsOf(c) # Nil => heap'[ParamsOf(c)] = heap[ParamsOf(c)]
    <3>1. \A c \in Addr : c # a /\ ParamsOf(c) # Nil => ParamsOf(c) # x
      BY DEF StoreInv, PointersAreOwned, x
    <3> QED BY <1>3, <2>6, <3>1
  <2>8. store' = [store EXCEPT ![a] = [store[a] EXCEPT !.params = x]]
    <3>1. [store[a] EXCEPT !.params = x] = store[a]
      BY <1>2, <1>7, <2>1 DEF Pack
    <3> QED BY <1>2, <2>2, <3>1
  <2>9. heap'[x] \in Params /\ store[a] # Nil
    BY <1>7, <2>3, <2>6
  <2>10. PackValues' = [PackValues EXCEPT ![a].params = heap'[x]] /\ Views' = Views
    BY <1>1, <2>1, <2>7, <2>8, <2>9, ObjectOnly
  <2> QED BY <1>4, <1>7, <2>3, <2>5, <2>6, <2>10
<1> QED BY <1>5, <1>6, <1>7

(* Readers come and go: collection changes no value.                       *)
LEMMA CollectionSame ==
  ASSUME StoreInv, NEW q \in Reader, TakeSnapshot(q) \/ DropSnapshot(q)
  PROVE  PackValues' = PackValues
<1>1. store' = store /\ heap' = Collect(heap, store, snaps')
  BY DEF TakeSnapshot, DropSnapshot
<1>2. store \in [Addr -> Opt(Pack)] /\ heap \in Heap /\ snaps' \in [Reader -> Opt(Snapshot)]
  <2>1. StoreInv'
    BY TakeSnapshotInv, DropSnapshotInv
  <2> QED BY <2>1 DEF StoreInv, StoreTypeOK, Heap
<1>3. \A c \in Addr : ParamsOf(c) # Nil => heap'[ParamsOf(c)] = heap[ParamsOf(c)]
  BY <1>1, <1>2, CollectFacts DEF ParamsOf
<1>4. \A c \in Addr : PackValues'[c] = PackValues[c]
  BY <1>1, <1>3, ValueStays
<1>5. PackValues' = [c \in Addr |-> PackValues'[c]] /\ PackValues = [c \in Addr |-> PackValues[c]]
  BY DEF PackValues
<1> QED BY <1>4, <1>5

LEMMA LookStep ==
  ASSUME StoreInv, NEW q \in Reader, TakeSnapshot(q)
  PROVE  Values!Look(q)
<1> DEFINE seen == [a \in Addr |-> Deref(ParamsOf(a))]
           taken == [params |-> [a \in Addr |-> ParamsOf(a)], seen |-> seen]
<1>1. StoreInv' /\ snaps \in [Reader -> Opt(Snapshot)]
  BY TakeSnapshotInv DEF StoreInv, StoreTypeOK
<1>2. snaps' = [snaps EXCEPT ![q] = taken]
  BY DEF TakeSnapshot
<1>3. taken.seen = seen
  OBVIOUS
<1>4. taken \in Snapshot
  <2>1. \A a \in Addr : ParamsOf(a) \in Opt(Ref) /\ Deref(ParamsOf(a)) \in Opt(ParamFields)
    BY PackFacts DEF Good, Deref, Params, Opt
  <2> QED BY <2>1 DEF Snapshot
<1>5. seen = [a \in Addr |-> Values!Thresholds(PackValues[a])]
  <2> SUFFICES ASSUME NEW a \in Addr
               PROVE  Deref(ParamsOf(a)) = Values!Thresholds(PackValues[a])
    OBVIOUS
  <2>1. ParamsOf(a) # Nil => heap[ParamsOf(a)] # Nil /\ store[a] # Nil
    BY PackFacts, NilAssumption DEF Good, ParamsOf
  <2> QED BY <2>1, ValueFacts DEF Deref, Values!Thresholds
<1> HIDE DEF taken, seen
<1>6. taken # Nil
  BY <1>4, SnapshotAssumption
<1>7. Views' = [o \in Reader |-> IF snaps'[o] = Nil THEN Nil ELSE snaps'[o].seen]
  BY <1>1, LaterViews
<1>8. Views = [o \in Reader |-> IF snaps[o] = Nil THEN Nil ELSE snaps[o].seen]
  BY ViewFacts
<1>9. Views' = [Views EXCEPT ![q] = seen]
  BY <1>1, <1>2, <1>3, <1>6, <1>7, <1>8
<1> QED BY <1>5, <1>9, CollectionSame DEF Values!Look

LEMMA ReleaseStep ==
  ASSUME StoreInv, NEW q \in Reader, DropSnapshot(q)
  PROVE  Values!Release(q)
<1>1. StoreInv' /\ snaps \in [Reader -> Opt(Snapshot)]
  BY DropSnapshotInv DEF StoreInv, StoreTypeOK
<1>2. snaps' = [snaps EXCEPT ![q] = Nil]
  BY DEF DropSnapshot
<1>3. Views' = [o \in Reader |-> IF snaps'[o] = Nil THEN Nil ELSE snaps'[o].seen]
  BY <1>1, LaterViews
<1>4. Views = [o \in Reader |-> IF snaps[o] = Nil THEN Nil ELSE snaps[o].seen]
  BY ViewFacts
<1>5. Views' = [Views EXCEPT ![q] = Nil]
  BY <1>1, <1>2, <1>3, <1>4
<1> QED BY <1>5, CollectionSame DEF Values!Release

(* Every step of the store is a step of one without pointers, or none.     *)
LEMMA ValueStep ==
  ASSUME StoreInv, [StoreNext]_storeVars
  PROVE  [Values!SnapshotNext]_Values!snapshotVars
<1> USE DEF Values!SnapshotNext, Values!snapshotVars
<1>1. CASE \E s \in Service, ok \in BOOLEAN : SetServiceStatus(s, ok)
  BY <1>1 DEF SetServiceStatus, PackValues, Views, Deref
<1>2. CASE \E a \in Addr, reading \in Analog : UpsertPack(a, reading)
  BY <1>2, MeasureStep DEF Analog, Opt, Values!Row
<1>3. CASE \E S \in SUBSET Addr, readings \in [Addr -> Analog] : ReplacePacks(S, readings)
  BY <1>3, ListStep DEF Analog, Opt, Values!Row
<1>4. CASE \E a \in Addr, v \in Val : UpsertPackStatus(a, v)
  BY <1>4, StatusStep
<1>5. CASE \E a \in Addr, info \in Info : UpsertPackInfo(a, info)
  BY <1>5, InformStep DEF Info, Opt, Values!Row
<1>6. CASE \E a \in Addr, fields \in ParamFields, r \in Ref :
             UpsertPackParameters(a, fields, r)
  BY <1>6, ThresholdsStep DEF ParamFields, Opt, Values!Row
<1>7. CASE \E a \in Addr, v \in Val, r \in Ref : UpsertCurrentLimitParameter(a, v, r)
  BY <1>7, LimitStep
<1>8. CASE \E q \in Reader : TakeSnapshot(q) \/ DropSnapshot(q)
  BY <1>8, LookStep, ReleaseStep
<1>9. CASE UNCHANGED storeVars
  BY <1>9 DEF storeVars, PackValues, Views, Deref
<1> QED BY <1>1, <1>2, <1>3, <1>4, <1>5, <1>6, <1>7, <1>8, <1>9 DEF StoreNext

(* The pointers of the store cannot be told from values: no call changes   *)
(* another pack than its own, and a snapshot never moves.                  *)
THEOREM StoreRefines == StoreSpec => ActsOnValues
<1>1. StoreInit => Values!SnapshotInit
  BY DEF StoreInit, Values!SnapshotInit, PackValues, Views
<1>2. StoreInv /\ [StoreNext]_storeVars => [Values!SnapshotNext]_Values!snapshotVars
  BY ValueStep
<1> QED
  BY <1>1, <1>2, StoreCorrect, PTL DEF StoreSpec, ActsOnValues, Values!SnapshotSpec

=============================================================================
