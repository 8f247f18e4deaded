---------------------------- MODULE MCCollector ----------------------------
(* Collector with two packs on a bus, two packs behind one line, and one   *)
(* pack on a console.                                                      *)
EXTENDS Collector

(* Address UMax answers for two packs, as an RS232 link does. *)
Shared == [a \in Byte |-> IF a = UMax THEN 2 ELSE 1]

(* RS485 with a window of two addresses *)
Bus == [protocol |-> "rs485", first |-> 1, maxPacks |-> 2]
Line == [Bus EXCEPT !.protocol = "rs232"]
Console == [Bus EXCEPT !.protocol = "console"]

AnyLink == {Bus, Line, Console}

(* Who is there: two packs on a bus, one device on a line or a console.    *)
Present(c) == CASE c = Bus -> {1, 2} [] c = Line -> {UMax} [] c = Console -> {1}

(* Packs come and go, and a bus may be replaced by a line.  The firmware   *)
(* of the device on a line may know no optional command.  The port is left *)
(* alone where nobody looks at it.                                         *)
LinksInit ==
  /\ CollectorInit /\ up \subseteq Present(cfg)
  /\ refuses = {} \/ (cfg = Line /\ refuses = {UMax})

LinksSpec ==
  /\ LinksInit
  /\ [][/\ CollectorNext
        /\ cfg' = cfg \/ (cfg = Bus /\ cfg' = Line)
        /\ up' \subseteq Present(cfg) \cup Present(cfg')
        /\ at \in {"open", "sleep", "retry"} \/ portOk' = portOk
        /\ count' <= 1]_collectorVars
  /\ CollectorFairness

=============================================================================
