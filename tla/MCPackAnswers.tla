---------------------------- MODULE MCPackAnswers ----------------------------
(* PackAnswers with packs chosen for what the reader could take them for. *)
EXTENDS PackAnswers

Cells(n, mv) == [k \in 1 .. n |-> mv]

Pack(cells, temps, current, soc) ==
  [cells |-> cells, temps |-> [k \in 1 .. temps |-> 2981], current |-> current,
   voltage |-> 51676, capacity |-> <<11430, 31764>>, cycles |-> 42,
   design |-> 29000, soc |-> soc, soh |-> 100]

(* Sixteen cells, of 3300 mV (0x0CE4) or of 3344 mV (0x0D10, whose bytes   *)
(* both look like counts of cells), with a charge that looks like one, or  *)
(* not; fewer cells; one cell; thirty-two of them.                         *)
AnalogPacks ==
  {Pack(Cells(16, 3300), 6, -1084, 32), Pack(Cells(16, 3344), 6, 500, 16),
   Pack(Cells(13, 3344), 4, -1, 0), Pack(Cells(1, 3341), 1, 0, 99),
   Pack(Cells(32, 3072), 12, 32767, 1)}

StatusOf(n, level, temps, s1, s2) ==
  [cells |-> [k \in 1 .. n |-> level], temps |-> [k \in 1 .. temps |-> level],
   status |-> <<0, 0, 2, 112, 176, 39, 57, 7, s1, s2, 51, 245>>,
   balancing |-> {i \in 1 .. 16 : i <= 8 /\ (s1 \div 2 ^ (i - 1)) % 2 = 1}
             \cup {i \in 1 .. 16 : i > 8 /\ (s2 \div 2 ^ (i - 9)) % 2 = 1}]

StatusPacks ==
  {StatusOf(16, 0, 6, 0, 0), StatusOf(16, 2, 4, 18, 52), StatusOf(13, 1, 4, 255, 255),
   StatusOf(1, 1, 1, 1, 0), StatusOf(20, 128, 6, 16, 128)}

=============================================================================
