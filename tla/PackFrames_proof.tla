-------------------------- MODULE PackFrames_proof --------------------------
(***************************************************************************)
(* For an info of any bytes and any length, both readers stay inside it,   *)
(* and the packs they deliver have addresses of their own.  For an answer  *)
(* of any packs in service, what is read is what was sent, and a status is *)
(* never taken for a reading.                                              *)
(***************************************************************************)
EXTENDS PackAnswers, SequenceTheorems, TLAPS

(* The address of the pack read at place j                                 *)
AddressOf(j) == IF Count > 1 \/ asked = 255 THEN j ELSE asked

Elements(s) == {s[j] : j \in 1 .. Len(s)}

Addressed ==
  /\ packs \in Seq(Elements(packs))
  /\ \A j \in 1 .. Len(packs) : packs[j].address = AddressOf(j)

FramesInv ==
  /\ FramesTypeOK
  /\ Addressed
  /\ result = "ok" => offset > 0 /\ index = Count
  /\ offset = 0 => index = 0
  /\ result = "error" => packs = <<>>

-----------------------------------------------------------------------------

(* A byte of the info is a number.                                         *)
LEMMA AtNat ==
  ASSUME info \in Seq(Byte), NEW STATE o, o \in Nat, o < Len(info)
  PROVE  At(o) \in Nat
<1>1. o + 1 \in 1 .. Len(info)
  OBVIOUS
<1>2. info[o + 1] \in Byte
  BY <1>1
<1>3. \A b \in Byte : b \in Nat
  BY DEF Byte
<1>4. info[o + 1] \in Nat
  BY <1>2, <1>3
<1>. QED
  BY <1>4 DEF At

(* What is read after an analog reading begins inside the info or at its   *)
(* end.                                                                    *)
LEMMA AnalogEndInside ==
  ASSUME info \in Seq(Byte), NEW STATE o, o \in Nat, AnalogFits(o)
  PROVE  AnalogEnd(o) \in 1 .. Len(info)
<1>. Len(info) \in Nat
  OBVIOUS
<1>1. At(o) \in Nat
  BY AtNat DEF AnalogFits
<1>2. TempsAt(o) \in Nat
  BY <1>1 DEF TempsAt
<1>3. At(TempsAt(o)) \in Nat
  BY <1>2, AtNat DEF AnalogFits
<1>4. FullEnd(o) \in Nat /\ FullEnd(o) > 0
  BY <1>2, <1>3 DEF CurrentAt, FullEnd
<1>5. TailAt(o) \in 1 .. Len(info)
  BY <1>4 DEF TailAt, AnalogFits
<1>6. Skip(TailAt(o)) \in 1 .. Len(info)
  BY <1>5 DEF Skip
<1>7. CASE HasV2Tail(TailAt(o))
  BY <1>5, <1>7 DEF AnalogEnd, HasV2Tail
<1>8. CASE ~ HasV2Tail(TailAt(o))
  BY <1>6, <1>8 DEF AnalogEnd
<1>. QED
  BY <1>7, <1>8

(* So does what is read after a status.                                    *)
LEMMA StatusEndInside ==
  ASSUME info \in Seq(Byte), NEW STATE o, o \in Nat, StatusFits(o)
  PROVE  StatusEnd(o) \in 1 .. Len(info)
<1>. Len(info) \in Nat
  OBVIOUS
<1>1. At(o) \in Nat
  BY AtNat DEF StatusFits
<1>2. LevelsAt(o) \in Nat
  BY <1>1 DEF LevelsAt
<1>3. At(LevelsAt(o)) \in Nat
  BY <1>2, AtNat DEF StatusFits
<1>4. StatusAt(o) \in Nat
  BY <1>2, <1>3 DEF StatusAt
<1>. QED
  BY <1>4 DEF StatusEnd, StatusFits

-----------------------------------------------------------------------------

(* A sequence of anything at all, and one element more.                    *)
LEMMA Appended ==
  ASSUME NEW s, s \in Seq(Elements(s)), NEW e
  PROVE  /\ Append(s, e) \in Seq(Elements(Append(s, e)))
         /\ Len(Append(s, e)) = Len(s) + 1
         /\ \A j \in 1 .. Len(s) : Append(s, e)[j] = s[j]
         /\ Append(s, e)[Len(s) + 1] = e
<1>. DEFINE S == Elements(s) \cup {e}
            t == Append(s, e)
<1>1. s \in Seq(S) /\ e \in S
  <2>1. \A j \in 1 .. Len(s) : s[j] \in S
    BY DEF Elements
  <2>. QED
    BY <2>1
<1>. HIDE DEF S
<1>2. /\ t \in Seq(S) /\ Len(t) = Len(s) + 1
      /\ \A j \in 1 .. Len(s) : t[j] = s[j]
      /\ t[Len(s) + 1] = e
  BY <1>1, AppendProperties
<1>. HIDE DEF t
<1>3. t \in Seq(Elements(t))
  <2>1. \A j \in 1 .. Len(t) : t[j] \in Elements(t)
    BY DEF Elements
  <2>. QED
    BY <1>2, <2>1
<1>. QED
  BY <1>2, <1>3 DEF t

(* Another pack read leaves the invariant as it was.                       *)
LEMMA PackRead ==
  ASSUME FramesInv, result = "reading", offset > 0, index < Count,
         NEW r, r.address = Address, packs' = Append(packs, r),
         offset' \in 1 .. Len(info), index' = index + 1,
         UNCHANGED <<kind, asked, info, result>>
  PROVE  FramesInv'
<1>1. Count \in Nat /\ Count' = Count
  <2>1. info \in Seq(Byte) /\ 1 < Len(info)
    BY DEF FramesInv, FramesTypeOK
  <2>2. Count \in Nat
    BY <2>1, AtNat DEF Count
  <2>. QED
    BY <2>2 DEF Count, At
<1>2. /\ packs' \in Seq(Elements(packs)')
      /\ Len(packs') = Len(packs) + 1
      /\ \A j \in 1 .. Len(packs) : packs'[j] = packs[j]
      /\ packs'[Len(packs) + 1] = r
  <2>1. packs \in Seq(Elements(packs))
    BY DEF FramesInv, Addressed
  <2>2. Elements(packs)' = Elements(Append(packs, r))
    BY DEF Elements
  <2>. QED
    BY <2>1, <2>2, Appended
<1>3. Len(packs) = index /\ index \in Nat
  BY DEF FramesInv, FramesTypeOK
<1>4. Addressed'
  <2>. SUFFICES ASSUME NEW j \in 1 .. Len(packs')
                PROVE  packs'[j].address = AddressOf(j)'
    BY <1>2 DEF Addressed, Elements
  <2>1. AddressOf(j)' = AddressOf(j)
    BY <1>1 DEF AddressOf
  <2>2. CASE j <= Len(packs)
    BY <1>2, <1>3, <2>1, <2>2 DEF FramesInv, Addressed
  <2>3. CASE j = Len(packs) + 1
    BY <1>2, <1>3, <2>1, <2>3 DEF Address, AddressOf
  <2>. QED
    BY <1>2, <1>3, <2>2, <2>3
<1>5. FramesTypeOK'
  BY <1>1, <1>2, <1>3 DEF FramesInv, FramesTypeOK
<1>. QED
  BY <1>4, <1>5 DEF FramesInv

LEMMA FramesStep ==
  FramesInv /\ [FramesNext]_frameVars => FramesInv'
<1>. SUFFICES ASSUME FramesInv, [FramesNext]_frameVars
              PROVE  FramesInv'
  OBVIOUS
<1>. USE DEF FramesInv
<1>1. ASSUME Refuse, result = "reading" PROVE FramesInv'
  <2>1. packs' = <<>> /\ UNCHANGED <<kind, asked, info, offset, index>> /\ result' = "error"
    BY <1>1 DEF Refuse
  <2>2. Addressed'
    BY <2>1 DEF Addressed
  <2>3. FramesTypeOK'
    BY <2>1 DEF FramesTypeOK, Count, At
  <2>. QED
    BY <2>1, <2>2, <2>3
<1>2. CASE Header
  <2>1. Count \in Nat
    BY <1>2, AtNat DEF Header, Count, FramesTypeOK
  <2>2. Addressed'
    BY <1>2 DEF Header, Addressed, AddressOf, Count, At, Elements
  <2>3. FramesTypeOK'
    BY <1>2, <2>1 DEF Header, FramesTypeOK, Count, At
  <2>. QED
    BY <1>2, <2>2, <2>3 DEF Header
<1>3. CASE ReadAnalog
  <2>1. AnalogEnd(offset) \in 1 .. Len(info)
    BY <1>3, AnalogEndInside DEF ReadAnalog, FramesTypeOK
  <2>2. Reading(offset).address = Address
    BY DEF Reading
  <2>. QED
    BY <1>3, <2>1, <2>2, PackRead DEF ReadAnalog
<1>4. CASE ReadWarning
  <2>1. StatusEnd(offset) \in 1 .. Len(info)
    BY <1>4, StatusEndInside DEF ReadWarning, FramesTypeOK
  <2>2. Status(offset).address = Address
    BY DEF Status
  <2>. QED
    BY <1>4, <2>1, <2>2, PackRead DEF ReadWarning
<1>5. CASE Finish
  <2>1. Addressed'
    BY <1>5 DEF Finish, Addressed, AddressOf, Count, At, Elements
  <2>2. FramesTypeOK'
    BY <1>5 DEF Finish, FramesTypeOK, Count, At
  <2>. QED
    BY <1>5, <2>1, <2>2 DEF Finish, Count, At
<1>6. CASE BadHeader \/ BadPack
  BY <1>1, <1>6 DEF BadHeader, BadPack
<1>7. CASE UNCHANGED frameVars
  <2>. USE <1>7 DEF frameVars
  <2>1. Addressed'
    BY DEF Addressed, AddressOf, Count, At, Elements
  <2>2. FramesTypeOK'
    BY DEF FramesTypeOK, Count, At
  <2>. QED
    BY <2>1, <2>2 DEF Count, At
<1>. QED
  BY <1>2, <1>3, <1>4, <1>5, <1>6, <1>7 DEF FramesNext

LEMMA FramesInitial == FramesInit => FramesInv
<1>. SUFFICES ASSUME FramesInit PROVE FramesInv
  OBVIOUS
<1>1. Addressed
  BY DEF FramesInit, Addressed
<1>2. FramesTypeOK
  BY DEF FramesInit, FramesTypeOK
<1>. QED
  BY <1>1, <1>2 DEF FramesInit, FramesInv

LEMMA FramesInvariant == FramesSpec => []FramesInv
BY FramesInitial, FramesStep, PTL DEF FramesSpec

-----------------------------------------------------------------------------

(* Whatever the bytes of an answer, the reader stays inside it.            *)
THEOREM FramesTypeCorrect == FramesSpec => []FramesTypeOK
<1>1. FramesInv => FramesTypeOK
  BY DEF FramesInv
<1>. QED
  BY <1>1, FramesInvariant, PTL

(* Whatever the bytes of an answer, its packs have addresses of their own, *)
(* and none is missing that it announced.                                  *)
THEOREM PacksApart == FramesSpec => []PacksAreApart
<1>1. FramesInv => PacksAreApart
  <2>. SUFFICES ASSUME FramesInv PROVE PacksAreApart
    OBVIOUS
  <2>1. Len(packs) \in Nat /\ (result # "error" => Len(packs) = index)
    BY DEF FramesInv, FramesTypeOK, Addressed
  <2>2. result = "ok" => Len(packs) = Count
    BY <2>1 DEF FramesInv
  <2>3. ASSUME NEW j \in 1 .. Len(packs), NEW k \in 1 .. Len(packs),
               packs[j].address = packs[k].address
        PROVE  j = k
    <3>1. AddressOf(j) = AddressOf(k)
      BY <2>3 DEF FramesInv, Addressed
    <3>2. CASE Count > 1 \/ asked = 255
      BY <3>1, <3>2 DEF AddressOf
    <3>3. CASE ~ (Count > 1 \/ asked = 255)
      <4>1. result # "error" /\ offset > 0
        BY <2>1 DEF FramesInv, FramesTypeOK, Addressed
      <4>2. index <= 1
        BY <3>3, <4>1, AtNat DEF FramesInv, FramesTypeOK, Count
      <4>. QED
        BY <2>1, <4>1, <4>2
    <3>. QED
      BY <3>2, <3>3
  <2>. QED
    BY <2>2, <2>3 DEF PacksAreApart
<1>. QED
  BY <1>1, FramesInvariant, PTL

-----------------------------------------------------------------------------

(* s stands in the info from offset o on                                   *)
Stands(s, o) ==
  /\ o + Len(s) <= Len(info)
  /\ \A i \in 1 .. Len(s) : info[o + i] = s[i]

(* What stands as a whole stands in its two parts.                         *)
LEMMA StandsSplit ==
  ASSUME NEW s \in Seq(Byte), NEW t \in Seq(Byte), NEW STATE o, o \in Nat,
         info \in Seq(Byte), Stands(s \o t, o)
  PROVE  Stands(s, o) /\ Stands(t, o + Len(s))
<1>. DEFINE u == s \o t
           m == Len(s)
           n == Len(t)
<1>1. /\ Len(u) = m + n /\ m \in Nat /\ n \in Nat /\ Len(info) \in Nat
      /\ \A i \in 1 .. m : u[i] = s[i]
      /\ \A i \in 1 .. n : u[m + i] = t[i]
  OBVIOUS
<1>2. o + Len(u) <= Len(info) /\ \A i \in 1 .. Len(u) : info[o + i] = u[i]
  BY DEF Stands
<1>. HIDE DEF u, m, n
<1>3. ASSUME NEW i \in 1 .. n PROVE info[o + m + i] = t[i]
  <2>1. m + i \in 1 .. Len(u) /\ o + m + i = o + (m + i)
    BY <1>1
  <2>2. info[o + (m + i)] = u[m + i]
    BY <1>2, <2>1
  <2>. QED BY <1>1, <2>1, <2>2
<1>4. ASSUME NEW i \in 1 .. m PROVE info[o + i] = s[i]
  <2>1. i \in 1 .. Len(u)
    BY <1>1
  <2>. QED BY <1>1, <1>2, <2>1
<1>5. o + m <= Len(info) /\ o + m + n <= Len(info)
  BY <1>1, <1>2
<1>. QED BY <1>3, <1>4, <1>5 DEF Stands, m, n

(* High and low byte of a word make the word.                              *)
LEMMA Divided ==
  ASSUME NEW w \in Int PROVE 256 * (w \div 256) + (w % 256) = w
OBVIOUS

(* They are bytes.                                                         *)
LEMMA Big ==
  ASSUME NEW w \in Short
  PROVE  w \div 256 \in Byte /\ w % 256 \in Byte /\ 256 * (w \div 256) + (w % 256) = w
<1>1. w \in Int /\ 0 <= w /\ w <= 65535
  <2>1. w \in Int
    BY DEF Short
  <2>2. 0 <= w
    BY DEF Short
  <2>3. w <= 65535
    BY DEF Short
  <2>. QED
    BY <2>1, <2>2, <2>3
<1>2. w \div 256 \in 0 .. 255
  BY <1>1
<1>3. w % 256 \in 0 .. 255
  BY <1>1
<1>4. 256 * (w \div 256) + (w % 256) = w
  BY <1>1, Divided
<1>. QED BY <1>2, <1>3, <1>4 DEF Byte

(* Words are written as twice as many bytes.                               *)
LEMMA BigsFacts ==
  ASSUME NEW s \in Seq(Short)
  PROVE  /\ Bigs(s) \in Seq(Byte) /\ Len(Bigs(s)) = 2 * Len(s)
         /\ \A j \in 1 .. Len(s) :
              Bigs(s)[2 * j - 1] = s[j] \div 256 /\ Bigs(s)[2 * j] = s[j] % 256
<1>. DEFINE n == Len(s)
           d(k) == IF k % 2 = 1 THEN s[(k + 1) \div 2] \div 256 ELSE s[k \div 2] % 256
<1>1. n \in Nat
  OBVIOUS
<1>2. \A j \in 1 .. n : s[j] \in Short
  OBVIOUS
<1>3. Bigs(s) = [k \in 1 .. 2 * n |-> d(k)]
  BY DEF Bigs
<1>. HIDE DEF n
<1>4. ASSUME NEW k \in 1 .. 2 * n PROVE d(k) \in Byte
  <2>1. k % 2 = 1 => (k + 1) \div 2 \in 1 .. n
    BY <1>1
  <2>2. k % 2 # 1 => k \div 2 \in 1 .. n
    BY <1>1
  <2>. QED BY <1>2, <2>1, <2>2, Big
<1>5. Bigs(s) \in Seq(Byte) /\ Len(Bigs(s)) = 2 * n
  <2>1. Bigs(s) \in [1 .. 2 * n -> Byte]
    BY <1>3, <1>4
  <2>. QED BY <1>1, <2>1
<1>6. ASSUME NEW j \in 1 .. n
      PROVE  Bigs(s)[2 * j - 1] = s[j] \div 256 /\ Bigs(s)[2 * j] = s[j] % 256
  <2>1. /\ 2 * j - 1 \in 1 .. 2 * n /\ 2 * j \in 1 .. 2 * n
        /\ (2 * j - 1) % 2 = 1 /\ (2 * j - 1 + 1) \div 2 = j
        /\ (2 * j) % 2 = 0 /\ (2 * j) \div 2 = j
    BY <1>1
  <2>2. Bigs(s)[2 * j - 1] = d(2 * j - 1) /\ Bigs(s)[2 * j] = d(2 * j)
    BY <1>3, <2>1
  <2>. QED BY <2>1, <2>2
<1>. QED BY <1>5, <1>6 DEF n

(* Words that stand in the info are read as they were written.             *)
LEMMA BigsRead ==
  ASSUME NEW s \in Seq(Short), NEW STATE o, o \in Nat, info \in Seq(Byte),
         Stands(Bigs(s), o)
  PROVE  /\ \A j \in 1 .. Len(s) : Word(o + 2 * (j - 1)) = s[j]
         /\ Words(o, Len(s)) = s
<1>1. ASSUME NEW j \in 1 .. Len(s) PROVE Word(o + 2 * (j - 1)) = s[j]
  <2>1. Len(s) \in Nat /\ s[j] \in Short
    OBVIOUS
  <2>2. 2 * j - 1 \in 1 .. Len(Bigs(s)) /\ 2 * j \in 1 .. Len(Bigs(s))
    BY <2>1, BigsFacts
  <2>3. info[o + (2 * j - 1)] = s[j] \div 256 /\ info[o + 2 * j] = s[j] % 256
    BY <2>2, BigsFacts DEF Stands
  <2>4. o + 2 * (j - 1) + 1 = o + (2 * j - 1) /\ o + 2 * (j - 1) + 1 + 1 = o + 2 * j
    BY <2>1
  <2>5. Word(o + 2 * (j - 1))
          = 256 * info[o + 2 * (j - 1) + 1] + info[o + 2 * (j - 1) + 1 + 1]
    BY DEF Word, At
  <2>6. /\ info[o + 2 * (j - 1) + 1] = s[j] \div 256
        /\ info[o + 2 * (j - 1) + 1 + 1] = s[j] % 256
    BY <2>3, <2>4, Zenon
  <2>7. Word(o + 2 * (j - 1)) = 256 * (s[j] \div 256) + (s[j] % 256)
    BY <2>5, <2>6, Zenon
  <2>. QED BY <2>1, <2>7, Big
<1>2. Words(o, Len(s)) = [j \in 1 .. Len(s) |-> s[j]]
  BY <1>1 DEF Words
<1>. QED BY <1>1, <1>2

(* So are bytes,                                                           *)
LEMMA BytesRead ==
  ASSUME NEW s \in Seq(Byte), NEW STATE o, o \in Nat, info \in Seq(Byte), Stands(s, o)
  PROVE  /\ \A j \in 1 .. Len(s) : At(o + j - 1) = s[j]
         /\ Bytes(o, Len(s)) = s
<1>1. ASSUME NEW j \in 1 .. Len(s) PROVE At(o + j - 1) = s[j]
  <2>1. o + j - 1 + 1 = o + j
    OBVIOUS
  <2>. QED BY <2>1 DEF At, Stands
<1>2. Bytes(o, Len(s)) = [j \in 1 .. Len(s) |-> s[j]]
  BY <1>1 DEF Bytes
<1>. QED BY <1>1, <1>2

(* and one byte.                                                           *)
LEMMA ByteRead ==
  ASSUME NEW v \in Byte, NEW STATE o, o \in Nat, Stands(<<v>>, o)
  PROVE  At(o) = v /\ o < Len(info)
BY DEF At, Stands

(* The range of a word                                                     *)
LEMMA Interval ==
  ASSUME NEW a \in Int, NEW b \in Int, NEW w \in Int
  PROVE  w \in a .. b <=> a <= w /\ w <= b
OBVIOUS

LEMMA InShort ==
  ASSUME NEW w \in Int PROVE w \in Short <=> 0 <= w /\ w <= 65535
<1>. DEFINE b == 65535
<1>1. b \in Int /\ Short = 0 .. b
  BY DEF Short
<1>. HIDE DEF b
<1>2. w \in Short <=> 0 <= w /\ w <= b
  BY <1>1, Interval
<1>. QED
  BY <1>2 DEF b

(* A current below zero goes through its complement and comes back.        *)
LEMMA SignedRead ==
  ASSUME NEW c \in Int, c + 32768 \in Short
  PROVE  c % 65536 \in Short /\ Signed(c % 65536) = c
<1>1. c + 32768 \in Int
  OBVIOUS
<1>2. 0 <= c + 32768 /\ c + 32768 <= 65535
  BY <1>1, InShort
<1>3. CASE c >= 0
  <2>1. c % 65536 = c /\ c <= 65535
    BY <1>2, <1>3
  <2>2. c \in Short
    BY <1>3, <2>1, InShort
  <2>3. ~ (c >= 32768)
    BY <1>2, <1>3
  <2>4. Signed(c) = c
    BY <2>3 DEF Signed
  <2>. QED
    BY <2>1, <2>2, <2>4
<1>4. CASE c < 0
  <2>1. c % 65536 = c + 65536
    BY <1>2, <1>4
  <2>2. c + 65536 >= 32768 /\ c + 65536 <= 65535
    BY <1>2, <1>4
  <2>3. c + 65536 \in Int /\ 0 <= c + 65536
    BY <2>2
  <2>4. c + 65536 \in Short
    BY <2>2, <2>3, InShort
  <2>5. Signed(c + 65536) = c
    BY <2>2 DEF Signed
  <2>6. Signed(c % 65536) = c /\ c % 65536 \in Short
    BY <2>1, <2>4, <2>5
  <2>. QED
    BY <2>6
<1>. QED
  BY <1>3, <1>4

(* The assumption on a pack, one fact by one                               *)
LEMMA AnalogPackFacts ==
  ASSUME NEW p \in AnalogPack
  PROVE  /\ p.cells \in Seq(2000 .. 4500) /\ Len(p.cells) \in 1 .. 32
         /\ p.temps \in Seq(Short) /\ Len(p.temps) \in 1 .. 12
         /\ p.current \in Int /\ p.current + 32768 \in Short
         /\ p.voltage \in Short /\ p.cycles \in Short /\ p.design \in Short
         /\ p.capacity \in Short \X Short
         /\ p.soc \in Byte /\ p.soh \in Byte
<1>1. p.cells \in Seq(2000 .. 4500)
  BY AnalogAssumption
<1>2. Len(p.cells) \in 1 .. 32
  BY AnalogAssumption
<1>3. p.temps \in Seq(Short)
  BY AnalogAssumption
<1>4. Len(p.temps) \in 1 .. 12
  BY AnalogAssumption
<1>5. p.current \in Int
  BY AnalogAssumption
<1>6. p.current + 32768 \in Short
  BY AnalogAssumption
<1>7. {p.voltage, p.cycles, p.design} \subseteq Short
  BY AnalogAssumption
<1>8. p.voltage \in Short /\ p.cycles \in Short /\ p.design \in Short
  BY <1>7
<1>9. p.capacity \in Short \X Short
  BY AnalogAssumption
<1>10. {p.soc, p.soh} \subseteq Byte
  BY AnalogAssumption
<1>11. p.soc \in Byte /\ p.soh \in Byte
  BY <1>10
<1>. QED
  BY <1>1, <1>2, <1>3, <1>4, <1>5, <1>6, <1>8, <1>9, <1>11

(* The long tail has 14 bytes, with the charge at the first and the tenth; *)
(* any other has two at most.                                              *)
LEMMA TrailerFacts ==
  ASSUME NEW p \in AnalogPack, NEW layout \in {"v2", "flagged", "documented", "bare"}
  PROVE  /\ Trailer(layout, p) \in Seq(Byte)
         /\ layout = "v2" => /\ Len(Trailer(layout, p)) = 14
                             /\ Trailer(layout, p)[1] = p.soc
                             /\ Trailer(layout, p)[10] = p.soh
         /\ layout # "v2" => Len(Trailer(layout, p)) <= 2
<1>0. p.soc \in Byte /\ p.soh \in Byte
  BY AnalogPackFacts
<1>1. 113 \in Byte /\ 202 \in Byte /\ 18 \in Byte /\ 0 \in Byte
  BY DEF Byte
<1>2. CASE layout = "v2"
  <2>1. Trailer(layout, p)
          = <<p.soc, 113, 113, 113, 113, 113, 113, 113, 113, p.soh, 202, 18, 0, 0>>
    BY <1>2 DEF Trailer
  <2>2. /\ Len(Trailer(layout, p)) = 14
        /\ Trailer(layout, p)[1] = p.soc /\ Trailer(layout, p)[10] = p.soh
    BY <2>1
  <2>3. Trailer(layout, p) \in Seq(Byte)
    BY <1>0, <1>1, <2>1
  <2>. QED
    BY <1>2, <2>2, <2>3
<1>3. CASE layout = "flagged"
  <2>1. Trailer(layout, p) = <<0>>
    BY <1>3 DEF Trailer
  <2>2. Trailer(layout, p) \in Seq(Byte) /\ Len(Trailer(layout, p)) <= 2
    BY <1>1, <2>1
  <2>. QED
    BY <1>3, <2>1, <2>2
<1>4. CASE layout = "documented"
  <2>1. Trailer(layout, p) = <<p.soc, p.soh>>
    BY <1>4 DEF Trailer
  <2>2. Trailer(layout, p) \in Seq(Byte) /\ Len(Trailer(layout, p)) <= 2
    BY <1>0, <2>1
  <2>. QED
    BY <1>4, <2>2
<1>5. CASE layout = "bare"
  <2>1. Trailer(layout, p) = <<>>
    BY <1>5 DEF Trailer
  <2>2. Trailer(layout, p) \in Seq(Byte) /\ Len(Trailer(layout, p)) <= 2
    BY <2>1
  <2>. QED
    BY <1>5, <2>1, <2>2
<1>. QED
  BY <1>2, <1>3, <1>4, <1>5

(* Four parts                                                              *)
LEMMA Stands4 ==
  ASSUME NEW s1 \in Seq(Byte), NEW s2 \in Seq(Byte), NEW s3 \in Seq(Byte),
         NEW s4 \in Seq(Byte), NEW STATE o, o \in Nat, info \in Seq(Byte),
         Stands(s1 \o s2 \o s3 \o s4, o)
  PROVE  /\ Stands(s1, o) /\ Stands(s2, o + Len(s1))
         /\ Stands(s3, o + (Len(s1) + Len(s2)))
         /\ Stands(s4, o + (Len(s1) + Len(s2) + Len(s3)))
<1>. DEFINE t2 == s1 \o s2
            t3 == t2 \o s3
<1>1. t2 \in Seq(Byte) /\ Len(t2) = Len(s1) + Len(s2)
  OBVIOUS
<1>. HIDE DEF t2
<1>2. t3 \in Seq(Byte) /\ Len(t3) = Len(t2) + Len(s3)
  BY <1>1
<1>. HIDE DEF t3
<1>3. Stands(t3 \o s4, o)
  BY DEF t2, t3
<1>4. Stands(t3, o) /\ Stands(s4, o + Len(t3))
  BY <1>2, <1>3, StandsSplit
<1>5. Stands(t2 \o s3, o)
  BY <1>4 DEF t3
<1>6. Stands(t2, o) /\ Stands(s3, o + Len(t2))
  BY <1>1, <1>5, StandsSplit
<1>7. Stands(s1 \o s2, o)
  BY <1>6 DEF t2
<1>8. Stands(s1, o) /\ Stands(s2, o + Len(s1))
  BY <1>7, StandsSplit
<1>. QED
  BY <1>1, <1>2, <1>4, <1>6, <1>8, Zenon

(* The length of two parts                                                 *)
LEMMA Joined ==
  ASSUME NEW s \in Seq(Byte), NEW t \in Seq(Byte)
  PROVE  s \o t \in Seq(Byte) /\ Len(s \o t) = Len(s) + Len(t)
OBVIOUS

-----------------------------------------------------------------------------

(* The parts of a reading, and where the reader finds them                 *)
Laid(cells, temps, w, v, t) ==
  <<Len(cells)>> \o Bigs(cells) \o <<Len(temps)>> \o Bigs(temps)
    \o Bigs(w) \o <<9>> \o Bigs(v) \o t

LaidAt(cells, temps, w, v, t, o) ==
  /\ o < Len(info) /\ At(o) = Len(cells)
  /\ TempsAt(o) \in Nat /\ TempsAt(o) < Len(info) /\ At(TempsAt(o)) = Len(temps)
  /\ CurrentAt(o) \in Nat
  /\ Stands(Bigs(cells), o + 1)
  /\ Stands(Bigs(temps), TempsAt(o) + 1)
  /\ Stands(Bigs(w), CurrentAt(o))
  /\ Stands(Bigs(v), CurrentAt(o) + 7)
  /\ Stands(t, FullEnd(o) + 4)
  /\ FullEnd(o) \in Nat
  /\ FullEnd(o) + 4 + Len(t)
       = o + Len(Laid(cells, temps, w, v, t))

(* The reader finds the parts of a reading.                                *)
LEMMA AnalogCut ==
  ASSUME NEW cells \in Seq(Short), NEW temps \in Seq(Short), NEW w \in Seq(Short),
         NEW v \in Seq(Short), NEW t \in Seq(Byte),
         Len(cells) \in Byte, Len(temps) \in Byte, Len(w) = 3, Len(v) = 3,
         NEW STATE o, o \in Nat, info \in Seq(Byte),
         Stands(Laid(cells, temps, w, v, t), o)
  PROVE  LaidAt(cells, temps, w, v, t, o)
<1>. DEFINE n == Len(cells)
            m == Len(temps)
            c1 == <<n>>
            c2 == Bigs(cells)
            c3 == <<m>>
            c4 == Bigs(temps)
            c5 == Bigs(w)
            c6 == <<9>>
            c7 == Bigs(v)
            d4 == c1 \o c2 \o c3 \o c4
            d5 == d4 \o c5
            d8 == d5 \o c6 \o c7 \o t
<1>1. n \in Nat /\ m \in Nat /\ n \in Byte /\ m \in Byte
  <2>1. \A x \in Byte : x \in Nat
    BY DEF Byte
  <2>2. n \in Byte /\ m \in Byte
    OBVIOUS
  <2>. QED
    BY <2>1, <2>2, Zenon
<1>2. 9 \in Byte
  BY DEF Byte
<1>3. c1 \in Seq(Byte) /\ Len(c1) = 1
  BY <1>1
<1>4. c3 \in Seq(Byte) /\ Len(c3) = 1
  BY <1>1
<1>5. c6 \in Seq(Byte) /\ Len(c6) = 1
  BY <1>2
<1>6. c2 \in Seq(Byte) /\ Len(c2) = 2 * n
  BY BigsFacts
<1>7. c4 \in Seq(Byte) /\ Len(c4) = 2 * m
  BY BigsFacts
<1>8. c5 \in Seq(Byte) /\ Len(c5) = 6
  <2>1. c5 \in Seq(Byte) /\ Len(c5) = 2 * 3
    BY BigsFacts
  <2>. QED
    BY <2>1
<1>9. c7 \in Seq(Byte) /\ Len(c7) = 6
  <2>1. c7 \in Seq(Byte) /\ Len(c7) = 2 * 3
    BY BigsFacts
  <2>. QED
    BY <2>1
<1>10. Stands(d8, o)
  BY DEF Laid
<1>. HIDE DEF n, m, c1, c2, c3, c4, c5, c6, c7
<1>11. d4 \in Seq(Byte) /\ Len(d4) = 2 + 2 * n + 2 * m
  <2>1. c1 \o c2 \in Seq(Byte) /\ Len(c1 \o c2) = Len(c1) + Len(c2)
    BY <1>3, <1>6, Joined
  <2>2. c1 \o c2 \o c3 \in Seq(Byte) /\ Len(c1 \o c2 \o c3) = Len(c1 \o c2) + Len(c3)
    BY <1>4, <2>1, Joined
  <2>3. d4 \in Seq(Byte) /\ Len(d4) = Len(c1 \o c2 \o c3) + Len(c4)
    BY <1>7, <2>2, Joined
  <2>4. Len(d4) = 1 + 2 * n + 1 + 2 * m
    BY <1>3, <1>4, <1>6, <1>7, <2>1, <2>2, <2>3, Zenon
  <2>. QED
    BY <1>1, <2>3, <2>4
<1>. HIDE DEF d4
<1>12. d5 \in Seq(Byte) /\ Len(d5) = 8 + 2 * n + 2 * m
  <2>1. d5 \in Seq(Byte) /\ Len(d5) = Len(d4) + Len(c5)
    BY <1>8, <1>11, Joined
  <2>. QED
    BY <1>1, <1>8, <1>11, <2>1
<1>. HIDE DEF d5
<1>13. Len(d8) = 15 + 2 * n + 2 * m + Len(t) /\ Len(t) \in Nat
  <2>1. d5 \o c6 \in Seq(Byte) /\ Len(d5 \o c6) = Len(d5) + Len(c6)
    BY <1>5, <1>12, Joined
  <2>2. d5 \o c6 \o c7 \in Seq(Byte) /\ Len(d5 \o c6 \o c7) = Len(d5 \o c6) + Len(c7)
    BY <1>9, <2>1, Joined
  <2>3. Len(d8) = Len(d5 \o c6 \o c7) + Len(t)
    BY <2>2, Joined
  <2>4. Len(d8) = Len(d5) + 1 + 6 + Len(t)
    BY <1>5, <1>9, <2>1, <2>2, <2>3, Zenon
  <2>5. Len(t) \in Nat
    OBVIOUS
  <2>. QED
    BY <1>1, <1>12, <2>4, <2>5
<1>14. /\ Stands(d5, o)
       /\ Stands(c7, o + (Len(d5) + Len(c6)))
       /\ Stands(t, o + (Len(d5) + Len(c6) + Len(c7)))
  BY <1>5, <1>9, <1>10, <1>12, Stands4
<1>. HIDE DEF d8
<1>15. Stands(d4, o) /\ Stands(c5, o + Len(d4))
  <2>1. Stands(d4 \o c5, o)
    BY <1>14 DEF d5
  <2>. QED
    BY <1>8, <1>11, <2>1, StandsSplit
<1>16. /\ Stands(c1, o) /\ Stands(c2, o + Len(c1))
       /\ Stands(c3, o + (Len(c1) + Len(c2)))
       /\ Stands(c4, o + (Len(c1) + Len(c2) + Len(c3)))
  <2>1. Stands(c1 \o c2 \o c3 \o c4, o)
    BY <1>15 DEF d4
  <2>. QED
    BY <1>3, <1>4, <1>6, <1>7, <2>1, Stands4
<1>17. At(o) = n /\ o < Len(info)
  BY <1>1, <1>16, ByteRead DEF c1
<1>18. TempsAt(o) = o + (1 + 2 * n) /\ TempsAt(o) \in Nat
  BY <1>1, <1>17 DEF TempsAt
<1>19. At(TempsAt(o)) = m /\ TempsAt(o) < Len(info)
  <2>1. o + (Len(c1) + Len(c2)) = TempsAt(o)
    BY <1>1, <1>3, <1>6, <1>18
  <2>2. Stands(<<m>>, TempsAt(o))
    BY <1>16, <2>1 DEF c3
  <2>. QED
    BY <1>1, <1>18, <2>2, ByteRead
<1>20. CurrentAt(o) = o + (2 + 2 * n + 2 * m) /\ CurrentAt(o) \in Nat
  <2>1. CurrentAt(o) = TempsAt(o) + 1 + 2 * m
    BY <1>19 DEF CurrentAt
  <2>2. CurrentAt(o) = o + (1 + 2 * n) + 1 + 2 * m
    BY <1>18, <2>1
  <2>. QED
    BY <1>1, <2>2
<1>21. FullEnd(o) + 4 = o + (15 + 2 * n + 2 * m) /\ FullEnd(o) \in Nat
  BY <1>1, <1>20 DEF FullEnd
<1>22. Stands(Bigs(cells), o + 1)
  <2>1. o + Len(c1) = o + 1
    BY <1>3
  <2>. QED
    BY <1>16, <2>1 DEF c2
<1>23. Stands(Bigs(temps), TempsAt(o) + 1)
  <2>1. o + (Len(c1) + Len(c2) + Len(c3)) = TempsAt(o) + 1
    BY <1>1, <1>3, <1>4, <1>6, <1>18
  <2>. QED
    BY <1>16, <2>1 DEF c4
<1>24. Stands(Bigs(w), CurrentAt(o))
  <2>1. o + Len(d4) = CurrentAt(o)
    BY <1>1, <1>11, <1>20
  <2>. QED
    BY <1>15, <2>1 DEF c5
<1>25. Stands(Bigs(v), CurrentAt(o) + 7)
  <2>1. o + (Len(d5) + Len(c6)) = CurrentAt(o) + 7
    BY <1>1, <1>5, <1>12, <1>20
  <2>. QED
    BY <1>14, <2>1 DEF c7
<1>26. Stands(t, FullEnd(o) + 4)
  <2>1. o + (Len(d5) + Len(c6) + Len(c7)) = FullEnd(o) + 4
    BY <1>1, <1>5, <1>9, <1>12, <1>21
  <2>. QED
    BY <1>14, <2>1
<1>27. FullEnd(o) + 4 + Len(t) = o + Len(d8)
  BY <1>1, <1>13, <1>21
<1>28. d8 = Laid(cells, temps, w, v, t)
  BY DEF Laid, d8, d5, d4, c1, c2, c3, c4, c5, c6, c7, n, m
<1>. QED
  BY <1>17, <1>18, <1>19, <1>20, <1>21, <1>22, <1>23, <1>24, <1>25, <1>26,
     <1>27, <1>28 DEF LaidAt, n, m

(* Voltages of a pack in service are words, and plausible.                 *)
LEMMA Voltages ==
  ASSUME NEW s \in Seq(2000 .. 4500)
  PROVE  s \in Seq(Short) /\ \A j \in 1 .. Len(s) : PlausibleMillivolts(s[j])
<1>. DEFINE V == 2000 .. 4500
<1>1. V \subseteq Short
  <2>1. ASSUME NEW w \in V PROVE w \in Short
    <3>1. w \in Int /\ 0 <= w /\ w <= 65535
      OBVIOUS
    <3>. QED
      BY <3>1, InShort
  <2>. QED
    BY <2>1
<1>2. \A w \in V : PlausibleMillivolts(w)
  BY DEF PlausibleMillivolts
<1>3. s \in Seq(V)
  OBVIOUS
<1>. HIDE DEF V
<1>. QED
  BY <1>1, <1>2, <1>3, SeqMonotonic, ElementOfSeq

(* A reading that stands in the info fits, and is read as it was sent.     *)
ReadingAt(layout, p, o) ==
  /\ AnalogFits(o)
  /\ Words(o + 1, At(o)) = p.cells
  /\ Words(TempsAt(o) + 1, At(TempsAt(o))) = p.temps
  /\ Signed(Word(CurrentAt(o))) = p.current
  /\ Word(CurrentAt(o) + 2) = p.voltage
  /\ <<Word(CurrentAt(o) + 4), Word(CurrentAt(o) + 7)>> = p.capacity
  /\ IfThere(FullEnd(o)) = p.cycles /\ IfThere(FullEnd(o) + 2) = p.design
  /\ At(o) = Len(p.cells)
  /\ Stands(Trailer(layout, p), FullEnd(o) + 4)
  /\ FullEnd(o) \in Nat
  /\ FullEnd(o) + 4 + Len(Trailer(layout, p)) = o + Len(AnalogBlock(layout, p))

LEMMA AnalogRead ==
  ASSUME NEW p \in AnalogPack, NEW layout \in {"v2", "flagged", "documented", "bare"},
         NEW STATE o, o \in Nat, info \in Seq(Byte),
         Stands(AnalogBlock(layout, p), o)
  PROVE  ReadingAt(layout, p, o)
<1>. DEFINE n == Len(p.cells)
            m == Len(p.temps)
            w == <<p.current % 65536, p.voltage, p.capacity[1]>>
            v == <<p.capacity[2], p.cycles, p.design>>
            t == Trailer(layout, p)
<1>1. p.cells \in Seq(Short) /\ p.temps \in Seq(Short)
  BY AnalogPackFacts, Voltages
<1>2. \A j \in 1 .. n : PlausibleMillivolts(p.cells[j])
  BY AnalogPackFacts, Voltages
<1>3. n \in 1 .. 32 /\ m \in 1 .. 12
  BY AnalogPackFacts
<1>4. p.capacity[1] \in Short /\ p.capacity[2] \in Short
      /\ p.capacity = <<p.capacity[1], p.capacity[2]>>
  <2>1. p.capacity \in Short \X Short
    BY AnalogPackFacts
  <2>. QED
    BY <2>1
<1>5. p.current % 65536 \in Short /\ Signed(p.current % 65536) = p.current
  <2>1. p.current \in Int /\ p.current + 32768 \in Short
    BY AnalogPackFacts
  <2>. QED
    BY <2>1, SignedRead
<1>6. w \in Seq(Short) /\ Len(w) = 3
  <2>1. p.voltage \in Short
    BY AnalogPackFacts
  <2>. QED
    BY <1>4, <1>5, <2>1
<1>7. v \in Seq(Short) /\ Len(v) = 3
  <2>1. p.cycles \in Short /\ p.design \in Short
    BY AnalogPackFacts
  <2>. QED
    BY <1>4, <2>1
<1>8. t \in Seq(Byte)
  BY TrailerFacts
<1>9. AnalogBlock(layout, p) = Laid(p.cells, p.temps, w, v, t)
  BY DEF AnalogBlock, Laid
<1>. HIDE DEF w, v, t, n, m
<1>10. n \in Byte /\ m \in Byte /\ n \in Nat /\ m \in Nat
  BY <1>3 DEF Byte
<1>11. n = Len(p.cells) /\ m = Len(p.temps)
  BY DEF n, m
<1>12. Stands(Laid(p.cells, p.temps, w, v, t), o)
  BY <1>9
<1>13. /\ o < Len(info) /\ At(o) = n
       /\ TempsAt(o) \in Nat /\ TempsAt(o) < Len(info) /\ At(TempsAt(o)) = m
       /\ CurrentAt(o) \in Nat
       /\ Stands(Bigs(p.cells), o + 1)
       /\ Stands(Bigs(p.temps), TempsAt(o) + 1)
       /\ Stands(Bigs(w), CurrentAt(o))
       /\ Stands(Bigs(v), CurrentAt(o) + 7)
       /\ Stands(t, FullEnd(o) + 4)
       /\ FullEnd(o) \in Nat
       /\ FullEnd(o) + 4 + Len(t) = o + Len(AnalogBlock(layout, p))
  <2>1. Len(p.cells) \in Byte /\ Len(p.temps) \in Byte
    BY <1>10 DEF n, m
  <2>2. LaidAt(p.cells, p.temps, w, v, t, o)
    BY <1>1, <1>6, <1>7, <1>8, <1>12, <2>1, AnalogCut
  <2>. QED
    BY <1>9, <2>2, Zenon DEF LaidAt, n, m
<1>14. /\ \A j \in 1 .. n : Word(o + 1 + 2 * (j - 1)) = p.cells[j]
       /\ Words(o + 1, n) = p.cells
  <2>1. o + 1 \in Nat
    OBVIOUS
  <2>. QED
    BY <1>1, <1>11, <1>13, <2>1, BigsRead
<1>15. Words(TempsAt(o) + 1, m) = p.temps
  <2>1. TempsAt(o) + 1 \in Nat
    BY <1>13
  <2>. QED
    BY <1>1, <1>11, <1>13, <2>1, BigsRead
<1>16. /\ Word(CurrentAt(o)) = w[1] /\ Word(CurrentAt(o) + 2) = w[2]
       /\ Word(CurrentAt(o) + 4) = w[3]
  <2>1. \A j \in 1 .. 3 : Word(CurrentAt(o) + 2 * (j - 1)) = w[j]
    BY <1>6, <1>13, BigsRead
  <2>2. /\ Word(CurrentAt(o) + 2 * (1 - 1)) = w[1]
        /\ Word(CurrentAt(o) + 2 * (2 - 1)) = w[2]
        /\ Word(CurrentAt(o) + 2 * (3 - 1)) = w[3]
    BY <2>1
  <2>3. /\ CurrentAt(o) + 2 * (1 - 1) = CurrentAt(o)
        /\ CurrentAt(o) + 2 * (2 - 1) = CurrentAt(o) + 2
        /\ CurrentAt(o) + 2 * (3 - 1) = CurrentAt(o) + 4
    BY <1>13
  <2>. QED
    BY <2>2, <2>3
<1>17. /\ Word(CurrentAt(o) + 7) = v[1]
       /\ Word(CurrentAt(o) + 9) = v[2] /\ Word(CurrentAt(o) + 11) = v[3]
  <2>0. CurrentAt(o) + 7 \in Nat
    BY <1>13
  <2>1. \A j \in 1 .. 3 : Word(CurrentAt(o) + 7 + 2 * (j - 1)) = v[j]
    BY <1>7, <1>13, <2>0, BigsRead
  <2>2. /\ Word(CurrentAt(o) + 7 + 2 * (1 - 1)) = v[1]
        /\ Word(CurrentAt(o) + 7 + 2 * (2 - 1)) = v[2]
        /\ Word(CurrentAt(o) + 7 + 2 * (3 - 1)) = v[3]
    BY <2>1
  <2>3. /\ CurrentAt(o) + 7 + 2 * (1 - 1) = CurrentAt(o) + 7
        /\ CurrentAt(o) + 7 + 2 * (2 - 1) = CurrentAt(o) + 9
        /\ CurrentAt(o) + 7 + 2 * (3 - 1) = CurrentAt(o) + 11
    BY <1>13
  <2>. QED
    BY <2>2, <2>3
<1>18. Signed(Word(CurrentAt(o))) = p.current
  BY <1>5, <1>16 DEF w
<1>19. <<Word(CurrentAt(o) + 4), Word(CurrentAt(o) + 7)>> = p.capacity
  <2>1. w[3] = p.capacity[1] /\ v[1] = p.capacity[2]
    BY DEF w, v
  <2>. QED
    BY <1>4, <1>16, <1>17, <2>1, Zenon
<1>20. AnalogFits(o)
  <2>1. ASSUME NEW k \in 1 .. At(o) PROVE PlausibleMillivolts(Word(o + 2 * k - 1))
    <3>1. k \in 1 .. n
      BY <1>13
    <3>2. o + 2 * k - 1 = o + 1 + 2 * (k - 1)
      BY <1>10, <3>1
    <3>3. Word(o + 2 * k - 1) = p.cells[k]
      BY <1>14, <3>1, <3>2
    <3>4. PlausibleMillivolts(p.cells[k])
      BY <1>2, <3>1
    <3>. QED
      BY <3>3, <3>4
  <2>2. FullEnd(o) <= Len(info)
    <3>1. FullEnd(o) + 4 + Len(t) <= Len(info) /\ Len(t) \in Nat
      BY <1>8, <1>13 DEF Stands
    <3>. QED
      BY <1>13, <3>1
  <2>3. PlausibleCellCount(At(o)) /\ PlausibleTemperatureCount(At(TempsAt(o)))
    BY <1>3, <1>13 DEF PlausibleCellCount, PlausibleTemperatureCount
  <2>. QED
    BY <1>13, <2>1, <2>2, <2>3 DEF AnalogFits
<1>21. Words(o + 1, At(o)) = p.cells /\ Words(TempsAt(o) + 1, At(TempsAt(o))) = p.temps
  BY <1>13, <1>14, <1>15, Zenon
<1>22. Word(CurrentAt(o) + 2) = p.voltage
  <2>1. w[2] = p.voltage
    BY DEF w
  <2>. QED
    BY <1>16, <2>1, Zenon
<1>23. IfThere(FullEnd(o)) = p.cycles /\ IfThere(FullEnd(o) + 2) = p.design
  <2>1. v[2] = p.cycles /\ v[3] = p.design
    BY DEF v
  <2>2. FullEnd(o) = CurrentAt(o) + 9 /\ FullEnd(o) + 2 = CurrentAt(o) + 11
    BY <1>13 DEF FullEnd
  <2>3. FullEnd(o) + 2 <= Len(info) /\ FullEnd(o) + 2 + 2 <= Len(info)
    <3>1. FullEnd(o) + 4 + Len(t) <= Len(info) /\ Len(t) \in Nat /\ Len(info) \in Nat
      BY <1>8, <1>13 DEF Stands
    <3>. QED
      BY <1>13, <3>1
  <2>. QED
    BY <1>17, <2>1, <2>2, <2>3 DEF IfThere
<1>. QED
  BY <1>11, <1>13, <1>18, <1>19, <1>20, <1>21, <1>22, <1>23, Zenon DEF ReadingAt, t
-----------------------------------------------------------------------------

(* The low byte of the mask of balancing cells has the first eight of them,*)
LEMMA LowBits ==
  ASSUME NEW s1 \in Byte, NEW s2 \in Byte, NEW i \in 1 .. 8
  PROVE  ((s1 + 256 * s2) \div Power[i]) % 2 = (s1 \div Power[i]) % 2
<1>0. s1 \in Int /\ s2 \in Int
  BY DEF Byte
<1>1. CASE i = 1
  <2>1. Power[i] = 1
    BY <1>1 DEF Power
  <2>2. ((s1 + 256 * s2) \div 1) % 2 = (s1 \div 1) % 2
    BY <1>0
  <2>. QED
    BY <2>1, <2>2, Zenon
<1>2. CASE i = 2
  <2>1. Power[i] = 2
    BY <1>2 DEF Power
  <2>2. ((s1 + 256 * s2) \div 2) % 2 = (s1 \div 2) % 2
    BY <1>0
  <2>. QED
    BY <2>1, <2>2, Zenon
<1>3. CASE i = 3
  <2>1. Power[i] = 4
    BY <1>3 DEF Power
  <2>2. ((s1 + 256 * s2) \div 4) % 2 = (s1 \div 4) % 2
    BY <1>0
  <2>. QED
    BY <2>1, <2>2, Zenon
<1>4. CASE i = 4
  <2>1. Power[i] = 8
    BY <1>4 DEF Power
  <2>2. ((s1 + 256 * s2) \div 8) % 2 = (s1 \div 8) % 2
    BY <1>0
  <2>. QED
    BY <2>1, <2>2, Zenon
<1>5. CASE i = 5
  <2>1. Power[i] = 16
    BY <1>5 DEF Power
  <2>2. ((s1 + 256 * s2) \div 16) % 2 = (s1 \div 16) % 2
    BY <1>0
  <2>. QED
    BY <2>1, <2>2, Zenon
<1>6. CASE i = 6
  <2>1. Power[i] = 32
    BY <1>6 DEF Power
  <2>2. ((s1 + 256 * s2) \div 32) % 2 = (s1 \div 32) % 2
    BY <1>0
  <2>. QED
    BY <2>1, <2>2, Zenon
<1>7. CASE i = 7
  <2>1. Power[i] = 64
    BY <1>7 DEF Power
  <2>2. ((s1 + 256 * s2) \div 64) % 2 = (s1 \div 64) % 2
    BY <1>0
  <2>. QED
    BY <2>1, <2>2, Zenon
<1>8. CASE i = 8
  <2>1. Power[i] = 128
    BY <1>8 DEF Power
  <2>2. ((s1 + 256 * s2) \div 128) % 2 = (s1 \div 128) % 2
    BY <1>0
  <2>. QED
    BY <2>1, <2>2, Zenon
<1>. QED
  BY <1>1, <1>2, <1>3, <1>4, <1>5, <1>6, <1>7, <1>8

(* the high byte the other eight.                                          *)
LEMMA HighBits ==
  ASSUME NEW s1 \in Byte, NEW s2 \in Byte, NEW i \in 9 .. 16
  PROVE  ((s1 + 256 * s2) \div Power[i]) % 2 = (s2 \div Power[i - 8]) % 2
<1>0. s1 \in 0 .. 255 /\ s2 \in Int
  BY DEF Byte
<1>9. CASE i = 9
  <2>1. Power[i] = 256 /\ Power[i - 8] = 1
    BY <1>9 DEF Power
  <2>2. (s1 + 256 * s2) \div 256 = s2 \div 1
    BY <1>0
  <2>. QED
    BY <2>1, <2>2
<1>10. CASE i = 10
  <2>1. Power[i] = 512 /\ Power[i - 8] = 2
    BY <1>10 DEF Power
  <2>2. (s1 + 256 * s2) \div 512 = s2 \div 2
    BY <1>0
  <2>. QED
    BY <2>1, <2>2
<1>11. CASE i = 11
  <2>1. Power[i] = 1024 /\ Power[i - 8] = 4
    BY <1>11 DEF Power
  <2>2. (s1 + 256 * s2) \div 1024 = s2 \div 4
    BY <1>0
  <2>. QED
    BY <2>1, <2>2
<1>12. CASE i = 12
  <2>1. Power[i] = 2048 /\ Power[i - 8] = 8
    BY <1>12 DEF Power
  <2>2. (s1 + 256 * s2) \div 2048 = s2 \div 8
    BY <1>0
  <2>. QED
    BY <2>1, <2>2
<1>13. CASE i = 13
  <2>1. Power[i] = 4096 /\ Power[i - 8] = 16
    BY <1>13 DEF Power
  <2>2. (s1 + 256 * s2) \div 4096 = s2 \div 16
    BY <1>0
  <2>. QED
    BY <2>1, <2>2
<1>14. CASE i = 14
  <2>1. Power[i] = 8192 /\ Power[i - 8] = 32
    BY <1>14 DEF Power
  <2>2. (s1 + 256 * s2) \div 8192 = s2 \div 32
    BY <1>0
  <2>. QED
    BY <2>1, <2>2
<1>15. CASE i = 15
  <2>1. Power[i] = 16384 /\ Power[i - 8] = 64
    BY <1>15 DEF Power
  <2>2. (s1 + 256 * s2) \div 16384 = s2 \div 64
    BY <1>0
  <2>. QED
    BY <2>1, <2>2
<1>16. CASE i = 16
  <2>1. Power[i] = 32768 /\ Power[i - 8] = 128
    BY <1>16 DEF Power
  <2>2. (s1 + 256 * s2) \div 32768 = s2 \div 128
    BY <1>0
  <2>. QED
    BY <2>1, <2>2
<1>. QED
  BY <1>9, <1>10, <1>11, <1>12, <1>13, <1>14, <1>15, <1>16

(* What ends a status                                                      *)
LEMMA StatusTrailer ==
  ASSUME NEW p
  PROVE  Trailer("bare", p) = <<>> /\ Trailer("reserved", p) = <<0>>
BY DEF Trailer

(* It is made of bytes.                                                    *)
LEMMA StatusTrailerBytes ==
  ASSUME NEW p, NEW layout \in {"bare", "reserved"}
  PROVE  Trailer(layout, p) \in Seq(Byte)
<1>1. 0 \in Byte
  BY DEF Byte
<1>2. <<0>> \in Seq(Byte) /\ <<>> \in Seq(Byte)
  BY <1>1
<1>. QED
  BY <1>2, StatusTrailer, Zenon

(* The assumption on a status, one fact by one                             *)
LEMMA StatusPackFacts ==
  ASSUME NEW p \in StatusPack
  PROVE  /\ p.cells \in Seq(Byte) /\ Len(p.cells) \in 1 .. 32
         /\ \A j \in 1 .. Len(p.cells) : p.cells[j] \in Level
         /\ p.temps \in Seq(Byte) /\ Len(p.temps) \in Byte
         /\ p.status \in Seq(Byte) /\ Len(p.status) = 12
         /\ p.balancing = {i \in 1 .. 8 : Bit(p.status[9], i)}
                            \cup {i \in 9 .. 16 : Bit(p.status[10], i - 8)}
<1>1. p.cells \in Seq(Level) /\ p.temps \in Seq(Level)
  BY StatusAssumption
<1>2. Level \subseteq Byte
  BY DEF Level, Byte
<1>3. p.cells \in Seq(Byte) /\ p.temps \in Seq(Byte)
  BY <1>1, <1>2, SeqMonotonic
<1>4. \A j \in 1 .. Len(p.cells) : p.cells[j] \in Level
  BY <1>1, ElementOfSeq
<1>5. Len(p.cells) \in 1 .. 32
  BY StatusAssumption
<1>6. Len(p.temps) \in Byte
  BY StatusAssumption
<1>7. p.status \in Seq(Byte) /\ Len(p.status) = 12
  BY StatusAssumption
<1>8. p.balancing = {i \in 1 .. 8 : Bit(p.status[9], i)}
                      \cup {i \in 9 .. 16 : Bit(p.status[10], i - 8)}
  BY StatusAssumption
<1>. QED
  BY <1>3, <1>4, <1>5, <1>6, <1>7, <1>8

(* The parts of a status, and where the reader finds them                  *)
Marked(cells, temps, st, t) ==
  <<Len(cells)>> \o cells \o <<Len(temps)>> \o temps \o st \o t

MarkedAt(cells, temps, st, t, o) ==
  /\ o < Len(info) /\ At(o) = Len(cells)
  /\ LevelsAt(o) \in Nat /\ LevelsAt(o) < Len(info) /\ At(LevelsAt(o)) = Len(temps)
  /\ StatusAt(o) \in Nat
  /\ Stands(cells, o + 1)
  /\ Stands(temps, LevelsAt(o) + 1)
  /\ Stands(st, StatusAt(o))
  /\ Stands(t, StatusAt(o) + 12)
  /\ StatusAt(o) + 12 + Len(t)
       = o + Len(Marked(cells, temps, st, t))

(* The reader finds the parts of a status.                                 *)
LEMMA StatusCut ==
  ASSUME NEW cells \in Seq(Byte), NEW temps \in Seq(Byte), NEW st \in Seq(Byte),
         NEW t \in Seq(Byte), Len(cells) \in Byte, Len(temps) \in Byte, Len(st) = 12,
         NEW STATE o, o \in Nat, info \in Seq(Byte),
         Stands(Marked(cells, temps, st, t), o)
  PROVE  MarkedAt(cells, temps, st, t, o)
<1>. DEFINE n == Len(cells)
            m == Len(temps)
            c1 == <<n>>
            c3 == <<m>>
            d4 == c1 \o cells \o c3 \o temps
            d5 == d4 \o st
            d6 == d5 \o t
<1>1. n \in Nat /\ m \in Nat /\ n \in Byte /\ m \in Byte
  <2>1. \A x \in Byte : x \in Nat
    BY DEF Byte
  <2>2. n \in Byte /\ m \in Byte
    OBVIOUS
  <2>. QED
    BY <2>1, <2>2, Zenon
<1>2. c1 \in Seq(Byte) /\ Len(c1) = 1
  BY <1>1
<1>3. c3 \in Seq(Byte) /\ Len(c3) = 1
  BY <1>1
<1>4. Stands(d6, o)
  BY DEF Marked
<1>5. n = Len(cells) /\ m = Len(temps) /\ Len(t) \in Nat
  OBVIOUS
<1>. HIDE DEF n, m, c1, c3
<1>6. d4 \in Seq(Byte) /\ Len(d4) = 2 + n + m
  <2>1. c1 \o cells \in Seq(Byte) /\ Len(c1 \o cells) = Len(c1) + Len(cells)
    BY <1>2, Joined
  <2>2. c1 \o cells \o c3 \in Seq(Byte) /\ Len(c1 \o cells \o c3) = Len(c1 \o cells) + Len(c3)
    BY <1>3, <2>1, Joined
  <2>3. d4 \in Seq(Byte) /\ Len(d4) = Len(c1 \o cells \o c3) + Len(temps)
    BY <2>2, Joined
  <2>4. Len(d4) = 1 + n + 1 + m
    BY <1>2, <1>3, <1>5, <2>1, <2>2, <2>3, Zenon
  <2>. QED
    BY <1>1, <2>3, <2>4
<1>. HIDE DEF d4
<1>7. d5 \in Seq(Byte) /\ Len(d5) = 14 + n + m
  <2>1. d5 \in Seq(Byte) /\ Len(d5) = Len(d4) + Len(st)
    BY <1>6, Joined
  <2>. QED
    BY <1>1, <1>6, <2>1
<1>. HIDE DEF d5
<1>8. Len(d6) = 14 + n + m + Len(t)
  <2>1. Len(d6) = Len(d5) + Len(t)
    BY <1>7, Joined
  <2>. QED
    BY <1>1, <1>7, <2>1
<1>9. Stands(d5, o) /\ Stands(t, o + Len(d5))
  BY <1>4, <1>7, StandsSplit
<1>. HIDE DEF d6
<1>10. Stands(d4, o) /\ Stands(st, o + Len(d4))
  <2>1. Stands(d4 \o st, o)
    BY <1>9 DEF d5
  <2>. QED
    BY <1>6, <2>1, StandsSplit
<1>11. /\ Stands(c1, o) /\ Stands(cells, o + Len(c1))
       /\ Stands(c3, o + (Len(c1) + Len(cells)))
       /\ Stands(temps, o + (Len(c1) + Len(cells) + Len(c3)))
  <2>1. Stands(c1 \o cells \o c3 \o temps, o)
    BY <1>10 DEF d4
  <2>. QED
    BY <1>2, <1>3, <2>1, Stands4
<1>12. At(o) = n /\ o < Len(info)
  BY <1>1, <1>11, ByteRead DEF c1
<1>13. LevelsAt(o) = o + (1 + n) /\ LevelsAt(o) \in Nat
  BY <1>1, <1>12 DEF LevelsAt
<1>14. At(LevelsAt(o)) = m /\ LevelsAt(o) < Len(info)
  <2>1. o + (Len(c1) + Len(cells)) = LevelsAt(o)
    BY <1>1, <1>2, <1>5, <1>13
  <2>2. Stands(<<m>>, LevelsAt(o))
    BY <1>11, <2>1 DEF c3
  <2>. QED
    BY <1>1, <1>13, <2>2, ByteRead
<1>15. StatusAt(o) = o + (2 + n + m) /\ StatusAt(o) \in Nat
  <2>1. StatusAt(o) = LevelsAt(o) + 1 + m
    BY <1>14 DEF StatusAt
  <2>2. StatusAt(o) = o + (1 + n) + 1 + m
    BY <1>13, <2>1
  <2>. QED
    BY <1>1, <2>2
<1>16. Stands(cells, o + 1)
  BY <1>2, <1>11
<1>17. Stands(temps, LevelsAt(o) + 1)
  <2>1. o + (Len(c1) + Len(cells) + Len(c3)) = LevelsAt(o) + 1
    BY <1>1, <1>2, <1>3, <1>5, <1>13
  <2>. QED
    BY <1>11, <2>1
<1>18. Stands(st, StatusAt(o))
  <2>1. o + Len(d4) = StatusAt(o)
    BY <1>1, <1>6, <1>15
  <2>. QED
    BY <1>10, <2>1
<1>19. Stands(t, StatusAt(o) + 12)
  <2>1. o + Len(d5) = StatusAt(o) + 12
    BY <1>1, <1>7, <1>15
  <2>. QED
    BY <1>9, <2>1
<1>20. StatusAt(o) + 12 + Len(t) = o + Len(d6)
  BY <1>1, <1>5, <1>8, <1>15
<1>21. d6 = Marked(cells, temps, st, t)
  BY DEF Marked, d6, d5, d4, c1, c3, n, m
<1>. QED
  BY <1>12, <1>13, <1>14, <1>15, <1>16, <1>17, <1>18, <1>19, <1>20, <1>21 DEF MarkedAt, n, m

(* The mask names the cells that are balanced, of those the pack has.      *)
Masked(s1, s2) == {i \in 1 .. 8 : Bit(s1, i)} \cup {i \in 9 .. 16 : Bit(s2, i - 8)}

LEMMA MaskRead ==
  ASSUME NEW s1 \in Byte, NEW s2 \in Byte, NEW n \in 1 .. 32
  PROVE  Balancing(s1, s2, n) = {i \in 1 .. n : i \in Masked(s1, s2)}
<1>1. Balancing(s1, s2, n)
        = {i \in 1 .. 16 : i <= n /\ ((s1 + 256 * s2) \div Power[i]) % 2 = 1}
  BY DEF Balancing
<1>2. ASSUME NEW i \in 1 .. 8
      PROVE  ((s1 + 256 * s2) \div Power[i]) % 2 = 1 <=> Bit(s1, i)
  BY LowBits DEF Bit
<1>3. ASSUME NEW i \in 9 .. 16
      PROVE  ((s1 + 256 * s2) \div Power[i]) % 2 = 1 <=> Bit(s2, i - 8)
  BY HighBits DEF Bit
<1>. DEFINE B(i) == ((s1 + 256 * s2) \div Power[i]) % 2 = 1
            C(i) == Bit(s1, i)
            D(i) == Bit(s2, i - 8)
<1>4. (\A i \in 1 .. 8 : B(i) <=> C(i)) /\ (\A i \in 9 .. 16 : B(i) <=> D(i))
  BY <1>2, <1>3
<1>. HIDE DEF B, C, D
<1>5. {i \in 1 .. 16 : i <= n /\ B(i)}
        = {i \in 1 .. n : i \in {j \in 1 .. 8 : C(j)} \cup {j \in 9 .. 16 : D(j)}}
  BY <1>4
<1>. QED
  BY <1>1, <1>5 DEF Masked, B, C, D

(* A status that stands in the info fits, and is read as it was sent.      *)
StatusReadAt(layout, p, o) ==
  /\ StatusFits(o)
  /\ Bytes(o + 1, At(o)) = p.cells
  /\ Bytes(LevelsAt(o) + 1, At(LevelsAt(o))) = p.temps
  /\ Bytes(StatusAt(o), 12) = p.status
  /\ Balancing(At(StatusAt(o) + 8), At(StatusAt(o) + 9), At(o))
       = {i \in DOMAIN p.cells : i \in p.balancing}
  /\ At(o) = Len(p.cells)
  /\ Stands(Trailer(layout, p), StatusAt(o) + 12)
  /\ StatusAt(o) \in Nat
  /\ StatusAt(o) + 12 + Len(Trailer(layout, p)) = o + Len(StatusBlock(layout, p))

LEMMA StatusRead ==
  ASSUME NEW p \in StatusPack, NEW layout \in {"bare", "reserved"},
         NEW STATE o, o \in Nat, info \in Seq(Byte),
         Stands(StatusBlock(layout, p), o)
  PROVE  StatusReadAt(layout, p, o)
<1>. DEFINE t == Trailer(layout, p)
<1>1. /\ p.cells \in Seq(Byte) /\ Len(p.cells) \in 1 .. 32
      /\ p.temps \in Seq(Byte) /\ Len(p.temps) \in Byte
      /\ p.status \in Seq(Byte) /\ Len(p.status) = 12
  BY StatusPackFacts
<1>2. t \in Seq(Byte)
  BY StatusTrailerBytes
<1>3. StatusBlock(layout, p) = Marked(p.cells, p.temps, p.status, t)
  BY DEF StatusBlock, Marked
<1>. HIDE DEF t
<1>4. Len(p.cells) \in Byte
  BY <1>1 DEF Byte
<1>5. /\ o < Len(info) /\ At(o) = Len(p.cells)
      /\ LevelsAt(o) \in Nat /\ LevelsAt(o) < Len(info) /\ At(LevelsAt(o)) = Len(p.temps)
      /\ StatusAt(o) \in Nat
      /\ Stands(p.cells, o + 1)
      /\ Stands(p.temps, LevelsAt(o) + 1)
      /\ Stands(p.status, StatusAt(o))
      /\ Stands(t, StatusAt(o) + 12)
      /\ StatusAt(o) + 12 + Len(t) = o + Len(StatusBlock(layout, p))
  <2>1. Stands(Marked(p.cells, p.temps, p.status, t), o)
    BY <1>3
  <2>2. /\ p.cells \in Seq(Byte) /\ p.temps \in Seq(Byte) /\ p.status \in Seq(Byte)
        /\ Len(p.cells) \in Byte /\ Len(p.temps) \in Byte /\ Len(p.status) = 12
    BY <1>1, <1>4
  <2>3. MarkedAt(p.cells, p.temps, p.status, t, o)
    BY <1>2, <2>1, <2>2, StatusCut
  <2>. QED
    BY <1>3, <2>3, Zenon DEF MarkedAt
<1>6. Bytes(o + 1, At(o)) = p.cells
  <2>1. Bytes(o + 1, Len(p.cells)) = p.cells
    <3>1. o + 1 \in Nat
      OBVIOUS
    <3>. QED
      BY <1>1, <1>5, <3>1, BytesRead
  <2>. QED
    BY <1>5, <2>1
<1>7. Bytes(LevelsAt(o) + 1, At(LevelsAt(o))) = p.temps
  <2>1. LevelsAt(o) + 1 \in Nat
    BY <1>5
  <2>. QED
    BY <1>1, <1>5, <2>1, BytesRead
<1>8. Bytes(StatusAt(o), 12) = p.status
      /\ \A j \in 1 .. 12 : At(StatusAt(o) + j - 1) = p.status[j]
  <2>1. /\ \A j \in 1 .. Len(p.status) : At(StatusAt(o) + j - 1) = p.status[j]
        /\ Bytes(StatusAt(o), Len(p.status)) = p.status
    BY <1>1, <1>5, BytesRead
  <2>2. Len(p.status) = 12
    BY <1>1
  <2>. QED
    BY <2>1, <2>2, Zenon
<1>9. At(StatusAt(o) + 8) = p.status[9] /\ At(StatusAt(o) + 9) = p.status[10]
  <2>1. At(StatusAt(o) + 9 - 1) = p.status[9] /\ At(StatusAt(o) + 10 - 1) = p.status[10]
    BY <1>8
  <2>2. StatusAt(o) + 9 - 1 = StatusAt(o) + 8 /\ StatusAt(o) + 10 - 1 = StatusAt(o) + 9
    BY <1>5
  <2>. QED
    BY <2>1, <2>2
<1>10. Balancing(At(StatusAt(o) + 8), At(StatusAt(o) + 9), At(o))
         = {i \in DOMAIN p.cells : i \in p.balancing}
  <2>1. p.status[9] \in Byte /\ p.status[10] \in Byte
    BY <1>1
  <2>2. Balancing(p.status[9], p.status[10], Len(p.cells))
          = {i \in 1 .. Len(p.cells) : i \in p.balancing}
    <3>1. p.balancing = Masked(p.status[9], p.status[10])
      BY StatusPackFacts DEF Masked
    <3>2. Len(p.cells) \in 1 .. 32
      BY <1>1
    <3>3. Balancing(p.status[9], p.status[10], Len(p.cells))
            = {i \in 1 .. Len(p.cells) : i \in Masked(p.status[9], p.status[10])}
      BY <2>1, <3>2, MaskRead
    <3>. QED
      BY <3>1, <3>3, Zenon
  <2>3. DOMAIN p.cells = 1 .. Len(p.cells)
    BY <1>1
  <2>. QED
    BY <1>5, <1>9, <2>2, <2>3, Zenon
<1>11. StatusFits(o)
  <2>1. StatusAt(o) + 12 <= Len(info)
    BY <1>2, <1>5 DEF Stands
  <2>. QED
    BY <1>5, <2>1 DEF StatusFits
<1>. QED
  BY <1>5, <1>6, <1>7, <1>8, <1>10, <1>11, Zenon DEF StatusReadAt, t

-----------------------------------------------------------------------------

(* An answer to the question that was asked, in a layout that is cut right *)
Fitting ==
  /\ kind = sent.what
  /\ sent.what = "analog" => sent.layout = "v2" \/ Len(sent.packs) = 1

(* As much of the answer as is written stands in the info, pack by pack.   *)
Written ==
  /\ sent \in Answer
  /\ Len(cuts) \in 1 .. Len(sent.packs) + 1
  /\ cuts \in Seq(Nat)
  /\ info \in Seq(Byte)
  /\ cuts[1] = 2 /\ cuts[Len(cuts)] = Len(info)
  /\ Len(info) >= 2 /\ Count = Len(sent.packs)
  /\ \A k \in 1 .. Len(cuts) - 1 :
       Stands(Block(k), cuts[k]) /\ cuts[k + 1] = cuts[k] + Len(Block(k))
  /\ Len(cuts) <= Len(sent.packs) => offset = 0 /\ result = "reading"

(* The reader of such an answer stands where its next pack begins, and has *)
(* read the packs before as they were sent.                                *)
InOrder ==
  Fitting =>
    /\ result # "error"
    /\ \A j \in 1 .. Len(packs) : packs[j] = Expected(j)
    /\ offset > 0 /\ index < Count => offset = cuts[index + 1]

(* The reader of readings does not get past the first pack of a status.    *)
Refused ==
  kind = "analog" /\ sent.what = "warning" =>
    index = 0 /\ result # "ok" /\ offset \in {0, 2}

(* An answer has between one and 255 packs, all of one kind.               *)
LEMMA AnswerFacts ==
  ASSUME sent \in Answer
  PROVE  /\ Len(sent.packs) \in 1 .. 255
         /\ \/ /\ sent.what = "analog"
               /\ sent.layout \in {"v2", "flagged", "documented", "bare"}
               /\ \A k \in 1 .. Len(sent.packs) : sent.packs[k] \in AnalogPack
            \/ /\ sent.what = "warning"
               /\ sent.layout \in {"bare", "reserved"}
               /\ \A k \in 1 .. Len(sent.packs) : sent.packs[k] \in StatusPack
<1>0. MaxPacks \in 0 .. 255
  BY PacksAssumption DEF Byte
<1>1. ASSUME NEW P, sent.packs \in UNION {[1 .. n -> P] : n \in 1 .. MaxPacks}
      PROVE  /\ Len(sent.packs) \in 1 .. 255
             /\ \A k \in 1 .. Len(sent.packs) : sent.packs[k] \in P
  <2>1. PICK n \in 1 .. MaxPacks : sent.packs \in [1 .. n -> P]
    BY <1>1
  <2>2. n \in Nat /\ n \in 1 .. 255
    BY <1>0
  <2>3. Len(sent.packs) = n
    BY <2>1, <2>2
  <2>. QED
    BY <2>1, <2>2, <2>3
<1>2. CASE /\ sent.what = "analog"
           /\ sent.layout \in {"v2", "flagged", "documented", "bare"}
           /\ sent.packs \in UNION {[1 .. n -> AnalogPack] : n \in 1 .. MaxPacks}
  <2>1. /\ Len(sent.packs) \in 1 .. 255
        /\ \A k \in 1 .. Len(sent.packs) : sent.packs[k] \in AnalogPack
    BY <1>1, <1>2
  <2>. QED
    BY <1>2, <2>1
<1>3. CASE /\ sent.what = "warning"
           /\ sent.layout \in {"bare", "reserved"}
           /\ sent.packs \in UNION {[1 .. n -> StatusPack] : n \in 1 .. MaxPacks}
  <2>1. /\ Len(sent.packs) \in 1 .. 255
        /\ \A k \in 1 .. Len(sent.packs) : sent.packs[k] \in StatusPack
    BY <1>1, <1>3
  <2>. QED
    BY <1>3, <2>1
<1>. QED
  BY <1>2, <1>3 DEF Answer

(* What is written is made of bytes: the parts of a reading,               *)
LEMMA LaidBytes ==
  ASSUME NEW cells \in Seq(Short), NEW temps \in Seq(Short), NEW w \in Seq(Short),
         NEW v \in Seq(Short), NEW t \in Seq(Byte),
         Len(cells) \in Byte, Len(temps) \in Byte
  PROVE  Laid(cells, temps, w, v, t) \in Seq(Byte)
<1>. DEFINE c1 == <<Len(cells)>>
            c2 == Bigs(cells)
            c3 == <<Len(temps)>>
            c4 == Bigs(temps)
            c5 == Bigs(w)
            c6 == <<9>>
            c7 == Bigs(v)
<1>1. c1 \in Seq(Byte) /\ c3 \in Seq(Byte)
  OBVIOUS
<1>2. c6 \in Seq(Byte)
  BY DEF Byte
<1>3. c2 \in Seq(Byte) /\ c4 \in Seq(Byte) /\ c5 \in Seq(Byte) /\ c7 \in Seq(Byte)
  BY BigsFacts
<1>4. Laid(cells, temps, w, v, t) = c1 \o c2 \o c3 \o c4 \o c5 \o c6 \o c7 \o t
  BY DEF Laid
<1>. HIDE DEF c1, c2, c3, c4, c5, c6, c7
<1>5. c1 \o c2 \o c3 \o c4 \in Seq(Byte)
  BY <1>1, <1>3
<1>6. c1 \o c2 \o c3 \o c4 \o c5 \o c6 \in Seq(Byte)
  BY <1>2, <1>3, <1>5
<1>7. c1 \o c2 \o c3 \o c4 \o c5 \o c6 \o c7 \o t \in Seq(Byte)
  BY <1>3, <1>6
<1>. QED
  BY <1>4, <1>7

(* a reading,                                                              *)
LEMMA AnalogBytes ==
  ASSUME NEW p \in AnalogPack, NEW layout \in {"v2", "flagged", "documented", "bare"}
  PROVE  AnalogBlock(layout, p) \in Seq(Byte)
<1>. DEFINE w == <<p.current % 65536, p.voltage, p.capacity[1]>>
            v == <<p.capacity[2], p.cycles, p.design>>
            t == Trailer(layout, p)
<1>1. p.cells \in Seq(Short) /\ p.temps \in Seq(Short)
  BY AnalogPackFacts, Voltages
<1>2. p.capacity[1] \in Short /\ p.capacity[2] \in Short
  <2>1. p.capacity \in Short \X Short
    BY AnalogPackFacts
  <2>. QED
    BY <2>1
<1>3. w \in Seq(Short)
  <2>1. p.current \in Int /\ p.current + 32768 \in Short /\ p.voltage \in Short
    BY AnalogPackFacts
  <2>2. p.current % 65536 \in Short
    BY <2>1, SignedRead
  <2>. QED
    BY <1>2, <2>1, <2>2
<1>4. v \in Seq(Short)
  <2>1. p.cycles \in Short /\ p.design \in Short
    BY AnalogPackFacts
  <2>. QED
    BY <1>2, <2>1
<1>5. t \in Seq(Byte)
  BY TrailerFacts
<1>6. AnalogBlock(layout, p) = Laid(p.cells, p.temps, w, v, t)
  BY DEF AnalogBlock, Laid
<1>7. Len(p.cells) \in Byte /\ Len(p.temps) \in Byte
  <2>1. Len(p.cells) \in 1 .. 32 /\ Len(p.temps) \in 1 .. 12
    BY AnalogPackFacts
  <2>. QED
    BY <2>1 DEF Byte
<1>. HIDE DEF w, v, t
<1>8. Laid(p.cells, p.temps, w, v, t) \in Seq(Byte)
  BY <1>1, <1>3, <1>4, <1>5, <1>7, LaidBytes
<1>. QED
  BY <1>6, <1>8, Zenon

(* a status,                                                               *)
LEMMA StatusBytes ==
  ASSUME NEW p \in StatusPack, NEW layout \in {"bare", "reserved"}
  PROVE  StatusBlock(layout, p) \in Seq(Byte)
<1>. DEFINE c1 == <<Len(p.cells)>>
            c2 == p.cells
            c3 == <<Len(p.temps)>>
            c4 == p.temps
            c5 == p.status
            t == Trailer(layout, p)
<1>1. t \in Seq(Byte)
  BY StatusTrailerBytes
<1>2. c2 \in Seq(Byte) /\ c4 \in Seq(Byte) /\ c5 \in Seq(Byte)
  BY StatusPackFacts
<1>3. Len(p.cells) \in Byte /\ Len(p.temps) \in Byte
  <2>1. Len(p.cells) \in 1 .. 32 /\ Len(p.temps) \in Byte
    BY StatusPackFacts
  <2>. QED
    BY <2>1 DEF Byte
<1>4. c1 \in Seq(Byte) /\ c3 \in Seq(Byte)
  BY <1>3
<1>5. StatusBlock(layout, p) = c1 \o c2 \o c3 \o c4 \o c5 \o t
  BY DEF StatusBlock
<1>. HIDE DEF c1, c2, c3, c4, c5, t
<1>6. c1 \o c2 \o c3 \in Seq(Byte)
  BY <1>2, <1>4
<1>7. c1 \o c2 \o c3 \o c4 \o c5 \o t \in Seq(Byte)
  BY <1>1, <1>2, <1>6
<1>. QED
  BY <1>5, <1>7

(* a pack of an answer.                                                    *)
LEMMA BlockBytes ==
  ASSUME sent \in Answer, NEW k \in 1 .. Len(sent.packs)
  PROVE  Block(k) \in Seq(Byte)
<1>1. CASE sent.what = "analog"
  <2>1. /\ sent.layout \in {"v2", "flagged", "documented", "bare"}
        /\ sent.packs[k] \in AnalogPack
    BY <1>1, AnswerFacts
  <2>2. AnalogBlock(sent.layout, sent.packs[k]) \in Seq(Byte)
    BY <2>1, AnalogBytes
  <2>. QED
    BY <1>1, <2>2 DEF Block
<1>2. CASE sent.what = "warning"
  <2>1. sent.layout \in {"bare", "reserved"} /\ sent.packs[k] \in StatusPack
    BY <1>2, AnswerFacts
  <2>2. StatusBlock(sent.layout, sent.packs[k]) \in Seq(Byte)
    BY <2>1, StatusBytes
  <2>. QED
    BY <1>2, <2>2 DEF Block
<1>. QED
  BY <1>1, <1>2, AnswerFacts

(* The address a pack gets is the one expected of it.                      *)
LEMMA Addresses ==
  ASSUME Count = Len(sent.packs), NEW STATE k, index + 1 = k
  PROVE  Address = IF Len(sent.packs) > 1 \/ asked = 255 THEN k ELSE asked
BY DEF Address

-----------------------------------------------------------------------------

(* What is known of an answer that is being written,                       *)
LEMMA WrittenFacts ==
  ASSUME Written
  PROVE  /\ sent \in Answer /\ Len(sent.packs) \in 1 .. 255 /\ Count = Len(sent.packs)
         /\ Len(cuts) \in 1 .. Len(sent.packs) + 1 /\ cuts \in Seq(Nat) /\ cuts[1] = 2
         /\ info \in Seq(Byte) /\ Len(info) \in Nat /\ Len(info) >= 2
         /\ cuts[Len(cuts)] = Len(info)
<1>1. /\ sent \in Answer /\ Count = Len(sent.packs)
      /\ Len(cuts) \in 1 .. Len(sent.packs) + 1 /\ cuts \in Seq(Nat) /\ cuts[1] = 2
      /\ info \in Seq(Byte) /\ Len(info) >= 2 /\ cuts[Len(cuts)] = Len(info)
  BY DEF Written
<1>2. Len(sent.packs) \in 1 .. 255
  BY <1>1, AnswerFacts
<1>3. Len(info) \in Nat
  BY <1>1
<1>. QED
  BY <1>1, <1>2, <1>3, Zenon

(* and of one that is complete.                                            *)
LEMMA AllWritten ==
  ASSUME Written, Len(cuts) > Len(sent.packs)
  PROVE  /\ Count \in 1 .. 255 /\ Len(cuts) = Count + 1 /\ cuts[Count + 1] = Len(info)
         /\ \A k \in 1 .. Count :
              /\ cuts[k] \in Nat /\ Stands(Block(k), cuts[k])
              /\ cuts[k + 1] = cuts[k] + Len(Block(k))
<1>1. /\ Len(sent.packs) \in 1 .. 255 /\ Count = Len(sent.packs)
      /\ Len(cuts) \in 1 .. Len(sent.packs) + 1 /\ cuts \in Seq(Nat)
      /\ cuts[Len(cuts)] = Len(info)
  BY WrittenFacts, Zenon
<1>2. Count \in 1 .. 255 /\ Len(cuts) = Count + 1
  BY <1>1
<1>3. ASSUME NEW k \in 1 .. Count
      PROVE  /\ cuts[k] \in Nat /\ Stands(Block(k), cuts[k])
             /\ cuts[k + 1] = cuts[k] + Len(Block(k))
  <2>1. k \in 1 .. Len(cuts) /\ k \in 1 .. Len(cuts) - 1
    BY <1>2
  <2>2. cuts[k] \in Nat
    BY <1>1, <2>1, ElementOfSeq
  <2>3. Stands(Block(k), cuts[k]) /\ cuts[k + 1] = cuts[k] + Len(Block(k))
    BY <2>1, Zenon DEF Written
  <2>. QED
    BY <2>2, <2>3
<1>4. cuts[Count + 1] = Len(info)
  BY <1>1, <1>2, Zenon
<1>. QED
  BY <1>2, <1>3, <1>4, Zenon

(* Its packs are read as they were sent, at the places where they begin:   *)
(* readings,                                                               *)
LEMMA ReadingWritten ==
  ASSUME Written, Len(cuts) > Len(sent.packs), sent.what = "analog",
         NEW STATE k, k \in 1 .. Count
  PROVE  /\ sent.packs[k] \in AnalogPack
         /\ sent.layout \in {"v2", "flagged", "documented", "bare"}
         /\ ReadingAt(sent.layout, sent.packs[k], cuts[k])
         /\ cuts[k] \in Nat
         /\ cuts[k + 1] = cuts[k] + Len(AnalogBlock(sent.layout, sent.packs[k]))
<1>1. /\ cuts[k] \in Nat /\ Stands(Block(k), cuts[k])
      /\ cuts[k + 1] = cuts[k] + Len(Block(k))
  BY AllWritten, Zenon
<1>2. Block(k) = AnalogBlock(sent.layout, sent.packs[k])
  BY Zenon DEF Block
<1>3. sent \in Answer /\ Count = Len(sent.packs) /\ info \in Seq(Byte)
  BY WrittenFacts, Zenon
<1>4. /\ sent.packs[k] \in AnalogPack
      /\ sent.layout \in {"v2", "flagged", "documented", "bare"}
  BY <1>3, AnswerFacts
<1>5. ReadingAt(sent.layout, sent.packs[k], cuts[k])
  BY <1>1, <1>2, <1>3, <1>4, AnalogRead
<1>. QED
  BY <1>1, <1>2, <1>4, <1>5, Zenon

(* and statuses.                                                           *)
LEMMA StatusWritten ==
  ASSUME Written, Len(cuts) > Len(sent.packs), sent.what = "warning",
         NEW STATE k, k \in 1 .. Count
  PROVE  /\ sent.packs[k] \in StatusPack /\ sent.layout \in {"bare", "reserved"}
         /\ StatusReadAt(sent.layout, sent.packs[k], cuts[k])
         /\ cuts[k] \in Nat
         /\ cuts[k + 1] = cuts[k] + Len(StatusBlock(sent.layout, sent.packs[k]))
<1>1. /\ cuts[k] \in Nat /\ Stands(Block(k), cuts[k])
      /\ cuts[k + 1] = cuts[k] + Len(Block(k))
  BY AllWritten, Zenon
<1>2. Block(k) = StatusBlock(sent.layout, sent.packs[k])
  <2>1. sent.what # "analog"
    OBVIOUS
  <2>. QED
    BY <2>1, Zenon DEF Block
<1>3. sent \in Answer /\ Count = Len(sent.packs) /\ info \in Seq(Byte)
  BY WrittenFacts, Zenon
<1>4. sent.packs[k] \in StatusPack /\ sent.layout \in {"bare", "reserved"}
  BY <1>3, AnswerFacts
<1>5. StatusReadAt(sent.layout, sent.packs[k], cuts[k])
  BY <1>1, <1>2, <1>3, <1>4, StatusRead
<1>. QED
  BY <1>1, <1>2, <1>4, <1>5, Zenon

-----------------------------------------------------------------------------

(* At the beginning of a reading, it is read and the next one is found:    *)
(* behind the long tail there is nothing, or a count of cells.             *)
LEMMA AnalogStep ==
  ASSUME Written, Len(cuts) > Len(sent.packs), sent.what = "analog",
         sent.layout = "v2" \/ Len(sent.packs) = 1,
         index \in Nat, index < Count, offset = cuts[index + 1]
  PROVE  /\ AnalogFits(offset)
         /\ Reading(offset) = Expected(index + 1)
         /\ index + 1 < Count => AnalogEnd(offset) = cuts[index + 2]
<1>. DEFINE o == offset
            k == index + 1
            p == sent.packs[k]
            t == FullEnd(offset) + 4
            trail == Trailer(sent.layout, p)
<1>1. /\ Count = Len(sent.packs) /\ Count \in 1 .. 255 /\ k \in 1 .. Count
      /\ Len(cuts) = Count + 1
  <2>1. Count = Len(sent.packs) /\ Count \in 1 .. 255 /\ Len(cuts) = Count + 1
    BY WrittenFacts, AllWritten, Zenon
  <2>. QED
    BY <2>1
<1>2. /\ p \in AnalogPack /\ sent.layout \in {"v2", "flagged", "documented", "bare"}
      /\ ReadingAt(sent.layout, p, o) /\ o \in Nat
      /\ cuts[k + 1] = o + Len(AnalogBlock(sent.layout, p))
  BY <1>1, ReadingWritten, Zenon
<1>3. info \in Seq(Byte) /\ Len(info) \in Nat
  BY WrittenFacts, Zenon
<1>4. /\ AnalogFits(o)
      /\ Words(o + 1, At(o)) = p.cells
      /\ Words(TempsAt(o) + 1, At(TempsAt(o))) = p.temps
      /\ Signed(Word(CurrentAt(o))) = p.current
      /\ Word(CurrentAt(o) + 2) = p.voltage
      /\ <<Word(CurrentAt(o) + 4), Word(CurrentAt(o) + 7)>> = p.capacity
      /\ IfThere(FullEnd(o)) = p.cycles /\ IfThere(FullEnd(o) + 2) = p.design
      /\ At(o) = Len(p.cells)
  BY <1>2, Zenon DEF ReadingAt
<1>5. /\ Stands(trail, t) /\ FullEnd(o) \in Nat
      /\ t + Len(trail) = o + Len(AnalogBlock(sent.layout, p))
  BY <1>2, Zenon DEF ReadingAt
<1>6. /\ trail \in Seq(Byte)
      /\ sent.layout = "v2" => Len(trail) = 14 /\ trail[1] = p.soc /\ trail[10] = p.soh
      /\ sent.layout # "v2" => Len(trail) <= 2
  BY <1>2, TrailerFacts
<1>7. t + Len(trail) = cuts[k + 1] /\ t + Len(trail) <= Len(info) /\ t \in Nat
  BY <1>2, <1>5 DEF Stands
<1>8. TailAt(o) = t
  <2>1. FullEnd(o) + 4 <= Len(info)
    BY <1>3, <1>5, <1>6, <1>7
  <2>. QED
    BY <2>1 DEF TailAt
<1>9. index + 1 = Count => cuts[k + 1] = Len(info)
  BY <1>1, AllWritten
<1>10. ASSUME index + 1 < Count
       PROVE  /\ cuts[k + 1] \in Nat /\ cuts[k + 1] < Len(info)
              /\ PlausibleCellCount(At(cuts[k + 1]))
  <2>1. k + 1 \in 1 .. Count
    BY <1>1, <1>10
  <2>2. cuts[k + 1] \in Nat /\ ReadingAt(sent.layout, sent.packs[k + 1], cuts[k + 1])
    BY <2>1, ReadingWritten, Zenon
  <2>3. AnalogFits(cuts[k + 1])
    BY <2>2, Zenon DEF ReadingAt
  <2>. QED
    BY <2>2, <2>3 DEF AnalogFits
<1>11. CASE sent.layout = "v2"
  <2>1. t + 14 = cuts[k + 1] /\ t + 14 <= Len(info)
    BY <1>6, <1>7, <1>11
  <2>2. HasV2Tail(t)
    <3>1. CASE index + 1 = Count
      BY <2>1, <3>1 DEF HasV2Tail
    <3>2. CASE index + 1 < Count
      BY <1>10, <2>1, <3>2 DEF HasV2Tail
    <3>. QED
      BY <1>1, <3>1, <3>2
  <2>3. At(t) = p.soc /\ At(t + 9) = p.soh
    <3>. HIDE DEF t, trail
    <3>1. \A j \in 1 .. Len(trail) : At(t + j - 1) = trail[j]
      BY <1>3, <1>5, <1>6, <1>7, BytesRead
    <3>2. Len(trail) = 14 /\ trail[1] = p.soc /\ trail[10] = p.soh
      BY <1>6, <1>11
    <3>3. At(t + 1 - 1) = trail[1] /\ At(t + 10 - 1) = trail[10]
      BY <3>1, <3>2
    <3>4. t + 1 - 1 = t /\ t + 10 - 1 = t + 9
      BY <1>7
    <3>. QED
      BY <3>2, <3>3, <3>4
  <2>4. Reading(o).charge = <<p.soc, p.soh>>
    BY <1>8, <2>2, <2>3 DEF Reading
  <2>5. AnalogEnd(o) = cuts[k + 1]
    BY <1>8, <2>1, <2>2 DEF AnalogEnd
  <2>6. Reading(o) = Expected(k)
    BY <1>1, <1>4, <1>11, <2>4, Addresses DEF Reading, Expected, ChargeRead
  <2>7. k + 1 = index + 2
    OBVIOUS
  <2>. QED
    BY <1>4, <2>5, <2>6, <2>7
<1>12. CASE sent.layout # "v2"
  <2>1. Count = 1 /\ index + 1 = Count
    <3>1. Len(sent.packs) = 1
      BY <1>12
    <3>2. Count = 1
      BY <1>1, <3>1
    <3>. QED
      BY <3>2
  <2>2. t + Len(trail) = Len(info) /\ Len(trail) <= 2
    BY <1>6, <1>7, <1>9, <1>12, <2>1
  <2>3. ~ HasV2Tail(t)
    BY <1>3, <1>6, <1>7, <2>2 DEF HasV2Tail
  <2>4. Reading(o).charge = <<>>
    BY <1>8, <2>3 DEF Reading
  <2>. QED
    BY <1>1, <1>4, <1>12, <2>1, <2>4, Addresses DEF Reading, Expected, ChargeRead
<1>. QED
  BY <1>11, <1>12

(* At the beginning of a status, it is read and the next one is found: a   *)
(* reserved byte is no count of cells.                                     *)
LEMMA StatusStep ==
  ASSUME Written, Len(cuts) > Len(sent.packs), sent.what = "warning",
         index \in Nat, index < Count, offset = cuts[index + 1]
  PROVE  /\ StatusFits(offset)
         /\ Status(offset) = Expected(index + 1)
         /\ index + 1 < Count => StatusEnd(offset) = cuts[index + 2]
<1>. DEFINE o == offset
            k == index + 1
            p == sent.packs[k]
            e == StatusAt(offset) + 12
            trail == Trailer(sent.layout, p)
<1>1. /\ Count = Len(sent.packs) /\ Count \in 1 .. 255 /\ k \in 1 .. Count
      /\ Len(cuts) = Count + 1
  <2>1. Count = Len(sent.packs) /\ Count \in 1 .. 255 /\ Len(cuts) = Count + 1
    BY WrittenFacts, AllWritten, Zenon
  <2>. QED
    BY <2>1
<1>2. /\ p \in StatusPack /\ sent.layout \in {"bare", "reserved"}
      /\ StatusReadAt(sent.layout, p, o)
      /\ cuts[k + 1] = o + Len(StatusBlock(sent.layout, p))
  BY <1>1, StatusWritten, Zenon
<1>3. info \in Seq(Byte) /\ Len(info) \in Nat
  BY WrittenFacts, Zenon
<1>4. /\ StatusFits(o)
      /\ Bytes(o + 1, At(o)) = p.cells
      /\ Bytes(LevelsAt(o) + 1, At(LevelsAt(o))) = p.temps
      /\ Bytes(StatusAt(o), 12) = p.status
      /\ Balancing(At(StatusAt(o) + 8), At(StatusAt(o) + 9), At(o))
           = {i \in DOMAIN p.cells : i \in p.balancing}
  BY <1>2, Zenon DEF StatusReadAt
<1>5. /\ Stands(trail, e) /\ StatusAt(o) \in Nat
      /\ e + Len(trail) = o + Len(StatusBlock(sent.layout, p))
  BY <1>2, Zenon DEF StatusReadAt
<1>6. Status(o) = Expected(k)
  BY <1>1, <1>4, Addresses DEF Status, Expected
<1>7. ASSUME k < Count PROVE StatusEnd(o) = cuts[k + 1]
  <2>. DEFINE q == sent.packs[k + 1]
              f == cuts[k + 1]
  <2>1. k + 1 \in 1 .. Count
    BY <1>1, <1>7
  <2>2. q \in StatusPack /\ f \in Nat /\ StatusReadAt(sent.layout, q, f)
    BY <2>1, StatusWritten, Zenon
  <2>3. StatusFits(f) /\ At(f) = Len(q.cells)
    BY <2>2, Zenon DEF StatusReadAt
  <2>6. PlausibleCellCount(At(f)) /\ f < Len(info)
    <3>1. Len(q.cells) \in 1 .. 32
      BY <2>2, StatusPackFacts
    <3>. QED
      BY <2>3, <3>1 DEF PlausibleCellCount, StatusFits
  <2>7. e \in Nat /\ f = e + Len(trail)
    BY <1>2, <1>5
  <2>8. CASE sent.layout = "bare"
    <3>1. trail = <<>>
      BY <2>8, StatusTrailer
    <3>2. f = e
      BY <2>7, <3>1
    <3>. QED
      BY <1>1, <1>7, <2>6, <3>2 DEF StatusEnd
  <2>9. CASE sent.layout = "reserved"
    <3>1. trail = <<0>>
      BY <2>9, StatusTrailer
    <3>2. f = e + 1
      BY <2>7, <3>1
    <3>3. At(e) = 0 /\ e < Len(info)
      <4>1. 0 \in Byte /\ Stands(<<0>>, e)
        BY <1>5, <3>1 DEF Byte
      <4>. QED
        BY <2>7, <4>1, ByteRead
    <3>4. ~ PlausibleCellCount(At(e))
      <4>1. ~ PlausibleCellCount(0)
        BY DEF PlausibleCellCount
      <4>. QED
        BY <3>3, <4>1
    <3>. QED
      BY <3>2, <3>3, <3>4 DEF StatusEnd
  <2>. QED
    BY <1>2, <2>8, <2>9
<1>8. k + 1 = index + 2
  OBVIOUS
<1>. QED
  BY <1>4, <1>6, <1>7, <1>8

-----------------------------------------------------------------------------

(* The inductive invariant                                                 *)
AnswerInv ==
  /\ FramesInv
  /\ Written
  /\ InOrder
  /\ Refused

(* What a plausible voltage is                                             *)
LEMMA Plausible ==
  ASSUME NEW w \in Int
  PROVE  PlausibleMillivolts(w) => 2000 <= w /\ w <= 4500
BY DEF PlausibleMillivolts

(* The levels of the first two cells of a status are no voltage.           *)
LEMMA StatusDoesNotFit ==
  ASSUME Written, sent.what = "warning", Len(cuts) > Len(sent.packs), offset = 2
  PROVE  ~ AnalogFits(offset)
<1>. DEFINE p == sent.packs[1]
<1>1. info \in Seq(Byte) /\ cuts[1] = 2 /\ 1 \in 1 .. Count
  <2>1. info \in Seq(Byte) /\ cuts[1] = 2 /\ Count \in 1 .. 255
    BY WrittenFacts, AllWritten, Zenon
  <2>. QED
    BY <2>1
<1>2. p \in StatusPack /\ StatusReadAt(sent.layout, p, 2)
  BY <1>1, StatusWritten, Zenon
<1>3. At(2) = Len(p.cells) /\ Bytes(2 + 1, At(2)) = p.cells /\ StatusFits(2)
  BY <1>2, Zenon DEF StatusReadAt
<1>4. Len(p.cells) \in 1 .. 32 /\ p.cells[1] \in Level
  BY <1>2, StatusPackFacts
<1>5. At(3) = p.cells[1]
  <2>1. Bytes(3, At(2)) = [k \in 1 .. At(2) |-> At(3 + k - 1)]
    BY DEF Bytes
  <2>2. 1 \in 1 .. At(2)
    BY <1>3, <1>4
  <2>3. Bytes(3, At(2))[1] = At(3 + 1 - 1)
    BY <2>1, <2>2
  <2>. QED
    BY <1>3, <2>3
<1>6. At(4) \in 0 .. 255
  <2>1. 4 < Len(info)
    <3>1. StatusAt(2) + 12 <= Len(info) /\ LevelsAt(2) < Len(info)
      BY <1>3 DEF StatusFits
    <3>2. LevelsAt(2) \in Nat /\ LevelsAt(2) >= 4
      BY <1>3, <1>4 DEF LevelsAt
    <3>3. At(LevelsAt(2)) \in Nat
      BY <1>1, <3>1, <3>2, AtNat
    <3>4. StatusAt(2) >= 5 /\ StatusAt(2) \in Nat
      BY <3>2, <3>3 DEF StatusAt
    <3>. QED
      BY <1>1, <3>1, <3>4
  <2>2. 5 \in 1 .. Len(info)
    BY <1>1, <2>1
  <2>3. info[5] \in Byte
    BY <1>1, <2>2
  <2>. QED
    BY <2>3 DEF At, Byte
<1>7. Word(3) = 256 * p.cells[1] + At(4)
  BY <1>5 DEF Word
<1>8. ~ PlausibleMillivolts(Word(3))
  <2>1. PICK l \in Level, b \in 0 .. 255 : Word(3) = 256 * l + b
    BY <1>4, <1>6, <1>7
  <2>2. l \in 0 .. 2 \/ l \in 128 .. 240
    BY DEF Level
  <2>3. CASE l \in 0 .. 2
    <3>1. 256 * l + b <= 767 /\ 256 * l + b \in Int
      BY <2>3
    <3>2. ~ PlausibleMillivolts(256 * l + b)
      BY <3>1, Plausible
    <3>. QED
      BY <2>1, <3>2
  <2>4. CASE l \in 128 .. 240
    <3>1. 256 * l + b >= 32768 /\ 256 * l + b \in Int
      BY <2>4
    <3>2. ~ PlausibleMillivolts(256 * l + b)
      BY <3>1, Plausible
    <3>. QED
      BY <2>1, <3>2
  <2>. QED
    BY <2>2, <2>3, <2>4
<1>. SUFFICES ASSUME AnalogFits(2) PROVE FALSE
  OBVIOUS
<1>9. \A k \in 1 .. At(2) : PlausibleMillivolts(Word(2 + 2 * k - 1))
  BY DEF AnalogFits
<1>10. 1 \in 1 .. At(2) /\ 2 + 2 * 1 - 1 = 3
  BY <1>3, <1>4
<1>11. PlausibleMillivolts(Word(2 + 2 * 1 - 1))
  BY <1>9, <1>10
<1>. QED
  BY <1>8, <1>10, <1>11

(* The invariant holds of an answer whose packs are yet to be written,     *)
LEMMA AnswerInitial == AnswerInit => AnswerInv
<1>. SUFFICES ASSUME AnswerInit PROVE AnswerInv
  OBVIOUS
<1>1. FramesInit /\ sent \in Answer /\ info = <<0, Len(sent.packs)>> /\ cuts = <<2>>
  BY DEF AnswerInit
<1>2. Len(sent.packs) \in 1 .. 255
  BY <1>1, AnswerFacts
<1>3. FramesInv
  BY <1>1, FramesInitial
<1>4. Len(info) = 2 /\ Count = Len(sent.packs)
  BY <1>1 DEF Count, At
<1>5. Len(cuts) = 1 /\ cuts \in Seq(Nat) /\ cuts[1] = 2
  BY <1>1
<1>6. offset = 0 /\ index = 0 /\ packs = <<>> /\ result = "reading" /\ info \in Seq(Byte)
  BY <1>1 DEF FramesInit
<1>7. Written
  BY <1>1, <1>2, <1>4, <1>5, <1>6 DEF Written
<1>8. InOrder /\ Refused
  BY <1>6 DEF InOrder, Refused
<1>. QED
  BY <1>3, <1>7, <1>8 DEF AnswerInv

(* when a pack is written,                                                 *)
LEMMA WriteStep == AnswerInv /\ Write => AnswerInv'
<1>. SUFFICES ASSUME AnswerInv, Write PROVE AnswerInv'
  OBVIOUS
<1>. DEFINE n == Len(cuts)
            b == Block(n)
<1>1. FramesInv /\ Written /\ InOrder /\ Refused
  BY DEF AnswerInv
<1>2. /\ n <= Len(sent.packs) /\ info' = info \o b /\ cuts' = Append(cuts, Len(info'))
      /\ UNCHANGED <<kind, asked, offset, index, packs, result, sent>>
  BY DEF Write
<1>3. n \in 1 .. Len(sent.packs) /\ n \in Nat /\ Len(sent.packs) \in Nat
  <2>1. Len(sent.packs) \in 1 .. 255 /\ n \in 1 .. Len(sent.packs) + 1
    BY <1>1, WrittenFacts, Zenon
  <2>. QED
    BY <1>2, <2>1
<1>4. b \in Seq(Byte)
  BY <1>1, <1>3, WrittenFacts, BlockBytes, Zenon
<1>5. info \in Seq(Byte) /\ Len(info) \in Nat /\ Len(info) >= 2 /\ cuts[n] = Len(info)
  BY <1>1, WrittenFacts, Zenon
<1>. HIDE DEF b
<1>6. /\ info' \in Seq(Byte) /\ Len(info') = Len(info) + Len(b) /\ Len(b) \in Nat
      /\ \A i \in 1 .. Len(info) : info'[i] = info[i]
      /\ \A i \in 1 .. Len(b) : info'[Len(info) + i] = b[i]
  BY <1>2, <1>4, <1>5
<1>7. /\ cuts' \in Seq(Nat) /\ Len(cuts') = n + 1 /\ cuts'[n + 1] = Len(info')
      /\ \A k \in 1 .. n : cuts'[k] = cuts[k]
  <2>1. cuts \in Seq(Nat) /\ Len(info') \in Nat
    BY <1>1, <1>5, <1>6 DEF Written
  <2>. QED
    BY <1>2, <2>1, AppendProperties
<1>8. Count' = Count /\ Count \in Nat
  <2>1. info'[2] = info[2] /\ Count = Len(sent.packs)
    BY <1>1, <1>5, <1>6 DEF Written
  <2>. QED
    BY <1>3, <2>1 DEF Count, At
<1>9. ASSUME NEW k \in 1 .. n
      PROVE  Stands(Block(k), cuts[k])' /\ cuts'[k + 1] = cuts'[k] + Len(Block(k)')
  <2>1. Block(k)' = Block(k)
    BY <1>2 DEF Block
  <2>2. CASE k = n
    <3>1. Len(info) + Len(b) <= Len(info')
      BY <1>5, <1>6
    <3>2. cuts'[k] = Len(info) /\ cuts'[k + 1] = Len(info') /\ Block(k)' = b
      BY <1>5, <1>7, <2>1, <2>2 DEF b
    <3>. QED
      BY <1>6, <3>1, <3>2 DEF Stands
  <2>3. CASE k < n
    <3>. DEFINE s == Block(k)
                o == cuts[k]
    <3>1. k \in 1 .. n - 1 /\ k + 1 \in 1 .. n /\ k \in 1 .. Len(sent.packs)
      BY <1>3, <2>3
    <3>2. Stands(s, o) /\ cuts[k + 1] = o + Len(s)
      BY <1>1, <3>1 DEF Written
    <3>3. s \in Seq(Byte) /\ o \in Nat
      <4>1. cuts \in Seq(Nat)
        BY <1>1 DEF Written
      <4>2. s \in Seq(Byte)
        BY <1>1, <3>1, WrittenFacts, BlockBytes, Zenon
      <4>. QED
        BY <3>1, <4>1, <4>2, ElementOfSeq
    <3>. HIDE DEF s, o
    <3>4. o + Len(s) <= Len(info) /\ \A i \in 1 .. Len(s) : info[o + i] = s[i]
      BY <3>2 DEF Stands
    <3>5. o + Len(s) <= Len(info')
      BY <1>5, <1>6, <3>3, <3>4
    <3>6. ASSUME NEW i \in 1 .. Len(s) PROVE info'[o + i] = s[i]
      <4>1. o + i \in 1 .. Len(info)
        BY <1>5, <3>3, <3>4
      <4>. QED
        BY <1>6, <3>4, <4>1
    <3>7. cuts'[k] = o /\ cuts'[k + 1] = cuts[k + 1] /\ Block(k)' = s
      BY <1>7, <2>1, <3>1 DEF o, s
    <3>. QED
      BY <3>2, <3>5, <3>6, <3>7 DEF Stands
  <2>. QED
    BY <1>3, <2>2, <2>3
<1>10. Written'
  <2>1. offset = 0 /\ result = "reading"
    BY <1>1, <1>2 DEF Written
  <2>2. sent' \in Answer /\ Count' = Len(sent'.packs)
    BY <1>1, <1>2, <1>8 DEF Written
  <2>3. /\ cuts'[1] = 2 /\ cuts'[Len(cuts')] = Len(info')
        /\ Len(cuts') \in 1 .. Len(sent'.packs) + 1
    BY <1>1, <1>2, <1>3, <1>7 DEF Written
  <2>4. \A k \in 1 .. Len(cuts') - 1 :
          Stands(Block(k), cuts[k])' /\ cuts'[k + 1] = cuts'[k] + Len(Block(k)')
    BY <1>3, <1>7, <1>9
  <2>5. offset' = 0 /\ result' = "reading" /\ Len(info') >= 2
    BY <1>2, <1>5, <1>6, <2>1
  <2>. QED
    BY <1>6, <1>7, <2>2, <2>3, <2>4, <2>5 DEF Written
<1>11. FramesInv'
  <2>1. Addressed'
    BY <1>1, <1>2, <1>8 DEF FramesInv, Addressed, AddressOf, Elements
  <2>2. offset = 0 /\ result = "reading"
    BY <1>1, <1>2 DEF Written
  <2>3. FramesTypeOK'
    BY <1>1, <1>2, <1>6, <1>8, <2>2 DEF FramesInv, FramesTypeOK
  <2>. QED
    BY <1>1, <1>2, <2>1, <2>2, <2>3 DEF FramesInv
<1>12. InOrder' /\ Refused'
  <2>1. offset' = 0 /\ result' = "reading" /\ index' = 0 /\ packs' = packs /\ Len(packs) = 0
    BY <1>1, <1>2 DEF Written, FramesInv, FramesTypeOK
  <2>. QED
    BY <2>1 DEF InOrder, Refused
<1>. QED
  BY <1>10, <1>11, <1>12 DEF AnswerInv

(* when one is read,                                                       *)
LEMMA ReadStep == AnswerInv /\ Read => AnswerInv'
<1>. SUFFICES ASSUME AnswerInv, Read PROVE AnswerInv'
  OBVIOUS
<1>1. FramesInv /\ Written /\ InOrder /\ Refused
  BY DEF AnswerInv
<1>2. Len(cuts) > Len(sent.packs) /\ FramesNext /\ UNCHANGED <<sent, cuts>>
  BY DEF Read
<1>3. FramesInv'
  BY <1>1, <1>2, FramesStep
<1>4. UNCHANGED <<kind, asked, info>>
  BY <1>2 DEF FramesNext, Header, BadHeader, ReadAnalog, ReadWarning, BadPack, Finish, Refuse
<1>5. /\ Count = Len(sent.packs) /\ Count \in 1 .. 255 /\ Count' = Count
      /\ Len(cuts) = Count + 1 /\ cuts[1] = 2
  <2>1. /\ Count = Len(sent.packs) /\ Count \in 1 .. 255
        /\ Len(cuts) = Count + 1 /\ cuts[1] = 2
    BY <1>1, <1>2, WrittenFacts, AllWritten, Zenon
  <2>2. Count' = Count
    BY <1>4 DEF Count, At
  <2>. QED
    BY <2>1, <2>2
<1>6. Count # 0
  <2>1. \A x \in 1 .. 255 : x # 0
    OBVIOUS
  <2>2. Count \in 1 .. 255
    BY <1>5
  <2>. QED
    BY <2>1, <2>2, Zenon
<1>7. \A k : Block(k)' = Block(k) /\ Expected(k)' = Expected(k)
  BY <1>2, <1>4 DEF Block, Expected, ChargeRead
<1>8. Written'
  <2>1. \A k \in 1 .. Len(cuts) - 1 :
          Stands(Block(k), cuts[k])' /\ cuts'[k + 1] = cuts'[k] + Len(Block(k)')
    BY <1>1, <1>2, <1>4, <1>7 DEF Written, Stands
  <2>2. ~ (Len(cuts) <= Len(sent.packs))
    BY <1>2, <1>5
  <2>. QED
    BY <1>1, <1>2, <1>4, <1>5, <2>1, <2>2 DEF Written
<1>9. Fitting' <=> Fitting
  BY <1>2, <1>4 DEF Fitting
<1>10. index \in Nat /\ index' \in Nat
  BY <1>1, <1>3 DEF FramesInv, FramesTypeOK
<1>11. CASE Header
  <2>1. /\ offset' = 2 /\ offset = 0 /\ index' = 0 /\ index = 0
        /\ packs' = packs /\ result' = "reading"
    BY <1>1, <1>11 DEF Header, FramesInv
  <2>2. Len(packs) = 0
    BY <1>1, <1>11, <2>1 DEF Header, FramesInv, FramesTypeOK
  <2>3. InOrder'
    BY <1>2, <1>5, <2>1, <2>2 DEF InOrder
  <2>4. Refused'
    BY <2>1 DEF Refused
  <2>. QED
    BY <1>3, <1>8, <2>3, <2>4 DEF AnswerInv
<1>12. CASE BadHeader
  <2>1. Len(info) < 2 \/ Count = 0
    BY <1>12 DEF BadHeader
  <2>2. Len(info) >= 2 /\ info \in Seq(Byte)
    BY <1>1 DEF Written
  <2>3. ~ (Len(info) < 2)
    BY <2>2
  <2>. QED
    BY <1>6, <2>1, <2>3
<1>13. ASSUME NEW r, packs' = Append(packs, r), index' = index + 1, result' = result,
              result = "reading", index < Count,
              Fitting => r = Expected(index + 1)
                           /\ (index + 1 < Count => offset' = cuts[index + 2])
       PROVE  InOrder'
  <2>. SUFFICES ASSUME Fitting
                PROVE  /\ result' # "error"
                       /\ \A j \in 1 .. Len(packs') : packs'[j] = Expected(j)
                       /\ index' < Count => offset' = cuts[index' + 1]
    BY <1>2, <1>5, <1>7, <1>9 DEF InOrder
  <2>1. packs \in Seq(Elements(packs)) /\ Len(packs) = index
    BY <1>1, <1>13 DEF FramesInv, FramesTypeOK, Addressed
  <2>2. /\ Len(packs') = index + 1
        /\ \A j \in 1 .. index : packs'[j] = packs[j]
        /\ packs'[index + 1] = r
    BY <1>13, <2>1, Appended
  <2>3. ASSUME NEW j \in 1 .. Len(packs') PROVE packs'[j] = Expected(j)
    <3>1. j \in 1 .. index \/ j = index + 1
      BY <1>10, <2>2
    <3>2. CASE j \in 1 .. index
      BY <1>1, <2>1, <2>2, <3>2 DEF InOrder
    <3>3. CASE j = index + 1
      BY <1>13, <2>2, <3>3
    <3>. QED
      BY <3>1, <3>2, <3>3
  <2>4. index' < Count => offset' = cuts[index' + 1]
    BY <1>10, <1>13
  <2>. QED
    BY <1>13, <2>3, <2>4
<1>14. ASSUME Fitting, result = "reading", offset > 0, index < Count
       PROVE  /\ kind = "analog" => /\ AnalogFits(offset)
                                    /\ Reading(offset) = Expected(index + 1)
                                    /\ index + 1 < Count => AnalogEnd(offset) = cuts[index + 2]
              /\ kind = "warning" => /\ StatusFits(offset)
                                     /\ Status(offset) = Expected(index + 1)
                                     /\ index + 1 < Count => StatusEnd(offset) = cuts[index + 2]
  <2>1. offset = cuts[index + 1]
    BY <1>1, <1>14 DEF InOrder
  <2>2. CASE kind = "analog"
    <3>1. sent.what = "analog" /\ (sent.layout = "v2" \/ Len(sent.packs) = 1)
      BY <1>14, <2>2 DEF Fitting
    <3>. QED
      BY <1>1, <1>2, <1>10, <1>14, <2>1, <2>2, <3>1, AnalogStep
  <2>3. CASE kind = "warning"
    <3>1. sent.what = "warning"
      BY <1>14, <2>3 DEF Fitting
    <3>. QED
      BY <1>1, <1>2, <1>10, <1>14, <2>1, <2>3, <3>1, StatusStep
  <2>. QED
    BY <1>1, <2>2, <2>3 DEF FramesInv, FramesTypeOK
<1>15. CASE ReadAnalog
  <2>1. /\ kind = "analog" /\ result = "reading" /\ offset > 0 /\ index < Count
        /\ AnalogFits(offset) /\ packs' = Append(packs, Reading(offset))
        /\ offset' = AnalogEnd(offset) /\ index' = index + 1 /\ result' = result
    BY <1>15 DEF ReadAnalog
  <2>2. Fitting => Reading(offset) = Expected(index + 1)
                     /\ (index + 1 < Count => offset' = cuts[index + 2])
    BY <1>14, <2>1
  <2>3. InOrder'
    BY <1>13, <2>1, <2>2
  <2>4. ~ (kind = "analog" /\ sent.what = "warning")
    <3>. SUFFICES ASSUME sent.what = "warning" PROVE FALSE
      OBVIOUS
    <3>1. offset \in {0, 2}
      BY <1>1, <2>1 DEF Refused
    <3>2. offset = 2
      BY <2>1, <3>1
    <3>. QED
      BY <1>1, <1>2, <2>1, <3>2, StatusDoesNotFit
  <2>5. Refused'
    BY <1>2, <1>4, <2>4 DEF Refused
  <2>. QED
    BY <1>3, <1>8, <2>3, <2>5 DEF AnswerInv
<1>16. CASE ReadWarning
  <2>1. /\ kind = "warning" /\ result = "reading" /\ offset > 0 /\ index < Count
        /\ StatusFits(offset) /\ packs' = Append(packs, Status(offset))
        /\ offset' = StatusEnd(offset) /\ index' = index + 1 /\ result' = result
    BY <1>16 DEF ReadWarning
  <2>2. Fitting => Status(offset) = Expected(index + 1)
                     /\ (index + 1 < Count => offset' = cuts[index + 2])
    BY <1>14, <2>1
  <2>3. InOrder'
    BY <1>13, <2>1, <2>2
  <2>4. Refused'
    BY <1>4, <2>1 DEF Refused
  <2>. QED
    BY <1>3, <1>8, <2>3, <2>4 DEF AnswerInv
<1>17. CASE BadPack
  <2>1. /\ result = "reading" /\ offset > 0 /\ index < Count
        /\ IF kind = "analog" THEN ~ AnalogFits(offset) ELSE ~ StatusFits(offset)
        /\ result' = "error" /\ UNCHANGED <<offset, index>>
    BY <1>17 DEF BadPack, Refuse
  <2>2. kind \in {"analog", "warning"}
    BY <1>1 DEF FramesInv, FramesTypeOK
  <2>3. ~ Fitting
    BY <1>14, <2>1, <2>2
  <2>4. InOrder'
    BY <1>9, <2>3 DEF InOrder
  <2>5. Refused'
    BY <1>1, <1>2, <1>4, <2>1 DEF Refused
  <2>. QED
    BY <1>3, <1>8, <2>4, <2>5 DEF AnswerInv
<1>18. CASE Finish
  <2>1. /\ result = "reading" /\ index = Count /\ result' = "ok"
        /\ UNCHANGED <<offset, index, packs>>
    BY <1>18 DEF Finish
  <2>2. InOrder'
    BY <1>1, <1>2, <1>5, <1>7, <1>9, <2>1 DEF InOrder
  <2>3. ~ (kind = "analog" /\ sent.what = "warning")
    <3>1. index # 0
      BY <1>6, <2>1
    <3>. QED
      BY <1>1, <3>1 DEF Refused
  <2>4. Refused'
    BY <1>2, <1>4, <2>3 DEF Refused
  <2>. QED
    BY <1>3, <1>8, <2>2, <2>4 DEF AnswerInv
<1>. QED
  BY <1>2, <1>11, <1>12, <1>15, <1>16, <1>17, <1>18 DEF FramesNext

(* and so in every step.                                                   *)
LEMMA AnswerStep == AnswerInv /\ [AnswerNext]_answerVars => AnswerInv'
<1>1. AnswerInv /\ UNCHANGED answerVars => AnswerInv'
  <2>. SUFFICES ASSUME AnswerInv, UNCHANGED answerVars PROVE AnswerInv'
    OBVIOUS
  <2>1. UNCHANGED frameVars /\ UNCHANGED <<sent, cuts>>
    BY DEF answerVars
  <2>2. UNCHANGED <<kind, asked, info, offset, index, packs, result>>
    BY <2>1 DEF frameVars
  <2>3. FramesInv'
    BY <2>1, FramesStep DEF AnswerInv
  <2>4. Written'
    BY <2>1, <2>2 DEF AnswerInv, Written, Stands, Block, Count, At
  <2>5. InOrder'
    BY <2>1, <2>2 DEF AnswerInv, InOrder, Fitting, Expected, ChargeRead, Count, At
  <2>6. Refused'
    BY <2>1, <2>2 DEF AnswerInv, Refused
  <2>. QED
    BY <2>3, <2>4, <2>5, <2>6 DEF AnswerInv
<1>. QED
  BY <1>1, WriteStep, ReadStep DEF AnswerNext

LEMMA AnswerInvariant == AnswerSpec => []AnswerInv
BY AnswerInitial, AnswerStep, PTL DEF AnswerSpec

-----------------------------------------------------------------------------

(* Whatever the packs sent, as many as a byte counts, with any voltages,   *)
(* temperatures, currents, total voltages, capacities and cycles: what is  *)
(* read of them is what was sent, in the layouts ReadAsSent names; so is   *)
(* the charge of the long tail, while that of the documented layout is     *)
(* never read.                                                             *)
THEOREM AnswersReadAsSent == AnswerSpec => []ReadAsSent
<1>1. AnswerInv => ReadAsSent
  <2>. SUFFICES ASSUME AnswerInv, Done, Fitting PROVE AsSent
    BY DEF ReadAsSent, Fitting
  <2>1. FramesInv /\ Written /\ InOrder
    BY DEF AnswerInv
  <2>2. result = "ok"
    BY <2>1 DEF FramesInv, FramesTypeOK, InOrder, Done
  <2>3. Len(packs) = Len(sent.packs) /\ packs \in Seq(Elements(packs))
    BY <2>1, <2>2 DEF FramesInv, FramesTypeOK, Addressed, Written
  <2>4. \A j \in 1 .. Len(packs) : packs[j] = Expected(j)
    BY <2>1 DEF InOrder
  <2>5. packs = [k \in 1 .. Len(sent.packs) |-> Expected(k)]
    BY <2>3, <2>4
  <2>. QED
    BY <2>2, <2>5 DEF AsSent
<1>. QED
  BY <1>1, AnswerInvariant, PTL

(* Whatever the packs, their status is never read as a reading.            *)
THEOREM StatusesNeverRead == AnswerSpec => []StatusIsNoReading
<1>1. AnswerInv => StatusIsNoReading
  BY DEF AnswerInv, Refused, StatusIsNoReading
<1>. QED
  BY <1>1, AnswerInvariant, PTL

=============================================================================
