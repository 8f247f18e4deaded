------------------------- MODULE PackDiscovery_proof -------------------------
(***************************************************************************)
(* For every size of byte: discovery keeps its types; a window that stays  *)
(* inside the bytes is scanned in order, once, and never left; a window    *)
(* that wraps is not scanned at all.                                       *)
(***************************************************************************)
EXTENDS PackDiscovery, TLAPS

(* uint8 arithmetic on a sum of two bytes wraps at most once.              *)
LEMMA U8Facts ==
  ASSUME NEW n \in Nat, n <= 2 * UMax + 1
  PROVE  /\ U8(n) \in Byte
         /\ n <= UMax => U8(n) = n
         /\ n > UMax => U8(n) = n - (UMax + 1)
<1> DEFINE m == UMax + 1
<1>1. m \in Nat /\ m > 0 /\ n < 2 * m
  BY UMaxAssumption
<1> DEFINE q == n \div m
           r == n % m
<1>2. q \in Int /\ r \in 0 .. m - 1 /\ n = m * q + r
  <2> HIDE DEF m
  <2> QED BY <1>1
<1>3. q = 0 \/ q = 1
  <2> HIDE DEF m, q, r
  <2>1. q >= 0 
    <3>1. SUFFICES ASSUME q <= -1 PROVE FALSE
      BY <1>2
    <3>2. m * q <= -m
       BY <3>1, <1>1, <1>2
    <3> QED BY <1>1, <1>2, <3>2
  <2>2. q <= 1
    <3>1. SUFFICES ASSUME q >= 2 PROVE FALSE
      BY <1>2
    <3>2. m * q >= 2 * m
       BY <3>1, <1>1, <1>2
    <3> QED BY <1>1, <1>2, <3>2
  <2> QED BY <2>1, <2>2, <1>2
<1>4. n = r \/ n = m + r
  <2> HIDE DEF m, q, r
  <2> QED BY <1>1, <1>2, <1>3
<1> QED BY <1>1, <1>2, <1>4, UMaxAssumption DEF U8, Byte

(* The scan's loop variable stays a byte; where it does not wrap, its      *)
(* successor is the next integer.                                          *)
LEMMA NextByte ==
  ASSUME NEW n \in Byte
  PROVE  /\ U8(n + 1) \in Byte
         /\ n < UMax => U8(n + 1) = n + 1
<1>1. n + 1 \in Nat /\ n + 1 <= 2 * UMax + 1
  BY UMaxAssumption DEF Byte
<1> QED BY <1>1, U8Facts, UMaxAssumption DEF Byte

(* The end of the scan: the window's last address, or its wrapped sum.     *)
LEMMA ScanEndFacts ==
  ASSUME cfg \in DeviceConfig
  PROVE  /\ cfg.first \in Byte /\ cfg.maxPacks \in Byte \ {0}
         /\ ScanEnd \in Byte
         /\ WindowInside => ScanEnd = cfg.first + cfg.maxPacks - 1
         /\ WindowWraps => ScanEnd < cfg.first
<1>1. cfg.first \in Byte /\ cfg.maxPacks \in Byte \ {0}
  BY DEF DeviceConfig
<1> DEFINE n == cfg.first + cfg.maxPacks - 1
<1>2. n \in Nat /\ n <= 2 * UMax + 1
  BY <1>1, UMaxAssumption DEF Byte
<1>3. ScanEnd = U8(n)
  BY DEF ScanEnd
<1> HIDE DEF n
<1>4. /\ ScanEnd \in Byte
      /\ n <= UMax => ScanEnd = n
      /\ n > UMax => ScanEnd = n - (UMax + 1)
  BY <1>2, <1>3, U8Facts
<1> USE DEF n
<1> QED BY <1>1, <1>4, UMaxAssumption DEF Byte, WindowInside, WindowWraps

LEMMA PushFacts ==
  ASSUME NEW s \in Seq(Byte), NEW a \in Byte
  PROVE  /\ Push(s, a) \in Seq(Byte)
         /\ Push(s, a) = s \/ Push(s, a) = Append(s, a)
         /\ Push(s, a) # <<>>
BY MaxFoundAssumption DEF Push

-----------------------------------------------------------------------------
(* The bounds and the order of a list built by the scan: s holds addresses *)
(* from lo to below hi, each once, in rising order.                        *)
ScanList(s, lo, hi) ==
  /\ Len(s) <= hi - lo
  /\ StrictlyIncreasing(s)
  /\ \A i \in 1 .. Len(s) : s[i] \in lo .. hi - 1

(* The inductive form of PolledPacksAreConfigured: during the scan the     *)
(* cursor is the next address of the window and bounds what was found.     *)
WindowInv ==
  cfg.protocol = "rs485" /\ WindowInside =>
    /\ dpc # "fill"
    /\ dpc = "scan" => /\ cursor \in cfg.first .. ScanEnd + 1
                       /\ ScanList(found, cfg.first, cursor)
    /\ dpc = "found" => ScanList(found, cfg.first, cfg.first + cfg.maxPacks)
    /\ dpc = "set" => /\ Len(packs) # 0
                      /\ ScanList(packs, cfg.first, cfg.first + cfg.maxPacks)

(* The inductive form of WrappedWindowPollsFirst: the scan starts beyond   *)
(* its own end.                                                            *)
WrapInv ==
  cfg.protocol = "rs485" /\ WindowWraps =>
    /\ dpc # "fill"
    /\ found = <<>>
    /\ dpc = "scan" => cursor > ScanEnd
    /\ dpc = "set" => packs = <<cfg.first>>

LEMMA ScanListGrows ==
  ASSUME NEW s \in Seq(Byte), NEW lo \in Int,
         NEW hi \in Int, NEW hi2 \in Int, hi <= hi2, ScanList(s, lo, hi)
  PROVE  ScanList(s, lo, hi2)
<1>1. Len(s) \in Nat
  OBVIOUS
<1>2. Len(s) <= hi2 - lo /\ \A i \in 1 .. Len(s) : s[i] \in lo .. hi2 - 1
  BY <1>1 DEF ScanList
<1> QED BY <1>2 DEF ScanList

LEMMA ScanListPush ==
  ASSUME NEW s \in Seq(Byte), NEW lo \in Byte, NEW a \in Byte,
         lo <= a, ScanList(s, lo, a)
  PROVE  ScanList(Push(s, a), lo, a + 1)
<1>0. lo \in Int /\ a \in Int
  BY UMaxAssumption DEF Byte
<1>1. CASE Push(s, a) = s
  BY <1>0, <1>1, ScanListGrows
<1>2. CASE Push(s, a) = Append(s, a)
  <2> DEFINE t == Append(s, a)
  <2>1. /\ Len(t) = Len(s) + 1 /\ Len(s) \in Nat
        /\ \A i \in 1 .. Len(s) : t[i] = s[i]
        /\ t[Len(s) + 1] = a
    OBVIOUS
  <2> HIDE DEF t
  <2>2. Len(t) <= (a + 1) - lo
    BY <1>0, <2>1 DEF ScanList
  <2>3. \A i \in 1 .. Len(t) : t[i] \in lo .. (a + 1) - 1
    BY <1>0, <2>1 DEF ScanList
  <2>4. StrictlyIncreasing(t)
    <3> SUFFICES ASSUME NEW i \in 1 .. Len(t), NEW j \in 1 .. Len(t), i < j
                 PROVE  t[i] < t[j]
      BY DEF StrictlyIncreasing
    <3>1. i \in 1 .. Len(s) /\ t[i] = s[i] /\ s[i] \in lo .. a - 1
      BY <2>1 DEF ScanList
    <3>2. CASE j = Len(s) + 1
      BY <1>0, <2>1, <3>1, <3>2
    <3>3. CASE j \in 1 .. Len(s)
      BY <2>1, <3>1, <3>3 DEF ScanList, StrictlyIncreasing
    <3> QED BY <2>1, <3>2, <3>3
  <2> QED BY <1>2, <2>2, <2>3, <2>4 DEF t, ScanList
<1> QED BY <1>1, <1>2, PushFacts

(* Nothing in discovery touches the configuration it was given.            *)
LEMMA ConfigFixed == [DiscoveryNext]_discoveryVars => cfg' = cfg
BY DEF DiscoveryNext, DiscoveryStep, DiscoverRS232, AskConsole, ConsoleFails,
       FillConsole, StartScan, EndScan, ScanAnswered, ScanFails, AdoptPacks,
       Cancel, discoveryVars

-----------------------------------------------------------------------------
(* One step of discovery keeps the types, in whatever program it is taken. *)
LEMMA DiscoveryTypeStep ==
  DiscoveryTypeOK /\ [DiscoveryNext]_discoveryVars => DiscoveryTypeOK'
<1> SUFFICES ASSUME DiscoveryTypeOK, [DiscoveryNext]_discoveryVars
             PROVE  DiscoveryTypeOK'
  OBVIOUS
<1> USE DEF DiscoveryTypeOK
<1>1. CASE DiscoverRS232
  BY <1>1, UMaxAssumption DEF DiscoverRS232, Byte
<1>2. ASSUME NEW got \in Byte, AskConsole(got) PROVE DiscoveryTypeOK'
  BY <1>2, UMaxAssumption DEF AskConsole, Byte
<1>3. CASE ConsoleFails
  BY <1>3 DEF ConsoleFails
<1>4. CASE FillConsole
  BY <1>4, NextByte, PushFacts DEF FillConsole
<1>5. CASE StartScan
  BY <1>5 DEF StartScan, DeviceConfig
<1>6. CASE EndScan
  BY <1>6 DEF EndScan
<1>7. ASSUME NEW got \in Byte, ScanAnswered(got) PROVE DiscoveryTypeOK'
  BY <1>7, NextByte, PushFacts DEF ScanAnswered
<1>8. CASE ScanFails
  BY <1>8, NextByte DEF ScanFails
<1>9. CASE AdoptPacks
  BY <1>9 DEF AdoptPacks, DeviceConfig
<1>10. CASE Cancel
  BY <1>10 DEF Cancel
<1>11. CASE UNCHANGED discoveryVars
  BY <1>11 DEF discoveryVars
<1> QED BY <1>1, <1>2, <1>3, <1>4, <1>5, <1>6, <1>7, <1>8, <1>9, <1>10, <1>11
        DEF DiscoveryNext, DiscoveryStep

(* Every variable keeps its Go type, in every behaviour of discoverPacks.  *)
THEOREM DiscoveryTypeCorrect == DiscoverySpec => []DiscoveryTypeOK
<1>1. DiscoveryInit => DiscoveryTypeOK
  <2>1. 0 \in Byte /\ <<>> \in Seq(Byte)
    BY UMaxAssumption DEF Byte
  <2> QED BY <2>1 DEF DiscoveryInit, DiscoveryTypeOK
<1> QED BY <1>1, DiscoveryTypeStep, PTL DEF DiscoverySpec

(* One step of discovery follows its window.                               *)
LEMMA WindowStep ==
  DiscoveryTypeOK /\ WindowInv /\ [DiscoveryNext]_discoveryVars => WindowInv'
<1> SUFFICES ASSUME DiscoveryTypeOK, WindowInv, [DiscoveryNext]_discoveryVars,
                    (cfg.protocol = "rs485" /\ WindowInside)'
             PROVE  WindowInv'
  BY DEF WindowInv
<1> DEFINE lo == cfg.first
           hi == cfg.first + cfg.maxPacks
<1>1. cfg' = cfg /\ cfg.protocol = "rs485" /\ WindowInside
  BY ConfigFixed DEF WindowInside
<1>2. /\ lo \in Byte /\ lo \in Nat /\ hi \in Nat /\ lo < hi /\ hi - 1 < UMax
      /\ ScanEnd = hi - 1 /\ ScanEnd' = hi - 1
  BY <1>1, ScanEndFacts, UMaxAssumption
     DEF DiscoveryTypeOK, WindowInside, ScanEnd, Byte
<1>3. found \in Seq(Byte) /\ cursor \in Byte /\ cursor \in Nat
  BY UMaxAssumption DEF DiscoveryTypeOK, Byte
<1>4. dpc # "fill"
  BY <1>1 DEF WindowInv
<1>5. dpc = "scan" => cursor \in lo .. hi /\ ScanList(found, lo, cursor)
  BY <1>1, <1>2 DEF WindowInv
<1> SUFFICES
      /\ dpc' # "fill"
      /\ dpc' = "scan" => cursor' \in lo .. hi /\ ScanList(found', lo, cursor')
      /\ dpc' = "found" => ScanList(found', lo, hi)
      /\ dpc' = "set" => Len(packs') # 0 /\ ScanList(packs', lo, hi)
  BY <1>1, <1>2 DEF WindowInv
<1> HIDE DEF lo, hi
<1>6. CASE StartScan
  <2>1. cursor' = lo /\ found' = <<>> /\ dpc' = "scan"
    BY <1>6 DEF StartScan, lo
  <2>2. ScanList(<<>>, lo, lo)
    BY <1>2 DEF ScanList, StrictlyIncreasing
  <2> QED BY <1>2, <2>1, <2>2
<1>7. CASE EndScan
  <2>1. dpc = "scan" /\ dpc' = "found" /\ found' = found
    BY <1>7 DEF EndScan
  <2>2. ScanList(found, lo, hi)
    BY <1>2, <1>3, <1>5, <2>1, ScanListGrows
  <2> QED BY <2>1, <2>2
<1>8. ASSUME NEW got \in Byte, ScanAnswered(got)
      PROVE  dpc' = "scan" /\ cursor' \in lo .. hi /\ ScanList(found', lo, cursor')
  <2>1. dpc = "scan" /\ cursor \in lo .. hi - 1 /\ cursor < UMax
    BY <1>2, <1>3, <1>5, <1>8, UMaxAssumption DEF ScanAnswered
  <2>2. dpc' = "scan" /\ cursor' = cursor + 1
    BY <1>3, <1>8, <2>1, NextByte DEF ScanAnswered
  <2>3. found' = found \/ found' = Push(found, cursor)
    BY <1>8 DEF ScanAnswered
  <2>4. ScanList(found', lo, cursor + 1)
    BY <1>2, <1>3, <1>5, <2>1, <2>3, ScanListGrows, ScanListPush
  <2> QED BY <1>2, <2>1, <2>2, <2>4
<1>9. CASE ScanFails
  <2>1. dpc = "scan" /\ cursor \in lo .. hi - 1 /\ cursor < UMax
    BY <1>2, <1>3, <1>5, <1>9, UMaxAssumption DEF ScanFails
  <2>2. dpc' = "scan" /\ cursor' = cursor + 1 /\ found' = found
    BY <1>3, <1>9, <2>1, NextByte DEF ScanFails
  <2> QED BY <1>2, <1>3, <1>5, <2>1, <2>2, ScanListGrows
<1>10. CASE AdoptPacks
  <2>1. /\ dpc = "found" /\ dpc' = "set"
        /\ packs' = IF found # <<>> THEN found ELSE <<lo>>
    BY <1>10 DEF AdoptPacks, lo
  <2>2. ScanList(found, lo, hi)
    BY <1>1, <2>1 DEF WindowInv, lo, hi
  <2>3. ScanList(<<lo>>, lo, hi)
    BY <1>2 DEF ScanList, StrictlyIncreasing
  <2>4. found # <<>> => Len(found) # 0
    BY <1>3
  <2> QED BY <2>1, <2>2, <2>3, <2>4
<1>11. CASE DiscoverRS232 \/ ConsoleFails \/ FillConsole \/ \E got \in Byte : AskConsole(got)
  BY <1>1, <1>4, <1>11 DEF DiscoverRS232, ConsoleFails, FillConsole, AskConsole
<1>12. CASE Cancel \/ UNCHANGED discoveryVars
  <2>1. UNCHANGED <<dpc, cursor, found, packs>>
    BY <1>12 DEF Cancel, discoveryVars
  <2> QED BY <1>1, <1>2, <1>5, <2>1 DEF WindowInv, lo, hi
<1> QED BY <1>6, <1>7, <1>8, <1>9, <1>10, <1>11, <1>12
        DEF DiscoveryNext, DiscoveryStep

(* At the end of the scan the packs are those of the window.               *)
LEMMA WindowIsPolled ==
  DiscoveryTypeOK /\ WindowInv => PolledPacksAreConfigured
<1> SUFFICES ASSUME DiscoveryTypeOK, WindowInv,
                    cfg.protocol = "rs485", WindowInside, dpc = "set"
             PROVE  /\ Len(packs) \in 1 .. cfg.maxPacks
                    /\ StrictlyIncreasing(packs)
                    /\ \A i \in 1 .. Len(packs) :
                         packs[i] \in cfg.first .. cfg.first + cfg.maxPacks - 1
  BY DEF PolledPacksAreConfigured
<1>1. Len(packs) \in Nat
  BY DEF DiscoveryTypeOK
<1>2. cfg.first \in Nat /\ cfg.maxPacks \in Nat
  BY ScanEndFacts, UMaxAssumption DEF DiscoveryTypeOK, Byte
<1>3. Len(packs) # 0 /\ ScanList(packs, cfg.first, cfg.first + cfg.maxPacks)
  BY DEF WindowInv
<1> QED BY <1>1, <1>2, <1>3 DEF ScanList

(* On a bus whose window stays inside the bytes, what is polled is what    *)
(* was configured: PolledPacksAreConfigured for every byte size.           *)
THEOREM PolledPacksCorrect == DiscoverySpec => []PolledPacksAreConfigured
<1>1. DiscoveryInit => WindowInv
  BY DEF DiscoveryInit, WindowInv
<1> QED BY <1>1, WindowStep, WindowIsPolled, DiscoveryTypeCorrect, PTL DEF DiscoverySpec

(* One step of discovery does not enter a wrapped window.                  *)
LEMMA WrapStep ==
  DiscoveryTypeOK /\ WrapInv /\ [DiscoveryNext]_discoveryVars => WrapInv'
<1> SUFFICES ASSUME DiscoveryTypeOK, WrapInv, [DiscoveryNext]_discoveryVars,
                    (cfg.protocol = "rs485" /\ WindowWraps)'
             PROVE  WrapInv'
  BY DEF WrapInv
<1>1. cfg' = cfg /\ cfg.protocol = "rs485" /\ WindowWraps /\ ScanEnd' = ScanEnd
  BY ConfigFixed DEF WindowWraps, ScanEnd
<1>2. /\ ScanEnd < cfg.first /\ ScanEnd \in Int /\ cfg.first \in Int
      /\ cursor \in Int
  BY <1>1, ScanEndFacts, UMaxAssumption DEF DiscoveryTypeOK, Byte
<1>3. /\ dpc # "fill" /\ found = <<>>
      /\ dpc = "scan" => cursor > ScanEnd
      /\ dpc = "set" => packs = <<cfg.first>>
  BY <1>1 DEF WrapInv
<1> SUFFICES /\ dpc' # "fill"
             /\ found' = <<>>
             /\ dpc' = "scan" => cursor' > ScanEnd
             /\ dpc' = "set" => packs' = <<cfg.first>>
  BY <1>1 DEF WrapInv
<1>4. ASSUME NEW got \in Byte PROVE ~ ScanAnswered(got) /\ ~ ScanFails
  BY <1>2, <1>3 DEF ScanAnswered, ScanFails
<1>5. CASE StartScan
  BY <1>2, <1>5 DEF StartScan
<1>6. CASE EndScan \/ AdoptPacks
  BY <1>3, <1>6 DEF EndScan, AdoptPacks
<1>7. CASE DiscoverRS232 \/ ConsoleFails \/ FillConsole \/ \E got \in Byte : AskConsole(got)
  BY <1>1, <1>3, <1>7 DEF DiscoverRS232, ConsoleFails, FillConsole, AskConsole
<1>8. CASE Cancel \/ UNCHANGED discoveryVars
  BY <1>3, <1>8 DEF Cancel, discoveryVars
<1>9. 0 \in Byte
  BY UMaxAssumption DEF Byte
<1> QED BY <1>4, <1>5, <1>6, <1>7, <1>8, <1>9 DEF DiscoveryNext, DiscoveryStep

(* A window that would wrap is never scanned: WrappedWindowPollsFirst for  *)
(* every byte size.                                                        *)
THEOREM WrappedWindowCorrect == DiscoverySpec => []WrappedWindowPollsFirst
<1>1. DiscoveryInit => WrapInv
  BY DEF DiscoveryInit, WrapInv
<1>2. WrapInv => WrappedWindowPollsFirst
  BY DEF WrapInv, WrappedWindowPollsFirst
<1> QED BY <1>1, <1>2, WrapStep, DiscoveryTypeCorrect, PTL DEF DiscoverySpec

-----------------------------------------------------------------------------
(* Iterations of a loop whose variable is at i and whose last value is n   *)
LeftOf(i, n) == IF i <= n THEN n + 1 - i ELSE 0

(* How many steps discovery has yet to take, at most: a done context cuts  *)
(* the scan short, but not the loop over the packs of a console.           *)
StepsLeft ==
  CASE dpc = "idle"  -> UMax + 4
    [] dpc = "fill"  -> LeftOf(cursor, count) + 2
    [] dpc = "scan"  -> IF ctxDone THEN 2 ELSE LeftOf(cursor, ScanEnd) + 2
    [] dpc = "found" -> 1
    [] dpc = "set"   -> 0

(* The two loops that cannot pass the last byte, and so need not end       *)
LoopsEnd ==
  /\ dpc = "scan" => ctxDone \/ ScanEnd # UMax
  /\ dpc = "fill" => count # UMax

(* Whatever is answered, or not, every step of discovery leaves fewer to   *)
(* take, and a cancellation no more.                                       *)
DiscoveryGetsOn ==
  [][/\ DiscoveryStep /\ LoopsEnd => StepsLeft' < StepsLeft
     /\ Cancel => StepsLeft' <= StepsLeft]_discoveryVars

LEMMA LeftOfFacts ==
  ASSUME NEW i \in Byte, NEW n \in Byte
  PROVE  /\ LeftOf(i, n) \in 0 .. UMax + 1
         /\ i > n => LeftOf(i, n) = 0
         /\ i >= 1 => LeftOf(i, n) <= UMax
         /\ i <= n /\ n # UMax => U8(i + 1) = i + 1 /\ LeftOf(i + 1, n) < LeftOf(i, n)
<1>1. i \in Nat /\ n \in Nat /\ i <= UMax /\ n <= UMax /\ UMax \in Nat
  BY UMaxAssumption DEF Byte
<1>2. i <= n /\ n # UMax => U8(i + 1) = i + 1
  BY <1>1, NextByte
<1>. QED
  BY <1>1, <1>2 DEF LeftOf

LEMMA StepsLeftType ==
  ASSUME DiscoveryTypeOK
  PROVE  StepsLeft \in 0 .. UMax + 4
<1>1. cursor \in Byte /\ count \in Byte /\ ScanEnd \in Byte /\ UMax \in Nat
  BY ScanEndFacts, UMaxAssumption DEF DiscoveryTypeOK
<1>2. /\ LeftOf(cursor, count) \in 0 .. UMax + 1
      /\ LeftOf(cursor, ScanEnd) \in 0 .. UMax + 1
  BY <1>1, LeftOfFacts
<1>. QED
  BY <1>1, <1>2 DEF StepsLeft, DiscoveryTypeOK

(* One step, in whatever program it is taken                               *)
LEMMA StepsLeftFall ==
  ASSUME DiscoveryTypeOK, DiscoveryTypeOK'
  PROVE  /\ DiscoveryStep /\ LoopsEnd => StepsLeft' < StepsLeft
         /\ Cancel => StepsLeft' <= StepsLeft
<1>1. /\ cursor \in Byte /\ count \in Byte /\ ScanEnd \in Byte /\ cfg.first \in Byte
      /\ UMax \in Nat /\ UMax >= 1
  BY ScanEndFacts, UMaxAssumption DEF DiscoveryTypeOK
<1>2. /\ LeftOf(cursor, count) \in 0 .. UMax + 1
      /\ LeftOf(cursor, ScanEnd) \in 0 .. UMax + 1
      /\ LeftOf(cfg.first, ScanEnd) \in 0 .. UMax + 1
  BY <1>1, LeftOfFacts
<1>3. DiscoveryStep \/ Cancel => ScanEnd' = ScanEnd
  BY ConfigFixed DEF DiscoveryNext, ScanEnd
<1>4. ASSUME DiscoveryStep, LoopsEnd PROVE StepsLeft' < StepsLeft
  <2>1. CASE DiscoverRS232 \/ ConsoleFails
    <3>1. dpc = "idle" /\ dpc' = "found"
      BY <2>1 DEF DiscoverRS232, ConsoleFails
    <3>. QED
      BY <1>1, <3>1 DEF StepsLeft
  <2>2. ASSUME NEW got \in Byte, AskConsole(got) PROVE StepsLeft' < StepsLeft
    <3>1. dpc = "idle" /\ dpc' = "fill" /\ cursor' = 1 /\ count' = got
      BY <2>2 DEF AskConsole
    <3>2. LeftOf(1, got) \in Int /\ LeftOf(1, got) <= UMax
      <4>1. 1 \in Byte
        BY <1>1 DEF Byte
      <4>. QED
        BY <1>1, <4>1, LeftOfFacts
    <3>. QED
      BY <1>1, <3>1, <3>2 DEF StepsLeft
  <2>3. CASE FillConsole
    <3>1. dpc = "fill" /\ count # UMax /\ count' = count
      BY <1>4, <2>3 DEF FillConsole, LoopsEnd
    <3>2. CASE cursor <= count
      <4>1. dpc' = "fill" /\ cursor' = U8(cursor + 1)
        BY <2>3, <3>1, <3>2 DEF FillConsole
      <4>2. cursor' = cursor + 1 /\ LeftOf(cursor + 1, count) < LeftOf(cursor, count)
        BY <1>1, <3>1, <3>2, <4>1, LeftOfFacts
      <4>3. LeftOf(cursor + 1, count) \in Int
        BY <1>1, UMaxAssumption DEF LeftOf, Byte
      <4>. QED
        BY <1>2, <3>1, <4>1, <4>2, <4>3 DEF StepsLeft
    <3>3. CASE ~ (cursor <= count)
      <4>1. dpc' = "found"
        BY <2>3, <3>3 DEF FillConsole
      <4>. QED
        BY <1>2, <3>1, <4>1 DEF StepsLeft
    <3>. QED
      BY <3>2, <3>3
  <2>4. CASE StartScan
    <3>1. dpc = "idle" /\ dpc' = "scan" /\ cursor' = cfg.first
      BY <2>4 DEF StartScan
    <3>. QED
      BY <1>1, <1>2, <1>3, <1>4, <3>1 DEF StepsLeft
  <2>5. CASE EndScan
    <3>1. dpc = "scan" /\ dpc' = "found"
      BY <2>5 DEF EndScan
    <3>. QED
      BY <1>2, <3>1 DEF StepsLeft
  <2>6. ASSUME dpc = "scan", ~ ctxDone, ctxDone' = ctxDone, cursor <= ScanEnd,
               dpc' = "found" \/ (dpc' = "scan" /\ cursor' = U8(cursor + 1))
        PROVE  StepsLeft' < StepsLeft
    <3>1. ScanEnd # UMax
      BY <1>4, <2>6 DEF LoopsEnd
    <3>2. U8(cursor + 1) = cursor + 1 /\ LeftOf(cursor + 1, ScanEnd) < LeftOf(cursor, ScanEnd)
      BY <1>1, <2>6, <3>1, LeftOfFacts
    <3>3. LeftOf(cursor + 1, ScanEnd) \in Int
      BY <1>1, UMaxAssumption DEF LeftOf, Byte
    <3>. QED
      BY <1>2, <1>3, <1>4, <2>6, <3>2, <3>3 DEF StepsLeft
  <2>7. (\E got \in Byte : ScanAnswered(got)) \/ ScanFails => StepsLeft' < StepsLeft
    BY <2>6 DEF ScanAnswered, ScanFails
  <2>8. CASE AdoptPacks
    <3>1. dpc = "found" /\ dpc' = "set"
      BY <2>8 DEF AdoptPacks
    <3>. QED
      BY <3>1 DEF StepsLeft
  <2>. QED
    BY <1>4, <2>1, <2>2, <2>3, <2>4, <2>5, <2>7, <2>8 DEF DiscoveryStep
<1>5. ASSUME Cancel PROVE StepsLeft' <= StepsLeft
  <2>1. UNCHANGED <<dpc, cursor, count>> /\ ScanEnd' = ScanEnd /\ ~ ctxDone /\ ctxDone'
    BY <1>3, <1>5 DEF Cancel
  <2>2. StepsLeft \in 0 .. UMax + 4
    BY StepsLeftType
  <2>3. dpc # "scan" => StepsLeft' = StepsLeft
    BY <2>1 DEF StepsLeft
  <2>4. dpc = "scan" => StepsLeft' <= StepsLeft
    BY <1>2, <2>1 DEF StepsLeft
  <2>. QED
    BY <2>2, <2>3, <2>4
<1>. QED
  BY <1>4, <1>5

(* Discovery ends after at most UMax + 4 of its steps, but for a window    *)
(* that ends at the last address and a console of that many packs: what a  *)
(* proof of DiscoveryEnds and CancelEndsScan needs besides fairness.       *)
THEOREM DiscoveryProgresses ==
  DiscoverySpec => [](StepsLeft \in 0 .. UMax + 4) /\ DiscoveryGetsOn
<1>. QED
  BY DiscoveryTypeCorrect, StepsLeftType, StepsLeftFall, PTL DEF DiscoverySpec, DiscoveryGetsOn

=============================================================================
