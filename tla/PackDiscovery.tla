---------------------------- MODULE PackDiscovery ----------------------------
(***************************************************************************)
(* How the collector finds the packs it polls: discoverPacks and the head  *)
(* of pollOnce (internal/collector/service.go), with the fallback to the   *)
(* first configured address.  One action is one iteration of a loop of     *)
(* discoverPacks, so the context may be cancelled between any two queries. *)
(*                                                                         *)
(* Addresses are Go's uint8, whose largest value is UMax (255 in the code, *)
(* smaller in the checked instances).  UMax is also the address the code   *)
(* writes as the literal 255: the pack of an RS232 link and the last one   *)
(* an RS485 scan may ask.                                                  *)
(***************************************************************************)
EXTENDS Integers, Sequences

CONSTANTS
  UMax,       \* the largest uint8
  MaxFound    \* bound of the model: no list of packs grows beyond it

ASSUME UMaxAssumption == UMax \in Nat \ {0}
ASSUME MaxFoundAssumption == MaxFound \in Nat \ {0}

VARIABLES
  cfg,        \* the configuration pollOnce was called with
  ctxDone,    \* the context of Run has been cancelled
  dpc,        \* where discovery is: "idle", "fill", "scan", "found", "set"
  cursor,     \* the loop variable of the scan (pack) or of the fill (i)
  count,      \* what the console answered to the pack number query (got)
  found,      \* the list under construction (packs in discoverPacks)
  packs       \* the addresses polled from now on (s.packs)

discoveryVars == <<cfg, ctxDone, dpc, cursor, count, found, packs>>

Byte == 0 .. UMax
Protocol == {"rs485", "rs232", "console"}

(* The configurations Validate accepts: any uint8 as first address, but    *)
(* not zero packs.  Nothing reads DiscoverOnStartup.                       *)
DeviceConfig == [protocol : Protocol, first : Byte, maxPacks : Byte \ {0}]

(* Mutant: the arithmetic of int.                                          *)
U8Unbounded(n) == n

(* uint8 arithmetic *)
U8(n) == n % (UMax + 1)

(* Mutant: one address too many.                                           *)
ScanEndOnePast == U8(cfg.first + cfg.maxPacks)

(* The last address of the RS485 scan.  The sum is computed in uint8.      *)
ScanEnd == U8(cfg.first + cfg.maxPacks - 1)

(* packs = append(packs, a), cut at the bound of the model *)
Push(s, a) == IF Len(s) < MaxFound THEN Append(s, a) ELSE s

-----------------------------------------------------------------------------

DiscoveryInit ==
  /\ cfg \in DeviceConfig
  /\ ctxDone = FALSE
  /\ dpc = "idle"
  /\ cursor = 0
  /\ count = 0
  /\ found = <<>>
  /\ packs = <<>>

(* An RS232 link is point to point: one address, no query.                 *)
DiscoverRS232 ==
  /\ dpc = "idle" /\ packs = <<>> /\ cfg.protocol = "rs232"
  /\ found' = <<UMax>>
  /\ dpc' = "found"
  /\ UNCHANGED <<cfg, ctxDone, cursor, count, packs>>

(* A console is asked once how many packs are behind it...                 *)
AskConsole(got) ==
  /\ dpc = "idle" /\ packs = <<>> /\ cfg.protocol = "console"
  /\ count' = got
  /\ cursor' = 1
  /\ found' = <<>>
  /\ dpc' = "fill"
  /\ UNCHANGED <<cfg, ctxDone, packs>>

(* ...or does not answer.                                                  *)
ConsoleFails ==
  /\ dpc = "idle" /\ packs = <<>> /\ cfg.protocol = "console"
  /\ found' = <<>>
  /\ dpc' = "found"
  /\ UNCHANGED <<cfg, ctxDone, cursor, count, packs>>

(* for i := uint8(1); i <= got; i++: no query and no look at the context.  *)
FillConsole ==
  /\ dpc = "fill"
  /\ IF cursor <= count
       THEN /\ found' = Push(found, cursor)
            /\ cursor' = U8(cursor + 1)
            /\ dpc' = dpc
       ELSE /\ dpc' = "found"
            /\ UNCHANGED <<found, cursor>>
  /\ UNCHANGED <<cfg, ctxDone, count, packs>>

StartScan ==
  /\ dpc = "idle" /\ packs = <<>> /\ cfg.protocol = "rs485"
  /\ cursor' = cfg.first
  /\ found' = <<>>
  /\ dpc' = "scan"
  /\ UNCHANGED <<cfg, ctxDone, count, packs>>

(* The loop condition is false, or the context is done: return packs.      *)
EndScan ==
  /\ dpc = "scan"
  /\ cursor > ScanEnd \/ ctxDone
  /\ dpc' = "found"
  /\ UNCHANGED <<cfg, ctxDone, cursor, count, found, packs>>

(* The address at the cursor answers got; only its own number counts.      *)
ScanAnswered(got) ==
  /\ dpc = "scan" /\ cursor <= ScanEnd /\ ~ctxDone
  /\ found' = IF got = cursor THEN Push(found, cursor) ELSE found
  /\ IF cursor = UMax
       THEN dpc' = "found" /\ cursor' = cursor
       ELSE dpc' = dpc /\ cursor' = U8(cursor + 1)
  /\ UNCHANGED <<cfg, ctxDone, count, packs>>

(* Mutant: a failed query starts the scan over.                            *)
ScanFailsStartsOver ==
  /\ dpc = "scan" /\ cursor <= ScanEnd /\ ~ctxDone
  /\ cursor' = cfg.first
  /\ found' = <<>>
  /\ UNCHANGED <<cfg, ctxDone, dpc, count, packs>>

(* Mutant: a failed query goes on without a look at the context.           *)
ScanFailsUncancelled ==
  /\ dpc = "scan" /\ cursor <= ScanEnd
  /\ cursor' = U8(cursor + 1)
  /\ UNCHANGED <<cfg, ctxDone, dpc, count, found, packs>>

(* The query fails: continue jumps over the test for the last address.     *)
ScanFails ==
  /\ dpc = "scan" /\ cursor <= ScanEnd /\ ~ctxDone
  /\ cursor' = U8(cursor + 1)
  /\ UNCHANGED <<cfg, ctxDone, dpc, count, found, packs>>

(* The head of pollOnce: keep what was found, or poll the first address.   *)
AdoptPacks ==
  /\ dpc = "found"
  /\ packs' = IF found # <<>> THEN found ELSE <<cfg.first>>
  /\ dpc' = "set"
  /\ UNCHANGED <<cfg, ctxDone, cursor, count, found>>

(* One step of discoverPacks, whatever the link answers *)
DiscoveryStep ==
  \/ DiscoverRS232
  \/ \E got \in Byte : AskConsole(got)
  \/ ConsoleFails
  \/ FillConsole
  \/ StartScan
  \/ EndScan
  \/ \E got \in Byte : ScanAnswered(got)
  \/ ScanFails
  \/ AdoptPacks

(* The process is told to stop (SIGTERM cancels the context of Run).       *)
Cancel ==
  /\ ~ctxDone
  /\ ctxDone' = TRUE
  /\ UNCHANGED <<cfg, dpc, cursor, count, found, packs>>

DiscoveryNext == DiscoveryStep \/ Cancel

(* The loops run on their own goroutine and every query ends, with an      *)
(* answer or with a timeout: the step is always taken in the end.          *)
DiscoverySpec ==
  /\ DiscoveryInit
  /\ [][DiscoveryNext]_discoveryVars
  /\ WF_discoveryVars(DiscoveryStep)

-----------------------------------------------------------------------------
(* Properties *)

(* Every variable keeps its Go type, and no list outgrows its bound.       *)
DiscoveryTypeOK ==
  /\ cfg \in DeviceConfig
  /\ ctxDone \in BOOLEAN
  /\ dpc \in {"idle", "fill", "scan", "found", "set"}
  /\ cursor \in Byte
  /\ count \in Byte
  /\ found \in Seq(Byte)
  /\ packs \in Seq(Byte)

StrictlyIncreasing(s) ==
  \A i, j \in 1 .. Len(s) : i < j => s[i] < s[j]

(* The window first .. first + maxPacks - 1 ends below the last address:   *)
(* neither the sum nor the loop variable can wrap.                         *)
WindowInside == cfg.first + cfg.maxPacks - 1 < UMax

(* The window reaches past the last address and ScanEnd has wrapped.       *)
WindowWraps == cfg.first + cfg.maxPacks - 1 > UMax

(* With a window that stays inside, an RS485 scan that took its answers in *)
(* any order of successes, failures and foreign numbers, and was cancelled *)
(* at any point, leaves between one and maxPacks addresses to poll, each   *)
(* once, in rising order, all of them inside the window.                   *)
PolledPacksAreConfigured ==
  cfg.protocol = "rs485" /\ WindowInside /\ dpc = "set" =>
    /\ Len(packs) \in 1 .. cfg.maxPacks
    /\ StrictlyIncreasing(packs)
    /\ \A i \in 1 .. Len(packs) :
         packs[i] \in cfg.first .. cfg.first + cfg.maxPacks - 1

(* A window that reaches past the last address is not scanned in part: no  *)
(* address is asked, and the first one is polled alone.                    *)
WrappedWindowPollsFirst ==
  cfg.protocol = "rs485" /\ WindowWraps =>
    /\ found = <<>>
    /\ dpc = "set" => packs = <<cfg.first>>

(* Discovery comes to an end whatever the packs answer, unless the window  *)
(* ends exactly at the last address or the console counts UMax packs: the  *)
(* loop variables cannot pass UMax, so those two loops need not end.       *)
DiscoveryEnds ==
  []( /\ cfg.protocol = "rs485" => ScanEnd # UMax
      /\ cfg.protocol = "console" => count # UMax )
    => <>(dpc = "set")

(* A cancelled context ends every RS485 scan, the endless one included.    *)
CancelEndsScan ==
  ctxDone /\ cfg.protocol = "rs485" ~> dpc = "set"

(* max_parallel_packs is the largest number of packs polled on a bus.      *)
AtMostMaxParallelPacks ==
  cfg.protocol = "rs485" => Len(packs) <= cfg.maxPacks

=============================================================================
