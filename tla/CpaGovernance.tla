---------------------------- MODULE CpaGovernance ----------------------------
(***************************************************************************)
(* The band around the target number of main accounts, and the automatic    *)
(* refill (CpaPoolMonitor in src/webui/cpa_pool.py), on the numbers of      *)
(* accounts that they count, with the gates a refill order passes.  Scan    *)
(* thread, scheduler and refill controller take turns in any order.  What   *)
(* happens to one account, drift repair included, is the subject of         *)
(* CpaAccount, the breaker that freezes governance that of CpaBreaker: here *)
(* every step may find it open or closed.                                   *)
(***************************************************************************)
EXTENDS Integers, FiniteSets, FiniteSetsExt

CONSTANTS
  Target,          \* refill_target_active
  ReserveTarget,   \* reserve_target_percent of it
  DemoteBatch,     \* the literal 50 of the code
  BatchSize,       \* refill_max_per_scan
  DailyLimit,      \* refill_daily_limit
  LowRounds,       \* refill_low_water_rounds
  EmergencyFloor,  \* refill_emergency_threshold_percent of the target, 0 for none
  MaxInventory,    \* refill_max_inventory
  Needs,           \* accounts to order per missing one: 1 / expected yield, rounded
  StartMain, StartReserve,   \* the accounts at the beginning
  MaxRounds, MaxDays, MaxDaily  \* bounds: scans, days, accounts ordered in a day

ASSUME GovernanceAssumption ==
  /\ {Target, DemoteBatch, BatchSize} \subseteq Nat \ {0}
  /\ {ReserveTarget, DailyLimit, LowRounds, EmergencyFloor, MaxInventory} \subseteq Nat
  /\ {StartMain, StartReserve, MaxRounds, MaxDaily} \subseteq Nat /\ MaxDays \in Nat \ {0}
  /\ Needs \subseteq Nat \ {0} /\ Needs # {}

VARIABLES
  round,      \* number of the last scan: _scan_id, 0 for none
  scanning,   \* the scan thread: "no", "probing", or "refilling" at its end
  pool,       \* accounts by what the metrics tell apart
  lowAge,     \* refill_low_since: "none", or "young", or refill_low_water_hold_sec "old"
  low,        \* refill_low_rounds: rounds that saw too few, and the last of them
  cached,     \* _pool_metrics_cache: main and reserve
  order,      \* the job in the runner's lane: accounts to come, and is it a refill?
  booking,    \* an order whose accounts refill_daily does not have yet, <<>> for none
  day, daily, \* the date, and refill_daily
  \* history variables, read by properties only
  ordered,    \* accounts the refill has ordered today
  uncounted,  \* those of them that refill_daily will never have
  lowSeen     \* rounds that saw too few accounts, since one wrote down that it saw enough

governanceVars == <<round, scanning, pool, lowAge, low, cached, order, booking, day, daily,
                    ordered, uncounted, lowSeen>>
lowVars    == <<lowAge, low, lowSeen>>
dayVars    == <<day, daily, ordered, uncounted>>
refillVars == <<lowVars, cached, order, booking, dayVars>>

\* main, reserve and cooling (for no longer than the grace): the rows by tier; unchecked:
\* those of the reserve that were never probed; fresh: files that have no row yet.
Kinds == {"main", "reserve", "unchecked", "cooling", "fresh"}
Ages  == {"none", "young", "old"}
NoOrder == [left |-> 0, refill |-> FALSE]
Blind   == <<0, 0>>

Least(S) == Min(S)
Pos(n)   == IF n > 0 THEN n ELSE 0
Inventory == pool.main + pool.reserve + pool.cooling + pool.fresh

InitGovernance ==
  /\ round = 0 /\ scanning = "no"
  /\ pool = [k \in Kinds |-> IF k = "main" THEN StartMain
                             ELSE IF k = "reserve" THEN StartReserve ELSE 0]
  /\ lowAge = "none"
  /\ low = [count |-> 0, last |-> 0]
  /\ cached = Blind     \* never filled, it reads as zeros
  /\ order = NoOrder /\ booking = <<>>
  /\ day = 1 /\ daily = [day |-> 1, count |-> 0]
  /\ ordered = 0 /\ uncounted = 0 /\ lowSeen = {}

-----------------------------------------------------------------------------
(* The scan. *)

\* _run_scan gives every file a row, in the reserve.
ScanBegins ==
  /\ scanning = "no" /\ round < MaxRounds
  /\ scanning' = "probing" /\ round' = round + 1
  /\ pool' = [pool EXCEPT !.reserve = @ + pool.fresh, !.unchecked = @ + pool.fresh,
                          !.fresh = 0]
  /\ UNCHANGED refillVars

\* What its probes find: a first good one, after which the row may be promoted; a main
\* account that has to cool down; a cooled one that answers again.
FirstGood(up) ==
  pool.unchecked > 0 /\ pool' = [pool EXCEPT !.unchecked = @ - 1, !.main = @ + up,
                                             !.reserve = @ - up]
Cools    == pool.main > 0 /\ pool' = [pool EXCEPT !.main = @ - 1, !.cooling = @ + 1]
Recovers == pool.cooling > 0 /\ pool' = [pool EXCEPT !.cooling = @ - 1, !.main = @ + 1]

ScanProbes ==
  /\ scanning = "probing"
  /\ (\E up \in {0, 1} : FirstGood(up)) \/ Cools \/ Recovers
  /\ UNCHANGED <<round, scanning, refillVars>>

ScanCancelled ==
  /\ scanning = "probing" /\ scanning' = "no"
  /\ UNCHANGED <<round, pool, refillVars>>

-----------------------------------------------------------------------------
(* _rebalance_tiers, after a scan and from the scheduler; not while the breaker is open. *)
(* Whether an excess has lasted for half an hour is left to chance.                      *)

Promote ==
  LET healthy == pool.reserve - pool.unchecked
      n       == Least({BatchSize, Target - pool.main, healthy})
  IN /\ pool.main < Target /\ healthy > 0
     /\ pool' = [pool EXCEPT !.main = @ + n, !.reserve = @ - n]

Demote ==
  LET n == Least({DemoteBatch, pool.main - Target})
  IN /\ pool.main > Target
     /\ pool' = [pool EXCEPT !.main = @ - n, !.reserve = @ + n]

Rebalance == Promote \/ Demote \/ UNCHANGED pool

ScanRebalances ==
  /\ scanning = "probing" /\ scanning' = "refilling"
  /\ Rebalance
  /\ UNCHANGED <<round, refillVars>>

\* _scheduler_tick, every few seconds and during a scan too.
SchedulerRebalances ==
  /\ Rebalance
  /\ UNCHANGED <<round, scanning, refillVars>>

-----------------------------------------------------------------------------
(* _pool_metrics, for the status page and the refill: a copy under 15 seconds old, or one  *)
(* of any age while another thread counts (which may always be); else a new count, of the  *)
(* accounts that the proxy routes, by what was last heard of it.  None are counted when the *)
(* hotload directory cannot be read, and a copy that was never filled has none either.      *)

Tallies == (0 .. pool.main) \X (0 .. pool.reserve)

StatusCounts ==
  /\ cached' \in Tallies
  /\ UNCHANGED <<round, scanning, pool, lowVars, order, booking, dayVars>>

\* What the refill reads, and what is cached then.
Reads(v) == (v = cached /\ UNCHANGED cached) \/ (v \in Tallies /\ cached' = v)

\* Without any row the files themselves are counted as main accounts.
Ready(v) == IF pool.main + pool.reserve + pool.cooling = 0 THEN <<pool.fresh, 0>> ELSE v

-----------------------------------------------------------------------------
(* _maybe_start_refill, under _refill_lock, with v accounts ready. *)

\* Accounts missing, when one that is on order counts for 1/f.
Gap(v, f) ==
  LET coming == IF order.refill THEN order.left \div f ELSE 0
  IN Pos(Target + ReserveTarget - (v[1] + v[2] + pool.cooling + coming))

Emergency(v) == v[1] < EmergencyFloor
Baseline  == pool.unchecked = 0    \* refill_min_baseline_percent is 100
NoLow     == [count |-> 0, last |-> 0]
\* Without a scan each call counts as a round of its own.  (No more are told apart than
\* are asked for.)
CountedEachCall ==                             \* mutant: one scan counts again and again
  [count |-> Least({low.count + 1, LowRounds}), last |-> round]
Counted   == IF round = 0 \/ low.last # round
             THEN [count |-> Least({low.count + 1, LowRounds}), last |-> round] ELSE low
Confirmed == Counted.count >= LowRounds /\ lowAge = "old"
Today     == IF daily.day = day THEN daily ELSE [day |-> day, count |-> 0]
TooFew(v, f) == Gap(v, f) > 0 /\ Baseline

\* Begin to wait anew: two writes, and the second may not happen.
StartsAnew ==
  /\ lowAge' = "none"
  /\ (low' = NoLow /\ lowSeen' = {}) \/ UNCHANGED <<low, lowSeen>>
  /\ UNCHANGED <<order, booking, dayVars>>

\* Frozen, before anything is read; enough accounts, or some that were never probed.
RefillFrozen       == StartsAnew
RefillResets(v, f) == ~TooFew(v, f) /\ StartsAnew

\* The lane is busy.
RefillYields(v, f) ==
  /\ TooFew(v, f) /\ order.left > 0
  /\ UNCHANGED <<lowVars, order, booking, dayVars>>

\* The hotload directory or the database cannot be read: the call ends.
RefillFails == UNCHANGED <<lowVars, order, booking, dayVars>>

\* Too few in this round too.
BeginsToWait == lowAge' = IF lowAge = "none" THEN "young" ELSE lowAge
Noted ==
  /\ BeginsToWait
  /\ low' = Counted
  /\ lowSeen' = lowSeen \cup {round}

\* ... but not for long enough (or the second write fails).
RefillWaits(v, f) ==
  /\ TooFew(v, f) /\ order.left = 0 /\ ~Emergency(v)
  /\ (~Confirmed /\ Noted) \/ (BeginsToWait /\ UNCHANGED <<low, lowSeen>>)
  /\ UNCHANGED <<order, booking, dayVars>>

\* An order: the batch, the room in the inventory, what is left of the day.
RestOfLimit(v, need) ==                        \* mutant: earlier orders are forgotten
  IF Emergency(v) \/ DailyLimit = 0 THEN need ELSE DailyLimit
Rest(v, need) ==
  IF Emergency(v) \/ DailyLimit = 0 THEN need ELSE Pos(DailyLimit - Today.count)
Limit(v, f) ==
  LET need == Gap(v, f) * f
  IN Least({need, BatchSize, Pos(MaxInventory - Inventory), Rest(v, need)})

\* The job starts, with fewer accounts when candidates are few.  It does not when the lane
\* was taken meanwhile or a file cannot be read.
Starts(v, n, byScan) ==
  /\ ordered + n <= MaxDaily
  /\ order' = [left |-> n, refill |-> TRUE]
  /\ booking' = [day |-> day, count |-> Today.count + n, n |-> n,
                 emergency |-> Emergency(v), scan |-> byScan]
  /\ ordered' = ordered + n
  /\ UNCHANGED <<day, daily, uncounted>>

RefillOrders(v, f, byScan) ==
  /\ TooFew(v, f) /\ order.left = 0
  /\ IF Emergency(v) THEN UNCHANGED lowVars ELSE Confirmed /\ Noted
  /\ \/ UNCHANGED <<order, booking, dayVars>>
     \/ \E n \in 1 .. Limit(v, f) : Starts(v, n, byScan)

Refill(byScan) ==
  /\ booking = <<>>
  /\ \/ (RefillFrozen \/ RefillFails) /\ UNCHANGED cached
     \/ \E v \in Tallies \cup {cached}, f \in Needs :
          /\ Reads(v)
          /\ \/ RefillResets(Ready(v), f) \/ RefillYields(Ready(v), f)
             \/ RefillWaits(Ready(v), f) \/ RefillOrders(Ready(v), f, byScan)
  /\ UNCHANGED <<round, pool>>

\* _run_refill_controller: not while a scan runs (when it begins).
ControllerRefills ==
  /\ scanning = "no" /\ UNCHANGED scanning
  /\ Refill(FALSE)

ScanRefills ==
  /\ scanning = "refilling"
  /\ Refill(TRUE)
  /\ scanning' = IF booking' = <<>> THEN "no" ELSE scanning

\* The order is written into refill_daily, or the write fails; then the lock is free.
Booked == [day |-> booking.day, count |-> booking.count]
Lost   == uncounted + (IF booking.day = day THEN booking.n ELSE 0)
BookOrder ==
  /\ booking # <<>> /\ booking' = <<>>
  /\ \/ daily' = Booked /\ UNCHANGED uncounted
     \/ uncounted' = Lost /\ UNCHANGED daily
  /\ scanning' = IF booking.scan THEN "no" ELSE scanning
  /\ UNCHANGED <<round, pool, lowVars, cached, order, day, ordered>>

-----------------------------------------------------------------------------
(* Around them. *)

\* A job mints an account: a file, no row.
Delivered ==
  /\ order.left > 0
  /\ order' = [order EXCEPT !.left = @ - 1]
  /\ \E ok \in {0, 1} : pool' = [pool EXCEPT !.fresh = @ + ok]
  /\ UNCHANGED <<round, scanning, lowVars, cached, booking, dayVars>>

OrderStops ==
  /\ order.left > 0 /\ order' = NoOrder
  /\ UNCHANGED <<round, scanning, pool, lowVars, cached, booking, dayVars>>

\* An account is quarantined, cools for longer than the grace, or is taken out by the
\* operator.
AccountLeaves ==
  /\ \E k \in {"main", "reserve", "cooling"} :
       /\ pool[k] > 0
       /\ pool' = [pool EXCEPT ![k] = @ - 1,
                       !.unchecked = Least({@, IF k = "reserve" THEN pool.reserve - 1 ELSE @})]
  /\ UNCHANGED <<round, scanning, refillVars>>

OperatorOrders ==
  /\ order.left = 0 /\ Inventory < MaxInventory
  /\ order' = [left |-> 1, refill |-> FALSE]
  /\ UNCHANGED <<round, scanning, pool, lowVars, cached, booking, dayVars>>

\* The shortage has lasted for long enough; midnight.
Older(age) == IF age = "young" THEN "old" ELSE age
GovernanceTime ==
  /\ \/ lowAge' = Older(lowAge) /\ UNCHANGED dayVars
     \/ /\ day < MaxDays
        /\ day' = day + 1 /\ ordered' = 0 /\ uncounted' = 0
        /\ UNCHANGED <<lowAge, daily>>
  /\ UNCHANGED <<round, scanning, pool, low, lowSeen, cached, order, booking>>

\* Meta rows and account rows survive; the cache, jobs and an order not yet written do not.
GovernanceRestarts ==
  /\ scanning' = "no"
  /\ cached' = Blind /\ order' = NoOrder
  /\ booking' = <<>> /\ uncounted' = IF booking = <<>> THEN uncounted ELSE Lost
  /\ UNCHANGED <<round, pool, lowVars, day, daily, ordered>>

NextGovernance ==
  \/ ScanBegins \/ ScanProbes \/ ScanCancelled \/ ScanRebalances \/ ScanRefills
  \/ SchedulerRebalances \/ ControllerRefills \/ StatusCounts \/ BookOrder
  \/ Delivered \/ OrderStops \/ AccountLeaves \/ OperatorOrders
  \/ GovernanceTime \/ GovernanceRestarts

GovernanceSpec == InitGovernance /\ [][NextGovernance]_governanceVars

-----------------------------------------------------------------------------
(* Properties *)

GovernanceTypeOK ==
  /\ round \in 0 .. MaxRounds /\ scanning \in {"no", "probing", "refilling"}
  /\ pool \in [Kinds -> Nat] /\ pool.unchecked <= pool.reserve
  /\ lowAge \in Ages
  /\ low \in [count : 0 .. LowRounds, last : 0 .. MaxRounds]
  /\ cached \in Nat \X Nat
  /\ order \in [left : Nat, refill : BOOLEAN]
  /\ booking = <<>> \/ booking \in [day : 1 .. MaxDays, count : Nat, n : Nat,
                                    emergency : BOOLEAN, scan : BOOLEAN]
  /\ day \in 1 .. MaxDays /\ daily \in [day : 1 .. MaxDays, count : Nat]
  /\ ordered \in 0 .. MaxDaily /\ uncounted \in Nat /\ lowSeen \subseteq 0 .. MaxRounds

\* An order is made, and not in what the controller takes for an emergency.
OrdersCalmly == booking = <<>> /\ booking' # <<>> /\ ~booking'.emergency

\* No order that the controller does not take for an emergency brings the accounts of its
\* day above the soft limit (config.example.json 277): over restarts and midnight too, but
\* for accounts whose number a crash or a failed write kept out of the books.
DailySoftLimit ==
  [][OrdersCalmly /\ DailyLimit > 0 => ordered' <= DailyLimit + uncounted]_governanceVars

\* Such an order also follows a shortage that as many different scans have confirmed as are
\* asked for, with none in between that saw enough accounts and could write that down
\* (config.example.json 272).  Without any scan there are no rounds to count.
LowWaterConfirmed ==
  [][OrdersCalmly => 0 \in lowSeen \/ Cardinality(lowSeen \cup {round}) >= LowRounds
    ]_governanceVars
=============================================================================
