------------------------- MODULE LeaseTimingProofs --------------------------
(***************************************************************************)
(* The distances of LeaseTiming, for all intervals, timeouts and delays.   *)
(* The two properties bound the clock by the last renewal; what is         *)
(* inductive bounds, in each phase, the clock by the statement in flight   *)
(* and that statement, and the next tick, by the last renewal.             *)
(***************************************************************************)
EXTENDS LeaseTiming, TLAPS

LEMMA LargerBounds ==
  ASSUME NEW a \in Nat, NEW b \in Nat
  PROVE  Larger(a, b) \in Nat /\ a <= Larger(a, b) /\ b <= Larger(a, b)
BY DEF Larger

BeatLimit == heartbeat_at + Larger(Interval, MaxDelay)

\* The execution: what is in flight was sent soon after the last renewal.
Renewing ==
  /\ phase \in InFlight  => since <= now /\ now <= since + MaxDelay
  /\ phase \in Living \cup {"crashed"} => heartbeat_at <= now
  /\ phase \in {"started", "beaten"} => since <= heartbeat_at
  /\ phase \in {"beat", "finish"}    => since <= BeatLimit
  /\ phase \in {"beat", "beaten"}    => tick <= since + Interval
  /\ phase = "wait"                  => now <= BeatLimit /\ tick <= BeatLimit

OnTheRow == phase \in Living \cup {"crashed"}

ReapLimit == heartbeat_at + Lease + Larger(ReapEvery, MaxDelay)

\* The reaper: the statement before this one came within Lease of the renewal,
\* or it would have taken the row.
Reaping ==
  /\ reap_tick <= now + ReapEvery
  /\ reaper \in {"sent", "done"} =>
       /\ reap_since <= now /\ now <= reap_since + MaxDelay
       /\ reap_tick <= reap_since + ReapEvery
  /\ OnTheRow =>
       /\ reaper = "wait" => now <= ReapLimit /\ reap_tick <= ReapLimit
       /\ reaper = "sent" => reap_since <= ReapLimit
       /\ reaper = "done" => reap_since <= heartbeat_at + Lease

TimingInv == TimingTypeOK /\ Renewing /\ Reaping

LEMMA TimingInitially == TimingInit => TimingInv
BY TimingAssumption, LargerBounds
   DEF TimingInit, TimingInv, TimingTypeOK, Renewing, Reaping, OnTheRow, Living,
       Phases, InFlight

LEMMA TimingStep == TimingInv /\ [TimingNext]_timingVars => TimingInv'
<1> SUFFICES ASSUME TimingInv, [TimingNext]_timingVars PROVE TimingInv'
  OBVIOUS
<1> DEFINE B == Larger(Interval, MaxDelay)
           R == Larger(ReapEvery, MaxDelay)
<1>nat. {Interval, ReapEvery, Lease, MaxDelay, MaxNow} \subseteq Nat
  BY TimingAssumption
<1>larger. /\ B \in Nat /\ Interval <= B /\ MaxDelay <= B
           /\ R \in Nat /\ ReapEvery <= R /\ MaxDelay <= R
  BY <1>nat, LargerBounds
<1> USE <1>nat
<1> USE DEF TimingInv, TimingTypeOK, Renewing, Reaping, OnTheRow, Living, Phases,
            InFlight, BeatLimit, ReapLimit, executionVars, reaperVars, Execution
<1> HIDE DEF B, R
<1>limits. /\ BeatLimit = heartbeat_at + B /\ ReapLimit = heartbeat_at + Lease + R
           /\ BeatLimit' = heartbeat_at' + B /\ ReapLimit' = heartbeat_at' + Lease + R
  BY DEF B, R
<1> USE <1>larger, <1>limits
<1> HIDE DEF BeatLimit, ReapLimit
<1>1. CASE StartSent
  BY <1>1 DEF StartSent
<1>2. CASE StartTakesEffect
  BY <1>2 DEF StartTakesEffect
<1>3. CASE StartAnswered
  BY <1>3 DEF StartAnswered
<1>4. CASE BeatSent
  BY <1>4 DEF BeatSent
<1>5. CASE BeatTakesEffect
  BY <1>5 DEF BeatTakesEffect
<1>6. CASE BeatAnswered
  BY <1>6 DEF BeatAnswered
<1>7. CASE FinishSent
  BY <1>7 DEF FinishSent
<1>8. CASE FinishTakesEffect
  BY <1>8 DEF FinishTakesEffect
<1>9. CASE HandlerCrashes
  BY <1>9 DEF HandlerCrashes
<1>10. CASE ReapSent
  BY <1>10 DEF ReapSent
<1>11. CASE ReapTakesEffect
  BY <1>11 DEF ReapTakesEffect, Expired
<1>12. CASE ReapAnswered
  BY <1>12 DEF ReapAnswered
<1>13. CASE TimePasses
  BY <1>13 DEF TimePasses
<1>14. CASE UNCHANGED timingVars
  BY <1>14 DEF timingVars
<1> QED
  BY <1>1, <1>2, <1>3, <1>4, <1>5, <1>6, <1>7, <1>8, <1>9, <1>10, <1>11, <1>12,
     <1>13, <1>14 DEF TimingNext

\* However late statements are, a row whose heartbeat has stopped is taken by the
\* reaper within the timeout and one round of the reaper (Reaper::run,
\* reap_stale_job).
THEOREM DeadAreReaped == TimingSpec => []DeadIsReapedInTime
<1>1. TimingInv => DeadIsReapedInTime
  <2> SUFFICES ASSUME TimingInv, OnTheRow
               PROVE  now <= heartbeat_at + Lease + ReapGap
    BY DEF DeadIsReapedInTime, OnTheRow
  <2>1. {ReapEvery, Lease, MaxDelay, Larger(ReapEvery, MaxDelay)} \subseteq Nat
    BY TimingAssumption, LargerBounds
  <2>2. now <= ReapLimit + MaxDelay
    BY <2>1 DEF TimingInv, TimingTypeOK, Reaping, ReapLimit
  <2> QED
    BY <2>1, <2>2 DEF ReapLimit, ReapGap, TimingInv, TimingTypeOK
<1> QED
  BY <1>1, TimingInitially, TimingStep, PTL DEF TimingSpec

\* When two beats cannot be further apart than the timeout, no reaper can take
\* the lease of a handler that lives (the heartbeat task of handle_message).
THEOREM LivingAreNotReaped ==
  ASSUME DelayIsSmall
  PROVE  TimingSpec => []LivingIsNotReaped
<1>1. TimingInv => LivingIsNotReaped
  <2> SUFFICES ASSUME TimingInv, phase \in Living
               PROVE  now <= heartbeat_at + Lease
    BY TimingAssumption DEF LivingIsNotReaped, Expired, TimingInv, TimingTypeOK
  <2>1. {Interval, Lease, MaxDelay, Larger(Interval, MaxDelay)} \subseteq Nat
    BY TimingAssumption, LargerBounds
  <2>2. MaxDelay <= Larger(Interval, MaxDelay)
    BY TimingAssumption, LargerBounds
  <2>3. now <= BeatLimit + MaxDelay
    BY <2>1, <2>2 DEF TimingInv, TimingTypeOK, Renewing, BeatLimit, Living, InFlight
  <2> QED
    BY <2>1, <2>3 DEF BeatLimit, DelayIsSmall, BeatGap, TimingInv, TimingTypeOK
<1> QED
  BY <1>1, TimingInitially, TimingStep, PTL DEF TimingSpec
=============================================================================
