---------------------------- MODULE LeaseTiming -----------------------------
(***************************************************************************)
(* The distances in time that JobStore leaves out: one execution, whose    *)
(* heartbeat task (kafka.rs) renews its lease at every tick of an interval *)
(* of 10 seconds, against the reaper (reaper.rs), whose own interval of 10 *)
(* seconds brings a statement that takes leases older than 30 seconds.     *)
(*                                                                         *)
(* A statement is sent, takes effect at the database, and is answered, all *)
(* within MaxDelay.  tokio's interval ticks at once and then at fixed      *)
(* instants: a tick that was missed is made up for immediately (Burst).    *)
(* There is no tick while a loop awaits an answer.  The clock moves only   *)
(* when nothing is due.                                                    *)
(***************************************************************************)
EXTENDS Naturals

CONSTANTS
  Interval,   \* of the heartbeat task
  ReapEvery,  \* of the reaper
  Lease,      \* reap_stale_job's timeout
  MaxDelay,   \* of a statement, its wait for a connection included
  MaxNow      \* bound: the last instant of a behaviour

ASSUME TimingAssumption ==
  {Interval, ReapEvery, Lease, MaxDelay, MaxNow} \subseteq Nat

VARIABLES
  now,
  phase,         \* of the execution
  heartbeat_at,  \* of its row
  since,         \* when its statement in flight was sent
  tick,          \* the next tick of its heartbeat
  reaper,        \* "wait", "sent", "done": its statement in flight
  reap_since,
  reap_tick

executionVars == <<phase, heartbeat_at, since, tick>>
reaperVars    == <<reaper, reap_since, reap_tick>>
timingVars    == <<now, executionVars, reaperVars>>

\* The row is Running, and its handler lives.
Living == {"started",  \* try_start has taken effect
           "wait",     \* between two beats, the program running
           "beat",     \* a beat is sent
           "beaten",   \* it has taken effect
           "finish"}   \* the heartbeat is joined, finish is sent

Phases == Living \cup {"queued",    \* the message has not been handled yet
                       "starting",  \* try_start is sent
                       "over",      \* finish has taken effect
                       "crashed",   \* the handler is gone, the row is Running
                       "reaped"}    \* and now it is Queued

TimingTypeOK ==
  /\ now          \in Nat
  /\ phase        \in Phases
  /\ heartbeat_at \in Nat
  /\ since        \in Nat
  /\ tick         \in Nat
  /\ reaper       \in {"wait", "sent", "done"}
  /\ reap_since   \in Nat
  /\ reap_tick    \in Nat

TimingInit ==
  /\ now = 0
  /\ phase = "queued" /\ heartbeat_at = 0 /\ since = 0 /\ tick = 0
  /\ reaper = "wait" /\ reap_since = 0 /\ reap_tick = 0

-----------------------------------------------------------------------------
(* The execution and its heartbeat.                                        *)

Execution(from, to) == phase = from /\ phase' = to /\ UNCHANGED <<now, reaperVars>>

StartSent ==
  /\ Execution("queued", "starting")
  /\ since' = now
  /\ UNCHANGED <<heartbeat_at, tick>>

StartTakesEffect ==
  /\ Execution("starting", "started")
  /\ heartbeat_at' = now
  /\ UNCHANGED <<since, tick>>

\* Mutant of StartAnswered: interval_at, a first tick after the period.
FirstTickLate ==
  /\ Execution("started", "wait")
  /\ tick' = now + Interval
  /\ UNCHANGED <<heartbeat_at, since>>

\* tokio::time::interval: the first tick is immediate.
StartAnswered ==
  /\ Execution("started", "wait")
  /\ tick' = now
  /\ UNCHANGED <<heartbeat_at, since>>

BeatSent ==
  /\ now >= tick
  /\ Execution("wait", "beat")
  /\ since' = now
  /\ tick'  = tick + Interval
  /\ UNCHANGED heartbeat_at

BeatTakesEffect ==
  /\ Execution("beat", "beaten")
  /\ heartbeat_at' = now
  /\ UNCHANGED <<since, tick>>

BeatAnswered ==
  /\ Execution("beaten", "wait")
  /\ UNCHANGED <<heartbeat_at, since, tick>>

\* The run is over: the heartbeat is cancelled, which waits for a beat in
\* flight, and the verdict is sent.
FinishSent ==
  /\ Execution("wait", "finish")
  /\ since' = now
  /\ UNCHANGED <<heartbeat_at, tick>>

FinishTakesEffect ==
  /\ Execution("finish", "over")
  /\ UNCHANGED <<heartbeat_at, since, tick>>

\* The process dies with its row Running.
HandlerCrashes ==
  /\ \E from \in Living : Execution(from, "crashed")
  /\ UNCHANGED <<heartbeat_at, since, tick>>

-----------------------------------------------------------------------------
(* The reaper.                                                             *)

ReapSent ==
  /\ reaper = "wait" /\ now >= reap_tick
  /\ reaper'     = "sent"
  /\ reap_since' = now
  /\ reap_tick'  = reap_tick + ReapEvery
  /\ UNCHANGED <<now, executionVars>>

Expired == now > heartbeat_at + Lease

ReapTakesEffect ==
  /\ reaper = "sent" /\ reaper' = "done"
  /\ phase' = IF phase \in Living \cup {"crashed"} /\ Expired THEN "reaped" ELSE phase
  /\ UNCHANGED <<now, heartbeat_at, since, tick, reap_since, reap_tick>>

\* Mutant of ReapAnswered: after its work the loop sleeps for the period, where
\* the code awaits the interval's next tick.
ReapAnsweredThenSleeps ==
  /\ reaper = "done" /\ reaper' = "wait"
  /\ reap_tick' = now + ReapEvery
  /\ UNCHANGED <<now, executionVars, reap_since>>

ReapAnswered ==
  /\ reaper = "done" /\ reaper' = "wait"
  /\ UNCHANGED <<now, executionVars, reap_since, reap_tick>>

-----------------------------------------------------------------------------
(* Time.                                                                   *)

InFlight == {"starting", "started", "beat", "beaten", "finish"}

TimePasses ==
  /\ phase \in InFlight      => now < since + MaxDelay
  /\ phase = "wait"          => now < tick
  /\ reaper \in {"sent", "done"} => now < reap_since + MaxDelay
  /\ reaper = "wait"         => now < reap_tick
  /\ now < MaxNow
  /\ now' = now + 1
  /\ UNCHANGED <<executionVars, reaperVars>>

TimingNext ==
  \/ StartSent \/ StartTakesEffect \/ StartAnswered
  \/ BeatSent \/ BeatTakesEffect \/ BeatAnswered
  \/ FinishSent \/ FinishTakesEffect
  \/ HandlerCrashes
  \/ ReapSent \/ ReapTakesEffect \/ ReapAnswered
  \/ TimePasses

TimingSpec == TimingInit /\ [][TimingNext]_timingVars

-----------------------------------------------------------------------------
(* What the distances are for.                                             *)

Larger(a, b) == IF a > b THEN a ELSE b

\* From one beat's effect to the next, or to that of finish, at most.
BeatGap == Larger(Interval, MaxDelay) + MaxDelay

ReapGap == Larger(ReapEvery, MaxDelay) + MaxDelay

\* With 10 and 30 seconds: a statement may take 15.
DelayIsSmall == BeatGap <= Lease

\* While statements are answered in time (DelayIsSmall), no lease of a living
\* handler can be taken, however beats, finish and the reaper fall together (the
\* intervals of handle_message and Reaper::run against the 30 seconds of
\* reap_stale_job).
LivingIsNotReaped == phase \in Living => ~Expired

\* A lease is gone at most one timeout and one round of the reaper after its
\* last renewal: no row stays Running longer without a heartbeat.
DeadIsReapedInTime ==
  phase \in Living \cup {"crashed"} => now <= heartbeat_at + Lease + ReapGap
=============================================================================
