--------------------------- MODULE VerdictProofs ----------------------------
(***************************************************************************)
(* The verdict a job is given is the one its program deserves, and a       *)
(* cleaning leaves the runs of the living alone: for every number of jobs, *)
(* workers, partitions, runs and faults, as long as no member is expelled. *)
(* Statements may fail, processes crash and containers leak.               *)
(***************************************************************************)
EXTENDS SandboxProofs

-----------------------------------------------------------------------------
(* The budget.                                                             *)

WithinBudget == \A kind \in FaultKinds : faults[kind] <= Budget[kind]

Unspent(kind) == faults[kind] = Budget[kind]

\* Nothing is ever put back: what has not been spent after a step was not spent
\* before it, nor by it.
LEMMA StepWithinBudget ==
  ASSUME FaultsTypeOK, WithinBudget, Spends
  PROVE  /\ WithinBudget'
         /\ \A kind \in FaultKinds : Unspent(kind)' => Unspent(kind) /\ ~Fault(kind)
<1>1. CASE UNCHANGED faults
  <2>1. \A kind \in FaultKinds : ~Fault(kind)
    BY <1>1 DEF FaultsTypeOK, Fault
  <2> QED
    BY <1>1, <2>1 DEF WithinBudget, Unspent
<1>2. ASSUME NEW spent \in FaultKinds, Fault(spent)
      PROVE  /\ WithinBudget'
             /\ \A kind \in FaultKinds :
                  Unspent(kind)' => Unspent(kind) /\ ~Fault(kind)
  <2>1. \A kind \in FaultKinds :
          /\ faults[kind] \in Nat /\ Budget[kind] \in Nat
          /\ faults'[kind] = IF kind = spent THEN faults[kind] - 1 ELSE faults[kind]
    BY <1>2, BudgetAssumption DEF FaultsTypeOK, Fault
  <2>2. WithinBudget'
    BY <2>1 DEF WithinBudget
  <2>3. ASSUME NEW kind \in FaultKinds, Unspent(kind)' PROVE Unspent(kind) /\ ~Fault(kind)
    <3>1. kind # spent
      BY <2>1, <2>3 DEF WithinBudget, Unspent
    <3>2. ~Fault(kind)
      BY <1>2, <2>1, <3>1 DEF FaultsTypeOK, Fault
    <3> QED
      BY <2>1, <2>3, <3>1, <3>2 DEF Unspent
  <2> QED
    BY <2>2, <2>3
<1> QED
  BY <1>1, <1>2 DEF Spends

-----------------------------------------------------------------------------
(* The handlers.  A step moves one worker at most: out of its execution, or *)
(* by one of the few steps that matter to a lease.                         *)

Still(w) == UNCHANGED <<pc[w], msg[w], token[w], verdict[w], heartbeat[w]>>

Away(w) == pc'[w] \notin Leased /\ heartbeat'[w] # "beating"

OnLease(w) ==
  \/ \E t \in Tokens : Start(w, t)
  \/ MarkRunning(w)
  \/ \E v \in Verdicts : RunReturns(w, v)
  \/ BeatFindsLeaseLost(w)
  \/ BeatFails(w)

LEMMA HandlerMoves ==
  ASSUME TypeInv, [Next]_vars \/ Beyond, NEW w \in Workers
  PROVE  Still(w) \/ Away(w) \/ OnLease(w)
<1>typed. ConsumerTypeOK /\ InHand
  BY DEF TypeInv, TypeOK
<1> USE <1>typed DEF Still, Away, ConsumerTypeOK
<1>1. ASSUME NEW x \in Workers, NEW to \in PC \ Leased, Goto(x, to), Forget(x)
      PROVE  Still(w) \/ Away(w)
  BY <1>1 DEF Goto, Forget
<1>2. ASSUME NEW x \in Workers, NEW to \in PC \ Leased, Goto(x, to),
             pc[x] \notin {"mark", "run"},
             UNCHANGED heartbeat,
             \A y \in Workers \ {x} : UNCHANGED <<msg[y], token[y], verdict[y]>>
      PROVE  Still(w) \/ Away(w)
  BY <1>2 DEF Goto, InHand
<1>3. ASSUME NEW x \in Workers,
             \/ CleanFails(x) \/ RequeueFails(x) \/ LatencyPanics(x) \/ MarkFails(x)
             \/ RunCancelled(x) \/ FinishRefused(x) \/ FinishFails(x) \/ Commit(x)
             \/ CommitFails(x) \/ DlqFails(x) \/ Crash(x) \/ BreaksOff(x)
             \/ \E t \in Tokens : StartFails(x, t)
      PROVE  Still(w) \/ Away(w)
  <2>1. Forget(x) /\ \E to \in {"poll", "dead", "down"} : Goto(x, to)
    BY <1>3 DEF CleanFails, RequeueFails, LatencyPanics, MarkFails, RunCancelled,
                FinishRefused, FinishFails, Commit, CommitFails, DlqFails, Crash,
                BreaksOff, StartFails, ReturnRetryable, ConsumerEnds
  <2> QED
    BY <1>1, <2>1 DEF PC, Handling, Leased
<1>4. ASSUME NEW x \in Workers,
             \/ CleanOrphans(x) \/ Requeue(x) \/ StartRefused(x) \/ SendToDlq(x)
             \/ Restart(x) \/ FinishJob(x) \/ \E p \in Partitions : Receive(x, p)
      PROVE  Still(w) \/ Away(w)
  <2>1. /\ \E to \in {"poll", "start", "commit", "clean", "dlq", "requeue"} : Goto(x, to)
        /\ pc[x] \notin {"mark", "run"} /\ UNCHANGED heartbeat
    BY <1>4 DEF CleanOrphans, Requeue, StartRefused, SendToDlq, Restart, FinishJob,
                Receive
  <2>2. \A y \in Workers \ {x} : UNCHANGED <<msg[y], token[y], verdict[y]>>
    BY <1>4 DEF CleanOrphans, Requeue, StartRefused, SendToDlq, Restart, FinishJob,
                Receive
  <2> QED
    BY <1>2, <2>1, <2>2 DEF PC, Handling, Leased
<1>5. ASSUME NEW x \in Workers, OnLease(x), x # w PROVE Still(w)
  <2>1. ASSUME NEW v \in Verdicts, RunReturns(x, v) PROVE Still(w)
    <3>1. CASE heartbeat[x] = "failed"
      BY <1>5, <2>1, <3>1 DEF RunReturns, ReturnRetryable, Goto, Forget
    <3>2. CASE heartbeat[x] # "failed"
      BY <1>5, <2>1, <3>2 DEF RunReturns, Goto
    <3> QED
      BY <3>1, <3>2
  <2>2. ASSUME NEW t \in Tokens, Start(x, t) PROVE Still(w)
    BY <1>5, <2>2 DEF Start, Goto
  <2>3. ASSUME MarkRunning(x) \/ BeatFindsLeaseLost(x) \/ BeatFails(x) PROVE Still(w)
    BY <1>5, <2>3 DEF MarkRunning, BeatFindsLeaseLost, BeatFails, Goto
  <2> QED
    BY <1>5, <2>1, <2>2, <2>3 DEF OnLease
<1>6. ASSUME \/ \E x \in Workers : Beat(x)
             \/ \E h \in detached : DetachedBeat(h) \/ DetachedEnds(h)
             \/ \E j \in Jobs : LeaseAges(j)
             \/ RecoveryNext /\ UNCHANGED <<consumerVars, request>>
             \/ ApiNext /\ UNCHANGED <<consumerVars, recoveryVars>>
             \/ GroupNext \/ UNCHANGED vars \/ UNCHANGED judgeVars
      PROVE  Still(w)
  BY <1>6 DEF Beat, DetachedBeat, DetachedEnds, LeaseAges, GroupNext, Expel, Join,
              Rebalance, ForeignRecord, vars, judgeVars, consumerVars
<1>7. ASSUME NEW x \in Workers, OnLease(x) PROVE Still(w) \/ OnLease(w)
  BY <1>5, <1>7
<1>8. CASE Beyond
  BY <1>3, <1>6, <1>8 DEF Beyond
<1>9. CASE ConsumerNext
  BY <1>3, <1>4, <1>6, <1>7, <1>9
     DEF ConsumerNext, ConsumerStep, HandlerStep, HandlerFault, HeartbeatNext, OnLease
<1>10. CASE ProcessNext
  BY <1>3, <1>4, <1>10 DEF ProcessNext
<1> QED
  BY <1>6, <1>8, <1>9, <1>10 DEF Next

\* Who is in "run" after a step has come or stayed there with its message, and
\* its heartbeat task has not begun there.
LEMMA StaysInRun ==
  ASSUME TypeInv, [Next]_vars \/ Beyond, NEW w \in Workers, pc'[w] = "run"
  PROVE  /\ pc[w] \in {"mark", "run"}
         /\ msg'[w] = msg[w] /\ token'[w] = token[w]
         /\ heartbeat'[w] = "beating" => heartbeat[w] = "beating"
<1>typed. ConsumerTypeOK /\ InHand
  BY DEF TypeInv, TypeOK
<1> USE <1>typed DEF ConsumerTypeOK
<1>1. CASE Still(w)
  BY <1>1 DEF Still
<1>2. ASSUME NEW t \in Tokens PROVE ~Start(w, t)
  BY DEF Start, Goto
<1>3. ASSUME NEW v \in Verdicts PROVE ~RunReturns(w, v)
  BY DEF RunReturns, ReturnRetryable, Goto
<1>4. CASE MarkRunning(w)
  BY <1>4 DEF MarkRunning
<1>5. CASE BeatFindsLeaseLost(w) \/ BeatFails(w)
  BY <1>5 DEF BeatFindsLeaseLost, BeatFails, InHand
<1> QED
  BY <1>1, <1>2, <1>3, <1>4, <1>5, HandlerMoves DEF Away, OnLease, Leased

-----------------------------------------------------------------------------
(* The row.  Between try_start and finish nobody writes it but its handler  *)
(* and, once the lease is stale, the reaper.                                *)

\* Who has taken a lease, has taken it of a row that is there.
Rowed == \A w \in Workers : pc[w] \in Leased => status[JobOf(w)] # NULL

LEMMA StepRowed == TypeInv /\ Rowed /\ ([Next]_vars \/ Beyond) => Rowed'
<1> SUFFICES ASSUME TypeInv, Rowed, [Next]_vars \/ Beyond, NEW w \in Workers, pc'[w] \in Leased
             PROVE  status'[JobOf(w)'] # NULL
  BY DEF Rowed
<1>typed. StoreTypeOK /\ ConsumerTypeOK /\ InHand
  BY DEF TypeInv, TypeOK
<1>1. ASSUME NEW j \in Jobs, status[j] # NULL PROVE status'[j] # NULL
  <2>1. [StoreNext]_storeVars
    BY StepIsStatement, BeyondIsNoStatement
  <2> QED
    BY <1>typed, <1>1, <2>1, NullAssumption, VerdictsAssumption
       DEF StoreNext, storeVars, Create, UpdateStatus, TryStart, Heartbeat, Finish,
           ReapStaleJob, SetStale, MarkOutboxPublished, LeaseExpires, StoreTypeOK, Status,
           Final
<1>2. ASSUME pc[w] \in Leased, msg'[w] = msg[w] PROVE status'[JobOf(w)'] # NULL
  BY <1>typed, <1>1, <1>2 DEF Rowed, InHand, AtWork, Leased, JobOf
<1>3. ASSUME NEW t \in Tokens, Start(w, t) PROVE status'[JobOf(w)'] # NULL
  BY <1>typed, <1>3, NullAssumption
     DEF Start, TryStart, JobOf, InHand, AtWork, StoreTypeOK, Status
<1>4. CASE Still(w)
  BY <1>2, <1>4 DEF Still
<1>5. ASSUME NEW v \in Verdicts, RunReturns(w, v) PROVE status'[JobOf(w)'] # NULL
  BY <1>typed, <1>2, <1>5
     DEF RunReturns, ReturnRetryable, Goto, Forget, Leased, ConsumerTypeOK
<1>6. CASE MarkRunning(w) \/ BeatFindsLeaseLost(w) \/ BeatFails(w)
  BY <1>2, <1>6, <1>typed DEF MarkRunning, BeatFindsLeaseLost, BeatFails, InHand, Leased
<1> QED
  BY <1>3, <1>4, <1>5, <1>6, HandlerMoves DEF Away, OnLease

\* What a step may do to the row of a handler that does not move.
Untouched(j) ==
  \/ UNCHANGED <<status[j], lock_token[j], worker_id[j]>>
  \/ heartbeat_at[j] = "stale" /\ Owed(j)'

LEMMA RowIsLeftAlone ==
  ASSUME TypeInv, Exclusion, Rowed, NEW w \in Workers, NEW j \in Jobs,
         pc[w] \in Leased, JobOf(w) = j, UNCHANGED pc[w], [Next]_vars \/ Beyond
  PROVE  Untouched(j)
<1>typed. /\ StoreTypeOK /\ ConsumerTypeOK /\ InHand
          /\ pc[w] \in AtWork
  BY DEF TypeInv, TypeOK, Leased, InHand, AtWork
<1> USE <1>typed DEF Untouched, StoreTypeOK
<1>1. CASE UNCHANGED storeVars
  BY <1>1 DEF storeVars
\* The other handlers work on other jobs.
<1>2. ASSUME NEW x \in Workers \ {w}, pc[x] \in AtWork
      PROVE  JobOf(x) \in Jobs /\ JobOf(x) # j
  BY <1>2, Alone DEF InHand
<1>3. ASSUME NEW x \in Workers \ {w}, pc[x] \in AtWork,
             \/ \E s \in {"Queued", "Running"} : UpdateStatus(JobOf(x), s)
             \/ \E t \in Tokens : TryStart(JobOf(x), x, t)
             \/ Finish(JobOf(x), verdict[x], token[x])
      PROVE  Untouched(j)
  BY <1>2, <1>3 DEF UpdateStatus, TryStart, Finish
<1>4. ASSUME NEW x \in Workers,
             \/ Requeue(x) \/ RequeueFails(x) \/ MarkRunning(x) \/ MarkFails(x)
             \/ FinishJob(x) \/ FinishFails(x)
             \/ \E t \in Tokens : Start(x, t) \/ StartFails(x, t)
      PROVE  Untouched(j)
  <2>1. x # w
    <3>1. pc'[x] # pc[x]
      BY <1>4 DEF Requeue, RequeueFails, MarkRunning, MarkFails, FinishJob, FinishFails,
                  Start, StartFails, ReturnRetryable, Goto, ConsumerTypeOK
    <3> QED
      BY <3>1
  <2>2. pc[x] \in AtWork
    BY <1>4 DEF Requeue, RequeueFails, MarkRunning, MarkFails, FinishJob, FinishFails,
                Start, StartFails, AtWork
  <2>3. \/ \E s \in {"Queued", "Running"} : UpdateStatus(JobOf(x), s)
        \/ \E t \in Tokens : TryStart(JobOf(x), x, t)
        \/ Finish(JobOf(x), verdict[x], token[x])
        \/ UNCHANGED storeVars
    BY <1>4 DEF Requeue, RequeueFails, MarkRunning, MarkFails, FinishJob, FinishFails,
                Start, StartFails, FailsUnsure
  <2> QED
    BY <1>1, <1>3, <2>1, <2>2, <2>3
\* Heartbeats and the clock move heartbeat_at only.
<1>5. ASSUME NEW k, NEW t, Heartbeat(k, t) \/ LeaseExpires(k) PROVE Untouched(j)
  BY <1>5 DEF Heartbeat, LeaseExpires
<1>6. CASE HeartbeatNext
  BY <1>1, <1>5, <1>6
     DEF HeartbeatNext, Beat, BeatFindsLeaseLost, DetachedBeat, DetachedEnds, LeaseAges,
         FailsUnsure
<1>7. ASSUME NEW x \in Workers, BeatFails(x) PROVE Untouched(j)
  BY <1>1, <1>5, <1>7 DEF BeatFails, FailsUnsure
<1>8. ASSUME NEW x \in Workers,
             \/ CleanOrphans(x) \/ CleanFails(x) \/ LatencyPanics(x) \/ StartRefused(x)
             \/ RunCancelled(x) \/ FinishRefused(x) \/ Commit(x) \/ CommitFails(x)
             \/ SendToDlq(x) \/ DlqFails(x) \/ Crash(x) \/ Restart(x)
             \/ \E p \in Partitions : Receive(x, p)
             \/ \E v \in Verdicts : RunReturns(x, v)
      PROVE  Untouched(j)
  <2>1. UNCHANGED storeVars
    BY <1>8 DEF CleanOrphans, CleanFails, LatencyPanics, StartRefused, RunCancelled,
                FinishRefused, Commit, CommitFails, SendToDlq, DlqFails, Crash,
                Restart, Receive, RunReturns
  <2> QED
    BY <1>1, <2>1
<1>9. CASE ConsumerNext
  BY <1>4, <1>6, <1>7, <1>8, <1>9
     DEF ConsumerNext, ConsumerStep, HandlerStep, HandlerFault
\* The reaper takes what is stale, and leaves an event for it.
<1>10. CASE ReapStaleJob
  <2>1. CASE j \in Stale
    <3>1. [created_at |-> reap_time + 1, job_id |-> j] \in outbox'
      BY <1>10, <2>1 DEF ReapStaleJob
    <3> QED
      BY <2>1, <3>1 DEF Stale, Owed
  <2>2. CASE j \notin Stale
    BY <1>10, <2>2 DEF ReapStaleJob, SetStale
  <2> QED
    BY <2>1, <2>2
<1>11. CASE RecoveryNext
  <2>1. ReapStaleJob \/ UNCHANGED storeVars \/ \E r : MarkOutboxPublished(r)
    BY <1>11 DEF RecoveryNext, Reap, ReapFails, PublisherStep, FetchOutbox, PublishRow,
                 PublishRowFails, MarkPublished, PublisherFails
  <2> QED
    BY <1>1, <1>10, <2>1 DEF MarkOutboxPublished
<1>12. CASE ApiNext
  <2>1. UNCHANGED storeVars \/ \E k \in Jobs : Create(k)
    BY <1>12 DEF ApiNext, CreateJob, CreateFails, SendMessage, SendFails
  <2> QED
    BY <1>1, <2>1 DEF Create, Rowed
<1>13. CASE GroupNext \/ UNCHANGED vars \/ Beyond
  BY <1>1, <1>13, BeyondIsNoStatement
     DEF GroupNext, Expel, Join, Rebalance, ForeignRecord, vars
<1>14. CASE ProcessNext
  BY <1>8, <1>14 DEF ProcessNext
<1> QED
  BY <1>9, <1>11, <1>12, <1>13, <1>14 DEF Next

-----------------------------------------------------------------------------
(* The lease.  While nobody has stalled past it, the lease of a handler     *)
(* that renews it, or has just stopped renewing to finish, is its own and   *)
(* fresh.                                                                   *)

Renewing(w) == heartbeat[w] = "beating" \/ pc[w] = "finish"

LeaseOf(w) == HoldsLease(JobOf(w), token[w]) /\ heartbeat_at[JobOf(w)] = "fresh"

LeaseInv ==
  \A w \in Workers :
    /\ pc[w] \in {"mark", "run"} => heartbeat[w] \in {"beating", "failed"}
    /\ Renewing(w) => LeaseOf(w)

\* The row of w after a step, in the terms w had before it.
RowKept(w) ==
  /\ status'[JobOf(w)] = "Running"
  /\ lock_token'[JobOf(w)] = token[w]
  /\ heartbeat_at'[JobOf(w)] = "fresh"

\* A fresh lease goes when its holder finishes, or by a stall; never by the
\* statements of other handlers, by the reaper, or by a job that is created.
LEMMA RowIsKept ==
  ASSUME TypeInv, Exclusion, NEW w \in Workers, Renewing(w), LeaseOf(w),
         [Next]_vars \/ Beyond, ~Fault("stall")
  PROVE  RowKept(w) \/ Away(w)
<1>typed. /\ StoreTypeOK /\ ConsumerTypeOK /\ InHand
          /\ pc[w] \in {"mark", "run", "finish"} /\ JobOf(w) \in Jobs
  BY DEF TypeInv, TypeOK, Renewing, InHand, AtWork
<1> USE <1>typed, NullAssumption DEF LeaseOf, HoldsLease, RowKept, StoreTypeOK, Status
<1>1. ASSUME UNCHANGED storeVars PROVE RowKept(w)
  BY <1>1 DEF storeVars
\* Who works on the same job is w.
<1>2. ASSUME NEW x \in Workers, pc[x] \in AtWork
      PROVE  JobOf(x) \in Jobs /\ (JobOf(x) = JobOf(w) => x = w)
  BY <1>2, Alone DEF InHand, AtWork
<1>3. ASSUME NEW x \in Workers,
             \/ Requeue(x) \/ RequeueFails(x)
             \/ \E t \in Tokens : Start(x, t) \/ StartFails(x, t)
      PROVE  RowKept(w)
  <2>1. pc[x] \in {"requeue", "start"}
    BY <1>3 DEF Requeue, RequeueFails, Start, StartFails
  <2>2. JobOf(x) \in Jobs /\ JobOf(x) # JobOf(w)
    BY <1>2, <2>1 DEF AtWork
  <2>3. \/ UpdateStatus(JobOf(x), "Queued") \/ UNCHANGED storeVars
        \/ \E t \in Tokens : TryStart(JobOf(x), x, t)
    BY <1>3 DEF Requeue, RequeueFails, Start, StartFails, FailsUnsure
  <2> QED
    BY <1>1, <2>2, <2>3 DEF UpdateStatus, TryStart
<1>4. ASSUME NEW x \in Workers, MarkRunning(x) \/ MarkFails(x) PROVE RowKept(w)
  <2>1. UpdateStatus(JobOf(x), "Running") \/ UNCHANGED storeVars
    BY <1>4 DEF MarkRunning, MarkFails, FailsUnsure
  <2> QED
    BY <1>1, <2>1 DEF UpdateStatus
<1>5. ASSUME NEW x \in Workers, FinishJob(x) \/ FinishFails(x)
      PROVE  RowKept(w) \/ Away(w)
  <2>1. pc[x] = "finish" /\ (Finish(JobOf(x), verdict[x], token[x]) \/ UNCHANGED storeVars)
    BY <1>5 DEF FinishJob, FinishFails, FailsUnsure
  <2>2. CASE JobOf(x) # JobOf(w)
    BY <1>1, <2>1, <2>2 DEF Finish
  <2>3. CASE JobOf(x) = JobOf(w)
    <3>1. x = w /\ heartbeat[w] # "beating"
      BY <1>2, <2>1, <2>3 DEF AtWork, InHand
    <3> QED
      BY <1>5, <3>1 DEF FinishJob, FinishFails, ReturnRetryable, Goto, Forget, Away,
                        Leased, ConsumerTypeOK
  <2> QED
    BY <2>2, <2>3
\* The heartbeats and the clock.
<1>6. ASSUME NEW j, NEW t, Heartbeat(j, t) PROVE RowKept(w)
  BY <1>6 DEF Heartbeat
<1>7. ASSUME NEW j \in Jobs, LeaseAges(j) PROVE RowKept(w)
  <2>1. j # JobOf(w)
    BY <1>7 DEF LeaseAges, Renewed, Renewing
  <2> QED
    BY <1>7, <2>1 DEF LeaseAges, LeaseExpires
<1>8. CASE HeartbeatNext
  BY <1>1, <1>6, <1>7, <1>8
     DEF HeartbeatNext, Beat, BeatFindsLeaseLost, DetachedBeat, DetachedEnds, FailsUnsure
<1>9. ASSUME NEW x \in Workers,
             \/ CleanOrphans(x) \/ CleanFails(x) \/ LatencyPanics(x) \/ StartRefused(x)
             \/ RunCancelled(x) \/ FinishRefused(x) \/ Commit(x) \/ CommitFails(x)
             \/ SendToDlq(x) \/ DlqFails(x) \/ Crash(x) \/ Restart(x)
             \/ \E p \in Partitions : Receive(x, p)
             \/ \E v \in Verdicts : RunReturns(x, v)
      PROVE  RowKept(w)
  <2>1. UNCHANGED storeVars
    BY <1>9 DEF CleanOrphans, CleanFails, LatencyPanics, StartRefused, RunCancelled,
                FinishRefused, Commit, CommitFails, SendToDlq, DlqFails, Crash,
                Restart, Receive, RunReturns
  <2> QED
    BY <1>1, <2>1
<1>10. ASSUME NEW x \in Workers, BeatFails(x) PROVE RowKept(w)
  BY <1>1, <1>6, <1>10 DEF BeatFails, FailsUnsure
\* The reaper and the others.
<1>11. CASE RecoveryNext
  <2>1. \/ ReapStaleJob \/ UNCHANGED storeVars \/ \E r : MarkOutboxPublished(r)
    BY <1>11 DEF RecoveryNext, Reap, ReapFails, PublisherStep, FetchOutbox, PublishRow,
                 PublishRowFails, MarkPublished, PublisherFails
  <2>2. ASSUME ReapStaleJob PROVE RowKept(w)
    BY <2>2 DEF ReapStaleJob, SetStale, Stale
  <2> QED
    BY <1>1, <2>1, <2>2 DEF MarkOutboxPublished
<1>12. CASE ApiNext
  <2>1. UNCHANGED storeVars \/ \E j \in Jobs : Create(j)
    BY <1>12 DEF ApiNext, CreateJob, CreateFails, SendMessage, SendFails
  <2> QED
    BY <1>1, <2>1 DEF Create
<1>13. CASE GroupNext \/ UNCHANGED vars \/ Beyond
  BY <1>1, <1>13, BeyondIsNoStatement
     DEF GroupNext, Expel, Join, Rebalance, ForeignRecord, vars
<1>14. CASE ConsumerNext
  BY <1>3, <1>4, <1>5, <1>8, <1>9, <1>10, <1>14
     DEF ConsumerNext, ConsumerStep, HandlerStep, HandlerFault
<1>15. CASE ProcessNext
  BY <1>9, <1>15 DEF ProcessNext
<1> QED
  BY <1>11, <1>12, <1>13, <1>14, <1>15 DEF Next

LEMMA StepLeased ==
  ASSUME TypeInv, Exclusion, LeaseInv, [Next]_vars \/ Beyond, ~Fault("stall")
  PROVE  LeaseInv'
<1> SUFFICES ASSUME NEW w \in Workers
             PROVE  /\ pc'[w] \in {"mark", "run"} =>
                         heartbeat'[w] \in {"beating", "failed"}
                    /\ Renewing(w)' => LeaseOf(w)'
  BY DEF LeaseInv
<1>typed. StoreTypeOK /\ ConsumerTypeOK /\ InHand
  BY DEF TypeInv, TypeOK
<1> USE <1>typed DEF ConsumerTypeOK
\* A handler that goes on renews as before, or has it from one of its steps.
<1>1. ASSUME Renewing(w), msg'[w] = msg[w], token'[w] = token[w], ~Away(w)
      PROVE  LeaseOf(w)'
  <2>1. RowKept(w)
    BY <1>1, RowIsKept DEF LeaseInv
  <2> QED
    BY <1>1, <2>1 DEF RowKept, LeaseOf, HoldsLease, JobOf
<1>2. CASE Away(w)
  BY <1>2 DEF Away, Leased, Renewing
<1>3. CASE Still(w)
  BY <1>1, <1>2, <1>3 DEF Still, LeaseInv, Renewing
<1>4. ASSUME NEW t \in Tokens, Start(w, t) PROVE heartbeat'[w] = "beating" /\ LeaseOf(w)'
  BY <1>4 DEF Start, TryStart, InHand, AtWork, LeaseOf, HoldsLease, JobOf, StoreTypeOK
<1>5. CASE MarkRunning(w)
  BY <1>1, <1>2, <1>5 DEF MarkRunning, Goto, LeaseInv, Renewing
<1>6. ASSUME NEW v \in Verdicts, RunReturns(w, v), ~Away(w)
      PROVE  pc'[w] = "finish" /\ LeaseOf(w)'
  <2>1. /\ heartbeat[w] # "failed" /\ pc[w] = "run" /\ pc'[w] = "finish"
        /\ UNCHANGED <<msg, token>>
    BY <1>6 DEF RunReturns, ReturnRetryable, Goto, Forget, Away, Leased
  <2>2. Renewing(w)
    BY <2>1 DEF LeaseInv, Renewing
  <2> QED
    BY <1>1, <1>6, <2>1, <2>2
<1>7. ~BeatFindsLeaseLost(w)
  BY DEF BeatFindsLeaseLost, LeaseInv, Renewing, LeaseOf
<1>8. CASE BeatFails(w)
  BY <1>8 DEF BeatFails, Renewing, InHand
<1> QED
  BY <1>2, <1>3, <1>4, <1>5, <1>6, <1>7, <1>8, HandlerMoves DEF OnLease

-----------------------------------------------------------------------------
(* Docker and the disk.  Whatever a worker does there, it takes only what   *)
(* it has in hand, and labels a container with its own job only.            *)

Listed == {<<x, container[x]>> : x \in {y \in Runs : Exists(y)}}

Effects(v) ==
  /\ UNCHANGED program
  /\ \A w \in Workers \ {v} : UNCHANGED <<at[w], run[w], outcome[w], sweep[w]>>
  /\ \/ UNCHANGED container
     \/ /\ at[v] \in RunSteps \cup CleanSteps /\ at'[v] # at[v]
        /\ \E label \in Jobs \cup {NULL} :
             /\ container' = [container EXCEPT ![run[v]] = label]
             /\ label # NULL => at[v] \in RunSteps /\ label = JobOf(v)
  /\ \/ directory \subseteq directory'
     \/ /\ at[v] \in RunSteps \cup CleanSteps /\ at'[v] # at[v]
        /\ directory' = directory \ {run[v]}
  /\ sweep'[v] \subseteq sweep[v] \cup Listed

LEMMA RunStepEffects ==
  ASSUME SandboxInv, NEW v \in Workers,
         Running(v) \/ RunningFails(v) \/ CancelRun(v)
  PROVE  Effects(v)
<1> USE DEF SandboxInv, DockerTypeOK, RunSteps, CleanSteps, Step, CallFails,
            ReturnsError, Effects
<1>1. at[v] \in RunSteps => JobOf(v) \in Jobs
  BY DEF Nested, TypeInv, InHand, AtWork
<1>2. ASSUME \/ \E x \in Runs : NewWorkspace(v, x)
             \/ WorkspaceFails(v) \/ StartContainer(v) \/ ContainerNotStarted(v)
      PROVE  Effects(v)
  BY <1>2 DEF NewWorkspace, WorkspaceFails, StartContainer, ContainerNotStarted
<1>3. ASSUME CreateContainer(v, JobOf(v)) PROVE Effects(v)
  BY <1>1, <1>3 DEF CreateContainer
<1>4. ASSUME ContainerNotCreated(v, JobOf(v)) PROVE Effects(v)
  BY <1>1, <1>4 DEF ContainerNotCreated
<1>5. ASSUME Compile(v, JobOf(v)) PROVE Effects(v)
  <2>1. /\ \E to \in {"execute", "cleanup"} : at' = [at EXCEPT ![v] = to]
        /\ \E o \in {VerdictOn(Ends(v, program[JobOf(v)].compile), "CompileError"),
                     outcome[v]} : outcome' = [outcome EXCEPT ![v] = o]
        /\ UNCHANGED <<program, directory, container, run, sweep>>
    BY <1>5 DEF Compile
  <2> QED
    BY <2>1
<1>6. ASSUME \/ Execute(v, JobOf(v)) \/ Cancel(v)
             \/ \E from \in {"compile", "execute"} : ExecFails(v, from)
      PROVE  Effects(v)
  <2>1. /\ at' = [at EXCEPT ![v] = "cleanup"]
        /\ \E o : outcome' = [outcome EXCEPT ![v] = o]
        /\ UNCHANGED <<program, directory, container, run, sweep>>
    BY <1>6 DEF Execute, Cancel, ExecFails
  <2> QED
    BY <2>1
<1>7. ASSUME CleanUp(v) \/ CleanUpFails(v) PROVE Effects(v)
  BY <1>7 DEF CleanUp, CleanUpFails
<1> HIDE DEF Effects
<1> QED
  BY <1>2, <1>3, <1>4, <1>5, <1>6, <1>7
     DEF Running, RunningFails, CancelRun, RunStep, RunFault

LEMMA CleanStepEffects ==
  ASSUME SandboxInv, NEW v \in Workers, Cleaning(v) \/ CleaningStumbles(v)
  PROVE  Effects(v)
<1> USE DEF SandboxInv, DockerTypeOK, RunSteps, CleanSteps, Step, CallFails, Effects
<1>1. ASSUME ListContainers(v) PROVE Effects(v)
  BY <1>1 DEF ListContainers, Listed
<1>2. ASSUME NEW x \in Runs, NEW j \in Jobs, AskAlive(v, x, j) PROVE Effects(v)
  <2>1. /\ sweep' = [sweep EXCEPT ![v] = @ \ {<<x, j>>}]
        /\ UNCHANGED <<program, directory, container, outcome>>
    BY <1>2 DEF AskAlive
  <2>2. \/ UNCHANGED <<at, run>>
        \/ at' = [at EXCEPT ![v] = "inspect"] /\ run' = [run EXCEPT ![v] = x]
    BY <1>2 DEF AskAlive
  <2> QED
    BY <2>1, <2>2
<1>3. ASSUME InspectOrphan(v) \/ RemoveOrphan(v) \/ RemoveOrphanFails(v)
      PROVE  Effects(v)
  BY <1>3 DEF InspectOrphan, RemoveOrphan, RemoveOrphanFails
<1>4. ASSUME RemoveWorkspace(v) \/ RemoveWorkspaceFails(v) PROVE Effects(v)
  BY <1>4 DEF RemoveWorkspace, RemoveWorkspaceFails
<1> HIDE DEF Effects
<1> QED
  BY <1>1, <1>2, <1>3, <1>4 DEF Cleaning, CleaningStumbles, CleanStep, CleanFault

LEMMA TurnEffects ==
  ASSUME SandboxInv, NEW v \in Workers,
         \/ BeginRun(v) \/ EndRun(v) \/ EndCleaning(v) \/ BreakCleaning(v)
         \/ CrashInRun(v) \/ RestartCleaning(v)
  PROVE  Effects(v)
<1> USE DEF SandboxInv, DockerTypeOK, RunSteps, CleanSteps, Step, Effects
<1>1. ASSUME BeginRun(v) \/ EndCleaning(v) \/ RestartCleaning(v) PROVE Effects(v)
  <2>1. /\ \E to \in {"workspace", "idle", "list"} : at' = [at EXCEPT ![v] = to]
        /\ UNCHANGED <<program, directory, container, run, outcome, sweep>>
    BY <1>1 DEF BeginRun, CallRunRust, EndCleaning, CleaningDone, RestartCleaning
  <2> QED
    BY <2>1
<1>2. ASSUME EndRun(v) PROVE Effects(v)
  BY <1>2 DEF EndRun, Return
<1>3. ASSUME BreakCleaning(v) \/ CrashInRun(v) PROVE Effects(v)
  <2>1. Abandon(v)
    BY <1>3 DEF BreakCleaning, CleaningEnds, CrashInRun
  <2> QED
    BY <2>1 DEF Abandon
<1> HIDE DEF Effects
<1> QED
  BY <1>1, <1>2, <1>3

LEMMA StepEffects ==
  ASSUME SandboxInv, [SandboxNext]_sandboxVars
  PROVE  UNCHANGED dockerVars \/ \E v \in Workers : Effects(v)
BY RunStepEffects, CleanStepEffects, TurnEffects
   DEF SandboxNext, WorkerStep, WorkerFault, sandboxVars

\* A container, or a directory, is taken away by one who has it in hand and
\* moves on.
LEMMA TakenByItsHolder ==
  ASSUME SandboxInv, [SandboxNext]_sandboxVars, NEW x \in Runs
  PROVE  \/ container'[x] = container[x] /\ (x \in directory => x \in directory')
         \/ \E v \in Workers :
              at[v] \in RunSteps \cup CleanSteps /\ run[v] = x /\ at'[v] # at[v]
<1>1. CASE UNCHANGED dockerVars
  BY <1>1 DEF dockerVars
<1>2. ASSUME NEW v \in Workers, Effects(v)
      PROVE  \/ container'[x] = container[x] /\ (x \in directory => x \in directory')
             \/ at[v] \in RunSteps \cup CleanSteps /\ run[v] = x /\ at'[v] # at[v]
  BY <1>2 DEF Effects, SandboxInv, DockerTypeOK
<1> QED
  BY <1>1, <1>2, StepEffects

\* One who is in run_rust after a step has made a step of it, or none.
RunMoves(w) == Running(w) \/ RunningFails(w) \/ CancelRun(w)

LEMMA StepOfRun ==
  ASSUME SandboxInv, [SandboxNext]_sandboxVars, NEW w \in Workers, at'[w] \in RunSteps
  PROVE  UNCHANGED <<at[w], run[w], outcome[w]>> \/ BeginRun(w) \/ RunMoves(w)
<1> USE DEF SandboxInv, DockerTypeOK, RunSteps, CleanSteps, Step
<1>1. CASE UNCHANGED dockerVars
  BY <1>1 DEF dockerVars
<1>2. ASSUME NEW v \in Workers, v # w, Effects(v)
      PROVE  UNCHANGED <<at[w], run[w], outcome[w]>>
  BY <1>2 DEF Effects
<1>3. ~Cleaning(w) /\ ~CleaningStumbles(w)
  <2>1. ASSUME CleanStep(w) \/ CleanFault(w) PROVE at'[w] \in CleanSteps
    <3>1. ASSUME NEW x \in Runs, NEW j \in Jobs, AskAlive(w, x, j)
          PROVE  at'[w] \in CleanSteps
      BY <3>1 DEF AskAlive
    <3>2. ASSUME \/ ListContainers(w) \/ InspectOrphan(w) \/ RemoveOrphan(w)
                 \/ RemoveWorkspace(w) \/ RemoveOrphanFails(w) \/ RemoveWorkspaceFails(w)
          PROVE  at'[w] \in CleanSteps
      BY <3>2 DEF ListContainers, InspectOrphan, RemoveOrphan, RemoveWorkspace,
                  RemoveOrphanFails, RemoveWorkspaceFails
    <3> QED
      BY <2>1, <3>1, <3>2 DEF CleanStep, CleanFault
  <2> QED
    BY <2>1 DEF Cleaning, CleaningStumbles
<1>4. /\ ~EndRun(w) /\ ~EndCleaning(w) /\ ~RestartCleaning(w)
      /\ ~BreakCleaning(w) /\ ~CrashInRun(w)
  <2>1. ~Abandon(w)
    BY DEF Abandon
  <2> QED
    BY <2>1 DEF EndRun, Return, EndCleaning, CleaningDone, RestartCleaning,
                BreakCleaning, CleaningEnds, CrashInRun
<1>5. ASSUME NEW v \in Workers,
             \/ RunMoves(v) \/ BeginRun(v) \/ EndRun(v) \/ EndCleaning(v)
             \/ RestartCleaning(v) \/ BreakCleaning(v) \/ CrashInRun(v)
             \/ Cleaning(v) \/ CleaningStumbles(v)
      PROVE  Effects(v)
  BY <1>5, RunStepEffects, CleanStepEffects, TurnEffects DEF RunMoves
<1> HIDE DEF SandboxInv, DockerTypeOK, RunSteps, CleanSteps, Step
<1> QED
  BY <1>1, <1>2, <1>3, <1>4, <1>5
     DEF SandboxNext, WorkerStep, WorkerFault, RunMoves, sandboxVars

\* What it has in hand it had before, or it has just named it.
LEMMA RunInHand ==
  ASSUME SandboxInv, [SandboxNext]_sandboxVars, NEW w \in Workers,
         at'[w] \in RunSteps, run'[w] # NULL
  PROVE  \/ at[w] \in RunSteps /\ run'[w] = run[w]
         \/ \E x \in Runs : NewWorkspace(w, x)
<1> USE DEF SandboxInv, DockerTypeOK, RunSteps, CleanSteps, Step, CallFails, ReturnsError
<1>1. CASE UNCHANGED <<at[w], run[w], outcome[w]>>
  BY <1>1
<1>2. CASE BeginRun(w)
  BY <1>2 DEF BeginRun, CallRunRust, Nested
<1>3. ASSUME Compile(w, JobOf(w)) PROVE at[w] \in RunSteps /\ run'[w] = run[w]
  BY <1>3 DEF Compile
<1>4. ASSUME \/ WorkspaceFails(w) \/ CreateContainer(w, JobOf(w))
             \/ ContainerNotCreated(w, JobOf(w)) \/ StartContainer(w)
             \/ ContainerNotStarted(w) \/ Execute(w, JobOf(w))
             \/ \E from \in {"compile", "execute"} : ExecFails(w, from)
             \/ Cancel(w) \/ CleanUp(w) \/ CleanUpFails(w)
      PROVE  at[w] \in RunSteps /\ run'[w] = run[w]
  BY <1>4 DEF WorkspaceFails, CreateContainer, ContainerNotCreated, StartContainer,
              ContainerNotStarted, Execute, ExecFails, Cancel, CleanUp, CleanUpFails
<1> HIDE DEF SandboxInv, DockerTypeOK, RunSteps, CleanSteps, Step
<1> QED
  BY <1>1, <1>2, <1>3, <1>4, StepOfRun
     DEF RunMoves, Running, RunningFails, CancelRun, RunStep, RunFault

\* One who is cleaning has the orphan in hand that it had before, or one it has
\* listed and whose job it has just found without a living execution.
LEMMA OrphanInHand ==
  ASSUME SandboxInv, [SandboxNext]_sandboxVars, NEW v \in Workers,
         at'[v] \in CleanSteps, run'[v] # NULL
  PROVE  \/ at[v] \in CleanSteps /\ run'[v] = run[v]
         \/ \E j \in Jobs : <<run'[v], j>> \in sweep[v] /\ ~ExecutionAlive(j)
<1> USE DEF SandboxInv, DockerTypeOK, CleanSteps, Step, CallFails
<1>pc. pc \in [Workers -> PC] /\ pc'[v] = "clean"
  BY SandboxStepInv DEF TypeInv, TypeOK, ConsumerTypeOK, Nested
<1>1. CASE UNCHANGED dockerVars
  BY <1>1 DEF dockerVars
<1>2. ASSUME NEW u \in Workers, u # v, Effects(u)
      PROVE  at[v] \in CleanSteps /\ run'[v] = run[v]
  BY <1>2 DEF Effects
<1>3. ~RunMoves(v)
  <2>1. RunMoves(v) => at[v] \in RunSteps /\ UNCHANGED judgeVars
    BY DEF RunMoves, Running, RunningFails, CancelRun, Cancel, RunSteps
  <2> QED
    BY <1>pc, <2>1 DEF Nested, judgeVars, consumerVars
<1>4. ~BeginRun(v) /\ ~EndRun(v) /\ ~EndCleaning(v) /\ ~BreakCleaning(v) /\ ~CrashInRun(v)
  BY <1>pc DEF BeginRun, MarkRunning, EndRun, RunReturns, RunCancelled, ReturnRetryable,
               EndCleaning, CleanOrphans, BreakCleaning, ConsumerEnds, CrashInRun, Crash,
               Goto
<1>5. ~RestartCleaning(v)
  BY DEF RestartCleaning, Nested
<1>6. ASSUME NEW x \in Runs, NEW j \in Jobs, AskAlive(v, x, j)
      PROVE  \/ at[v] \in CleanSteps /\ run'[v] = run[v]
             \/ <<run'[v], j>> \in sweep[v] /\ ~ExecutionAlive(j)
  BY <1>6 DEF AskAlive
<1>7. ASSUME \/ ListContainers(v) \/ InspectOrphan(v) \/ RemoveOrphan(v)
             \/ RemoveOrphanFails(v) \/ RemoveWorkspace(v) \/ RemoveWorkspaceFails(v)
      PROVE  at[v] \in CleanSteps /\ run'[v] = run[v]
  BY <1>7 DEF ListContainers, InspectOrphan, RemoveOrphan, RemoveOrphanFails,
              RemoveWorkspace, RemoveWorkspaceFails
<1>8. ASSUME NEW u \in Workers,
             \/ RunMoves(u) \/ BeginRun(u) \/ EndRun(u) \/ EndCleaning(u)
             \/ RestartCleaning(u) \/ BreakCleaning(u) \/ CrashInRun(u)
             \/ Cleaning(u) \/ CleaningStumbles(u)
      PROVE  Effects(u)
  BY <1>8, RunStepEffects, CleanStepEffects, TurnEffects DEF RunMoves
<1> HIDE DEF SandboxInv, DockerTypeOK, CleanSteps, Step, CallFails
<1>9. ASSUME NEW u \in Workers, Effects(u), WorkerStep(u) \/ WorkerFault(u),
             ~UNCHANGED dockerVars
      PROVE  \/ at[v] \in CleanSteps /\ run'[v] = run[v]
             \/ \E j \in Jobs : <<run'[v], j>> \in sweep[v] /\ ~ExecutionAlive(j)
  <2>1. CASE u # v
    BY <1>2, <1>9, <2>1
  <2>2. CASE u = v
    <3>1. CleanStep(v) \/ CleanFault(v)
      BY <1>3, <1>4, <1>5, <1>9, <2>2
         DEF WorkerStep, WorkerFault, RunMoves, Cleaning, CleaningStumbles
    <3> QED
      BY <1>6, <1>7, <3>1 DEF CleanStep, CleanFault
  <2> QED
    BY <2>1, <2>2
<1> QED
  BY <1>1, <1>8, <1>9 DEF SandboxNext, WorkerStep, WorkerFault, RunMoves, sandboxVars

\* The label of x, and what the cleanings have read of it, name job j.
Label(x, j) ==
  /\ container[x] \in {NULL, j}
  /\ \A v \in Workers, k \in Jobs : <<x, k>> \in sweep[v] => k = j

Labelled ==
  \A w \in Workers : at[w] \in RunSteps /\ run[w] # NULL => Label(run[w], JobOf(w))

LEMMA LabelIsKept ==
  ASSUME SandboxInv, [SandboxNext]_sandboxVars, NEW x \in Runs, NEW j \in Jobs,
         Label(x, j),
         \A v \in Workers : at[v] \in RunSteps /\ run[v] = x => JobOf(v) = j
  PROVE  Label(x, j)'
<1> USE DEF SandboxInv, DockerTypeOK
<1>1. CASE UNCHANGED dockerVars
  BY <1>1 DEF dockerVars, Label
<1>2. ASSUME NEW v \in Workers, Effects(v) PROVE Label(x, j)'
  <2>1. container'[x] \in {NULL, j}
    BY <1>2 DEF Effects, Label
  <2>2. ASSUME NEW u \in Workers, NEW k \in Jobs, <<x, k>> \in sweep'[u] PROVE k = j
    <3>1. CASE <<x, k>> \in sweep[u]
      BY <3>1 DEF Label
    <3>2. CASE <<x, k>> \notin sweep[u]
      <4>1. <<x, k>> \in Listed
        BY <1>2, <2>2, <3>2 DEF Effects
      <4>2. k = container[x] /\ k # NULL
        BY <4>1 DEF Listed, Exists
      <4> QED
        BY <4>2 DEF Label
    <3> QED
      BY <3>1, <3>2
  <2> QED
    BY <2>1, <2>2 DEF Label
<1> QED
  BY <1>1, <1>2, StepEffects

\* In run_rust a worker keeps its message; its heartbeat task does not begin.
LEMMA RunKeepsMessage ==
  ASSUME SandboxInv, [SandboxNext]_sandboxVars, NEW w \in Workers, at'[w] \in RunSteps
  PROVE  /\ JobOf(w)' = JobOf(w) /\ JobOf(w) \in Jobs
         /\ heartbeat'[w] = "beating" => heartbeat[w] = "beating"
<1>1. pc'[w] = "run"
  BY SandboxStepInv DEF SandboxInv, Nested
<1>2. [Next]_vars \/ Beyond
  BY StepOfJudge
<1>3. /\ pc[w] \in {"mark", "run"} /\ msg'[w] = msg[w]
      /\ heartbeat'[w] = "beating" => heartbeat[w] = "beating"
  BY <1>1, <1>2, StaysInRun DEF SandboxInv
<1> QED
  BY <1>3 DEF JobOf, SandboxInv, TypeInv, InHand, AtWork

LEMMA StepLabelled ==
  ASSUME SandboxInv, OwnRuns, Labelled, [SandboxNext]_sandboxVars
  PROVE  Labelled'
<1> SUFFICES ASSUME NEW w \in Workers, at'[w] \in RunSteps, run'[w] # NULL
             PROVE  Label(run[w], JobOf(w))'
  BY DEF Labelled
<1>1. JobOf(w)' = JobOf(w) /\ JobOf(w) \in Jobs
  BY RunKeepsMessage
<1>2. CASE at[w] \in RunSteps /\ run'[w] = run[w]
  <2>1. run[w] \in Runs /\ Label(run[w], JobOf(w))
    BY <1>2 DEF SandboxInv, DockerTypeOK, Labelled
  <2>2. \A v \in Workers : at[v] \in RunSteps /\ run[v] = run[w] => JobOf(v) = JobOf(w)
    BY <1>2 DEF OwnRuns
  <2>3. ASSUME NEW x, NEW j, x = run[w], j = JobOf(w), Label(x, j)' PROVE Label(run[w], JobOf(w))'
    BY <1>1, <1>2, <2>3 DEF Label
  <2>4. \E x \in Runs, j \in Jobs : x = run[w] /\ j = JobOf(w) /\ Label(x, j)'
    BY <1>1, <2>1, <2>2, LabelIsKept
  <2> QED
    BY <2>3, <2>4
<1>3. ASSUME NEW x \in Runs, NewWorkspace(w, x) PROVE Label(run[w], JobOf(w))'
  <2>1. /\ container[x] = NULL /\ \A v \in Workers, k \in Jobs : <<x, k>> \notin sweep[v]
        /\ run'[w] = x /\ UNCHANGED <<container, sweep>>
    BY <1>3 DEF NewWorkspace, Unused, Exists, SandboxInv, DockerTypeOK
  <2> QED
    BY <2>1 DEF Label
<1> QED
  BY <1>2, <1>3, RunInHand

-----------------------------------------------------------------------------
(* Nobody removes what one who renews its lease runs in: not even a        *)
(* cleaning that found the job without an execution before this one began. *)

Sparing ==
  \A w, v \in Workers :
    /\ at[w] \in RunSteps /\ run[w] # NULL /\ heartbeat[w] = "beating"
    /\ at[v] \in CleanSteps
    => run[v] # run[w]

LEMMA StepSpares ==
  ASSUME SandboxInv, Labelled, LeaseInv, Sparing, [SandboxNext]_sandboxVars
  PROVE  Sparing'
<1> SUFFICES ASSUME NEW w \in Workers, NEW v \in Workers,
                    at'[w] \in RunSteps, run'[w] # NULL, heartbeat'[w] = "beating",
                    at'[v] \in CleanSteps, run'[v] = run'[w]
             PROVE  FALSE
  BY DEF Sparing
<1>1. heartbeat[w] = "beating"
  BY RunKeepsMessage
<1>2. CASE at[w] \in RunSteps /\ run'[w] = run[w]
  <2>1. Label(run[w], JobOf(w)) /\ LeaseOf(w)
    BY <1>1, <1>2 DEF Labelled, LeaseInv, Renewing
  <2>2. ASSUME NEW j \in Jobs, <<run[w], j>> \in sweep[v] PROVE ExecutionAlive(j)
    BY <2>1, <2>2 DEF Label, LeaseOf, HoldsLease, ExecutionAlive
  <2>3. ~(at[v] \in CleanSteps /\ run'[v] = run[v])
    BY <1>1, <1>2 DEF Sparing
  <2> QED
    BY <1>2, <2>2, <2>3, OrphanInHand
<1>3. ASSUME NEW x \in Runs, NewWorkspace(w, x) PROVE FALSE
  <2>1. /\ \A u \in Workers : run[u] # x /\ \A j \in Jobs : <<x, j>> \notin sweep[u]
        /\ run' = [run EXCEPT ![w] = x]
    BY <1>3 DEF NewWorkspace, Unused
  <2>2. run'[w] = x
    BY <2>1 DEF SandboxInv, DockerTypeOK
  <2> QED
    BY <2>1, <2>2, OrphanInHand
<1> QED
  BY <1>2, <1>3, RunInHand

LEMMA LivingKeepTheirs ==
  ASSUME SandboxInv, OwnRuns, Sparing, [SandboxNext]_sandboxVars, NEW w \in Workers,
         at[w] \in RunSteps, run[w] # NULL, heartbeat[w] = "beating", at'[w] = at[w]
  PROVE  /\ container'[run[w]] = container[run[w]]
         /\ run[w] \in directory => run[w] \in directory'
<1>1. run[w] \in Runs
  BY DEF SandboxInv, DockerTypeOK
<1>2. ASSUME NEW v \in Workers, at[v] \in RunSteps \cup CleanSteps, run[v] = run[w]
      PROVE  at'[v] = at[v]
  <2>1. CASE at[v] \in RunSteps
    BY <1>2, <2>1 DEF OwnRuns
  <2>2. CASE at[v] \in CleanSteps
    BY <1>2, <2>2 DEF Sparing
  <2> QED
    BY <1>2, <2>1, <2>2
<1> QED
  BY <1>1, <1>2, TakenByItsHolder

-----------------------------------------------------------------------------
(* The verdict.  While docker has not failed and nobody has stalled past    *)
(* its lease, one who renews its lease has its directory and its container  *)
(* as long as it needs them, so what it makes of the program is the truth.  *)

Truth(w) ==
  /\ at[w] = "execute" => program[JobOf(w)].compile = "zero"
  /\ heartbeat[w] = "beating" =>
       /\ at[w] \in {"create", "start", "compile", "execute"} => run[w] \in directory
       /\ at[w] \in {"start", "compile", "execute"} => Exists(run[w])
       /\ at[w] \in {"cleanup", "return"} => outcome[w] = Judgement(program[JobOf(w)])

TruthInv ==
  /\ \A w \in Workers :
       /\ Truth(w)
       /\ pc[w] = "finish" => verdict[w] = Judgement(program[JobOf(w)])
  /\ \A j \in Jobs : Decided(j) => status[j] = Judgement(program[j])

\* run_rust's order of checks gives a program the verdict it deserves.
LEMMA VerdictsAreJudgements ==
  ASSUME NEW fate \in Fate
  PROVE  /\ fate.compile # "zero" =>
              VerdictOn(fate.compile, "CompileError") = Judgement(fate)
         /\ fate.compile = "zero" =>
              VerdictOn(fate.run, "RuntimeError") = Judgement(fate)
BY DEF Fate, Ending, VerdictOn, Judgement

\* A step of its own run.
LEMMA RunIsTrue ==
  ASSUME SandboxInv, NEW w \in Workers, Truth(w), RunMoves(w), ~Fault("docker")
  PROVE  Truth(w)'
<1> USE DEF SandboxInv, DockerTypeOK, RunSteps, Step, CallFails, ReturnsError, Truth,
            Exists
<1>1. /\ heartbeat'[w] = heartbeat[w] /\ JobOf(w)' = JobOf(w) /\ UNCHANGED program
      /\ at[w] \in RunSteps /\ JobOf(w) \in Jobs
  <2>1. UNCHANGED judgeVars /\ at[w] \in RunSteps
    BY DEF RunMoves, Running, RunningFails, CancelRun, Cancel
  <2>2. UNCHANGED program
    BY RunStepEffects DEF RunMoves, Effects
  <2> QED
    BY <2>1, <2>2 DEF judgeVars, consumerVars, JobOf, Nested, TypeInv, InHand, AtWork
<1>2. program[JobOf(w)] \in Fate
  BY <1>1, ProgramsAssumption
<1>3. ASSUME NEW x \in Runs, NewWorkspace(w, x) PROVE Truth(w)'
  BY <1>1, <1>3 DEF NewWorkspace
<1>4. ASSUME CreateContainer(w, JobOf(w)) PROVE Truth(w)'
  <2>1. run[w] \in Runs
    BY <1>4 DEF CreateContainer, Nested, Named
  <2> QED
    BY <1>1, <1>4, <2>1, NobodyAssumption DEF CreateContainer
<1>5. ASSUME StartContainer(w) PROVE Truth(w)'
  BY <1>1, <1>5 DEF StartContainer
<1>6. ASSUME ContainerNotStarted(w) PROVE Truth(w)'
  BY <1>1, <1>6 DEF ContainerNotStarted
<1>7. ASSUME Compile(w, JobOf(w)) PROVE Truth(w)'
  <2>1. CASE Ends(w, program[JobOf(w)].compile) = "zero"
    <3>1. /\ at' = [at EXCEPT ![w] = "execute"] /\ at[w] = "compile"
          /\ UNCHANGED <<directory, container, run>>
      BY <1>7, <2>1 DEF Compile
    <3>2. program[JobOf(w)].compile = "zero"
      BY <2>1 DEF Ends
    <3> QED
      BY <1>1, <3>1, <3>2
  <2>2. CASE Ends(w, program[JobOf(w)].compile) # "zero"
    <3>1. /\ at' = [at EXCEPT ![w] = "cleanup"] /\ at[w] = "compile"
          /\ outcome'[w] = VerdictOn(Ends(w, program[JobOf(w)].compile), "CompileError")
      BY <1>7, <2>2 DEF Compile
    <3>2. ASSUME heartbeat[w] = "beating" PROVE outcome'[w] = Judgement(program[JobOf(w)])
      <4>1. Ends(w, program[JobOf(w)].compile) = program[JobOf(w)].compile
        BY <3>1, <3>2 DEF Ends
      <4> QED
        BY <1>2, <2>2, <3>1, <4>1, VerdictsAreJudgements
    <3> QED
      BY <1>1, <3>1, <3>2
  <2> QED
    BY <2>1, <2>2
<1>8. ASSUME Execute(w, JobOf(w)) PROVE Truth(w)'
  <2>1. /\ at' = [at EXCEPT ![w] = "cleanup"] /\ at[w] = "execute"
        /\ outcome'[w] = VerdictOn(Ends(w, program[JobOf(w)].run), "RuntimeError")
    BY <1>8 DEF Execute
  <2>2. ASSUME heartbeat[w] = "beating" PROVE outcome'[w] = Judgement(program[JobOf(w)])
    <3>1. Ends(w, program[JobOf(w)].run) = program[JobOf(w)].run
      BY <2>1, <2>2 DEF Ends
    <3>2. program[JobOf(w)].compile = "zero"
      BY <2>1
    <3> QED
      BY <1>2, <2>1, <3>1, <3>2, VerdictsAreJudgements
  <2> QED
    BY <1>1, <2>1, <2>2
<1>9. ASSUME NEW from \in {"compile", "execute"}, ExecFails(w, from) PROVE Truth(w)'
  BY <1>1, <1>9 DEF ExecFails
<1>10. ASSUME CleanUp(w) PROVE Truth(w)'
  BY <1>1, <1>10 DEF CleanUp
<1>11. ASSUME CancelRun(w) PROVE Truth(w)'
  BY <1>1, <1>11 DEF CancelRun, Cancel
<1>12. ~RunningFails(w)
  BY DEF RunningFails, RunFault, WorkspaceFails, ContainerNotCreated, CleanUpFails
<1> HIDE DEF Truth
<1> QED
  BY <1>3, <1>4, <1>5, <1>6, <1>7, <1>8, <1>9, <1>10, <1>11, <1>12
     DEF RunMoves, Running, RunStep

\* Out of run_rust leads its end, or that of the process.
LEMMA LeavesRun ==
  ASSUME SandboxInv, [SandboxNext]_sandboxVars, NEW w \in Workers,
         at[w] \in RunSteps, at'[w] \notin RunSteps
  PROVE  EndRun(w) \/ CrashInRun(w)
<1> USE DEF SandboxInv, RunSteps, CleanSteps, Step
<1>1. ~UNCHANGED dockerVars
  BY DEF dockerVars
<1>2. ASSUME NEW u \in Workers, u # w, Effects(u) PROVE FALSE
  BY <1>2 DEF Effects
<1>3. ~RunMoves(w)
  <2>1. RunMoves(w) => Nested' /\ UNCHANGED judgeVars
    BY RunStepNests DEF RunMoves, Running, RunningFails, CancelRun
  <2> QED
    BY <2>1 DEF Nested, judgeVars, consumerVars
<1>4. ~BeginRun(w) /\ ~EndCleaning(w) /\ ~BreakCleaning(w) /\ ~RestartCleaning(w)
  BY DEF BeginRun, CallRunRust, EndCleaning, CleaningDone, BreakCleaning, CleaningEnds,
         RestartCleaning
<1>5. ~Cleaning(w) /\ ~CleaningStumbles(w)
  BY DEF Cleaning, CleaningStumbles, CleanStep, CleanFault, ListContainers, AskAlive,
         InspectOrphan, RemoveOrphan, RemoveWorkspace, RemoveOrphanFails,
         RemoveWorkspaceFails
<1>6. ASSUME NEW u \in Workers,
             \/ RunMoves(u) \/ BeginRun(u) \/ EndRun(u) \/ EndCleaning(u)
             \/ RestartCleaning(u) \/ BreakCleaning(u) \/ CrashInRun(u)
             \/ Cleaning(u) \/ CleaningStumbles(u)
      PROVE  Effects(u)
  BY <1>6, RunStepEffects, CleanStepEffects, TurnEffects DEF RunMoves
<1> HIDE DEF SandboxInv, RunSteps, CleanSteps, Step
<1> QED
  BY <1>1, <1>2, <1>3, <1>4, <1>5, <1>6
     DEF SandboxNext, WorkerStep, WorkerFault, RunMoves, sandboxVars

\* A status becomes final by finish only, with the verdict of its caller.
LEMMA DecidedByFinish ==
  ASSUME TypeInv, [Next]_vars \/ Beyond, NEW j \in Jobs, status'[j] \in Final
  PROVE  \/ status'[j] = status[j]
         \/ \E w \in Workers :
              pc[w] = "finish" /\ JobOf(w) = j /\ status'[j] = verdict[w]
<1>typed. StoreTypeOK
  BY DEF TypeInv, TypeOK
<1> USE <1>typed DEF StoreTypeOK, Final
<1>1. ASSUME \/ UNCHANGED status \/ UNCHANGED storeVars
             \/ \E k, t : Heartbeat(k, t)
             \/ \E k : LeaseExpires(k) \/ Create(k)
             \/ \E k : UpdateStatus(k, "Queued") \/ UpdateStatus(k, "Running")
             \/ \E k, w, t : TryStart(k, w, t)
             \/ ReapStaleJob
             \/ \E r : MarkOutboxPublished(r)
      PROVE  status'[j] = status[j]
  BY <1>1 DEF storeVars, Heartbeat, LeaseExpires, Create, UpdateStatus, TryStart,
              ReapStaleJob, SetStale, MarkOutboxPublished
<1>2. ASSUME NEW w \in Workers, FinishJob(w) \/ FinishFails(w)
      PROVE  \/ status'[j] = status[j]
             \/ pc[w] = "finish" /\ JobOf(w) = j /\ status'[j] = verdict[w]
  BY <1>2 DEF FinishJob, FinishFails, FailsUnsure, Finish, storeVars
<1>3. ASSUME NEW w \in Workers,
             \/ Requeue(w) \/ RequeueFails(w) \/ MarkRunning(w) \/ MarkFails(w)
             \/ \E t \in Tokens : Start(w, t) \/ StartFails(w, t)
      PROVE  status'[j] = status[j]
  <2>1. \/ UNCHANGED storeVars
        \/ \E k : UpdateStatus(k, "Queued") \/ UpdateStatus(k, "Running")
        \/ \E k, v, t : TryStart(k, v, t)
    BY <1>3 DEF Requeue, RequeueFails, MarkRunning, MarkFails, Start, StartFails,
                FailsUnsure
  <2> QED
    BY <1>1, <2>1
<1>4. ASSUME NEW w \in Workers, Beat(w) \/ BeatFindsLeaseLost(w) \/ BeatFails(w)
      PROVE  status'[j] = status[j]
  <2>1. UNCHANGED storeVars \/ \E k, t : Heartbeat(k, t)
    BY <1>4 DEF Beat, BeatFindsLeaseLost, BeatFails, FailsUnsure
  <2> QED
    BY <1>1, <2>1
<1>5. ASSUME \/ \E h \in detached : DetachedBeat(h) \/ DetachedEnds(h)
             \/ \E k \in Jobs : LeaseAges(k)
      PROVE  status'[j] = status[j]
  <2>1. UNCHANGED storeVars \/ (\E k, t : Heartbeat(k, t)) \/ \E k : LeaseExpires(k)
    BY <1>5 DEF DetachedBeat, DetachedEnds, LeaseAges, FailsUnsure
  <2> QED
    BY <1>1, <2>1
<1>6. ASSUME NEW w \in Workers,
             \/ CleanOrphans(w) \/ CleanFails(w) \/ LatencyPanics(w) \/ StartRefused(w)
             \/ RunCancelled(w) \/ FinishRefused(w) \/ Commit(w) \/ CommitFails(w)
             \/ SendToDlq(w) \/ DlqFails(w) \/ Crash(w) \/ Restart(w)
             \/ \E p \in Partitions : Receive(w, p)
             \/ \E v \in Verdicts : RunReturns(w, v)
      PROVE  status'[j] = status[j]
  <2>1. UNCHANGED storeVars
    BY <1>6 DEF CleanOrphans, CleanFails, LatencyPanics, StartRefused, RunCancelled,
                FinishRefused, Commit, CommitFails, SendToDlq, DlqFails, Crash, Restart,
                Receive, RunReturns
  <2> QED
    BY <1>1, <2>1
<1>7. CASE RecoveryNext
  <2>1. ReapStaleJob \/ UNCHANGED storeVars \/ \E r : MarkOutboxPublished(r)
    BY <1>7 DEF RecoveryNext, Reap, ReapFails, PublisherStep, FetchOutbox, PublishRow,
                PublishRowFails, MarkPublished, PublisherFails
  <2> QED
    BY <1>1, <2>1
<1>8. CASE ApiNext
  <2>1. UNCHANGED storeVars \/ \E k : Create(k)
    BY <1>8 DEF ApiNext, CreateJob, CreateFails, SendMessage, SendFails
  <2> QED
    BY <1>1, <2>1
<1>9. CASE GroupNext \/ UNCHANGED vars \/ Beyond
  <2>1. UNCHANGED storeVars
    BY <1>9, BeyondIsNoStatement
       DEF GroupNext, Expel, Join, Rebalance, ForeignRecord, vars
  <2> QED
    BY <1>1, <2>1
<1>10. CASE ConsumerNext
  BY <1>2, <1>3, <1>4, <1>5, <1>6, <1>10
     DEF ConsumerNext, ConsumerStep, HandlerStep, HandlerFault, HeartbeatNext
<1>11. CASE ProcessNext
  BY <1>6, <1>11 DEF ProcessNext
<1> QED
  BY <1>7, <1>8, <1>9, <1>10, <1>11 DEF Next

LEMMA StepTrue ==
  ASSUME SandboxInv, OwnRuns, LeaseInv, Sparing, TruthInv, [SandboxNext]_sandboxVars,
         ~Fault("docker")
  PROVE  TruthInv'
<1>judge. [Next]_vars \/ Beyond
  BY StepOfJudge
<1>typed. /\ SandboxInv' /\ UNCHANGED program
          /\ TypeInv /\ ConsumerTypeOK /\ InHand
  <2>1. UNCHANGED program
    BY StepEffects DEF dockerVars, Effects
  <2> QED
    BY <2>1, SandboxStepInv DEF SandboxInv, TypeInv, TypeOK
\* In the run.
<1>1. ASSUME NEW w \in Workers PROVE Truth(w)'
  <2>1. CASE at'[w] \notin RunSteps
    BY <2>1 DEF Truth, RunSteps
  <2>2. CASE at'[w] \in RunSteps
    <3>1. /\ JobOf(w)' = JobOf(w)
          /\ heartbeat'[w] = "beating" => heartbeat[w] = "beating"
      BY <2>2, RunKeepsMessage
    <3>2. CASE UNCHANGED <<at[w], run[w], outcome[w]>>
      <4>1. ASSUME heartbeat'[w] = "beating",
                   at[w] \in {"create", "start", "compile", "execute"}
            PROVE  /\ Exists(run[w]) => Exists(run[w])'
                   /\ run[w] \in directory => run'[w] \in directory'
        <5>1. heartbeat[w] = "beating" /\ at[w] \in RunSteps /\ run[w] # NULL
          BY <2>2, <3>1, <3>2, <4>1, RunsAssumption DEF SandboxInv, Nested, Named
        <5>2. /\ container'[run[w]] = container[run[w]]
              /\ run[w] \in directory => run[w] \in directory'
          BY <3>2, <5>1, LivingKeepTheirs
        <5> QED
          BY <3>2, <5>2 DEF Exists
      <4>2. Truth(w)
        BY DEF TruthInv
      <4> QED
        BY <1>typed, <3>1, <3>2, <4>1, <4>2 DEF Truth
    <3>3. CASE BeginRun(w)
      <4>1. at'[w] = "workspace"
        BY <3>3 DEF BeginRun, CallRunRust, Step, SandboxInv, DockerTypeOK
      <4> QED
        BY <4>1 DEF Truth
    <3>4. CASE RunMoves(w)
      BY <3>4, RunIsTrue DEF TruthInv
    <3> QED
      BY <2>2, <3>2, <3>3, <3>4, StepOfRun
  <2> QED
    BY <2>1, <2>2
\* In the handler.
<1>2. ASSUME NEW w \in Workers, pc'[w] = "finish"
      PROVE  (verdict[w] = Judgement(program[JobOf(w)]))'
  <2>1. CASE pc[w] = "finish"
    <3>1. Still(w)
      <4>1. ~Away(w)
        BY <1>2 DEF Away, Leased
      <4>2. ~OnLease(w)
        BY <1>typed, <2>1 DEF OnLease, Start, MarkRunning, RunReturns,
                              BeatFindsLeaseLost, BeatFails, InHand
      <4> QED
        BY <1>judge, <1>typed, <4>1, <4>2, HandlerMoves
    <3>2. verdict[w] = Judgement(program[JobOf(w)])
      BY <2>1 DEF TruthInv
    <3> QED
      BY <1>typed, <3>1, <3>2 DEF Still, JobOf
  <2>2. CASE pc[w] # "finish"
    <3>1. pc[w] = "run"
      <4>1. ~Away(w) /\ ~Still(w)
        BY <1>2, <2>2 DEF Away, Leased, Still
      <4>2. ~BeatFindsLeaseLost(w) /\ ~BeatFails(w) /\ ~MarkRunning(w)
        BY <1>2, <1>typed, <2>2 DEF BeatFindsLeaseLost, BeatFails, MarkRunning, Goto,
                                    ConsumerTypeOK
      <4>3. \A t \in Tokens : ~Start(w, t)
        BY <1>2, <1>typed DEF Start, Goto, ConsumerTypeOK
      <4> QED
        BY <1>judge, <1>typed, <4>1, <4>2, <4>3, HandlerMoves DEF OnLease, RunReturns
    <3>2. EndRun(w)
      <4>1. at[w] \in RunSteps /\ at'[w] \notin RunSteps
        BY <1>2, <1>typed, <3>1 DEF SandboxInv, Nested
      <4>2. ~CrashInRun(w)
        BY <1>2, <1>typed DEF CrashInRun, Crash, Goto, ConsumerTypeOK
      <4> QED
        BY <4>1, <4>2, LeavesRun
    <3>3. /\ at[w] = "return" /\ heartbeat[w] # "failed"
          /\ verdict'[w] = outcome[w] /\ UNCHANGED msg
      <4>1. outcome[w] # "Cancelled"
        BY <1>2, <1>typed, <3>2 DEF EndRun, RunCancelled, ReturnRetryable, Goto,
                                    ConsumerTypeOK
      <4>2. at[w] = "return" /\ RunReturns(w, outcome[w])
        BY <3>2, <4>1 DEF EndRun, Return, Step
      <4> QED
        BY <1>2, <1>typed, <4>2 DEF RunReturns, ReturnRetryable, Goto, ConsumerTypeOK
    <3>4. heartbeat[w] = "beating"
      BY <3>1, <3>3 DEF LeaseInv
    <3>5. outcome[w] = Judgement(program[JobOf(w)])
      BY <3>3, <3>4 DEF TruthInv, Truth
    <3> QED
      BY <1>typed, <3>3, <3>5 DEF JobOf
  <2> QED
    BY <2>1, <2>2
\* In the table.
<1>3. ASSUME NEW j \in Jobs, status'[j] \in Final PROVE status'[j] = Judgement(program'[j])
  <2>1. CASE status'[j] = status[j]
    BY <1>3, <1>typed, <2>1 DEF TruthInv, Decided
  <2>2. ASSUME NEW w \in Workers,
               pc[w] = "finish", JobOf(w) = j, status'[j] = verdict[w]
        PROVE  status'[j] = Judgement(program'[j])
    BY <1>typed, <2>2 DEF TruthInv
  <2> QED
    BY <1>3, <1>judge, <1>typed, <2>1, <2>2, DecidedByFinish
<1> QED
  BY <1>1, <1>2, <1>3 DEF TruthInv, Decided

-----------------------------------------------------------------------------
(* The inductive invariant.                                                *)

VerdictInv ==
  /\ SandboxInv /\ Exclusion /\ WithinBudget /\ OwnRuns /\ Labelled
  /\ Unspent("stall") => LeaseInv /\ Sparing
  /\ Unspent("stall") /\ Unspent("docker") => TruthInv

LEMMA VerdictInitially == MaxExpulsions = 0 /\ SandboxInit => VerdictInv
<1> SUFFICES ASSUME MaxExpulsions = 0, SandboxInit PROVE VerdictInv
  OBVIOUS
<1> USE DEF SandboxInit, DockerInit, Init, ConsumerInit, StoreInit
<1>1. SandboxInv
  BY SandboxInitially
<1>2. Exclusion
  BY DEF FaultsInit, Budget, TopicInit, Exclusion, NoExpulsion, Keyed, Owned,
         OnItsPartition, Handling
<1>3. WithinBudget
  BY BudgetAssumption DEF FaultsInit, WithinBudget
<1>4. OwnRuns /\ Labelled
  BY DEF OwnRuns, Labelled
<1>5. LeaseInv /\ Sparing
  BY DEF LeaseInv, Renewing, Sparing
<1>6. TruthInv
  BY NullAssumption DEF TruthInv, Truth, Decided
<1> QED
  BY <1>1, <1>2, <1>3, <1>4, <1>5, <1>6 DEF VerdictInv

LEMMA VerdictStep == VerdictInv /\ [SandboxNext]_sandboxVars => VerdictInv'
<1> SUFFICES ASSUME VerdictInv, [SandboxNext]_sandboxVars PROVE VerdictInv'
  OBVIOUS
<1> USE DEF VerdictInv
<1>1. [Next]_vars \/ Beyond
  BY StepOfJudge
<1>2. FaultsTypeOK /\ TypeInv /\ "stall" \in FaultKinds /\ "docker" \in FaultKinds
  BY Kinds DEF SandboxInv, TypeInv, TypeOK
<1>3. Spends
  BY <1>1, StepSpends DEF Beyond, BreaksOff
<1>4. /\ WithinBudget'
      /\ Unspent("stall")'  => Unspent("stall")  /\ ~Fault("stall")
      /\ Unspent("docker")' => Unspent("docker") /\ ~Fault("docker")
  BY <1>2, <1>3, StepWithinBudget
<1>5. SandboxInv' /\ OwnRuns' /\ Labelled'
  BY SandboxStepInv, StepIsFrugal, StepLabelled
<1>6. Exclusion'
  BY <1>1, <1>2, StepExclusive, BeyondExclusive
<1>7. ASSUME Unspent("stall")' PROVE LeaseInv' /\ Sparing'
  BY <1>1, <1>2, <1>4, <1>7, StepLeased, StepSpares
<1>8. ASSUME Unspent("stall")', Unspent("docker")' PROVE TruthInv'
  BY <1>4, <1>8, StepTrue
<1> QED
  BY <1>4, <1>5, <1>6, <1>7, <1>8

LEMMA NotSpentIsUnspent ==
  ASSUME FaultsTypeOK, WithinBudget, NEW kind \in FaultKinds, ~Spent(kind)
  PROVE  Unspent(kind)
BY BudgetAssumption DEF FaultsTypeOK, WithinBudget, Spent, Unspent

\* The verdict in the database is the one the program deserves, whatever
\* crashes, is restarted, fails in the database or is rebalanced, unless docker
\* fails or a worker stalls past its lease (run_rust's order of checks, the
\* question clean_orphan_containers asks, and finish under the token).
THEOREM VerdictsAreTrue ==
  ASSUME MaxExpulsions = 0
  PROVE  SandboxSpec => []VerdictIsTrue
<1>1. VerdictInv => VerdictIsTrue
  <2> SUFFICES ASSUME VerdictInv, ~Spent("docker"), ~Spent("stall") PROVE VerdictIsTrue
    BY DEF VerdictIsTrue
  <2>1. FaultsTypeOK /\ "stall" \in FaultKinds /\ "docker" \in FaultKinds
    BY Kinds DEF VerdictInv, SandboxInv, TypeInv, TypeOK
  <2>2. TruthInv
    BY <2>1, NotSpentIsUnspent DEF VerdictInv
  <2> QED
    BY <2>2 DEF TruthInv, VerdictIsTrue
<1> QED
  BY <1>1, VerdictInitially, VerdictStep, PTL DEF SandboxSpec

\* A handler that holds and renews its lease loses neither its container nor
\* its directory to a cleaning, or to anybody else, unless some worker has
\* stalled before (clean_orphan_containers asks, then removes).
THEOREM LivingStaySpared ==
  ASSUME MaxExpulsions = 0
  PROVE  SandboxSpec => LivingAreSpared
<1> DEFINE Spares ==
      \A w \in Workers :
        /\ at[w] \in RunSteps /\ run[w] # NULL
        /\ HoldsLease(JobOf(w), token[w]) /\ heartbeat[w] = "beating"
        /\ ~Spent("stall")
        /\ UNCHANGED <<at[w], run[w]>>
        => /\ Exists(run[w]) => Exists(run[w])'
           /\ run[w] \in directory => run[w] \in directory'
<1>1. VerdictInv /\ [SandboxNext]_sandboxVars => Spares
  <2> SUFFICES ASSUME VerdictInv, [SandboxNext]_sandboxVars, ~Spent("stall"),
                      NEW w \in Workers, at[w] \in RunSteps, run[w] # NULL,
                      heartbeat[w] = "beating", UNCHANGED <<at[w], run[w]>>
               PROVE  /\ Exists(run[w]) => Exists(run[w])'
                      /\ run[w] \in directory => run[w] \in directory'
    OBVIOUS
  <2>1. FaultsTypeOK /\ "stall" \in FaultKinds
    BY Kinds DEF VerdictInv, SandboxInv, TypeInv, TypeOK
  <2>2. SandboxInv /\ OwnRuns /\ Sparing
    BY <2>1, NotSpentIsUnspent DEF VerdictInv
  <2>3. /\ container'[run[w]] = container[run[w]]
        /\ run[w] \in directory => run[w] \in directory'
    BY <2>2, LivingKeepTheirs
  <2> QED
    BY <2>3 DEF Exists
<1>2. VerdictInv /\ [SandboxNext]_sandboxVars => [Spares]_sandboxVars
  BY <1>1
<1>3. SandboxSpec => [][Spares]_sandboxVars
  BY <1>2, VerdictInitially, VerdictStep, PTL DEF SandboxSpec
<1> QED
  BY <1>3 DEF LivingAreSpared

\* As long as no member is expelled, a handler's row is its own from try_start
\* to finish, whatever else crashes, stalls, is redelivered or fails: no other
\* handler takes its lease, reopens its job, sets it to Running or decides it,
\* and the reaper takes the row only when it is stale, for an event.
THEOREM RowsStayTheirHandlers ==
  ASSUME MaxExpulsions = 0
  PROVE  SandboxSpec => RowIsItsHandlers
<1> DEFINE Own == SandboxInv /\ Exclusion /\ Rowed
           Respects ==
             \A w \in Workers, j \in Jobs :
               /\ pc[w] \in {"mark", "run", "finish"} /\ JobOf(w) = j
               /\ UNCHANGED pc[w]
               => \/ UNCHANGED <<status[j], lock_token[j], worker_id[j]>>
                  \/ heartbeat_at[j] = "stale" /\ Owed(j)'
<1>1. SandboxInit => Own
  <2>1. SandboxInit => Exclusion /\ Rowed
    BY DEF SandboxInit, Init, FaultsInit, Budget, TopicInit, ConsumerInit, Exclusion,
           NoExpulsion, Keyed, Owned, OnItsPartition, Handling, Rowed, Leased
  <2> QED
    BY <2>1, SandboxInitially
<1>2. Own /\ [SandboxNext]_sandboxVars => Own' /\ Respects
  <2> SUFFICES ASSUME Own, [SandboxNext]_sandboxVars PROVE Own' /\ Respects
    OBVIOUS
  <2>1. TypeInv /\ ([Next]_vars \/ Beyond)
    BY StepOfJudge DEF SandboxInv
  <2>2. Own'
    BY <2>1, SandboxStepInv, StepExclusive, BeyondExclusive, StepRowed
  <2>3. ASSUME NEW w \in Workers, NEW j \in Jobs, pc[w] \in {"mark", "run", "finish"},
               JobOf(w) = j, UNCHANGED pc[w]
        PROVE  Untouched(j)
    BY <2>1, <2>3, RowIsLeftAlone DEF Leased
  <2> QED
    BY <2>2, <2>3 DEF Untouched
<1>3. Own /\ [SandboxNext]_sandboxVars => Own' /\ [Respects]_vars
  BY <1>2
<1>4. SandboxSpec => [][Respects]_vars
  BY <1>1, <1>3, PTL DEF SandboxSpec
<1> QED
  BY <1>4 DEF RowIsItsHandlers
=============================================================================
