---------------------------- MODULE LeaseProofs -----------------------------
(***************************************************************************)
(* The judge uses its tables only through the statements of job.rs, so     *)
(* whatever is proved of StoreSpec holds of the composed system: its rows  *)
(* stay consistent, and a verdict spends a lease.  Beyond that a lease     *)
(* belongs to one handler.  Any number of jobs, workers and faults.        *)
(***************************************************************************)
EXTENDS JudgeProofs, JobStoreProofs

-----------------------------------------------------------------------------
(* Every step of the system is a statement or leaves the tables alone.     *)
(* InHand is what a caller must know: that it has a job, a token, a        *)
(* verdict when it names one.                                              *)

LEMMA Statements ==
  /\ \A j \in Jobs : Create(j) => StoreNext
  /\ \A j \in Jobs, s \in {"Queued", "Running"} : UpdateStatus(j, s) => StoreNext
  /\ \A j \in Jobs, w \in Workers, t \in Tokens :
       t \notin LiveTokens /\ TryStart(j, w, t) => StoreNext
  /\ \A j \in Jobs, v \in Verdicts, t \in Tokens : Finish(j, v, t) => StoreNext
  /\ \A j \in Jobs, t \in Tokens : Heartbeat(j, t) => StoreNext
  /\ \A j \in Jobs : LeaseExpires(j) => StoreNext
  /\ ReapStaleJob => StoreNext
  /\ \A r \in outbox : MarkOutboxPublished(r) => StoreNext
<1>1. {lock_token[k] : k \in Jobs} \subseteq LiveTokens
  BY DEF LiveTokens
<1> QED
  BY <1>1 DEF StoreNext

\* A row that is no longer in the outbox: mark_outbox_published changes nothing.
LEMMA MarkedTwice ==
  ASSUME NEW r, r \notin outbox, MarkOutboxPublished(r)
  PROVE  UNCHANGED storeVars
BY DEF MarkOutboxPublished, storeVars

LEMMA MarkingIsStatement ==
  ASSUME NEW r, MarkOutboxPublished(r)
  PROVE  StoreNext \/ UNCHANGED storeVars
BY Statements, MarkedTwice

LEMMA StepIsStatement == TypeInv /\ [Next]_vars => [StoreNext]_storeVars
<1> SUFFICES ASSUME TypeInv, [Next]_vars PROVE StoreNext \/ UNCHANGED storeVars
  OBVIOUS
<1>typed. InHand /\ detached \in SUBSET Task
  BY DEF TypeInv, TypeOK, ConsumerTypeOK
<1> USE <1>typed DEF InHand, AtWork, Leased
\* The handler.
<1>1. ASSUME NEW w \in Workers, Requeue(w) \/ RequeueFails(w)
      PROVE  StoreNext \/ UNCHANGED storeVars
  BY <1>1, Statements DEF Requeue, RequeueFails, FailsUnsure
<1>2. ASSUME NEW w \in Workers, NEW t \in Tokens, Start(w, t) \/ StartFails(w, t)
      PROVE  StoreNext \/ UNCHANGED storeVars
  <2>1. JobOf(w) \in Jobs /\ t \notin LiveTokens
    BY <1>2 DEF Start, StartFails
  <2>2. TryStart(JobOf(w), w, t) \/ UNCHANGED storeVars
    BY <1>2 DEF Start, StartFails, FailsUnsure
  <2> QED
    BY <2>1, <2>2, Statements
<1>3. ASSUME NEW w \in Workers, MarkRunning(w) \/ MarkFails(w)
      PROVE  StoreNext \/ UNCHANGED storeVars
  BY <1>3, Statements DEF MarkRunning, MarkFails, FailsUnsure
<1>4. ASSUME NEW w \in Workers, FinishJob(w) \/ FinishFails(w)
      PROVE  StoreNext \/ UNCHANGED storeVars
  BY <1>4, Statements DEF FinishJob, FinishFails, FailsUnsure
<1>5. ASSUME NEW w \in Workers, Beat(w) \/ BeatFails(w)
      PROVE  StoreNext \/ UNCHANGED storeVars
  <2>1. JobOf(w) \in Jobs /\ token[w] \in Tokens
    BY <1>5 DEF Beat, BeatFails
  <2>2. Heartbeat(JobOf(w), token[w]) \/ UNCHANGED storeVars
    BY <1>5 DEF Beat, BeatFails, FailsUnsure
  <2> QED
    BY <2>1, <2>2, Statements
<1>6. ASSUME NEW h \in detached, DetachedBeat(h) \/ DetachedEnds(h)
      PROVE  StoreNext \/ UNCHANGED storeVars
  <2>1. h.job \in Jobs /\ h.token \in Tokens
    BY DEF Task
  <2>2. Heartbeat(h.job, h.token) \/ UNCHANGED storeVars
    BY <1>6 DEF DetachedBeat, DetachedEnds, FailsUnsure
  <2> QED
    BY <2>1, <2>2, Statements
<1>7. ASSUME NEW j \in Jobs, LeaseAges(j) PROVE StoreNext \/ UNCHANGED storeVars
  BY <1>7, Statements DEF LeaseAges
<1>8. ASSUME NEW w \in Workers,
             \/ CleanOrphans(w) \/ CleanFails(w) \/ LatencyPanics(w)
             \/ StartRefused(w) \/ RunCancelled(w) \/ FinishRefused(w)
             \/ Commit(w) \/ CommitFails(w) \/ SendToDlq(w) \/ DlqFails(w)
             \/ BeatFindsLeaseLost(w)
             \/ \E p \in Partitions : Receive(w, p)
             \/ \E v \in Verdicts : RunReturns(w, v)
      PROVE  UNCHANGED storeVars
  BY <1>8 DEF CleanOrphans, CleanFails, LatencyPanics, StartRefused, RunCancelled,
              FinishRefused, Commit, CommitFails, SendToDlq, DlqFails,
              BeatFindsLeaseLost, Receive, RunReturns
<1>9. CASE ConsumerNext
  BY <1>1, <1>2, <1>3, <1>4, <1>5, <1>6, <1>7, <1>8, <1>9
     DEF ConsumerNext, ConsumerStep, HandlerStep, HandlerFault, HeartbeatNext
\* The rest.
<1>10. CASE RecoveryNext
  <2>1. ASSUME NEW w \in Workers, Reap(w) \/ ReapFails(w)
        PROVE  StoreNext \/ UNCHANGED storeVars
    BY <2>1, Statements DEF Reap, ReapFails
  <2>2. ASSUME NEW w \in Workers, MarkPublished(w) \/ PublisherFails(w)
        PROVE  StoreNext \/ UNCHANGED storeVars
    BY <2>2, MarkingIsStatement DEF MarkPublished, PublisherFails
  <2>3. ASSUME NEW w \in Workers,
               \/ FetchOutbox(w)
               \/ \E r \in batch[w] : PublishRow(w, r) \/ PublishRowFails(w, r)
        PROVE  UNCHANGED storeVars
    BY <2>3 DEF FetchOutbox, PublishRow, PublishRowFails
  <2> QED
    BY <1>10, <2>1, <2>2, <2>3 DEF RecoveryNext, PublisherStep
<1>11. CASE ApiNext
  BY <1>11, Statements
     DEF ApiNext, CreateJob, CreateFails, SendMessage, SendFails
<1>12. CASE ProcessNext \/ GroupNext
  BY <1>12 DEF ProcessNext, GroupNext, Crash, Restart, Expel, Join, Rebalance,
               ForeignRecord
<1>13. CASE UNCHANGED vars
  BY <1>13 DEF vars
<1> QED
  BY <1>9, <1>10, <1>11, <1>12, <1>13 DEF Next

\* The judge as deployed implements the tables called by anyone: no component
\* touches them but by a statement of job.rs, each with arguments it may have.
THEOREM JudgeUsesStore == Spec => StoreSpec
<1>1. Init => StoreInit
  BY DEF Init
<1> QED
  BY <1>1, InitTyped, StepInv, StepIsStatement, PTL DEF Spec, StoreSpec

\* The rows of the running system stay consistent (job.rs, whoever calls it).
THEOREM JudgeKeepsStore == Spec => []StoreInv
BY JudgeUsesStore, StoreConsistent

\* In the running system a verdict spends the lease of one grant, and a lease
\* taken away leaves an event behind, whatever crashes, stalls or fails.
THEOREM JudgeKeepsLease == Spec => LeaseKept
BY JudgeUsesStore, StoreKeepsLease

-----------------------------------------------------------------------------
(* A lease belongs to one handler.                                         *)

\* Nobody's token but w's own is touched, and no lease of the others.
LEMMA ForgetIsPersonal ==
  ASSUME TypeInv, LeaseIsPersonal, NEW w \in Workers, Forget(w),
         UNCHANGED <<lock_token, worker_id, detached>>
  PROVE  LeaseIsPersonal'
BY DEF TypeInv, TypeOK, ConsumerTypeOK, LeaseIsPersonal, Forget, JobOf

LEMMA StepIsPersonal ==
  TypeInv /\ LeaseIsPersonal /\ [Next]_vars => LeaseIsPersonal'
<1> SUFFICES ASSUME TypeInv, LeaseIsPersonal, [Next]_vars PROVE LeaseIsPersonal'
  OBVIOUS
<1>typed. /\ InHand /\ StoreTypeOK /\ ConsumerTypeOK
  BY DEF TypeInv, TypeOK
<1> USE <1>typed, NullAssumption
<1> USE DEF LeaseIsPersonal, StoreTypeOK, ConsumerTypeOK, JobOf
\* The handler takes a lease.
<1>1. ASSUME NEW w \in Workers, NEW t \in Tokens, Start(w, t) PROVE LeaseIsPersonal'
  <2>1. JobOf(w) \in Jobs
    BY <1>1 DEF Start, InHand, AtWork
  <2>2. /\ \A j \in Jobs : lock_token[j] # t
        /\ \A x \in Workers : token[x] # t
        /\ \A h \in detached : h.token # t
    BY <1>1 DEF Start, LiveTokens
  <2> QED
    BY <1>1, <2>1, <2>2 DEF Start, TryStart
<1>2. ASSUME NEW w \in Workers, NEW t \in Tokens, StartFails(w, t)
      PROVE  LeaseIsPersonal'
  <2>1. JobOf(w) \in Jobs
    BY <1>2 DEF StartFails, InHand, AtWork
  <2>2. \A x \in Workers : token[x] # t
    BY <1>2 DEF StartFails, LiveTokens
  <2>3. CASE TryStart(JobOf(w), w, t)
    BY <1>2, <2>1, <2>2, <2>3 DEF StartFails, ReturnRetryable, Forget, TryStart
  <2>4. CASE UNCHANGED storeVars
    BY <1>2, <2>4, ForgetIsPersonal DEF StartFails, ReturnRetryable, storeVars
  <2> QED
    BY <1>2, <2>3, <2>4 DEF StartFails, FailsUnsure
\* It keeps, spends or loses it.
<1>3. ASSUME NEW w \in Workers, MarkFails(w) PROVE LeaseIsPersonal'
  <2>1. UNCHANGED <<lock_token, worker_id>>
    BY <1>3 DEF MarkFails, FailsUnsure, UpdateStatus, storeVars
  <2>2. \A h \in detached' : h \in detached \/ h.token = token[w]
    BY <1>3 DEF MarkFails
  <2>3. /\ token' = [token EXCEPT ![w] = NULL]
        /\ msg'   = [msg   EXCEPT ![w] = NULL]
    BY <1>3 DEF MarkFails, ReturnRetryable, Forget
  <2> QED
    BY <2>1, <2>2, <2>3
<1>4. ASSUME NEW w \in Workers, FinishJob(w) PROVE LeaseIsPersonal'
  BY <1>4 DEF FinishJob, Finish
<1>5. ASSUME NEW w \in Workers, FinishFails(w) PROVE LeaseIsPersonal'
  <2>1. \A j \in Jobs : lock_token'[j] \in {lock_token[j], NULL}
    BY <1>5 DEF FinishFails, FailsUnsure, Finish, storeVars
  <2>2. UNCHANGED <<worker_id, detached>>
    BY <1>5 DEF FinishFails, FailsUnsure, Finish, storeVars
  <2>3. /\ token' = [token EXCEPT ![w] = NULL]
        /\ msg'   = [msg   EXCEPT ![w] = NULL]
    BY <1>5 DEF FinishFails, ReturnRetryable, Forget
  <2> QED
    BY <2>1, <2>2, <2>3
<1>6. ASSUME NEW w \in Workers, NEW v \in Verdicts, RunReturns(w, v)
      PROVE  LeaseIsPersonal'
  <2>1. CASE heartbeat[w] = "failed"
    BY <1>6, <2>1, ForgetIsPersonal DEF RunReturns, ReturnRetryable, storeVars
  <2>2. CASE heartbeat[w] # "failed"
    BY <1>6, <2>2 DEF RunReturns, storeVars
  <2> QED
    BY <2>1, <2>2
<1>7. ASSUME NEW w \in Workers,
             \/ CleanFails(w) \/ RequeueFails(w) \/ LatencyPanics(w)
             \/ RunCancelled(w) \/ FinishRefused(w)
             \/ Commit(w) \/ CommitFails(w) \/ DlqFails(w)
      PROVE  LeaseIsPersonal'
  <2>1. Forget(w) /\ UNCHANGED <<lock_token, worker_id, detached>>
    BY <1>7 DEF CleanFails, RequeueFails, LatencyPanics, RunCancelled, FinishRefused,
                Commit, CommitFails, DlqFails, ReturnRetryable, ConsumerEnds,
                FailsUnsure, UpdateStatus, storeVars
  <2> QED
    BY <2>1, ForgetIsPersonal
\* A message in hand changes only where there is no token.
<1>8. ASSUME NEW w \in Workers, NEW p \in Partitions, Receive(w, p)
      PROVE  LeaseIsPersonal'
  <2>1. token[w] = NULL
    BY <1>8 DEF Receive, InHand, Leased
  <2> QED
    BY <1>8, <2>1 DEF Receive, storeVars
\* A lease that is taken away is nobody's.
<1>9. ASSUME ReapStaleJob, UNCHANGED consumerVars PROVE LeaseIsPersonal'
  BY <1>9 DEF ReapStaleJob, SetStale, consumerVars
<1>10. ASSUME NEW w \in Workers, Crash(w) PROVE LeaseIsPersonal'
  BY <1>10 DEF Crash, Forget, storeVars
\* Nothing else changes what a lease consists of.
<1>11. CASE UNCHANGED <<lock_token, worker_id, token, msg>> /\ detached' \subseteq detached
  BY <1>11
<1>12. ASSUME NEW w \in Workers,
              \/ CleanOrphans(w) \/ Requeue(w) \/ StartRefused(w) \/ MarkRunning(w)
              \/ SendToDlq(w) \/ Restart(w) \/ BeatFindsLeaseLost(w) \/ Beat(w)
              \/ BeatFails(w)
       PROVE  LeaseIsPersonal'
  BY <1>11, <1>12
     DEF CleanOrphans, Requeue, StartRefused, MarkRunning, SendToDlq, Restart,
         BeatFindsLeaseLost, Beat, BeatFails, FailsUnsure, UpdateStatus, Heartbeat,
         consumerVars, storeVars
<1>13. ASSUME HeartbeatNext PROVE LeaseIsPersonal'
  <2>1. CASE (\E h \in detached : DetachedBeat(h) \/ DetachedEnds(h))
               \/ (\E j \in Jobs : LeaseAges(j))
    BY <1>11, <2>1 DEF DetachedBeat, DetachedEnds, LeaseAges, LeaseExpires,
                       FailsUnsure, Heartbeat, consumerVars, storeVars
  <2> QED
    BY <1>12, <1>13, <2>1 DEF HeartbeatNext
<1>14. CASE RecoveryNext /\ UNCHANGED <<consumerVars, request>>
  <2>1. \/ ReapStaleJob
        \/ UNCHANGED <<lock_token, worker_id>>
    BY <1>14 DEF RecoveryNext, Reap, ReapFails, PublisherStep, FetchOutbox, PublishRow,
                 PublishRowFails, MarkPublished, PublisherFails, MarkOutboxPublished,
                 storeVars
  <2> QED
    BY <1>9, <1>11, <1>14, <2>1 DEF consumerVars
<1>15. CASE ApiNext /\ UNCHANGED <<consumerVars, recoveryVars>>
  <2>1. UNCHANGED <<lock_token, worker_id>>
    BY <1>15 DEF ApiNext, CreateJob, CreateFails, SendMessage, SendFails, Create,
                 storeVars
  <2> QED
    BY <1>11, <1>15, <2>1 DEF consumerVars
<1>16. CASE GroupNext \/ UNCHANGED vars
  BY <1>11, <1>16 DEF GroupNext, Expel, Join, Rebalance, ForeignRecord, vars,
                      consumerVars, storeVars
<1> QED
  BY <1>1, <1>2, <1>3, <1>4, <1>5, <1>6, <1>7, <1>8, <1>10, <1>12, <1>13, <1>14,
     <1>15, <1>16
     DEF Next, ConsumerNext, ConsumerStep, HandlerStep, HandlerFault, ProcessNext

\* No handler can renew, or close, a lease granted to another, and no orphaned
\* heartbeat can, whatever crashes, is expelled, stalls or fails (try_start's
\* fresh token, and the WHERE clauses of heartbeat and finish).
THEOREM LeasesArePersonal == Spec => []LeaseIsPersonal
<1>1. Init => LeaseIsPersonal
  BY DEF Init, ConsumerInit, LeaseIsPersonal
<1> QED
  BY <1>1, InitTyped, StepInv, StepIsPersonal, PTL DEF Spec
=============================================================================
