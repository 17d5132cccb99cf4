--------------------------- MODULE JobStoreProofs ---------------------------
(* The tables of JobStore, for every set of jobs, workers and tokens and   *)
(* any order of statements: their columns stay consistent, and they        *)
(* implement the abstract lease of JobLease.                               *)
EXTENDS JobStore, TLAPS

USE DEF OutboxRow

\* Type correctness of the tables (job.rs and the migrations).
LEMMA StoreInitTyped == StoreInit => StoreTypeOK
BY DEF StoreInit, StoreTypeOK

LEMMA StoreStepTyped == StoreTypeOK /\ [StoreNext]_storeVars => StoreTypeOK'
<1> SUFFICES ASSUME StoreTypeOK, [StoreNext]_storeVars
             PROVE  StoreTypeOK'
  OBVIOUS
<1> USE DEF StoreTypeOK, Status
<1>1. ASSUME NEW j \in Jobs, Create(j) PROVE StoreTypeOK'
  BY <1>1 DEF Create
<1>2. ASSUME NEW j \in Jobs, NEW w \in Workers, NEW t \in Tokens, TryStart(j, w, t)
      PROVE  StoreTypeOK'
  BY <1>2 DEF TryStart
<1>3. ASSUME NEW j \in Jobs, NEW s \in {"Queued", "Running"}, UpdateStatus(j, s)
      PROVE  StoreTypeOK'
  BY <1>3 DEF UpdateStatus
<1>4. ASSUME NEW j \in Jobs, NEW v \in Verdicts, NEW t \in Tokens, Finish(j, v, t)
      PROVE  StoreTypeOK'
  BY <1>4 DEF Finish
<1>5. ASSUME NEW j \in Jobs, NEW t \in Tokens, Heartbeat(j, t) PROVE StoreTypeOK'
  BY <1>5 DEF Heartbeat
<1>6. ASSUME NEW j \in Jobs, LeaseExpires(j) PROVE StoreTypeOK'
  BY <1>6 DEF LeaseExpires
<1>7. ASSUME ReapStaleJob PROVE StoreTypeOK'
  BY <1>7 DEF ReapStaleJob, Stale, SetStale
<1>8. ASSUME NEW r \in outbox, MarkOutboxPublished(r) PROVE StoreTypeOK'
  BY <1>8 DEF MarkOutboxPublished
<1>9. CASE UNCHANGED storeVars
  BY <1>9 DEF storeVars
<1> QED
  BY <1>1, <1>2, <1>3, <1>4, <1>5, <1>6, <1>7, <1>8, <1>9 DEF StoreNext

THEOREM StoreTypeCorrect == StoreSpec => []StoreTypeOK
BY StoreInitTyped, StoreStepTyped, PTL DEF StoreSpec

-----------------------------------------------------------------------------
(* The columns of a row agree.  The conjunction is inductive as it stands:  *)
(* finish needs a token, which UnbeatenIsUnlocked ties to a heartbeat.      *)

\* No statement leaves a row whose columns contradict each other.
LEMMA StoreStepConsistent ==
  StoreTypeOK /\ StoreInv /\ [StoreNext]_storeVars => StoreInv'
<1> SUFFICES ASSUME StoreTypeOK, StoreInv, [StoreNext]_storeVars
             PROVE  StoreInv'
  OBVIOUS
<1> USE NullAssumption, VerdictsAssumption
<1> USE DEF StoreTypeOK, StoreInv, UnbeatenIsUnlocked, DecidedIsUnlocked,
            TokensAreDistinct, OutboxIsSound, Status, Final
<1>1. ASSUME NEW j \in Jobs, Create(j) PROVE StoreInv'
  BY <1>1 DEF Create
<1>2. ASSUME NEW j \in Jobs, NEW w \in Workers, NEW t \in Tokens,
             t \notin {lock_token[k] : k \in Jobs}, TryStart(j, w, t)
      PROVE  StoreInv'
  BY <1>2 DEF TryStart
<1>3. ASSUME NEW j \in Jobs, NEW s \in {"Queued", "Running"}, UpdateStatus(j, s)
      PROVE  StoreInv'
  BY <1>3 DEF UpdateStatus
<1>4. ASSUME NEW j \in Jobs, NEW v \in Verdicts, NEW t \in Tokens, Finish(j, v, t)
      PROVE  StoreInv'
  BY <1>4 DEF Finish, HoldsLease
<1>5. ASSUME NEW j \in Jobs, NEW t \in Tokens, Heartbeat(j, t) PROVE StoreInv'
  BY <1>5 DEF Heartbeat, HoldsLease
<1>6. ASSUME NEW j \in Jobs, LeaseExpires(j) PROVE StoreInv'
  BY <1>6 DEF LeaseExpires
<1>7. ASSUME ReapStaleJob PROVE StoreInv'
  BY <1>7 DEF ReapStaleJob, Stale, SetStale
<1>8. ASSUME NEW r \in outbox, MarkOutboxPublished(r) PROVE StoreInv'
  BY <1>8 DEF MarkOutboxPublished
<1>9. CASE UNCHANGED storeVars
  BY <1>9 DEF storeVars
<1> QED
  BY <1>1, <1>2, <1>3, <1>4, <1>5, <1>6, <1>7, <1>8, <1>9 DEF StoreNext

\* Whoever calls the statements in whatever order, a decided row and a row
\* without a heartbeat carry no token, a token leases one job, and an outbox
\* row stands for a job (job.rs).
THEOREM StoreConsistent == StoreSpec => []StoreInv
<1>1. StoreInit => StoreInv
  BY NullAssumption, VerdictsAssumption
     DEF StoreInit, StoreInv, UnbeatenIsUnlocked, DecidedIsUnlocked,
         TokensAreDistinct, OutboxIsSound, Status, Final
<1> QED
  BY <1>1, StoreInitTyped, StoreStepTyped, StoreStepConsistent, PTL DEF StoreSpec

-----------------------------------------------------------------------------
(* Refinement.  A statement that touches neither a token nor the line      *)
(* between decided and undecided maps to a stutter; each of the others to  *)
(* one action of JobLease.                                                 *)

DecidedMap == [j \in Jobs |-> VerdictOf(j)]
OwedSet    == {r.job_id : r \in outbox}

\* The mapped variables keep their values as long as the tokens, the outbox
\* and the verdicts keep theirs.
LEMMA StutterOfLease ==
  ASSUME UNCHANGED <<lock_token, outbox>>,
         \A j \in Jobs : VerdictOf(j)' = VerdictOf(j)
  PROVE  UNCHANGED Lease!leaseVars
<1>1. UNCHANGED DecidedMap
  BY DEF DecidedMap
<1>2. UNCHANGED OwedSet
  BY DEF OwedSet
<1> QED
  BY <1>1, <1>2 DEF Lease!leaseVars, DecidedMap, OwedSet

LEMMA LeaseInitMapped == StoreInit => Lease!Init
BY NullAssumption DEF StoreInit, Lease!Init, VerdictOf

LEMMA LeaseStepMapped ==
  StoreTypeOK /\ StoreInv /\ [StoreNext]_storeVars => [Lease!Next]_(Lease!leaseVars)
<1> SUFFICES ASSUME StoreTypeOK, StoreInv, [StoreNext]_storeVars
             PROVE  [Lease!Next]_(Lease!leaseVars)
  OBVIOUS
<1> USE NullAssumption, VerdictsAssumption DEF StoreTypeOK
<1>1. ASSUME NEW j \in Jobs, Create(j) PROVE UNCHANGED Lease!leaseVars
  <2>1. \A k \in Jobs : VerdictOf(k)' = VerdictOf(k)
    BY <1>1 DEF Create, VerdictOf, Final
  <2> QED
    BY <1>1, <2>1, StutterOfLease DEF Create
<1>2. ASSUME NEW j \in Jobs, NEW w \in Workers, NEW t \in Tokens,
             t \notin {lock_token[k] : k \in Jobs}, TryStart(j, w, t)
      PROVE  Lease!Grant(j, t)
  <2>1. VerdictOf(j) = "open" /\ \A k \in Jobs : VerdictOf(k)' = VerdictOf(k)
    BY <1>2 DEF TryStart, Startable, VerdictOf, Final
  <2> QED
    BY <1>2, <2>1 DEF TryStart, Lease!Grant
<1>3. ASSUME NEW j \in Jobs, NEW s \in {"Queued", "Running"}, UpdateStatus(j, s)
      PROVE  Lease!Reopen(j) \/ UNCHANGED Lease!leaseVars
  <2>1. VerdictOf(j)' = "open" /\ \A k \in Jobs \ {j} : VerdictOf(k)' = VerdictOf(k)
    BY <1>3 DEF UpdateStatus, VerdictOf, Final
  <2>2. CASE VerdictOf(j) = "open"
    BY <1>3, <2>1, <2>2, StutterOfLease DEF UpdateStatus
  <2>3. CASE VerdictOf(j) # "open"
    BY <1>3, <2>1, <2>3 DEF UpdateStatus, Lease!Reopen
  <2> QED
    BY <2>2, <2>3
<1>4. ASSUME NEW j \in Jobs, NEW v \in Verdicts, NEW t \in Tokens, Finish(j, v, t)
      PROVE  Lease!Decide(j, v)
  <2>1. VerdictOf(j) = "open" /\ VerdictOf(j)' = v
        /\ \A k \in Jobs \ {j} : VerdictOf(k)' = VerdictOf(k)
    BY <1>4 DEF Finish, HoldsLease, VerdictOf, Final
  <2>2. lock_token[j] # NULL
    BY <1>4 DEF Finish, HoldsLease
  <2> QED
    BY <1>4, <2>1, <2>2 DEF Finish, Lease!Decide
<1>5. ASSUME NEW j \in Jobs, NEW t \in Tokens, Heartbeat(j, t)
      PROVE  UNCHANGED Lease!leaseVars
  BY <1>5, StutterOfLease DEF Heartbeat, VerdictOf
<1>6. ASSUME NEW j \in Jobs, LeaseExpires(j) PROVE UNCHANGED Lease!leaseVars
  BY <1>6, StutterOfLease DEF LeaseExpires, VerdictOf
<1>7. ASSUME NEW S \in SUBSET Jobs, S = Stale, ReapStaleJob PROVE Lease!Revoke(S)
  <2>1. /\ \A j \in S : VerdictOf(j) = "open"
        /\ \A j \in Jobs : VerdictOf(j)' = VerdictOf(j)
    BY <1>7 DEF ReapStaleJob, SetStale, Stale, VerdictOf, Final
  <2> DEFINE events == [created_at : {reap_time + 1}, job_id : S]
  <2>2. {r.job_id : r \in events} = S
    <3>1. ASSUME NEW j \in S PROVE j \in {r.job_id : r \in events}
      <4>1. [created_at |-> reap_time + 1, job_id |-> j] \in events
        BY <3>1
      <4>2. [created_at |-> reap_time + 1, job_id |-> j].job_id = j
        OBVIOUS
      <4> HIDE DEF events
      <4> QED
        BY <4>1, <4>2
    <3> QED
      BY <3>1
  <2>3. OwedSet' = OwedSet \cup S
    BY <1>7, <2>2 DEF ReapStaleJob, OwedSet
  <2>4. lock_token' = [j \in Jobs |-> IF j \in S THEN NULL ELSE lock_token[j]]
    BY <1>7 DEF ReapStaleJob, SetStale
  <2>5. UNCHANGED DecidedMap
    BY <2>1 DEF DecidedMap
  <2>6. \A j \in S : DecidedMap[j] = "open"
    BY <2>1 DEF DecidedMap, Stale
  <2> QED
    BY <2>3, <2>4, <2>5, <2>6 DEF OwedSet, DecidedMap, Lease!Revoke
<1>8. ASSUME NEW r \in outbox, MarkOutboxPublished(r)
      PROVE  Lease!Announce(r.job_id) \/ UNCHANGED Lease!leaseVars
  <2>1. \A j \in Jobs : VerdictOf(j)' = VerdictOf(j)
    BY <1>8 DEF MarkOutboxPublished, VerdictOf
  <2>2. OwedSet' = OwedSet \/ OwedSet' = OwedSet \ {r.job_id}
    BY <1>8 DEF MarkOutboxPublished, OwedSet
  <2>3. r.job_id \in OwedSet
    BY DEF OwedSet
  <2> QED
    BY <1>8, <2>1, <2>2, <2>3 DEF MarkOutboxPublished, OwedSet, Lease!Announce,
                                   Lease!leaseVars
<1>9. CASE UNCHANGED storeVars
  BY <1>9, StutterOfLease DEF storeVars, VerdictOf
<1>10. \A r \in outbox : r.job_id \in Jobs
  BY DEF OutboxRow
<1>11. Stale \in SUBSET Jobs
  BY DEF Stale
<1>12. CASE \E j \in Jobs, w \in Workers, t \in Tokens :
              t \notin {lock_token[k] : k \in Jobs} /\ TryStart(j, w, t)
  BY <1>2, <1>12 DEF Lease!Next
<1>13. CASE \E j \in Jobs, s \in {"Queued", "Running"} : UpdateStatus(j, s)
  BY <1>3, <1>13 DEF Lease!Next
<1>14. CASE \E j \in Jobs, v \in Verdicts, t \in Tokens : Finish(j, v, t)
  BY <1>4, <1>14 DEF Lease!Next
<1>15. CASE ReapStaleJob
  <2>1. PICK S \in SUBSET Jobs : S = Stale
    BY <1>11
  <2>2. Lease!Revoke(S)
    BY <1>7, <1>15, <2>1
  <2> QED
    BY <2>2 DEF Lease!Next
<1>16. CASE \E r \in outbox : MarkOutboxPublished(r)
  BY <1>8, <1>10, <1>16 DEF Lease!Next
<1>17. CASE \E j \in Jobs :
              Create(j) \/ (\E t \in Tokens : Heartbeat(j, t)) \/ LeaseExpires(j)
  BY <1>1, <1>5, <1>6, <1>17
<1> QED
  BY <1>9, <1>12, <1>13, <1>14, <1>15, <1>16, <1>17 DEF StoreNext

\* job.rs implements the abstract lease: its statements, interleaved in any
\* way, decide a job only by spending its lease, and take a lease away only
\* together with an event that brings the job back to the queue.
THEOREM StoreKeepsLease == StoreSpec => LeaseKept
<1>1. StoreSpec => Lease!Init /\ [][Lease!Next]_(Lease!leaseVars)
  BY StoreTypeCorrect, StoreConsistent, LeaseInitMapped, LeaseStepMapped, PTL
     DEF StoreSpec
<1> QED
  BY <1>1 DEF LeaseKept, Lease!Spec
=============================================================================
