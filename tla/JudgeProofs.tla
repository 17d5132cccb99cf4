---------------------------- MODULE JudgeProofs -----------------------------
(***************************************************************************)
(* The judge, for every number of jobs, workers, partitions and faults:    *)
(* its variables keep their types, and while the group expels nobody, no   *)
(* two workers execute one job.                                            *)
(***************************************************************************)
EXTENDS JudgeProperties, TLAPS

LEMMA Kinds ==
  FaultKinds = {"crash", "restart", "expel", "rebalance", "stall", "db", "send",
                "docker", "panic", "foreign"}
BY DEF FaultKinds, Budget

\* What a step may do to the budget.
Spends == UNCHANGED faults \/ \E kind \in FaultKinds : Fault(kind)

\* Every step names the fault it is, or is none.
LEMMA StepSpends == [Next]_vars => Spends
BY Kinds
   DEF Spends, NoFault, Next, vars, ConsumerNext, ConsumerStep, HandlerStep,
       HandlerFault, HeartbeatNext, RecoveryNext, PublisherStep, ApiNext, ProcessNext,
       GroupNext, CleanOrphans, CleanFails, Receive, Requeue, RequeueFails,
       LatencyPanics, Start, StartRefused, StartFails, MarkRunning, MarkFails,
       RunReturns, RunCancelled, FinishJob, FinishRefused, FinishFails, Commit,
       CommitFails, SendToDlq, DlqFails, Beat, BeatFindsLeaseLost, BeatFails,
       DetachedBeat, DetachedEnds, LeaseAges, FailsUnsure, Reap, ReapFails,
       FetchOutbox, PublishRow, PublishRowFails, MarkPublished, PublisherFails,
       CreateJob, CreateFails, SendMessage, SendFails, Crash, Restart, Expel, Join,
       Rebalance, ForeignRecord

LEMMA FaultTyped == FaultsTypeOK /\ Spends => FaultsTypeOK'
BY DEF FaultsTypeOK, Fault, Spends

LEMMA ReapTyped ==
  StoreTypeOK /\ (ReapStaleJob \/ UNCHANGED storeVars) => StoreTypeOK'
<1>1. ASSUME StoreTypeOK, ReapStaleJob PROVE StoreTypeOK'
  BY <1>1 DEF StoreTypeOK, ReapStaleJob, Stale, SetStale, Status, OutboxRow
<1>2. ASSUME StoreTypeOK, UNCHANGED storeVars PROVE StoreTypeOK'
  BY <1>2 DEF StoreTypeOK, storeVars
<1> QED
  BY <1>1, <1>2

LEMMA AppendTyped ==
  ASSUME NEW p \in Partitions, NEW rec \in Records, TopicTypeOK, Append1(p, rec)
  PROVE  TopicTypeOK'
BY DEF TopicTypeOK, Append1

LEMMA SendTyped ==
  ASSUME NEW j \in Jobs, TopicTypeOK, SendJobUnsure(j)
  PROVE  TopicTypeOK'
BY AppendTyped, PartitionAssumption
   DEF SendJobUnsure, SendJob, Records, TopicTypeOK, topicVars

-----------------------------------------------------------------------------
(* Types.  TypeOK is not inductive: a commit writes the offset of the      *)
(* message in hand, try_start names its job and finish its token and       *)
(* verdict, so a worker must have what its control state says it has.      *)

AtWork == {"requeue", "start", "mark", "run", "finish"}
Leased == {"mark", "run", "finish"}

InHand ==
  \A w \in Workers :
    /\ pc[w] \in Handling => msg[w] \in Message
    /\ pc[w] \in AtWork => JobOf(w) \in Jobs
    /\ IF pc[w] \in Leased THEN token[w] \in Tokens ELSE token[w] = NULL
    /\ pc[w] = "finish" => verdict[w] \in Verdicts
    /\ heartbeat[w] = "beating" => pc[w] \in {"mark", "run"}

TypeInv == TypeOK /\ InHand

LEMMA InitTyped == Init => TypeInv
<1> SUFFICES ASSUME Init PROVE TypeInv
  OBVIOUS
<1> USE DEF Init
<1>1. StoreTypeOK
  BY DEF StoreInit, StoreTypeOK
<1>2. TopicTypeOK
  BY DEF TopicInit, TopicTypeOK
<1>3. ConsumerTypeOK /\ InHand
  BY DEF ConsumerInit, ConsumerTypeOK, InHand, PC, Handling, AtWork, Leased
<1>4. RecoveryTypeOK /\ ApiTypeOK
  BY DEF RecoveryInit, RecoveryTypeOK, ApiInit, ApiTypeOK
<1>5. FaultsTypeOK
  BY BudgetAssumption DEF FaultsInit, FaultsTypeOK
<1> QED
  BY <1>1, <1>2, <1>3, <1>4, <1>5 DEF TypeInv, TypeOK

LEMMA StepTyped == TypeInv /\ [Next]_vars => TypeOK'
<1> SUFFICES ASSUME TypeInv, [Next]_vars PROVE TypeOK'
  OBVIOUS
<1> USE PartitionAssumption, FaultTyped, Kinds
<1> USE DEF TypeInv, InHand, TypeOK, AtWork, Leased, JobOf, StoreTypeOK, TopicTypeOK, ConsumerTypeOK,
            RecoveryTypeOK, ApiTypeOK, Spends, NoFault, storeVars, topicVars,
            consumerVars, recoveryVars, Handling, PC, Message, Task, Records,
            OutboxRow, Status
\* The consumer.
<1>1. ASSUME NEW w \in Workers, CleanOrphans(w),
             UNCHANGED <<recoveryVars, request>>
      PROVE  TypeOK'
  BY <1>1 DEF CleanOrphans, Goto
<1>2. ASSUME NEW w \in Workers, CleanFails(w),
             UNCHANGED <<recoveryVars, request>>
      PROVE  TypeOK'
  BY <1>2 DEF CleanFails, ConsumerEnds, Goto, Forget, LeaveGroup, Unassign
<1>3. ASSUME NEW w \in Workers, NEW p \in Partitions, Receive(w, p),
             UNCHANGED <<recoveryVars, request>>
      PROVE  TypeOK'
  BY <1>3 DEF Receive, Deliver, Available, Goto
<1>4. ASSUME NEW w \in Workers, Requeue(w), UNCHANGED <<recoveryVars, request>>
      PROVE  TypeOK'
  BY <1>4 DEF Requeue, UpdateStatus, Goto
<1>5. ASSUME NEW w \in Workers, RequeueFails(w),
             UNCHANGED <<recoveryVars, request>>
      PROVE  TypeOK'
  <2>1. CASE UpdateStatus(JobOf(w), "Queued")
    BY <1>5, <2>1 DEF RequeueFails, FailsUnsure, UpdateStatus, ReturnRetryable, Goto,
                      Forget
  <2>2. CASE UNCHANGED storeVars
    BY <1>5, <2>2 DEF RequeueFails, FailsUnsure, ReturnRetryable, Goto, Forget
  <2> QED
    BY <1>5, <2>1, <2>2 DEF RequeueFails, FailsUnsure
<1>6. ASSUME NEW w \in Workers, LatencyPanics(w),
             UNCHANGED <<recoveryVars, request>>
      PROVE  TypeOK'
  BY <1>6 DEF LatencyPanics, ConsumerEnds, Goto, Forget, LeaveGroup, Unassign
<1>7. ASSUME NEW w \in Workers, NEW t \in Tokens, Start(w, t),
             UNCHANGED <<recoveryVars, request>>
      PROVE  TypeOK'
  BY <1>7 DEF Start, TryStart, Goto
<1>8. ASSUME NEW w \in Workers, StartRefused(w),
             UNCHANGED <<recoveryVars, request>>
      PROVE  TypeOK'
  BY <1>8 DEF StartRefused, Goto
<1>9. ASSUME NEW w \in Workers, NEW t \in Tokens, StartFails(w, t),
             UNCHANGED <<recoveryVars, request>>
      PROVE  TypeOK'
  <2>1. CASE TryStart(JobOf(w), w, t)
    BY <1>9, <2>1 DEF StartFails, FailsUnsure, TryStart, ReturnRetryable, Goto,
                       Forget
  <2>2. CASE UNCHANGED storeVars
    BY <1>9, <2>2 DEF StartFails, FailsUnsure, ReturnRetryable, Goto, Forget
  <2> QED
    BY <1>9, <2>1, <2>2 DEF StartFails, FailsUnsure
<1>10. ASSUME NEW w \in Workers, MarkRunning(w),
             UNCHANGED <<recoveryVars, request>>
      PROVE  TypeOK'
  BY <1>10 DEF MarkRunning, UpdateStatus, Goto
<1>11. ASSUME NEW w \in Workers, MarkFails(w),
             UNCHANGED <<recoveryVars, request>>
      PROVE  TypeOK'
  BY <1>11 DEF MarkFails, FailsUnsure, UpdateStatus, ReturnRetryable, Goto,
               Forget
<1>12. ASSUME NEW w \in Workers, NEW v \in Verdicts, RunReturns(w, v),
             UNCHANGED <<recoveryVars, request>>
      PROVE  TypeOK'
  <2>1. CASE heartbeat[w] = "failed"
    <3>1. /\ ReturnRetryable(w)
          /\ UNCHANGED <<storeVars, topicVars, detached, faults>>
      BY <1>12, <2>1 DEF RunReturns
    <3> QED
      BY <1>12, <3>1 DEF ReturnRetryable, Goto, Forget
  <2>2. CASE heartbeat[w] # "failed"
    <3>1. /\ pc'        = [pc        EXCEPT ![w] = "finish"]
          /\ verdict'   = [verdict   EXCEPT ![w] = v]
          /\ heartbeat' = [heartbeat EXCEPT ![w] = "off"]
          /\ UNCHANGED <<storeVars, topicVars, msg, token, detached, dlq, faults>>
      BY <1>12, <2>2 DEF RunReturns, Goto
    <3>2. ConsumerTypeOK'
      BY <3>1
    <3> QED
      BY <1>12, <3>1, <3>2
  <2> QED
    BY <2>1, <2>2
<1>13. ASSUME NEW w \in Workers, RunCancelled(w),
             UNCHANGED <<recoveryVars, request>>
      PROVE  TypeOK'
  BY <1>13 DEF RunCancelled, ReturnRetryable, Goto, Forget
<1>14. ASSUME NEW w \in Workers, FinishJob(w),
             UNCHANGED <<recoveryVars, request>>
      PROVE  TypeOK'
  BY <1>14 DEF FinishJob, Finish, Goto
<1>15. ASSUME NEW w \in Workers, FinishRefused(w),
             UNCHANGED <<recoveryVars, request>>
      PROVE  TypeOK'
  BY <1>15 DEF FinishRefused, ReturnRetryable, Goto, Forget
<1>16. ASSUME NEW w \in Workers, FinishFails(w),
             UNCHANGED <<recoveryVars, request>>
      PROVE  TypeOK'
  BY <1>16 DEF FinishFails, FailsUnsure, Finish, ReturnRetryable, Goto, Forget
<1>17. ASSUME NEW w \in Workers, Commit(w), UNCHANGED <<recoveryVars, request>>
      PROVE  TypeOK'
  BY <1>17 DEF Commit, CommitAsync, Goto, Forget
<1>18. ASSUME NEW w \in Workers, CommitFails(w),
             UNCHANGED <<recoveryVars, request>>
      PROVE  TypeOK'
  BY <1>18 DEF CommitFails, ConsumerEnds, Goto, Forget, LeaveGroup, Unassign
<1>19. ASSUME NEW w \in Workers, SendToDlq(w),
             UNCHANGED <<recoveryVars, request>>
      PROVE  TypeOK'
  <2>1. <<msg[w].partition, msg[w].offset>> \in Partitions \X Nat
    BY <1>19 DEF SendToDlq
  <2>2. dlq' \in SUBSET (Partitions \X Nat)
    BY <1>19, <2>1 DEF SendToDlq, WithDeadLetter
  <2> QED
    BY <1>19, <2>2 DEF SendToDlq, Goto
<1>20. ASSUME NEW w \in Workers, DlqFails(w),
             UNCHANGED <<recoveryVars, request>>
      PROVE  TypeOK'
  <2>1. <<msg[w].partition, msg[w].offset>> \in Partitions \X Nat
    BY <1>20 DEF DlqFails
  <2>2. dlq' \in SUBSET (Partitions \X Nat) /\ Spends
    BY <1>20, <2>1 DEF DlqFails, WithDeadLetter
  <2> QED
    BY <1>20, <2>2 DEF DlqFails, ConsumerEnds, Goto, Forget, LeaveGroup, Unassign
<1>21. ASSUME NEW w \in Workers, Beat(w), UNCHANGED <<recoveryVars, request>>
      PROVE  TypeOK'
  BY <1>21 DEF Beat, Heartbeat
<1>22. ASSUME NEW w \in Workers, BeatFindsLeaseLost(w),
             UNCHANGED <<recoveryVars, request>>
      PROVE  TypeOK'
  BY <1>22 DEF BeatFindsLeaseLost
<1>23. ASSUME NEW w \in Workers, BeatFails(w),
             UNCHANGED <<recoveryVars, request>>
      PROVE  TypeOK'
  BY <1>23 DEF BeatFails, FailsUnsure, Heartbeat
<1>24. ASSUME NEW h \in detached, DetachedBeat(h),
             UNCHANGED <<recoveryVars, request>>
      PROVE  TypeOK'
  BY <1>24 DEF DetachedBeat, Heartbeat
<1>25. ASSUME NEW h \in detached, DetachedEnds(h),
             UNCHANGED <<recoveryVars, request>>
      PROVE  TypeOK'
  BY <1>25 DEF DetachedEnds, FailsUnsure, Heartbeat
<1>26. ASSUME NEW j \in Jobs, LeaseAges(j), UNCHANGED <<recoveryVars, request>>
      PROVE  TypeOK'
  BY <1>26 DEF LeaseAges, LeaseExpires
\* The reaper and the publisher.
<1>27. ASSUME NEW w \in Workers, Reap(w), UNCHANGED <<consumerVars, request>>
      PROVE  TypeOK'
  <2>1. StoreTypeOK'
    BY <1>27, ReapTyped DEF Reap
  <2> HIDE DEF StoreTypeOK
  <2> QED
    BY <1>27, <2>1 DEF Reap
<1>28. ASSUME NEW w \in Workers, ReapFails(w),
             UNCHANGED <<consumerVars, request>>
      PROVE  TypeOK'
  <2>1. StoreTypeOK'
    BY <1>28, ReapTyped DEF ReapFails
  <2> HIDE DEF StoreTypeOK
  <2> QED
    BY <1>28, <2>1 DEF ReapFails
<1>29. ASSUME NEW w \in Workers, FetchOutbox(w),
             UNCHANGED <<consumerVars, request>>
      PROVE  TypeOK'
  <2>1. PICK b \in UnpublishedOutbox : batch' = [batch EXCEPT ![w] = b]
    BY <1>29 DEF FetchOutbox
  <2>2. b \in SUBSET OutboxRow
    BY <2>1 DEF UnpublishedOutbox
  <2>3. batch' \in [Workers -> SUBSET OutboxRow]
    BY <2>1, <2>2
  <2> QED
    BY <1>29, <2>3 DEF FetchOutbox
<1>30. ASSUME NEW w \in Workers, NEW r \in batch[w], PublishRow(w, r),
             UNCHANGED <<consumerVars, request>>
      PROVE  TypeOK'
  <2>1. r \in OutboxRow
    BY <1>30
  <2>2. TopicTypeOK'
    BY <1>30, <2>1, SendTyped DEF PublishRow, SendJobUnsure
  <2> HIDE DEF TopicTypeOK
  <2> QED
    BY <1>30, <2>1, <2>2 DEF PublishRow, SendJob, Append1
<1>31. ASSUME NEW w \in Workers, NEW r \in batch[w], PublishRowFails(w, r),
             UNCHANGED <<consumerVars, request>>
      PROVE  TypeOK'
  <2>1. r \in OutboxRow
    BY <1>31
  <2>2. TopicTypeOK'
    BY <1>31, <2>1, SendTyped DEF PublishRowFails
  <2> HIDE DEF TopicTypeOK
  <2> QED
    BY <1>31, <2>2 DEF PublishRowFails
<1>32. ASSUME NEW w \in Workers, MarkPublished(w),
             UNCHANGED <<consumerVars, request>>
      PROVE  TypeOK'
  BY <1>32 DEF MarkPublished, MarkOutboxPublished
<1>33. ASSUME NEW w \in Workers, PublisherFails(w),
             UNCHANGED <<consumerVars, request>>
      PROVE  TypeOK'
  BY <1>33 DEF PublisherFails, MarkOutboxPublished, Idle
\* The API.
<1>34. ASSUME NEW j \in Jobs, CreateJob(j),
             UNCHANGED <<consumerVars, recoveryVars>>
      PROVE  TypeOK'
  BY <1>34 DEF CreateJob, Create
<1>35. ASSUME NEW j \in Jobs, CreateFails(j),
             UNCHANGED <<consumerVars, recoveryVars>>
      PROVE  TypeOK'
  BY <1>35 DEF CreateFails, Create
<1>36. ASSUME NEW j \in Jobs, SendMessage(j),
             UNCHANGED <<consumerVars, recoveryVars>>
      PROVE  TypeOK'
  <2>1. TopicTypeOK'
    BY <1>36, SendTyped DEF SendMessage, SendJobUnsure
  <2> HIDE DEF TopicTypeOK
  <2> QED
    BY <1>36, <2>1 DEF SendMessage, SendJob, Append1
<1>37. ASSUME NEW j \in Jobs, SendFails(j),
             UNCHANGED <<consumerVars, recoveryVars>>
      PROVE  TypeOK'
  <2>1. TopicTypeOK'
    BY <1>37, SendTyped DEF SendFails
  <2> HIDE DEF TopicTypeOK
  <2> QED
    BY <1>37, <2>1 DEF SendFails
\* The processes and the consumer group.
<1>38. ASSUME NEW w \in Workers, Crash(w)
      PROVE  TypeOK'
  BY <1>38 DEF Crash, Goto, Forget, LeaveGroup, Unassign
<1>39. ASSUME NEW w \in Workers, Restart(w)
      PROVE  TypeOK'
  BY <1>39 DEF Restart, Goto
<1>40. ASSUME NEW w \in Workers, Expel(w)
      PROVE  TypeOK'
  BY <1>40 DEF Expel, LeaveGroup, Unassign
<1>41. ASSUME NEW w \in Workers, NEW p \in Partitions, Join(w, p)
      PROVE  TypeOK'
  BY <1>41 DEF Join, Assign
<1>42. ASSUME NEW w \in Workers, NEW p \in Partitions, Rebalance(w, p)
      PROVE  TypeOK'
  <2>1. /\ Unassign({p}) /\ Spends
        /\ UNCHANGED <<storeVars, consumerVars, recoveryVars, request>>
    BY <1>42 DEF Rebalance
  <2>2. TopicTypeOK'
    BY <2>1 DEF Unassign
  <2> QED
    BY <2>1, <2>2
<1>43. ASSUME NEW p \in Partitions, ForeignRecord(p)
      PROVE  TypeOK'
  <2>1. TopicTypeOK'
    BY <1>43, AppendTyped DEF ForeignRecord
  <2> HIDE DEF TopicTypeOK
  <2> QED
    BY <1>43, <2>1 DEF ForeignRecord, Append1
<1>44. CASE UNCHANGED vars
  BY <1>44 DEF vars
<1> QED
  BY <1>1, <1>2, <1>3, <1>4, <1>5, <1>6, <1>7, <1>8, <1>9, <1>10, <1>11, <1>12,
     <1>13, <1>14, <1>15, <1>16, <1>17, <1>18, <1>19, <1>20, <1>21, <1>22,
     <1>23, <1>24, <1>25, <1>26, <1>27, <1>28, <1>29, <1>30, <1>31, <1>32,
     <1>33, <1>34, <1>35, <1>36, <1>37, <1>38, <1>39, <1>40, <1>41, <1>42,
     <1>43, <1>44
     DEF Next, ConsumerNext, ConsumerStep, HandlerStep, HandlerFault, HeartbeatNext,
         RecoveryNext, PublisherStep, ApiNext, ProcessNext, GroupNext

\* A worker's control state says what it has in hand.
LEMMA StepInHand == TypeInv /\ [Next]_vars => InHand'
<1> SUFFICES ASSUME TypeInv, [Next]_vars PROVE InHand'
  OBVIOUS
<1>typed. /\ InHand /\ ConsumerTypeOK
          /\ position \in [Partitions -> Nat] /\ log \in [Partitions -> Seq(Records)]
  BY DEF TypeInv, TypeOK, TopicTypeOK
<1> USE <1>typed, NullAssumption
<1> USE DEF ConsumerTypeOK, InHand, PC, Handling, AtWork, Leased, JobOf
\* A handler that goes on with its message.
<1>1. ASSUME NEW w \in Workers, NEW p \in Partitions, Receive(w, p)
      PROVE  InHand'
  <2>1. log[p][position[p] + 1] \in Records
    BY <1>1 DEF Receive, Deliver, Available
  <2> QED
    BY <1>1, <2>1 DEF Receive, Goto, Message, Records
<1>2. ASSUME NEW w \in Workers, Requeue(w) PROVE InHand'
  BY <1>2 DEF Requeue, Goto
<1>3. ASSUME NEW w \in Workers, NEW t \in Tokens, Start(w, t) PROVE InHand'
  BY <1>3 DEF Start, Goto
<1>4. ASSUME NEW w \in Workers, StartRefused(w) \/ SendToDlq(w) PROVE InHand'
  BY <1>4 DEF StartRefused, SendToDlq, Goto
<1>5. ASSUME NEW w \in Workers, MarkRunning(w) PROVE InHand'
  BY <1>5 DEF MarkRunning, Goto
<1>6. ASSUME NEW w \in Workers, NEW v \in Verdicts, RunReturns(w, v) PROVE InHand'
  <2>1. CASE heartbeat[w] = "failed"
    <3>1. ReturnRetryable(w)
      BY <1>6, <2>1 DEF RunReturns
    <3> QED
      BY <3>1 DEF ReturnRetryable, Goto, Forget
  <2>2. CASE heartbeat[w] # "failed"
    BY <1>6, <2>2 DEF RunReturns, Goto
  <2> QED
    BY <2>1, <2>2
<1>7. ASSUME NEW w \in Workers, FinishJob(w) PROVE InHand'
  BY <1>7 DEF FinishJob, Goto
<1>8. ASSUME NEW w \in Workers, BeatFindsLeaseLost(w) \/ BeatFails(w) PROVE InHand'
  BY <1>8 DEF BeatFindsLeaseLost, BeatFails
\* A handler that is through.
<1>9. ASSUME NEW w \in Workers, NEW to \in {"poll", "dead", "down"},
             Goto(w, to), Forget(w)
      PROVE  InHand'
  BY <1>9 DEF Goto, Forget
<1>10. ASSUME NEW w \in Workers,
              \/ CleanFails(w) \/ LatencyPanics(w) \/ CommitFails(w) \/ DlqFails(w)
              \/ RequeueFails(w) \/ MarkFails(w) \/ RunCancelled(w) \/ FinishRefused(w)
              \/ FinishFails(w) \/ Commit(w) \/ Crash(w)
              \/ \E t \in Tokens : StartFails(w, t)
      PROVE  InHand'
  <2>1. \E to \in {"poll", "dead", "down"} : Goto(w, to) /\ Forget(w)
    BY <1>10 DEF CleanFails, LatencyPanics, CommitFails, DlqFails, RequeueFails,
                 MarkFails, RunCancelled, FinishRefused, FinishFails, Commit, Crash,
                 StartFails, ReturnRetryable, ConsumerEnds
  <2> QED
    BY <1>9, <2>1
\* Between messages.
<1>11. ASSUME NEW w \in Workers, CleanOrphans(w) \/ Restart(w) PROVE InHand'
  BY <1>11 DEF CleanOrphans, Restart, Goto
<1>12. CASE UNCHANGED <<pc, msg, token, verdict, heartbeat>>
  BY <1>12
<1>13. ASSUME HeartbeatNext PROVE InHand'
  <2>1. CASE \E w \in Workers : BeatFindsLeaseLost(w)
    BY <1>8, <2>1
  <2>2. CASE UNCHANGED <<pc, msg, token, verdict, heartbeat>>
    BY <1>12, <2>2
  <2> QED
    BY <1>13, <2>1, <2>2
       DEF HeartbeatNext, Beat, DetachedBeat, DetachedEnds, LeaseAges, consumerVars
<1>14. CASE GroupNext \/ UNCHANGED vars
  BY <1>12, <1>14 DEF GroupNext, Expel, Join, Rebalance, ForeignRecord, vars,
                      consumerVars
<1>15. CASE UNCHANGED consumerVars
  BY <1>12, <1>15 DEF consumerVars
<1> QED
  BY <1>1, <1>2, <1>3, <1>4, <1>5, <1>6, <1>7, <1>8, <1>10, <1>11, <1>13, <1>14,
     <1>15
     DEF Next, ConsumerNext, ConsumerStep, HandlerStep, HandlerFault, ProcessNext

LEMMA StepInv == TypeInv /\ [Next]_vars => TypeInv'
BY StepTyped, StepInHand DEF TypeInv

\* Type correctness of the whole system (every struct and table of it).
THEOREM TypeCorrect == Spec => []TypeOK
<1>1. TypeInv => TypeOK
  BY DEF TypeInv
<1> QED
  BY <1>1, InitTyped, StepInv, PTL DEF Spec

-----------------------------------------------------------------------------
(* Exclusion.  The topic's key sends all records of a job to one partition *)
(* (Keyed), a message in hand came from the partition of its job           *)
(* (OnItsPartition), and without an expulsion a worker that handles a      *)
(* message still owns the partition it came from (Owned): two workers with *)
(* one job would own one partition.  OneExecution alone says nothing of    *)
(* partitions, so it is not inductive.                                     *)

NoExpulsion == faults["expel"] = 0

Keyed ==
  \A p \in Partitions : \A o \in DOMAIN log[p] :
    log[p][o] \in Jobs => PartitionOf[log[p][o]] = p

Owned == \A w \in Workers : pc[w] \in Handling => owner[msg[w].partition] = w

OnItsPartition ==
  \A w \in Workers : pc[w] \in Handling /\ JobOf(w) \in Jobs =>
    PartitionOf[JobOf(w)] = msg[w].partition

Exclusion == NoExpulsion /\ Keyed /\ Owned /\ OnItsPartition

LEMMA BudgetOnlyShrinks == FaultsTypeOK /\ NoExpulsion /\ Spends => NoExpulsion'
<1>1. ASSUME FaultsTypeOK, NoExpulsion, NEW kind \in FaultKinds, Fault(kind)
      PROVE  NoExpulsion'
  <2>1. kind # "expel"
    BY <1>1 DEF NoExpulsion, Fault
  <2> QED
    BY <1>1, <2>1, Kinds DEF FaultsTypeOK, NoExpulsion, Fault
<1> QED
  BY <1>1 DEF Spends, NoExpulsion

LEMMA StepExclusive == TypeInv /\ Exclusion /\ [Next]_vars => Exclusion'
<1> SUFFICES ASSUME TypeInv, Exclusion, [Next]_vars PROVE Exclusion'
  OBVIOUS
<1>typed. /\ TopicTypeOK /\ FaultsTypeOK /\ InHand
          /\ pc \in [Workers -> PC] /\ msg \in [Workers -> Message \cup {NULL}]
  BY DEF TypeInv, TypeOK, ConsumerTypeOK
<1> USE <1>typed, PartitionAssumption, MalformedAssumption, BudgetOnlyShrinks, Kinds
<1> USE DEF Exclusion, Keyed, Owned, OnItsPartition, InHand, AtWork, TopicTypeOK,
            Spends, NoFault, topicVars, consumerVars, Handling, Message, Records,
            JobOf
\* The consumer.
<1>1. ASSUME NEW w \in Workers, CleanOrphans(w),
             UNCHANGED <<recoveryVars, request>>
      PROVE  Exclusion'
  BY <1>1 DEF CleanOrphans, Goto
<1>2. ASSUME NEW w \in Workers, CleanFails(w),
             UNCHANGED <<recoveryVars, request>>
      PROVE  Exclusion'
  BY <1>2 DEF CleanFails, ConsumerEnds, Goto, Forget, LeaveGroup, Unassign
<1>3. ASSUME NEW w \in Workers, NEW p \in Partitions, Receive(w, p),
             UNCHANGED <<recoveryVars, request>>
      PROVE  Exclusion'
  BY <1>3 DEF Receive, Deliver, Available, Goto
<1>4. ASSUME NEW w \in Workers, Requeue(w), UNCHANGED <<recoveryVars, request>>
      PROVE  Exclusion'
  BY <1>4 DEF Requeue, UpdateStatus, Goto
<1>5. ASSUME NEW w \in Workers, RequeueFails(w),
             UNCHANGED <<recoveryVars, request>>
      PROVE  Exclusion'
  BY <1>5 DEF RequeueFails, FailsUnsure, UpdateStatus, ReturnRetryable, Goto,
              Forget
<1>6. ASSUME NEW w \in Workers, LatencyPanics(w),
             UNCHANGED <<recoveryVars, request>>
      PROVE  Exclusion'
  BY <1>6 DEF LatencyPanics, ConsumerEnds, Goto, Forget, LeaveGroup, Unassign
<1>7. ASSUME NEW w \in Workers, NEW t \in Tokens, Start(w, t),
             UNCHANGED <<recoveryVars, request>>
      PROVE  Exclusion'
  BY <1>7 DEF Start, TryStart, Goto
<1>8. ASSUME NEW w \in Workers, StartRefused(w),
             UNCHANGED <<recoveryVars, request>>
      PROVE  Exclusion'
  BY <1>8 DEF StartRefused, Goto
<1>9. ASSUME NEW w \in Workers, NEW t \in Tokens, StartFails(w, t),
             UNCHANGED <<recoveryVars, request>>
      PROVE  Exclusion'
  BY <1>9 DEF StartFails, FailsUnsure, TryStart, ReturnRetryable, Goto, Forget
<1>10. ASSUME NEW w \in Workers, MarkRunning(w),
             UNCHANGED <<recoveryVars, request>>
      PROVE  Exclusion'
  BY <1>10 DEF MarkRunning, UpdateStatus, Goto
<1>11. ASSUME NEW w \in Workers, MarkFails(w),
             UNCHANGED <<recoveryVars, request>>
      PROVE  Exclusion'
  BY <1>11 DEF MarkFails, FailsUnsure, UpdateStatus, ReturnRetryable, Goto,
               Forget
<1>12. ASSUME NEW w \in Workers, NEW v \in Verdicts, RunReturns(w, v),
             UNCHANGED <<recoveryVars, request>>
      PROVE  Exclusion'
  <2>1. CASE heartbeat[w] = "failed"
    <3>1. ReturnRetryable(w) /\ UNCHANGED <<log, owner, faults>>
      BY <1>12, <2>1 DEF RunReturns
    <3> QED
      BY <3>1 DEF ReturnRetryable, Goto, Forget
  <2>2. CASE heartbeat[w] # "failed"
    <3>1. pc[w] = "run" /\ Goto(w, "finish") /\ UNCHANGED <<log, owner, msg, faults>>
      BY <1>12, <2>2 DEF RunReturns
    <3> QED
      BY <3>1 DEF Goto
  <2> QED
    BY <2>1, <2>2
<1>13. ASSUME NEW w \in Workers, RunCancelled(w),
             UNCHANGED <<recoveryVars, request>>
      PROVE  Exclusion'
  BY <1>13 DEF RunCancelled, ReturnRetryable, Goto, Forget
<1>14. ASSUME NEW w \in Workers, FinishJob(w),
             UNCHANGED <<recoveryVars, request>>
      PROVE  Exclusion'
  BY <1>14 DEF FinishJob, Finish, Goto
<1>15. ASSUME NEW w \in Workers, FinishRefused(w),
             UNCHANGED <<recoveryVars, request>>
      PROVE  Exclusion'
  BY <1>15 DEF FinishRefused, ReturnRetryable, Goto, Forget
<1>16. ASSUME NEW w \in Workers, FinishFails(w),
             UNCHANGED <<recoveryVars, request>>
      PROVE  Exclusion'
  BY <1>16 DEF FinishFails, FailsUnsure, Finish, ReturnRetryable, Goto, Forget
<1>17. ASSUME NEW w \in Workers, Commit(w), UNCHANGED <<recoveryVars, request>>
      PROVE  Exclusion'
  BY <1>17 DEF Commit, CommitAsync, Goto, Forget
<1>18. ASSUME NEW w \in Workers, CommitFails(w),
             UNCHANGED <<recoveryVars, request>>
      PROVE  Exclusion'
  BY <1>18 DEF CommitFails, ConsumerEnds, Goto, Forget, LeaveGroup, Unassign
<1>19. ASSUME NEW w \in Workers, SendToDlq(w),
             UNCHANGED <<recoveryVars, request>>
      PROVE  Exclusion'
  BY <1>19 DEF SendToDlq, WithDeadLetter, Goto
<1>20. ASSUME NEW w \in Workers, DlqFails(w),
             UNCHANGED <<recoveryVars, request>>
      PROVE  Exclusion'
  BY <1>20 DEF DlqFails, WithDeadLetter, ConsumerEnds, Goto, Forget,
               LeaveGroup, Unassign
<1>21. ASSUME NEW w \in Workers, Beat(w), UNCHANGED <<recoveryVars, request>>
      PROVE  Exclusion'
  BY <1>21 DEF Beat, Heartbeat
<1>22. ASSUME NEW w \in Workers, BeatFindsLeaseLost(w),
             UNCHANGED <<recoveryVars, request>>
      PROVE  Exclusion'
  BY <1>22 DEF BeatFindsLeaseLost
<1>23. ASSUME NEW w \in Workers, BeatFails(w),
             UNCHANGED <<recoveryVars, request>>
      PROVE  Exclusion'
  BY <1>23 DEF BeatFails, FailsUnsure, Heartbeat
<1>24. ASSUME NEW h \in detached, DetachedBeat(h),
             UNCHANGED <<recoveryVars, request>>
      PROVE  Exclusion'
  BY <1>24 DEF DetachedBeat, Heartbeat
<1>25. ASSUME NEW h \in detached, DetachedEnds(h),
             UNCHANGED <<recoveryVars, request>>
      PROVE  Exclusion'
  BY <1>25 DEF DetachedEnds, FailsUnsure, Heartbeat
<1>26. ASSUME NEW j \in Jobs, LeaseAges(j), UNCHANGED <<recoveryVars, request>>
      PROVE  Exclusion'
  BY <1>26 DEF LeaseAges, LeaseExpires
\* The reaper and the publisher.
<1>27. ASSUME NEW w \in Workers, Reap(w), UNCHANGED <<consumerVars, request>>
      PROVE  Exclusion'
  BY <1>27 DEF Reap, ReapStaleJob, Stale, SetStale
<1>28. ASSUME NEW w \in Workers, ReapFails(w),
             UNCHANGED <<consumerVars, request>>
      PROVE  Exclusion'
  BY <1>28 DEF ReapFails, ReapStaleJob, Stale, SetStale
<1>29. ASSUME NEW w \in Workers, FetchOutbox(w),
             UNCHANGED <<consumerVars, request>>
      PROVE  Exclusion'
  BY <1>29 DEF FetchOutbox, UnpublishedOutbox, Idle
<1>30. ASSUME NEW w \in Workers, NEW r \in batch[w], PublishRow(w, r),
             UNCHANGED <<consumerVars, request>>
      PROVE  Exclusion'
  BY <1>30 DEF PublishRow, SendJob, Append1, Sending, Oldest
<1>31. ASSUME NEW w \in Workers, NEW r \in batch[w], PublishRowFails(w, r),
             UNCHANGED <<consumerVars, request>>
      PROVE  Exclusion'
  <2>1. CASE SendJob(r.job_id)
    BY <1>31, <2>1 DEF PublishRowFails, SendJob, Append1
  <2>2. CASE UNCHANGED topicVars
    BY <1>31, <2>2 DEF PublishRowFails
  <2> QED
    BY <1>31, <2>1, <2>2 DEF PublishRowFails, SendJobUnsure
<1>32. ASSUME NEW w \in Workers, MarkPublished(w),
             UNCHANGED <<consumerVars, request>>
      PROVE  Exclusion'
  BY <1>32 DEF MarkPublished, MarkOutboxPublished
<1>33. ASSUME NEW w \in Workers, PublisherFails(w),
             UNCHANGED <<consumerVars, request>>
      PROVE  Exclusion'
  BY <1>33 DEF PublisherFails, MarkOutboxPublished, Idle
\* The API.
<1>34. ASSUME NEW j \in Jobs, CreateJob(j),
             UNCHANGED <<consumerVars, recoveryVars>>
      PROVE  Exclusion'
  BY <1>34 DEF CreateJob, Create
<1>35. ASSUME NEW j \in Jobs, CreateFails(j),
             UNCHANGED <<consumerVars, recoveryVars>>
      PROVE  Exclusion'
  BY <1>35 DEF CreateFails, Create
<1>36. ASSUME NEW j \in Jobs, SendMessage(j),
             UNCHANGED <<consumerVars, recoveryVars>>
      PROVE  Exclusion'
  BY <1>36 DEF SendMessage, SendJob, Append1
<1>37. ASSUME NEW j \in Jobs, SendFails(j),
             UNCHANGED <<consumerVars, recoveryVars>>
      PROVE  Exclusion'
  <2>1. CASE SendJob(j)
    BY <1>37, <2>1 DEF SendFails, SendJob, Append1
  <2>2. CASE UNCHANGED topicVars
    BY <1>37, <2>2 DEF SendFails
  <2> QED
    BY <1>37, <2>1, <2>2 DEF SendFails, SendJobUnsure
\* The processes and the consumer group.
<1>38. ASSUME NEW w \in Workers, Crash(w)
      PROVE  Exclusion'
  BY <1>38 DEF Crash, Goto, Forget, LeaveGroup, Unassign
<1>39. ASSUME NEW w \in Workers, Restart(w)
      PROVE  Exclusion'
  BY <1>39 DEF Restart, Goto
<1>40. ASSUME NEW w \in Workers, Expel(w)
      PROVE  Exclusion'
  BY <1>40 DEF Expel, Fault, NoExpulsion
<1>41. ASSUME NEW w \in Workers, NEW p \in Partitions, Join(w, p)
      PROVE  Exclusion'
  BY <1>41, NobodyAssumption DEF Join, Assign
<1>42. ASSUME NEW w \in Workers, NEW p \in Partitions, Rebalance(w, p)
      PROVE  Exclusion'
  BY <1>42 DEF Rebalance, Unassign
<1>43. ASSUME NEW p \in Partitions, ForeignRecord(p)
      PROVE  Exclusion'
  BY <1>43 DEF ForeignRecord, Append1
<1>44. CASE UNCHANGED vars
  BY <1>44 DEF vars
<1> QED
  BY <1>1, <1>2, <1>3, <1>4, <1>5, <1>6, <1>7, <1>8, <1>9, <1>10, <1>11, <1>12,
     <1>13, <1>14, <1>15, <1>16, <1>17, <1>18, <1>19, <1>20, <1>21, <1>22,
     <1>23, <1>24, <1>25, <1>26, <1>27, <1>28, <1>29, <1>30, <1>31, <1>32,
     <1>33, <1>34, <1>35, <1>36, <1>37, <1>38, <1>39, <1>40, <1>41, <1>42,
     <1>43, <1>44
     DEF Next, ConsumerNext, ConsumerStep, HandlerStep, HandlerFault, HeartbeatNext,
         RecoveryNext, PublisherStep, ApiNext, ProcessNext, GroupNext

\* Whatever crashes, stalls, fails or is rebalanced, the key of a record and
\* the ownership of partitions keep two workers from executing one job, as
\* long as no member is expelled with its message in hand (send_job's key,
\* run and handle_message).
THEOREM ExecutionsExclude ==
  ASSUME MaxExpulsions = 0
  PROVE  Spec => []OneExecution
<1>1. Init => Exclusion
  BY DEF Init, FaultsInit, Budget, TopicInit, ConsumerInit, Exclusion, NoExpulsion,
         Keyed, Owned, OnItsPartition, Handling
<1>2. TypeInv /\ Exclusion => OneExecution
  BY DEF TypeInv, InHand, AtWork, Exclusion, Owned, OnItsPartition, OneExecution,
         Executing, Handling
<1> QED
  BY <1>1, <1>2, InitTyped, StepInv, StepExclusive, PTL DEF Spec
=============================================================================
