--------------------------- MODULE NotLostProofs ----------------------------
(***************************************************************************)
(* No job is lost, whatever crashes, stalls, panics, is rebalanced or      *)
(* fails to be sent, as long as no member is expelled and no statement     *)
(* fails.  Any number of jobs, workers, partitions and faults.             *)
(***************************************************************************)
EXTENDS DeliveryProofs, LeaseProofs

-----------------------------------------------------------------------------
(* The parts of the system that may hold a job.  NotLost is not inductive: *)
(* a row of the outbox whose message has been sent is about to go, and     *)
(* must not be what the job depends on; nor must a handler about to set    *)
(* the row to Running, whose lease may be gone by then.                    *)

Pending(j) ==
  \E p \in Partitions : \E o \in 1 .. Len(log[p]) :
    log[p][o] = j /\ position[p] < o

Beginning(j) == \E w \in Workers : pc[w] \in {"requeue", "start"} /\ JobOf(w) = j

Unsent(j) ==
  \E r \in outbox : r.job_id = j /\ \A w \in Workers : sent[w] # r

Held(j) == Decided(j) \/ Reapable(j) \/ Pending(j) \/ Beginning(j) \/ Unsent(j)

AnsweredIsHeld == \A j \in Jobs : request[j] = "answered" => Held(j)

\* The rows a publisher has in hand have been dealt out.
RowsAreDealt ==
  \A w \in Workers :
    /\ sent[w] # NULL => sent[w].created_at <= reap_time
    /\ \A r \in batch[w] : r.created_at <= reap_time

\* What a handler's control state says of the row of its job.
Underway ==
  \A w \in Workers :
    /\ pc[w] = "start" => status[JobOf(w)] \notin {NULL, "Accepted"}
    /\ pc[w] = "mark"  => status[JobOf(w)] \notin Final

NoDbError == faults["db"] = 0

Quiet == NoDbError /\ Exclusion /\ StoreInv /\ GroupInv

LEMMA NoStatementFails ==
  ASSUME FaultsTypeOK, NoDbError
  PROVE  ~Fault("db") /\ \A statement \in BOOLEAN : ~(Fault("db") /\ statement)
BY Kinds DEF FaultsTypeOK, NoDbError, Fault

LEMMA StepQuiet == TypeInv /\ NoDbError /\ [Next]_vars => NoDbError'
<1> SUFFICES ASSUME TypeInv, NoDbError, [Next]_vars PROVE NoDbError'
  OBVIOUS
<1>1. FaultsTypeOK
  BY DEF TypeInv, TypeOK
<1>2. Spends
  BY StepSpends
<1>3. ASSUME NEW kind \in FaultKinds, Fault(kind) PROVE NoDbError'
  <2>1. kind # "db"
    BY <1>3 DEF NoDbError, Fault
  <2> QED
    BY <1>1, <1>3, <2>1, Kinds DEF FaultsTypeOK, NoDbError, Fault
<1> QED
  BY <1>2, <1>3 DEF Spends, NoDbError

-----------------------------------------------------------------------------
(* Pending: every step but Receive keeps records and positions.            *)

LogKept ==
  \A p \in Partitions :
    /\ position'[p] <= position[p]
    /\ Len(log[p]) <= Len(log[p])'
    /\ \A o \in 1 .. Len(log[p]) : log'[p][o] = log[p][o]

LEMMA LogIsKept ==
  ASSUME TypeInv, GroupInv, [Next]_vars,
         \A w \in Workers, p \in Partitions : ~Receive(w, p)
  PROVE  LogKept
<1>typed. TopicTypeOK /\ OffsetsInOrder /\ RecoveryTypeOK
  BY DEF TypeInv, TypeOK, GroupInv
<1> USE <1>typed DEF LogKept, TopicTypeOK, OffsetsInOrder
<1>1. CASE UNCHANGED <<log, position>>
  BY <1>1
<1>2. ASSUME NEW p \in Partitions, NEW rec \in Records, Append1(p, rec) PROVE LogKept
  BY <1>2, AppendKeeps DEF Append1
<1>3. ASSUME NEW j \in Jobs, SendJobUnsure(j) PROVE LogKept
  BY <1>1, <1>2, <1>3, PartitionAssumption DEF SendJobUnsure, SendJob, Records, topicVars
<1>4. ASSUME NEW S \in SUBSET Partitions, Unassign(S) PROVE LogKept
  BY <1>4 DEF Unassign
<1>5. CASE ConsumerNext \/ ProcessNext
  <2>1. UNCHANGED <<log, position>> \/ \E w \in Workers : LeaveGroup(w)
    BY <1>5
       DEF ConsumerNext, ConsumerStep, HandlerStep, HandlerFault, HeartbeatNext,
           ProcessNext, CleanOrphans, CleanFails, Requeue, RequeueFails, LatencyPanics,
           Start, StartRefused, StartFails, MarkRunning, MarkFails, RunReturns,
           RunCancelled, FinishJob, FinishRefused, FinishFails, Commit, CommitFails,
           SendToDlq, DlqFails, Beat, BeatFindsLeaseLost, BeatFails, DetachedBeat,
           DetachedEnds, LeaseAges, ConsumerEnds, CommitAsync, Crash, Restart, topicVars
  <2> QED
    BY <1>1, <1>4, <2>1 DEF LeaveGroup
<1>6. CASE RecoveryNext
  <2>1. \A w \in Workers : \A r \in batch[w] : r.job_id \in Jobs
    BY DEF RecoveryTypeOK, OutboxRow
  <2>2. (\E j \in Jobs : SendJobUnsure(j)) \/ UNCHANGED topicVars
    BY <1>6, <2>1 DEF RecoveryNext, Reap, ReapFails, PublisherStep, FetchOutbox,
                      PublishRow, PublishRowFails, MarkPublished, PublisherFails,
                      SendJobUnsure
  <2> QED
    BY <1>1, <1>3, <2>2 DEF topicVars
<1>7. CASE ApiNext
  <2>1. (\E j \in Jobs : SendJobUnsure(j)) \/ UNCHANGED topicVars
    BY <1>7 DEF ApiNext, CreateJob, CreateFails, SendMessage, SendFails, SendJobUnsure
  <2> QED
    BY <1>1, <1>3, <2>1 DEF topicVars
<1>8. CASE GroupNext
  <2>1. ASSUME NEW w \in Workers, NEW p \in Partitions,
               Expel(w) \/ Join(w, p) \/ Rebalance(w, p)
        PROVE  UNCHANGED <<log, position>> \/ \E S \in SUBSET Partitions : Unassign(S)
    BY <2>1 DEF Expel, Join, Rebalance, Assign, LeaveGroup
  <2>2. ASSUME NEW w \in Workers, Expel(w) PROVE \E S \in SUBSET Partitions : Unassign(S)
    BY <2>2 DEF Expel, LeaveGroup
  <2>3. ASSUME NEW p \in Partitions, ForeignRecord(p) PROVE LogKept
    BY <1>2, <2>3 DEF ForeignRecord, Records
  <2> QED
    BY <1>1, <1>4, <1>8, <2>1, <2>2, <2>3 DEF GroupNext
<1>9. CASE UNCHANGED vars
  BY <1>1, <1>9 DEF vars, topicVars
<1> QED
  BY <1>5, <1>6, <1>7, <1>8, <1>9 DEF Next

\* A record that has yet to be handed out stays so, or comes into hand.
LEMMA PendingIsHeld ==
  ASSUME TypeInv, GroupInv, [Next]_vars, NEW j \in Jobs, Pending(j)
  PROVE  Held(j)'
<1>typed. /\ TopicTypeOK
          /\ pc \in [Workers -> PC] /\ msg \in [Workers -> Message \cup {NULL}]
  BY DEF TypeInv, TypeOK, ConsumerTypeOK
<1> USE <1>typed DEF TopicTypeOK
<1>0. PICK p \in Partitions :
        \E o \in 1 .. Len(log[p]) : log[p][o] = j /\ position[p] < o
  BY DEF Pending
<1>1. PICK o \in 1 .. Len(log[p]) : log[p][o] = j /\ position[p] < o
  BY <1>0
<1>2. CASE \A w \in Workers, q \in Partitions : ~Receive(w, q)
  <2>1. LogKept
    BY <1>2, LogIsKept
  <2>2. o \in 1 .. Len(log'[p]) /\ log'[p][o] = j /\ position'[p] < o
    <3>1. TopicTypeOK'
      BY StepInv DEF TypeInv, TypeOK
    <3> QED
      BY <1>1, <2>1, <3>1 DEF LogKept
  <2> QED
    BY <1>1, <2>2 DEF Held, Pending
<1>3. ASSUME NEW w \in Workers, NEW q \in Partitions, Receive(w, q) PROVE Held(j)'
  <2>1. /\ log' = log /\ position' = [position EXCEPT ![q] = @ + 1]
        /\ msg' = [msg EXCEPT ![w] = [partition |-> q, offset |-> position[q] + 1,
                                      record |-> log[q][position[q] + 1]]]
        /\ pc' = [pc EXCEPT ![w] = IF log[q][position[q] + 1] = Malformed
                                   THEN "dlq" ELSE "requeue"]
    BY <1>3 DEF Receive, Deliver, Goto
  <2>2. CASE q = p /\ o = position[p] + 1
    <3>1. pc'[w] = "requeue" /\ JobOf(w)' = j
      BY <1>1, <2>1, <2>2, MalformedAssumption DEF JobOf
    <3> QED
      BY <3>1 DEF Held, Beginning
  <2>3. CASE ~(q = p /\ o = position[p] + 1)
    <3>1. position'[p] < o
      BY <1>1, <2>1, <2>3
    <3> QED
      BY <1>1, <2>1, <3>1 DEF Held, Pending
  <2> QED
    BY <2>2, <2>3
<1> QED
  BY <1>2, <1>3

-----------------------------------------------------------------------------
(* What a step without a failing statement does to a row, to a handler and *)
(* to a publisher.                                                         *)

RowsStay ==
  /\ UNCHANGED status
  /\ \A j \in Jobs : heartbeat_at[j] # NULL => heartbeat_at'[j] # NULL

LEMMA RowSteps ==
  ASSUME TypeInv, NoDbError, [Next]_vars
  PROVE  \/ RowsStay
         \/ \E w \in Workers :
              \/ Requeue(w) \/ MarkRunning(w) \/ FinishJob(w) \/ Reap(w)
              \/ \E t \in Tokens : Start(w, t)
         \/ \E j \in Jobs : CreateJob(j)
<1>typed. ~Fault("db") /\ StoreTypeOK
  BY NoStatementFails DEF TypeInv, TypeOK
<1> USE <1>typed, NullAssumption
<1>1. ASSUME UNCHANGED storeVars PROVE RowsStay
  BY <1>1 DEF storeVars, RowsStay
<1>2. ASSUME NEW j \in Jobs, NEW t, Heartbeat(j, t) PROVE RowsStay
  BY <1>2 DEF Heartbeat, StoreTypeOK, RowsStay
<1>3. ASSUME NEW j \in Jobs, LeaseExpires(j) PROVE RowsStay
  BY <1>3 DEF LeaseExpires, StoreTypeOK, RowsStay
<1>4. ASSUME NEW r, MarkOutboxPublished(r) PROVE RowsStay
  BY <1>4 DEF MarkOutboxPublished, RowsStay
<1>5. CASE HeartbeatNext
  <2>1. \A w \in Workers : heartbeat[w] = "beating" => JobOf(w) \in Jobs
    BY DEF TypeInv, InHand, AtWork
  <2>2. \A h \in detached : h.job \in Jobs
    BY DEF TypeInv, TypeOK, ConsumerTypeOK, Task
  <2>3. ASSUME NEW w \in Workers, Beat(w) \/ BeatFindsLeaseLost(w) PROVE RowsStay
    BY <1>1, <1>2, <2>1, <2>3 DEF Beat, BeatFindsLeaseLost
  <2>4. ASSUME NEW h \in detached, DetachedBeat(h) \/ DetachedEnds(h) PROVE RowsStay
    BY <1>1, <1>2, <2>2, <2>4 DEF DetachedBeat, DetachedEnds, FailsUnsure
  <2>5. ASSUME NEW j \in Jobs, LeaseAges(j) PROVE RowsStay
    BY <1>3, <2>5 DEF LeaseAges
  <2> QED
    BY <1>5, <2>3, <2>4, <2>5 DEF HeartbeatNext
<1>6. ASSUME NEW w \in Workers,
             \/ CleanOrphans(w) \/ CleanFails(w) \/ LatencyPanics(w)
             \/ StartRefused(w) \/ RunCancelled(w) \/ FinishRefused(w)
             \/ Commit(w) \/ CommitFails(w) \/ SendToDlq(w) \/ DlqFails(w)
             \/ \E p \in Partitions : Receive(w, p)
             \/ \E v \in Verdicts : RunReturns(w, v)
             \/ FetchOutbox(w)
             \/ \E r \in batch[w] : PublishRow(w, r) \/ PublishRowFails(w, r)
             \/ Crash(w) \/ Restart(w)
      PROVE  UNCHANGED storeVars
  BY <1>6 DEF CleanOrphans, CleanFails, LatencyPanics, StartRefused, RunCancelled,
              FinishRefused, Commit, CommitFails, SendToDlq, DlqFails, Receive,
              RunReturns, FetchOutbox, PublishRow, PublishRowFails, Crash, Restart
<1>7. \A w \in Workers :
        /\ ~RequeueFails(w) /\ ~MarkFails(w) /\ ~FinishFails(w) /\ ~BeatFails(w)
        /\ ~ReapFails(w) /\ ~PublisherFails(w)
        /\ \A t \in Tokens : ~StartFails(w, t)
  BY DEF RequeueFails, MarkFails, FinishFails, BeatFails, ReapFails, PublisherFails,
         StartFails, FailsUnsure
<1>8. ASSUME NEW w \in Workers, MarkPublished(w) PROVE RowsStay
  BY <1>4, <1>8 DEF MarkPublished
<1>9. ASSUME ApiNext PROVE UNCHANGED storeVars \/ \E j \in Jobs : CreateJob(j)
  BY <1>9 DEF ApiNext, CreateFails, SendMessage, SendFails
<1>10. ASSUME GroupNext \/ UNCHANGED vars PROVE UNCHANGED storeVars
  BY <1>10 DEF GroupNext, Expel, Join, Rebalance, ForeignRecord, vars
<1>11. CASE ConsumerNext
  BY <1>1, <1>5, <1>6, <1>7, <1>11
     DEF ConsumerNext, ConsumerStep, HandlerStep, HandlerFault
<1>12. CASE RecoveryNext
  BY <1>1, <1>6, <1>7, <1>8, <1>12 DEF RecoveryNext, PublisherStep
<1>13. CASE ApiNext \/ ProcessNext \/ GroupNext \/ UNCHANGED vars
  BY <1>1, <1>6, <1>9, <1>10, <1>13 DEF ProcessNext
<1> QED
  BY <1>11, <1>12, <1>13 DEF Next

InPlace(w)   == pc'[w] = pc[w] /\ msg'[w] = msg[w]
Elsewhere(w) == pc[w] \notin {"requeue", "start"} /\ pc'[w] \notin {"start", "mark"}

LeavesStart(w) ==
  \/ Requeue(w) \/ StartRefused(w) \/ LatencyPanics(w) \/ Crash(w)
  \/ \E t \in Tokens : Start(w, t)

LEMMA ControlSteps ==
  ASSUME TypeInv, NoDbError, [Next]_vars, NEW w \in Workers
  PROVE  InPlace(w) \/ Elsewhere(w) \/ LeavesStart(w)
<1>typed. /\ ~Fault("db")
          /\ pc \in [Workers -> PC] /\ msg \in [Workers -> Message \cup {NULL}]
  BY NoStatementFails DEF TypeInv, TypeOK, ConsumerTypeOK
<1> USE <1>typed
<1>1. ASSUME NEW x \in Workers, NEW to, Goto(x, to), msg' = msg \/ Forget(x), x # w
      PROVE  InPlace(w)
  BY <1>1 DEF Goto, Forget, InPlace
<1>2. ASSUME NEW x \in Workers, NEW p \in Partitions, Receive(x, p)
      PROVE  InPlace(w) \/ Elsewhere(w)
  BY <1>2 DEF Receive, Goto, InPlace, Elsewhere
<1>3. ASSUME NEW x \in Workers, LeavesStart(x) PROVE InPlace(w) \/ LeavesStart(w)
  <2>1. CASE x = w
    BY <1>3, <2>1
  <2>2. CASE x # w
    <3>1. (\E to \in PC : Goto(x, to)) /\ (msg' = msg \/ Forget(x))
      BY <1>3 DEF LeavesStart, Requeue, StartRefused, LatencyPanics, Crash, Start,
                  ConsumerEnds, PC, Handling
    <3> QED
      BY <1>1, <2>2, <3>1
  <2> QED
    BY <2>1, <2>2
<1>4. ASSUME NEW x \in Workers, NEW to \in PC \ {"start", "mark"},
             pc[x] \notin {"requeue", "start"}, Goto(x, to), msg' = msg \/ Forget(x)
      PROVE  InPlace(w) \/ Elsewhere(w)
  <2>1. CASE x = w
    BY <1>4, <2>1 DEF Goto, Elsewhere
  <2> QED
    BY <1>1, <1>4, <2>1
<1>5. ASSUME NEW x \in Workers,
             \/ CleanOrphans(x) \/ CleanFails(x) \/ MarkRunning(x) \/ RunCancelled(x)
             \/ FinishJob(x) \/ FinishRefused(x) \/ Commit(x) \/ CommitFails(x)
             \/ SendToDlq(x) \/ DlqFails(x) \/ Restart(x)
             \/ \E v \in Verdicts : RunReturns(x, v)
      PROVE  InPlace(w) \/ Elsewhere(w)
  <2>1. /\ pc[x] \notin {"requeue", "start"}
        /\ \E to \in PC \ {"start", "mark"} : Goto(x, to)
        /\ msg' = msg \/ Forget(x)
    BY <1>5 DEF CleanOrphans, CleanFails, MarkRunning, RunCancelled, FinishJob,
                FinishRefused, Commit, CommitFails, SendToDlq, DlqFails, Restart,
                RunReturns, ReturnRetryable, ConsumerEnds, PC, Handling
  <2> QED
    BY <1>4, <2>1
<1>6. \A x \in Workers :
        /\ ~RequeueFails(x) /\ ~MarkFails(x) /\ ~FinishFails(x) /\ ~BeatFails(x)
        /\ \A t \in Tokens : ~StartFails(x, t)
  BY DEF RequeueFails, MarkFails, FinishFails, BeatFails, StartFails, FailsUnsure
<1>7. ASSUME \/ HeartbeatNext
             \/ RecoveryNext /\ UNCHANGED <<consumerVars, request>>
             \/ ApiNext /\ UNCHANGED <<consumerVars, recoveryVars>>
             \/ GroupNext
             \/ UNCHANGED vars
      PROVE  InPlace(w)
  BY <1>7 DEF HeartbeatNext, Beat, BeatFindsLeaseLost, DetachedBeat, DetachedEnds,
              LeaseAges, GroupNext, Expel, Join, Rebalance, ForeignRecord, vars,
              consumerVars, InPlace
<1>8. CASE ConsumerNext
  BY <1>2, <1>3, <1>5, <1>6, <1>7, <1>8
     DEF ConsumerNext, ConsumerStep, HandlerStep, HandlerFault, LeavesStart
<1>9. CASE ProcessNext
  BY <1>3, <1>5, <1>9 DEF ProcessNext, LeavesStart
<1> QED
  BY <1>7, <1>8, <1>9 DEF Next

HeldOnly ==
  \A w \in Workers : batch'[w] \subseteq batch[w] /\ sent'[w] \in {sent[w], NULL}
OutboxGrows ==
  outbox \subseteq outbox' /\ reap_time' \in {reap_time, reap_time + 1}

LEMMA PublisherSteps ==
  ASSUME TypeInv, NoDbError, [Next]_vars
  PROVE  \/ HeldOnly /\ OutboxGrows
         \/ \E w \in Workers : FetchOutbox(w) \/ MarkPublished(w)
         \/ \E w \in Workers : \E r \in batch[w] : PublishRow(w, r)
<1>typed. ~Fault("db") /\ RecoveryTypeOK
  BY NoStatementFails DEF TypeInv, TypeOK
<1> USE <1>typed
<1>1. ASSUME UNCHANGED storeVars PROVE OutboxGrows
  BY <1>1 DEF storeVars, OutboxGrows
<1>2. ASSUME UNCHANGED <<batch, sent>> PROVE HeldOnly
  BY <1>2 DEF HeldOnly
<1>3. ASSUME ConsumerNext, UNCHANGED <<recoveryVars, request>>
      PROVE  HeldOnly /\ OutboxGrows
  <2>1. UNCHANGED <<outbox, reap_time>>
    BY <1>3 DEF ConsumerNext, ConsumerStep, HandlerStep, HandlerFault, HeartbeatNext,
                CleanOrphans, CleanFails, Receive, Requeue, RequeueFails,
                LatencyPanics, Start, StartRefused, StartFails, MarkRunning, MarkFails,
                RunReturns, RunCancelled, FinishJob, FinishRefused, FinishFails, Commit,
                CommitFails, SendToDlq, DlqFails, Beat, BeatFindsLeaseLost, BeatFails,
                DetachedBeat, DetachedEnds, LeaseAges, FailsUnsure, storeVars,
                UpdateStatus, TryStart, Finish, Heartbeat, LeaseExpires
  <2> QED
    BY <1>2, <1>3, <2>1 DEF recoveryVars, OutboxGrows
<1>4. ASSUME NEW w \in Workers, Reap(w) PROVE HeldOnly /\ OutboxGrows
  BY <1>4 DEF Reap, ReapStaleJob, recoveryVars, HeldOnly, OutboxGrows
<1>5. ASSUME NEW w \in Workers, NEW r \in batch[w], PublishRowFails(w, r)
      PROVE  HeldOnly /\ OutboxGrows
  BY <1>1, <1>5 DEF PublishRowFails, RecoveryTypeOK, HeldOnly,
              OutboxGrows
<1>6. \A w \in Workers : ~ReapFails(w) /\ ~PublisherFails(w)
  BY DEF ReapFails, PublisherFails
<1>7. ASSUME ApiNext, UNCHANGED <<consumerVars, recoveryVars>>
      PROVE  HeldOnly /\ OutboxGrows
  BY <1>7 DEF ApiNext, CreateJob, CreateFails, SendMessage, SendFails, Create,
              recoveryVars, storeVars, HeldOnly, OutboxGrows
<1>8. ASSUME ProcessNext PROVE HeldOnly /\ OutboxGrows
  BY <1>8 DEF ProcessNext, Crash, Restart, storeVars, RecoveryTypeOK, HeldOnly,
              OutboxGrows
<1>9. ASSUME GroupNext \/ UNCHANGED vars PROVE HeldOnly /\ OutboxGrows
  BY <1>9 DEF GroupNext, Expel, Join, Rebalance, ForeignRecord, vars, storeVars,
              recoveryVars, HeldOnly, OutboxGrows
<1> QED
  BY <1>3, <1>4, <1>5, <1>6, <1>7, <1>8, <1>9 DEF Next, RecoveryNext, PublisherStep

-----------------------------------------------------------------------------
(* What each part makes of a job it holds.                                 *)

\* Two handlers with one job in hand are one (the heart of ExecutionsExclude).
LEMMA Alone ==
  ASSUME TypeInv, Exclusion, NEW w \in Workers, NEW x \in Workers,
         pc[w] \in AtWork, pc[x] \in AtWork, JobOf(w) = JobOf(x)
  PROVE  w = x
BY DEF TypeInv, InHand, AtWork, Exclusion, Owned, OnItsPartition, Handling

\* A message that has been sent is handed out later.
LEMMA SendingHolds ==
  ASSUME TopicTypeOK, OffsetsInOrder, NEW j \in Jobs, SendJob(j)
  PROVE  Held(j)'
<1> DEFINE p == PartitionOf[j]
           o == Len(log[p]) + 1
<1>1. p \in Partitions /\ j \in Records /\ Append1(p, j)
  BY PartitionAssumption DEF SendJob, Records
<1>2. /\ Len(log[p])' = o /\ log'[p][o] = j /\ position' = position
      /\ Len(log[p]) \in Nat /\ position[p] \in Nat
  BY <1>1, AppendKeeps DEF Append1, TopicTypeOK
<1>3. o \in 1 .. Len(log'[p]) /\ position'[p] < o
  BY <1>1, <1>2 DEF OffsetsInOrder
<1> HIDE DEF p, o
<1> QED
  BY <1>1, <1>2, <1>3 DEF Held, Pending

LEMMA RowIsHeld ==
  ASSUME TypeInv, NoDbError, RowsAreDealt, Underway, [Next]_vars,
         NEW j \in Jobs, Decided(j) \/ Reapable(j)
  PROVE  Held(j)'
<1>typed. /\ StoreTypeOK /\ InHand /\ RecoveryTypeOK
          /\ pc \in [Workers -> PC]
  BY DEF TypeInv, TypeOK, ConsumerTypeOK
<1> USE <1>typed, NullAssumption, VerdictsAssumption
<1> USE DEF Held, Decided, Reapable, StoreTypeOK, Final, Status
<1>1. CASE RowsStay
  BY <1>1 DEF RowsStay
<1>3. ASSUME NEW w \in Workers, Requeue(w) PROVE Held(j)'
  <2>1. /\ JobOf(w) \in Jobs /\ pc'[w] = "start" /\ msg' = msg
        /\ status' = [status EXCEPT ![JobOf(w)] = "Queued"] /\ UNCHANGED heartbeat_at
    BY <1>3 DEF Requeue, UpdateStatus, Goto, InHand, AtWork
  <2>2. CASE JobOf(w) = j
    BY <2>1, <2>2 DEF Beginning, JobOf
  <2>3. CASE JobOf(w) # j
    BY <2>1, <2>3
  <2> QED
    BY <2>2, <2>3
<1>4. ASSUME NEW w \in Workers, NEW t \in Tokens, Start(w, t) PROVE Held(j)'
  BY <1>4 DEF Start, TryStart, InHand, AtWork
<1>5. ASSUME NEW w \in Workers, MarkRunning(w) PROVE Held(j)'
  <2>1. /\ JobOf(w) \in Jobs /\ status[JobOf(w)] \notin Final
        /\ status' = [status EXCEPT ![JobOf(w)] = "Running"] /\ UNCHANGED heartbeat_at
    BY <1>5 DEF MarkRunning, UpdateStatus, InHand, AtWork, Underway
  <2> QED
    BY <2>1
<1>6. ASSUME NEW w \in Workers, FinishJob(w) PROVE Held(j)'
  <2>1. JobOf(w) \in Jobs /\ verdict[w] \in Verdicts
    BY <1>6 DEF FinishJob, InHand, AtWork
  <2> QED
    BY <1>6, <2>1 DEF FinishJob, Finish
<1>7. ASSUME NEW w \in Workers, Reap(w) PROVE Held(j)'
  <2>1. CASE j \in Stale
    <3> DEFINE r == [created_at |-> reap_time + 1, job_id |-> j]
    <3>1. r \in outbox' /\ r.job_id = j
      BY <1>7, <2>1 DEF Reap, ReapStaleJob
    <3>2. \A x \in Workers : sent'[x] # r
      <4>1. r.created_at = reap_time + 1 /\ reap_time \in Nat /\ sent' = sent
        BY <1>7 DEF Reap, recoveryVars
      <4>2. r # NULL
        BY RowAssumption DEF OutboxRow
      <4>3. \A x \in Workers : sent[x] # NULL => sent[x].created_at # r.created_at
        BY <4>1 DEF RowsAreDealt, RecoveryTypeOK, OutboxRow
      <4> QED
        BY <4>1, <4>2, <4>3
    <3> HIDE DEF r
    <3> QED
      BY <3>1, <3>2 DEF Unsent
  <2>2. CASE j \notin Stale
    BY <1>7, <2>2 DEF Reap, ReapStaleJob, SetStale
  <2> QED
    BY <2>1, <2>2
<1>8. ASSUME NEW k \in Jobs, CreateJob(k) PROVE Held(j)'
  BY <1>8 DEF CreateJob, Create
<1> QED
  BY <1>1, <1>3, <1>4, <1>5, <1>6, <1>7, <1>8, RowSteps

LEMMA BeginningIsHeld ==
  ASSUME TypeInv, NoDbError, Exclusion, GroupInv, Underway, [Next]_vars,
         NEW j \in Jobs, Beginning(j)
  PROVE  Held(j)'
<1>1. PICK w \in Workers : pc[w] \in {"requeue", "start"} /\ JobOf(w) = j
  BY DEF Beginning
<1>typed. /\ StoreTypeOK /\ InHand /\ TopicTypeOK
          /\ pc \in [Workers -> PC] /\ msg \in [Workers -> Message \cup {NULL}]
  BY DEF TypeInv, TypeOK, ConsumerTypeOK
<1> USE <1>1, <1>typed, NullAssumption, VerdictsAssumption
<1>2. CASE InPlace(w)
  BY <1>2 DEF InPlace, Held, Beginning, JobOf
<1>3. CASE Requeue(w)
  BY <1>3 DEF Requeue, Goto, Held, Beginning, JobOf
<1>4. ASSUME NEW t \in Tokens, Start(w, t) PROVE Held(j)'
  BY <1>4 DEF Start, TryStart, Held, Reapable, StoreTypeOK
<1>5. CASE StartRefused(w)
  <2>1. /\ status[j] \notin {NULL, "Accepted", "Queued"}
        /\ status[j] = "Running" => heartbeat_at[j] # NULL
    BY <1>5 DEF StartRefused, Startable, Underway
  <2>2. UNCHANGED <<status, heartbeat_at>>
    BY <1>5 DEF StartRefused, storeVars
  <2> QED
    BY <2>1, <2>2 DEF Held, Decided, Reapable, StoreTypeOK, Status
<1>6. CASE LatencyPanics(w) \/ Crash(w)
  <2> DEFINE p == msg[w].partition
             o == msg[w].offset
  <2>1. /\ owner[p] = w /\ p \in Partitions /\ o \in 1 .. Len(log[p]) /\ log[p][o] = j
        /\ committed[p] < o
    BY DEF Exclusion, Owned, GroupInv, MessagesAreRecords, InHand, Handling, Message,
           JobOf
  <2>2. LeaveGroup(w)
    BY <1>6 DEF LatencyPanics, Crash, ConsumerEnds
  <2>3. log' = log /\ position'[p] = committed[p]
    BY <2>1, <2>2 DEF LeaveGroup, Unassign
  <2> HIDE DEF p, o
  <2> QED
    BY <2>1, <2>3 DEF Held, Pending
<1> QED
  BY <1>2, <1>3, <1>4, <1>5, <1>6, ControlSteps DEF Elsewhere, LeavesStart

LEMMA UnsentIsHeld ==
  ASSUME TypeInv, NoDbError, GroupInv, [Next]_vars, NEW j \in Jobs, Unsent(j)
  PROVE  Held(j)'
<1>1. PICK r \in outbox : r.job_id = j /\ \A w \in Workers : sent[w] # r
  BY DEF Unsent
<1>typed. StoreTypeOK /\ RecoveryTypeOK /\ TopicTypeOK
  BY DEF TypeInv, TypeOK
<1>2. r # NULL
  BY <1>typed, RowAssumption DEF StoreTypeOK
<1>3. ASSUME r \in outbox', \A w \in Workers : sent'[w] # r PROVE Held(j)'
  BY <1>1, <1>3 DEF Held, Unsent
<1>4. CASE HeldOnly /\ OutboxGrows
  BY <1>1, <1>2, <1>3, <1>4 DEF HeldOnly, OutboxGrows
<1>5. ASSUME NEW w \in Workers, FetchOutbox(w) PROVE Held(j)'
  BY <1>1, <1>3, <1>5 DEF FetchOutbox, storeVars
<1>6. ASSUME NEW w \in Workers, MarkPublished(w) PROVE Held(j)'
  <2>1. outbox' = outbox \ {sent[w]} /\ sent' = [sent EXCEPT ![w] = NULL]
    BY <1>6 DEF MarkPublished, MarkOutboxPublished
  <2> QED
    BY <1>1, <1>2, <1>3, <1>typed, <2>1 DEF RecoveryTypeOK
<1>7. ASSUME NEW w \in Workers, NEW x \in batch[w], PublishRow(w, x) PROVE Held(j)'
  <2>1. outbox' = outbox /\ sent' = [sent EXCEPT ![w] = x]
    BY <1>7 DEF PublishRow, storeVars
  <2>2. CASE x = r
    <3>1. SendJob(j)
      BY <1>1, <1>7, <2>2 DEF PublishRow
    <3> QED
      BY <1>typed, <3>1, SendingHolds DEF GroupInv
  <2>3. CASE x # r
    BY <1>1, <1>3, <1>typed, <2>1, <2>3 DEF RecoveryTypeOK
  <2> QED
    BY <2>2, <2>3
<1> QED
  BY <1>4, <1>5, <1>6, <1>7, PublisherSteps

-----------------------------------------------------------------------------
(* What these lemmas rest on is kept too.                                  *)

LEMMA StepDealt ==
  ASSUME TypeInv, NoDbError, StoreInv, RowsAreDealt, [Next]_vars
  PROVE  RowsAreDealt'
<1>typed. /\ StoreTypeOK /\ RecoveryTypeOK
          /\ \A w \in Workers : batch[w] \subseteq OutboxRow
          /\ NULL \notin OutboxRow
  BY RowAssumption DEF TypeInv, TypeOK, RecoveryTypeOK
<1> USE <1>typed DEF RowsAreDealt, StoreTypeOK, RecoveryTypeOK, OutboxRow
<1>1. CASE HeldOnly /\ OutboxGrows
  <2>1. \A w \in Workers : \A r \in batch'[w] : r \in batch[w]
    BY <1>1 DEF HeldOnly
  <2>2. \A w \in Workers : sent'[w] # NULL => sent'[w] = sent[w]
    BY <1>1 DEF HeldOnly
  <2>3. \A n \in Nat : n <= reap_time => n <= reap_time'
    BY <1>1 DEF OutboxGrows
  <2> QED
    BY <2>1, <2>2, <2>3
<1>2. ASSUME NEW w \in Workers, FetchOutbox(w) PROVE RowsAreDealt'
  <2>1. PICK b \in SUBSET outbox : batch' = [batch EXCEPT ![w] = b]
    BY <1>2 DEF FetchOutbox, UnpublishedOutbox
  <2>2. sent' = sent /\ reap_time' = reap_time
    BY <1>2 DEF FetchOutbox, storeVars
  <2>3. \A r \in outbox : r.created_at <= reap_time
    BY DEF StoreInv, OutboxIsSound
  <2> QED
    BY <2>1, <2>2, <2>3
<1>3. ASSUME NEW w \in Workers, MarkPublished(w) PROVE RowsAreDealt'
  BY <1>3 DEF MarkPublished, MarkOutboxPublished
<1>4. ASSUME NEW w \in Workers, NEW r \in batch[w], PublishRow(w, r)
      PROVE  RowsAreDealt'
  <2>1. /\ batch' = [batch EXCEPT ![w] = @ \ {r}] /\ sent' = [sent EXCEPT ![w] = r]
        /\ reap_time' = reap_time
    BY <1>4 DEF PublishRow, storeVars
  <2>2. r.created_at <= reap_time
    OBVIOUS
  <2> QED
    BY <2>1, <2>2
<1> QED
  BY <1>1, <1>2, <1>3, <1>4, PublisherSteps

\* A handler between requeue and run may find the row Queued or Running, after
\* another handler or the reaper, but decided only if its own try_start saw it.
LEMMA StepUnderway ==
  ASSUME TypeInv, NoDbError, Exclusion, Underway, [Next]_vars
  PROVE  Underway'
<1> SUFFICES ASSUME NEW w \in Workers, pc'[w] \in {"start", "mark"}
             PROVE  /\ pc'[w] = "start" => status'[JobOf(w)'] \notin {NULL, "Accepted"}
                    /\ pc'[w] = "mark"  => status'[JobOf(w)'] \notin Final
  BY DEF Underway
<1>typed. /\ StoreTypeOK /\ InHand /\ pc \in [Workers -> PC]
          /\ msg \in [Workers -> Message \cup {NULL}]
  BY DEF TypeInv, TypeOK, ConsumerTypeOK
<1> USE <1>typed, NullAssumption, VerdictsAssumption DEF StoreTypeOK, Status, Final
<1>1. CASE InPlace(w)
  <2> DEFINE j == JobOf(w)
  <2>1. pc[w] \in AtWork /\ pc'[w] = pc[w] /\ JobOf(w)' = j /\ j \in Jobs
    BY <1>1 DEF InPlace, JobOf, InHand, AtWork
  <2>2. /\ pc[w] = "start" => status[j] \notin {NULL, "Accepted"}
        /\ pc[w] = "mark"  => status[j] \notin Final
    BY DEF Underway
  <2> HIDE DEF j
  <2>3. CASE RowsStay
    BY <2>1, <2>2, <2>3 DEF RowsStay
  <2>4. ASSUME NEW x \in Workers, NEW s \in {"Queued", "Running"}, NEW k \in Jobs,
               status' = [status EXCEPT ![k] = s]
        PROVE  status'[j] = status[j] \/ status'[j] \in {"Queued", "Running"}
    BY <2>1, <2>4
  <2>5. ASSUME NEW x \in Workers,
               Requeue(x) \/ MarkRunning(x) \/ \E t \in Tokens : Start(x, t)
        PROVE  status'[j] = status[j] \/ status'[j] \in {"Queued", "Running"}
    <3>1. JobOf(x) \in Jobs
      BY <2>5 DEF Requeue, MarkRunning, Start, InHand, AtWork
    <3>2. \E s \in {"Queued", "Running"} : status' = [status EXCEPT ![JobOf(x)] = s]
      BY <2>5 DEF Requeue, MarkRunning, Start, UpdateStatus, TryStart
    <3> QED
      BY <2>4, <3>1, <3>2
  <2>6. ASSUME NEW x \in Workers, FinishJob(x)
        PROVE  status'[j] = status[j] \/ (pc[w] = "start" /\ status'[j] \in Verdicts)
    <3>1. /\ JobOf(x) \in Jobs /\ verdict[x] \in Verdicts /\ pc'[x] = "commit"
          /\ status' = [status EXCEPT ![JobOf(x)] = verdict[x]] /\ pc[x] \in AtWork
      BY <2>6 DEF FinishJob, Finish, Goto, InHand, AtWork
    <3>2. CASE JobOf(x) = j
      <4>1. x = w
        BY <2>1, <3>1, <3>2, Alone DEF j
      <4> QED
        BY <3>1, <4>1
    <3>3. CASE JobOf(x) # j
      BY <2>1, <3>1, <3>3
    <3> QED
      BY <3>2, <3>3
  <2>7. ASSUME NEW x \in Workers, Reap(x)
        PROVE  status'[j] = status[j] \/ status'[j] \in {"Queued", "Running"}
    BY <2>1, <2>7 DEF Reap, ReapStaleJob, SetStale
  <2>8. ASSUME NEW k \in Jobs, CreateJob(k)
        PROVE  status'[j] = status[j] \/ (status[j] = NULL /\ status'[j] = "Accepted")
    BY <2>1, <2>8 DEF CreateJob, Create
  <2>9. \/ status'[j] = status[j]
        \/ status'[j] \in {"Queued", "Running"}
        \/ pc[w] = "start" /\ status'[j] \in Verdicts
        \/ status[j] = NULL /\ status'[j] = "Accepted"
    BY <2>3, <2>5, <2>6, <2>7, <2>8, RowSteps DEF RowsStay
  <2> QED
    BY <2>1, <2>2, <2>9
<1>2. CASE Requeue(w)
  BY <1>2 DEF Requeue, UpdateStatus, Goto, JobOf, InHand, AtWork
<1>3. ASSUME NEW t \in Tokens, Start(w, t)
      PROVE  pc'[w] = "mark" /\ status'[JobOf(w)'] \notin Final
  BY <1>3 DEF Start, TryStart, Goto, JobOf, InHand, AtWork
<1>4. ~StartRefused(w) /\ ~LatencyPanics(w) /\ ~Crash(w)
  BY DEF StartRefused, LatencyPanics, Crash, ConsumerEnds, Goto
<1> QED
  BY <1>1, <1>2, <1>3, <1>4, ControlSteps DEF Elsewhere, LeavesStart

Holding == Quiet /\ RowsAreDealt /\ Underway /\ AnsweredIsHeld

LEMMA StepHolds == TypeInv /\ Holding /\ [Next]_vars => Holding'
<1> SUFFICES ASSUME TypeInv, Holding, [Next]_vars PROVE Holding'
  OBVIOUS
<1> USE DEF Holding, Quiet
<1>1. Exclusion' /\ GroupInv' /\ NoDbError'
  BY StepExclusive, StepInGroup, StepQuiet
<1>2. StoreInv'
  BY StepIsStatement, StoreStepConsistent DEF TypeInv, TypeOK
<1>3. RowsAreDealt' /\ Underway'
  BY StepDealt, StepUnderway
<1>4. ASSUME NEW j \in Jobs, Held(j) PROVE Held(j)'
  BY <1>4, RowIsHeld, PendingIsHeld, BeginningIsHeld, UnsentIsHeld DEF Held
<1>5. ASSUME NEW j \in Jobs, request'[j] = "answered"
      PROVE  request[j] = "answered" \/ SendMessage(j)
  <2>1. request \in [Jobs -> {"none", "inserted", "answered", "failed"}]
    BY DEF TypeInv, TypeOK, ApiTypeOK
  <2>2. CASE UNCHANGED request
    BY <1>5, <2>2
  <2>3. CASE ApiNext
    BY <1>5, <2>1, <2>3 DEF ApiNext, CreateJob, CreateFails, SendMessage, SendFails
  <2> QED
    BY <2>2, <2>3
       DEF Next, vars, ProcessNext, Crash, Restart, GroupNext, Expel, Join, Rebalance,
           ForeignRecord
<1>6. ASSUME NEW j \in Jobs, SendMessage(j) PROVE Held(j)'
  BY <1>6, SendingHolds DEF SendMessage, TypeInv, TypeOK, GroupInv
<1>7. AnsweredIsHeld'
  BY <1>4, <1>5, <1>6 DEF AnsweredIsHeld
<1> QED
  BY <1>1, <1>2, <1>3, <1>7

LEMMA HoldingInitially ==
  ASSUME MaxExpulsions = 0, MaxDbErrors = 0
  PROVE  Init => Holding
<1> SUFFICES ASSUME Init PROVE Holding
  OBVIOUS
<1>1. Exclusion /\ NoDbError
  BY DEF Init, FaultsInit, Budget, TopicInit, ConsumerInit, Exclusion, NoExpulsion,
         Keyed, Owned, OnItsPartition, Handling, NoDbError
<1>2. StoreInv
  BY NullAssumption, VerdictsAssumption
     DEF Init, StoreInit, StoreInv, UnbeatenIsUnlocked, DecidedIsUnlocked,
         TokensAreDistinct, OutboxIsSound, Status, Final
<1>3. RowsAreDealt /\ Underway /\ AnsweredIsHeld
  BY DEF Init, RecoveryInit, ConsumerInit, ApiInit, RowsAreDealt, Underway,
         AnsweredIsHeld
<1> QED
  BY <1>1, <1>2, <1>3, GroupInitially DEF Holding, Quiet

LEMMA HoldingIsNotLost == TypeInv /\ Holding => NotLost
<1> SUFFICES ASSUME TypeInv, Holding, NEW j \in Jobs, Held(j)
             PROVE  Decided(j) \/ Announced(j) \/ Reapable(j)
  BY DEF Holding, AnsweredIsHeld, NotLost
<1>1. TopicTypeOK
  BY DEF TypeInv, TypeOK
<1>2. CASE Pending(j)
  BY <1>1, <1>2 DEF Pending, Announced, Undelivered, TopicTypeOK
<1>3. CASE Beginning(j) \/ Unsent(j)
  BY <1>3 DEF Beginning, Unsent, Announced
<1> QED
  BY <1>2, <1>3 DEF Held

\* Every job whose id a client was given is decided, or some part of the system
\* will bring it to a worker, or the reaper will find its lease, whatever
\* crashes, stalls, panics, is rebalanced or fails to be sent in between, as
\* long as the group expels no member and no statement fails (run_handle,
\* handle_message and run, Reaper::run, publish_once).
THEOREM JobsAreNotLost ==
  ASSUME MaxExpulsions = 0, MaxDbErrors = 0
  PROVE  Spec => []NotLost
BY HoldingInitially, HoldingIsNotLost, InitTyped, StepInv, StepHolds, PTL DEF Spec
=============================================================================
