--------------------------- MODULE DeliveryProofs ---------------------------
(***************************************************************************)
(* The consumers against the topic: where a partition is read and          *)
(* committed while messages are in hand, and that no poison record is      *)
(* committed unsaved.  Any number of workers, partitions and faults,       *)
(* expulsions included.                                                    *)
(***************************************************************************)
EXTENDS JudgeProofs

-----------------------------------------------------------------------------
(* Offsets.                                                                *)

OffsetsInOrder ==
  \A p \in Partitions :
    /\ committed[p] <= position[p]
    /\ position[p] <= Len(log[p])
    /\ owner[p] = NULL => position[p] = committed[p]

\* The message in hand is a record of the log, and the last one its owner was
\* given: an expelled handler has a message of a partition it does not own.
MessagesAreRecords ==
  \A w \in Workers : pc[w] \in Handling =>
    /\ msg[w].offset \in 1 .. Len(log[msg[w].partition])
    /\ log[msg[w].partition][msg[w].offset] = msg[w].record
    /\ owner[msg[w].partition] = w =>
         /\ position[msg[w].partition] = msg[w].offset
         /\ committed[msg[w].partition] < msg[w].offset

GroupInv == OffsetsInOrder /\ MessagesAreRecords

LEMMA GroupInitially == Init => GroupInv
BY DEF Init, TopicInit, ConsumerInit, GroupInv, OffsetsInOrder, MessagesAreRecords,
       Handling

\* Appending leaves the records that are there where they are.
LEMMA AppendKeeps ==
  ASSUME TopicTypeOK, NEW p \in Partitions, NEW rec \in Records, Append1(p, rec)
  PROVE  /\ \A q \in Partitions :
              /\ Len(log[q]) <= Len(log[q])'
              /\ \A o \in 1 .. Len(log[q]) : log'[q][o] = log[q][o]
         /\ Len(log[p])' = Len(log[p]) + 1
         /\ log'[p][Len(log[p]) + 1] = rec
<1> DEFINE records == log[p]
<1>1. records \in Seq(Records) /\ log' = [log EXCEPT ![p] = Append(records, rec)]
  BY DEF TopicTypeOK, Append1
<1>2. log'[p] = Append(records, rec) /\ \A q \in Partitions \ {p} : log'[q] = log[q]
  BY <1>1 DEF TopicTypeOK
<1>3. /\ Len(Append(records, rec)) = Len(records) + 1
      /\ Append(records, rec)[Len(records) + 1] = rec
      /\ \A o \in 1 .. Len(records) : Append(records, rec)[o] = records[o]
  BY <1>1
<1>4. \A q \in Partitions : Len(log[q]) \in Nat
  BY DEF TopicTypeOK
<1> QED
  BY <1>2, <1>3, <1>4

LEMMA StepInGroup == TypeInv /\ GroupInv /\ [Next]_vars => GroupInv'
<1> SUFFICES ASSUME TypeInv, GroupInv, [Next]_vars PROVE GroupInv'
  OBVIOUS
<1>typed. /\ TopicTypeOK /\ InHand /\ RecoveryTypeOK
          /\ pc \in [Workers -> PC] /\ msg \in [Workers -> Message \cup {NULL}]
  BY DEF TypeInv, TypeOK, ConsumerTypeOK
<1> USE <1>typed, NobodyAssumption
<1> USE DEF GroupInv, OffsetsInOrder, MessagesAreRecords, TopicTypeOK, InHand, Handling,
            Message
\* The topic changes.
<1>1. ASSUME NEW w \in Workers, NEW p \in Partitions, Receive(w, p) PROVE GroupInv'
  BY <1>1 DEF Receive, Deliver, Available, Goto
<1>2. ASSUME NEW w \in Workers, Commit(w) PROVE GroupInv'
  <2> DEFINE p == msg[w].partition
             o == msg[w].offset
  <2>1. pc[w] = "commit" /\ p \in Partitions /\ o \in 1 .. Len(log[p])
    BY <1>2 DEF Commit
  <2>2. /\ pc' = [pc EXCEPT ![w] = "poll"] /\ msg' = [msg EXCEPT ![w] = NULL]
        /\ UNCHANGED <<log, owner, position>>
    BY <1>2 DEF Commit, CommitAsync, Goto, Forget
  <2>3. CASE owner[p] = w /\ committed' = [committed EXCEPT ![p] = o]
    <3>1. position[p] = o
      BY <2>1, <2>3
    <3>2. OffsetsInOrder'
      BY <2>1, <2>2, <2>3, <3>1
    <3>3. ASSUME NEW x \in Workers, pc'[x] \in Handling
          PROVE  pc[x] \in Handling /\ x # w /\ msg'[x] = msg[x]
      BY <2>2, <3>3
    <3>4. ASSUME NEW x \in Workers, pc'[x] \in Handling,
                 owner[msg[x].partition] = x
          PROVE  committed'[msg[x].partition] = committed[msg[x].partition]
      <4>1. msg[x].partition \in Partitions /\ msg[x].partition # p
        BY <2>3, <3>3, <3>4
      <4> QED
        BY <2>3, <4>1
    <3>5. MessagesAreRecords'
      BY <2>2, <3>3, <3>4
    <3> QED
      BY <3>2, <3>5
  <2>4. CASE UNCHANGED committed
    BY <2>2, <2>4
  <2> QED
    BY <1>2, <2>3, <2>4 DEF Commit, CommitAsync
<1>3. ASSUME NEW p \in Partitions, NEW rec \in Records, Append1(p, rec),
             UNCHANGED consumerVars
      PROVE  GroupInv'
  <2>1. UNCHANGED <<committed, owner, position, pc, msg>>
    BY <1>3 DEF Append1, consumerVars
  <2>2. /\ \A q \in Partitions :
              /\ Len(log[q]) <= Len(log[q])'
              /\ \A o \in 1 .. Len(log[q]) : log'[q][o] = log[q][o]
        /\ log' \in [Partitions -> Seq(Records)]
    BY <1>3, AppendKeeps, AppendTyped
  <2>3. \A q \in Partitions : Len(log[q]) \in Nat /\ Len(log'[q]) \in Nat
    BY <2>2
  <2>4. OffsetsInOrder'
    BY <2>1, <2>2, <2>3
  <2>5. ASSUME NEW x \in Workers, pc[x] \in Handling
        PROVE  /\ msg[x].offset \in 1 .. Len(log'[msg[x].partition])
               /\ log'[msg[x].partition][msg[x].offset] = msg[x].record
    BY <2>2, <2>3, <2>5
  <2>6. MessagesAreRecords'
    BY <2>1, <2>5
  <2> QED
    BY <2>4, <2>6
<1>4. ASSUME NEW j \in Jobs, SendJobUnsure(j), UNCHANGED consumerVars PROVE GroupInv'
  <2>1. PartitionOf[j] \in Partitions /\ j \in Records
    BY PartitionAssumption DEF Records
  <2>2. CASE SendJob(j)
    BY <1>3, <1>4, <2>1, <2>2 DEF SendJob
  <2>3. CASE UNCHANGED topicVars
    BY <1>4, <2>3 DEF topicVars, consumerVars
  <2> QED
    BY <1>4, <2>2, <2>3 DEF SendJobUnsure
<1>5. ASSUME NEW w \in Workers, NEW to \in {"dead", "down"}, Goto(w, to), Forget(w),
             LeaveGroup(w)
      PROVE  GroupInv'
  BY <1>5 DEF Goto, Forget, LeaveGroup, Unassign
<1>6. ASSUME NEW S \in SUBSET Partitions, Unassign(S), UNCHANGED consumerVars
      PROVE  GroupInv'
  BY <1>6 DEF Unassign, consumerVars
<1>7. ASSUME NEW w \in Workers, NEW p \in Partitions, Join(w, p) PROVE GroupInv'
  BY <1>7 DEF Join, Assign, consumerVars
\* It does not.
<1>8. ASSUME NEW w \in Workers, pc[w] \in Handling, NEW to \in Handling, Goto(w, to),
             UNCHANGED <<topicVars, msg>>
      PROVE  GroupInv'
  BY <1>8 DEF Goto, topicVars
<1>9. ASSUME NEW w \in Workers, NEW to \in {"clean", "poll"}, Goto(w, to),
             msg' = msg \/ Forget(w), UNCHANGED topicVars
      PROVE  GroupInv'
  BY <1>9 DEF Goto, Forget, topicVars
<1>10. CASE UNCHANGED <<topicVars, pc, msg>>
  BY <1>10 DEF topicVars
\* Which step is which.
<1>11. ASSUME NEW w \in Workers,
              \/ Requeue(w) \/ StartRefused(w) \/ MarkRunning(w) \/ FinishJob(w)
              \/ SendToDlq(w) \/ \E t \in Tokens : Start(w, t)
       PROVE  GroupInv'
  <2>1. /\ pc[w] \in Handling /\ \E to \in Handling : Goto(w, to)
        /\ UNCHANGED <<topicVars, msg>>
    BY <1>11 DEF Requeue, StartRefused, MarkRunning, FinishJob, SendToDlq, Start
  <2> QED
    BY <1>8, <2>1
<1>12. ASSUME NEW w \in Workers,
              \/ RequeueFails(w) \/ MarkFails(w) \/ RunCancelled(w)
              \/ FinishRefused(w) \/ FinishFails(w) \/ CleanOrphans(w) \/ Restart(w)
              \/ \E t \in Tokens : StartFails(w, t)
       PROVE  GroupInv'
  <2>1. /\ \E to \in {"clean", "poll"} : Goto(w, to)
        /\ msg' = msg \/ Forget(w)
        /\ UNCHANGED topicVars
    BY <1>12 DEF RequeueFails, MarkFails, RunCancelled, FinishRefused, FinishFails,
                 CleanOrphans, Restart, StartFails, ReturnRetryable
  <2> QED
    BY <1>9, <2>1
<1>13. ASSUME NEW w \in Workers, NEW v \in Verdicts, RunReturns(w, v) PROVE GroupInv'
  <2>1. CASE heartbeat[w] = "failed"
    BY <1>9, <1>13, <2>1 DEF RunReturns, ReturnRetryable
  <2>2. CASE heartbeat[w] # "failed"
    BY <1>8, <1>13, <2>2 DEF RunReturns
  <2> QED
    BY <2>1, <2>2
<1>14. ASSUME NEW w \in Workers,
              \/ CleanFails(w) \/ LatencyPanics(w) \/ CommitFails(w) \/ DlqFails(w)
              \/ Crash(w)
       PROVE  GroupInv'
  BY <1>5, <1>14 DEF CleanFails, LatencyPanics, CommitFails, DlqFails, Crash,
                     ConsumerEnds
<1>15. ASSUME NEW w \in Workers, BeatFails(w) PROVE GroupInv'
  BY <1>10, <1>15 DEF BeatFails
<1>16. CASE HeartbeatNext
  BY <1>10, <1>16 DEF HeartbeatNext, Beat, BeatFindsLeaseLost, DetachedBeat,
                      DetachedEnds, LeaseAges, consumerVars
<1>17. CASE RecoveryNext /\ UNCHANGED <<consumerVars, request>>
  <2>1. \A w \in Workers : \A r \in batch[w] : r.job_id \in Jobs
    BY DEF RecoveryTypeOK, OutboxRow
  <2>2. (\E j \in Jobs : SendJobUnsure(j)) \/ UNCHANGED topicVars
    BY <1>17, <2>1 DEF RecoveryNext, Reap, ReapFails, PublisherStep, FetchOutbox,
                       PublishRow, PublishRowFails, MarkPublished, PublisherFails,
                       SendJobUnsure
  <2> QED
    BY <1>4, <1>10, <1>17, <2>2 DEF consumerVars
<1>18. CASE ApiNext /\ UNCHANGED <<consumerVars, recoveryVars>>
  <2>1. (\E j \in Jobs : SendJobUnsure(j)) \/ UNCHANGED topicVars
    BY <1>18 DEF ApiNext, CreateJob, CreateFails, SendMessage, SendFails, SendJobUnsure
  <2> QED
    BY <1>4, <1>10, <1>18, <2>1 DEF consumerVars
<1>19. CASE GroupNext
  <2>1. ASSUME NEW w \in Workers, Expel(w) PROVE GroupInv'
    BY <1>6, <2>1 DEF Expel, LeaveGroup
  <2>2. ASSUME NEW w \in Workers, NEW p \in Partitions, Rebalance(w, p)
        PROVE  GroupInv'
    BY <1>6, <2>2 DEF Rebalance
  <2>3. ASSUME NEW p \in Partitions, ForeignRecord(p) PROVE GroupInv'
    BY <1>3, <2>3 DEF ForeignRecord, Records
  <2> QED
    BY <1>7, <1>19, <2>1, <2>2, <2>3 DEF GroupNext
<1>20. CASE UNCHANGED vars
  BY <1>10, <1>20 DEF vars, consumerVars
<1> QED
  BY <1>1, <1>2, <1>11, <1>12, <1>13, <1>14, <1>15, <1>16, <1>17, <1>18, <1>19, <1>20
     DEF Next, ConsumerNext, ConsumerStep, HandlerStep, HandlerFault, ProcessNext

\* The group's bookkeeping in every reachable state, as far as it rests on what
\* run and handle_message do with the messages they are given.
THEOREM GroupIsKept == Spec => []GroupInv
BY GroupInitially, InitTyped, StepInv, StepInGroup, PTL DEF Spec

-----------------------------------------------------------------------------
(* Poison.  Up to its position, an owner has saved every poison record but *)
(* the one it is about to send; a partition without an owner is read on    *)
(* from its committed offset, below which PoisonIsKept has them all.       *)

AboutToSave(p, o) ==
  \E w \in Workers :
    owner[p] = w /\ pc[w] = "dlq" /\ msg[w].partition = p /\ msg[w].offset = o

PoisonIsHeld ==
  \A p \in Partitions : \A o \in 1 .. position[p] :
    log[p][o] = Malformed => <<p, o>> \in dlq \/ AboutToSave(p, o)

PoisonInv == PoisonIsKept /\ PoisonIsHeld

LEMMA StepKeepsPoison ==
  TypeInv /\ GroupInv /\ PoisonInv /\ [Next]_vars => PoisonInv'
<1> SUFFICES ASSUME TypeInv, GroupInv, PoisonInv, [Next]_vars PROVE PoisonInv'
  OBVIOUS
<1>typed. /\ TopicTypeOK /\ InHand /\ RecoveryTypeOK /\ OffsetsInOrder
          /\ pc \in [Workers -> PC] /\ msg \in [Workers -> Message \cup {NULL}]
  BY DEF TypeInv, TypeOK, ConsumerTypeOK, GroupInv
<1> USE <1>typed, NobodyAssumption
<1> USE DEF PoisonInv, PoisonIsKept, PoisonIsHeld, AboutToSave, OffsetsInOrder,
            TopicTypeOK, InHand, Handling, Message
\* The topic changes.
<1>1. ASSUME NEW w \in Workers, NEW p \in Partitions, Receive(w, p) PROVE PoisonInv'
  <2>1. /\ owner[p] = w /\ pc[w] = "poll" /\ UNCHANGED <<log, committed, owner, dlq>>
        /\ position' = [position EXCEPT ![p] = @ + 1]
        /\ msg' = [msg EXCEPT ![w] = [partition |-> p, offset |-> position[p] + 1,
                                      record |-> log[p][position[p] + 1]]]
        /\ pc' = [pc EXCEPT ![w] = IF log[p][position[p] + 1] = Malformed
                                   THEN "dlq" ELSE "requeue"]
    BY <1>1 DEF Receive, Deliver, Goto
  <2>2. ASSUME NEW q \in Partitions, NEW o \in 1 .. position[q], log[q][o] = Malformed
        PROVE  <<q, o>> \in dlq \/ AboutToSave(q, o)'
    BY <2>1, <2>2
  <2>3. ASSUME NEW o \in Nat, o = position[p] + 1, log[p][o] = Malformed
        PROVE  AboutToSave(p, o)'
    BY <2>1, <2>3
  <2>4. PoisonIsHeld'
    BY <2>1, <2>2, <2>3
  <2> QED
    BY <2>1, <2>4
<1>2. ASSUME NEW w \in Workers, Commit(w) PROVE PoisonInv'
  <2> DEFINE p == msg[w].partition
             n == msg[w].offset
  <2>1. pc[w] = "commit" /\ p \in Partitions
    BY <1>2 DEF Commit
  <2>2. /\ pc' = [pc EXCEPT ![w] = "poll"] /\ msg' = [msg EXCEPT ![w] = NULL]
        /\ UNCHANGED <<log, owner, position, dlq>>
    BY <1>2 DEF Commit, CommitAsync, Goto, Forget
  <2>3. PoisonIsHeld'
    BY <2>1, <2>2
  <2>4. CASE owner[p] = w /\ committed' = [committed EXCEPT ![p] = n]
    <3>1. position[p] = n
      BY <2>1, <2>4 DEF GroupInv, MessagesAreRecords
    <3>2. \A o \in 1 .. n : log[p][o] = Malformed => <<p, o>> \in dlq
      BY <2>1, <2>4, <3>1
    <3> QED
      BY <2>1, <2>2, <2>3, <2>4, <3>2
  <2>5. CASE UNCHANGED committed
    BY <2>2, <2>3, <2>5
  <2> QED
    BY <1>2, <2>4, <2>5 DEF Commit, CommitAsync
<1>3. ASSUME NEW p \in Partitions, NEW rec \in Records, Append1(p, rec),
             UNCHANGED consumerVars
      PROVE  PoisonInv'
  <2>1. UNCHANGED <<committed, owner, position, pc, msg, dlq>>
    BY <1>3 DEF Append1, consumerVars
  <2>2. \A q \in Partitions : \A o \in 1 .. Len(log[q]) : log'[q][o] = log[q][o]
    BY <1>3, AppendKeeps
  <2>3. \A q \in Partitions : \A o \in 1 .. position[q] : log'[q][o] = log[q][o]
    BY <2>2
  <2>4. PoisonIsHeld'
    <3> SUFFICES ASSUME NEW q \in Partitions, NEW o \in 1 .. position[q],
                        log'[q][o] = Malformed
                 PROVE  <<q, o>> \in dlq \/ AboutToSave(q, o)'
      BY <2>1
    <3>1. AboutToSave(q, o)' <=> AboutToSave(q, o)
      BY <2>1
    <3>2. log[q][o] = Malformed
      BY <2>3
    <3> HIDE DEF AboutToSave
    <3> QED
      BY <3>1, <3>2
  <2>5. \A q \in Partitions : \A o \in 1 .. committed[q] : log'[q][o] = log[q][o]
    BY <2>3
  <2>6. PoisonIsKept'
    <3> SUFFICES ASSUME NEW q \in Partitions, NEW o \in 1 .. committed[q],
                        log'[q][o] = Malformed
                 PROVE  <<q, o>> \in dlq
      BY <2>1
    <3>1. log[q][o] = Malformed
      BY <2>5
    <3> QED
      BY <3>1
  <2> QED
    BY <2>4, <2>6
<1>4. ASSUME NEW j \in Jobs, SendJobUnsure(j), UNCHANGED consumerVars PROVE PoisonInv'
  <2>1. PartitionOf[j] \in Partitions /\ j \in Records
    BY PartitionAssumption DEF Records
  <2>2. CASE SendJob(j)
    BY <1>3, <1>4, <2>1, <2>2 DEF SendJob
  <2>3. CASE UNCHANGED topicVars
    BY <1>4, <2>3 DEF topicVars, consumerVars
  <2> QED
    BY <1>4, <2>2, <2>3 DEF SendJobUnsure
<1>5. ASSUME NEW w \in Workers, NEW to \in {"dead", "down"}, Goto(w, to), Forget(w),
             LeaveGroup(w), dlq \subseteq dlq'
      PROVE  PoisonInv'
  <2>1. /\ pc' = [pc EXCEPT ![w] = to] /\ msg' = [msg EXCEPT ![w] = NULL]
        /\ UNCHANGED <<log, committed>>
        /\ \A p \in Partitions :
             IF owner[p] = w THEN owner'[p] = NULL /\ position'[p] = committed[p]
                             ELSE owner'[p] = owner[p] /\ position'[p] = position[p]
    BY <1>5 DEF Goto, Forget, LeaveGroup, Unassign
  <2>2. PoisonIsKept'
    BY <1>5, <2>1
  <2>3. ASSUME NEW p \in Partitions, owner[p] # w, NEW o \in Nat, AboutToSave(p, o)
        PROVE  AboutToSave(p, o)'
    BY <2>1, <2>3
  <2>4. ASSUME NEW p \in Partitions, NEW o \in 1 .. position'[p], log[p][o] = Malformed
        PROVE  <<p, o>> \in dlq' \/ AboutToSave(p, o)'
    <3>1. CASE owner[p] = w
      <4>1. o \in 1 .. committed[p]
        BY <2>1, <2>4, <3>1
      <4> QED
        BY <1>5, <2>4, <4>1
    <3>2. CASE owner[p] # w
      <4>1. o \in 1 .. position[p] /\ o \in Nat
        BY <2>1, <2>4, <3>2
      <4> HIDE DEF AboutToSave
      <4> QED
        BY <1>5, <2>3, <2>4, <3>2, <4>1
    <3> QED
      BY <3>1, <3>2
  <2> HIDE DEF AboutToSave
  <2>5. PoisonIsHeld'
    BY <2>1, <2>4
  <2> QED
    BY <2>2, <2>5
<1>6. ASSUME NEW S \in SUBSET Partitions, Unassign(S), UNCHANGED consumerVars
      PROVE  PoisonInv'
  BY <1>6 DEF Unassign, consumerVars
<1>7. ASSUME NEW w \in Workers, NEW p \in Partitions, Join(w, p) PROVE PoisonInv'
  BY <1>7 DEF Join, Assign, consumerVars
\* It does not.
<1>8. ASSUME NEW w \in Workers, pc[w] # "dlq", NEW to \in PC, Goto(w, to),
             msg' = msg \/ Forget(w), UNCHANGED <<topicVars, dlq>>
      PROVE  PoisonInv'
  BY <1>8 DEF Goto, Forget, topicVars
<1>9. ASSUME NEW w \in Workers, SendToDlq(w) PROVE PoisonInv'
  <2>1. /\ pc' = [pc EXCEPT ![w] = "commit"] /\ UNCHANGED <<topicVars, msg>>
        /\ dlq' = dlq \cup {<<msg[w].partition, msg[w].offset>>}
    BY <1>9 DEF SendToDlq, Goto, WithDeadLetter
  <2> QED
    BY <2>1 DEF topicVars
<1>10. CASE UNCHANGED <<topicVars, pc, msg, dlq>>
  BY <1>10 DEF topicVars
\* Which step is which.
<1>11. ASSUME NEW w \in Workers,
              \/ Requeue(w) \/ StartRefused(w) \/ MarkRunning(w) \/ FinishJob(w)
              \/ RequeueFails(w) \/ MarkFails(w) \/ RunCancelled(w)
              \/ FinishRefused(w) \/ FinishFails(w) \/ CleanOrphans(w) \/ Restart(w)
              \/ \E t \in Tokens : Start(w, t) \/ StartFails(w, t)
              \/ \E v \in Verdicts : RunReturns(w, v)
       PROVE  PoisonInv'
  <2>1. /\ pc[w] # "dlq" /\ \E to \in PC : Goto(w, to)
        /\ msg' = msg \/ Forget(w)
        /\ UNCHANGED <<topicVars, dlq>>
    BY <1>11 DEF Requeue, StartRefused, MarkRunning, FinishJob, RequeueFails, MarkFails,
                 RunCancelled, FinishRefused, FinishFails, CleanOrphans, Restart, Start,
                 StartFails, RunReturns, ReturnRetryable, PC
  <2> QED
    BY <1>8, <2>1
<1>12. ASSUME NEW w \in Workers,
              \/ CleanFails(w) \/ LatencyPanics(w) \/ CommitFails(w) \/ DlqFails(w)
              \/ Crash(w)
       PROVE  PoisonInv'
  BY <1>5, <1>12 DEF CleanFails, LatencyPanics, CommitFails, DlqFails, Crash,
                     ConsumerEnds, WithDeadLetter
<1>13. ASSUME NEW w \in Workers, BeatFails(w) PROVE PoisonInv'
  BY <1>10, <1>13 DEF BeatFails
<1>14. CASE HeartbeatNext
  BY <1>10, <1>14 DEF HeartbeatNext, Beat, BeatFindsLeaseLost, DetachedBeat,
                      DetachedEnds, LeaseAges, consumerVars
<1>15. CASE RecoveryNext /\ UNCHANGED <<consumerVars, request>>
  <2>1. \A w \in Workers : \A r \in batch[w] : r.job_id \in Jobs
    BY DEF RecoveryTypeOK, OutboxRow
  <2>2. (\E j \in Jobs : SendJobUnsure(j)) \/ UNCHANGED topicVars
    BY <1>15, <2>1 DEF RecoveryNext, Reap, ReapFails, PublisherStep, FetchOutbox,
                       PublishRow, PublishRowFails, MarkPublished, PublisherFails,
                       SendJobUnsure
  <2> QED
    BY <1>4, <1>10, <1>15, <2>2 DEF consumerVars
<1>16. CASE ApiNext /\ UNCHANGED <<consumerVars, recoveryVars>>
  <2>1. (\E j \in Jobs : SendJobUnsure(j)) \/ UNCHANGED topicVars
    BY <1>16 DEF ApiNext, CreateJob, CreateFails, SendMessage, SendFails, SendJobUnsure
  <2> QED
    BY <1>4, <1>10, <1>16, <2>1 DEF consumerVars
<1>17. CASE GroupNext
  <2>1. ASSUME NEW w \in Workers, Expel(w) PROVE PoisonInv'
    BY <1>6, <2>1 DEF Expel, LeaveGroup
  <2>2. ASSUME NEW w \in Workers, NEW p \in Partitions, Rebalance(w, p)
        PROVE  PoisonInv'
    BY <1>6, <2>2 DEF Rebalance
  <2>3. ASSUME NEW p \in Partitions, ForeignRecord(p) PROVE PoisonInv'
    BY <1>3, <2>3 DEF ForeignRecord, Records
  <2> QED
    BY <1>7, <1>17, <2>1, <2>2, <2>3 DEF GroupNext
<1>18. CASE UNCHANGED vars
  BY <1>10, <1>18 DEF vars, consumerVars
<1> QED
  BY <1>1, <1>2, <1>9, <1>11, <1>12, <1>13, <1>14, <1>15, <1>16, <1>17, <1>18
     DEF Next, ConsumerNext, ConsumerStep, HandlerStep, HandlerFault, ProcessNext

\* No record that is not a job message is committed before it is in the
\* dead-letter topic, whoever crashes, is expelled or fails in between, with or
\* without such a topic (run's Permanent arm: send_to_dlq, then commit).
THEOREM PoisonKept == Spec => []PoisonIsKept
<1>1. Init => PoisonInv
  BY DEF Init, TopicInit, PoisonInv, PoisonIsKept, PoisonIsHeld
<1>2. PoisonInv => PoisonIsKept
  BY DEF PoisonInv
<1> QED
  BY <1>1, <1>2, GroupInitially, InitTyped, StepInv, StepInGroup, StepKeepsPoison, PTL
     DEF Spec
=============================================================================
