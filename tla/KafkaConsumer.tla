--------------------------- MODULE KafkaConsumer ----------------------------
(***************************************************************************)
(* kafka.rs: the consumer loop of every worker, KafkaConsumer::run, and    *)
(* the handler of one message, handle_message, with the heartbeat task it  *)
(* spawns.  A worker handles one message at a time; its control state is   *)
(*                                                                         *)
(*   "clean"    run has begun: clean_orphan_containers                     *)
(*   "poll"     awaiting shutdown or the next message (the select! of run) *)
(*   "requeue"  message in hand, about to run get_and_queued               *)
(*   "start"    row set to Queued, about to run try_start                  *)
(*   "mark"     lease taken, heartbeat spawned, about to update_status     *)
(*   "run"      the container executes; the heartbeat task beats           *)
(*   "finish"   heartbeat joined, about to write the verdict               *)
(*   "commit"   the handler returned Ok, the offset is not committed yet   *)
(*   "dlq"      the handler returned Permanent, about to send_to_dlq       *)
(*   "dead"     the consumer task ended, the process runs on               *)
(*   "down"     no process                                                 *)
(*                                                                         *)
(* The docker runner is its outcome here: RunReturns gives a verdict, and  *)
(* RunCancelled is the RunError::Cancelled of a cancelled run.             *)
(***************************************************************************)
EXTENDS JobStore, JobTopic, Faults

CONSTANT DlqExists  \* whether the topic "jobs.dlq" has been created

ASSUME DlqAssumption == DlqExists \in BOOLEAN

VARIABLES
  pc,         \* the control state of each worker
  msg,        \* its message in hand
  token,      \* lock_token of handle_message
  verdict,    \* what the run returned, between the run and finish
  heartbeat,  \* the task: "off", "beating", "lost" (it met Ok(false) and has
              \* cancelled the execution), "failed" (it met Err and set
              \* heartbeat_err)
  detached,   \* heartbeat tasks whose handler returned without joining them
  dlq         \* records written to "jobs.dlq", by partition and number

consumerVars == <<pc, msg, token, verdict, heartbeat, detached, dlq>>

Handling == {"requeue", "start", "mark", "run", "finish", "commit", "dlq"}
PC       == Handling \cup {"clean", "poll", "dead", "down"}
Message  == [partition : Partitions, offset : Nat, record : Records]
Task     == [worker : Workers, job : Jobs, token : Tokens]

ConsumerTypeOK ==
  /\ pc        \in [Workers -> PC]
  /\ msg       \in [Workers -> Message \cup {NULL}]
  /\ token     \in [Workers -> Tokens \cup {NULL}]
  /\ verdict   \in [Workers -> Verdicts \cup {NULL}]
  /\ heartbeat \in [Workers -> {"off", "beating", "lost", "failed"}]
  /\ detached  \in SUBSET Task
  /\ dlq       \in SUBSET (Partitions \X Nat)

ConsumerInit ==
  /\ pc        = [w \in Workers |-> "clean"]
  /\ msg       = [w \in Workers |-> NULL]
  /\ token     = [w \in Workers |-> NULL]
  /\ verdict   = [w \in Workers |-> NULL]
  /\ heartbeat = [w \in Workers |-> "off"]
  /\ detached  = {}
  /\ dlq       = {}

JobOf(w) == msg[w].record

\* Tokens somebody could still present, or that a row still carries: a fresh
\* UUID is none of them.
LiveTokens ==
  {lock_token[j] : j \in Jobs} \cup {token[w] : w \in Workers}
    \cup {h.token : h \in detached}

Goto(w, to) == pc' = [pc EXCEPT ![w] = to]

\* The handler's locals are gone once it has returned and run is done with it.
Forget(w) ==
  /\ msg'       = [msg       EXCEPT ![w] = NULL]
  /\ token'     = [token     EXCEPT ![w] = NULL]
  /\ verdict'   = [verdict   EXCEPT ![w] = NULL]
  /\ heartbeat' = [heartbeat EXCEPT ![w] = "off"]

\* Err(Retryable): logged, not committed; the stream goes on after the message.
ReturnRetryable(w) ==
  /\ Goto(w, "poll")
  /\ Forget(w)
  /\ UNCHANGED dlq

\* run returns Err or unwinds: the consumer is dropped and leaves the group.
ConsumerEnds(w) ==
  /\ Goto(w, "dead")
  /\ Forget(w)
  /\ LeaveGroup(w)

\* A statement that returns Err; the server may have executed it.
FailsUnsure(statement) == Fault("db") /\ (statement \/ UNCHANGED storeVars)

-----------------------------------------------------------------------------
(* run: the start, and the next message.                                   *)

\* clean_orphan_containers touches docker and the workspaces only.
CleanOrphans(w) ==
  /\ pc[w] = "clean"
  /\ Goto(w, "poll")
  /\ UNCHANGED <<storeVars, topicVars, msg, token, verdict, heartbeat, detached, dlq,
                 faults>>

\* Its ? on docker and on is_job_execution_alive, and its unwrap(), end run
\* before the loop.
CleanFails(w) ==
  /\ pc[w] = "clean"
  /\ \E kind \in {"db", "docker", "panic"} : Fault(kind)
  /\ ConsumerEnds(w)
  /\ UNCHANGED <<storeVars, detached, dlq>>

\* A foreign record fails serde_json::from_slice, which is Permanent.
Receive(w, p) ==
  /\ pc[w] = "poll" /\ owner[p] = w
  /\ Deliver(p)
  /\ msg' = [msg EXCEPT ![w] = [partition |-> p, offset |-> position[p] + 1,
                                record |-> log[p][position[p] + 1]]]
  /\ Goto(w, IF log[p][position[p] + 1] = Malformed THEN "dlq" ELSE "requeue")
  /\ UNCHANGED <<storeVars, token, verdict, heartbeat, detached, dlq, faults>>

-----------------------------------------------------------------------------
(* handle_message.                                                         *)

\* get_and_queued: the SELECT reads columns that never change, and then the
\* row becomes Queued whatever its status was.
Requeue(w) ==
  /\ pc[w] = "requeue"
  /\ UpdateStatus(JobOf(w), "Queued")
  /\ Goto(w, "start")
  /\ UNCHANGED <<topicVars, msg, token, verdict, heartbeat, detached, dlq, faults>>

RequeueFails(w) ==
  /\ pc[w] = "requeue"
  /\ FailsUnsure(UpdateStatus(JobOf(w), "Queued"))
  /\ ReturnRetryable(w)
  /\ UNCHANGED <<topicVars, detached>>

\* The queue latency is negative when the worker's clock is behind the
\* database's: expect() panics, and with it the consumer task.
LatencyPanics(w) ==
  /\ pc[w] = "start"
  /\ Fault("panic")
  /\ ConsumerEnds(w)
  /\ UNCHANGED <<storeVars, detached, dlq>>

Start(w, t) ==
  /\ pc[w] = "start"
  /\ t \notin LiveTokens
  /\ TryStart(JobOf(w), w, t)
  /\ token'     = [token     EXCEPT ![w] = t]
  /\ heartbeat' = [heartbeat EXCEPT ![w] = "beating"]
  /\ Goto(w, "mark")
  /\ UNCHANGED <<topicVars, msg, verdict, detached, dlq, faults>>

\* try_start matched no row: Ok(()), so the message will be committed.
StartRefused(w) ==
  /\ pc[w] = "start"
  /\ ~Startable(JobOf(w))
  /\ Goto(w, "commit")
  /\ UNCHANGED <<storeVars, topicVars, msg, token, verdict, heartbeat, detached,
                 dlq, faults>>

\* When the lost answer was a success, the row carries a token nobody knows.
StartFails(w, t) ==
  /\ pc[w] = "start"
  /\ t \notin LiveTokens
  /\ FailsUnsure(TryStart(JobOf(w), w, t))
  /\ ReturnRetryable(w)
  /\ UNCHANGED <<topicVars, detached>>

MarkRunning(w) ==
  /\ pc[w] = "mark"
  /\ UpdateStatus(JobOf(w), "Running")
  /\ Goto(w, "run")
  /\ UNCHANGED <<topicVars, msg, token, verdict, heartbeat, detached, dlq, faults>>

\* The early return drops the JoinHandle: a heartbeat task that has not ended
\* runs on, and nobody is left to cancel it.
MarkFails(w) ==
  /\ pc[w] = "mark"
  /\ FailsUnsure(UpdateStatus(JobOf(w), "Running"))
  /\ detached' = detached \cup
       {h \in Task : h.worker = w /\ h.job = JobOf(w) /\ h.token = token[w]
                       /\ heartbeat[w] = "beating"}
  /\ ReturnRetryable(w)
  /\ UNCHANGED topicVars

\* run_rust returned Ok(response), or Err(Other), whose verdict is
\* RuntimeError.  A heartbeat error discards the result; otherwise the
\* heartbeat task is cancelled and joined.
RunReturns(w, v) ==
  /\ pc[w] = "run"
  /\ IF heartbeat[w] = "failed"
       THEN ReturnRetryable(w)
       ELSE /\ verdict'   = [verdict   EXCEPT ![w] = v]
            /\ heartbeat' = [heartbeat EXCEPT ![w] = "off"]
            /\ Goto(w, "finish")
            /\ UNCHANGED <<msg, token, dlq>>
  /\ UNCHANGED <<storeVars, topicVars, detached, faults>>

\* The select! of with_container took the cancellation branch.
RunCancelled(w) ==
  /\ pc[w] = "run" /\ heartbeat[w] = "lost"
  /\ ReturnRetryable(w)
  /\ UNCHANGED <<storeVars, topicVars, detached, faults>>

FinishJob(w) ==
  /\ pc[w] = "finish"
  /\ Finish(JobOf(w), verdict[w], token[w])
  /\ Goto(w, "commit")
  /\ token'   = [token   EXCEPT ![w] = NULL]
  /\ verdict' = [verdict EXCEPT ![w] = NULL]
  /\ UNCHANGED <<topicVars, msg, heartbeat, detached, dlq, faults>>

\* No row matched: "job lease lost", Retryable.
FinishRefused(w) ==
  /\ pc[w] = "finish"
  /\ ~HoldsLease(JobOf(w), token[w])
  /\ ReturnRetryable(w)
  /\ UNCHANGED <<storeVars, topicVars, detached, faults>>

FinishFails(w) ==
  /\ pc[w] = "finish"
  /\ FailsUnsure(Finish(JobOf(w), verdict[w], token[w]))
  /\ ReturnRetryable(w)
  /\ UNCHANGED <<topicVars, detached>>

-----------------------------------------------------------------------------
(* run: after the handler.                                                 *)

Commit(w) ==
  /\ pc[w] = "commit"
  /\ CommitAsync(w, msg[w].partition, msg[w].offset)
  /\ Goto(w, "poll")
  /\ Forget(w)
  /\ UNCHANGED <<storeVars, detached, dlq, faults>>

\* The ? on commit_message: the commit could not even be enqueued.
CommitFails(w) ==
  /\ pc[w] = "commit"
  /\ Fault("panic")
  /\ ConsumerEnds(w)
  /\ UNCHANGED <<storeVars, detached, dlq>>

WithDeadLetter(w) == dlq \cup {<<msg[w].partition, msg[w].offset>>}

SendToDlq(w) ==
  /\ pc[w] = "dlq" /\ DlqExists
  /\ dlq' = WithDeadLetter(w)
  /\ Goto(w, "commit")
  /\ UNCHANGED <<storeVars, topicVars, msg, token, verdict, heartbeat, detached,
                 faults>>

\* Mutant of DlqFails: the error is logged, and run goes on to commit.
DlqFailsLogged(w) ==
  /\ pc[w] = "dlq"
  /\ IF DlqExists THEN Fault("send") ELSE NoFault
  /\ Goto(w, "commit")
  /\ UNCHANGED <<storeVars, topicVars, msg, token, verdict, heartbeat, detached, dlq>>

\* The ? on send_to_dlq ends run, and with it the consumer task.
DlqFails(w) ==
  /\ pc[w] = "dlq"
  /\ IF DlqExists THEN Fault("send") /\ dlq' \in {dlq, WithDeadLetter(w)}
                  ELSE UNCHANGED <<faults, dlq>>
  /\ ConsumerEnds(w)
  /\ UNCHANGED <<storeVars, detached>>

-----------------------------------------------------------------------------
(* The heartbeat task of the execution in hand, and those left behind.     *)

Beat(w) ==
  /\ heartbeat[w] = "beating"
  /\ Heartbeat(JobOf(w), token[w])
  /\ UNCHANGED <<topicVars, consumerVars, faults>>

\* No row matched: the task cancels the execution and ends.
BeatFindsLeaseLost(w) ==
  /\ heartbeat[w] = "beating"
  /\ ~HoldsLease(JobOf(w), token[w])
  /\ heartbeat' = [heartbeat EXCEPT ![w] = "lost"]
  /\ UNCHANGED <<storeVars, topicVars, pc, msg, token, verdict, detached, dlq, faults>>

\* The task records the error and ends; the execution is not cancelled.
BeatFails(w) ==
  /\ heartbeat[w] = "beating"
  /\ FailsUnsure(Heartbeat(JobOf(w), token[w]))
  /\ heartbeat' = [heartbeat EXCEPT ![w] = "failed"]
  /\ UNCHANGED <<topicVars, pc, msg, token, verdict, detached, dlq>>

DetachedBeat(h) ==
  /\ Heartbeat(h.job, h.token)
  /\ UNCHANGED <<topicVars, consumerVars, faults>>

DetachedEnds(h) ==
  /\ IF HoldsLease(h.job, h.token) THEN FailsUnsure(Heartbeat(h.job, h.token))
                                   ELSE UNCHANGED storeVars /\ NoFault
  /\ detached' = detached \ {h}
  /\ UNCHANGED <<topicVars, pc, msg, token, verdict, heartbeat, dlq>>

\* Some task renews j's lease whenever its interval ticks, or its worker has
\* just joined that task and goes on to finish.
Renewed(j) ==
  \/ \E w \in Workers :
       /\ heartbeat[w] = "beating" \/ pc[w] = "finish"
       /\ JobOf(w) = j /\ HoldsLease(j, token[w])
  \/ \E h \in detached : h.job = j /\ HoldsLease(j, h.token)

\* Thirty seconds without a beat: nobody renews the lease, or the worker that
\* does was held up that long (scheduler, pool, network).
LeaseAges(j) ==
  /\ LeaseExpires(j)
  /\ IF Renewed(j) THEN Fault("stall") ELSE NoFault
  /\ UNCHANGED <<topicVars, consumerVars>>

-----------------------------------------------------------------------------
\* Where it does not touch docker.
HandlerStep(w) ==
  \/ \E p \in Partitions : Receive(w, p)
  \/ Requeue(w)
  \/ \E t \in Tokens : Start(w, t)
  \/ StartRefused(w)
  \/ FinishJob(w)
  \/ FinishRefused(w)
  \/ Commit(w)
  \/ SendToDlq(w)
  \/ DlqFails(w)

HandlerFault(w) ==
  \/ RequeueFails(w)
  \/ LatencyPanics(w)
  \/ \E t \in Tokens : StartFails(w, t)
  \/ MarkFails(w)
  \/ FinishFails(w)
  \/ CommitFails(w)
  \/ BeatFails(w)

\* Where it waits for docker.
ConsumerStep(w) ==
  \/ HandlerStep(w)
  \/ CleanOrphans(w)
  \/ MarkRunning(w)
  \/ RunCancelled(w)

HeartbeatNext ==
  \/ \E w \in Workers : Beat(w) \/ BeatFindsLeaseLost(w)
  \/ \E h \in detached : DetachedBeat(h) \/ DetachedEnds(h)
  \/ \E j \in Jobs : LeaseAges(j)

ConsumerNext ==
  \/ \E w \in Workers :
       \/ ConsumerStep(w)
       \/ \E v \in Verdicts : RunReturns(w, v)
       \/ HandlerFault(w)
       \/ CleanFails(w)
  \/ HeartbeatNext
=============================================================================
