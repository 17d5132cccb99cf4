---------------------------- MODULE JudgeSystem -----------------------------
(***************************************************************************)
(* app.rs: the judge as deployed.  One API (run_api) and a set of worker   *)
(* processes (run_worker), each with a consumer, a reaper, a publisher and *)
(* the heartbeat tasks of its executions, around one database and one      *)
(* topic.  The processes share nothing but these two.                      *)
(***************************************************************************)
EXTENDS KafkaConsumer, Recovery, Api

vars == <<storeVars, topicVars, consumerVars, recoveryVars, request, faults>>

TypeOK ==
  /\ StoreTypeOK
  /\ TopicTypeOK
  /\ ConsumerTypeOK
  /\ RecoveryTypeOK
  /\ ApiTypeOK
  /\ FaultsTypeOK

Init ==
  /\ StoreInit
  /\ TopicInit
  /\ ConsumerInit
  /\ RecoveryInit
  /\ ApiInit
  /\ FaultsInit

-----------------------------------------------------------------------------
(* The processes.                                                          *)

\* A worker process ends with all its tasks: killed, or shut down by a signal
\* (run then breaks before the next message), or because its consumer ended
\* and a signal came.
Crash(w) ==
  /\ pc[w] # "down"
  /\ Fault("crash")
  /\ Goto(w, "down")
  /\ Forget(w)
  /\ LeaveGroup(w)
  /\ detached'   = {h \in detached : h.worker # w}
  /\ reaping'    = reaping \ {w}
  /\ publishing' = publishing \ {w}
  /\ batch'      = [batch EXCEPT ![w] = {}]
  /\ sent'       = [sent  EXCEPT ![w] = NULL]
  /\ UNCHANGED <<storeVars, dlq, request>>

\* Somebody starts the process again; nothing in the deployment does.
Restart(w) ==
  /\ pc[w] = "down"
  /\ Fault("restart")
  /\ Goto(w, "clean")
  /\ reaping'    = reaping \cup {w}
  /\ publishing' = publishing \cup {w}
  /\ UNCHANGED <<storeVars, topicVars, msg, token, verdict, heartbeat, detached,
                 dlq, batch, sent, request>>

-----------------------------------------------------------------------------
(* The consumer group.                                                     *)

Join(w, p) ==
  /\ pc[w] = "poll"
  /\ Assign(p, w)
  /\ UNCHANGED <<storeVars, consumerVars, recoveryVars, request, faults>>

\* A regular rebalance waits until the owner polls.
Rebalance(w, p) ==
  /\ pc[w] = "poll" /\ owner[p] = w
  /\ Fault("rebalance")
  /\ Unassign({p})
  /\ UNCHANGED <<storeVars, consumerVars, recoveryVars, request>>

\* An expulsion does not wait: the owner handles its message to the end.
Expel(w) ==
  /\ pc[w] \in Handling
  /\ \E p \in Partitions : owner[p] = w
  /\ Fault("expel")
  /\ LeaveGroup(w)
  /\ UNCHANGED <<storeVars, consumerVars, recoveryVars, request>>

\* Somebody else writes to the topic.
ForeignRecord(p) ==
  /\ Fault("foreign")
  /\ Append1(p, Malformed)
  /\ UNCHANGED <<storeVars, consumerVars, recoveryVars, request>>

-----------------------------------------------------------------------------
GroupNext ==
  \/ \E w \in Workers :
       \/ Expel(w)
       \/ \E p \in Partitions : Join(w, p) \/ Rebalance(w, p)
  \/ \E p \in Partitions : ForeignRecord(p)

ProcessNext == \E w \in Workers : Crash(w) \/ Restart(w)

Next ==
  \/ ConsumerNext /\ UNCHANGED <<recoveryVars, request>>
  \/ RecoveryNext /\ UNCHANGED <<consumerVars, request>>
  \/ ApiNext      /\ UNCHANGED <<consumerVars, recoveryVars>>
  \/ ProcessNext
  \/ GroupNext

Spec == Init /\ [][Next]_vars

\* What tokio, rdkafka and PostgreSQL see to: a task that can take a step does,
\* a run ends by its timeouts, an unowned partition is assigned to a member
\* that polls, and time passes.  Nothing brings a fault about, or a restart,
\* or a request.
Fairness ==
  /\ \A w \in Workers :
       /\ WF_vars(ConsumerStep(w) /\ UNCHANGED <<recoveryVars, request>>)
       /\ WF_vars((\E v \in Verdicts : RunReturns(w, v))
                    /\ UNCHANGED <<recoveryVars, request>>)
       /\ WF_vars((Beat(w) \/ BeatFindsLeaseLost(w))
                    /\ UNCHANGED <<recoveryVars, request>>)
       /\ WF_vars(Reap(w) /\ UNCHANGED <<consumerVars, request>>)
       /\ WF_vars(PublisherStep(w) /\ UNCHANGED <<consumerVars, request>>)
  /\ \A p \in Partitions : WF_vars(\E w \in Workers : Join(w, p))
  /\ \A j \in Jobs :
       /\ WF_vars(~Renewed(j) /\ LeaseAges(j) /\ UNCHANGED <<recoveryVars, request>>)
       /\ WF_vars(SendMessage(j) /\ UNCHANGED <<consumerVars, recoveryVars>>)

FairSpec == Spec /\ Fairness
=============================================================================
