-------------------------------- MODULE Api ---------------------------------
(***************************************************************************)
(* routes.rs: POST /run.  run_handle inserts the row and then sends the    *)
(* message; only after both does it answer with the job id.  There is one  *)
(* request per job id.  get_job reads one row and changes nothing.         *)
(***************************************************************************)
EXTENDS JobStore, JobTopic, Faults

VARIABLE request  \* per job: "none", "inserted", "answered" or "failed"

ApiTypeOK == request \in [Jobs -> {"none", "inserted", "answered", "failed"}]

ApiInit == request = [j \in Jobs |-> "none"]

CreateJob(j) ==
  /\ request[j] = "none"
  /\ Create(j)
  /\ request' = [request EXCEPT ![j] = "inserted"]
  /\ UNCHANGED <<topicVars, faults>>

CreateFails(j) ==
  /\ request[j] = "none"
  /\ Fault("db")
  /\ Create(j) \/ UNCHANGED storeVars
  /\ request' = [request EXCEPT ![j] = "failed"]
  /\ UNCHANGED topicVars

SendMessage(j) ==
  /\ request[j] = "inserted"
  /\ SendJob(j)
  /\ request' = [request EXCEPT ![j] = "answered"]
  /\ UNCHANGED <<storeVars, faults>>

\* send_job returns Err, or the client hangs up and axum drops the handler:
\* the row stays behind as Accepted.
SendFails(j) ==
  /\ request[j] = "inserted"
  /\ Fault("send")
  /\ SendJobUnsure(j)
  /\ request' = [request EXCEPT ![j] = "failed"]
  /\ UNCHANGED storeVars

ApiNext ==
  \E j \in Jobs : CreateJob(j) \/ CreateFails(j) \/ SendMessage(j) \/ SendFails(j)
=============================================================================
