------------------------------ MODULE Recovery ------------------------------
(***************************************************************************)
(* reaper.rs and joboutbox.rs: the two tasks every worker process runs     *)
(* beside its consumer.  The reaper turns stale leases into outbox rows;   *)
(* the publisher sends a job message for each unpublished row and then     *)
(* marks it.  Several workers run both, with no coordination but the SQL.  *)
(* Both loops end at the first statement that returns Err.                 *)
(***************************************************************************)
EXTENDS JobStore, JobTopic, Faults

VARIABLES
  reaping,     \* workers whose reaper task runs
  publishing,  \* workers whose publisher task runs
  batch,       \* rows the publisher fetched and has not come to yet
  sent         \* the row it has sent a message for and not yet marked

recoveryVars == <<reaping, publishing, batch, sent>>

RecoveryTypeOK ==
  /\ reaping    \in SUBSET Workers
  /\ publishing \in SUBSET Workers
  /\ batch      \in [Workers -> SUBSET OutboxRow]
  /\ sent       \in [Workers -> OutboxRow \cup {NULL}]

RecoveryInit ==
  /\ reaping    = Workers
  /\ publishing = Workers
  /\ batch      = [w \in Workers |-> {}]
  /\ sent       = [w \in Workers |-> NULL]

-----------------------------------------------------------------------------
(* Reaper::run.                                                            *)

Reap(w) ==
  /\ w \in reaping
  /\ ReapStaleJob
  /\ UNCHANGED <<topicVars, recoveryVars, faults>>

\* The ? ends the loop, and run_worker throws its result away.
ReapFails(w) ==
  /\ w \in reaping
  /\ Fault("db")
  /\ ReapStaleJob \/ UNCHANGED storeVars
  /\ reaping' = reaping \ {w}
  /\ UNCHANGED <<topicVars, publishing, batch, sent>>

-----------------------------------------------------------------------------
(* OutboxPublisher::publish_once.                                          *)

Idle(w)    == w \in publishing /\ batch[w] = {} /\ sent[w] = NULL
Sending(w) == w \in publishing /\ sent[w] = NULL

\* get_unpublished_outbox.
FetchOutbox(w) ==
  /\ Idle(w) /\ outbox # {}
  /\ \E b \in UnpublishedOutbox : batch' = [batch EXCEPT ![w] = b]
  /\ UNCHANGED <<storeVars, topicVars, reaping, publishing, sent, faults>>

\* The rows of a batch are taken in the order of created_at.
Oldest(b) == {r \in b : \A s \in b : r.created_at <= s.created_at}

PublishRow(w, r) ==
  /\ Sending(w) /\ r \in Oldest(batch[w])
  /\ SendJob(r.job_id)
  /\ batch' = [batch EXCEPT ![w] = @ \ {r}]
  /\ sent'  = [sent  EXCEPT ![w] = r]
  /\ UNCHANGED <<storeVars, reaping, publishing, faults>>

\* Mutant of PublishRowFails: the row is marked whatever send_job said.
MarkedThoughUnsent(w, r) ==
  /\ Sending(w) /\ r \in Oldest(batch[w])
  /\ Fault("send")
  /\ MarkOutboxPublished(r)
  /\ batch' = [batch EXCEPT ![w] = @ \ {r}]
  /\ UNCHANGED <<topicVars, reaping, publishing, sent>>

\* Mutant of PublishRowFails: the error of send_job ends the task.
UnsentEndsPublisher(w, r) ==
  /\ Sending(w) /\ r \in Oldest(batch[w])
  /\ Fault("send")
  /\ SendJobUnsure(r.job_id)
  /\ publishing' = publishing \ {w}
  /\ batch'      = [batch EXCEPT ![w] = {}]
  /\ UNCHANGED <<storeVars, reaping, sent>>

\* The row stays unpublished; a later batch will hold it again.
PublishRowFails(w, r) ==
  /\ Sending(w) /\ r \in Oldest(batch[w])
  /\ Fault("send")
  /\ SendJobUnsure(r.job_id)
  /\ batch' = [batch EXCEPT ![w] = @ \ {r}]
  /\ UNCHANGED <<storeVars, reaping, publishing, sent>>

MarkPublished(w) ==
  /\ sent[w] # NULL
  /\ MarkOutboxPublished(sent[w])
  /\ sent' = [sent EXCEPT ![w] = NULL]
  /\ UNCHANGED <<topicVars, reaping, publishing, batch, faults>>

\* get_unpublished_outbox or mark_outbox_published returns Err: the task ends.
PublisherFails(w) ==
  /\ \/ Idle(w) /\ UNCHANGED storeVars
     \/ sent[w] # NULL /\ (MarkOutboxPublished(sent[w]) \/ UNCHANGED storeVars)
  /\ Fault("db")
  /\ publishing' = publishing \ {w}
  /\ batch'      = [batch EXCEPT ![w] = {}]
  /\ sent'       = [sent  EXCEPT ![w] = NULL]
  /\ UNCHANGED <<topicVars, reaping>>

PublisherStep(w) ==
  \/ FetchOutbox(w)
  \/ \E r \in batch[w] : PublishRow(w, r)
  \/ MarkPublished(w)

RecoveryNext ==
  \E w \in Workers :
    \/ Reap(w) \/ ReapFails(w)
    \/ PublisherStep(w)
    \/ \E r \in batch[w] : PublishRowFails(w, r)
    \/ PublisherFails(w)
=============================================================================
