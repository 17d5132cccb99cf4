-------------------------- MODULE JudgeProperties ---------------------------
(* What the judge owes its users, over every interleaving of JudgeSystem.  *)
EXTENDS JudgeSystem

Executing(w) == pc[w] = "run"

Decided(j) == status[j] \in Final

\* Never do two workers run the code of one job at the same time (readme.md,
\* "Job Locking": try_start's conditional update, and the keyed topic).
OneExecution ==
  \A w, x \in Workers :
    Executing(w) /\ Executing(x) /\ JobOf(w) = JobOf(x) => w = x

\* Some part of the system still holds j and will bring it to a worker: a
\* record the group has yet to hand out, a handler that has yet to set the row
\* to Running, or an unpublished outbox row.
Announced(j) ==
  \/ \E p \in Partitions : \E o \in DOMAIN log[p] :
       log[p][o] = j /\ Undelivered(p, o)
  \/ \E w \in Workers : pc[w] \in {"requeue", "start", "mark"} /\ JobOf(w) = j
  \/ \E r \in outbox : r.job_id = j

\* Such a row turns stale once nobody renews it, and reap_stale_job finds it.
Reapable(j) == status[j] = "Running" /\ heartbeat_at[j] # NULL

\* A job whose id a client has been given is decided, or on its way to a
\* worker, or leased so that the reaper will find it when its worker is gone
\* (commit after the handler, lease, reaper and outbox together).
NotLost ==
  \A j \in Jobs :
    request[j] = "answered" => Decided(j) \/ Announced(j) \/ Reapable(j)

\* A record that is not a job message is committed only once it is in the
\* dead-letter topic, whoever crashes or is expelled in between (run's
\* Permanent arm: send_to_dlq, then commit).
PoisonIsKept ==
  \A p \in Partitions : \A o \in 1 .. committed[p] :
    log[p][o] = Malformed => <<p, o>> \in dlq

\* A worker whose token the row carries is the row's worker and works on that
\* job, and no other worker or detached task of another worker has the token:
\* no handler can renew or close a lease that was granted to another
\* (try_start, heartbeat and finish).
LeaseIsPersonal ==
  \A w \in Workers : token[w] # NULL =>
    /\ \A j \in Jobs : lock_token[j] = token[w] => JobOf(w) = j /\ worker_id[j] = w
    /\ \A x \in Workers : token[x] = token[w] => x = w
    /\ \A h \in detached : h.token # token[w]

Owed(j) == \E r \in outbox : r.job_id = j

\* From try_start to finish the row is its handler's: nobody else takes the
\* lease, reopens the job, sets it to Running or decides it.  The reaper alone
\* may, once the lease is stale, and then it owes the queue an event
\* (get_and_queued, try_start, update_status and finish of every other handler;
\* reap_stale_job).
RowIsItsHandlers ==
  [][\A w \in Workers, j \in Jobs :
       /\ pc[w] \in {"mark", "run", "finish"} /\ JobOf(w) = j
       /\ UNCHANGED pc[w]
       => \/ UNCHANGED <<status[j], lock_token[j], worker_id[j]>>
          \/ heartbeat_at[j] = "stale" /\ Owed(j)']_vars

Sent(j) == \E p \in Partitions : \E o \in DOMAIN log[p] : log[p][o] = j

\* Every job whose message has reached the topic is decided in the end, and
\* stays so, also when its client hung up or was told of an error (the whole of
\* run_handle, handle_message, Reaper::run and OutboxPublisher::run).
SentIsDecided ==
  \A j \in Jobs : [](Sent(j) => <>[]Decided(j))

\* Every event the reaper leaves is published in the end, though the publisher
\* that has fetched it dies, or its send fails (OutboxPublisher::run of every
\* worker; get_unpublished_outbox).
OwedIsPublished ==
  \A j \in Jobs : Owed(j) ~> ~Owed(j)

-----------------------------------------------------------------------------
(* Claims of the documentation that the code does not keep.                *)

\* readme.md, "Worker Heartbeat": a job that was left in the Running state is
\* recovered, so no job stays Running forever without an execution.
AbandonedIsRecovered ==
  \A j \in Jobs :
    (status[j] = "Running" /\ \A w \in Workers : msg[w] = NULL \/ JobOf(w) # j)
      ~> (status[j] # "Running" \/ \E w \in Workers : msg[w] # NULL /\ JobOf(w) = j)

\* readme.md, "Job Lifecycle": the execution state is not lost when a worker
\* exits.  So a job with an answered request that is neither decided nor leased
\* has at least a record that the group has not committed, which some later
\* rebalance would bring up again.
NotForgotten ==
  \A j \in Jobs : request[j] = "answered" =>
    \/ Decided(j) \/ Announced(j) \/ Reapable(j)
    \/ \E p \in Partitions : \E o \in DOMAIN log[p] :
         log[p][o] = j /\ committed[p] < o

\* error.rs, ProcessError::Retryable: an error that is retried.  So a job whose
\* id a client has been given does not wait forever, its message passed over.
WaitingIsStarted ==
  \A j \in Jobs :
    (request[j] = "answered" /\ status[j] \in {"Accepted", "Queued"})
      ~> status[j] \notin {"Accepted", "Queued"}
=============================================================================
