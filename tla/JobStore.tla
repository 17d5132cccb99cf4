------------------------------ MODULE JobStore ------------------------------
(***************************************************************************)
(* The PostgreSQL tables behind job.rs: `jobs`, one row per submitted job, *)
(* and `job_outbox`, the events the reaper leaves for the publisher.  A    *)
(* method of JobStore is one SQL statement, hence one atomic step; each is *)
(* an operator of its own here, and the callers (kafka.rs, reaper.rs,      *)
(* joboutbox.rs, routes.rs) are modelled in the modules that extend this   *)
(* one.  A column is a function of the job.                                *)
(*                                                                         *)
(* NOW() is compared with heartbeat_at at one distance only, 30 seconds,   *)
(* by try_start, reap_stale_job and is_job_execution_alive alike.  So a    *)
(* heartbeat is "fresh" (at most 30 s old), "stale" (older) or NULL, and   *)
(* the passage of time is the step LeaseExpires.                           *)
(***************************************************************************)
EXTENDS Ids, Naturals, FiniteSets

CONSTANTS
  Tokens,      \* lock tokens (Uuid::new_v4 in try_start)
  Verdicts,    \* the final statuses the runs distinguish
  BatchLimit   \* LIMIT of get_unpublished_outbox

\* RunStatus without Accepted, Queued and Running: what an execution ends in.
Final == {"Success", "CompileError", "RuntimeError",
          "TimeLimitExceeded", "MemoryLimitExceeded"}

Status == {"Accepted", "Queued", "Running"} \cup Verdicts

ASSUME VerdictsAssumption ==
  Verdicts \subseteq Final /\ "RuntimeError" \in Verdicts
ASSUME BatchAssumption == BatchLimit \in Nat \ {0}
ASSUME NullAssumption ==
  NULL \notin Status \cup Final \cup Tokens \cup {"fresh", "stale"}

VARIABLES
  status,        \* jobs.status, NULL while there is no such row
  lock_token,    \* jobs.lock_token
  heartbeat_at,  \* jobs.heartbeat_at
  worker_id,     \* jobs.worker_id
  outbox,        \* job_outbox rows with published_at IS NULL
  reap_time      \* created_at of the newest outbox row, counted in statements

rows      == <<status, lock_token, heartbeat_at, worker_id>>
storeVars == <<status, lock_token, heartbeat_at, worker_id, outbox, reap_time>>

\* A published row is never read again, so outbox keeps the others only; one
\* statement adds at most one row per job, which makes the pair its identity.
OutboxRow == [created_at : Nat, job_id : Jobs]

ASSUME RowAssumption == NULL \notin OutboxRow

StoreTypeOK ==
  /\ status       \in [Jobs -> Status \cup {NULL}]
  /\ lock_token   \in [Jobs -> Tokens \cup {NULL}]
  /\ heartbeat_at \in [Jobs -> {"fresh", "stale", NULL}]
  /\ worker_id    \in [Jobs -> Workers \cup {NULL}]
  /\ outbox       \in SUBSET OutboxRow
  /\ reap_time    \in Nat

StoreInit ==
  /\ status       = [j \in Jobs |-> NULL]
  /\ lock_token   = [j \in Jobs |-> NULL]
  /\ heartbeat_at = [j \in Jobs |-> NULL]
  /\ worker_id    = [j \in Jobs |-> NULL]
  /\ outbox       = {}
  /\ reap_time    = 0

-----------------------------------------------------------------------------
(* Mutants: what plausible mistakes would make of the definitions below.   *)

\* try_start also asks for lock_token IS NULL.
StartableIfUnlocked(j) ==
  \/ status[j] = "Queued" /\ lock_token[j] = NULL
  \/ status[j] = "Running" /\ heartbeat_at[j] \in {NULL, "stale"}

\* heartbeat and finish without AND lock_token = ...
HoldsLeaseByStatus(j, t) == status[j] = "Running" /\ t \in Tokens

\* try_start binds worker_id and the token in the wrong order.
TryStartSwapped(j, w, t) ==
  /\ status[j] \in {"Queued", "Running"}
  /\ status'       = [status       EXCEPT ![j] = "Running"]
  /\ lock_token'   = [lock_token   EXCEPT ![j] = w]
  /\ heartbeat_at' = [heartbeat_at EXCEPT ![j] = "fresh"]
  /\ worker_id'    = [worker_id    EXCEPT ![j] = t]
  /\ UNCHANGED <<outbox, reap_time>>

\* try_start asks for a row that is queued or running, whatever its heartbeat,
\* and sets COALESCE(lock_token, $2).
TryStartKeepsToken(j, w, t) ==
  /\ status[j] \in {"Queued", "Running"}
  /\ status'       = [status       EXCEPT ![j] = "Running"]
  /\ lock_token'   = [lock_token   EXCEPT ![j] = IF @ = NULL THEN t ELSE @]
  /\ heartbeat_at' = [heartbeat_at EXCEPT ![j] = "fresh"]
  /\ worker_id'    = [worker_id    EXCEPT ![j] = w]
  /\ UNCHANGED <<outbox, reap_time>>

\* finish forgets lock_token = NULL.
FinishKeepsToken(j, v, t) ==
  /\ status[j] = "Running" /\ lock_token[j] = t
  /\ status' = [status EXCEPT ![j] = v]
  /\ UNCHANGED <<lock_token, heartbeat_at, worker_id, outbox, reap_time>>

\* reap_stale_job without the INSERT.
ReapWithoutEvent ==
  LET stale == {j \in Jobs : status[j] = "Running" /\ heartbeat_at[j] = "stale"}
      Set(column, value) == [j \in Jobs |-> IF j \in stale THEN value ELSE column[j]]
  IN  /\ stale # {}
      /\ status'       = Set(status, "Queued")
      /\ lock_token'   = Set(lock_token, NULL)
      /\ heartbeat_at' = Set(heartbeat_at, NULL)
      /\ worker_id'    = Set(worker_id, NULL)
      /\ reap_time'    = reap_time + 1
      /\ UNCHANGED outbox

-----------------------------------------------------------------------------
(* The WHERE clauses.                                                      *)

\* try_start: queued, or running under a lease nobody renewed for 30 s.
Startable(j) ==
  \/ status[j] = "Queued"
  \/ status[j] = "Running" /\ heartbeat_at[j] \in {NULL, "stale"}

\* heartbeat and finish: the caller's token is still the row's.
HoldsLease(j, t) == status[j] = "Running" /\ lock_token[j] = t

\* reap_stale_job: NULL < NOW() - 30 s is not true, so a NULL is not stale.
Stale == {j \in Jobs : status[j] = "Running" /\ heartbeat_at[j] = "stale"}

\* is_job_execution_alive.
ExecutionAlive(j) == status[j] = "Running" /\ heartbeat_at[j] = "fresh"

-----------------------------------------------------------------------------
(* The statements.                                                         *)

Create(j) ==
  /\ status[j] = NULL
  /\ status' = [status EXCEPT ![j] = "Accepted"]
  /\ UNCHANGED <<lock_token, heartbeat_at, worker_id, outbox, reap_time>>

TryStart(j, w, t) ==
  /\ Startable(j)
  /\ status'       = [status       EXCEPT ![j] = "Running"]
  /\ lock_token'   = [lock_token   EXCEPT ![j] = t]
  /\ heartbeat_at' = [heartbeat_at EXCEPT ![j] = "fresh"]
  /\ worker_id'    = [worker_id    EXCEPT ![j] = w]
  /\ UNCHANGED <<outbox, reap_time>>

\* update_status has no guard on the status it overwrites.  It is called with
\* "Queued" by get_and_queued and with "Running" by handle_message.
UpdateStatus(j, s) ==
  /\ status[j] # NULL
  /\ status' = [status EXCEPT ![j] = s]
  /\ UNCHANGED <<lock_token, heartbeat_at, worker_id, outbox, reap_time>>

Finish(j, v, t) ==
  /\ HoldsLease(j, t)
  /\ status'     = [status     EXCEPT ![j] = v]
  /\ lock_token' = [lock_token EXCEPT ![j] = NULL]
  /\ UNCHANGED <<heartbeat_at, worker_id, outbox, reap_time>>

Heartbeat(j, t) ==
  /\ HoldsLease(j, t)
  /\ heartbeat_at' = [heartbeat_at EXCEPT ![j] = "fresh"]
  /\ UNCHANGED <<status, lock_token, worker_id, outbox, reap_time>>

SetStale(column, value) ==
  [j \in Jobs |-> IF j \in Stale THEN value ELSE column[j]]

\* One statement: the UPDATE's RETURNING feeds the INSERT.
ReapStaleJob ==
  /\ Stale # {}
  /\ status'       = SetStale(status, "Queued")
  /\ lock_token'   = SetStale(lock_token, NULL)
  /\ heartbeat_at' = SetStale(heartbeat_at, NULL)
  /\ worker_id'    = SetStale(worker_id, NULL)
  /\ reap_time'    = reap_time + 1
  /\ outbox'       = outbox \cup [created_at : {reap_time + 1}, job_id : Stale]

\* The batches ORDER BY created_at LIMIT may return: rows of one statement
\* have equal created_at and come in any order.
UnpublishedOutbox ==
  {b \in SUBSET outbox :
     /\ Cardinality(b) = IF Cardinality(outbox) < BatchLimit
                         THEN Cardinality(outbox) ELSE BatchLimit
     /\ \A r \in b, s \in outbox \ b : r.created_at <= s.created_at}

MarkOutboxPublished(r) ==
  /\ outbox' = outbox \ {r}
  /\ UNCHANGED <<status, lock_token, heartbeat_at, worker_id, reap_time>>

\* Thirty seconds pass without a renewal of j's lease.
LeaseExpires(j) ==
  /\ heartbeat_at[j] = "fresh"
  /\ heartbeat_at' = [heartbeat_at EXCEPT ![j] = "stale"]
  /\ UNCHANGED <<status, lock_token, worker_id, outbox, reap_time>>

-----------------------------------------------------------------------------
(* The store on its own, called by anyone in any order.                    *)

StoreNext ==
  \/ \E j \in Jobs :
       \/ Create(j)
       \/ \E w \in Workers, t \in Tokens :
            t \notin {lock_token[k] : k \in Jobs} /\ TryStart(j, w, t)
       \/ \E s \in {"Queued", "Running"} : UpdateStatus(j, s)
       \/ \E v \in Verdicts, t \in Tokens : Finish(j, v, t)
       \/ \E t \in Tokens : Heartbeat(j, t)
       \/ LeaseExpires(j)
  \/ ReapStaleJob
  \/ \E r \in outbox : MarkOutboxPublished(r)

StoreSpec == StoreInit /\ [][StoreNext]_storeVars

-----------------------------------------------------------------------------
(* What the columns of a row say together.                                 *)

\* A row without a heartbeat was never started or has been reaped: it carries
\* no token, so no execution can renew it or write its verdict.
UnbeatenIsUnlocked ==
  \A j \in Jobs : heartbeat_at[j] = NULL =>
    lock_token[j] = NULL /\ worker_id[j] = NULL /\ status[j] \notin Final

\* A verdict closes the lease it was written under: a late finish or heartbeat
\* of the same execution finds no row.
DecidedIsUnlocked ==
  \A j \in Jobs : status[j] \in Final => lock_token[j] = NULL

\* No two jobs are leased under one token, so a token names one execution.
TokensAreDistinct ==
  \A j, k \in Jobs : lock_token[j] = lock_token[k] /\ lock_token[j] # NULL => j = k

\* Every row of the outbox stands for a job that has a row, and its created_at
\* has been dealt out: the next reaping statement cannot make a second one.
OutboxIsSound ==
  \A r \in outbox : status[r.job_id] # NULL /\ r.created_at <= reap_time

StoreInv == UnbeatenIsUnlocked /\ DecidedIsUnlocked /\ TokensAreDistinct /\ OutboxIsSound

-----------------------------------------------------------------------------
(* The tables keep the promise of JobLease: a verdict is the spending of a *)
(* lease, and a lease that is taken away leaves an event behind.           *)

VerdictOf(j) == IF status[j] \in Final THEN status[j] ELSE "open"

Lease == INSTANCE JobLease WITH
  lease   <- lock_token,
  verdict <- [j \in Jobs |-> VerdictOf(j)],
  owed    <- {r.job_id : r \in outbox}

\* StoreSpec implements JobLease under the mapping above (job.rs as a whole):
\* no interleaving of its statements writes a verdict without a lease, or drops
\* a lease without a verdict and without an event for the queue.
LeaseKept == Lease!Spec
=============================================================================
