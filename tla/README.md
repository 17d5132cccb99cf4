# Verification of the judge

TLA+ models, TLC runs and TLAPS proofs for the distributed code judge in
`src/` (Rust: an HTTP API, Kafka, PostgreSQL, docker workers).

## The system

| Component | State | Operations | Files |
|---|---|---|---|
| Job store | tables `jobs`, `job_outbox` | create, try_start, update_status, get_and_queued, finish, heartbeat, reap_stale_job, get_unpublished_outbox, mark_outbox_published, is_job_execution_alive | `job.rs`, `migrations/` |
| Topic and group | log, committed offset, owner and position per partition of `judge.jobs` | send_job, deliver, commit, rebalance, expel | `kafka.rs` (client side), external |
| Consumer | the message in hand, the lock token, the run's outcome | `run`, `handle_message` | `kafka.rs` |
| Heartbeat task | whether it beats, and what it met | a beat every 10 s | `kafka.rs` 133-167 |
| Reaper | none | every 10 s: stale leases to outbox rows | `reaper.rs` |
| Outbox publisher | the rows fetched | every 5 s: send, then mark | `joboutbox.rs` |
| API | one request per job | POST /run: insert, then send; GET reads | `routes.rs`, `apierror.rs`, `state.rs` |
| Processes | which tasks run | start, crash, shutdown | `app.rs`, `main.rs` |
| Docker runner | containers with labels | create, start, two execs under time-outs, cancel, clean up; the cleaning of orphans | `docker/` |
| Workspace | a directory | create, write, remove on Drop or by the cleaning | `workspace.rs` |
| Verdict | RunStatus | how a run's end becomes a status | `models.rs`, `runner.rs` |
| Metrics | counters | increment | `metrics.rs` |

Processes share nothing but the database, the topic and, on one host, docker
and the disk. A job goes from the API's INSERT through a record of the topic to
some worker's handler, which takes a lease (`try_start`: Running, a fresh token,
`heartbeat_at`), renews it from a task of its own, executes the program in a
container, writes the verdict under the token (`finish`) and commits the
offset. A lease that is not renewed for 30 seconds is reaped into an outbox row,
which a publisher turns into another record. A starting worker first removes
the containers whose job has no fresh lease.

What makes it hard: handlers of two workers on one job after an expulsion or a
redelivery; statements a round trip apart (`try_start` and `update_status`,
send and mark, `finish` and commit); asynchronous commits; leases that expire
under a living execution; early returns that leave a task or a container
behind; a cleaning that lists, asks, inspects and removes while the containers'
own runs do the same; loops that end at the first error. `PROJECT.json` lists
these hazards by line.

What correctness means, per component:

- store: columns never contradict each other; a verdict spends a lease; a
  lease taken away leaves an event;
- consumer and heartbeat: one execution per job; a lease belongs to one
  handler, and nobody else writes the row under it; a poison record is kept before it is committed; a living execution's
  beats come often enough;
- API, topic, reaper and publisher together: a job a client has an id for is
  never lost, one whose message is in the topic is decided in the end, and an
  event of the outbox is published in the end;
- runner and workspace: the verdict is the program's; a run leaves nothing
  behind; a cleaning takes nothing from a living execution.

## Modules

| Module | Models | How |
|---|---|---|
| `Ids` | job, worker ids, NULL | constants |
| `Faults` | the environment's faults | one budget per kind, spent by each fault |
| `JobLease` | abstract specification of the tables | a lease, a verdict and an owed delivery per job |
| `JobStore` | `job.rs` | one operator per SQL statement; `StoreSpec` lets anyone call them |
| `JobTopic` | Kafka, as used (external) | per partition a sequence, an offset, an owner |
| `KafkaConsumer` | `kafka.rs` | one action per await between two shared effects; the control state is `pc` |
| `Recovery` | `reaper.rs`, `joboutbox.rs` | one action per statement or send |
| `Api` | `routes.rs` | insert, send, and the failure of each |
| `JudgeSystem` | `app.rs` | the composition, crash, restart, the group, fairness |
| `JudgeProperties` | what the judge owes | invariants and temporal properties |
| `DockerRunner` | `docker/`, `workspace.rs` | one action per call that changes docker or the disk, or reads what others change |
| `JudgeSandbox` | the judge with docker | the consumer's steps joined with docker's; what the sandbox owes |
| `LeaseTiming` | the intervals of `kafka.rs` and `reaper.rs` | one execution and one reaper against a clock |
| `MCJudge`, `MCSandbox` | TLC instances | symmetry, the partitioner, the programs |
| `JobStoreProofs`, `JudgeProofs`, `LeaseProofs`, `DeliveryProofs`, `NotLostProofs`, `LeaseTimingProofs`, `SandboxProofs`, `VerdictProofs` | theorems | TLAPS |

`KafkaConsumer`, `Recovery` and `Api` extend `JobStore`, `JobTopic` and
`Faults`; `JudgeSystem` extends the three; `JudgeSandbox` extends
`JudgeProperties` and `DockerRunner`. In `JudgeSystem` a docker run is its
outcome: any verdict, after any time. `JudgeSandbox` replaces that choice by the
run itself: `BeginRun` is `MarkRunning` together with the call of `run_rust`,
`EndRun` is `RunReturns` or `RunCancelled` with what the run returned.

State and code. A column of `jobs` is a function of the job: `status`,
`lock_token`, `heartbeat_at`, `worker_id`. The guards of the code compare
`heartbeat_at` with NOW() at one distance only, 30 seconds, so it is "fresh",
"stale" or NULL and time is the step `LeaseExpires`. `outbox` holds the
unpublished rows (a published row is never read); `created_at` counts reaping
statements, which orders batches as `ORDER BY created_at` does, with ties
within one statement in any order. `updated_at`, `locked_at`, stdout, stderr,
exit code and source text are data no guard reads. The SELECT of
`get_and_queued` reads columns that never change, so it is one step with the
UPDATE after it; a job id that has no row is treated like a record that does
not parse, for both are Permanent. `get_job` and `/health` change nothing. The
branch for an unsupported language is left out: `create` binds "rust".

A fault on a statement ("db") is an answer `Err`, after which the statement may
or may not have been executed; a fault on a send likewise. `LeaseAges` costs a
"stall" only when a living task ought to renew the lease. `MarkFails` leaves
the heartbeat task behind as a member of `detached`. A consumer task that ends
(`pc` "dead") leaves reaper, publisher and heartbeat tasks of its process
running, as in `run_worker`. A shutdown is a crash in control state "poll".

Docker and disk. A run has one fresh name for its temporary directory and its
container. `container[x]` is the container's `oj.job_id` label, and the
`oj.workspace` label is `x` itself. `at[w]` is where a worker is between two
calls. What a program does is a constant of the job (`program`): how its
compilation and its run end, with code zero or another, killed for memory, or
not at all. An exec in a container whose directory is gone ends with a code
other than zero, since there is no `main.rs` or no binary; an exec in a
container that is gone is an error. The image pull and the inspections that
only this run's own state could change belong to the step they follow. A crash
leaves container and directory as they are. `CleaningEnds` is the `?` of the
listing and of the question, and the `unwrap` on a container that could not be
inspected.

The mutants (`...Swapped`, `ReapWithoutEvent`, ...) are plausible mistakes in
the definition that follows them; no specification uses them.

## Runs

Passing:

| Run | Instance | Shows |
|---|---|---|
| `recovery` | 2 jobs, 1 partition; crash, rebalance, stall, send, docker | `NotLost` when a later commit covers an earlier record |
| `expelled` | 1 job, a foreign record, no `jobs.dlq`; expulsion, stall | two handlers on a record: `NotLost`, `PoisonIsKept`, `LeaseIsPersonal`, `StoreInv`, and the system implements `JobLease` (`LeaseKept`) |
| `progress` | 1 job; crash, restart, stall, send; fairness | `SentIsDecided`, `OwedIsPublished` |
| `sandbox` | 1 job, 2 partitions, four kinds of program; crash, restart, docker, panic | verdicts are the programs' (`VerdictIsTrue`), a cleaning spares the living (`LivingAreSpared`), nobody else writes the row of a handler at work (`RowIsItsHandlers`), leftovers are counted (`LeaksAreFaults`), with `OneExecution` and `NotLost` |
| `tidy` | 1 job, a foreign record; stall, db | cancelled runs and runs whose statements fail leave nothing (`LeaksAreFaults`) |
| `timing` | units of 5 s: beats 10 s, reaper 10 s, lease 30 s, answers within 15 s, 100 s in all | `LivingIsNotReaped`, `DeadIsReapedInTime` |

Violations, each a finding in `PROJECT.json`:

| Run | Property | Needs | Outcome |
|---|---|---|---|
| `two_executions` | `OneExecution` | 1 expulsion | `get_and_queued` takes a live lease away; two workers run the job |
| `abandoned` | `AbandonedIsRecovered` | 1 db error | an orphaned heartbeat keeps a job Running for good |
| `skipped` | `WaitingIsStarted` | 1 db error | a "retryable" error is never retried |
| `lost_on_crash` | `NotForgotten` | 1 expulsion, 1 crash | a decided, committed job ends as Queued with nothing to take it up |
| `orphan_gone` | `OrphanIsThere` | no fault | a starting worker lists a running container; its own run removes it and the job is decided; only then the worker asks, is told the job is not alive, and inspects a container that is gone: `unwrap` panics |
| `leftover` | `OrphansAreRemoved` | 1 crash, 1 restart | a worker restarted within 30 s keeps the dead execution's container, and nobody asks again |

Two disagreements need no run to be seen, and are listed as hazards no property
covers, for the code promises nothing that could be checked: the reaper
and publisher loops end at their first database error (`reaper.rs` 22,
`joboutbox.rs` 58), and the Supervisor of readme.md, line 252, does not exist, so a
consumer task that ended stays so.

`NotLost` needs its preconditions: with a database error it fails (`skipped`,
`abandoned`), and with an expulsion and a crash it fails (`lost_on_crash`).
The passing runs of `NotLost` name the faults under which it holds, and
`JobsAreNotLost` and `SandboxJobsAreNotLost` prove it without expulsions and
database errors.
`VerdictIsTrue` and `LivingAreSpared` except behaviours in which a worker
stalled past its lease: its row is then not alive, and its container is an orphan
to any worker that starts. `VerdictIsTrue` also excepts docker errors, which
become RuntimeError by design (`kafka.rs` 249-262).

Bounds. Two workers are the least that interfere; a second job matters only
where two records share a partition (`recovery`), a second partition only where
exclusion could come from it (`sandbox`; a record without a key then breaks
`OneExecution`). Fault budgets of one let each fault meet every control state of
both workers, and every pair of faults that a run admits in every order. There
are enough tokens that a fresh one always exists: one per row, per handler and
per lost or detached execution; likewise names for the runs: one in hand per
worker, and one left behind by a dead one. Logs, outbox and `reap_time` need no
bound of their own, since every extra record stems from a fault. Without docker
one verdict value suffices, since no guard tells verdicts apart. `BatchLimit` is
1 in the runs, so that a batch may leave rows behind (100 in the code). `MaxNow`
bounds `LeaseTiming` by 100 seconds: three leases, and every alignment of the
two intervals. Symmetry over jobs, workers, tokens and runs is used for safety
only, never in the runs with fairness. `CHECK_DEADLOCK FALSE`: the system stops
when the budget is spent and all jobs are decided.

Fairness (`FairSpec`). Weak fairness for each consumer's next step, the run's
end (its two time-outs bound it), the heartbeat, each reaper and publisher, the
assignment of unowned partitions to a polling member, the API's send, and the
passing of 30 seconds for a lease nobody renews: tokio polls a task that is
ready, PostgreSQL answers, the broker assigns. No fault, request or restart is
fair, and weak fairness suffices because nothing disables these steps for ever.
`SentIsDecided` needs one worker with all its tasks alive, which the budget of
one crash leaves; it does not ask that the client was answered: the message of a
client that hung up is a message like any other. `FairSandbox` is the same with
docker: a call is answered, and an exec that hangs is ended by its time-out.

A side result: the reaper is a second line of defence. The redelivery of the
uncommitted record alone revives a crashed worker's job; a reaped lease
matters when the record has been passed over, or the execution lives and
merely stalled (`expelled`, `recovery`).

## Proofs

For every value of the constants, under the assumptions named in the modules
(NULL is no id, token, status, row, run or exec's outcome; verdicts are final
statuses, and in `JudgeSandbox` all of them, since `run_rust` may return any;
the partitioner is a function; budgets and distances are natural numbers):

- `JobStoreProofs`. `StoreTypeCorrect`, `StoreConsistent`: `StoreTypeOK` and
  `StoreInv` are invariants of `StoreSpec`. The conjunction is inductive:
  `finish` needs a token, `UnbeatenIsUnlocked` ties a token to a heartbeat, so
  that a verdict never appears on a row without one; distinct tokens come from
  `try_start`'s fresh UUID. `StoreKeepsLease`: `StoreSpec` implements
  `JobLease`. `try_start` maps to Grant, `finish` to Decide, `reap_stale_job`
  to Revoke of the stale rows, `mark_outbox_published` to Announce or a stutter
  (a job may have two rows), `update_status` to Reopen or a stutter, the rest to
  stutters.
- `JudgeProofs`. `TypeCorrect`: `TypeOK` is an invariant of the whole system. It
  is strengthened by `InHand` (who handles a message has one), since a commit
  writes that message's offset. `ExecutionsExclude`: with `MaxExpulsions = 0`,
  `OneExecution` is an invariant of the whole system, with any number of
  workers, jobs, partitions, crashes, restarts, stalls, database and send
  errors. `OneExecution` does not mention partitions, so it is strengthened:
  records are keyed (`Keyed`), the message in hand came from its job's partition
  (`OnItsPartition`), and its handler still owns it (`Owned`). `Owned` is where
  an expulsion would break it. The proof does not use the lock token at all:
  exclusion rests on the topic's key and on the group, not on the lock.
- `LeaseProofs`. `JudgeUsesStore`: every step of the judge, faults included, is
  a statement of the store or leaves the tables alone, so `Spec => StoreSpec`.
  The store's theorems carry over: `JudgeKeepsStore`, `JudgeKeepsLease`.
  `LeasesArePersonal`: no two handlers share a token, expulsions and failed
  statements included; here the fresh token (`LiveTokens`) is what counts.
- `DeliveryProofs`. `GroupIsKept`: `committed <= position <= Len(log)`, and the
  message of a handler that owns its partition is the last one delivered.
  `PoisonKept`: `PoisonIsKept` speaks of committed offsets only; the invariant
  adds that below an owner's position every poison record is saved or is the one
  its handler is about to send, whatever is expelled or crashes in between.
- `NotLostProofs`. `JobsAreNotLost`: with `MaxExpulsions = 0` and
  `MaxDbErrors = 0`, `NotLost` is an invariant. `NotLost` is not inductive: a
  handler in "mark" and an outbox row whose message has been sent are about to
  cease holding the job. The invariant `Holding` asks for more: an answered job
  is decided, reapable, in a record yet to be delivered, with a handler that has
  not started it, or in a row nobody has sent (`Held`), together with the
  invariants of the other modules and what a control state says of the row
  (`Underway`).
- `LeaseTimingProofs`. `DeadAreReaped`: a renewal is never older than the lease
  and one round of the reaper, for any intervals and delays.
  `LivingAreNotReaped`: under `DelayIsSmall`, which for 10 and 30 seconds is an
  answer within 15, no living execution is reaped. The invariant bounds each
  statement in flight by the interval that brought it.

- `SandboxProofs`. `SandboxTypeCorrect`: the types need `Nested`, which couples
  a worker's place in docker, `at`, with its place in the handler, `pc`, and
  says what it has in hand there. A step of `SandboxSpec` is a step of the judge
  or one `Beyond` it: docker moved while the judge stood still, or a cleaning
  broke off and the consumer ended without a fault of the judge's. Each invariant
  of the judge is shown to survive `Beyond`, which carries over what the modules
  above prove: `SandboxUsesStore`, `SandboxKeepsLease`,
  `SandboxLeasesArePersonal`, `SandboxExecutionsExclude`,
  `SandboxJobsAreNotLost`. `LeaksAreBounded`: `LeaksAreFaults` counts what is
  left behind now, which a step may raise because an earlier step made it
  unavoidable. The invariant counts `Lost`: leftovers, and what a run under way
  is doomed to leave. A step adds at most one run to `Lost`, and then spends a
  crash or a docker error; `OwnRuns` (no two workers have the same run in hand)
  is what lets a step be charged to one run.
- `VerdictProofs`. `RowsStayTheirHandlers`: `RowIsItsHandlers` follows from
  exclusion, which leaves every other handler on another job, and from `Rowed`
  (a leased job has a row, so `create` cannot touch it); an expulsion breaks it,
  as `two_executions` shows. `VerdictsAreTrue` and `LivingStaySpared` rest on one
  invariant. `LeaseInv`: while nobody has stalled, a handler between `try_start`
  and `finish` whose heartbeat task renews finds its job alive, with its own
  token. `Labelled`: a container carries the id of the job its run was called
  with. `Sparing`: a cleaning that was told the job is dead removes a container
  no handler with a lease owns.
  `TruthInv`: while moreover docker has not failed, each place of a run knows
  what the program did so far, so what it returns is the program's verdict, and
  so is every final status. The three assume `MaxExpulsions = 0`: two handlers
  of one job, which an expulsion admits, could take a fresh lease from each
  other. Database errors, crashes, restarts, rebalances, panics and failed sends
  are unrestricted. `LivingAreSpared` speaks of a handler that holds its lease
  and whose heartbeat task still renews it: after a failed renewal the run is
  about to be cancelled, and anybody may clean up once its lease has run out.

Only model-checked: `NotLost` with expulsions (there it depends on which other
fault occurs), the verdicts of the sandbox with expulsions, the violations, and
everything temporal (`SentIsDecided`, `OwedIsPublished`): liveness under
fairness is out of the prover's reach.

## Not modelled

- Metrics: counters and a gauge the program never reads back; the gauge's guard
  restores it on every path by Drop.
- `db.rs`: not used. Routing, error bodies and configuration: layout.
- The string conversions of `models.rs`: one name per status in each of the
  three, so nothing can go wrong that a property could tell.
- The start of a process (connections, `ensure_topic_exists`): it either ends
  the process, which is a process that is not there, or changes nothing.
- A Drop of a Workspace whose removal fails (the `TempDir` inside tries once
  more), and the five attempts of `remove_workspace` one by one: they are one
  step that succeeds or fails.
- The pull of an image, apart from its failure, which is that of `create`.
- Distances in time other than those of `LeaseTiming`: the two time-outs of a
  run and the poll interval of the group are the steps "hangs" and `Expel`.
- That `SandboxSpec` implements `Spec` under a mapping: a docker error costs the
  sandbox a unit of its budget and is a mere verdict in `JudgeSystem`, so the
  two budgets do not correspond. What is proved of the judge is proved of the
  sandbox again (`SandboxProofs`), step by step.
