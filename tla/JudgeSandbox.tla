---------------------------- MODULE JudgeSandbox ----------------------------
(***************************************************************************)
(* The judge together with docker and the disk: the consumer of each       *)
(* worker cleans orphans before it polls, and runs a program between       *)
(* update_status(Running) and finish, step by step as DockerRunner has it, *)
(* while leases expire, other workers clean, and processes die.            *)
(***************************************************************************)
EXTENDS JudgeProperties, DockerRunner

\* run_rust may return any final status.
ASSUME OutcomesAssumption == Verdicts = Final

judgeVars   == <<storeVars, topicVars, consumerVars, recoveryVars, request>>
sandboxVars == <<judgeVars, dockerVars, faults>>

SandboxTypeOK == TypeOK /\ DockerTypeOK

SandboxInit == Init /\ DockerInit

-----------------------------------------------------------------------------
(* What the consumer and docker do together.                               *)

BeginRun(w) ==
  /\ MarkRunning(w) /\ CallRunRust(w)
  /\ UNCHANGED <<recoveryVars, request>>

\* The heartbeat task's cancel token is what with_container waits for.
CancelRun(w) ==
  /\ heartbeat[w] = "lost" /\ Cancel(w)
  /\ UNCHANGED judgeVars

Running(w) == at[w] \in RunSteps /\ RunStep(w, JobOf(w)) /\ UNCHANGED judgeVars

RunningFails(w) == at[w] \in RunSteps /\ RunFault(w, JobOf(w)) /\ UNCHANGED judgeVars

EndRun(w) ==
  /\ IF outcome[w] = "Cancelled" THEN RunCancelled(w) ELSE RunReturns(w, outcome[w])
  /\ Return(w)
  /\ UNCHANGED <<recoveryVars, request>>

Cleaning(w) == CleanStep(w) /\ UNCHANGED judgeVars

CleaningStumbles(w) == CleanFault(w) /\ UNCHANGED judgeVars

EndCleaning(w) ==
  /\ CleanOrphans(w) /\ CleaningDone(w)
  /\ UNCHANGED <<recoveryVars, request>>

\* run returns Err, or unwinds, before its loop.
BreakCleaning(w) ==
  /\ CleaningEnds(w) /\ ConsumerEnds(w)
  /\ UNCHANGED <<storeVars, detached, dlq, recoveryVars, request>>

\* A dead process drops no Workspace and removes no container.
CrashInRun(w) == Crash(w) /\ Abandon(w)

RestartCleaning(w) ==
  /\ Restart(w) /\ Step(w, "idle", "list")
  /\ UNCHANGED <<program, directory, container, run, outcome, sweep>>

-----------------------------------------------------------------------------
WorkerStep(w) ==
  \/ BeginRun(w) \/ Running(w) \/ CancelRun(w) \/ EndRun(w)
  \/ Cleaning(w) \/ EndCleaning(w)
  \/ HandlerStep(w) /\ UNCHANGED <<recoveryVars, request, dockerVars>>

WorkerFault(w) ==
  \/ RunningFails(w) \/ CleaningStumbles(w) \/ BreakCleaning(w)
  \/ HandlerFault(w) /\ UNCHANGED <<recoveryVars, request, dockerVars>>
  \/ CrashInRun(w) \/ RestartCleaning(w)

\* The rest of the judge knows nothing of docker.
Beside ==
  \/ HeartbeatNext /\ UNCHANGED <<recoveryVars, request>>
  \/ RecoveryNext  /\ UNCHANGED <<consumerVars, request>>
  \/ ApiNext       /\ UNCHANGED <<consumerVars, recoveryVars>>
  \/ GroupNext

SandboxNext ==
  \/ \E w \in Workers : WorkerStep(w) \/ WorkerFault(w)
  \/ Beside /\ UNCHANGED dockerVars

SandboxSpec == SandboxInit /\ [][SandboxNext]_sandboxVars

\* As in JudgeSystem; docker answers, and ends what timed out.
SandboxFairness ==
  /\ \A w \in Workers :
       /\ WF_sandboxVars(WorkerStep(w) \/ (BreakCleaning(w) /\ NoFault))
       /\ WF_sandboxVars((Beat(w) \/ BeatFindsLeaseLost(w))
                           /\ UNCHANGED <<recoveryVars, request, dockerVars>>)
       /\ WF_sandboxVars(Reap(w) /\ UNCHANGED <<consumerVars, request, dockerVars>>)
       /\ WF_sandboxVars(PublisherStep(w)
                           /\ UNCHANGED <<consumerVars, request, dockerVars>>)
  /\ \A p \in Partitions :
       WF_sandboxVars((\E w \in Workers : Join(w, p)) /\ UNCHANGED dockerVars)
  /\ \A j \in Jobs :
       /\ WF_sandboxVars(~Renewed(j) /\ LeaseAges(j)
                           /\ UNCHANGED <<recoveryVars, request, dockerVars>>)
       /\ WF_sandboxVars(SendMessage(j)
                           /\ UNCHANGED <<consumerVars, recoveryVars, dockerVars>>)

FairSandbox == SandboxSpec /\ SandboxFairness

-----------------------------------------------------------------------------
(* What the sandbox owes.                                                  *)

\* The verdict a program deserves.
Judgement(fate) ==
  CASE fate.compile = "zero" /\ fate.run = "zero"    -> "Success"
    [] fate.compile = "nonzero"                      -> "CompileError"
    [] fate.compile = "zero" /\ fate.run = "nonzero" -> "RuntimeError"
    [] fate.compile = "hangs" \/ (fate.compile = "zero" /\ fate.run = "hangs")
         -> "TimeLimitExceeded"
    [] fate.compile = "oom" \/ (fate.compile = "zero" /\ fate.run = "oom")
         -> "MemoryLimitExceeded"

Spent(kind) == faults[kind] < Budget[kind]

\* A decided job has the verdict its program deserves, whichever of its
\* executions has written it, unless docker has failed, or a worker that stalled
\* past its lease has had its container cleaned away (run_rust's order of checks;
\* clean_orphan_containers; finish under the token).
VerdictIsTrue ==
  \A j \in Jobs : Decided(j) =>
    \/ status[j] = Judgement(program[j])
    \/ Spent("docker") \/ Spent("stall")

\* A cleaning takes the container, or the directory, from a handler that holds
\* its lease and still renews it only when that handler stalled past the lease
\* before (clean_orphan_containers: the question comes before the removal).
LivingAreSpared ==
  [][\A w \in Workers :
       /\ at[w] \in RunSteps /\ run[w] # NULL
       /\ HoldsLease(JobOf(w), token[w]) /\ heartbeat[w] = "beating"
       /\ ~Spent("stall")
       /\ UNCHANGED <<at[w], run[w]>>
       => /\ Exists(run[w]) => Exists(run[w])'
          /\ run[w] \in directory => run[w] \in directory']_sandboxVars

Leftovers ==
  {x \in Runs : /\ Exists(x) \/ x \in directory
                /\ \A w \in Workers : ~(at[w] \in RunSteps /\ run[w] = x)}

\* Containers and directories that no worker runs in are one per death of a
\* process and per failure of docker at most: a run leaves none behind, whether
\* it ends by itself, by a time-out, by a cancellation or because its container
\* was cleaned away (with_container, Drop for Workspace).
LeaksAreFaults ==
  Cardinality(Leftovers)
    <= (MaxCrashes - faults["crash"]) + (MaxDockerErrors - faults["docker"])

-----------------------------------------------------------------------------
(* Claims that the code does not keep.                                     *)

\* runner.rs 431, unwrap(): the container about to be inspected is still there
\* when docker itself does not fail.  It need not be: its own run may remove it,
\* and its job be decided, after it was listed and before the question, whose
\* answer is false for a decided job.
OrphanIsThere ==
  \A w \in Workers : at[w] = "inspect" => Exists(run[w])

\* readme.md, "Workspace lifecycle management with automatic cleanup": what a
\* dead worker left behind is removed by a worker that starts afterwards.
OrphansAreRemoved ==
  \A x \in Runs :
    ((\E w \in Workers : at[w] = "list") /\ Exists(x) /\ \A w \in Workers : run[w] # x)
      ~> ~Exists(x)
=============================================================================
