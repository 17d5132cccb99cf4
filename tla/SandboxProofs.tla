---------------------------- MODULE SandboxProofs ----------------------------
(***************************************************************************)
(* The judge together with docker and the disk, for every number of jobs,  *)
(* workers, partitions, runs and faults: the variables keep their types,   *)
(* whatever is proved of the judge alone holds here too, and no more is    *)
(* left behind on disk and in docker than processes died and calls failed. *)
(***************************************************************************)
EXTENDS NotLostProofs, JudgeSandbox, FiniteSetTheorems

-----------------------------------------------------------------------------
(* Nested control states.  at says where within "run" and "clean" a worker *)
(* is, and so what it has in hand: a run, a leftover, an outcome.          *)

Named    == {"create", "start", "compile", "execute", "cleanup"}
Removing == {"inspect", "remove", "rmdir"}

Nested ==
  \A w \in Workers :
    /\ at[w] \in RunSteps <=> pc[w] = "run"
    /\ at[w] \in CleanSteps <=> pc[w] = "clean"
    /\ at[w] \in Named \cup Removing => run[w] \in Runs
    /\ at[w] \in {"workspace", "list", "ask", "idle"} => run[w] = NULL
    /\ at[w] \in {"cleanup", "return"} => outcome[w] # NULL

SandboxInv == TypeInv /\ DockerTypeOK /\ Nested

LEMMA SandboxInitially == SandboxInit => SandboxInv
<1> SUFFICES ASSUME SandboxInit PROVE SandboxInv
  OBVIOUS
<1>1. TypeInv
  BY InitTyped DEF SandboxInit
<1>2. DockerTypeOK
  BY DEF SandboxInit, DockerInit, DockerTypeOK, RunSteps, CleanSteps
<1>3. Nested
  BY DEF SandboxInit, DockerInit, Init, ConsumerInit, Nested, RunSteps, CleanSteps,
         Named, Removing
<1> QED
  BY <1>1, <1>2, <1>3 DEF SandboxInv

\* A step of one worker between two calls to docker: the judge does not move.
DockerStep(w) ==
  \/ Running(w) \/ CancelRun(w) \/ RunningFails(w) \/ Cleaning(w) \/ CleaningStumbles(w)

\* What run_rust makes of an exec is a final status.
LEMMA VerdictTyped ==
  ASSUME DockerTypeOK, NEW w \in Workers, NEW j \in Jobs,
         NEW phase \in {program[j].compile, program[j].run},
         NEW failure \in {"CompileError", "RuntimeError"}
  PROVE  VerdictOn(Ends(w, phase), failure) \in Final
<1>1. phase \in Ending
  BY ProgramsAssumption DEF DockerTypeOK, Fate
<1>2. Ends(w, phase) \in Ending
  BY <1>1 DEF Ends, Ending
<1> QED
  BY <1>2 DEF VerdictOn, Ending, Final

LEMMA RunStepNests ==
  ASSUME SandboxInv, NEW w \in Workers,
         Running(w) \/ RunningFails(w) \/ CancelRun(w)
  PROVE  DockerTypeOK' /\ Nested' /\ Spends
<1> USE ProgramsAssumption, RunsAssumption, NullAssumption, NobodyAssumption, Kinds
<1> USE DEF SandboxInv, DockerTypeOK, Nested, RunSteps, CleanSteps, Named, Removing, Step,
            judgeVars, consumerVars, Spends, NoFault, CallFails, ReturnsError, Final
<1>1. at[w] \in RunSteps => JobOf(w) \in Jobs
  BY DEF TypeInv, InHand, AtWork
<1>2. ASSUME NEW x \in Runs, NewWorkspace(w, x), UNCHANGED judgeVars
      PROVE  DockerTypeOK' /\ Nested' /\ Spends
  BY <1>2 DEF NewWorkspace
<1>3. ASSUME WorkspaceFails(w), UNCHANGED judgeVars
      PROVE  DockerTypeOK' /\ Nested' /\ Spends
  BY <1>3 DEF WorkspaceFails
<1>4. ASSUME CreateContainer(w, JobOf(w)), UNCHANGED judgeVars
      PROVE  DockerTypeOK' /\ Nested' /\ Spends
  BY <1>1, <1>4 DEF CreateContainer
<1>5. ASSUME ContainerNotCreated(w, JobOf(w)), UNCHANGED judgeVars
      PROVE  DockerTypeOK' /\ Nested' /\ Spends
  BY <1>1, <1>5 DEF ContainerNotCreated
<1>6. ASSUME StartContainer(w) \/ ContainerNotStarted(w), UNCHANGED judgeVars
      PROVE  DockerTypeOK' /\ Nested' /\ Spends
  BY <1>6 DEF StartContainer, ContainerNotStarted
<1>7. ASSUME Compile(w, JobOf(w)), UNCHANGED judgeVars
      PROVE  DockerTypeOK' /\ Nested' /\ Spends
  <2>1. VerdictOn(Ends(w, program[JobOf(w)].compile), "CompileError") \in Final
    BY <1>1, <1>7, VerdictTyped DEF Compile
  <2> QED
    BY <1>7, <2>1 DEF Compile
<1>8. ASSUME Execute(w, JobOf(w)), UNCHANGED judgeVars
      PROVE  DockerTypeOK' /\ Nested' /\ Spends
  <2>1. VerdictOn(Ends(w, program[JobOf(w)].run), "RuntimeError") \in Final
    BY <1>1, <1>8, VerdictTyped DEF Execute
  <2> QED
    BY <1>8, <2>1 DEF Execute
<1>9. ASSUME NEW from \in {"compile", "execute"}, ExecFails(w, from), UNCHANGED judgeVars
      PROVE  DockerTypeOK' /\ Nested' /\ Spends
  BY <1>9 DEF ExecFails
<1>10. ASSUME Cancel(w), UNCHANGED judgeVars
       PROVE  DockerTypeOK' /\ Nested' /\ Spends
  BY <1>10, OutcomeAssumption DEF Cancel
<1>11. ASSUME CleanUp(w) \/ CleanUpFails(w), UNCHANGED judgeVars
       PROVE  DockerTypeOK' /\ Nested' /\ Spends
  BY <1>11 DEF CleanUp, CleanUpFails
<1> QED
  BY <1>2, <1>3, <1>4, <1>5, <1>6, <1>7, <1>8, <1>9, <1>10, <1>11
     DEF Running, RunningFails, CancelRun, RunStep, RunFault

LEMMA CleanStepNests ==
  ASSUME SandboxInv, NEW w \in Workers, Cleaning(w) \/ CleaningStumbles(w)
  PROVE  DockerTypeOK' /\ Nested' /\ Spends
<1> USE RunsAssumption, Kinds
<1> USE DEF SandboxInv, DockerTypeOK, Nested, RunSteps, CleanSteps, Named, Removing, Step,
            judgeVars, consumerVars, Spends, NoFault, CallFails
<1>1. ASSUME ListContainers(w), UNCHANGED judgeVars
      PROVE  DockerTypeOK' /\ Nested' /\ Spends
  <2>1. {<<x, container[x]>> : x \in {y \in Runs : Exists(y)}} \in SUBSET (Runs \X Jobs)
    BY DEF Exists
  <2> QED
    BY <1>1, <2>1 DEF ListContainers
<1>2. ASSUME NEW x \in Runs, NEW j \in Jobs, AskAlive(w, x, j), UNCHANGED judgeVars
      PROVE  DockerTypeOK' /\ Nested' /\ Spends
  <2>1. CASE ExecutionAlive(j)
    BY <1>2, <2>1 DEF AskAlive
  <2>2. CASE ~ExecutionAlive(j)
    BY <1>2, <2>2 DEF AskAlive
  <2> QED
    BY <2>1, <2>2
<1>3. ASSUME InspectOrphan(w), UNCHANGED judgeVars
      PROVE  DockerTypeOK' /\ Nested' /\ Spends
  BY <1>3 DEF InspectOrphan
<1>4. ASSUME RemoveOrphan(w) \/ RemoveOrphanFails(w), UNCHANGED judgeVars
      PROVE  DockerTypeOK' /\ Nested' /\ Spends
  BY <1>4 DEF RemoveOrphan, RemoveOrphanFails
<1>5. ASSUME RemoveWorkspace(w) \/ RemoveWorkspaceFails(w), UNCHANGED judgeVars
      PROVE  DockerTypeOK' /\ Nested' /\ Spends
  BY <1>5 DEF RemoveWorkspace, RemoveWorkspaceFails
<1> QED
  BY <1>1, <1>2, <1>3, <1>4, <1>5 DEF Cleaning, CleaningStumbles, CleanStep, CleanFault

\* Where w enters or leaves "run" or "clean", at[w] goes along.
LEMMA TurnNests ==
  ASSUME SandboxInv, NEW w \in Workers,
         \/ BeginRun(w) \/ EndRun(w) \/ EndCleaning(w) \/ BreakCleaning(w)
         \/ CrashInRun(w) \/ RestartCleaning(w)
  PROVE  DockerTypeOK' /\ Nested'
<1> USE RunsAssumption
<1> USE DEF SandboxInv, DockerTypeOK, Nested, RunSteps, CleanSteps, Named, Removing, Step,
            Goto
<1>pc. pc \in [Workers -> PC]
  BY DEF TypeInv, TypeOK, ConsumerTypeOK
<1>1. ASSUME BeginRun(w) PROVE DockerTypeOK' /\ Nested'
  BY <1>pc, <1>1 DEF BeginRun, MarkRunning, CallRunRust
<1>2. ASSUME EndRun(w) PROVE DockerTypeOK' /\ Nested'
  <2>1. \E to \in {"poll", "finish"} : pc' = [pc EXCEPT ![w] = to]
    BY <1>2 DEF EndRun, RunReturns, RunCancelled, ReturnRetryable
  <2> QED
    BY <1>pc, <1>2, <2>1 DEF EndRun, Return
<1>3. ASSUME EndCleaning(w) PROVE DockerTypeOK' /\ Nested'
  BY <1>pc, <1>3 DEF EndCleaning, CleanOrphans, CleaningDone
<1>4. ASSUME BreakCleaning(w) \/ CrashInRun(w) PROVE DockerTypeOK' /\ Nested'
  <2>1. \E to \in {"dead", "down"} : pc' = [pc EXCEPT ![w] = to]
    BY <1>4 DEF BreakCleaning, ConsumerEnds, CrashInRun, Crash
  <2>2. Abandon(w)
    BY <1>4 DEF BreakCleaning, CleaningEnds, CrashInRun
  <2> QED
    BY <1>pc, <2>1, <2>2 DEF Abandon
<1>5. ASSUME RestartCleaning(w) PROVE DockerTypeOK' /\ Nested'
  BY <1>pc, <1>5 DEF RestartCleaning, Restart
<1> QED
  BY <1>1, <1>2, <1>3, <1>4, <1>5

\* Elsewhere the judge moves and docker does not.
LEMMA SideStepNests ==
  ASSUME SandboxInv, UNCHANGED dockerVars,
         \/ \E w \in Workers : HandlerStep(w) \/ HandlerFault(w)
         \/ Beside \/ UNCHANGED sandboxVars
  PROVE  DockerTypeOK' /\ Nested'
<1>pc. pc \in [Workers -> PC]
  BY DEF SandboxInv, TypeInv, TypeOK, ConsumerTypeOK
<1>1. DockerTypeOK'
  BY DEF SandboxInv, DockerTypeOK, dockerVars
<1>2. \/ UNCHANGED pc
      \/ \E w \in Workers, to \in PC \ {"run", "clean"} :
           pc[w] \notin {"run", "clean"} /\ Goto(w, to)
  <2>1. ASSUME NEW w \in Workers, NEW p \in Partitions, Receive(w, p)
        PROVE  pc[w] \notin {"run", "clean"} /\ \E to \in {"dlq", "requeue"} : Goto(w, to)
    BY <2>1 DEF Receive
  <2>2. ASSUME NEW w \in Workers,
               \/ Requeue(w) \/ StartRefused(w) \/ FinishJob(w) \/ FinishRefused(w)
               \/ Commit(w) \/ SendToDlq(w) \/ DlqFails(w)
               \/ \E t \in Tokens : Start(w, t)
        PROVE  /\ pc[w] \notin {"run", "clean"}
               /\ \E to \in {"start", "mark", "commit", "poll", "dead"} : Goto(w, to)
    BY <2>2 DEF Requeue, StartRefused, FinishJob, FinishRefused, Commit, SendToDlq,
                DlqFails, Start, ReturnRetryable, ConsumerEnds
  <2>3. ASSUME NEW w \in Workers,
               \/ RequeueFails(w) \/ LatencyPanics(w) \/ MarkFails(w) \/ FinishFails(w)
               \/ CommitFails(w) \/ \E t \in Tokens : StartFails(w, t)
        PROVE  /\ pc[w] \notin {"run", "clean"}
               /\ \E to \in {"poll", "dead"} : Goto(w, to)
    BY <2>3 DEF RequeueFails, LatencyPanics, MarkFails, FinishFails, CommitFails,
                StartFails, ReturnRetryable, ConsumerEnds
  <2>4. ASSUME \/ Beside \/ UNCHANGED sandboxVars
               \/ \E w \in Workers : BeatFails(w)
        PROVE  UNCHANGED pc
    BY <2>4 DEF Beside, HeartbeatNext, Beat, BeatFindsLeaseLost, BeatFails, DetachedBeat,
                DetachedEnds, LeaseAges, GroupNext, Expel, Join, Rebalance,
                ForeignRecord, consumerVars, sandboxVars, judgeVars
  <2> QED
    BY <2>1, <2>2, <2>3, <2>4 DEF HandlerStep, HandlerFault, PC, Handling
<1>3. Nested'
  BY <1>pc, <1>2 DEF SandboxInv, Nested, Goto, dockerVars
<1> QED
  BY <1>1, <1>3

-----------------------------------------------------------------------------
(* To the judge, a step of the sandbox is one of its own steps, or docker  *)
(* fails, or a cleaning breaks off.  The last two are no steps of Next: a  *)
(* fault is spent while the judge stands still, and an unwrap() of None    *)
(* ends the consumer though no fault has been spent.                       *)

BreaksOff(w) ==
  /\ pc[w] = "clean" /\ Spends
  /\ ConsumerEnds(w)
  /\ UNCHANGED <<storeVars, detached, dlq, recoveryVars, request>>

Beyond ==
  \/ UNCHANGED judgeVars /\ Spends
  \/ \E w \in Workers : BreaksOff(w)

LEMMA StepOfJudge ==
  ASSUME SandboxInv, [SandboxNext]_sandboxVars
  PROVE  [Next]_vars \/ Beyond
<1>1. ASSUME NEW w \in Workers, BeginRun(w) PROVE Next
  BY <1>1 DEF BeginRun, Next, ConsumerNext, ConsumerStep
<1>2. ASSUME NEW w \in Workers, EndRun(w) PROVE Next
  <2>1. CASE outcome[w] = "Cancelled"
    BY <1>2, <2>1 DEF EndRun, Next, ConsumerNext, ConsumerStep
  <2>2. CASE outcome[w] # "Cancelled"
    <3>1. at[w] = "return" /\ RunReturns(w, outcome[w]) /\ UNCHANGED <<recoveryVars, request>>
      BY <1>2, <2>2 DEF EndRun, Return, Step
    <3>2. outcome[w] \in Verdicts
      BY <2>2, <3>1, OutcomesAssumption DEF SandboxInv, DockerTypeOK, Nested
    <3> QED
      BY <3>1, <3>2 DEF Next, ConsumerNext
  <2> QED
    BY <2>1, <2>2
<1>3. ASSUME NEW w \in Workers, EndCleaning(w) PROVE Next
  BY <1>3 DEF EndCleaning, Next, ConsumerNext, ConsumerStep
<1>4. ASSUME NEW w \in Workers, DockerStep(w) PROVE Beyond
  <2>1. UNCHANGED judgeVars
    BY <1>4 DEF DockerStep, Running, RunningFails, CancelRun, Cleaning, CleaningStumbles
  <2>2. Spends
    BY <1>4, RunStepNests, CleanStepNests DEF DockerStep
  <2> QED
    BY <2>1, <2>2 DEF Beyond
<1>5. ASSUME NEW w \in Workers, BreakCleaning(w) PROVE Beyond
  <2>1. pc[w] = "clean"
    BY <1>5 DEF BreakCleaning, CleaningEnds, SandboxInv, Nested, CleanSteps
  <2>2. Spends
    BY <1>5, Kinds DEF BreakCleaning, CleaningEnds, CallFails, Spends, NoFault
  <2> QED
    BY <1>5, <2>1, <2>2 DEF BreakCleaning, BreaksOff, Beyond
<1>6. ASSUME NEW w \in Workers, CrashInRun(w) \/ RestartCleaning(w) PROVE Next
  BY <1>6 DEF CrashInRun, RestartCleaning, Next, ProcessNext
<1>7. ASSUME NEW w \in Workers, HandlerStep(w) \/ HandlerFault(w),
             UNCHANGED <<recoveryVars, request>>
      PROVE  Next
  BY <1>7 DEF Next, ConsumerNext, ConsumerStep
<1>8. ASSUME Beside PROVE Next
  BY <1>8 DEF Beside, Next, ConsumerNext
<1>9. CASE UNCHANGED sandboxVars
  BY <1>9 DEF sandboxVars, judgeVars, vars
<1> QED
  BY <1>1, <1>2, <1>3, <1>4, <1>5, <1>6, <1>7, <1>8, <1>9
     DEF SandboxNext, WorkerStep, WorkerFault, DockerStep

\* Both leave types and hands in order.
LEMMA BeyondTyped == TypeInv /\ Beyond => TypeInv'
<1> SUFFICES ASSUME TypeInv, Beyond PROVE TypeInv'
  OBVIOUS
<1> USE FaultTyped
<1> USE DEF TypeInv, InHand, TypeOK, AtWork, Leased, JobOf, StoreTypeOK, TopicTypeOK,
            ConsumerTypeOK, RecoveryTypeOK, ApiTypeOK, judgeVars, storeVars, topicVars,
            consumerVars, recoveryVars, Handling, PC
<1>1. CASE UNCHANGED judgeVars /\ Spends
  BY <1>1
<1>2. ASSUME NEW w \in Workers, BreaksOff(w) PROVE TypeInv'
  <2>1. /\ pc' = [pc EXCEPT ![w] = "dead"] /\ Forget(w) /\ LeaveGroup(w) /\ Spends
        /\ UNCHANGED <<storeVars, detached, dlq, recoveryVars, request>>
    BY <1>2 DEF BreaksOff, ConsumerEnds, Goto
  <2>2. TopicTypeOK'
    BY <2>1 DEF LeaveGroup, Unassign
  <2>3. ConsumerTypeOK' /\ InHand'
    BY <2>1 DEF Forget
  <2> QED
    BY <2>1, <2>2, <2>3
<1> QED
  BY <1>1, <1>2 DEF Beyond

LEMMA SandboxStepInv == SandboxInv /\ [SandboxNext]_sandboxVars => SandboxInv'
<1> SUFFICES ASSUME SandboxInv, [SandboxNext]_sandboxVars PROVE SandboxInv'
  OBVIOUS
<1>1. TypeInv'
  BY StepOfJudge, StepInv, BeyondTyped DEF SandboxInv
<1>2. DockerTypeOK' /\ Nested'
  BY RunStepNests, CleanStepNests, TurnNests, SideStepNests
     DEF SandboxNext, WorkerStep, WorkerFault, sandboxVars
<1> QED
  BY <1>1, <1>2 DEF SandboxInv

\* Every variable of the judge, of docker and of the disk keeps its type: what
\* a run or a cleaning has in hand is what its next call needs.
THEOREM SandboxTypeCorrect == SandboxSpec => []SandboxTypeOK
<1>1. SandboxInv => SandboxTypeOK
  BY DEF SandboxInv, TypeInv, SandboxTypeOK
<1> QED
  BY <1>1, SandboxInitially, SandboxStepInv, PTL DEF SandboxSpec

-----------------------------------------------------------------------------
(* What is proved of the judge holds in the sandbox: each of its           *)
(* invariants survives the steps beyond Next.                              *)

LEMMA BeyondIsNoStatement == Beyond => UNCHANGED storeVars
BY DEF Beyond, BreaksOff, judgeVars

\* Tables used with docker are the tables of job.rs used by its callers.
THEOREM SandboxUsesStore == SandboxSpec => StoreSpec
<1>1. SandboxInit => StoreInit
  BY DEF SandboxInit, Init
<1>2. SandboxInv /\ [SandboxNext]_sandboxVars => [StoreNext]_storeVars
  BY StepOfJudge, StepIsStatement, BeyondIsNoStatement DEF SandboxInv
<1> QED
  BY <1>1, <1>2, SandboxInitially, SandboxStepInv, PTL DEF SandboxSpec, StoreSpec

\* Rows are consistent, and verdicts spend leases, also when it is docker that
\* decides what a run returns (job.rs under kafka.rs and docker/).
THEOREM SandboxKeepsLease == SandboxSpec => []StoreInv /\ LeaseKept
BY SandboxUsesStore, StoreConsistent, StoreKeepsLease

\* A cleaning that breaks off, or a failing docker, touches nobody's lease: no
\* handler can renew, or close, a lease granted to another (try_start's fresh
\* token, and the WHERE clauses of heartbeat and finish, under run_rust and
\* clean_orphan_containers).
THEOREM SandboxLeasesArePersonal == SandboxSpec => []LeaseIsPersonal
<1>1. SandboxInit => LeaseIsPersonal
  BY DEF SandboxInit, Init, ConsumerInit, LeaseIsPersonal
<1>2. ASSUME TypeInv, LeaseIsPersonal, Beyond PROVE LeaseIsPersonal'
  <2>1. CASE UNCHANGED judgeVars
    BY <1>2, <2>1 DEF judgeVars, storeVars, consumerVars, LeaseIsPersonal, JobOf
  <2>2. ASSUME NEW w \in Workers, BreaksOff(w) PROVE LeaseIsPersonal'
    BY <1>2, <2>2, ForgetIsPersonal DEF BreaksOff, ConsumerEnds, storeVars
  <2> QED
    BY <1>2, <2>1, <2>2 DEF Beyond
<1>3. SandboxInv /\ LeaseIsPersonal /\ [SandboxNext]_sandboxVars => LeaseIsPersonal'
  BY <1>2, StepOfJudge, StepIsPersonal DEF SandboxInv
<1> QED
  BY <1>1, <1>3, SandboxInitially, SandboxStepInv, PTL DEF SandboxSpec

LEMMA BeyondExclusive == TypeInv /\ Exclusion /\ Beyond => Exclusion'
<1> SUFFICES ASSUME TypeInv, Exclusion, Beyond PROVE Exclusion'
  OBVIOUS
<1>typed. /\ TopicTypeOK /\ FaultsTypeOK /\ InHand
          /\ pc \in [Workers -> PC] /\ msg \in [Workers -> Message \cup {NULL}]
  BY DEF TypeInv, TypeOK, ConsumerTypeOK
<1> USE <1>typed, BudgetOnlyShrinks
<1> USE DEF Exclusion, Keyed, Owned, OnItsPartition, InHand, TopicTypeOK, judgeVars,
            topicVars, consumerVars, Handling, Message, JobOf
<1>1. CASE UNCHANGED judgeVars /\ Spends
  BY <1>1
<1>2. ASSUME NEW w \in Workers, BreaksOff(w) PROVE Exclusion'
  BY <1>2 DEF BreaksOff, ConsumerEnds, Goto, Forget, LeaveGroup, Unassign
<1> QED
  BY <1>1, <1>2 DEF Beyond

\* Whatever docker and the cleanings do, no two workers execute one job as long
\* as no member is expelled (handle_message with run_rust and
\* clean_orphan_containers).
THEOREM SandboxExecutionsExclude ==
  ASSUME MaxExpulsions = 0
  PROVE  SandboxSpec => []OneExecution
<1>1. SandboxInit => Exclusion
  BY DEF SandboxInit, Init, FaultsInit, Budget, TopicInit, ConsumerInit, Exclusion,
         NoExpulsion, Keyed, Owned, OnItsPartition, Handling
<1>2. SandboxInv /\ Exclusion => OneExecution
  BY DEF SandboxInv, TypeInv, InHand, AtWork, Exclusion, Owned, OnItsPartition,
         OneExecution, Executing, Handling
<1>3. SandboxInv /\ Exclusion /\ [SandboxNext]_sandboxVars => Exclusion'
  BY StepOfJudge, StepExclusive, BeyondExclusive DEF SandboxInv
<1> QED
  BY <1>1, <1>2, <1>3, SandboxInitially, SandboxStepInv, PTL DEF SandboxSpec

LEMMA BeyondInGroup == TypeInv /\ GroupInv /\ Beyond => GroupInv'
<1> SUFFICES ASSUME TypeInv, GroupInv, Beyond PROVE GroupInv'
  OBVIOUS
<1>typed. /\ TopicTypeOK /\ InHand
          /\ pc \in [Workers -> PC] /\ msg \in [Workers -> Message \cup {NULL}]
  BY DEF TypeInv, TypeOK, ConsumerTypeOK
<1> USE <1>typed, NobodyAssumption
<1> USE DEF GroupInv, OffsetsInOrder, MessagesAreRecords, TopicTypeOK, InHand, Handling,
            Message
<1>1. CASE UNCHANGED judgeVars
  BY <1>1 DEF judgeVars, topicVars, consumerVars
<1>2. ASSUME NEW w \in Workers, BreaksOff(w) PROVE GroupInv'
  BY <1>2 DEF BreaksOff, ConsumerEnds, Goto, Forget, LeaveGroup, Unassign
<1> QED
  BY <1>1, <1>2 DEF Beyond

\* A cleaning that breaks off takes no job with it: its worker had none.
LEMMA BeyondHolds == TypeInv /\ Holding /\ Beyond => Holding'
<1> SUFFICES ASSUME TypeInv, Holding, Beyond PROVE Holding'
  OBVIOUS
<1> USE DEF Holding, Quiet
<1>typed. /\ TopicTypeOK /\ FaultsTypeOK /\ OffsetsInOrder
          /\ pc \in [Workers -> PC] /\ msg \in [Workers -> Message \cup {NULL}]
  BY DEF TypeInv, TypeOK, ConsumerTypeOK, GroupInv
<1>1. Exclusion' /\ GroupInv'
  BY BeyondExclusive, BeyondInGroup
<1>2. NoDbError'
  <2>1. Spends
    BY DEF Beyond, BreaksOff
  <2>2. ASSUME NEW kind \in FaultKinds, Fault(kind) PROVE NoDbError'
    BY <1>typed, <2>2, Kinds DEF FaultsTypeOK, NoDbError, Fault
  <2> QED
    BY <2>1, <2>2 DEF Spends, NoDbError
<1>3. UNCHANGED <<storeVars, recoveryVars, request, log>>
  BY DEF Beyond, BreaksOff, ConsumerEnds, LeaveGroup, Unassign, judgeVars, topicVars
<1>4. StoreInv' /\ RowsAreDealt'
  BY <1>3 DEF storeVars, recoveryVars, StoreInv, UnbeatenIsUnlocked, DecidedIsUnlocked,
              TokensAreDistinct, OutboxIsSound, RowsAreDealt
<1>5. \A w \in Workers :
        \/ pc'[w] = pc[w] /\ msg'[w] = msg[w]
        \/ pc[w] = "clean" /\ pc'[w] = "dead"
  <2>1. CASE UNCHANGED judgeVars
    BY <2>1 DEF judgeVars, consumerVars
  <2>2. ASSUME NEW x \in Workers, BreaksOff(x)
        PROVE  \A w \in Workers :
                 \/ pc'[w] = pc[w] /\ msg'[w] = msg[w]
                 \/ pc[w] = "clean" /\ pc'[w] = "dead"
    BY <1>typed, <2>2 DEF BreaksOff, ConsumerEnds, Goto, Forget
  <2> QED
    BY <2>1, <2>2 DEF Beyond
<1>6. Underway'
  BY <1>3, <1>5 DEF Underway, JobOf, storeVars
<1>7. \A p \in Partitions : position'[p] <= position[p]
  <2>1. CASE UNCHANGED judgeVars
    BY <1>typed, <2>1 DEF judgeVars, topicVars, TopicTypeOK
  <2>2. ASSUME NEW x \in Workers, BreaksOff(x)
        PROVE  \A p \in Partitions : position'[p] <= position[p]
    BY <1>typed, <2>2 DEF BreaksOff, ConsumerEnds, LeaveGroup, Unassign, TopicTypeOK,
                          OffsetsInOrder
  <2> QED
    BY <2>1, <2>2 DEF Beyond
<1>8. AnsweredIsHeld'
  <2> SUFFICES ASSUME NEW j \in Jobs, Held(j) PROVE Held(j)'
    BY <1>3 DEF AnsweredIsHeld
  <2>1. CASE Decided(j) \/ Reapable(j) \/ Unsent(j)
    BY <1>3, <2>1 DEF Held, Decided, Reapable, Unsent, storeVars, recoveryVars
  <2>2. CASE Pending(j)
    <3>1. TopicTypeOK'
      BY BeyondTyped DEF TypeInv, TypeOK
    <3> QED
      BY <1>typed, <1>3, <1>7, <2>2, <3>1 DEF Held, Pending, TopicTypeOK
  <2>3. CASE Beginning(j)
    BY <1>5, <2>3 DEF Held, Beginning, JobOf
  <2> QED
    BY <2>1, <2>2, <2>3 DEF Held
<1> QED
  BY <1>1, <1>2, <1>4, <1>6, <1>8

\* No job is lost while containers fail, are removed or left behind, as long as
\* no member is expelled and no statement fails (run_handle, handle_message,
\* run_rust and clean_orphan_containers, Reaper::run, publish_once).
THEOREM SandboxJobsAreNotLost ==
  ASSUME MaxExpulsions = 0, MaxDbErrors = 0
  PROVE  SandboxSpec => []NotLost
<1>1. SandboxInit => Holding
  BY HoldingInitially DEF SandboxInit
<1>2. SandboxInv /\ Holding => NotLost
  BY HoldingIsNotLost DEF SandboxInv
<1>3. SandboxInv /\ Holding /\ [SandboxNext]_sandboxVars => Holding'
  BY StepOfJudge, StepHolds, BeyondHolds DEF SandboxInv
<1> QED
  BY <1>1, <1>2, <1>3, SandboxInitially, SandboxStepInv, PTL DEF SandboxSpec

-----------------------------------------------------------------------------
(* Leaks.  Leftovers alone do not add up: a container that is not removed  *)
(* becomes a leftover only when its run returns, a step after the fault.   *)
(* Until then it is doomed.                                                *)

Doomed == {x \in Runs : Exists(x) /\ \E w \in Workers : at[w] = "return" /\ run[w] = x}

Lost == Leftovers \cup Doomed

\* No two workers are in one run.
OwnRuns ==
  \A w, v \in Workers :
    /\ at[w] \in RunSteps /\ at[v] \in RunSteps
    /\ run[w] = run[v] /\ run[w] # NULL
    => w = v

LeakInv ==
  /\ OwnRuns
  /\ IsFiniteSet(Lost)
  /\ Cardinality(Lost)
       <= (MaxCrashes - faults["crash"]) + (MaxDockerErrors - faults["docker"])

\* What a step may do to what is lost.
LosesNothing == Lost' \subseteq Lost
LosesOne(kind) == Fault(kind) /\ \E x : Lost' \subseteq Lost \cup {x}

Frugal == LosesNothing \/ LosesOne("crash") \/ LosesOne("docker")

LEMMA RunStepIsFrugal ==
  ASSUME SandboxInv, OwnRuns, NEW w \in Workers,
         Running(w) \/ RunningFails(w) \/ CancelRun(w)
  PROVE  OwnRuns' /\ Frugal
<1> USE RunsAssumption, NullAssumption
<1> USE DEF SandboxInv, DockerTypeOK, Nested, OwnRuns, RunSteps, Named, Step, CallFails,
            ReturnsError, Lost, Leftovers, Doomed, Exists, Frugal, LosesNothing, LosesOne
<1>1. ASSUME NEW x \in Runs, NewWorkspace(w, x) PROVE OwnRuns' /\ LosesNothing
  BY <1>1 DEF NewWorkspace, Unused
<1>2. ASSUME WorkspaceFails(w) PROVE OwnRuns' /\ LosesNothing
  BY <1>2 DEF WorkspaceFails
<1>3. ASSUME CreateContainer(w, JobOf(w)) PROVE OwnRuns' /\ LosesNothing
  BY <1>3 DEF CreateContainer
<1>4. ASSUME ContainerNotCreated(w, JobOf(w)) PROVE OwnRuns' /\ LosesOne("docker")
  <2>1. Lost' \subseteq Lost \cup {run[w]}
    BY <1>4 DEF ContainerNotCreated
  <2>2. OwnRuns'
    BY <1>4 DEF ContainerNotCreated
  <2>3. Fault("docker")
    BY <1>4 DEF ContainerNotCreated
  <2> HIDE DEF Lost, OwnRuns
  <2> QED
    BY <2>1, <2>2, <2>3
<1>5. ASSUME StartContainer(w) PROVE OwnRuns' /\ LosesNothing
  BY <1>5 DEF StartContainer
<1>6. ASSUME ContainerNotStarted(w) PROVE OwnRuns' /\ Frugal
  <2>1. CASE Exists(run[w])
    <3>1. Lost' \subseteq Lost \cup {run[w]}
      BY <1>6, <2>1 DEF ContainerNotStarted
    <3> QED
      BY <1>6, <2>1, <3>1 DEF ContainerNotStarted
  <2>2. CASE ~Exists(run[w])
    BY <1>6, <2>2 DEF ContainerNotStarted
  <2> QED
    BY <2>1, <2>2
<1>7. ASSUME Compile(w, JobOf(w)) PROVE OwnRuns' /\ LosesNothing
  <2>1. /\ at[w] = "compile" /\ UNCHANGED <<directory, container, run>>
        /\ \E to \in {"execute", "cleanup"} : at' = [at EXCEPT ![w] = to]
    BY <1>7 DEF Compile
  <2> QED
    BY <2>1
<1>8. ASSUME Execute(w, JobOf(w)) \/ Cancel(w) PROVE OwnRuns' /\ LosesNothing
  <2>1. /\ at[w] \in {"compile", "execute"} /\ at' = [at EXCEPT ![w] = "cleanup"]
        /\ UNCHANGED <<directory, container, run>>
    BY <1>8 DEF Execute, Cancel
  <2> QED
    BY <2>1
<1>9. ASSUME NEW from \in {"compile", "execute"}, ExecFails(w, from)
      PROVE  OwnRuns' /\ LosesNothing
  <2>1. /\ at[w] = from /\ at' = [at EXCEPT ![w] = "cleanup"]
        /\ UNCHANGED <<directory, container, run>>
    BY <1>9 DEF ExecFails
  <2> QED
    BY <2>1
<1>10. ASSUME CleanUp(w) PROVE OwnRuns' /\ LosesNothing
  BY <1>10 DEF CleanUp
<1>11. ASSUME CleanUpFails(w) PROVE OwnRuns' /\ LosesOne("docker")
  <2>1. Lost' \subseteq Lost \cup {run[w]}
    BY <1>11 DEF CleanUpFails
  <2>2. OwnRuns'
    BY <1>11 DEF CleanUpFails
  <2>3. Fault("docker")
    BY <1>11 DEF CleanUpFails
  <2> HIDE DEF Lost, OwnRuns
  <2> QED
    BY <2>1, <2>2, <2>3
<1> HIDE DEF LosesNothing, LosesOne, OwnRuns
<1> QED
  BY <1>1, <1>2, <1>3, <1>4, <1>5, <1>6, <1>7, <1>8, <1>9, <1>10, <1>11
     DEF Running, RunningFails, CancelRun, RunStep, RunFault

\* A cleaning only removes.
LEMMA CleanStepIsFrugal ==
  ASSUME SandboxInv, OwnRuns, NEW w \in Workers, Cleaning(w) \/ CleaningStumbles(w)
  PROVE  OwnRuns' /\ Frugal
<1> USE RunsAssumption
<1> USE DEF SandboxInv, DockerTypeOK, Nested, OwnRuns, RunSteps, CleanSteps, Removing, Step,
            Lost, Leftovers, Doomed, Exists, Frugal, LosesNothing
<1>1. ASSUME ListContainers(w) \/ InspectOrphan(w) PROVE OwnRuns' /\ LosesNothing
  <2>1. /\ at[w] \in CleanSteps /\ UNCHANGED <<directory, container, run>>
        /\ \E to \in CleanSteps : at' = [at EXCEPT ![w] = to]
    BY <1>1 DEF ListContainers, InspectOrphan
  <2> QED
    BY <2>1
<1>2. ASSUME NEW x \in Runs, NEW j \in Jobs, AskAlive(w, x, j)
      PROVE  OwnRuns' /\ LosesNothing
  <2>1. at[w] = "ask" /\ UNCHANGED <<directory, container>>
    BY <1>2 DEF AskAlive
  <2>2. \/ UNCHANGED <<at, run>>
        \/ at' = [at EXCEPT ![w] = "inspect"] /\ run' = [run EXCEPT ![w] = x]
    BY <1>2 DEF AskAlive
  <2> QED
    BY <2>1, <2>2
<1>3. ASSUME RemoveOrphan(w) \/ RemoveOrphanFails(w) PROVE OwnRuns' /\ LosesNothing
  <2>1. /\ at[w] = "remove" /\ at' = [at EXCEPT ![w] = "rmdir"]
        /\ UNCHANGED <<directory, run>>
        /\ container' \in {container, [container EXCEPT ![run[w]] = NULL]}
    BY <1>3 DEF RemoveOrphan, RemoveOrphanFails
  <2> QED
    BY <2>1
<1>4. ASSUME RemoveWorkspace(w) \/ RemoveWorkspaceFails(w) PROVE OwnRuns' /\ LosesNothing
  <2>1. /\ at[w] = "rmdir" /\ at' = [at EXCEPT ![w] = "ask"]
        /\ run' = [run EXCEPT ![w] = NULL]
        /\ UNCHANGED container /\ directory' \subseteq directory
    BY <1>4 DEF RemoveWorkspace, RemoveWorkspaceFails
  <2> QED
    BY <2>1
<1> HIDE DEF LosesNothing, OwnRuns
<1> QED
  BY <1>1, <1>2, <1>3, <1>4 DEF Cleaning, CleaningStumbles, CleanStep, CleanFault

\* A run that returns leaves what was doomed, a process that dies its run.
LEMMA TurnIsFrugal ==
  ASSUME SandboxInv, OwnRuns, NEW w \in Workers,
         \/ BeginRun(w) \/ EndRun(w) \/ EndCleaning(w) \/ BreakCleaning(w)
         \/ CrashInRun(w) \/ RestartCleaning(w)
  PROVE  OwnRuns' /\ Frugal
<1> USE RunsAssumption
<1> USE DEF SandboxInv, DockerTypeOK, Nested, OwnRuns, RunSteps, CleanSteps, Step, Lost,
            Leftovers, Doomed, Exists, Frugal, LosesNothing, LosesOne
<1>1. ASSUME BeginRun(w) PROVE OwnRuns' /\ LosesNothing
  BY <1>1 DEF BeginRun, CallRunRust
<1>2. ASSUME EndRun(w) PROVE OwnRuns' /\ LosesNothing
  <2>1. /\ at[w] = "return" /\ at' = [at EXCEPT ![w] = "idle"]
        /\ run' = [run EXCEPT ![w] = NULL]
        /\ directory' = directory \ {run[w]} /\ UNCHANGED container
    BY <1>2 DEF EndRun, Return
  <2> QED
    BY <2>1
<1>3. ASSUME EndCleaning(w) \/ RestartCleaning(w) PROVE OwnRuns' /\ LosesNothing
  <2>1. /\ at[w] \in {"ask", "idle"} /\ UNCHANGED <<directory, container, run>>
        /\ \E to \in {"idle", "list"} : at' = [at EXCEPT ![w] = to]
    BY <1>3 DEF EndCleaning, CleaningDone, RestartCleaning
  <2> QED
    BY <2>1
<1>4. ASSUME Abandon(w) PROVE OwnRuns' /\ Lost' \subseteq Lost \cup {run[w]}
  BY <1>4 DEF Abandon
<1>5. ASSUME BreakCleaning(w) PROVE OwnRuns' /\ LosesNothing
  <2>1. at[w] \in CleanSteps /\ Abandon(w)
    BY <1>5 DEF BreakCleaning, CleaningEnds
  <2> QED
    BY <1>4, <2>1 DEF Abandon
<1>6. ASSUME CrashInRun(w) PROVE OwnRuns' /\ LosesOne("crash")
  BY <1>4, <1>6 DEF CrashInRun, Crash
<1> HIDE DEF LosesNothing, LosesOne, OwnRuns
<1> QED
  BY <1>1, <1>2, <1>3, <1>5, <1>6

LEMMA StepIsFrugal ==
  ASSUME SandboxInv, OwnRuns, [SandboxNext]_sandboxVars
  PROVE  OwnRuns' /\ Frugal
<1>1. ASSUME UNCHANGED dockerVars PROVE OwnRuns' /\ Frugal
  BY <1>1 DEF dockerVars, OwnRuns, Frugal, LosesNothing, Lost, Leftovers, Doomed, Exists
<1> QED
  BY <1>1, RunStepIsFrugal, CleanStepIsFrugal, TurnIsFrugal
     DEF SandboxNext, WorkerStep, WorkerFault, sandboxVars

LEMMA OneMoreAtMost ==
  ASSUME NEW S, IsFiniteSet(S), NEW T, NEW x, T \subseteq S \cup {x}
  PROVE  IsFiniteSet(T) /\ Cardinality(T) <= Cardinality(S) + 1
<1>1. IsFiniteSet(S \cup {x}) /\ Cardinality(S \cup {x}) <= Cardinality(S) + 1
  <2>1. Cardinality(S) \in Nat
    BY FS_CardinalityType
  <2>2. CASE x \in S
    <3>1. S \cup {x} = S
      BY <2>2
    <3> QED
      BY <2>1, <3>1
  <2>3. CASE x \notin S
    <3>1. /\ IsFiniteSet(S \cup {x})
          /\ Cardinality(S \cup {x}) = IF x \in S THEN Cardinality(S)
                                                  ELSE Cardinality(S) + 1
      BY FS_AddElement, Zenon
    <3> QED
      BY <2>1, <2>3, <3>1
  <2> QED
    BY <2>2, <2>3
<1>2. IsFiniteSet(T) /\ Cardinality(T) <= Cardinality(S \cup {x})
  BY <1>1, FS_Subset
<1> QED
  BY <1>1, <1>2, FS_CardinalityType

LEMMA BudgetShrinks ==
  ASSUME FaultsTypeOK, Spends
  PROVE  \A kind \in FaultKinds : faults'[kind] \in Nat /\ faults'[kind] <= faults[kind]
BY Kinds DEF FaultsTypeOK, Spends, Fault

LEMMA StepLeaks == SandboxInv /\ LeakInv /\ [SandboxNext]_sandboxVars => LeakInv'
<1> SUFFICES ASSUME SandboxInv, LeakInv, [SandboxNext]_sandboxVars PROVE LeakInv'
  OBVIOUS
<1>typed. /\ FaultsTypeOK
          /\ MaxCrashes \in Nat /\ MaxDockerErrors \in Nat
          /\ IsFiniteSet(Lost) /\ Cardinality(Lost) \in Nat
  BY BudgetAssumption, FS_CardinalityType
     DEF SandboxInv, TypeInv, TypeOK, LeakInv, FaultKinds, Budget
<1>1. OwnRuns' /\ Frugal
  BY StepIsFrugal DEF LeakInv
<1>2. Spends
  BY StepOfJudge, StepSpends DEF Beyond, BreaksOff
<1>3. /\ faults'["crash"] \in Nat /\ faults'["crash"] <= faults["crash"]
      /\ faults'["docker"] \in Nat /\ faults'["docker"] <= faults["docker"]
  BY <1>2, <1>typed, BudgetShrinks, Kinds
<1>4. CASE LosesNothing
  <2>1. IsFiniteSet(Lost') /\ Cardinality(Lost') <= Cardinality(Lost)
    BY <1>4, <1>typed, FS_Subset DEF LosesNothing
  <2>2. Cardinality(Lost') \in Nat
    BY <2>1, FS_CardinalityType
  <2> QED
    BY <1>1, <1>3, <1>typed, <2>1, <2>2, Kinds DEF LeakInv, FaultsTypeOK
<1>5. ASSUME NEW kind \in {"crash", "docker"}, LosesOne(kind) PROVE LeakInv'
  <2>1. IsFiniteSet(Lost') /\ Cardinality(Lost') <= Cardinality(Lost) + 1
    BY <1>5, <1>typed, OneMoreAtMost DEF LosesOne
  <2>2. Cardinality(Lost') \in Nat
    BY <2>1, FS_CardinalityType
  <2>3. faults'[kind] = faults[kind] - 1
    BY <1>5, <1>typed, Kinds DEF LosesOne, Fault, FaultsTypeOK
  <2> QED
    BY <1>1, <1>3, <1>5, <1>typed, <2>1, <2>2, <2>3, Kinds DEF LeakInv, FaultsTypeOK
<1> QED
  BY <1>1, <1>4, <1>5 DEF Frugal

\* On disk and in docker no more is left behind than processes died and calls
\* failed, by any number of runs: verdicts, time-outs, cancellations, containers
\* taken away by a cleaning, and cleanings that break off leave nothing
\* (with_container, Drop for Workspace, clean_orphan_containers).
THEOREM LeaksAreBounded == SandboxSpec => []LeaksAreFaults
<1>1. SandboxInit => LeakInv
  <2> SUFFICES ASSUME SandboxInit PROVE LeakInv
    OBVIOUS
  <2>1. Lost = {} /\ OwnRuns
    BY DEF SandboxInit, DockerInit, Lost, Leftovers, Doomed, Exists, OwnRuns
  <2>2. MaxCrashes \in Nat /\ MaxDockerErrors \in Nat
    BY BudgetAssumption DEF FaultKinds, Budget
  <2>3. faults["crash"] = MaxCrashes /\ faults["docker"] = MaxDockerErrors
    BY DEF SandboxInit, Init, FaultsInit, Budget
  <2> QED
    BY <2>1, <2>2, <2>3, FS_EmptySet DEF LeakInv
<1>2. SandboxInv /\ LeakInv => LeaksAreFaults
  <2> SUFFICES ASSUME SandboxInv, LeakInv PROVE LeaksAreFaults
    OBVIOUS
  <2>1. Cardinality(Leftovers) <= Cardinality(Lost)
    BY FS_Subset DEF LeakInv, Lost
  <2>2. Cardinality(Leftovers) \in Nat /\ Cardinality(Lost) \in Nat
    BY FS_Subset, FS_CardinalityType DEF LeakInv, Lost
  <2>3. /\ MaxCrashes \in Nat /\ MaxDockerErrors \in Nat
        /\ faults["crash"] \in Nat /\ faults["docker"] \in Nat
    BY BudgetAssumption, Kinds
       DEF FaultKinds, Budget, SandboxInv, TypeInv, TypeOK, FaultsTypeOK
  <2> QED
    BY <2>1, <2>2, <2>3 DEF LeakInv, LeaksAreFaults
<1> QED
  BY <1>1, <1>2, StepLeaks, SandboxInitially, SandboxStepInv, PTL DEF SandboxSpec
=============================================================================
