---------------------------- MODULE DockerRunner ----------------------------
(***************************************************************************)
(* docker/ and workspace.rs: what a worker does with docker and its disk.  *)
(* A run is one call of run_rust, with its temporary directory and its     *)
(* container, both freshly named.  The docker daemon and the directories   *)
(* are shared by all workers and outlive them.                             *)
(*                                                                         *)
(* at[w] is where w is: in run_rust ("workspace", "create", "start",       *)
(* "compile", "execute", "cleanup", "return"), in clean_orphan_containers  *)
(* ("list", "ask", "inspect", "remove", "rmdir"), or in neither ("idle").  *)
(*                                                                         *)
(* Calls that only read (pull, inspect, exec's inspection of its exit      *)
(* code) are part of the step they belong to.  Stopping a container is     *)
(* followed by its removal, and nothing tells a stopped one from a running *)
(* one in between, so it is no step of its own.                            *)
(***************************************************************************)
EXTENDS JobStore, Faults

CONSTANTS
  Runs,     \* names of directories and containers
  Programs  \* how submitted programs behave, a subset of Fate

Ending == {"zero", "nonzero", "oom", "hangs"}
Fate   == [compile : Ending, run : Ending]

ASSUME ProgramsAssumption == Programs \subseteq Fate /\ Programs # {}
ASSUME RunsAssumption     == NULL \notin Runs
ASSUME OutcomeAssumption  == NULL # "Cancelled"

VARIABLES
  program,    \* the behaviour of each job's code
  directory,  \* the temporary directories on disk
  container,  \* per name: the job_id label of the container, NULL if there is none
  at,
  run,        \* the run a worker is in, or whose leftovers it is removing
  outcome,    \* what run_rust is about to return
  sweep       \* containers the cleaning has listed and not come to yet

dockerVars == <<program, directory, container, at, run, outcome, sweep>>

RunSteps   == {"workspace", "create", "start", "compile", "execute", "cleanup",
               "return"}
CleanSteps == {"list", "ask", "inspect", "remove", "rmdir"}

DockerTypeOK ==
  /\ program   \in [Jobs -> Programs]
  /\ directory \in SUBSET Runs
  /\ container \in [Runs -> Jobs \cup {NULL}]
  /\ at        \in [Workers -> RunSteps \cup CleanSteps \cup {"idle"}]
  /\ run       \in [Workers -> Runs \cup {NULL}]
  /\ outcome   \in [Workers -> Final \cup {"Cancelled", NULL}]
  /\ sweep     \in [Workers -> SUBSET (Runs \X Jobs)]

\* Every worker process begins with a cleaning.
DockerInit ==
  /\ program   \in [Jobs -> Programs]
  /\ directory = {}
  /\ container = [x \in Runs |-> NULL]
  /\ at        = [w \in Workers |-> "list"]
  /\ run       = [w \in Workers |-> NULL]
  /\ outcome   = [w \in Workers |-> NULL]
  /\ sweep     = [w \in Workers |-> {}]

Exists(x) == container[x] # NULL

\* A random name nobody has in hand and nothing bears.
Unused(x) ==
  /\ x \notin directory /\ ~Exists(x)
  /\ \A w \in Workers : run[w] # x /\ \A j \in Jobs : <<x, j>> \notin sweep[w]

Step(w, from, to) == at[w] = from /\ at' = [at EXCEPT ![w] = to]

\* A call to docker, or to the file system, returns Err.
CallFails == Fault("docker")

-----------------------------------------------------------------------------
(* The verdict.                                                            *)

\* Mutant of VerdictOn: the exit code of a killed process is looked at first.
VerdictByExitCode(ending, failure) ==
  CASE ending = "hangs"            -> "TimeLimitExceeded"
    [] ending \in {"oom", "nonzero"} -> failure
    [] ending = "zero"             -> "Success"

\* What run_rust makes of an exec: the time-out comes first, then the
\* container's oom_killed flag, then the exit code.
VerdictOn(ending, failure) ==
  CASE ending = "hangs"   -> "TimeLimitExceeded"
    [] ending = "oom"     -> "MemoryLimitExceeded"
    [] ending = "nonzero" -> failure
    [] ending = "zero"    -> "Success"

\* Without its directory, rustc finds no main.rs and the shell no main.
Ends(w, phase) == IF run[w] \in directory THEN phase ELSE "nonzero"

-----------------------------------------------------------------------------
(* run_rust and with_container.                                            *)

\* handle_message calls run_rust.
CallRunRust(w) ==
  /\ Step(w, "idle", "workspace")
  /\ UNCHANGED <<program, directory, container, run, outcome, sweep>>

\* Workspace::new and write.
NewWorkspace(w, x) ==
  /\ Step(w, "workspace", "create")
  /\ Unused(x)
  /\ directory' = directory \cup {x}
  /\ run'       = [run EXCEPT ![w] = x]
  /\ UNCHANGED <<program, container, outcome, sweep, faults>>

\* Err(RunError::Other) from here on is the verdict RuntimeError.
ReturnsError(w, from, to) ==
  /\ Step(w, from, to)
  /\ outcome' = [outcome EXCEPT ![w] = "RuntimeError"]

WorkspaceFails(w) ==
  /\ CallFails
  /\ ReturnsError(w, "workspace", "return")
  /\ UNCHANGED <<program, directory, container, run, sweep>>

CreateContainer(w, j) ==
  /\ Step(w, "create", "start")
  /\ container' = [container EXCEPT ![run[w]] = j]
  /\ UNCHANGED <<program, directory, run, outcome, sweep, faults>>

\* Nothing is removed again, also when the container exists by now and only
\* its inspection has failed.
ContainerNotCreated(w, j) ==
  /\ CallFails
  /\ ReturnsError(w, "create", "return")
  /\ container' \in {container, [container EXCEPT ![run[w]] = j]}
  /\ UNCHANGED <<program, directory, run, sweep>>

StartContainer(w) ==
  /\ Step(w, "start", "compile")
  /\ Exists(run[w])
  /\ UNCHANGED <<program, directory, container, run, outcome, sweep, faults>>

\* Docker refuses, or a cleaning has removed the container: with_container
\* returns before its clean_up.
ContainerNotStarted(w) ==
  /\ ReturnsError(w, "start", "return")
  /\ IF Exists(run[w]) THEN CallFails ELSE NoFault
  /\ UNCHANGED <<program, directory, container, run, sweep>>

\* The exec of rustc.
Compile(w, j) ==
  LET ending == Ends(w, program[j].compile)
  IN  /\ at[w] = "compile" /\ Exists(run[w])
      /\ IF ending = "zero"
           THEN Step(w, "compile", "execute") /\ UNCHANGED outcome
           ELSE /\ Step(w, "compile", "cleanup")
                /\ outcome' = [outcome EXCEPT ![w] = VerdictOn(ending, "CompileError")]
      /\ UNCHANGED <<program, directory, container, run, sweep, faults>>

\* The exec of the program.
Execute(w, j) ==
  /\ Step(w, "execute", "cleanup")
  /\ Exists(run[w])
  /\ outcome' = [outcome EXCEPT ![w] =
                   VerdictOn(Ends(w, program[j].run), "RuntimeError")]
  /\ UNCHANGED <<program, directory, container, run, sweep, faults>>

\* An exec, or an inspection after it, fails; so does the stop of a
\* compilation that timed out.
ExecFails(w, from) ==
  /\ ReturnsError(w, from, "cleanup")
  /\ IF Exists(run[w]) THEN CallFails ELSE NoFault
  /\ UNCHANGED <<program, directory, container, run, sweep>>

\* Mutant of Cancel: the branch returns without the clean_up after the select!.
CancelWithoutCleanUp(w) ==
  /\ \E from \in {"compile", "execute"} : Step(w, from, "return")
  /\ outcome' = [outcome EXCEPT ![w] = "Cancelled"]
  /\ UNCHANGED <<program, directory, container, run, sweep, faults>>

\* The select! takes the cancellation branch.
Cancel(w) ==
  /\ \E from \in {"compile", "execute"} : Step(w, from, "cleanup")
  /\ outcome' = [outcome EXCEPT ![w] = "Cancelled"]
  /\ UNCHANGED <<program, directory, container, run, sweep, faults>>

\* Mutant of CleanUp: the container is stopped and not removed.
CleanUpStopsOnly(w) ==
  /\ Step(w, "cleanup", "return")
  /\ UNCHANGED <<program, directory, container, run, outcome, sweep, faults>>

CleanUp(w) ==
  /\ Step(w, "cleanup", "return")
  /\ container' = [container EXCEPT ![run[w]] = NULL]
  /\ UNCHANGED <<program, directory, run, outcome, sweep, faults>>

\* Logged only.
CleanUpFails(w) ==
  /\ CallFails
  /\ Step(w, "cleanup", "return")
  /\ UNCHANGED <<program, directory, container, run, outcome, sweep>>

\* run_rust returns: the Workspace is dropped, and its directory with it.
Return(w) ==
  /\ Step(w, "return", "idle")
  /\ directory' = directory \ {run[w]}
  /\ run'       = [run     EXCEPT ![w] = NULL]
  /\ outcome'   = [outcome EXCEPT ![w] = NULL]
  /\ UNCHANGED <<program, container, sweep>>

RunStep(w, j) ==
  \/ \E x \in Runs : NewWorkspace(w, x)
  \/ CreateContainer(w, j)
  \/ StartContainer(w)
  \/ ContainerNotStarted(w)
  \/ Compile(w, j)
  \/ Execute(w, j)
  \/ \E from \in {"compile", "execute"} : ExecFails(w, from)
  \/ CleanUp(w)

RunFault(w, j) == WorkspaceFails(w) \/ ContainerNotCreated(w, j) \/ CleanUpFails(w)

-----------------------------------------------------------------------------
(* clean_orphan_containers.                                                *)

\* list_code_containers: those of every worker, running or not.
ListContainers(w) ==
  /\ Step(w, "list", "ask")
  /\ sweep' = [sweep EXCEPT ![w] =
                 {<<x, container[x]>> : x \in {y \in Runs : Exists(y)}}]
  /\ UNCHANGED <<program, directory, container, run, outcome, faults>>

\* Mutant of AskAlive: every listed container is an orphan.
AskNobody(w, x, j) ==
  /\ at[w] = "ask" /\ <<x, j>> \in sweep[w]
  /\ sweep' = [sweep EXCEPT ![w] = @ \ {<<x, j>>}]
  /\ Step(w, "ask", "inspect") /\ run' = [run EXCEPT ![w] = x]
  /\ UNCHANGED <<program, directory, container, outcome, faults>>

\* The container is kept while its job, not it, has a living execution.
AskAlive(w, x, j) ==
  /\ at[w] = "ask" /\ <<x, j>> \in sweep[w]
  /\ sweep' = [sweep EXCEPT ![w] = @ \ {<<x, j>>}]
  /\ IF ExecutionAlive(j)
       THEN UNCHANGED <<at, run>>
       ELSE Step(w, "ask", "inspect") /\ run' = [run EXCEPT ![w] = x]
  /\ UNCHANGED <<program, directory, container, outcome, faults>>

\* get_workspace_from_container finds the oj.workspace label.
InspectOrphan(w) ==
  /\ Step(w, "inspect", "remove")
  /\ Exists(run[w])
  /\ UNCHANGED <<program, directory, container, run, outcome, sweep, faults>>

RemoveOrphan(w) ==
  /\ Step(w, "remove", "rmdir")
  /\ container' = [container EXCEPT ![run[w]] = NULL]
  /\ UNCHANGED <<program, directory, run, outcome, sweep, faults>>

\* Logged only.
RemoveOrphanFails(w) ==
  /\ CallFails
  /\ Step(w, "remove", "rmdir")
  /\ UNCHANGED <<program, directory, container, run, outcome, sweep>>

RemoveWorkspace(w) ==
  /\ Step(w, "rmdir", "ask")
  /\ directory' = directory \ {run[w]}
  /\ run'       = [run EXCEPT ![w] = NULL]
  /\ UNCHANGED <<program, container, outcome, sweep, faults>>

\* Another error, or five times EBUSY: logged only.
RemoveWorkspaceFails(w) ==
  /\ CallFails
  /\ Step(w, "rmdir", "ask")
  /\ run' = [run EXCEPT ![w] = NULL]
  /\ UNCHANGED <<program, directory, container, outcome, sweep>>

CleanStep(w) ==
  \/ ListContainers(w)
  \/ \E x \in Runs, j \in Jobs : AskAlive(w, x, j)
  \/ InspectOrphan(w)
  \/ RemoveOrphan(w)
  \/ RemoveWorkspace(w)

CleanFault(w) == RemoveOrphanFails(w) \/ RemoveWorkspaceFails(w)

\* All listed containers are dealt with.
CleaningDone(w) ==
  /\ sweep[w] = {}
  /\ Step(w, "ask", "idle")
  /\ UNCHANGED <<program, directory, container, run, outcome, sweep>>

\* Whatever w was doing, it does no more; what is on disk and in docker stays.
Abandon(w) ==
  /\ at'      = [at      EXCEPT ![w] = "idle"]
  /\ run'     = [run     EXCEPT ![w] = NULL]
  /\ outcome' = [outcome EXCEPT ![w] = NULL]
  /\ sweep'   = [sweep   EXCEPT ![w] = {}]
  /\ UNCHANGED <<program, directory, container>>

\* The listing or the question fails; or the inspection does, because of docker
\* or because the container is gone by now, and the unwrap() of its None panics.
CleaningEnds(w) ==
  /\ \/ at[w] = "list" /\ CallFails
     \/ at[w] = "ask" /\ sweep[w] # {} /\ Fault("db")
     \/ at[w] = "inspect" /\ IF Exists(run[w]) THEN CallFails ELSE NoFault
  /\ Abandon(w)
=============================================================================
