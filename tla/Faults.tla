------------------------------- MODULE Faults -------------------------------
(***************************************************************************)
(* What may go wrong around the program, and how often in one behaviour.   *)
(* Every step of the environment that disturbs the system spends one unit  *)
(* of the budget of its kind, so each run says by its constants which      *)
(* faults it admits, and the behaviours are finite without any bound of    *)
(* another kind on the queue, the outbox or the lock tokens.               *)
(***************************************************************************)
EXTENDS Naturals

CONSTANTS
  MaxCrashes,     \* a worker process dies, or is shut down
  MaxRestarts,    \* such a process is started again
  MaxExpulsions,  \* the group drops a member that is still handling a message
  MaxRebalances,  \* the group moves a partition away from a polling member
  MaxStalls,      \* 30 s pass without the beat, or the finish, that is due
  MaxDbErrors,    \* a statement returns Err
  MaxSendErrors,  \* a produce returns Err, or its caller is dropped first
  MaxDockerErrors, \* a call to docker or to the file system returns Err
  MaxPanics,      \* the consumer task ends: a clock behind the database's makes
                  \* handle_message panic, commit_message returns Err, or the
                  \* cleaning of orphans finds one gone
  MaxForeign      \* records on the topic that are not a JobMessage

Budget == [crash     |-> MaxCrashes,
           restart   |-> MaxRestarts,
           expel     |-> MaxExpulsions,
           rebalance |-> MaxRebalances,
           stall     |-> MaxStalls,
           db        |-> MaxDbErrors,
           send      |-> MaxSendErrors,
           docker    |-> MaxDockerErrors,
           panic     |-> MaxPanics,
           foreign   |-> MaxForeign]

FaultKinds == DOMAIN Budget

ASSUME BudgetAssumption == Budget \in [FaultKinds -> Nat]

VARIABLE faults  \* what is left of the budget

FaultsTypeOK == faults \in [FaultKinds -> Nat]

FaultsInit == faults = Budget

Fault(kind) ==
  /\ faults[kind] > 0
  /\ faults' = [faults EXCEPT ![kind] = @ - 1]

NoFault == UNCHANGED faults
=============================================================================
