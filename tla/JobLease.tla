------------------------------ MODULE JobLease ------------------------------
(***************************************************************************)
(* What the jobs and job_outbox tables promise, whoever calls them: per    *)
(* job a lease and a verdict, and a set of jobs owed another delivery.     *)
(*                                                                         *)
(*   - A verdict appears only by spending the lease in the same step, so   *)
(*     one grant yields at most one verdict.                               *)
(*   - A lease is replaced by a new grant, spent on a verdict, or revoked; *)
(*     a revoked job is owed a delivery from that same step on.            *)
(*   - A decided job holds no lease and is not granted one.                *)
(*                                                                         *)
(* It does not promise that a verdict stays: Reopen is a step of the table *)
(* (update_status overwrites any status).                                  *)
(***************************************************************************)
CONSTANTS Jobs, Tokens, Verdicts, NULL

VARIABLES
  lease,    \* the token of the latest grant, NULL when spent or revoked
  verdict,  \* the verdict of a decided job, "open" otherwise
  owed      \* jobs revoked and not yet announced to the queue again

leaseVars == <<lease, verdict, owed>>

Init ==
  /\ lease   = [j \in Jobs |-> NULL]
  /\ verdict = [j \in Jobs |-> "open"]
  /\ owed    = {}

Grant(j, t) ==
  /\ verdict[j] = "open"
  /\ \A k \in Jobs : lease[k] # t
  /\ lease' = [lease EXCEPT ![j] = t]
  /\ UNCHANGED <<verdict, owed>>

Decide(j, v) ==
  /\ verdict[j] = "open" /\ lease[j] # NULL
  /\ verdict' = [verdict EXCEPT ![j] = v]
  /\ lease'   = [lease   EXCEPT ![j] = NULL]
  /\ UNCHANGED owed

Revoke(S) ==
  /\ \A j \in S : verdict[j] = "open"
  /\ lease' = [j \in Jobs |-> IF j \in S THEN NULL ELSE lease[j]]
  /\ owed'  = owed \cup S
  /\ UNCHANGED verdict

Announce(j) ==
  /\ j \in owed
  /\ owed' = owed \ {j}
  /\ UNCHANGED <<lease, verdict>>

Reopen(j) ==
  /\ verdict[j] # "open"
  /\ verdict' = [verdict EXCEPT ![j] = "open"]
  /\ UNCHANGED <<lease, owed>>

Next ==
  \/ \E j \in Jobs :
       \/ \E t \in Tokens : Grant(j, t)
       \/ \E v \in Verdicts : Decide(j, v)
       \/ Announce(j)
       \/ Reopen(j)
  \/ \E S \in SUBSET Jobs : Revoke(S)

Spec == Init /\ [][Next]_leaseVars
=============================================================================
