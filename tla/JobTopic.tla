------------------------------ MODULE JobTopic ------------------------------
(***************************************************************************)
(* EXTERNAL: the Kafka topic "judge.jobs" and the consumer group           *)
(* "judge-worker", as kafka.rs uses them.                                  *)
(*                                                                         *)
(* A record's key is its job id, so the records of a job share a           *)
(* partition.  The group gives a partition to at most one member, which    *)
(* reads on from the last committed offset; auto-commit is off.  A commit  *)
(* is asynchronous: it may be lost, and the broker refuses it from a       *)
(* member that lost the partition.  A member that is not polling is        *)
(* waited for unless its session ends or max.poll.interval.ms passes       *)
(* (then it is expelled with its message still in hand), and it joins      *)
(* again only when it polls.                                               *)
(***************************************************************************)
EXTENDS Ids, Naturals, Sequences

CONSTANTS
  Partitions,   \* app.rs creates the topic with three
  PartitionOf,  \* the partitioner: key hash to partition
  Malformed     \* a record that does not parse as a JobMessage

Records == Jobs \cup {Malformed}

ASSUME PartitionAssumption == PartitionOf \in [Jobs -> Partitions]
ASSUME MalformedAssumption == Malformed \notin Jobs

VARIABLES
  log,        \* the records of each partition, never removed
  committed,  \* how many records of the partition the group has committed
  owner,      \* the member the partition is assigned to, or NULL
  position    \* where the owner reads on, and whoever comes after it starts

topicVars == <<log, committed, owner, position>>

TopicTypeOK ==
  /\ log       \in [Partitions -> Seq(Records)]
  /\ committed \in [Partitions -> Nat]
  /\ owner     \in [Partitions -> Workers \cup {NULL}]
  /\ position  \in [Partitions -> Nat]

TopicInit ==
  /\ log       = [p \in Partitions |-> <<>>]
  /\ committed = [p \in Partitions |-> 0]
  /\ owner     = [p \in Partitions |-> NULL]
  /\ position  = [p \in Partitions |-> 0]

Append1(p, rec) ==
  /\ log' = [log EXCEPT ![p] = Append(@, rec)]
  /\ UNCHANGED <<committed, owner, position>>

\* Mutant of SendJob: the record has no key, so any partition takes it.
SendJobUnkeyed(j) == \E p \in Partitions : Append1(p, j)

\* send_job when the delivery report says Ok.
SendJob(j) == Append1(PartitionOf[j], j)

\* send_job when it says Err: the record may have reached the log all the same.
SendJobUnsure(j) == SendJob(j) \/ UNCHANGED topicVars

Available(p) == position[p] < Len(log[p])

\* Mutant of Deliver: auto-commit is on.
DeliverAutoCommitted(p) ==
  /\ Available(p)
  /\ position'  = [position  EXCEPT ![p] = @ + 1]
  /\ committed' = [committed EXCEPT ![p] = position[p] + 1]
  /\ UNCHANGED <<log, owner>>

\* The stream hands the owner its next record.
Deliver(p) ==
  /\ Available(p)
  /\ position' = [position EXCEPT ![p] = @ + 1]
  /\ UNCHANGED <<log, committed, owner>>

\* commit_message(CommitMode::Async) of record number o by w.
CommitAsync(w, p, o) ==
  /\ \/ /\ owner[p] = w
        /\ committed' = [committed EXCEPT ![p] = o]
     \/ UNCHANGED committed
  /\ UNCHANGED <<log, owner, position>>

\* The partitions in S lose their owner: the next one starts at the committed
\* offset, which nobody can move while there is none.
Unassign(S) ==
  /\ owner'    = [p \in Partitions |-> IF p \in S THEN NULL ELSE owner[p]]
  /\ position' = [p \in Partitions |-> IF p \in S THEN committed[p] ELSE position[p]]
  /\ UNCHANGED <<log, committed>>

\* w leaves the group, whatever it owned.
LeaveGroup(w) == Unassign({p \in Partitions : owner[p] = w})

Assign(p, w) ==
  /\ owner[p] = NULL
  /\ owner' = [owner EXCEPT ![p] = w]
  /\ UNCHANGED <<log, committed, position>>

\* Record number o of p has yet to be handed to a member of the group.
Undelivered(p, o) == position[p] < o /\ o <= Len(log[p])
=============================================================================
