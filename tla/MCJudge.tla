------------------------------ MODULE MCJudge -------------------------------
(* The judge for TLC: small values for the partitioner, and symmetry.      *)
EXTENDS JudgeProperties, TLC

CONSTANTS p1, p2

\* Every job on p1: what one partition's records do to each other.
OnePartition == [j \in Jobs |-> p1]

Symmetric == Permutations(Jobs) \cup Permutations(Workers) \cup Permutations(Tokens)
=============================================================================
