----------------------------- MODULE MCSandbox ------------------------------
(* The judge with docker for TLC.                                          *)
EXTENDS JudgeSandbox, TLC

CONSTANTS p1, p2

\* Every job on p1.
OnePartition == [j \in Jobs |-> p1]

Compiled(ending) == [compile |-> "zero", run |-> ending]
Stillborn(ending) == [compile |-> ending, run |-> "zero"]

\* A program that does what it should.
Correct == {Compiled("zero")}

\* And those whose verdict rests on the order of checks.
Various == Correct \cup {Compiled("oom"), Stillborn("oom"), Compiled("hangs")}

Symmetric == Permutations(Workers) \cup Permutations(Tokens) \cup Permutations(Runs)
=============================================================================
