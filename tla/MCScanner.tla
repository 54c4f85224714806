----------------------------- MODULE MCScanner -----------------------------
(* Small instances of Scanner.                                             *)
EXTENDS Scanner, TLC

CONSTANTS p1, p2, ra, rb, s1, s2

\* One subscription for each of two repositories, or both for the one.
MCRepoOf == [s \in Sub |-> IF s = s2 /\ rb \in Repo THEN rb ELSE ra]

OneEach == [r \in Repo |-> 1]
TwoEach == [r \in Repo |-> 2]

Symmetry == Permutations(Replica)
=============================================================================
