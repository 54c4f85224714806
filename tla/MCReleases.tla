----------------------------- MODULE MCReleases -----------------------------
(* A small instance of Releases.                                           *)
EXTENDS Releases

CONSTANTS p1, ra, rb, s1

MCRepoOf == [s \in Sub |-> ra]

\* The other repository never has a release, but takes its turns.
MCMaxTag == [r \in Repo |-> IF r = ra THEN 2 ELSE 0]

\* The first release's email may be refused.
MCMalformed == {<<s1, 1>>}
=============================================================================
