---------------------------- MODULE MCConfirmer ----------------------------
(* Small instances of Confirmer: one repository, asked for by its name.    *)
EXTENDS Confirmer, TLC

CONSTANTS q1, q2, e1, e2, w1, w2

MCWord == {"a", "b"}
MCRepo == {<<<<"a">>, <<"b">>>>}
MCText == {<<"a", "/", "b">>}

Symmetry == Permutations(Request) \cup Permutations(Worker)

\* No token expires: a way of behaving that Spec allows, fair all the same.
NoExpiry == Init /\ [][Next /\ expired' = {}]_vars /\ Fairness
=============================================================================
