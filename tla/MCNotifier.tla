----------------------------- MODULE MCNotifier -----------------------------
(* Small instances of Notifier: up to two replicas, two rows.              *)
EXTENDS Notifier

CONSTANTS w1, w2, r1, r2, s1, s2

\* One email for each subscription.
MCSubOf == [r \in Row |-> IF r = r2 THEN s2 ELSE s1]

OneStamp == {1}
=============================================================================
