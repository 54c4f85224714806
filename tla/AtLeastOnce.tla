---------------------------- MODULE AtLeastOnce ----------------------------
(***************************************************************************)
(* What an outbox of this system promises, whoever drains it: an entry is  *)
(* settled only after its email was handed over at least once, or after    *)
(* the receiving side refused it for good.  Copies may arrive late and     *)
(* more than once; an entry may be withdrawn while it waits.  Nothing here *)
(* speaks of workers, locks, requests or transactions.                     *)
(***************************************************************************)
EXTENDS Naturals

CONSTANTS
    Row,        \* the entries
    MaxCopies   \* bound: copies are counted up to this number

VARIABLES
    row,        \* row[r]: "absent", "pending", "sent" or "deleted"
    copies,     \* copies[r]: emails handed over for r, saturating at MaxCopies
    refused     \* the entries the receiving side refused for good

vars == <<row, copies, refused>>

Counted(n) == IF n < MaxCopies THEN n + 1 ELSE n

Init ==
    /\ row = [r \in Row |-> "absent"]
    /\ copies = [r \in Row |-> 0]
    /\ refused = {}

\* New entries appear together.
Enqueue(S) ==
    /\ S # {} /\ \A r \in S : row[r] = "absent"
    /\ row' = [r \in Row |-> IF r \in S THEN "pending" ELSE row[r]]
    /\ UNCHANGED <<copies, refused>>

\* A copy reaches the recipient; late copies of settled entries included.
Deliver(r) ==
    /\ row[r] # "absent"
    /\ copies' = [copies EXCEPT ![r] = Counted(@)]
    /\ UNCHANGED <<row, refused>>

Refuse(r) ==
    /\ row[r] = "pending"
    /\ refused' = refused \cup {r}
    /\ UNCHANGED <<row, copies>>

Settle(r) ==
    /\ row[r] = "pending"
    /\ copies[r] > 0 \/ r \in refused
    /\ row' = [row EXCEPT ![r] = "sent"]
    /\ UNCHANGED <<copies, refused>>

\* Entries are withdrawn together, settled ones included.
Withdraw(S) ==
    /\ S # {} /\ \A r \in S : row[r] \in {"pending", "sent"}
    /\ row' = [r \in Row |-> IF r \in S THEN "deleted" ELSE row[r]]
    /\ UNCHANGED <<copies, refused>>

Next ==
    \/ \E S \in SUBSET Row : Enqueue(S) \/ Withdraw(S)
    \/ \E r \in Row : Deliver(r) \/ Refuse(r) \/ Settle(r)

Spec == Init /\ [][Next]_vars
=============================================================================
