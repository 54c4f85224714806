---------------------------- MODULE Notifications ----------------------------
(***************************************************************************)
(* One call from a drainer to notifications-svc: the HTTP client of the    *)
(* monolith, the handler of the service and the email sender behind it.    *)
(* The variables describe every call under way; the drainers' modules say  *)
(* when a call is made and what its outcome leads to.                      *)
(*                                                                         *)
(* A call is about an outbox row.  Two sets of rows make answers depend on *)
(* the row: the sender fails on every Undeliverable one (a recipient the   *)
(* provider or the mail library refuses), and a request for a Malformed    *)
(* one may fail to decode (DisallowUnknownFields under a version skew).    *)
(***************************************************************************)
EXTENDS Naturals

CONSTANTS
    Worker,         \* the drainers, one per replica of the monolith
    Row,            \* rows of the outbox table
    Undeliverable,  \* rows whose email the sender always refuses
    Malformed,      \* rows whose request the service may reject
    MaxCopies       \* bound: copies are counted up to this number

ASSUME RowsAssumption ==
    /\ Undeliverable \subseteq Row
    /\ Malformed \subseteq Row
    /\ MaxCopies \in Nat \ {0}

VARIABLES
    call,       \* call[w]: no call, in flight, or the status of the response
    late,       \* rows with an abandoned request the service still works on
    copies      \* copies[r]: emails handed to the provider for row r

callVars == <<call, late, copies>>

NoCall == 0
InFlight == 1
NoContent == 204
BadRequest == 400
BadGateway == 502
Answer == {NoContent, BadRequest, BadGateway}

CallTypeOK ==
    /\ call \in [Worker -> {NoCall, InFlight} \cup Answer]
    /\ late \subseteq Row
    /\ copies \in [Row -> 0 .. MaxCopies]

CallInit ==
    /\ call = [w \in Worker |-> NoCall]
    /\ late = {}
    /\ copies = [r \in Row |-> 0]

-----------------------------------------------------------------------------
\* Mutant: every status below 500 is a success.
OutcomeBelow500(status) == IF status \in 200 .. 499 THEN "ok" ELSE "transient"

\* The client's classification of a response: nil, ErrPermanent, transient.
Outcome(status) ==
    IF status \in 200 .. 299 THEN "ok"
    ELSE IF status \in 400 .. 499 THEN "permanent" ELSE "transient"

Counted(n) == IF n < MaxCopies THEN n + 1 ELSE n

Post(w) ==
    /\ call[w] = NoCall
    /\ call' = [call EXCEPT ![w] = InFlight]
    /\ UNCHANGED <<late, copies>>

\* The service's handler: decode and check, send, answer.
Accept(w, r) ==
    /\ call[w] = InFlight /\ r \notin Undeliverable
    /\ copies' = [copies EXCEPT ![r] = Counted(@)]
    /\ call' = [call EXCEPT ![w] = NoContent]
    /\ UNCHANGED late

Reject(w, r) ==
    /\ call[w] = InFlight /\ r \in Malformed
    /\ call' = [call EXCEPT ![w] = BadRequest]
    /\ UNCHANGED <<late, copies>>

\* Every error of the sender becomes 502, a refused recipient included.
FailDelivery(w) ==
    /\ call[w] = InFlight
    /\ call' = [call EXCEPT ![w] = BadGateway]
    /\ UNCHANGED <<late, copies>>

\* The provider took the email, but the sender lost its reply.
LoseProviderReply(w, r) ==
    /\ call[w] = InFlight /\ r \notin Undeliverable
    /\ copies' = [copies EXCEPT ![r] = Counted(@)]
    /\ call' = [call EXCEPT ![w] = BadGateway]
    /\ UNCHANGED late

\* The client returns with a response.
Receive(w, outcome) ==
    /\ call[w] \in Answer /\ Outcome(call[w]) = outcome
    /\ call' = [call EXCEPT ![w] = NoCall]
    /\ UNCHANGED <<late, copies>>

\* The client returns without one: timeout, cancelled context, lost
\* connection, or the process is gone.  The service may go on.
Abandon(w, r) ==
    /\ call[w] # NoCall
    /\ late' = IF call[w] = InFlight THEN late \cup {r} ELSE late
    /\ call' = [call EXCEPT ![w] = NoCall]
    /\ UNCHANGED copies

\* The service finishes an abandoned request; several may concern one row.
DeliverLate(r) ==
    /\ r \in late /\ r \notin Undeliverable
    /\ copies' = [copies EXCEPT ![r] = Counted(@)]
    /\ late' \in {late, late \ {r}}
    /\ UNCHANGED call

DropLate(r) ==
    /\ r \in late
    /\ late' = late \ {r}
    /\ UNCHANGED <<call, copies>>
=============================================================================
