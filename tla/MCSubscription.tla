--------------------------- MODULE MCSubscription ---------------------------
(* Small instances of Subscription: one repository on GitHub.              *)
EXTENDS Subscription, TLC

CONSTANTS q1, q2, e1

MCWord == {"a", "b", "https", "github.com"}
MCRepo == {<<<<"a">>, <<"b">>>>}

PlainName == <<"a", "/", "b">>
Url == Site \o PlainName

PlainText == {PlainName}

\* A clone URL, and the URL of a page of the repository, which is none of
\* its forms.
EveryText == {Url \o <<".git">>, Url \o <<"/", "a">>}

Symmetry == Permutations(Request)
=============================================================================
