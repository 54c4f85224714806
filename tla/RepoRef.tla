------------------------------ MODULE RepoRef ------------------------------
(***************************************************************************)
(* How the text of a repository is read.  A text is a sequence of tokens:  *)
(* "/", ".git", words made of the characters a name may have, and anything *)
(* else, such as the ":" of a URL.                                         *)
(***************************************************************************)
EXTENDS Sequences, FiniteSetsExt

CONSTANT Word   \* runs of letters, digits, ".", "_" and "-"

ASSUME WordAssumption == "/" \notin Word

\* What a name may be made of; ".git" is a word like any other there.
Part == Word \cup {".git"}

At(token, text) == {n \in DOMAIN text : text[n] = token}

\* ".git" is dropped at the very end only, and only once.
TrimSuffix(text) ==
    LET n == Len(text) IN
    IF n \in At(".git", text) THEN SubSeq(text, 1, n - 1) ELSE text

Trim(text) ==
    LET rest == DOMAIN text \ At("/", text) IN
    IF rest = {} THEN <<>> ELSE SubSeq(text, Min(rest), Max(rest))

\* Mutant: counted from the wrong end.
FirstTwo(text) ==
    LET slashes == At("/", text)
        later == slashes \ {Min(slashes)} IN
    IF Cardinality(slashes) < 2 THEN text
    ELSE SubSeq(text, 1, Min(later) - 1)

LastTwo(text) ==
    LET slashes == At("/", text)
        earlier == slashes \ {Max(slashes)} IN
    IF Cardinality(slashes) < 2 THEN text
    ELSE SubSeq(text, Max(earlier) + 1, Len(text))

IsPart(text) ==
    text # <<>> /\ \A n \in DOMAIN text : text[n] \in Part

Invalid == <<>>

\* The pair of owner and name, or Invalid, which the API answers with 400.
ParseRepoRef(text) ==
    LET s == LastTwo(Trim(TrimSuffix(text)))
        refs == {<<SubSeq(s, 1, n - 1), SubSeq(s, n + 1, Len(s))>> : n \in At("/", s)}
        valid == {ref \in refs : IsPart(ref[1]) /\ IsPart(ref[2])} IN
    IF valid = {} THEN Invalid ELSE CHOOSE ref \in valid : TRUE

FullName(ref) == ref[1] \o <<"/">> \o ref[2]

\* How a repository may be named: "a plain "owner/name" or a GitHub URL form
\* (with optional ".git" suffix or trailing slash)", as repo.go promises.
Site == <<"https", ":", "/", "/", "github.com", "/">>

Forms(ref) ==
    {form \o FullName(ref) \o ending :
        form \in {<<>>, Site}, ending \in {<<>>, <<"/">>, <<".git">>}}
=============================================================================
