--------------------------- MODULE RepoRefProofs ---------------------------
(***************************************************************************)
(* What ParseRepoRef makes of a text, for texts of any length: the pair it *)
(* returns is the name that the text ends with, in every form that repo.go *)
(* promises and in any other.  The proof follows the steps of the          *)
(* function: dropping ".git", trimming slashes and taking the last two     *)
(* parts each keep the name that the text ends with, wherever it began.    *)
(***************************************************************************)
EXTENDS RepoRef, WellFoundedInduction, SequenceTheorems, FiniteSetTheorems, TLAPS

\* Tokens are strings; the provers do not see which strings there are.
Token == STRING \cup Part \cup {"/", ":", "https", "github.com"}

\* A text ends with a full name: alone or after a slash, then any slashes and
\* perhaps ".git".
TailNames(text, ref) ==
    \E i, j \in DOMAIN text :
        /\ SubSeq(text, i, j) = FullName(ref)
        /\ i = 1 \/ text[i - 1] = "/"
        /\ \A n \in j + 1 .. Len(text) :
              text[n] = "/" \/ (n = Len(text) /\ text[n] = ".git")

\* A repository that may exist: its name does not end in ".git".
IsRef(ref) ==
    /\ ref = <<ref[1], ref[2]>>
    /\ ref[1] \in Seq(Part) /\ ref[2] \in Seq(Part)
    /\ IsPart(ref[1]) /\ IsPart(ref[2])
    /\ TrimSuffix(ref[2]) = ref[2]

\* A full name: one slash, the k-th token, is neither first nor last.
Named(w, k) ==
    /\ w \in Seq(Token)
    /\ k \in 2 .. Len(w) - 1
    /\ \A x \in 1 .. Len(w) : w[x] = "/" <=> x = k
    /\ w[Len(w)] # ".git"

\* w stands in t after the first i tokens, and a part begins there.
Fits(t, i, w) == \A x \in 1 .. Len(w) : t[i + x] = w[x]

StartsAfter(t, i, w) ==
    /\ i + Len(w) <= Len(t)
    /\ Fits(t, i, w)
    /\ i = 0 \/ t[i] = "/"

EndsWith(s, w) ==
    /\ Len(w) <= Len(s)
    /\ Fits(s, Len(s) - Len(w), w)
    /\ Len(s) = Len(w) \/ s[Len(s) - Len(w)] = "/"

\* TailNames, in terms of positions.
TailNamesAt(t, w) ==
    \E i \in Nat :
        /\ StartsAfter(t, i, w)
        /\ \A n \in i + Len(w) + 1 .. Len(t) :
              t[n] = "/" \/ (n = Len(t) /\ t[n] = ".git")

-----------------------------------------------------------------------------
(* Positions.                                                               *)

\* Sets of positions have a first element ...
LEMMA MinFacts ==
    ASSUME NEW S, S \subseteq Nat, S # {}
    PROVE  Min(S) \in S /\ \A x \in S : Min(S) <= x
<1>1. PICK m \in S : \A x \in S : <<x, m>> \notin OpToRel(<, Nat)
  BY NatLessThanWellFounded, WFMin
<1>2. \A x \in S : m <= x
  <2>1. \A x \in S : ~ (x < m)
    BY <1>1 DEF OpToRel
  <2>2. QED
    BY <2>1
<1>3. \E k \in S : \A x \in S : k <= x
  BY <1>2
<1>4. QED
  BY <1>3 DEF Min

\* ... and, being bounded, a last one.
LEMMA MaxFacts ==
    ASSUME NEW n \in Nat, NEW S, S \subseteq 0 .. n, S # {}
    PROVE  Max(S) \in S /\ \A x \in S : x <= Max(S)
<1> DEFINE D == {n - x : x \in S}
<1>1. D \subseteq Nat
  <2>1. \A x \in S : n - x \in Nat
    OBVIOUS
  <2>2. QED
    BY <2>1
<1>2. D # {}
  OBVIOUS
<1>3. Min(D) \in D /\ \A y \in D : Min(D) <= y
  <2> HIDE DEF D
  <2>1. QED
    BY <1>1, <1>2, MinFacts
<1>4. PICK m \in S : Min(D) = n - m
  BY <1>3
<1>5. \A x \in S : n - m <= n - x
  BY <1>3, <1>4
<1>6. \A x \in S : m >= x
  BY <1>5
<1>7. \E k \in S : \A x \in S : k >= x
  BY <1>6
<1>8. Max(S) \in S /\ \A x \in S : Max(S) >= x
  BY <1>7 DEF Max
<1>9. QED
  BY <1>8

\* Whatever is last is the maximum.
LEMMA MaxIs ==
    ASSUME NEW S, S \subseteq Nat, NEW m \in S, \A x \in S : x <= m
    PROVE  Max(S) = m
<1>1. \E k \in S : \A x \in S : k >= x
  OBVIOUS
<1>2. Max(S) \in S /\ \A x \in S : Max(S) >= x
  BY <1>1 DEF Max
<1>3. Max(S) >= m /\ Max(S) <= m
  BY <1>2
<1>4. Max(S) \in Nat /\ m \in Nat
  BY <1>2
<1>5. QED
  BY <1>3, <1>4

\* Two slashes are at least two.
LEMMA PairCounts ==
    ASSUME NEW S, IsFiniteSet(S), NEW x \in S, NEW y \in S, x # y
    PROVE  ~ (Cardinality(S) < 2)
<1>1. IsFiniteSet({x, y}) /\ Cardinality({x, y}) = 2
  <2>1. IsFiniteSet({x}) /\ Cardinality({x}) = 1
    BY FS_Singleton
  <2>2. {x} \cup {y} = {x, y} /\ y \notin {x}
    OBVIOUS
  <2>3. QED
    BY <2>1, <2>2, FS_AddElement
<1>2. Cardinality({x, y}) <= Cardinality(S)
  BY FS_Subset
<1>3. Cardinality(S) \in Nat
  BY FS_CardinalityType
<1>4. QED
  BY <1>1, <1>2, <1>3

-----------------------------------------------------------------------------
(* Names.                                                                   *)

\* A name that TrimSuffix leaves alone does not end in ".git".
LEMMA NothingTrimmed ==
    ASSUME NEW s \in Seq(Token), s # <<>>, TrimSuffix(s) = s
    PROVE  s[Len(s)] # ".git"
<1> DEFINE L == Len(s)
<1>1. L \in Nat /\ L > 0
  BY EmptySeq, LenProperties
<1>2. \A n \in 1 .. L : s[n] \in Token
  OBVIOUS
<1>3. ASSUME s[L] = ".git" PROVE s = SubSeq(s, 1, L - 1)
  <2>1. L \in At(".git", s)
    BY <1>1, <1>3 DEF At
  <2>2. QED
    BY <2>1 DEF TrimSuffix
<1> HIDE DEF L
<1>4. \A n \in 1 .. L - 1 : s[n] \in Token
  BY <1>1, <1>2
<1>5. Len(SubSeq(s, 1, L - 1)) = IF 1 <= L - 1 THEN L - 1 - 1 + 1 ELSE 0
  BY <1>1, <1>4, SubSeqProperties
<1>6. Len(SubSeq(s, 1, L - 1)) # L
  BY <1>1, <1>5
<1>7. QED
  BY <1>3, <1>6 DEF L

\* The full name of a repository has one slash, between its two parts.
LEMMA RefFacts ==
    ASSUME NEW ref, IsRef(ref)
    PROVE  /\ Named(FullName(ref), Len(ref[1]) + 1)
           /\ Len(FullName(ref)) = Len(ref[1]) + 1 + Len(ref[2])
           /\ \A x \in 1 .. Len(ref[1]) : FullName(ref)[x] = ref[1][x]
           /\ \A x \in 1 .. Len(ref[2]) : FullName(ref)[Len(ref[1]) + 1 + x] = ref[2][x]
           /\ \A x \in 1 .. Len(ref[1]) : ref[1][x] # "/"
           /\ \A x \in 1 .. Len(ref[2]) : ref[2][x] # "/"
<1> DEFINE o == ref[1]
           n == ref[2]
           w == FullName(ref)
<1>1. o \in Seq(Part) /\ n \in Seq(Part) /\ o # <<>> /\ n # <<>>
  BY DEF IsRef, IsPart
<1>2. Part \subseteq Token /\ "/" \notin Part
  <2>1. ".git" # "/"
    OBVIOUS
  <2>2. QED
    BY <2>1, WordAssumption DEF Part, Token
<1>3. o \in Seq(Token) /\ n \in Seq(Token)
  BY <1>1, <1>2, SeqMonotonic
<1>4. /\ Len(o) \in Nat /\ Len(n) \in Nat /\ Len(o) > 0 /\ Len(n) > 0
  BY <1>1, <1>3, EmptySeq, LenProperties
<1>5. /\ \A x \in 1 .. Len(o) : o[x] # "/"
      /\ \A x \in 1 .. Len(n) : n[x] # "/"
  <2>1. /\ \A x \in 1 .. Len(o) : o[x] \in Part
        /\ \A x \in 1 .. Len(n) : n[x] \in Part
    BY <1>1, ElementOfSeq
  <2>2. QED
    BY <1>2, <2>1
<1>6. n[Len(n)] # ".git"
  BY <1>1, <1>3, NothingTrimmed DEF IsRef
<1>7. w = o \o <<"/">> \o n
  BY DEF FullName
<1> HIDE DEF o, n, w
<1>8. /\ w \in Seq(Token) /\ Len(w) = Len(o) + 1 + Len(n)
      /\ \A x \in 1 .. Len(w) : w[x] = IF x <= Len(o) THEN o[x]
                                    ELSE IF x = Len(o) + 1 THEN "/"
                                    ELSE n[x - (Len(o) + 1)]
  <2>1. <<"/">> \in Seq(Token) /\ Len(<<"/">>) = 1 /\ <<"/">>[1] = "/"
    <3>1. "/" \in Token
      BY DEF Token
    <3>2. Len(<<"/">>) = 1 /\ <<"/">>[1] = "/"
      OBVIOUS
    <3>3. <<"/">> \in Seq(Token)
      BY <3>1
    <3>4. QED
      BY <3>2, <3>3
  <2>2. /\ o \o <<"/">> \in Seq(Token) /\ Len(o \o <<"/">>) = Len(o) + 1
        /\ \A x \in 1 .. Len(o) + 1 : (o \o <<"/">>)[x] = IF x <= Len(o) THEN o[x] ELSE "/"
    <3>1. /\ o \o <<"/">> \in Seq(Token) /\ Len(o \o <<"/">>) = Len(o) + Len(<<"/">>)
          /\ \A x \in 1 .. Len(o) + Len(<<"/">>) :
                (o \o <<"/">>)[x] = IF x <= Len(o) THEN o[x] ELSE <<"/">>[x - Len(o)]
      BY <1>3, <2>1, ConcatProperties
    <3>2. \A x \in 1 .. Len(o) + 1 : x <= Len(o) \/ x - Len(o) = 1
      BY <1>4
    <3>3. QED
      BY <2>1, <3>1, <3>2
  <2>3. /\ w \in Seq(Token) /\ Len(w) = Len(o \o <<"/">>) + Len(n)
        /\ \A x \in 1 .. Len(o \o <<"/">>) + Len(n) :
              w[x] = IF x <= Len(o \o <<"/">>) THEN (o \o <<"/">>)[x]
                     ELSE n[x - Len(o \o <<"/">>)]
    BY <1>3, <1>7, <2>2, ConcatProperties
  <2>4. ASSUME NEW x \in 1 .. Len(w)
        PROVE  w[x] = IF x <= Len(o) THEN o[x]
                      ELSE IF x = Len(o) + 1 THEN "/" ELSE n[x - (Len(o) + 1)]
    <3>1. CASE x <= Len(o) + 1
      <4>1. x \in 1 .. Len(o) + 1
        BY <1>4, <3>1
      <4>2. w[x] = (o \o <<"/">>)[x]
        BY <2>2, <2>3, <3>1
      <4>3. QED
        BY <1>4, <2>2, <4>1, <4>2
    <3>2. CASE ~ (x <= Len(o) + 1)
      <4>1. ~ (x <= Len(o)) /\ x # Len(o) + 1
        BY <1>4, <3>2
      <4>2. w[x] = n[x - (Len(o) + 1)]
        BY <2>2, <2>3, <3>2
      <4>3. QED
        BY <4>1, <4>2
    <3>3. QED
      BY <3>1, <3>2
  <2>5. QED
    BY <2>2, <2>3, <2>4
<1>9. /\ \A x \in 1 .. Len(o) : w[x] = o[x]
      /\ w[Len(o) + 1] = "/"
      /\ \A x \in 1 .. Len(n) : w[Len(o) + 1 + x] = n[x]
  BY <1>4, <1>8
<1>10. Len(o) + 1 \in 2 .. Len(w) - 1
  BY <1>4, <1>8
<1>11. \A x \in 1 .. Len(w) : w[x] = "/" <=> x = Len(o) + 1
  <2> SUFFICES ASSUME NEW x \in 1 .. Len(w) PROVE w[x] = "/" <=> x = Len(o) + 1
    OBVIOUS
  <2>1. CASE x \in 1 .. Len(o)
    BY <1>4, <1>5, <1>9, <2>1
  <2>2. CASE x = Len(o) + 1
    BY <1>9, <2>2
  <2>3. CASE x - (Len(o) + 1) \in 1 .. Len(n)
    BY <1>4, <1>5, <1>8, <2>3
  <2>4. QED
    BY <1>4, <1>8, <2>1, <2>2, <2>3
<1>12. w[Len(w)] # ".git"
  BY <1>4, <1>6, <1>8, <1>9
<1>13. QED
  BY <1>5, <1>8, <1>9, <1>10, <1>11, <1>12 DEF Named, o, n, w

-----------------------------------------------------------------------------
(* The steps of ParseRepoRef.                                               *)

\* What a text ends with is a matter of where the name stands in it.
LEMMA TailHasPosition ==
    ASSUME NEW t \in Seq(Token), NEW ref, IsRef(ref)
    PROVE  TailNames(t, ref) <=> TailNamesAt(t, FullName(ref))
<1> DEFINE w == FullName(ref)
           m == Len(w)
           L == Len(t)
<1>1. w \in Seq(Token) /\ L \in Nat /\ m \in Nat /\ m >= 3 /\ DOMAIN t = 1 .. L
  <2>1. Named(w, Len(ref[1]) + 1)
    BY RefFacts
  <2>2. w \in Seq(Token) /\ Len(ref[1]) + 1 \in 2 .. m - 1
    BY <2>1 DEF Named
  <2> HIDE DEF w
  <2>3. m \in Nat
    BY <2>2
  <2> HIDE DEF m
  <2>4. QED
    BY <2>2, <2>3
<1> HIDE DEF w
<1>2. ASSUME NEW i \in 1 .. L, NEW j \in 1 .. L
      PROVE  SubSeq(t, i, j) = w <=> i - 1 + m = j /\ Fits(t, i - 1, w)
  <2>1. \A n \in i .. j : t[n] \in Token
    <3> SUFFICES ASSUME NEW n \in i .. j PROVE t[n] \in Token
      OBVIOUS
    <3>1. n \in 1 .. L
      BY <1>1
    <3>2. QED
      BY <3>1
  <2> HIDE DEF L, m
  <2>2. i \in Int /\ j \in Int
    BY <1>1
  <2>3. /\ SubSeq(t, i, j) \in Seq(Token)
        /\ Len(SubSeq(t, i, j)) = IF i <= j THEN j - i + 1 ELSE 0
        /\ \A x \in 1 .. j - i + 1 : SubSeq(t, i, j)[x] = t[i + x - 1]
    BY <2>1, <2>2, SubSeqProperties
  <2>4. ASSUME SubSeq(t, i, j) = w PROVE i - 1 + m = j /\ Fits(t, i - 1, w)
    <3>1. m = IF i <= j THEN j - i + 1 ELSE 0
      BY <2>3, <2>4 DEF m
    <3>2. m = j - i + 1 /\ i - 1 + m = j
      BY <1>1, <2>2, <3>1
    <3>3. \A x \in 1 .. m : w[x] = t[i + x - 1] /\ i + x - 1 = i - 1 + x
      BY <2>2, <2>3, <2>4, <3>2
    <3>4. QED
      BY <3>2, <3>3 DEF Fits, m
  <2>5. ASSUME i - 1 + m = j, Fits(t, i - 1, w) PROVE SubSeq(t, i, j) = w
    <3>1. i <= j /\ m = j - i + 1
      BY <1>1, <2>2, <2>5
    <3>2. \A x \in 1 .. m : t[i - 1 + x] = w[x] /\ i + x - 1 = i - 1 + x
      BY <2>2, <2>5 DEF Fits, m
    <3>3. Len(SubSeq(t, i, j)) = Len(w)
      BY <2>3, <3>1 DEF m
    <3>4. \A x \in 1 .. Len(SubSeq(t, i, j)) : SubSeq(t, i, j)[x] = w[x]
      BY <2>3, <3>1, <3>2
    <3>5. QED
      BY <1>1, <2>3, <3>3, <3>4, SeqEqual
  <2>6. QED
    BY <2>4, <2>5
<1>3. ASSUME TailNames(t, ref) PROVE TailNamesAt(t, w)
  <2>1. PICK i \in 1 .. L, j \in 1 .. L :
            /\ SubSeq(t, i, j) = w
            /\ i = 1 \/ t[i - 1] = "/"
            /\ \A n \in j + 1 .. L : t[n] = "/" \/ (n = L /\ t[n] = ".git")
    BY <1>1, <1>3 DEF TailNames, w
  <2>2. i - 1 + m = j /\ Fits(t, i - 1, w)
    BY <1>2, <2>1
  <2> HIDE DEF L, m
  <2>3. i - 1 \in Nat /\ i - 1 + m <= L /\ (i = 1 => i - 1 = 0)
    BY <1>1, <2>2
  <2>4. StartsAfter(t, i - 1, w)
    BY <2>1, <2>2, <2>3 DEF StartsAfter, L, m
  <2>5. \A n \in i - 1 + m + 1 .. L : t[n] = "/" \/ (n = L /\ t[n] = ".git")
    BY <2>1, <2>2
  <2>6. QED
    BY <2>3, <2>4, <2>5 DEF TailNamesAt, L, m
<1>4. ASSUME TailNamesAt(t, w) PROVE TailNames(t, ref)
  <2>1. PICK i \in Nat :
            /\ StartsAfter(t, i, w)
            /\ \A n \in i + m + 1 .. L : t[n] = "/" \/ (n = L /\ t[n] = ".git")
    BY <1>4 DEF TailNamesAt
  <2>2. /\ i + m <= L /\ Fits(t, i, w)
        /\ i = 0 \/ t[i] = "/"
    BY <2>1 DEF StartsAfter
  <2> HIDE DEF L, m
  <2> DEFINE first == i + 1
             last == i + m
  <2>3. first \in 1 .. L /\ last \in 1 .. L /\ first - 1 = i /\ first - 1 + m = last
    BY <1>1, <2>2
  <2>4. SubSeq(t, first, last) = w
    <3> HIDE DEF first, last
    <3>1. QED
      BY <1>2, <2>2, <2>3
  <2>5. first = 1 \/ t[first - 1] = "/"
    BY <2>2, <2>3
  <2>6. \A n \in last + 1 .. L : t[n] = "/" \/ (n = L /\ t[n] = ".git")
    BY <2>1
  <2> HIDE DEF first, last
  <2>7. QED
    BY <1>1, <2>3, <2>4, <2>5, <2>6 DEF TailNames, w, L
<1>5. QED
  BY <1>3, <1>4 DEF w

\* Dropping ".git" at the end keeps the name a text means.
LEMMA SuffixKeeps ==
    ASSUME NEW t \in Seq(Token), NEW w, NEW k, Named(w, k)
    PROVE  /\ TrimSuffix(t) \in Seq(Token)
           /\ TailNamesAt(t, w) <=>
              \E i \in Nat :
                  /\ StartsAfter(TrimSuffix(t), i, w)
                  /\ \A n \in i + Len(w) + 1 .. Len(TrimSuffix(t)) : TrimSuffix(t)[n] = "/"
<1> DEFINE L == Len(t)
           m == Len(w)
           u == TrimSuffix(t)
<1>1. L \in Nat /\ m \in Nat /\ m >= 3 /\ w[m] # ".git"
  <2>1. m \in Nat /\ k \in 2 .. m - 1 /\ w[m] # ".git"
    BY DEF Named
  <2> HIDE DEF m
  <2>2. QED
    BY <2>1
<1>2. L \in At(".git", t) <=> L > 0 /\ t[L] = ".git"
  BY DEF At
<1>3. CASE L > 0 /\ t[L] = ".git"
  <2>1. u = SubSeq(t, 1, L - 1)
    BY <1>2, <1>3 DEF TrimSuffix
  <2>2. \A n \in 1 .. L - 1 : t[n] \in Token
    OBVIOUS
  <2>3. /\ SubSeq(t, 1, L - 1) \in Seq(Token) /\ Len(SubSeq(t, 1, L - 1)) = L - 1
        /\ \A n \in 1 .. L - 1 : SubSeq(t, 1, L - 1)[n] = t[n]
    <3> HIDE DEF L
    <3>1. /\ 1 \in Int /\ L - 1 \in Int /\ 1 <= L
          /\ (1 <= L - 1 => L - 1 - 1 + 1 = L - 1) /\ (~ (1 <= L - 1) => L - 1 = 0)
          /\ \A n \in 1 .. L - 1 : 1 + n - 1 = n
          /\ L - 1 - 1 + 1 = L - 1
      BY <1>1, <1>3
    <3>2. /\ SubSeq(t, 1, L - 1) \in Seq(Token)
          /\ Len(SubSeq(t, 1, L - 1)) = IF 1 <= L - 1 THEN L - 1 - 1 + 1 ELSE 0
          /\ \A n \in 1 .. L - 1 - 1 + 1 : SubSeq(t, 1, L - 1)[n] = t[1 + n - 1]
      BY <2>2, <3>1, SubSeqProperties
    <3>3. QED
      BY <3>1, <3>2
  <2>4. u \in Seq(Token) /\ Len(u) = L - 1 /\ \A n \in 1 .. L - 1 : u[n] = t[n]
    BY <2>1, <2>3
  <2> HIDE DEF u, L, m
  <2>5. ASSUME NEW i \in Nat, StartsAfter(u, i, w), \A n \in i + m + 1 .. Len(u) : u[n] = "/"
        PROVE  /\ StartsAfter(t, i, w)
               /\ \A n \in i + m + 1 .. L : t[n] = "/" \/ (n = L /\ t[n] = ".git")
    <3>1. /\ i + m <= L - 1 /\ \A x \in 1 .. m : u[i + x] = w[x]
          /\ i = 0 \/ u[i] = "/"
      BY <2>4, <2>5 DEF StartsAfter, Fits, m
    <3>2. \A x \in 1 .. m : t[i + x] = w[x]
      BY <1>1, <2>4, <3>1
    <3>3. i = 0 \/ t[i] = "/"
      <4>1. i = 0 \/ i \in 1 .. L - 1
        BY <1>1, <3>1
      <4>2. QED
        BY <2>4, <3>1, <4>1
    <3>4. i + m <= L
      BY <1>1, <3>1
    <3>5. ASSUME NEW n \in i + m + 1 .. L PROVE t[n] = "/" \/ (n = L /\ t[n] = ".git")
      <4>1. n = L \/ n \in i + m + 1 .. L - 1
        BY <1>1
      <4>2. n \in i + m + 1 .. L - 1 => n \in 1 .. L - 1
        BY <1>1
      <4>3. QED
        BY <1>3, <2>4, <2>5, <4>1, <4>2
    <3>6. QED
      BY <3>2, <3>3, <3>4, <3>5 DEF StartsAfter, Fits, m, L
  <2>6. ASSUME NEW i \in Nat, StartsAfter(t, i, w),
               \A n \in i + m + 1 .. L : t[n] = "/" \/ (n = L /\ t[n] = ".git")
        PROVE  StartsAfter(u, i, w) /\ \A n \in i + m + 1 .. Len(u) : u[n] = "/"
    <3>1. /\ i + m <= L /\ \A x \in 1 .. m : t[i + x] = w[x]
          /\ i = 0 \/ t[i] = "/"
      BY <2>6 DEF StartsAfter, Fits, m, L
    <3>2. i + m <= L - 1
      <4>1. t[i + m] = w[m]
        BY <1>1, <3>1
      <4>2. i + m # L
        BY <1>1, <1>3, <4>1
      <4>3. QED
        BY <1>1, <3>1, <4>2
    <3>3. \A x \in 1 .. m : u[i + x] = w[x]
      <4> SUFFICES ASSUME NEW x \in 1 .. m PROVE u[i + x] = w[x]
        OBVIOUS
      <4>1. i + x \in 1 .. L - 1
        BY <1>1, <3>2
      <4>2. QED
        BY <2>4, <3>1, <4>1
    <3>4. i = 0 \/ u[i] = "/"
      <4>1. i = 0 \/ i \in 1 .. L - 1
        BY <1>1, <3>2
      <4>2. QED
        BY <2>4, <3>1, <4>1
    <3>5. ASSUME NEW n \in i + m + 1 .. L - 1 PROVE u[n] = "/"
      <4>1. n \in 1 .. L - 1 /\ n \in i + m + 1 .. L /\ n # L
        BY <1>1
      <4>2. QED
        BY <2>4, <2>6, <4>1
    <3>6. QED
      BY <2>4, <3>2, <3>3, <3>4, <3>5 DEF StartsAfter, Fits, m
  <2>7. QED
    BY <2>4, <2>5, <2>6 DEF TailNamesAt, u, L, m
<1>4. CASE ~ (L > 0 /\ t[L] = ".git")
  <2>1. u = t
    BY <1>2, <1>4 DEF TrimSuffix
  <2>2. \A i \in Nat : \A n \in i + m + 1 .. L : ~ (n = L /\ t[n] = ".git")
    <3> HIDE DEF L, m
    <3> SUFFICES ASSUME NEW i \in Nat, NEW n \in i + m + 1 .. L PROVE ~ (n = L /\ t[n] = ".git")
      OBVIOUS
    <3>1. n > 0
      BY <1>1
    <3>2. QED
      BY <1>4, <3>1
  <2> HIDE DEF u
  <2>3. QED
    BY <2>1, <2>2 DEF TailNamesAt, u
<1>5. QED
  BY <1>3, <1>4

\* Trimming slashes keeps the name the text ends with, and puts it last.
LEMMA TrimKeeps ==
    ASSUME NEW t \in Seq(Token), NEW w, NEW k, Named(w, k)
    PROVE  EndsWith(Trim(t), w) <=>
              \E i \in Nat :
                  /\ StartsAfter(t, i, w)
                  /\ \A n \in i + Len(w) + 1 .. Len(t) : t[n] = "/"
<1> DEFINE rest == DOMAIN t \ At("/", t)
           L == Len(t)
           m == Len(w)
           a == Min(rest)
           b == Max(rest)
<1>1. /\ L \in Nat /\ m \in Nat /\ m >= 3
      /\ rest = {n \in 1 .. L : t[n] # "/"}
      /\ w \in Seq(Token) /\ w[m] # "/" /\ w[1] # "/"
  <2>1. L \in Nat /\ DOMAIN t = 1 .. L /\ w \in Seq(Token)
    BY DEF Named
  <2>2. rest = {n \in 1 .. L : t[n] # "/"}
    BY <2>1 DEF At
  <2>3. m \in Nat /\ k \in 2 .. m - 1 /\ \A x \in 1 .. m : w[x] = "/" <=> x = k
    BY <2>1 DEF Named
  <2> HIDE DEF m
  <2>4. m >= 3 /\ w[m] # "/" /\ w[1] # "/"
    BY <2>3
  <2>5. QED
    BY <2>1, <2>2, <2>3, <2>4 DEF m
<1> HIDE DEF rest
<1>2. /\ rest \subseteq Nat /\ rest \subseteq 0 .. L
      /\ \A n \in rest : n \in 1 .. L /\ t[n] # "/"
      /\ \A n \in 1 .. L : n \notin rest => t[n] = "/"
  BY <1>1
<1>3. ASSUME rest # {}
      PROVE  /\ a \in rest /\ b \in rest /\ \A n \in rest : a <= n /\ n <= b
             /\ a \in 1 .. L /\ b \in 1 .. L /\ a <= b
             /\ Trim(t) \in Seq(Token) /\ Len(Trim(t)) = b - a + 1
             /\ \A x \in 1 .. b - a + 1 : Trim(t)[x] = t[a + x - 1]
  <2>1. a \in rest /\ \A n \in rest : a <= n
    BY <1>2, <1>3, MinFacts
  <2>2. b \in rest /\ \A n \in rest : n <= b
    BY <1>1, <1>2, <1>3, MaxFacts
  <2>3. a \in 1 .. L /\ b \in 1 .. L /\ a <= b
    BY <1>2, <2>1, <2>2
  <2>4. Trim(t) = SubSeq(t, a, b)
    BY <1>3 DEF Trim, rest
  <2>5. \A n \in a .. b : t[n] \in Token
    <3> HIDE DEF a, b
    <3>1. QED
      BY <2>3
  <2> HIDE DEF a, b
  <2>6. /\ SubSeq(t, a, b) \in Seq(Token) /\ Len(SubSeq(t, a, b)) = b - a + 1
        /\ \A x \in 1 .. b - a + 1 : SubSeq(t, a, b)[x] = t[a + x - 1]
    BY <2>3, <2>5, SubSeqProperties
  <2>7. QED
    BY <2>1, <2>2, <2>3, <2>4, <2>6
<1>4. ASSUME EndsWith(Trim(t), w)
      PROVE  \E i \in Nat :
                  /\ StartsAfter(t, i, w)
                  /\ \A n \in i + Len(w) + 1 .. Len(t) : t[n] = "/"
  <2>1. rest # {}
    <3>1. rest = {} => Len(Trim(t)) = 0
      BY DEF Trim, rest
    <3>2. QED
      BY <1>1, <1>4, <3>1 DEF EndsWith
  <2>2. /\ a \in rest /\ b \in rest /\ \A n \in rest : a <= n /\ n <= b
        /\ a \in 1 .. L /\ b \in 1 .. L /\ a <= b
        /\ Len(Trim(t)) = b - a + 1
        /\ \A x \in 1 .. b - a + 1 : Trim(t)[x] = t[a + x - 1]
    BY <1>3, <2>1
  <2> DEFINE i == b - m
  <2>3. /\ m <= b - a + 1
        /\ \A x \in 1 .. m : Trim(t)[b - a + 1 - m + x] = w[x]
        /\ b - a + 1 = m \/ Trim(t)[b - a + 1 - m] = "/"
    <3> HIDE DEF a, b
    <3>1. /\ m <= Len(Trim(t))
          /\ \A x \in 1 .. m : Trim(t)[Len(Trim(t)) - m + x] = w[x]
          /\ Len(Trim(t)) = m \/ Trim(t)[Len(Trim(t)) - m] = "/"
      BY <1>4 DEF EndsWith, Fits
    <3> HIDE DEF m
    <3>2. Len(Trim(t)) = b - a + 1
      BY <2>2
    <3>3. QED
      BY <1>1, <2>2, <3>1, <3>2
  <2> HIDE DEF a, b, m, L
  <2>4. i \in Nat /\ i + m = b /\ i >= a - 1
    BY <1>1, <2>2, <2>3
  <2>5. \A x \in 1 .. m : t[i + x] = w[x]
    <3> SUFFICES ASSUME NEW x \in 1 .. m PROVE t[i + x] = w[x]
      OBVIOUS
    <3>1. /\ b - a + 1 - m + x \in 1 .. b - a + 1
          /\ a + (b - a + 1 - m + x) - 1 = i + x
      BY <1>1, <2>2, <2>3
    <3>2. QED
      BY <2>2, <2>3, <3>1
  <2>6. i = 0 \/ t[i] = "/"
    <3>1. CASE b - a + 1 = m
      <4>1. i = a - 1
        BY <1>1, <2>2, <3>1
      <4>2. i \notin rest
        BY <1>2, <2>2, <4>1
      <4>3. i = 0 \/ i \in 1 .. L
        BY <1>1, <2>2, <4>1
      <4>4. QED
        BY <1>2, <4>2, <4>3
    <3>2. CASE b - a + 1 # m
      <4>1. /\ b - a + 1 - m \in 1 .. b - a + 1
            /\ a + (b - a + 1 - m) - 1 = i
        BY <1>1, <2>2, <2>3, <3>2
      <4>2. QED
        BY <2>2, <2>3, <3>2, <4>1
    <3>3. QED
      BY <3>1, <3>2
  <2>7. \A n \in i + m + 1 .. L : t[n] = "/"
    <3> SUFFICES ASSUME NEW n \in i + m + 1 .. L PROVE t[n] = "/"
      OBVIOUS
    <3>1. n \in 1 .. L /\ ~ (n <= b)
      BY <1>1, <2>2, <2>4
    <3>2. QED
      BY <1>2, <2>2, <3>1
  <2>8. StartsAfter(t, i, w)
    <3>1. i + m <= L
      BY <1>1, <2>2, <2>4
    <3>2. QED
      BY <2>5, <2>6, <3>1 DEF StartsAfter, Fits, m, L
  <2>9. QED
    BY <2>4, <2>7, <2>8 DEF m, L
<1>5. ASSUME NEW i \in Nat, StartsAfter(t, i, w),
             \A n \in i + Len(w) + 1 .. Len(t) : t[n] = "/"
      PROVE  EndsWith(Trim(t), w)
  <2>1. /\ i + m <= L /\ \A x \in 1 .. m : t[i + x] = w[x]
        /\ (i = 0 \/ t[i] = "/") /\ \A n \in i + m + 1 .. L : t[n] = "/"
    BY <1>5 DEF StartsAfter, Fits
  <2> HIDE DEF m, L
  <2>2. i + m \in rest /\ i + 1 \in rest
    <3>1. i + m \in 1 .. L /\ i + 1 \in 1 .. L /\ m \in 1 .. m /\ 1 \in 1 .. m
      BY <1>1, <2>1
    <3>2. t[i + m] = w[m] /\ t[i + 1] = w[1]
      BY <2>1, <3>1
    <3>3. QED
      BY <1>1, <1>2, <3>1, <3>2
  <2>3. /\ \A n \in rest : a <= n /\ n <= b
        /\ b \in rest /\ a \in 1 .. L /\ b \in 1 .. L /\ a <= b
        /\ Len(Trim(t)) = b - a + 1
        /\ \A x \in 1 .. b - a + 1 : Trim(t)[x] = t[a + x - 1]
    BY <1>3, <2>2 DEF L
  <2> HIDE DEF a, b
  <2>4. b = i + m
    <3>1. i + m <= b
      BY <2>2, <2>3
    <3>2. ~ (b > i + m)
      <4>1. b > i + m => b \in i + m + 1 .. L
        BY <1>1, <2>3
      <4>2. QED
        BY <1>2, <2>1, <2>3, <4>1
    <3>3. QED
      BY <1>1, <2>3, <3>1, <3>2
  <2>5. a <= i + 1
    BY <2>2, <2>3
  <2>6. m <= b - a + 1
    BY <1>1, <2>3, <2>4, <2>5
  <2>7. \A x \in 1 .. m : Trim(t)[b - a + 1 - m + x] = w[x]
    <3> SUFFICES ASSUME NEW x \in 1 .. m PROVE Trim(t)[b - a + 1 - m + x] = w[x]
      OBVIOUS
    <3>1. /\ b - a + 1 - m + x \in 1 .. b - a + 1
          /\ a + (b - a + 1 - m + x) - 1 = i + x
      BY <1>1, <2>3, <2>4, <2>6
    <3>2. QED
      BY <2>1, <2>3, <3>1
  <2>8. b - a + 1 = m \/ Trim(t)[b - a + 1 - m] = "/"
    <3> SUFFICES ASSUME b - a + 1 # m PROVE Trim(t)[b - a + 1 - m] = "/"
      OBVIOUS
    <3>1. /\ b - a + 1 - m \in 1 .. b - a + 1
          /\ a + (b - a + 1 - m) - 1 = i /\ i # 0
      BY <1>1, <2>3, <2>4, <2>6
    <3>2. QED
      BY <2>1, <2>3, <3>1
  <2>9. QED
    BY <2>3, <2>6, <2>7, <2>8 DEF EndsWith, Fits, m
<1>6. QED
  BY <1>4, <1>5

\* The last two parts are the name that the text ends with.
LEMMA LastTwoKeeps ==
    ASSUME NEW s \in Seq(Token), NEW w, NEW k, Named(w, k)
    PROVE  LastTwo(s) = w <=> EndsWith(s, w)
<1> DEFINE slashes == At("/", s)
           earlier == slashes \ {Max(slashes)}
           L == Len(s)
           i == Len(s) - Len(w)
<1>0. /\ slashes = {n \in 1 .. L : s[n] = "/"} /\ slashes \subseteq 0 .. L
      /\ IsFiniteSet(slashes) /\ L \in Nat /\ Len(w) \in Nat
  <2>1. DOMAIN s = 1 .. L /\ L \in Nat /\ Len(w) \in Nat
    BY DEF Named
  <2>2. slashes = {n \in 1 .. L : s[n] = "/"}
    BY <2>1 DEF At
  <2>3. IsFiniteSet(1 .. L)
    BY <2>1, FS_Interval
  <2>4. IsFiniteSet(slashes)
    BY <2>2, <2>3, FS_Subset
  <2>5. QED
    BY <2>1, <2>2, <2>4
<1> HIDE DEF slashes
<1>1. ASSUME EndsWith(s, w) PROVE LastTwo(s) = w
  <2>1. /\ i \in Nat /\ i + k \in slashes /\ w \in Seq(Token)
        /\ k \in 2 .. Len(w) - 1
        /\ \A x \in 1 .. Len(w) : s[i + x] = w[x]
        /\ \A x \in 1 .. Len(w) : w[x] = "/" <=> x = k
        /\ i = 0 \/ s[i] = "/"
    <3>1. /\ i \in Nat /\ i + Len(w) = L /\ (i = 0 \/ s[i] = "/")
          /\ \A x \in 1 .. Len(w) : s[i + x] = w[x]
      BY <1>0, <1>1 DEF EndsWith, Fits
    <3> HIDE DEF i, L
    <3>2. /\ w \in Seq(Token) /\ k \in 2 .. Len(w) - 1
          /\ \A x \in 1 .. Len(w) : w[x] = "/" <=> x = k
      BY DEF Named
    <3>3. i + k \in 1 .. L /\ s[i + k] = "/"
      BY <1>0, <3>1, <3>2
    <3>4. i + k \in slashes
      BY <1>0, <3>3
    <3>5. QED
      BY <3>1, <3>2, <3>4
  <2>2. \A n \in slashes : n <= i \/ n = i + k
    <3> SUFFICES ASSUME NEW n \in slashes, ~ (n <= i) PROVE n = i + k
      OBVIOUS
    <3>1. n - i \in 1 .. Len(w) /\ s[i + (n - i)] = "/"
      BY <1>0, <2>1
    <3>2. w[n - i] = "/"
      BY <2>1, <3>1
    <3>3. n - i = k
      BY <2>1, <3>1, <3>2
    <3>4. n \in Nat /\ i \in Nat /\ k \in Nat
      BY <1>0, <2>1
    <3> HIDE DEF i
    <3>5. QED
      BY <3>3, <3>4
  <2>3. Max(slashes) = i + k
    <3>1. \A n \in slashes : n \in Nat /\ n <= i + k
      <4> HIDE DEF i
      <4>1. QED
        BY <1>0, <2>1, <2>2
    <3>2. slashes \subseteq Nat
      BY <3>1
    <3>3. QED
      BY <2>1, <3>1, <3>2, MaxIs
  <2>4. CASE i = 0
    <3>1. slashes = {k}
      BY <1>0, <2>1, <2>2, <2>4
    <3>2. Cardinality(slashes) < 2
      <4>1. Cardinality(slashes) = 1
        BY <3>1, FS_Singleton
      <4>2. QED
        BY <4>1
    <3>3. LastTwo(s) = s
      BY <3>2 DEF LastTwo, slashes
    <3>4. Len(s) = Len(w) /\ \A x \in 1 .. Len(s) : s[x] = w[x]
      BY <1>0, <2>1, <2>4
    <3>5. s = w
      BY <2>1, <3>4, SeqEqual
    <3>6. QED
      BY <3>3, <3>5
  <2>5. CASE i # 0
    <3>1. i \in slashes /\ i # i + k
      BY <1>0, <2>1, <2>5
    <3>2. ~ (Cardinality(slashes) < 2)
      BY <1>0, <2>1, <3>1, PairCounts
    <3>3. i \in earlier /\ earlier \subseteq Nat /\ \A n \in earlier : n <= i
      <4>1. \A n \in slashes : n \in Nat
        BY <1>0
      <4>2. \A n \in earlier : n \in slashes /\ n # i + k
        BY <2>3
      <4>3. i \in earlier
        BY <2>3, <3>1
      <4> HIDE DEF earlier, i
      <4>4. QED
        BY <2>2, <4>1, <4>2, <4>3
    <3>4. Max(earlier) = i
      <4> HIDE DEF earlier, i
      <4>1. QED
        BY <3>3, MaxIs
    <3>5. LastTwo(s) = SubSeq(s, i + 1, L)
      BY <3>2, <3>4 DEF LastTwo, slashes
    <3>6. /\ SubSeq(s, i + 1, L) \in Seq(Token)
          /\ Len(SubSeq(s, i + 1, L)) = Len(w)
          /\ \A x \in 1 .. Len(w) : SubSeq(s, i + 1, L)[x] = s[i + x]
      BY <1>0, <2>1
    <3>7. SubSeq(s, i + 1, L) = w
      BY <2>1, <3>6, SeqEqual
    <3>8. QED
      BY <3>5, <3>7
  <2>6. QED
    BY <2>4, <2>5
<1>2. ASSUME LastTwo(s) = w PROVE EndsWith(s, w)
  <2>1. CASE Cardinality(slashes) < 2
    <3>1. s = w
      BY <1>2, <2>1 DEF LastTwo, slashes
    <3>2. QED
      BY <3>1, <1>0 DEF EndsWith, Fits
  <2>2. CASE ~ (Cardinality(slashes) < 2)
    <3>1. earlier # {}
      <4>1. slashes # {}
        <5>1. slashes = {} => Cardinality(slashes) = 0
          BY <1>0, FS_EmptySet
        <5>2. QED
          BY <2>2, <5>1
      <4>2. \A x : slashes # {x}
        <5> SUFFICES ASSUME NEW x, slashes = {x} PROVE FALSE
          OBVIOUS
        <5>1. Cardinality(slashes) = 1
          BY FS_Singleton
        <5>2. QED
          BY <2>2, <5>1
      <4>3. QED
        BY <4>1, <4>2
    <3>2. earlier \subseteq 0 .. L
      BY <1>0
    <3>3. Max(earlier) \in earlier
      <4> HIDE DEF earlier, L
      <4>1. QED
        BY <1>0, <3>1, <3>2, MaxFacts
    <3> DEFINE m == Max(earlier)
    <3>4. m \in 1 .. L /\ s[m] = "/"
      BY <1>0, <3>3
    <3>5. w = SubSeq(s, m + 1, L)
      BY <1>2, <2>2 DEF LastTwo, slashes
    <3> HIDE DEF m, earlier
    <3>6. /\ Len(w) = L - m
          /\ \A x \in 1 .. Len(w) : w[x] = s[m + x]
      BY <1>0, <3>4, <3>5
    <3>7. QED
      BY <1>0, <3>4, <3>6 DEF EndsWith, Fits
  <2>3. QED
    BY <2>1, <2>2
<1>3. QED
  BY <1>1, <1>2

\* Splitting at the slash gives the two parts of the full name back.
LEMMA SplitKeeps ==
    ASSUME NEW s \in Seq(Token), NEW ref, IsRef(ref)
    PROVE  LET refs == {<<SubSeq(s, 1, n - 1), SubSeq(s, n + 1, Len(s))>> : n \in At("/", s)}
               valid == {r \in refs : IsPart(r[1]) /\ IsPart(r[2])} IN
           (IF valid = {} THEN Invalid ELSE CHOOSE r \in valid : TRUE) = ref
              <=> s = FullName(ref)
<1> DEFINE refs == {<<SubSeq(s, 1, n - 1), SubSeq(s, n + 1, Len(s))>> : n \in At("/", s)}
           valid == {r \in refs : IsPart(r[1]) /\ IsPart(r[2])}
           o == ref[1]
           m == ref[2]
           w == FullName(ref)
           k == Len(o) + 1
           L == Len(s)
<1>1. /\ w \in Seq(Token) /\ Len(w) = k + Len(m)
      /\ k \in 2 .. Len(w) - 1 /\ (\A x \in 1 .. Len(w) : w[x] = "/" <=> x = k)
      /\ \A x \in 1 .. Len(o) : w[x] = o[x]
      /\ \A x \in 1 .. Len(m) : w[k + x] = m[x]
  BY RefFacts DEF Named
<1>2. o \in Seq(Token) /\ m \in Seq(Token) /\ ref = <<o, m>> /\ IsPart(o) /\ IsPart(m)
  <2>1. Part \subseteq Token
    BY DEF Token
  <2>2. QED
    BY <2>1, SeqMonotonic DEF IsRef
<1>3. Len(o) \in Nat /\ Len(m) \in Nat /\ L \in Nat /\ k = Len(o) + 1
  BY <1>2
<1> HIDE DEF o, m, w, k
<1>4. \A n : n \in At("/", s) <=> n \in 1 .. L /\ s[n] = "/"
  BY DEF At
<1>5. ASSUME NEW n \in 1 .. L
      PROVE  /\ SubSeq(s, 1, n - 1) \in Seq(Token)
             /\ Len(SubSeq(s, 1, n - 1)) = n - 1
             /\ \A x \in 1 .. n - 1 : SubSeq(s, 1, n - 1)[x] = s[x]
             /\ SubSeq(s, n + 1, L) \in Seq(Token)
             /\ Len(SubSeq(s, n + 1, L)) = L - n
             /\ \A x \in 1 .. L - n : SubSeq(s, n + 1, L)[x] = s[n + x]
  <2>1. \A x \in 1 .. L : s[x] \in Token
    OBVIOUS
  <2> HIDE DEF L
  <2>2. \A x \in 1 .. n - 1 : s[x] \in Token
    BY <1>3, <2>1
  <2>3. \A x \in n + 1 .. L : s[x] \in Token
    BY <1>3, <2>1
  <2>4. 1 \in Int /\ n - 1 \in Int /\ n + 1 \in Int /\ L \in Int
    BY <1>3
  <2>5. /\ SubSeq(s, 1, n - 1) \in Seq(Token)
        /\ Len(SubSeq(s, 1, n - 1)) = IF 1 <= n - 1 THEN n - 1 - 1 + 1 ELSE 0
        /\ \A x \in 1 .. n - 1 - 1 + 1 : SubSeq(s, 1, n - 1)[x] = s[1 + x - 1]
    BY <2>2, <2>4, SubSeqProperties
  <2>6. /\ SubSeq(s, n + 1, L) \in Seq(Token)
        /\ Len(SubSeq(s, n + 1, L)) = IF n + 1 <= L THEN L - (n + 1) + 1 ELSE 0
        /\ \A x \in 1 .. L - (n + 1) + 1 : SubSeq(s, n + 1, L)[x] = s[n + 1 + x - 1]
    BY <2>3, <2>4, SubSeqProperties
  <2>7. /\ (IF 1 <= n - 1 THEN n - 1 - 1 + 1 ELSE 0) = n - 1 /\ n - 1 - 1 + 1 = n - 1
        /\ (IF n + 1 <= L THEN L - (n + 1) + 1 ELSE 0) = L - n /\ L - (n + 1) + 1 = L - n
        /\ \A x \in Int : 1 + x - 1 = x /\ n + 1 + x - 1 = n + x
    BY <1>3
  <2>8. QED
    BY <2>5, <2>6, <2>7
<1>6. ASSUME s = w
      PROVE  valid # {} /\ \A r \in valid : r = ref
  <2>1. L = Len(w) /\ k \in 1 .. L /\ s[k] = "/" /\ L - k = Len(m) /\ k - 1 = Len(o)
    BY <1>1, <1>3, <1>6
  <2>2. SubSeq(s, 1, k - 1) = o
    <3>1. \A x \in 1 .. Len(SubSeq(s, 1, k - 1)) : SubSeq(s, 1, k - 1)[x] = o[x]
      BY <1>1, <1>5, <1>6, <2>1
    <3>2. QED
      BY <1>2, <1>5, <2>1, <3>1, SeqEqual
  <2>3. SubSeq(s, k + 1, L) = m
    <3>1. \A x \in 1 .. Len(SubSeq(s, k + 1, L)) : SubSeq(s, k + 1, L)[x] = m[x]
      BY <1>1, <1>5, <1>6, <2>1
    <3>2. QED
      BY <1>2, <1>5, <2>1, <3>1, SeqEqual
  <2>4. \A n \in At("/", s) : n = k
    BY <1>1, <1>4, <1>6, <2>1
  <2>5. k \in At("/", s)
    BY <1>4, <2>1
  <2>6. \A r \in refs : r = ref
    BY <1>2, <2>2, <2>3, <2>4
  <2>7. ref \in refs
    BY <1>2, <2>2, <2>3, <2>5
  <2>8. ref[1] = o /\ ref[2] = m
    BY DEF o, m
  <2>9. QED
    BY <1>2, <2>6, <2>7, <2>8
<1>7. ASSUME valid # {}, (CHOOSE r \in valid : TRUE) = ref
      PROVE  s = w
  <2>1. ref \in refs
    <3> HIDE DEF refs
    <3>1. ref \in valid
      <4> HIDE DEF valid
      <4>1. QED
        BY <1>7
    <3>2. QED
      BY <3>1
  <2>2. PICK n \in At("/", s) : ref = <<SubSeq(s, 1, n - 1), SubSeq(s, n + 1, L)>>
    BY <2>1
  <2>3. n \in 1 .. L /\ s[n] = "/"
    BY <1>4, <2>2
  <2>4. o = SubSeq(s, 1, n - 1) /\ m = SubSeq(s, n + 1, L)
    BY <1>2, <2>2
  <2>5. n = k /\ Len(m) = L - k /\ L = Len(w)
    <3>1. Len(o) = n - 1 /\ Len(m) = L - n
      BY <1>5, <2>3, <2>4
    <3> HIDE DEF L
    <3>2. QED
      BY <1>1, <1>3, <2>3, <3>1
  <2>6. \A x \in 1 .. k - 1 : o[x] = s[x]
    BY <1>5, <2>3, <2>4, <2>5
  <2>7. \A x \in 1 .. L - k : m[x] = s[k + x]
    BY <1>5, <2>3, <2>4, <2>5
  <2>8. ASSUME NEW x \in 1 .. L PROVE s[x] = w[x]
    <3> HIDE DEF L
    <3>1. CASE x \in 1 .. Len(o)
      BY <1>1, <1>3, <2>6, <3>1
    <3>2. CASE x = k
      BY <1>1, <1>3, <2>3, <2>5, <3>2
    <3>3. CASE x - k \in 1 .. Len(m)
      <4>1. k + (x - k) = x
        BY <1>3
      <4>2. m[x - k] = s[k + (x - k)] /\ w[k + (x - k)] = m[x - k]
        BY <1>1, <2>5, <2>7, <3>3
      <4>3. QED
        BY <4>1, <4>2
    <3>4. QED
      BY <1>3, <2>5, <3>1, <3>2, <3>3
  <2>9. QED
    BY <1>1, <2>5, <2>8, SeqEqual
<1>8. Invalid # ref
  BY <1>2 DEF Invalid
<1>9. (IF valid = {} THEN Invalid ELSE CHOOSE r \in valid : TRUE) = ref <=> s = w
  <2> HIDE DEF valid
  <2>1. QED
    BY <1>6, <1>7, <1>8
<1>10. QED
  BY <1>9 DEF w

\* What is left of a text after each step is a text.
LEMMA TrimIsText == ASSUME NEW t \in Seq(Token) PROVE Trim(t) \in Seq(Token)
<1> DEFINE rest == DOMAIN t \ At("/", t)
           L == Len(t)
<1>1. L \in Nat /\ rest \subseteq 1 .. L /\ rest \subseteq 0 .. L /\ rest \subseteq Nat
  OBVIOUS
<1>2. CASE rest = {}
  BY <1>2, EmptySeq DEF Trim
<1>3. CASE rest # {}
  <2>1. Min(rest) \in 1 .. L /\ Max(rest) \in 1 .. L
    <3> HIDE DEF rest, L
    <3>1. QED
      BY <1>1, <1>3, MinFacts, MaxFacts
  <2>2. Trim(t) = SubSeq(t, Min(rest), Max(rest))
    BY <1>3 DEF Trim
  <2> HIDE DEF rest
  <2>3. \A n \in Min(rest) .. Max(rest) : t[n] \in Token
    BY <1>1, <2>1
  <2>4. QED
    BY <1>1, <2>1, <2>2, <2>3, SubSeqProperties
<1>4. QED
  BY <1>2, <1>3

LEMMA LastTwoIsText == ASSUME NEW s \in Seq(Token) PROVE LastTwo(s) \in Seq(Token)
<1> DEFINE slashes == At("/", s)
           earlier == slashes \ {Max(slashes)}
           L == Len(s)
<1>1. /\ L \in Nat /\ slashes \subseteq 1 .. L /\ earlier \subseteq 0 .. L
      /\ earlier \subseteq 1 .. L
  BY DEF At
<1>2. CASE Cardinality(slashes) < 2
  BY <1>2 DEF LastTwo
<1>3. CASE ~ (Cardinality(slashes) < 2)
  <2>1. LastTwo(s) = SubSeq(s, Max(earlier) + 1, L)
    BY <1>3 DEF LastTwo
  <2>2. Max(earlier) \in 1 .. L
    <3>1. slashes # {}
      <4>1. slashes = {} => Cardinality(slashes) = 0
        BY FS_EmptySet
      <4>2. QED
        BY <1>3, <4>1
    <3>2. \A x : slashes # {x}
      <4> SUFFICES ASSUME NEW x, slashes = {x} PROVE FALSE
        OBVIOUS
      <4>1. Cardinality(slashes) = 1
        BY FS_Singleton
      <4>2. QED
        BY <1>3, <4>1
    <3>3. earlier # {}
      BY <3>1, <3>2
    <3> HIDE DEF earlier, L
    <3>4. QED
      BY <1>1, <3>3, MaxFacts
  <2> HIDE DEF earlier
  <2>3. \A n \in Max(earlier) + 1 .. L : s[n] \in Token
    BY <1>1, <2>2
  <2>4. Max(earlier) + 1 \in Int /\ L \in Int
    BY <1>1, <2>2
  <2>5. QED
    BY <2>1, <2>3, <2>4, SubSeqProperties
<1>4. QED
  BY <1>2, <1>3

\* ParseRepoRef returns a repository exactly when the text ends with its name,
\* for texts of any length (repo.go): whatever stands before it is not looked
\* at, so the URL of a page is read by its last two parts.
THEOREM OnlyTheTailCounts ==
    ASSUME NEW t \in Seq(Token), NEW ref, IsRef(ref)
    PROVE  ParseRepoRef(t) = ref <=> TailNames(t, ref)
<1> DEFINE u == TrimSuffix(t)
           v == Trim(u)
           s == LastTwo(v)
           w == FullName(ref)
<1>1. Named(w, Len(ref[1]) + 1)
  BY RefFacts
<1>2. u \in Seq(Token)
  BY <1>1, SuffixKeeps
<1>3. v \in Seq(Token)
  BY <1>2, TrimIsText
<1>4. s \in Seq(Token)
  BY <1>3, LastTwoIsText
<1>5. ParseRepoRef(t) = ref <=> s = w
  BY <1>4, SplitKeeps DEF ParseRepoRef
<1>6. s = w <=> EndsWith(v, w)
  BY <1>1, <1>3, LastTwoKeeps
<1>7. EndsWith(v, w) <=>
        \E i \in Nat : StartsAfter(u, i, w) /\ \A n \in i + Len(w) + 1 .. Len(u) : u[n] = "/"
  BY <1>1, <1>2, TrimKeeps
<1>8. TailNamesAt(t, w) <=>
        \E i \in Nat : StartsAfter(u, i, w) /\ \A n \in i + Len(w) + 1 .. Len(u) : u[n] = "/"
  BY <1>1, SuffixKeeps
<1>9. TailNames(t, ref) <=> TailNamesAt(t, w)
  BY TailHasPosition
<1>10. QED
  BY <1>5, <1>6, <1>7, <1>8, <1>9

\* A form of a repository is a text that ends with its full name.
LEMMA FormsEndWithName ==
    ASSUME NEW ref, IsRef(ref), NEW t \in Forms(ref)
    PROVE  t \in Seq(Token) /\ TailNames(t, ref) /\ t # <<>>
<1> DEFINE w == FullName(ref)
<1>1. w \in Seq(Token) /\ Len(w) \in Nat /\ Len(w) >= 3
  <2>1. Named(w, Len(ref[1]) + 1)
    BY RefFacts
  <2>2. w \in Seq(Token) /\ Len(ref[1]) + 1 \in 2 .. Len(w) - 1
    BY <2>1 DEF Named
  <2> HIDE DEF w
  <2>3. QED
    BY <2>2, LenProperties
<1>2. PICK form \in {<<>>, Site}, ending \in {<<>>, <<"/">>, <<".git">>} :
         t = form \o w \o ending
  BY DEF Forms
<1> HIDE DEF w
<1>3. /\ form \in Seq(Token) /\ Len(form) \in Nat
      /\ Len(form) = 0 \/ form[Len(form)] = "/"
  <2>1. "https" \in Token /\ ":" \in Token /\ "/" \in Token /\ "github.com" \in Token
    BY DEF Token
  <2>2. CASE form = <<>>
    BY <2>2
  <2>3. CASE form = Site
    <3>1. form = <<"https", ":", "/", "/", "github.com", "/">>
      BY <2>3 DEF Site
    <3>2. Len(form) = 6 /\ form[6] = "/"
      BY <3>1
    <3>3. form \in Seq(Token)
      BY <2>1, <3>1
    <3>4. QED
      BY <3>2, <3>3
  <2>4. QED
    BY <1>2, <2>2, <2>3
<1>4. /\ ending \in Seq(Token) /\ Len(ending) \in {0, 1}
      /\ \A n \in 1 .. Len(ending) :
            ending[n] = "/" \/ (n = Len(ending) /\ ending[n] = ".git")
  <2>1. "/" \in Token /\ ".git" \in Token
    BY DEF Token, Part
  <2>2. CASE ending = <<>>
    BY <2>2
  <2>3. CASE ending = <<"/">>
    <3>1. Len(ending) = 1 /\ ending[1] = "/"
      BY <2>3
    <3>2. QED
      BY <2>1, <2>3, <3>1
  <2>4. CASE ending = <<".git">>
    <3>1. Len(ending) = 1 /\ ending[1] = ".git"
      BY <2>4
    <3>2. QED
      BY <2>1, <2>4, <3>1
  <2>5. QED
    BY <1>2, <2>2, <2>3, <2>4
<1> DEFINE u == form \o w
           i == Len(form)
<1>5. /\ u \in Seq(Token) /\ Len(u) = i + Len(w)
      /\ \A x \in 1 .. i + Len(w) : u[x] = IF x <= i THEN form[x] ELSE w[x - i]
  BY <1>1, <1>3, ConcatProperties
<1>6. /\ t \in Seq(Token) /\ Len(t) = Len(u) + Len(ending)
      /\ \A x \in 1 .. Len(u) + Len(ending) :
            t[x] = IF x <= Len(u) THEN u[x] ELSE ending[x - Len(u)]
  BY <1>2, <1>4, <1>5, ConcatProperties
<1> HIDE DEF u, i
<1>7. i \in Nat /\ Len(t) = i + Len(w) + Len(ending)
  BY <1>3, <1>5, <1>6 DEF i
<1>8. \A x \in 1 .. Len(w) : t[i + x] = w[x]
  <2> SUFFICES ASSUME NEW x \in 1 .. Len(w) PROVE t[i + x] = w[x]
    OBVIOUS
  <2>1. i + x \in 1 .. i + Len(w) /\ ~ (i + x <= i) /\ (i + x) - i = x
    BY <1>1, <1>7
  <2>2. t[i + x] = u[i + x]
    BY <1>1, <1>4, <1>5, <1>6, <1>7, <2>1
  <2>3. u[i + x] = w[x]
    BY <1>5, <2>1
  <2>4. QED
    BY <2>2, <2>3
<1>9. i = 0 \/ t[i] = "/"
  <2> SUFFICES ASSUME i # 0 PROVE t[i] = "/"
    OBVIOUS
  <2>1. i \in 1 .. i + Len(w) /\ i <= Len(u) /\ i <= i
    BY <1>1, <1>5, <1>7
  <2>2. t[i] = u[i] /\ u[i] = form[i]
    BY <1>4, <1>5, <1>6, <1>7, <1>1, <2>1
  <2>3. QED
    BY <1>3, <2>2 DEF i
<1>10. \A n \in i + Len(w) + 1 .. Len(t) : t[n] = "/" \/ (n = Len(t) /\ t[n] = ".git")
  <2> SUFFICES ASSUME NEW n \in i + Len(w) + 1 .. Len(t)
               PROVE  t[n] = "/" \/ (n = Len(t) /\ t[n] = ".git")
    OBVIOUS
  <2>1. /\ n - Len(u) \in 1 .. Len(ending) /\ ~ (n <= Len(u))
        /\ n \in 1 .. Len(u) + Len(ending)
        /\ n - Len(u) = Len(ending) => n = Len(t)
    BY <1>1, <1>4, <1>5, <1>7
  <2>2. t[n] = ending[n - Len(u)]
    BY <1>6, <2>1
  <2>3. QED
    BY <1>4, <2>1, <2>2
<1>11. TailNamesAt(t, w)
  <2>1. i + Len(w) <= Len(t)
    BY <1>1, <1>4, <1>7
  <2>2. StartsAfter(t, i, w)
    BY <1>8, <1>9, <2>1 DEF StartsAfter, Fits
  <2>3. QED
    BY <1>7, <1>10, <2>2 DEF TailNamesAt
<1>12. TailNames(t, ref)
  BY <1>6, <1>11, TailHasPosition DEF w
<1>13. t # <<>>
  <2>1. Len(t) # 0
    BY <1>1, <1>4, <1>7
  <2>2. QED
    BY <2>1
<1>14. QED
  BY <1>6, <1>12, <1>13

\* Every form that repo.go promises to accept is read as the repository it is
\* a form of.
THEOREM FormsAreRead ==
    ASSUME NEW ref, IsRef(ref), NEW t \in Forms(ref)
    PROVE  ParseRepoRef(t) = ref
  BY FormsEndWithName, OnlyTheTailCounts
=============================================================================
