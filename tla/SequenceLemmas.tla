---------------------------- MODULE SequenceLemmas ----------------------------
(***************************************************************************)
(* Lemmas the proofs of several components rest on: about sequences,       *)
(* induction, recursion, and the folds of sequences.                       *)
(*                                                                         *)
(* The induction theorems of the library are stated for a predicate, which *)
(* the provers at hand cannot instantiate; here induction is stated for a  *)
(* set and follows from the least element a set of numbers has.            *)
(*                                                                         *)
(* FoldLeft(op, b, s) is the value at DOMAIN s of a function on the subsets*)
(* of DOMAIN s that is chosen by a recursive equation.  TableExists says   *)
(* that the equation has a solution, TableIsRun that along 1 .. 0, 1 .. 1  *)
(* and so on every solution makes the steps a loop over s makes, from the  *)
(* first element to the last.                                              *)
(***************************************************************************)
EXTENDS Integers, Sequences, FiniteSets, SequencesExt, SequenceTheorems,
        FiniteSetTheorems, WellFoundedInduction, TLAPS

-----------------------------------------------------------------------------
(* Sequences                                                               *)

\* A sequence over a set is one over every larger set.
LEMMA SeqWiden ==
  ASSUME NEW S, NEW T, S \subseteq T, NEW s \in Seq(S)
  PROVE  s \in Seq(T)
<1>1. Len(s) \in Nat /\ s \in [1 .. Len(s) -> S]
  BY LenProperties
<1>2. s \in [1 .. Len(s) -> T]
  BY <1>1
<1> QED BY <1>1, <1>2

\* An append keeps what is there, in its place.
LEMMA AppendFacts ==
  ASSUME NEW S, NEW s \in Seq(S), NEW e
  PROVE  /\ Append(s, e) \in Seq(S \cup {e})
         /\ Len(Append(s, e)) = Len(s) + 1
         /\ \A k \in 1 .. Len(s) : Append(s, e)[k] = s[k]
         /\ Append(s, e)[Len(s) + 1] = e
<1>1. s \in Seq(S \cup {e}) /\ e \in S \cup {e}
  BY SeqWiden
<1> QED BY <1>1, AppendProperties

\* A tail is what follows the head, moved up by one.
LEMMA TailFacts ==
  ASSUME NEW S, NEW s \in Seq(S), s # <<>>
  PROVE  /\ Tail(s) \in Seq(S)
         /\ Len(s) \in Nat /\ Len(Tail(s)) = Len(s) - 1
         /\ 1 \in 1 .. Len(s) /\ Head(s) = s[1]
         /\ \A k \in 1 .. Len(Tail(s)) : k + 1 \in 1 .. Len(s) /\ Tail(s)[k] = s[k + 1]
<1>1. /\ Tail(s) \in Seq(S) /\ Len(Tail(s)) = Len(s) - 1
      /\ \A i \in 1 .. Len(Tail(s)) : Tail(s)[i] = s[i + 1]
  BY HeadTailProperties
<1>2. Len(s) \in Nat \ {0}
  BY EmptySeq
<1>3. Head(s) = s[1]
  OBVIOUS
<1> QED BY <1>1, <1>2, <1>3

\* What is in a concatenation is in one of the two.
LEMMA ConcatFacts ==
  ASSUME NEW S, NEW s \in Seq(S), NEW T, NEW t \in Seq(T)
  PROVE  /\ s \o t \in Seq(S \cup T)
         /\ \A k \in 1 .. Len(s \o t) :
              \/ k \in 1 .. Len(s) /\ (s \o t)[k] = s[k]
              \/ \E j \in 1 .. Len(t) : (s \o t)[k] = t[j]
<1>1. s \in Seq(S \cup T) /\ t \in Seq(S \cup T)
  BY SeqWiden
<1>2. /\ s \o t \in Seq(S \cup T) /\ Len(s \o t) = Len(s) + Len(t)
      /\ \A i \in 1 .. Len(s) + Len(t) :
           (s \o t)[i] = IF i <= Len(s) THEN s[i] ELSE t[i - Len(s)]
  BY <1>1, ConcatProperties
<1>3. Len(s) \in Nat /\ Len(t) \in Nat
  BY LenProperties
<1>4. ASSUME NEW k \in 1 .. Len(s \o t)
      PROVE  \/ k \in 1 .. Len(s) /\ (s \o t)[k] = s[k]
             \/ \E j \in 1 .. Len(t) : (s \o t)[k] = t[j]
  <2>1. CASE k <= Len(s)
    BY <1>2, <1>3, <2>1
  <2>2. CASE ~ (k <= Len(s))
    <3>1. k - Len(s) \in 1 .. Len(t)
      BY <1>2, <1>3, <2>2
    <3> QED BY <1>2, <1>3, <2>2, <3>1
  <2> QED BY <2>1, <2>2
<1> QED BY <1>2, <1>4

\* What is in a sequence has an index.
LEMMA ToSetFacts ==
  ASSUME NEW S, NEW s \in Seq(S), NEW r \in ToSet(s)
  PROVE  s # <<>> /\ \E k \in 1 .. Len(s) : s[k] = r
<1>1. Len(s) \in Nat /\ DOMAIN s = 1 .. Len(s)
  BY LenProperties
<1>2. \E k \in 1 .. Len(s) : s[k] = r
  BY <1>1 DEF ToSet
<1> QED BY <1>1, <1>2

\* A sequence of one.
LEMMA SingleSeq ==
  ASSUME NEW S, NEW e \in S
  PROVE  <<e>> \in Seq(S)
OBVIOUS

\* A sequence is its head and its tail.
LEMMA HeadThenTail ==
  ASSUME NEW S, NEW s \in Seq(S), s # <<>>
  PROVE  s = <<Head(s)>> \o Tail(s)
<1> DEFINE h == <<Head(s)>>
<1>1. /\ Head(s) \in S /\ Tail(s) \in Seq(S) /\ Len(s) \in Nat /\ Len(Tail(s)) = Len(s) - 1
      /\ Head(s) = s[1]
      /\ \A k \in 1 .. Len(Tail(s)) : Tail(s)[k] = s[k + 1]
  BY TailFacts, HeadTailProperties
<1>2. h \in Seq(S) /\ Len(h) = 1 /\ h[1] = s[1]
  BY <1>1
<1> HIDE DEF h
<1>3. /\ h \o Tail(s) \in Seq(S) /\ Len(h \o Tail(s)) = Len(h) + Len(Tail(s))
      /\ \A i \in 1 .. Len(h) + Len(Tail(s)) :
           (h \o Tail(s))[i] = IF i <= Len(h) THEN h[i] ELSE Tail(s)[i - Len(h)]
  <2>1. h \in Seq(S) /\ Tail(s) \in Seq(S)
    BY <1>1, <1>2
  <2> QED BY <2>1, ConcatProperties
<1>4. ASSUME NEW i \in 1 .. Len(s) PROVE s[i] = (h \o Tail(s))[i]
  <2>1. CASE i = 1
    BY <1>1, <1>2, <1>3, <2>1
  <2>2. CASE i # 1
    <3>1. ~ (i <= Len(h)) /\ i \in 1 .. Len(h) + Len(Tail(s))
          /\ i - Len(h) \in 1 .. Len(Tail(s)) /\ (i - Len(h)) + 1 = i
      BY <1>1, <1>2, <2>2
    <3> QED BY <1>1, <1>3, <3>1
  <2> QED BY <2>1, <2>2
<1>5. s = h \o Tail(s)
  BY <1>1, <1>2, <1>3, <1>4, SeqEqual
<1> QED BY <1>5 DEF h

\* What two queues, one behind the other, are after elements have moved.
LEMMA ConcatMoves ==
  ASSUME NEW S, NEW s \in Seq(S), NEW t \in Seq(S)
  PROVE  /\ \A e \in S : s \o (t \o <<e>>) = Append(s \o t, e)
         /\ \A e, f \in S : s \o (t \o <<e, f>>) = Append(Append(s \o t, e), f)
         /\ t # <<>> => Append(s, Head(t)) \o Tail(t) = s \o t
         /\ s # <<>> => s \o t # <<>> /\ Head(s \o t) = Head(s) /\ Tail(s \o t) = Tail(s) \o t
<1>0. s \o t \in Seq(S)
  BY ConcatProperties
<1>1. ASSUME NEW e \in S PROVE s \o (t \o <<e>>) = Append(s \o t, e)
  <2>1. PICK h : h = <<e>> /\ h \in Seq(S)
    BY SingleSeq
  <2>2. s \o (t \o h) = (s \o t) \o h
    BY <2>1, ConcatAssociative
  <2> QED BY <1>0, <2>1, <2>2, AppendIsConcat
<1>2. ASSUME NEW e \in S, NEW f \in S PROVE s \o (t \o <<e, f>>) = Append(Append(s \o t, e), f)
  <2>1. PICK h, k : h = <<e>> /\ h \in Seq(S) /\ k = <<f>> /\ k \in Seq(S)
    BY SingleSeq
  <2>2. <<e, f>> = h \o k
    <3>1. <<e, f>> = Append(<<e>>, f)
      OBVIOUS
    <3>2. Append(h, f) = h \o k
      BY <2>1, AppendIsConcat
    <3> QED BY <2>1, <3>1, <3>2
  <2>3. Append(s \o t, e) = (s \o t) \o h /\ Append(s \o t, e) \in Seq(S)
    BY <1>0, <2>1, AppendIsConcat, AppendProperties
  <2>4. Append(Append(s \o t, e), f) = ((s \o t) \o h) \o k
    BY <2>1, <2>3, AppendIsConcat
  <2>5. s \o (t \o (h \o k)) = (s \o t) \o (h \o k) /\ ((s \o t) \o h) \o k = (s \o t) \o (h \o k)
    <3>1. h \o k \in Seq(S)
      BY <2>1, ConcatProperties
    <3> QED BY <1>0, <2>1, <3>1, ConcatAssociative
  <2> QED BY <2>2, <2>4, <2>5
<1>3. ASSUME t # <<>> PROVE Append(s, Head(t)) \o Tail(t) = s \o t
  <2>1. Head(t) \in S /\ Tail(t) \in Seq(S)
    BY <1>3, HeadTailProperties
  <2>2. PICK h : h = <<Head(t)>> /\ h \in Seq(S)
    BY <2>1, SingleSeq
  <2>3. t = h \o Tail(t)
    BY <1>3, <2>2, HeadThenTail
  <2>4. Append(s, Head(t)) = s \o h
    BY <2>1, <2>2, AppendIsConcat
  <2>5. (s \o h) \o Tail(t) = s \o (h \o Tail(t))
    BY <2>1, <2>2, ConcatAssociative
  <2> QED BY <2>3, <2>4, <2>5
<1>4. ASSUME s # <<>>
      PROVE  s \o t # <<>> /\ Head(s \o t) = Head(s) /\ Tail(s \o t) = Tail(s) \o t
  <2>1. /\ Tail(s) \in Seq(S) /\ Len(s) \in Nat /\ Len(Tail(s)) = Len(s) - 1
        /\ 1 \in 1 .. Len(s) /\ Head(s) = s[1]
        /\ \A k \in 1 .. Len(Tail(s)) : k + 1 \in 1 .. Len(s) /\ Tail(s)[k] = s[k + 1]
    BY <1>4, TailFacts
  <2>2. Len(t) \in Nat
    BY LenProperties
  <2>3. /\ Len(s \o t) = Len(s) + Len(t)
        /\ \A i \in 1 .. Len(s) + Len(t) : (s \o t)[i] = IF i <= Len(s) THEN s[i] ELSE t[i - Len(s)]
    BY ConcatProperties
  <2>4. s \o t # <<>>
    BY <2>1, <2>2, <2>3, EmptySeq
  <2>5. /\ Tail(s \o t) \in Seq(S) /\ Len(Tail(s \o t)) = Len(s \o t) - 1
        /\ Head(s \o t) = (s \o t)[1]
        /\ \A k \in 1 .. Len(Tail(s \o t)) : Tail(s \o t)[k] = (s \o t)[k + 1]
    BY <1>0, <2>4, TailFacts
  <2>6. Head(s \o t) = Head(s)
    BY <2>1, <2>2, <2>3, <2>5
  <2>7. /\ Tail(s) \o t \in Seq(S) /\ Len(Tail(s) \o t) = Len(Tail(s)) + Len(t)
        /\ \A i \in 1 .. Len(Tail(s)) + Len(t) :
             (Tail(s) \o t)[i] = IF i <= Len(Tail(s)) THEN Tail(s)[i] ELSE t[i - Len(Tail(s))]
    BY <2>1, ConcatProperties
  <2>8. ASSUME NEW i \in 1 .. Len(Tail(s \o t)) PROVE Tail(s \o t)[i] = (Tail(s) \o t)[i]
    <3>1. /\ i \in 1 .. Len(Tail(s)) + Len(t) /\ i + 1 \in 1 .. Len(s) + Len(t)
          /\ i <= Len(Tail(s)) <=> i + 1 <= Len(s)
          /\ i - Len(Tail(s)) = (i + 1) - Len(s)
      BY <2>1, <2>2, <2>3, <2>5
    <3>2. CASE i <= Len(Tail(s))
      BY <2>1, <2>3, <2>5, <2>7, <3>1, <3>2
    <3>3. CASE ~ (i <= Len(Tail(s)))
      BY <2>3, <2>5, <2>7, <3>1, <3>3
    <3> QED BY <3>2, <3>3
  <2>9. Len(Tail(s \o t)) = Len(Tail(s) \o t)
    BY <2>1, <2>2, <2>3, <2>5, <2>7
  <2>10. Tail(s \o t) = Tail(s) \o t
    BY <2>5, <2>7, <2>8, <2>9, SeqEqual
  <2> QED BY <2>4, <2>6, <2>10
<1> QED BY <1>1, <1>2, <1>3, <1>4

-----------------------------------------------------------------------------
(* Induction                                                               *)

\* A set of natural numbers that is not empty has a least element.
LEMMA LeastNat ==
  ASSUME NEW T \in SUBSET Nat, T # {}
  PROVE  \E x \in T : \A y \in T : x <= y
<1> DEFINE R == OpToRel(<, Nat)
<1>1. IsWellFoundedOn(R, Nat)
  BY NatLessThanWellFounded
<1>2. \A x, y \in Nat : <<y, x>> \in R <=> y < x
  BY DEF OpToRel
<1> HIDE DEF R
<1>3. PICK x \in T : \A y \in T : ~ (<<y, x>> \in R)
  BY <1>1, WFMin
<1>4. ASSUME NEW y \in T PROVE x <= y
  <2>1. x \in Nat /\ y \in Nat
    OBVIOUS
  <2>2. ~ (y < x)
    BY <1>2, <1>3, <2>1
  <2> QED BY <2>1, <2>2
<1> QED BY <1>4

\* Induction up to a bound: what holds at 0 and is handed on holds up to n.
LEMMA InductionUpTo ==
  ASSUME NEW n \in Nat, NEW T, 0 \in T,
         \A i \in 1 .. n : i - 1 \in T => i \in T
  PROVE  \A i \in 0 .. n : i \in T
<1> SUFFICES ASSUME (0 .. n) \ T # {} PROVE FALSE
  OBVIOUS
<1>0. (0 .. n) \ T \in SUBSET Nat
  OBVIOUS
<1>1. PICK x \in (0 .. n) \ T : \A y \in (0 .. n) \ T : x <= y
  BY <1>0, LeastNat
<1>2. x \in 1 .. n /\ x - 1 \in 0 .. n
  BY <1>1
<1>3. x - 1 \in T
  <2>1. ~ (x <= x - 1)
    BY <1>2
  <2> QED BY <1>1, <1>2, <2>1
<1> QED BY <1>1, <1>2, <1>3

\* Induction on the natural numbers.
LEMMA InductionOnNat ==
  ASSUME NEW T, 0 \in T, \A i \in Nat : i \in T => i + 1 \in T
  PROVE  \A i \in Nat : i \in T
<1> SUFFICES ASSUME NEW n \in Nat PROVE n \in T
  OBVIOUS
<1>1. ASSUME NEW i \in 1 .. n, i - 1 \in T PROVE i \in T
  <2>1. i - 1 \in Nat /\ (i - 1) + 1 = i
    OBVIOUS
  <2> QED BY <1>1, <2>1
<1>2. \A i \in 0 .. n : i \in T
  BY <1>1, InductionUpTo
<1> QED BY <1>2

\* Two runs that start alike and make the same steps are alike.
StepAlike(H, K, n) ==
  H[0] = K[0] /\ \A i \in 1 .. n : H[i - 1] = K[i - 1] => H[i] = K[i]

Alike(H, K, n) == \A i \in 0 .. n : H[i] = K[i]

LEMMA RunsAgree ==
  ASSUME NEW n \in Nat, NEW H, NEW K, StepAlike(H, K, n)
  PROVE  Alike(H, K, n)
<1> DEFINE T == {i \in 0 .. n : H[i] = K[i]}
<1>1. 0 \in T
  BY DEF StepAlike
<1>2. ASSUME NEW i \in 1 .. n, i - 1 \in T PROVE i \in T
  BY <1>2 DEF StepAlike
<1> HIDE DEF T
<1>3. \A i \in 0 .. n : i \in T
  BY <1>1, <1>2, InductionUpTo
<1> QED BY <1>3 DEF T, Alike

-----------------------------------------------------------------------------
(* Recursion                                                               *)

\* H is the run of m steps of g that starts with b.
IsRun(H, m, A, b, g) ==
  /\ H \in [0 .. m -> A] /\ H[0] = b
  /\ \A i \in 1 .. m : H[i] = g[<<H[i - 1], i>>]

\* A run exists.
LEMMA RunExists ==
  ASSUME NEW A, NEW b \in A, NEW n \in Nat, NEW g \in [A \X (1 .. n) -> A]
  PROVE  \E H : IsRun(H, n, A, b, g)
<1> USE DEF IsRun
<1> DEFINE T == {m \in 0 .. n : \E H : IsRun(H, m, A, b, g)}
<1>1. 0 \in T
  <2>1. IsRun([i \in 0 .. 0 |-> b], 0, A, b, g)
    OBVIOUS
  <2>2. \E H : IsRun(H, 0, A, b, g)
    BY <2>1
  <2> QED BY <2>2
<1>2. ASSUME NEW m \in 1 .. n, m - 1 \in T PROVE m \in T
  <2>1. PICK H : IsRun(H, m - 1, A, b, g)
    BY <1>2
  <2> DEFINE K == [i \in 0 .. m |-> IF i < m THEN H[i] ELSE g[<<H[m - 1], m>>]]
  <2>2. K \in [0 .. m -> A]
    <3>1. H[m - 1] \in A
      BY <2>1
    <3>2. g[<<H[m - 1], m>>] \in A
      BY <3>1
    <3> QED BY <2>1, <3>2
  <2>3. K[0] = b
    BY <2>1
  <2>4. ASSUME NEW i \in 1 .. m PROVE K[i] = g[<<K[i - 1], i>>]
    <3>1. K[i - 1] = H[i - 1]
      OBVIOUS
    <3>2. CASE i < m
      BY <2>1, <3>1, <3>2
    <3>3. CASE i = m
      <4>1. K[m] = g[<<H[m - 1], m>>]
        OBVIOUS
      <4> QED BY <3>1, <3>3, <4>1
    <3> QED BY <3>2, <3>3
  <2>5. \E F : IsRun(F, m, A, b, g)
    <3> HIDE DEF K
    <3> QED BY <2>2, <2>3, <2>4
  <2> QED BY <2>5
<1> HIDE DEF T
<1>3. n \in T
  BY <1>1, <1>2, InductionUpTo
<1> QED BY <1>3 DEF T

\* The greatest element of a set of indices.
LEMMA MaxOfIndices ==
  ASSUME NEW n \in Nat, NEW d \in SUBSET (1 .. n), d # {}
  PROVE  Max(d) \in d /\ \A y \in d : y <= Max(d)
<1> DEFINE T == {n - y : y \in d}
<1>1. T \in SUBSET Nat /\ T # {}
  OBVIOUS
<1>2. PICK x \in T : \A y \in T : x <= y
  BY <1>1, LeastNat
<1>3. PICK m \in d : x = n - m
  BY <1>2
<1>4. ASSUME NEW y \in d PROVE m >= y
  <2>1. n - m <= n - y
    BY <1>2, <1>3
  <2> QED BY <2>1
<1>5. \E z \in d : \A y \in d : z >= y
  BY <1>4
<1>6. Max(d) \in d /\ \A y \in d : Max(d) >= y
  BY <1>5 DEF Max
<1> QED BY <1>6

\* H[i] holds the fold over the elements up to i of each set of indices.
Layer(A, n, g) ==
  [p \in [SUBSET (1 .. n) -> A] \X (1 .. n) |->
     [d \in SUBSET (1 .. n) |-> IF p[2] \in d THEN g[<<p[1][d], p[2]>>] ELSE p[1][d]]]

\* F satisfies the equation that MapThenFoldSet chooses a function by, as far
\* as its values are in A.
IsTable(F, n, A, b, g) ==
  /\ F[{}] = b
  /\ \A d \in SUBSET (1 .. n) :
       d # {} /\ F[d \ {Max(d)}] \in A => F[d] = g[<<F[d \ {Max(d)}], Max(d)>>]

\* The equation has a solution.
LEMMA TableExists ==
  ASSUME NEW A, NEW b \in A, NEW n \in Nat, NEW g \in [A \X (1 .. n) -> A]
  PROVE  \E F : F \in [SUBSET (1 .. n) -> A] /\ IsTable(F, n, A, b, g)
<1> DEFINE Sets == SUBSET (1 .. n)
           Tables == [Sets -> A]
           G == Layer(A, n, g)
           Z == [d \in Sets |-> b]
<1>1. G \in [Tables \X (1 .. n) -> Tables]
  <2>1. ASSUME NEW p \in Tables \X (1 .. n)
        PROVE  [d \in Sets |-> IF p[2] \in d THEN g[<<p[1][d], p[2]>>] ELSE p[1][d]] \in Tables
    <3>1. p[1] \in Tables /\ p[2] \in 1 .. n
      BY <2>1
    <3>2. ASSUME NEW d \in Sets PROVE p[1][d] \in A /\ g[<<p[1][d], p[2]>>] \in A
      BY <3>1
    <3> QED BY <3>2
  <2> QED BY <2>1 DEF Layer
<1>2. Z \in Tables
  OBVIOUS
<1>3. PICK H \in [0 .. n -> Tables] :
        H[0] = Z /\ \A i \in 1 .. n : H[i] = G[<<H[i - 1], i>>]
  <2> HIDE DEF G, Tables, Z
  <2>1. PICK H : IsRun(H, n, Tables, Z, G)
    BY <1>1, <1>2, RunExists
  <2> QED BY <2>1 DEF IsRun
<1>4. ASSUME NEW i \in 1 .. n, NEW d \in Sets
      PROVE  H[i][d] = IF i \in d THEN g[<<H[i - 1][d], i>>] ELSE H[i - 1][d]
  <2>0. i - 1 \in 0 .. n
    OBVIOUS
  <2>1. H[i - 1] \in Tables
    <3> HIDE DEF Tables
    <3> QED BY <2>0
  <2>2. H[i] = G[<<H[i - 1], i>>]
    BY <1>3
  <2>3. G[<<H[i - 1], i>>] =
          [e \in Sets |-> IF i \in e THEN g[<<H[i - 1][e], i>>] ELSE H[i - 1][e]]
    BY <2>1 DEF Layer
  <2> QED BY <2>2, <2>3
<1> HIDE DEF G
\* A set and what is left of it without an element agree below that element.
<1>5. ASSUME NEW d \in Sets, NEW m \in d, NEW i \in 0 .. n, i < m
      PROVE  H[i][d] = H[i][d \ {m}]
  <2>0. d \ {m} \in Sets /\ m \in 1 .. n
    OBVIOUS
  <2> DEFINE T == {k \in 0 .. n : k < m => H[k][d] = H[k][d \ {m}]}
  <2>1. 0 \in T
    <3>1. H[0][d] = b /\ H[0][d \ {m}] = b
      BY <1>3, <2>0
    <3> QED BY <3>1
  <2>2. ASSUME NEW k \in 1 .. n, k - 1 \in T PROVE k \in T
    <3> SUFFICES ASSUME k < m PROVE H[k][d] = H[k][d \ {m}]
      OBVIOUS
    <3>1. H[k - 1][d] = H[k - 1][d \ {m}]
      BY <2>2
    <3>2. k \in d <=> k \in d \ {m}
      OBVIOUS
    <3>3. H[k][d] = IF k \in d THEN g[<<H[k - 1][d], k>>] ELSE H[k - 1][d]
      BY <1>4
    <3>4. H[k][d \ {m}] = IF k \in d \ {m} THEN g[<<H[k - 1][d \ {m}], k>>]
                         ELSE H[k - 1][d \ {m}]
      <4> HIDE DEF Sets
      <4> QED BY <1>4, <2>0
    <3> QED BY <3>1, <3>2, <3>3, <3>4
  <2> HIDE DEF T
  <2>3. i \in T
    BY <2>1, <2>2, InductionUpTo
  <2> QED BY <1>5, <2>3 DEF T
\* From the greatest element on nothing changes.
<1>6. ASSUME NEW d \in Sets, NEW m \in 0 .. n, \A y \in d : y <= m
      PROVE  H[n][d] = H[m][d]
  <2> DEFINE T == {k \in 0 .. n : m <= k => H[k][d] = H[m][d]}
  <2>1. 0 \in T
    OBVIOUS
  <2>2. ASSUME NEW k \in 1 .. n, k - 1 \in T PROVE k \in T
    <3> SUFFICES ASSUME m <= k PROVE H[k][d] = H[m][d]
      OBVIOUS
    <3>1. CASE k = m
      BY <3>1
    <3>2. CASE m <= k - 1
      <4>1. H[k - 1][d] = H[m][d]
        BY <2>2, <3>2
      <4>2. k \notin d
        BY <1>6, <3>2
      <4> QED BY <1>4, <4>1, <4>2
    <3> QED BY <3>1, <3>2
  <2> HIDE DEF T
  <2>3. n \in T
    <3>1. \A k \in 0 .. n : k \in T
      BY <2>1, <2>2, InductionUpTo
    <3> QED BY <3>1
  <2> QED BY <2>3 DEF T
<1> DEFINE F == H[n]
<1>7. F \in Tables
  BY <1>3
<1>8. F[{}] = b
  <2>1. H[n][{}] = H[0][{}]
    BY <1>6
  <2> QED BY <1>3, <2>1
<1>9. ASSUME NEW d \in Sets, d # {}
      PROVE  F[d] = g[<<F[d \ {Max(d)}], Max(d)>>]
  <2> DEFINE m == Max(d)
  <2>1. m \in d /\ \A y \in d : y <= m
    BY <1>9, MaxOfIndices
  <2> HIDE DEF m
  <2>2. H[n][d] = H[m][d]
    BY <1>6, <2>1
  <2>3. H[m][d] = g[<<H[m - 1][d], m>>]
    BY <1>4, <2>1
  <2>4. H[m - 1][d] = H[m - 1][d \ {m}]
    <3>1. m - 1 \in 0 .. n /\ m - 1 < m
      BY <2>1
    <3> QED BY <1>5, <2>1, <3>1
  <2>5. H[n][d \ {m}] = H[m - 1][d \ {m}]
    <3>1. \A y \in d \ {m} : y <= m - 1
      BY <2>1
    <3>2. m - 1 \in 0 .. n /\ d \ {m} \in Sets
      BY <2>1
    <3> QED BY <1>6, <3>1, <3>2
  <2> QED BY <2>2, <2>3, <2>4, <2>5 DEF m
<1> HIDE DEF F
<1> QED BY <1>7, <1>8, <1>9 DEF IsTable

\* The values of such a function at 1 .. 0, 1 .. 1 and so on are the run.
LEMMA TableIsRun ==
  ASSUME NEW A, NEW b \in A, NEW n \in Nat, NEW g \in [A \X (1 .. n) -> A], NEW F,
         IsTable(F, n, A, b, g)
  PROVE  IsRun([i \in 0 .. n |-> F[1 .. i]], n, A, b, g)
<1>1. PICK H : IsRun(H, n, A, b, g)
  BY RunExists
<1> DEFINE T == {i \in 0 .. n : F[1 .. i] = H[i]}
<1>2. 0 \in T
  <2>1. 1 .. 0 = {}
    OBVIOUS
  <2> QED BY <1>1, <2>1 DEF IsRun, IsTable
<1>3. ASSUME NEW i \in 1 .. n, i - 1 \in T PROVE i \in T
  <2>1. 1 .. i \in SUBSET (1 .. n) /\ i \in 1 .. i
    OBVIOUS
  <2>2. Max(1 .. i) = i
    <3>1. Max(1 .. i) \in 1 .. i /\ \A y \in 1 .. i : y <= Max(1 .. i)
      BY <2>1, MaxOfIndices
    <3> QED BY <2>1, <3>1
  <2>3. (1 .. i) \ {i} = 1 .. (i - 1)
    OBVIOUS
  <2>4. F[1 .. (i - 1)] = H[i - 1] /\ H[i - 1] \in A
    BY <1>1, <1>3 DEF IsRun
  <2>5. 1 .. i # {}
    BY <2>1
  <2>6. F[1 .. i] = g[<<F[(1 .. i) \ {Max(1 .. i)}], Max(1 .. i)>>]
    BY <2>1, <2>2, <2>3, <2>4, <2>5 DEF IsTable
  <2>7. F[1 .. i] = H[i]
    BY <1>1, <2>2, <2>3, <2>4, <2>6 DEF IsRun
  <2> QED BY <2>7
<1> HIDE DEF T
<1>4. \A i \in 0 .. n : i \in T
  BY <1>2, <1>3, InductionUpTo
<1>5. [i \in 0 .. n |-> F[1 .. i]] = [i \in 0 .. n |-> H[i]]
  BY <1>4 DEF T
<1>6. H = [i \in 0 .. n |-> H[i]]
  BY <1>1 DEF IsRun
<1> QED BY <1>1, <1>5, <1>6


-----------------------------------------------------------------------------
(* Folds of a sequence                                                     *)

\* H holds what a fold of s by the steps of g has come to after each element,
\* and v is what the whole fold comes to.
IsFoldRun(H, A, b, g, s) ==
  /\ H \in [0 .. Len(s) -> A] /\ H[0] = b
  /\ \A i \in 1 .. Len(s) : H[i] = g[<<H[i - 1], s[i]>>]

FoldsTo(v, A, b, g, s) ==
  \E H : IsFoldRun(H, A, b, g, s) /\ v = H[Len(s)]

\* F satisfies the equation that FoldLeft chooses a function by, as far as
\* its values are in A.
SolvesFold(F, A, b, g, s) ==
  /\ F[{}] = b
  /\ \A d \in SUBSET (1 .. Len(s)) :
       d # {} /\ F[d \ {Max(d)}] \in A => F[d] = g[<<F[d \ {Max(d)}], s[Max(d)]>>]

\* h makes the step of g for the element at an index.
IsStepsOver(h, A, g, s) ==
  /\ h \in [A \X (1 .. Len(s)) -> A]
  /\ \A a \in A, i \in 1 .. Len(s) : h[<<a, i>>] = g[<<a, s[i]>>]

LEMMA StepsOverExist ==
  ASSUME NEW A, NEW M, NEW s \in Seq(M), NEW g \in [A \X M -> A]
  PROVE  \E h : IsStepsOver(h, A, g, s)
<1> DEFINE h == [p \in A \X (1 .. Len(s)) |-> g[<<p[1], s[p[2]]>>]]
<1>1. \A i \in 1 .. Len(s) : s[i] \in M
  BY ElementOfSeq
<1>2. IsStepsOver(h, A, g, s)
  BY <1>1 DEF IsStepsOver
<1> QED BY <1>2

\* The equation has a solution whose values are in A, and every element it
\* looks up is there.
IsFoldTable(F, A, M, b, g, s) ==
  /\ F \in [SUBSET (1 .. Len(s)) -> A] /\ F[{}] = b
  /\ \A d \in SUBSET (1 .. Len(s)) : d # {} =>
       /\ F[d \ {Max(d)}] \in A /\ s[Max(d)] \in M
       /\ F[d] = g[<<F[d \ {Max(d)}], s[Max(d)]>>]

LEMMA FoldSolution ==
  ASSUME NEW A, NEW b \in A, NEW M, NEW s \in Seq(M), NEW g \in [A \X M -> A]
  PROVE  \E F : IsFoldTable(F, A, M, b, g, s)
<1> DEFINE n == Len(s)
<1>1. n \in Nat /\ \A i \in 1 .. n : s[i] \in M
  BY ElementOfSeq, LenProperties
<1>2. PICK h : IsStepsOver(h, A, g, s)
  BY StepsOverExist
<1>3. PICK F : F \in [SUBSET (1 .. n) -> A] /\ IsTable(F, n, A, b, h)
  <2>1. h \in [A \X (1 .. n) -> A]
    BY <1>2 DEF IsStepsOver
  <2> HIDE DEF n
  <2> QED BY <1>1, <2>1, TableExists
<1>4. ASSUME NEW d \in SUBSET (1 .. n), d # {}
      PROVE  /\ F[d \ {Max(d)}] \in A /\ s[Max(d)] \in M
             /\ F[d] = g[<<F[d \ {Max(d)}], s[Max(d)]>>]
  <2>1. Max(d) \in 1 .. n
    <3> HIDE DEF n
    <3> QED BY <1>1, <1>4, MaxOfIndices
  <2>2. F[d \ {Max(d)}] \in A
    BY <1>3
  <2> QED BY <1>1, <1>2, <1>3, <1>4, <2>1, <2>2 DEF IsTable, IsStepsOver
<1>5. IsFoldTable(F, A, M, b, g, s)
  BY <1>3, <1>4 DEF IsTable, IsFoldTable
<1> QED BY <1>5

\* The value of a solution at all the indices is the fold.
LEMMA FoldOfSolution ==
  ASSUME NEW A, NEW b \in A, NEW M, NEW s \in Seq(M), NEW g \in [A \X M -> A], NEW F,
         SolvesFold(F, A, b, g, s)
  PROVE  FoldsTo(F[1 .. Len(s)], A, b, g, s)
<1> DEFINE n == Len(s)
           H == [i \in 0 .. n |-> F[1 .. i]]
<1>1. n \in Nat /\ n \in 0 .. n
  BY LenProperties
<1>2. PICK h : IsStepsOver(h, A, g, s)
  BY StepsOverExist
<1>3. ASSUME NEW d \in SUBSET (1 .. n), d # {}, F[d \ {Max(d)}] \in A
      PROVE  F[d] = h[<<F[d \ {Max(d)}], Max(d)>>]
  <2>1. Max(d) \in 1 .. n
    <3> HIDE DEF n
    <3> QED BY <1>1, <1>3, MaxOfIndices
  <2> QED BY <1>2, <1>3, <2>1 DEF SolvesFold, IsStepsOver
<1>4. IsTable(F, n, A, b, h)
  BY <1>3 DEF IsTable, SolvesFold
<1>5. H[n] = F[1 .. n]
  BY <1>1
<1>6. IsRun(H, n, A, b, h)
  <2>1. h \in [A \X (1 .. n) -> A]
    BY <1>2 DEF IsStepsOver
  <2> HIDE DEF n
  <2> QED BY <1>1, <1>4, <2>1, TableIsRun
<1> HIDE DEF H
<1>7. ASSUME NEW i \in 1 .. n PROVE H[i] = g[<<H[i - 1], s[i]>>]
  <2>1. H[i - 1] \in A
    BY <1>1, <1>6 DEF IsRun
  <2> QED BY <1>2, <1>6, <2>1 DEF IsRun, IsStepsOver
<1>8. IsFoldRun(H, A, b, g, s)
  BY <1>6, <1>7 DEF IsRun, IsFoldRun
<1> QED BY <1>5, <1>8 DEF FoldsTo

\* What a fold comes to has the type of its steps.
LEMMA FoldType ==
  ASSUME NEW A, NEW M, NEW s \in Seq(M), NEW b, NEW g, NEW v, FoldsTo(v, A, b, g, s)
  PROVE  v \in A
<1>1. Len(s) \in 0 .. Len(s)
  BY LenProperties
<1> QED BY <1>1 DEF FoldsTo, IsFoldRun

\* Of no element it comes to its start.
LEMMA FoldOfNone ==
  ASSUME NEW A, NEW b, NEW g, NEW v, FoldsTo(v, A, b, g, <<>>)
  PROVE  v = b
BY DEF FoldsTo, IsFoldRun

\* One more element is one more step.
LEMMA FoldAppend ==
  ASSUME NEW A, NEW b, NEW M, NEW s \in Seq(M), NEW e \in M, NEW g, NEW v, NEW w,
         FoldsTo(v, A, b, g, s), FoldsTo(w, A, b, g, Append(s, e))
  PROVE  w = g[<<v, e>>]
<1> DEFINE t == Append(s, e)
           n == Len(s)
<1>1. /\ n \in Nat /\ t \in Seq(M) /\ Len(t) = n + 1 /\ t[n + 1] = e
      /\ \A i \in 1 .. n : t[i] = s[i]
  BY AppendProperties, LenProperties
<1>2. PICK H : IsFoldRun(H, A, b, g, s) /\ v = H[n]
  BY DEF FoldsTo
<1>3. PICK K : IsFoldRun(K, A, b, g, t) /\ w = K[n + 1]
  BY <1>1 DEF FoldsTo
<1> HIDE DEF t
<1>4. StepAlike(H, K, n)
  <2>1. ASSUME NEW i \in 1 .. n, H[i - 1] = K[i - 1] PROVE H[i] = K[i]
    <3>1. i \in 1 .. Len(t)
      BY <1>1
    <3>2. H[i] = g[<<H[i - 1], s[i]>>]
      BY <1>2 DEF IsFoldRun
    <3>3. K[i] = g[<<K[i - 1], t[i]>>]
      BY <1>3, <3>1 DEF IsFoldRun
    <3> QED BY <1>1, <2>1, <3>2, <3>3
  <2> QED BY <1>2, <1>3, <2>1 DEF StepAlike, IsFoldRun
<1>5. H[n] = K[n]
  <2>1. Alike(H, K, n)
    BY <1>1, <1>4, RunsAgree
  <2> QED BY <1>1, <2>1 DEF Alike
<1>6. K[n + 1] = g[<<K[n], e>>]
  <2>1. n + 1 \in 1 .. Len(t) /\ (n + 1) - 1 = n
    BY <1>1
  <2> QED BY <1>1, <1>3, <2>1 DEF IsFoldRun
<1> QED BY <1>2, <1>3, <1>5, <1>6

\* The first element may be taken into the start.
LEMMA FoldTail ==
  ASSUME NEW A, NEW b, NEW M, NEW s \in Seq(M), s # <<>>, NEW g, NEW v, NEW w,
         FoldsTo(v, A, b, g, s), FoldsTo(w, A, g[<<b, Head(s)>>], g, Tail(s))
  PROVE  w = v
<1> DEFINE t == Tail(s)
           n == Len(t)
           c == g[<<b, Head(s)>>]
<1>1. /\ t \in Seq(M) /\ n \in Nat /\ Len(s) = n + 1 /\ Head(s) = s[1]
      /\ \A i \in 1 .. n : t[i] = s[i + 1]
  <2>1. Tail(s) \in Seq(M) /\ Len(Tail(s)) = Len(s) - 1
        /\ \A i \in 1 .. Len(Tail(s)) : Tail(s)[i] = s[i + 1]
    BY HeadTailProperties
  <2>2. Len(s) \in Nat /\ Len(s) # 0
    BY EmptySeq, LenProperties
  <2> QED BY <2>1, <2>2
<1>2. PICK H : IsFoldRun(H, A, b, g, s) /\ v = H[n + 1]
  BY <1>1 DEF FoldsTo
<1>3. PICK K : IsFoldRun(K, A, c, g, t) /\ w = K[n]
  BY DEF FoldsTo
<1> HIDE DEF t, c
<1> DEFINE J == [i \in 0 .. n |-> H[i + 1]]
<1>4. StepAlike(J, K, n)
  <2>1. ASSUME NEW i \in 1 .. n, J[i - 1] = K[i - 1] PROVE J[i] = K[i]
    <3>1. i + 1 \in 1 .. Len(s) /\ i \in 1 .. Len(t) /\ (i + 1) - 1 = i /\ (i - 1) + 1 = i
      BY <1>1
    <3>2. H[i + 1] = g[<<H[i], s[i + 1]>>]
      BY <1>2, <3>1 DEF IsFoldRun
    <3>3. K[i] = g[<<K[i - 1], t[i]>>]
      BY <1>3, <3>1 DEF IsFoldRun
    <3>4. J[i] = H[i + 1] /\ J[i - 1] = H[i]
      BY <1>1, <3>1
    <3> HIDE DEF J
    <3> QED BY <1>1, <2>1, <3>2, <3>3, <3>4
  <2>2. J[0] = K[0]
    <3>1. 1 \in 1 .. Len(s)
      BY <1>1
    <3>2. H[1] = g[<<H[0], s[1]>>]
      BY <1>2, <3>1 DEF IsFoldRun
    <3>3. J[0] = H[1]
      BY <1>1
    <3> QED BY <1>1, <1>2, <1>3, <3>2, <3>3 DEF IsFoldRun, c
  <2> HIDE DEF J
  <2> QED BY <2>1, <2>2 DEF StepAlike
<1>5. J[n] = H[n + 1]
  BY <1>1
<1>6. J[n] = K[n]
  <2> HIDE DEF J
  <2>1. Alike(J, K, n)
    BY <1>1, <1>4, RunsAgree
  <2> QED BY <1>1, <2>1 DEF Alike
<1> QED BY <1>2, <1>3, <1>5, <1>6

\* Every fold comes to something.
LEMMA FoldExists ==
  ASSUME NEW A, NEW b \in A, NEW M, NEW s \in Seq(M), NEW g \in [A \X M -> A]
  PROVE  \E v : FoldsTo(v, A, b, g, s)
<1>1. PICK F : IsFoldTable(F, A, M, b, g, s)
  BY FoldSolution
<1>2. SolvesFold(F, A, b, g, s)
  BY <1>1 DEF IsFoldTable, SolvesFold
<1>3. FoldsTo(F[1 .. Len(s)], A, b, g, s)
  BY <1>2, FoldOfSolution
<1> QED BY <1>3

\* A fold of what follows the first element.
LEMMA FoldRest ==
  ASSUME NEW A, NEW b \in A, NEW M, NEW s \in Seq(M), s # <<>>, NEW g \in [A \X M -> A],
         NEW v, FoldsTo(v, A, b, g, s), NEW c, c = g[<<b, Head(s)>>]
  PROVE  FoldsTo(v, A, c, g, Tail(s))
<1>1. Head(s) \in M /\ Tail(s) \in Seq(M)
  BY HeadTailProperties
<1>2. c \in A
  BY <1>1
<1>3. PICK w : FoldsTo(w, A, c, g, Tail(s))
  BY <1>1, <1>2, FoldExists
<1>4. w = v
  BY <1>3, FoldTail
<1> QED BY <1>3, <1>4

\* Of elements that change nothing it comes to its start.
LEMMA FoldIdle ==
  ASSUME NEW A, NEW b \in A, NEW M, NEW s \in Seq(M), NEW g,
         \A i \in 1 .. Len(s) : g[<<b, s[i]>>] = b
  PROVE  FoldsTo(b, A, b, g, s)
<1> DEFINE H == [i \in 0 .. Len(s) |-> b]
<1>1. Len(s) \in Nat
  BY LenProperties
<1>2. H \in [0 .. Len(s) -> A] /\ \A i \in 0 .. Len(s) : H[i] = b
  OBVIOUS
<1> HIDE DEF H
<1>3. ASSUME NEW i \in 1 .. Len(s) PROVE H[i] = g[<<H[i - 1], s[i]>>]
  <2>1. i \in 0 .. Len(s) /\ i - 1 \in 0 .. Len(s)
    BY <1>1
  <2> QED BY <1>2, <2>1
<1>4. 0 \in 0 .. Len(s) /\ Len(s) \in 0 .. Len(s)
  BY <1>1
<1> QED BY <1>2, <1>3, <1>4 DEF FoldsTo, IsFoldRun

LEMMA FoldNone ==
  ASSUME NEW A, NEW b \in A, NEW g
  PROVE  FoldsTo(b, A, b, g, <<>>)
<1>1. PICK s : s = <<>>
  OBVIOUS
<1>2. s \in Seq(A) /\ Len(s) = 0
  BY <1>1
<1>3. \A i \in 1 .. Len(s) : g[<<b, s[i]>>] = b
  BY <1>2
<1> QED BY <1>1, <1>2, <1>3, FoldIdle

\* A fold goes on where the fold of what is in front has come to.
LEMMA FoldConcat ==
  ASSUME NEW A, NEW b, NEW M, NEW s \in Seq(M), NEW t \in Seq(M), NEW g,
         NEW v, FoldsTo(v, A, b, g, s), NEW w, FoldsTo(w, A, v, g, t)
  PROVE  FoldsTo(w, A, b, g, s \o t)
<1> DEFINE m == Len(s)
           n == Len(t)
           z == s \o t
<1>1. /\ m \in Nat /\ n \in Nat /\ Len(z) = m + n
      /\ \A i \in 1 .. m + n : z[i] = IF i <= m THEN s[i] ELSE t[i - m]
  BY ConcatProperties, LenProperties
<1> HIDE DEF z
<1>2. PICK P : IsFoldRun(P, A, b, g, s) /\ v = P[m]
  BY DEF FoldsTo
<1>3. PICK Q : IsFoldRun(Q, A, v, g, t) /\ w = Q[n]
  BY DEF FoldsTo
<1>4. P \in [0 .. m -> A] /\ P[0] = b /\ \A i \in 1 .. m : P[i] = g[<<P[i - 1], s[i]>>]
  BY <1>2 DEF IsFoldRun
<1>5. Q \in [0 .. n -> A] /\ Q[0] = v /\ \A i \in 1 .. n : Q[i] = g[<<Q[i - 1], t[i]>>]
  BY <1>3 DEF IsFoldRun
<1> HIDE DEF m, n
<1> DEFINE K == [i \in 0 .. m + n |-> IF i <= m THEN P[i] ELSE Q[i - m]]
<1>6. \A i \in 0 .. m + n : /\ i <= m => i \in 0 .. m
                            /\ ~ (i <= m) => i - m \in 0 .. n
  BY <1>1
<1>7. K \in [0 .. m + n -> A]
  BY <1>4, <1>5, <1>6
<1>8. /\ \A i \in 0 .. m : K[i] = P[i]
      /\ \A j \in 1 .. n : K[m + j] = Q[j]
  BY <1>1
<1>9. K[0] = b /\ K[m + n] = w
  <2>1. K[0] = b
    BY <1>1, <1>4, <1>8
  <2>2. CASE n = 0
    BY <1>1, <1>2, <1>3, <1>5, <1>8, <2>1, <2>2
  <2>3. CASE n # 0
    <3>1. n \in 1 .. n
      BY <1>1, <2>3
    <3>2. K[m + n] = Q[n]
      BY <1>8, <3>1
    <3> QED BY <1>3, <2>1, <3>2
  <2> QED BY <2>2, <2>3
<1> HIDE DEF K
<1>10. ASSUME NEW i \in 1 .. m + n PROVE K[i] = g[<<K[i - 1], z[i]>>]
  <2>1. CASE i <= m
    <3>1. i \in 1 .. m /\ i \in 0 .. m /\ i - 1 \in 0 .. m
      BY <1>1, <2>1
    <3> QED BY <1>1, <1>4, <1>8, <2>1, <3>1
  <2>2. CASE ~ (i <= m)
    <3>1. PICK j \in 1 .. n : i = m + j
      <4>1. i - m \in 1 .. n /\ i = m + (i - m)
        BY <1>1, <2>2
      <4> QED BY <4>1
    <3>2. z[i] = t[j]
      <4>1. i - m = j
        BY <1>1, <3>1
      <4> QED BY <1>1, <2>2, <4>1
    <3>3. K[i] = Q[j] /\ Q[j] = g[<<Q[j - 1], t[j]>>]
      BY <1>5, <1>8, <3>1
    <3>4. K[i - 1] = Q[j - 1]
      <4>1. CASE j = 1
        <5>1. i - 1 = m /\ m \in 0 .. m /\ j - 1 = 0
          BY <1>1, <3>1, <4>1
        <5> QED BY <1>2, <1>5, <1>8, <5>1
      <4>2. CASE j # 1
        <5>1. j - 1 \in 1 .. n /\ i - 1 = m + (j - 1)
          BY <1>1, <3>1, <4>2
        <5> QED BY <1>8, <5>1
      <4> QED BY <4>1, <4>2
    <3> QED BY <3>2, <3>3, <3>4
  <2> QED BY <2>1, <2>2
<1>11. IsFoldRun(K, A, b, g, z)
  BY <1>1, <1>7, <1>9, <1>10 DEF IsFoldRun
<1> QED BY <1>1, <1>9, <1>11 DEF FoldsTo, z

\* One element is one step.
LEMMA FoldOne ==
  ASSUME NEW A, NEW b \in A, NEW M, NEW e \in M, NEW g \in [A \X M -> A]
  PROVE  FoldsTo(g[<<b, e>>], A, b, g, <<e>>)
<1>1. PICK s : s = <<e>>
  OBVIOUS
<1>2. s \in Seq(M) /\ s # <<>> /\ Head(s) = e /\ Tail(s) = <<>>
  BY <1>1
<1>3. PICK v : FoldsTo(v, A, b, g, s)
  BY <1>2, FoldExists
<1>4. FoldsTo(v, A, g[<<b, e>>], g, Tail(s))
  BY <1>2, <1>3, FoldRest
<1>5. v = g[<<b, e>>]
  BY <1>2, <1>4, FoldOfNone
<1> QED BY <1>1, <1>3, <1>5

-----------------------------------------------------------------------------
(* Totals                                                                  *)

\* P holds what g adds up to along the first elements of s.
IsTotal(P, s, g) ==
  /\ P \in [0 .. Len(s) -> Int] /\ P[0] = 0
  /\ \A i \in 1 .. Len(s) : P[i] = P[i - 1] + g[s[i]]

\* v is what g adds up to over s.
TotalOf(v, s, g) == \E P : IsTotal(P, s, g) /\ v = P[Len(s)]

LEMMA TotalOfNone ==
  ASSUME NEW g
  PROVE  TotalOf(0, <<>>, g) /\ \A v : TotalOf(v, <<>>, g) => v = 0
<1> DEFINE P == [i \in 0 .. 0 |-> 0]
<1>1. Len(<<>>) = 0 /\ 1 .. 0 = {} /\ P \in [0 .. 0 -> Int] /\ P[0] = 0
  OBVIOUS
<1> HIDE DEF P
<1>2. TotalOf(0, <<>>, g)
  BY <1>1 DEF TotalOf, IsTotal
<1>3. ASSUME NEW v, TotalOf(v, <<>>, g) PROVE v = 0
  BY <1>1, <1>3 DEF TotalOf, IsTotal
<1> QED BY <1>2, <1>3

LEMMA TotalIsInt ==
  ASSUME NEW S, NEW s \in Seq(S), NEW g, NEW v, TotalOf(v, s, g)
  PROVE  v \in Int
<1>1. PICK P : IsTotal(P, s, g) /\ v = P[Len(s)]
  BY DEF TotalOf
<1>2. Len(s) \in Nat
  BY LenProperties
<1> QED BY <1>1, <1>2 DEF IsTotal

LEMMA TotalOfOne ==
  ASSUME NEW S, NEW g \in [S -> Int], NEW e \in S
  PROVE  TotalOf(g[e], <<e>>, g)
<1> DEFINE P == [i \in 0 .. 1 |-> IF i = 0 THEN 0 ELSE g[e]]
           s == <<e>>
<1>1. Len(s) = 1 /\ s[1] = e /\ g[e] \in Int
  OBVIOUS
<1>2. P \in [0 .. 1 -> Int] /\ P[0] = 0 /\ P[1] = g[e]
  BY <1>1
<1> HIDE DEF P, s
<1>3. ASSUME NEW i \in 1 .. Len(s) PROVE P[i] = P[i - 1] + g[s[i]]
  <2>1. i = 1 /\ i - 1 = 0
    BY <1>1
  <2> QED BY <1>1, <1>2, <2>1
<1>4. TotalOf(g[e], s, g)
  BY <1>1, <1>2, <1>3 DEF TotalOf, IsTotal
<1> QED BY <1>4 DEF s

LEMMA TotalConcat ==
  ASSUME NEW S, NEW g \in [S -> Int], NEW s \in Seq(S), NEW t \in Seq(S),
         NEW v, TotalOf(v, s, g), NEW w, TotalOf(w, t, g)
  PROVE  TotalOf(v + w, s \o t, g)
<1> DEFINE m == Len(s)
           n == Len(t)
           z == s \o t
<1>1. /\ m \in Nat /\ n \in Nat /\ Len(z) = m + n
      /\ \A i \in 1 .. m + n : z[i] = IF i <= m THEN s[i] ELSE t[i - m]
  BY ConcatProperties, LenProperties
<1> HIDE DEF z
<1>2. PICK P : IsTotal(P, s, g) /\ v = P[m]
  BY DEF TotalOf
<1>3. PICK Q : IsTotal(Q, t, g) /\ w = Q[n]
  BY DEF TotalOf
<1>4. P \in [0 .. m -> Int] /\ P[0] = 0 /\ v \in Int
      /\ \A i \in 1 .. m : P[i] = P[i - 1] + g[s[i]]
  BY <1>1, <1>2 DEF IsTotal
<1>5. Q \in [0 .. n -> Int] /\ Q[0] = 0 /\ \A i \in 1 .. n : Q[i] = Q[i - 1] + g[t[i]]
  BY <1>3 DEF IsTotal
<1>6. /\ \A i \in 1 .. m : g[s[i]] \in Int
      /\ \A i \in 1 .. n : g[t[i]] \in Int
  BY ElementOfSeq
<1> HIDE DEF m, n
<1> DEFINE K == [i \in 0 .. m + n |-> IF i <= m THEN P[i] ELSE v + Q[i - m]]
<1>7. \A i \in 0 .. m + n : /\ i <= m => i \in 0 .. m
                            /\ ~ (i <= m) => i - m \in 0 .. n
  BY <1>1
<1>8. K \in [0 .. m + n -> Int]
  BY <1>4, <1>5, <1>7
<1>9. /\ \A i \in 0 .. m : K[i] = P[i]
      /\ \A j \in 1 .. n : K[m + j] = v + Q[j]
  BY <1>1
<1>10. K[0] = 0 /\ K[m + n] = v + w
  <2>1. K[0] = 0
    BY <1>1, <1>4, <1>9
  <2>2. CASE n = 0
    BY <1>1, <1>2, <1>3, <1>4, <1>5, <1>9, <2>1, <2>2
  <2>3. CASE n # 0
    <3>1. n \in 1 .. n
      BY <1>1, <2>3
    <3>2. K[m + n] = v + Q[n]
      BY <1>9, <3>1
    <3> QED BY <1>3, <2>1, <3>2
  <2> QED BY <2>1, <2>2, <2>3
<1> HIDE DEF K
<1>11. ASSUME NEW i \in 1 .. m + n PROVE K[i] = K[i - 1] + g[z[i]]
  <2>1. CASE i <= m
    <3>1. i \in 1 .. m /\ i \in 0 .. m /\ i - 1 \in 0 .. m
      BY <1>1, <2>1
    <3> QED BY <1>1, <1>4, <1>9, <2>1, <3>1
  <2>2. CASE ~ (i <= m)
    <3>1. PICK j \in 1 .. n : i = m + j
      <4>1. i - m \in 1 .. n /\ i = m + (i - m)
        BY <1>1, <2>2
      <4> QED BY <4>1
    <3>2. z[i] = t[j]
      <4>1. i - m = j
        BY <1>1, <3>1
      <4> QED BY <1>1, <2>2, <4>1
    <3>3. K[i] = v + Q[j] /\ Q[j] = Q[j - 1] + g[t[j]] /\ Q[j - 1] \in Int /\ g[t[j]] \in Int
      <4>1. j - 1 \in 0 .. n
        BY <1>1
      <4> QED BY <1>5, <1>6, <1>9, <3>1, <4>1
    <3>4. K[i - 1] = v + Q[j - 1]
      <4>1. CASE j = 1
        <5>1. i - 1 = m /\ m \in 0 .. m /\ j - 1 = 0
          BY <1>1, <3>1, <4>1
        <5> QED BY <1>2, <1>4, <1>5, <1>9, <5>1
      <4>2. CASE j # 1
        <5>1. j - 1 \in 1 .. n /\ i - 1 = m + (j - 1)
          BY <1>1, <3>1, <4>2
        <5> QED BY <1>9, <5>1
      <4> QED BY <4>1, <4>2
    <3> QED BY <1>4, <3>2, <3>3, <3>4
  <2> QED BY <2>1, <2>2
<1>12. IsTotal(K, z, g)
  BY <1>1, <1>8, <1>10, <1>11 DEF IsTotal
<1> QED BY <1>1, <1>10, <1>12 DEF TotalOf, z

LEMMA TotalAppend ==
  ASSUME NEW S, NEW g \in [S -> Int], NEW s \in Seq(S), NEW e \in S, NEW v, TotalOf(v, s, g)
  PROVE  TotalOf(v + g[e], Append(s, e), g)
<1>1. TotalOf(g[e], <<e>>, g)
  BY TotalOfOne
<1>2. PICK t : t = <<e>>
  OBVIOUS
<1>3. t \in Seq(S) /\ Append(s, e) = s \o t
  BY <1>2, SingleSeq, AppendIsConcat
<1>4. TotalOf(v + g[e], s \o t, g)
  BY <1>1, <1>2, <1>3, TotalConcat
<1> QED BY <1>3, <1>4

\* Without its head a sequence adds up to that much less.
LEMMA TotalTail ==
  ASSUME NEW S, NEW g \in [S -> Int], NEW s \in Seq(S), s # <<>>, NEW v, TotalOf(v, s, g)
  PROVE  TotalOf(v - g[Head(s)], Tail(s), g)
<1> DEFINE t == Tail(s)
           n == Len(t)
           d == g[Head(s)]
<1>1. /\ n \in Nat /\ Len(s) = n + 1 /\ Head(s) = s[1] /\ s[1] \in S
      /\ \A k \in 1 .. n : k + 1 \in 1 .. Len(s) /\ t[k] = s[k + 1]
  <2>1. /\ t \in Seq(S) /\ Len(s) \in Nat /\ Len(t) = Len(s) - 1 /\ Head(s) = s[1]
        /\ 1 \in 1 .. Len(s)
        /\ \A k \in 1 .. Len(t) : k + 1 \in 1 .. Len(s) /\ t[k] = s[k + 1]
    BY TailFacts
  <2>2. Len(t) \in Nat
    BY <2>1, LenProperties
  <2> QED BY <2>1, <2>2, ElementOfSeq
<1>2. PICK P : IsTotal(P, s, g) /\ v = P[n + 1]
  BY <1>1 DEF TotalOf
<1>3. P \in [0 .. n + 1 -> Int] /\ P[0] = 0
      /\ \A i \in 1 .. n + 1 : P[i] = P[i - 1] + g[s[i]]
  BY <1>1, <1>2 DEF IsTotal
<1>4. d \in Int /\ P[1] = d
  <2>1. 1 \in 1 .. n + 1 /\ 1 - 1 = 0 /\ g[s[1]] \in Int
    BY <1>1
  <2> QED BY <1>1, <1>3, <2>1
<1>5. \A i \in 1 .. n : g[t[i]] \in Int
  BY <1>1, ElementOfSeq
<1> HIDE DEF n, t, d
<1> DEFINE K == [i \in 0 .. n |-> P[i + 1] - d]
<1>6. /\ K \in [0 .. n -> Int] /\ K[0] = 0 /\ K[n] = v - d
      /\ \A i \in 0 .. n : K[i] = P[i + 1] - d
  BY <1>1, <1>2, <1>3, <1>4
<1> HIDE DEF K
<1>7. ASSUME NEW i \in 1 .. n PROVE K[i] = K[i - 1] + g[t[i]]
  <2>1. i \in 0 .. n /\ i - 1 \in 0 .. n /\ i + 1 \in 1 .. n + 1 /\ (i - 1) + 1 = i
        /\ (i + 1) - 1 = i /\ P[i] \in Int
    BY <1>1, <1>3
  <2>2. K[i] = P[i + 1] - d /\ K[i - 1] = P[i] - d /\ P[i + 1] = P[i] + g[s[i + 1]]
    BY <1>3, <1>6, <2>1
  <2>3. g[s[i + 1]] = g[t[i]] /\ g[t[i]] \in Int
    BY <1>1, <1>5
  <2> QED BY <1>4, <2>1, <2>2, <2>3
<1>8. Len(t) = n
  BY DEF n
<1>9. IsTotal(K, t, g)
  BY <1>6, <1>7, <1>8 DEF IsTotal
<1> QED BY <1>6, <1>8, <1>9 DEF TotalOf, t, d

\* One element that changes adds the difference.
LEMMA TotalChange ==
  ASSUME NEW S, NEW g \in [S -> Int], NEW s \in Seq(S), NEW v, TotalOf(v, s, g),
         NEW j \in 1 .. Len(s), NEW e \in S
  PROVE  TotalOf(v + (g[e] - g[s[j]]), [s EXCEPT ![j] = e], g)
<1> DEFINE n == Len(s)
           z == [s EXCEPT ![j] = e]
           d == g[e] - g[s[j]]
<1>1. /\ n \in Nat /\ Len(z) = n /\ \A i \in 1 .. n : z[i] = IF i = j THEN e ELSE s[i]
  BY ExceptSeq, LenProperties
<1>2. \A i \in 1 .. n : g[s[i]] \in Int
  BY ElementOfSeq
<1>3. d \in Int /\ g[e] \in Int /\ g[e] = g[s[j]] + d
  BY <1>2
<1> HIDE DEF z, d
<1>4. PICK P : IsTotal(P, s, g) /\ v = P[n]
  BY DEF TotalOf
<1>5. P \in [0 .. n -> Int] /\ P[0] = 0
      /\ \A i \in 1 .. n : P[i] = P[i - 1] + g[s[i]]
  BY <1>1, <1>4 DEF IsTotal
<1> DEFINE K == [i \in 0 .. n |-> IF i < j THEN P[i] ELSE P[i] + d]
<1>6. K \in [0 .. n -> Int] /\ K[0] = 0 /\ K[n] = v + d
      /\ \A i \in 0 .. n : K[i] = IF i < j THEN P[i] ELSE P[i] + d
  BY <1>1, <1>3, <1>4, <1>5
<1> HIDE DEF K
<1>7. ASSUME NEW i \in 1 .. n PROVE K[i] = K[i - 1] + g[z[i]]
  <2>1. /\ i \in 0 .. n /\ i - 1 \in 0 .. n /\ P[i] \in Int /\ P[i - 1] \in Int
        /\ P[i] = P[i - 1] + g[s[i]] /\ g[s[i]] \in Int
    BY <1>1, <1>2, <1>5
  <2>2. CASE i = j
    <3>1. g[z[i]] = g[s[i]] + d
      BY <1>1, <1>3, <2>2
    <3>2. K[i] = P[i] + d /\ K[i - 1] = P[i - 1]
      BY <1>6, <2>1, <2>2
    <3> QED BY <1>3, <2>1, <3>1, <3>2
  <2>3. CASE i # j
    <3>1. g[z[i]] = g[s[i]]
      BY <1>1, <2>3
    <3>2. i < j <=> i - 1 < j
      BY <2>3
    <3>3. K[i - 1] = IF i < j THEN P[i - 1] ELSE P[i - 1] + d
      BY <1>6, <2>1, <3>2
    <3>4. K[i] = IF i < j THEN P[i] ELSE P[i] + d
      BY <1>6, <2>1
    <3> QED BY <1>3, <2>1, <3>1, <3>3, <3>4
  <2> QED BY <2>2, <2>3
<1>8. IsTotal(K, z, g)
  BY <1>1, <1>6, <1>7 DEF IsTotal
<1> QED BY <1>1, <1>6, <1>8 DEF TotalOf, z, d

\* Two sequences whose elements add the same have the same total.
LEMMA TotalAlike ==
  ASSUME NEW s, NEW t, NEW g, NEW h, NEW v, TotalOf(v, s, g), Len(t) = Len(s),
         \A i \in 1 .. Len(s) : h[t[i]] = g[s[i]]
  PROVE  TotalOf(v, t, h)
BY DEF TotalOf, IsTotal
=============================================================================
