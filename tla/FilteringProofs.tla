---------------------------- MODULE FilteringProofs ----------------------------
(***************************************************************************)
(* Induction over the naturals and over sequences, stated with sets where  *)
(* a theorem of the library takes an operator, and what Filtering computes *)
(* for every sequence and every set.                                       *)
(***************************************************************************)
EXTENDS Filtering, SequenceTheorems, WellFoundedInduction, TLAPS

------------------------------------------------------------------------------
(* Induction                                                               *)

\* A relation by which the naturals are well-founded.
LEMMA Less == \E R : IsWellFoundedOn(R, Nat) /\ \A x, y \in Nat : x < y => <<x, y>> \in R
<1>1. \A x, y \in Nat : x < y => <<x, y>> \in OpToRel(<, Nat)
  BY DEF OpToRel
<1> QED BY <1>1, NatLessThanWellFounded, Zenon

\* A set of naturals that is not empty has a least one.
LEMMA Least == ASSUME NEW T, T \subseteq Nat, T # {} PROVE \E x \in T : \A y \in T : x <= y
<1>1. PICK R : IsWellFoundedOn(R, Nat) /\ \A x, y \in Nat : x < y => <<x, y>> \in R
  BY Less
<1>2. PICK x \in T : \A y \in T : ~ (<<y, x>> \in R)
  <2>1. IsWellFoundedOn(R, Nat)
    BY <1>1
  <2> QED BY ONLY <2>1, T \subseteq Nat, T # {}, WFMin, Zenon
<1>3. \A y \in T : ~ (y < x)
  BY <1>1, <1>2
<1>4. \A y \in T : x <= y
  BY <1>3
<1> QED BY <1>4

\* A set that holds zero and the successor of each of its naturals holds them all.
LEMMA NatsByInduction ==
    ASSUME NEW T, 0 \in T, \A n \in Nat : n \in T => n + 1 \in T
    PROVE  Nat \subseteq T
<1> SUFFICES ASSUME Nat \ T # {} PROVE FALSE
  OBVIOUS
<1>1. PICK n \in Nat \ T : \A m \in Nat \ T : n <= m
  BY Least
<1>2. n # 0
  OBVIOUS
<1>3. n - 1 \in Nat /\ ~ (n <= n - 1) /\ (n - 1) + 1 = n
  BY <1>2
<1>4. n - 1 \in T
  BY <1>1, <1>3
<1> QED BY <1>3, <1>4

\* A set that holds the empty sequence and, with a sequence, every sequence
\* that is longer by one element holds all sequences over X.
LEMMA SeqsByInduction ==
    ASSUME NEW X, NEW T, << >> \in T,
           \A s \in Seq(X) : s \in T => \A x \in X : Append(s, x) \in T
    PROVE  Seq(X) \subseteq T
<1> DEFINE N == {n \in Nat : \A s \in Seq(X) : Len(s) = n => s \in T}
<1>1. 0 \in N
  <2>1. \A s \in Seq(X) : Len(s) = 0 => s = << >>
    BY EmptySeq
  <2> QED BY <2>1
<1>2. ASSUME NEW n \in Nat, n \in N PROVE n + 1 \in N
  <2> SUFFICES ASSUME NEW s \in Seq(X), Len(s) = n + 1 PROVE s \in T
    OBVIOUS
  <2> DEFINE front == SubSeq(s, 1, Len(s) - 1)
  <2>1. s # << >>
    BY EmptySeq
  <2>2. PICK t, x : t \in Seq(X) /\ x \in X /\ s = Append(t, x)
    BY <2>1, SequenceEmptyOrAppend
  <2>3. Len(t) = n
    BY <2>2, AppendProperties
  <2> QED BY <1>2, <2>2, <2>3
<1>3. Nat \subseteq N
  <2> HIDE DEF N
  <2> QED BY <1>1, <1>2, NatsByInduction
<1> QED BY <1>3, LenProperties

\* Appending to the end of two sequences put together.
LEMMA AppendOfConcat ==
    ASSUME NEW X, NEW s \in Seq(X), NEW t \in Seq(X), NEW x \in X
    PROVE  s \o Append(t, x) = Append(s \o t, x)
<1>1. <<x>> \in Seq(X) /\ Append(t, x) = t \o <<x>>
  BY AppendIsConcat
<1>2. s \o t \in Seq(X) /\ Append(s \o t, x) = (s \o t) \o <<x>>
  BY ConcatProperties, AppendIsConcat
<1>3. (s \o t) \o <<x>> = s \o (t \o <<x>>)
  BY <1>1, ConcatAssociative
<1> QED BY ONLY <1>1, <1>2, <1>3

------------------------------------------------------------------------------
(* The recursive function of Select is defined                              *)

\* The function that Select evaluates at the length of the sequence.
Chooses(g, seq, S) ==
    g = [n \in 0..Len(seq) |->
           IF n = 0 THEN << >>
           ELSE IF seq[n] \in S THEN Append(g[n - 1], seq[n])
           ELSE g[n - 1]]

\* One more element is one more case.
LEMMA ChoosesOneMore ==
    ASSUME NEW X, NEW S, NEW seq \in Seq(X), NEW x \in X, NEW g, Chooses(g, seq, S)
    PROVE  Chooses([n \in 0..Len(seq) + 1 |->
                      IF n = Len(seq) + 1
                      THEN IF x \in S THEN Append(g[Len(seq)], x) ELSE g[Len(seq)]
                      ELSE g[n]], Append(seq, x), S)
<1> DEFINE k == Len(seq)
           longer == Append(seq, x)
           h == [n \in 0..k + 1 |->
                   IF n = k + 1 THEN IF x \in S THEN Append(g[k], x) ELSE g[k] ELSE g[n]]
           e(n) == IF n = 0 THEN << >>
                   ELSE IF longer[n] \in S THEN Append(h[n - 1], longer[n])
                   ELSE h[n - 1]
<1>1. /\ k \in Nat /\ Len(longer) = k + 1 /\ longer[k + 1] = x
      /\ \A n \in 1..k : longer[n] = seq[n]
  BY AppendProperties, LenProperties
<1>2. \A n \in 0..k : h[n] = g[n]
  BY <1>1
<1>3. ASSUME NEW n \in 0..k + 1 PROVE h[n] = e(n)
  <2>1. CASE n = k + 1
    BY <2>1, <1>1, <1>2
  <2>2. CASE n = 0
    BY <2>2, <1>1, <1>2 DEF Chooses
  <2>3. CASE n \in 1..k
    <3>1. /\ h[n] = g[n] /\ h[n - 1] = g[n - 1] /\ longer[n] = seq[n] /\ n # 0 /\ n \in 0..k
      BY <2>3, <1>1, <1>2
    <3>2. g[n] = IF seq[n] \in S THEN Append(g[n - 1], seq[n]) ELSE g[n - 1]
      BY <3>1 DEF Chooses
    <3> QED BY <3>1, <3>2
  <2> QED BY <2>1, <2>2, <2>3, <1>1
<1>4. h = [n \in 0..k + 1 |-> e(n)]
  <2> HIDE DEF e
  <2> QED BY <1>3
<1>5. h = [n \in 0..Len(longer) |-> e(n)]
  BY <1>4, <1>1
<1> QED BY <1>5 DEF Chooses

\* Two functions that choose from sequences with a common beginning agree there.
LEMMA ChoosesTheSame ==
    ASSUME NEW S, NEW p, NEW q, NEW k \in Nat, k <= Len(p), k <= Len(q),
           Len(p) \in Nat, Len(q) \in Nat,
           \A i \in 1..k : p[i] = q[i], NEW g, NEW h, Chooses(g, p, S), Chooses(h, q, S)
    PROVE  g[k] = h[k]
<1> DEFINE T == {n \in Nat : n <= k => g[n] = h[n]}
<1>1. 0 \in T
  BY DEF Chooses
<1>2. ASSUME NEW n \in Nat, n \in T PROVE n + 1 \in T
  <2> SUFFICES ASSUME n + 1 <= k PROVE g[n + 1] = h[n + 1]
    OBVIOUS
  <2>1. /\ n + 1 \in 0..Len(p) /\ n + 1 \in 0..Len(q) /\ n + 1 # 0 /\ (n + 1) - 1 = n
        /\ p[n + 1] = q[n + 1] /\ g[n] = h[n]
    BY <1>2
  <2>2. g[n + 1] = IF p[n + 1] \in S THEN Append(g[n], p[n + 1]) ELSE g[n]
    BY <2>1 DEF Chooses
  <2>3. h[n + 1] = IF q[n + 1] \in S THEN Append(h[n], q[n + 1]) ELSE h[n]
    BY <2>1 DEF Chooses
  <2> QED BY <2>1, <2>2, <2>3
<1>3. Nat \subseteq T
  <2> HIDE DEF T
  <2> QED BY <1>1, <1>2, NatsByInduction
<1> QED BY <1>3

\* A function that chooses from a sequence exists.
LEMMA ChoosesSomething ==
    ASSUME NEW X, NEW S PROVE \A seq \in Seq(X) : \E g : Chooses(g, seq, S)
<1> DEFINE T == {seq \in Seq(X) : \E g : Chooses(g, seq, S)}
<1>1. << >> \in T
  <2> DEFINE g == [n \in {0} |-> << >>]
  <2>1. << >> \in Seq(X) /\ 0..Len(<< >>) = {0}
    BY EmptySeq
  <2>2. Chooses(g, << >>, S)
    BY <2>1 DEF Chooses
  <2> QED BY <2>1, <2>2
<1>2. ASSUME NEW seq \in Seq(X), seq \in T, NEW x \in X PROVE Append(seq, x) \in T
  BY <1>2, ChoosesOneMore, AppendProperties
<1>3. Seq(X) \subseteq T
  <2> HIDE DEF T
  <2> QED BY <1>1, <1>2, SeqsByInduction
<1> QED BY <1>3

\* Select is the value at the length of any such function.
LEMMA SelectIsChosen ==
    ASSUME NEW X, NEW S, NEW seq \in Seq(X), NEW g, Chooses(g, seq, S)
    PROVE  Select(seq, S) = g[Len(seq)]
<1> DEFINE f == CHOOSE f : Chooses(f, seq, S)
<1>1. Chooses(f, seq, S)
  <2> HIDE DEF f
  <2>1. \E c : Chooses(c, seq, S)
    OBVIOUS
  <2> QED BY <2>1, Zenon DEF f
<1>2. Select(seq, S) = f[Len(seq)]
  BY Zenon DEF Select, Chooses
<1>3. f[Len(seq)] = g[Len(seq)]
  <2> HIDE DEF f
  <2>1. Len(seq) \in Nat /\ Len(seq) <= Len(seq)
    BY LenProperties
  <2> QED BY <1>1, <2>1, ChoosesTheSame
<1> QED BY <1>2, <1>3

------------------------------------------------------------------------------
(* What Select returns                                                     *)

\* Nothing is chosen from the empty sequence.
LEMMA SelectEmpty == ASSUME NEW S PROVE Select(<< >>, S) = << >>
<1>1. << >> \in Seq({}) /\ Len(<< >>) = 0
  BY EmptySeq
<1>2. PICK g : Chooses(g, << >>, S)
  BY <1>1, ChoosesSomething
<1>3. Select(<< >>, S) = g[0]
  BY <1>1, <1>2, SelectIsChosen
<1> QED BY <1>1, <1>2, <1>3 DEF Chooses

\* One more element is chosen if it is in the set.
LEMMA SelectAppend ==
    ASSUME NEW X, NEW S, NEW seq \in Seq(X), NEW x \in X
    PROVE  Select(Append(seq, x), S) =
             IF x \in S THEN Append(Select(seq, S), x) ELSE Select(seq, S)
<1> DEFINE k == Len(seq)
           h(g) == [n \in 0..k + 1 |->
                      IF n = k + 1 THEN IF x \in S THEN Append(g[k], x) ELSE g[k] ELSE g[n]]
<1>1. PICK g : Chooses(g, seq, S)
  BY ChoosesSomething
<1>2. k \in Nat /\ Append(seq, x) \in Seq(X) /\ Len(Append(seq, x)) = k + 1
  BY LenProperties, AppendProperties
<1>3. Select(seq, S) = g[k]
  BY <1>1, SelectIsChosen
<1>4. Chooses(h(g), Append(seq, x), S)
  BY <1>1, ChoosesOneMore
<1>5. Select(Append(seq, x), S) = h(g)[k + 1]
  <2> HIDE DEF h, k
  <2> QED BY <1>2, <1>4, SelectIsChosen
<1>6. h(g)[k + 1] = IF x \in S THEN Append(g[k], x) ELSE g[k]
  BY <1>2
<1> QED BY <1>3, <1>5, <1>6

\* What is chosen are elements of the sequence and of the set, no more of
\* them than the sequence has.
LEMMA SelectType ==
    ASSUME NEW X, NEW S, NEW seq \in Seq(X)
    PROVE  Select(seq, S) \in Seq(X \cap S) /\ Len(Select(seq, S)) <= Len(seq)
<1> DEFINE T == {s \in Seq(X) : Select(s, S) \in Seq(X \cap S) /\ Len(Select(s, S)) <= Len(s)}
<1>1. << >> \in T
  <2>1. << >> \in Seq(X) /\ << >> \in Seq(X \cap S) /\ Len(<< >>) = 0
    BY EmptySeq
  <2>2. Select(<< >>, S) = << >>
    BY SelectEmpty
  <2>3. Select(<< >>, S) \in Seq(X \cap S)
    BY <2>1, <2>2
  <2>4. Len(Select(<< >>, S)) <= Len(<< >>)
    BY <2>1, <2>2
  <2> QED BY <2>1, <2>3, <2>4
<1>2. ASSUME NEW s \in Seq(X), s \in T, NEW x \in X PROVE Append(s, x) \in T
  <2>1. Append(s, x) \in Seq(X) /\ Len(Append(s, x)) = Len(s) + 1 /\ Len(s) \in Nat
    BY AppendProperties, LenProperties
  <2>2. Select(Append(s, x), S) = IF x \in S THEN Append(Select(s, S), x) ELSE Select(s, S)
    BY SelectAppend
  <2>3. Select(s, S) \in Seq(X \cap S) /\ Len(Select(s, S)) <= Len(s) /\ Len(Select(s, S)) \in Nat
    BY <1>2, LenProperties
  <2>4. CASE x \in S
    <3>1. /\ Append(Select(s, S), x) \in Seq(X \cap S)
          /\ Len(Append(Select(s, S), x)) = Len(Select(s, S)) + 1
      BY <2>3, <2>4, AppendProperties
    <3>2. Select(Append(s, x), S) = Append(Select(s, S), x)
      BY <2>2, <2>4
    <3>3. Len(Select(Append(s, x), S)) <= Len(Append(s, x))
      BY ONLY <2>1, <2>3, <3>1, <3>2
    <3>4. Select(Append(s, x), S) \in Seq(X \cap S)
      BY ONLY <3>1, <3>2
    <3> QED BY <2>1, <3>3, <3>4
  <2>5. CASE x \notin S
    BY <2>1, <2>2, <2>3, <2>5
  <2> QED BY <2>4, <2>5
<1>3. Seq(X) \subseteq T
  <2> HIDE DEF T
  <2> QED BY <1>1, <1>2, SeqsByInduction
<1>4. seq \in T
  <2> HIDE DEF T
  <2> QED BY <1>3
<1> QED BY <1>4

\* Choosing from two sequences one after the other.
LEMMA SelectConcat ==
    ASSUME NEW X, NEW S, NEW seq \in Seq(X), NEW tail \in Seq(X)
    PROVE  Select(seq \o tail, S) = Select(seq, S) \o Select(tail, S)
<1> DEFINE T == {t \in Seq(X) : Select(seq \o t, S) = Select(seq, S) \o Select(t, S)}
<1>0. Select(seq, S) \in Seq(X \cap S)
  BY SelectType
<1>1. << >> \in T
  <2>1. seq \o << >> = seq /\ << >> \in Seq(X)
    BY ConcatEmptySeq, EmptySeq
  <2>2. Select(seq, S) \o << >> = Select(seq, S)
    BY <1>0, ConcatEmptySeq
  <2> QED BY <2>1, <2>2, SelectEmpty
<1>2. ASSUME NEW t \in Seq(X), t \in T, NEW x \in X PROVE Append(t, x) \in T
  <2>1. Append(t, x) \in Seq(X)
    BY AppendProperties
  <2>2. seq \o t \in Seq(X) /\ seq \o Append(t, x) = Append(seq \o t, x)
    BY AppendOfConcat, ConcatProperties
  <2>3. Select(seq \o Append(t, x), S) =
          IF x \in S THEN Append(Select(seq, S) \o Select(t, S), x)
          ELSE Select(seq, S) \o Select(t, S)
    <3>1. Select(seq \o t, S) = Select(seq, S) \o Select(t, S)
      BY <1>2
    <3>2. Select(Append(seq \o t, x), S) =
            IF x \in S THEN Append(Select(seq \o t, S), x) ELSE Select(seq \o t, S)
      <4> DEFINE both == seq \o t
      <4>1. both \in Seq(X)
        BY <2>2
      <4> HIDE DEF both, T
      <4>2. Select(Append(both, x), S) =
              IF x \in S THEN Append(Select(both, S), x) ELSE Select(both, S)
        BY <4>1, SelectAppend
      <4> QED BY <4>2 DEF both
    <3> QED BY ONLY <2>2, <3>1, <3>2
  <2>4. Select(Append(t, x), S) = IF x \in S THEN Append(Select(t, S), x) ELSE Select(t, S)
    BY SelectAppend
  <2>5. x \in S => Select(seq, S) \o Append(Select(t, S), x) = Append(Select(seq, S) \o Select(t, S), x)
    <3>1. Select(t, S) \in Seq(X \cap S)
      BY SelectType
    <3> QED BY <1>0, <3>1, AppendOfConcat
  <2> QED BY <2>1, <2>3, <2>4, <2>5
<1>3. Seq(X) \subseteq T
  <2> HIDE DEF T
  <2> QED BY <1>1, <1>2, SeqsByInduction
<1> QED BY <1>3

\* All of a sequence whose elements are in the set is chosen.
LEMMA SelectAll ==
    ASSUME NEW S, NEW seq \in Seq(S) PROVE Select(seq, S) = seq
<1> DEFINE T == {s \in Seq(S) : Select(s, S) = s}
<1>1. << >> \in T
  BY SelectEmpty, EmptySeq
<1>2. ASSUME NEW s \in Seq(S), s \in T, NEW x \in S PROVE Append(s, x) \in T
  BY <1>2, SelectAppend, AppendProperties
<1>3. Seq(S) \subseteq T
  <2> HIDE DEF T
  <2> QED BY <1>1, <1>2, SeqsByInduction
<1> QED BY <1>3

\* Nothing is chosen from a sequence none of whose elements is in the set.
LEMMA SelectNone ==
    ASSUME NEW X, NEW S, X \cap S = {}, NEW seq \in Seq(X) PROVE Select(seq, S) = << >>
<1>1. Select(seq, S) \in Seq({})
  BY SelectType
<1>2. Len(Select(seq, S)) = 0
  <2> SUFFICES ASSUME Len(Select(seq, S)) # 0 PROVE FALSE
    OBVIOUS
  <2>1. 1 \in 1..Len(Select(seq, S))
    BY <1>1, LenProperties
  <2> QED BY <1>1, <2>1, ElementOfSeq
<1> QED BY <1>1, <1>2, EmptySeq
==============================================================================
