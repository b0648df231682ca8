----------------------------- MODULE PolicyProofs -----------------------------
(***************************************************************************)
(* Proofs about Policy, for any file, inventory, tool arguments and tools: *)
(* what the loader accepts is what a well formed file says, the binary     *)
(* search finds what the table holds, and the file policy create writes    *)
(* means exactly the tools asked for.                                      *)
(*                                                                         *)
(* The loops of the code are one operator, Loop, of states and steps; what *)
(* is proved about each loop follows from LoopStates, by induction over    *)
(* the number of steps taken.                                              *)
(***************************************************************************)
EXTENDS Policy, FilteringProofs, FiniteSetTheorems

------------------------------------------------------------------------------
(* Sequences                                                               *)

\* A sequence has a length, places up to it, and its elements there.
LEMMA SequenceHas ==
    ASSUME NEW seq, IsSequence(seq)
    PROVE  Len(seq) \in Nat /\ DOMAIN seq = 1..Len(seq)
BY DEF IsSequence

\* A sequence of whatever elements is one.
LEMMA SequenceIs == ASSUME NEW S, NEW seq \in Seq(S) PROVE IsSequence(seq)
<1>1. Len(seq) \in Nat /\ seq = [i \in 1..Len(seq) |-> seq[i]] /\ DOMAIN seq = 1..Len(seq)
  OBVIOUS
<1>2. \A i \in 1..Len(seq) : seq[i] \in ToSet(seq)
  BY <1>1 DEF ToSet
<1>3. seq \in [1..Len(seq) -> ToSet(seq)]
  BY ONLY <1>1, <1>2
<1> QED BY ONLY <1>1, <1>3 DEF IsSequence

------------------------------------------------------------------------------
(* Loops                                                                   *)

\* What holds at zero and from one place to the next holds up to k.
LEMMA UpTo ==
    ASSUME NEW k \in Nat, NEW T, 0 \in T, \A n \in 0..k : n < k /\ n \in T => n + 1 \in T
    PROVE  \A n \in 0..k : n \in T
<1> DEFINE U == {n \in Nat : n <= k => n \in T}
<1>1. 0 \in U
  OBVIOUS
<1>2. ASSUME NEW n \in Nat, n \in U PROVE n + 1 \in U
  BY <1>2
<1>3. Nat \subseteq U
  <2> HIDE DEF U
  <2> QED BY <1>1, <1>2, NatsByInduction
<1> QED BY <1>3

\* Each of k steps, a function of the state, stays in P.
StaysIn(step, k, P) == \A n \in 1..k : \A p \in P : step[n][p] \in P

\* The states before and after each of k steps.
Runs(f, k, start, step) ==
    DOMAIN f = 0..k /\ f[0] = start /\ \A n \in 1..k : f[n] = step[n][f[n - 1]]

\* A loop of k steps is defined.
LEMMA LoopExists ==
    ASSUME NEW k \in Nat, NEW P, NEW start \in P, NEW step, StaysIn(step, k, P)
    PROVE  \E f : f \in [0..k -> P] /\ Runs(f, k, start, step)
<1> DEFINE T == {m \in 0..k : \E f : f \in [0..m -> P] /\ Runs(f, m, start, step)}
<1>1. 0 \in T
  <2> DEFINE f == [n \in 0..0 |-> start]
  <2>1. f \in [0..0 -> P] /\ f[0] = start
    OBVIOUS
  <2>2. \A n \in 1..0 : f[n] = step[n][f[n - 1]]
    OBVIOUS
  <2> HIDE DEF f
  <2>3. f \in [0..0 -> P] /\ Runs(f, 0, start, step)
    BY <2>1, <2>2 DEF Runs
  <2> QED BY <2>3
<1>2. ASSUME NEW m \in 0..k, m < k, m \in T PROVE m + 1 \in T
  <2>1. PICK f : f \in [0..m -> P] /\ Runs(f, m, start, step)
    BY <1>2
  <2> DEFINE g == [n \in 0..(m + 1) |-> IF n = m + 1 THEN step[m + 1][f[m]] ELSE f[n]]
  <2>2. m + 1 \in 1..k /\ f[m] \in P
    BY <1>2, <2>1
  <2>3. step[m + 1][f[m]] \in P
    BY <2>2 DEF StaysIn
  <2>4. g \in [0..(m + 1) -> P]
    BY <2>1, <2>3
  <2>5. g[0] = start
    BY <2>1 DEF Runs
  <2>6. ASSUME NEW n \in 1..(m + 1) PROVE g[n] = step[n][g[n - 1]]
    <3>1. CASE n = m + 1
      BY <3>1
    <3>2. CASE n # m + 1
      <4>1. n \in 1..m /\ n - 1 \in 0..m /\ n - 1 # m + 1 /\ n \in 0..(m + 1) /\ n - 1 \in 0..(m + 1)
        BY <3>2
      <4>2. g[n] = f[n] /\ g[n - 1] = f[n - 1]
        BY <4>1, <3>2
      <4> QED BY <2>1, <4>1, <4>2 DEF Runs
    <3> QED BY <3>1, <3>2
  <2>7. Runs(g, m + 1, start, step)
    <3> HIDE DEF g
    <3> QED BY <2>4, <2>5, <2>6 DEF Runs
  <2>8. m + 1 \in 0..k
    BY <2>2
  <2> HIDE DEF g
  <2> QED BY <2>4, <2>7, <2>8
<1>3. k \in T
  <2> HIDE DEF T
  <2>1. \A n \in 0..k : n \in T
    BY <1>1, <1>2, UpTo
  <2> QED BY <2>1
<1> QED BY <1>3

\* However a loop of k steps has run, its states are in P.
LEMMA LoopStates ==
    ASSUME NEW k \in Nat, NEW P, NEW start \in P, NEW step, StaysIn(step, k, P),
           NEW f, Runs(f, k, start, step)
    PROVE  \A n \in 0..k : f[n] \in P
<1> DEFINE T == {n \in 0..k : f[n] \in P}
<1>1. 0 \in T
  BY DEF Runs
<1>2. ASSUME NEW n \in 0..k, n < k, n \in T PROVE n + 1 \in T
  <2>1. n + 1 \in 1..k /\ n + 1 \in 0..k /\ (n + 1) - 1 = n
    BY <1>2
  <2>2. f[n + 1] = step[n + 1][f[n]]
    BY <2>1 DEF Runs
  <2> QED BY <1>2, <2>1, <2>2 DEF StaysIn
<1>3. \A n \in 0..k : n \in T
  <2> HIDE DEF T
  <2> QED BY <1>1, <1>2, UpTo
<1> QED BY <1>3

------------------------------------------------------------------------------
(* Objects                                                                 *)

ObjectKeys == AccessKeys \cup {"name"}
ObjectParses ==
    [error : {"none", "duplicate_member", "invalid_member", "missing_member"},
     saw : SUBSET ObjectKeys, name : Names \cup {0}, visibility : Access, invocation : Access]

\* The states of the parse before and after each member.
FieldsRead(f, object, known) ==
    f = [n \in 0..Len(object) |->
           IF n = 0 THEN FreshObject ELSE TakeField(f[n - 1], object[n], known)]

\* A member leaves a parse a parse.
LEMMA TakeFieldType ==
    ASSUME NEW known \in SUBSET ObjectKeys, NEW p \in ObjectParses, NEW m, m.good \in BOOLEAN,
           m.good /\ m.key = "name" => m.value \in Names,
           m.good /\ m.key \in AccessKeys => m.value \in Access
    PROVE  TakeField(p, m, known) \in ObjectParses
<1>1. CASE p.error = "none" /\ ~Repeated(m.key, known, p.saw) /\ m.good /\ m.key \in known
  <2>1. TakeField(p, m, known) = [p EXCEPT !.saw = @ \cup {m.key}, ![m.key] = m.value]
    BY <1>1 DEF TakeField
  <2>2. m.key \in ObjectKeys /\ p.saw \cup {m.key} \in SUBSET ObjectKeys
    BY <1>1 DEF ObjectParses
  <2>3. /\ p = [error |-> p.error, saw |-> p.saw, name |-> p.name,
                visibility |-> p.visibility, invocation |-> p.invocation]
        /\ p.error \in {"none", "duplicate_member", "invalid_member", "missing_member"}
        /\ p.name \in Names \cup {0} /\ p.visibility \in Access /\ p.invocation \in Access
    BY DEF ObjectParses
  <2>4. CASE m.key = "name"
    <3>1. m.value \in Names \cup {0}
      BY <1>1, <2>4
    <3>2. TakeField(p, m, known) = [error |-> p.error, saw |-> p.saw \cup {m.key},
              name |-> m.value, visibility |-> p.visibility, invocation |-> p.invocation]
      BY ONLY <2>1, <2>3, <2>4
    <3> QED BY ONLY <2>2, <2>3, <3>1, <3>2 DEF ObjectParses
  <2>5. CASE m.key = "visibility"
    <3>1. m.value \in Access
      BY <1>1, <2>5 DEF AccessKeys
    <3>2. TakeField(p, m, known) = [error |-> p.error, saw |-> p.saw \cup {m.key},
              name |-> p.name, visibility |-> m.value, invocation |-> p.invocation]
      BY ONLY <2>1, <2>3, <2>5
    <3> QED BY ONLY <2>2, <2>3, <3>1, <3>2 DEF ObjectParses
  <2>6. CASE m.key = "invocation"
    <3>1. m.value \in Access
      BY <1>1, <2>6 DEF AccessKeys
    <3>2. TakeField(p, m, known) = [error |-> p.error, saw |-> p.saw \cup {m.key},
              name |-> p.name, visibility |-> p.visibility, invocation |-> m.value]
      BY ONLY <2>1, <2>3, <2>6
    <3> QED BY ONLY <2>2, <2>3, <3>1, <3>2 DEF ObjectParses
  <2> QED BY <2>2, <2>4, <2>5, <2>6 DEF ObjectKeys, AccessKeys
<1>2. CASE ~(p.error = "none" /\ ~Repeated(m.key, known, p.saw) /\ m.good /\ m.key \in known)
  BY <1>2 DEF ObjectParses, TakeField
<1> QED BY <1>1, <1>2

\* The parse of an object begins fresh.
LEMMA FreshObjectType == FreshObject \in ObjectParses
BY DEF FreshObject, ObjectParses, ObjectKeys, Access

\* The loop over an object runs, from parse to parse.
LEMMA ObjectLoop ==
    ASSUME NEW object, IsObject(object), NEW known \in SUBSET ObjectKeys
    PROVE  \E f : /\ ReadFields(object, known) = f[Len(object)]
                  /\ \A n \in 0..Len(object) : f[n] \in ObjectParses
                  /\ f[0] = FreshObject
                  /\ \A n \in 1..Len(object) : f[n] = TakeField(f[n - 1], object[n], known)
<1> DEFINE k == Len(object)
           step == [n \in 1..k |-> [p \in ObjectParses |-> TakeField(p, object[n], known)]]
<1>1. k \in Nat /\ DOMAIN object = 1..k
  BY DEF IsObject, IsSequence
<1>2. \A n \in 1..k : \A p \in ObjectParses : TakeField(p, object[n], known) \in ObjectParses
  BY <1>1, TakeFieldType DEF IsObject
<1>3. \E f : FieldsRead(f, object, known)
  <2>1. \A n \in 1..k : \A p \in ObjectParses :
          step[n][p] = TakeField(p, object[n], known) /\ step[n][p] \in ObjectParses
    BY <1>2
  <2> HIDE DEF step, k
  <2>2. k \in Nat
    BY <1>1
  <2>3. StaysIn(step, k, ObjectParses)
    BY <2>1 DEF StaysIn
  <2>a. PICK f : f \in [0..k -> ObjectParses] /\ Runs(f, k, FreshObject, step)
    BY ONLY <2>2, <2>3, FreshObjectType, LoopExists
  <2>4. ASSUME NEW n \in 0..k
        PROVE  f[n] = IF n = 0 THEN FreshObject ELSE TakeField(f[n - 1], object[n], known)
    <3>1. CASE n = 0
      BY <2>a, <3>1 DEF Runs
    <3>2. CASE n # 0
      <4>1. n \in 1..k /\ n - 1 \in 0..k
        BY <1>1, <3>2
      <4> QED BY <2>1, <2>a, <3>2, <4>1 DEF Runs
    <3> QED BY <3>1, <3>2
  <2>5. f = [n \in 0..k |-> IF n = 0 THEN FreshObject ELSE TakeField(f[n - 1], object[n], known)]
    BY <2>a, <2>4
  <2> QED BY <2>5 DEF FieldsRead, k
<1> DEFINE f == CHOOSE f : FieldsRead(f, object, known)
<1>4. FieldsRead(f, object, known)
  <2> HIDE DEF f
  <2> QED BY ONLY <1>3, Zenon DEF f
<1>5. ReadFields(object, known) = f[k]
  BY Zenon DEF Loop, ReadFields, FieldsRead
<1> HIDE DEF f
<1>6. f[0] = FreshObject /\ \A n \in 1..k : f[n] = TakeField(f[n - 1], object[n], known)
  BY <1>1, <1>4 DEF FieldsRead
<1>7. \A n \in 0..k : n \in {i \in 0..k : f[i] \in ObjectParses}
  <2> DEFINE T == {i \in 0..k : f[i] \in ObjectParses}
  <2>1. 0 \in T
    BY <1>1, <1>6, FreshObjectType
  <2>2. ASSUME NEW n \in 0..k, n < k, n \in T PROVE n + 1 \in T
    <3>1. n + 1 \in 1..k /\ (n + 1) - 1 = n
      BY <1>1, <2>2
    <3> QED BY <1>2, <1>6, <2>2, <3>1
  <2> HIDE DEF T
  <2> QED BY <1>1, <2>1, <2>2, UpTo DEF T
<1> QED BY <1>5, <1>6, <1>7

\* The first n members are good and none of a known key is repeated.
SoundUpTo(members, known, n) ==
    /\ \A i \in 1..n : members[i].good
    /\ \A i, j \in 1..n : i < j /\ members[i].key \in known => members[i].key # members[j].key

\* What has been read of an object, and whether it has failed.
ObjectSoFar(p, object, known, n) ==
    /\ p.error = "none" <=> SoundUpTo(object, known, n)
    /\ p.error = "none" =>
         /\ \A key : key \in p.saw <=> key \in known /\ \E i \in 1..n : object[i].key = key
         /\ \A i \in 1..n : object[i].key \in known => p[object[i].key] = object[i].value

\* One more member is read.
LEMMA TakeFieldMeans ==
    ASSUME NEW object, NEW known \in SUBSET ObjectKeys, NEW p \in ObjectParses, NEW n \in Nat,
           object[n + 1].good \in BOOLEAN, ObjectSoFar(p, object, known, n)
    PROVE  ObjectSoFar(TakeField(p, object[n + 1], known), object, known, n + 1)
<1> DEFINE m == object[n + 1]
           q == TakeField(p, m, known)
<1>1. /\ \A i \in 1..(n + 1) : i \in 1..n \/ i = n + 1
      /\ \A i \in 1..n : i \in 1..(n + 1) /\ i < n + 1 /\ i # n + 1
      /\ n + 1 \in 1..(n + 1) /\ ~(n + 1 < n + 1) /\ \A i \in 1..n : ~(n + 1 < i)
  OBVIOUS
<1>2. SoundUpTo(object, known, n + 1) <=>
        /\ SoundUpTo(object, known, n) /\ m.good
        /\ m.key \in known => \A i \in 1..n : object[i].key # m.key
  BY <1>1 DEF SoundUpTo
<1>3. CASE p.error # "none"
  <2>1. q = p
    BY <1>3 DEF TakeField
  <2> QED BY <1>2, <1>3, <2>1 DEF ObjectSoFar
<1>4. CASE p.error = "none" /\ Repeated(m.key, known, p.saw)
  <2>1. q.error = "duplicate_member"
    BY <1>4 DEF TakeField, ObjectParses
  <2>2. m.key \in known /\ \E i \in 1..n : object[i].key = m.key
    BY <1>4 DEF Repeated, ObjectSoFar
  <2> QED BY <1>2, <2>1, <2>2 DEF ObjectSoFar
<1>5. CASE p.error = "none" /\ ~Repeated(m.key, known, p.saw) /\ ~m.good
  <2>1. q.error = "invalid_member"
    BY <1>5 DEF TakeField, ObjectParses
  <2> QED BY <1>2, <1>5, <2>1 DEF ObjectSoFar
<1>6. CASE p.error = "none" /\ m.good /\ m.key \notin known
  <2>1. q = p
    BY <1>6 DEF TakeField, Repeated
  <2>2. SoundUpTo(object, known, n + 1)
    BY <1>2, <1>6 DEF ObjectSoFar
  <2> HIDE DEF q
  <2>3. \A key : key \in q.saw <=> key \in known /\ \E i \in 1..(n + 1) : object[i].key = key
    BY <1>1, <1>6, <2>1 DEF ObjectSoFar
  <2>4. ObjectSoFar(q, object, known, n + 1)
    BY <1>1, <1>6, <2>1, <2>2, <2>3 DEF ObjectSoFar
  <2> QED BY <2>4 DEF q
<1>7. CASE p.error = "none" /\ ~Repeated(m.key, known, p.saw) /\ m.good /\ m.key \in known
  <2>1. q = [p EXCEPT !.saw = @ \cup {m.key}, ![m.key] = m.value]
    BY <1>7 DEF TakeField
  <2>2. m.key \in {"visibility", "invocation", "name"}
    BY <1>7 DEF ObjectKeys, AccessKeys
  <2>3. \A key \in {"visibility", "invocation", "name"} : key # m.key => q[key] = p[key]
    BY <2>1, <2>2 DEF ObjectParses
  <2>4. q[m.key] = m.value /\ q.saw = p.saw \cup {m.key} /\ q.error = "none"
    BY <1>7, <2>1, <2>2 DEF ObjectParses
  <2>5. \A i \in 1..n : object[i].key # m.key
    BY <1>7 DEF Repeated, ObjectSoFar
  <2>6. SoundUpTo(object, known, n + 1)
    BY <1>2, <1>7, <2>5 DEF ObjectSoFar
  <2> HIDE DEF q
  <2>7. \A key : key \in q.saw <=> key \in known /\ \E i \in 1..(n + 1) : object[i].key = key
    BY <1>1, <1>7, <2>4 DEF ObjectSoFar
  <2>8. ASSUME NEW i \in 1..(n + 1), object[i].key \in known
        PROVE  q[object[i].key] = object[i].value
    <3>1. CASE i = n + 1
      BY <2>4, <3>1
    <3>2. CASE i \in 1..n
      <4>1. object[i].key \in {"visibility", "invocation", "name"}
        BY <2>8 DEF ObjectKeys, AccessKeys
      <4>2. p[object[i].key] = object[i].value
        BY <1>7, <2>8, <3>2 DEF ObjectSoFar
      <4> QED BY <2>3, <2>5, <3>2, <4>1, <4>2
    <3> QED BY <1>1, <3>1, <3>2
  <2>9. ObjectSoFar(q, object, known, n + 1)
    BY <2>4, <2>6, <2>7, <2>8 DEF ObjectSoFar
  <2> QED BY <2>9 DEF q
<1> QED BY <1>3, <1>4, <1>5, <1>6, <1>7

\* A set of positions of a key is finite, and if it has one element, that one
\* is where the value is.
LEMMA OnePosition ==
    ASSUME NEW members, IsSequence(members), NEW key
    PROVE  Cardinality(Positions(members, key)) = 1 <=>
             \E i \in 1..Len(members) : Positions(members, key) = {i}
<1> DEFINE k == Len(members)
           S == Positions(members, key)
<1>1. k \in Int /\ 1 \in Int /\ (1 > k => k = 0) /\ k - 1 + 1 = k /\ DOMAIN members = 1..k
  BY DEF IsSequence
<1>2. IsFiniteSet(1..k)
  <2> HIDE DEF k
  <2> QED BY ONLY <1>1, FS_Interval
<1>3. S \subseteq 1..k
  BY <1>1 DEF Positions
<1> HIDE DEF S, k
<1>4. IsFiniteSet(S)
  BY ONLY <1>2, <1>3, FS_Subset
<1>5. Cardinality(S) = 1 <=> \E i : S = {i}
  BY ONLY <1>4, FS_Singleton
<1>6. Cardinality(S) = 1 <=> \E i \in 1..k : S = {i}
  BY ONLY <1>3, <1>5
<1> QED BY <1>6 DEF S, k

\* Every key of keys stands once among sound members that have them all.
LEMMA AllOnce ==
    ASSUME NEW members, IsSequence(members), NEW keys
    PROVE  HasAll(members, keys) <=>
             /\ SoundUpTo(members, keys, Len(members))
             /\ \A key \in keys : \E i \in 1..Len(members) : members[i].key = key
<1>1. Len(members) \in Nat /\ DOMAIN members = 1..Len(members)
  BY DEF IsSequence
<1>2. ASSUME NEW key
      PROVE  (\E i \in 1..Len(members) : Positions(members, key) = {i}) <=>
               /\ \E i \in 1..Len(members) : members[i].key = key
               /\ \A i, j \in 1..Len(members) :
                    i < j /\ members[i].key = key => members[j].key # key
  <2>1. \A i : i \in Positions(members, key) <=> i \in 1..Len(members) /\ members[i].key = key
    BY <1>1 DEF Positions
  <2>2. \A i, j \in 1..Len(members) : i < j \/ j < i \/ i = j
    BY <1>1
  <2>3. \A i \in 1..Len(members) : ~(i < i)
    BY <1>1
  <2>4. ASSUME NEW i \in 1..Len(members), members[i].key = key,
               \A j, k \in 1..Len(members) : j < k /\ members[j].key = key => members[k].key # key
        PROVE  Positions(members, key) = {i}
    BY <2>1, <2>2, <2>4
  <2> QED BY <2>1, <2>3, <2>4
<1>3. HasAll(members, keys) <=>
        /\ \A i \in 1..Len(members) : members[i].good
        /\ \A key \in keys : \E i \in 1..Len(members) : Positions(members, key) = {i}
  BY <1>1, OnePosition DEF HasAll
<1>4. ASSUME HasAll(members, keys)
      PROVE  /\ SoundUpTo(members, keys, Len(members))
             /\ \A key \in keys : \E i \in 1..Len(members) : members[i].key = key
  <2>1. \A key \in keys :
          /\ \E i \in 1..Len(members) : members[i].key = key
          /\ \A i, j \in 1..Len(members) :
               i < j /\ members[i].key = key => members[j].key # key
    BY <1>2, <1>3, <1>4
  <2>2. ASSUME NEW i \in 1..Len(members), NEW j \in 1..Len(members), i < j,
               members[i].key \in keys
        PROVE  members[i].key # members[j].key
    BY ONLY <2>1, <2>2
  <2> QED BY <1>3, <1>4, <2>1, <2>2 DEF SoundUpTo
<1>5. ASSUME SoundUpTo(members, keys, Len(members)),
             \A key \in keys : \E i \in 1..Len(members) : members[i].key = key
      PROVE  HasAll(members, keys)
  <2>1. ASSUME NEW key \in keys
        PROVE  \E i \in 1..Len(members) : Positions(members, key) = {i}
    <3>1. \A i, j \in 1..Len(members) :
            i < j /\ members[i].key = key => members[j].key # key
      BY <1>5 DEF SoundUpTo
    <3> QED BY <1>2, <1>5, <3>1
  <2> QED BY <1>3, <1>5, <2>1 DEF SoundUpTo
<1> QED BY ONLY <1>4, <1>5

\* The value of a key that stands once.
LEMMA ValueOnce ==
    ASSUME NEW members, IsSequence(members), NEW keys, HasAll(members, keys),
           NEW i \in 1..Len(members), members[i].key \in keys
    PROVE  Value(members, members[i].key) = members[i].value
<1>1. PICK j \in 1..Len(members) : Positions(members, members[i].key) = {j}
  BY OnePosition DEF HasAll
<1>2. i \in Positions(members, members[i].key)
  BY DEF Positions, IsSequence
<1>3. Positions(members, members[i].key) = {i}
  BY <1>1, <1>2
<1>4. (CHOOSE x \in {i} : TRUE) = i
  OBVIOUS
<1> QED BY <1>3, <1>4 DEF Value

\* An object is accepted if it has each known key once, and then each known
\* key has its value.
LEMMA ParseObjectMeans ==
    ASSUME NEW object, IsObject(object), NEW known \in SUBSET ObjectKeys
    PROVE  /\ ParseObject(object, known) \in ObjectParses
           /\ ParseObject(object, known).error = "none" <=> HasAll(object, known)
           /\ ParseObject(object, known).error = "none" =>
                \A key \in known : ParseObject(object, known)[key] = Value(object, key)
<1> DEFINE k == Len(object)
           t == ParseObject(object, known)
<1>1. IsSequence(object) /\ k \in Nat /\ DOMAIN object = 1..k
  BY DEF IsObject, IsSequence
<1>2. PICK f : /\ ReadFields(object, known) = f[k]
               /\ \A n \in 0..k : f[n] \in ObjectParses
               /\ f[0] = FreshObject
               /\ \A n \in 1..k : f[n] = TakeField(f[n - 1], object[n], known)
  BY ObjectLoop
<1>3. ObjectSoFar(f[k], object, known, k)
  <2> DEFINE T == {n \in 0..k : ObjectSoFar(f[n], object, known, n)}
  <2>1. 0 \in T
    <3>1. SoundUpTo(object, known, 0)
      BY DEF SoundUpTo
    <3> QED BY <1>1, <1>2, <3>1 DEF ObjectSoFar, FreshObject
  <2>2. ASSUME NEW n \in 0..k, n < k, n \in T PROVE n + 1 \in T
    <3>1. n \in Nat /\ n + 1 \in 1..k /\ (n + 1) - 1 = n /\ n + 1 \in 0..k
      BY <1>1, <2>2
    <3>2. object[n + 1].good \in BOOLEAN
      BY <1>1, <3>1 DEF IsObject
    <3>3. f[n + 1] = TakeField(f[n], object[n + 1], known) /\ f[n] \in ObjectParses
      BY <1>2, <3>1
    <3>4. ObjectSoFar(f[n], object, known, n)
      BY <2>2
    <3>5. ObjectSoFar(f[n + 1], object, known, n + 1)
      BY ONLY <3>1, <3>2, <3>3, <3>4, known \in SUBSET ObjectKeys, TakeFieldMeans
    <3> QED BY <3>1, <3>5
  <2>3. \A n \in 0..k : n \in T
    <3> HIDE DEF T
    <3> QED BY <1>1, <2>1, <2>2, UpTo
  <2> QED BY <1>1, <2>3
<1>4. f[k] \in ObjectParses
  BY <1>1, <1>2
<1>5. CASE f[k].error = "none" /\ ~(known \subseteq f[k].saw)
  <2>1. t = [f[k] EXCEPT !.error = "missing_member"]
    BY <1>2, <1>5 DEF ParseObject
  <2>2. t \in ObjectParses /\ t.error = "missing_member"
    BY <1>4, <2>1 DEF ObjectParses
  <2>3. ~HasAll(object, known)
    BY <1>1, <1>3, <1>5, AllOnce DEF ObjectSoFar
  <2> QED BY <2>2, <2>3
<1>6. CASE ~(f[k].error = "none" /\ ~(known \subseteq f[k].saw))
  <2>1. t = f[k]
    BY <1>2, <1>6 DEF ParseObject
  <2>2. t.error = "none" <=> HasAll(object, known)
    BY <1>1, <1>3, <1>6, <2>1, AllOnce DEF ObjectSoFar
  <2>3. ASSUME t.error = "none", NEW key \in known PROVE t[key] = Value(object, key)
    <3>1. PICK i \in 1..k : object[i].key = key
      BY <1>1, <2>2, <2>3, AllOnce
    <3>2. Value(object, key) = object[i].value
      BY <1>1, <2>2, <2>3, <3>1, ValueOnce
    <3>3. f[k][key] = object[i].value
      BY <1>3, <2>1, <2>3, <3>1 DEF ObjectSoFar
    <3> QED BY <2>1, <3>2, <3>3
  <2> HIDE DEF t
  <2>4. t \in ObjectParses
    BY <1>4, <2>1
  <2> QED BY <2>2, <2>3, <2>4 DEF t
<1> QED BY <1>5, <1>6

------------------------------------------------------------------------------
(* Documents                                                               *)

Errors == {"none", "duplicate_member", "invalid_member", "missing_member"}
DocKeys == {"version", "defaults", "tools"}

\* The states of the parse of a document whose members have these keys.
Parses(keys) ==
    [error : Errors, saw : SUBSET keys, defaults : [visible : Access, callable : Access],
     rules : Seq(RuleSet)]

\* What an entry says, and what a list of entries says.
RuleIn(entry) ==
    Rule(Value(entry, "name"), Value(entry, "visibility"), Value(entry, "invocation"))
RulesIn(entries) == [j \in 1..Len(entries) |-> RuleIn(entries[j])]

\* The values of an accepted object are of the kind their keys call for.
LEMMA ValuesFit ==
    ASSUME NEW object, IsObject(object), NEW keys \in SUBSET ObjectKeys, HasAll(object, keys)
    PROVE  /\ "name" \in keys => Value(object, "name") \in Names
           /\ \A key \in keys \cap AccessKeys : Value(object, key) \in Access
<1>1. IsSequence(object) /\ DOMAIN object = 1..Len(object)
  BY DEF IsObject, IsSequence
<1>2. ASSUME NEW key \in keys
      PROVE  \E i \in 1..Len(object) :
               object[i].key = key /\ object[i].good /\ Value(object, key) = object[i].value
  <2>1. PICK i \in 1..Len(object) : object[i].key = key
    BY <1>1, AllOnce
  <2>2. Value(object, key) = object[i].value
    BY <1>1, <2>1, ValueOnce
  <2> QED BY <1>1, <2>1, <2>2 DEF HasAll
<1> QED BY <1>1, <1>2 DEF IsObject

\* The rule of an accepted entry.
LEMMA EntryMeans ==
    ASSUME NEW entry, IsObject(entry)
    PROVE  LET t == ParseObject(entry, AccessKeys \cup {"name"})
           IN  /\ t.error \in Errors
               /\ t.error = "none" <=> HasAll(entry, ObjectKeys)
               /\ t.error = "none" =>
                    Rule(t.name, t.visibility, t.invocation) = RuleIn(entry)
               /\ t.error = "none" => RuleIn(entry) \in RuleSet
<1> DEFINE t == ParseObject(entry, ObjectKeys)
<1>1. ObjectKeys \in SUBSET ObjectKeys /\ "name" \in ObjectKeys
      /\ "visibility" \in ObjectKeys \cap AccessKeys /\ "invocation" \in ObjectKeys \cap AccessKeys
  BY DEF ObjectKeys, AccessKeys
<1>2. /\ t \in ObjectParses
      /\ t.error = "none" <=> HasAll(entry, ObjectKeys)
      /\ t.error = "none" => \A key \in ObjectKeys : t[key] = Value(entry, key)
  BY <1>1, ParseObjectMeans
<1>3. t.error \in Errors
  BY <1>2 DEF ObjectParses, Errors
<1>4. ASSUME t.error = "none" PROVE Rule(t.name, t.visibility, t.invocation) = RuleIn(entry)
  BY <1>1, <1>2, <1>4 DEF RuleIn
<1>5. ASSUME t.error = "none" PROVE RuleIn(entry) \in RuleSet
  <2>1. Value(entry, "name") \in Names /\ Value(entry, "visibility") \in Access
        /\ Value(entry, "invocation") \in Access
    BY <1>1, <1>2, <1>5, ValuesFit
  <2> QED BY <2>1 DEF RuleIn, Rule, RuleSet
<1> QED BY <1>2, <1>3, <1>4, <1>5 DEF ObjectKeys

\* The access of an accepted defaults object.
LEMMA DefaultsMean ==
    ASSUME NEW object, IsObject(object)
    PROVE  LET d == ParseObject(object, AccessKeys)
           IN  /\ d.error \in Errors
               /\ Defaults(d.visibility, d.invocation) \in [visible : Access, callable : Access]
               /\ d.error = "none" <=> HasAll(object, AccessKeys)
               /\ d.error = "none" => Defaults(d.visibility, d.invocation) = AccessIn(object)
<1> DEFINE d == ParseObject(object, AccessKeys)
<1>1. AccessKeys \in SUBSET ObjectKeys /\ "visibility" \in AccessKeys /\ "invocation" \in AccessKeys
  BY DEF ObjectKeys, AccessKeys
<1>2. /\ d \in ObjectParses
      /\ d.error = "none" <=> HasAll(object, AccessKeys)
      /\ d.error = "none" => \A key \in AccessKeys : d[key] = Value(object, key)
  BY <1>1, ParseObjectMeans
<1>3. d.error \in Errors /\ d.visibility \in Access /\ d.invocation \in Access
  BY <1>2 DEF ObjectParses, Errors
<1>4. Defaults(d.visibility, d.invocation) \in [visible : Access, callable : Access]
  BY <1>3 DEF Defaults
<1>5. ASSUME d.error = "none" PROVE Defaults(d.visibility, d.invocation) = AccessIn(object)
  BY <1>1, <1>2, <1>5 DEF AccessIn
<1> QED BY <1>2, <1>3, <1>4, <1>5

\* A list of entries.
IsEntries(entries) == IsSequence(entries) /\ \A j \in 1..Len(entries) : IsObject(entries[j])

\* What has been read of a list of entries.
EntriesSoFar(p, start, entries, n) ==
    /\ p.saw = start.saw /\ p.defaults = start.defaults
    /\ p.error = "none" <=> \A j \in 1..n : HasAll(entries[j], ObjectKeys)
    /\ p.error = "none" => p.rules = [j \in 1..n |-> RuleIn(entries[j])]

\* An entry leaves a parse a parse.
LEMMA TakeEntryType ==
    ASSUME NEW keys, NEW p \in Parses(keys), NEW entry, IsObject(entry)
    PROVE  TakeEntry(p, entry) \in Parses(keys)
<1> DEFINE t == ParseObject(entry, AccessKeys \cup {"name"})
           r == Rule(t.name, t.visibility, t.invocation)
<1>1. t.error \in Errors /\ (t.error = "none" => r \in RuleSet)
  BY EntryMeans
<1>2. TakeEntry(p, entry) =
        IF p.error # "none" THEN p
        ELSE IF t.error # "none" THEN [p EXCEPT !.error = t.error]
        ELSE [p EXCEPT !.rules = Append(@, r)]
  BY DEF TakeEntry
<1> HIDE DEF t, r
<1>3. r \in RuleSet => Append(p.rules, r) \in Seq(RuleSet)
  BY DEF Parses
<1> QED BY <1>1, <1>2, <1>3 DEF Parses

\* One more entry is read.
LEMMA TakeEntryMeans ==
    ASSUME NEW keys, NEW start, NEW p \in Parses(keys), NEW entries, NEW n \in Nat,
           IsObject(entries[n + 1]), EntriesSoFar(p, start, entries, n)
    PROVE  EntriesSoFar(TakeEntry(p, entries[n + 1]), start, entries, n + 1)
<1> DEFINE entry == entries[n + 1]
           t == ParseObject(entry, AccessKeys \cup {"name"})
           r == Rule(t.name, t.visibility, t.invocation)
           q == TakeEntry(p, entry)
<1>1. /\ \A i \in 1..(n + 1) : i \in 1..n \/ i = n + 1
      /\ \A i \in 1..n : i \in 1..(n + 1) /\ i # n + 1
      /\ n + 1 \in 1..(n + 1)
  OBVIOUS
<1>2. /\ t.error = "none" <=> HasAll(entry, ObjectKeys)
      /\ t.error = "none" => r = RuleIn(entry)
  BY EntryMeans
<1>3. q = IF p.error # "none" THEN p
          ELSE IF t.error # "none" THEN [p EXCEPT !.error = t.error]
          ELSE [p EXCEPT !.rules = Append(@, r)]
  BY DEF TakeEntry
<1> HIDE DEF t, r, q
<1>4. ASSUME p.error # "none" PROVE EntriesSoFar(q, start, entries, n + 1)
  BY <1>1, <1>3, <1>4 DEF EntriesSoFar
<1>5. ASSUME p.error = "none", t.error # "none"
      PROVE  EntriesSoFar(q, start, entries, n + 1)
  <2>1. q.error = t.error /\ q.saw = p.saw /\ q.defaults = p.defaults
    BY <1>3, <1>5 DEF Parses
  <2> QED BY <1>1, <1>2, <1>5, <2>1 DEF EntriesSoFar
<1>6. ASSUME p.error = "none", t.error = "none"
      PROVE  EntriesSoFar(q, start, entries, n + 1)
  <2>1. /\ q.error = "none" /\ q.saw = p.saw /\ q.defaults = p.defaults
        /\ q.rules = Append(p.rules, RuleIn(entry))
    BY <1>2, <1>3, <1>6 DEF Parses
  <2>2. p.rules = [j \in 1..n |-> RuleIn(entries[j])]
    BY <1>6 DEF EntriesSoFar
  <2>3. Len(p.rules) = n
    BY <2>2
  <2>4. p.rules \in Seq(RuleSet)
    BY DEF Parses
  <2>5. q.rules = [j \in 1..(n + 1) |-> IF j = n + 1 THEN RuleIn(entry) ELSE p.rules[j]]
    BY ONLY <2>1, <2>3, <2>4, n \in Nat
  <2>6. q.rules = [j \in 1..(n + 1) |-> RuleIn(entries[j])]
    BY <1>1, <2>2, <2>5
  <2> QED BY <1>1, <1>2, <1>6, <2>1, <2>6 DEF EntriesSoFar
<1>7. EntriesSoFar(q, start, entries, n + 1)
  BY ONLY <1>4, <1>5, <1>6
<1> QED BY <1>7 DEF q

\* The states of the parse before and after each entry.
EntriesRead(f, start, entries) ==
    f = [n \in 0..Len(entries) |->
           IF n = 0 THEN start ELSE TakeEntry(f[n - 1], entries[n])]

\* The entries are taken.
EntriesTaken(start, entries) == Loop(TakeEntry, start, entries)

\* The loop over a list of entries runs, from parse to parse.
LEMMA EntriesLoop ==
    ASSUME NEW keys, NEW start \in Parses(keys), NEW entries, IsEntries(entries)
    PROVE  \E f : /\ EntriesTaken(start, entries) = f[Len(entries)]
                  /\ \A n \in 0..Len(entries) : f[n] \in Parses(keys)
                  /\ f[0] = start
                  /\ \A n \in 1..Len(entries) : f[n] = TakeEntry(f[n - 1], entries[n])
<1> DEFINE k == Len(entries)
           P == Parses(keys)
           step == [n \in 1..k |-> [p \in P |-> TakeEntry(p, entries[n])]]
<1>1. k \in Nat
  BY DEF IsEntries, IsSequence
<1>2. \A n \in 1..k : \A p \in P : step[n][p] = TakeEntry(p, entries[n]) /\ step[n][p] \in P
  BY TakeEntryType DEF IsEntries
<1> HIDE DEF step, P, k
<1>3. StaysIn(step, k, P)
  BY <1>2 DEF StaysIn
<1>4. start \in P
  BY DEF P
<1>5. \E f : EntriesRead(f, start, entries)
  <2>1. PICK f : f \in [0..k -> P] /\ Runs(f, k, start, step)
    BY ONLY <1>1, <1>3, <1>4, LoopExists
  <2>2. ASSUME NEW n \in 0..k
        PROVE  f[n] = IF n = 0 THEN start ELSE TakeEntry(f[n - 1], entries[n])
    <3>1. CASE n = 0
      BY <2>1, <3>1 DEF Runs
    <3>2. CASE n # 0
      <4>1. n \in 1..k /\ n - 1 \in 0..k
        BY <1>1, <3>2
      <4> QED BY <1>2, <2>1, <3>2, <4>1 DEF Runs
    <3> QED BY <3>1, <3>2
  <2>3. f = [n \in 0..k |-> IF n = 0 THEN start ELSE TakeEntry(f[n - 1], entries[n])]
    BY <2>1, <2>2
  <2> QED BY <2>3 DEF EntriesRead, k
<1> DEFINE f == CHOOSE f : EntriesRead(f, start, entries)
<1>6. EntriesRead(f, start, entries)
  <2> HIDE DEF f
  <2> QED BY ONLY <1>5, Zenon DEF f
<1>7. EntriesTaken(start, entries) = f[k]
  BY Zenon DEF Loop, EntriesTaken, EntriesRead, k
<1> HIDE DEF f
<1>8. /\ DOMAIN f = 0..k /\ f[0] = start
      /\ \A n \in 1..k : n - 1 \in 0..k /\ f[n] = TakeEntry(f[n - 1], entries[n])
  <2>1. f = [n \in 0..k |-> IF n = 0 THEN start ELSE TakeEntry(f[n - 1], entries[n])]
    BY <1>6, Zenon DEF EntriesRead, k
  <2>2. DOMAIN f = 0..k
    BY <2>1, Zenon
  <2>3. ASSUME NEW n \in 0..k
        PROVE  f[n] = IF n = 0 THEN start ELSE TakeEntry(f[n - 1], entries[n])
    BY <2>1, Zenon
  <2>4. 0 \in 0..k /\ \A n \in 1..k : n \in 0..k /\ n - 1 \in 0..k /\ n # 0
    BY <1>1
  <2> QED BY <2>2, <2>3, <2>4
<1>9. \A n \in 0..k : f[n] \in P
  <2> DEFINE T == {n \in 0..k : f[n] \in P}
  <2>1. 0 \in T
    BY <1>1, <1>4, <1>8
  <2>2. ASSUME NEW n \in 0..k, n < k, n \in T PROVE n + 1 \in T
    <3>1. n + 1 \in 1..k /\ n + 1 \in 0..k /\ (n + 1) - 1 = n
      BY <1>1, <2>2
    <3>2. f[n + 1] = TakeEntry(f[n], entries[n + 1]) /\ f[n] \in P
      BY <1>8, <2>2, <3>1
    <3>3. f[n + 1] \in P
      BY ONLY <1>2, <3>1, <3>2
    <3> QED BY <3>1, <3>3
  <2>3. \A n \in 0..k : n \in T
    <3> HIDE DEF T
    <3> QED BY <1>1, <2>1, <2>2, UpTo
  <2> QED BY <2>3
<1> QED BY <1>7, <1>8, <1>9 DEF P, k

\* A list of entries is accepted if each entry is, and then its rules are what
\* the entries say.
LEMMA ParseToolsMeans ==
    ASSUME NEW keys, "tools" \in keys, NEW p \in Parses(keys), p.error = "none", p.rules = << >>,
           NEW entries, IsEntries(entries)
    PROVE  LET q == ParseTools(p, entries)
           IN  /\ q \in Parses(keys)
               /\ q.saw = p.saw \cup {"tools"} /\ q.defaults = p.defaults
               /\ q.error = "none" <=> \A j \in 1..Len(entries) : HasAll(entries[j], ObjectKeys)
               /\ q.error = "none" => q.rules = RulesIn(entries)
<1> DEFINE k == Len(entries)
           start == [p EXCEPT !.saw = @ \cup {"tools"}]
           q == ParseTools(p, entries)
<1>1. k \in Nat
  BY DEF IsEntries, IsSequence
<1>2. /\ start \in Parses(keys) /\ start.saw = p.saw \cup {"tools"} /\ start.error = "none"
      /\ start.defaults = p.defaults /\ start.rules = << >>
  BY DEF Parses
<1>3. q = EntriesTaken(start, entries)
  BY Zenon DEF ParseTools, EntriesTaken
<1> HIDE DEF start, q, k
<1>4. PICK f : /\ q = f[k]
               /\ \A n \in 0..k : f[n] \in Parses(keys)
               /\ f[0] = start
               /\ \A n \in 1..k : f[n] = TakeEntry(f[n - 1], entries[n])
  <2>1. \E f : /\ EntriesTaken(start, entries) = f[Len(entries)]
               /\ \A n \in 0..Len(entries) : f[n] \in Parses(keys)
               /\ f[0] = start
               /\ \A n \in 1..Len(entries) : f[n] = TakeEntry(f[n - 1], entries[n])
    BY ONLY <1>2, IsEntries(entries), EntriesLoop
  <2> QED BY ONLY <1>3, <2>1, Zenon DEF k
<1> DEFINE T == {n \in 0..k : EntriesSoFar(f[n], start, entries, n)}
<1>5. 0 \in T
  <2>1. [j \in 1..0 |-> RuleIn(entries[j])] = << >>
    OBVIOUS
  <2> QED BY <1>1, <1>2, <1>4, <2>1 DEF EntriesSoFar
<1>6. ASSUME NEW n \in 0..k, n < k, n \in T PROVE n + 1 \in T
  <2>1. n \in Nat /\ n + 1 \in 1..k /\ (n + 1) - 1 = n /\ n + 1 \in 0..k
    BY <1>1, <1>6
  <2>2. f[n] \in Parses(keys) /\ f[n + 1] = TakeEntry(f[n], entries[n + 1])
    BY <1>4, <2>1
  <2>3. IsObject(entries[n + 1])
    BY <2>1 DEF IsEntries, k
  <2>4. EntriesSoFar(f[n], start, entries, n)
    BY <1>6
  <2>5. EntriesSoFar(f[n + 1], start, entries, n + 1)
    BY ONLY <2>1, <2>2, <2>3, <2>4, TakeEntryMeans
  <2> QED BY <2>1, <2>5
<1>7. \A n \in 0..k : n \in T
  <2> HIDE DEF T
  <2> QED BY <1>1, <1>5, <1>6, UpTo
<1>8. q \in Parses(keys) /\ EntriesSoFar(q, start, entries, k)
  BY <1>1, <1>4, <1>7
<1> QED BY <1>2, <1>8 DEF EntriesSoFar, RulesIn, k, q

\* A member of a document, and one whose object or entries are accepted.
IsMember(m) == m.good \in BOOLEAN /\ IsObject(m.object) /\ IsEntries(m.entries)
SoundMember(m) ==
    /\ m.key = "defaults" => HasAll(m.object, AccessKeys)
    /\ m.key = "tools" => \A j \in 1..Len(m.entries) : HasAll(m.entries[j], ObjectKeys)

\* There are no rules before the tools have been read.
Drafts(keys) == {p \in Parses(keys) : "tools" \in p.saw \/ p.rules = << >>}

\* What a member does to a parse.
Follows(p, m, q) ==
    /\ p.error # "none" => q.error # "none"
    /\ p.error = "none" =>
         (q.error = "none" <=>
            /\ ~(m.key \in DocKeys /\ m.key \in p.saw)
            /\ m.good /\ SoundMember(m))
    /\ q.error = "none" =>
         /\ q.saw = p.saw \cup {m.key}
         /\ q.defaults = IF m.key = "defaults" THEN AccessIn(m.object) ELSE p.defaults
         /\ q.rules = IF m.key = "tools" THEN RulesIn(m.entries) ELSE p.rules

\* A member leaves a parse a parse, and does to it what Follows says.
LEMMA ParseMemberMeans ==
    ASSUME NEW keys, NEW p \in Drafts(keys), NEW m, IsMember(m), m.key \in keys
    PROVE  ParseMember(p, m) \in Drafts(keys) /\ Follows(p, m, ParseMember(p, m))
<1> DEFINE q == ParseMember(p, m)
<1>1. p \in Parses(keys) /\ ("tools" \in p.saw \/ p.rules = << >>)
  BY DEF Drafts
<1>2. Repeated(m.key, {"version", "defaults", "tools"}, p.saw) <=> m.key \in DocKeys /\ m.key \in p.saw
  BY DEF Repeated, DocKeys
<1>3. ASSUME p.error # "none" PROVE q \in Drafts(keys) /\ Follows(p, m, q)
  <2>1. q = p
    BY <1>3 DEF ParseMember
  <2> QED BY <1>3, <2>1 DEF Follows
<1>4. ASSUME p.error = "none", m.key \in DocKeys, m.key \in p.saw
      PROVE  q \in Drafts(keys) /\ Follows(p, m, q)
  <2>1. q = [p EXCEPT !.error = "duplicate_member"]
    BY <1>2, <1>4 DEF ParseMember
  <2> HIDE DEF q
  <2>2. q \in Drafts(keys) /\ q.error = "duplicate_member"
    BY <1>1, <2>1 DEF Drafts, Parses, Errors
  <2> QED BY <1>4, <2>2 DEF Follows
<1>5. ASSUME p.error = "none", ~(m.key \in DocKeys /\ m.key \in p.saw), ~m.good
      PROVE  q \in Drafts(keys) /\ Follows(p, m, q)
  <2>1. q = [p EXCEPT !.error = "invalid_member"]
    BY <1>2, <1>5 DEF ParseMember
  <2> HIDE DEF q
  <2>2. q \in Drafts(keys) /\ q.error = "invalid_member"
    BY <1>1, <2>1 DEF Drafts, Parses, Errors
  <2> QED BY <1>5, <2>2 DEF Follows
<1>6. ASSUME p.error = "none", ~(m.key \in DocKeys /\ m.key \in p.saw), m.good,
             m.key = "defaults"
      PROVE  q \in Drafts(keys) /\ Follows(p, m, q)
  <2> DEFINE d == ParseObject(m.object, AccessKeys)
             a == Defaults(d.visibility, d.invocation)
  <2>1. /\ d.error \in Errors
        /\ a \in [visible : Access, callable : Access]
        /\ d.error = "none" <=> HasAll(m.object, AccessKeys)
        /\ d.error = "none" => a = AccessIn(m.object)
    BY DefaultsMean DEF IsMember
  <2>2. q = [p EXCEPT !.error = d.error, !.saw = @ \cup {"defaults"}, !.defaults = a]
    BY <1>2, <1>6 DEF ParseMember, ParseDefaults
  <2> HIDE DEF q, d, a
  <2>3. /\ q \in Parses(keys) /\ q.error = d.error /\ q.saw = p.saw \cup {m.key}
        /\ q.defaults = a /\ q.rules = p.rules
    BY <1>1, <1>6, <2>1, <2>2 DEF Parses
  <2>4. q \in Drafts(keys)
    BY <1>1, <2>3 DEF Drafts
  <2>5. m.key # "tools"
    BY <1>6
  <2>6. SoundMember(m) <=> HasAll(m.object, AccessKeys)
    BY <1>6, <2>5 DEF SoundMember
  <2>7. Follows(p, m, q)
    BY <1>6, <2>1, <2>3, <2>5, <2>6 DEF Follows
  <2> QED BY <2>4, <2>7
<1>7. ASSUME p.error = "none", ~(m.key \in DocKeys /\ m.key \in p.saw), m.good,
             m.key = "tools"
      PROVE  q \in Drafts(keys) /\ Follows(p, m, q)
  <2>1. "tools" \in keys /\ p.rules = << >> /\ m.key # "defaults"
    BY <1>1, <1>7 DEF DocKeys
  <2>2. q = ParseTools(p, m.entries)
    BY <1>2, <1>7, <2>1 DEF ParseMember
  <2> HIDE DEF q
  <2>3. /\ q \in Parses(keys)
        /\ q.saw = p.saw \cup {"tools"} /\ q.defaults = p.defaults
        /\ q.error = "none" <=> \A j \in 1..Len(m.entries) : HasAll(m.entries[j], ObjectKeys)
        /\ q.error = "none" => q.rules = RulesIn(m.entries)
    BY <1>1, <1>7, <2>1, <2>2, ParseToolsMeans DEF IsMember
  <2>4. q \in Drafts(keys)
    BY <2>3 DEF Drafts
  <2>6. SoundMember(m) <=> \A j \in 1..Len(m.entries) : HasAll(m.entries[j], ObjectKeys)
    BY <1>7, <2>1 DEF SoundMember
  <2>7. Follows(p, m, q)
    BY <1>7, <2>1, <2>3, <2>6 DEF Follows
  <2> QED BY <2>4, <2>7
<1>8. ASSUME p.error = "none", ~(m.key \in DocKeys /\ m.key \in p.saw), m.good,
             m.key # "defaults", m.key # "tools"
      PROVE  q \in Drafts(keys) /\ Follows(p, m, q)
  <2>1. q = [p EXCEPT !.saw = @ \cup {m.key}]
    BY <1>2, <1>8 DEF ParseMember
  <2> HIDE DEF q
  <2>2. /\ q \in Parses(keys) /\ q.error = "none" /\ q.saw = p.saw \cup {m.key}
        /\ q.defaults = p.defaults /\ q.rules = p.rules
    BY <1>1, <1>8, <2>1 DEF Parses
  <2>3. q \in Drafts(keys)
    BY <1>1, <2>2 DEF Drafts
  <2>4. SoundMember(m)
    BY <1>8 DEF SoundMember
  <2>5. Follows(p, m, q)
    BY <1>8, <2>2, <2>4 DEF Follows
  <2> QED BY <2>3, <2>5
<1> HIDE DEF q
<1>9. q \in Drafts(keys) /\ Follows(p, m, q)
  BY ONLY <1>3, <1>4, <1>5, <1>6, <1>7, <1>8
<1> QED BY <1>9 DEF q

\* The members are read, and the states of the parse before and after each.
Parsed(members) == Loop(ParseMember, Fresh, members)
MembersRead(f, members) ==
    f = [n \in 0..Len(members) |->
           IF n = 0 THEN Fresh ELSE ParseMember(f[n - 1], members[n])]

\* A sequence of members, and the keys there are.
IsMembers(members) == IsSequence(members) /\ \A i \in 1..Len(members) : IsMember(members[i])
KeysOf(members) == DocKeys \cup {members[i].key : i \in 1..Len(members)}

\* The parse of a document begins fresh.
LEMMA FreshType == ASSUME NEW keys PROVE Fresh \in Drafts(keys)
<1>1. Fresh.rules \in Seq(RuleSet) /\ Fresh.rules = << >>
  BY DEF Fresh
<1>2. Fresh \in Parses(keys)
  BY <1>1 DEF Fresh, Defaults, Parses, Errors, Access
<1> QED BY <1>1, <1>2 DEF Drafts

\* The loop over the members runs, from parse to parse.
LEMMA MembersLoop ==
    ASSUME NEW members, IsMembers(members)
    PROVE  \E f : /\ Parsed(members) = f[Len(members)]
                  /\ \A n \in 0..Len(members) : f[n] \in Drafts(KeysOf(members))
                  /\ f[0] = Fresh
                  /\ \A n \in 1..Len(members) : Follows(f[n - 1], members[n], f[n])
<1> DEFINE k == Len(members)
           P == Drafts(KeysOf(members))
           step == [n \in 1..k |-> [p \in P |-> ParseMember(p, members[n])]]
<1>1. k \in Nat
  BY DEF IsMembers, IsSequence
<1>a. ASSUME NEW n \in 1..k, NEW p \in P
      PROVE  /\ step[n][p] = ParseMember(p, members[n]) /\ step[n][p] \in P
             /\ Follows(p, members[n], ParseMember(p, members[n]))
  <2>1. IsMember(members[n]) /\ members[n].key \in KeysOf(members)
    BY DEF IsMembers, KeysOf
  <2>2. ParseMember(p, members[n]) \in P /\ Follows(p, members[n], ParseMember(p, members[n]))
    BY <2>1, ParseMemberMeans
  <2> QED BY <2>2
<1> HIDE DEF step, P, k
<1>3. StaysIn(step, k, P)
  BY <1>a DEF StaysIn
<1>4. Fresh \in P
  BY FreshType DEF P
<1>5. \E f : MembersRead(f, members)
  <2>1. PICK f : f \in [0..k -> P] /\ Runs(f, k, Fresh, step)
    BY ONLY <1>1, <1>3, <1>4, LoopExists
  <2>2. ASSUME NEW n \in 0..k
        PROVE  f[n] = IF n = 0 THEN Fresh ELSE ParseMember(f[n - 1], members[n])
    <3>1. CASE n = 0
      BY <2>1, <3>1 DEF Runs
    <3>2. CASE n # 0
      <4>1. n \in 1..k /\ n - 1 \in 0..k
        BY <1>1, <3>2
      <4>2. f[n] = step[n][f[n - 1]] /\ f[n - 1] \in P
        BY <2>1, <4>1 DEF Runs
      <4> QED BY <1>a, <3>2, <4>1, <4>2
    <3> QED BY <3>1, <3>2
  <2>3. f = [n \in 0..k |-> IF n = 0 THEN Fresh ELSE ParseMember(f[n - 1], members[n])]
    BY <2>1, <2>2
  <2> QED BY <2>3 DEF MembersRead, k
<1> DEFINE f == CHOOSE f : MembersRead(f, members)
<1>6. MembersRead(f, members)
  <2> HIDE DEF f
  <2> QED BY ONLY <1>5, Zenon DEF f
<1>7. Parsed(members) = f[k]
  BY Zenon DEF Loop, Parsed, MembersRead, k
<1> HIDE DEF f
<1>8. /\ DOMAIN f = 0..k /\ f[0] = Fresh
      /\ \A n \in 1..k : n - 1 \in 0..k /\ f[n] = ParseMember(f[n - 1], members[n])
  <2>1. f = [n \in 0..k |-> IF n = 0 THEN Fresh ELSE ParseMember(f[n - 1], members[n])]
    BY <1>6, Zenon DEF MembersRead, k
  <2>2. DOMAIN f = 0..k
    BY <2>1, Zenon
  <2>3. ASSUME NEW n \in 0..k
        PROVE  f[n] = IF n = 0 THEN Fresh ELSE ParseMember(f[n - 1], members[n])
    BY <2>1, Zenon
  <2>4. 0 \in 0..k /\ \A n \in 1..k : n \in 0..k /\ n - 1 \in 0..k /\ n # 0
    BY <1>1
  <2> QED BY <2>2, <2>3, <2>4
<1>9. \A n \in 0..k : f[n] \in P
  <2> DEFINE T == {n \in 0..k : f[n] \in P}
  <2>1. 0 \in T
    BY <1>1, <1>4, <1>8
  <2>2. ASSUME NEW n \in 0..k, n < k, n \in T PROVE n + 1 \in T
    <3>1. n + 1 \in 1..k /\ n + 1 \in 0..k /\ (n + 1) - 1 = n
      BY <1>1, <2>2
    <3>2. f[n + 1] = ParseMember(f[n], members[n + 1]) /\ f[n] \in P
      BY <1>8, <2>2, <3>1
    <3>3. f[n + 1] \in P
      BY ONLY <1>a, <3>1, <3>2
    <3> QED BY <3>1, <3>3
  <2>3. \A n \in 0..k : n \in T
    <3> HIDE DEF T
    <3> QED BY <1>1, <2>1, <2>2, UpTo
  <2> QED BY <2>3
<1>10. \A n \in 1..k : Follows(f[n - 1], members[n], f[n])
  BY <1>8, <1>9, <1>a
<1> QED BY <1>7, <1>8, <1>9, <1>10 DEF P, k

\* What has been read of a document.
DocSoFar(p, members, n) ==
    /\ p.error = "none" <=>
         SoundUpTo(members, DocKeys, n) /\ \A i \in 1..n : SoundMember(members[i])
    /\ p.error = "none" =>
         /\ \A key \in DocKeys : key \in p.saw <=> \E i \in 1..n : members[i].key = key
         /\ \A i \in 1..n : members[i].key = "defaults" => p.defaults = AccessIn(members[i].object)
         /\ \A i \in 1..n : members[i].key = "tools" => p.rules = RulesIn(members[i].entries)

\* One more member is read.
LEMMA FollowsMeans ==
    ASSUME NEW members, NEW n \in Nat, NEW p, NEW q, members[n + 1].good \in BOOLEAN,
           DocSoFar(p, members, n), Follows(p, members[n + 1], q)
    PROVE  DocSoFar(q, members, n + 1)
<1> DEFINE m == members[n + 1]
<1>1. /\ \A i \in 1..(n + 1) : i \in 1..n \/ i = n + 1
      /\ \A i \in 1..n : i \in 1..(n + 1) /\ i < n + 1 /\ i # n + 1
      /\ n + 1 \in 1..(n + 1) /\ ~(n + 1 < n + 1) /\ \A i \in 1..n : ~(n + 1 < i)
  OBVIOUS
<1>2. SoundUpTo(members, DocKeys, n + 1) <=>
        /\ SoundUpTo(members, DocKeys, n) /\ m.good
        /\ m.key \in DocKeys => \A i \in 1..n : members[i].key # m.key
  BY <1>1 DEF SoundUpTo
<1>3. (\A i \in 1..(n + 1) : SoundMember(members[i])) <=>
        SoundMember(m) /\ \A i \in 1..n : SoundMember(members[i])
  BY <1>1
<1>4. ASSUME p.error # "none" PROVE DocSoFar(q, members, n + 1)
  BY <1>2, <1>3, <1>4 DEF DocSoFar, Follows
<1>5. ASSUME p.error = "none", q.error # "none" PROVE DocSoFar(q, members, n + 1)
  <2>1. (m.key \in DocKeys /\ m.key \in p.saw) => \E i \in 1..n : members[i].key = m.key
    BY <1>5 DEF DocSoFar
  <2>2. (m.key \in DocKeys /\ m.key \in p.saw) \/ ~m.good \/ ~SoundMember(m)
    BY <1>5 DEF Follows
  <2> QED BY <1>2, <1>3, <1>5, <2>1, <2>2 DEF DocSoFar
<1>6. ASSUME p.error = "none", q.error = "none" PROVE DocSoFar(q, members, n + 1)
  <2>1. /\ m.good /\ SoundMember(m) /\ ~(m.key \in DocKeys /\ m.key \in p.saw)
        /\ q.saw = p.saw \cup {m.key}
        /\ q.defaults = IF m.key = "defaults" THEN AccessIn(m.object) ELSE p.defaults
        /\ q.rules = IF m.key = "tools" THEN RulesIn(m.entries) ELSE p.rules
    BY <1>6 DEF Follows
  <2>2. m.key \in DocKeys => \A i \in 1..n : members[i].key # m.key
    BY <1>6, <2>1 DEF DocSoFar
  <2>3. SoundUpTo(members, DocKeys, n + 1) /\ \A i \in 1..(n + 1) : SoundMember(members[i])
    BY <1>2, <1>3, <1>6, <2>1, <2>2 DEF DocSoFar
  <2>4. \A key \in DocKeys : key \in q.saw <=> \E i \in 1..(n + 1) : members[i].key = key
    BY <1>1, <1>6, <2>1 DEF DocSoFar
  <2>5. ASSUME NEW i \in 1..(n + 1), members[i].key = "defaults"
        PROVE  q.defaults = AccessIn(members[i].object)
    <3>1. "defaults" \in DocKeys
      BY DEF DocKeys
    <3> QED BY <1>1, <1>6, <2>1, <2>2, <2>5, <3>1 DEF DocSoFar
  <2>6. ASSUME NEW i \in 1..(n + 1), members[i].key = "tools"
        PROVE  q.rules = RulesIn(members[i].entries)
    <3>1. "tools" \in DocKeys
      BY DEF DocKeys
    <3> QED BY <1>1, <1>6, <2>1, <2>2, <2>6, <3>1 DEF DocSoFar
  <2> QED BY <1>6, <2>3, <2>4, <2>5, <2>6 DEF DocSoFar
<1> QED BY ONLY <1>4, <1>5, <1>6

\* The parse of all the members.
LEMMA ParsedMeans ==
    ASSUME NEW members, IsMembers(members)
    PROVE  /\ Parsed(members) \in Drafts(KeysOf(members))
           /\ DocSoFar(Parsed(members), members, Len(members))
<1> DEFINE k == Len(members)
<1>1. k \in Nat /\ \A n \in 1..k : members[n].good \in BOOLEAN
  BY DEF IsMembers, IsMember, IsSequence
<1>2. PICK f : /\ Parsed(members) = f[k]
               /\ \A n \in 0..k : f[n] \in Drafts(KeysOf(members))
               /\ f[0] = Fresh
               /\ \A n \in 1..k : Follows(f[n - 1], members[n], f[n])
  BY MembersLoop
<1> HIDE DEF k
<1> DEFINE T == {n \in 0..k : DocSoFar(f[n], members, n)}
<1>3. 0 \in T
  <2>1. Fresh.error = "none" /\ Fresh.saw = {}
    BY DEF Fresh
  <2>2. 1..0 = {} /\ 0 \in 0..k
    BY <1>1
  <2>3. DocSoFar(Fresh, members, 0)
    BY <2>1, <2>2 DEF DocSoFar, SoundUpTo
  <2> QED BY <1>2, <2>2, <2>3
<1>4. ASSUME NEW n \in 0..k, n < k, n \in T PROVE n + 1 \in T
  <2>1. n \in Nat /\ n + 1 \in 1..k /\ (n + 1) - 1 = n /\ n + 1 \in 0..k
    BY <1>1, <1>4
  <2>2. Follows(f[n], members[n + 1], f[n + 1]) /\ members[n + 1].good \in BOOLEAN
    BY <1>1, <1>2, <2>1
  <2>3. DocSoFar(f[n], members, n)
    BY <1>4
  <2>4. DocSoFar(f[n + 1], members, n + 1)
    BY ONLY <2>1, <2>2, <2>3, FollowsMeans
  <2> QED BY <2>1, <2>4
<1>5. \A n \in 0..k : n \in T
  <2> HIDE DEF T
  <2> QED BY <1>1, <1>3, <1>4, UpTo
<1> QED BY <1>1, <1>2, <1>5 DEF k

------------------------------------------------------------------------------
(* Sorting                                                                 *)

\* The numbers from one to k.
LEMMA Interval == ASSUME NEW k \in Nat PROVE IsFiniteSet(1..k) /\ Cardinality(1..k) = k
<1>1. k \in Int /\ 1 \in Int /\ (1 > k => k = 0) /\ k - 1 + 1 = k
  OBVIOUS
<1>2. IsFiniteSet(1..k) /\ Cardinality(1..k) = IF 1 > k THEN 0 ELSE k - 1 + 1
  BY ONLY <1>1, FS_Interval
<1> QED BY ONLY <1>1, <1>2

\* A function that keeps k places apart reaches all of them.
LEMMA InjectiveOnto ==
    ASSUME NEW k \in Nat, NEW f \in [1..k -> 1..k], \A i, j \in 1..k : f[i] = f[j] => i = j
    PROVE  \A m \in 1..k : \E i \in 1..k : f[i] = m
<1> DEFINE S == 1..k
<1>1. IsFiniteSet(S)
  BY Interval
<1>2. f \in Injection(S, S)
  BY DEF Injection, IsInjective
<1>3. f \in Surjection(S, S)
  <2> HIDE DEF S
  <2> QED BY ONLY <1>1, <1>2, FS_Injection
<1> QED BY <1>3 DEF Surjection

\* The order that the places have.
Before(keys, i, j) ==
    \/ keys[i] < keys[j]
    \/ keys[i] = keys[j] /\ i < j

\* Places are places, in that order.
LEMMA PlaceMeans ==
    ASSUME NEW n \in Nat, NEW keys, DOMAIN keys = 1..n, \A i \in 1..n : keys[i] \in Nat
    PROVE  /\ \A i \in 1..n : Place(keys, i) \in 1..n
           /\ \A i, j \in 1..n : Before(keys, i, j) => Place(keys, i) < Place(keys, j)
<1> DEFINE Upto(i) == {j \in 1..n : keys[j] < keys[i] \/ (keys[j] = keys[i] /\ j <= i)}
<1>1. n \in Nat /\ \A i \in 1..n : keys[i] \in Nat
  OBVIOUS
<1>2. \A i \in 1..n : Place(keys, i) = Cardinality(Upto(i))
  BY DEF Place
<1>3. \A i \in 1..n : Upto(i) \subseteq 1..n /\ i \in Upto(i)
  BY <1>1
<1>4. ASSUME NEW i \in 1..n, NEW j \in 1..n, Before(keys, i, j)
      PROVE  Upto(i) \subseteq Upto(j) /\ j \notin Upto(i)
  BY <1>1, <1>4 DEF Before
<1> HIDE DEF Upto
<1>5. IsFiniteSet(1..n) /\ Cardinality(1..n) = n
  BY <1>1, Interval
<1>6. ASSUME NEW i \in 1..n
      PROVE  IsFiniteSet(Upto(i)) /\ Cardinality(Upto(i)) \in 1..n
  <2>1. IsFiniteSet(Upto(i)) /\ Cardinality(Upto(i)) <= n
    BY <1>3, <1>5, FS_Subset
  <2>2. Cardinality(Upto(i)) \in Nat
    BY <2>1, FS_CardinalityType
  <2>3. Cardinality(Upto(i)) # 0
    BY <1>3, <2>1, FS_EmptySet
  <2> QED BY <1>1, <2>1, <2>2, <2>3
<1>7. ASSUME NEW i \in 1..n, NEW j \in 1..n, Before(keys, i, j)
      PROVE  Cardinality(Upto(i)) < Cardinality(Upto(j))
  <2>1. Upto(i) \in SUBSET Upto(j) /\ Upto(j) # Upto(i)
    BY <1>3, <1>4, <1>7
  <2>2. IsFiniteSet(Upto(j))
    BY <1>6
  <2>3. /\ Cardinality(Upto(i)) <= Cardinality(Upto(j))
        /\ Cardinality(Upto(j)) = Cardinality(Upto(i)) => Upto(j) = Upto(i)
    BY ONLY <2>1, <2>2, FS_Subset
  <2>4. Cardinality(Upto(i)) \in Nat /\ Cardinality(Upto(j)) \in Nat
    BY <1>1, <1>6
  <2> QED BY <2>1, <2>3, <2>4
<1> QED BY <1>2, <1>6, <1>7

\* The sorted sequence has the elements in the order of their keys.
Permuted(n, seq, keys) ==
    \E q \in [1..n -> 1..n] :
        /\ SortBy(seq, keys) = [k \in 1..n |-> seq[q[k]]]
        /\ \A i \in 1..n : \E k \in 1..n : q[k] = i
        /\ \A k, l \in 1..n : q[k] = q[l] => k = l
        /\ \A k, l \in 1..n : Before(keys, q[k], q[l]) => k < l

\* Sorting puts the elements where the order of their keys wants them.
THEOREM SortPermutes ==
    ASSUME NEW n \in Nat, NEW seq, DOMAIN seq = 1..n,
           NEW keys, DOMAIN keys = 1..n, \A i \in 1..n : keys[i] \in Nat
    PROVE  Permuted(n, seq, keys)
<1> DEFINE f == [i \in 1..n |-> Place(keys, i)]
           q == [k \in DOMAIN seq |-> CHOOSE i \in DOMAIN seq : Place(keys, i) = k]
<1>1. n \in Nat /\ \A i \in 1..n : keys[i] \in Nat
  OBVIOUS
<1>2. /\ \A i \in 1..n : Place(keys, i) \in 1..n
      /\ \A i, j \in 1..n : Before(keys, i, j) => Place(keys, i) < Place(keys, j)
  BY PlaceMeans
<1>3. SortBy(seq, keys) = [k \in 1..n |-> seq[q[k]]]
  <2>1. SortBy(seq, keys) = [k \in DOMAIN seq |-> seq[CHOOSE i \in DOMAIN seq : Place(keys, i) = k]]
    BY ONLY DEF SortBy
  <2>2. \A k \in DOMAIN seq : q[k] = CHOOSE i \in DOMAIN seq : Place(keys, i) = k
    OBVIOUS
  <2>3. SortBy(seq, keys) = [k \in DOMAIN seq |-> seq[q[k]]]
    BY ONLY <2>1, <2>2
  <2>4. DOMAIN seq = 1..n
    OBVIOUS
  <2> HIDE DEF q
  <2> QED BY ONLY <2>3, <2>4
<1>4. \A i, j \in 1..n : i = j \/ Before(keys, i, j) \/ Before(keys, j, i)
  BY <1>1 DEF Before
<1>5. \A i, j \in 1..n : f[i] = f[j] => i = j
  <2>1. \A i \in 1..n : Place(keys, i) \in Nat
    BY <1>1, <1>2
  <2>2. \A i, j \in 1..n : Place(keys, i) = Place(keys, j) => i = j
    BY ONLY <1>2, <1>4, <2>1
  <2> QED BY ONLY <2>2
<1>6. f \in [1..n -> 1..n]
  BY <1>2
<1>7. \A k \in 1..n : \E i \in 1..n : Place(keys, i) = k
  <2>1. \A k \in 1..n : \E i \in 1..n : f[i] = k
    <3> HIDE DEF f
    <3> QED BY ONLY <1>1, <1>5, <1>6, InjectiveOnto
  <2> QED BY <2>1
<1>8. \A k \in 1..n : q[k] \in 1..n /\ Place(keys, q[k]) = k
  BY <1>7
<1>9. \A i \in 1..n : q[Place(keys, i)] = i
  BY <1>2, <1>5, <1>8
<1>10. q \in [1..n -> 1..n]
  BY <1>8
<1> HIDE DEF q
<1>11. \A i \in 1..n : \E k \in 1..n : q[k] = i
  BY <1>2, <1>9
<1>12. \A k, l \in 1..n : q[k] = q[l] => k = l
  BY <1>8
<1>13. \A k, l \in 1..n : Before(keys, q[k], q[l]) => k < l
  BY <1>2, <1>8
<1> QED BY <1>3, <1>10, <1>11, <1>12, <1>13 DEF Permuted

\* The rules are rules, and their names are numbers.
LEMMA RulesType ==
    ASSUME NEW rules \in Seq(RuleSet)
    PROVE  /\ Len(rules) \in Nat /\ DOMAIN rules = 1..Len(rules)
           /\ \A i \in 1..Len(rules) : rules[i] \in RuleSet
           /\ \A i \in 1..Len(rules) : rules[i].name \in Names
           /\ \A i \in 1..Len(rules) : rules[i].name \in Nat
<1>1. \A i \in 1..Len(rules) : rules[i] \in RuleSet
  OBVIOUS
<1>2. \A i \in 1..Len(rules) : rules[i].name \in Names
  BY <1>1 DEF RuleSet
<1>3. Names \subseteq Nat
  BY PolicyAssumption
<1>4. Len(rules) \in Nat /\ DOMAIN rules = 1..Len(rules)
  OBVIOUS
<1> QED BY ONLY <1>1, <1>2, <1>3, <1>4

\* No two rules have one name.
NoNameTwice(rules) ==
    \A i, j \in 1..Len(rules) : rules[i].name = rules[j].name => i = j

\* The sorted rules are the rules, by name.
IsSorting(sorted, rules) ==
    /\ sorted \in Seq(RuleSet) /\ Len(sorted) = Len(rules)
    /\ \A i, j \in 1..Len(rules) : i < j => sorted[i].name <= sorted[j].name
    /\ \A i \in 1..Len(rules) : \E k \in 1..Len(rules) : sorted[k] = rules[i]
    /\ \A k \in 1..Len(rules) : \E i \in 1..Len(rules) : sorted[k] = rules[i]
    /\ AdjacentDuplicate(sorted) <=> ~NoNameTwice(rules)
    /\ NoNameTwice(rules) => \A i, j \in 1..Len(rules) : i < j => sorted[i].name < sorted[j].name

\* SortByName sorts, and the neighbours of the sorted rules tell whether a name
\* is there twice.
LEMMA SortMeans ==
    ASSUME NEW rules \in Seq(RuleSet)
    PROVE  IsSorting(SortByName(rules), rules)
<1> DEFINE n == Len(rules)
           s == SortByName(rules)
<1>1. n \in Nat /\ \A i \in 1..n : rules[i] \in RuleSet /\ rules[i].name \in Nat
  BY RulesType
<1> DEFINE keys == [i \in 1..n |-> rules[i].name]
<1>2. PICK q \in [1..n -> 1..n] :
        /\ s = [k \in 1..n |-> rules[q[k]]]
        /\ \A i \in 1..n : \E k \in 1..n : q[k] = i
        /\ \A k, l \in 1..n : q[k] = q[l] => k = l
        /\ \A k, l \in 1..n : Before(keys, q[k], q[l]) => k < l
  <2>0. DOMAIN rules = 1..n
    BY RulesType
  <2>1. DOMAIN rules = 1..n /\ s = SortBy(rules, keys)
    <3>1. [i \in DOMAIN rules |-> rules[i].name] = keys
      BY ONLY <2>0
    <3>2. s = SortBy(rules, [i \in DOMAIN rules |-> rules[i].name])
      BY ONLY DEF SortByName
    <3> HIDE DEF n, s, keys
    <3> QED BY ONLY <2>0, <3>1, <3>2
  <2>2. DOMAIN keys = 1..n /\ \A i \in 1..n : keys[i] \in Nat
    BY <1>1
  <2>3. n \in Nat
    BY <1>1
  <2> HIDE DEF n, s, keys
  <2>4. Permuted(n, rules, keys)
    BY ONLY <2>1, <2>2, <2>3, SortPermutes
  <2> QED BY ONLY <2>1, <2>4 DEF Permuted
<1> HIDE DEF n, s
<1>3. s \in Seq(RuleSet) /\ Len(s) = n
  <2>1. \A k \in 1..n : rules[q[k]] \in RuleSet
    BY <1>1, <1>2
  <2>2. s \in [1..n -> RuleSet]
    BY ONLY <1>2, <2>1
  <2> QED BY ONLY <1>1, <2>2
<1>4. \A k \in 1..n : q[k] \in 1..n /\ s[k] = rules[q[k]] /\ s[k].name \in Nat
  BY <1>1, <1>2
<1>5. ASSUME NEW i \in 1..n, NEW j \in 1..n, i < j PROVE s[i].name <= s[j].name
  <2>1. ~Before(keys, q[j], q[i])
    BY <1>1, <1>2, <1>5
  <2>2. s[i].name \in Nat /\ s[j].name \in Nat /\ ~(s[j].name < s[i].name)
    BY <1>4, <2>1 DEF Before
  <2> QED BY ONLY <2>2
<1>6. \A i \in 1..n : \E k \in 1..n : s[k] = rules[i]
  BY <1>2, <1>4
<1>7. \A k \in 1..n : \E i \in 1..n : s[k] = rules[i]
  BY <1>4
<1>8. ASSUME AdjacentDuplicate(s) PROVE ~NoNameTwice(rules)
  <2>1. PICK i \in 1..(n - 1) : s[i].name = s[i + 1].name
    BY <1>3, <1>8 DEF AdjacentDuplicate
  <2>2. i \in 1..n /\ i + 1 \in 1..n /\ i # i + 1
    BY <1>1
  <2>3. q[i] \in 1..n /\ q[i + 1] \in 1..n /\ q[i] # q[i + 1]
    BY <1>2, <2>2
  <2>4. rules[q[i]].name = rules[q[i + 1]].name
    BY <1>4, <2>1, <2>2
  <2> QED BY <2>3, <2>4 DEF NoNameTwice, n
<1>9. ASSUME ~NoNameTwice(rules) PROVE AdjacentDuplicate(s)
  <2>1. PICK i \in 1..n, j \in 1..n : rules[i].name = rules[j].name /\ i # j
    BY <1>9 DEF NoNameTwice, n
  <2>2. PICK k \in 1..n, l \in 1..n : k < l /\ s[k].name = s[l].name
    <3>1. PICK k \in 1..n, l \in 1..n : q[k] = i /\ q[l] = j
      BY <1>2
    <3>2. k # l /\ s[k].name = s[l].name
      BY <1>4, <2>1, <3>1
    <3>3. k < l \/ l < k
      BY <1>1, <3>2
    <3> QED BY <3>2, <3>3
  <2>3. k \in 1..(n - 1) /\ k + 1 \in 1..n /\ k < k + 1 /\ (k + 1 < l \/ k + 1 = l)
    BY <1>1, <2>2
  <2>4. s[k].name <= s[k + 1].name /\ s[k + 1].name <= s[l].name
    <3>1. k \in 1..n /\ s[k + 1].name \in Nat
      BY <1>4, <2>3
    <3>2. s[k].name <= s[k + 1].name
      BY ONLY <1>5, <2>3, <3>1
    <3>3. CASE k + 1 < l
      BY ONLY <1>5, <2>3, <3>2, <3>3
    <3>4. CASE k + 1 = l
      BY ONLY <3>1, <3>2, <3>4
    <3> QED BY <2>3, <3>2, <3>3, <3>4
  <2>5. s[k].name = s[k + 1].name
    <3>1. s[k].name \in Nat /\ s[k + 1].name \in Nat /\ s[l].name \in Nat
      BY <1>4, <2>3
    <3> QED BY ONLY <2>2, <2>4, <3>1
  <2> QED BY <1>3, <2>3, <2>5 DEF AdjacentDuplicate
<1>10. ASSUME NoNameTwice(rules), NEW i \in 1..n, NEW j \in 1..n, i < j
       PROVE  s[i].name < s[j].name
  <2>1. q[i] # q[j]
    BY <1>1, <1>2, <1>10
  <2>2. rules[q[i]].name # rules[q[j]].name
    <3>1. q[i] \in 1..Len(rules) /\ q[j] \in 1..Len(rules)
      BY <1>4, <1>10 DEF n
    <3> QED BY ONLY <1>10, <2>1, <3>1 DEF NoNameTwice
  <2>3. s[i].name # s[j].name
    BY ONLY <1>4, <1>10, <2>2
  <2>4. s[i].name <= s[j].name /\ s[i].name \in Nat /\ s[j].name \in Nat
    BY ONLY <1>4, <1>5, <1>10
  <2> QED BY ONLY <2>3, <2>4
<1> QED BY <1>3, <1>5, <1>6, <1>7, <1>8, <1>9, <1>10 DEF IsSorting, s, n

------------------------------------------------------------------------------
(* Searching                                                               *)

\* The range left to search is in the rules, those before it are less than the
\* name and those behind it are not.
Ranges(rules, name) ==
    {range \in [first : Nat, count : Nat] :
       /\ range.first + range.count <= Len(rules)
       /\ \A i \in 1..range.first : rules[i].name < name
       /\ \A i \in (range.first + range.count + 1)..Len(rules) : name <= rules[i].name}

\* The rules are in the order of their names.
Ordered(rules) ==
    \A i, j \in 1..Len(rules) : i < j => rules[i].name <= rules[j].name

\* A round leaves a range a range, and a shorter one unless it is empty.
LEMMA HalveMeans ==
    ASSUME NEW rules \in Seq(RuleSet), Ordered(rules), NEW name \in Nat,
           NEW range \in Ranges(rules, name)
    PROVE  /\ Halve(range, rules, name) \in Ranges(rules, name)
           /\ Halve(range, rules, name).count < range.count
                \/ (range.count = 0 /\ Halve(range, rules, name).count = 0)
<1> DEFINE n == Len(rules)
           first == range.first
           count == range.count
           half == count \div 2
           q == Halve(range, rules, name)
<1>1. n \in Nat /\ \A i \in 1..n : rules[i].name \in Nat
  BY RulesType
<1>2. /\ first \in Nat /\ count \in Nat /\ first + count <= n
      /\ \A i \in 1..first : rules[i].name < name
      /\ \A i \in (first + count + 1)..n : name <= rules[i].name
  BY DEF Ranges
<1>3. half \in Nat /\ (count # 0 => half < count)
  <2>1. count \in Nat
    BY <1>2
  <2> HIDE DEF count
  <2> QED BY <2>1
<1>4. q = IF count = 0 THEN range
          ELSE IF rules[first + half + 1].name < name
          THEN [first |-> first + half + 1, count |-> count - half - 1]
          ELSE [first |-> first, count |-> half]
  BY DEF Halve
<1>5. \A i, j \in 1..n : i < j => rules[i].name <= rules[j].name
  BY DEF Ordered
<1> HIDE DEF half, q, n
<1>6. ASSUME count = 0 PROVE q \in Ranges(rules, name) /\ q.count = 0
  BY <1>4, <1>6
<1>7. ASSUME count # 0, rules[first + half + 1].name < name
      PROVE  q \in Ranges(rules, name) /\ q.count < count
  <2>1. q.first = first + half + 1 /\ q.count = count - half - 1
        /\ q = [first |-> first + half + 1, count |-> count - half - 1]
    BY <1>4, <1>7
  <2>2. first + half + 1 \in 1..n /\ first + half + 1 \in Nat /\ count - half - 1 \in Nat
        /\ count - half - 1 < count
        /\ first + half + 1 + (count - half - 1) = first + count
    <3>1. /\ n \in Nat /\ first \in Nat /\ count \in Nat /\ half \in Nat
          /\ first + count <= n /\ half < count
      BY <1>1, <1>2, <1>3, <1>7
    <3> HIDE DEF first, count
    <3> QED BY ONLY <3>1
  <2>3. ASSUME NEW i \in 1..(first + half + 1) PROVE rules[i].name < name
    <3>1. CASE i = first + half + 1
      BY <1>7, <3>1
    <3>2. CASE i # first + half + 1
      <4>1. i \in 1..n /\ i < first + half + 1
        BY <1>1, <2>2, <3>2
      <4>2. rules[i].name <= rules[first + half + 1].name
        BY <1>5, <2>2, <4>1
      <4>3. rules[i].name \in Nat /\ rules[first + half + 1].name \in Nat
        BY <1>1, <2>2, <4>1
      <4> QED BY ONLY <1>7, <4>2, <4>3, name \in Nat
    <3> QED BY <3>1, <3>2
  <2>4. q \in [first : Nat, count : Nat]
    BY <2>1, <2>2
  <2> QED BY <1>2, <2>1, <2>2, <2>3, <2>4 DEF Ranges, n
<1>8. ASSUME count # 0, ~(rules[first + half + 1].name < name)
      PROVE  q \in Ranges(rules, name) /\ q.count < count
  <2>1. q.first = first /\ q.count = half /\ q = [first |-> first, count |-> half]
    BY <1>4, <1>8
  <2>2. first + half + 1 \in 1..n /\ first + half <= n
    BY <1>1, <1>2, <1>3, <1>8
  <2>3. ASSUME NEW i \in (first + half + 1)..n PROVE name <= rules[i].name
    <3>1. rules[first + half + 1].name \in Nat
      BY <1>1, <2>2
    <3>2. CASE i = first + half + 1
      BY <1>8, <3>1, <3>2
    <3>3. CASE i # first + half + 1
      <4>1. i \in 1..n /\ first + half + 1 < i
        BY <1>1, <1>2, <1>3, <2>2, <3>3
      <4>2. rules[first + half + 1].name <= rules[i].name
        BY <1>5, <2>2, <4>1
      <4>3. rules[i].name \in Nat
        BY <1>1, <4>1
      <4> QED BY ONLY <1>8, <3>1, <4>2, <4>3, name \in Nat
    <3> QED BY <3>2, <3>3
  <2>4. q \in [first : Nat, count : Nat]
    BY <1>2, <1>3, <2>1
  <2> QED BY <1>2, <1>3, <1>8, <2>1, <2>2, <2>3, <2>4 DEF Ranges, n
<1>9. /\ q \in Ranges(rules, name)
      /\ q.count < count \/ (count = 0 /\ q.count = 0)
  BY ONLY <1>6, <1>7, <1>8
<1> QED BY <1>9 DEF q

\* The ranges before and after each round.
RangesSearched(f, rules, name) ==
    f = [n \in 0..Len(rules) |->
           IF n = 0 THEN [first |-> 0, count |-> Len(rules)]
           ELSE Halve(f[n - 1], rules, name)]

\* As many rounds as there are rules leave nothing to search.
LEMMA LowerBoundMeans ==
    ASSUME NEW rules \in Seq(RuleSet), Ordered(rules), NEW name \in Nat
    PROVE  /\ LowerBound(rules, name) \in 0..Len(rules)
           /\ \A i \in 1..LowerBound(rules, name) : rules[i].name < name
           /\ \A i \in (LowerBound(rules, name) + 1)..Len(rules) : name <= rules[i].name
<1> DEFINE k == Len(rules)
           P == Ranges(rules, name)
           start == [first |-> 0, count |-> k]
           step == [n \in 1..k |-> [p \in P |-> Halve(p, rules, name)]]
<1>1. k \in Nat
  OBVIOUS
<1>2. \A p \in P : /\ Halve(p, rules, name) \in P
                   /\ \/ Halve(p, rules, name).count < p.count
                      \/ p.count = 0 /\ Halve(p, rules, name).count = 0
  BY HalveMeans
<1>3. start \in P
  <2>1. start.first = 0 /\ start.count = k /\ start \in [first : Nat, count : Nat]
    BY <1>1
  <2>2. 1..0 = {} /\ (0 + k + 1)..k = {} /\ 0 + k <= k
    BY <1>1
  <2> HIDE DEF start
  <2> QED BY <2>1, <2>2 DEF Ranges
<1>a. \A n \in 1..k : \A p \in P : step[n][p] = Halve(p, rules, name) /\ step[n][p] \in P
  BY <1>2
<1> HIDE DEF step, P, k, start
<1>4. StaysIn(step, k, P)
  BY <1>a DEF StaysIn
<1>5. \E f : RangesSearched(f, rules, name)
  <2>1. PICK f : f \in [0..k -> P] /\ Runs(f, k, start, step)
    BY ONLY <1>1, <1>3, <1>4, LoopExists
  <2>2. ASSUME NEW n \in 0..k
        PROVE  f[n] = IF n = 0 THEN start ELSE Halve(f[n - 1], rules, name)
    <3>1. CASE n = 0
      BY <2>1, <3>1 DEF Runs
    <3>2. CASE n # 0
      <4>1. n \in 1..k /\ n - 1 \in 0..k
        BY <1>1, <3>2
      <4>2. f[n] = step[n][f[n - 1]] /\ f[n - 1] \in P
        BY <2>1, <4>1 DEF Runs
      <4> QED BY <1>a, <3>2, <4>1, <4>2
    <3> QED BY <3>1, <3>2
  <2>3. f = [n \in 0..k |-> IF n = 0 THEN start ELSE Halve(f[n - 1], rules, name)]
    BY <2>1, <2>2
  <2> QED BY <2>3 DEF RangesSearched, k, start
<1> DEFINE f == CHOOSE f : RangesSearched(f, rules, name)
<1>6. RangesSearched(f, rules, name)
  <2> HIDE DEF f
  <2> QED BY ONLY <1>5, Zenon DEF f
<1>7. LowerBound(rules, name) = f[k].first
  BY Zenon DEF Loop, LowerBound, RangesSearched, k
<1> HIDE DEF f
<1>8. f[0] = start /\ \A n \in 1..k : f[n] = Halve(f[n - 1], rules, name)
  <2>1. f = [n \in 0..k |-> IF n = 0 THEN start ELSE Halve(f[n - 1], rules, name)]
    BY <1>6, Zenon DEF RangesSearched, k, start
  <2>3. ASSUME NEW n \in 0..k
        PROVE  f[n] = IF n = 0 THEN start ELSE Halve(f[n - 1], rules, name)
    BY <2>1, Zenon
  <2>4. 0 \in 0..k /\ \A n \in 1..k : n \in 0..k /\ n # 0
    BY <1>1
  <2> QED BY <2>3, <2>4
<1>9. \A n \in 0..k : f[n] \in P /\ f[n].count <= k - n
  <2> DEFINE T == {n \in 0..k : f[n] \in P /\ f[n].count <= k - n}
  <2>1. 0 \in T
    <3>1. start.count = k
      BY DEF start
    <3> QED BY <1>1, <1>3, <1>8, <3>1
  <2>2. ASSUME NEW n \in 0..k, n < k, n \in T PROVE n + 1 \in T
    <3>1. n \in Nat /\ n + 1 \in 1..k /\ n + 1 \in 0..k /\ (n + 1) - 1 = n
      BY <1>1, <2>2
    <3>2. f[n + 1] = Halve(f[n], rules, name) /\ f[n] \in P /\ f[n].count <= k - n
      BY <1>8, <2>2, <3>1
    <3>3. /\ f[n + 1] \in P
          /\ f[n + 1].count < f[n].count \/ (f[n].count = 0 /\ f[n + 1].count = 0)
      BY ONLY <1>2, <3>2
    <3>4. f[n].count \in Nat /\ f[n + 1].count \in Nat
      BY <3>2, <3>3 DEF P, Ranges
    <3>5. f[n + 1].count <= k - (n + 1)
      BY ONLY <1>1, <2>2, <3>1, <3>2, <3>3, <3>4
    <3> QED BY <3>1, <3>3, <3>5
  <2>3. \A n \in 0..k : n \in T
    <3> HIDE DEF T
    <3> QED BY <1>1, <2>1, <2>2, UpTo
  <2> QED BY <2>3
<1>10. f[k] \in Ranges(rules, name) /\ f[k].count = 0
  <2>1. f[k] \in P /\ f[k].count <= k - k
    BY <1>1, <1>9
  <2>2. f[k].count \in Nat
    BY <2>1 DEF P, Ranges
  <2> QED BY <1>1, <2>1, <2>2 DEF P
<1>11. /\ f[k].first \in Nat /\ f[k].first + 0 <= k
       /\ \A i \in 1..f[k].first : rules[i].name < name
       /\ \A i \in (f[k].first + 0 + 1)..k : name <= rules[i].name
  BY <1>10 DEF Ranges, k
<1>12. f[k].first \in 0..k /\ f[k].first + 0 + 1 = f[k].first + 1
  BY <1>1, <1>11
<1> QED BY <1>7, <1>11, <1>12 DEF k

\* A set of rules with defaults answers a name with its rule, or the defaults.
Gives(policy, name, access) ==
    /\ \A i \in 1..Len(policy.rules) :
         policy.rules[i].name = name =>
           access = Defaults(policy.rules[i].visible, policy.rules[i].callable)
    /\ (\A i \in 1..Len(policy.rules) : policy.rules[i].name # name) => access = policy.defaults

\* The search of a table finds what the table answers.
LEMMA AccessOfMeans ==
    ASSUME NEW t, t.rules \in Seq(RuleSet), NEW name \in Nat,
           \A i, j \in 1..Len(t.rules) : i < j => t.rules[i].name < t.rules[j].name
    PROVE  Gives(t, name, AccessOf(name, t))
<1> DEFINE n == Len(t.rules)
           b == LowerBound(t.rules, name)
           a == AccessOf(name, t)
<1>1. n \in Nat /\ \A i \in 1..n : t.rules[i].name \in Nat
  BY RulesType
<1>2. Ordered(t.rules)
  BY <1>1 DEF Ordered
<1>3. /\ b \in 0..n
      /\ \A i \in 1..b : t.rules[i].name < name
      /\ \A i \in (b + 1)..n : name <= t.rules[i].name
  BY <1>2, LowerBoundMeans
<1>4. a = IF b + 1 > n \/ t.rules[b + 1].name # name THEN t.defaults
          ELSE Defaults(t.rules[b + 1].visible, t.rules[b + 1].callable)
  BY DEF AccessOf
<1> HIDE DEF b, a, n
<1>5. ASSUME NEW i \in 1..n, t.rules[i].name = name PROVE i = b + 1
  <2>1. ~(i \in 1..b)
    BY <1>1, <1>3, <1>5
  <2>2. CASE b + 1 < i
    <3>1. b + 1 \in 1..n /\ b + 1 \in (b + 1)..n
      BY <1>1, <1>3, <2>2
    <3>2. t.rules[b + 1].name < t.rules[i].name /\ name <= t.rules[b + 1].name
      BY <1>3, <2>2, <3>1 DEF n
    <3>3. t.rules[b + 1].name \in Nat
      BY <1>1, <3>1
    <3> QED BY ONLY <1>5, <3>2, <3>3, name \in Nat
  <2> QED BY <1>1, <1>3, <2>1, <2>2
<1>6. ASSUME NEW i \in 1..n, t.rules[i].name = name
      PROVE  a = Defaults(t.rules[i].visible, t.rules[i].callable)
  <2>1. i = b + 1 /\ ~(b + 1 > n)
    BY <1>1, <1>3, <1>5, <1>6
  <2> QED BY <1>4, <1>6, <2>1
<1>7. ASSUME \A i \in 1..n : t.rules[i].name # name PROVE a = t.defaults
  <2>1. b + 1 > n \/ b + 1 \in 1..n
    BY <1>1, <1>3
  <2> QED BY <1>4, <1>7, <2>1
<1> QED BY <1>6, <1>7 DEF Gives, a, n

------------------------------------------------------------------------------
(* Policy files                                                            *)

\* The members of a document.
LEMMA DocumentMembers ==
    ASSUME NEW doc, IsDocument(doc)
    PROVE  /\ IsMembers(doc.members)
           /\ Len(doc.members) \in Nat /\ DOMAIN doc.members = 1..Len(doc.members)
<1> DEFINE members == doc.members
<1>1. IsSequence(members) /\ Len(members) \in Nat /\ DOMAIN members = 1..Len(members)
  BY DEF IsDocument, IsSequence
<1>2. ASSUME NEW i \in 1..Len(members) PROVE IsMember(members[i])
  <2>1. /\ members[i].good \in BOOLEAN /\ IsObject(members[i].object)
        /\ IsSequence(members[i].entries)
        /\ \A j \in DOMAIN members[i].entries : IsObject(members[i].entries[j])
    BY <1>1 DEF IsDocument
  <2>2. IsEntries(members[i].entries)
    BY <2>1 DEF IsEntries, IsSequence
  <2> QED BY <2>1, <2>2 DEF IsMember
<1> QED BY <1>1, <1>2 DEF IsMembers

\* A key stands at most once if no two positions have it.
LEMMA AtMostOnce ==
    ASSUME NEW members, IsSequence(members), NEW key
    PROVE  Cardinality(Positions(members, key)) <= 1 <=>
             \A i, j \in 1..Len(members) :
               i < j /\ members[i].key = key => members[j].key # key
<1> DEFINE k == Len(members)
           S == Positions(members, key)
<1>1. k \in Nat /\ DOMAIN members = 1..k
  BY DEF IsSequence
<1>2. \A i : i \in S <=> i \in 1..k /\ members[i].key = key
  BY <1>1 DEF Positions
<1> HIDE DEF S, k
<1>3. IsFiniteSet(1..k) /\ S \in SUBSET (1..k)
  BY <1>1, <1>2, Interval
<1>4. IsFiniteSet(S) /\ Cardinality(S) \in Nat
  BY ONLY <1>3, FS_Subset, FS_CardinalityType
<1>5. ASSUME Cardinality(S) <= 1, NEW i \in 1..k, NEW j \in 1..k, i < j,
             members[i].key = key
      PROVE  members[j].key # key
  <2>1. i \in S
    BY <1>2, <1>5
  <2>2. Cardinality(S) # 0
    BY <1>4, <2>1, FS_EmptySet
  <2>3. Cardinality(S) = 1
    BY <1>4, <1>5, <2>2
  <2>4. PICK x : S = {x}
    BY <1>4, <2>3, FS_Singleton
  <2>5. i # j
    BY <1>1, <1>5
  <2> QED BY <1>2, <2>1, <2>4, <2>5
<1>6. ASSUME \A i, j \in 1..k : i < j /\ members[i].key = key => members[j].key # key
      PROVE  Cardinality(S) <= 1
  <2>1. CASE S = {}
    BY <2>1, FS_EmptySet
  <2>2. CASE S # {}
    <3>1. PICK x : x \in S
      BY <2>2
    <3>2. \A i, j \in 1..k : i < j \/ j < i \/ i = j
      BY <1>1
    <3>3. S = {x}
      BY <1>2, <1>6, <3>1, <3>2
    <3> QED BY <3>3, FS_Singleton
  <2> QED BY <2>1, <2>2
<1> QED BY <1>5, <1>6 DEF S, k

\* A document is well formed as a sequence of members.
GoodMembers(members) ==
    /\ HasAll(members, {"version", "defaults"})
    /\ Cardinality(Positions(members, "tools")) <= 1

\* That is, none of the keys is repeated and the first two are there.
LEMMA GoodMembersMeans ==
    ASSUME NEW members, IsSequence(members)
    PROVE  GoodMembers(members) <=>
             /\ SoundUpTo(members, DocKeys, Len(members))
             /\ \E i \in 1..Len(members) : members[i].key = "version"
             /\ \E i \in 1..Len(members) : members[i].key = "defaults"
<1> DEFINE k == Len(members)
           two == {"version", "defaults"}
<1>1. HasAll(members, two) <=>
        /\ SoundUpTo(members, two, k)
        /\ \A key \in two : \E i \in 1..k : members[i].key = key
  BY AllOnce
<1>2. Cardinality(Positions(members, "tools")) <= 1 <=>
        \A i, j \in 1..k : i < j /\ members[i].key = "tools" => members[j].key # "tools"
  BY AtMostOnce
<1>3. SoundUpTo(members, DocKeys, k) <=>
        /\ SoundUpTo(members, two, k)
        /\ \A i, j \in 1..k : i < j /\ members[i].key = "tools" => members[j].key # "tools"
  <2>1. \A key : key \in DocKeys <=> key \in two \/ key = "tools"
    BY DEF DocKeys
  <2> HIDE DEF two, k
  <2> QED BY <2>1 DEF SoundUpTo
<1>4. (\A key \in two : \E i \in 1..k : members[i].key = key) <=>
        /\ \E i \in 1..k : members[i].key = "version"
        /\ \E i \in 1..k : members[i].key = "defaults"
  OBVIOUS
<1> QED BY <1>1, <1>2, <1>3, <1>4 DEF GoodMembers

\* The object of a document's defaults.
LEMMA DefaultsObject ==
    ASSUME NEW members, IsSequence(members), GoodMembers(members),
           NEW i \in 1..Len(members), members[i].key = "defaults"
    PROVE  /\ Value([n \in DOMAIN members |->
                       [key |-> members[n].key, value |-> members[n].object]], "defaults")
                = members[i].object
           /\ (CHOOSE n \in Positions(members, "defaults") : TRUE) = i
           /\ \A j \in 1..Len(members) : members[j].key = "defaults" => j = i
<1> DEFINE m == [n \in DOMAIN members |-> [key |-> members[n].key, value |-> members[n].object]]
<1>1. PICK j \in 1..Len(members) : Positions(members, "defaults") = {j}
  BY OnePosition DEF GoodMembers, HasAll
<1>2. \A n : n \in Positions(members, "defaults") <=>
               n \in 1..Len(members) /\ members[n].key = "defaults"
  BY DEF Positions, IsSequence
<1>3. Positions(members, "defaults") = {i}
  BY <1>1, <1>2
<1>4. Positions(m, "defaults") = Positions(members, "defaults")
  BY DEF Positions
<1>5. (CHOOSE n \in {i} : TRUE) = i
  OBVIOUS
<1>6. i \in DOMAIN members /\ m[i].value = members[i].object
  BY DEF IsSequence
<1>7. Value(m, "defaults") = members[i].object
  <2> HIDE DEF m
  <2> QED BY <1>3, <1>4, <1>5, <1>6 DEF Value
<1> QED BY <1>2, <1>3, <1>5, <1>7

\* The entries of a document with one list of tools.
LEMMA EntriesOfTools ==
    ASSUME NEW doc, IsDocument(doc), GoodMembers(doc.members),
           NEW i \in 1..Len(doc.members), doc.members[i].key = "tools"
    PROVE  /\ \A j \in 1..Len(doc.members) : doc.members[j].key = "tools" => j = i
           /\ \A e : e \in Entries(doc) <=>
                \E j \in 1..Len(doc.members[i].entries) : e = doc.members[i].entries[j]
<1> DEFINE k == Len(doc.members)
           entries == doc.members[i].entries
<1>1. /\ k \in Nat /\ DOMAIN doc.members = 1..k /\ IsSequence(doc.members)
      /\ DOMAIN entries = 1..Len(entries)
  BY DocumentMembers DEF IsDocument, IsSequence
<1>2. \A m, j \in 1..k : m < j /\ doc.members[m].key = "tools" => doc.members[j].key # "tools"
  BY <1>1, AtMostOnce DEF GoodMembers
<1>3. \A j \in 1..k : doc.members[j].key = "tools" => j = i
  <2>1. \A j \in 1..k : j < i \/ i < j \/ j = i
    BY <1>1
  <2> QED BY <1>2, <2>1
<1>4. Positions(doc.members, "tools") = {i}
  BY <1>1, <1>3 DEF Positions
<1>5. Entries(doc) = ToSet(entries)
  BY <1>4 DEF Entries
<1>6. \A e : e \in ToSet(entries) <=> \E j \in 1..Len(entries) : e = entries[j]
  BY <1>1 DEF ToSet
<1> QED BY <1>3, <1>5, <1>6

\* Which documents are accepted, by what has been parsed of their members.
LEMMA ParseCases ==
    ASSUME NEW doc, IsDocument(doc)
    PROVE  LET p == Parsed(doc.members)
           IN  /\ Parse(doc).error = "none" <=>
                    /\ doc.defect = "none" /\ p.error = "none"
                    /\ "version" \in p.saw /\ "defaults" \in p.saw
                    /\ NoNameTwice(p.rules)
               /\ Parse(doc).definition = [defaults |-> p.defaults, rules |-> SortByName(p.rules)]
               /\ p \in Drafts(KeysOf(doc.members))
               /\ p.rules \in Seq(RuleSet) /\ p.defaults \in [visible : Access, callable : Access]
<1> DEFINE p == Parsed(doc.members)
<1>1. p \in Drafts(KeysOf(doc.members))
  BY DocumentMembers, ParsedMeans
<1>2. p.rules \in Seq(RuleSet) /\ p.defaults \in [visible : Access, callable : Access]
  BY <1>1 DEF Drafts, Parses
<1>3. AdjacentDuplicate(SortByName(p.rules)) <=> ~NoNameTwice(p.rules)
  BY <1>2, SortMeans DEF IsSorting
<1>4. Parse(doc) =
        [error |->
            IF doc.defect \in {"unreadable", "too_large", "too_deep"} THEN doc.defect
            ELSE IF p.error # "none" THEN p.error
            ELSE IF doc.defect \in {"cut", "open"} THEN "malformed_json"
            ELSE IF "version" \notin p.saw THEN "unsupported_version"
            ELSE IF "defaults" \notin p.saw THEN "missing_defaults"
            ELSE IF AdjacentDuplicate(SortByName(p.rules)) THEN "duplicate_tool_name"
            ELSE "none",
         definition |-> [defaults |-> p.defaults, rules |-> SortByName(p.rules)]]
  BY Zenon DEF Parse, Parsed
<1>5. doc.defect \in Defects
  BY DEF IsDocument
<1> HIDE DEF p
<1>6. Parse(doc).error = "none" <=>
        /\ doc.defect = "none" /\ p.error = "none"
        /\ "version" \in p.saw /\ "defaults" \in p.saw
        /\ NoNameTwice(p.rules)
  BY <1>3, <1>4, <1>5 DEF Defects
<1>7. Parse(doc).definition = [defaults |-> p.defaults, rules |-> SortByName(p.rules)]
  BY <1>4
<1> QED BY <1>1, <1>2, <1>6, <1>7 DEF p

\* What a document that has been parsed has for rules and defaults.
LEMMA ParsedSays ==
    ASSUME NEW doc, IsDocument(doc)
    PROVE  LET p == Parsed(doc.members)
               k == Len(doc.members)
           IN  /\ p.error = "none" /\ "version" \in p.saw /\ "defaults" \in p.saw <=>
                    GoodMembers(doc.members) /\ \A i \in 1..k : SoundMember(doc.members[i])
               /\ p.error = "none" =>
                    /\ \A i \in 1..k : doc.members[i].key = "defaults" =>
                                         p.defaults = AccessIn(doc.members[i].object)
                    /\ \A i \in 1..k : doc.members[i].key = "tools" =>
                                         p.rules = RulesIn(doc.members[i].entries)
                    /\ (\A i \in 1..k : doc.members[i].key # "tools") => p.rules = << >>
<1> DEFINE p == Parsed(doc.members)
           k == Len(doc.members)
<1>1. IsSequence(doc.members) /\ DocSoFar(p, doc.members, k) /\ p \in Drafts(KeysOf(doc.members))
  BY DocumentMembers, ParsedMeans DEF IsMembers
<1>2. GoodMembers(doc.members) <=>
        /\ SoundUpTo(doc.members, DocKeys, k)
        /\ \E i \in 1..k : doc.members[i].key = "version"
        /\ \E i \in 1..k : doc.members[i].key = "defaults"
  BY <1>1, GoodMembersMeans
<1>3. "version" \in DocKeys /\ "defaults" \in DocKeys /\ "tools" \in DocKeys
  BY DEF DocKeys
<1> HIDE DEF p, k
<1>4. p.error = "none" /\ "version" \in p.saw /\ "defaults" \in p.saw <=>
        GoodMembers(doc.members) /\ \A i \in 1..k : SoundMember(doc.members[i])
  BY <1>1, <1>2, <1>3 DEF DocSoFar
<1>5. ASSUME p.error = "none"
      PROVE  /\ \A i \in 1..k : doc.members[i].key = "defaults" =>
                                  p.defaults = AccessIn(doc.members[i].object)
             /\ \A i \in 1..k : doc.members[i].key = "tools" =>
                                  p.rules = RulesIn(doc.members[i].entries)
  BY <1>1, <1>5 DEF DocSoFar
<1>6. ASSUME p.error = "none", \A i \in 1..k : doc.members[i].key # "tools"
      PROVE  p.rules = << >>
  <2>1. "tools" \notin p.saw
    BY <1>1, <1>3, <1>6 DEF DocSoFar
  <2> QED BY <1>1, <2>1 DEF Drafts
<1> QED BY <1>4, <1>5, <1>6 DEF p, k

\* The names of a list of entries.
DistinctNames(entries) ==
    \A j, k \in 1..Len(entries) :
        Value(entries[j], "name") = Value(entries[k], "name") => j = k

\* The rules of a list of entries have its names.
LEMMA RulesInMeans ==
    ASSUME NEW entries, IsEntries(entries)
    PROVE  /\ Len(RulesIn(entries)) = Len(entries)
           /\ \A j \in 1..Len(entries) :
                /\ RulesIn(entries)[j] = RuleIn(entries[j])
                /\ RulesIn(entries)[j].name = Value(entries[j], "name")
           /\ NoNameTwice(RulesIn(entries)) <=> DistinctNames(entries)
<1> DEFINE k == Len(entries)
           r == RulesIn(entries)
<1>1. k \in Nat
  BY DEF IsEntries, IsSequence
<1>2. r = [j \in 1..k |-> RuleIn(entries[j])]
  BY DEF RulesIn
<1> HIDE DEF r, k
<1>3. Len(r) = k
  BY <1>1, <1>2
<1>4. \A j \in 1..k : r[j] = RuleIn(entries[j]) /\ r[j].name = Value(entries[j], "name")
  BY <1>2 DEF RuleIn, Rule
<1>5. NoNameTwice(r) <=> DistinctNames(entries)
  BY <1>3, <1>4 DEF NoNameTwice, DistinctNames, k
<1> QED BY <1>3, <1>4, <1>5 DEF r, k

\* Well-formedness, over members that are good.
LEMMA WellFormedMeans ==
    ASSUME NEW doc, IsDocument(doc)
    PROVE  WellFormed(doc) <=>
             /\ doc.defect = "none" /\ GoodMembers(doc.members)
             /\ \A i \in 1..Len(doc.members) : SoundMember(doc.members[i])
             /\ \A i \in 1..Len(doc.members) :
                  doc.members[i].key = "tools" => DistinctNames(doc.members[i].entries)
<1> DEFINE members == doc.members
           k == Len(members)
           object == Value([i \in DOMAIN members |->
                              [key |-> members[i].key, value |-> members[i].object]], "defaults")
<1>1. /\ k \in Nat /\ DOMAIN members = 1..k /\ IsSequence(members)
      /\ \A i \in 1..k : DOMAIN members[i].entries = 1..Len(members[i].entries)
  BY DocumentMembers DEF IsDocument, IsSequence
<1>2. \A i : i \in Positions(members, "tools") <=> i \in 1..k /\ members[i].key = "tools"
  BY <1>1 DEF Positions
<1>3. WellFormed(doc) <=>
        /\ doc.defect = "none" /\ GoodMembers(members)
        /\ HasAll(object, AccessKeys)
        /\ \A e \in Entries(doc) : HasAll(e, ObjectKeys)
        /\ \A i \in 1..k : members[i].key = "tools" => DistinctNames(members[i].entries)
  <2>1. (\A i \in Positions(members, "tools") : \A j, n \in DOMAIN members[i].entries :
            Value(members[i].entries[j], "name") = Value(members[i].entries[n], "name") => j = n)
        <=> \A i \in 1..k : members[i].key = "tools" => DistinctNames(members[i].entries)
    <3> DEFINE D(i) == \A j, n \in DOMAIN members[i].entries :
            Value(members[i].entries[j], "name") = Value(members[i].entries[n], "name") => j = n
    <3>1. \A i \in 1..k : D(i) <=> DistinctNames(members[i].entries)
      BY <1>1 DEF DistinctNames
    <3>2. (\A i \in Positions(members, "tools") : D(i))
            <=> \A i \in 1..k : members[i].key = "tools" => DistinctNames(members[i].entries)
      <4> HIDE DEF D, k, members
      <4> QED BY ONLY <1>2, <3>1
    <3> QED BY <3>2
  <2> HIDE DEF object, k
  <2> QED BY <2>1 DEF WellFormed, GoodMembers, ObjectKeys, object
<1>4. (\A e \in Entries(doc) : HasAll(e, ObjectKeys)) <=>
        \A i \in 1..k : members[i].key = "tools" =>
          \A j \in 1..Len(members[i].entries) : HasAll(members[i].entries[j], ObjectKeys)
  <2>1. \A e : e \in Entries(doc) <=>
          \E i \in 1..k : members[i].key = "tools" /\
            \E j \in 1..Len(members[i].entries) : e = members[i].entries[j]
    <3>1. \A e : e \in Entries(doc) <=>
            \E i \in Positions(members, "tools") : e \in ToSet(members[i].entries)
      BY DEF Entries
    <3>2. \A i \in 1..k : \A e : e \in ToSet(members[i].entries) <=>
            \E j \in 1..Len(members[i].entries) : e = members[i].entries[j]
      BY <1>1 DEF ToSet
    <3> HIDE DEF k, members
    <3>3. ASSUME NEW e, e \in Entries(doc)
          PROVE  \E i \in 1..k : members[i].key = "tools" /\
                   \E j \in 1..Len(members[i].entries) : e = members[i].entries[j]
      <4>1. PICK i \in Positions(members, "tools") : e \in ToSet(members[i].entries)
        BY <3>1, <3>3
      <4>2. i \in 1..k /\ members[i].key = "tools"
        BY <1>2
      <4> QED BY <3>2, <4>1, <4>2
    <3>4. ASSUME NEW e, NEW i \in 1..k, members[i].key = "tools",
                 NEW j \in 1..Len(members[i].entries), e = members[i].entries[j]
          PROVE  e \in Entries(doc)
      <4>1. i \in Positions(members, "tools") /\ e \in ToSet(members[i].entries)
        BY <1>2, <3>2, <3>4
      <4> QED BY <3>1, <4>1
    <3> QED BY <3>3, <3>4
  <2> HIDE DEF members, k
  <2> QED BY ONLY <2>1
<1>5. ASSUME GoodMembers(members)
      PROVE  HasAll(object, AccessKeys) <=>
               \A i \in 1..k : members[i].key = "defaults" => HasAll(members[i].object, AccessKeys)
  <2>1. PICK i \in 1..k : members[i].key = "defaults"
    BY <1>1, <1>5, GoodMembersMeans
  <2>2. object = members[i].object /\ \A j \in 1..k : members[j].key = "defaults" => j = i
    BY <1>1, <1>5, <2>1, DefaultsObject
  <2> HIDE DEF object, k
  <2> QED BY <2>1, <2>2
<1>6. (\A i \in 1..k : SoundMember(members[i])) <=>
        /\ \A i \in 1..k : members[i].key = "defaults" => HasAll(members[i].object, AccessKeys)
        /\ \A i \in 1..k : members[i].key = "tools" =>
             \A j \in 1..Len(members[i].entries) : HasAll(members[i].entries[j], ObjectKeys)
  BY DEF SoundMember
<1> HIDE DEF object, k
<1>7. WellFormed(doc) <=>
        /\ doc.defect = "none" /\ GoodMembers(members)
        /\ \A i \in 1..k : SoundMember(members[i])
        /\ \A i \in 1..k : members[i].key = "tools" => DistinctNames(members[i].entries)
  BY ONLY <1>3, <1>4, <1>5, <1>6
<1> QED BY <1>7 DEF k

\* A document is accepted if and only if it is well formed.
LEMMA ParseAccepts ==
    ASSUME NEW doc, IsDocument(doc)
    PROVE  Parse(doc).error = "none" <=> WellFormed(doc)
<1> DEFINE p == Parsed(doc.members)
           k == Len(doc.members)
           Sound == GoodMembers(doc.members) /\ \A i \in 1..k : SoundMember(doc.members[i])
           Named == \A i \in 1..k : doc.members[i].key = "tools" =>
                                      DistinctNames(doc.members[i].entries)
<1>1. Parse(doc).error = "none" <=>
        /\ doc.defect = "none" /\ p.error = "none"
        /\ "version" \in p.saw /\ "defaults" \in p.saw
        /\ NoNameTwice(p.rules)
  BY ParseCases
<1>2. /\ p.error = "none" /\ "version" \in p.saw /\ "defaults" \in p.saw <=> Sound
      /\ p.error = "none" =>
           /\ \A i \in 1..k : doc.members[i].key = "tools" =>
                                p.rules = RulesIn(doc.members[i].entries)
           /\ (\A i \in 1..k : doc.members[i].key # "tools") => p.rules = << >>
  BY ParsedSays
<1>3. WellFormed(doc) <=> doc.defect = "none" /\ Sound /\ Named
  BY WellFormedMeans
<1>4. ASSUME Sound, p.error = "none" PROVE NoNameTwice(p.rules) <=> Named
  <2>1. CASE \A i \in 1..k : doc.members[i].key # "tools"
    <3>1. p.rules = << >>
      BY <1>2, <1>4, <2>1
    <3>2. NoNameTwice(p.rules)
      BY <3>1 DEF NoNameTwice
    <3> QED BY <2>1, <3>2
  <2>2. CASE \E i \in 1..k : doc.members[i].key = "tools"
    <3>1. PICK i \in 1..k : doc.members[i].key = "tools"
      BY <2>2
    <3>2. \A j \in 1..k : doc.members[j].key = "tools" => j = i
      BY <1>4, <3>1, EntriesOfTools
    <3>3. p.rules = RulesIn(doc.members[i].entries)
      BY <1>2, <1>4, <3>1
    <3>4. IsEntries(doc.members[i].entries)
      BY DocumentMembers DEF IsMembers, IsMember
    <3>5. NoNameTwice(p.rules) <=> DistinctNames(doc.members[i].entries)
      BY <3>3, <3>4, RulesInMeans
    <3> HIDE DEF k, p
    <3> QED BY <3>1, <3>2, <3>5
  <2> QED BY <2>1, <2>2
<1> HIDE DEF Sound, Named, p
<1> QED BY <1>1, <1>2, <1>3, <1>4

\* What a policy file says of a name: its entry, else the defaults.
FileSays(doc, name) ==
    IF \E e \in Entries(doc) : Value(e, "name") = name
    THEN AccessIn(CHOOSE e \in Entries(doc) : Value(e, "name") = name)
    ELSE AccessIn(doc.members[CHOOSE i \in Positions(doc.members, "defaults") : TRUE].object)

\* A policy, as the definition and the table are.
IsPolicy(d) == d \in [defaults : [visible : Access, callable : Access], rules : Seq(RuleSet)]

\* Sorting changes no answer.
LEMMA SortAnswers ==
    ASSUME NEW d, IsPolicy(d), NEW s, IsSorting(s, d.rules), NEW name, NEW access,
           Gives(d, name, access)
    PROVE  Gives([defaults |-> d.defaults, rules |-> s], name, access)
<1> DEFINE t == [defaults |-> d.defaults, rules |-> s]
           n == Len(d.rules)
<1>1. t.defaults = d.defaults /\ t.rules = s /\ Len(s) = n
  BY DEF IsSorting
<1> HIDE DEF n, t
<1>2. ASSUME NEW k \in 1..n, s[k].name = name
      PROVE  access = Defaults(s[k].visible, s[k].callable)
  <2>1. PICK i \in 1..n : s[k] = d.rules[i]
    BY DEF IsSorting, n
  <2> QED BY <1>2, <2>1 DEF Gives, n
<1>3. ASSUME \A k \in 1..n : s[k].name # name PROVE access = d.defaults
  <2>1. ASSUME NEW i \in 1..n PROVE d.rules[i].name # name
    <3>1. PICK k \in 1..n : s[k] = d.rules[i]
      BY DEF IsSorting, n
    <3> QED BY <1>3, <3>1
  <2> QED BY <2>1 DEF Gives, n
<1>4. Gives(t, name, access)
  BY <1>1, <1>2, <1>3 DEF Gives
<1> QED BY <1>4 DEF t

\* A document that is accepted becomes a policy without duplicates, in order,
\* that answers what the document says.
LEMMA AcceptedSays ==
    ASSUME NEW doc, IsDocument(doc), Parse(doc).error = "none"
    PROVE  LET d == Parse(doc).definition
           IN  /\ IsPolicy(d) /\ NoNameTwice(d.rules)
               /\ \A name \in Names : Gives(d, name, FileSays(doc, name))
<1> DEFINE p == Parsed(doc.members)
           k == Len(doc.members)
           s == SortByName(p.rules)
           e == [defaults |-> p.defaults, rules |-> p.rules]
           d == Parse(doc).definition
<1>1. /\ p.error = "none" /\ "version" \in p.saw /\ "defaults" \in p.saw /\ NoNameTwice(p.rules)
      /\ d = [defaults |-> p.defaults, rules |-> s]
      /\ p.rules \in Seq(RuleSet) /\ p.defaults \in [visible : Access, callable : Access]
  BY ParseCases
<1>2. IsSorting(s, p.rules)
  BY <1>1, SortMeans
<1>3. IsPolicy(d) /\ NoNameTwice(d.rules)
  <2>1. /\ s \in Seq(RuleSet) /\ Len(s) = Len(p.rules)
        /\ \A i, j \in 1..Len(p.rules) : i < j => s[i].name < s[j].name
    BY <1>1, <1>2 DEF IsSorting
  <2>2. /\ Len(s) \in Nat
        /\ \A i \in 1..Len(s) : s[i].name \in Nat
    BY <2>1, RulesType
  <2>3. NoNameTwice(s)
    <3> HIDE DEF s, p
    <3> QED BY <2>1, <2>2 DEF NoNameTwice
  <2> HIDE DEF d, p, s
  <2> QED BY <1>1, <2>1, <2>3 DEF IsPolicy
<1>4. /\ GoodMembers(doc.members)
      /\ \A i \in 1..k : doc.members[i].key = "defaults" =>
                           p.defaults = AccessIn(doc.members[i].object)
      /\ \A i \in 1..k : doc.members[i].key = "tools" =>
                           p.rules = RulesIn(doc.members[i].entries)
      /\ (\A i \in 1..k : doc.members[i].key # "tools") => p.rules = << >>
  BY <1>1, ParsedSays
<1>5. IsSequence(doc.members) /\ k \in Nat /\ DOMAIN doc.members = 1..k
      /\ \A i \in 1..k : IsEntries(doc.members[i].entries)
  BY DocumentMembers DEF IsMembers, IsMember
<1>6. p.defaults =
        AccessIn(doc.members[CHOOSE i \in Positions(doc.members, "defaults") : TRUE].object)
  <2>1. PICK i \in 1..k : doc.members[i].key = "defaults"
    BY <1>4, <1>5, GoodMembersMeans
  <2>2. (CHOOSE n \in Positions(doc.members, "defaults") : TRUE) = i
    BY <1>4, <1>5, <2>1, DefaultsObject
  <2> QED BY <1>4, <2>1, <2>2
<1> HIDE DEF d, p, s, k
<1>7. e.rules = p.rules /\ e.defaults = p.defaults /\ IsPolicy(e)
  BY <1>1 DEF IsPolicy
<1> HIDE DEF e
<1>8. ASSUME NEW name \in Names PROVE Gives(e, name, FileSays(doc, name))
  <2>1. CASE \A i \in 1..k : doc.members[i].key # "tools"
    <3>1. p.rules = << >>
      BY <1>4, <2>1
    <3>2. Entries(doc) = {}
      <4>1. Positions(doc.members, "tools") = {}
        BY <1>5, <2>1 DEF Positions
      <4> QED BY <4>1 DEF Entries
    <3>3. FileSays(doc, name) = p.defaults
      BY <1>6, <3>2 DEF FileSays
    <3> QED BY <1>7, <3>1, <3>3 DEF Gives
  <2>2. CASE \E i \in 1..k : doc.members[i].key = "tools"
    <3>1. PICK i \in 1..k : doc.members[i].key = "tools"
      BY <2>2
    <3> DEFINE entries == doc.members[i].entries
    <3>2. \A x : x \in Entries(doc) <=> \E j \in 1..Len(entries) : x = entries[j]
      BY <1>4, <3>1, EntriesOfTools DEF k
    <3>3. p.rules = RulesIn(entries) /\ IsEntries(entries)
      BY <1>4, <1>5, <3>1
    <3>4. /\ Len(p.rules) = Len(entries)
          /\ \A j \in 1..Len(entries) :
               p.rules[j] = RuleIn(entries[j]) /\ p.rules[j].name = Value(entries[j], "name")
          /\ DistinctNames(entries)
      BY <1>1, <3>3, RulesInMeans
    <3> HIDE DEF entries
    <3>5. ASSUME NEW j \in 1..Len(entries), Value(entries[j], "name") = name
          PROVE  FileSays(doc, name) = Defaults(p.rules[j].visible, p.rules[j].callable)
      <4> DEFINE x == CHOOSE x \in Entries(doc) : Value(x, "name") = name
      <4>1. \E y \in Entries(doc) : Value(y, "name") = name
        BY <3>2, <3>5
      <4>2. x \in Entries(doc) /\ Value(x, "name") = name
        BY <4>1, Zenon
      <4>3. FileSays(doc, name) = AccessIn(x)
        BY <4>1, Zenon DEF FileSays
      <4> HIDE DEF x
      <4>4. PICK l \in 1..Len(entries) : x = entries[l]
        BY <3>2, <4>2
      <4>5. l = j
        BY <3>4, <3>5, <4>2, <4>4 DEF DistinctNames
      <4>6. p.rules[j].visible = Value(x, "visibility") /\ p.rules[j].callable = Value(x, "invocation")
        <5>1. p.rules[j] = RuleIn(x)
          BY <3>4, <4>4, <4>5
        <5>2. /\ RuleIn(x).visible = Value(x, "visibility")
              /\ RuleIn(x).callable = Value(x, "invocation")
          BY DEF RuleIn, Rule
        <5> QED BY <5>1, <5>2
      <4> QED BY <4>3, <4>6 DEF AccessIn
    <3>6. ASSUME \A j \in 1..Len(entries) : Value(entries[j], "name") # name
          PROVE  FileSays(doc, name) = p.defaults
      BY <1>6, <3>2, <3>6 DEF FileSays
    <3> QED BY <1>7, <3>4, <3>5, <3>6 DEF Gives
  <2> QED BY <2>1, <2>2
<1>9. ASSUME NEW name \in Names PROVE Gives(d, name, FileSays(doc, name))
  <2>1. Gives([defaults |-> e.defaults, rules |-> s], name, FileSays(doc, name))
    BY <1>2, <1>7, <1>8, SortAnswers
  <2> QED BY <1>1, <1>7, <2>1
<1> QED BY <1>3, <1>9 DEF d

------------------------------------------------------------------------------
(* Denials and tables                                                      *)

\* No more rules than names.
LEMMA NoMoreThanNames ==
    ASSUME NEW rules \in Seq(RuleSet), NoNameTwice(rules)
    PROVE  Len(rules) <= Cardinality(Names)
<1> DEFINE n == Len(rules)
           f == [i \in 1..n |-> rules[i].name]
<1>1. n \in Nat /\ \A i \in 1..n : rules[i].name \in Names
  BY RulesType
<1>2. f \in [1..n -> Names] /\ \A i, j \in 1..n : f[i] = f[j] => i = j
  BY <1>1 DEF NoNameTwice
<1> HIDE DEF f
<1>3. f \in Injection(1..n, Names)
  BY <1>2 DEF Injection, IsInjective
<1>4. IsFiniteSet(Names)
  BY PolicyAssumption
<1>5. Cardinality(1..n) <= Cardinality(Names)
  <2> HIDE DEF n
  <2> QED BY ONLY <1>3, <1>4, FS_Injection
<1>6. Cardinality(1..n) = n
  BY <1>1, Interval
<1> QED BY <1>5, <1>6

\* A denial leaves a policy a policy without duplicates; it answers the name
\* with a denial, and every other name as before.
LEMMA DenyMeans ==
    ASSUME NEW d, IsPolicy(d), NoNameTwice(d.rules), NEW name \in Names
    PROVE  LET e == ApplyDeny(name, d)
           IN  /\ IsPolicy(e) /\ NoNameTwice(e.rules)
               /\ Gives(e, name, Defaults("deny", "deny"))
               /\ \A other, access :
                    other # name /\ Gives(d, other, access) => Gives(e, other, access)
<1> DEFINE n == Len(d.rules)
           new == Rule(name, "deny", "deny")
           e == ApplyDeny(name, d)
           same == {i \in DOMAIN d.rules : d.rules[i].name = name}
           first == CHOOSE i \in same : \A j \in same : i <= j
<1>1. /\ d.rules \in Seq(RuleSet) /\ n \in Nat /\ DOMAIN d.rules = 1..n
      /\ d.defaults \in [visible : Access, callable : Access]
      /\ \A i \in 1..n : d.rules[i] \in RuleSet
  BY RulesType DEF IsPolicy
<1>2. new \in RuleSet /\ new.name = name /\ Defaults(new.visible, new.callable) = Defaults("deny", "deny")
  BY DEF Rule, RuleSet, Access
<1>3. e = IF same = {} THEN [d EXCEPT !.rules = Append(@, new)]
          ELSE [d EXCEPT !.rules[first].visible = "deny", !.rules[first].callable = "deny"]
  BY DEF ApplyDeny
<1>4. \A i : i \in same <=> i \in 1..n /\ d.rules[i].name = name
  BY <1>1
<1> HIDE DEF e, same, new, n
<1>5. CASE same = {}
  <2>1. e = [d EXCEPT !.rules = Append(@, new)]
    BY <1>3, <1>5
  <2>2. e.rules = Append(d.rules, new) /\ e.defaults = d.defaults
    BY <2>1 DEF IsPolicy
  <2>3. /\ Len(e.rules) = n + 1 /\ e.rules \in Seq(RuleSet)
        /\ e.rules[n + 1] = new /\ \A i \in 1..n : e.rules[i] = d.rules[i]
    BY <1>1, <1>2, <2>2 DEF n
  <2>4. IsPolicy(e)
    BY <1>1, <2>1, <2>3, <2>2 DEF IsPolicy
  <2>5. \A i \in 1..n : d.rules[i].name # name
    BY <1>4, <1>5
  <2>6. \A i \in 1..(n + 1) : i \in 1..n \/ i = n + 1
    BY <1>1
  <2>7. n + 1 \in 1..(n + 1) /\ \A i \in 1..n : i \in 1..(n + 1)
    BY <1>1
  <2>8. NoNameTwice(e.rules)
    BY <1>2, <2>3, <2>5, <2>6 DEF NoNameTwice, n
  <2>9. Gives(e, name, Defaults("deny", "deny"))
    BY <1>2, <2>3, <2>5, <2>6, <2>7 DEF Gives
  <2>10. ASSUME NEW other, NEW access, other # name, Gives(d, other, access)
         PROVE  Gives(e, other, access)
    BY <1>2, <2>2, <2>3, <2>6, <2>7, <2>10 DEF Gives, n
  <2> QED BY <2>4, <2>8, <2>9, <2>10 DEF e
<1>6. CASE same # {}
  <2>1. PICK k \in 1..n : d.rules[k].name = name
    BY <1>4, <1>6
  <2>2. \A i \in 1..n : d.rules[i].name = name => i = k
    BY <2>1 DEF NoNameTwice, n
  <2>3. same = {k}
    BY <1>4, <2>1, <2>2
  <2>4. first = k
    <3>1. k \in same /\ \A j \in same : k <= j
      BY <1>1, <2>3
    <3>2. first \in same
      BY <3>1, Zenon
    <3> QED BY <2>3, <3>2
  <2> HIDE DEF first
  <2>5. e = [d EXCEPT !.rules[k].visible = "deny", !.rules[k].callable = "deny"]
    BY <1>3, <1>6, <2>4
  <2> DEFINE denial == [d.rules[k] EXCEPT !.visible = "deny", !.callable = "deny"]
  <2>6. /\ denial \in RuleSet /\ denial.name = name
        /\ Defaults(denial.visible, denial.callable) = Defaults("deny", "deny")
    <3>1. d.rules[k] \in RuleSet /\ d.rules[k].name = name
      BY <1>1, <2>1
    <3> QED BY <3>1 DEF RuleSet, Access
  <2>7. e.defaults = d.defaults /\ e.rules = [d.rules EXCEPT ![k] = denial]
    BY <1>1, <2>1, <2>5 DEF IsPolicy
  <2> HIDE DEF denial
  <2>8. /\ Len(e.rules) = n /\ e.rules \in Seq(RuleSet)
        /\ e.rules[k] = denial /\ \A i \in 1..n : i # k => e.rules[i] = d.rules[i]
    BY <1>1, <2>1, <2>6, <2>7 DEF n
  <2>9. IsPolicy(e)
    BY <1>1, <2>5, <2>7, <2>8 DEF IsPolicy
  <2>10. \A i \in 1..n : e.rules[i].name = d.rules[i].name
    BY <2>1, <2>6, <2>8
  <2>11. NoNameTwice(e.rules)
    BY <2>8, <2>10 DEF NoNameTwice, n
  <2>12. Gives(e, name, Defaults("deny", "deny"))
    BY <2>1, <2>2, <2>6, <2>8, <2>10 DEF Gives
  <2>13. ASSUME NEW other, NEW access, other # name, Gives(d, other, access)
         PROVE  Gives(e, other, access)
    BY <2>1, <2>7, <2>8, <2>10, <2>13 DEF Gives, n
  <2> QED BY <2>9, <2>11, <2>12, <2>13 DEF e
<1> QED BY <1>5, <1>6

\* A table is built of every policy without duplicates; it is in order and
\* gives every answer the policy gives.
LEMMA BuildMeans ==
    ASSUME NEW d, IsPolicy(d), NoNameTwice(d.rules)
    PROVE  LET b == Build(d.rules, d.defaults)
           IN  /\ b.error = "none" /\ IsPolicy(b.table) /\ NoNameTwice(b.table.rules)
               /\ \A i, j \in 1..Len(b.table.rules) :
                    i < j => b.table.rules[i].name < b.table.rules[j].name
               /\ \A name, access : Gives(d, name, access) => Gives(b.table, name, access)
<1> DEFINE b == Build(d.rules, d.defaults)
           s == SortByName(d.rules)
<1>1. /\ d.rules \in Seq(RuleSet) /\ d.defaults \in [visible : Access, callable : Access]
      /\ DOMAIN d.rules = 1..Len(d.rules)
      /\ \A i \in 1..Len(d.rules) : d.rules[i].name \in Names
  BY RulesType DEF IsPolicy
<1>2. \A i \in DOMAIN d.rules : d.rules[i].name # 0
  BY <1>1, PolicyAssumption
<1>3. IsSorting(s, d.rules)
  BY <1>1, SortMeans
<1>4. b.table = [defaults |-> d.defaults, rules |-> s]
  BY DEF Build
<1>5. b.error = "none"
  <2>1. ~AdjacentDuplicate(s)
    BY <1>3 DEF IsSorting
  <2> HIDE DEF s
  <2> QED BY <1>2, <2>1 DEF Build, s
<1> HIDE DEF s, b
<1>6. b.table.rules = s /\ IsPolicy(b.table) /\ Len(s) = Len(d.rules)
      /\ \A i, j \in 1..Len(s) : i < j => s[i].name < s[j].name
  BY <1>1, <1>3, <1>4 DEF IsPolicy, IsSorting
<1>7. NoNameTwice(s)
  <2>1. s \in Seq(RuleSet)
    BY <1>3 DEF IsSorting
  <2>2. Len(s) \in Nat /\ \A i \in 1..Len(s) : s[i].name \in Nat
    BY <2>1, RulesType
  <2> QED BY <1>6, <2>2 DEF NoNameTwice
<1>8. ASSUME NEW name, NEW access, Gives(d, name, access)
      PROVE  Gives(b.table, name, access)
  BY <1>3, <1>4, <1>8, SortAnswers
<1> QED BY <1>5, <1>6, <1>7, <1>8 DEF b

\* There is one answer.
LEMMA OneAnswer ==
    ASSUME NEW d, NEW name, NEW a, NEW b, Gives(d, name, a), Gives(d, name, b)
    PROVE  a = b
BY DEF Gives

------------------------------------------------------------------------------
(* The invariant                                                           *)

\* What a name must be answered: a denial on the command line comes before the
\* file, and without a file everything is allowed.
Said(doc, denials, name) ==
    IF Contains(denials, name) THEN Defaults("deny", "deny")
    ELSE IF doc = Empty THEN Defaults("allow", "allow")
    ELSE FileSays(doc, name)

\* A list of allowed tools that names none twice.
NoneTwice(allow) == \A i, j \in 1..Len(allow) : allow[i] = allow[j] => i = j

TypesInv ==
    /\ pc \in Stages
    /\ created \in {"no", "yes", "failed"}
    /\ IsPolicy(definition) /\ NoNameTwice(definition.rules)
    /\ IsPolicy(table) /\ NoNameTwice(table.rules)
    /\ denied \in Seq(Names)
    /\ IsDocument(file)

\* Where there is no policy yet; the first two are Discovery's.
Unread == {"initialize", "answer", "create"}

\* Nothing is decided before the file has been read, and then the file was well
\* formed or the run has failed.
FileInv ==
    /\ pc \in Unread \cup {"run"} => definition = NoPolicy /\ denied = << >>
    /\ Loaded => WellFormed(file)
    /\ pc = "failed" => ~WellFormed(file) /\ definition = NoPolicy

\* From then on the definition, and the table built of it, answer every name as
\* they must, whatever has been denied so far.
SaysInv ==
    /\ pc \in {"deny", "ready"} =>
         \A name \in Names : Gives(definition, name, Said(file, denied, name))
    /\ pc = "ready" =>
         /\ \A name \in Names : Gives(table, name, Said(file, denied, name))
         /\ \A i, j \in 1..Len(table.rules) :
              i < j => table.rules[i].name < table.rules[j].name

\* A policy is created of a list that names no tool twice and only tools that
\* are there, or the old file stays.
CreateInv ==
    /\ pc \in Unread => created = "no"
    /\ pc = "create" => allowed \in Seq(Names)
    /\ pc \in Unread \/ created = "failed" => file = OldFile
    /\ created = "yes" =>
         /\ allowed \in Seq(Names) /\ NoneTwice(allowed)
         /\ \A i \in DOMAIN allowed : Contains(ParseInventory(inventory).names, allowed[i])
         /\ file = Emit(allowed)

PolicyInv == TypesInv /\ FileInv /\ SaysInv /\ CreateInv

------------------------------------------------------------------------------
(* Created policies                                                        *)

\* The object of a visibility and an invocation.
LEMMA ObjectMeans ==
    ASSUME NEW v \in Access, NEW c \in Access
    PROVE  /\ IsObject(Object(v, c)) /\ HasAll(Object(v, c), AccessKeys)
           /\ Value(Object(v, c), "visibility") = v /\ Value(Object(v, c), "invocation") = c
<1> DEFINE o == Object(v, c)
<1>1. /\ Len(o) = 2 /\ DOMAIN o = 1..2
      /\ o[1].key = "visibility" /\ o[1].good = TRUE /\ o[1].value = v
      /\ o[2].key = "invocation" /\ o[2].good = TRUE /\ o[2].value = c
  BY DEF Object, Field
<1>0. IsSequence(o)
  <2> DEFINE a == Field("visibility", v)
             b == Field("invocation", c)
  <2>1. o = << a, b >>
    BY DEF Object
  <2>2. << a, b >> \in Seq({a, b})
    OBVIOUS
  <2> HIDE DEF a, b, o
  <2> QED BY ONLY <2>1, <2>2, SequenceIs
<1> HIDE DEF o
<1>2. \A i : i \in 1..2 <=> i = 1 \/ i = 2
  OBVIOUS
<1>4. IsObject(o)
  BY <1>0, <1>1, <1>2 DEF IsObject, AccessKeys
<1>5. HasAll(o, AccessKeys)
  <2>1. SoundUpTo(o, AccessKeys, 2)
    BY <1>1, <1>2 DEF SoundUpTo
  <2>2. \A key \in AccessKeys : \E i \in 1..2 : o[i].key = key
    BY <1>1, <1>2 DEF AccessKeys
  <2>3. /\ SoundUpTo(o, AccessKeys, Len(o))
        /\ \A key \in AccessKeys : \E i \in 1..Len(o) : o[i].key = key
    BY <1>1, <2>1, <2>2
  <2> QED BY ONLY <1>0, <2>3, AllOnce
<1>6. Value(o, o[1].key) = v /\ Value(o, o[2].key) = c
  <2>1. 1 \in 1..Len(o) /\ 2 \in 1..Len(o) /\ o[1].key \in AccessKeys /\ o[2].key \in AccessKeys
    BY <1>1, <1>2 DEF AccessKeys
  <2>2. Value(o, o[1].key) = o[1].value
    BY ONLY <1>0, <1>5, <2>1, ValueOnce
  <2>3. Value(o, o[2].key) = o[2].value
    BY ONLY <1>0, <1>5, <2>1, ValueOnce
  <2> QED BY <1>1, <2>2, <2>3
<1> QED BY <1>1, <1>4, <1>5, <1>6 DEF o

\* One element and two more.
LEMMA OneAndTwo ==
    ASSUME NEW a, NEW b, NEW c, NEW e, e = << a >> \o << b, c >>
    PROVE  Len(e) = 3 /\ DOMAIN e = 1..3 /\ e[1] = a /\ e[2] = b /\ e[3] = c
<1> DEFINE S == {a, b, c}
           p == << a >>
           q == << b, c >>
<1>1. p \in Seq(S) /\ Len(p) = 1 /\ p[1] = a
  OBVIOUS
<1>2. q \in Seq(S) /\ Len(q) = 2 /\ q[1] = b /\ q[2] = c
  OBVIOUS
<1>3. e = p \o q
  OBVIOUS
<1> HIDE DEF p, q, S
<1>4. /\ e \in Seq(S) /\ Len(e) = 3
      /\ \A i \in 1..3 : e[i] = IF i <= Len(p) THEN p[i] ELSE q[i - Len(p)]
  <2>1. /\ p \o q \in Seq(S) /\ Len(p \o q) = Len(p) + Len(q)
        /\ \A i \in 1..(Len(p) + Len(q)) : (p \o q)[i] =
              IF i <= Len(p) THEN p[i] ELSE q[i - Len(p)]
    BY ONLY <1>1, <1>2, ConcatProperties
  <2> QED BY ONLY <1>1, <1>2, <1>3, <2>1
<1>5. e[1] = p[1] /\ e[2] = q[1] /\ e[3] = q[2]
  BY ONLY <1>1, <1>4
<1>6. DOMAIN e = 1..3
  BY ONLY <1>4
<1> QED BY ONLY <1>1, <1>2, <1>4, <1>5, <1>6

\* The entry of a rule says what the rule says.
LEMMA EntryOfRule ==
    ASSUME NEW rule \in RuleSet
    PROVE  /\ IsObject(Entry(rule)) /\ HasAll(Entry(rule), ObjectKeys)
           /\ RuleIn(Entry(rule)) = rule /\ Value(Entry(rule), "name") = rule.name
<1> DEFINE e == Entry(rule)
<1>1. /\ Len(e) = 3 /\ DOMAIN e = 1..3
      /\ e[1].key = "name" /\ e[1].good = TRUE /\ e[1].value = rule.name
      /\ e[2].key = "visibility" /\ e[2].good = TRUE /\ e[2].value = rule.visible
      /\ e[3].key = "invocation" /\ e[3].good = TRUE /\ e[3].value = rule.callable
  <2> DEFINE a == Field("name", rule.name)
             b == Field("visibility", rule.visible)
             c == Field("invocation", rule.callable)
  <2>1. e = << a >> \o << b, c >>
    BY DEF Entry, Object
  <2>2. Len(e) = 3 /\ DOMAIN e = 1..3 /\ e[1] = a /\ e[2] = b /\ e[3] = c
    <3> HIDE DEF a, b, c, e
    <3> QED BY ONLY <2>1, OneAndTwo
  <2> HIDE DEF e
  <2> QED BY <2>2 DEF Field
<1>4. IsSequence(e)
  <2> DEFINE a == Field("name", rule.name)
             b == Field("visibility", rule.visible)
             c == Field("invocation", rule.callable)
  <2>1. e = << a >> \o << b, c >>
    BY DEF Entry, Object
  <2>2. << a >> \in Seq({a, b, c}) /\ << b, c >> \in Seq({a, b, c})
    OBVIOUS
  <2> HIDE DEF a, b, c, e
  <2>3. e \in Seq({a, b, c})
    BY ONLY <2>1, <2>2, ConcatProperties
  <2> QED BY ONLY <2>3, SequenceIs
<1>2. rule.name \in Names /\ rule.visible \in Access /\ rule.callable \in Access
      /\ rule = [name |-> rule.name, visible |-> rule.visible, callable |-> rule.callable]
  BY DEF RuleSet
<1> HIDE DEF e
<1>3. \A i : i \in 1..3 <=> i = 1 \/ i = 2 \/ i = 3
  OBVIOUS
<1>5. IsObject(e)
  BY <1>1, <1>2, <1>3, <1>4 DEF IsObject, AccessKeys
<1>6. HasAll(e, ObjectKeys)
  <2>1. SoundUpTo(e, ObjectKeys, 3)
    BY <1>1, <1>3 DEF SoundUpTo
  <2>2. \A key \in ObjectKeys : \E i \in 1..3 : e[i].key = key
    BY <1>1, <1>3 DEF ObjectKeys, AccessKeys
  <2>3. /\ SoundUpTo(e, ObjectKeys, Len(e))
        /\ \A key \in ObjectKeys : \E i \in 1..Len(e) : e[i].key = key
    BY <1>1, <2>1, <2>2
  <2> QED BY ONLY <1>4, <2>3, AllOnce
<1>7. /\ Value(e, "name") = rule.name /\ Value(e, "visibility") = rule.visible
      /\ Value(e, "invocation") = rule.callable
  <2>1. /\ 1 \in 1..Len(e) /\ 2 \in 1..Len(e) /\ 3 \in 1..Len(e)
        /\ e[1].key \in ObjectKeys /\ e[2].key \in ObjectKeys /\ e[3].key \in ObjectKeys
    BY <1>1, <1>3 DEF ObjectKeys, AccessKeys
  <2>2. Value(e, e[1].key) = e[1].value
    BY ONLY <1>4, <1>6, <2>1, ValueOnce
  <2>3. Value(e, e[2].key) = e[2].value
    BY ONLY <1>4, <1>6, <2>1, ValueOnce
  <2>4. Value(e, e[3].key) = e[3].value
    BY ONLY <1>4, <1>6, <2>1, ValueOnce
  <2> QED BY <1>1, <2>2, <2>3, <2>4
<1>8. RuleIn(e) = rule
  BY <1>2, <1>7 DEF RuleIn, Rule
<1> QED BY <1>5, <1>6, <1>7, <1>8 DEF e

\* A document written for rules without duplicates is well formed, and says of
\* each name what the rules say, or denies it.
LEMMA DocumentMeans ==
    ASSUME NEW rules \in Seq(RuleSet), NoNameTwice(rules)
    PROVE  LET doc == Document(rules)
               d == [defaults |-> Defaults("deny", "deny"), rules |-> rules]
           IN  /\ IsDocument(doc) /\ WellFormed(doc) /\ doc # Empty
               /\ \A name \in Names : Gives(d, name, FileSays(doc, name))
<1> DEFINE doc == Document(rules)
           entries == [i \in DOMAIN rules |-> Entry(rules[i])]
           m == doc.members
           none == Object("deny", "deny")
           n == Len(rules)
<1>1. n \in Nat /\ DOMAIN rules = 1..n /\ \A i \in 1..n : rules[i] \in RuleSet
  BY RulesType
<1>2. /\ doc.defect = "none" /\ Len(m) = 3 /\ DOMAIN m = 1..3
      /\ m[1].key = "version" /\ m[1].good = TRUE /\ m[1].object = << >> /\ m[1].entries = << >>
      /\ m[2].key = "defaults" /\ m[2].good = TRUE /\ m[2].object = none /\ m[2].entries = << >>
      /\ m[3].key = "tools" /\ m[3].good = TRUE /\ m[3].object = << >> /\ m[3].entries = entries
  BY DEF Document, Member
<1>3. \A i : i \in 1..3 <=> i = 1 \/ i = 2 \/ i = 3
  OBVIOUS
<1>4. IsObject(none) /\ HasAll(none, AccessKeys) /\ AccessIn(none) = Defaults("deny", "deny")
  BY ObjectMeans DEF Access, AccessIn
<1>5. /\ Len(entries) = n /\ DOMAIN entries = 1..n
      /\ \A i \in 1..n : entries[i] = Entry(rules[i])
  BY <1>1
<1>6. /\ \A i \in 1..n : IsObject(entries[i]) /\ HasAll(entries[i], ObjectKeys)
      /\ \A i \in 1..n : RuleIn(entries[i]) = rules[i] /\ Value(entries[i], "name") = rules[i].name
  BY <1>1, <1>5, EntryOfRule
<1>7. IsEntries(entries) /\ IsSequence(entries)
  <2>1. entries \in Seq({Entry(rules[i]) : i \in 1..n})
    BY <1>1
  <2>2. IsSequence(entries)
    BY ONLY <2>1, SequenceIs
  <2> HIDE DEF entries, n
  <2> QED BY <1>1, <1>5, <1>6, <2>2 DEF IsEntries
<1>8. IsObject(<< >>) /\ IsSequence(<< >>) /\ DOMAIN << >> = {}
  <2>1. << >> \in Seq({}) /\ DOMAIN << >> = {}
    OBVIOUS
  <2>2. IsSequence(<< >>)
    BY ONLY <2>1, SequenceIs
  <2> QED BY <2>1, <2>2 DEF IsObject
<1>9. IsSequence(m)
  <2> DEFINE a == Member("version", << >>, << >>)
             b == Member("defaults", none, << >>)
             c == Member("tools", << >>, entries)
  <2>1. m = << a, b, c >>
    BY DEF Document
  <2>2. << a, b, c >> \in Seq({a, b, c})
    OBVIOUS
  <2> HIDE DEF a, b, c, m
  <2> QED BY ONLY <2>1, <2>2, SequenceIs
<1> HIDE DEF none, entries, n, doc
<1>10. IsDocument(doc)
  <2>1. ASSUME NEW i \in DOMAIN m
        PROVE  /\ m[i].good \in BOOLEAN /\ IsObject(m[i].object) /\ IsSequence(m[i].entries)
               /\ \A j \in DOMAIN m[i].entries : IsObject(m[i].entries[j])
    <3>1. i = 1 \/ i = 2 \/ i = 3
      BY <1>2, <1>3
    <3>2. CASE i = 1
      BY <1>2, <1>8, <3>2
    <3>3. CASE i = 2
      BY <1>2, <1>4, <1>8, <3>3
    <3>4. CASE i = 3
      BY <1>2, <1>5, <1>6, <1>7, <1>8, <3>4
    <3> QED BY <3>1, <3>2, <3>3, <3>4
  <2> QED BY <1>2, <1>9, <2>1 DEF IsDocument, Defects
<1>11. GoodMembers(m)
  <2>1. SoundUpTo(m, DocKeys, 3)
    BY <1>2, <1>3 DEF SoundUpTo
  <2>2. /\ \E i \in 1..3 : m[i].key = "version"
        /\ \E i \in 1..3 : m[i].key = "defaults"
    BY <1>2, <1>3
  <2> QED BY <1>2, <1>9, <2>1, <2>2, GoodMembersMeans
<1>12. \A i \in 1..3 : SoundMember(m[i])
  BY <1>2, <1>3, <1>4, <1>5, <1>6 DEF SoundMember
<1>13. DistinctNames(entries)
  BY <1>5, <1>6 DEF DistinctNames, NoNameTwice, n
<1>14. WellFormed(doc)
  BY <1>2, <1>3, <1>10, <1>11, <1>12, <1>13, WellFormedMeans
<1>15. doc # Empty
  <2>1. Len(Empty.members) = 0
    BY DEF Empty
  <2> QED BY <1>2, <2>1
<1>16. Parse(doc).error = "none"
  BY <1>10, <1>14, ParseAccepts
<1> DEFINE p == Parsed(m)
           t == Parse(doc).definition
<1>17. p.rules = rules /\ p.defaults = Defaults("deny", "deny")
  <2>1. p.error = "none"
    BY <1>10, <1>16, ParseCases
  <2>2. /\ \A i \in 1..3 : m[i].key = "defaults" => p.defaults = AccessIn(m[i].object)
        /\ \A i \in 1..3 : m[i].key = "tools" => p.rules = RulesIn(m[i].entries)
    BY <1>2, <1>10, <2>1, ParsedSays
  <2>3. p.defaults = AccessIn(none) /\ p.rules = RulesIn(entries)
    BY <1>2, <1>3, <2>2
  <2>4. RulesIn(entries) = [i \in 1..n |-> rules[i]]
    BY <1>5, <1>6 DEF RulesIn
  <2>5. [i \in 1..n |-> rules[i]] = rules
    BY <1>1
  <2> QED BY <1>4, <2>3, <2>4, <2>5
<1>18. t = [defaults |-> p.defaults, rules |-> SortByName(p.rules)]
  BY <1>10, ParseCases
<1>19. \A name \in Names : Gives(t, name, FileSays(doc, name))
  BY <1>10, <1>16, AcceptedSays
<1>20. IsSorting(SortByName(rules), rules)
  BY SortMeans
<1> HIDE DEF p, t
<1>21. t.defaults = Defaults("deny", "deny") /\ t.rules = SortByName(rules)
  BY <1>17, <1>18
<1> DEFINE d == [defaults |-> Defaults("deny", "deny"), rules |-> rules]
<1>22. ASSUME NEW name \in Names PROVE Gives(d, name, FileSays(doc, name))
  <2> DEFINE a == FileSays(doc, name)
             s == SortByName(rules)
  <2>1. Gives(t, name, a)
    BY <1>19
  <2> HIDE DEF a, s
  <2>2. d.rules = rules /\ d.defaults = Defaults("deny", "deny")
    OBVIOUS
  <2>3. /\ Len(s) = n
        /\ \A i \in 1..n : \E k \in 1..n : s[k] = rules[i]
        /\ \A k \in 1..n : \E i \in 1..n : s[k] = rules[i]
    BY <1>20 DEF IsSorting, n, s
  <2> HIDE DEF d
  <2>4. ASSUME NEW i \in 1..n, rules[i].name = name
        PROVE  a = Defaults(rules[i].visible, rules[i].callable)
    <3>1. PICK k \in 1..n : s[k] = rules[i]
      BY <2>3
    <3>2. s[k].name = name /\ s[k].visible = rules[i].visible /\ s[k].callable = rules[i].callable
      BY <2>4, <3>1
    <3>3. t.rules = s
      BY <1>21 DEF s
    <3>4. a = Defaults(s[k].visible, s[k].callable)
      BY <2>1, <2>3, <3>2, <3>3 DEF Gives
    <3> QED BY <3>2, <3>4
  <2>5. ASSUME \A i \in 1..n : rules[i].name # name PROVE a = Defaults("deny", "deny")
    <3>1. ASSUME NEW k \in 1..n PROVE s[k].name # name
      <4>1. PICK i \in 1..n : s[k] = rules[i]
        BY <2>3
      <4> QED BY <2>5, <4>1
    <3> QED BY <1>21, <2>1, <2>3, <3>1 DEF Gives, s
  <2>6. Gives(d, name, a)
    BY <2>2, <2>4, <2>5 DEF Gives, n
  <2> QED BY <2>6 DEF a
<1> QED BY <1>10, <1>14, <1>15, <1>22 DEF doc

\* The rules of the allowed tools.
Allowing(allow) == [i \in DOMAIN allow |-> Rule(allow[i], "allow", "allow")]

\* One rule for each tool of the list.
LEMMA AllowingMeans ==
    ASSUME NEW allow \in Seq(Names), NoneTwice(allow)
    PROVE  /\ Allowing(allow) \in Seq(RuleSet) /\ Len(Allowing(allow)) = Len(allow)
           /\ \A i \in 1..Len(allow) :
                /\ Allowing(allow)[i] = Rule(allow[i], "allow", "allow")
                /\ Allowing(allow)[i].name = allow[i]
           /\ NoNameTwice(Allowing(allow))
<1> DEFINE n == Len(allow)
           r == Allowing(allow)
<1>1. n \in Nat /\ DOMAIN allow = 1..n /\ \A i \in 1..n : allow[i] \in Names
  OBVIOUS
<1>2. r = [i \in 1..n |-> Rule(allow[i], "allow", "allow")]
  BY <1>1 DEF Allowing
<1>3. \A i \in 1..n : /\ Rule(allow[i], "allow", "allow") \in RuleSet
                      /\ Rule(allow[i], "allow", "allow").name = allow[i]
  BY <1>1 DEF Rule, RuleSet, Access
<1> HIDE DEF r, n
<1>4. r \in Seq(RuleSet) /\ Len(r) = n
  BY <1>1, <1>2, <1>3
<1>5. \A i \in 1..n : r[i] = Rule(allow[i], "allow", "allow") /\ r[i].name = allow[i]
  BY <1>2, <1>3
<1>6. NoNameTwice(r)
  BY <1>4, <1>5 DEF NoNameTwice, NoneTwice, n
<1> QED BY <1>4, <1>5, <1>6 DEF r, n

\* The file written for a list of allowed tools is a well-formed document that
\* allows them and denies every other.
LEMMA EmitMeans ==
    ASSUME NEW allow \in Seq(Names), NoneTwice(allow)
    PROVE  /\ IsDocument(Emit(allow)) /\ WellFormed(Emit(allow)) /\ Emit(allow) # Empty
           /\ Emit(allow) = Document(SortByName(Allowing(allow)))
           /\ \A name \in Names :
                FileSays(Emit(allow), name) = IF Contains(allow, name)
                                              THEN Defaults("allow", "allow")
                                              ELSE Defaults("deny", "deny")
<1> DEFINE r == Allowing(allow)
           d == [defaults |-> Defaults("deny", "deny"), rules |-> r]
           b == Build(r, Defaults("deny", "deny"))
           doc == Emit(allow)
<1>1. /\ r \in Seq(RuleSet) /\ NoNameTwice(r) /\ Len(r) = Len(allow) /\ Len(allow) \in Nat
      /\ \A i \in 1..Len(allow) : r[i] = Rule(allow[i], "allow", "allow") /\ r[i].name = allow[i]
  BY AllowingMeans
<1>2. doc = Document(b.table.rules)
  BY DEF Emit, Allowing
<1>3. b.table = [defaults |-> Defaults("deny", "deny"), rules |-> SortByName(r)]
  BY DEF Build
<1>4. IsPolicy(d) /\ d.rules = r /\ d.defaults = Defaults("deny", "deny")
  <2>1. Defaults("deny", "deny") \in [visible : Access, callable : Access]
    BY DEF Defaults, Access
  <2> HIDE DEF r
  <2> QED BY <1>1, <2>1 DEF IsPolicy
<1> HIDE DEF r, d, b, doc
<1>5. /\ IsPolicy(b.table) /\ NoNameTwice(b.table.rules)
      /\ \A name, access : Gives(d, name, access) => Gives(b.table, name, access)
  BY <1>1, <1>4, BuildMeans DEF b
<1>6. /\ b.table.rules = SortByName(r) /\ b.table.rules \in Seq(RuleSet)
      /\ b.table = [defaults |-> Defaults("deny", "deny"), rules |-> b.table.rules]
  BY <1>3, <1>5 DEF IsPolicy
<1>7. /\ IsDocument(doc) /\ WellFormed(doc) /\ doc # Empty
      /\ \A name \in Names : Gives(b.table, name, FileSays(doc, name))
  BY <1>2, <1>5, <1>6, DocumentMeans
<1>8. ASSUME NEW name \in Names
      PROVE  FileSays(doc, name) = IF Contains(allow, name) THEN Defaults("allow", "allow")
                                   ELSE Defaults("deny", "deny")
  <2> DEFINE a == IF Contains(allow, name) THEN Defaults("allow", "allow")
                  ELSE Defaults("deny", "deny")
  <2>1. ASSUME NEW i \in 1..Len(r), r[i].name = name
        PROVE  a = Defaults(r[i].visible, r[i].callable)
    <3>1. Contains(allow, name)
      BY <1>1, <2>1 DEF Contains
    <3>2. r[i] = Rule(allow[i], "allow", "allow")
      BY <1>1
    <3>3. r[i].visible = "allow" /\ r[i].callable = "allow"
      BY <3>2 DEF Rule
    <3> QED BY <3>1, <3>3
  <2>2. ASSUME \A i \in 1..Len(r) : r[i].name # name PROVE a = Defaults("deny", "deny")
    <3>1. ~Contains(allow, name)
      BY <1>1, <2>2 DEF Contains
    <3> QED BY <3>1
  <2> HIDE DEF a
  <2>3. Gives(d, name, a)
    BY <1>4, <2>1, <2>2 DEF Gives
  <2>4. Gives(b.table, name, a) /\ Gives(b.table, name, FileSays(doc, name))
    BY <1>5, <1>7, <2>3
  <2>5. a = FileSays(doc, name)
    BY <2>4, OneAnswer
  <2> QED BY <2>5 DEF a
<1> QED BY <1>2, <1>6, <1>7, <1>8 DEF r, doc

\* Rules in strict order are determined by which they are.
LEMMA OneSorting ==
    ASSUME NEW s \in Seq(RuleSet), NEW t \in Seq(RuleSet), Len(s) = Len(t),
           \A i, j \in 1..Len(s) : i < j => s[i].name < s[j].name,
           \A i, j \in 1..Len(s) : i < j => t[i].name < t[j].name,
           \A i \in 1..Len(s) : \E j \in 1..Len(s) : s[i] = t[j],
           \A i \in 1..Len(s) : \E j \in 1..Len(s) : t[i] = s[j]
    PROVE  s = t
<1> DEFINE n == Len(s)
           T == {i \in 1..n : s[i] # t[i]}
<1>1. /\ n \in Nat /\ DOMAIN s = 1..n /\ DOMAIN t = 1..n
      /\ \A i \in 1..n : s[i].name \in Nat /\ t[i].name \in Nat
  BY RulesType
<1> HIDE DEF n
<1>2. ASSUME T # {} PROVE FALSE
  <2>1. T \subseteq Nat
    BY <1>1
  <2>2. PICK k \in T : \A i \in T : k <= i
    <3> HIDE DEF T
    <3> QED BY ONLY <1>2, <2>1, Least
  <2>3. k \in 1..n /\ s[k] # t[k] /\ \A i \in 1..n : i < k => s[i] = t[i]
    BY <1>1, <2>2
  <2>4. PICK j \in 1..n : s[k] = t[j]
    BY <2>3 DEF n
  <2>5. PICK l \in 1..n : t[k] = s[l]
    BY <2>3 DEF n
  <2>6. j # k /\ l # k
    BY <2>3, <2>4, <2>5
  <2>7. ASSUME j < k PROVE FALSE
    <3>1. s[j].name < s[k].name
      BY <2>3, <2>7 DEF n
    <3>2. s[k] = s[j]
      BY <2>3, <2>4, <2>7
    <3>3. s[k].name = s[j].name /\ s[j].name \in Nat
      BY <1>1, <3>2
    <3> QED BY ONLY <3>1, <3>3
  <2>8. ASSUME l < k PROVE FALSE
    <3>1. t[l].name < t[k].name
      BY <2>3, <2>8 DEF n
    <3>2. t[k] = t[l]
      BY <2>3, <2>5, <2>8
    <3>3. t[k].name = t[l].name /\ t[l].name \in Nat
      BY <1>1, <3>2
    <3> QED BY ONLY <3>1, <3>3
  <2>9. k < j /\ k < l
    BY <1>1, <2>3, <2>6, <2>7, <2>8
  <2>10. t[k].name < t[j].name /\ s[k].name < s[l].name
    BY <2>3, <2>9 DEF n
  <2>11. /\ t[k].name \in Nat /\ s[k].name \in Nat
         /\ t[j].name = s[k].name /\ s[l].name = t[k].name
    BY <1>1, <2>3, <2>4, <2>5
  <2> QED BY ONLY <2>10, <2>11
<1>3. \A i \in 1..n : s[i] = t[i]
  BY <1>2
<1> QED BY <1>1, <1>3

\* The file does not depend on the order in which the tools were named.
LEMMA EmitInAnyOrder ==
    ASSUME NEW a \in Seq(Names), NoneTwice(a), NEW b \in Seq(Names),
           ToSet(a) = ToSet(b), Len(a) = Len(b)
    PROVE  Emit(a) = Emit(b)
<1> DEFINE n == Len(a)
           S == ToSet(a)
<1>1. n \in Nat /\ DOMAIN a = 1..n /\ DOMAIN b = 1..n
  OBVIOUS
<1>2. /\ \A i \in 1..n : a[i] \in S /\ b[i] \in S
      /\ \A x \in S : (\E i \in 1..n : x = a[i]) /\ (\E i \in 1..n : x = b[i])
  BY <1>1 DEF ToSet
<1> HIDE DEF n, S
<1>3. IsFiniteSet(1..n)
  BY <1>1, Interval
<1>4. a \in [1..n -> S] /\ b \in [1..n -> S]
  BY <1>1, <1>2 DEF n
<1>5. a \in Surjection(1..n, S) /\ b \in Surjection(1..n, S)
  BY <1>2, <1>4 DEF Surjection
<1>6. a \in Injection(1..n, S)
  BY <1>1, <1>4 DEF Injection, IsInjective, NoneTwice, n
<1>7. Cardinality(S) = Cardinality(1..n)
  BY ONLY <1>3, <1>5, <1>6, FS_Surjection
<1>8. b \in Injection(1..n, S)
  BY ONLY <1>3, <1>5, <1>7, FS_Surjection
<1>9. NoneTwice(b)
  BY <1>1, <1>8 DEF Injection, IsInjective, NoneTwice, n
<1> DEFINE r == Allowing(a)
           q == Allowing(b)
           s == SortByName(r)
           t == SortByName(q)
<1>10. /\ r \in Seq(RuleSet) /\ NoNameTwice(r) /\ Len(r) = n
       /\ \A i \in 1..n : r[i] = Rule(a[i], "allow", "allow")
  BY AllowingMeans DEF n
<1>11. /\ q \in Seq(RuleSet) /\ NoNameTwice(q) /\ Len(q) = n
       /\ \A i \in 1..n : q[i] = Rule(b[i], "allow", "allow")
  BY <1>9, AllowingMeans DEF n
<1>12. IsSorting(s, r) /\ IsSorting(t, q)
  BY <1>10, <1>11, SortMeans
<1>13. Emit(a) = Document(s) /\ Emit(b) = Document(t)
  BY <1>9, EmitMeans
<1> HIDE DEF r, q, s, t
<1>14. \A i \in 1..n : (\E j \in 1..n : r[i] = q[j]) /\ (\E j \in 1..n : q[i] = r[j])
  <2>1. \A i \in 1..n : (\E j \in 1..n : a[i] = b[j]) /\ (\E j \in 1..n : b[i] = a[j])
    BY <1>2
  <2>2. ASSUME NEW i \in 1..n PROVE \E j \in 1..n : r[i] = q[j]
    <3>1. PICK j \in 1..n : a[i] = b[j]
      BY <2>1
    <3>2. r[i] = q[j]
      BY <1>10, <1>11, <3>1
    <3> QED BY <3>2
  <2>3. ASSUME NEW i \in 1..n PROVE \E j \in 1..n : q[i] = r[j]
    <3>1. PICK j \in 1..n : b[i] = a[j]
      BY <2>1
    <3>2. q[i] = r[j]
      BY <1>10, <1>11, <3>1
    <3> QED BY <3>2
  <2> QED BY <2>2, <2>3
<1>15. /\ s \in Seq(RuleSet) /\ Len(s) = n
       /\ \A i, j \in 1..n : i < j => s[i].name < s[j].name
       /\ \A i \in 1..n : \E k \in 1..n : s[k] = r[i]
       /\ \A k \in 1..n : \E i \in 1..n : s[k] = r[i]
  BY <1>10, <1>12 DEF IsSorting
<1>16. /\ t \in Seq(RuleSet) /\ Len(t) = n
       /\ \A i, j \in 1..n : i < j => t[i].name < t[j].name
       /\ \A i \in 1..n : \E k \in 1..n : t[k] = q[i]
       /\ \A k \in 1..n : \E i \in 1..n : t[k] = q[i]
  BY <1>11, <1>12 DEF IsSorting
<1>17. ASSUME NEW i \in 1..n
       PROVE  (\E j \in 1..n : s[i] = t[j]) /\ (\E j \in 1..n : t[i] = s[j])
  <2>1. PICK k \in 1..n : s[i] = r[k]
    BY <1>15
  <2>2. PICK l \in 1..n : r[k] = q[l]
    BY <1>14
  <2>3. \E j \in 1..n : t[j] = q[l]
    BY <1>16
  <2>4. PICK x \in 1..n : t[i] = q[x]
    BY <1>16
  <2>5. PICK y \in 1..n : q[x] = r[y]
    BY <1>14
  <2>6. \E j \in 1..n : s[j] = r[y]
    BY <1>15
  <2> QED BY <2>1, <2>2, <2>3, <2>4, <2>5, <2>6
<1>18. s = t
  BY <1>15, <1>16, <1>17, OneSorting
<1> QED BY <1>13, <1>18

------------------------------------------------------------------------------
(* Theorems                                                                *)

\* The document without members is a document, and no policy.
LEMMA EmptyMeans == IsDocument(Empty) /\ ~WellFormed(Empty)
<1>1. /\ Empty.defect = "none" /\ Empty.members = << >> /\ IsSequence(<< >>)
      /\ DOMAIN << >> = {}
  BY DEF Empty, IsSequence
<1>2. IsDocument(Empty)
  BY <1>1 DEF IsDocument, Defects
<1>3. Positions(Empty.members, "version") = {}
  BY <1>1 DEF Positions
<1>4. Cardinality(Positions(Empty.members, "version")) # 1
  BY <1>3, FS_EmptySet
<1> QED BY <1>2, <1>4 DEF WellFormed, HasAll

\* Without a file everything is allowed.
LEMMA NoPolicyMeans ==
    /\ IsPolicy(NoPolicy) /\ NoNameTwice(NoPolicy.rules)
    /\ \A name : Gives(NoPolicy, name, Defaults("allow", "allow"))
<1>1. /\ NoPolicy.defaults = Defaults("allow", "allow") /\ NoPolicy.rules = << >>
      /\ Defaults("allow", "allow") \in [visible : Access, callable : Access]
      /\ << >> \in Seq(RuleSet) /\ Len(<< >>) = 0
  BY DEF NoPolicy, Defaults, Access
<1>2. IsPolicy(NoPolicy)
  BY <1>1 DEF IsPolicy, NoPolicy
<1> QED BY <1>1, <1>2 DEF NoNameTwice, Gives

\* The invariant holds at first.
LEMMA PolicyInit == ASSUME Init PROVE PolicyInv
<1>1. created = "no" /\ definition = NoPolicy /\ denied = << >>
  BY DEF Init
<1>2. IsPolicy(table) /\ NoNameTwice(table.rules)
  <2>1. table = [defaults |-> Defaults("deny", "deny"), rules |-> << >>]
    BY DEF Init
  <2>2. Defaults("deny", "deny") \in [visible : Access, callable : Access]
        /\ << >> \in Seq(RuleSet) /\ Len(<< >>) = 0
    BY DEF Defaults, Access
  <2>3. table.rules = << >>
    BY <2>1
  <2> QED BY <2>1, <2>2, <2>3 DEF IsPolicy, NoNameTwice
<1>3. \/ pc = "create" /\ allowed \in AllowLists /\ file = OldFile
      \/ pc = "run" /\ file \in Files
      \/ pc = "deny" /\ file = Empty
  BY DEF Init
<1>4. TypesInv
  <2>1. IsDocument(file)
    BY <1>3, DocumentsAssumption, EmptyMeans
  <2>2. denied \in Seq(Names)
    BY <1>1
  <2> QED BY <1>1, <1>2, <1>3, <2>1, <2>2, NoPolicyMeans DEF TypesInv, Stages
<1>5. FileInv
  BY <1>1, <1>3 DEF FileInv, Loaded, Unread
<1>6. SaysInv
  <2>1. ASSUME pc = "deny", NEW name \in Names
        PROVE  Gives(definition, name, Said(file, denied, name))
    <3>1. ~Contains(denied, name)
      BY <1>1 DEF Contains
    <3>2. Said(file, denied, name) = Defaults("allow", "allow")
      BY <1>3, <2>1, <3>1 DEF Said
    <3> QED BY <1>1, <3>2, NoPolicyMeans
  <2> QED BY <1>3, <2>1 DEF SaysInv
<1>7. CreateInv
  BY <1>1, <1>3, PolicyAssumption DEF CreateInv, Unread
<1> QED BY <1>4, <1>5, <1>6, <1>7 DEF PolicyInv

\* Creating a policy keeps the invariant.
LEMMA CreateKeeps == ASSUME PolicyInv, Create PROVE PolicyInv'
<1>1. /\ pc = "create" /\ pc' = "run" /\ definition' = definition /\ denied' = denied
      /\ table' = table /\ allowed' = allowed /\ inventory' = inventory
      /\ created = "no" /\ allowed \in Seq(Names) /\ file = OldFile
      /\ definition = NoPolicy /\ denied = << >>
  BY DEF Create, PolicyInv, CreateInv, FileInv, Unread
<1>2. \/ /\ ~Refused(ParseInventory(inventory).names, allowed)
         /\ created' = "yes" /\ file' = Emit(allowed)
      \/ created' = "failed" /\ file' = file
  BY DEF Create
<1>3. ASSUME ~Refused(ParseInventory(inventory).names, allowed)
      PROVE  /\ NoneTwice(allowed) /\ IsDocument(Emit(allowed))
             /\ \A i \in DOMAIN allowed : Contains(ParseInventory(inventory).names, allowed[i])
  <2>1. /\ \A i, j \in DOMAIN allowed : i < j => allowed[i] # allowed[j]
        /\ \A i \in DOMAIN allowed : Contains(ParseInventory(inventory).names, allowed[i])
    BY <1>3 DEF Refused
  <2>2. NoneTwice(allowed)
    BY <1>1, <2>1 DEF NoneTwice
  <2> QED BY <1>1, <2>1, <2>2, EmitMeans
<1>4. TypesInv'
  BY <1>1, <1>2, <1>3 DEF PolicyInv, TypesInv, Stages
<1>5. FileInv'
  BY <1>1 DEF FileInv, Loaded, Unread
<1>6. SaysInv'
  BY <1>1 DEF SaysInv
<1>7. CreateInv'
  BY <1>1, <1>2, <1>3 DEF CreateInv, Unread
<1> QED BY <1>4, <1>5, <1>6, <1>7 DEF PolicyInv

\* Loading the file keeps the invariant.
LEMMA LoadKeeps == ASSUME PolicyInv, Load PROVE PolicyInv'
<1>1. /\ pc = "run" /\ denied' = denied /\ table' = table /\ allowed' = allowed
      /\ inventory' = inventory /\ created' = created /\ file' = file
      /\ definition = NoPolicy /\ denied = << >> /\ IsDocument(file)
  BY DEF Load, PolicyInv, FileInv, TypesInv, Unread
<1>2. IF Parse(file).error = "none"
      THEN definition' = Parse(file).definition /\ pc' = "deny"
      ELSE definition' = definition /\ pc' = "failed"
  BY DEF Load
<1>3. Parse(file).error = "none" <=> WellFormed(file)
  BY <1>1, ParseAccepts
<1>4. ASSUME Parse(file).error = "none"
      PROVE  /\ IsPolicy(definition') /\ NoNameTwice(definition'.rules)
             /\ \A name \in Names : Gives(definition', name, FileSays(file, name))
  BY <1>1, <1>2, <1>4, AcceptedSays
<1>5. TypesInv'
  BY <1>1, <1>2, <1>4, NoPolicyMeans DEF PolicyInv, TypesInv, Stages
<1>6. FileInv'
  BY <1>1, <1>2, <1>3 DEF FileInv, Loaded, Unread
<1>7. SaysInv'
  <2>1. ASSUME pc' = "deny", NEW name \in Names
        PROVE  Gives(definition', name, Said(file, denied, name))
    <3>1. Parse(file).error = "none"
      BY <1>2, <2>1
    <3>2. file # Empty
      BY <1>3, <3>1, EmptyMeans
    <3>3. ~Contains(denied, name)
      BY <1>1 DEF Contains
    <3>4. Said(file, denied, name) = FileSays(file, name)
      BY <3>2, <3>3 DEF Said
    <3> QED BY <1>4, <3>1, <3>4
  <2>2. pc' \in {"deny", "failed"}
    BY <1>2
  <2> QED BY <1>1, <2>1, <2>2 DEF SaysInv
<1>8. CreateInv'
  BY <1>1, <1>2 DEF PolicyInv, CreateInv, Unread
<1> QED BY <1>5, <1>6, <1>7, <1>8 DEF PolicyInv

\* Denying a tool keeps the invariant.
LEMMA DenyKeeps == ASSUME PolicyInv, NEW name \in Names, Deny(name) PROVE PolicyInv'
<1>1. /\ pc = "deny" /\ pc' = pc /\ table' = table /\ allowed' = allowed
      /\ inventory' = inventory /\ created' = created /\ file' = file
      /\ denied' = Append(denied, name) /\ definition' = ApplyDeny(name, definition)
  BY DEF Deny
<1>2. /\ IsPolicy(definition) /\ NoNameTwice(definition.rules) /\ denied \in Seq(Names)
      /\ \A other \in Names : Gives(definition, other, Said(file, denied, other))
  BY <1>1 DEF PolicyInv, TypesInv, SaysInv
<1>3. /\ IsPolicy(definition') /\ NoNameTwice(definition'.rules)
      /\ Gives(definition', name, Defaults("deny", "deny"))
      /\ \A other, access :
           other # name /\ Gives(definition, other, access) => Gives(definition', other, access)
  BY <1>1, <1>2, DenyMeans
<1>4. TypesInv'
  BY <1>1, <1>2, <1>3 DEF PolicyInv, TypesInv, Stages
<1>5. FileInv'
  BY <1>1 DEF PolicyInv, FileInv, Loaded, Unread
<1>6. ASSUME NEW other PROVE Contains(denied', other) <=> Contains(denied, other) \/ other = name
  <2>1. /\ Len(denied') = Len(denied) + 1 /\ denied'[Len(denied) + 1] = name
        /\ \A i \in 1..Len(denied) : denied'[i] = denied[i]
        /\ Len(denied) \in Nat
    BY <1>1, <1>2
  <2>2. /\ \A i \in 1..(Len(denied) + 1) : i \in 1..Len(denied) \/ i = Len(denied) + 1
        /\ \A i \in 1..Len(denied) : i \in 1..(Len(denied) + 1)
        /\ Len(denied) + 1 \in 1..(Len(denied) + 1)
    BY <2>1
  <2> QED BY <2>1, <2>2 DEF Contains
<1>7. SaysInv'
  <2>1. ASSUME NEW other \in Names
        PROVE  Gives(definition', other, Said(file, denied', other))
    <3>1. CASE other = name
      <4>1. Said(file, denied', other) = Defaults("deny", "deny")
        BY <1>6, <3>1 DEF Said
      <4> QED BY <1>3, <3>1, <4>1
    <3>2. CASE other # name
      <4>1. Said(file, denied', other) = Said(file, denied, other)
        BY <1>6, <3>2 DEF Said
      <4> QED BY <1>2, <1>3, <3>2, <4>1
    <3> QED BY <3>1, <3>2
  <2> QED BY <1>1, <2>1 DEF SaysInv
<1>8. CreateInv'
  BY <1>1 DEF PolicyInv, CreateInv, Unread
<1> QED BY <1>4, <1>5, <1>7, <1>8 DEF PolicyInv

\* Building the table keeps the invariant; it cannot fail.
LEMMA BuildTableKeeps == ASSUME PolicyInv, BuildTable PROVE PolicyInv'
<1> DEFINE b == Build(definition.rules, definition.defaults)
<1>1. /\ pc = "deny" /\ denied' = denied /\ definition' = definition /\ allowed' = allowed
      /\ inventory' = inventory /\ created' = created /\ file' = file
      /\ IsPolicy(definition) /\ NoNameTwice(definition.rules)
      /\ \A name \in Names : Gives(definition, name, Said(file, denied, name))
  BY DEF BuildTable, PolicyInv, TypesInv, SaysInv
<1>2. IF b.error = "none" THEN table' = b.table /\ pc' = "ready"
      ELSE table' = table /\ pc' = "failed"
  BY DEF BuildTable
<1>3. /\ b.error = "none" /\ IsPolicy(b.table) /\ NoNameTwice(b.table.rules)
      /\ \A i, j \in 1..Len(b.table.rules) :
           i < j => b.table.rules[i].name < b.table.rules[j].name
      /\ \A name, access : Gives(definition, name, access) => Gives(b.table, name, access)
  BY <1>1, BuildMeans
<1> HIDE DEF b
<1>4. table' = b.table /\ pc' = "ready"
  BY <1>2, <1>3
<1>5. TypesInv'
  BY <1>1, <1>3, <1>4 DEF PolicyInv, TypesInv, Stages
<1>6. FileInv'
  BY <1>1, <1>4 DEF PolicyInv, FileInv, Loaded, Unread
<1>7. SaysInv'
  <2>1. \A name \in Names : Gives(b.table, name, Said(file, denied, name))
    BY <1>1, <1>3
  <2> QED BY <1>1, <1>3, <1>4, <2>1 DEF SaysInv
<1>8. CreateInv'
  BY <1>1, <1>4 DEF PolicyInv, CreateInv, Unread
<1> QED BY <1>5, <1>6, <1>7, <1>8 DEF PolicyInv

\* Every step keeps the invariant.
LEMMA PolicyNext == ASSUME PolicyInv, [Next]_vars PROVE PolicyInv'
<1>1. CASE Create
  BY <1>1, CreateKeeps
<1>2. CASE Load
  BY <1>2, LoadKeeps
<1>3. CASE \E name \in Names : Deny(name)
  BY <1>3, DenyKeeps
<1>4. CASE BuildTable
  BY <1>4, BuildTableKeeps
<1>5. CASE UNCHANGED vars
  BY <1>5 DEF vars, PolicyInv, TypesInv, FileInv, Loaded, SaysInv, CreateInv
<1> QED BY <1>1, <1>2, <1>3, <1>4, <1>5 DEF Next

\* The definition and the table always answer what the file and the command
\* line say (PolicyLoader::parse, apply_deny_overrides, PolicyTable::build).
THEOREM PolicyHolds == Spec => []PolicyInv
<1>1. Init => PolicyInv
  BY PolicyInit
<1>2. PolicyInv /\ [Next]_vars => PolicyInv'
  BY PolicyNext
<1> QED BY <1>1, <1>2, PTL DEF Spec

\* With the invariant the types are right: one rule per name is as many as there
\* are names at most.
LEMMA InvIsTyped == ASSUME PolicyInv PROVE TypeOK
<1>1. ASSUME NEW d, IsPolicy(d), NoNameTwice(d.rules)
      PROVE  /\ d.defaults \in [visible : Access, callable : Access]
             /\ \A i \in DOMAIN d.rules : d.rules[i] \in RuleSet
             /\ Len(d.rules) <= Cardinality(Names)
  <2>1. d.rules \in Seq(RuleSet) /\ d.defaults \in [visible : Access, callable : Access]
    BY <1>1 DEF IsPolicy
  <2>2. Len(d.rules) <= Cardinality(Names)
    BY <1>1, <2>1, NoMoreThanNames
  <2>3. \A i \in DOMAIN d.rules : d.rules[i] \in RuleSet
    BY <2>1, RulesType
  <2> QED BY <2>1, <2>2, <2>3
<1>2. /\ IsPolicy(definition) /\ NoNameTwice(definition.rules)
      /\ IsPolicy(table) /\ NoNameTwice(table.rules)
      /\ pc \in Stages /\ created \in {"no", "yes", "failed"}
  BY DEF PolicyInv, TypesInv
<1>3. \A i \in DOMAIN denied : denied[i] \in Names
  BY DEF PolicyInv, TypesInv
<1> QED BY <1>1, <1>2, <1>3 DEF TypeOK

\* Every variable has its type, and neither the definition nor the table ever
\* has more rules than there are names (PolicyDefinition, PolicyTable).
THEOREM PolicyTypes == Spec => []TypeOK
<1>1. PolicyInv => TypeOK
  BY InvIsTyped
<1> QED BY <1>1, PolicyHolds, PTL

\* A policy file is used if and only if it is well formed, a refused one leaves
\* nothing behind, and after it nothing fails (PolicyLoader::parse and
\* load_file, PolicyTable::build).
THEOREM UsedIfWellFormed == Spec => []WellFormedOrNothing
<1>1. PolicyInv => WellFormedOrNothing
  BY DEF PolicyInv, FileInv, WellFormedOrNothing
<1> QED BY <1>1, PolicyHolds, PTL

\* What the search of the table finds is what must be answered.
LEMMA FoundIsSaid ==
    ASSUME PolicyInv, pc = "ready", NEW name \in Names
    PROVE  AccessOf(name, table) = Said(file, denied, name)
<1>1. /\ Gives(table, name, Said(file, denied, name))
      /\ \A i, j \in 1..Len(table.rules) : i < j => table.rules[i].name < table.rules[j].name
      /\ table.rules \in Seq(RuleSet)
  BY DEF PolicyInv, SaysInv, TypesInv, IsPolicy
<1>2. name \in Nat
  BY PolicyAssumption
<1>3. Gives(table, name, AccessOf(name, table))
  BY <1>1, <1>2, AccessOfMeans
<1> QED BY <1>1, <1>3, OneAnswer

\* With the invariant the table answers as it must, and is in order.
LEMMA InvObeys == ASSUME PolicyInv PROVE RunObeysFile
<1>1. ASSUME PolicyInv, pc = "ready" PROVE RunObeysFile
  <2>1. ASSUME NEW name \in Names
        PROVE  AccessOf(name, table) =
                  IF Contains(denied, name) THEN Defaults("deny", "deny")
                  ELSE IF file = Empty THEN Defaults("allow", "allow")
                  ELSE IF \E e \in Entries(file) : Value(e, "name") = name
                  THEN AccessIn(CHOOSE e \in Entries(file) : Value(e, "name") = name)
                  ELSE AccessIn(file.members[CHOOSE i \in Positions(file.members, "defaults") :
                                               TRUE].object)
    BY <1>1, FoundIsSaid, Zenon DEF Said, FileSays
  <2>2. \A i, j \in DOMAIN table.rules : i < j => table.rules[i].name < table.rules[j].name
    <3>1. table.rules \in Seq(RuleSet)
      BY <1>1 DEF PolicyInv, TypesInv, IsPolicy
    <3>2. DOMAIN table.rules = 1..Len(table.rules)
      BY <3>1
    <3> QED BY <1>1, <3>2 DEF PolicyInv, SaysInv
  <2> QED BY <2>1, <2>2, Zenon DEF RunObeysFile
<1>2. ASSUME pc # "ready" PROVE RunObeysFile
  BY <1>2 DEF RunObeysFile
<1> QED BY <1>1, <1>2

\* The table answers for each tool what the file and the command line say of it,
\* and is in strict order (PolicyTable::find, visibility_for, invocation_for).
THEOREM RunObeys == Spec => []RunObeysFile
<1>1. PolicyInv => RunObeysFile
  BY InvObeys
<1> QED BY <1>1, PolicyHolds, PTL

\* With the invariant a policy that was created is what was asked for.
LEMMA InvIsExact == ASSUME PolicyInv PROVE CreatedPolicyIsExact
<1>1. ASSUME PolicyInv, created = "yes"
      PROVE  /\ pc # "failed"
             /\ \A i \in DOMAIN allowed : Contains(ParseInventory(inventory).names, allowed[i])
             /\ \A other \in AllowLists :
                  ToSet(other) = ToSet(allowed) /\ Len(other) = Len(allowed) => file = Emit(other)
             /\ pc = "ready" => \A name \in Names :
                  AccessOf(name, table) =
                      IF Contains(allowed, name) /\ ~Contains(denied, name)
                      THEN Defaults("allow", "allow") ELSE Defaults("deny", "deny")
  <2>1. /\ allowed \in Seq(Names) /\ NoneTwice(allowed) /\ file = Emit(allowed)
        /\ \A i \in DOMAIN allowed : Contains(ParseInventory(inventory).names, allowed[i])
    BY <1>1 DEF PolicyInv, CreateInv
  <2>2. /\ WellFormed(file) /\ file # Empty
        /\ \A name \in Names :
             FileSays(file, name) = IF Contains(allowed, name) THEN Defaults("allow", "allow")
                                    ELSE Defaults("deny", "deny")
    BY <2>1, EmitMeans
  <2>3. pc # "failed"
    BY <1>1, <2>2 DEF PolicyInv, FileInv
  <2>4. ASSUME NEW other \in AllowLists, ToSet(other) = ToSet(allowed),
               Len(other) = Len(allowed)
        PROVE  file = Emit(other)
    <3>1. other \in Seq(Names)
      BY PolicyAssumption
    <3> QED BY <2>1, <2>4, <3>1, EmitInAnyOrder
  <2>5. ASSUME pc = "ready", NEW name \in Names
        PROVE  AccessOf(name, table) =
                      IF Contains(allowed, name) /\ ~Contains(denied, name)
                      THEN Defaults("allow", "allow") ELSE Defaults("deny", "deny")
    <3>1. AccessOf(name, table) = Said(file, denied, name)
      BY <1>1, <2>5, FoundIsSaid
    <3>2. Said(file, denied, name) =
            IF Contains(denied, name) THEN Defaults("deny", "deny") ELSE FileSays(file, name)
      BY <2>2 DEF Said
    <3> QED BY <2>2, <3>1, <3>2
  <2> QED BY <2>1, <2>3, <2>4, <2>5
<1>2. created = "failed" => file = OldFile
  BY DEF PolicyInv, CreateInv
<1>3. CASE created = "yes"
  BY <1>1, <1>3, Zenon DEF CreatedPolicyIsExact
<1>4. CASE created # "yes"
  BY <1>2, <1>4 DEF CreatedPolicyIsExact
<1> QED BY <1>3, <1>4

\* A policy that was created is accepted, allows the tools it was asked to and
\* no other, and is the same for every order of the options
\* (generate_policy_from_inventory, run_policy_create).
THEOREM CreatedIsExact == Spec => []CreatedPolicyIsExact
<1>1. PolicyInv => CreatedPolicyIsExact
  BY InvIsExact
<1> QED BY <1>1, PolicyHolds, PTL
==============================================================================
