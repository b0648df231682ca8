---------------------------- MODULE DiscoveryProofs ----------------------------
(***************************************************************************)
(* Proofs about Discovery, for any messages, tables and limits.  The       *)
(* policy keeps its invariant (PolicyProofs), since inspect, the reading   *)
(* of calls and of lists change nothing it is about.  A message that is    *)
(* sent on says one thing to every reader: a loop that has taken all its   *)
(* members has found no key that is spelled with an escape and no known    *)
(* one twice, so that there is one reading of each.  And an inventory is   *)
(* the tools of the answer: what is inside a value lies in layers, below   *)
(* the last of which there is nothing, and from the innermost outwards     *)
(* the canonical form says what the value says, in order and no deeper;    *)
(* the sort only permutes, and the loops of policy create find every name. *)
(***************************************************************************)
EXTENDS Discovery, PolicyProofs

------------------------------------------------------------------------------
(* The policy                                                              *)

\* The tables that messages are read against are policies.
LEMMA TablesMean ==
    ASSUME NEW t \in Tables PROVE IsPolicy(t) /\ NoNameTwice(t.rules)
<1>1. /\ t \in [defaults : [visible : Access, callable : Access], rules : Seq(RuleSet)]
      /\ \A i, j \in DOMAIN t.rules : i < j => t.rules[i].name < t.rules[j].name
  BY ONLY TablesAssumption, t \in Tables
<1>a. IsPolicy(t) /\ t.rules \in Seq(RuleSet)
  BY ONLY <1>1 DEF IsPolicy
<1>2. /\ Len(t.rules) \in Nat /\ DOMAIN t.rules = 1..Len(t.rules)
      /\ \A i \in 1..Len(t.rules) : t.rules[i].name \in Nat
  BY ONLY <1>a, RulesType
<1>3. \A i, j \in 1..Len(t.rules) : i = j \/ i < j \/ j < i
  BY <1>2
<1>4. NoNameTwice(t.rules)
  BY ONLY <1>1, <1>2, <1>3 DEF NoNameTwice
<1> QED BY ONLY <1>a, <1>4

\* The policy's invariant holds at first, wherever the run begins.
LEMMA BeginPolicy == ASSUME Begin PROVE PolicyInv
<1>1. CASE Init
  BY <1>1, PolicyInit
<1>2. ASSUME ~Init
      PROVE  /\ created = "no" /\ definition = NoPolicy /\ denied = << >>
             /\ \/ /\ pc = "initialize" /\ file = OldFile
                   /\ table = [defaults |-> Defaults("deny", "deny"), rules |-> << >>]
                \/ pc \in {"call", "list"} /\ file = Empty /\ table \in Tables
  BY <1>2 DEF Begin
<1>3. ASSUME ~Init PROVE PolicyInv
  <2>1. IsPolicy(table) /\ NoNameTwice(table.rules)
    <3>1. CASE table = [defaults |-> Defaults("deny", "deny"), rules |-> << >>]
      <4>1. /\ table.rules = << >> /\ Defaults("deny", "deny") \in [visible : Access, callable : Access]
            /\ << >> \in Seq(RuleSet) /\ Len(<< >>) = 0
        BY <3>1 DEF Defaults, Access
      <4> QED BY <3>1, <4>1 DEF IsPolicy, NoNameTwice
    <3>2. CASE table \in Tables
      BY <3>2, TablesMean
    <3> QED BY <1>2, <1>3, <3>1, <3>2
  <2>2. IsDocument(file) /\ (pc = "initialize" => file = OldFile)
    BY <1>2, <1>3, DocumentsAssumption, EmptyMeans
  <2>3. denied \in Seq(Names) /\ pc \in {"initialize", "call", "list"}
    BY <1>2, <1>3
  <2>4. TypesInv
    BY <1>2, <1>3, <2>1, <2>2, <2>3, NoPolicyMeans DEF TypesInv, Stages
  <2>5. FileInv /\ SaysInv /\ CreateInv
    BY <1>2, <1>3, <2>2, <2>3 DEF FileInv, SaysInv, CreateInv, Loaded, Unread
  <2> QED BY <2>4, <2>5 DEF PolicyInv
<1> QED BY <1>1, <1>3

\* inspect leaves the policy alone, and what it publishes comes before there is one.
LEMMA InspectKeepsPolicy ==
    ASSUME PolicyInv, Initialize \/ Collect PROVE PolicyInv'
<1>1. /\ created' = created /\ file' = file /\ definition' = definition
      /\ denied' = denied /\ table' = table
  BY DEF Initialize, Collect
<1>2. /\ pc \in {"initialize", "answer"} /\ pc' \in {"answer", "create", "refused"}
      /\ pc' = "create" => allowed' \in AllowLists
  BY DEF Initialize, Collect
<1>3. TypesInv'
  BY <1>1, <1>2 DEF PolicyInv, TypesInv, Stages
<1>4. FileInv' /\ SaysInv'
  BY <1>1, <1>2 DEF PolicyInv, FileInv, SaysInv, Loaded, Unread
<1>5. CreateInv'
  BY <1>1, <1>2, PolicyAssumption DEF PolicyInv, CreateInv, Unread
<1> QED BY <1>3, <1>4, <1>5 DEF PolicyInv

\* Reading a call or a list leaves the policy alone.
LEMMA ReadingKeepsPolicy ==
    ASSUME PolicyInv, ReadCall \/ ReadAnswer PROVE PolicyInv'
<1>1. /\ created' = created /\ file' = file /\ definition' = definition
      /\ denied' = denied /\ table' = table /\ allowed' = allowed /\ inventory' = inventory
  BY DEF ReadCall, ReadAnswer
<1>2. pc \in {"call", "list"} /\ pc' \in {"called", "listed"}
  BY DEF ReadCall, ReadAnswer
<1>3. TypesInv'
  BY <1>1, <1>2 DEF PolicyInv, TypesInv, Stages
<1>4. FileInv' /\ SaysInv'
  BY <1>1, <1>2 DEF PolicyInv, FileInv, SaysInv, Loaded, Unread
<1>5. CreateInv'
  BY <1>1, <1>2 DEF PolicyInv, CreateInv, Unread
<1> QED BY <1>3, <1>4, <1>5 DEF PolicyInv

\* The policy's invariant holds on the whole way from the server's answers to
\* the table of run (policy_create.cpp, policy_loader.cpp, policy.cpp).
THEOREM DiscoveryKeepsPolicy == DiscoverySpec => []PolicyInv
<1>1. DiscoveryInit => PolicyInv
  BY BeginPolicy DEF DiscoveryInit
<1>2. ASSUME PolicyInv, [DiscoveryNext]_allVars PROVE PolicyInv'
  <2>1. CASE Initialize \/ Collect
    BY <1>2, <2>1, InspectKeepsPolicy
  <2>2. CASE ReadCall \/ ReadAnswer
    BY <1>2, <2>2, ReadingKeepsPolicy
  <2>3. CASE Next
    BY <1>2, <2>3, PolicyNext
  <2>4. CASE UNCHANGED allVars
    BY <1>2, <2>4, PolicyNext DEF allVars, vars
  <2> QED BY <1>2, <2>1, <2>2, <2>3, <2>4 DEF DiscoveryNext
<1>3. PolicyInv /\ [DiscoveryNext]_allVars => PolicyInv'
  BY <1>2
<1> QED BY <1>1, <1>3, PTL DEF DiscoverySpec

\* Every variable of the policy has its type on that way.
THEOREM DiscoveryTypes == DiscoverySpec => []TypeOK
<1>1. PolicyInv => TypeOK
  BY InvIsTyped
<1> QED BY <1>1, DiscoveryKeepsPolicy, PTL

\* On that way, too, a policy file is used if and only if it is well formed.
THEOREM DiscoveryWellFormed == DiscoverySpec => []WellFormedOrNothing
<1>1. PolicyInv => WellFormedOrNothing
  BY DEF PolicyInv, FileInv, WellFormedOrNothing
<1> QED BY <1>1, DiscoveryKeepsPolicy, PTL

\* On that way, too, the table says what the file and the command line say.
THEOREM DiscoveryObeys == DiscoverySpec => []RunObeysFile
<1>1. PolicyInv => RunObeysFile
  BY InvObeys
<1> QED BY <1>1, DiscoveryKeepsPolicy, PTL

\* A policy made of an inventory that inspect published allows exactly the tools
\* it was asked to allow.
THEOREM DiscoveryExact == DiscoverySpec => []CreatedPolicyIsExact
<1>1. PolicyInv => CreatedPolicyIsExact
  BY InvIsExact
<1> QED BY <1>1, DiscoveryKeepsPolicy, PTL

------------------------------------------------------------------------------
(* What every reader agrees on                                             *)

\* No key of these members is spelled with an escape, and no known one is there
\* twice.
Plain(members, known) ==
    /\ \A i \in 1..Len(members) : members[i].key = members[i].means
    /\ \A i, j \in 1..Len(members) :
         members[i].key \in known /\ members[i].key = members[j].key => i = j

\* A loop over members takes some of the first, and refused none of these.
LEMMA TakenMeans ==
    ASSUME NEW members, NEW known, NEW taken, IsSequence(members)
    PROVE  /\ Taken(members, known, taken) \in 0..Len(members)
           /\ \A i \in 1..Taken(members, known, taken) :
                i \in taken /\ ~Ambiguous(members, i, known)
<1> DEFINE n == Len(members)
           t == Taken(members, known, taken)
           refused == {i \in DOMAIN members : Ambiguous(members, i, known) \/ i \notin taken}
<1>1. n \in Nat /\ DOMAIN members = 1..n
  BY SequenceHas
<1>2. /\ refused \subseteq 1..n
      /\ \A i \in 1..n : i \notin refused => i \in taken /\ ~Ambiguous(members, i, known)
  BY <1>1
<1>3. t = IF refused = {} THEN n ELSE Min(refused) - 1
  BY DEF Taken
<1> HIDE DEF n, t, refused
<1>4. refused # {} => Min(refused) \in refused /\ \A i \in refused : Min(refused) <= i
  <2>1. refused \subseteq Nat
    BY ONLY <1>1, <1>2
  <2>2. refused # {} => \E x \in refused : \A y \in refused : x <= y
    BY ONLY <2>1, Least
  <2> QED BY ONLY <2>2 DEF Min
<1>5. t \in 0..n /\ \A i \in 1..t : i \in 1..n /\ i \notin refused
  <2>1. CASE refused = {}
    BY ONLY <1>1, <1>3, <2>1
  <2>2. CASE refused # {}
    <3>1. Min(refused) \in 1..n /\ t = Min(refused) - 1
      BY ONLY <1>2, <1>3, <1>4, <2>2
    <3>2. \A i \in 1..t : i \in 1..n /\ ~(Min(refused) <= i)
      BY ONLY <1>1, <3>1
    <3>3. t \in 0..n
      BY ONLY <1>1, <3>1
    <3> QED BY ONLY <1>4, <2>2, <3>2, <3>3
  <2> QED BY ONLY <2>1, <2>2
<1>6. \A i \in 1..t : i \in taken /\ ~Ambiguous(members, i, known)
  BY ONLY <1>2, <1>5
<1> QED BY <1>5, <1>6 DEF n, t

\* A loop that has taken all members refused none.
LEMMA AllTakenMeans ==
    ASSUME NEW members, NEW known, NEW taken, IsSequence(members),
           Taken(members, known, taken) = Len(members)
    PROVE  Plain(members, known) /\ \A i \in 1..Len(members) : i \in taken
<1> DEFINE n == Len(members)
<1>1. n \in Nat
  BY SequenceHas
<1>2. \A i \in 1..n : ~Ambiguous(members, i, known) /\ i \in taken
  BY TakenMeans
<1>3. \A i \in 1..n : /\ members[i].key = members[i].means
                      /\ members[i].key \in known => \A j \in 1..(i - 1) : members[j].key # members[i].key
  BY <1>2, Zenon DEF Ambiguous
<1>4. ASSUME NEW i \in 1..n, NEW j \in 1..n, members[i].key \in known,
             members[i].key = members[j].key
      PROVE  i = j
  <2>1. i \in 1..(j - 1) \/ j \in 1..(i - 1) \/ i = j
    BY <1>1
  <2> QED BY <1>3, <1>4, <2>1
<1> QED BY <1>2, <1>3, <1>4 DEF Plain

\* The first of the members with a key is its value.
LEMMA TheMeans ==
    ASSUME NEW members, NEW i \in DOMAIN members, IsSequence(members),
           NEW key, members[i].key = key,
           \A j \in DOMAIN members : members[j].key = key => i <= j
    PROVE  The(members, key) = members[i].value
<1> DEFINE First(j) == members[j].key = key /\ \A k \in 1..(j - 1) : members[k].key # key
<1>1. Len(members) \in Nat /\ DOMAIN members = 1..Len(members)
  BY DEF IsSequence
<1>2. First(i)
  BY <1>1
<1>3. ASSUME NEW j \in DOMAIN members, First(j) PROVE j = i
  <2>1. i <= j /\ (i < j => i \in 1..(j - 1))
    BY <1>1, <1>3
  <2> QED BY <1>1, <1>3, <2>1
<1>4. The(members, key) = members[CHOOSE j \in DOMAIN members : First(j)].value
  BY Zenon DEF The
<1> HIDE DEF First
<1>5. (CHOOSE j \in DOMAIN members : First(j)) = i
  BY <1>2, <1>3
<1> QED BY ONLY <1>4, <1>5

\* There is one reading of a known key, and it is the one the loop took.
LEMMA OneReading ==
    ASSUME NEW members, NEW known, IsSequence(members), Plain(members, known),
           NEW key \in known
    PROVE  /\ Has(members, key) => Readings(members, key) = {The(members, key)}
           /\ ~Has(members, key) => Readings(members, key) = {}
           /\ Has(members, key) => \E i \in 1..Len(members) :
                members[i].key = key /\ The(members, key) = members[i].value
<1>1. Len(members) \in Nat /\ DOMAIN members = 1..Len(members)
  BY DEF IsSequence
<1>2. \A i \in DOMAIN members : members[i].means = key <=> members[i].key = key
  BY <1>1 DEF Plain
<1>3. CASE Has(members, key)
  <2>1. PICK i \in DOMAIN members : members[i].key = key
    BY <1>3 DEF Has
  <2>2. \A j \in DOMAIN members : members[j].key = key => j = i
    BY <1>1, <2>1 DEF Plain
  <2>3. The(members, key) = members[i].value
    BY <1>1, <2>1, <2>2, TheMeans
  <2>4. {j \in DOMAIN members : members[j].means = key} = {i}
    BY <1>2, <2>1, <2>2
  <2>5. Readings(members, key) = {members[i].value}
    BY <2>4 DEF Readings
  <2> QED BY <1>1, <1>3, <2>1, <2>3, <2>5
<1>4. CASE ~Has(members, key)
  <2>1. \A j \in DOMAIN members : members[j].means # key
    BY <1>2, <1>4 DEF Has
  <2> QED BY <1>4, <2>1 DEF Readings
<1> QED BY <1>3, <1>4

\* A message the classifier finds nothing wrong with says its method and its id
\* to every reader, and has a result only if it is a response.
LEMMA ClassifyMeans ==
    ASSUME NEW m, IsSequence(m.members), classify(m).kind # "invalid"
    PROVE  /\ Plain(m.members, EnvelopeKeys)
           /\ Has(m.members, "method") => classify(m).method = The(m.members, "method").text
           /\ ~Has(m.members, "method") => classify(m).method = "none"
           /\ Has(m.members, "id") => classify(m).id = The(m.members, "id").text
           /\ classify(m).kind = "response" =>
                ~Has(m.members, "method") /\ (Has(m.members, "result") <=> ~Has(m.members, "error"))
           /\ classify(m).kind # "response" => ~Has(m.members, "result")
<1> DEFINE s == m.members
           taken == {i \in DOMAIN s : EnvelopeTakes(s[i])}
           n == Taken(s, EnvelopeKeys, taken)
           known == IF m.defect = "too_large" THEN << >> ELSE SubSeq(s, 1, n)
<1>1. Len(s) \in Nat /\ DOMAIN s = 1..Len(s) /\ s \in Seq(ToSet(s))
  BY SequenceHas DEF IsSequence
<1>2. Len(known) = Len(s) /\ Has(known, "jsonrpc")
  BY DEF classify
<1>3. n \in 0..Len(s)
  BY TakenMeans
<1>4. known = SubSeq(s, 1, n)
  <2>1. << >> \in Seq({}) /\ DOMAIN << >> = {}
    OBVIOUS
  <2> QED BY <1>2, <2>1 DEF Has
<1>5. n = Len(s) /\ SubSeq(s, 1, Len(s)) = s
  <2> HIDE DEF n, known
  <2>1. \A i \in 1..n : s[i] \in ToSet(s)
    BY ONLY <1>1, <1>3
  <2>2. Len(SubSeq(s, 1, n)) = n
    BY ONLY <1>3, <2>1, SubSeqProperties
  <2>3. SubSeq(s, 1, Len(s)) = s
    BY ONLY <1>1, SubSeqFull
  <2> QED BY ONLY <1>2, <1>4, <2>2, <2>3
<1>6. known = s
  BY ONLY <1>4, <1>5
<1>7. Plain(s, EnvelopeKeys)
  BY <1>5, AllTakenMeans
<1>8. /\ Has(s, "method") => classify(m).method = The(s, "method").text
      /\ ~Has(s, "method") => classify(m).method = "none"
      /\ Has(s, "id") => classify(m).id = The(s, "id").text
  <2>1. classify(m).id = IF Has(known, "id") THEN The(known, "id").text ELSE "none"
    BY DEF classify
  <2>2. classify(m).method = IF Has(known, "method") THEN The(known, "method").text ELSE "none"
    BY DEF classify
  <2> HIDE DEF known
  <2> QED BY ONLY <1>6, <2>1, <2>2
<1>9. /\ classify(m).kind = "response" =>
           ~Has(s, "method") /\ (Has(s, "result") <=> ~Has(s, "error"))
      /\ classify(m).kind # "response" => ~Has(s, "result")
  <2>1. classify(m).kind = "response" =>
          ~Has(known, "method") /\ Has(known, "result") # Has(known, "error")
    BY DEF classify
  <2>2. \A key : Has(s, key) \in BOOLEAN
    BY DEF Has
  <2>3. classify(m).kind # "response" => ~Has(known, "result")
    BY DEF classify
  <2> HIDE DEF known
  <2> QED BY ONLY <1>6, <2>1, <2>2, <2>3
<1> QED BY <1>7, <1>8, <1>9

\* The tool the extractor finds in a call is the one every reader finds.
LEMMA ExtractMeans ==
    ASSUME NEW m, IsMessage(m), extract(m) # << >>
    PROVE  \E params :
             /\ Readings(m.members, "params") = {params}
             /\ Readings(params.members, "name") = {The(params.members, "name")}
             /\ extract(m)[1] = The(params.members, "name").text
<1> DEFINE s == m.members
           params == The(s, "params")
           fields == params.members
<1>1. IsSequence(s) /\ \A i \in DOMAIN s : IsSequence(s[i].value.members)
  BY DEF IsMessage
<1>2. /\ Taken(s, {"params"}, {i \in DOMAIN s : ExtractTakes(s[i])}) = Len(s)
      /\ Has(s, "params")
      /\ extract(m) = << The(fields, "name").text >>
  BY DEF extract, AllTaken
<1>3. /\ Plain(s, {"params"})
      /\ \A i \in 1..Len(s) : ExtractTakes(s[i])
  BY <1>1, <1>2, AllTakenMeans
<1>4. /\ Readings(s, "params") = {params}
      /\ \E i \in 1..Len(s) : s[i].key = "params" /\ params = s[i].value
  BY ONLY <1>1, <1>2, <1>3, OneReading
<1>5. parse_params(fields) /\ IsSequence(fields)
  <2>1. PICK i \in 1..Len(s) : s[i].key = "params" /\ params = s[i].value
    BY <1>4
  <2>2. i \in DOMAIN s
    BY <1>1, <2>1, SequenceHas
  <2>3. parse_params(s[i].value.members)
    BY <1>3, <2>1 DEF ExtractTakes
  <2> QED BY <1>1, <2>1, <2>2, <2>3
<1>6. /\ Taken(fields, {"name", "arguments"}, {i \in DOMAIN fields : ParamTakes(fields[i])}) = Len(fields)
      /\ Has(fields, "name")
  BY <1>5 DEF parse_params, AllTaken
<1>7. Plain(fields, {"name", "arguments"})
  BY ONLY <1>5, <1>6, AllTakenMeans
<1>8. Readings(fields, "name") = {The(fields, "name")}
  BY <1>5, <1>6, <1>7, OneReading
<1> QED BY <1>2, <1>4, <1>8

\* A call that is sent on calls, for every reader, a tool that is callable.
LEMMA CallAgrees ==
    ASSUME NEW m, IsMessage(m), classify(m).kind # "invalid",
           classify(m).method = "tools/call" => extract(m) # << >> /\ Callable(extract(m)[1])
    PROVE  \A name \in CalledIn(m) : Callable(name)
<1> DEFINE s == m.members
<1>1. IsSequence(s)
  BY DEF IsMessage
<1>2. /\ Plain(s, EnvelopeKeys)
      /\ Has(s, "method") => classify(m).method = The(s, "method").text
  BY <1>1, ClassifyMeans
<1>3. /\ Has(s, "method") => Readings(s, "method") = {The(s, "method")}
      /\ ~Has(s, "method") => Readings(s, "method") = {}
  BY ONLY <1>1, <1>2, OneReading DEF EnvelopeKeys
<1>4. ASSUME NEW method \in Readings(s, "method"), method.text = "tools/call"
      PROVE  \A name \in CalledIn(m) : Callable(name)
  <2>1. extract(m) # << >> /\ Callable(extract(m)[1])
    BY <1>2, <1>3, <1>4
  <2>2. PICK params :
          /\ Readings(s, "params") = {params}
          /\ Readings(params.members, "name") = {The(params.members, "name")}
          /\ extract(m)[1] = The(params.members, "name").text
    BY <2>1, ExtractMeans
  <2>3. CalledIn(m) =
          {name.text : name \in UNION {Readings(p.members, "name") : p \in Readings(s, "params")}}
    BY <1>4 DEF CalledIn
  <2>4. UNION {Readings(p.members, "name") : p \in Readings(s, "params")} =
        {The(params.members, "name")}
    BY ONLY <2>2
  <2> QED BY <2>1, <2>2, <2>3, <2>4
<1>5. CASE ~ \E method \in Readings(s, "method") : method.text = "tools/call"
  BY <1>5 DEF CalledIn
<1> QED BY <1>4, <1>5

\* What Select takes is what is in both.
LEMMA SelectTakes ==
    ASSUME NEW X, NEW S, NEW seq \in Seq(X)
    PROVE  ToSet(Select(seq, S)) = ToSet(seq) \cap S
<1> DEFINE T == {s \in Seq(X) : ToSet(Select(s, S)) = ToSet(s) \cap S}
<1>1. << >> \in T
  <2>1. << >> \in Seq(X) /\ DOMAIN << >> = {}
    OBVIOUS
  <2>2. ToSet(<< >>) = {}
    BY <2>1 DEF ToSet
  <2> QED BY <2>1, <2>2, SelectEmpty
<1>2. ASSUME NEW s \in Seq(X), s \in T, NEW x \in X PROVE Append(s, x) \in T
  <2>1. \A Y : \A q \in Seq(Y) : \A y \in Y : ToSet(Append(q, y)) = ToSet(q) \cup {y}
    <3> SUFFICES ASSUME NEW Y, NEW q \in Seq(Y), NEW y \in Y
                 PROVE  ToSet(Append(q, y)) = ToSet(q) \cup {y}
      OBVIOUS
    <3>1. /\ Len(q) \in Nat /\ DOMAIN q = 1..Len(q)
          /\ DOMAIN Append(q, y) = 1..(Len(q) + 1) /\ Append(q, y)[Len(q) + 1] = y
          /\ \A i \in 1..Len(q) : Append(q, y)[i] = q[i]
      OBVIOUS
    <3>2. 1..(Len(q) + 1) = 1..Len(q) \cup {Len(q) + 1}
      BY <3>1
    <3> QED BY ONLY <3>1, <3>2 DEF ToSet
  <2>2. Select(Append(s, x), S) = IF x \in S THEN Append(Select(s, S), x) ELSE Select(s, S)
    BY SelectAppend
  <2>3. Select(s, S) \in Seq(X \cap S)
    BY SelectType
  <2>4. ToSet(Append(s, x)) = ToSet(s) \cup {x}
    BY <2>1
  <2>5. x \in S => ToSet(Append(Select(s, S), x)) = ToSet(Select(s, S)) \cup {x}
    BY <2>1, <2>3
  <2>6. ToSet(Select(s, S)) = ToSet(s) \cap S
    BY <1>2
  <2>7. Append(s, x) \in Seq(X)
    OBVIOUS
  <2>8. ToSet(Select(Append(s, x), S)) = ToSet(Append(s, x)) \cap S
    <3>1. CASE x \in S
      BY ONLY <2>2, <2>4, <2>5, <2>6, <3>1
    <3>2. CASE x \notin S
      BY ONLY <2>2, <2>4, <2>6, <3>2
    <3> QED BY <3>1, <3>2
  <2> QED BY <2>7, <2>8
<1>3. Seq(X) \subseteq T
  <2> HIDE DEF T
  <2> QED BY <1>1, <1>2, SeqsByInduction
<1> QED BY <1>3

\* What is put in the place of a value is what every reader finds there.
LEMMA SubstituteMeans ==
    ASSUME NEW members, NEW known, IsSequence(members), Plain(members, known),
           NEW key \in known, Has(members, key), NEW value
    PROVE  Readings(Substitute(members, key, value), key) = {value}
<1> DEFINE s == Substitute(members, key, value)
<1>1. Len(members) \in Nat /\ DOMAIN members = 1..Len(members)
  BY SequenceHas
<1>2. PICK k \in DOMAIN members : members[k].key = key
  BY DEF Has
<1>3. \A i \in DOMAIN members : members[i].key = key => i = k
  BY <1>1, <1>2 DEF Plain
<1>4. DOMAIN s = DOMAIN members
  BY DEF Substitute
<1>5. s[k] = Pair(key, value) /\ \A i \in DOMAIN members : i # k => s[i] = members[i]
  BY <1>2, <1>3 DEF Substitute
<1>6. s[k].means = key /\ s[k].value = value
  BY <1>5 DEF Pair
<1>7. \A i \in DOMAIN members : i # k => s[i].means # key
  BY <1>1, <1>3, <1>5 DEF Plain
<1> HIDE DEF s
<1>8. {i \in DOMAIN s : s[i].means = key} = {k}
  BY <1>4, <1>6, <1>7
<1>9. Readings(s, key) = {s[k].value}
  BY ONLY <1>8 DEF Readings
<1> QED BY <1>6, <1>9 DEF s

\* An answer that is rewritten lists, for every reader, the tools that are
\* shown of those it listed before; one that is sent on as it is lists none.
LEMMA RewriteMeans ==
    ASSUME NEW m, IsMessage(m), NEW shown, NEW w,
           w = rewrite_tools_list_response(m, shown), w.status # "malformed"
    PROVE  \/ w.message = m /\ ListedIn(m) = {}
           \/ /\ ListedIn(m) = {ToolName(item) : item \in ToSet(ListedItems(m))}
              /\ ListedIn(w.message) = {ToolName(item) : item \in ToSet(ListedItems(m)) \cap shown}
<1> DEFINE s == m.members
           result == The(s, "result")
           items == ListedItems(m)
           kept == Select(items, shown)
<1>1. IsSequence(s)
  BY DEF IsMessage
<1>2. /\ Taken(s, {"result", "error"}, {i \in DOMAIN s : RewriteTakes(s[i])}) = Len(s)
      /\ Has(s, "error") \/ Has(s, "result")
      /\ Has(s, "error") => w.message = m /\ ~Has(s, "result")
      /\ ~Has(s, "error") => w.message.members = Substitute(s, "result",
                               ObjectOf(Substitute(result.members, "tools", ArrayOf(kept))))
  BY DEF rewrite_tools_list_response, AllTaken, Has
<1>3. /\ Plain(s, {"result", "error"})
      /\ \A i \in 1..Len(s) : RewriteTakes(s[i])
  BY <1>1, <1>2, AllTakenMeans
<1>4. CASE Has(s, "error")
  <2>1. Readings(s, "result") = {}
    BY <1>1, <1>2, <1>3, <1>4, OneReading
  <2>2. ListedIn(m) = {}
    BY <2>1 DEF ListedIn
  <2> QED BY <1>2, <1>4, <2>2
<1>5. CASE ~Has(s, "error")
  <2>1. /\ Readings(s, "result") = {result}
        /\ \E i \in 1..Len(s) : s[i].key = "result" /\ result = s[i].value
    BY <1>1, <1>2, <1>3, <1>5, OneReading
  <2> DEFINE fields == result.members
  <2>2. PICK i \in 1..Len(s) : s[i].key = "result" /\ result = s[i].value
    BY <2>1
  <2>3. i \in DOMAIN s
    BY <1>1, <2>2, SequenceHas
  <2>4. /\ IsSequence(fields) /\ parse_result(result)
        /\ \A j \in DOMAIN fields :
              /\ IsSequence(fields[j].value.items)
              /\ \A k \in DOMAIN fields[j].value.items : IsTool(fields[j].value.items[k])
    BY <1>3, <2>2, <2>3 DEF IsMessage, RewriteTakes
  <2>5. /\ Taken(fields, {"tools"}, {j \in DOMAIN fields : ResultTakes(fields[j])}) = Len(fields)
        /\ Has(fields, "tools")
    BY <2>4 DEF parse_result, AllTaken
  <2>6. /\ Plain(fields, {"tools"})
        /\ \A j \in 1..Len(fields) : ResultTakes(fields[j])
    BY <2>4, <2>5, AllTakenMeans
  <2> DEFINE list == The(fields, "tools")
  <2>7. /\ Readings(fields, "tools") = {list}
        /\ \E j \in 1..Len(fields) : fields[j].key = "tools" /\ list = fields[j].value
    BY <2>4, <2>5, <2>6, OneReading
  <2>8. items = list.items
    BY DEF ListedItems
  <2>9. /\ IsSequence(items)
        /\ \A k \in DOMAIN items : IsTool(items[k]) /\ parse_tool(items[k])
    <3>1. PICK j \in 1..Len(fields) : fields[j].key = "tools" /\ list = fields[j].value
      BY <2>7
    <3>2. j \in DOMAIN fields
      BY <2>4, <3>1, SequenceHas
    <3>3. ResultTakes(fields[j])
      BY <2>6, <3>1
    <3>4. \A k \in DOMAIN fields[j].value.items : parse_tool(fields[j].value.items[k])
      BY <3>1, <3>3 DEF ResultTakes
    <3> QED BY <2>4, <2>8, <3>1, <3>2, <3>4
  <2>10. \A item \in ToSet(items) : Readings(item.members, "name") = {The(item.members, "name")}
    <3> SUFFICES ASSUME NEW item \in ToSet(items)
                 PROVE  Readings(item.members, "name") = {The(item.members, "name")}
      OBVIOUS
    <3>1. IsTool(item) /\ parse_tool(item)
      BY <2>9 DEF ToSet
    <3>2. IsSequence(item.members)
      BY <3>1 DEF IsTool
    <3>3. /\ Taken(item.members, {"name"}, {k \in DOMAIN item.members : ToolTakes(item.members[k])}) =
                Len(item.members)
          /\ Has(item.members, "name")
      BY <3>1 DEF parse_tool, AllTaken
    <3>4. Plain(item.members, {"name"})
      BY ONLY <3>2, <3>3, AllTakenMeans
    <3> QED BY ONLY <3>2, <3>3, <3>4, OneReading
  <2>11. ASSUME NEW any, NEW r, NEW l, Readings(any.members, "result") = {r},
                Readings(r.members, "tools") = {l}, ToSet(l.items) \subseteq ToSet(items)
         PROVE  ListedIn(any) = {ToolName(item) : item \in ToSet(l.items)}
    <3>1. UNION {Readings(q.members, "tools") : q \in {r}} = {l}
      BY <2>11
    <3>2. UNION {ToSet(q.items) : q \in {l}} = ToSet(l.items)
      OBVIOUS
    <3>3. ListedIn(any) = {name.text : name \in
             UNION {Readings(item.members, "name") : item \in ToSet(l.items)}}
      BY <2>11, <3>1, <3>2 DEF ListedIn
    <3>4. UNION {Readings(item.members, "name") : item \in ToSet(l.items)} =
          {The(item.members, "name") : item \in ToSet(l.items)}
      <4>1. \A item \in ToSet(l.items) : \A x :
              x \in Readings(item.members, "name") <=> x = The(item.members, "name")
        BY <2>10, <2>11
      <4>2. \A x : x \in UNION {Readings(item.members, "name") : item \in ToSet(l.items)} <=>
                     \E item \in ToSet(l.items) : x \in Readings(item.members, "name")
        OBVIOUS
      <4>3. \A x : x \in {The(item.members, "name") : item \in ToSet(l.items)} <=>
                     \E item \in ToSet(l.items) : x = The(item.members, "name")
        OBVIOUS
      <4> QED BY ONLY <4>1, <4>2, <4>3
    <3> QED BY ONLY <3>3, <3>4 DEF ToolName
  <2>12. ListedIn(m) = {ToolName(item) : item \in ToSet(items)}
    BY <2>1, <2>7, <2>8, <2>11
  <2>13. ToSet(kept) = ToSet(items) \cap shown
    BY <2>9, SelectTakes DEF IsSequence
  <2> DEFINE r == ObjectOf(Substitute(fields, "tools", ArrayOf(kept)))
  <2>14. Readings(w.message.members, "result") = {r}
    <3>1. w.message.members = Substitute(s, "result", r)
      BY <1>2, <1>5
    <3> HIDE DEF r
    <3> QED BY <1>1, <1>2, <1>3, <1>5, <3>1, SubstituteMeans
  <2>15. Readings(r.members, "tools") = {ArrayOf(kept)}
    <3>1. r.members = Substitute(fields, "tools", ArrayOf(kept))
      BY DEF ObjectOf
    <3> HIDE DEF r, kept
    <3> QED BY ONLY <2>4, <2>5, <2>6, <3>1, SubstituteMeans
  <2>16. ArrayOf(kept).items = kept
    BY DEF ArrayOf
  <2> HIDE DEF r, kept, items
  <2>17. ListedIn(w.message) = {ToolName(item) : item \in ToSet(items) \cap shown}
    BY <2>11, <2>13, <2>14, <2>15, <2>16
  <2> QED BY <2>12, <2>17 DEF items
<1> QED BY <1>4, <1>5

------------------------------------------------------------------------------
(* Messages on their way                                                   *)

\* What is read is a message, until it has been read nothing is sent on, and
\* then what is sent on is what every reader agrees on.
ReaderInv ==
    /\ pc = "answer" => message \in Answers
    /\ pc = "call" => message \in Calls
    /\ pc = "list" => message \in Answers
    /\ pc \notin {"called", "listed"} => relayed = << >>
    /\ EveryReaderAgrees

\* Reading a call keeps it (ToolCallFilter::inspect).
LEMMA CallKeeps == ASSUME ReaderInv, ReadCall PROVE ReaderInv'
<1>1. pc = "call" /\ pc' = "called" /\ message' = message /\ table' = table
  BY DEF ReadCall
<1>2. IsMessage(message)
  BY <1>1, MessagesAssumption DEF ReaderInv
<1>3. ASSUME relayed' # << >>
      PROVE  /\ relayed' = << message >> /\ classify(message).kind # "invalid"
             /\ classify(message).method = "tools/call" =>
                  extract(message) # << >> /\ Callable(extract(message)[1])
  BY <1>3 DEF ReadCall
<1>4. ASSUME relayed' # << >>
      PROVE  \A name \in CalledIn(relayed'[1]) : Callable(name)'
  <2>1. \A name \in CalledIn(message) : Callable(name)
    BY <1>2, <1>3, <1>4, CallAgrees
  <2>2. relayed'[1] = message
    BY <1>3, <1>4
  <2> QED BY <1>1, <2>1, <2>2 DEF Callable
<1>5. EveryReaderAgrees'
  BY <1>1, <1>4 DEF EveryReaderAgrees
<1> QED BY <1>1, <1>5 DEF ReaderInv

\* A message that is no answer to the classifier though a reader may take it for
\* one lists nothing.
LEMMA OtherMeans ==
    ASSUME NEW m, IsMessage(m), classify(m).kind # "invalid", Answering(m),
           classify(m).kind # "response" \/ classify(m).id # ExpectedId
    PROVE  ListedIn(m) = {}
<1> DEFINE s == m.members
<1>1. IsSequence(s)
  BY DEF IsMessage
<1>2. /\ Plain(s, EnvelopeKeys)
      /\ Has(s, "id") => classify(m).id = The(s, "id").text
      /\ classify(m).kind # "response" => ~Has(s, "result")
  BY <1>1, ClassifyMeans
<1>3. /\ Has(s, "id") => Readings(s, "id") = {The(s, "id")}
      /\ ~Has(s, "id") => Readings(s, "id") = {}
      /\ ~Has(s, "result") => Readings(s, "result") = {}
  BY ONLY <1>1, <1>2, OneReading DEF EnvelopeKeys
<1>4. PICK id \in Readings(s, "id") : id.text = ExpectedId
  BY DEF Answering
<1>5. classify(m).id = ExpectedId
  BY ONLY <1>2, <1>3, <1>4
<1>6. Readings(s, "result") = {}
  BY <1>2, <1>3, <1>5
<1> QED BY <1>6 DEF ListedIn

\* Reading a list keeps it (ToolCallFilter::inspect_server).
LEMMA AnswerKeeps == ASSUME ReaderInv, ReadAnswer PROVE ReaderInv'
<1> DEFINE shown == {item \in ToSet(ListedItems(message)) : Visible(ToolName(item))}
           w == rewrite_tools_list_response(message, shown)
<1>1. pc = "list" /\ pc' = "listed" /\ message' = message /\ table' = table
  BY DEF ReadAnswer
<1>2. IsMessage(message)
  BY <1>1, MessagesAssumption DEF ReaderInv
<1> DEFINE other == classify(message).kind # "response" \/ classify(message).id # ExpectedId
<1>3. ASSUME relayed' # << >>
      PROVE  /\ classify(message).kind # "invalid"
             /\ other => relayed' = << message >>
             /\ ~other => relayed' = << w.message >> /\ w.status # "malformed"
  BY <1>3 DEF ReadAnswer
<1>4. ASSUME relayed' # << >>, Answering(message)
      PROVE  ListedIn(relayed'[1]) = {name \in ListedIn(message) : Visible(name)}
  <2>0. CASE other
    <3>1. relayed'[1] = message
      BY <1>3, <1>4, <2>0
    <3>2. ListedIn(message) = {}
      BY <1>2, <1>3, <1>4, <2>0, OtherMeans
    <3> QED BY <3>1, <3>2
  <2> SUFFICES ASSUME ~other PROVE ListedIn(relayed'[1]) = {name \in ListedIn(message) : Visible(name)}
    BY <2>0
  <2>1. relayed'[1] = w.message
    BY <1>3, <1>4
  <2> HIDE DEF w
  <2>2. \/ w.message = message /\ ListedIn(message) = {}
        \/ /\ ListedIn(message) = {ToolName(item) : item \in ToSet(ListedItems(message))}
           /\ ListedIn(w.message) =
                {ToolName(item) : item \in ToSet(ListedItems(message)) \cap shown}
    BY <1>2, <1>3, <1>4, RewriteMeans DEF w
  <2>3. CASE w.message = message /\ ListedIn(message) = {}
    BY <2>1, <2>3
  <2>4. CASE /\ ListedIn(message) = {ToolName(item) : item \in ToSet(ListedItems(message))}
             /\ ListedIn(w.message) =
                  {ToolName(item) : item \in ToSet(ListedItems(message)) \cap shown}
    BY <2>1, <2>4
  <2> QED BY <2>2, <2>3, <2>4
<1>5. \A name : Visible(name)' <=> Visible(name)
  BY <1>1 DEF Visible
<1>6. EveryReaderAgrees'
  BY <1>1, <1>4, <1>5 DEF EveryReaderAgrees, Answering
<1> QED BY <1>1, <1>6 DEF ReaderInv

\* Whichever of two members of one name a reader takes, and whether or not it
\* undoes escapes, what is sent on calls only what is callable, and what it may
\* take for the answer to the request lists just what is visible
\* (json_rpc_envelope.cpp, tool_call_extractor.cpp,
\* rewrite_tools_list_response).
THEOREM ReadersAgree == DiscoverySpec => []EveryReaderAgrees
<1>1. DiscoveryInit => ReaderInv
  BY DEF DiscoveryInit, Begin, Init, ReaderInv, EveryReaderAgrees
<1>2. ASSUME ReaderInv, [DiscoveryNext]_allVars PROVE ReaderInv'
  <2>1. CASE Initialize
    BY <1>2, <2>1 DEF Initialize, ReaderInv, EveryReaderAgrees
  <2>2. CASE Collect
    BY <1>2, <2>2 DEF Collect, ReaderInv, EveryReaderAgrees
  <2>3. CASE ReadCall
    BY <1>2, <2>3, CallKeeps
  <2>4. CASE ReadAnswer
    BY <1>2, <2>4, AnswerKeeps
  <2>5. CASE Next /\ UNCHANGED messageVars
    <3>1. pc' \in {"run", "deny", "ready", "failed"} /\ message' = message /\ relayed' = relayed
      BY <2>5 DEF Next, Create, Load, Deny, BuildTable, messageVars
    <3>2. pc \in {"create", "run", "deny"}
      BY <2>5 DEF Next, Create, Load, Deny, BuildTable
    <3> QED BY <1>2, <3>1, <3>2 DEF ReaderInv, EveryReaderAgrees
  <2>6. CASE UNCHANGED allVars
    BY <1>2, <2>6 DEF allVars, vars, messageVars, ReaderInv, EveryReaderAgrees, Callable, Visible
  <2> QED BY <1>2, <2>1, <2>2, <2>3, <2>4, <2>5, <2>6 DEF DiscoveryNext
<1>3. ReaderInv /\ [DiscoveryNext]_allVars => ReaderInv'
  BY <1>2
<1>4. ReaderInv => EveryReaderAgrees
  BY DEF ReaderInv
<1> QED BY <1>1, <1>3, <1>4, PTL DEF DiscoverySpec

------------------------------------------------------------------------------
(* Places inside a value                                                   *)

\* The way to a place, value by value.
Way(f, value, place) ==
    f = [n \in 0..Len(place) |-> IF n = 0 THEN value ELSE Values(f[n - 1])[place[n]]]

\* One step further.
LEMMA WayFurther ==
    ASSUME NEW value, NEW place \in Seq(Nat), NEW i \in Nat, NEW f, Way(f, value, place)
    PROVE  \E g : /\ Way(g, value, Append(place, i))
                  /\ g[Len(Append(place, i))] = Values(f[Len(place)])[i]
<1> DEFINE k == Len(place)
           longer == Append(place, i)
           g == [n \in 0..(k + 1) |-> IF n = k + 1 THEN Values(f[k])[i] ELSE f[n]]
<1>1. /\ k \in Nat /\ Len(longer) = k + 1 /\ longer[k + 1] = i
      /\ \A n \in 1..k : longer[n] = place[n]
  OBVIOUS
<1> HIDE DEF longer, k
<1>2. \A n \in 0..k : f[n] = IF n = 0 THEN value ELSE Values(f[n - 1])[place[n]]
  BY ONLY Way(f, value, place) DEF Way, k
<1>3. g[k + 1] = Values(f[k])[i] /\ \A n \in 0..k : g[n] = f[n]
  BY ONLY <1>1
<1>4. DOMAIN g = 0..(k + 1) /\ g = [n \in 0..(k + 1) |-> g[n]]
  OBVIOUS
<1> HIDE DEF g
<1>5. ASSUME NEW n \in 0..(k + 1)
      PROVE  g[n] = IF n = 0 THEN value ELSE Values(g[n - 1])[longer[n]]
  <2>1. CASE n = k + 1
    <3>1. n # 0 /\ n - 1 = k /\ k \in 0..k
      BY ONLY <1>1, <2>1
    <3> QED BY ONLY <1>1, <1>3, <2>1, <3>1
  <2>2. CASE n # k + 1
    <3>1. n \in 0..k /\ (n # 0 => n \in 1..k /\ n - 1 \in 0..k)
      BY ONLY <1>1, <2>2
    <3> QED BY ONLY <1>1, <1>2, <1>3, <3>1
  <2> QED BY <2>1, <2>2
<1>6. Way(g, value, longer)
  BY ONLY <1>1, <1>4, <1>5 DEF Way
<1>7. g[Len(longer)] = Values(f[k])[i]
  BY ONLY <1>1, <1>3
<1> QED BY <1>6, <1>7 DEF longer, k

\* There is a way to every place.
LEMMA WayExists == ASSUME NEW value PROVE \A place \in Seq(Nat) : \E f : Way(f, value, place)
<1> DEFINE T == {place \in Seq(Nat) : \E f : Way(f, value, place)}
<1>1. << >> \in T
  <2> DEFINE f == [n \in {0} |-> value]
  <2>1. << >> \in Seq(Nat) /\ 0..Len(<< >>) = {0}
    BY EmptySeq
  <2>2. f = [n \in 0..Len(<< >>) |-> IF n = 0 THEN value ELSE Values(f[n - 1])[<< >>[n]]]
    BY <2>1
  <2>3. Way(f, value, << >>)
    BY ONLY <2>2 DEF Way
  <2> QED BY <2>1, <2>3
<1>2. ASSUME NEW place \in Seq(Nat), place \in T, NEW i \in Nat PROVE Append(place, i) \in T
  BY <1>2, WayFurther, AppendProperties
<1>3. Seq(Nat) \subseteq T
  <2> HIDE DEF T
  <2> QED BY <1>1, <1>2, SeqsByInduction
<1> QED BY <1>3

\* Two ways that begin alike lead to the same value.
LEMMA WaysAgree ==
    ASSUME NEW value, NEW p, NEW q, NEW k \in Nat, k <= Len(p), k <= Len(q),
           Len(p) \in Nat, Len(q) \in Nat, \A n \in 1..k : p[n] = q[n],
           NEW f, NEW g, Way(f, value, p), Way(g, value, q)
    PROVE  f[k] = g[k]
<1>1. \A n \in 0..k : /\ f[n] = IF n = 0 THEN value ELSE Values(f[n - 1])[p[n]]
                      /\ g[n] = IF n = 0 THEN value ELSE Values(g[n - 1])[q[n]]
  <2>1. \A n \in 0..k : n \in 0..Len(p) /\ n \in 0..Len(q)
    OBVIOUS
  <2>2. \A n \in 0..Len(p) : f[n] = IF n = 0 THEN value ELSE Values(f[n - 1])[p[n]]
    BY ONLY Way(f, value, p) DEF Way
  <2>3. \A n \in 0..Len(q) : g[n] = IF n = 0 THEN value ELSE Values(g[n - 1])[q[n]]
    BY ONLY Way(g, value, q) DEF Way
  <2> QED BY ONLY <2>1, <2>2, <2>3
<1> DEFINE T == {n \in 0..k : f[n] = g[n]}
<1>2. 0 \in T
  BY <1>1
<1>3. ASSUME NEW n \in 0..k, n < k, n \in T PROVE n + 1 \in T
  <2>1. n + 1 \in 0..k /\ n + 1 \in 1..k /\ n + 1 # 0 /\ (n + 1) - 1 = n
    BY <1>3
  <2>2. f[n + 1] = Values(f[n])[p[n + 1]] /\ g[n + 1] = Values(g[n])[q[n + 1]]
    BY ONLY <1>1, <2>1
  <2>3. p[n + 1] = q[n + 1]
    BY <2>1
  <2>4. f[n] = g[n]
    BY <1>3
  <2> QED BY ONLY <2>1, <2>2, <2>3, <2>4
<1>4. \A n \in 0..k : n \in T
  <2> HIDE DEF T
  <2> QED BY ONLY k \in Nat, <1>2, <1>3, UpTo
<1> QED BY <1>4

\* The value at a place is found from the value above it.
LEMMA AtMeans ==
    ASSUME NEW value
    PROVE  /\ At(value, << >>) = value
           /\ \A place \in Seq(Nat), i \in Nat :
                At(value, Append(place, i)) = Values(At(value, place))[i]
<1> DEFINE Chosen(place) == CHOOSE f : Way(f, value, place)
<1>1. \A place \in Seq(Nat) : Way(Chosen(place), value, place)
  BY WayExists
<1>2. \A place : At(value, place) = Chosen(place)[Len(place)]
  BY Zenon DEF At, Way
<1> HIDE DEF Chosen
<1>3. At(value, << >>) = value
  <2>1. << >> \in Seq(Nat) /\ Len(<< >>) = 0 /\ 0 \in 0..0
    BY EmptySeq
  <2>2. Chosen(<< >>)[0] = value
    BY ONLY <1>1, <2>1 DEF Way
  <2> QED BY ONLY <1>2, <2>1, <2>2
<1>4. ASSUME NEW place \in Seq(Nat), NEW i \in Nat
      PROVE  At(value, Append(place, i)) = Values(At(value, place))[i]
  <2> DEFINE longer == Append(place, i)
  <2>1. longer \in Seq(Nat) /\ Len(longer) = Len(place) + 1 /\ Len(place) \in Nat
    BY AppendProperties, LenProperties
  <2>2. PICK g : Way(g, value, longer) /\ g[Len(longer)] = Values(Chosen(place)[Len(place)])[i]
    BY <1>1, WayFurther
  <2> HIDE DEF longer
  <2>3. g[Len(longer)] = Chosen(longer)[Len(longer)]
    <3>1. /\ Len(longer) \in Nat /\ Len(longer) <= Len(longer)
          /\ \A n \in 1..Len(longer) : longer[n] = longer[n]
      BY <2>1
    <3>2. Way(Chosen(longer), value, longer)
      BY <1>1, <2>1
    <3> QED BY ONLY <2>2, <3>1, <3>2, WaysAgree
  <2> QED BY ONLY <1>2, <2>2, <2>3 DEF longer
<1> QED BY <1>3, <1>4

\* The places down to a depth, depth by depth.
Levels(f, value, n) ==
    f = [k \in 0..n |-> IF k = 0 THEN {<< >>} ELSE Below(value, f[k - 1])]

\* There are places, or none, at every depth, and those one deeper are below them.
LEMMA PlacesMean ==
    ASSUME NEW value
    PROVE  /\ PlacesAt(value, 0) = {<< >>}
           /\ \A n \in Nat : PlacesAt(value, n + 1) = Below(value, PlacesAt(value, n))
<1> DEFINE Chosen(n) == CHOOSE f : Levels(f, value, n)
           T == {n \in Nat : \E f : Levels(f, value, n)}
<1>1. 0 \in T
  <2> DEFINE f == [k \in {0} |-> {<< >>}]
  <2>1. 0..0 = {0}
    OBVIOUS
  <2>2. f = [k \in 0..0 |-> IF k = 0 THEN {<< >>} ELSE Below(value, f[k - 1])]
    BY <2>1
  <2>3. Levels(f, value, 0)
    BY ONLY <2>2 DEF Levels
  <2> QED BY <2>3
<1>2. ASSUME NEW n \in Nat, n \in T PROVE n + 1 \in T
  <2>1. PICK f : Levels(f, value, n)
    BY <1>2
  <2> DEFINE g == [k \in 0..(n + 1) |-> IF k = n + 1 THEN Below(value, f[n]) ELSE f[k]]
  <2>2. \A k \in 0..n : f[k] = IF k = 0 THEN {<< >>} ELSE Below(value, f[k - 1])
    BY ONLY <2>1 DEF Levels
  <2>3. g[n + 1] = Below(value, f[n]) /\ \A k \in 0..n : g[k] = f[k]
    BY ONLY <1>2
  <2>4. g = [k \in 0..(n + 1) |-> g[k]]
    OBVIOUS
  <2> HIDE DEF g
  <2>5. ASSUME NEW k \in 0..(n + 1)
        PROVE  g[k] = IF k = 0 THEN {<< >>} ELSE Below(value, g[k - 1])
    <3>1. CASE k = n + 1
      <4>1. k # 0 /\ k - 1 = n /\ n \in 0..n
        BY ONLY <3>1, n \in Nat
      <4> QED BY ONLY <2>3, <3>1, <4>1
    <3>2. CASE k # n + 1
      <4>1. k \in 0..n /\ (k # 0 => k - 1 \in 0..n)
        BY ONLY <3>2, n \in Nat
      <4> QED BY ONLY <2>2, <2>3, <4>1
    <3> QED BY <3>1, <3>2
  <2>6. Levels(g, value, n + 1)
    BY ONLY <2>4, <2>5 DEF Levels
  <2> QED BY <2>6
<1>3. \A n \in Nat : Levels(Chosen(n), value, n)
  <2>1. Nat \subseteq T
    <3> HIDE DEF T
    <3> QED BY <1>1, <1>2, NatsByInduction
  <2> QED BY <2>1
<1>4. \A n : PlacesAt(value, n) = Chosen(n)[n]
  BY Zenon DEF PlacesAt, Levels
<1> HIDE DEF Chosen
<1>5. \A n \in Nat : \A k \in 0..n :
        Chosen(n)[k] = IF k = 0 THEN {<< >>} ELSE Below(value, Chosen(n)[k - 1])
  BY ONLY <1>3 DEF Levels
<1>6. \A k \in Nat : \A n \in Nat : k <= n => Chosen(n)[k] = Chosen(k)[k]
  <2> DEFINE U == {k \in Nat : \A n \in Nat : k <= n => Chosen(n)[k] = Chosen(k)[k]}
  <2>1. 0 \in U
    <3>1. \A n \in Nat : 0 \in 0..n
      OBVIOUS
    <3> QED BY ONLY <1>5, <3>1
  <2>2. ASSUME NEW k \in Nat, k \in U PROVE k + 1 \in U
    <3>1. ASSUME NEW n \in Nat, k + 1 <= n PROVE Chosen(n)[k + 1] = Below(value, Chosen(k)[k])
      <4>1. k + 1 \in 0..n /\ k + 1 # 0 /\ (k + 1) - 1 = k /\ k <= n
        BY ONLY <3>1, k \in Nat
      <4>2. Chosen(n)[k + 1] = Below(value, Chosen(n)[k])
        BY ONLY <1>5, <4>1, n \in Nat
      <4>3. Chosen(n)[k] = Chosen(k)[k]
        BY <2>2, <4>1
      <4> QED BY ONLY <4>2, <4>3
    <3>2. k + 1 \in Nat /\ k + 1 <= k + 1
      OBVIOUS
    <3> QED BY <3>1, <3>2
  <2>3. Nat \subseteq U
    <3> HIDE DEF U
    <3> QED BY <2>1, <2>2, NatsByInduction
  <2> QED BY <2>3
<1>7. PlacesAt(value, 0) = {<< >>}
  <2>1. 0 \in Nat /\ 0 \in 0..0
    OBVIOUS
  <2> QED BY ONLY <1>4, <1>5, <2>1
<1>8. ASSUME NEW n \in Nat PROVE PlacesAt(value, n + 1) = Below(value, PlacesAt(value, n))
  <2>1. n + 1 \in Nat /\ n + 1 \in 0..(n + 1) /\ n + 1 # 0 /\ (n + 1) - 1 = n /\ n <= n + 1
    OBVIOUS
  <2>2. Chosen(n + 1)[n + 1] = Below(value, Chosen(n + 1)[n])
    BY ONLY <1>5, <2>1
  <2>3. Chosen(n + 1)[n] = Chosen(n)[n]
    BY ONLY <1>6, <2>1, n \in Nat
  <2> QED BY ONLY <1>4, <2>2, <2>3
<1> QED BY <1>7, <1>8

------------------------------------------------------------------------------
(* Values within a value                                                   *)

\* What is in a value is in sequences.
Sound(v) == IsSequence(v.members) /\ IsSequence(v.items)
Kids(v)  == {v.members[i].value : i \in DOMAIN v.members} \cup ToSet(v.items)

\* The values n deep.
ValuesAt(value, n) == {At(value, p) : p \in PlacesAt(value, n)}

\* The values of a value are its kids.
LEMMA KidsMean ==
    ASSUME NEW v, Sound(v)
    PROVE  /\ DOMAIN Values(v) \subseteq Nat
           /\ {Values(v)[i] : i \in DOMAIN Values(v)} = Kids(v)
<1> DEFINE a == [i \in DOMAIN v.members |-> v.members[i].value]
           b == v.items
           m == Len(v.members)
           n == Len(b)
           S == {v.members[i].value : i \in DOMAIN v.members} \cup ToSet(b)
<1>1. m \in Nat /\ DOMAIN v.members = 1..m /\ n \in Nat /\ DOMAIN b = 1..n
  BY SequenceHas DEF Sound
<1>2. a \in Seq(S) /\ Len(a) = m
  BY <1>1
<1>3. b \in Seq(S)
  <2>1. \A i \in 1..n : b[i] \in S
    BY <1>1 DEF ToSet
  <2>2. b \in Seq(ToSet(b))
    BY DEF Sound, IsSequence
  <2>3. b = [i \in 1..n |-> b[i]]
    BY <2>2
  <2> QED BY <1>1, <2>1, <2>3
<1>4. /\ DOMAIN (a \o b) = 1..(m + n)
      /\ \A i \in 1..(m + n) : (a \o b)[i] = IF i <= m THEN a[i] ELSE b[i - m]
  <2>1. /\ a \o b \in Seq(S) /\ Len(a \o b) = Len(a) + Len(b)
        /\ \A i \in 1..(Len(a) + Len(b)) : (a \o b)[i] =
              IF i <= Len(a) THEN a[i] ELSE b[i - Len(a)]
    BY ONLY <1>2, <1>3, ConcatProperties
  <2>2. DOMAIN (a \o b) = 1..Len(a \o b)
    BY ONLY <2>1
  <2> HIDE DEF a, b, S
  <2> QED BY ONLY <1>2, <2>1, <2>2 DEF n
<1>5. \A i \in 1..m : a[i] = v.members[i].value
  BY <1>1
<1>6. Values(v) = a \o b
  BY DEF Values
<1> HIDE DEF a
<1>7. \A x : x \in {Values(v)[i] : i \in DOMAIN Values(v)} <=>
             \E i \in 1..(m + n) : x = IF i <= m THEN v.members[i].value ELSE b[i - m]
  <2> HIDE DEF b, m, n, S
  <2>1. \A i \in 1..(m + n) : Values(v)[i] = IF i <= m THEN v.members[i].value ELSE b[i - m]
    BY ONLY <1>1, <1>4, <1>5, <1>6
  <2> QED BY ONLY <1>4, <1>6, <2>1
<1>8. \A x : x \in Kids(v) <=>
             (\E i \in 1..m : x = v.members[i].value) \/ \E i \in 1..n : x = b[i]
  BY <1>1 DEF Kids, ToSet
<1>9. \A i \in 1..n : m + i \in 1..(m + n) /\ ~(m + i <= m) /\ (m + i) - m = i
  <2> HIDE DEF b, m, n, S
  <2> QED BY ONLY <1>1
<1>10. \A i \in 1..m : i \in 1..(m + n) /\ i <= m
  <2> HIDE DEF b, m, n, S
  <2> QED BY ONLY <1>1
<1>11. \A i \in 1..(m + n) : (i <= m => i \in 1..m) /\ (~(i <= m) => i - m \in 1..n)
  <2> HIDE DEF b, m, n, S
  <2> QED BY ONLY <1>1
<1>12. \A x : x \in {Values(v)[i] : i \in DOMAIN Values(v)} <=> x \in Kids(v)
  <2> HIDE DEF b, m, n, S
  <2>1. ASSUME NEW x, NEW i \in 1..m, x = v.members[i].value
        PROVE  x \in {Values(v)[j] : j \in DOMAIN Values(v)}
    BY ONLY <1>7, <1>10, <2>1
  <2>2. ASSUME NEW x, NEW i \in 1..n, x = b[i]
        PROVE  x \in {Values(v)[j] : j \in DOMAIN Values(v)}
    BY ONLY <1>7, <1>9, <2>2
  <2>3. ASSUME NEW x, x \in {Values(v)[j] : j \in DOMAIN Values(v)} PROVE x \in Kids(v)
    BY ONLY <1>7, <1>8, <1>11, <2>3
  <2> QED BY ONLY <1>8, <2>1, <2>2, <2>3
<1>13. DOMAIN Values(v) \subseteq Nat
  BY <1>1, <1>4, <1>6
<1> QED BY <1>12, <1>13

\* At the top there is the value, and the values one deeper are kids of these.
LEMMA OneDeeper ==
    ASSUME NEW value
    PROVE  /\ PlacesAt(value, 0) \subseteq Seq(Nat) /\ ValuesAt(value, 0) = {value}
           /\ \A n \in Nat :
                /\ PlacesAt(value, n) \subseteq Seq(Nat)
                /\ \A v \in ValuesAt(value, n) : Sound(v)
                => /\ PlacesAt(value, n + 1) \subseteq Seq(Nat)
                   /\ ValuesAt(value, n + 1) = UNION {Kids(v) : v \in ValuesAt(value, n)}
<1>1. PlacesAt(value, 0) \subseteq Seq(Nat) /\ ValuesAt(value, 0) = {value}
  <2>1. << >> \in Seq(Nat)
    OBVIOUS
  <2> QED BY <2>1, PlacesMean, AtMeans DEF ValuesAt
<1>2. ASSUME NEW n \in Nat, PlacesAt(value, n) \subseteq Seq(Nat),
             \A v \in ValuesAt(value, n) : Sound(v)
      PROVE  /\ PlacesAt(value, n + 1) \subseteq Seq(Nat)
             /\ ValuesAt(value, n + 1) = UNION {Kids(v) : v \in ValuesAt(value, n)}
  <2> DEFINE P == PlacesAt(value, n)
             kids == [p \in P |-> Values(At(value, p))]
  <2>1. PlacesAt(value, n + 1) = UNION {{Append(p, i) : i \in DOMAIN kids[p]} : p \in P}
    <3>1. Below(value, P) = UNION {{Append(p, i) : i \in DOMAIN Values(At(value, p))} : p \in P}
      BY DEF Below
    <3>2. \A p \in P : kids[p] = Values(At(value, p))
      OBVIOUS
    <3>3. PlacesAt(value, n + 1) = Below(value, P)
      BY PlacesMean
    <3> HIDE DEF P, kids
    <3> QED BY ONLY <3>1, <3>2, <3>3
  <2>2. \A p \in P : /\ p \in Seq(Nat) /\ DOMAIN kids[p] \subseteq Nat
                     /\ {kids[p][i] : i \in DOMAIN kids[p]} = Kids(At(value, p))
    <3>1. \A p \in P : Sound(At(value, p))
      BY <1>2 DEF ValuesAt
    <3> QED BY <1>2, <3>1, KidsMean
  <2>3. \A p \in P : \A i \in DOMAIN kids[p] :
          Append(p, i) \in Seq(Nat) /\ At(value, Append(p, i)) = kids[p][i]
    <3> SUFFICES ASSUME NEW p \in P, NEW i \in DOMAIN kids[p]
                 PROVE  Append(p, i) \in Seq(Nat) /\ At(value, Append(p, i)) = kids[p][i]
      OBVIOUS
    <3>1. p \in Seq(Nat) /\ i \in Nat
      BY <2>2
    <3>2. At(value, Append(p, i)) = Values(At(value, p))[i]
      BY ONLY <3>1, AtMeans
    <3>3. kids[p] = Values(At(value, p))
      OBVIOUS
    <3> QED BY ONLY <3>1, <3>2, <3>3, AppendProperties
  <2>4. \A q : q \in PlacesAt(value, n + 1) <=> \E p \in P : \E i \in DOMAIN kids[p] : q = Append(p, i)
    BY ONLY <2>1
  <2>5. PlacesAt(value, n + 1) \subseteq Seq(Nat)
    BY ONLY <2>3, <2>4
  <2>6. \A x : x \in ValuesAt(value, n + 1) <=> \E q \in PlacesAt(value, n + 1) : x = At(value, q)
    BY DEF ValuesAt
  <2>7. \A x : x \in ValuesAt(value, n + 1) <=> \E p \in P : \E i \in DOMAIN kids[p] : x = kids[p][i]
    <3> HIDE DEF P, kids
    <3>1. ASSUME NEW x, x \in ValuesAt(value, n + 1)
          PROVE  \E p \in P : \E i \in DOMAIN kids[p] : x = kids[p][i]
      <4>1. PICK q \in PlacesAt(value, n + 1) : x = At(value, q)
        BY ONLY <2>6, <3>1
      <4>2. PICK p \in P : \E i \in DOMAIN kids[p] : q = Append(p, i)
        BY ONLY <2>4
      <4>3. PICK i \in DOMAIN kids[p] : q = Append(p, i)
        BY ONLY <4>2
      <4>4. At(value, Append(p, i)) = kids[p][i]
        BY ONLY <2>3
      <4> QED BY ONLY <4>1, <4>3, <4>4
    <3>2. ASSUME NEW x, NEW p \in P, NEW i \in DOMAIN kids[p], x = kids[p][i]
          PROVE  x \in ValuesAt(value, n + 1)
      BY ONLY <2>3, <2>4, <2>6, <3>2
    <3> QED BY ONLY <3>1, <3>2
  <2>8. \A x : x \in UNION {Kids(v) : v \in ValuesAt(value, n)} <=>
               \E p \in P : x \in Kids(At(value, p))
    <3>1. \A x : x \in UNION {Kids(v) : v \in ValuesAt(value, n)} <=>
                 \E v \in ValuesAt(value, n) : x \in Kids(v)
      OBVIOUS
    <3>2. \A v : v \in ValuesAt(value, n) <=> \E p \in P : v = At(value, p)
      BY DEF ValuesAt
    <3> HIDE DEF P
    <3> QED BY ONLY <3>1, <3>2
  <2>9. \A p \in P : \A x : x \in Kids(At(value, p)) <=> \E i \in DOMAIN kids[p] : x = kids[p][i]
    BY ONLY <2>2
  <2>10. ValuesAt(value, n + 1) = UNION {Kids(v) : v \in ValuesAt(value, n)}
    <3> HIDE DEF P, kids
    <3>1. \A x : x \in ValuesAt(value, n + 1) <=> x \in UNION {Kids(v) : v \in ValuesAt(value, n)}
      BY ONLY <2>7, <2>8, <2>9
    <3> QED BY ONLY <3>1
  <2> QED BY <2>5, <2>10
<1> QED BY <1>1, <1>2

\* A value that ends, above depth n, and is in sequences.
Ends(value, n) ==
    /\ n \in 0..MaxNesting /\ PlacesAt(value, n) = {}
    /\ \A k \in 0..n : \A v \in ValuesAt(value, k) : Sound(v)

\* The values within a value that ends come in layers, from what has no kids up.
Layered(value, n, layers) ==
    /\ layers \in [0..n -> SUBSET Within(value)]
    /\ layers[0] = {} /\ layers[n] = Within(value)
    /\ \A k \in 0..(n - 1) : layers[k] \subseteq layers[k + 1]
    /\ \A k \in 0..(n - 1) : \A v \in layers[k + 1] : Sound(v) /\ Kids(v) \subseteq layers[k]

\* The places of a value that ends, depth by depth.
LEMMA EndsMeans ==
    ASSUME NEW value, NEW n, Ends(value, n)
    PROVE  /\ n \in Nat /\ n # 0 /\ MaxNesting \in Nat
           /\ \A k \in 0..n : PlacesAt(value, k) \subseteq Seq(Nat)
           /\ \A k \in 0..(n - 1) :
                ValuesAt(value, k + 1) = UNION {Kids(v) : v \in ValuesAt(value, k)}
           /\ \A k \in n..MaxNesting : PlacesAt(value, k) = {} /\ ValuesAt(value, k) = {}
           /\ Within(value) = UNION {ValuesAt(value, k) : k \in 0..n}
           /\ value \in Within(value)
<1>1. MaxNesting \in Nat /\ n \in 0..MaxNesting /\ n \in Nat
  BY NestingAssumption DEF Ends
<1>2. n # 0
  BY PlacesMean DEF Ends
<1>3. \A k \in 0..n : PlacesAt(value, k) \subseteq Seq(Nat)
  <2> DEFINE T == {k \in 0..n : PlacesAt(value, k) \subseteq Seq(Nat)}
  <2>1. 0 \in T
    BY <1>1, OneDeeper
  <2>2. ASSUME NEW k \in 0..n, k < n, k \in T PROVE k + 1 \in T
    <3>1. k \in Nat /\ k + 1 \in 0..n
      BY <1>1, <2>2
    <3>2. PlacesAt(value, k) \subseteq Seq(Nat) /\ \A v \in ValuesAt(value, k) : Sound(v)
      BY <2>2 DEF Ends
    <3>3. PlacesAt(value, k + 1) \subseteq Seq(Nat)
      BY ONLY <3>1, <3>2, OneDeeper
    <3> QED BY <3>1, <3>3
  <2>3. \A k \in 0..n : k \in T
    <3> HIDE DEF T
    <3> QED BY ONLY <1>1, <2>1, <2>2, UpTo
  <2> QED BY <2>3
<1>4. ASSUME NEW k \in 0..(n - 1)
      PROVE  ValuesAt(value, k + 1) = UNION {Kids(v) : v \in ValuesAt(value, k)}
  <2>1. k \in Nat /\ k \in 0..n
    BY <1>1
  <2>2. \A v \in ValuesAt(value, k) : Sound(v)
    BY <2>1 DEF Ends
  <2> QED BY ONLY <1>3, <2>1, <2>2, OneDeeper
<1>5. \A k \in n..MaxNesting : PlacesAt(value, k) = {}
  <2> DEFINE T == {j \in 0..(MaxNesting - n) : PlacesAt(value, n + j) = {}}
  <2>1. MaxNesting - n \in Nat /\ \A k \in n..MaxNesting : k - n \in 0..(MaxNesting - n) /\ n + (k - n) = k
    BY ONLY <1>1
  <2>2. 0 \in T
    BY <1>1, <2>1 DEF Ends
  <2>3. ASSUME NEW j \in 0..(MaxNesting - n), j < MaxNesting - n, j \in T PROVE j + 1 \in T
    <3>1. n + j \in Nat /\ n + (j + 1) = (n + j) + 1 /\ j + 1 \in 0..(MaxNesting - n)
      BY <1>1, <2>3
    <3>2. PlacesAt(value, (n + j) + 1) = Below(value, {})
      BY <2>3, <3>1, PlacesMean
    <3>3. Below(value, {}) = {}
      BY DEF Below
    <3> QED BY <3>1, <3>2, <3>3
  <2>4. \A j \in 0..(MaxNesting - n) : j \in T
    <3> HIDE DEF T
    <3> QED BY ONLY <2>1, <2>2, <2>3, UpTo
  <2>5. \A j \in 0..(MaxNesting - n) : PlacesAt(value, n + j) = {}
    BY ONLY <2>4
  <2> HIDE DEF T
  <2> QED BY ONLY <2>1, <2>5
<1>6. \A k \in n..MaxNesting : ValuesAt(value, k) = {}
  BY <1>5 DEF ValuesAt
<1>7. Within(value) = UNION {ValuesAt(value, k) : k \in 0..MaxNesting}
  BY DEF Within, Places, ValuesAt
<1>8. \A k : k \in 0..MaxNesting <=> k \in 0..n \/ k \in n..MaxNesting
  BY ONLY <1>1
<1>9. Within(value) = UNION {ValuesAt(value, k) : k \in 0..n}
  BY ONLY <1>6, <1>7, <1>8
<1>10. value \in Within(value)
  <2>1. 0 \in 0..n /\ ValuesAt(value, 0) = {value}
    BY <1>1, OneDeeper
  <2> QED BY ONLY <1>9, <2>1
<1> QED BY <1>1, <1>2, <1>3, <1>4, <1>5, <1>6, <1>9, <1>10

\* There are such layers.
LEMMA Layers ==
    ASSUME NEW value, NEW n, Ends(value, n) PROVE \E layers : Layered(value, n, layers)
<1> DEFINE layers == [k \in 0..n |-> UNION {ValuesAt(value, j) : j \in (n - k)..n}]
<1>1. /\ n \in Nat /\ n # 0
      /\ \A k \in 0..(n - 1) :
           ValuesAt(value, k + 1) = UNION {Kids(v) : v \in ValuesAt(value, k)}
      /\ ValuesAt(value, n) = {}
      /\ Within(value) = UNION {ValuesAt(value, k) : k \in 0..n}
  <2>1. n \in n..MaxNesting
    BY DEF Ends
  <2> QED BY <2>1, EndsMeans
<1>2. \A k \in 0..n : \A v : v \in layers[k] <=> \E j \in (n - k)..n : v \in ValuesAt(value, j)
  OBVIOUS
<1>3. DOMAIN layers = 0..n /\ layers = [k \in 0..n |-> layers[k]]
  OBVIOUS
<1> HIDE DEF layers
<1>4. \A v : v \in Within(value) <=> \E j \in 0..n : v \in ValuesAt(value, j)
  BY ONLY <1>1
<1>5. layers[0] = {}
  <2>1. 0 \in 0..n /\ \A j : j \in (n - 0)..n <=> j = n
    BY ONLY <1>1
  <2> QED BY ONLY <1>1, <1>2, <2>1
<1>6. layers[n] = Within(value)
  <2>1. n \in 0..n /\ \A j : j \in (n - n)..n <=> j \in 0..n
    BY ONLY <1>1
  <2>2. \A v : v \in layers[n] <=> v \in Within(value)
    BY ONLY <1>2, <1>4, <2>1
  <2> QED BY ONLY <2>2
<1>7. layers \in [0..n -> SUBSET Within(value)]
  <2>1. \A k \in 0..n : \A j \in (n - k)..n : j \in 0..n
    BY ONLY <1>1
  <2>2. \A k \in 0..n : layers[k] \subseteq Within(value)
    BY ONLY <1>2, <1>4, <2>1
  <2> QED BY ONLY <1>3, <2>2
<1>8. ASSUME NEW k \in 0..(n - 1)
      PROVE  /\ layers[k] \subseteq layers[k + 1]
             /\ \A v \in layers[k + 1] : Sound(v) /\ Kids(v) \subseteq layers[k]
  <2>1. /\ k \in 0..n /\ k + 1 \in 0..n
        /\ \A j \in (n - k)..n : j \in (n - (k + 1))..n
        /\ \A j \in (n - (k + 1))..n : j # n => j \in 0..(n - 1) /\ j + 1 \in (n - k)..n
        /\ \A j \in (n - (k + 1))..n : j \in 0..n
    BY ONLY <1>1
  <2>2. layers[k] \subseteq layers[k + 1]
    BY ONLY <1>2, <2>1
  <2>3. ASSUME NEW v \in layers[k + 1] PROVE Sound(v) /\ Kids(v) \subseteq layers[k]
    <3>1. PICK j \in (n - (k + 1))..n : v \in ValuesAt(value, j)
      BY ONLY <1>2, <2>1
    <3>2. j \in 0..(n - 1) /\ j + 1 \in (n - k)..n /\ j \in 0..n
      BY ONLY <1>1, <2>1, <3>1
    <3>3. Sound(v)
      BY <3>1, <3>2 DEF Ends
    <3>4. Kids(v) \subseteq ValuesAt(value, j + 1)
      BY ONLY <1>1, <3>1, <3>2
    <3>5. ValuesAt(value, j + 1) \subseteq layers[k]
      BY ONLY <1>2, <2>1, <3>2
    <3> QED BY ONLY <3>3, <3>4, <3>5
  <2> QED BY <2>2, <2>3
<1>9. Layered(value, n, layers)
  BY ONLY <1>5, <1>6, <1>7, <1>8 DEF Layered
<1> QED BY <1>9

------------------------------------------------------------------------------
(* The canonical form                                                      *)

\* The canonical form of a value, with that of its kids from f.
CanonicalMembers(f, v) ==
    [i \in DOMAIN v.members |->
        LET m == v.members[i]
        IN  [key |-> m.key, means |-> m.means, value |-> f[m.value]]]
CanonicalOf(f, v) ==
    [kind    |-> v.kind, text |-> v.text,
     members |-> ByKey(CanonicalMembers(f, v)),
     items   |-> [i \in DOMAIN v.items |-> f[v.items[i]]]]
CanonicalMap(f, S) == f = [v \in S |-> CanonicalOf(f, v)]

\* What a value says, with what its kids say from f.
SaysOf(f, v) ==
    [kind    |-> v.kind, text |-> v.text,
     members |-> {<<v.members[i].key, f[v.members[i].value]>> : i \in DOMAIN v.members},
     items   |-> [i \in DOMAIN v.items |-> f[v.items[i]]]]
SaysMap(f, S) == f = [v \in S |-> SaysOf(f, v)]

\* Both depend on the kids alone.
LEMMA OfKids ==
    ASSUME NEW v, NEW f, NEW g, \A w \in Kids(v) : f[w] = g[w]
    PROVE  CanonicalOf(f, v) = CanonicalOf(g, v) /\ SaysOf(f, v) = SaysOf(g, v)
<1>1. \A i \in DOMAIN v.members : f[v.members[i].value] = g[v.members[i].value]
  BY DEF Kids
<1>2. \A i \in DOMAIN v.items : f[v.items[i]] = g[v.items[i]]
  BY DEF Kids, ToSet
<1>3. CanonicalMembers(f, v) = CanonicalMembers(g, v)
  BY ONLY <1>1 DEF CanonicalMembers
<1>4. [i \in DOMAIN v.items |-> f[v.items[i]]] = [i \in DOMAIN v.items |-> g[v.items[i]]]
  BY ONLY <1>2
<1>5. {<<v.members[i].key, f[v.members[i].value]>> : i \in DOMAIN v.members} =
      {<<v.members[i].key, g[v.members[i].value]>> : i \in DOMAIN v.members}
  BY ONLY <1>1
<1> QED BY ONLY <1>3, <1>4, <1>5 DEF CanonicalOf, SaysOf

\* Layer by layer, a value that ends has a canonical form.
LEMMA CanonicalExists ==
    ASSUME NEW value, NEW n, Ends(value, n) PROVE \E f : CanonicalMap(f, Within(value))
<1>1. PICK layers : Layered(value, n, layers)
  BY Layers
<1>2. n \in Nat
  BY EndsMeans
<1> DEFINE T == {k \in 0..n : \E f : CanonicalMap(f, layers[k])}
<1>3. 0 \in T
  <2> DEFINE f == [v \in {} |-> v]
  <2>1. f = [v \in {} |-> CanonicalOf(f, v)]
    OBVIOUS
  <2>2. layers[0] = {}
    BY <1>1 DEF Layered
  <2>3. CanonicalMap(f, layers[0])
    BY ONLY <2>1, <2>2 DEF CanonicalMap
  <2> QED BY <1>2, <2>3
<1>4. ASSUME NEW k \in 0..n, k < n, k \in T PROVE k + 1 \in T
  <2>1. PICK f : CanonicalMap(f, layers[k])
    BY <1>4
  <2> DEFINE g == [v \in layers[k + 1] |-> CanonicalOf(f, v)]
  <2>2. k \in 0..(n - 1) /\ k + 1 \in 0..n
    BY <1>2, <1>4
  <2>3. /\ layers[k] \subseteq layers[k + 1]
        /\ \A v \in layers[k + 1] : Kids(v) \subseteq layers[k]
    BY <1>1, <2>2 DEF Layered
  <2>4. \A v \in layers[k] : f[v] = CanonicalOf(f, v)
    BY ONLY <2>1 DEF CanonicalMap
  <2>5. \A v \in layers[k] : g[v] = f[v]
    BY ONLY <2>3, <2>4
  <2>6. \A v \in layers[k + 1] : CanonicalOf(f, v) = CanonicalOf(g, v)
    <3> HIDE DEF g
    <3> QED BY ONLY <2>3, <2>5, OfKids
  <2>7. CanonicalMap(g, layers[k + 1])
    BY ONLY <2>6 DEF CanonicalMap
  <2> QED BY <2>2, <2>7
<1>5. \A k \in 0..n : k \in T
  <2> HIDE DEF T
  <2> QED BY ONLY <1>2, <1>3, <1>4, UpTo
<1>6. layers[n] = Within(value) /\ n \in 0..n
  BY <1>1, <1>2 DEF Layered
<1> QED BY <1>5, <1>6

\* Layer by layer, it says something.
LEMMA SaysExists ==
    ASSUME NEW value, NEW n, Ends(value, n) PROVE \E f : SaysMap(f, Within(value))
<1>1. PICK layers : Layered(value, n, layers)
  BY Layers
<1>2. n \in Nat
  BY EndsMeans
<1> DEFINE T == {k \in 0..n : \E f : SaysMap(f, layers[k])}
<1>3. 0 \in T
  <2> DEFINE f == [v \in {} |-> v]
  <2>1. f = [v \in {} |-> SaysOf(f, v)]
    OBVIOUS
  <2>2. layers[0] = {}
    BY <1>1 DEF Layered
  <2>3. SaysMap(f, layers[0])
    BY ONLY <2>1, <2>2 DEF SaysMap
  <2> QED BY <1>2, <2>3
<1>4. ASSUME NEW k \in 0..n, k < n, k \in T PROVE k + 1 \in T
  <2>1. PICK f : SaysMap(f, layers[k])
    BY <1>4
  <2> DEFINE g == [v \in layers[k + 1] |-> SaysOf(f, v)]
  <2>2. k \in 0..(n - 1) /\ k + 1 \in 0..n
    BY <1>2, <1>4
  <2>3. /\ layers[k] \subseteq layers[k + 1]
        /\ \A v \in layers[k + 1] : Kids(v) \subseteq layers[k]
    BY <1>1, <2>2 DEF Layered
  <2>4. \A v \in layers[k] : f[v] = SaysOf(f, v)
    BY ONLY <2>1 DEF SaysMap
  <2>5. \A v \in layers[k] : g[v] = f[v]
    BY ONLY <2>3, <2>4
  <2>6. \A v \in layers[k + 1] : SaysOf(f, v) = SaysOf(g, v)
    <3> HIDE DEF g
    <3> QED BY ONLY <2>3, <2>5, OfKids
  <2>7. SaysMap(g, layers[k + 1])
    BY ONLY <2>6 DEF SaysMap
  <2> QED BY <2>2, <2>7
<1>5. \A k \in 0..n : k \in T
  <2> HIDE DEF T
  <2> QED BY ONLY <1>2, <1>3, <1>4, UpTo
<1>6. layers[n] = Within(value) /\ n \in 0..n
  BY <1>1, <1>2 DEF Layered
<1> QED BY <1>5, <1>6

\* The canonical form of a value and what it says are those of its map.
LEMMA MapsMean ==
    ASSUME NEW value, NEW n, Ends(value, n)
    PROVE  /\ \E f : CanonicalMap(f, Within(value)) /\ Canonical(value) = f[value]
           /\ \E f : SaysMap(f, Within(value)) /\ Says(value) = f[value]
<1> DEFINE c == CHOOSE f : CanonicalMap(f, Within(value))
           s == CHOOSE f : SaysMap(f, Within(value))
<1>1. CanonicalMap(c, Within(value)) /\ SaysMap(s, Within(value))
  BY CanonicalExists, SaysExists
<1>2. Canonical(value) = c[value]
  BY Zenon DEF Canonical, CanonicalMap, CanonicalOf, CanonicalMembers
<1>3. Says(value) = s[value]
  BY Zenon DEF Says, SaysMap, SaysOf
<1> HIDE DEF c, s
<1> QED BY <1>1, <1>2, <1>3

\* Members in the order of their keys are the members, in that order.
LEMMA ByKeyMeans ==
    ASSUME NEW members, IsSequence(members), Distinct(members),
           \A i \in DOMAIN members : members[i].key \in Nat
    PROVE  /\ IsSequence(ByKey(members)) /\ DOMAIN ByKey(members) = DOMAIN members
           /\ \A i, j \in DOMAIN members : i < j => ByKey(members)[i].key < ByKey(members)[j].key
           /\ \A i \in DOMAIN members : \E j \in DOMAIN members : ByKey(members)[i] = members[j]
           /\ \A j \in DOMAIN members : \E i \in DOMAIN members : ByKey(members)[i] = members[j]
<1> DEFINE n == Len(members)
           keys == [i \in DOMAIN members |-> members[i].key]
           c == ByKey(members)
<1>1. n \in Nat /\ DOMAIN members = 1..n
  BY SequenceHas
<1>2. /\ DOMAIN keys = 1..n /\ \A i \in 1..n : keys[i] \in Nat /\ keys[i] = members[i].key
  BY <1>1
<1>3. \A i, j \in 1..n : keys[i] = keys[j] => i = j
  BY <1>1 DEF Distinct
<1>4. c = SortBy(members, keys)
  BY DEF ByKey
<1> HIDE DEF n, keys, c
<1>5. PICK q \in [1..n -> 1..n] :
        /\ c = [k \in 1..n |-> members[q[k]]]
        /\ \A i \in 1..n : \E k \in 1..n : q[k] = i
        /\ \A k, l \in 1..n : q[k] = q[l] => k = l
        /\ \A k, l \in 1..n : Before(keys, q[k], q[l]) => k < l
  <2>1. Permuted(n, members, keys)
    BY ONLY <1>1, <1>2, SortPermutes
  <2> QED BY ONLY <1>4, <2>1 DEF Permuted
<1>6. DOMAIN c = 1..n /\ \A k \in 1..n : q[k] \in 1..n /\ c[k] = members[q[k]]
  BY ONLY <1>5
<1>7. IsSequence(c)
  <2>1. \A k \in 1..n : members[q[k]] \in {members[i] : i \in 1..n}
    BY ONLY <1>6
  <2>2. c \in Seq({members[i] : i \in 1..n})
    BY ONLY <1>1, <1>5, <2>1
  <2> QED BY ONLY <2>2, SequenceIs
<1>8. ASSUME NEW i \in 1..n, NEW j \in 1..n, i < j PROVE c[i].key < c[j].key
  <2>1. q[i] # q[j]
    BY ONLY <1>1, <1>5, <1>8
  <2>2. keys[q[i]] # keys[q[j]] /\ keys[q[i]] \in Nat /\ keys[q[j]] \in Nat
    BY ONLY <1>2, <1>3, <1>6, <2>1
  <2>3. ~(keys[q[j]] < keys[q[i]])
    <3>1. keys[q[j]] < keys[q[i]] => j < i
      BY ONLY <1>5 DEF Before
    <3> QED BY ONLY <1>1, <1>8, <3>1
  <2>4. keys[q[i]] < keys[q[j]]
    BY ONLY <2>2, <2>3
  <2> QED BY ONLY <1>2, <1>6, <2>4
<1>9. \A j \in 1..n : \E i \in 1..n : c[i] = members[j]
  BY ONLY <1>5, <1>6
<1> QED BY ONLY <1>1, <1>6, <1>7, <1>8, <1>9 DEF c

\* One value in canonical form: its kids are those of the value, in canonical
\* form, and its members are in order.
LEMMA CanonicalStep ==
    ASSUME NEW v, NEW f, Sound(v), Distinct(v.members),
           \A i \in DOMAIN v.members : v.members[i].key \in Nat
    PROVE  LET c == CanonicalOf(f, v)
           IN  /\ Sound(c)
               /\ Kids(c) = {f[u] : u \in Kids(v)}
               /\ \A i, j \in DOMAIN c.members : i < j => c.members[i].key < c.members[j].key
               /\ \A g, h : (\A u \in Kids(v) : h[f[u]] = g[u]) => SaysOf(h, c) = SaysOf(g, v)
<1> DEFINE m == v.members
           d == CanonicalMembers(f, v)
           e == ByKey(d)
           items == [i \in DOMAIN v.items |-> f[v.items[i]]]
           c == CanonicalOf(f, v)
           n == Len(m)
<1>1. /\ n \in Nat /\ DOMAIN m = 1..n
      /\ \A i \in 1..n : m[i].key \in Nat /\ m[i].value \in Kids(v)
      /\ \A i, j \in 1..n : m[i].key = m[j].key => i = j
  BY SequenceHas DEF Sound, Distinct, Kids
<1>2. /\ DOMAIN d = 1..n
      /\ \A i \in 1..n : d[i].key = m[i].key /\ d[i].value = f[m[i].value]
  BY <1>1 DEF CanonicalMembers
<1>3. IsSequence(d)
  <2>1. d \in [1..n -> {d[i] : i \in 1..n}]
    BY <1>1 DEF CanonicalMembers
  <2> HIDE DEF d, n
  <2> DEFINE S == {d[i] : i \in 1..n}
  <2>2. n \in Nat /\ d \in [1..n -> S]
    BY ONLY <1>1, <2>1
  <2> HIDE DEF S
  <2>3. d \in Seq(S)
    BY ONLY <2>2
  <2> QED BY ONLY <2>3, SequenceIs
<1>4. /\ c.kind = v.kind /\ c.text = v.text /\ c.members = e /\ c.items = items
  BY DEF CanonicalOf
<1>5. /\ IsSequence(e) /\ DOMAIN e = 1..n
      /\ \A i, j \in 1..n : i < j => e[i].key < e[j].key
      /\ \A i \in 1..n : \E j \in 1..n : e[i] = d[j]
      /\ \A j \in 1..n : \E i \in 1..n : e[i] = d[j]
  <2> HIDE DEF d, e, n, c, items
  <2>1. Distinct(d) /\ \A i \in DOMAIN d : d[i].key \in Nat
    BY ONLY <1>1, <1>2 DEF Distinct
  <2>2. /\ IsSequence(ByKey(d)) /\ DOMAIN ByKey(d) = DOMAIN d
        /\ \A i, j \in DOMAIN d : i < j => ByKey(d)[i].key < ByKey(d)[j].key
        /\ \A i \in DOMAIN d : \E j \in DOMAIN d : ByKey(d)[i] = d[j]
        /\ \A j \in DOMAIN d : \E i \in DOMAIN d : ByKey(d)[i] = d[j]
    BY ONLY <1>3, <2>1, ByKeyMeans
  <2>3. DOMAIN d = 1..n /\ e = ByKey(d)
    BY <1>2 DEF e
  <2> QED BY ONLY <2>2, <2>3
<1>6. IsSequence(items)
  <2>1. Len(v.items) \in Nat /\ DOMAIN v.items = 1..Len(v.items)
    BY SequenceHas DEF Sound
  <2>2. items \in Seq({f[v.items[i]] : i \in DOMAIN v.items})
    BY ONLY <2>1
  <2> HIDE DEF items
  <2> QED BY ONLY <2>2, SequenceIs
<1>7. Sound(c)
  BY <1>4, <1>5, <1>6 DEF Sound
<1>8. DOMAIN items = DOMAIN v.items /\ \A i \in DOMAIN v.items : items[i] = f[v.items[i]]
  OBVIOUS
<1>9. \A x : x \in Kids(v) <=> (\E i \in 1..n : x = m[i].value) \/ \E i \in DOMAIN v.items : x = v.items[i]
  BY <1>1 DEF Kids, ToSet
<1>10. \A x : x \in Kids(c) <=> (\E i \in 1..n : x = e[i].value) \/ \E i \in DOMAIN v.items : x = items[i]
  <2> HIDE DEF m, d, e, items, c, n
  <2>1. \A x : x \in Kids(c) <=> (\E i \in DOMAIN c.members : x = c.members[i].value)
                                 \/ \E i \in DOMAIN c.items : x = c.items[i]
    BY ONLY DEF Kids, ToSet
  <2>2. c.members = e /\ c.items = items
    BY ONLY <1>4
  <2>3. \A x : x \in Kids(c) <=> (\E i \in DOMAIN e : x = e[i].value)
                                 \/ \E i \in DOMAIN items : x = items[i]
    BY ONLY <2>1, <2>2, Zenon
  <2>4. DOMAIN e = 1..n /\ DOMAIN items = DOMAIN v.items
    BY ONLY <1>5, <1>8
  <2> QED BY ONLY <2>3, <2>4, Zenon
<1> HIDE DEF m, d, e, items, c, n
<1>11. Kids(c) = {f[u] : u \in Kids(v)}
  <2>1. ASSUME NEW x, x \in Kids(c) PROVE \E u \in Kids(v) : x = f[u]
    <3>1. CASE \E i \in 1..n : x = e[i].value
      <4>1. PICK i \in 1..n : x = e[i].value
        BY <3>1
      <4>2. PICK j \in 1..n : e[i] = d[j]
        BY ONLY <1>5
      <4> QED BY ONLY <1>1, <1>2, <4>1, <4>2
    <3>2. CASE \E i \in DOMAIN v.items : x = items[i]
      BY ONLY <1>8, <1>9, <3>2
    <3> QED BY ONLY <1>10, <2>1, <3>1, <3>2
  <2>2. ASSUME NEW u \in Kids(v) PROVE f[u] \in Kids(c)
    <3>1. CASE \E i \in 1..n : u = m[i].value
      <4>1. PICK j \in 1..n : u = m[j].value
        BY <3>1
      <4>2. PICK i \in 1..n : e[i] = d[j]
        BY ONLY <1>5
      <4> QED BY ONLY <1>2, <1>10, <4>1, <4>2
    <3>2. CASE \E i \in DOMAIN v.items : u = v.items[i]
      BY ONLY <1>8, <1>10, <3>2
    <3> QED BY ONLY <1>9, <2>2, <3>1, <3>2
  <2> QED BY ONLY <2>1, <2>2
<1>12. \A i, j \in DOMAIN c.members : i < j => c.members[i].key < c.members[j].key
  BY ONLY <1>4, <1>5
<1>13. ASSUME NEW g, NEW h, \A u \in Kids(v) : h[f[u]] = g[u]
       PROVE  SaysOf(h, c) = SaysOf(g, v)
  <2>1. \A i \in 1..n : h[d[i].value] = g[m[i].value]
    BY ONLY <1>1, <1>2, <1>13
  <2>2. \A i \in DOMAIN v.items : h[items[i]] = g[v.items[i]]
    BY ONLY <1>8, <1>9, <1>13
  <2>3. {<<e[i].key, h[e[i].value]>> : i \in 1..n} = {<<m[i].key, g[m[i].value]>> : i \in 1..n}
    <3> DEFINE A == {<<e[i].key, h[e[i].value]>> : i \in 1..n}
               B == {<<m[i].key, g[m[i].value]>> : i \in 1..n}
    <3>1. \A i \in 1..n : \E j \in 1..n : <<e[i].key, h[e[i].value]>> = <<m[j].key, g[m[j].value]>>
      <4> SUFFICES ASSUME NEW i \in 1..n
                   PROVE  \E j \in 1..n : <<e[i].key, h[e[i].value]>> = <<m[j].key, g[m[j].value]>>
        OBVIOUS
      <4>1. PICK j \in 1..n : e[i] = d[j]
        BY ONLY <1>5
      <4>2. e[i].key = m[j].key /\ h[e[i].value] = g[m[j].value]
        BY ONLY <1>2, <2>1, <4>1
      <4> QED BY ONLY <4>2
    <3>2. \A j \in 1..n : \E i \in 1..n : <<e[i].key, h[e[i].value]>> = <<m[j].key, g[m[j].value]>>
      <4> SUFFICES ASSUME NEW j \in 1..n
                   PROVE  \E i \in 1..n : <<e[i].key, h[e[i].value]>> = <<m[j].key, g[m[j].value]>>
        OBVIOUS
      <4>1. PICK i \in 1..n : e[i] = d[j]
        BY ONLY <1>5
      <4>2. e[i].key = m[j].key /\ h[e[i].value] = g[m[j].value]
        BY ONLY <1>2, <2>1, <4>1
      <4> QED BY ONLY <4>2
    <3>3. \A x : x \in A <=> \E i \in 1..n : x = <<e[i].key, h[e[i].value]>>
      OBVIOUS
    <3>4. \A x : x \in B <=> \E i \in 1..n : x = <<m[i].key, g[m[i].value]>>
      OBVIOUS
    <3> HIDE DEF A, B
    <3>5. ASSUME NEW x PROVE x \in A <=> x \in B
      <4>1. ASSUME x \in A PROVE x \in B
        <5>1. PICK i \in 1..n : x = <<e[i].key, h[e[i].value]>>
          BY ONLY <3>3, <4>1
        <5>2. PICK j \in 1..n : x = <<m[j].key, g[m[j].value]>>
          BY ONLY <3>1, <5>1
        <5> QED BY ONLY <3>4, <5>2
      <4>2. ASSUME x \in B PROVE x \in A
        <5>1. PICK j \in 1..n : x = <<m[j].key, g[m[j].value]>>
          BY ONLY <3>4, <4>2
        <5>2. PICK i \in 1..n : x = <<e[i].key, h[e[i].value]>>
          BY ONLY <3>2, <5>1
        <5> QED BY ONLY <3>3, <5>2
      <4> QED BY ONLY <4>1, <4>2
    <3> QED BY ONLY <3>5 DEF A, B
  <2>4. [i \in DOMAIN items |-> h[items[i]]] = [i \in DOMAIN v.items |-> g[v.items[i]]]
    BY ONLY <1>8, <2>2
  <2>5. SaysOf(h, c) = [kind |-> v.kind, text |-> v.text,
                        members |-> {<<e[i].key, h[e[i].value]>> : i \in 1..n},
                        items |-> [i \in DOMAIN items |-> h[items[i]]]]
    BY ONLY <1>4, <1>5 DEF SaysOf
  <2>6. SaysOf(g, v) = [kind |-> v.kind, text |-> v.text,
                        members |-> {<<m[i].key, g[m[i].value]>> : i \in 1..n},
                        items |-> [i \in DOMAIN v.items |-> g[v.items[i]]]]
    BY ONLY <1>1 DEF SaysOf, m
  <2> QED BY ONLY <2>3, <2>4, <2>5, <2>6
<1> QED BY ONLY <1>7, <1>11, <1>12, <1>13 DEF c

\* The canonical form of a value says what the value says, has its members in
\* order, and is no deeper (canonicalize_value).
THEOREM CanonicalMeans ==
    ASSUME NEW v, NEW n, Ends(v, n),
           \A w \in Within(v) : Distinct(w.members) /\ \A i \in DOMAIN w.members : w.members[i].key \in Nat
    PROVE  /\ Ends(Canonical(v), n) /\ Sorted(Canonical(v)) /\ Says(Canonical(v)) = Says(v)
<1> DEFINE c == Canonical(v)
           W == Within(v)
<1>1. PICK f : CanonicalMap(f, W) /\ c = f[v]
  BY MapsMean
<1> HIDE DEF c
<1>2. \A w \in W : f[w] = CanonicalOf(f, w)
  BY ONLY <1>1 DEF CanonicalMap
<1>3. /\ n \in Nat /\ n # 0 /\ MaxNesting \in Nat /\ n \in 0..MaxNesting
      /\ \A k \in 0..(n - 1) : ValuesAt(v, k + 1) = UNION {Kids(w) : w \in ValuesAt(v, k)}
      /\ ValuesAt(v, n) = {} /\ W = UNION {ValuesAt(v, k) : k \in 0..n} /\ v \in W
  <2>1. n \in n..MaxNesting /\ n \in 0..MaxNesting
    BY DEF Ends
  <2> QED BY <2>1, EndsMeans
<1>4. \A k \in 0..n : \A w \in ValuesAt(v, k) : w \in W /\ Sound(w)
  BY ONLY <1>3, Ends(v, n) DEF Ends
<1>5. \A w \in W : Sound(w)
  BY ONLY <1>3, <1>4
<1>6. ASSUME NEW w \in W
      PROVE  /\ Sound(f[w]) /\ Kids(f[w]) = {f[u] : u \in Kids(w)}
             /\ \A i, j \in DOMAIN f[w].members : i < j => f[w].members[i].key < f[w].members[j].key
             /\ \A g, h : (\A u \in Kids(w) : h[f[u]] = g[u]) => SaysOf(h, f[w]) = SaysOf(g, w)
  <2>1. Sound(w) /\ Distinct(w.members) /\ \A i \in DOMAIN w.members : w.members[i].key \in Nat
    BY <1>5
  <2> HIDE DEF W
  <2>2. f[w] = CanonicalOf(f, w)
    BY ONLY <1>2
  <2> QED BY ONLY <2>1, <2>2, CanonicalStep
<1>7. \A k \in 0..n : PlacesAt(c, k) \subseteq Seq(Nat) /\ ValuesAt(c, k) = {f[u] : u \in ValuesAt(v, k)}
  <2> DEFINE T == {k \in 0..n : /\ PlacesAt(c, k) \subseteq Seq(Nat)
                                /\ ValuesAt(c, k) = {f[u] : u \in ValuesAt(v, k)}}
  <2>1. 0 \in T
    <3>1. PlacesAt(c, 0) \subseteq Seq(Nat) /\ ValuesAt(c, 0) = {c} /\ ValuesAt(v, 0) = {v}
      BY ONLY OneDeeper
    <3>2. {f[u] : u \in {v}} = {f[v]} /\ 0 \in 0..n
      BY ONLY <1>3
    <3> QED BY ONLY <1>1, <3>1, <3>2
  <2>2. ASSUME NEW k \in 0..n, k < n, k \in T PROVE k + 1 \in T
    <3>1. k \in Nat /\ k \in 0..(n - 1) /\ k + 1 \in 0..n
      BY ONLY <1>3, <2>2
    <3>2. PlacesAt(c, k) \subseteq Seq(Nat) /\ ValuesAt(c, k) = {f[u] : u \in ValuesAt(v, k)}
      BY ONLY <2>2
    <3>3. \A w \in ValuesAt(c, k) : Sound(w)
      BY ONLY <1>4, <1>6, <3>2, k \in 0..n
    <3>4. /\ PlacesAt(c, k + 1) \subseteq Seq(Nat)
          /\ ValuesAt(c, k + 1) = UNION {Kids(w) : w \in ValuesAt(c, k)}
      BY ONLY <3>1, <3>2, <3>3, OneDeeper
    <3>5. ValuesAt(v, k + 1) = UNION {Kids(w) : w \in ValuesAt(v, k)}
      BY ONLY <1>3, <3>1
    <3>6. \A w \in ValuesAt(v, k) : Kids(f[w]) = {f[u] : u \in Kids(w)}
      BY ONLY <1>4, <1>6, k \in 0..n
    <3>7. ValuesAt(c, k + 1) = {f[u] : u \in ValuesAt(v, k + 1)}
      <4> DEFINE A == ValuesAt(v, k)
                 B == ValuesAt(v, k + 1)
                 C == ValuesAt(c, k + 1)
      <4>1. \A x : x \in C <=> \E w \in A : x \in Kids(f[w])
        BY ONLY <3>2, <3>4
      <4>2. \A x : x \in B <=> \E w \in A : x \in Kids(w)
        BY ONLY <3>5
      <4>3. \A w \in A : \A x : x \in Kids(f[w]) <=> \E u \in Kids(w) : x = f[u]
        BY ONLY <3>6
      <4> HIDE DEF A, B, C
      <4>4. \A x : x \in C <=> \E u \in B : x = f[u]
        <5>1. ASSUME NEW x, x \in C PROVE \E u \in B : x = f[u]
          <6>1. PICK w \in A : x \in Kids(f[w])
            BY ONLY <4>1, <5>1
          <6>2. PICK u \in Kids(w) : x = f[u]
            BY ONLY <4>3, <6>1
          <6> QED BY ONLY <4>2, <6>2
        <5>2. ASSUME NEW u \in B PROVE f[u] \in C
          <6>1. PICK w \in A : u \in Kids(w)
            BY ONLY <4>2
          <6>2. f[u] \in Kids(f[w])
            BY ONLY <4>3, <6>1
          <6> QED BY ONLY <4>1, <6>2
        <5> QED BY ONLY <5>1, <5>2
      <4>5. C = {f[u] : u \in B}
        BY ONLY <4>4
      <4> QED BY ONLY <4>5 DEF B, C
    <3> QED BY ONLY <3>1, <3>4, <3>7
  <2>3. \A k \in 0..n : k \in T
    <3> HIDE DEF T
    <3> QED BY ONLY <1>3, <2>1, <2>2, UpTo
  <2> QED BY ONLY <2>3
<1>8. Ends(c, n)
  <2>1. n \in 0..n
    BY ONLY <1>3
  <2>2. ValuesAt(c, n) = {}
    BY ONLY <1>3, <1>7, <2>1
  <2>3. PlacesAt(c, n) = {}
    BY ONLY <2>2 DEF ValuesAt
  <2>4. \A k \in 0..n : \A w \in ValuesAt(c, k) : Sound(w)
    BY ONLY <1>4, <1>6, <1>7
  <2> QED BY ONLY <1>3, <2>3, <2>4 DEF Ends
<1>9. Within(c) = {f[u] : u \in W}
  <2>1. Within(c) = UNION {ValuesAt(c, k) : k \in 0..n}
    BY ONLY <1>8, EndsMeans
  <2>2. \A x : x \in Within(c) <=> \E k \in 0..n : x \in ValuesAt(c, k)
    BY ONLY <2>1
  <2>3. \A x : x \in W <=> \E k \in 0..n : x \in ValuesAt(v, k)
    BY ONLY <1>3
  <2>4. \A k \in 0..n : \A x : x \in ValuesAt(c, k) <=> \E u \in ValuesAt(v, k) : x = f[u]
    BY ONLY <1>7
  <2> HIDE DEF W
  <2>5. \A x : x \in Within(c) <=> \E u \in W : x = f[u]
    BY ONLY <2>2, <2>3, <2>4
  <2> QED BY ONLY <2>5
<1>10. Sorted(c)
  BY ONLY <1>6, <1>9 DEF Sorted
<1>11. Says(c) = Says(v)
  <2>1. PICK s : SaysMap(s, W) /\ Says(v) = s[v]
    BY MapsMean
  <2>2. PICK t : SaysMap(t, Within(c)) /\ Says(c) = t[c]
    BY ONLY <1>8, MapsMean
  <2>3. PICK layers : Layered(v, n, layers)
    BY Layers
  <2>4. \A u \in W : s[u] = SaysOf(s, u)
    BY ONLY <2>1 DEF SaysMap
  <2>5. \A u \in W : t[f[u]] = SaysOf(t, f[u])
    BY ONLY <1>9, <2>2 DEF SaysMap
  <2> DEFINE T == {k \in 0..n : \A u \in layers[k] : t[f[u]] = s[u]}
  <2>6. 0 \in T
    BY ONLY <1>3, <2>3 DEF Layered
  <2>7. ASSUME NEW k \in 0..n, k < n, k \in T PROVE k + 1 \in T
    <3>1. k \in 0..(n - 1) /\ k + 1 \in 0..n
      BY ONLY <1>3, <2>7
    <3>2. layers[k + 1] \subseteq W /\ \A u \in layers[k + 1] : Kids(u) \subseteq layers[k]
      BY ONLY <2>3, <3>1 DEF Layered
    <3>3. ASSUME NEW u \in layers[k + 1] PROVE t[f[u]] = s[u]
      <4>1. u \in W /\ \A x \in Kids(u) : t[f[x]] = s[x]
        BY ONLY <2>7, <3>2
      <4>2. SaysOf(t, f[u]) = SaysOf(s, u)
        BY ONLY <1>6, <4>1
      <4> QED BY ONLY <2>4, <2>5, <4>1, <4>2
    <3> QED BY ONLY <3>1, <3>3
  <2>8. \A k \in 0..n : k \in T
    <3> HIDE DEF T
    <3> QED BY ONLY <1>3, <2>6, <2>7, UpTo
  <2>9. n \in 0..n /\ layers[n] = W
    BY ONLY <1>3, <2>3 DEF Layered
  <2>10. t[f[v]] = s[v]
    BY ONLY <1>3, <2>8, <2>9
  <2> QED BY ONLY <1>1, <2>1, <2>2, <2>10
<1> QED BY ONLY <1>8, <1>10, <1>11 DEF c

------------------------------------------------------------------------------
(* The entries of an inventory                                             *)

\* A value that is skipped, or kept, ends.
LEMMA SkipEnds ==
    ASSUME NEW value, IsValue(value), NEW depth \in Nat \ {0}, skip_value(value, depth)
    PROVE  Ends(value, MaxNesting - depth + 1)
<1> DEFINE n == MaxNesting - depth + 1
<1>1. depth <= MaxNesting /\ PlacesAt(value, n) = {}
  BY DEF skip_value
<1>2. MaxNesting \in Nat /\ n \in 0..MaxNesting
  BY <1>1, NestingAssumption
<1> HIDE DEF n
<1>3. \A k \in 0..n : k \in 0..(MaxNesting + 1)
  BY ONLY <1>2
<1>4. \A k \in 0..n : \A v \in ValuesAt(value, k) : Sound(v)
  BY <1>3 DEF IsValue, ValuesAt, Sound
<1> QED BY <1>1, <1>2, <1>4 DEF Ends, n

\* One sequence behind another has the elements of both.
LEMMA ConcatMeans ==
    ASSUME NEW a, NEW b, IsSequence(a), IsSequence(b)
    PROVE  /\ IsSequence(a \o b) /\ Len(a \o b) = Len(a) + Len(b)
           /\ ToSet(a \o b) = ToSet(a) \cup ToSet(b)
           /\ \A i \in 1..Len(a) : (a \o b)[i] = a[i]
           /\ \A i \in (Len(a) + 1)..Len(a \o b) : (a \o b)[i] \in ToSet(b)
<1> DEFINE S == ToSet(a) \cup ToSet(b)
           c == a \o b
           m == Len(a)
           n == Len(b)
<1>1. /\ m \in Nat /\ n \in Nat /\ DOMAIN a = 1..m /\ DOMAIN b = 1..n
  BY SequenceHas
<1>2. a \in Seq(S) /\ b \in Seq(S)
  <2>1. a \in Seq(ToSet(a)) /\ b \in Seq(ToSet(b))
    BY DEF IsSequence
  <2>2. a = [i \in 1..m |-> a[i]] /\ b = [i \in 1..n |-> b[i]]
    BY <2>1
  <2>3. (\A i \in 1..m : a[i] \in S) /\ \A i \in 1..n : b[i] \in S
    BY <1>1 DEF ToSet
  <2> HIDE DEF S
  <2> QED BY <1>1, <2>2, <2>3
<1> HIDE DEF c, m, n, S
<1>3. /\ c \in Seq(S) /\ Len(c) = m + n
      /\ \A i \in 1..(m + n) : c[i] = IF i <= m THEN a[i] ELSE b[i - m]
  BY ONLY <1>2, ConcatProperties DEF c, m, n
<1>4. DOMAIN c = 1..(m + n)
  BY ONLY <1>3
<1>5. /\ \A i \in 1..m : i \in 1..(m + n) /\ i <= m
      /\ \A i \in 1..n : m + i \in 1..(m + n) /\ ~(m + i <= m) /\ (m + i) - m = i
      /\ \A i \in 1..(m + n) : (i <= m => i \in 1..m) /\ (~(i <= m) => i - m \in 1..n)
      /\ \A i \in (m + 1)..(m + n) : i \in 1..(m + n) /\ ~(i <= m) /\ i - m \in 1..n
  BY ONLY <1>1
<1>6. \A x : /\ x \in ToSet(a) <=> \E i \in 1..m : x = a[i]
             /\ x \in ToSet(b) <=> \E i \in 1..n : x = b[i]
             /\ x \in ToSet(c) <=> \E i \in 1..(m + n) : x = c[i]
  BY ONLY <1>1, <1>4 DEF ToSet
<1>7. \A i \in 1..m : c[i] = a[i]
  BY ONLY <1>3, <1>5
<1>8. \A i \in 1..n : c[m + i] = b[i]
  BY ONLY <1>3, <1>5
<1>9. \A i \in (m + 1)..(m + n) : c[i] \in ToSet(b)
  BY ONLY <1>3, <1>5, <1>6
<1>10. ToSet(c) = ToSet(a) \cup ToSet(b)
  <2>1. ASSUME NEW x, x \in ToSet(c) PROVE x \in ToSet(a) \/ x \in ToSet(b)
    BY ONLY <1>3, <1>5, <1>6, <2>1
  <2>2. ASSUME NEW x, x \in ToSet(a) PROVE x \in ToSet(c)
    BY ONLY <1>5, <1>6, <1>7, <2>2
  <2>3. ASSUME NEW x, x \in ToSet(b) PROVE x \in ToSet(c)
    BY ONLY <1>5, <1>6, <1>8, <2>3
  <2> QED BY ONLY <2>1, <2>2, <2>3
<1>11. IsSequence(c)
  BY ONLY <1>3, SequenceIs
<1> QED BY ONLY <1>3, <1>7, <1>9, <1>10, <1>11 DEF c, m, n

\* The first member is the only one with a key.
OnlyFirst(members, key) ==
    /\ IsSequence(members) /\ Len(members) >= 1 /\ members[1].key = key
    /\ \A i \in 2..Len(members) : members[i].key # key

\* It still is with members of other keys behind.
LEMMA FirstStays ==
    ASSUME NEW a, NEW b, NEW key, OnlyFirst(a, key), IsSequence(b), \A m \in ToSet(b) : m.key # key
    PROVE  /\ OnlyFirst(a \o b, key) /\ (a \o b)[1] = a[1]
           /\ ToSet(a \o b) = ToSet(a) \cup ToSet(b)
<1>1. IsSequence(a) /\ Len(a) >= 1 /\ a[1].key = key /\ \A i \in 2..Len(a) : a[i].key # key
  BY DEF OnlyFirst
<1>2. Len(a) \in Nat /\ Len(b) \in Nat
  BY <1>1, SequenceHas
<1>3. /\ IsSequence(a \o b) /\ Len(a \o b) = Len(a) + Len(b)
      /\ ToSet(a \o b) = ToSet(a) \cup ToSet(b)
      /\ \A i \in 1..Len(a) : (a \o b)[i] = a[i]
      /\ \A i \in (Len(a) + 1)..Len(a \o b) : (a \o b)[i] \in ToSet(b)
  BY <1>1, ConcatMeans
<1> DEFINE c == a \o b
<1> HIDE DEF c
<1>4. 1 \in 1..Len(a) /\ Len(c) >= 1
  BY <1>1, <1>2, <1>3 DEF c
<1>5. \A i \in 2..Len(c) : i \in 2..Len(a) \/ i \in (Len(a) + 1)..Len(c)
  BY <1>2, <1>3 DEF c
<1>6. \A i \in 2..Len(a) : i \in 1..Len(a)
  BY <1>2
<1>7. \A i \in 2..Len(c) : c[i].key # key
  BY <1>1, <1>3, <1>5, <1>6 DEF c
<1> QED BY <1>1, <1>3, <1>4, <1>7 DEF c, OnlyFirst

\* What an entry holds under a key.
Held(item, key) ==
    IF key \in CanonicalKeys THEN Canonical(The(item.members, key)) ELSE The(item.members, key)

\* A member that is kept: what is held of it says what it said, and is in order
\* if it is kept in canonical form.
LEMMA HeldMeans ==
    ASSUME NEW item, IsTool(item), parse_tool_object(item),
           NEW key \in EntryKeys, Has(item.members, key)
    PROVE  /\ Says(Held(item, key)) = Says(The(item.members, key))
           /\ key \in CanonicalKeys => Sorted(Held(item, key))
           /\ key = "name" => Held(item, key).text \in Names
<1> DEFINE s == item.members
           value == The(s, key)
<1>1. IsSequence(s) /\ DOMAIN s = 1..Len(s)
  BY SequenceHas DEF IsTool
<1>2. /\ Plain(s, EntryKeys) /\ \A i \in 1..Len(s) : EntryTakes(s[i])
  <2>1. Taken(s, EntryKeys, {i \in DOMAIN s : EntryTakes(s[i])}) = Len(s)
    BY DEF parse_tool_object, AllTaken
  <2>2. Plain(s, EntryKeys) /\ \A i \in 1..Len(s) : i \in {j \in DOMAIN s : EntryTakes(s[j])}
    BY ONLY <1>1, <2>1, AllTakenMeans
  <2> QED BY <2>2
<1>3. PICK i \in 1..Len(s) : s[i].key = key /\ value = s[i].value
  BY <1>1, <1>2, OneReading
<1>4. EntryTakes(s[i]) /\ IsValue(value)
  BY <1>1, <1>2, <1>3 DEF IsTool
<1>6. CASE key \in CanonicalKeys
  <2>1. Capturable(value) /\ key # "name" /\ key # "description"
    BY <1>3, <1>4, <1>6 DEF EntryTakes, CanonicalKeys
  <2>2. skip_value(value, 4) /\ \A w \in Within(value) : Distinct(w.members)
    BY <2>1 DEF Capturable, Canonicalizable
  <2>3. \A w \in Within(value) : \A j \in DOMAIN w.members : w.members[j].key \in Nat
    BY <1>1, <1>3, <1>6 DEF IsTool
  <2> HIDE DEF value
  <2>4. Ends(value, MaxNesting - 4 + 1)
    BY ONLY <1>4, <2>2, SkipEnds
  <2>5. /\ Ends(Canonical(value), MaxNesting - 4 + 1) /\ Sorted(Canonical(value))
        /\ Says(Canonical(value)) = Says(value)
    BY ONLY <2>2, <2>3, <2>4, CanonicalMeans
  <2>7. Held(item, key) = Canonical(value)
    BY <1>6 DEF Held, value
  <2> QED BY <1>6, <2>1, <2>5, <2>7 DEF value
<1>7. CASE key \notin CanonicalKeys
  <2>1. Held(item, key) = value
    BY <1>7 DEF Held
  <2>4. key = "name" => value.text \in Names
    <3>1. ASSUME key = "name" PROVE value.kind = "string" /\ value.text # 0
      BY <1>3, <1>4, <3>1 DEF EntryTakes, CanonicalKeys
    <3>2. ASSUME key = "name" PROVE value.text \in Names \cup {0}
      BY <1>1, <1>3, <3>1, <3>2 DEF IsTool
    <3> QED BY <3>1, <3>2
  <2> QED BY <1>7, <2>1, <2>4
<1> QED BY <1>6, <1>7

\* The entry made of an accepted tool.
LEMMA InventoryEntryMeans ==
    ASSUME NEW item, IsTool(item), parse_tool_object(item)
    PROVE  LET e == InventoryEntry(item)
           IN  /\ OnlyFirst(e, "name") /\ e[1].value.text = ToolName(item)
               /\ EntryName(e) = ToolName(item) /\ ToolName(item) \in Names
               /\ ToSet(e) = {Pair(key, Held(item, key)) : key \in
                                {k \in EntryKeys : Has(item.members, k)}}
<1> DEFINE s == item.members
           Kept(key) == IF ~Has(s, key) THEN << >>
                        ELSE << Pair(key, IF key \in CanonicalKeys THEN Canonical(The(s, key))
                                          ELSE The(s, key)) >>
           e == InventoryEntry(item)
<1>1. \A key : IF Has(s, key) THEN Kept(key) = << Pair(key, Held(item, key)) >> ELSE Kept(key) = << >>
  BY DEF Held
<1>2. e = Kept("name") \o Kept("description") \o Kept("inputSchema") \o Kept("annotations")
  BY Zenon DEF InventoryEntry
<1> HIDE DEF Kept, e
<1>3. \A x : IsSequence(<< x >>) /\ Len(<< x >>) = 1 /\ << x >>[1] = x /\ ToSet(<< x >>) = {x}
  <2> SUFFICES ASSUME NEW x
               PROVE  IsSequence(<< x >>) /\ Len(<< x >>) = 1 /\ << x >>[1] = x /\ ToSet(<< x >>) = {x}
    OBVIOUS
  <2>1. << x >> \in Seq({x}) /\ Len(<< x >>) = 1 /\ << x >>[1] = x /\ DOMAIN << x >> = {1}
    OBVIOUS
  <2>2. ToSet(<< x >>) = {x}
    BY ONLY <2>1 DEF ToSet
  <2> QED BY <2>1, <2>2, SequenceIs
<1>4. IsSequence(<< >>) /\ ToSet(<< >>) = {}
  <2>1. << >> \in Seq({}) /\ DOMAIN << >> = {}
    OBVIOUS
  <2>2. ToSet(<< >>) = {}
    BY ONLY <2>1 DEF ToSet
  <2> QED BY <2>1, <2>2, SequenceIs
<1>5. \A key : /\ IsSequence(Kept(key)) /\ \A m \in ToSet(Kept(key)) : m.key = key
               /\ ToSet(Kept(key)) = {Pair(k, Held(item, k)) : k \in {k \in {key} : Has(s, k)}}
  <2> SUFFICES ASSUME NEW key
               PROVE  /\ IsSequence(Kept(key)) /\ \A m \in ToSet(Kept(key)) : m.key = key
                      /\ ToSet(Kept(key)) = {Pair(k, Held(item, k)) : k \in {k \in {key} : Has(s, k)}}
    OBVIOUS
  <2>1. CASE Has(s, key)
    <3>1. Kept(key) = << Pair(key, Held(item, key)) >> /\ Pair(key, Held(item, key)).key = key
      BY <1>1, <2>1 DEF Pair
    <3>2. ToSet(Kept(key)) = {Pair(key, Held(item, key))} /\ IsSequence(Kept(key))
      BY ONLY <1>3, <3>1
    <3>3. {k \in {key} : Has(s, k)} = {key}
      BY <2>1
    <3> QED BY ONLY <3>1, <3>2, <3>3
  <2>2. CASE ~Has(s, key)
    <3>1. Kept(key) = << >> /\ {k \in {key} : Has(s, k)} = {}
      BY <1>1, <2>2
    <3> QED BY ONLY <1>4, <3>1
  <2> QED BY <2>1, <2>2
<1>6. Has(s, "name") /\ "name" \in EntryKeys /\ "name" \notin CanonicalKeys
  BY DEF parse_tool_object, EntryKeys, CanonicalKeys
<1>7. /\ OnlyFirst(Kept("name"), "name")
      /\ Kept("name")[1] = Pair("name", The(s, "name"))
  <2>1. Kept("name") = << Pair("name", The(s, "name")) >> /\ Pair("name", The(s, "name")).key = "name"
    BY <1>1, <1>6 DEF Held, Pair
  <2> HIDE DEF s
  <2>2. /\ IsSequence(Kept("name")) /\ Len(Kept("name")) = 1
        /\ Kept("name")[1] = Pair("name", The(s, "name"))
    BY ONLY <1>3, <2>1
  <2>3. 1 >= 1 /\ 2..1 = {}
    OBVIOUS
  <2> QED BY ONLY <2>1, <2>2, <2>3 DEF OnlyFirst
<1> DEFINE a == Kept("name") \o Kept("description")
           b == a \o Kept("inputSchema")
<1>8. /\ OnlyFirst(a, "name") /\ a[1] = Pair("name", The(s, "name"))
      /\ ToSet(a) = ToSet(Kept("name")) \cup ToSet(Kept("description"))
  <2>1. \A m \in ToSet(Kept("description")) : m.key # "name"
    BY <1>5
  <2> QED BY ONLY <1>5, <1>7, <2>1, FirstStays
<1> HIDE DEF a
<1>9. /\ OnlyFirst(b, "name") /\ b[1] = Pair("name", The(s, "name"))
      /\ ToSet(b) = ToSet(a) \cup ToSet(Kept("inputSchema"))
  <2>1. \A m \in ToSet(Kept("inputSchema")) : m.key # "name"
    BY <1>5
  <2> QED BY ONLY <1>5, <1>8, <2>1, FirstStays
<1> HIDE DEF b
<1>10. /\ OnlyFirst(e, "name") /\ e[1] = Pair("name", The(s, "name"))
       /\ ToSet(e) = ToSet(b) \cup ToSet(Kept("annotations"))
  <2>1. \A m \in ToSet(Kept("annotations")) : m.key # "name"
    BY <1>5
  <2>2. e = b \o Kept("annotations")
    BY <1>2 DEF a, b
  <2> QED BY ONLY <1>5, <1>9, <2>1, <2>2, FirstStays
<1>11. ToSet(e) = {Pair(key, Held(item, key)) : key \in {k \in EntryKeys : Has(s, k)}}
  <2>1. \A k : k \in EntryKeys <=> k \in {"name"} \/ k \in {"description"}
                                   \/ k \in {"inputSchema"} \/ k \in {"annotations"}
    BY DEF EntryKeys, CanonicalKeys
  <2>2. ToSet(e) = ToSet(Kept("name")) \cup ToSet(Kept("description"))
                   \cup ToSet(Kept("inputSchema")) \cup ToSet(Kept("annotations"))
    BY ONLY <1>8, <1>9, <1>10
  <2>3. \A key : \A x : x \in ToSet(Kept(key)) <=>
                          \E k \in {key} : Has(s, k) /\ x = Pair(k, Held(item, k))
    BY <1>5
  <2>4. \A x : x \in {Pair(key, Held(item, key)) : key \in {k \in EntryKeys : Has(s, k)}} <=>
               \E k \in EntryKeys : Has(s, k) /\ x = Pair(k, Held(item, k))
    OBVIOUS
  <2>5. \A x : x \in ToSet(e) <=>
               \/ x \in ToSet(Kept("name")) \/ x \in ToSet(Kept("description"))
               \/ x \in ToSet(Kept("inputSchema")) \/ x \in ToSet(Kept("annotations"))
    BY ONLY <2>2
  <2>6. \A x : x \in ToSet(e) <=> \E k \in EntryKeys : Has(s, k) /\ x = Pair(k, Held(item, k))
    BY ONLY <2>1, <2>3, <2>5
  <2> QED BY ONLY <2>4, <2>6
<1>12. e[1].value.text = ToolName(item)
  BY <1>10 DEF Pair, ToolName
<1>13. EntryName(e) = ToolName(item)
  <2>1. IsSequence(e) /\ Len(e) >= 1 /\ e[1].key = "name" /\ \A i \in 2..Len(e) : e[i].key # "name"
    BY ONLY <1>10 DEF OnlyFirst
  <2>2. Len(e) \in Nat /\ DOMAIN e = 1..Len(e)
    BY ONLY <2>1, SequenceHas
  <2>3. 1 \in DOMAIN e /\ \A j \in DOMAIN e : e[j].key = "name" => 1 <= j
    BY ONLY <2>1, <2>2
  <2>4. The(e, "name") = e[1].value
    BY ONLY <2>1, <2>3, TheMeans
  <2> QED BY <1>12, <2>4 DEF EntryName
<1>14. ToolName(item) \in Names
  <2>1. Held(item, "name").text \in Names
    BY <1>6, HeldMeans
  <2> QED BY <1>6, <2>1 DEF Held, ToolName
<1> QED BY <1>10, <1>11, <1>12, <1>13, <1>14 DEF e

\* It says of each known member what the tool said.
LEMMA EntrySays ==
    ASSUME NEW item, IsTool(item), parse_tool_object(item)
    PROVE  EachSays(ToSet(InventoryEntry(item))) =
           EachSays({m \in ToSet(item.members) : m.means \in EntryKeys})
<1> DEFINE s == item.members
           e == ToSet(InventoryEntry(item))
           kept == {m \in ToSet(s) : m.means \in EntryKeys}
<1>1. IsSequence(s) /\ DOMAIN s = 1..Len(s)
  BY SequenceHas DEF IsTool
<1>2. Plain(s, EntryKeys)
  <2>1. Taken(s, EntryKeys, {i \in DOMAIN s : EntryTakes(s[i])}) = Len(s)
    BY DEF parse_tool_object, AllTaken
  <2> QED BY ONLY <1>1, <2>1, AllTakenMeans
<1>3. e = {Pair(key, Held(item, key)) : key \in {k \in EntryKeys : Has(s, k)}}
  BY InventoryEntryMeans
<1>4. \A key \in EntryKeys : Has(s, key) => Says(Held(item, key)) = Says(The(s, key))
  BY HeldMeans
<1>5. ASSUME NEW key \in EntryKeys, Has(s, key)
      PROVE  /\ \E m \in kept : m.key = key /\ m.value = The(s, key)
             /\ \A m \in kept : m.key = key => m.value = The(s, key)
  <2>1. /\ Readings(s, key) = {The(s, key)}
        /\ \E i \in 1..Len(s) : s[i].key = key /\ The(s, key) = s[i].value
    BY ONLY <1>1, <1>2, <1>5, OneReading
  <2>2. \A i \in 1..Len(s) : s[i].key = s[i].means
    BY ONLY <1>2 DEF Plain
  <2>3. \A m : m \in kept <=> m.means \in EntryKeys /\ \E i \in 1..Len(s) : m = s[i]
    BY <1>1 DEF ToSet
  <2> HIDE DEF kept, s
  <2>4. \A i \in 1..Len(s) : s[i].means = key => s[i].value \in Readings(s, key)
    BY ONLY <1>1 DEF Readings
  <2>5. \A m \in kept : m.key = key => m.value = The(s, key)
    BY ONLY <2>1, <2>2, <2>3, <2>4
  <2>6. \E m \in kept : m.key = key /\ m.value = The(s, key)
    <3>1. PICK i \in 1..Len(s) : s[i].key = key /\ The(s, key) = s[i].value
      BY ONLY <2>1
    <3>2. s[i].means \in EntryKeys
      BY ONLY <2>2, <3>1, key \in EntryKeys
    <3> QED BY ONLY <2>3, <3>1, <3>2
  <2> QED BY ONLY <2>5, <2>6
<1>6. \A m \in kept : m.key \in EntryKeys /\ Has(s, m.key)
  <2>1. \A m \in ToSet(s) : \E i \in 1..Len(s) : m = s[i]
    BY <1>1 DEF ToSet
  <2> QED BY <1>1, <1>2, <2>1 DEF Plain, Has
<1>7. \A key : Pair(key, Held(item, key)).key = key /\ Pair(key, Held(item, key)).value = Held(item, key)
  BY DEF Pair
<1>8. \A S, x : x \in EachSays(S) <=> \E m \in S : x = <<m.key, Says(m.value)>>
  BY DEF EachSays
<1> HIDE DEF s, e, kept
<1>9. ASSUME NEW x, x \in EachSays(e) PROVE x \in EachSays(kept)
  <2>1. PICK p \in e : x = <<p.key, Says(p.value)>>
    BY ONLY <1>8, <1>9
  <2>2. PICK key \in EntryKeys : Has(s, key) /\ p = Pair(key, Held(item, key))
    BY ONLY <1>3
  <2>3. x = <<key, Says(The(s, key))>>
    BY ONLY <1>4, <1>7, <2>1, <2>2
  <2>4. PICK m \in kept : m.key = key /\ m.value = The(s, key)
    BY ONLY <1>5, <2>2
  <2> QED BY ONLY <1>8, <2>3, <2>4
<1>10. ASSUME NEW x, x \in EachSays(kept) PROVE x \in EachSays(e)
  <2>1. PICK m \in kept : x = <<m.key, Says(m.value)>>
    BY ONLY <1>8, <1>10
  <2>2. m.key \in EntryKeys /\ Has(s, m.key) /\ m.value = The(s, m.key)
    BY ONLY <1>5, <1>6
  <2> DEFINE p == Pair(m.key, Held(item, m.key))
  <2>3. p \in e
    BY ONLY <1>3, <2>2
  <2>4. p.key = m.key /\ Says(p.value) = Says(m.value)
    BY ONLY <1>4, <1>7, <2>2
  <2> HIDE DEF p
  <2> QED BY ONLY <1>8, <2>1, <2>3, <2>4
<1>11. EachSays(e) = EachSays(kept)
  BY ONLY <1>9, <1>10
<1> QED BY <1>11 DEF e, kept, s

------------------------------------------------------------------------------
(* The inventory                                                           *)

\* The tools that a sequence of items lists.
IsListing(items) ==
    /\ IsSequence(items)
    /\ \A k \in DOMAIN items : IsTool(items[k]) /\ parse_tool_object(items[k])
    /\ \A i, j \in DOMAIN items : ToolName(items[i]) = ToolName(items[j]) => i = j

\* An accepted answer says one thing to every reader.
LEMMA ListMeans ==
    ASSUME NEW m, IsMessage(m), NEW id, parses_tools_list_response(m, id)
    PROVE  /\ Readings(m.members, "error") = {} /\ Readings(m.members, "method") = {}
           /\ UNION {ToSet(l.items) : l \in
                UNION {Readings(r.members, "tools") : r \in Readings(m.members, "result")}} =
              ToSet(ListedItems(m))
           /\ IsListing(ListedItems(m))
<1> DEFINE s == m.members
           result == The(s, "result")
           fields == result.members
           list == The(fields, "tools")
           items == ListedItems(m)
<1>1. IsSequence(s) /\ DOMAIN s = 1..Len(s)
  BY SequenceHas DEF IsMessage
<1>2. /\ Taken(s, EnvelopeKeys, {i \in DOMAIN s : ListTakes(s[i])}) = Len(s)
      /\ ~Has(s, "method") /\ Has(s, "result") /\ ~Has(s, "error")
  BY DEF parses_tools_list_response, AllTaken, IsResultFor
<1>3. Plain(s, EnvelopeKeys) /\ \A i \in 1..Len(s) : ListTakes(s[i])
  <2>1. Plain(s, EnvelopeKeys) /\ \A i \in 1..Len(s) : i \in {j \in DOMAIN s : ListTakes(s[j])}
    BY ONLY <1>1, <1>2, AllTakenMeans
  <2> QED BY <2>1
<1>4. "error" \in EnvelopeKeys /\ "method" \in EnvelopeKeys /\ "result" \in EnvelopeKeys
  BY DEF EnvelopeKeys
<1>5. /\ Readings(s, "error") = {} /\ Readings(s, "method") = {} /\ Readings(s, "result") = {result}
      /\ \E i \in 1..Len(s) : s[i].key = "result" /\ result = s[i].value
  BY ONLY <1>1, <1>2, <1>3, <1>4, OneReading
<1>6. PICK i \in 1..Len(s) : s[i].key = "result" /\ result = s[i].value
  BY ONLY <1>5
<1>7. parse_result_object(result)
  BY <1>3, <1>6 DEF ListTakes
<1>8. /\ IsSequence(fields)
      /\ \A j \in DOMAIN fields :
            /\ IsSequence(fields[j].value.items)
            /\ \A k \in DOMAIN fields[j].value.items : IsTool(fields[j].value.items[k])
  BY <1>1, <1>6 DEF IsMessage
<1> HIDE DEF result
<1>9. /\ Taken(fields, {"tools"}, {j \in DOMAIN fields : InventoryTakes(fields[j])}) = Len(fields)
      /\ Has(fields, "tools") /\ DOMAIN fields = 1..Len(fields)
  BY <1>7, <1>8, SequenceHas DEF parse_result_object, AllTaken
<1>10. Plain(fields, {"tools"}) /\ \A j \in 1..Len(fields) : InventoryTakes(fields[j])
  <2>1. Plain(fields, {"tools"})
        /\ \A j \in 1..Len(fields) : j \in {k \in DOMAIN fields : InventoryTakes(fields[k])}
    BY ONLY <1>8, <1>9, AllTakenMeans
  <2> QED BY <2>1
<1>11. /\ Readings(fields, "tools") = {list}
       /\ \E j \in 1..Len(fields) : fields[j].key = "tools" /\ list = fields[j].value
  BY ONLY <1>8, <1>9, <1>10, OneReading
<1>12. PICK j \in 1..Len(fields) : fields[j].key = "tools" /\ list = fields[j].value
  BY ONLY <1>11
<1>13. /\ \A k \in DOMAIN list.items : parse_tool_object(list.items[k])
       /\ \A k, l \in DOMAIN list.items :
             ToolName(list.items[k]) = ToolName(list.items[l]) => k = l
  BY <1>10, <1>12, Zenon DEF InventoryTakes
<1>14. IsSequence(list.items) /\ \A k \in DOMAIN list.items : IsTool(list.items[k])
  BY <1>8, <1>9, <1>12
<1>15. items = list.items
  BY DEF ListedItems, result
<1>16. IsListing(items)
  BY <1>13, <1>14, <1>15 DEF IsListing
<1>17. UNION {ToSet(l.items) : l \in UNION {Readings(r.members, "tools") : r \in Readings(s, "result")}} =
       ToSet(items)
  <2> HIDE DEF s, list, items
  <2>1. UNION {Readings(r.members, "tools") : r \in {result}} = {list}
    BY ONLY <1>11
  <2>2. UNION {ToSet(l.items) : l \in {list}} = ToSet(list.items)
    OBVIOUS
  <2> QED BY ONLY <1>5, <1>15, <2>1, <2>2
<1> QED BY <1>5, <1>16, <1>17

\* The entries are those of the tools, by name.
LEMMA InventoriedMeans ==
    ASSUME NEW m, IsListing(ListedItems(m))
    PROVE  LET items == ListedItems(m)
               n == Len(items)
           IN  \E q \in [1..n -> 1..n] :
                 /\ Inventoried(m) = [k \in 1..n |-> InventoryEntry(items[q[k]])]
                 /\ \A i \in 1..n : \E k \in 1..n : q[k] = i
                 /\ \A k, l \in 1..n :
                      k < l => ToolName(items[q[k]]) < ToolName(items[q[l]])
<1> DEFINE items == ListedItems(m)
           n == Len(items)
           entries == [i \in DOMAIN items |-> InventoryEntry(items[i])]
           keys == [i \in DOMAIN entries |-> EntryName(entries[i])]
<1>1. /\ n \in Nat /\ DOMAIN items = 1..n
      /\ \A i \in 1..n : IsTool(items[i]) /\ parse_tool_object(items[i])
      /\ \A i, j \in 1..n : ToolName(items[i]) = ToolName(items[j]) => i = j
  BY SequenceHas DEF IsListing
<1>2. \A i \in 1..n : EntryName(InventoryEntry(items[i])) = ToolName(items[i]) /\ ToolName(items[i]) \in Nat
  BY <1>1, InventoryEntryMeans, PolicyAssumption
<1>3. /\ DOMAIN entries = 1..n /\ \A i \in 1..n : entries[i] = InventoryEntry(items[i])
      /\ DOMAIN keys = 1..n /\ \A i \in 1..n : keys[i] = EntryName(entries[i])
  BY <1>1
<1>4. Inventoried(m) = SortBy(entries, keys)
  BY DEF Inventoried
<1> HIDE DEF items, n, entries, keys
<1>5. \A i \in 1..n : keys[i] \in Nat /\ keys[i] = ToolName(items[i])
  BY ONLY <1>2, <1>3
<1>6. PICK q \in [1..n -> 1..n] :
        /\ SortBy(entries, keys) = [k \in 1..n |-> entries[q[k]]]
        /\ \A i \in 1..n : \E k \in 1..n : q[k] = i
        /\ \A k, l \in 1..n : q[k] = q[l] => k = l
        /\ \A k, l \in 1..n : Before(keys, q[k], q[l]) => k < l
  <2>1. Permuted(n, entries, keys)
    BY ONLY <1>1, <1>3, <1>5, SortPermutes
  <2> QED BY ONLY <2>1 DEF Permuted
<1>7. \A k \in 1..n : q[k] \in 1..n
  BY ONLY <1>6
<1>8. Inventoried(m) = [k \in 1..n |-> InventoryEntry(items[q[k]])]
  BY ONLY <1>3, <1>4, <1>6, <1>7
<1>9. ASSUME NEW k \in 1..n, NEW l \in 1..n, k < l
      PROVE  ToolName(items[q[k]]) < ToolName(items[q[l]])
  <2>1. q[k] # q[l]
    BY ONLY <1>1, <1>6, <1>9
  <2>2. keys[q[k]] # keys[q[l]] /\ keys[q[k]] \in Nat /\ keys[q[l]] \in Nat
    BY ONLY <1>1, <1>5, <1>7, <2>1
  <2>3. ~(keys[q[l]] < keys[q[k]])
    <3>1. keys[q[l]] < keys[q[k]] => l < k
      BY ONLY <1>6 DEF Before
    <3> QED BY ONLY <1>1, <1>9, <3>1
  <2>4. keys[q[k]] < keys[q[l]]
    BY ONLY <2>2, <2>3
  <2> QED BY ONLY <1>5, <1>7, <2>4
<1> QED BY ONLY <1>6, <1>8, <1>9 DEF items, n

------------------------------------------------------------------------------
(* What policy create reads in it                                          *)

\* A tool as it is published is an object with one name.
LEMMA PublishedToolMeans ==
    ASSUME NEW e, OnlyFirst(e, "name"), e[1].value.text \in Names,
           e[1].value.text \notin LongNames,
           \A j \in DOMAIN e : e[j].key \in EntryKeys
    PROVE  LET t == ParseObject(PublishedTool(e), {"name"})
           IN  t.error = "none" /\ t.name = e[1].value.text
<1> DEFINE p == PublishedTool(e)
           n == Len(e)
<1>1. /\ n \in Nat /\ DOMAIN e = 1..n /\ n >= 1 /\ e[1].key = "name"
      /\ \A i \in 2..n : e[i].key # "name"
  BY SequenceHas DEF OnlyFirst
<1>2. /\ DOMAIN p = 1..n
      /\ \A j \in 1..n : /\ p[j].key = e[j].key /\ p[j].good /\ p[j].good \in BOOLEAN
                         /\ p[j].key = "name" => p[j].value = e[j].value.text
  <2>1. \A j \in 1..n : e[j].key = "name" => e[j].value.text \notin LongNames
    <3>1. \A j \in 1..n : j = 1 \/ j \in 2..n
      BY <1>1
    <3> QED BY <1>1, <3>1
  <2> HIDE DEF n
  <2>2. DOMAIN p = 1..n
    BY <1>1 DEF PublishedTool
  <2>3. ASSUME NEW j \in 1..n
        PROVE  /\ p[j].key = e[j].key /\ p[j].good /\ p[j].good \in BOOLEAN
               /\ p[j].key = "name" => p[j].value = e[j].value.text
    BY <1>1, <2>1 DEF PublishedTool
  <2> QED BY ONLY <2>2, <2>3
<1>3. IsSequence(p) /\ Len(p) = n
  <2>1. p = [j \in 1..n |-> p[j]]
    BY <1>1 DEF PublishedTool
  <2> HIDE DEF p, n
  <2>2. p \in Seq({p[j] : j \in 1..n}) /\ Len(p) = n
    BY ONLY <1>1, <2>1
  <2> QED BY ONLY <2>2, SequenceIs
<1> HIDE DEF p, n
<1>4. \A j \in 1..n : p[j].key = "name" => j = 1
  BY ONLY <1>1, <1>2
<1>5. IsObject(p)
  <2>1. \A j \in 1..n : p[j].key \notin AccessKeys
    BY <1>1, <1>2 DEF EntryKeys, CanonicalKeys, AccessKeys
  <2>2. \A j \in 1..n : p[j].key = "name" => p[j].value \in Names
    BY <1>1, <1>2, <1>4
  <2> QED BY <1>2, <1>3, <2>1, <2>2 DEF IsObject
<1>6. HasAll(p, {"name"})
  <2>1. 1 \in 1..n /\ p[1].key = "name"
    BY ONLY <1>1, <1>2
  <2>2. \A i, j \in 1..n : i < j => j # 1
    BY ONLY <1>1
  <2>3. SoundUpTo(p, {"name"}, Len(p))
    BY ONLY <1>2, <1>3, <1>4, <2>2 DEF SoundUpTo
  <2>4. \A key \in {"name"} : \E i \in 1..Len(p) : p[i].key = key
    BY ONLY <1>3, <2>1
  <2> QED BY ONLY <1>3, <2>3, <2>4, AllOnce
<1>7. Value(p, "name") = e[1].value.text
  <2>1. 1 \in 1..Len(p) /\ p[1].key = "name" /\ p[1].value = e[1].value.text
    BY ONLY <1>1, <1>2, <1>3
  <2>2. p[1].key \in {"name"}
    BY ONLY <2>1
  <2>3. Value(p, p[1].key) = p[1].value
    BY ONLY <1>3, <1>6, <2>1, <2>2, ValueOnce
  <2> QED BY ONLY <2>1, <2>3
<1>8. {"name"} \in SUBSET ObjectKeys /\ "name" \in {"name"}
  BY DEF ObjectKeys
<1> DEFINE t == ParseObject(p, {"name"})
<1>9. t.error = "none" /\ t["name"] = Value(p, "name")
  BY ONLY <1>5, <1>6, <1>8, ParseObjectMeans
<1> HIDE DEF t
<1>10. t.error = "none" /\ t.name = e[1].value.text
  BY ONLY <1>7, <1>9
<1> QED BY <1>10 DEF t, p

\* One entry of an inventory, as parse_tools_array takes it.
NameTaken(p, entry) ==
    LET t == ParseObject(entry, {"name"})
    IN  IF p.error # "none" THEN p
        ELSE IF Len(p.names) >= MaxTools THEN [p EXCEPT !.error = "excessive_tool_count"]
        ELSE IF t.error # "none" THEN [p EXCEPT !.error = t.error]
        ELSE IF Contains(p.names, t.name) THEN [p EXCEPT !.error = "duplicate_tool_name"]
        ELSE [p EXCEPT !.names = Append(@, t.name)]

\* The states before and after each entry, and before and after each member.
NamesRun(f, start, entries) ==
    f = [n \in 0..Len(entries) |-> IF n = 0 THEN start ELSE NameTaken(f[n - 1], entries[n])]
InventoryRun(f, members) ==
    f = [n \in 0..Len(members) |->
           IF n = 0 THEN FreshInventory ELSE ParseInventoryMember(f[n - 1], members[n])]

\* There is a state after each entry.
LEMMA RunExists ==
    ASSUME NEW start, NEW entries, Len(entries) \in Nat PROVE \E f : NamesRun(f, start, entries)
<1> DEFINE k == Len(entries)
           Run(f, m) == f = [n \in 0..m |-> IF n = 0 THEN start ELSE NameTaken(f[n - 1], entries[n])]
           T == {m \in 0..k : \E f : Run(f, m)}
<1>1. 0 \in T
  <2> DEFINE f == [n \in 0..0 |-> start]
  <2>1. f = [n \in 0..0 |-> f[n]] /\ \A n \in 0..0 : n = 0 /\ f[n] = start
    OBVIOUS
  <2> HIDE DEF f
  <2>2. f = [n \in 0..0 |-> IF n = 0 THEN start ELSE NameTaken(f[n - 1], entries[n])]
    BY ONLY <2>1
  <2>3. Run(f, 0)
    BY ONLY <2>2
  <2> HIDE DEF Run
  <2> QED BY <2>3
<1>2. ASSUME NEW m \in 0..k, m < k, m \in T PROVE m + 1 \in T
  <2>1. PICK f : Run(f, m)
    BY <1>2
  <2> DEFINE g == [n \in 0..(m + 1) |-> IF n = m + 1 THEN NameTaken(f[m], entries[m + 1]) ELSE f[n]]
  <2>2. \A n \in 0..m : f[n] = IF n = 0 THEN start ELSE NameTaken(f[n - 1], entries[n])
    BY ONLY <2>1
  <2>3. g = [n \in 0..(m + 1) |-> g[n]]
    OBVIOUS
  <2>4. /\ g[m + 1] = NameTaken(f[m], entries[m + 1])
        /\ \A n \in 0..m : g[n] = f[n]
    OBVIOUS
  <2>5. \A n \in 0..(m + 1) : /\ n = m + 1 \/ n \in 0..m
                             /\ n \in 0..m /\ n # 0 => n - 1 \in 0..m
    OBVIOUS
  <2>6. m \in Nat /\ m \in 0..m /\ m + 1 # 0 /\ (m + 1) - 1 = m /\ m + 1 \in 0..k
    BY <1>2
  <2> HIDE DEF g
  <2>7. \A n \in 0..(m + 1) : g[n] = IF n = 0 THEN start ELSE NameTaken(g[n - 1], entries[n])
    BY ONLY <2>2, <2>4, <2>5, <2>6
  <2>8. Run(g, m + 1)
    BY ONLY <2>3, <2>7
  <2> HIDE DEF Run
  <2> QED BY ONLY <2>6, <2>8 DEF T
<1>3. k \in T
  <2> HIDE DEF T
  <2>1. \A n \in 0..k : n \in T
    BY ONLY Len(entries) \in Nat, <1>1, <1>2, UpTo
  <2> QED BY <2>1
<1> QED BY <1>3 DEF NamesRun

\* Taking a name changes the names alone.
LEMMA WithNames ==
    ASSUME NEW p, NEW saw, NEW names, p = [error |-> "none", saw |-> saw, names |-> names], NEW x
    PROVE  [p EXCEPT !.names = x] = [error |-> "none", saw |-> saw, names |-> x]
OBVIOUS

\* Tools of different names, no more than policy create takes, are all taken.
LEMMA ParseNamesMeans ==
    ASSUME NEW k \in Nat, k <= MaxTools, NEW entries, Len(entries) = k, NEW names \in [1..k -> Names],
           \A i, j \in 1..k : names[i] = names[j] => i = j,
           \A i \in 1..k : LET t == ParseObject(entries[i], {"name"})
                           IN  t.error = "none" /\ t.name = names[i],
           NEW saw
    PROVE  ParseNames([error |-> "none", saw |-> saw, names |-> << >>], entries) =
           [error |-> "none", saw |-> saw \cup {"tools"}, names |-> names]
<1> DEFINE parse == [error |-> "none", saw |-> saw, names |-> << >>]
           Names1(n) == [i \in 1..n |-> names[i]]
           State(n) == [error |-> "none", saw |-> saw \cup {"tools"}, names |-> Names1(n)]
           start == [parse EXCEPT !.saw = @ \cup {"tools"}]
<1>1. start = State(0)
  <2>1. Names1(0) = << >>
    OBVIOUS
  <2>2. start = [error |-> "none", saw |-> saw \cup {"tools"}, names |-> << >>]
    <3>1. start = [parse EXCEPT !.saw = parse.saw \cup {"tools"}]
      OBVIOUS
    <3>2. parse = [error |-> "none", saw |-> saw, names |-> << >>]
      OBVIOUS
    <3> HIDE DEF start, parse
    <3> QED BY ONLY <3>1, <3>2
  <2> HIDE DEF Names1
  <2> QED BY <2>1, <2>2
<1>2. ASSUME NEW n \in 1..k PROVE NameTaken(State(n - 1), entries[n]) = State(n)
  <2> DEFINE t == ParseObject(entries[n], {"name"})
             s == Names1(n - 1)
  <2>1. t.error = "none" /\ t.name = names[n]
    OBVIOUS
  <2>2. n \in Nat /\ n - 1 \in Nat /\ (n - 1) + 1 = n /\ k \in Nat /\ MaxTools \in Nat
    BY PolicyAssumption
  <2>3. s \in Seq(Names) /\ Len(s) = n - 1 /\ \A i \in 1..(n - 1) : s[i] = names[i]
    BY <2>2
  <2>4. ~(Len(s) >= MaxTools)
    BY ONLY <2>2, <2>3, k <= MaxTools, n \in 1..k
  <2>5. ~Contains(s, names[n])
    <3>1. \A i \in 1..(n - 1) : i \in 1..k /\ i # n
      BY ONLY <2>2, n \in 1..k
    <3>2. \A i \in 1..(n - 1) : names[i] # names[n]
      BY <3>1
    <3> QED BY ONLY <2>3, <3>2 DEF Contains
  <2>6. Append(s, names[n]) = Names1(n)
    <3>1. names[n] \in Names
      OBVIOUS
    <3> HIDE DEF s
    <3>2. /\ Append(s, names[n]) \in Seq(Names) /\ Len(Append(s, names[n])) = n
          /\ \A i \in 1..(n - 1) : Append(s, names[n])[i] = names[i]
          /\ Append(s, names[n])[n] = names[n]
      BY ONLY <2>2, <2>3, <3>1
    <3>3. \A i \in 1..n : i = n \/ i \in 1..(n - 1)
      BY ONLY <2>2
    <3>4. \A i \in 1..n : Append(s, names[n])[i] = names[i]
      BY ONLY <3>2, <3>3
    <3>5. Append(s, names[n]) = [i \in 1..n |-> Append(s, names[n])[i]]
      BY ONLY <3>2
    <3> QED BY ONLY <3>4, <3>5
  <2> HIDE DEF t, s, Names1
  <2> DEFINE p == [error |-> "none", saw |-> saw \cup {"tools"}, names |-> s]
  <2>7. State(n - 1) = p
    BY DEF s
  <2>8. p.error = "none" /\ p.names = s
    OBVIOUS
  <2>9. [p EXCEPT !.names = Append(@, names[n])] = State(n)
    <3>1. State(n) = [error |-> "none", saw |-> saw \cup {"tools"}, names |-> Append(s, names[n])]
      BY ONLY <2>6 DEF State
    <3>2. p = [error |-> "none", saw |-> saw \cup {"tools"}, names |-> s]
      OBVIOUS
    <3> HIDE DEF State, p
    <3>3. [p EXCEPT !.names = Append(@, names[n])] =
          [error |-> "none", saw |-> saw \cup {"tools"}, names |-> Append(s, names[n])]
      <4>1. \A x : [p EXCEPT !.names = x] =
                   [error |-> "none", saw |-> saw \cup {"tools"}, names |-> x]
        <5> DEFINE u == saw \cup {"tools"}
        <5>1. p = [error |-> "none", saw |-> u, names |-> s]
          BY ONLY <3>2
        <5> HIDE DEF u
        <5>2. ASSUME NEW x
              PROVE  [p EXCEPT !.names = x] = [error |-> "none", saw |-> u, names |-> x]
          BY ONLY <5>1, WithNames
        <5> QED BY ONLY <5>2 DEF u
      <4>2. Append(p.names, names[n]) = Append(s, names[n])
        BY ONLY <3>2
      <4> DEFINE x == Append(p.names, names[n])
      <4>3. [p EXCEPT !.names = x] = [error |-> "none", saw |-> saw \cup {"tools"}, names |-> x]
        <5> HIDE DEF x
        <5> QED BY ONLY <4>1
      <4> QED BY ONLY <4>2, <4>3, Zenon
    <3> QED BY ONLY <3>1, <3>3
  <2> HIDE DEF p, State
  <2>10. NameTaken(p, entries[n]) = [p EXCEPT !.names = Append(@, names[n])]
    BY ONLY <2>1, <2>4, <2>5, <2>8 DEF NameTaken, t
  <2> QED BY ONLY <2>7, <2>9, <2>10
<1> HIDE DEF State, start
<1>3. \E f : NamesRun(f, start, entries)
  <2> DEFINE f == [n \in 0..k |-> State(n)]
  <2>1. \A n \in 0..k : n = 0 \/ (n \in 1..k /\ n - 1 \in 0..k)
    OBVIOUS
  <2>2. \A n \in 0..k : f[n] = IF n = 0 THEN start ELSE NameTaken(f[n - 1], entries[n])
    <3>1. \A n \in 0..k : f[n] = State(n)
      OBVIOUS
    <3> HIDE DEF f
    <3> QED BY ONLY <1>1, <1>2, <2>1, <3>1
  <2>3. f = [n \in 0..k |-> f[n]]
    OBVIOUS
  <2> HIDE DEF f
  <2>4. f = [n \in 0..Len(entries) |-> IF n = 0 THEN start ELSE NameTaken(f[n - 1], entries[n])]
    BY ONLY <2>2, <2>3, Len(entries) = k
  <2> QED BY ONLY <2>4 DEF NamesRun
<1> DEFINE g == CHOOSE f : NamesRun(f, start, entries)
<1>4. NamesRun(g, start, entries)
  BY <1>3
<1>5. ParseNames(parse, entries) = g[Len(entries)]
  BY Zenon DEF ParseNames, Loop, NamesRun, NameTaken, start
<1> HIDE DEF g
<1>6. \A n \in 0..k : g[n] = IF n = 0 THEN start ELSE NameTaken(g[n - 1], entries[n])
  BY ONLY <1>4, Len(entries) = k DEF NamesRun
<1> DEFINE T == {n \in 0..k : g[n] = State(n)}
<1>7. 0 \in T
  BY <1>1, <1>6
<1>8. ASSUME NEW n \in 0..k, n < k, n \in T PROVE n + 1 \in T
  <2>1. n + 1 \in 1..k /\ n + 1 \in 0..k /\ n + 1 # 0 /\ (n + 1) - 1 = n
    BY ONLY <1>8, k \in Nat
  <2>2. g[n + 1] = NameTaken(g[n], entries[n + 1])
    BY ONLY <1>6, <2>1
  <2>3. NameTaken(State((n + 1) - 1), entries[n + 1]) = State(n + 1)
    BY ONLY <1>2, <2>1
  <2>4. g[n] = State(n)
    BY <1>8
  <2> QED BY ONLY <2>1, <2>2, <2>3, <2>4
<1>9. \A n \in 0..k : n \in T
  <2> HIDE DEF T
  <2> QED BY ONLY k \in Nat, <1>7, <1>8, UpTo
<1>10. g[k] = State(k)
  BY <1>9
<1>11. State(k) = [error |-> "none", saw |-> saw \cup {"tools"}, names |-> names]
  <2>1. Names1(k) = names
    OBVIOUS
  <2> HIDE DEF Names1
  <2> QED BY <2>1 DEF State
<1>12. ParseNames(parse, entries) = [error |-> "none", saw |-> saw \cup {"tools"}, names |-> names]
  <2> HIDE DEF parse
  <2> QED BY ONLY <1>5, <1>10, <1>11, Len(entries) = k
<1> QED BY ONLY <1>12

\* A parse that fails has failed.
LEMMA WithError ==
    ASSUME NEW p, NEW saw, NEW names, p = [error |-> "none", saw |-> saw, names |-> names],
           NEW x, x # "none"
    PROVE  [p EXCEPT !.error = x].error # "none"
OBVIOUS

\* All of the first n tools are taken, no more than policy create takes.
TakenSoFar(p, saw, entries, n) ==
    \E names :
        /\ IsSequence(names) /\ Len(names) = n /\ n <= MaxTools
        /\ p = [error |-> "none", saw |-> saw, names |-> names]
        /\ \A i \in 1..n : ParseObject(entries[i], {"name"}).error = "none"

\* The next tool is taken too, or the parse has failed.
LEMMA NameTakenMeans ==
    ASSUME NEW p, NEW saw, NEW entries, NEW n \in Nat,
           p.error # "none" \/ TakenSoFar(p, saw, entries, n)
    PROVE  LET q == NameTaken(p, entries[n + 1])
           IN  q.error # "none" \/ TakenSoFar(q, saw, entries, n + 1)
<1> DEFINE entry == entries[n + 1]
           t == ParseObject(entry, {"name"})
           q == NameTaken(p, entry)
<1>1. CASE p.error # "none"
  BY <1>1 DEF NameTaken
<1>2. ASSUME p.error = "none", NEW names, IsSequence(names), Len(names) = n, n <= MaxTools,
             p = [error |-> "none", saw |-> saw, names |-> names],
             \A i \in 1..n : ParseObject(entries[i], {"name"}).error = "none"
      PROVE  q.error # "none" \/ TakenSoFar(q, saw, entries, n + 1)
  <2>1. p.names = names
    BY ONLY <1>2
  <2>2. CASE Len(names) >= MaxTools
    <3>1. q = [p EXCEPT !.error = "excessive_tool_count"]
      BY <1>2, <2>1, <2>2 DEF NameTaken
    <3>2. "excessive_tool_count" # "none"
      OBVIOUS
    <3> QED BY ONLY <1>2, <3>1, <3>2, WithError
  <2>3. CASE Len(names) < MaxTools /\ t.error # "none"
    <3>1. q = [p EXCEPT !.error = t.error]
      BY <1>2, <2>1, <2>3, PolicyAssumption DEF NameTaken
    <3> HIDE DEF t, q
    <3> QED BY ONLY <1>2, <2>3, <3>1, WithError
  <2>4. CASE Len(names) < MaxTools /\ t.error = "none" /\ Contains(names, t.name)
    <3>1. q = [p EXCEPT !.error = "duplicate_tool_name"]
      BY <1>2, <2>1, <2>4, PolicyAssumption DEF NameTaken
    <3>2. "duplicate_tool_name" # "none"
      OBVIOUS
    <3> QED BY ONLY <1>2, <3>1, <3>2, WithError
  <2>5. CASE Len(names) < MaxTools /\ t.error = "none" /\ ~Contains(names, t.name)
    <3> DEFINE x == Append(names, t.name)
    <3>1. q = [p EXCEPT !.names = x]
      <4>1. q = [p EXCEPT !.names = Append(p.names, t.name)]
        BY <1>2, <2>1, <2>5, PolicyAssumption DEF NameTaken
      <4> HIDE DEF q, t
      <4> QED BY ONLY <2>1, <4>1, Zenon
    <3>2. IsSequence(x) /\ Len(x) = n + 1
      <4>1. names \in Seq(ToSet(names) \cup {t.name})
        BY <1>2 DEF IsSequence
      <4> HIDE DEF t
      <4>2. x \in Seq(ToSet(names) \cup {t.name}) /\ Len(x) = n + 1
        BY ONLY <1>2, <4>1
      <4> HIDE DEF x
      <4> QED BY ONLY <4>2, SequenceIs
    <3> HIDE DEF x, q, t
    <3>3. q = [error |-> "none", saw |-> saw, names |-> x]
      BY ONLY <1>2, <3>1, WithNames
    <3>4. n + 1 <= MaxTools
      BY ONLY <1>2, <2>5, PolicyAssumption
    <3>5. \A i \in 1..(n + 1) : ParseObject(entries[i], {"name"}).error = "none"
      <4>1. \A i \in 1..(n + 1) : i \in 1..n \/ i = n + 1
        OBVIOUS
      <4> QED BY ONLY <1>2, <2>5, <4>1 DEF t
    <3> QED BY ONLY <3>2, <3>3, <3>4, <3>5 DEF TakenSoFar
  <2>6. MaxTools \in Nat /\ n \in Nat
    BY PolicyAssumption
  <2> HIDE DEF t, q
  <2> QED BY ONLY <1>2, <2>2, <2>3, <2>4, <2>5, <2>6
<1> QED BY ONLY <1>1, <1>2, p.error # "none" \/ TakenSoFar(p, saw, entries, n) DEF TakenSoFar, q, entry

\* Too many tools, or one that is refused, are not all taken.
LEMMA ParseNamesRefuses ==
    ASSUME NEW k \in Nat, NEW entries, Len(entries) = k, NEW saw,
           k > MaxTools \/ \E i \in 1..k : ParseObject(entries[i], {"name"}).error # "none"
    PROVE  ParseNames([error |-> "none", saw |-> saw, names |-> << >>], entries).error # "none"
<1> DEFINE parse == [error |-> "none", saw |-> saw, names |-> << >>]
           u == saw \cup {"tools"}
           start == [parse EXCEPT !.saw = @ \cup {"tools"}]
           Fine(p, n) == p.error # "none" \/ TakenSoFar(p, u, entries, n)
<1>1. start = [error |-> "none", saw |-> u, names |-> << >>]
  <2>1. start = [parse EXCEPT !.saw = parse.saw \cup {"tools"}]
    OBVIOUS
  <2>2. parse = [error |-> "none", saw |-> saw, names |-> << >>]
    OBVIOUS
  <2> HIDE DEF start, parse
  <2> QED BY ONLY <2>1, <2>2 DEF u
<1>2. Fine(start, 0)
  <2>1. << >> \in Seq({}) /\ Len(<< >>) = 0
    OBVIOUS
  <2>2. IsSequence(<< >>)
    BY ONLY <2>1, SequenceIs
  <2>3. 0 <= MaxTools /\ 1..0 = {}
    BY PolicyAssumption
  <2> HIDE DEF start, u
  <2>4. TakenSoFar(start, u, entries, 0)
    BY ONLY <1>1, <2>1, <2>2, <2>3 DEF TakenSoFar
  <2> QED BY ONLY <2>4
<1> HIDE DEF start, u
<1>3. \E f : NamesRun(f, start, entries)
  <2> HIDE DEF Fine
  <2> QED BY RunExists
<1> DEFINE g == CHOOSE f : NamesRun(f, start, entries)
<1>4. NamesRun(g, start, entries)
  BY <1>3
<1>5. ParseNames(parse, entries) = g[Len(entries)]
  BY Zenon DEF ParseNames, Loop, NamesRun, NameTaken, start
<1> HIDE DEF g
<1>6. \A n \in 0..k : g[n] = IF n = 0 THEN start ELSE NameTaken(g[n - 1], entries[n])
  BY ONLY <1>4, Len(entries) = k DEF NamesRun
<1> DEFINE T == {n \in 0..k : Fine(g[n], n)}
<1>7. 0 \in T
  <2>1. g[0] = start
    BY ONLY <1>6, k \in Nat
  <2> HIDE DEF Fine
  <2> QED BY ONLY <1>2, <2>1, k \in Nat
<1>8. ASSUME NEW n \in 0..k, n < k, n \in T PROVE n + 1 \in T
  <2>1. n \in Nat /\ n + 1 \in 0..k /\ n + 1 # 0 /\ (n + 1) - 1 = n
    BY ONLY <1>8, k \in Nat
  <2>2. g[n + 1] = NameTaken(g[n], entries[n + 1])
    BY ONLY <1>6, <2>1
  <2>3. g[n].error # "none" \/ TakenSoFar(g[n], u, entries, n)
    BY <1>8
  <2>4. Fine(NameTaken(g[n], entries[n + 1]), n + 1)
    BY ONLY <2>1, <2>3, NameTakenMeans
  <2> HIDE DEF Fine
  <2> QED BY ONLY <2>1, <2>2, <2>4
<1>9. \A n \in 0..k : n \in T
  <2> HIDE DEF T
  <2> QED BY ONLY k \in Nat, <1>7, <1>8, UpTo
<1>10. ~TakenSoFar(g[k], u, entries, k)
  <2>1. ~(k <= MaxTools) \/ ~ \A i \in 1..k : ParseObject(entries[i], {"name"}).error = "none"
    BY PolicyAssumption
  <2> QED BY ONLY <2>1 DEF TakenSoFar
<1>11. g[k].error # "none"
  BY <1>9, <1>10
<1> QED BY <1>5, <1>11

\* A member that is not the tools is noted.
LEMMA OtherMember ==
    ASSUME NEW saw, NEW names, NEW key, key \notin saw, key # "tools", NEW object, NEW entries
    PROVE  ParseInventoryMember([error |-> "none", saw |-> saw, names |-> names],
                                Member(key, object, entries)) =
           [error |-> "none", saw |-> saw \cup {key}, names |-> names]
<1> DEFINE m == Member(key, object, entries)
           parse == [error |-> "none", saw |-> saw, names |-> names]
<1>1. m.key = key /\ m.good = TRUE
  BY DEF Member
<1>2. parse.error = "none" /\ parse.saw = saw
      /\ parse = [error |-> "none", saw |-> saw, names |-> names]
  OBVIOUS
<1> HIDE DEF m, parse
<1>3. ParseInventoryMember(parse, m) = [parse EXCEPT !.saw = @ \cup {key}]
  BY ONLY <1>1, <1>2, key \notin saw, key # "tools" DEF ParseInventoryMember, Repeated
<1>4. [parse EXCEPT !.saw = parse.saw \cup {key}] =
      [error |-> "none", saw |-> saw \cup {key}, names |-> names]
  BY ONLY <1>2
<1> QED BY <1>3, <1>4 DEF m, parse

\* What policy create has read of an inventory before its tools.
BeforeTools == [error |-> "none", saw |-> {"version"} \cup {"server"}, names |-> << >>]

\* It reads the tools of an inventory that is neither too long nor too deep.
LEMMA PublishedRead ==
    ASSUME NEW listed, FitsGenerator(listed), NestsInGenerator(listed)
    PROVE  LET p == ParseNames(BeforeTools, [i \in DOMAIN listed |-> PublishedTool(listed[i])])
           IN  ParseInventory(Published(listed)) =
               [names |-> p.names,
                error |-> IF p.error # "none" THEN p.error
                          ELSE IF {"version", "server", "tools"} \subseteq p.saw THEN "none"
                          ELSE "missing_member"]
<1> DEFINE entries == [i \in DOMAIN listed |-> PublishedTool(listed[i])]
           doc == Published(listed)
           members == doc.members
<1>2. /\ doc.defect = "none"
      /\ members = << Member("version", << >>, << >>), Member("server", << >>, << >>),
                      Member("tools", << >>, entries) >>
  BY DEF Published
<1> HIDE DEF doc
<1>3. /\ Len(members) = 3 /\ members[1] = Member("version", << >>, << >>)
      /\ members[2] = Member("server", << >>, << >>) /\ members[3] = Member("tools", << >>, entries)
  <2> HIDE DEF entries, members
  <2> QED BY ONLY <1>2
<1> HIDE DEF members
<1> DEFINE a == ParseInventoryMember(FreshInventory, members[1])
           b == ParseInventoryMember(a, members[2])
           c == ParseInventoryMember(b, members[3])
<1>4. a = [error |-> "none", saw |-> {} \cup {"version"}, names |-> << >>]
  <2>1. FreshInventory = [error |-> "none", saw |-> {}, names |-> << >>]
    BY DEF FreshInventory
  <2> DEFINE u == {}
             none == << >>
  <2>2. "version" \notin u /\ "version" # "tools"
    OBVIOUS
  <2> HIDE DEF u, none, entries, a, b, c
  <2>3. ParseInventoryMember([error |-> "none", saw |-> u, names |-> none],
                             Member("version", << >>, << >>)) =
        [error |-> "none", saw |-> u \cup {"version"}, names |-> none]
    BY ONLY <2>2, OtherMember
  <2>4. a = ParseInventoryMember([error |-> "none", saw |-> {}, names |-> << >>],
                                 Member("version", << >>, << >>))
    BY ONLY <1>3, <2>1, Zenon DEF a
  <2> QED BY ONLY <2>3, <2>4 DEF u, none
<1>5. b = [error |-> "none", saw |-> {"version"} \cup {"server"}, names |-> << >>]
  <2>1. a = [error |-> "none", saw |-> {"version"}, names |-> << >>]
    <3>1. {} \cup {"version"} = {"version"}
      OBVIOUS
    <3> HIDE DEF a
    <3> QED BY ONLY <1>4, <3>1
  <2> DEFINE u == {"version"}
             none == << >>
  <2>2. "server" \notin u /\ "server" # "tools"
    OBVIOUS
  <2> HIDE DEF u, none, entries, a, b, c
  <2>3. ParseInventoryMember([error |-> "none", saw |-> u, names |-> none],
                             Member("server", << >>, << >>)) =
        [error |-> "none", saw |-> u \cup {"server"}, names |-> none]
    BY ONLY <2>2, OtherMember
  <2>4. b = ParseInventoryMember([error |-> "none", saw |-> {"version"}, names |-> << >>],
                                 Member("server", << >>, << >>))
    BY ONLY <1>3, <2>1, Zenon DEF b
  <2> QED BY ONLY <2>3, <2>4 DEF u, none
<1>6. c = ParseNames(BeforeTools, entries)
  <2>1. b = BeforeTools
    <3> HIDE DEF b
    <3> QED BY ONLY <1>5 DEF BeforeTools
  <2>2. "tools" \notin {"version"} \cup {"server"}
    OBVIOUS
  <2> DEFINE m == Member("tools", << >>, entries)
  <2>3. m.key = "tools" /\ m.good = TRUE /\ m.entries = entries
    BY DEF Member
  <2>4. BeforeTools.error = "none" /\ BeforeTools.saw = {"version"} \cup {"server"}
    BY DEF BeforeTools
  <2> HIDE DEF m, b, entries
  <2>5. ParseInventoryMember(BeforeTools, m) = ParseNames(BeforeTools, entries)
    BY ONLY <2>2, <2>3, <2>4 DEF ParseInventoryMember, Repeated
  <2> QED BY ONLY <1>3, <2>1, <2>5 DEF m, c
<1> DEFINE p == Loop(ParseInventoryMember, FreshInventory, members)
<1>7. p = c
  <2> HIDE DEF entries
  <2>1. \E f : InventoryRun(f, members)
    <3> DEFINE f == [n \in 0..3 |-> IF n = 0 THEN FreshInventory
                                    ELSE IF n = 1 THEN a ELSE IF n = 2 THEN b ELSE c]
    <3>1. f[0] = FreshInventory /\ f[1] = a /\ f[2] = b /\ f[3] = c
      <4> HIDE DEF a, b, c
      <4> QED OBVIOUS
    <3>2. \A n \in 0..3 : n = 0 \/ n = 1 \/ n = 2 \/ n = 3
      OBVIOUS
    <3>3. f = [n \in 0..3 |-> f[n]]
      OBVIOUS
    <3> HIDE DEF f
    <3>4. f[1] = ParseInventoryMember(f[0], members[1])
      BY ONLY <3>1
    <3>5. f[2] = ParseInventoryMember(f[1], members[2])
      <4> HIDE DEF a
      <4> QED BY ONLY <3>1
    <3>6. f[3] = ParseInventoryMember(f[2], members[3])
      <4> HIDE DEF a, b
      <4> QED BY ONLY <3>1
    <3>7. 1 - 1 = 0 /\ 2 - 1 = 1 /\ 3 - 1 = 2
      OBVIOUS
    <3>8. f[0] = FreshInventory
      BY ONLY <3>1
    <3>9. \A n \in 0..3 : f[n] = IF n = 0 THEN FreshInventory
                                 ELSE ParseInventoryMember(f[n - 1], members[n])
      BY ONLY <3>2, <3>4, <3>5, <3>6, <3>7, <3>8
    <3>10. f = [n \in 0..Len(members) |-> IF n = 0 THEN FreshInventory
                                          ELSE ParseInventoryMember(f[n - 1], members[n])]
      BY ONLY <1>3, <3>3, <3>9
    <3> QED BY ONLY <3>10 DEF InventoryRun
  <2> DEFINE g == CHOOSE f : InventoryRun(f, members)
  <2>2. InventoryRun(g, members)
    <3> HIDE DEF a, b, c, p
    <3> QED BY ONLY <2>1
  <2>3. p = g[Len(members)]
    BY Zenon DEF Loop, InventoryRun
  <2> HIDE DEF g, p
  <2>4. \A n \in 0..3 : g[n] = IF n = 0 THEN FreshInventory
                               ELSE ParseInventoryMember(g[n - 1], members[n])
    BY ONLY <1>3, <2>2 DEF InventoryRun
  <2>5. /\ 0 \in 0..3 /\ 1 \in 0..3 /\ 2 \in 0..3 /\ 3 \in 0..3
        /\ 1 - 1 = 0 /\ 2 - 1 = 1 /\ 3 - 1 = 2
    OBVIOUS
  <2>6. g[0] = FreshInventory /\ g[1] = ParseInventoryMember(g[0], members[1])
        /\ g[2] = ParseInventoryMember(g[1], members[2])
        /\ g[3] = ParseInventoryMember(g[2], members[3])
    BY ONLY <2>4, <2>5
  <2>7. g[1] = a
    BY ONLY <2>6
  <2>8. g[2] = b
    <3> HIDE DEF a
    <3> QED BY ONLY <2>6, <2>7
  <2>9. g[3] = c
    <3> HIDE DEF a, b
    <3> QED BY ONLY <2>6, <2>8
  <2> HIDE DEF a, b, c
  <2> QED BY ONLY <1>3, <2>3, <2>9
<1> HIDE DEF a, b, c, p, entries
<1>8. ParseInventory(doc) = [names |-> p.names,
         error |-> IF p.error # "none" THEN p.error
                   ELSE IF {"version", "server", "tools"} \subseteq p.saw THEN "none"
                   ELSE "missing_member"]
  <2>1. ParseInventory(doc) = [names |-> p.names,
         error |->
            IF doc.defect \in {"unreadable", "too_large", "too_deep"} THEN doc.defect
            ELSE IF p.error # "none" THEN p.error
            ELSE IF doc.defect = "cut" THEN "malformed_inventory_json"
            ELSE IF {"version", "server", "tools"} \subseteq p.saw THEN "none"
            ELSE "missing_member"]
    BY Zenon DEF ParseInventory, p, members
  <2> QED BY ONLY <1>2, <2>1
<1>9. p = ParseNames(BeforeTools, entries)
  BY ONLY <1>6, <1>7
<1> QED BY ONLY <1>8, <1>9, Zenon DEF doc, entries

\* policy create finds the tools of an inventory in what is published of it.
LEMMA PublishedMeans ==
    ASSUME NEW k \in Nat, k <= MaxTools, NEW listed, listed = [i \in 1..k |-> listed[i]],
           FitsGenerator(listed), NestsInGenerator(listed),
           \A i \in 1..k : /\ OnlyFirst(listed[i], "name") /\ listed[i][1].value.text \in Names
                           /\ listed[i][1].value.text \notin LongNames
                           /\ \A j \in DOMAIN listed[i] : listed[i][j].key \in EntryKeys,
           \A i, j \in 1..k : listed[i][1].value.text = listed[j][1].value.text => i = j
    PROVE  ParseInventory(Published(listed)) =
           [error |-> "none", names |-> [i \in 1..k |-> listed[i][1].value.text]]
<1> DEFINE names == [i \in 1..k |-> listed[i][1].value.text]
           entries == [i \in DOMAIN listed |-> PublishedTool(listed[i])]
           u == {"version"} \cup {"server"}
           p == ParseNames(BeforeTools, entries)
<1>1. DOMAIN listed = 1..k
  OBVIOUS
<1>2. /\ Len(entries) = k /\ \A i \in 1..k : entries[i] = PublishedTool(listed[i])
  BY <1>1
<1>3. /\ names \in [1..k -> Names] /\ \A i \in 1..k : names[i] = listed[i][1].value.text
      /\ \A i, j \in 1..k : names[i] = names[j] => i = j
  OBVIOUS
<1>4. \A i \in 1..k : LET t == ParseObject(entries[i], {"name"})
                      IN  t.error = "none" /\ t.name = names[i]
  BY <1>2, <1>3, PublishedToolMeans
<1> HIDE DEF u, names, entries, p
<1>5. ParseNames([error |-> "none", saw |-> u, names |-> << >>], entries) =
      [error |-> "none", saw |-> u \cup {"tools"}, names |-> names]
  BY ONLY <1>2, <1>3, <1>4, k \in Nat, k <= MaxTools, ParseNamesMeans
<1>6. p = [error |-> "none", saw |-> u \cup {"tools"}, names |-> names]
  BY ONLY <1>5, Zenon DEF p, BeforeTools, u
<1>7. p.error = "none" /\ p.names = names /\ {"version", "server", "tools"} \subseteq p.saw
  <2>1. {"version", "server", "tools"} \subseteq u \cup {"tools"}
    BY DEF u
  <2> QED BY ONLY <1>6, <2>1
<1>8. ParseInventory(Published(listed)) =
       [names |-> p.names,
        error |-> IF p.error # "none" THEN p.error
                  ELSE IF {"version", "server", "tools"} \subseteq p.saw THEN "none"
                  ELSE "missing_member"]
  BY PublishedRead, Zenon DEF p, entries
<1>9. ParseInventory(Published(listed)) = [error |-> "none", names |-> names]
  BY ONLY <1>7, <1>8
<1> QED BY ONLY <1>9 DEF names

\* A tool whose name is too long is refused.
LEMMA LongToolMeans ==
    ASSUME NEW e, OnlyFirst(e, "name"), e[1].value.text \in LongNames,
           \A j \in DOMAIN e : e[j].key \in EntryKeys
    PROVE  ParseObject(PublishedTool(e), {"name"}).error # "none"
<1> DEFINE p == PublishedTool(e)
           n == Len(e)
<1>1. /\ n \in Nat /\ DOMAIN e = 1..n /\ n >= 1 /\ e[1].key = "name"
      /\ \A i \in 2..n : e[i].key # "name"
  BY SequenceHas DEF OnlyFirst
<1>2. /\ DOMAIN p = 1..n
      /\ \A j \in 1..n : /\ p[j].key = e[j].key /\ p[j].good \in BOOLEAN
                         /\ p[j].key = "name" => p[j].good = (e[j].value.text \notin LongNames)
  BY <1>1 DEF PublishedTool
<1>3. IsSequence(p) /\ Len(p) = n
  <2>1. p = [j \in 1..n |-> p[j]]
    BY <1>1 DEF PublishedTool
  <2> HIDE DEF p, n
  <2>2. p \in Seq({p[j] : j \in 1..n}) /\ Len(p) = n
    BY ONLY <1>1, <2>1
  <2> QED BY ONLY <2>2, SequenceIs
<1> HIDE DEF p, n
<1>4. 1 \in 1..n /\ p[1].key = "name" /\ ~p[1].good
  BY <1>1, <1>2
<1>5. IsObject(p)
  <2>1. \A j \in 1..n : p[j].key \notin AccessKeys
    BY <1>1, <1>2 DEF EntryKeys, CanonicalKeys, AccessKeys
  <2>2. \A j \in 1..n : p[j].key = "name" => ~p[j].good
    BY <1>1, <1>2, <1>4
  <2> QED BY <1>2, <1>3, <2>1, <2>2 DEF IsObject
<1>6. ~SoundUpTo(p, {"name"}, Len(p))
  BY <1>3, <1>4 DEF SoundUpTo
<1>7. ~HasAll(p, {"name"})
  BY ONLY <1>3, <1>6, AllOnce
<1>8. {"name"} \in SUBSET ObjectKeys
  BY DEF ObjectKeys
<1>9. ParseObject(p, {"name"}).error # "none"
  BY ONLY <1>5, <1>7, <1>8, ParseObjectMeans
<1> QED BY <1>9 DEF p

\* An accepted answer is published as what it lists; policy create finds it, or
\* refuses it for one of its four limits.
LEMMA AnswerMeans ==
    ASSUME NEW m, IsMessage(m), NEW id, parses_tools_list_response(m, id)
    PROVE  LET listed == Inventoried(m)
               items  == UNION {ToSet(l.items) : l \in
                           UNION {Readings(r.members, "tools") : r \in Readings(m.members, "result")}}
               names  == [i \in DOMAIN listed |-> EntryName(listed[i])]
           IN  /\ {EachSays(ToSet(entry)) : entry \in ToSet(listed)} =
                  {EachSays({f \in ToSet(item.members) : f.means \in EntryKeys}) : item \in items}
               /\ \A i, j \in DOMAIN names : i < j => names[i] < names[j]
               /\ \A i \in DOMAIN listed : \A j \in DOMAIN listed[i] :
                     listed[i][j].key \in CanonicalKeys => Sorted(listed[i][j].value)
               /\ WithinGenerator(listed) =>
                     ParseInventory(Published(listed)) = [error |-> "none", names |-> names]
               /\ ~WithinGenerator(listed) => ParseInventory(Published(listed)).error # "none"
<1> DEFINE items == ListedItems(m)
           n == Len(items)
           listed == Inventoried(m)
           names == [i \in DOMAIN listed |-> EntryName(listed[i])]
           Kept(item) == {f \in ToSet(item.members) : f.means \in EntryKeys}
<1>1. /\ UNION {ToSet(l.items) : l \in
           UNION {Readings(r.members, "tools") : r \in Readings(m.members, "result")}} = ToSet(items)
      /\ IsListing(items)
  BY ListMeans
<1>2. PICK q \in [1..n -> 1..n] :
        /\ listed = [k \in 1..n |-> InventoryEntry(items[q[k]])]
        /\ \A i \in 1..n : \E k \in 1..n : q[k] = i
        /\ \A k, l \in 1..n : k < l => ToolName(items[q[k]]) < ToolName(items[q[l]])
  BY <1>1, InventoriedMeans
<1> HIDE DEF items, listed
<1>3. /\ n \in Nat /\ DOMAIN items = 1..n
      /\ \A i \in 1..n : IsTool(items[i]) /\ parse_tool_object(items[i])
  BY ONLY <1>1, SequenceHas DEF IsListing
<1> HIDE DEF n
<1>4. /\ DOMAIN listed = 1..n /\ listed = [k \in 1..n |-> listed[k]]
      /\ \A k \in 1..n : q[k] \in 1..n /\ listed[k] = InventoryEntry(items[q[k]])
  BY ONLY <1>2
<1>5. \A k \in 1..n : /\ OnlyFirst(listed[k], "name")
                      /\ listed[k][1].value.text = ToolName(items[q[k]])
                      /\ EntryName(listed[k]) = ToolName(items[q[k]])
                      /\ ToolName(items[q[k]]) \in Names
  BY <1>3, <1>4, InventoryEntryMeans
<1>6. ASSUME NEW k \in 1..n, NEW j \in DOMAIN listed[k]
      PROVE  /\ listed[k][j].key \in EntryKeys
             /\ listed[k][j].key \in CanonicalKeys => Sorted(listed[k][j].value)
  <2> DEFINE item == items[q[k]]
             e == listed[k]
  <2>1. IsTool(item) /\ parse_tool_object(item) /\ e = InventoryEntry(item)
    BY <1>3, <1>4
  <2> HIDE DEF item, e
  <2>2. ToSet(e) = {Pair(key, Held(item, key)) : key \in {f \in EntryKeys : Has(item.members, f)}}
    BY ONLY <2>1, InventoryEntryMeans
  <2>3. e[j] \in ToSet(e)
    BY ONLY j \in DOMAIN listed[k] DEF e, ToSet
  <2>4. PICK key \in EntryKeys : Has(item.members, key) /\ e[j] = Pair(key, Held(item, key))
    BY ONLY <2>2, <2>3
  <2>5. e[j].key = key /\ e[j].value = Held(item, key)
    BY ONLY <2>4 DEF Pair
  <2>6. key \in CanonicalKeys => Sorted(Held(item, key))
    BY <2>1, <2>4, HeldMeans
  <2> QED BY ONLY <2>5, <2>6 DEF e
<1>7. {EachSays(ToSet(entry)) : entry \in ToSet(listed)} = {EachSays(Kept(item)) : item \in ToSet(items)}
  <2>1. \A k \in 1..n : EachSays(ToSet(listed[k])) = EachSays(Kept(items[q[k]]))
    BY <1>3, <1>4, EntrySays
  <2> HIDE DEF Kept
  <2>2. \A x : x \in ToSet(listed) <=> \E k \in 1..n : x = listed[k]
    BY ONLY <1>4 DEF ToSet
  <2>3. \A x : x \in ToSet(items) <=> \E i \in 1..n : x = items[i]
    BY ONLY <1>3 DEF ToSet
  <2> DEFINE A == {EachSays(ToSet(entry)) : entry \in ToSet(listed)}
             B == {EachSays(Kept(item)) : item \in ToSet(items)}
  <2>4. ASSUME NEW x, x \in A PROVE x \in B
    <3>1. PICK entry \in ToSet(listed) : x = EachSays(ToSet(entry))
      BY ONLY <2>4
    <3>2. PICK k \in 1..n : entry = listed[k]
      BY ONLY <2>2
    <3>3. x = EachSays(Kept(items[q[k]])) /\ items[q[k]] \in ToSet(items)
      BY ONLY <1>4, <2>1, <2>3, <3>1, <3>2
    <3> QED BY ONLY <3>3
  <2>5. ASSUME NEW x, x \in B PROVE x \in A
    <3>1. PICK item \in ToSet(items) : x = EachSays(Kept(item))
      BY ONLY <2>5
    <3>2. PICK i \in 1..n : item = items[i]
      BY ONLY <2>3
    <3>3. PICK k \in 1..n : q[k] = i
      BY ONLY <1>2
    <3>4. x = EachSays(ToSet(listed[k])) /\ listed[k] \in ToSet(listed)
      BY ONLY <2>1, <2>2, <3>1, <3>2, <3>3
    <3> QED BY ONLY <3>4
  <2> QED BY <2>4, <2>5
<1>8. /\ DOMAIN names = 1..n /\ \A k \in 1..n : names[k] = EntryName(listed[k])
      /\ names = [k \in 1..n |-> listed[k][1].value.text]
  BY ONLY <1>4, <1>5
<1>9. \A i, j \in DOMAIN names : i < j => names[i] < names[j]
  <2> HIDE DEF names
  <2>1. \A k \in 1..n : names[k] = ToolName(items[q[k]])
    BY ONLY <1>5, <1>8
  <2>2. \A k, l \in 1..n : k < l => ToolName(items[q[k]]) < ToolName(items[q[l]])
    BY ONLY <1>2
  <2> QED BY ONLY <1>8, <2>1, <2>2
<1>a. Len(listed) = n /\ \A k \in 1..n : EntryName(listed[k]) = listed[k][1].value.text
  BY ONLY <1>3, <1>4, <1>5
<1>10. WithinGenerator(listed) =>
         ParseInventory(Published(listed)) = [error |-> "none", names |-> names]
  <2> SUFFICES ASSUME WithinGenerator(listed)
               PROVE  ParseInventory(Published(listed)) = [error |-> "none", names |-> names]
    OBVIOUS
  <2>1. /\ n <= MaxTools /\ FitsGenerator(listed) /\ NestsInGenerator(listed)
        /\ \A k \in 1..n : listed[k][1].value.text \notin LongNames
    BY ONLY <1>4, <1>a, WithinGenerator(listed) DEF WithinGenerator
  <2>2. \A i \in 1..n : /\ OnlyFirst(listed[i], "name") /\ listed[i][1].value.text \in Names
                        /\ listed[i][1].value.text \notin LongNames
                        /\ \A j \in DOMAIN listed[i] : listed[i][j].key \in EntryKeys
    BY ONLY <1>5, <1>6, <2>1
  <2>4. \A i, j \in 1..n : listed[i][1].value.text = listed[j][1].value.text => i = j
    <3>1. \A i, j \in 1..n : i < j => names[i] < names[j]
      BY ONLY <1>8, <1>9
    <3>2. \A i \in 1..n : names[i] \in Nat /\ names[i] = listed[i][1].value.text
      BY <1>5, <1>8, PolicyAssumption
    <3> HIDE DEF names
    <3>3. \A i, j \in 1..n : i = j \/ i < j \/ j < i
      BY ONLY <1>3
    <3> QED BY ONLY <3>1, <3>2, <3>3
  <2>5. ParseInventory(Published(listed)) =
        [error |-> "none", names |-> [k \in 1..n |-> listed[k][1].value.text]]
    <3>1. n \in Nat /\ listed = [k \in 1..n |-> listed[k]]
      BY ONLY <1>3, <1>4
    <3> HIDE DEF names, Kept
    <3> QED BY ONLY <3>1, <2>1, <2>2, <2>4, PublishedMeans, Zenon
  <2> HIDE DEF names
  <2> QED BY ONLY <1>8, <2>5
<1>11. ~WithinGenerator(listed) => ParseInventory(Published(listed)).error # "none"
  <2> SUFFICES ASSUME ~WithinGenerator(listed)
               PROVE  ParseInventory(Published(listed)).error # "none"
    OBVIOUS
  <2> HIDE DEF names, Kept
  <2>1. CASE ~FitsGenerator(listed)
    <3>1. Published(listed).defect = "too_large"
      BY <2>1 DEF Published
    <3> QED BY <3>1 DEF ParseInventory
  <2>2. CASE FitsGenerator(listed) /\ ~NestsInGenerator(listed)
    <3>1. Published(listed).defect = "too_deep"
      BY <2>2 DEF Published
    <3> QED BY <3>1 DEF ParseInventory
  <2>3. CASE FitsGenerator(listed) /\ NestsInGenerator(listed)
    <3> DEFINE entries == [i \in DOMAIN listed |-> PublishedTool(listed[i])]
               p == ParseNames(BeforeTools, entries)
    <3>1. Len(entries) = n /\ \A i \in 1..n : entries[i] = PublishedTool(listed[i])
      BY <1>3, <1>4
    <3>2. n > MaxTools \/ \E i \in 1..n : listed[i][1].value.text \in LongNames
      <4>1. ~(n <= MaxTools) \/ \E i \in 1..n : EntryName(listed[i]) \in LongNames
        BY ONLY <1>4, <1>a, <2>3, ~WithinGenerator(listed) DEF WithinGenerator
      <4> QED BY <1>3, <1>a, <4>1, PolicyAssumption
    <3>3. \A i \in 1..n : OnlyFirst(listed[i], "name") /\ \A j \in DOMAIN listed[i] : listed[i][j].key \in EntryKeys
      BY ONLY <1>5, <1>6
    <3> HIDE DEF entries
    <3>4. n > MaxTools \/ \E i \in 1..n : ParseObject(entries[i], {"name"}).error # "none"
      BY ONLY <3>1, <3>2, <3>3, LongToolMeans
    <3>5. p.error # "none"
      BY ONLY <1>3, <3>1, <3>4, ParseNamesRefuses DEF p, BeforeTools
    <3>6. ParseInventory(Published(listed)) =
           [names |-> p.names,
            error |-> IF p.error # "none" THEN p.error
                      ELSE IF {"version", "server", "tools"} \subseteq p.saw THEN "none"
                      ELSE "missing_member"]
      BY <2>3, PublishedRead, Zenon DEF p, entries
    <3> HIDE DEF p
    <3> QED BY ONLY <3>5, <3>6
  <2> QED BY ONLY <2>1, <2>2, <2>3
<1> QED BY <1>1, <1>4, <1>6, <1>7, <1>9, <1>10, <1>11 DEF listed

------------------------------------------------------------------------------
(* Answers on their way                                                    *)

\* What inspect has published is what it made of an answer that it accepted.
InventoryInv ==
    /\ pc = "answer" => message \in Answers
    /\ pc \in {"initialize", "answer"} => outcome = "none"
    /\ outcome = "inventoried" =>
          /\ message \in Answers /\ parses_tools_list_response(message, ExpectedId)
          /\ inventory = Published(Inventoried(message))

\* It is from the beginning, and every step keeps it.
LEMMA InventoryKeeps ==
    ASSUME InventoryInv, [DiscoveryNext]_allVars PROVE InventoryInv'
<1>1. CASE Initialize
  BY <1>1 DEF Initialize, InventoryInv
<1>2. CASE Collect
  BY <1>2 DEF Collect, InventoryInv
<1>3. CASE ReadCall
  BY <1>3 DEF ReadCall, InventoryInv
<1>4. CASE ReadAnswer
  <2> DEFINE w == rewrite_tools_list_response(message,
                    {item \in ToSet(ListedItems(message)) : Visible(ToolName(item))})
  <2>1. w.status # "inventoried"
    BY Zenon DEF rewrite_tools_list_response
  <2>2. pc' = "listed" /\ (outcome' = "drop" \/ outcome' = "forward" \/ outcome' = w.status)
    BY <1>4 DEF ReadAnswer
  <2> HIDE DEF w
  <2> QED BY <2>1, <2>2 DEF InventoryInv
<1>5. CASE Next /\ UNCHANGED messageVars
  <2>1. message' = message /\ outcome' = outcome /\ pc' \in {"run", "deny", "ready", "failed"}
        /\ inventory' = inventory
    BY <1>5 DEF Next, Create, Load, Deny, BuildTable, messageVars
  <2> QED BY <2>1 DEF InventoryInv
<1>6. CASE UNCHANGED allVars
  BY <1>6 DEF allVars, vars, messageVars, InventoryInv
<1> QED BY <1>1, <1>2, <1>3, <1>4, <1>5, <1>6 DEF DiscoveryNext

\* An inventory that inspect publishes lists exactly the tools of the answer,
\* each once, by name, with what the answer said of each.  policy create finds
\* these tools in it if it is within policy create's own four limits, and else
\* refuses it (tool_inventory.cpp, policy_generator.cpp).
THEOREM InventoryIsTheTools == DiscoverySpec => []InventoryListsTheTools
<1>1. DiscoveryInit => InventoryInv
  BY DEF DiscoveryInit, Begin, Init, InventoryInv
<1>2. InventoryInv /\ [DiscoveryNext]_allVars => InventoryInv'
  BY InventoryKeeps
<1>3. InventoryInv => InventoryListsTheTools
  <2> SUFFICES ASSUME InventoryInv, outcome = "inventoried" PROVE InventoryListsTheTools
    BY DEF InventoryListsTheTools
  <2>1. /\ message \in Answers /\ parses_tools_list_response(message, ExpectedId)
        /\ inventory = Published(Inventoried(message))
    BY DEF InventoryInv
  <2>2. IsMessage(message)
    BY <2>1, MessagesAssumption
  <2>3. Readings(message.members, "error") = {} /\ Readings(message.members, "method") = {}
    BY <2>1, <2>2, ListMeans
  <2> QED BY ONLY <2>1, <2>2, <2>3, AnswerMeans, Zenon DEF InventoryListsTheTools
<1> QED BY <1>1, <1>2, <1>3, PTL DEF DiscoverySpec
================================================================================
