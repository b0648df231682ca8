------------------------- MODULE ToolCallFilterProofs -------------------------
(***************************************************************************)
(* What holds of ToolCallFilter for every set of ids and tools, every      *)
(* policy and every limit.                                                 *)
(*                                                                         *)
(* The lemmas on the table come first: what add_pending and remove_pending *)
(* do to the set of ids held, and that both keep the table sound.  The     *)
(* inductive invariant then relates the table to the requests the server   *)
(* still has, and the safety properties and the refinement follow.         *)
(***************************************************************************)
EXTENDS ToolCallFilter, FilteringProofs, FiniteSetTheorems, FunctionTheorems, TLAPS

Distinct(s) == \A i, j \in DOMAIN s : s[i] = s[j] => i = j

\* No token in the table is above max_pending_id_bytes.
SizesBounded == \A id \in Held : IdSize[id] <= MaxIdBytes

\* All that is said of the table alone.
TableSound ==
    /\ pending \in Seq(Ids) /\ Len(pending) <= Capacity
    /\ pendingIdBytes \in 0..MaxTotalIdBytes
    /\ SlotsDistinct
    /\ SizesBounded
    /\ IdBytesExact

------------------------------------------------------------------------------
(* Sequences without repetition                                            *)

\* Such a sequence has as many elements as entries.
LEMMA ElementsCount ==
    ASSUME NEW s \in Seq(Ids), Distinct(s)
    PROVE  /\ IsFiniteSet(Elements(s)) /\ Elements(s) \subseteq Ids
           /\ Cardinality(Elements(s)) = Len(s)
<1>1. Len(s) \in Nat /\ DOMAIN s = 1..Len(s)
  OBVIOUS
<1>2. IsFiniteSet(1..Len(s)) /\ Cardinality(1..Len(s)) = Len(s)
  BY <1>1, FS_Interval
<1>3. [i \in 1..Len(s) |-> s[i]] \in Bijection(1..Len(s), Elements(s))
  BY <1>1 DEF Bijection, Injection, Surjection, Elements, Distinct, IsInjective
<1>4. ExistsBijection(1..Len(s), Elements(s))
  BY <1>3 DEF ExistsBijection
<1>5. Elements(s) \subseteq Ids
  BY <1>1 DEF Elements
<1> QED
  BY <1>2, <1>4, <1>5, FS_Bijection

\* Appending an absent id adds it and repeats nothing.
LEMMA AppendAbsent ==
    ASSUME NEW s \in Seq(Ids), Distinct(s), NEW id \in Ids, id \notin Elements(s)
    PROVE  /\ Append(s, id) \in Seq(Ids) /\ Len(Append(s, id)) = Len(s) + 1
           /\ Distinct(Append(s, id))
           /\ Elements(Append(s, id)) = Elements(s) \cup {id}
<1> DEFINE t == Append(s, id)
<1>1. t \in Seq(Ids) /\ Len(t) = Len(s) + 1 /\ Len(s) \in Nat
  OBVIOUS
<1>2. DOMAIN t = 1..(Len(s) + 1) /\ DOMAIN s = 1..Len(s)
  BY <1>1
<1>3. \A i \in 1..Len(s) : t[i] = s[i]
  BY <1>1
<1>4. t[Len(s) + 1] = id
  BY <1>1
<1>5. \A i \in 1..Len(s) : s[i] # id
  BY <1>2 DEF Elements
<1> HIDE DEF t
<1>6. Distinct(t)
  BY <1>1, <1>2, <1>3, <1>4, <1>5 DEF Distinct
<1>7. Elements(t) = Elements(s) \cup {id}
  <2>1. ASSUME NEW i \in DOMAIN t PROVE t[i] \in Elements(s) \cup {id}
    BY <1>1, <1>2, <1>3, <1>4 DEF Elements
  <2>2. ASSUME NEW i \in DOMAIN s PROVE s[i] \in Elements(t)
    <3>1. i \in DOMAIN t /\ t[i] = s[i]
      BY <1>1, <1>2, <1>3
    <3> QED
      BY <3>1 DEF Elements
  <2>3. id \in Elements(t)
    <3>1. Len(s) + 1 \in DOMAIN t
      BY <1>1, <1>2
    <3> QED
      BY <3>1, <1>4 DEF Elements
  <2> QED
    BY <2>1, <2>2, <2>3 DEF Elements
<1> QED
  BY <1>1, <1>6, <1>7 DEF t

\* The swap-removal of one entry removes its id, and no other.
LEMMA SwapRemoveOne ==
    ASSUME NEW s \in Seq(Ids), Distinct(s), NEW i \in DOMAIN s
    PROVE  /\ SwapRemove(s, i) \in Seq(Ids)
           /\ Len(SwapRemove(s, i)) = Len(s) - 1
           /\ Distinct(SwapRemove(s, i))
           /\ Elements(SwapRemove(s, i)) = Elements(s) \ {s[i]}
<1> DEFINE n == Len(s)
           t == SwapRemove(s, i)
<1>1. n \in Nat /\ DOMAIN s = 1..n /\ n >= 1 /\ i \in 1..n
  OBVIOUS
<1>2. DOMAIN t = 1..(n - 1) /\ n - 1 \in Nat
  BY <1>1 DEF SwapRemove
<1>3. \A j \in 1..(n - 1) : t[j] = IF j = i THEN s[n] ELSE s[j]
  BY DEF SwapRemove
<1>4. \A j \in 1..n : s[j] \in Ids
  BY <1>1
<1>5. t \in Seq(Ids) /\ Len(t) = n - 1
  <2>1. t = [j \in 1..(n - 1) |-> IF j = i THEN s[n] ELSE s[j]]
    BY DEF SwapRemove
  <2>2. \A j \in 1..(n - 1) : (IF j = i THEN s[n] ELSE s[j]) \in Ids
    BY <1>1, <1>4
  <2>3. t \in [1..(n - 1) -> Ids]
    BY <2>1, <2>2
  <2> QED
    BY <1>2, <2>3
<1> HIDE DEF n, t
<1>6. \A j, k \in 1..n : s[j] = s[k] => j = k
  BY <1>1 DEF Distinct
<1>7. Distinct(t)
  BY <1>1, <1>2, <1>3, <1>6 DEF Distinct
<1>8. Elements(t) = Elements(s) \ {s[i]}
  <2>1. ASSUME NEW j \in DOMAIN t PROVE t[j] \in Elements(s) \ {s[i]}
    <3>1. j \in 1..n /\ n \in 1..n /\ j # n
      BY <1>1, <1>2
    <3>2. t[j] = IF j = i THEN s[n] ELSE s[j]
      BY <1>2, <1>3
    <3> QED
      BY <1>1, <1>6, <3>1, <3>2 DEF Elements
  <2>2. ASSUME NEW j \in DOMAIN s, s[j] # s[i] PROVE s[j] \in Elements(t)
    <3>1. CASE j = n
      <4>1. i \in DOMAIN t /\ t[i] = s[j]
        BY <1>1, <1>2, <1>3, <2>2, <3>1
      <4> QED
        BY <4>1 DEF Elements
    <3>2. CASE j # n
      <4>1. j \in DOMAIN t /\ t[j] = s[j]
        BY <1>1, <1>2, <1>3, <2>2, <3>2
      <4> QED
        BY <4>1 DEF Elements
    <3> QED
      BY <3>1, <3>2
  <2> QED
    BY <2>1, <2>2 DEF Elements
<1> QED
  BY <1>5, <1>7, <1>8 DEF n, t

------------------------------------------------------------------------------
(* The bytes of a set of ids                                               *)

\* The bytes of an absent id within the limit come on top, and nothing else
\* changes: the counter of the table is exact because of this one fact, read
\* forwards by add_pending and backwards by remove_pending.
LEMMA BytesOfAdd ==
    ASSUME NEW ids \in SUBSET Ids, IsFiniteSet(ids), NEW id \in Ids, id \notin ids,
           IdSize[id] <= MaxIdBytes
    PROVE  Cardinality(BytesOf(ids \cup {id})) = Cardinality(BytesOf(ids)) + IdSize[id]
<1> DEFINE n == IdSize[id]
           new == {id} \X (1..n)
<1>1. n \in Nat \ {0} /\ MaxIdBytes \in Nat
  BY FilterAssumption
<1>2. IsFiniteSet(new) /\ Cardinality(new) = n
  <2>1. IsFiniteSet({id}) /\ Cardinality({id}) = 1
    BY FS_Singleton
  <2>2. IsFiniteSet(1..n) /\ Cardinality(1..n) = n
    <3>1. n \in Int /\ 1 \in Int /\ ~(1 > n) /\ n - 1 + 1 = n
      BY <1>1
    <3> HIDE DEF n
    <3> QED
      BY <3>1, FS_Interval
  <2>3. IsFiniteSet(new) /\ Cardinality(new) = 1 * n
    <3>1. \A S, T : IsFiniteSet(S) /\ IsFiniteSet(T) =>
             /\ IsFiniteSet(S \X T)
             /\ Cardinality(S \X T) = Cardinality(S) * Cardinality(T)
      BY ONLY FS_Product
    <3> QED
      BY ONLY <2>1, <2>2, <3>1
  <2> QED
    BY <1>1, <2>3
<1>3. IsFiniteSet(BytesOf(ids))
  <2>1. IsFiniteSet(1..MaxIdBytes)
    BY <1>1, FS_Interval
  <2>2. IsFiniteSet(ids \X (1..MaxIdBytes))
    BY <2>1, FS_Product
  <2>3. BytesOf(ids) \in SUBSET (ids \X (1..MaxIdBytes))
    BY DEF BytesOf
  <2> QED
    BY <2>2, <2>3, FS_Subset
<1>4. BytesOf(ids \cup {id}) = BytesOf(ids) \cup new
  <2>1. ASSUME NEW b \in new PROVE b \in BytesOf(ids \cup {id})
    BY <1>1 DEF BytesOf
  <2>2. ASSUME NEW b \in BytesOf(ids \cup {id}), b \notin BytesOf(ids) PROVE b \in new
    <3>1. b = <<id, b[2]>> /\ b[2] \in 1..MaxIdBytes /\ b[2] <= n
      BY <2>2 DEF BytesOf
    <3> QED
      BY <1>1, <3>1
  <2> QED
    BY <2>1, <2>2 DEF BytesOf
<1>5. BytesOf(ids) \cap new = {}
  BY DEF BytesOf
<1>6. Cardinality(BytesOf(ids)) \in Nat
  BY <1>3, FS_CardinalityType
<1> HIDE DEF new
<1>7. Cardinality(BytesOf(ids) \cup new)
        = Cardinality(BytesOf(ids)) + Cardinality(new) - Cardinality(BytesOf(ids) \cap new)
  BY <1>2, <1>3, FS_Union
<1>8. Cardinality({}) = 0
  BY FS_EmptySet
<1> HIDE DEF n
<1>9. Cardinality(BytesOf(ids) \cup new) = Cardinality(BytesOf(ids)) + n
  BY <1>1, <1>2, <1>5, <1>6, <1>7, <1>8
<1> QED
  BY <1>4, <1>9 DEF n

\* The bytes of finitely many ids are a number.
LEMMA BytesOfCount ==
    ASSUME NEW ids, IsFiniteSet(ids)
    PROVE  Cardinality(BytesOf(ids)) \in Nat
<1>1. IsFiniteSet(1..MaxIdBytes)
  BY FilterAssumption, FS_Interval
<1>2. IsFiniteSet(ids \X (1..MaxIdBytes))
  BY <1>1, FS_Product
<1>3. BytesOf(ids) \in SUBSET (ids \X (1..MaxIdBytes))
  BY DEF BytesOf
<1> QED
  BY <1>2, <1>3, FS_Subset, FS_CardinalityType

------------------------------------------------------------------------------
(* The two operations of the table                                         *)

\* add_pending, where there is room, adds the id and keeps the table sound.
LEMMA AddPending ==
    ASSUME TableSound, NEW id \in Ids, id \notin Held, HasRoom(id), add_pending(id)
    PROVE  TableSound' /\ Held' = Held \cup {id}
<1> USE DEF TableSound
<1>1. Distinct(pending) /\ id \notin Elements(pending)
  BY DEF SlotsDistinct, Distinct, Held
<1>2. /\ pending' \in Seq(Ids) /\ Len(pending') = Len(pending) + 1
      /\ Distinct(pending') /\ Held' = Held \cup {id}
  BY <1>1, AppendAbsent DEF add_pending, Held
<1>3. IsFiniteSet(Held) /\ Held \subseteq Ids
  BY <1>1, ElementsCount DEF Held
<1>4. IdSize[id] \in Nat /\ Capacity \in Nat /\ MaxTotalIdBytes \in Nat /\ MaxIdBytes \in Nat
  BY FilterAssumption
<1>5. Cardinality(BytesOf(Held \cup {id})) = Cardinality(BytesOf(Held)) + IdSize[id]
  BY <1>3, BytesOfAdd DEF HasRoom
<1>6. IdBytesExact'
  BY <1>2, <1>5 DEF IdBytesExact, add_pending
<1>7. Len(pending') <= Capacity /\ pendingIdBytes' \in 0..MaxTotalIdBytes
  BY <1>2, <1>4 DEF HasRoom, add_pending
<1>8. SlotsDistinct' /\ SizesBounded'
  BY <1>2 DEF SlotsDistinct, Distinct, SizesBounded, HasRoom
<1> QED
  BY <1>2, <1>6, <1>7, <1>8

\* remove_pending removes the id and keeps the table sound.
LEMMA RemovePending ==
    ASSUME TableSound, NEW id \in Ids, remove_pending(id)
    PROVE  TableSound' /\ Held' = Held \ {id}
<1> USE DEF TableSound
<1>1. PICK i \in DOMAIN pending :
        /\ pending[i] = id
        /\ pending' = SwapRemove(pending, i)
        /\ pendingIdBytes' = pendingIdBytes - IdSize[id]
  BY DEF remove_pending
<1>2. Distinct(pending)
  BY DEF SlotsDistinct, Distinct
<1>3. /\ pending' \in Seq(Ids) /\ Len(pending') = Len(pending) - 1
      /\ Distinct(pending') /\ Held' = Held \ {id}
  BY <1>1, <1>2, SwapRemoveOne DEF Held
<1>4. IsFiniteSet(Held) /\ Held \subseteq Ids /\ id \in Held
  BY <1>1, <1>2, ElementsCount DEF Held, Elements
<1>5. IdSize[id] \in Nat /\ Capacity \in Nat /\ MaxTotalIdBytes \in Nat
  BY FilterAssumption
<1>6. /\ IsFiniteSet(Held \ {id}) /\ (Held \ {id}) \cup {id} = Held
  BY <1>4, FS_RemoveElement
<1>7. Cardinality(BytesOf(Held)) = Cardinality(BytesOf(Held \ {id})) + IdSize[id]
  <2>1. IdSize[id] <= MaxIdBytes
    BY <1>4 DEF SizesBounded
  <2>2. Cardinality(BytesOf((Held \ {id}) \cup {id}))
          = Cardinality(BytesOf(Held \ {id})) + IdSize[id]
    BY <1>4, <1>6, <2>1, BytesOfAdd
  <2> QED
    BY <1>6, <2>2
<1>8. Cardinality(BytesOf(Held \ {id})) \in Nat
  BY <1>6, BytesOfCount
<1> DEFINE all  == Cardinality(BytesOf(Held))
           rest == Cardinality(BytesOf(Held \ {id}))
           size == IdSize[id]
<1>9. /\ all = rest + size /\ rest \in Nat /\ size \in Nat
      /\ pendingIdBytes = all /\ pendingIdBytes' = pendingIdBytes - size
      /\ pendingIdBytes \in 0..MaxTotalIdBytes
  BY <1>1, <1>5, <1>7, <1>8 DEF IdBytesExact
<1>10. IdBytesExact' /\ Len(pending') <= Capacity /\ pendingIdBytes' \in 0..MaxTotalIdBytes
  <2>1. Cardinality(BytesOf(Held')) = rest
    BY <1>3
  <2> HIDE DEF all, rest, size
  <2>2. pendingIdBytes' = rest /\ pendingIdBytes' \in 0..MaxTotalIdBytes
    BY ONLY <1>5, <1>9
  <2>3. Len(pending) \in Nat /\ Len(pending) <= Capacity
    BY LenProperties
  <2>4. Len(pending') <= Capacity
    BY ONLY <1>3, <1>5, <2>3
  <2> QED BY <2>1, <2>2, <2>4 DEF IdBytesExact
<1>11. SlotsDistinct' /\ SizesBounded'
  BY <1>3 DEF SlotsDistinct, Distinct, SizesBounded
<1> QED
  BY <1>3, <1>9, <1>10, <1>11

\* A step that leaves the table alone keeps it sound.
LEMMA KeepTable ==
    ASSUME TableSound, UNCHANGED table
    PROVE  TableSound' /\ Held' = Held
BY DEF TableSound, table, SlotsDistinct, SizesBounded, IdBytesExact, Held

\* The empty table of a closed connection is sound.
LEMMA ClearTable ==
    ASSUME pending' = << >>, pendingIdBytes' = 0
    PROVE  TableSound' /\ Held' = {}
<1>1. Held' = {}
  BY DEF Held, Elements
<1>2. Cardinality(BytesOf({})) = 0
  BY FS_EmptySet DEF BytesOf
<1> QED
  BY <1>1, <1>2, FilterAssumption
     DEF TableSound, SlotsDistinct, SizesBounded, IdBytesExact

------------------------------------------------------------------------------
(* The inductive invariant                                                 *)

\* The variables outside the table have their types.
PeersOK ==
    /\ forwarded \in Nat /\ blocked \in Nat
    /\ audit \in [AuditEvents -> Nat]
    /\ open \in BOOLEAN
    /\ executed \in [Tools -> Nat]
    /\ unanswered \in SUBSET [id : Ids, list : BOOLEAN]
    /\ waiting \in SUBSET Ids /\ silenced \in SUBSET Ids
    /\ lost \in SUBSET Ids /\ unread \in SUBSET Ids /\ strayed \in SUBSET Ids
    /\ listed \in SUBSET (Ids \X Tools)
    /\ handled \in Nat

\* The server has one request per id, by the client's rule: without it an
\* answer could take the slot of another request.
OneRequestPerId == \A r, q \in unanswered : r.id = q.id => r = q

\* A repeated request of an id whose slot is left over is dropped: the answer
\* to the first must have been lost.
UnreadIsLost == unread \subseteq lost

\* The table matches the requests the server has; what has been relayed
\* matches the policy and the trail; and nobody waits in vain.
Conversation ==
    /\ OneRequestPerId
    /\ UnreadIsLost
    /\ HeldIsOutstanding
    /\ ListAnswersFiltered
    /\ CallsMatchAudit
    /\ NoRequestForgotten

IInv == TableSound /\ PeersOK /\ Conversation

\* The fields of a client message.
LEMMA MessageFields ==
    ASSUME NEW m \in ClientMessages
    PROVE  /\ m.kind \in {"invalid", "request", "notification", "response"}
           /\ m.kind = "request" => m.id \in Ids /\ m.method \in Methods
           /\ m.kind # "invalid" /\ m.method = "tools/call" => m.tool \in Tools \cup {NoTool}
           /\ m.id \in Ids \cup {NoId}
           /\ m.kind = "invalid" => {m.wants} \ {NoId} \in SUBSET Ids
BY DEF ClientMessages, Rejected, Methods

\* Recording an event of the trail keeps its type and, unless it is an
\* allowed call, the calls it reports.
LEMMA RecordStep ==
    ASSUME PeersOK, NEW e \in AuditEvents, Record(e)
    PROVE  /\ audit' \in [AuditEvents -> Nat]
           /\ \A a \in AuditEvents : a # e => audit'[a] = audit[a]
           /\ audit'[e] = audit[e] + 1
BY DEF PeersOK, Record

\* The event of an allowed call is one of the trail's events.
LEMMA CallEvents ==
    ASSUME NEW t \in Tools
    PROVE  /\ Event("tool_call", "policy_allowed", t) \in AuditEvents
           /\ Event("tool_call", "policy_denied", t) \in AuditEvents
           /\ \A u \in Tools : Event("tool_call", "policy_allowed", t) # Event("tool_call", "policy_denied", u)
           /\ \A u \in Tools : u # t => Event("tool_call", "policy_allowed", t) # Event("tool_call", "policy_allowed", u)
BY DEF Event, AuditEvents

\* The events without a tool are of the trail, and are not allowed calls.
LEMMA OtherEvents ==
    /\ Event("tool_call", "malformed_message", NoTool) \in AuditEvents
    /\ Event("message_rejected", "malformed_message", NoTool) \in AuditEvents
    /\ Event("message_rejected", "message_too_large", NoTool) \in AuditEvents
    /\ Event("tool_call", "invalid_parameters", NoTool) \in AuditEvents
    /\ Event("correlation_exhausted", "capacity_exhausted", NoTool) \in AuditEvents
BY DEF Event, AuditEvents

\* An event that is not an allowed call leaves the match of calls and trail.
LEMMA RecordOther ==
    ASSUME PeersOK, CallsMatchAudit, NEW e \in AuditEvents, Record(e),
           e.reason # "policy_allowed", executed' = executed
    PROVE  audit' \in [AuditEvents -> Nat] /\ CallsMatchAudit'
<1>1. ASSUME NEW t \in Tools
      PROVE  audit'[Event("tool_call", "policy_allowed", t)] = audit[Event("tool_call", "policy_allowed", t)]
  <2>1. Event("tool_call", "policy_allowed", t) # e
    BY DEF Event
  <2> QED
    BY <2>1, CallEvents, RecordStep
<1> QED
  BY <1>1, RecordStep DEF CallsMatchAudit

------------------------------------------------------------------------------
(* What becomes of a client message                                        *)


\* Types of the trail, the counters, the calls and the bound.
TrailOK ==
    /\ forwarded \in Nat /\ blocked \in Nat /\ handled \in Nat
    /\ audit \in [AuditEvents -> Nat]
    /\ executed \in [Tools -> Nat]

\* A step that relays nothing keeps the invariant: nobody new waits, except
\* for an answer the server owes already, one that was lost, or none.
LEMMA QuietStep ==
    ASSUME IInv, TableSound', Held' = Held, open' = open,
           UNCHANGED <<unanswered, server>>,
           silenced \subseteq silenced', silenced' \subseteq silenced \cup Ids,
           waiting' \subseteq waiting \cup {r.id : r \in unanswered} \cup lost \cup silenced',
           TrailOK', CallsMatchAudit'
    PROVE  IInv'
<1> USE DEF IInv, PeersOK, Conversation, server
<1>1. PeersOK'
  <2>1. {r.id : r \in unanswered} \subseteq Ids
    OBVIOUS
  <2> QED
    BY <2>1 DEF TrailOK
<1>2. OneRequestPerId' /\ UnreadIsLost' /\ HeldIsOutstanding' /\ ListAnswersFiltered'
  BY DEF OneRequestPerId, UnreadIsLost, HeldIsOutstanding, ListIds, ListAnswersFiltered
<1>3. NoRequestForgotten'
  BY DEF NoRequestForgotten
<1> QED
  BY <1>1, <1>2, <1>3

\* A relayed message keeps the invariant when the table took up its id
\* exactly if it is a tools/list request.
LEMMA ForwardStep ==
    ASSUME IInv, TableSound', open, open' = open,
           NEW m \in ClientMessages, FreshId(m), Forward(m),
           IF m.kind = "request" /\ m.method = "tools/list"
           THEN m.id \notin Held /\ Held' = Held \cup {m.id} ELSE Held' = Held,
           TrailOK', CallsMatchAudit'
    PROVE  IInv'
<1> USE DEF IInv, PeersOK, Conversation
<1> DEFINE request == [id |-> m.id, list |-> m.method = "tools/list"]
<1>1. CASE m.kind # "request"
  BY <1>1, QuietStep DEF Forward
<1>2. CASE m.kind = "request"
  <2>1. m.id \in Ids
    BY <1>2, MessageFields
  <2>2. /\ unanswered' = unanswered \cup {request}
        /\ waiting' = waiting \cup {m.id}
        /\ UNCHANGED <<silenced, lost, unread, strayed, listed>>
    BY <1>2 DEF Forward, server
  <2>3. request \in [id : Ids, list : BOOLEAN] /\ request.id = m.id
        /\ (request.list <=> m.method = "tools/list")
    BY <2>1
  <2> HIDE DEF request
  <2>4. PeersOK'
    BY <2>1, <2>2, <2>3 DEF TrailOK
  <2>5. ListIds \ Held \subseteq strayed /\ Held \ ListIds \subseteq unread
    BY DEF HeldIsOutstanding
  <2>6. OneRequestPerId' /\ UnreadIsLost'
    <3>1. ASSUME NEW r \in unanswered, r.id = m.id PROVE r = request
      <4>1. r.list /\ m.method = "tools/list"
        BY <1>2, <3>1 DEF FreshId
      <4>2. r.list = TRUE /\ request.list = TRUE /\ r.id = request.id
        BY <2>3, <3>1, <4>1
      <4>3. r \in [id : Ids, list : BOOLEAN]
        OBVIOUS
      <4> QED
        BY <2>3, <4>2, <4>3
    <3> QED
      BY <2>2, <2>3, <3>1 DEF OneRequestPerId, UnreadIsLost
  <2>7. HeldIsOutstanding'
    <3>1. CASE m.method = "tools/list"
      <4>1. ListIds' = ListIds \cup {m.id}
        BY <2>2, <2>3, <3>1 DEF ListIds
      <4> QED
        BY <1>2, <2>2, <2>5, <3>1, <4>1 DEF HeldIsOutstanding
    <3>2. CASE m.method # "tools/list"
      <4>1. ListIds' = ListIds
        BY <2>2, <2>3, <3>2 DEF ListIds
      <4> QED
        BY <1>2, <2>2, <2>5, <3>2, <4>1 DEF HeldIsOutstanding
    <3> QED
      BY <3>1, <3>2
  <2>8. ListAnswersFiltered' /\ NoRequestForgotten'
    BY <2>2, <2>3 DEF ListAnswersFiltered, NoRequestForgotten
  <2> QED
    BY <2>4, <2>6, <2>7, <2>8
<1> QED
  BY <1>1, <1>2

\* An answered id leaves the list of requests, and no other does.
LEMMA OwedRemoved ==
    ASSUME PeersOK, NEW id, unanswered' = unanswered \ Owed(id)
    PROVE  /\ unanswered' \in SUBSET [id : Ids, list : BOOLEAN]
           /\ ListIds' = ListIds \ {id}
           /\ {r.id : r \in unanswered'} = {r.id : r \in unanswered} \ {id}
BY DEF PeersOK, Owed, ListIds

\* A response keeps the invariant when it frees the slot of its id, if there
\* is one, and was filtered if there was.
LEMMA AnswerStep ==
    ASSUME IInv, TableSound', open, open' = open,
           NEW id \in Ids, Held' = Held \ {id},
           NEW tools \in SUBSET Tools, id \in Held => tools \subseteq Visible,
           Deliver(id, tools) \/ DropAnswer(id),
           TrailOK', CallsMatchAudit'
    PROVE  IInv'
<1> USE DEF IInv, PeersOK, Conversation
<1>1. /\ unanswered' = unanswered \ Owed(id)
      /\ UNCHANGED <<silenced, unread>>
      /\ strayed' = IF Owed(id) = {} THEN strayed \cup {id} ELSE strayed
  BY DEF Deliver, DropAnswer
<1>2. /\ unanswered' \in SUBSET [id : Ids, list : BOOLEAN]
      /\ ListIds' = ListIds \ {id}
      /\ {r.id : r \in unanswered'} = {r.id : r \in unanswered} \ {id}
  BY <1>1, OwedRemoved
<1>3. CASE Deliver(id, tools)
  <2>1. /\ waiting' = waiting \ {id} /\ lost' = lost
        /\ listed' = IF \E r \in Owed(id) : ~r.list
                     THEN listed ELSE listed \cup ({id} \X tools)
    BY <1>3 DEF Deliver
  <2>2. PeersOK'
    BY <1>1, <1>2, <2>1 DEF TrailOK
  <2>3. OneRequestPerId' /\ UnreadIsLost' /\ HeldIsOutstanding'
    BY <1>1, <1>2, <2>1 DEF OneRequestPerId, UnreadIsLost, HeldIsOutstanding
  <2>4. ListAnswersFiltered'
    <3>1. ASSUME \A r \in Owed(id) : r.list PROVE tools \subseteq Visible \/ id \in strayed'
      <4>1. CASE Owed(id) = {}
        BY <1>1, <4>1
      <4>2. CASE Owed(id) # {} /\ id \notin Held
        <5>1. id \in ListIds
          BY <3>1, <4>2 DEF Owed, ListIds
        <5> QED
          BY <1>1, <4>2, <5>1 DEF HeldIsOutstanding
      <4> QED
        BY <4>1, <4>2
    <3> QED
      BY <1>1, <2>1, <3>1 DEF ListAnswersFiltered
  <2>5. NoRequestForgotten'
    BY <1>1, <1>2, <2>1 DEF NoRequestForgotten
  <2> QED
    BY <2>2, <2>3, <2>4, <2>5
<1>4. CASE DropAnswer(id)
  <2>1. /\ lost' = lost \cup {id} /\ UNCHANGED <<waiting, listed>>
    BY <1>4 DEF DropAnswer
  <2>2. PeersOK'
    BY <1>1, <1>2, <2>1 DEF TrailOK
  <2>3. OneRequestPerId' /\ UnreadIsLost' /\ HeldIsOutstanding'
    BY <1>1, <1>2, <2>1 DEF OneRequestPerId, UnreadIsLost, HeldIsOutstanding
  <2>4. ListAnswersFiltered' /\ NoRequestForgotten'
    BY <1>1, <1>2, <2>1 DEF ListAnswersFiltered, NoRequestForgotten
  <2> QED
    BY <2>2, <2>3, <2>4
<1> QED
  BY <1>3, <1>4

\* A defective message keeps the invariant when it frees the slot of the id it
\* shows, and no other.
LEMMA DefectStep ==
    ASSUME IInv, TableSound', open, open' = open,
           NEW id \in Ids \cup {NoId}, Held' = Held \ {id},
           DropDefective(id), TrailOK', CallsMatchAudit'
    PROVE  IInv'
<1> USE DEF IInv, PeersOK, Conversation
<1>1. UNCHANGED <<waiting, silenced, listed>>
  BY DEF DropDefective
<1>2. NoId \notin Ids /\ Held \subseteq Ids
  BY FilterAssumption DEF TableSound, Held, Elements
<1>3. CASE strayed' = strayed \cup ({id} \ {NoId}) /\ UNCHANGED <<unanswered, lost, unread>>
  <2>1. ListIds' = ListIds /\ ListIds \subseteq Ids
    BY <1>3 DEF ListIds
  <2>2. PeersOK'
    BY <1>1, <1>3 DEF TrailOK
  <2>3. OneRequestPerId' /\ UnreadIsLost' /\ HeldIsOutstanding'
    BY <1>2, <1>3, <2>1 DEF OneRequestPerId, UnreadIsLost, HeldIsOutstanding
  <2>4. ListAnswersFiltered' /\ NoRequestForgotten'
    BY <1>1, <1>3 DEF ListAnswersFiltered, NoRequestForgotten
  <2> QED
    BY <2>2, <2>3, <2>4
<1>4. ASSUME NEW r \in unanswered, id \in {r.id, NoId},
             unanswered' = unanswered \ {r}, lost' = lost \cup {r.id}, strayed' = strayed,
             unread' = IF id = NoId /\ r.list THEN unread \cup {r.id} ELSE unread
      PROVE  IInv'
  <2>1. r.id \in Ids
    OBVIOUS
  <2>2. PeersOK'
    BY <1>1, <1>4, <2>1 DEF TrailOK
  <2>3. OneRequestPerId' /\ UnreadIsLost'
    BY <1>4 DEF OneRequestPerId, UnreadIsLost
  <2>4. ListIds' = IF r.list THEN ListIds \ {r.id} ELSE ListIds
    BY <1>4 DEF ListIds, OneRequestPerId
  <2>5. ~r.list => r.id \notin ListIds
    BY DEF ListIds, OneRequestPerId
  <2>6. HeldIsOutstanding'
    BY <1>2, <1>4, <2>1, <2>4, <2>5 DEF HeldIsOutstanding
  <2>7. ListAnswersFiltered' /\ NoRequestForgotten'
    BY <1>1, <1>4 DEF ListAnswersFiltered, NoRequestForgotten
  <2> QED
    BY <2>2, <2>3, <2>6, <2>7
<1> QED
  BY <1>3, <1>4 DEF DropDefective

------------------------------------------------------------------------------
(* The handlers                                                            *)

\* inspect, one handler per case.
LEMMA InspectStep ==
    ASSUME IInv, NEW m \in ClientMessages, inspect(m)
    PROVE  IInv'
<1> USE DEF IInv
<1>1. open /\ open' = open /\ handled' = handled + 1 /\ FreshId(m)
  BY DEF inspect
<1>2. handled' \in Nat /\ PeersOK
  BY <1>1 DEF PeersOK
<1>3. Conversation /\ CallsMatchAudit
  BY <1>1 DEF Conversation, HeldIsOutstanding
<1>4. m.kind = "request" => m.id \in Ids
  BY MessageFields
<1>5. CASE inspect_rejected(m)
  <2>1. PICK e \in AuditEvents : Record(e) /\ e.reason # "policy_allowed"
    BY <1>5, OtherEvents DEF inspect_rejected, Event
  <2>2. /\ UNCHANGED <<executed, unanswered, server>>
        /\ silenced \subseteq silenced' /\ silenced' \subseteq silenced \cup Ids
        /\ waiting' \subseteq waiting \cup silenced'
    <3>1. {m.wants} \ {NoId} \in SUBSET Ids
      BY <1>5, MessageFields DEF inspect_rejected
    <3> QED
      BY <1>2, <1>5, <3>1 DEF inspect_rejected, Respond, DropRejected, PeersOK
  <2>3. TableSound' /\ Held' = Held
    BY <1>5, KeepTable DEF inspect_rejected
  <2>4. audit' \in [AuditEvents -> Nat] /\ CallsMatchAudit'
    BY <1>2, <1>3, <2>1, <2>2, RecordOther
  <2>5. TrailOK'
    BY <1>2, <1>5, <2>2, <2>4 DEF TrailOK, PeersOK, inspect_rejected, counters
  <2> QED
    BY <1>1, <2>2, <2>3, <2>4, <2>5, QuietStep
<1>6. CASE inspect_list_notification(m)
  <2>1. TableSound' /\ Held' = Held
    BY <1>6, KeepTable DEF inspect_list_notification
  <2>2. CASE Len(pending) >= Capacity
    <3>1. Record(Event("correlation_exhausted", "capacity_exhausted", NoTool)) /\ Drop(m)
      BY <1>6, <2>2 DEF inspect_list_notification
    <3>2. UNCHANGED <<executed, unanswered, silenced, server>> /\ waiting' \subseteq waiting
      BY <1>6, <3>1 DEF Drop, inspect_list_notification
    <3>3. audit' \in [AuditEvents -> Nat] /\ CallsMatchAudit'
      <4>1. Event("correlation_exhausted", "capacity_exhausted", NoTool).reason # "policy_allowed"
        BY DEF Event
      <4> QED
        BY <1>2, <1>3, <3>1, <3>2, <4>1, OtherEvents, RecordOther
    <3>4. TrailOK'
      BY <1>2, <1>6, <3>2, <3>3 DEF TrailOK, PeersOK, inspect_list_notification, counters
    <3> QED
      BY <1>1, <2>1, <3>2, <3>3, <3>4, QuietStep
  <2>3. CASE ~(Len(pending) >= Capacity)
    <3>1. Forward(m) /\ UNCHANGED audit /\ UNCHANGED counters
          /\ m.kind = "notification" /\ m.method = "tools/list"
      BY <1>6, <2>3 DEF inspect_list_notification
    <3>2. executed' = executed
      BY <3>1 DEF Forward
    <3>3. CallsMatchAudit' /\ TrailOK'
      BY <1>2, <1>3, <3>1, <3>2 DEF CallsMatchAudit, TrailOK, PeersOK, counters
    <3> QED
      BY <1>1, <2>1, <3>1, <3>3, ForwardStep
  <2> QED
    BY <2>2, <2>3
<1>7. CASE inspect_list_request(m)
  <2>1. m.kind = "request" /\ m.method = "tools/list" /\ UNCHANGED counters
    BY <1>7 DEF inspect_list_request
  <2>2. CASE m.id \in Held /\ Drop(m) /\ UNCHANGED <<table, audit>>
    <3>1. TableSound' /\ Held' = Held
      BY <2>2, KeepTable
    <3>2. m.id \in {r.id : r \in unanswered} \cup lost
      BY <1>1, <1>3, <2>2 DEF ListIds, Conversation, HeldIsOutstanding, UnreadIsLost
    <3>3. UNCHANGED <<executed, unanswered, silenced, server>>
          /\ waiting' \subseteq waiting \cup {r.id : r \in unanswered} \cup lost
      BY <2>2, <3>2 DEF Drop
    <3>4. CallsMatchAudit' /\ TrailOK'
      BY <1>2, <1>3, <2>1, <2>2, <3>3 DEF CallsMatchAudit, TrailOK, PeersOK, counters
    <3> QED
      BY <1>1, <3>1, <3>3, <3>4, QuietStep
  <2>3. CASE m.id \notin Held /\ HasRoom(m.id) /\ add_pending(m.id) /\ Forward(m) /\ UNCHANGED audit
    <3>1. TableSound' /\ Held' = Held \cup {m.id}
      BY <1>4, <2>1, <2>3, AddPending
    <3>2. executed' = executed
      BY <2>1, <2>3 DEF Forward
    <3>3. CallsMatchAudit' /\ TrailOK'
      BY <1>2, <1>3, <2>1, <2>3, <3>2 DEF CallsMatchAudit, TrailOK, PeersOK, counters
    <3> QED
      BY <1>1, <2>1, <2>3, <3>1, <3>3, ForwardStep
  <2>4. CASE /\ m.id \notin Held /\ ~HasRoom(m.id)
             /\ Record(Event("correlation_exhausted", "capacity_exhausted", NoTool))
             /\ Respond(m.id) /\ UNCHANGED table
    <3>1. TableSound' /\ Held' = Held
      BY <2>4, KeepTable
    <3>2. UNCHANGED <<executed, unanswered, silenced, server>> /\ waiting' \subseteq waiting
      BY <2>4 DEF Respond
    <3>3. audit' \in [AuditEvents -> Nat] /\ CallsMatchAudit'
      <4>1. Event("correlation_exhausted", "capacity_exhausted", NoTool).reason # "policy_allowed"
        BY DEF Event
      <4> QED
        BY <1>2, <1>3, <2>4, <3>2, <4>1, OtherEvents, RecordOther
    <3>4. TrailOK'
      BY <1>2, <2>1, <3>2, <3>3 DEF TrailOK, PeersOK, counters
    <3> QED
      BY <1>1, <3>1, <3>2, <3>3, <3>4, QuietStep
  <2> QED
    BY <1>7, <2>2, <2>3, <2>4 DEF inspect_list_request
<1>8. CASE inspect_other(m)
  <2>1. TableSound' /\ Held' = Held
    BY <1>8, KeepTable DEF inspect_other
  <2>2. Forward(m) /\ m.method # "tools/call" /\ m.method # "tools/list"
        /\ UNCHANGED audit /\ UNCHANGED counters
    BY <1>8 DEF inspect_other
  <2>3. executed' = executed
    BY <2>2 DEF Forward
  <2>4. CallsMatchAudit' /\ TrailOK'
    BY <1>2, <1>3, <2>2, <2>3 DEF CallsMatchAudit, TrailOK, PeersOK, counters
  <2> QED
    BY <1>1, <2>1, <2>2, <2>4, ForwardStep
<1>9. CASE inspect_call_invalid(m)
  <2>1. TableSound' /\ Held' = Held
    BY <1>9, KeepTable DEF inspect_call_invalid
  <2>2. Record(Event("tool_call", "invalid_parameters", NoTool)) /\ Refuse(m) /\ UNCHANGED counters
    BY <1>9 DEF inspect_call_invalid
  <2>3. UNCHANGED <<executed, unanswered, silenced, server>> /\ waiting' \subseteq waiting
    BY <2>2 DEF Refuse, Respond, Drop
  <2>4. audit' \in [AuditEvents -> Nat] /\ CallsMatchAudit'
    <3>1. Event("tool_call", "invalid_parameters", NoTool).reason # "policy_allowed"
      BY DEF Event
    <3> QED
      BY <1>2, <1>3, <2>2, <2>3, <3>1, OtherEvents, RecordOther
  <2>5. TrailOK'
    BY <1>2, <2>2, <2>3, <2>4 DEF TrailOK, PeersOK, counters
  <2> QED
    BY <1>1, <2>1, <2>3, <2>4, <2>5, QuietStep
<1>10. CASE inspect_call(m)
  <2>1. m.kind # "invalid" /\ m.method = "tools/call" /\ m.tool \in Tools
    BY <1>10, MessageFields DEF inspect_call
  <2>2. TableSound' /\ Held' = Held
    BY <1>10, KeepTable DEF inspect_call
  <2>3. CASE m.tool \in Callable
    <3>1. /\ Record(Event("tool_call", "policy_allowed", m.tool)) /\ Forward(m)
          /\ forwarded' = forwarded + 1 /\ blocked' = blocked
      BY <1>10, <2>3 DEF inspect_call
    <3>2. executed' = [executed EXCEPT ![m.tool] = @ + 1]
      BY <2>1, <3>1 DEF Forward
    <3>3. TrailOK'
      BY <1>2, <2>1, <3>1, <3>2, CallEvents, RecordStep DEF TrailOK, PeersOK
    <3>4. CallsMatchAudit'
      <4>1. ASSUME NEW t \in Tools
            PROVE  /\ executed'[t] = audit'[Event("tool_call", "policy_allowed", t)]
                   /\ t \notin Callable => executed'[t] = 0
        <5>1. CASE t = m.tool
          BY <1>2, <1>3, <2>1, <2>3, <3>1, <3>2, <5>1, CallEvents, RecordStep
             DEF CallsMatchAudit, PeersOK
        <5>2. CASE t # m.tool
          BY <1>2, <1>3, <2>1, <3>1, <3>2, <5>2, CallEvents, RecordStep
             DEF CallsMatchAudit, PeersOK
        <5> QED
          BY <5>1, <5>2
      <4> QED
        BY <4>1 DEF CallsMatchAudit
    <3> QED
      BY <1>1, <2>1, <2>2, <3>1, <3>3, <3>4, ForwardStep
  <2>4. CASE m.tool \notin Callable
    <3>1. /\ Record(Event("tool_call", "policy_denied", m.tool)) /\ Refuse(m)
          /\ forwarded' = forwarded /\ blocked' = blocked + 1
      BY <1>10, <2>4 DEF inspect_call
    <3>2. UNCHANGED <<executed, unanswered, silenced, server>> /\ waiting' \subseteq waiting
      BY <3>1 DEF Refuse, Respond, Drop
    <3>3. audit' \in [AuditEvents -> Nat] /\ CallsMatchAudit'
      <4>1. Event("tool_call", "policy_denied", m.tool).reason # "policy_allowed"
        BY DEF Event
      <4> QED
        BY <1>2, <1>3, <2>1, <3>1, <3>2, <4>1, CallEvents, RecordOther
    <3>4. TrailOK'
      BY <1>2, <3>1, <3>2, <3>3 DEF TrailOK, PeersOK
    <3> QED
      BY <1>1, <2>2, <3>2, <3>3, <3>4, QuietStep
  <2> QED
    BY <2>3, <2>4
<1> QED
  BY <1>5, <1>6, <1>7, <1>8, <1>9, <1>10 DEF inspect

\* The list of a body is a sequence of tools, an error's the empty one.
LEMMA BodyList ==
    ASSUME NEW body \in Bodies
    PROVE  \E n \in 0..MaxListed : body.tools \in [1..n -> Tools]
<1>1. << >> \in [1..0 -> Tools] /\ 0 \in 0..MaxListed
  BY FilterAssumption
<1>2. CASE body \in [tools : {<< >>}, end : {"error"}]
  BY <1>1, <1>2
<1>3. CASE body \in [tools : UNION {[1..n -> Tools] : n \in 0..MaxListed},
                    end : {"tools", "malformed"}]
  BY <1>3
<1> QED
  BY <1>2, <1>3 DEF Bodies

\* The entries of a list that satisfy a condition can be counted, and are no
\* more than the list has.
LEMMA ListedCount ==
    ASSUME NEW body \in Bodies, NEW S \in SUBSET DOMAIN body.tools
    PROVE  /\ Elements(body.tools) \in SUBSET Tools
           /\ Len(body.tools) \in Nat
           /\ Cardinality(S) \in Nat /\ Cardinality(S) <= Len(body.tools)
<1>1. PICK n \in 0..MaxListed : body.tools \in [1..n -> Tools]
  BY BodyList
<1>2. n \in Nat /\ Len(body.tools) = n /\ DOMAIN body.tools = 1..n
  BY <1>1, FilterAssumption
<1>3. IsFiniteSet(1..n) /\ Cardinality(1..n) = n
  <2>1. n \in Int /\ 1 \in Int /\ (1 > n => n = 0) /\ n - 1 + 1 = n
    BY <1>2
  <2> QED
    BY <2>1, FS_Interval
<1>4. IsFiniteSet(S) /\ Cardinality(S) <= n
  BY <1>2, <1>3, FS_Subset
<1> QED
  BY <1>1, <1>2, <1>4, FS_CardinalityType DEF Elements

\* The visibility checks keep the counters numbers.
LEMMA CountVisibilityStep ==
    ASSUME PeersOK, NEW body \in Bodies, CountVisibility(body.tools)
    PROVE  forwarded' \in Nat /\ blocked' \in Nat
<1> DEFINE S == {i \in DOMAIN body.tools : body.tools[i] \in Visible}
<1>1. S \in SUBSET DOMAIN body.tools
  OBVIOUS
<1>2. /\ forwarded' = forwarded + Cardinality(S)
      /\ blocked' = blocked + (Len(body.tools) - Cardinality(S))
  BY DEF CountVisibility
<1> HIDE DEF S
<1>3. Cardinality(S) \in Nat /\ Len(body.tools) \in Nat /\ Cardinality(S) <= Len(body.tools)
  BY <1>1, ListedCount
<1> QED
  BY <1>2, <1>3 DEF PeersOK

\* Reporting hidden tools reports no call.
LEMMA RecordHiddenStep ==
    ASSUME PeersOK, CallsMatchAudit, NEW body \in Bodies, RecordHidden(body.tools),
           executed' = executed
    PROVE  audit' \in [AuditEvents -> Nat] /\ CallsMatchAudit'
<1>1. ASSUME NEW e \in AuditEvents
      PROVE  audit[e] + Occurrences(body.tools, e.tool) \in Nat
  <2>1. {i \in DOMAIN body.tools : body.tools[i] = e.tool} \in SUBSET DOMAIN body.tools
    OBVIOUS
  <2>2. Occurrences(body.tools, e.tool) \in Nat
    BY <2>1, ListedCount DEF Occurrences
  <2>3. audit[e] \in Nat
    BY DEF PeersOK
  <2> QED
    BY <2>2, <2>3
<1>2. audit' \in [AuditEvents -> Nat]
  BY <1>1 DEF RecordHidden, PeersOK
<1>3. ASSUME NEW t \in Tools
      PROVE  audit'[Event("tool_call", "policy_allowed", t)]
               = audit[Event("tool_call", "policy_allowed", t)]
  <2>1. Event("tool_call", "policy_allowed", t).event # "tool_hidden"
    BY DEF Event
  <2> QED
    BY <2>1, CallEvents DEF RecordHidden
<1> QED
  BY <1>2, <1>3 DEF CallsMatchAudit

\* inspect_server, one handler per case.
LEMMA InspectServerStep ==
    ASSUME IInv, inspect_server
    PROVE  IInv'
<1> USE DEF IInv
<1>1. open /\ open' = open /\ handled' = handled + 1
  BY DEF inspect_server
<1>2. handled' \in Nat /\ PeersOK
  BY <1>1 DEF PeersOK
<1>3. Conversation /\ CallsMatchAudit
  BY <1>1 DEF Conversation
<1>5. CASE inspect_server_request
  <2>1. TableSound' /\ Held' = Held
    BY <1>5, KeepTable DEF inspect_server_request
  <2>2. UNCHANGED <<executed, unanswered, silenced, server, waiting, audit, forwarded, blocked>>
    BY <1>5 DEF inspect_server_request, peers, counters
  <2>3. CallsMatchAudit' /\ TrailOK'
    BY <1>2, <1>3, <2>2 DEF CallsMatchAudit, TrailOK, PeersOK
  <2> QED
    BY <1>1, <2>1, <2>2, <2>3, QuietStep
<1>6. ASSUME NEW id \in Ids \cup {NoId}, inspect_server_rejected(id) PROVE IInv'
  <2>1. DropDefective(id) /\ UNCHANGED <<counters, audit>> /\ executed' = executed
    BY <1>6 DEF inspect_server_rejected, DropDefective
  <2>2. TableSound' /\ Held' = Held \ {id}
    <3>1. CASE id \in Held
      <4>1. id \in Ids
        BY <3>1, FilterAssumption DEF TableSound, Held, Elements
      <4> QED
        BY <1>6, <3>1, <4>1, RemovePending DEF inspect_server_rejected
    <3>2. CASE id \notin Held
      BY <1>6, <3>2, KeepTable DEF inspect_server_rejected
    <3> QED
      BY <3>1, <3>2
  <2>3. CallsMatchAudit' /\ TrailOK'
    BY <1>2, <1>3, <2>1 DEF CallsMatchAudit, TrailOK, PeersOK, counters
  <2> QED
    BY <1>1, <2>1, <2>2, <2>3, DefectStep
<1>7. ASSUME NEW id \in Ids, NEW body \in Bodies, inspect_server_plain(id, body)
      PROVE  IInv'
  <2>1. /\ Deliver(id, Elements(body.tools)) /\ id \notin Held
        /\ UNCHANGED <<table, counters, audit>> /\ executed' = executed
    BY <1>7 DEF inspect_server_plain, Deliver
  <2>2. TableSound' /\ Held' = Held \ {id}
    BY <2>1, KeepTable
  <2>3. Elements(body.tools) \in SUBSET Tools
    <3>1. {} \in SUBSET DOMAIN body.tools
      OBVIOUS
    <3> QED
      BY <3>1, ListedCount
  <2>4. CallsMatchAudit' /\ TrailOK'
    BY <1>2, <1>3, <2>1 DEF CallsMatchAudit, TrailOK, PeersOK, counters
  <2> QED
    BY <1>1, <2>1, <2>2, <2>3, <2>4, AnswerStep
<1>8. ASSUME NEW id \in Ids, NEW body \in Bodies, inspect_server_list(id, body)
      PROVE  IInv'
  <2>1. executed' = executed
    BY <1>8 DEF inspect_server_list, Deliver, DropAnswer
  <2>2. TableSound' /\ Held' = Held \ {id}
    BY <1>8, RemovePending DEF inspect_server_list
  <2>3. {} \in SUBSET Tools /\ {} \subseteq Visible
    OBVIOUS
  <2>4. CASE /\ CountVisibility(body.tools) /\ RecordHidden(body.tools)
             /\ Deliver(id, Elements(body.tools) \cap Visible)
    <3>1. Elements(body.tools) \cap Visible \in SUBSET Tools
      BY FilterAssumption
    <3>2. CallsMatchAudit' /\ TrailOK'
      BY <1>2, <1>3, <2>1, <2>4, RecordHiddenStep, CountVisibilityStep DEF TrailOK, PeersOK
    <3> QED
      BY <1>1, <2>2, <2>4, <3>1, <3>2, AnswerStep
  <2>5. CASE Deliver(id, {}) /\ UNCHANGED <<counters, audit>>
    <3>1. CallsMatchAudit' /\ TrailOK'
      BY <1>2, <1>3, <2>1, <2>5 DEF CallsMatchAudit, TrailOK, PeersOK, counters
    <3> QED
      BY <1>1, <2>2, <2>3, <2>5, <3>1, AnswerStep
  <2>6. CASE CountVisibility(body.tools) /\ DropAnswer(id) /\ UNCHANGED audit
    <3>1. CallsMatchAudit' /\ TrailOK'
      BY <1>2, <1>3, <2>1, <2>6, CountVisibilityStep DEF CallsMatchAudit, TrailOK, PeersOK
    <3> QED
      BY <1>1, <2>2, <2>3, <2>6, <3>1, AnswerStep
  <2> QED
    BY <1>8, <2>4, <2>5, <2>6 DEF inspect_server_list
<1> QED
  BY <1>5, <1>6, <1>7, <1>8 DEF inspect_server

\* The end of the connection empties the table and nothing else.
LEMMA CloseStep ==
    ASSUME IInv, RelayEnds \/ message_too_large
    PROVE  IInv'
<1> USE DEF IInv
<1>1. connection_closed /\ PeersOK /\ CallsMatchAudit
  BY DEF RelayEnds, message_too_large, Conversation
<1>2. TableSound' /\ Held' = {} /\ open' = FALSE
  BY <1>1, ClearTable DEF connection_closed
<1>3. UNCHANGED <<forwarded, blocked, executed, unanswered, waiting, silenced,
                  lost, unread, strayed, listed, handled>>
  BY <1>1 DEF connection_closed, counters, peers, server
<1>4. audit' \in [AuditEvents -> Nat] /\ CallsMatchAudit'
  <2>1. CASE RelayEnds
    BY <1>1, <1>3, <2>1 DEF RelayEnds, CallsMatchAudit, PeersOK
  <2>2. CASE message_too_large
    <3>1. Event("message_rejected", "message_too_large", NoTool).reason # "policy_allowed"
      BY DEF Event
    <3> QED
      BY <1>1, <1>3, <2>2, <3>1, OtherEvents, RecordOther DEF message_too_large
  <2> QED
    BY <2>1, <2>2
<1>5. PeersOK'
  BY <1>1, <1>2, <1>3, <1>4 DEF PeersOK
<1>6. /\ OneRequestPerId' /\ UnreadIsLost' /\ HeldIsOutstanding'
      /\ ListAnswersFiltered' /\ NoRequestForgotten'
  BY <1>2, <1>3
     DEF Conversation, OneRequestPerId, UnreadIsLost, HeldIsOutstanding, ListAnswersFiltered,
         NoRequestForgotten
<1> QED
  BY <1>2, <1>4, <1>5, <1>6 DEF Conversation

------------------------------------------------------------------------------
(* The counters and the audit trail                                        *)

\* The area under a function from tools to numbers, one cell per tool and
\* unit: what Audited counts.
Ceiling == (MaxListed + 1) * Budget
Cells(f) == {b \in Tools \X (1..Ceiling) : b[2] <= f[b[1]]}

\* The ceiling is a number, and a step below the budget raises what it
\* bounds by no more than one message can report.
LEMMA CeilingGrows ==
    /\ Ceiling \in Nat
    /\ \A n \in Nat : (MaxListed + 1) * n \in Nat
    /\ \A n \in Nat : (MaxListed + 1) * (n + 1) = (MaxListed + 1) * n + (MaxListed + 1)
    /\ \A n \in Nat : n <= Budget => (MaxListed + 1) * n <= Ceiling
<1> DEFINE w == MaxListed + 1
<1>1. w \in Nat /\ Budget \in Nat
  BY FilterAssumption
<1> HIDE DEF w
<1>2. \A n \in Nat : w * n \in Nat
  BY <1>1
<1>3. \A n \in Nat : w * (n + 1) = w * n + w
  BY <1>1
<1>4. \A n \in Nat : n <= Budget => w * n <= w * Budget
  BY <1>1
<1> QED
  BY <1>1, <1>2, <1>3, <1>4 DEF Ceiling, w

\* The cells of a sum are as many as those of the two together: the new ones
\* stand on top of the old.
LEMMA CellsOfSum ==
    ASSUME NEW f \in [Tools -> Nat], NEW d \in [Tools -> Nat], NEW g \in [Tools -> Nat],
           \A t \in Tools : g[t] = f[t] + d[t] /\ g[t] <= Ceiling,
           IsFiniteSet(Cells(f)), IsFiniteSet(Cells(d))
    PROVE  /\ IsFiniteSet(Cells(g))
           /\ Cardinality(Cells(g)) = Cardinality(Cells(f)) + Cardinality(Cells(d))
<1> DEFINE top == Cells(g) \ Cells(f)
           m == [b \in Cells(d) |-> <<b[1], f[b[1]] + b[2]>>]
<1>0. Ceiling \in Nat
  BY CeilingGrows
<1>1. \A b \in Cells(d) : /\ b = <<b[1], b[2]>> /\ b[1] \in Tools /\ b[2] \in 1..Ceiling
                          /\ b[2] <= d[b[1]]
  BY DEF Cells
<1>2. \A b \in Cells(d) : m[b] \in top
  <2> TAKE b \in Cells(d)
  <2>1. PICK t \in Tools, k \in 1..Ceiling : b = <<t, k>> /\ k <= d[t]
    BY <1>1
  <2>2. g[t] = f[t] + d[t] /\ g[t] <= Ceiling /\ f[t] \in Nat /\ d[t] \in Nat
    OBVIOUS
  <2>3. f[t] + k \in 1..Ceiling /\ f[t] + k <= g[t] /\ ~(f[t] + k <= f[t])
    BY <1>0, <2>1, <2>2
  <2>4. m[b] = <<t, f[t] + k>>
    BY <2>1
  <2> QED
    BY <2>3, <2>4 DEF Cells
<1>3. \A a, b \in Cells(d) : m[a] = m[b] => a = b
  <2> SUFFICES ASSUME NEW a \in Cells(d), NEW b \in Cells(d), m[a] = m[b] PROVE a = b
    OBVIOUS
  <2>1. a[1] = b[1] /\ f[a[1]] + a[2] = f[b[1]] + b[2]
    OBVIOUS
  <2>2. a[2] = b[2]
    BY <1>1, <2>1
  <2> QED
    BY <1>1, <2>1, <2>2
<1>4. \A c \in top : \E b \in Cells(d) : m[b] = c
  <2> TAKE c \in top
  <2>1. PICK t \in Tools, k \in 1..Ceiling : c = <<t, k>> /\ k <= g[t] /\ ~(k <= f[t])
    BY DEF Cells
  <2>2. g[t] = f[t] + d[t] /\ g[t] <= Ceiling /\ f[t] \in Nat /\ d[t] \in Nat
    OBVIOUS
  <2>3. k - f[t] \in 1..Ceiling /\ k - f[t] <= d[t] /\ f[t] + (k - f[t]) = k
    BY <1>0, <2>1, <2>2
  <2>4. <<t, k - f[t]>> \in Cells(d)
    BY <2>3 DEF Cells
  <2>5. m[<<t, k - f[t]>>] = c
    BY <2>1, <2>3, <2>4
  <2> QED
    BY <2>4, <2>5
<1>5. ExistsBijection(Cells(d), top)
  <2> HIDE DEF top
  <2>1. m \in Bijection(Cells(d), top)
    BY <1>2, <1>3, <1>4 DEF Bijection, Injection, Surjection, IsInjective
  <2> QED
    BY <2>1 DEF ExistsBijection
<1>6. IsFiniteSet(top) /\ Cardinality(top) = Cardinality(Cells(d))
  BY <1>5, FS_Bijection
<1>7. Cells(g) = Cells(f) \cup top /\ Cells(f) \cap top = {}
  <2>1. ASSUME NEW b \in Cells(f) PROVE b \in Cells(g)
    <3>1. PICK t \in Tools, k \in 1..Ceiling : b = <<t, k>> /\ k <= f[t]
      BY DEF Cells
    <3>2. g[t] = f[t] + d[t] /\ f[t] \in Nat /\ d[t] \in Nat
      OBVIOUS
    <3>3. k <= g[t]
      BY <1>0, <3>1, <3>2
    <3> QED
      BY <3>1, <3>3 DEF Cells
  <2> QED
    BY <2>1
<1> HIDE DEF top, m
<1>8. /\ IsFiniteSet(Cells(f) \cup top)
      /\ Cardinality(Cells(f) \cup top)
           = Cardinality(Cells(f)) + Cardinality(top) - Cardinality(Cells(f) \cap top)
  BY <1>6, FS_Union
<1>9. Cardinality(Cells(f)) \in Nat /\ Cardinality(top) \in Nat /\ Cardinality({}) = 0
  BY <1>6, FS_CardinalityType, FS_EmptySet
<1>10. IsFiniteSet(Cells(g))
       /\ Cardinality(Cells(g)) = Cardinality(Cells(f)) + Cardinality(top) - Cardinality({})
  BY <1>7, <1>8
<1> HIDE DEF Cells
<1> QED
  BY <1>6, <1>9, <1>10

\* Nothing has no cells.
LEMMA CellsOfNothing ==
    /\ IsFiniteSet(Cells([t \in Tools |-> 0]))
    /\ Cardinality(Cells([t \in Tools |-> 0])) = 0
<1>1. Cells([t \in Tools |-> 0]) = {}
  BY DEF Cells
<1> QED
  BY <1>1, FS_EmptySet

\* One report of one tool has one cell.
LEMMA CellsOfOne ==
    ASSUME NEW t \in Tools, 1 <= Ceiling
    PROVE  /\ IsFiniteSet(Cells([u \in Tools |-> IF u = t THEN 1 ELSE 0]))
           /\ Cardinality(Cells([u \in Tools |-> IF u = t THEN 1 ELSE 0])) = 1
<1>1. Ceiling \in Nat
  BY CeilingGrows
<1>2. Cells([u \in Tools |-> IF u = t THEN 1 ELSE 0]) = {<<t, 1>>}
  BY <1>1 DEF Cells
<1> QED
  BY <1>2, FS_Singleton

\* How many of the first n entries of a list are in a set, and how often each
\* hidden tool is among them.
HowMany(tools, n, S) == Cardinality({i \in 1..n : tools[i] \in S})
HiddenAmong(tools, n) == [t \in Tools |-> IF t \in Visible THEN 0 ELSE HowMany(tools, n, {t})]

\* Part of an interval can be counted, and the next index adds itself or
\* nothing.
LEMMA CountOneMore ==
    ASSUME NEW tools, NEW S, NEW n \in Nat
    PROVE  /\ HowMany(tools, n, S) \in 0..n
           /\ tools[n + 1] \in S => HowMany(tools, n + 1, S) = HowMany(tools, n, S) + 1
           /\ tools[n + 1] \notin S => HowMany(tools, n + 1, S) = HowMany(tools, n, S)
           /\ HowMany(tools, 0, S) = 0
<1> DEFINE C(k) == {i \in 1..k : tools[i] \in S}
<1>1. IsFiniteSet(1..n) /\ Cardinality(1..n) = n
  <2>1. n \in Int /\ 1 \in Int /\ (1 > n => n = 0) /\ n - 1 + 1 = n
    OBVIOUS
  <2> QED
    BY <2>1, FS_Interval
<1>2. C(n) \in SUBSET (1..n)
  OBVIOUS
<1>3. IsFiniteSet(C(n)) /\ Cardinality(C(n)) <= n
  BY <1>1, <1>2, FS_Subset
<1>4. C(n + 1) = IF tools[n + 1] \in S THEN C(n) \cup {n + 1} ELSE C(n)
  <2>1. 1..(n + 1) = (1..n) \cup {n + 1}
    OBVIOUS
  <2> QED
    BY <2>1
<1>5. n + 1 \notin C(n)
  OBVIOUS
<1>6. C(0) = {}
  OBVIOUS
<1>7. /\ HowMany(tools, n, S) = Cardinality(C(n))
      /\ HowMany(tools, n + 1, S) = Cardinality(C(n + 1))
      /\ HowMany(tools, 0, S) = Cardinality(C(0))
  BY DEF HowMany
<1> HIDE DEF C
<1>8. Cardinality(C(n) \cup {n + 1}) = Cardinality(C(n)) + 1
  BY <1>3, <1>5, FS_AddElement
<1>9. Cardinality(C(n)) \in Nat /\ Cardinality(C(0)) = 0
  BY <1>3, <1>6, FS_CardinalityType, FS_EmptySet
<1>10. Cardinality(C(n + 1)) = IF tools[n + 1] \in S THEN Cardinality(C(n)) + 1 ELSE Cardinality(C(n))
  BY <1>4, <1>8
<1> QED
  BY <1>3, <1>7, <1>9, <1>10

\* The reports of a list of tools are as many as its entries that are hidden:
\* a tool that is listed twice is reported twice.
LEMMA CellsOfList ==
    ASSUME NEW body \in Bodies, MaxListed <= Ceiling
    PROVE  LET hides == HiddenAmong(body.tools, Len(body.tools))
           IN  /\ hides \in [Tools -> 0..Len(body.tools)]
               /\ IsFiniteSet(Cells(hides))
               /\ Cardinality(Cells(hides))
                    = HowMany(body.tools, Len(body.tools), Tools \ Visible)
<1> DEFINE tools == body.tools
           H(n) == HiddenAmong(tools, n)
           count(n) == HowMany(tools, n, Tools \ Visible)
           T == {n \in Nat : n <= Len(tools) =>
                   IsFiniteSet(Cells(H(n))) /\ Cardinality(Cells(H(n))) = count(n)}
<1>1. PICK len \in 0..MaxListed : tools \in [1..len -> Tools]
  BY BodyList
<1>2. Len(tools) = len /\ len \in Nat /\ len <= MaxListed /\ MaxListed \in Nat
  BY <1>1, FilterAssumption
<1>3. \A n \in Nat : H(n) \in [Tools -> 0..n]
  <2>1. \A n \in Nat : \A t \in Tools : HowMany(tools, n, {t}) \in 0..n
    BY CountOneMore
  <2> QED
    BY <2>1 DEF HiddenAmong
<1>4. 0 \in T
  <2>1. H(0) = [t \in Tools |-> 0]
    <3>1. H(0) \in [Tools -> 0..0] /\ 0..0 = {0}
      BY <1>3
    <3> HIDE DEF H
    <3> QED
      BY <3>1
  <2>2. count(0) = 0
    BY CountOneMore
  <2>3. IsFiniteSet(Cells(H(0))) /\ Cardinality(Cells(H(0))) = 0
    BY <2>1, CellsOfNothing
  <2> HIDE DEF H, count
  <2> QED
    BY <2>2, <2>3
<1>5. ASSUME NEW n \in Nat, n \in T PROVE n + 1 \in T
  <2> SUFFICES ASSUME n + 1 <= Len(tools)
               PROVE  /\ IsFiniteSet(Cells(H(n + 1)))
                      /\ Cardinality(Cells(H(n + 1))) = count(n + 1)
    OBVIOUS
  <2>1. IsFiniteSet(Cells(H(n))) /\ Cardinality(Cells(H(n))) = count(n) /\ count(n) \in Nat
    <3>1. n <= Len(tools)
      BY <1>2
    <3>2. count(n) \in Nat
      BY CountOneMore
    <3> QED
      BY <1>5, <3>1, <3>2
  <2>2. tools[n + 1] \in Tools
    BY <1>1, <1>2
  <2>3. count(n + 1) = IF tools[n + 1] \in Tools \ Visible THEN count(n) + 1 ELSE count(n)
    BY CountOneMore
  <2>4. \A t \in Tools : H(n + 1)[t] =
           IF t \notin Visible /\ t = tools[n + 1] THEN H(n)[t] + 1 ELSE H(n)[t]
    <3> TAKE t \in Tools
    <3> DEFINE S == {t}
    <3>1. tools[n + 1] \in S <=> t = tools[n + 1]
      OBVIOUS
    <3>2. H(n + 1)[t] = (IF t \in Visible THEN 0 ELSE HowMany(tools, n + 1, S))
          /\ H(n)[t] = (IF t \in Visible THEN 0 ELSE HowMany(tools, n, S))
      BY DEF HiddenAmong
    <3> HIDE DEF S
    <3>3. /\ tools[n + 1] \in S => HowMany(tools, n + 1, S) = HowMany(tools, n, S) + 1
          /\ tools[n + 1] \notin S => HowMany(tools, n + 1, S) = HowMany(tools, n, S)
      BY CountOneMore
    <3> HIDE DEF H
    <3> QED
      BY <3>1, <3>2, <3>3
  <2>5. CASE tools[n + 1] \in Visible
    <3>1. \A t \in Tools : H(n + 1)[t] = H(n)[t]
      BY <2>4, <2>5
    <3>2. H(n + 1) = H(n)
      <4>1. H(n + 1) \in [Tools -> 0..(n + 1)] /\ H(n) \in [Tools -> 0..n]
        BY <1>3
      <4> HIDE DEF H
      <4> QED
        BY <3>1, <4>1
    <3>3. count(n + 1) = count(n)
      BY <2>3, <2>5
    <3> HIDE DEF H, count
    <3> QED
      BY <2>1, <3>2, <3>3
  <2>6. CASE tools[n + 1] \notin Visible
    <3> DEFINE one == [u \in Tools |-> IF u = tools[n + 1] THEN 1 ELSE 0]
    <3>1. 1 <= Ceiling /\ n + 1 <= Ceiling /\ Ceiling \in Nat
      BY <1>2, CeilingGrows
    <3>2. IsFiniteSet(Cells(one)) /\ Cardinality(Cells(one)) = 1
      BY <2>2, <3>1, CellsOfOne
    <3>3. H(n) \in [Tools -> Nat] /\ H(n + 1) \in [Tools -> Nat]
          /\ \A t \in Tools : H(n + 1)[t] <= Ceiling
      <4>1. H(n + 1) \in [Tools -> 0..(n + 1)] /\ H(n) \in [Tools -> 0..n]
        BY <1>3
      <4> HIDE DEF H
      <4>2. \A t \in Tools : H(n + 1)[t] \in 0..(n + 1) /\ H(n)[t] \in 0..n
        BY <4>1
      <4>3. \A t \in Tools : H(n + 1)[t] <= Ceiling /\ H(n + 1)[t] \in Nat /\ H(n)[t] \in Nat
        BY <3>1, <4>2
      <4> QED
        BY <4>1, <4>3
    <3>4. \A t \in Tools : H(n + 1)[t] = H(n)[t] + one[t]
      <4> HIDE DEF H
      <4> QED
        BY <2>4, <2>6, <3>3
    <3>5. one \in [Tools -> Nat]
      OBVIOUS
    <3>6. count(n + 1) = count(n) + 1
      BY <2>2, <2>3, <2>6
    <3> HIDE DEF H, count, one
    <3>7. /\ IsFiniteSet(Cells(H(n + 1)))
          /\ Cardinality(Cells(H(n + 1))) = Cardinality(Cells(H(n))) + Cardinality(Cells(one))
      <4>1. \A f, d, g \in [Tools -> Nat] :
               (/\ \A t \in Tools : g[t] = f[t] + d[t] /\ g[t] <= Ceiling
                /\ IsFiniteSet(Cells(f)) /\ IsFiniteSet(Cells(d)))
               => /\ IsFiniteSet(Cells(g))
                  /\ Cardinality(Cells(g)) = Cardinality(Cells(f)) + Cardinality(Cells(d))
        BY CellsOfSum
      <4> QED
        BY ONLY <4>1, <2>1, <3>2, <3>3, <3>4, <3>5
    <3> QED
      BY <2>1, <3>2, <3>6, <3>7
  <2> QED
    BY <2>5, <2>6
<1> HIDE DEF H, count
<1>6. Nat \subseteq T
  <2> HIDE DEF T
  <2>1. \A n \in Nat : n \in T => n + 1 \in T
    BY <1>5
  <2> QED
    BY <1>4, <2>1, NatsByInduction
<1>7. IsFiniteSet(Cells(H(len))) /\ Cardinality(Cells(H(len))) = count(len)
  BY <1>2, <1>6
<1> QED
  BY <1>2, <1>3, <1>7 DEF H, count

\* The refusals of calls and of listings the audit reports, per tool.
Denials == [t \in Tools |-> audit[Event("tool_call", "policy_denied", t)]]
Hidings == [t \in Tools |-> audit[Event("tool_hidden", "policy_denied", t)]]

\* The audit never reports more of a tool than the messages handled allow, and
\* `blocked' covers the cells of both kinds of refusal: exactly, as long as no
\* answer was dropped.
Counted ==
    /\ handled <= Budget
    /\ \A t \in Tools : /\ Denials[t] <= (MaxListed + 1) * handled
                        /\ Hidings[t] <= (MaxListed + 1) * handled
    /\ IsFiniteSet(Cells(Denials)) /\ IsFiniteSet(Cells(Hidings))
    /\ blocked >= Cardinality(Cells(Denials)) + Cardinality(Cells(Hidings))
    /\ lost = {} => blocked = Cardinality(Cells(Denials)) + Cardinality(Cells(Hidings))

\* What Audited counts are those cells.
LEMMA AuditedCells ==
    /\ Audited("tool_call", "policy_denied") = Cardinality(Cells(Denials))
    /\ Audited("tool_hidden", "policy_denied") = Cardinality(Cells(Hidings))
<1>1. Cells(Denials) = {b \in Tools \X (1..((MaxListed + 1) * Budget)) :
                          b[2] <= audit[Event("tool_call", "policy_denied", b[1])]}
  BY DEF Cells, Ceiling, Denials
<1>2. Cells(Hidings) = {b \in Tools \X (1..((MaxListed + 1) * Budget)) :
                          b[2] <= audit[Event("tool_hidden", "policy_denied", b[1])]}
  BY DEF Cells, Ceiling, Hidings
<1> QED
  BY <1>1, <1>2 DEF Audited

\* The events of a refusal are of the trail, and are told apart by their tool.
LEMMA RefusalEvents ==
    \A t \in Tools :
        /\ Event("tool_call", "policy_denied", t) \in AuditEvents
        /\ Event("tool_hidden", "policy_denied", t) \in AuditEvents
        /\ \A u \in Tools :
              /\ Event("tool_call", "policy_denied", t) # Event("tool_hidden", "policy_denied", u)
              /\ u # t => Event("tool_call", "policy_denied", t) # Event("tool_call", "policy_denied", u)
BY DEF Event, AuditEvents

\* Refusals are numbers, before and after a step.
LEMMA RefusalTypes ==
    ASSUME audit \in [AuditEvents -> Nat]
    PROVE  Denials \in [Tools -> Nat] /\ Hidings \in [Tools -> Nat]
BY RefusalEvents DEF Denials, Hidings

\* A step that reports c and h more refusals, and counts as many, keeps the
\* counters and the trail in agreement; one that drops an answer may count
\* more than it reports.
LEMMA CountedStep ==
    ASSUME Counted, PeersOK, PeersOK', handled' <= Budget,
           NEW c \in [Tools -> Nat], NEW h \in [Tools -> Nat],
           IsFiniteSet(Cells(c)), IsFiniteSet(Cells(h)),
           \A t \in Tools : /\ Denials'[t] = Denials[t] + c[t]
                            /\ Hidings'[t] = Hidings[t] + h[t]
                            /\ Denials'[t] <= (MaxListed + 1) * handled'
                            /\ Hidings'[t] <= (MaxListed + 1) * handled',
           lost \subseteq lost',
           LET n == Cardinality(Cells(c)) + Cardinality(Cells(h))
           IN  blocked' >= blocked + n /\ (lost' = {} => blocked' = blocked + n)
    PROVE  Counted'
<1>1. /\ Denials \in [Tools -> Nat] /\ Hidings \in [Tools -> Nat]
      /\ Denials' \in [Tools -> Nat] /\ Hidings' \in [Tools -> Nat]
  BY RefusalTypes, RefusalEvents DEF PeersOK, Denials, Hidings
<1>2. \A t \in Tools : Denials'[t] <= Ceiling /\ Hidings'[t] <= Ceiling
  <2>1. (MaxListed + 1) * handled' <= Ceiling /\ (MaxListed + 1) * handled' \in Nat
        /\ Ceiling \in Nat
    BY CeilingGrows DEF PeersOK
  <2>2. \A t \in Tools : Denials'[t] \in Nat /\ Hidings'[t] \in Nat
    BY <1>1
  <2> DEFINE top == (MaxListed + 1) * handled'
  <2>3. \A t \in Tools : Denials'[t] <= top /\ Hidings'[t] <= top
    OBVIOUS
  <2> HIDE DEF top
  <2>4. top <= Ceiling /\ top \in Nat
    BY <2>1 DEF top
  <2> QED
    BY ONLY <2>1, <2>2, <2>3, <2>4
<1>3. \A f, d, g \in [Tools -> Nat] :
         (/\ \A t \in Tools : g[t] = f[t] + d[t] /\ g[t] <= Ceiling
          /\ IsFiniteSet(Cells(f)) /\ IsFiniteSet(Cells(d)))
         => /\ IsFiniteSet(Cells(g))
            /\ Cardinality(Cells(g)) = Cardinality(Cells(f)) + Cardinality(Cells(d))
  BY CellsOfSum
<1>4. IsFiniteSet(Cells(Denials)) /\ IsFiniteSet(Cells(Hidings))
  BY DEF Counted
<1>5. /\ IsFiniteSet(Cells(Denials'))
      /\ Cardinality(Cells(Denials')) = Cardinality(Cells(Denials)) + Cardinality(Cells(c))
  <2>1. \A t \in Tools : Denials'[t] = Denials[t] + c[t] /\ Denials'[t] <= Ceiling
    BY <1>2
  <2> QED
    BY ONLY <1>1, <1>3, <1>4, <2>1, c \in [Tools -> Nat], IsFiniteSet(Cells(c))
<1>6. /\ IsFiniteSet(Cells(Hidings'))
      /\ Cardinality(Cells(Hidings')) = Cardinality(Cells(Hidings)) + Cardinality(Cells(h))
  <2>1. \A t \in Tools : Hidings'[t] = Hidings[t] + h[t] /\ Hidings'[t] <= Ceiling
    BY <1>2
  <2> QED
    BY ONLY <1>1, <1>3, <1>4, <2>1, h \in [Tools -> Nat], IsFiniteSet(Cells(h))
<1>7. /\ Cardinality(Cells(Denials)) \in Nat /\ Cardinality(Cells(Hidings)) \in Nat
      /\ Cardinality(Cells(c)) \in Nat /\ Cardinality(Cells(h)) \in Nat
  BY <1>4, FS_CardinalityType
<1>8. blocked \in Nat /\ blocked' \in Nat
  BY DEF PeersOK
<1>9. /\ blocked' >= Cardinality(Cells(Denials')) + Cardinality(Cells(Hidings'))
      /\ lost' = {} => blocked' = Cardinality(Cells(Denials')) + Cardinality(Cells(Hidings'))
  <2> DEFINE d1 == Cardinality(Cells(Denials))
             h1 == Cardinality(Cells(Hidings))
             d2 == Cardinality(Cells(Denials'))
             h2 == Cardinality(Cells(Hidings'))
             dc == Cardinality(Cells(c))
             hc == Cardinality(Cells(h))
  <2>1. blocked >= d1 + h1 /\ (lost = {} => blocked = d1 + h1)
    BY DEF Counted
  <2>2. blocked' >= blocked + (dc + hc) /\ (lost' = {} => blocked' = blocked + (dc + hc))
    OBVIOUS
  <2>3. lost' = {} => lost = {}
    OBVIOUS
  <2>4. d2 = d1 + dc /\ h2 = h1 + hc
    BY <1>5, <1>6
  <2>5. d1 \in Nat /\ h1 \in Nat /\ dc \in Nat /\ hc \in Nat
    BY <1>7
  <2> HIDE DEF d1, h1, d2, h2, dc, hc
  <2>6. blocked' >= d2 + h2 /\ (lost' = {} => blocked' = d2 + h2)
    BY ONLY <1>8, <2>1, <2>2, <2>3, <2>4, <2>5
  <2> QED
    BY <2>6 DEF d2, h2
<1> QED
  BY <1>5, <1>6, <1>9 DEF Counted

\* What one more message may report, and what it leaves: the bound on the
\* reports of a tool rises with the messages handled.
LEMMA BoundRises ==
    ASSUME Counted, PeersOK, handled' = handled + 1,
           NEW c \in [Tools -> 0..(MaxListed + 1)], NEW t \in Tools
    PROVE  /\ Denials[t] + c[t] <= (MaxListed + 1) * handled'
           /\ Hidings[t] + c[t] <= (MaxListed + 1) * handled'
<1>1. /\ (MaxListed + 1) * handled' = (MaxListed + 1) * handled + (MaxListed + 1)
      /\ (MaxListed + 1) * handled \in Nat
  BY CeilingGrows DEF PeersOK
<1>2. Denials[t] <= (MaxListed + 1) * handled /\ Hidings[t] <= (MaxListed + 1) * handled
  BY DEF Counted
<1>3. Denials[t] \in Nat /\ Hidings[t] \in Nat
  BY RefusalTypes DEF PeersOK
<1>4. MaxListed + 1 \in Nat
  BY FilterAssumption
<1> DEFINE w == MaxListed + 1
           low == w * handled
           high == w * handled'
<1>5. high = low + w /\ low \in Nat /\ w \in Nat /\ c[t] \in 0..w
      /\ Denials[t] <= low /\ Hidings[t] <= low
  BY <1>1, <1>2, <1>4
<1> HIDE DEF w, low, high
<1>6. Denials[t] + c[t] <= high /\ Hidings[t] + c[t] <= high
  BY ONLY <1>3, <1>5
<1> QED
  BY <1>6 DEF high, w

\* A step that reports no refusal and counts none keeps the agreement.
LEMMA SilentStep ==
    ASSUME Counted, PeersOK, PeersOK', handled' \in {handled, handled + 1}, handled' <= Budget,
           Denials' = Denials, Hidings' = Hidings, lost \subseteq lost', blocked' = blocked
    PROVE  Counted'
<1> DEFINE none == [t \in Tools |-> 0]
<1>1. none \in [Tools -> Nat] /\ IsFiniteSet(Cells(none)) /\ Cardinality(Cells(none)) = 0
  BY CellsOfNothing
<1>2. none \in [Tools -> 0..(MaxListed + 1)]
  BY FilterAssumption
<1>3. ASSUME NEW t \in Tools
      PROVE  /\ Denials[t] \in Nat /\ Hidings[t] \in Nat
             /\ Denials'[t] = Denials[t] + none[t] /\ Hidings'[t] = Hidings[t] + none[t]
             /\ Denials'[t] <= (MaxListed + 1) * handled'
             /\ Hidings'[t] <= (MaxListed + 1) * handled'
  <2>1. Denials[t] \in Nat /\ Hidings[t] \in Nat
    BY RefusalTypes DEF PeersOK
  <2>2. Denials[t] + none[t] = Denials[t] /\ Hidings[t] + none[t] = Hidings[t]
    BY <2>1
  <2>3. CASE handled' = handled
    BY <2>1, <2>2, <2>3 DEF Counted
  <2>4. CASE handled' = handled + 1
    <3> HIDE DEF none
    <3>1. /\ Denials[t] + none[t] <= (MaxListed + 1) * handled'
          /\ Hidings[t] + none[t] <= (MaxListed + 1) * handled'
      BY <1>2, <2>4, BoundRises
    <3> QED
      BY <2>1, <2>2, <3>1
  <2> QED
    BY <2>3, <2>4
<1> HIDE DEF none
<1>4. blocked \in Nat
  BY DEF PeersOK
<1>5. LET n == Cardinality(Cells(none)) + Cardinality(Cells(none))
      IN  blocked' >= blocked + n /\ (lost' = {} => blocked' = blocked + n)
  BY <1>1, <1>4
<1> QED
  BY <1>1, <1>3, <1>5, CountedStep

\* An event that reports no refusal of a tool by the policy leaves the
\* refusals.
LEMMA OtherReport ==
    ASSUME PeersOK, NEW e \in AuditEvents, Record(e), e.reason # "policy_denied"
    PROVE  Denials' = Denials /\ Hidings' = Hidings
<1>1. ASSUME NEW t \in Tools
      PROVE  /\ audit'[Event("tool_call", "policy_denied", t)] = audit[Event("tool_call", "policy_denied", t)]
             /\ audit'[Event("tool_hidden", "policy_denied", t)] = audit[Event("tool_hidden", "policy_denied", t)]
  <2>1. Event("tool_call", "policy_denied", t) # e /\ Event("tool_hidden", "policy_denied", t) # e
    BY DEF Event
  <2> QED
    BY <2>1, RefusalEvents, RecordStep
<1> QED
  BY <1>1 DEF Denials, Hidings

\* inspect: only a call the policy refuses is counted as blocked, and it is
\* reported once.
LEMMA InspectCounts ==
    ASSUME IInv, IInv', Counted, NEW m \in ClientMessages, inspect(m)
    PROVE  Counted'
<1>1. PeersOK /\ PeersOK'
  BY DEF IInv
<1>2. handled' = handled + 1 /\ handled' <= Budget
  BY <1>1, FilterAssumption DEF inspect, PeersOK
<1>3. lost' = lost
  BY DEF inspect, inspect_rejected, inspect_list_notification, inspect_list_request,
         inspect_other, inspect_call_invalid, inspect_call, Respond, Drop, DropRejected,
         Forward, Refuse, server
<1>4. CASE ~inspect_call(m)
  <2>1. blocked' = blocked
    BY <1>4 DEF inspect, inspect_rejected, inspect_list_notification, inspect_list_request,
                inspect_other, inspect_call_invalid, counters
  <2>2. \/ audit' = audit
        \/ \E e \in AuditEvents : Record(e) /\ e.reason # "policy_denied"
    <3>1. \A e \in {Event("tool_call", "malformed_message", NoTool),
                    Event("message_rejected", "malformed_message", NoTool),
                    Event("tool_call", "invalid_parameters", NoTool),
                    Event("correlation_exhausted", "capacity_exhausted", NoTool)} :
             e \in AuditEvents /\ e.reason # "policy_denied"
      BY OtherEvents DEF Event
    <3>2. CASE inspect_rejected(m)
      BY <3>1, <3>2 DEF inspect_rejected
    <3>3. CASE inspect_list_notification(m)
      BY <3>1, <3>3 DEF inspect_list_notification
    <3>4. CASE inspect_list_request(m)
      BY <3>1, <3>4 DEF inspect_list_request
    <3>5. CASE inspect_other(m) \/ inspect_call_invalid(m)
      BY <3>1, <3>5 DEF inspect_other, inspect_call_invalid
    <3> QED
      BY <1>4, <3>2, <3>3, <3>4, <3>5 DEF inspect
  <2>3. Denials' = Denials /\ Hidings' = Hidings
    <3>1. CASE audit' = audit
      BY <3>1 DEF Denials, Hidings
    <3> QED
      BY <1>1, <2>2, <3>1, OtherReport
  <2> QED
    BY <1>1, <1>2, <1>3, <2>1, <2>3, SilentStep
<1>5. CASE inspect_call(m) /\ m.tool \in Callable
  <2>1. /\ Record(Event("tool_call", "policy_allowed", m.tool)) /\ blocked' = blocked
        /\ m.tool \in Tools
    BY <1>5, MessageFields DEF inspect_call
  <2>2. Event("tool_call", "policy_allowed", m.tool).reason # "policy_denied"
    BY DEF Event
  <2>3. Denials' = Denials /\ Hidings' = Hidings
    BY <1>1, <2>1, <2>2, CallEvents, OtherReport
  <2> QED
    BY <1>1, <1>2, <1>3, <2>1, <2>3, SilentStep
<1>6. CASE inspect_call(m) /\ m.tool \notin Callable
  <2> DEFINE one == [t \in Tools |-> IF t = m.tool THEN 1 ELSE 0]
             none == [t \in Tools |-> 0]
  <2>1. /\ Record(Event("tool_call", "policy_denied", m.tool)) /\ blocked' = blocked + 1
        /\ m.tool \in Tools
    BY <1>6, MessageFields DEF inspect_call
  <2>2. 1 <= Ceiling
    <3>1. (MaxListed + 1) * 1 <= Ceiling /\ MaxListed \in Nat /\ Ceiling \in Nat
      BY <1>1, <1>2, FilterAssumption, CeilingGrows DEF PeersOK
    <3>2. (MaxListed + 1) * 1 = MaxListed + 1
      BY <3>1
    <3> QED
      BY <3>1, <3>2
  <2>3. /\ one \in [Tools -> Nat] /\ none \in [Tools -> Nat]
        /\ one \in [Tools -> 0..(MaxListed + 1)] /\ none \in [Tools -> 0..(MaxListed + 1)]
    BY FilterAssumption
  <2>4. /\ IsFiniteSet(Cells(one)) /\ Cardinality(Cells(one)) = 1
        /\ IsFiniteSet(Cells(none)) /\ Cardinality(Cells(none)) = 0
    BY <2>1, <2>2, CellsOfOne, CellsOfNothing
  <2>5. ASSUME NEW t \in Tools
        PROVE  /\ Denials'[t] = Denials[t] + one[t] /\ Hidings'[t] = Hidings[t] + none[t]
               /\ Denials'[t] <= (MaxListed + 1) * handled'
               /\ Hidings'[t] <= (MaxListed + 1) * handled'
    <3> DEFINE e == Event("tool_call", "policy_denied", m.tool)
    <3>1. e \in AuditEvents /\ audit'[e] = audit[e] + 1
          /\ \A a \in AuditEvents : a # e => audit'[a] = audit[a]
      BY <1>1, <2>1, RefusalEvents, RecordStep
    <3>2. /\ Event("tool_hidden", "policy_denied", t) \in AuditEvents
          /\ Event("tool_hidden", "policy_denied", t) # e
          /\ Event("tool_call", "policy_denied", t) \in AuditEvents
          /\ t # m.tool => Event("tool_call", "policy_denied", t) # e
      BY <2>1, RefusalEvents
    <3>3. Denials[t] \in Nat /\ Hidings[t] \in Nat
      BY <1>1, RefusalTypes DEF PeersOK
    <3>4. Denials'[t] = Denials[t] + one[t]
      <4>1. CASE t = m.tool
        BY <3>1, <4>1 DEF Denials
      <4>2. CASE t # m.tool
        BY <3>1, <3>2, <3>3, <4>2 DEF Denials
      <4> QED
        BY <4>1, <4>2
    <3>5. Hidings'[t] = Hidings[t] + none[t]
      BY <3>1, <3>2, <3>3 DEF Hidings
    <3> HIDE DEF one, none
    <3>6. /\ Denials[t] + one[t] <= (MaxListed + 1) * handled'
          /\ Hidings[t] + none[t] <= (MaxListed + 1) * handled'
      BY <1>1, <1>2, <2>3, BoundRises
    <3> QED
      BY <3>4, <3>5, <3>6
  <2> HIDE DEF one, none
  <2>6. blocked \in Nat
    BY <1>1 DEF PeersOK
  <2>7. LET n == Cardinality(Cells(one)) + Cardinality(Cells(none))
        IN  blocked' >= blocked + n /\ (lost' = {} => blocked' = blocked + n)
    BY <2>1, <2>4, <2>6
  <2> QED
    BY <1>1, <1>2, <1>3, <2>3, <2>4, <2>5, <2>7, CountedStep
<1> QED
  BY <1>4, <1>5, <1>6

\* The visibility checks of a list count one refusal per hidden entry.
LEMMA HiddenEntries ==
    ASSUME PeersOK, NEW body \in Bodies, CountVisibility(body.tools)
    PROVE  /\ HowMany(body.tools, Len(body.tools), Tools \ Visible) \in 0..Len(body.tools)
           /\ Len(body.tools) \in 0..MaxListed
           /\ blocked' = blocked + HowMany(body.tools, Len(body.tools), Tools \ Visible)
<1> DEFINE tools == body.tools
           seen == {i \in DOMAIN tools : tools[i] \in Visible}
           hidden == {i \in 1..Len(tools) : tools[i] \in Tools \ Visible}
<1>1. PICK len \in 0..MaxListed : tools \in [1..len -> Tools]
  BY BodyList
<1>2. Len(tools) = len /\ len \in Nat /\ DOMAIN tools = 1..len
  BY <1>1, FilterAssumption
<1>3. HowMany(tools, len, Tools \ Visible) \in 0..len
  BY <1>2, CountOneMore
<1>4. IsFiniteSet(1..len) /\ Cardinality(1..len) = len
  <2>1. len \in Int /\ 1 \in Int /\ (1 > len => len = 0) /\ len - 1 + 1 = len
    BY <1>2
  <2> QED
    BY <2>1, FS_Interval
<1>5. seen \in SUBSET (1..len) /\ hidden \in SUBSET (1..len)
      /\ seen \cap hidden = {} /\ seen \cup hidden = 1..len
  BY <1>1, <1>2
<1>6. HowMany(tools, len, Tools \ Visible) = Cardinality(hidden)
  BY <1>2 DEF HowMany
<1>7. blocked' = blocked + (len - Cardinality(seen))
  BY <1>2 DEF CountVisibility
<1> HIDE DEF seen, hidden
<1>8. IsFiniteSet(seen) /\ IsFiniteSet(hidden)
  BY <1>4, <1>5, FS_Subset
<1>9. Cardinality(1..len) = Cardinality(seen) + Cardinality(hidden) - Cardinality({})
  <2>1. Cardinality(seen \cup hidden)
          = Cardinality(seen) + Cardinality(hidden) - Cardinality(seen \cap hidden)
    BY <1>8, FS_Union
  <2> QED
    BY <1>5, <2>1
<1>10. Cardinality(seen) \in Nat /\ Cardinality(hidden) \in Nat /\ Cardinality({}) = 0
  BY <1>8, FS_CardinalityType, FS_EmptySet
<1>11. len - Cardinality(seen) = Cardinality(hidden)
  BY <1>2, <1>4, <1>9, <1>10
<1> QED
  BY <1>1, <1>2, <1>3, <1>6, <1>7, <1>11

\* inspect_server: the entries a rewriting hides are counted and reported one
\* by one; a rewriting that fails is counted and its answer dropped.
LEMMA ServerCounts ==
    ASSUME IInv, IInv', Counted, inspect_server
    PROVE  Counted'
<1>1. PeersOK /\ PeersOK'
  BY DEF IInv
<1>2. handled' = handled + 1 /\ handled' <= Budget
  BY <1>1, FilterAssumption DEF inspect_server, PeersOK
<1>3. CASE UNCHANGED <<counters, audit>> /\ lost \subseteq lost'
  <2>1. Denials' = Denials /\ Hidings' = Hidings /\ blocked' = blocked
    BY <1>3 DEF Denials, Hidings, counters
  <2> QED
    BY <1>1, <1>2, <1>3, <2>1, SilentStep
<1>4. ASSUME NEW body \in Bodies, NEW id \in Ids,
             CountVisibility(body.tools), RecordHidden(body.tools), lost' = lost
      PROVE  Counted'
  <2> DEFINE tools == body.tools
             len == Len(tools)
             hides == HiddenAmong(tools, len)
             none == [t \in Tools |-> 0]
             all == HowMany(tools, len, Tools \ Visible)
  <2>1. all \in 0..len /\ len \in 0..MaxListed /\ blocked' = blocked + all /\ len \in Nat
    <3>1. all \in 0..len /\ len \in 0..MaxListed /\ blocked' = blocked + all
      BY <1>1, <1>4, HiddenEntries
    <3> HIDE DEF all, len
    <3> QED
      BY <3>1, FilterAssumption
  <2>2. MaxListed <= Ceiling
    <3>0. 1 \in Nat /\ 1 <= Budget
      <4>1. handled \in Nat /\ Budget \in Nat
        BY <1>1, FilterAssumption DEF PeersOK
      <4> QED
        BY ONLY <1>2, <4>1
    <3>1. (MaxListed + 1) * 1 <= Ceiling /\ MaxListed \in Nat /\ Ceiling \in Nat
      BY <3>0, FilterAssumption, CeilingGrows
    <3>2. (MaxListed + 1) * 1 = MaxListed + 1
      BY <3>1
    <3> QED
      BY <3>1, <3>2
  <2>3. /\ hides \in [Tools -> 0..len]
        /\ IsFiniteSet(Cells(hides)) /\ Cardinality(Cells(hides)) = all
    BY <2>2, CellsOfList
  <2>4. none \in [Tools -> Nat] /\ none \in [Tools -> 0..(MaxListed + 1)]
        /\ IsFiniteSet(Cells(none)) /\ Cardinality(Cells(none)) = 0
    BY FilterAssumption, CellsOfNothing
  <2>5. ASSUME NEW t \in Tools
        PROVE  /\ hides[t] = (IF t \in Visible THEN 0 ELSE Occurrences(tools, t))
               /\ Denials'[t] = Denials[t] + none[t]
               /\ Hidings'[t] = Hidings[t] + hides[t]
    <3>1. DOMAIN tools = 1..len
      <4>1. PICK n \in 0..MaxListed : tools \in [1..n -> Tools]
        BY BodyList
      <4> QED
        BY <4>1, FilterAssumption
    <3>2. Occurrences(tools, t) = HowMany(tools, len, {t})
      <4>1. {i \in DOMAIN tools : tools[i] = t} = {i \in 1..len : tools[i] \in {t}}
        BY <3>1
      <4> QED
        BY <4>1 DEF Occurrences, HowMany
    <3>3. hides[t] = IF t \in Visible THEN 0 ELSE Occurrences(tools, t)
      BY <3>2 DEF HiddenAmong
    <3>4. /\ Event("tool_hidden", "policy_denied", t) \in AuditEvents
          /\ Event("tool_call", "policy_denied", t) \in AuditEvents
      BY RefusalEvents
    <3>5. /\ Event("tool_hidden", "policy_denied", t).event = "tool_hidden"
          /\ Event("tool_hidden", "policy_denied", t).tool = t
          /\ Event("tool_call", "policy_denied", t).event # "tool_hidden"
      BY DEF Event
    <3>6. Denials[t] \in Nat /\ Hidings[t] \in Nat
      BY <1>1, RefusalTypes DEF PeersOK
    <3>7. Denials'[t] = Denials[t]
      BY <1>4, <3>4, <3>5 DEF RecordHidden, Denials
    <3>8. Hidings'[t] = IF t \in Visible THEN Hidings[t] ELSE Hidings[t] + Occurrences(tools, t)
      BY <1>4, <3>4, <3>5 DEF RecordHidden, Hidings
    <3> HIDE DEF hides
    <3>9. Hidings'[t] = Hidings[t] + hides[t]
      BY <3>3, <3>6, <3>8
    <3>10. Denials'[t] = Denials[t] + none[t]
      BY <3>6, <3>7
    <3> QED
      BY <3>3, <3>9, <3>10
  <2> HIDE DEF hides, none, all, len, tools
  <2>6. hides \in [Tools -> 0..(MaxListed + 1)] /\ hides \in [Tools -> Nat]
    <3>1. \A n \in 0..len : n \in 0..(MaxListed + 1) /\ n \in Nat
      BY <2>1, FilterAssumption
    <3> QED
      BY <2>3, <3>1
  <2>7. \A t \in Tools : /\ Denials'[t] <= (MaxListed + 1) * handled'
                         /\ Hidings'[t] <= (MaxListed + 1) * handled'
    <3>1. \A c \in [Tools -> 0..(MaxListed + 1)] : \A t \in Tools :
             /\ Denials[t] + c[t] <= (MaxListed + 1) * handled'
             /\ Hidings[t] + c[t] <= (MaxListed + 1) * handled'
      BY <1>1, <1>2, BoundRises
    <3> QED
      BY <2>4, <2>5, <2>6, <3>1
  <2>8. blocked \in Nat
    BY <1>1 DEF PeersOK
  <2>9. LET n == Cardinality(Cells(none)) + Cardinality(Cells(hides))
        IN  blocked' >= blocked + n /\ (lost' = {} => blocked' = blocked + n)
    BY <2>1, <2>3, <2>4, <2>8
  <2>10. lost \subseteq lost'
    BY <1>4
  <2> QED
    BY <1>1, <1>2, <2>3, <2>4, <2>5, <2>6, <2>7, <2>9, <2>10, CountedStep
<1>5. ASSUME NEW body \in Bodies, NEW id \in Ids,
             CountVisibility(body.tools), DropAnswer(id), audit' = audit
      PROVE  Counted'
  <2> DEFINE all == HowMany(body.tools, Len(body.tools), Tools \ Visible)
  <2>1. blocked' = blocked + all /\ all \in Nat
    <3> DEFINE len == Len(body.tools)
    <3>1. all \in 0..len /\ len \in 0..MaxListed /\ blocked' = blocked + all
      BY <1>1, <1>5, HiddenEntries
    <3> HIDE DEF all, len
    <3> QED
      BY <3>1, FilterAssumption
  <2>2. lost' = lost \cup {id}
    BY <1>5 DEF DropAnswer
  <2> DEFINE none == [t \in Tools |-> 0]
  <2>3. none \in [Tools -> Nat] /\ none \in [Tools -> 0..(MaxListed + 1)]
        /\ IsFiniteSet(Cells(none)) /\ Cardinality(Cells(none)) = 0
    BY FilterAssumption, CellsOfNothing
  <2>4. ASSUME NEW t \in Tools
        PROVE  /\ Denials'[t] = Denials[t] + none[t] /\ Hidings'[t] = Hidings[t] + none[t]
               /\ Denials'[t] <= (MaxListed + 1) * handled'
               /\ Hidings'[t] <= (MaxListed + 1) * handled'
    <3>1. Denials' = Denials /\ Hidings' = Hidings
      BY <1>5 DEF Denials, Hidings
    <3>2. Denials[t] \in Nat /\ Hidings[t] \in Nat
      BY <1>1, RefusalTypes DEF PeersOK
    <3>3. Denials[t] + none[t] = Denials[t] /\ Hidings[t] + none[t] = Hidings[t]
      BY <3>2
    <3> HIDE DEF none
    <3>4. /\ Denials[t] + none[t] <= (MaxListed + 1) * handled'
          /\ Hidings[t] + none[t] <= (MaxListed + 1) * handled'
      BY <1>1, <1>2, <2>3, BoundRises
    <3> QED
      BY <3>1, <3>3, <3>4
  <2> HIDE DEF none, all
  <2>5. blocked \in Nat
    BY <1>1 DEF PeersOK
  <2>6. LET n == Cardinality(Cells(none)) + Cardinality(Cells(none))
        IN  blocked' >= blocked + n /\ (lost' = {} => blocked' = blocked + n)
    <3>1. lost' # {}
      BY <2>2
    <3> QED
      BY <2>1, <2>3, <2>5, <3>1
  <2> QED
    BY <1>1, <1>2, <2>2, <2>3, <2>4, <2>6, CountedStep
<1>6. CASE inspect_server_request
  BY <1>3, <1>6 DEF inspect_server_request, peers, server
<1>7. ASSUME NEW id \in Ids \cup {NoId}, inspect_server_rejected(id) PROVE Counted'
  <2>1. lost \subseteq lost'
    BY <1>7 DEF inspect_server_rejected, DropDefective
  <2> QED
    BY <1>3, <1>7, <2>1 DEF inspect_server_rejected
<1>8. ASSUME NEW id \in Ids, NEW body \in Bodies, inspect_server_plain(id, body)
      PROVE  Counted'
  BY <1>3, <1>8 DEF inspect_server_plain, Deliver
<1>9. ASSUME NEW id \in Ids, NEW body \in Bodies, inspect_server_list(id, body)
      PROVE  Counted'
  <2>1. CASE /\ CountVisibility(body.tools) /\ RecordHidden(body.tools)
             /\ Deliver(id, Elements(body.tools) \cap Visible)
    <3>1. lost' = lost
      BY <2>1 DEF Deliver
    <3> QED
      BY <1>4, <2>1, <3>1
  <2>2. CASE Deliver(id, {}) /\ UNCHANGED <<counters, audit>>
    BY <1>3, <2>2 DEF Deliver
  <2>3. CASE CountVisibility(body.tools) /\ DropAnswer(id) /\ UNCHANGED audit
    BY <1>5, <2>3
  <2> QED
    BY <1>9, <2>1, <2>2, <2>3 DEF inspect_server_list
<1> QED
  BY <1>6, <1>7, <1>8, <1>9 DEF inspect_server

\* The end of the connection refuses nothing.
LEMMA CloseCounts ==
    ASSUME IInv, IInv', Counted, RelayEnds \/ message_too_large
    PROVE  Counted'
<1>1. PeersOK /\ PeersOK'
  BY DEF IInv
<1>2. UNCHANGED <<blocked, lost, handled>>
  BY DEF RelayEnds, message_too_large, connection_closed, counters, peers, server
<1>3. Denials' = Denials /\ Hidings' = Hidings
  <2>1. CASE RelayEnds
    BY <2>1 DEF RelayEnds, Denials, Hidings
  <2>2. CASE message_too_large
    <3>1. Event("message_rejected", "message_too_large", NoTool).reason # "policy_denied"
      BY DEF Event
    <3> QED
      BY <1>1, <2>2, <3>1, OtherEvents, OtherReport DEF message_too_large
  <2> QED
    BY <2>1, <2>2
<1>4. handled' \in {handled, handled + 1} /\ handled' <= Budget /\ lost \subseteq lost'
  BY <1>2 DEF Counted
<1> QED
  BY <1>1, <1>2, <1>3, <1>4, SilentStep

------------------------------------------------------------------------------
(* The theorems                                                            *)

\* The invariant is inductive.
THEOREM InductiveInvariant == Spec => []IInv
<1>1. Init => IInv
  <2> SUFFICES ASSUME Init PROVE IInv
    OBVIOUS
  <2>1. pending = << >> /\ pendingIdBytes = 0 /\ Held = {}
    BY DEF Init, Held, Elements
  <2>2. Cardinality(BytesOf({})) = 0
    BY FS_EmptySet DEF BytesOf
  <2>3. TableSound
    BY <2>1, <2>2, FilterAssumption DEF TableSound, SlotsDistinct, SizesBounded, IdBytesExact
  <2>4. PeersOK
    BY DEF Init, PeersOK
  <2>5. CallsMatchAudit
    BY CallEvents DEF Init, CallsMatchAudit
  <2>6. Conversation
    BY <2>1, <2>5 DEF Init, Conversation, OneRequestPerId, UnreadIsLost, HeldIsOutstanding,
                      ListIds, ListAnswersFiltered, NoRequestForgotten
  <2> QED
    BY <2>3, <2>4, <2>6 DEF IInv
<1>2. IInv /\ [Next]_vars => IInv'
  <2> SUFFICES ASSUME IInv, [Next]_vars PROVE IInv'
    OBVIOUS
  <2>1. CASE UNCHANGED vars
    <3>1. UNCHANGED table
      BY <2>1 DEF vars
    <3>2. TableSound' /\ Held' = Held
      BY <3>1, KeepTable DEF IInv
    <3>3. UNCHANGED <<forwarded, blocked, audit, open, executed, unanswered, waiting,
                      silenced, lost, unread, strayed, listed, handled>>
      BY <2>1 DEF vars, counters, peers, server
    <3> QED
      BY <3>2, <3>3 DEF IInv, PeersOK, Conversation, OneRequestPerId, UnreadIsLost,
                        HeldIsOutstanding, ListIds, ListAnswersFiltered, CallsMatchAudit, NoRequestForgotten
  <2>2. CASE Next
    BY <2>2, InspectStep, InspectServerStep, CloseStep DEF Next
  <2> QED
    BY <2>1, <2>2
<1> QED
  BY <1>1, <1>2, PTL DEF Spec

\* Every variable keeps its type and the table its limits: add_pending and
\* remove_pending in any order.
THEOREM TypeCorrect == Spec => []TypeOK
<1>1. IInv => TypeOK
  BY DEF IInv, TableSound, PeersOK, TypeOK
<1> QED
  BY <1>1, InductiveInvariant, PTL

\* The byte counter of the table is exact, whatever was added and removed.
THEOREM IdBytesAreExact == Spec => []IdBytesExact
<1>1. IInv => IdBytesExact
  BY DEF IInv, TableSound
<1> QED
  BY <1>1, InductiveInvariant, PTL

\* While the connection is open, and whatever the server sends, the table holds
\* the tools/list requests it has not answered: inspect_server frees a slot
\* before the answer only for a message of the server under that id, and leaves
\* one after the answer only if that came with a defect before its id.
THEOREM TableIsOutstanding == Spec => []HeldIsOutstanding
<1>1. IInv => HeldIsOutstanding
  BY DEF IInv, Conversation
<1> QED
  BY <1>1, InductiveInvariant, PTL

\* Whatever the server sends, no response the client may take for a list names
\* a tool the policy hides, unless the server had used its id in a message that
\* answers nothing: inspect_server forgets an id with its first use.
THEOREM HiddenToolsStayHidden == Spec => []ListAnswersFiltered
<1>1. IInv => ListAnswersFiltered
  BY DEF IInv, Conversation
<1> QED
  BY <1>1, InductiveInvariant, PTL

\* The calls that reach the server are exactly those the audit trail reports
\* as allowed, and denied tools are never called.
THEOREM OnlyAuditedCalls == Spec => []CallsMatchAudit
<1>1. IInv => CallsMatchAudit
  BY DEF IInv, Conversation
<1> QED
  BY <1>1, InductiveInvariant, PTL

\* Whoever waits for an answer is owed one, or it was dropped as defective, or
\* the request was rejected by the classifier and is none that inspect answers.
THEOREM NobodyForgotten == Spec => []NoRequestForgotten
<1>1. IInv => NoRequestForgotten
  BY DEF IInv, Conversation
<1> QED
  BY <1>1, InductiveInvariant, PTL

\* The counters of ProxyCore and the audit trail agree on every refusal by the
\* policy until an answer is dropped, and from then on the counters never
\* report fewer: authorize_tool_call, the visibility checks of a rewriting and
\* the events they hand to the sink, in any order.
THEOREM CountersAgree == Spec => []CountersMatchAudit
<1>1. Init => Counted
  <2> SUFFICES ASSUME Init PROVE Counted
    OBVIOUS
  <2>1. Denials = [t \in Tools |-> 0] /\ Hidings = [t \in Tools |-> 0]
    BY RefusalEvents DEF Init, Denials, Hidings
  <2>2. handled = 0 /\ blocked = 0 /\ Budget \in Nat /\ MaxListed \in Nat
    BY FilterAssumption DEF Init
  <2>3. (MaxListed + 1) * 0 = 0
    BY <2>2
  <2>4. /\ IsFiniteSet(Cells(Denials)) /\ Cardinality(Cells(Denials)) = 0
        /\ IsFiniteSet(Cells(Hidings)) /\ Cardinality(Cells(Hidings)) = 0
    BY <2>1, CellsOfNothing
  <2> QED
    BY <2>1, <2>2, <2>3, <2>4 DEF Counted
<1>2. IInv /\ IInv' /\ Counted /\ [Next]_vars => Counted'
  <2> SUFFICES ASSUME IInv, IInv', Counted, [Next]_vars PROVE Counted'
    OBVIOUS
  <2>1. CASE UNCHANGED vars
    <3>1. UNCHANGED <<blocked, lost, handled, audit>>
      BY <2>1 DEF vars, counters, peers, server
    <3>2. Denials' = Denials /\ Hidings' = Hidings
      BY <3>1 DEF Denials, Hidings
    <3>3. handled' \in {handled, handled + 1} /\ handled' <= Budget /\ lost \subseteq lost'
      BY <3>1 DEF Counted
    <3> QED
      BY <3>1, <3>2, <3>3, SilentStep DEF IInv
  <2>2. CASE Next
    BY <2>2, InspectCounts, ServerCounts, CloseCounts DEF Next
  <2> QED
    BY <2>1, <2>2
<1>3. Counted => CountersMatchAudit
  BY AuditedCells DEF Counted, CountersMatchAudit
<1> QED
  BY <1>1, <1>2, <1>3, InductiveInvariant, PTL DEF Spec

------------------------------------------------------------------------------
(* The refinement                                                          *)

\* Every step of the filter is a step of the set of correlated ids, or
\* none: the array, the swap and the byte counter are not visible in it.
THEOREM FilterImplementsCorrelation == Spec => CorrelationSpec
<1>1. Init => Correlation!Init
  BY DEF Init, Correlation!Init, Held, Elements
<1>2. IInv /\ [Next]_vars => [Correlation!Next]_(Correlation!vars)
  <2> SUFFICES ASSUME IInv, [Next]_vars PROVE [Correlation!Next]_(Correlation!vars)
    OBVIOUS
  <2>1. TableSound /\ Distinct(pending) /\ PeersOK
    BY DEF IInv, TableSound, SlotsDistinct, Distinct
  <2>2. Cardinality(Held) = Len(pending) /\ Held \subseteq Ids
    BY <2>1, ElementsCount DEF TableSound, Held
  <2>3. ASSUME Held' = Held, open' = open PROVE UNCHANGED Correlation!vars
    BY <2>3 DEF Correlation!vars
  <2>4. ASSUME UNCHANGED table, open' = open PROVE UNCHANGED Correlation!vars
    BY <2>1, <2>3, <2>4, KeepTable
  <2>5. CASE UNCHANGED vars
    BY <2>4, <2>5 DEF vars
  <2>6. ASSUME NEW m \in ClientMessages, inspect(m)
        PROVE  [Correlation!Next]_(Correlation!vars)
    <3>1. open /\ open' = open
      BY <2>6 DEF inspect
    <3>2. CASE UNCHANGED table
      BY <2>4, <3>1, <3>2
    <3>3. CASE m.kind = "request" /\ m.id \notin Held /\ HasRoom(m.id) /\ add_pending(m.id)
      <4>1. m.id \in Ids
        BY <3>3, MessageFields
      <4>2. Held' = Held \cup {m.id}
        BY <2>1, <3>3, <4>1, AddPending
      <4>3. Correlation!Cardinality(Held) = Cardinality(Held)
        BY DEF Correlation!Cardinality, Cardinality, Correlation!IsFiniteSet, IsFiniteSet
      <4>4. Correlation!Request(m.id)
        BY <2>2, <3>1, <3>3, <4>2, <4>3 DEF HasRoom, Correlation!Request
      <4> QED
        BY <4>1, <4>4 DEF Correlation!Next
    <3> QED
      BY <2>6, <3>2, <3>3
         DEF inspect, inspect_rejected, inspect_list_notification, inspect_list_request,
             inspect_other, inspect_call_invalid, inspect_call
  <2>7. ASSUME inspect_server PROVE [Correlation!Next]_(Correlation!vars)
    <3>1. open /\ open' = open
      BY <2>7 DEF inspect_server
    <3>2. CASE UNCHANGED table
      BY <2>4, <3>1, <3>2
    <3>3. ASSUME NEW id \in Held, remove_pending(id)
          PROVE  [Correlation!Next]_(Correlation!vars)
      <4>1. id \in Ids
        BY <2>2
      <4>2. Held' = Held \ {id}
        BY <2>1, <3>3, <4>1, RemovePending
      <4>3. Correlation!Answer(id)
        BY <3>1, <3>3, <4>2 DEF Correlation!Answer
      <4> QED
        BY <4>1, <4>3 DEF Correlation!Next
    <3> QED
      BY <2>7, <3>2, <3>3
         DEF inspect_server, inspect_server_request, inspect_server_rejected,
             inspect_server_plain, inspect_server_list
  <2>8. ASSUME RelayEnds \/ message_too_large PROVE [Correlation!Next]_(Correlation!vars)
    <3>1. open /\ connection_closed
      BY <2>8 DEF RelayEnds, message_too_large
    <3>2. Held' = {} /\ open' = FALSE
      BY <3>1, ClearTable DEF connection_closed
    <3>3. Correlation!Close
      BY <3>1, <3>2 DEF Correlation!Close
    <3> QED
      BY <3>3 DEF Correlation!Next
  <2> QED
    BY <2>5, <2>6, <2>7, <2>8 DEF Next
<1> QED
  BY <1>1, <1>2, InductiveInvariant, PTL DEF Spec, CorrelationSpec, Correlation!Spec
==============================================================================
