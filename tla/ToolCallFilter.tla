---------------------------- MODULE ToolCallFilter ----------------------------
(***************************************************************************)
(* mng::protocol::ToolCallFilter (src/src/tool_call_filter.cpp) between a  *)
(* client and a downstream MCP server: policy enforcement on tools/call,   *)
(* the bounded table that correlates tools/list requests with their        *)
(* answers, the rewriting of those answers, the counters of ProxyCore and  *)
(* the audit events handed to the sink.                                    *)
(*                                                                         *)
(* A message is what the envelope classifier reports of it; an id is the   *)
(* raw JSON token, compared for equality only.  The filter runs in the one *)
(* thread of the relay, so a handler is one step.  The server sends what   *)
(* it likes: answers nobody asked for, second answers, defective messages  *)
(* with or without an id (docs/threat-model.md:13).  The client keeps the  *)
(* rule stated at FreshId and otherwise does as it likes as well.          *)
(***************************************************************************)
EXTENDS Integers, Sequences, FiniteSets

CONSTANTS
    Ids,               \* raw JSON id tokens
    IdSize,            \* bytes of each token
    Tools,             \* tool names
    Callable,          \* the names whose invocation the policy allows
    Visible,           \* the names whose visibility the policy allows
    Capacity,          \* RuntimeLimits.max_pending_tools_list
    MaxIdBytes,        \* Config.max_pending_id_bytes
    MaxTotalIdBytes,   \* Config.max_pending_total_id_bytes
    MaxListed,         \* bound: tools in one tools/list answer
    Budget,            \* bound: messages handled in a behaviour
    NoId, NoTool, NoMethod

ASSUME FilterAssumption ==
    /\ IdSize \in [Ids -> Nat \ {0}]
    /\ Callable \subseteq Tools
    /\ Visible \subseteq Tools
    /\ Capacity \in Nat \ {0}
    /\ MaxIdBytes \in Nat
    /\ MaxTotalIdBytes \in Nat
    /\ MaxListed \in Nat
    /\ Budget \in Nat
    /\ NoId \notin Ids
    /\ NoTool \notin Tools

VARIABLES
    pending,          \* pending_[0 .. pending_count_ - 1]
    pendingIdBytes,   \* pending_id_bytes_
    forwarded,        \* ProxyCore counters
    blocked,
    audit,            \* how often each event was handed to the audit sink
    open,             \* connection_closed has not been called
    executed,         \* tools/call messages relayed to the server, per tool
    unanswered,       \* requests relayed to the server and not yet answered
    waiting,          \* ids of requests for which the client has seen no answer
    silenced,         \* ids of rejected requests that are not answered
    lost,             \* ids whose answer the filter dropped as unusable
    unread,           \* those of tools/list whose answer was dropped before its id
    strayed,          \* ids the server used in a message that answers nothing
    listed,           \* <<id, tool>>: an answer the client may take for a list
    handled           \* messages handled so far

table    == <<pending, pendingIdBytes>>
counters == <<forwarded, blocked>>
server   == <<lost, unread, strayed, listed>>
peers    == <<executed, unanswered, waiting, silenced, server>>
vars     == <<table, counters, audit, open, peers, handled>>

------------------------------------------------------------------------------
(* Messages                                                                *)

Methods == {"tools/call", "tools/list", "other"}

\* A rejected envelope keeps the id and the method that were scanned before
\* the defect; the client meant it as the request wants, if as a request.  In
\* a tools/call, NoTool stands for parameters the extractor refuses.
Rejected == [kind : {"invalid"}, method : Methods \cup {NoMethod},
             id : Ids \cup {NoId}, tool : {NoTool}, wants : Ids \cup {NoId}]
ClientMessages ==
         {m \in Rejected : m.id = NoId \/ m.wants \in {m.id, NoId}}
    \cup [kind : {"request"}, method : {"tools/call"}, id : Ids, tool : Tools \cup {NoTool}]
    \cup [kind : {"request"}, method : {"tools/list", "other"}, id : Ids, tool : {NoTool}]
    \cup [kind : {"notification"}, method : {"tools/call"}, id : {NoId}, tool : Tools \cup {NoTool}]
    \cup [kind : {"notification"}, method : {"tools/list", "other"}, id : {NoId}, tool : {NoTool}]
    \cup [kind : {"response"}, method : {NoMethod}, id : Ids, tool : {NoTool}]

\* The body of a response: the tools its list names as far as the scan gets,
\* and how the scan ends.
Bodies ==
         [tools : UNION {[1..n -> Tools] : n \in 0..MaxListed}, end : {"tools", "malformed"}]
    \cup [tools : {<< >>}, end : {"error"}]

AuditEvents ==
         [event : {"tool_call"}, reason : {"policy_allowed", "policy_denied"}, tool : Tools]
    \cup [event : {"tool_call"}, reason : {"invalid_parameters", "malformed_message"}, tool : {NoTool}]
    \cup [event : {"message_rejected"}, reason : {"malformed_message", "message_too_large"}, tool : {NoTool}]
    \cup [event : {"correlation_exhausted"}, reason : {"capacity_exhausted"}, tool : {NoTool}]
    \cup [event : {"tool_hidden"}, reason : {"policy_denied"}, tool : Tools]

Event(event, reason, tool) == [event |-> event, reason |-> reason, tool |-> tool]

Record(e) == audit' = [audit EXCEPT ![e] = @ + 1]

------------------------------------------------------------------------------
(* The correlation table                                                   *)

Elements(s) == {s[i] : i \in DOMAIN s}

Held == Elements(pending)

\* Mutant: the limit on the count is off by one.
HasRoomOffByOne(id) ==
    /\ IdSize[id] <= MaxIdBytes
    /\ Len(pending) <= Capacity
    /\ pendingIdBytes + IdSize[id] <= MaxTotalIdBytes

HasRoom(id) ==
    /\ IdSize[id] <= MaxIdBytes
    /\ Len(pending) < Capacity
    /\ pendingIdBytes + IdSize[id] <= MaxTotalIdBytes

add_pending(id) ==
    /\ pending' = Append(pending, id)
    /\ pendingIdBytes' = pendingIdBytes + IdSize[id]

\* Mutant: the last entry is dropped whichever entry is removed.
RemoveLast(s, i) == SubSeq(s, 1, Len(s) - 1)

\* The last entry takes the place of the one removed.
SwapRemove(s, i) ==
    [j \in 1..(Len(s) - 1) |-> IF j = i THEN s[Len(s)] ELSE s[j]]

\* Mutant: the size is taken from the slot after the swap.
RemoveSizedAfterSwap(id) ==
    \E i \in DOMAIN pending :
        /\ pending[i] = id
        /\ pending' = SwapRemove(pending, i)
        /\ pendingIdBytes' = pendingIdBytes - IdSize[pending[Len(pending)]]

remove_pending(id) ==
    \E i \in DOMAIN pending :
        /\ pending[i] = id
        /\ \A j \in 1..(i - 1) : pending[j] # id
        /\ pending' = SwapRemove(pending, i)
        /\ pendingIdBytes' = pendingIdBytes - IdSize[id]

------------------------------------------------------------------------------
(* What becomes of a client message                                        *)

Forward(m) ==
    /\ executed' = IF m.method = "tools/call"
                   THEN [executed EXCEPT ![m.tool] = @ + 1] ELSE executed
    /\ unanswered' = IF m.kind = "request"
                     THEN unanswered \cup {[id |-> m.id, list |-> m.method = "tools/list"]}
                     ELSE unanswered
    /\ waiting' = IF m.kind = "request" THEN waiting \cup {m.id} ELSE waiting
    /\ UNCHANGED <<silenced, server>>

\* respond_with_error: the client has its answer.
Respond(id) ==
    /\ waiting' = waiting \ {id}
    /\ UNCHANGED <<executed, unanswered, silenced, server>>

\* Nothing is sent; a client that sent a request goes on waiting for it.
Drop(m) ==
    /\ waiting' = IF m.kind = "request" THEN waiting \cup {m.id} ELSE waiting
    /\ UNCHANGED <<executed, unanswered, silenced, server>>

\* Nothing is sent for an envelope that is rejected, unless it is a
\* tools/call whose id is known; the client is not told that it was.
DropRejected(m) ==
    /\ waiting' = waiting \cup ({m.wants} \ {NoId})
    /\ silenced' = silenced \cup ({m.wants} \ {NoId})
    /\ UNCHANGED <<executed, unanswered, server>>

\* Mutant: a refusal is never answered.
RefuseSilently(m) == Drop(m)

\* Only a request with an id can be answered.
Refuse(m) == IF m.kind = "request" THEN Respond(m.id) ELSE Drop(m)

\* The client's rule: it does not reuse the id of a request the server still
\* has, except to repeat a tools/list.
FreshId(m) ==
    m.kind = "request" =>
        \A r \in unanswered : r.id = m.id => r.list /\ m.method = "tools/list"

inspect_rejected(m) ==
    /\ m.kind = "invalid"
    /\ Record(Event(IF m.method = "tools/call" THEN "tool_call" ELSE "message_rejected",
                    "malformed_message", NoTool))
    /\ IF m.method = "tools/call" /\ m.id # NoId THEN Respond(m.id) ELSE DropRejected(m)
    /\ UNCHANGED <<table, counters>>

inspect_list_notification(m) ==
    /\ m.kind = "notification" /\ m.method = "tools/list"
    /\ IF Len(pending) >= Capacity
       THEN /\ Record(Event("correlation_exhausted", "capacity_exhausted", NoTool))
            /\ Drop(m)
       ELSE Forward(m) /\ UNCHANGED audit
    /\ UNCHANGED <<table, counters>>

\* Mutant: a request that finds no room is relayed uncorrelated.
ListRequestFailsOpen(m) ==
    /\ m.kind = "request" /\ m.method = "tools/list"
    /\ IF m.id \notin Held /\ HasRoom(m.id)
       THEN add_pending(m.id) /\ Forward(m)
       ELSE Forward(m) /\ UNCHANGED table
    /\ UNCHANGED <<counters, audit>>

inspect_list_request(m) ==
    /\ m.kind = "request" /\ m.method = "tools/list"
    /\ \/ m.id \in Held /\ Drop(m) /\ UNCHANGED <<table, audit>>
       \/ /\ m.id \notin Held /\ HasRoom(m.id)
          /\ add_pending(m.id) /\ Forward(m) /\ UNCHANGED audit
       \/ /\ m.id \notin Held /\ ~HasRoom(m.id)
          /\ Record(Event("correlation_exhausted", "capacity_exhausted", NoTool))
          /\ Respond(m.id) /\ UNCHANGED table
    /\ UNCHANGED counters

\* Other methods, and the client's answers to the server, are not policed.
inspect_other(m) ==
    /\ m.kind # "invalid" /\ m.method \notin {"tools/call", "tools/list"}
    /\ Forward(m)
    /\ UNCHANGED <<table, counters, audit>>

inspect_call_invalid(m) ==
    /\ m.kind # "invalid" /\ m.method = "tools/call" /\ m.tool = NoTool
    /\ Record(Event("tool_call", "invalid_parameters", NoTool))
    /\ Refuse(m)
    /\ UNCHANGED <<table, counters>>

\* Mutant: a denied notification, which cannot be answered, is relayed.
CallNotificationRelayed(m) ==
    /\ m.kind # "invalid" /\ m.method = "tools/call" /\ m.tool # NoTool
    /\ IF m.tool \in Callable
       THEN /\ forwarded' = forwarded + 1 /\ blocked' = blocked
            /\ Record(Event("tool_call", "policy_allowed", m.tool))
            /\ Forward(m)
       ELSE /\ blocked' = blocked + 1 /\ forwarded' = forwarded
            /\ Record(Event("tool_call", "policy_denied", m.tool))
            /\ IF m.kind = "request" THEN Respond(m.id) ELSE Forward(m)
    /\ UNCHANGED table

inspect_call(m) ==
    /\ m.kind # "invalid" /\ m.method = "tools/call" /\ m.tool # NoTool
    /\ IF m.tool \in Callable
       THEN /\ forwarded' = forwarded + 1 /\ blocked' = blocked
            /\ Record(Event("tool_call", "policy_allowed", m.tool))
            /\ Forward(m)
       ELSE /\ blocked' = blocked + 1 /\ forwarded' = forwarded
            /\ Record(Event("tool_call", "policy_denied", m.tool))
            /\ Refuse(m)
    /\ UNCHANGED table

inspect(m) ==
    /\ open /\ handled < Budget
    /\ FreshId(m)
    /\ \/ inspect_rejected(m)
       \/ inspect_list_notification(m)
       \/ inspect_list_request(m)
       \/ inspect_other(m)
       \/ inspect_call_invalid(m)
       \/ inspect_call(m)
    /\ handled' = handled + 1
    /\ UNCHANGED open

------------------------------------------------------------------------------
(* Server messages                                                         *)

Occurrences(s, t) == Cardinality({i \in DOMAIN s : s[i] = t})

\* authorize_tool_visibility is asked, and counts, for each name the scan
\* reaches, whether or not the rewriting succeeds.
CountVisibility(tools) ==
    LET seen == Cardinality({i \in DOMAIN tools : tools[i] \in Visible})
    IN  /\ forwarded' = forwarded + seen
        /\ blocked' = blocked + (Len(tools) - seen)

\* Mutant: a tool that is listed twice is reported once.
RecordHiddenOnce(tools) ==
    audit' = [e \in AuditEvents |->
                IF e.event = "tool_hidden" /\ e.tool \notin Visible /\ Occurrences(tools, e.tool) > 0
                THEN audit[e] + 1 ELSE audit[e]]

RecordHidden(tools) ==
    audit' = [e \in AuditEvents |->
                IF e.event = "tool_hidden" /\ e.tool \notin Visible
                THEN audit[e] + Occurrences(tools, e.tool) ELSE audit[e]]

\* The requests a message with this id can answer.
Owed(id) == {r \in unanswered : r.id = id}

\* A response is relayed and names these tools.  It answers the request with
\* its id; when there is none, the client may take it for a list as well.
Deliver(id, tools) ==
    /\ unanswered' = unanswered \ Owed(id)
    /\ waiting' = waiting \ {id}
    /\ strayed' = IF Owed(id) = {} THEN strayed \cup {id} ELSE strayed
    /\ listed' = IF \E r \in Owed(id) : ~r.list THEN listed ELSE listed \cup ({id} \X tools)
    /\ UNCHANGED <<executed, silenced, lost, unread>>

\* A response is dropped: the client has none and the server owes none.
DropAnswer(id) ==
    /\ unanswered' = unanswered \ Owed(id)
    /\ lost' = lost \cup {id}
    /\ strayed' = IF Owed(id) = {} THEN strayed \cup {id} ELSE strayed
    /\ UNCHANGED <<executed, waiting, silenced, unread, listed>>

\* A message with a defect is dropped.  The server may have meant it as the
\* answer to a request, which has the id that was scanned if one was.
DropDefective(id) ==
    /\ \/ \E r \in unanswered :
              /\ id \in {r.id, NoId}
              /\ unanswered' = unanswered \ {r}
              /\ lost' = lost \cup {r.id}
              /\ unread' = IF id = NoId /\ r.list THEN unread \cup {r.id} ELSE unread
              /\ strayed' = strayed
       \/ /\ strayed' = strayed \cup ({id} \ {NoId})
          /\ UNCHANGED <<unanswered, lost, unread>>
    /\ UNCHANGED <<executed, waiting, silenced, listed>>

\* Any defective message frees the slot of the id it shows, whatever it was
\* meant as; without an id it frees none.
inspect_server_rejected(id) ==
    /\ IF id \in Held THEN remove_pending(id) ELSE UNCHANGED table
    /\ DropDefective(id)
    /\ UNCHANGED <<counters, audit>>

\* A response that is not correlated: relayed as it is.
inspect_server_plain(id, body) ==
    /\ id \notin Held
    /\ Deliver(id, Elements(body.tools))
    /\ UNCHANGED <<table, counters, audit>>

\* The first response to a correlated tools/list: rewritten, relayed when it
\* is an error, dropped when the rewriting meets a defect.
inspect_server_list(id, body) ==
    /\ id \in Held
    /\ remove_pending(id)
    /\ \/ /\ body.end = "tools"
          /\ CountVisibility(body.tools)
          /\ RecordHidden(body.tools)
          /\ Deliver(id, Elements(body.tools) \cap Visible)
       \/ /\ body.end = "error"
          /\ Deliver(id, {})
          /\ UNCHANGED <<counters, audit>>
       \/ /\ body.end = "malformed"
          /\ CountVisibility(body.tools)
          /\ DropAnswer(id)
          /\ UNCHANGED audit

\* A well-formed request or notification of the server's own, whatever its
\* id: ids of the two directions are unrelated, and the table is not
\* consulted.
inspect_server_request ==
    UNCHANGED <<table, counters, audit, peers>>

inspect_server ==
    /\ open /\ handled < Budget
    /\ \/ inspect_server_request
       \/ \E id \in Ids \cup {NoId} : inspect_server_rejected(id)
       \/ \E id \in Ids, body \in Bodies :
              inspect_server_plain(id, body) \/ inspect_server_list(id, body)
    /\ handled' = handled + 1
    /\ UNCHANGED open

------------------------------------------------------------------------------
(* The end of the connection                                               *)

\* Mutant: the table survives the connection.
CloseKeepsTable ==
    /\ open' = FALSE
    /\ UNCHANGED <<table, counters, peers, handled>>

connection_closed ==
    /\ open' = FALSE
    /\ pending' = << >>
    /\ pendingIdBytes' = 0
    /\ UNCHANGED <<counters, peers, handled>>

\* The relay ends by itself.
RelayEnds == open /\ connection_closed /\ UNCHANGED audit

\* A message exceeds the limit: the relay reports it and gives the connection
\* up (src/src/linux_stdio_relay.cpp, either direction).
message_too_large ==
    /\ open
    /\ Record(Event("message_rejected", "message_too_large", NoTool))
    /\ connection_closed

Init ==
    /\ pending = << >> /\ pendingIdBytes = 0
    /\ forwarded = 0 /\ blocked = 0
    /\ audit = [e \in AuditEvents |-> 0]
    /\ open = TRUE
    /\ executed = [t \in Tools |-> 0]
    /\ unanswered = {} /\ waiting = {} /\ silenced = {}
    /\ lost = {} /\ unread = {} /\ strayed = {} /\ listed = {}
    /\ handled = 0

Next ==
    \/ \E m \in ClientMessages : inspect(m)
    \/ inspect_server
    \/ RelayEnds
    \/ message_too_large

Spec == Init /\ [][Next]_vars
------------------------------------------------------------------------------
(* Properties                                                              *)

\* Every variable has its type, and the table is inside the three limits
\* add_pending enforces.
TypeOK ==
    /\ pending \in Seq(Ids) /\ Len(pending) <= Capacity
    /\ pendingIdBytes \in 0..MaxTotalIdBytes
    /\ forwarded \in Nat /\ blocked \in Nat
    /\ audit \in [AuditEvents -> Nat]
    /\ open \in BOOLEAN
    /\ executed \in [Tools -> Nat]
    /\ unanswered \subseteq [id : Ids, list : BOOLEAN]
    /\ waiting \subseteq Ids /\ silenced \subseteq Ids
    /\ lost \subseteq Ids /\ unread \subseteq Ids /\ strayed \subseteq Ids
    /\ listed \subseteq Ids \X Tools
    /\ handled \in Nat

\* One slot per id, so that removing the first match removes the id: the
\* duplicate check of add_pending and the swap of remove_pending together.
SlotsDistinct ==
    \A i, j \in DOMAIN pending : pending[i] = pending[j] => i = j

\* pending_id_bytes_ is the number of bytes of the ids in the table, after
\* any sequence of additions and swap-removals; it never drifts, and the
\* unsigned subtraction of remove_pending never wraps.
BytesOf(ids) == {b \in ids \X (1..MaxIdBytes) : b[2] <= IdSize[b[1]]}
IdBytesExact == pendingIdBytes = Cardinality(BytesOf(Held))

\* The table follows the tools/list requests the server still has to answer.
\* One is missing (its answer would be relayed unfiltered) only if the server
\* had used its id in another message, and one is left over (its slot is lost
\* until the session ends) only if its answer was dropped with a defect before
\* the id.  No order of requests, repetitions, answers and defective messages
\* makes another difference.
ListIds == {r.id : r \in {q \in unanswered : q.list}}
HeldIsOutstanding ==
    open => /\ ListIds \ Held \subseteq strayed
            /\ Held \ ListIds \subseteq unread

\* No response shows the client, as the list of its tools, a tool whose
\* visibility the policy denies, however requests, repeated requests,
\* exhausted capacity and defective answers interleave, unless the server had
\* used the id in a message that answers nothing: the filter forgets an id
\* with the first message that carries it, and relays the next as it is.
ListAnswersFiltered ==
    \A shows \in listed : shows[2] \in Visible \/ shows[1] \in strayed

\* Exactly the calls the audit reports as allowed reach the server, and a
\* tool whose invocation is denied is never called.
CallsMatchAudit ==
    \A t \in Tools :
        /\ executed[t] = audit[Event("tool_call", "policy_allowed", t)]
        /\ t \notin Callable => executed[t] = 0

\* A client that waits for an answer is owed one by the server, or its answer
\* was dropped as defective, or its request was rejected by the classifier,
\* which is answered for a tools/call with a scanned id only.  Every other
\* refusal (policy, parameters, capacity) is answered, and a repeated request
\* is dropped only while the first can still be answered or was lost.
NoRequestForgotten ==
    waiting \subseteq {r.id : r \in unanswered} \cup lost \cup silenced

\* The counters of ProxyCore agree with the audit trail on every refusal by
\* policy, until an answer is dropped: the visibility checks of a rewriting
\* that fails half way are counted and not audited.
Audited(event, reason) ==
    Cardinality({b \in Tools \X (1..((MaxListed + 1) * Budget)) :
                    b[2] <= audit[Event(event, reason, b[1])]})
CountersMatchAudit ==
    LET refusals == Audited("tool_call", "policy_denied") + Audited("tool_hidden", "policy_denied")
    IN  blocked >= refusals /\ (lost = {} => blocked = refusals)

\* The array, its swap-removal and its byte counter implement a bounded set
\* of ids, each of which is added while absent, removed alone, or given up
\* with the connection.
Correlation == INSTANCE ListCorrelation WITH outstanding <- Held
CorrelationSpec == Correlation!Spec
==============================================================================
