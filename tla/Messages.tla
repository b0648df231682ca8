-------------------------------- MODULE Messages --------------------------------
(***************************************************************************)
(* What the guard reads in one JSON-RPC message: the envelope classifier   *)
(* (json_rpc_envelope.cpp), the tools/call extractor                       *)
(* (tool_call_extractor.cpp) and the rewriting of a tools/list answer      *)
(* (tool_call_filter.cpp).  Each is a single pass over the members of an   *)
(* object that stops at the first member it refuses.                       *)
(*                                                                         *)
(* A message is the sequence of its top-level members and how it ends; the *)
(* key of a member is as it is spelled, which is not what it means if it   *)
(* is spelled with an escape.  Tool names, and the keys inside a schema,   *)
(* are numbers in the order of their bytes; 0 is the empty name.           *)
(***************************************************************************)
EXTENDS Naturals, Sequences, FiniteSets, SequencesExt, FiniteSetsExt, Filtering

CONSTANT MaxNesting     \* max_nesting_depth
ASSUME NestingAssumption == MaxNesting \in Nat

\* Kinds of values: "string", "escaped" (a string spelled with an escape),
\* "long" (one beyond the limits of an inventory), "number", "null", "object",
\* "array", and "bad" for what no scanner takes for a value.
Scalar(kind, text) == [kind |-> kind, text |-> text, members |-> << >>, items |-> << >>]
ObjectOf(members)  == [kind |-> "object", text |-> "none", members |-> members, items |-> << >>]
ArrayOf(items)     == [kind |-> "array", text |-> "none", members |-> << >>, items |-> items]
Pair(key, value)   == [key |-> key, means |-> key, value |-> value]

Has(members, key) == \E i \in DOMAIN members : members[i].key = key
The(members, key) ==
    members[CHOOSE i \in DOMAIN members :
              members[i].key = key /\ \A j \in 1..(i - 1) : members[j].key # key].value

Values(value) == [i \in DOMAIN value.members |-> value.members[i].value] \o value.items

\* A place inside a value is the way to it from above, and has a value of its own.
At(value, place) ==
    LET at[n \in 0..Len(place)] == IF n = 0 THEN value ELSE Values(at[n - 1])[place[n]]
    IN  at[Len(place)]

\* The places that are n deep.
Below(value, places) == UNION {{Append(p, i) : i \in DOMAIN Values(At(value, p))} : p \in places}
PlacesAt(value, n) ==
    LET places[k \in 0..n] == IF k = 0 THEN {<< >>} ELSE Below(value, places[k - 1])
    IN  places[n]

\* A value is read at most MaxNesting deep; its keys are not compared.
skip_value(value, depth) ==
    /\ depth <= MaxNesting
    /\ PlacesAt(value, MaxNesting - depth + 1) = {}
    /\ \A n \in 0..(MaxNesting - depth) : \A p \in PlacesAt(value, n) : At(value, p).kind # "bad"

IsString(value) == value.kind \in {"string", "escaped", "long"}
Unescaped(value) == value.kind \in {"string", "long"}

\* A member whose key is spelled with an escape, or one of the known keys again.
AmbiguousRepeated(members, i, known) ==
    members[i].key \in known /\ \E j \in 1..(i - 1) : members[j].key = members[i].key
Ambiguous(members, i, known) ==
    \/ members[i].key # members[i].means
    \/ members[i].key \in known /\ \E j \in 1..(i - 1) : members[j].key = members[i].key

\* A loop over the members of an object: how many it takes before one that is
\* ambiguous or whose value it refuses ("taken" holds the places of the others).
Taken(members, known, taken) ==
    LET refused == {i \in DOMAIN members : Ambiguous(members, i, known) \/ i \notin taken}
    IN  IF refused = {} THEN Len(members) ELSE Min(refused) - 1

AllTaken(members, known, taken) == Taken(members, known, taken) = Len(members)

\* The classifier, the extractor and the inventory leave their loop when the
\* text ends behind a comma ("open"), and then find nothing wrong.
EndsWell(message) ==
    message.defect = "none" \/ message.defect = "open"

------------------------------------------------------------------------------
(* JsonRpcEnvelopeClassifier::classify                                     *)

EnvelopeKeys == {"jsonrpc", "method", "id", "result", "error"}

EnvelopeTakes(member) ==
    CASE member.key = "jsonrpc" -> member.value.kind = "string" /\ member.value.text = "2.0"
      [] member.key = "method"  -> Unescaped(member.value) /\ member.value.text # ""
      [] member.key = "id"      -> IsString(member.value) \/ member.value.kind \in {"null", "number"}
      [] OTHER                  -> skip_value(member.value, 1)

\* The id and the method are those met before the failure, if it fails.
classify(message) ==
    LET known == IF message.defect = "too_large" THEN << >>
                 ELSE SubSeq(message.members, 1,
                             Taken(message.members, EnvelopeKeys,
                                   {i \in DOMAIN message.members : EnvelopeTakes(message.members[i])}))
        Sees(key) == Has(known, key)
        whole == EndsWell(message) /\ Len(known) = Len(message.members) /\ Sees("jsonrpc")
    IN  [kind |->
            IF ~whole THEN "invalid"
            ELSE IF Sees("method")
            THEN IF Sees("result") \/ Sees("error") THEN "invalid"
                 ELSE IF Sees("id") THEN "request" ELSE "notification"
            ELSE IF Sees("id") /\ Sees("result") # Sees("error") THEN "response" ELSE "invalid",
         id     |-> IF Sees("id") THEN The(known, "id").text ELSE "none",
         method |-> IF Sees("method") THEN The(known, "method").text ELSE "none"]

------------------------------------------------------------------------------
(* ToolCallExtractor::extract                                              *)

ParamTakes(member) ==
    IF member.key = "name" THEN Unescaped(member.value)
    ELSE skip_value(member.value, 2)

parse_params(members) ==
    /\ AllTaken(members, {"name", "arguments"}, {i \in DOMAIN members : ParamTakes(members[i])})
    /\ Has(members, "name")

ExtractTakes(member) ==
    IF member.key = "params"
    THEN member.value.kind = "object" /\ parse_params(member.value.members)
    ELSE skip_value(member.value, 1)

\* The name of the tool called, or nothing.
extract(message) ==
    IF /\ message.defect # "too_large" /\ EndsWell(message)
       /\ AllTaken(message.members, {"params"},
                   {i \in DOMAIN message.members : ExtractTakes(message.members[i])})
       /\ Has(message.members, "params")
    THEN << The(The(message.members, "params").members, "name").text >>
    ELSE << >>

------------------------------------------------------------------------------
(* rewrite_tools_list_response                                             *)

ToolTakes(member) ==
    IF member.key = "name" THEN Unescaped(member.value) /\ member.value.text # 0
    ELSE skip_value(member.value, 4)

parse_tool(item) ==
    /\ MaxNesting >= 4 /\ item.kind = "object"
    /\ AllTaken(item.members, {"name"}, {i \in DOMAIN item.members : ToolTakes(item.members[i])})
    /\ Has(item.members, "name")

ToolName(item) == The(item.members, "name").text

ResultTakes(member) ==
    IF member.key = "tools"
    THEN /\ MaxNesting >= 3 /\ member.value.kind = "array"
         /\ \A i \in DOMAIN member.value.items : parse_tool(member.value.items[i])
    ELSE skip_value(member.value, 2)

parse_result(value) ==
    /\ MaxNesting >= 2 /\ value.kind = "object"
    /\ AllTaken(value.members, {"tools"}, {i \in DOMAIN value.members : ResultTakes(value.members[i])})
    /\ Has(value.members, "tools")

RewriteTakes(member) ==
    IF member.key = "result" THEN parse_result(member.value) ELSE skip_value(member.value, 1)

ListedItems(message) == The(The(message.members, "result").members, "tools").items

\* Only the array of tools is copied selectively, whatever surrounds it as is.
Substitute(members, key, value) ==
    [i \in DOMAIN members |-> IF members[i].key = key THEN Pair(key, value) ELSE members[i]]

rewrite_tools_list_response(message, shown) ==
    LET wellFormed == message.defect = "none"
                      /\ AllTaken(message.members, {"result", "error"},
                                  {i \in DOMAIN message.members : RewriteTakes(message.members[i])})
        result == The(message.members, "result")
        kept   == Select(ListedItems(message), shown)
    IN  IF ~wellFormed \/ Has(message.members, "result") = Has(message.members, "error")
        THEN [status |-> "malformed", message |-> message]
        ELSE IF Has(message.members, "error")
        THEN [status |-> "passthrough", message |-> message]
        ELSE [status |-> "rewritten",
              message |-> [defect  |-> message.defect,
                           members |-> Substitute(message.members, "result",
                               ObjectOf(Substitute(result.members, "tools", ArrayOf(kept))))]]
==============================================================================
