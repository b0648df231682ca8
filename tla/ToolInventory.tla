------------------------------ MODULE ToolInventory ------------------------------
(***************************************************************************)
(* The inventory of a server's tools (tool_inventory.cpp): validation of   *)
(* the answers to initialize and tools/list, the canonical form of the     *)
(* values kept, and the document inspect publishes.                        *)
(*                                                                         *)
(* Bytes are counted as the nodes of a value: what matters is which limit a  *)
(* value meets first.                                                      *)
(***************************************************************************)
EXTENDS Messages, Sorting

CONSTANT InventoryLimits    \* of InventoryLimits: tools, schema and output bytes

ASSUME InventoryAssumption == InventoryLimits \in [tools : Nat, schema : Nat, bytes : Nat]

------------------------------------------------------------------------------
(* Values                                                                  *)

\* The places of a value that has been read.
Places(value) == UNION {PlacesAt(value, n) : n \in 0..MaxNesting}

Nodes(value) == Cardinality(Places(value))

\* The values that are there, the value itself among them.
Within(value) == {At(value, p) : p \in Places(value)}

\* Brackets inside each other: the depths at which there is one.
Nesting(value) ==
    Cardinality({n \in 0..MaxNesting :
        \E p \in PlacesAt(value, n) : At(value, p).kind \in {"object", "array"}})

Distinct(members) ==
    \A i, j \in DOMAIN members : members[i].key = members[j].key => i = j

\* canonicalize_value accepts the value.
Canonicalizable(value, depth) ==
    /\ skip_value(value, depth)
    /\ \A v \in Within(value) : Distinct(v.members)

\* canonicalize_object sorts the members, canonicalize_array keeps its order.
ByKey(members) == SortBy(members, [i \in DOMAIN members |-> members[i].key])
CanonicalOutside(value) == [value EXCEPT !.members = ByKey(@)]
Canonical(value) ==
    LET canonical[v \in Within(value)] ==
          [kind    |-> v.kind, text |-> v.text,
           members |-> ByKey([i \in DOMAIN v.members |->
                               LET m == v.members[i]
                               IN  [key |-> m.key, means |-> m.means, value |-> canonical[m.value]]]),
           items   |-> [i \in DOMAIN v.items |-> canonical[v.items[i]]]]
    IN  canonical[value]

\* capture_canonical_value.  The limit is on what has been written.
Capturable(value) ==
    Canonicalizable(value, 4) /\ Nodes(Canonical(value)) <= InventoryLimits.schema

------------------------------------------------------------------------------
(* The answers                                                             *)

CanonicalKeys == {"inputSchema", "annotations"}
EntryKeys     == {"name", "description"} \cup CanonicalKeys

EntryTakes(member) ==
    CASE member.key = "name"        -> member.value.kind = "string" /\ member.value.text # 0
      [] member.key = "description" -> member.value.kind \in {"string", "escaped"}
      [] member.key \in CanonicalKeys -> Capturable(member.value)
      [] OTHER                      -> skip_value(member.value, 4)

parse_tool_object(item) ==
    /\ item.kind = "object"
    /\ AllTaken(item.members, EntryKeys, {i \in DOMAIN item.members : EntryTakes(item.members[i])})
    /\ Has(item.members, "name")

\* At most max_tools entries, no name twice.
InventoryTakes(member) ==
    IF member.key = "tools"
    THEN /\ member.value.kind = "array" /\ Len(member.value.items) <= InventoryLimits.tools
         /\ \A i \in DOMAIN member.value.items : parse_tool_object(member.value.items[i])
         /\ \A i, j \in DOMAIN member.value.items :
               ToolName(member.value.items[i]) = ToolName(member.value.items[j]) => i = j
    ELSE skip_value(member.value, 2)

parse_result_object(value) ==
    /\ value.kind = "object"
    /\ AllTaken(value.members, {"tools"}, {i \in DOMAIN value.members : InventoryTakes(value.members[i])})
    /\ Has(value.members, "tools")

ListTakes(member) ==
    CASE member.key = "method" -> IsString(member.value)
      [] member.key = "result" -> parse_result_object(member.value)
      [] OTHER                 -> EnvelopeTakes(member)

\* Exactly one of result and error, no method, and the id that was asked for.
IsResultFor(members, id) ==
    /\ Has(members, "jsonrpc") /\ ~Has(members, "method") /\ Has(members, "id")
    /\ Has(members, "result") /\ ~Has(members, "error")
    /\ The(members, "id").text = id

\* classify_response_shape repeats the loop of the classifier.
validate_initialize_response(message, id) ==
    /\ message.defect # "too_large" /\ EndsWell(message)
    /\ AllTaken(message.members, EnvelopeKeys,
                {i \in DOMAIN message.members : EnvelopeTakes(message.members[i])})
    /\ IsResultFor(message.members, id)

parses_tools_list_response(message, id) ==
    /\ message.defect # "too_large" /\ EndsWell(message)
    /\ AllTaken(message.members, EnvelopeKeys,
                {i \in DOMAIN message.members : ListTakes(message.members[i])})
    /\ IsResultFor(message.members, id)

\* A ToolInventoryEntry holds what it has of the four members, in this order.
InventoryEntry(item) ==
    LET Kept(key) == IF ~Has(item.members, key) THEN << >>
                     ELSE << Pair(key, IF key \in CanonicalKeys THEN Canonical(The(item.members, key))
                                       ELSE The(item.members, key)) >>
    IN  Kept("name") \o Kept("description") \o Kept("inputSchema") \o Kept("annotations")

EntryName(entry) == The(entry, "name").text

\* The tools of the inventory, sorted by name.
Inventoried(message) ==
    LET items   == ListedItems(message)
        entries == [i \in DOMAIN items |-> InventoryEntry(items[i])]
    IN  SortBy(entries, [i \in DOMAIN entries |-> EntryName(entries[i])])

\* emit_inventory_json: what it writes, which fails beyond the limit.
InventoryBytes(entries) == Nodes(ArrayOf([i \in DOMAIN entries |-> ObjectOf(entries[i])]))
Emitted(entries) == InventoryBytes(entries) <= InventoryLimits.bytes
==============================================================================
