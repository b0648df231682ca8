-------------------------------- MODULE Discovery --------------------------------
(***************************************************************************)
(* One document after another on its way through the guard.  inspect reads *)
(* a server's answers and publishes an inventory, which policy create      *)
(* turns into the policy that run enforces (Policy).  run in turn reads    *)
(* the client's calls and the server's tools/list answers against the      *)
(* table of that policy.                                                   *)
(***************************************************************************)
EXTENDS Policy, ToolInventory

CONSTANTS
    ExpectedId,     \* id of the request answered
    Greetings,      \* answers to initialize
    Answers,        \* answers to tools/list
    Calls,          \* messages of the client
    Tables,         \* policy tables the messages are read against
    GeneratorBytes,     \* max_inventory_bytes of policy create
    GeneratorNesting,   \* its max_nesting_depth
    LongNames           \* names beyond its max_tool_name_bytes

\* The limits of inspect are options, those of policy create are fixed, so that
\* neither bounds the other; an inventory without tools is never too deep.
ASSUME DiscoveryAssumption ==
    GeneratorBytes \in Nat /\ GeneratorNesting \in Nat /\ GeneratorNesting >= 3

\* What is inside a value is a sequence.
IsValue(value) ==
    \A n \in 0..(MaxNesting + 1) : \A p \in PlacesAt(value, n) :
        /\ IsSequence(At(value, p).members) /\ IsSequence(At(value, p).items)
        /\ At(value, p).kind \in {"object", "array"} \/ Values(At(value, p)) = << >>

\* A tool name that is not too long is one of Names or empty; the keys inside
\* what is kept in canonical form are compared by their bytes.
IsTool(item) ==
    /\ IsSequence(item.members)
    /\ \A i \in DOMAIN item.members :
          LET m == item.members[i]
          IN  /\ IsValue(m.value)
              /\ m.key = "name" /\ m.value.kind = "string" => m.value.text \in Names \cup {0}
              /\ m.key \in CanonicalKeys =>
                    \A v \in Within(m.value) : \A j \in DOMAIN v.members : v.members[j].key \in Nat

IsMessage(m) ==
    /\ IsSequence(m.members)
    /\ \A i \in DOMAIN m.members :
          LET v == m.members[i].value
          IN  /\ IsSequence(v.members)
              /\ m.members[i].key = "result" =>
                    \A j \in DOMAIN v.members :
                        /\ IsSequence(v.members[j].value.items)
                        /\ \A k \in DOMAIN v.members[j].value.items :
                              IsTool(v.members[j].value.items[k])

ASSUME MessagesAssumption == \A m \in Greetings \cup Answers \cup Calls : IsMessage(m)

\* A table is one that PolicyTable::build has made.
ASSUME TablesAssumption ==
    \A t \in Tables :
        /\ t \in [defaults : [visible : Access, callable : Access], rules : Seq(RuleSet)]
        /\ \A i, j \in DOMAIN t.rules : i < j => t.rules[i].name < t.rules[j].name

VARIABLES
    message,        \* the message being read
    outcome,        \* what was made of it
    relayed         \* what run sends on for it: a message or nothing

messageVars == <<message, outcome, relayed>>
allVars == <<vars, messageVars>>

NoMessage == [defect |-> "none", members |-> << >>]

------------------------------------------------------------------------------
(* inspect                                                                 *)

\* receive_expected_response has matched the id before an answer is parsed.
Expected ==
    classify(message).kind = "response" /\ classify(message).id = ExpectedId

Initialize ==
    /\ pc = "initialize"
    /\ IF Expected /\ validate_initialize_response(message, ExpectedId)
       THEN /\ pc' = "answer" /\ message' \in Answers
            /\ UNCHANGED outcome
       ELSE /\ pc' = "refused" /\ outcome' = "failure"
            /\ UNCHANGED message
    /\ UNCHANGED <<inventory, allowed, created, file, definition, denied, table, relayed>>

\* The file inspect writes, as policy create finds it: a newline follows the
\* document, and the brackets around an entry are three.
FitsGenerator(entries) == InventoryBytes(entries) + 1 <= GeneratorBytes
NestsInGenerator(entries) ==
    \A i \in DOMAIN entries : \A j \in DOMAIN entries[i] :
        3 + Nesting(entries[i][j].value) <= GeneratorNesting
PublishedTool(entry) ==
    [j \in DOMAIN entry |->
        [key   |-> entry[j].key,
         good  |-> entry[j].key = "name" => entry[j].value.text \notin LongNames,
         value |-> IF entry[j].key = "name" THEN entry[j].value.text ELSE "allow"]]
Published(entries) ==
    [defect |-> IF ~FitsGenerator(entries) THEN "too_large"
                ELSE IF ~NestsInGenerator(entries) THEN "too_deep" ELSE "none",
     members |-> << Member("version", << >>, << >>), Member("server", << >>, << >>),
                    Member("tools", << >>, [i \in DOMAIN entries |-> PublishedTool(entries[i])]) >>]

Collect ==
    /\ pc = "answer"
    /\ LET accepted == /\ Expected /\ parses_tools_list_response(message, ExpectedId)
                       /\ Emitted(Inventoried(message))
       IN  IF accepted
           THEN /\ pc' = "create" /\ outcome' = "inventoried"
                /\ inventory' = Published(Inventoried(message))
                /\ allowed' \in AllowLists
           ELSE /\ pc' = "refused" /\ outcome' = "failure"
                /\ UNCHANGED <<inventory, allowed>>
    /\ UNCHANGED <<created, file, definition, denied, table, message, relayed>>

------------------------------------------------------------------------------
(* run                                                                     *)

Callable(name) == name # 0 /\ AccessOf(name, table).callable = "allow"
Visible(name)  == AccessOf(name, table).visible = "allow"

\* ToolCallFilter::inspect, with room in the correlation table.
ReadCall ==
    /\ pc = "call"
    /\ LET envelope == classify(message)
           called   == extract(message)
           forward  == /\ envelope.kind # "invalid"
                       /\ envelope.method = "tools/call" => called # << >> /\ Callable(called[1])
           answered == /\ ~forward /\ envelope.method = "tools/call"
                       /\ envelope.kind \in {"request", "invalid"} /\ envelope.id # "none"
       IN  /\ outcome' = IF forward THEN "forward" ELSE IF answered THEN "error" ELSE "drop"
           /\ relayed' = IF forward THEN << message >> ELSE << >>
    /\ pc' = "called"
    /\ UNCHANGED <<inventory, allowed, created, file, definition, denied, table, message>>

\* ToolCallFilter::inspect_server, with a tools/list request of ExpectedId
\* outstanding.
ReadAnswer ==
    /\ pc = "list"
    /\ LET envelope  == classify(message)
           shown     == {item \in ToSet(ListedItems(message)) : Visible(ToolName(item))}
           rewriting == rewrite_tools_list_response(message, shown)
           other     == envelope.kind # "response" \/ envelope.id # ExpectedId
       IN  /\ outcome' = IF envelope.kind = "invalid" THEN "drop"
                         ELSE IF other THEN "forward" ELSE rewriting.status
           /\ relayed' = IF envelope.kind = "invalid" THEN << >>
                         ELSE IF other THEN << message >>
                         ELSE IF rewriting.status = "malformed" THEN << >>
                         ELSE << rewriting.message >>
    /\ pc' = "listed"
    /\ UNCHANGED <<inventory, allowed, created, file, definition, denied, table, message>>

------------------------------------------------------------------------------

Begin ==
    \/ Init /\ message = NoMessage
    \/ /\ \/ pc = "initialize" /\ message \in Greetings /\ file = OldFile
             /\ table = [defaults |-> Defaults("deny", "deny"), rules |-> << >>]
          \/ pc = "call" /\ message \in Calls /\ file = Empty /\ table \in Tables
          \/ pc = "list" /\ message \in Answers /\ file = Empty /\ table \in Tables
       /\ inventory = Empty /\ allowed = << >> /\ created = "no"
       /\ definition = NoPolicy /\ denied = << >>

DiscoveryInit == Begin /\ outcome = "none" /\ relayed = << >>

DiscoveryNext ==
    \/ Initialize \/ Collect \/ ReadCall \/ ReadAnswer
    \/ Next /\ UNCHANGED messageVars

DiscoverySpec == DiscoveryInit /\ [][DiscoveryNext]_allVars

------------------------------------------------------------------------------
(* Properties                                                              *)

\* The values some reader may find under a key: any of its occurrences,
\* however the key is spelled.
Readings(members, key) == {members[i].value : i \in {j \in DOMAIN members : members[j].means = key}}

\* The tools a message may be read to call, or to list.
CalledIn(m) ==
    IF \E method \in Readings(m.members, "method") : method.text = "tools/call"
    THEN {name.text : name \in UNION {Readings(p.members, "name") : p \in Readings(m.members, "params")}}
    ELSE {}
ListedIn(m) ==
    LET lists == UNION {Readings(r.members, "tools") : r \in Readings(m.members, "result")}
    IN  {name.text : name \in
            UNION {Readings(item.members, "name") : item \in UNION {ToSet(l.items) : l \in lists}}}

\* A reader may find that a message answers the request, whose id it takes as
\* it is spelled.
Answering(m) == \E id \in Readings(m.members, "id") : id.text = ExpectedId

\* Whichever of two members of one name a reader takes, and whether or not it
\* undoes escapes, no message sent on calls a tool that is not callable, and
\* what is sent on for a message that any reader may take for an answer to the
\* request shows exactly the tools of it that are visible.  Whoever compares ids
\* by what they say, not by their bytes, is promised nothing: an answer with the
\* id 2.0 is to the filter no answer to request 2 and goes out with every tool.
EveryReaderAgrees ==
    relayed # << >> =>
        /\ pc = "called" => \A name \in CalledIn(relayed[1]) : Callable(name)
        /\ pc = "listed" /\ Answering(message) =>
              ListedIn(relayed[1]) = {name \in ListedIn(message) : Visible(name)}

\* What a value says, whatever the order of the members of its objects.
Says(value) ==
    LET says[v \in Within(value)] ==
          [kind    |-> v.kind, text |-> v.text,
           members |-> {<<v.members[i].key, says[v.members[i].value]>> : i \in DOMAIN v.members},
           items   |-> [i \in DOMAIN v.items |-> says[v.items[i]]]]
    IN  says[value]

EachSays(members) == {<<m.key, Says(m.value)>> : m \in members}

Sorted(value) ==
    \A v \in Within(value) : \A i, j \in DOMAIN v.members :
        i < j => v.members[i].key < v.members[j].key

\* The four limits of policy create.
WithinGenerator(entries) ==
    /\ Len(entries) <= MaxTools /\ FitsGenerator(entries) /\ NestsInGenerator(entries)
    /\ \A i \in DOMAIN entries : EntryName(entries[i]) \notin LongNames

\* An inventory lists exactly the tools of the answer, each once, in the order
\* of their names, and says of each what the answer said; its bytes do not
\* depend on the order of anything the protocol leaves unordered.  policy
\* create refuses an inventory that inspect publishes only for one of its own
\* four limits (bytes, nesting, tools, the length of a name), which do not
\* follow inspect's; it finds these tools in any other.
InventoryListsTheTools ==
    outcome = "inventoried" =>
        LET listed == Inventoried(message)
            items  == UNION {ToSet(l.items) : l \in
                        UNION {Readings(r.members, "tools") : r \in Readings(message.members, "result")}}
            names  == [i \in DOMAIN listed |-> EntryName(listed[i])]
        IN  /\ Readings(message.members, "error") = {} /\ Readings(message.members, "method") = {}
            /\ {EachSays(ToSet(entry)) : entry \in ToSet(listed)} =
               {EachSays({m \in ToSet(item.members) : m.means \in EntryKeys}) : item \in items}
            /\ \A i, j \in DOMAIN names : i < j => names[i] < names[j]
            /\ \A i \in DOMAIN listed : \A j \in DOMAIN listed[i] :
                  listed[i][j].key \in CanonicalKeys => Sorted(listed[i][j].value)
            /\ WithinGenerator(listed) =>
                  ParseInventory(inventory) = [error |-> "none", names |-> names]
            /\ ~WithinGenerator(listed) => ParseInventory(inventory).error # "none"

\* docs/design.md: malformed inputs are always rejected.
MalformedRejected ==
    relayed # << >> => message.defect = "none"
==============================================================================
