--------------------------------- MODULE Policy ---------------------------------
(***************************************************************************)
(* The life of a policy: policy create turns an inventory and a list of    *)
(* allowed tools into a policy file (policy_generator.cpp,                 *)
(* policy_create.cpp); run reads a policy file (policy_loader.cpp), adds   *)
(* the tools denied on its command line, builds the sorted table           *)
(* (policy.cpp) and looks tools up in it by binary search.                 *)
(*                                                                         *)
(* A JSON document is the sequence of its top-level members and what is    *)
(* wrong with it as a whole: "open" is a text that ends behind a comma,    *)
(* "cut" any other flaw behind the members.  A tool name is a number, in   *)
(* the order of the bytes of the names.                                    *)
(***************************************************************************)
EXTENDS Naturals, Sequences, FiniteSets, SequencesExt, Sorting

CONSTANTS
    Names,          \* tool names
    Files,          \* policy files found by run
    Inventories,    \* inventories given to policy create
    AllowLists,     \* sequences of --allow-tool names
    OldFile,        \* the policy file policy create finds
    MaxTools,       \* limits.max_tools
    MaxDenied       \* bound: --deny-tool options

\* A name has at least one byte and is bounded in length; zero is the empty one.
ASSUME PolicyAssumption ==
    /\ Names \subseteq Nat \ {0} /\ IsFiniteSet(Names)
    /\ MaxTools \in Nat /\ MaxDenied \in Nat
    /\ AllowLists \subseteq Seq(Names)

VARIABLES
    pc,             \* "create", "run", "deny", "ready", "failed"; Discovery adds the
                    \* rest of Stages
    inventory, allowed,           \* the input of policy create
    created,        \* "no", "yes", "failed"
    file,           \* the policy file
    definition,     \* PolicyDefinition of run_child
    denied,         \* --deny-tool names applied, in order
    table           \* PolicyTable

vars == <<pc, inventory, allowed, created, file, definition, denied, table>>

Rule(name, visible, callable) == [name |-> name, visible |-> visible, callable |-> callable]
Defaults(visible, callable) == [visible |-> visible, callable |-> callable]

Access == {"allow", "deny"}
AccessKeys == {"visibility", "invocation"}

\* A loop over a sequence: Take is done with each element in turn.  This is
\* FoldLeft, as a recursive function.
Loop(Take(_, _), start, seq) ==
    LET after[n \in 0..Len(seq)] ==
          IF n = 0 THEN start ELSE Take(after[n - 1], seq[n])
    IN  after[Len(seq)]

------------------------------------------------------------------------------
(* Objects inside a document                                               *)

\* An object is the sequence of its members, each with its key, whether its
\* value is one the parser takes for that key, and the value.
FreshObject ==
    [error |-> "none", saw |-> {}, name |-> 0, visibility |-> "deny", invocation |-> "deny"]

RepeatedNever(key, known, saw) == FALSE
Repeated(key, known, saw) == key \in known /\ key \in saw

\* A member of another key is skipped, a known one is taken once.
TakeField(parse, member, known) ==
    IF parse.error # "none" THEN parse
    ELSE IF Repeated(member.key, known, parse.saw)
    THEN [parse EXCEPT !.error = "duplicate_member"]
    ELSE IF ~member.good THEN [parse EXCEPT !.error = "invalid_member"]
    ELSE IF member.key \in known
    THEN [parse EXCEPT !.saw = @ \cup {member.key}, ![member.key] = member.value]
    ELSE parse

\* The loop of parse_defaults, parse_tool and parse_tool_name.
ReadFields(object, known) ==
    Loop(LAMBDA parse, member : TakeField(parse, member, known), FreshObject, object)
ParseObject(object, known) ==
    LET parsed == ReadFields(object, known)
    IN  IF parsed.error = "none" /\ ~(known \subseteq parsed.saw)
        THEN [parsed EXCEPT !.error = "missing_member"] ELSE parsed

\* A value the parser takes for a key is of the kind the key calls for.
IsSequence(seq) == seq \in Seq(ToSet(seq))
IsObject(object) ==
    /\ IsSequence(object)
    /\ \A i \in DOMAIN object :
          /\ object[i].good \in BOOLEAN
          /\ object[i].good /\ object[i].key = "name" => object[i].value \in Names
          /\ object[i].good /\ object[i].key \in AccessKeys => object[i].value \in Access
Defects == {"none", "unreadable", "too_large", "too_deep", "cut", "open"}
IsDocument(doc) ==
    /\ doc.defect \in Defects
    /\ IsSequence(doc.members)
    /\ \A i \in DOMAIN doc.members :
          /\ doc.members[i].good \in BOOLEAN
          /\ IsObject(doc.members[i].object)
          /\ IsSequence(doc.members[i].entries)
          /\ \A j \in DOMAIN doc.members[i].entries : IsObject(doc.members[i].entries[j])

ASSUME DocumentsAssumption == \A doc \in Files \cup {OldFile} : IsDocument(doc)

------------------------------------------------------------------------------
(* PolicyLoader::parse                                                     *)

Fresh ==
    [error |-> "none", saw |-> {}, defaults |-> Defaults("deny", "deny"), rules |-> << >>]

ParseDefaults(parse, object) ==
    LET d == ParseObject(object, AccessKeys)
    IN  [parse EXCEPT !.error = d.error, !.saw = @ \cup {"defaults"},
                      !.defaults = Defaults(d.visibility, d.invocation)]

TakeEntry(parse, entry) ==
    LET t == ParseObject(entry, AccessKeys \cup {"name"})
    IN  IF parse.error # "none" THEN parse
        ELSE IF t.error # "none" THEN [parse EXCEPT !.error = t.error]
        ELSE [parse EXCEPT !.rules = Append(@, Rule(t.name, t.visibility, t.invocation))]

\* Entries are taken until the first that fails.
ParseTools(parse, entries) ==
    Loop(TakeEntry, [parse EXCEPT !.saw = @ \cup {"tools"}], entries)

ParseMember(parse, member) ==
    IF parse.error # "none" THEN parse
    ELSE IF Repeated(member.key, {"version", "defaults", "tools"}, parse.saw)
    THEN [parse EXCEPT !.error = "duplicate_member"]
    ELSE IF ~member.good THEN [parse EXCEPT !.error = "invalid_member"]
    ELSE IF member.key = "defaults" THEN ParseDefaults(parse, member.object)
    ELSE IF member.key = "tools" THEN ParseTools(parse, member.entries)
    ELSE [parse EXCEPT !.saw = @ \cup {member.key}]

SortByName(rules) == SortBy(rules, [i \in DOMAIN rules |-> rules[i].name])

AdjacentDuplicate(rules) == \E i \in 1..(Len(rules) - 1) : rules[i].name = rules[i + 1].name

\* Size and nesting are examined before anything is parsed; a document cut
\* short, or followed by other text, is found out after its members.
Parse(doc) ==
    LET parse  == Loop(ParseMember, Fresh, doc.members)
        sorted == SortByName(parse.rules)
    IN  [error |->
            IF doc.defect \in {"unreadable", "too_large", "too_deep"} THEN doc.defect
            ELSE IF parse.error # "none" THEN parse.error
            ELSE IF doc.defect \in {"cut", "open"} THEN "malformed_json"
            ELSE IF "version" \notin parse.saw THEN "unsupported_version"
            ELSE IF "defaults" \notin parse.saw THEN "missing_defaults"
            ELSE IF AdjacentDuplicate(sorted) THEN "duplicate_tool_name"
            ELSE "none",
         definition |-> [defaults |-> parse.defaults, rules |-> sorted]]

------------------------------------------------------------------------------
(* apply_deny_overrides and PolicyTable                                    *)

ApplyDenyAppending(name, policy) ==
    [policy EXCEPT !.rules = Append(@, Rule(name, "deny", "deny"))]

\* The first rule of that name is turned into a denial, or one is added.
ApplyDeny(name, policy) ==
    LET same == {i \in DOMAIN policy.rules : policy.rules[i].name = name}
    IN  IF same = {} THEN [policy EXCEPT !.rules = Append(@, Rule(name, "deny", "deny"))]
        ELSE LET first == CHOOSE i \in same : \A j \in same : i <= j
             IN  [policy EXCEPT !.rules[first].visible = "deny", !.rules[first].callable = "deny"]

Build(rules, defaults) ==
    LET sorted == SortByName(rules)
    IN  [error |-> IF \E i \in DOMAIN rules : rules[i].name = 0 THEN "invalid_argument"
                   ELSE IF AdjacentDuplicate(sorted) THEN "duplicate_rule" ELSE "none",
         table |-> [defaults |-> defaults, rules |-> sorted]]

\* One round of std::lower_bound: the first of the count rules behind the first
\* ones whose name is not less is looked for in one half of them.
Halve(range, rules, name) ==
    LET half == range.count \div 2
    IN  IF range.count = 0 THEN range
        ELSE IF rules[range.first + half + 1].name < name
        THEN [first |-> range.first + half + 1, count |-> range.count - half - 1]
        ELSE [first |-> range.first, count |-> half]

\* The number of rules before the first whose name is not less; there are no
\* more rounds than rules.
LowerBound(rules, name) ==
    Loop(LAMBDA range, rule : Halve(range, rules, name),
         [first |-> 0, count |-> Len(rules)], rules).first

AccessAtPosition(name, t) ==
    LET position == LowerBound(t.rules, name) + 1
    IN  IF position > Len(t.rules) THEN t.defaults
        ELSE Defaults(t.rules[position].visible, t.rules[position].callable)

\* find, visibility_for and invocation_for.
AccessOf(name, t) ==
    LET position == LowerBound(t.rules, name) + 1
    IN  IF position > Len(t.rules) \/ t.rules[position].name # name
        THEN t.defaults
        ELSE Defaults(t.rules[position].visible, t.rules[position].callable)

------------------------------------------------------------------------------
(* generate_policy_from_inventory                                          *)

FreshInventory == [error |-> "none", saw |-> {}, names |-> << >>]

\* parse_tools_array and parse_tool_name: one entry at a time, against those
\* before it.
ParseNames(parse, entries) ==
    LET Take(p, entry) ==
          LET t == ParseObject(entry, {"name"})
          IN  IF p.error # "none" THEN p
              ELSE IF Len(p.names) >= MaxTools THEN [p EXCEPT !.error = "excessive_tool_count"]
              ELSE IF t.error # "none" THEN [p EXCEPT !.error = t.error]
              ELSE IF Contains(p.names, t.name) THEN [p EXCEPT !.error = "duplicate_tool_name"]
              ELSE [p EXCEPT !.names = Append(@, t.name)]
    IN  Loop(Take, [parse EXCEPT !.saw = @ \cup {"tools"}], entries)

ParseInventoryMember(parse, member) ==
    IF parse.error # "none" THEN parse
    ELSE IF Repeated(member.key, {"version", "server", "tools"}, parse.saw)
    THEN [parse EXCEPT !.error = "duplicate_member"]
    ELSE IF ~member.good THEN [parse EXCEPT !.error = "invalid_member"]
    ELSE IF member.key = "tools" THEN ParseNames(parse, member.entries)
    ELSE [parse EXCEPT !.saw = @ \cup {member.key}]

\* The loop also ends with the text, so that an open document is taken.
ParseInventory(doc) ==
    LET parse == Loop(ParseInventoryMember, FreshInventory, doc.members)
    IN  [names |-> parse.names,
         error |->
            IF doc.defect \in {"unreadable", "too_large", "too_deep"} THEN doc.defect
            ELSE IF parse.error # "none" THEN parse.error
            ELSE IF doc.defect = "cut" THEN "malformed_inventory_json"
            ELSE IF {"version", "server", "tools"} \subseteq parse.saw THEN "none"
            ELSE "missing_member"]

Refused(names, allow) ==
    \/ \E i, j \in DOMAIN allow : i < j /\ allow[i] = allow[j]
    \/ \E i \in DOMAIN allow : ~Contains(names, allow[i])

Field(key, value) == [key |-> key, good |-> TRUE, value |-> value]
Object(visible, callable) == << Field("visibility", visible), Field("invocation", callable) >>
Entry(rule) == << Field("name", rule.name) >> \o Object(rule.visible, rule.callable)
Member(key, object, entries) ==
    [key |-> key, good |-> TRUE, object |-> object, entries |-> entries]

\* The policy denies by default and allows the tools named, in sorted order.
Document(rules) ==
    [defect |-> "none",
     members |-> << Member("version", << >>, << >>),
                    Member("defaults", Object("deny", "deny"), << >>),
                    Member("tools", << >>, [i \in DOMAIN rules |-> Entry(rules[i])]) >>]

EmitUnsorted(allow) == Document([i \in DOMAIN allow |-> Rule(allow[i], "allow", "allow")])
Emit(allow) ==
    Document(Build([i \in DOMAIN allow |-> Rule(allow[i], "allow", "allow")],
                   Defaults("deny", "deny")).table.rules)

------------------------------------------------------------------------------
(* policy create, then run                                                 *)

\* main.cpp: without --policy everything is allowed.
NoPolicy == [defaults |-> Defaults("allow", "allow"), rules |-> << >>]

\* run_policy_create; the file is replaced as a whole or not at all.
Create ==
    /\ pc = "create"
    /\ LET parse == ParseInventory(inventory)
       IN  \/ /\ parse.error = "none" /\ ~Refused(parse.names, allowed)
              /\ created' = "yes" /\ file' = Emit(allowed)
           \/ \* refused, or the output cannot be written
              created' = "failed" /\ file' = file
    /\ pc' = "run"
    /\ UNCHANGED <<inventory, allowed, definition, denied, table>>

\* load_file: the definition changes only when the whole file was accepted.
Load ==
    /\ pc = "run"
    /\ LET parse == Parse(file)
       IN  IF parse.error = "none"
           THEN definition' = parse.definition /\ pc' = "deny"
           ELSE definition' = definition /\ pc' = "failed"
    /\ UNCHANGED <<inventory, allowed, created, file, denied, table>>

Deny(name) ==
    /\ pc = "deny" /\ Len(denied) < MaxDenied
    /\ denied' = Append(denied, name)
    /\ definition' = ApplyDeny(name, definition)
    /\ UNCHANGED <<pc, inventory, allowed, created, file, table>>

BuildTable ==
    /\ pc = "deny"
    /\ LET build == Build(definition.rules, definition.defaults)
       IN  IF build.error = "none"
           THEN table' = build.table /\ pc' = "ready"
           ELSE table' = table /\ pc' = "failed"
    /\ UNCHANGED <<inventory, allowed, created, file, definition, denied>>

Empty == [defect |-> "none", members |-> << >>]

Init ==
    /\ \/ /\ pc = "create" /\ inventory \in Inventories /\ allowed \in AllowLists
          /\ file = OldFile
       \/ /\ pc = "run" /\ inventory = Empty /\ allowed = << >> /\ file \in Files
       \/ /\ pc = "deny" /\ inventory = Empty /\ allowed = << >> /\ file = Empty
    /\ created = "no" /\ definition = NoPolicy /\ denied = << >>
    /\ table = [defaults |-> Defaults("deny", "deny"), rules |-> << >>]

Next == Create \/ Load \/ (\E name \in Names : Deny(name)) \/ BuildTable

Spec == Init /\ [][Next]_vars

------------------------------------------------------------------------------
(* Properties                                                              *)

Stages == {"create", "run", "deny", "ready", "failed",
           "initialize", "answer", "refused", "call", "called", "list", "listed"}
RuleSet == [name : Names, visible : Access, callable : Access]

\* Every variable has its type, and there are never more rules than names.
TypeOK ==
    /\ pc \in Stages
    /\ created \in {"no", "yes", "failed"}
    /\ \A d \in {definition, table} :
          /\ d.defaults \in [visible : Access, callable : Access]
          /\ \A i \in DOMAIN d.rules : d.rules[i] \in RuleSet
          /\ Len(d.rules) <= Cardinality(Names)
    /\ \A i \in DOMAIN denied : denied[i] \in Names

\* What a policy file says, read as a whole.
Positions(members, key) == {i \in DOMAIN members : members[i].key = key}
Value(object, key) == object[CHOOSE i \in Positions(object, key) : TRUE].value
AccessIn(object) == Defaults(Value(object, "visibility"), Value(object, "invocation"))

Entries(doc) ==
    UNION {ToSet(doc.members[i].entries) : i \in Positions(doc.members, "tools")}

HasAll(members, keys) ==
    /\ \A i \in DOMAIN members : members[i].good
    /\ \A key \in keys : Cardinality(Positions(members, key)) = 1

WellFormed(doc) ==
    /\ doc.defect = "none"
    /\ HasAll(doc.members, {"version", "defaults"})
    /\ HasAll(Value([i \in DOMAIN doc.members |->
                      [key |-> doc.members[i].key, value |-> doc.members[i].object]], "defaults"),
              AccessKeys)
    /\ Cardinality(Positions(doc.members, "tools")) <= 1
    /\ \A e \in Entries(doc) : HasAll(e, AccessKeys \cup {"name"})
    /\ \A i \in Positions(doc.members, "tools") : \A j, k \in DOMAIN doc.members[i].entries :
          Value(doc.members[i].entries[j], "name") = Value(doc.members[i].entries[k], "name")
              => j = k

Loaded == pc \in {"deny", "ready"} /\ file # Empty

\* A policy file is used if and only if it is well formed, wherever in it the
\* flaw is; a file that is refused leaves nothing behind, and once a file is
\* used the rest of the way cannot fail.
WellFormedOrNothing ==
    /\ Loaded => WellFormed(file)
    /\ pc = "failed" => ~WellFormed(file) /\ definition = NoPolicy

\* What the table answers for a tool is what the file and the command line say
\* of it, whatever the order of members, entries and options: a denial on the
\* command line, else the tool's entry, else the defaults.  The table itself,
\* and so the fingerprint in the audit log, has one rule per name, by name.
RunObeysFile ==
    pc = "ready" =>
        /\ \A name \in Names :
              AccessOf(name, table) =
                  IF Contains(denied, name) THEN Defaults("deny", "deny")
                  ELSE IF file = Empty THEN Defaults("allow", "allow")
                  ELSE IF \E e \in Entries(file) : Value(e, "name") = name
                  THEN AccessIn(CHOOSE e \in Entries(file) : Value(e, "name") = name)
                  ELSE AccessIn(file.members[CHOOSE i \in Positions(file.members, "defaults") :
                                               TRUE].object)
        /\ \A i, j \in DOMAIN table.rules :
              i < j => table.rules[i].name < table.rules[j].name

\* A policy that policy create wrote is accepted by run, and then exactly the
\* tools it was asked to allow, all known to the inventory, are visible and
\* callable, but for those denied on the command line.  Its bytes do not depend
\* on the order of the options, and a creation that fails leaves the file alone.
CreatedPolicyIsExact ==
    /\ created = "failed" => file = OldFile
    /\ created = "yes" =>
        /\ pc # "failed"
        /\ \A i \in DOMAIN allowed : Contains(ParseInventory(inventory).names, allowed[i])
        /\ \A other \in AllowLists :
              ToSet(other) = ToSet(allowed) /\ Len(other) = Len(allowed) => file = Emit(other)
        /\ pc = "ready" => \A name \in Names :
              AccessOf(name, table) =
                  IF Contains(allowed, name) /\ ~Contains(denied, name)
                  THEN Defaults("allow", "allow") ELSE Defaults("deny", "deny")
==============================================================================
