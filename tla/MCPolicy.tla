-------------------------------- MODULE MCPolicy --------------------------------
(***************************************************************************)
(* Documents and messages of a few members, each member as it should be    *)
(* or with one thing wrong.                                                *)
(***************************************************************************)
EXTENDS Discovery

CONSTANTS MaxMembers, MaxEntries

SeqsUpTo(S, n) == UNION {[1..k -> S] : k \in 0..n}

MCNames == 1..4

Bad(key) == [key |-> key, good |-> FALSE, value |-> "allow"]
Plain(key, good) == [key |-> key, good |-> good, object |-> << >>, entries |-> << >>]
ToolsMembers(E, n) == {[Plain("tools", TRUE) EXCEPT !.entries = e] : e \in SeqsUpTo(E, n)}

Rules == {Rule(1, "allow", "allow"), Rule(1, "deny", "allow"), Rule(2, "allow", "deny")}
AllRules == {Rule(n, "deny", "allow") : n \in MCNames}
GoodEntries == {Entry(r) : r \in Rules}

\* A name twice, a missing or unusable member, and one of an unknown key.
Spoilt ==
    LET e == Entry(Rule(1, "allow", "allow"))
    IN  {Append(e, Field("name", 2)), Tail(e), Append(Tail(e), Bad("name")),
         Append(e, Bad("note"))}

Objects ==
    {Object("allow", "deny"), Object("deny", "allow"), << Field("visibility", "allow") >>,
     Append(Object("deny", "deny"), Field("invocation", "allow")),
     << Field("note", "deny") >> \o Object("allow", "allow"),
     << Bad("visibility"), Field("invocation", "allow") >>}

PolicyMembers ==
    {Plain(k, g) : k \in {"version", "other"}, g \in BOOLEAN}
    \cup {[Plain("defaults", TRUE) EXCEPT !.object = o] : o \in Objects}
    \cup {Plain("defaults", FALSE), Plain("tools", FALSE)}
    \cup ToolsMembers(GoodEntries, MaxEntries)

Whole(tools) ==
    << Plain("version", TRUE), [Plain("defaults", TRUE) EXCEPT !.object = Object("allow", "deny")],
       tools >>

\* Every document of up to MaxMembers members, and whole documents with a
\* defect, or with more or worse entries.
MCFiles ==
    {[defect |-> "none", members |-> m] : m \in SeqsUpTo(PolicyMembers, MaxMembers)}
    \cup {[defect |-> d, members |-> Whole(Plain("tools", TRUE))] :
            d \in {"unreadable", "too_large", "too_deep", "cut", "open"}}
    \cup {[defect |-> "none", members |-> Whole(t)] :
            t \in ToolsMembers(GoodEntries \cup Spoilt, 2)
                  \cup ToolsMembers({Entry(r) : r \in AllRules}, 3)}

InventoryMembers ==
    {Plain(k, g) : k \in {"version", "server", "tools", "other"}, g \in BOOLEAN}
    \cup ToolsMembers({<< Field("name", 1) >>}, 1)

Inventory(defect, tools) ==
    [defect |-> defect, members |-> << Plain("version", TRUE), Plain("server", TRUE), tools >>]

MCInventories ==
    {[defect |-> "none", members |-> m] : m \in SeqsUpTo(InventoryMembers, MaxMembers)}
    \cup {Inventory("none", t) :
            t \in ToolsMembers({Entry(r) : r \in AllRules} \cup Spoilt, 3)}
    \cup {Inventory(d, t) : d \in {"unreadable", "too_large", "too_deep", "cut", "open"},
                            t \in ToolsMembers({Entry(r) : r \in AllRules}, 1)}

MCAllowLists == SeqsUpTo(1..3, 2)
MCOldFile == [defect |-> "none", members |-> Whole(Plain("tools", TRUE))]

------------------------------------------------------------------------------
(* Messages                                                                *)

Text(text)   == Scalar("string", text)
BadValue     == Scalar("bad", "none")
Long         == Scalar("long", "long")
Spell(pair)  == [pair EXCEPT !.key = "escaped"]
Messages(defects, sequences) == [defect : defects, members : sequences]

\* A value that is n brackets deep, and one whose members are not in order.
Deep[n \in 0..7] == IF n = 0 THEN Text("t") ELSE ObjectOf(<< Pair(n, Deep[n - 1]) >>)
Unordered == ObjectOf(<< Pair(3, Text("t")), Pair(1, ArrayOf(<< Text("u"),
                ObjectOf(<< Pair(2, Text("t")), Pair(1, Text("u")) >>) >>)) >>)
Ordered   == ObjectOf(<< Pair(1, Text("t")), Pair(2, Text("t")) >>)
Wide      == ArrayOf([i \in 1..7 |-> Text("t")])
Twice     == ObjectOf(<< Pair(1, Text("t")), Pair(1, Text("u")) >>)

J  == Pair("jsonrpc", Text("2.0"))
Id == Pair("id", Scalar("number", "n2"))

CommonMembers ==
    {J, Id, Spell(Id), Pair("jsonrpc", Text("1.0")), Pair("id", Scalar("escaped", "e2")),
     Pair("id", Scalar("null", "null")), Pair("id", ObjectOf(<< >>)), Pair("method", Text("")),
     Pair("method", Text("tools/list")), Pair("method", Scalar("escaped", "tools/call")),
     Pair("error", ObjectOf(<< >>)), Pair("other", BadValue), Pair("other", Text("t"))}

\* Members after the first two, or instead of them.
Variants(members) ==
    SeqsUpTo(members, 2) \cup {<< J, Id >> \o m : m \in SeqsUpTo(members, 2)}

MCGreetings ==
    LET members == CommonMembers \cup {Pair("result", v) : v \in {Text("t"), BadValue, Deep[6], Deep[7]}}
    IN  Messages({"none", "open", "cut", "too_large"}, Variants(members))

Name(n) == Pair("name", Text(n))
Notes ==
    {Pair("description", Text("d")), Pair("description", Scalar("escaped", "d")),
     Pair("note", Text("t"))}
    \cup {Pair(k, v) : k \in CanonicalKeys, v \in {Unordered, Ordered}}
BadNotes ==
    {Pair("description", Long), Pair("description", ObjectOf(<< >>)), Pair("note", BadValue),
     Spell(Pair("note", Text("t"))), Pair("note", Deep[4]), Pair("inputSchema", Twice),
     Pair("inputSchema", Deep[2]), Pair("inputSchema", Deep[3]), Pair("inputSchema", Deep[4]), Pair("inputSchema", Wide)}
GoodTools ==
    {ObjectOf(<< Name(n) >>) : n \in 1..3}
    \cup {ObjectOf(<< Name(2), note >>) : note \in Notes}
    \cup {ObjectOf(<< Pair("annotations", Ordered), Name(1), Pair("inputSchema", Unordered),
                      Pair("description", Text("d")) >>)}
BadTools ==
    {ObjectOf(m) : m \in {<< >>, << Name(0) >>, << Name(1), Name(3) >>, << Spell(Name(1)) >>,
                          << Pair("name", Scalar("escaped", 1)) >>, << Pair("name", Scalar("long", 1)) >>,
                          << Name(3), Spell(Name(1)) >>, << Pair("note", Text("t")) >>,
                          << Name(1), Pair("note", Text("t")), Pair("note", Text("t")) >>,
                          << Name(1), Pair("description", Text("d")), Pair("description", Text("d")) >>}}
    \cup {ObjectOf(<< Name(2), note >>) : note \in BadNotes}
    \cup {Text("t")}

ToolLists ==
    {ArrayOf(items) : items \in SeqsUpTo(GoodTools \cup BadTools, 2)
                              \cup SeqsUpTo({ObjectOf(<< Name(n) >>) : n \in 1..3}, 3)
                              \cup {[n \in 1..4 |-> ObjectOf(<< Name(n) >>)]}}

Tools(list) == Pair("tools", list)
Results ==
    LET one == Tools(ArrayOf(<< ObjectOf(<< Name(1) >>) >>))
        two == Tools(ArrayOf(<< ObjectOf(<< Name(3) >>) >>))
    IN  {ObjectOf(<< Tools(l) >>) : l \in ToolLists \cup {Text("t"), BadValue}}
        \cup {ObjectOf(m) : m \in SeqsUpTo({one, two, Spell(one), Pair("cursor", Text("t")),
                                            Pair("cursor", BadValue)}, 2)}

MCAnswers ==
    LET plain == Pair("result", ObjectOf(<< Tools(ArrayOf(<< ObjectOf(<< Name(3) >>),
                                                            ObjectOf(<< Name(1) >>) >>)) >>))
        members == CommonMembers \cup {plain, Spell(plain), Pair("result", Text("t"))}
        ids == {Pair("id", Scalar("number", "n2.0")), Pair("id", Scalar("escaped", "e2"))}
    IN  Messages({"none"}, {<< J, Id, Pair("result", r) >> : r \in Results}
                           \cup {<< J, id, plain >> : id \in ids} \cup {<< J, Id, id, plain >> : id \in ids})
        \cup Messages({"none", "open", "cut", "too_large"}, Variants(members))

Params ==
    {ObjectOf(m) : m \in SeqsUpTo({Name(0), Name(1), Name(3), Spell(Name(3)),
                                    Pair("name", Scalar("escaped", 3)), Pair("name", Scalar("long", 1)),
                                    Pair("arguments", Unordered), Pair("arguments", Deep[5]), Pair("arguments", Deep[6]),
                                    Pair("arguments", BadValue)}, 3)}

MCCalls ==
    LET call    == Pair("method", Text("tools/call"))
        params  == {Pair("params", p) : p \in Params}
        members == CommonMembers
                   \cup {call, Spell(call), Pair("result", Text("t")), Pair("params", Text("t")),
                         Pair("params", ObjectOf(<< Name(1) >>)),
                         Pair("params", ObjectOf(<< Name(3) >>)),
                         Spell(Pair("params", ObjectOf(<< Name(3) >>)))}
    IN  Messages({"none"}, {<< J, Id, call, p >> : p \in params} \cup {<< p, call, J >> : p \in params})
        \cup Messages({"none", "open", "cut", "too_large"},
                      Variants(members) \cup {<< J, call >> \o m : m \in SeqsUpTo(members, 2)})

MCTables ==
    {[defaults |-> d, rules |-> << Rule(1, "allow", "allow"), Rule(2, "allow", "deny"),
                                   Rule(3, "deny", "allow") >>] : d \in {Defaults("deny", "deny")}}
    \cup {[defaults |-> Defaults("allow", "allow"), rules |-> << Rule(3, "deny", "deny") >>]}

MCInventoryLimits == [tools |-> 3, schema |-> 7, bytes |-> 17]
==============================================================================
