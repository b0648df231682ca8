--------------------------- MODULE ListCorrelation ---------------------------
(***************************************************************************)
(* What the correlation table of ToolCallFilter promises, with no table:   *)
(* the set of ids whose next response is taken for the answer to a         *)
(* tools/list.  It is bounded, an id enters it only while absent, leaves   *)
(* it alone with the next message the server sends under it, and the whole *)
(* set is given up only when the connection closes.                        *)
(***************************************************************************)
EXTENDS Naturals, FiniteSets

CONSTANTS Ids,        \* the raw JSON tokens used as request ids
          Capacity    \* max_pending_tools_list

VARIABLES outstanding,  \* ids whose next response is a tools/list answer
          open          \* the connection has not been closed

vars == <<outstanding, open>>

Init == outstanding = {} /\ open = TRUE

\* A tools/list request is relayed: its id was free and there was room.
Request(id) ==
    /\ open
    /\ id \notin outstanding
    /\ Cardinality(outstanding) < Capacity
    /\ outstanding' = outstanding \cup {id}
    /\ open' = open

\* A message under it was seen: its answer, usable or not, or a defective
\* message that happens to carry it.
Answer(id) ==
    /\ open
    /\ id \in outstanding
    /\ outstanding' = outstanding \ {id}
    /\ open' = open

Close ==
    /\ open
    /\ outstanding' = {}
    /\ open' = FALSE

Next == Close \/ \E id \in Ids : Request(id) \/ Answer(id)

Spec == Init /\ [][Next]_vars
==============================================================================
