--------------------------- MODULE MCToolCallFilter ---------------------------
(* A small instance of ToolCallFilter.                                      *)
EXTENDS ToolCallFilter, TLC

CONSTANTS id1, id2, mid, long, over, echo, hidden, shown

\* Each limit binds alone: id1 and id2 leave no room for mid by count, mid
\* leaves none for long by total size, and over is too long by itself.
MCIds == {id1, id2, mid, long, over}
MCIdSize == (id1 :> 1) @@ (id2 :> 1) @@ (mid :> 2) @@ (long :> 3) @@ (over :> 4)
\* echo may be seen and called, hidden neither, shown may be seen only.
MCTools == {echo, hidden, shown}
MCCallable == {echo}
MCVisible == {echo, shown}
==============================================================================
