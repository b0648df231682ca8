------------------------------- MODULE MCInspect -------------------------------
EXTENDS Inspect

CONSTANTS m1, m2

\* Of lines within the limit, the inventory has exactly the limit; the garbage
\* exceeds it.
MCLineBytes ==
    [k \in Kinds |-> IF k = "garbage" THEN 5 ELSE IF k = "list" THEN 3 ELSE 1]
================================================================================
