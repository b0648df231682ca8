----------------------------- MODULE MCStdioRelay -----------------------------
(* Small instances of StdioRelay.                                           *)
EXTENDS StdioRelay
==============================================================================
