------------------------------- MODULE MCDoctor -------------------------------
(* Small instance of Doctor: the messages doctor sends, those the other      *)
(* client sends, and the events of the audit.                                *)
EXTENDS Doctor

MCBytes  == {"init", "note", "list", "call", "deny", "long", "newline"}
MCEvents == {"session_start", "session_end", "too_large", "call", "deny", "long", "malformed"}
MCBeyond == {"long"}
==============================================================================
