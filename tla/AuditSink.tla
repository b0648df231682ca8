------------------------------- MODULE AuditSink -------------------------------
(***************************************************************************)
(* JsonlAuditSink (src/src/audit_sink.cpp) over the ofstream run_child     *)
(* opens in append mode: one record per event, written and flushed at      *)
(* once.  The first record that cannot be written ends the trail of the    *)
(* session; the stream keeps that record and writes it again when it is    *)
(* closed.  A later session appends to the file an earlier one has left.   *)
(*                                                                         *)
(* A piece of the file is what one attempt to write a record has left      *)
(* there: the record with its newline, or a beginning of it.               *)
(***************************************************************************)
EXTENDS Integers, Sequences

CONSTANTS
    Events,         \* what is recorded
    Beyond          \* those whose record exceeds max_record_bytes

ASSUME SinkAssumption == Beyond \subseteq Events

VARIABLES
    session,        \* which opening of the file this is
    failed,         \* failed_
    held,           \* the record the stream could not write, by its number, or 0
    complaints,     \* lines report_failure wrote to the diagnostics
    events,         \* every event given to the sink in this session
    file            \* pieces in the file, of all sessions

sink == <<session, failed, held, complaints, events, file>>

SinkInit ==
    /\ session = 1 /\ failed = FALSE /\ held = 0 /\ complaints = 0
    /\ events = << >> /\ file = << >>

\* How an attempt to write ends: all of it, a part of it, or nothing.
Outcomes == {"written", "torn", "lost"}

Left(number, outcome) ==
    IF outcome = "lost" THEN file
    ELSE Append(file, [session |-> session, number |-> number, whole |-> outcome = "written"])

\* record(), record_session_start() and record_session_end(): the stream's
\* own state is not reset, and failed_ is tested first.
RecordAfterFailure(event, outcome) ==
    /\ events' = Append(events, event)
    /\ file' = IF event \in Beyond THEN file ELSE Left(Len(events) + 1, outcome)
    /\ held' = IF event \in Beyond \/ outcome = "written" THEN held ELSE Len(events) + 1
    /\ failed' = (failed \/ event \in Beyond \/ outcome # "written")
    /\ UNCHANGED <<session, complaints>>

Record(event, outcome) ==
    /\ events' = Append(events, event)
    /\ \/ failed /\ outcome = "lost" /\ UNCHANGED <<failed, held, file>>
       \/ \* format_record refuses; nothing reaches the stream
          /\ ~failed /\ event \in Beyond /\ outcome = "lost"
          /\ failed' = TRUE
          /\ UNCHANGED <<held, file>>
       \/ /\ ~failed /\ event \notin Beyond
          /\ file' = Left(Len(events) + 1, outcome)
          /\ failed' = (outcome # "written")
          /\ held' = IF outcome = "written" THEN 0 ELSE Len(events) + 1
    /\ UNCHANGED <<session, complaints>>

\* report_failure(): once.
Complain ==
    /\ failed /\ complaints = 0
    /\ complaints' = 1
    /\ UNCHANGED <<session, failed, held, events, file>>

\* The ofstream is destroyed: its buffer is written once more.
CloseFile(outcome) ==
    /\ held # 0 \/ outcome = "lost"
    /\ file' = IF held = 0 THEN file ELSE Left(held, outcome)
    /\ held' = 0
    /\ UNCHANGED <<session, failed, complaints, events>>

\* Another process opens the same file.
NextSession ==
    /\ session' = session + 1
    /\ failed' = FALSE /\ held' = 0 /\ complaints' = 0 /\ events' = << >>
    /\ file' = file

------------------------------------------------------------------------------
(* The sink on its own.                                                     *)

SinkNext ==
    \/ \E event \in Events, outcome \in Outcomes : Record(event, outcome)
    \/ Complain
    \/ \E outcome \in Outcomes : CloseFile(outcome) /\ held # 0
    \/ NextSession

SinkSpec == SinkInit /\ [][SinkNext]_sink

Pieces == [session : Nat \ {0}, number : Nat \ {0}, whole : BOOLEAN]

SinkTypeOK ==
    /\ session \in Nat \ {0} /\ failed \in BOOLEAN /\ held \in Nat
    /\ complaints \in {0, 1} /\ events \in Seq(Events) /\ file \in Seq(Pieces)

Starts(i)    == i = 1 \/ file[i - 1].session < file[i].session
Continues(i) == /\ i > 1 /\ file[i - 1].session = file[i].session
                /\ file[i - 1].whole /\ file[i].number = file[i - 1].number + 1
Repeats(i)   == /\ i > 1 /\ file[i - 1].session = file[i].session
                /\ ~file[i - 1].whole /\ file[i].number = file[i - 1].number
                /\ i > 2 /\ file[i - 2].session = file[i].session => file[i - 2].whole

\* The records of a session stand in the order of its events, none twice and
\* none left out before the last; a record that cannot be written ends the
\* trail for good, but for one more copy of that record.  A session none of
\* whose writes failed has them all.
TrailIsAPrefix ==
    /\ \A i \in DOMAIN file :
          (Starts(i) /\ file[i].number = 1) \/ Continues(i) \/ Repeats(i)
    /\ ~failed => /\ held = 0 /\ complaints = 0
                  /\ events # << >> =>
                        /\ file # << >>
                        /\ file[Len(file)] = [session |-> session, number |-> Len(events),
                                              whole |-> TRUE]
==============================================================================
