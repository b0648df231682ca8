------------------------------- MODULE AtomicFile -------------------------------
(***************************************************************************)
(* write_file_atomic (src/src/atomic_file_writer.cpp), used by             *)
(* inspect --output and policy create --output: several processes replace  *)
(* the same destination, each may be killed between any two system calls,  *)
(* and the machine may lose power.                                         *)
(*                                                                         *)
(* The contents of a writer are Size pieces; a file is known by the writer *)
(* that made it.  The file system keeps in its cache what is not yet       *)
(* flushed: data until fsync, a rename for any time.                       *)
(***************************************************************************)
EXTENDS Naturals, FiniteSets

CONSTANTS Writers, Size, Old

ASSUME AtomicFileAssumption == Old \notin Writers /\ Size \in Nat \ {0}

VARIABLES
    pc,          \* of each writer: "check", "create", "write", "sync", "close",
                 \* "rename", "ok", "failed", "killed"
    length,      \* pieces of its contents in its file
    flushed,     \* pieces of them that are on the disk
    temporaries, \* writers whose temporary file exists
    destination, \* the file under the name of the destination
    renamed,     \* files that have had that name since the last flush of the directory
    usable,      \* the destination is no directory or link and its directory exists
    powered

vars == <<pc, length, flushed, temporaries, destination, renamed, usable, powered>>

Go(w, from, to) == powered /\ pc[w] = from /\ pc' = [pc EXCEPT ![w] = to]

Files == UNCHANGED <<length, flushed, temporaries, destination, renamed, usable, powered>>

\* The lstat of the destination and the stat of its directory.
Check(w) ==
    /\ Go(w, "check", IF usable THEN "create" ELSE "failed")
    /\ Files

Create(w) ==
    /\ \/ Go(w, "create", "write") /\ temporaries' = temporaries \cup {w}
       \/ Go(w, "create", "failed") /\ temporaries' = temporaries
    /\ UNCHANGED <<length, flushed, destination, renamed, usable, powered>>

\* One write may take part of what remains.
WriteOnce(w) ==
    /\ Go(w, "write", "sync")
    /\ \E n \in 1..Size : length' = [length EXCEPT ![w] = n]
    /\ UNCHANGED <<flushed, temporaries, destination, renamed, usable, powered>>
WriteFromStart(w) ==
    /\ \E n \in 1..Size :
         /\ Go(w, "write", IF n = Size THEN "sync" ELSE "write")
         /\ length' = [length EXCEPT ![w] = length[w] + n]
    /\ UNCHANGED <<flushed, temporaries, destination, renamed, usable, powered>>
Write(w) ==
    /\ \E n \in (length[w] + 1)..Size :
         /\ Go(w, "write", IF n = Size THEN "sync" ELSE "write")
         /\ length' = [length EXCEPT ![w] = n]
    /\ UNCHANGED <<flushed, temporaries, destination, renamed, usable, powered>>

SyncSkipped(w) == Go(w, "sync", "close") /\ Files
Sync(w) ==
    /\ Go(w, "sync", "close")
    /\ flushed' = [flushed EXCEPT ![w] = length[w]]
    /\ UNCHANGED <<length, temporaries, destination, renamed, usable, powered>>

Close(w) == Go(w, "close", "rename") /\ Files

Rename(w) ==
    /\ Go(w, "rename", "ok")
    /\ destination' = w /\ renamed' = renamed \cup {w}
    /\ temporaries' = temporaries \ {w}
    /\ UNCHANGED <<length, flushed, usable, powered>>

\* A write, fsync, close or rename that fails: fail_temp and the two returns
\* like it remove the temporary file. The code ignores what unlink returns
\* (atomic_file_writer.cpp:70, :89, :93); here it succeeds, and were it to fail
\* too, the temporary would stay.
FailKeeping(w) ==
    /\ \E from \in {"write", "sync", "close", "rename"} : Go(w, from, "failed")
    /\ Files
Fail(w) ==
    /\ \E from \in {"write", "sync", "close", "rename"} : Go(w, from, "failed")
    /\ temporaries' = temporaries \ {w}
    /\ UNCHANGED <<length, flushed, destination, renamed, usable, powered>>

Killed(w) ==
    /\ \E from \in {"check", "create", "write", "sync", "close", "rename"} : Go(w, from, "killed")
    /\ Files

\* Cached data and names reach the disk at any time.
FlushData(w) ==
    /\ powered /\ flushed[w] < length[w]
    /\ flushed' = [flushed EXCEPT ![w] = length[w]]
    /\ UNCHANGED <<pc, length, temporaries, destination, renamed, usable, powered>>

FlushDirectory ==
    /\ powered
    /\ renamed' = {destination}
    /\ UNCHANGED <<pc, length, flushed, temporaries, destination, usable, powered>>

PowerLoss ==
    /\ powered /\ powered' = FALSE
    /\ destination' \in renamed
    /\ length' = flushed
    /\ UNCHANGED <<pc, flushed, temporaries, renamed, usable>>

Init ==
    /\ pc = [w \in Writers |-> "check"]
    /\ length = [w \in Writers |-> 0] /\ flushed = [w \in Writers |-> 0]
    /\ temporaries = {} /\ destination = Old /\ renamed = {Old}
    /\ usable \in BOOLEAN /\ powered = TRUE

Step(w) ==
    \/ Check(w) \/ Create(w) \/ Write(w) \/ Sync(w) \/ Close(w) \/ Rename(w)
    \/ Fail(w) \/ Killed(w) \/ FlushData(w)

Next == FlushDirectory \/ PowerLoss \/ \E w \in Writers : Step(w)

Spec == Init /\ [][Next]_vars

------------------------------------------------------------------------------
(* Properties                                                              *)

\* Every variable has its type; a name on the disk belongs to a file that had it.
TypeOK ==
    /\ pc \in [Writers -> {"check", "create", "write", "sync", "close", "rename",
                           "ok", "failed", "killed"}]
    /\ length \in [Writers -> 0..Size] /\ flushed \in [Writers -> 0..Size]
    /\ \A w \in Writers : flushed[w] <= length[w]
    /\ temporaries \subseteq Writers /\ destination \in renamed
    /\ renamed \subseteq Writers \cup {Old}
    /\ usable \in BOOLEAN /\ powered \in BOOLEAN

\* Whoever reads the destination finds the old file or one writer's complete
\* contents, at any moment and after a loss of power.
DestinationWhole ==
    destination \in Writers => length[destination] = Size

\* atomic_file_writer.hpp: on any failure the destination is left untouched and
\* the temporary file is removed; only a writer that was killed leaves one.
FailureLeavesNothing ==
    \A w \in Writers : pc[w] \in {"ok", "failed"} =>
        /\ w \notin temporaries
        /\ pc[w] = "failed" => w \notin renamed

\* The destination changes only from one whole file to another, by a writer
\* that then reports success, or back by a loss of power.
Replaced ==
    [][destination' # destination =>
         \/ \E w \in Writers : destination' = w /\ length[w] = Size /\ pc'[w] = "ok"
         \/ powered /\ ~powered']_vars
==============================================================================
