-------------------------------- MODULE Doctor --------------------------------
(***************************************************************************)
(* The doctor command (src/src/doctor.cpp): a process that starts the      *)
(* guard on three pipes, holds one conversation with the server through    *)
(* it, and says whether all of it worked.  With it the guard it starts, as *)
(* run_child and run_stdio_child make it up: the line framer on its stdin, *)
(* the audit sink, the supervision of the server; and the pipe that is the *)
(* stderr of guard and server alike, which doctor never reads.             *)
(*                                                                         *)
(* The client is doctor or, to exercise framer and sink, one that sends    *)
(* what it likes and leaves stderr to a terminal.  A byte stands for a     *)
(* message or a newline; what the filter decides of a message is part of   *)
(* it.  The queue to the server and its pipe are one, and so are the       *)
(* output of the server and the queue to the client.                       *)
(***************************************************************************)
EXTENDS LineFramer, AuditSink, Filtering

CONSTANTS
    Clients,        \* of {"doctor", "other"}
    Audits,         \* of {"none", "file", "stderr"}
    Answers,        \* kinds of answers the server gives, of {"good", "spaced",
                    \*   "error", "naming", "huge"}
    ErrSize,        \* writes the stderr pipe holds
    OutSize,        \* items the pipe to doctor holds
    ClientBytes,    \* of Bytes: what the other client sends
    MaxSent,        \* bound: bytes the other client sends
    MaxNotices,     \* bound: messages the server sends unasked
    MaxSessions     \* bound: sessions of the other client on one audit file

ASSUME DoctorAssumption ==
    /\ Clients \subseteq {"doctor", "other"}
    /\ Audits \subseteq {"none", "file", "stderr"}
    /\ Answers \subseteq {"good", "spaced", "error", "naming", "huge"}
    /\ ClientBytes \cup {"init", "note", "list"} \subseteq Bytes
    /\ NL \notin {"init", "note", "list"}
    /\ {"session_start", "session_end", "too_large", "call", "deny", "long", "malformed"}
         \subseteq Events
    /\ ErrSize \in Nat /\ OutSize \in Nat /\ MaxSent \in Nat
    /\ MaxNotices \in Nat /\ MaxSessions \in Nat

VARIABLES
    client, audit,  \* how the guard is used
    (* doctor *)
    dpc,            \* "start", "init", "initAnswer", "note", "list", "listAnswer",
                    \*   "shutdown", "terminate", "grace", "done"; "absent"
    verdict,        \* what it has printed: "none", "healthy", "unhealthy"
    deadline,       \* the time it was given is over
    asleep,         \* it is in a poll without limit
    pending,        \* receive_response: what it has read of a line
    (* the guard *)
    gpc,            \* "exec", "spawned", "relay", "diagnose", "ending", "closing",
                    \*   "exited", "killed"
    gstatus,        \* what it exits with
    terminationSignal, sentTermination, inputEof,
    forwarded,      \* messages it let through to the server
    (* the pipes between them *)
    toGuard, toGuardOpen,
    toDoctor,
    err,            \* writes in the stderr pipe
    sent,           \* bytes the other client has sent
    (* the server *)
    server,         \* "none", "running", "zombie", "reaped"
    sstatus,
    toServer, toServerOpen, fromServer,
    owed,           \* the request it is to answer, or "none"
    answers,        \* what it has answered
    notices,
    quit            \* it has ended before the end of its input

doctor == <<dpc, verdict, deadline, asleep, pending>>
guard  == <<gpc, gstatus, terminationSignal, sentTermination, inputEof, forwarded>>
pipes  == <<toGuard, toGuardOpen, toDoctor, sent>>
peer   == <<server, sstatus, toServer, toServerOpen, fromServer, owed, answers, notices, quit>>
vars   == <<client, audit, doctor, guard, pipes, err, peer, framer, sink>>

Use == UNCHANGED <<client, audit>>

------------------------------------------------------------------------------
(* What the guard writes                                                   *)

\* A write to a full pipe waits.
Room == client = "other" \/ err < ErrSize
Diagnose == Room /\ err' = IF client = "other" THEN err ELSE err + 1

\* report_failure follows at once, before anything else is done.
Settled == failed => complaints = 1

Audit(event) ==
    \/ audit = "none" /\ UNCHANGED <<sink, err>>
    \/ /\ audit = "file"
       /\ \E outcome \in Outcomes : Record(event, outcome)
       /\ UNCHANGED err
    \/ /\ audit = "stderr"
       /\ IF failed \/ event \in Beyond
          THEN Record(event, "lost") /\ UNCHANGED err
          ELSE Record(event, "written") /\ Diagnose

GuardComplains ==
    /\ gpc \notin {"exited", "killed"}
    /\ Complain /\ Diagnose
    /\ Use /\ UNCHANGED <<doctor, guard, pipes, peer, framer>>

------------------------------------------------------------------------------
(* The guard                                                               *)

\* The policy or the audit file is refused, or no process can be started:
\* no session is recorded.
GuardRefuses ==
    /\ gpc = "exec" /\ Diagnose
    /\ gpc' = "exited" /\ gstatus' \in {2, 4}
    /\ Use /\ UNCHANGED <<doctor, terminationSignal, sentTermination, inputEof, forwarded,
                          pipes, peer, framer, sink>>

GuardSpawns ==
    /\ gpc = "exec"
    /\ gpc' = "spawned" /\ server' = "running" /\ toServerOpen' = TRUE
    /\ Use /\ UNCHANGED <<doctor, gstatus, terminationSignal, sentTermination, inputEof,
                          forwarded, pipes, err, sstatus, toServer, fromServer, owed,
                          answers, notices, quit, framer, sink>>

GuardStarts ==
    /\ gpc = "spawned"
    /\ Audit("session_start")
    /\ gpc' = "relay"
    /\ Use /\ UNCHANGED <<doctor, gstatus, terminationSignal, sentTermination, inputEof,
                          forwarded, pipes, peer, framer>>

\* An answer that finds no room stops the reading of stdin; a server that has
\* ended does not, until its status is collected.
GuardReads ==
    /\ gpc = "relay" /\ Settled
    /\ toServerOpen /\ ~(fromServer # << >> /\ Len(toDoctor) >= OutSize)
    /\ \E n \in 1..Len(toGuard) :
         /\ Feed(SubSeq(toGuard, 1, n))
         /\ toGuard' = SubSeq(toGuard, n + 1, Len(toGuard))
    /\ Use /\ UNCHANGED <<doctor, guard, toGuardOpen, toDoctor, sent, err, peer, sink>>

\* What the filter makes of a line: a line of one byte is that message.
MessageOf(line) == IF Len(line) = 1 THEN line[1] ELSE "malformed"
LetThrough == {"init", "note", "list", "call", "long"}
Recorded   == {"call", "deny", "long", "malformed"}

\* inspect(): the decision does not depend on the sink.
Handle(message) ==
    /\ IF message \in Recorded THEN Audit(message) ELSE UNCHANGED <<sink, err>>
    /\ IF message \in LetThrough
       THEN toServer' = Append(toServer, message) /\ forwarded' = Append(forwarded, message)
       ELSE UNCHANGED <<toServer, forwarded>>

\* A line, the beginning of one, or one that is too long.
GuardFrames ==
    /\ gpc = "relay" /\ Settled
    /\ \/ /\ \E i \in DOMAIN chunk : Emit(i) /\ Handle(MessageOf(LineTo(i)))
          /\ UNCHANGED gpc
       \/ /\ Keep
          /\ UNCHANGED <<gpc, forwarded, toServer, sink, err>>
       \/ /\ Reject /\ Audit("too_large")
          /\ gpc' = "diagnose"
          /\ UNCHANGED <<forwarded, toServer>>
    /\ Use /\ UNCHANGED <<doctor, gstatus, terminationSignal, sentTermination, inputEof, pipes,
                          server, sstatus, toServerOpen, fromServer, owed, answers, notices, quit>>

GuardInputEnds ==
    /\ gpc = "relay" /\ Settled /\ ~inputEof
    /\ toServerOpen /\ chunk = << >> /\ toGuard = << >> /\ ~toGuardOpen
    /\ \/ FinishTruncated /\ gpc' = "diagnose" /\ UNCHANGED <<inputEof, toServerOpen>>
       \/ FinishClean /\ inputEof' = TRUE /\ toServerOpen' = FALSE /\ UNCHANGED gpc
    /\ Use /\ UNCHANGED <<doctor, gstatus, terminationSignal, sentTermination, forwarded, pipes,
                          err, server, sstatus, toServer, fromServer, owed, answers, notices,
                          quit, sink>>

Newline == [id |-> "newline", kind |-> "good"]

GuardRelays ==
    /\ gpc = "relay" /\ Settled /\ chunk = << >>
    /\ fromServer # << >> /\ Len(toDoctor) < OutSize
    /\ toDoctor' = toDoctor \o <<Head(fromServer), Newline>>
    /\ fromServer' = Tail(fromServer)
    /\ Use /\ UNCHANGED <<doctor, guard, toGuard, toGuardOpen, sent, err, server, sstatus,
                          toServer, toServerOpen, owed, answers, notices, quit, framer, sink>>

\* SIGTERM is passed on, and SIGKILL follows it a second later.
GuardObeys ==
    /\ gpc = "relay" /\ Settled /\ chunk = << >>
    /\ terminationSignal /\ ~sentTermination /\ server = "running"
    /\ sentTermination' = TRUE /\ toServerOpen' = FALSE
    /\ Use /\ UNCHANGED <<doctor, gpc, gstatus, terminationSignal, inputEof, forwarded, pipes,
                          err, server, sstatus, toServer, fromServer, owed, answers, notices,
                          quit, framer, sink>>

GuardKills ==
    /\ gpc = "relay" /\ Settled /\ chunk = << >>
    /\ sentTermination /\ server = "running"
    /\ server' = "zombie" /\ sstatus' = 137
    /\ Use /\ UNCHANGED <<doctor, guard, pipes, err, toServer, toServerOpen, fromServer, owed,
                          answers, notices, quit, framer, sink>>

\* The loop ends when the server has and its output is relayed.
GuardReapsDecodingTwice ==
    /\ gpc = "relay" /\ Settled /\ chunk = << >>
    /\ server = "zombie" /\ fromServer = << >>
    /\ server' = "reaped"
    /\ gstatus' = IF terminationSignal THEN 128 + sstatus ELSE sstatus
    /\ gpc' = "ending"
    /\ Use /\ UNCHANGED <<doctor, terminationSignal, sentTermination, inputEof, forwarded, pipes,
                          err, sstatus, toServer, toServerOpen, fromServer, owed, answers,
                          notices, quit, framer, sink>>
GuardReaps ==
    /\ gpc = "relay" /\ Settled /\ chunk = << >>
    /\ server = "zombie" /\ fromServer = << >>
    /\ server' = "reaped"
    /\ gstatus' = IF terminationSignal THEN 143 ELSE sstatus
    /\ gpc' = "ending"
    /\ Use /\ UNCHANGED <<doctor, terminationSignal, sentTermination, inputEof, forwarded, pipes,
                          err, sstatus, toServer, toServerOpen, fromServer, owed, answers,
                          notices, quit, framer, sink>>

\* A framing error is reported; ChildReaper kills the server on the way out.
GuardGivesUp ==
    /\ gpc = "diagnose" /\ Settled /\ Diagnose
    /\ gstatus' = 3 /\ gpc' = "ending"
    /\ server' = "reaped"
    /\ Use /\ UNCHANGED <<doctor, terminationSignal, sentTermination, inputEof, forwarded, pipes,
                          sstatus, toServer, toServerOpen, fromServer, owed, answers, notices,
                          quit, framer, sink>>

\* The observer's destructor, then the return to run_child, which closes the
\* file when it ends.
GuardEnds ==
    /\ gpc = "ending" /\ Settled
    /\ Audit("session_end")
    /\ gpc' = "closing"
    /\ Use /\ UNCHANGED <<doctor, gstatus, terminationSignal, sentTermination, inputEof,
                          forwarded, pipes, peer, framer>>

GuardExits ==
    /\ gpc = "closing" /\ Settled
    /\ \E outcome \in Outcomes : CloseFile(outcome)
    /\ gpc' = "exited"
    /\ Use /\ UNCHANGED <<doctor, gstatus, terminationSignal, sentTermination, inputEof,
                          forwarded, pipes, err, peer, framer>>

Guard ==
    \/ GuardRefuses \/ GuardSpawns \/ GuardStarts \/ GuardReads \/ GuardFrames
    \/ GuardInputEnds \/ GuardRelays \/ GuardObeys \/ GuardKills \/ GuardReaps
    \/ GuardGivesUp \/ GuardEnds \/ GuardExits \/ GuardComplains

------------------------------------------------------------------------------
(* Doctor                                                                  *)

GuardGone == gpc \in {"exited", "killed"}

DoctorOnly == Use /\ UNCHANGED <<err, peer, framer, sink>>

\* fail(): says so, and closes the input of the guard.
GivesUp == dpc' = "terminate" /\ verdict' = "unhealthy" /\ toGuardOpen' = FALSE

DoctorStarts ==
    /\ dpc = "start" /\ dpc' = "init"
    /\ UNCHANGED <<verdict, deadline, asleep, pending, guard, pipes>> /\ DoctorOnly

\* write_all: the pipe has room for these; when nobody is left to read it,
\* SIGPIPE ends doctor.
DoctorSends(at, message, next) ==
    /\ dpc = at
    /\ \/ ~GuardGone /\ toGuard' = toGuard \o <<message, NL>> /\ dpc' = next
       \/ GuardGone /\ dpc' = "done" /\ UNCHANGED toGuard
    /\ UNCHANGED <<verdict, deadline, asleep, pending, guard, toGuardOpen, toDoctor, sent>>
    /\ DoctorOnly

WholeLine(text, i) ==
    /\ i + 1 \in DOMAIN text /\ text[i + 1] = Newline
    /\ i = 1 \/ text[i - 1] = Newline
FirstOfAny(text, id) == {i \in DOMAIN text : WholeLine(text, i)}
Matches(text, id)    == {i \in DOMAIN text : WholeLine(text, i) /\ text[i].id = id}

\* What is left of the text behind its last newline.
Behind(text) ==
    LET ends == {i \in DOMAIN text : text[i] = Newline}
        last == IF ends = {} THEN 0 ELSE CHOOSE i \in ends : \A j \in ends : j <= i
    IN  SubSeq(text, last + 1, Len(text))

\* Doctor looks for a result, and for an array of tools, in the text of the
\* answer: a space, or a schema that names a denied tool, misleads it.
Passes(at, kind) ==
    IF at = "initAnswer" THEN kind # "error" ELSE kind \notin {"error", "spaced", "naming"}

\* receive_response: what has been read beyond the answer is forgotten, and
\* what exceeds 1 MiB is not read.
DoctorReads(at, id) ==
    /\ dpc = at /\ asleep' = FALSE
    /\ \E n \in 1..Len(toDoctor) :
         LET text  == pending \o SubSeq(toDoctor, 1, n)
             found == Matches(text, id)
             first == CHOOSE i \in found : \A j \in found : i <= j
         IN  /\ toDoctor' = SubSeq(toDoctor, n + 1, Len(toDoctor))
             /\ \/ /\ \E i \in DOMAIN text : text[i].kind = "huge"
                   /\ GivesUp /\ UNCHANGED pending
                \/ /\ \A i \in DOMAIN text : text[i].kind # "huge"
                   /\ found = {}
                   /\ pending' = Behind(text)
                   /\ UNCHANGED <<dpc, verdict, toGuardOpen>>
                \/ /\ \A i \in DOMAIN text : text[i].kind # "huge"
                   /\ found # {}
                   /\ pending' = << >>
                   /\ \/ ~Passes(at, text[first].kind) /\ GivesUp
                      \/ /\ Passes(at, text[first].kind)
                         /\ dpc' = IF at = "initAnswer" THEN "note" ELSE "shutdown"
                         /\ toGuardOpen' = (at = "initAnswer")
                         /\ UNCHANGED verdict
    /\ UNCHANGED <<deadline, guard, toGuard, sent>> /\ DoctorOnly

\* The guard has ended, which is looked at before what it has left in the
\* pipe; or the time is over.  A poll without limit returns for the end of the
\* guard's output only.
DoctorStopsWaiting ==
    /\ dpc \in {"initAnswer", "listAnswer"}
    /\ IF asleep THEN GuardGone /\ toDoctor = << >> ELSE GuardGone \/ deadline
    /\ GivesUp /\ asleep' = FALSE
    /\ UNCHANGED <<deadline, pending, guard, toGuard, toDoctor, sent>> /\ DoctorOnly

\* The input is closed: the guard is to end by itself, with status zero.
DoctorConcludes ==
    /\ dpc = "shutdown"
    /\ \/ /\ GuardGone /\ gstatus = 0
          /\ dpc' = "done" /\ verdict' = "healthy" /\ UNCHANGED toGuardOpen
       \/ GuardGone /\ gstatus # 0 /\ GivesUp
       \/ deadline /\ GivesUp
    /\ UNCHANGED <<deadline, asleep, pending, guard, toGuard, toDoctor, sent>> /\ DoctorOnly

\* terminate_and_reap: SIGTERM, which ends a guard that has not installed its
\* handler or has removed it.
DoctorTerminates ==
    /\ dpc = "terminate"
    /\ \/ /\ GuardGone /\ dpc' = "done"
          /\ UNCHANGED <<gpc, gstatus, terminationSignal>>
       \/ /\ ~GuardGone /\ dpc' = "grace"
          /\ IF gpc \in {"exec", "closing"}
             THEN gpc' = "exited" /\ gstatus' = 143 /\ UNCHANGED terminationSignal
             ELSE terminationSignal' = TRUE /\ UNCHANGED <<gpc, gstatus>>
    /\ UNCHANGED <<verdict, deadline, asleep, pending, sentTermination, inputEof, forwarded, pipes>>
    /\ DoctorOnly

\* The two seconds given to the guard exceed the one it gives to the server:
\* they pass only when the guard waits for something that will not come, room
\* in one of the pipes.
GuardIsStuckAlways == TRUE
GuardIsStuck ==
    \/ ~Room /\ \/ ~Settled
                \/ gpc = "diagnose"
                \/ gpc \in {"spawned", "ending"} /\ audit = "stderr" /\ ~failed
    \/ gpc = "relay" /\ server = "zombie" /\ fromServer # << >> /\ Len(toDoctor) >= OutSize

DoctorWaitsOnly ==
    /\ dpc = "grace" /\ GuardGone /\ dpc' = "done"
    /\ UNCHANGED <<gpc, verdict, deadline, asleep, pending, gstatus, terminationSignal,
                   sentTermination, inputEof, forwarded, pipes>>
    /\ DoctorOnly
DoctorReaps ==
    /\ dpc = "grace"
    /\ \/ GuardGone /\ UNCHANGED gpc
       \/ ~GuardGone /\ GuardIsStuck /\ gpc' = "killed"
    /\ dpc' = "done"
    /\ UNCHANGED <<verdict, deadline, asleep, pending, gstatus, terminationSignal,
                   sentTermination, inputEof, forwarded, pipes>>
    /\ DoctorOnly

DoctorSteps ==
    \/ DoctorStarts
    \/ DoctorSends("init", "init", "initAnswer")
    \/ DoctorReads("initAnswer", "init")
    \/ DoctorSends("note", "note", "list")
    \/ DoctorSends("list", "list", "listAnswer")
    \/ DoctorReads("listAnswer", "list")
    \/ DoctorStopsWaiting \/ DoctorConcludes \/ DoctorTerminates \/ DoctorReaps

\* Between the check of the deadline and the computation of the time left for
\* poll it passes by a millisecond or more: the timeout is negative, which
\* poll takes for none.
DeadlinePasses ==
    /\ dpc \in {"initAnswer", "note", "list", "listAnswer", "shutdown"} /\ ~deadline
    /\ deadline' = TRUE
    /\ asleep' \in {FALSE} \cup (IF dpc \in {"initAnswer", "listAnswer"} THEN {TRUE} ELSE {})
    /\ Use /\ UNCHANGED <<dpc, verdict, pending, guard, pipes, err, peer, framer, sink>>

------------------------------------------------------------------------------
(* The server, and the other client                                        *)

Still == Use /\ UNCHANGED <<doctor, guard, pipes, framer, sink>>

Running == server = "running" /\ dpc # "done"

\* Of what it reads only requests are answered, and those not always; what it
\* makes of the messages of the other client is not followed.
ServerReads ==
    /\ Running /\ client = "doctor" /\ owed = "none" /\ toServer # << >>
    /\ toServer' = Tail(toServer)
    /\ owed' \in {"none"} \cup ({Head(toServer)} \cap {"init", "list"})
    /\ UNCHANGED <<err, server, sstatus, toServerOpen, fromServer, answers, notices, quit>>
    /\ Still

ServerAnswers(kind) ==
    /\ Running /\ owed # "none"
    /\ fromServer' = Append(fromServer, [id |-> owed, kind |-> kind])
    /\ answers' = answers \cup {[id |-> owed, kind |-> kind]}
    /\ owed' = "none"
    /\ UNCHANGED <<err, server, sstatus, toServer, toServerOpen, notices, quit>>
    /\ Still

ServerNotifies ==
    /\ Running /\ client = "doctor" /\ notices < MaxNotices
    /\ notices' = notices + 1
    /\ fromServer' = Append(fromServer, [id |-> "note", kind |-> "good"])
    /\ UNCHANGED <<err, server, sstatus, toServer, toServerOpen, owed, answers, quit>>
    /\ Still

\* The server writes to the stderr it shares with the guard.
ServerComplains ==
    /\ Running /\ client = "doctor" /\ err < ErrSize
    /\ err' = err + 1
    /\ UNCHANGED peer /\ Still

\* It ends at the end of its input, or earlier.
ServerExits(status) ==
    /\ Running
    /\ server' = "zombie" /\ sstatus' = status
    /\ quit' = (toServerOpen \/ toServer # << >> \/ owed # "none")
    /\ UNCHANGED <<err, toServer, toServerOpen, fromServer, owed, answers, notices>>
    /\ Still

Server ==
    \/ ServerReads \/ ServerNotifies \/ ServerComplains
    \/ \E kind \in Answers : ServerAnswers(kind)
    \/ \E status \in {0, 7} : ServerExits(status)

\* The other client sends while the guard is between two chunks, and only in
\* the first session.
ClientSends(byte) ==
    /\ client = "other" /\ session = 1 /\ toGuardOpen /\ gpc = "relay" /\ sent < MaxSent /\ chunk = << >>
    /\ toGuard' = Append(toGuard, byte) /\ sent' = sent + 1
    /\ Use /\ UNCHANGED <<doctor, guard, toGuardOpen, toDoctor, err, peer, framer, sink>>

ClientCloses ==
    /\ client = "other" /\ toGuardOpen /\ gpc = "relay"
    /\ toGuardOpen' = FALSE
    /\ Use /\ UNCHANGED <<doctor, guard, toGuard, toDoctor, sent, err, peer, framer, sink>>

\* The guard is started again with the same audit file.
SessionAgain ==
    /\ client = "other" /\ audit = "file" /\ GuardGone /\ session < MaxSessions
    /\ NextSession /\ FramerAgain
    /\ gpc' = "exec" /\ gstatus' = 0 /\ inputEof' = FALSE /\ forwarded' = << >>
    /\ toGuard' = << >> /\ toGuardOpen' = TRUE
    /\ server' = "none" /\ sstatus' = 0 /\ toServer' = << >> /\ toServerOpen' = FALSE
    /\ fromServer' = << >> /\ owed' = "none" /\ answers' = {} /\ notices' = 0 /\ quit' = FALSE
    /\ Use /\ UNCHANGED <<doctor, terminationSignal, sentTermination, toDoctor, sent, err>>

Other == ClientCloses \/ SessionAgain \/ \E byte \in ClientBytes : ClientSends(byte)

------------------------------------------------------------------------------

Init ==
    /\ client \in Clients /\ audit \in Audits
    /\ dpc = (IF client = "doctor" THEN "start" ELSE "absent")
    /\ verdict = "none" /\ deadline = FALSE /\ asleep = FALSE /\ pending = << >> /\ sent = 0
    /\ gpc = "exec" /\ gstatus = 0 /\ terminationSignal = FALSE /\ sentTermination = FALSE
    /\ inputEof = FALSE /\ forwarded = << >>
    /\ toGuard = << >> /\ toGuardOpen = TRUE /\ toDoctor = << >> /\ err = 0
    /\ server = "none" /\ sstatus = 0 /\ toServer = << >> /\ toServerOpen = FALSE
    /\ fromServer = << >> /\ owed = "none" /\ answers = {} /\ notices = 0 /\ quit = FALSE
    /\ FramerInit /\ SinkInit

Next == DoctorSteps \/ DeadlinePasses \/ Guard \/ Server \/ Other

Spec == Init /\ [][Next]_vars

\* Doctor and the guard are scheduled and their clocks run; of the server
\* nothing is asked.
FairSpec == Spec /\ WF_vars(DoctorSteps) /\ WF_vars(DeadlinePasses) /\ WF_vars(Guard)

------------------------------------------------------------------------------
(* Properties                                                              *)

\* Every variable has its type.
TypeOK ==
    /\ FramerTypeOK /\ SinkTypeOK
    /\ client \in Clients /\ audit \in Audits
    /\ dpc \in {"absent", "start", "init", "initAnswer", "note", "list", "listAnswer",
                "shutdown", "terminate", "grace", "done"}
    /\ verdict \in {"none", "healthy", "unhealthy"}
    /\ gpc \in {"exec", "spawned", "relay", "diagnose", "ending", "closing", "exited", "killed"}
    /\ gstatus \in 0..255 /\ sstatus \in 0..255
    /\ {deadline, asleep, terminationSignal, sentTermination, inputEof, toGuardOpen, toServerOpen, quit}
         \subseteq BOOLEAN
    /\ server \in {"none", "running", "zombie", "reaped"}
    /\ toGuard \in Seq(Bytes)
    /\ err \in 0..ErrSize /\ sent \in 0..MaxSent /\ notices \in 0..MaxNotices

Messages == [n \in DOMAIN lines |-> MessageOf(lines[n])]
Selected(kinds) == Select(Messages, kinds)

\* The audit tells the session: its start, every decision in the order the
\* lines came in, a line beyond the limit, its end; the file holds them up to
\* the first write that failed, and the failure is reported once.  What the
\* server is given does not depend on any of that (README.md:102-103,
\* docs/architecture.md:47-48).
AuditTellsTheSession ==
    /\ forwarded = Selected(LetThrough)
    /\ TrailIsAPrefix
    /\ gpc = "exited" /\ failed => complaints = 1 \/ gstatus = 143
    /\ \/ audit = "none"
       \/ events = << >> /\ lines = << >> /\ gpc \in {"exec", "spawned", "exited", "killed"}
       \/ \E ended \in BOOLEAN :
            /\ gpc # "killed" => ended = (gpc \in {"closing", "exited"})
            /\ events = <<"session_start">> \o Selected(Recorded)
                          \o (IF failure = "message_too_large" THEN <<"too_large">> ELSE << >>)
                          \o (IF ended THEN <<"session_end">> ELSE << >>)

\* Doctor calls healthy a guard that ended with status zero after its server
\* had answered both requests and ended with status zero at the end of its
\* input; and anything else has a cause outside doctor: the guard refused to
\* run, the server left, answered otherwise than doctor reads answers, filled
\* the stderr nobody reads, or let the time pass.
VerdictIsDeserved ==
    dpc = "done" =>
        IF verdict = "healthy"
        THEN /\ gpc = "exited" /\ gstatus = 0
             /\ server = "reaped" /\ sstatus = 0 /\ ~terminationSignal
             /\ forwarded = <<"init", "note", "list">>
             /\ \E kind \in Answers : [id |-> "list", kind |-> kind] \in answers
        ELSE \/ server = "none"
             \/ quit \/ sstatus # 0 \/ deadline
             \/ \E a \in answers : a.kind # "good"

\* The server does not outlive a guard that ended by itself or by SIGTERM; it
\* outlives doctor only behind a guard that doctor had to kill while that
\* waited for room in the stderr pipe doctor never reads.
LeavesNoServer ==
    /\ gpc = "exited" => server \notin {"running", "zombie"}
    /\ dpc = "done" /\ server = "running" => gpc = "killed" /\ err = ErrSize

\* docs/managed-local-deployment.md:47 doctor "terminates the child on failure",
\* so that a run it calls unhealthy has left no server behind.
FailureTerminatesServer ==
    dpc = "done" /\ verdict = "unhealthy" => server # "running"

\* In a poll without limit, behind a guard that neither writes nor ends.
Stranded == asleep /\ toDoctor = << >> /\ ~GuardGone

\* Doctor ends, whatever the server does or does not do, unless its time was
\* over between the check of the deadline and the poll, and nothing is written
\* to it from then on.
DoctorEnds == <>[](dpc \in {"done", "absent"} \/ Stranded)
==============================================================================
