------------------------------ MODULE StdioRelay ------------------------------
(***************************************************************************)
(* run_stdio_child (src/src/linux_stdio_relay.cpp): one thread relays      *)
(* between a client on stdin/stdout and a downstream server on two pipes,  *)
(* supervises the server process, obeys SIGINT/SIGTERM and reports the     *)
(* session to an observer.                                                 *)
(*                                                                         *)
(* Every system call of the relay is a step of its own, so the client, the *)
(* server, its descendants, the clock and the signals move between any two *)
(* of them.  A message stands for its line; a queue counts messages, not   *)
(* bytes; what the filter decides of a message is part of it.              *)
(***************************************************************************)
EXTENDS Integers, Sequences, FiniteSets, Filtering

CONSTANTS
    ClientKinds,    \* of {"forward", "error", "drop", "oversized"}
    ServerKinds,    \* of {"forward", "drop", "oversized"}
    ChildStatus,    \* exit statuses the server chooses from
    Faults,         \* of {"launch", "syscall", "signal", "truncate", "leave", "quit",
                    \*     "close", "descendant"}
    PipeSize,       \* messages a pipe holds
    ChunkSize,      \* messages one read returns at most
    QueueSize,      \* messages the queue to the client holds
    MaxSent,        \* bound: messages the client sends
    MaxNotices      \* bound: messages the server sends unasked

ASSUME RelayAssumption ==
    /\ ClientKinds \subseteq {"forward", "error", "drop", "oversized"}
    /\ ServerKinds \subseteq {"forward", "drop", "oversized"}
    /\ ChildStatus \subseteq 0..255
    /\ PipeSize \in Nat \ {0} /\ ChunkSize \in Nat \ {0} /\ QueueSize \in Nat
    \* The capacities reserved at the start hold what one read can add.
    /\ ChunkSize <= QueueSize
    /\ MaxSent \in Nat /\ MaxNotices \in Nat

SIGTERM == 15
SIGKILL == 9

VARIABLES
    (* the relay *)
    pc,             \* "launch", "top", "poll", "events", "finish", "clean", "reason", "exited"
    polled,         \* descriptors given to poll; then those it reported
    toChild, toClient,            \* the two bounded queues
    stdinWrite, stdoutRead,       \* child.stdin_write, child.stdout_read are open
    inputEof, outputEof, childReaped, sentTermination, sentKill,
    runResult,      \* RunResult, by its fields
    exitCode,       \* what run_stdio_child returns
    events,         \* calls of the observer, in order
    (* signals and the clock *)
    terminationSignal,            \* the volatile flag set by the handler
    graceOver,                    \* one second has passed since SIGTERM was sent
    (* the server process *)
    child,          \* "none", "running", "zombie", "reaped"
    childStatus,    \* status waitpid reports
    killed,         \* signals sent to it
    childIn, childOut,            \* contents of the two pipes
    childInOpen, childOutOpen,    \* some process holds the server's end
    owes,           \* the server has read a message and not yet replied
    (* the client *)
    clientIn, clientOut,          \* contents of stdin and stdout
    clientClosed,   \* "no", "clean", or "truncated": end of stdin
    clientReads,    \* the client holds its end of stdout
    (* what has happened *)
    sent, notices, produced,      \* messages of the client; unasked ones; all of the server
    forwarded,      \* messages queued for the server
    served,         \* messages the server has read
    queued,         \* lines queued for the client
    received        \* lines the client has read

relay  == <<pc, polled, toChild, toClient, stdinWrite, stdoutRead, inputEof, outputEof,
            childReaped, sentTermination, sentKill, runResult, exitCode, events>>
clock  == <<terminationSignal, graceOver>>
server == <<child, childStatus, killed, childIn, childOut, childInOpen, childOutOpen, owes,
            notices, produced>>
client == <<clientIn, clientOut, clientClosed, clientReads, sent>>
ghosts == <<forwarded, served, queued, received>>
vars   == <<relay, clock, server, client, ghosts>>

------------------------------------------------------------------------------
(* Launch and the way out                                                  *)

DefaultResult ==
    [child |-> -1, proxy |-> 4, clean |-> FALSE, reason |-> "startup_failure"]

\* A return from inside the function, after these signals were sent to the
\* server: the destructors run in reverse order of construction, ChildReaper
\* (kill and wait, without asking for the status) first, the observer next.
Return(code, result, signals) ==
    /\ pc' = "exited" /\ exitCode' = code /\ polled' = {}
    /\ child' = "reaped"
    /\ killed' = killed \cup signals \cup (IF childReaped THEN {} ELSE {SIGKILL})
    /\ events' = Append(events, [event |-> "child_finished", result |-> result])
    /\ stdinWrite' = FALSE /\ stdoutRead' = FALSE
    /\ UNCHANGED <<childStatus, childIn, childOut, childInOpen, childOutOpen, owes, notices,
                   produced>>

\* A return after a failure: RunResult still holds its initial values.
FailAfter(signals, code) ==
    /\ Return(code, runResult, signals)
    /\ UNCHANGED <<inputEof, outputEof, childReaped, sentTermination, sentKill, runResult>>

Fail(code) == FailAfter({}, code)

Launch ==
    /\ pc = "launch"
    /\ \/ /\ pc' = "top" /\ child' = "running"
          /\ childInOpen' = TRUE /\ childOutOpen' = TRUE
          /\ stdinWrite' = TRUE /\ stdoutRead' = TRUE
          /\ events' = <<[event |-> "child_started"]>>
          /\ UNCHANGED exitCode
       \/ \* invalid configuration, no signal handlers, or no process
          /\ "launch" \in Faults
          /\ pc' = "exited" /\ exitCode' \in {2, 4}
          /\ UNCHANGED <<child, childInOpen, childOutOpen, stdinWrite, stdoutRead, events>>
    /\ UNCHANGED <<polled, toChild, toClient, inputEof, outputEof, childReaped,
                   sentTermination, sentKill, runResult, clock, childStatus, killed,
                   childIn, childOut, owes, notices, produced, client, ghosts>>

\* waitpid, poll, a read or a write fails for no reason modelled elsewhere,
\* or the descriptors or the queues cannot be set up.
SyscallFails ==
    /\ "syscall" \in Faults
    /\ pc \in {"top", "poll", "events"}
    /\ Fail(4)
    /\ UNCHANGED <<toChild, toClient, clock, client, ghosts>>

------------------------------------------------------------------------------
(* The head of the loop                                                    *)

\* SIGKILL follows SIGTERM once, after the grace period.
NeverEscalate(reaped) == FALSE
Escalate(reaped) == sentTermination /\ ~sentKill /\ ~reaped /\ graceOver

\* The pipe to the server stays open until the input has ended and the queue
\* has drained; a signal and the end of the process close it too.
KeepsInputAtEof(reaped, terminate, queue) == stdinWrite /\ ~reaped /\ ~terminate
KeepsInput(reaped, terminate, queue) ==
    /\ stdinWrite /\ ~reaped /\ ~terminate
    /\ ~(inputEof /\ queue = << >>)

\* Neither peer is read while the queue to the client holds anything, nor the
\* client while the queue to the server does.
AcceptsClientEagerly(write, queue) == ~inputEof /\ write /\ toClient = << >>
AcceptsClient(write, queue) == ~inputEof /\ write /\ queue = << >> /\ toClient = << >>

AcceptsServerInTurn(queue) == stdoutRead /\ toClient = << >> /\ queue = << >>
AcceptsServer(queue) == stdoutRead /\ toClient = << >>

OffersClientUntilReaped == ~childReaped /\ toClient # << >>
OffersClient == toClient # << >>

\* The events asked of a descriptor; one that is closed is not given to poll.
Wanted(d, write, queue) ==
    CASE d = "stdin"    -> AcceptsClient(write, queue)
      [] d = "childOut" -> AcceptsServer(queue)
      [] d = "childIn"  -> write /\ queue # << >>
      [] d = "stdout"   -> OffersClient

\* The status is collected when the process has ended; a signal received is
\* passed on once, and what is queued for a server that ends is dropped.
Top ==
    /\ pc = "top"
    /\ ~childReaped \/ stdoutRead \/ toClient # << >>
    /\ LET reaped    == childReaped \/ child = "zombie"
           terminate == terminationSignal # 0 /\ ~sentTermination /\ ~reaped
           escalate  == Escalate(reaped)
           keep      == IF reaped \/ terminate THEN << >> ELSE toChild
           write     == KeepsInput(reaped, terminate, keep)
       IN  /\ childReaped' = reaped
           /\ child' = IF child = "zombie" THEN "reaped" ELSE child
           /\ sentTermination' = (sentTermination \/ terminate)
           /\ sentKill' = (sentKill \/ escalate)
           /\ killed' = killed \cup (IF terminate THEN {SIGTERM} ELSE {})
                               \cup (IF escalate THEN {SIGKILL} ELSE {})
           /\ toChild' = keep
           /\ stdinWrite' = write
           /\ IF outputEof /\ toClient = << >> /\ reaped
              THEN pc' = "finish" /\ polled' = {}
              ELSE /\ pc' = "poll"
                   /\ polled' = {d \in {"stdin", "childOut", "childIn", "stdout"} :
                                   Wanted(d, write, keep)}
    /\ UNCHANGED <<toClient, stdoutRead, inputEof, outputEof, runResult, exitCode, events,
                   clock, childStatus, childIn, childOut, childInOpen, childOutOpen, owes,
                   notices, produced, client, ghosts>>

LoopEndsWithChild ==
    /\ pc = "top"
    /\ childReaped /\ toClient = << >>
    /\ pc' = "finish" /\ polled' = {}
    /\ UNCHANGED <<toChild, toClient, stdinWrite, stdoutRead, inputEof, outputEof, childReaped,
                   sentTermination, sentKill, runResult, exitCode, events,
                   clock, server, client, ghosts>>

LoopEndsWithOutput ==
    /\ pc = "top"
    /\ ~stdoutRead /\ toClient = << >>
    /\ pc' = "finish" /\ polled' = {}
    /\ UNCHANGED <<toChild, toClient, stdinWrite, stdoutRead, inputEof, outputEof, childReaped,
                   sentTermination, sentKill, runResult, exitCode, events,
                   clock, server, client, ghosts>>

LoopEnds ==
    /\ pc = "top"
    /\ childReaped /\ ~stdoutRead /\ toClient = << >>
    /\ pc' = "finish" /\ polled' = {}
    /\ UNCHANGED <<toChild, toClient, stdinWrite, stdoutRead, inputEof, outputEof, childReaped,
                   sentTermination, sentKill, runResult, exitCode, events,
                   clock, server, client, ghosts>>

Ready(d) ==
    CASE d = "stdin"    -> clientIn # << >> \/ clientClosed # "no"
      [] d = "childOut" -> childOut # << >> \/ ~childOutOpen
      [] d = "childIn"  -> Len(childIn) < PipeSize \/ ~childInOpen
      [] d = "stdout"   -> Len(clientOut) < PipeSize \/ ~clientReads

\* poll reports every descriptor that is ready; a timeout and an interrupted
\* call go back to the head of the loop.
Poll ==
    /\ pc = "poll"
    /\ LET ready == {d \in polled : Ready(d)}
       IN  /\ polled' = ready
           /\ pc' = IF ready = {} THEN "top" ELSE "events"
    /\ UNCHANGED <<toChild, toClient, stdinWrite, stdoutRead, inputEof, outputEof, childReaped,
                   sentTermination, sentKill, runResult, exitCode, events,
                   clock, server, client, ghosts>>

------------------------------------------------------------------------------
(* The events of one round, in the order of the array given to poll        *)

Order == <<"stdin", "childOut", "childIn", "stdout">>

Turn(d) ==
    /\ pc = "events" /\ d \in polled
    /\ \A i, j \in DOMAIN Order : Order[j] = d /\ i < j => Order[i] \notin polled

Done(d) ==
    /\ polled' = polled \ {d}
    /\ pc' = IF polled = {d} THEN "top" ELSE "events"

\* What remains the same unless the function returns.
Alive == UNCHANGED <<sentTermination, sentKill, childReaped, runResult, exitCode, events,
                     child, childStatus, killed>>

Chunks(pipe) == {SubSeq(pipe, 1, n) : n \in 1..(IF ChunkSize < Len(pipe) THEN ChunkSize ELSE Len(pipe))}
AfterRepeating(pipe, chunk) == SubSeq(pipe, Len(chunk), Len(pipe))
After(pipe, chunk) == SubSeq(pipe, Len(chunk) + 1, Len(pipe))

\* The messages the framer emits before one that exceeds the limit.
Framed(chunk) ==
    SubSeq(chunk, 1, Cardinality({i \in DOMAIN chunk :
                                    \A j \in 1..i : chunk[j].kind # "oversized"}))
Kept(framed, kind, source) ==
    LET chosen == Select(framed, [id : Nat, kind : {kind}])
    IN  [i \in DOMAIN chosen |-> [from |-> source, id |-> chosen[i].id]]
Oversized(chunk) == \E i \in DOMAIN chunk : chunk[i].kind = "oversized"

ReadStdin ==
    /\ Turn("stdin")
    /\ \E chunk \in Chunks(clientIn) :
         LET framed == Framed(chunk)
             toServer == Kept(framed, "forward", "client")
             replies  == Kept(framed, "error", "guard")
         IN  /\ clientIn' = After(clientIn, chunk)
             /\ toChild' = toChild \o toServer
             /\ forwarded' = forwarded \o toServer
             /\ toClient' = toClient \o replies
             /\ queued' = queued \o replies
             /\ \/ Oversized(chunk) /\ Fail(3)
                \/ /\ ~Oversized(chunk)
                   /\ Len(toClient) + Len(replies) > QueueSize
                   /\ Fail(4)
                \/ /\ ~Oversized(chunk)
                   /\ Len(toClient) + Len(replies) <= QueueSize
                   /\ Done("stdin") /\ Alive
                   /\ UNCHANGED <<stdinWrite, stdoutRead, inputEof, outputEof, childIn, childOut,
                                  childInOpen, childOutOpen, owes, notices, produced>>
    /\ UNCHANGED <<clock, clientOut, clientClosed, clientReads, sent, served, received>>

StdinEnds ==
    /\ Turn("stdin") /\ clientIn = << >>
    /\ \/ /\ clientClosed = "clean"
          /\ inputEof' = TRUE
          /\ Done("stdin") /\ Alive
          /\ UNCHANGED <<stdinWrite, stdoutRead, outputEof, childIn, childOut,
                         childInOpen, childOutOpen, owes, notices, produced>>
       \/ clientClosed = "truncated" /\ Fail(3)
    /\ UNCHANGED <<toChild, toClient, clock, client, ghosts>>

ReadChildOut ==
    /\ Turn("childOut")
    /\ \E chunk \in Chunks(childOut) :
         LET lines == Kept(Framed(chunk), "forward", "server")
         IN  /\ toClient' = toClient \o lines
             /\ queued' = queued \o lines
             /\ \/ Oversized(chunk) /\ Fail(3)
                \/ /\ ~Oversized(chunk)
                   /\ Len(toClient) + Len(lines) > QueueSize
                   /\ Fail(4)
                \/ /\ ~Oversized(chunk)
                   /\ Len(toClient) + Len(lines) <= QueueSize
                   /\ childOut' = After(childOut, chunk)
                   /\ Done("childOut") /\ Alive
                   /\ UNCHANGED <<stdinWrite, stdoutRead, inputEof, outputEof, childIn,
                                  childInOpen, childOutOpen, owes, notices, produced>>
    /\ UNCHANGED <<toChild, clock, client, forwarded, served, received>>

\* The last writer is gone; it may have left part of a line behind.
ChildOutEnds ==
    /\ Turn("childOut") /\ childOut = << >>
    /\ \/ /\ stdoutRead' = FALSE /\ outputEof' = TRUE
          /\ Done("childOut") /\ Alive
          /\ UNCHANGED <<stdinWrite, inputEof, childIn, childOut,
                         childInOpen, childOutOpen, owes, notices, produced>>
       \/ "truncate" \in Faults /\ Fail(3)
    /\ UNCHANGED <<toChild, toClient, clock, client, ghosts>>

\* flush_to: some of the queue goes, as far as there is room.
Flushed(queue, pipe) ==
    {SubSeq(queue, 1, n) : n \in 1..(IF PipeSize - Len(pipe) < Len(queue)
                                     THEN PipeSize - Len(pipe) ELSE Len(queue))}

WriteChildIn ==
    /\ Turn("childIn")
    /\ \/ /\ childInOpen
          /\ \E part \in Flushed(toChild, childIn) :
               childIn' = childIn \o part /\ toChild' = After(toChild, part)
          /\ UNCHANGED <<stdinWrite, inputEof>>
       \/ /\ ~childInOpen
          /\ stdinWrite' = FALSE /\ inputEof' = TRUE /\ toChild' = << >>
          /\ UNCHANGED childIn
    /\ Done("childIn") /\ Alive
    /\ UNCHANGED <<toClient, stdoutRead, outputEof, childOut, childInOpen, childOutOpen,
                   owes, notices, produced, clock, client, ghosts>>

WriteStdout ==
    /\ Turn("stdout")
    /\ \/ /\ clientReads
          /\ \E part \in Flushed(toClient, clientOut) :
               clientOut' = clientOut \o part /\ toClient' = After(toClient, part)
          /\ Done("stdout") /\ Alive
          /\ UNCHANGED <<stdinWrite, stdoutRead, inputEof, outputEof, childIn, childOut,
                         childInOpen, childOutOpen, owes, notices, produced>>
       \/ /\ ~clientReads
          /\ FailAfter(IF childReaped THEN {} ELSE {SIGTERM}, 4)
          /\ UNCHANGED <<clientOut, toClient>>
    /\ UNCHANGED <<toChild, clock, clientIn, clientClosed, clientReads, sent, ghosts>>

------------------------------------------------------------------------------
(* The report: termination_signal is read once for each field, and a signal *)
(* may arrive between two of the reads.                                      *)

Report(field, value) == runResult' = [runResult EXCEPT ![field] = value]

Rest == UNCHANGED <<polled, toChild, toClient, stdinWrite, stdoutRead, inputEof, outputEof,
                    childReaped, sentTermination, sentKill, exitCode, events, server>>

FinishStatusDecodedTwice ==
    /\ pc = "finish"
    /\ runResult' = [runResult EXCEPT
                       !.child = childStatus,
                       !.proxy = IF terminationSignal # 0 THEN 128 + childStatus ELSE childStatus]
    /\ pc' = "clean"
    /\ Rest
    /\ UNCHANGED <<clock, client, ghosts>>

FinishStatus ==
    /\ pc = "finish"
    /\ runResult' = [runResult EXCEPT
                       !.child = childStatus,
                       !.proxy = IF terminationSignal # 0
                                 THEN 128 + terminationSignal ELSE childStatus]
    /\ pc' = "clean"
    /\ Rest
    /\ UNCHANGED <<clock, client, ghosts>>

FinishCleanIgnoresSignal ==
    /\ pc = "clean"
    /\ Report("clean", runResult.child = 0)
    /\ pc' = "reason"
    /\ Rest
    /\ UNCHANGED <<clock, client, ghosts>>

FinishClean ==
    /\ pc = "clean"
    /\ Report("clean", terminationSignal = 0 /\ runResult.child = 0)
    /\ pc' = "reason"
    /\ Rest
    /\ UNCHANGED <<clock, client, ghosts>>

FinishReason ==
    /\ pc = "reason"
    /\ Report("reason", IF terminationSignal # 0 THEN "signal"
                        ELSE IF runResult.child = 0 THEN "child_exit" ELSE "child_nonzero_exit")
    /\ Return(runResult.proxy, runResult', {})
    /\ UNCHANGED <<toChild, toClient, inputEof, outputEof, childReaped, sentTermination,
                   sentKill, clock, client, ghosts>>

------------------------------------------------------------------------------
(* The server process, its descendants, the clock and the signals          *)

Still == UNCHANGED <<relay, client>>

\* A server that answers: it reads its next message when it has written the
\* reply to the last one, if that calls for a reply.
ServerReads ==
    /\ child = "running" /\ childInOpen /\ childIn # << >>
    /\ owes => ~childOutOpen
    /\ served' = Append(served, Head(childIn))
    /\ childIn' = Tail(childIn)
    /\ owes' \in BOOLEAN
    /\ UNCHANGED <<child, childStatus, killed, childOut, childInOpen, childOutOpen, notices,
                   produced, clock, forwarded, queued, received>>
    /\ Still

ServerWrites(kind) ==
    /\ child = "running" /\ childOutOpen /\ Len(childOut) < PipeSize
    /\ \/ owes /\ owes' = FALSE /\ notices' = notices
       \/ notices < MaxNotices /\ notices' = notices + 1 /\ owes' = owes
    /\ LET m == [id |-> Len(produced) + 1, kind |-> kind]
       IN  childOut' = Append(childOut, m) /\ produced' = Append(produced, m)
    /\ UNCHANGED <<child, childStatus, killed, childIn, childInOpen, childOutOpen,
                   clock, ghosts>>
    /\ Still

\* The process ends; what it has not read is lost, and a descendant may keep
\* the pipe of its stdout.
Ends(status) ==
    /\ child' = "zombie" /\ childStatus' = status
    /\ childInOpen' = FALSE
    /\ \/ childOutOpen' = FALSE
       \/ "descendant" \in Faults /\ childOutOpen' = childOutOpen
    /\ UNCHANGED <<killed, childIn, childOut, owes, notices, produced, clock, ghosts>>
    /\ Still

\* Nothing is left for a server that has reached the end of its input.
AtEof ==
    /\ ~stdinWrite
    /\ childIn = << >> \/ ~childInOpen
    /\ owes => ~childOutOpen

ServerExits(status) ==
    /\ child = "running"
    /\ AtEof \/ "quit" \in Faults
    /\ Ends(status)

ServerDies(signal) ==
    /\ child = "running" /\ signal \in killed
    /\ Ends(128 + signal)

ServerCloses ==
    /\ "close" \in Faults /\ child = "running"
    /\ \/ childInOpen /\ childInOpen' = FALSE /\ childOutOpen' = childOutOpen
       \/ childOutOpen /\ childOutOpen' = FALSE /\ childInOpen' = childInOpen
    /\ UNCHANGED <<child, childStatus, killed, childIn, childOut, owes, notices, produced,
                   clock, ghosts>>
    /\ Still

DescendantExits ==
    /\ pc # "exited" /\ child \in {"zombie", "reaped"} /\ childOutOpen
    /\ childOutOpen' = FALSE
    /\ UNCHANGED <<child, childStatus, killed, childIn, childOut, childInOpen, owes, notices,
                   produced, clock, ghosts>>
    /\ Still

GraceExpires ==
    /\ pc # "exited" /\ sentTermination /\ ~graceOver
    /\ graceOver' = TRUE
    /\ UNCHANGED <<terminationSignal, server, ghosts>>
    /\ Still

\* record_termination, at any moment while its handler is installed.
SignalArrives ==
    /\ "signal" \in Faults
    /\ terminationSignal = 0 /\ pc \notin {"launch", "exited"}
    /\ terminationSignal' = SIGTERM
    /\ UNCHANGED <<graceOver, server, ghosts>>
    /\ Still

------------------------------------------------------------------------------
(* The client                                                              *)

\* After the exit of the guard only the client's reading is followed.
ClientSends(kind) ==
    /\ pc # "exited"
    /\ clientClosed = "no" /\ sent < MaxSent /\ Len(clientIn) < PipeSize
    /\ sent' = sent + 1
    /\ clientIn' = Append(clientIn, [id |-> sent + 1, kind |-> kind])
    /\ UNCHANGED <<relay, clock, server, clientOut, clientClosed, clientReads, ghosts>>

ClientCloses ==
    /\ pc # "exited" /\ clientClosed = "no"
    /\ clientClosed' \in {"clean"} \cup (IF "truncate" \in Faults THEN {"truncated"} ELSE {})
    /\ UNCHANGED <<relay, clock, server, clientIn, clientOut, clientReads, sent, ghosts>>

ClientReads ==
    /\ clientReads /\ clientOut # << >>
    /\ received' = Append(received, Head(clientOut))
    /\ clientOut' = Tail(clientOut)
    /\ UNCHANGED <<relay, clock, server, clientIn, clientClosed, clientReads, sent,
                   forwarded, served, queued>>

ClientLeaves ==
    /\ "leave" \in Faults /\ clientReads /\ pc # "exited"
    /\ clientReads' = FALSE
    /\ UNCHANGED <<relay, clock, server, clientIn, clientOut, clientClosed, sent, ghosts>>

------------------------------------------------------------------------------

Init ==
    /\ pc = "launch" /\ polled = {} /\ toChild = << >> /\ toClient = << >>
    /\ stdinWrite = FALSE /\ stdoutRead = FALSE
    /\ inputEof = FALSE /\ outputEof = FALSE /\ childReaped = FALSE
    /\ sentTermination = FALSE /\ sentKill = FALSE
    /\ runResult = DefaultResult /\ exitCode = -1 /\ events = << >>
    /\ terminationSignal = 0 /\ graceOver = FALSE
    /\ child = "none" /\ childStatus = 1 /\ killed = {}
    /\ childIn = << >> /\ childOut = << >> /\ childInOpen = FALSE /\ childOutOpen = FALSE
    /\ owes = FALSE /\ notices = 0 /\ produced = << >>
    /\ clientIn = << >> /\ clientOut = << >> /\ clientClosed = "no" /\ clientReads = TRUE
    /\ sent = 0
    /\ forwarded = << >> /\ served = << >> /\ queued = << >> /\ received = << >>

Relay ==
    \/ Launch \/ Top \/ LoopEnds \/ Poll
    \/ ReadStdin \/ StdinEnds \/ ReadChildOut \/ ChildOutEnds
    \/ WriteChildIn \/ WriteStdout
    \/ FinishStatus \/ FinishClean \/ FinishReason

Server ==
    \/ ServerReads \/ ServerCloses \/ DescendantExits
    \/ \E kind \in ServerKinds : ServerWrites(kind)
    \/ \E status \in ChildStatus : ServerExits(status)
    \/ \E signal \in {SIGTERM, SIGKILL} : ServerDies(signal)

Client ==
    \/ ClientCloses \/ ClientReads \/ ClientLeaves
    \/ \E kind \in ClientKinds : ClientSends(kind)

Next == Relay \/ SyscallFails \/ Server \/ GraceExpires \/ SignalArrives \/ Client

Spec == Init /\ [][Next]_vars

\* The relay is scheduled and its clock runs; a process that was sent SIGKILL
\* dies.  These the code may rely on.
Scheduling == WF_vars(Relay) /\ WF_vars(GraceExpires) /\ WF_vars(ServerDies(SIGKILL))

\* A client that goes on reading, and a server that goes on serving and leaves
\* at the end of its input.  Of a server that was sent SIGTERM no end is asked.
GoodPeers ==
    /\ WF_vars(ClientReads)
    /\ WF_vars(ServerReads)
    /\ WF_vars(\E kind \in ServerKinds : owes /\ ServerWrites(kind))
    /\ WF_vars(\E status \in ChildStatus : AtEof /\ ~sentTermination /\ ServerExits(status))

FairSpec == Spec /\ Scheduling /\ GoodPeers

------------------------------------------------------------------------------
(* Properties                                                              *)

Exited == pc = "exited"
\* The function returned from its end, not from an error path.
Finished == Exited /\ runResult.reason # "startup_failure"

Lines == [from : {"guard", "server", "client"}, id : Nat]

\* Every variable has its type.
TypeOK ==
    /\ pc \in {"launch", "top", "poll", "events", "finish", "clean", "reason", "exited"}
    /\ polled \subseteq {"stdin", "childOut", "childIn", "stdout"}
    /\ \A q \in {toChild, toClient, childIn, clientOut, forwarded, served, queued, received} :
          \A i \in DOMAIN q : q[i] \in Lines
    /\ {stdinWrite, stdoutRead, inputEof, outputEof, childReaped, sentTermination, sentKill,
        graceOver, childInOpen, childOutOpen, owes, clientReads} \subseteq BOOLEAN
    /\ runResult.child \in -1..255 /\ runResult.proxy \in 0..255
    /\ exitCode \in -1..255 /\ Len(events) <= 2
    /\ terminationSignal \in {0, SIGTERM}
    /\ child \in {"none", "running", "zombie", "reaped"}
    /\ killed \subseteq {SIGTERM, SIGKILL}

\* Reading is suspended while either queue holds something, so what one read
\* adds always fits the queue to the server; the queue to the client can
\* overflow only when both peers' messages meet in one round.
QueuesBounded ==
    /\ Len(toChild) <= ChunkSize
    /\ ~Exited => Len(toClient) <= QueueSize
    /\ toChild # << >> => "stdin" \notin polled

Prefix(p, q) == Len(p) <= Len(q) /\ p = SubSeq(q, 1, Len(p))

\* The server reads the messages the filter let through, and the client the
\* replies of the guard and the messages of the server, in their order and
\* once each.  None is lost on the way to a server that runs, takes input and
\* has not been asked to end, nor on the way to the client unless the relay
\* fails.
StreamsIntact ==
    /\ Prefix(served, forwarded) /\ Prefix(received, queued)
    /\ child = "running" /\ childInOpen /\ ~sentTermination /\ ~Exited
         => forwarded = served \o childIn \o toChild
    /\ ~Exited \/ Finished => queued = received \o clientOut \o toClient

\* A session that ends regularly has relayed everything the server wrote,
\* however its exit, the end of its output and the signals interleave.
ServerOutputRelayed ==
    Finished =>
        /\ toClient = << >> /\ childOut = << >>
        /\ Select(queued, [from : {"server"}, id : Nat]) = Kept(produced, "forward", "server")

\* A regular end follows the collection of the server's status, which is the
\* status the process chose unless it was sent a signal: the wait after the
\* loop and the kill of ChildReaper find nothing to do.
StatusIsTheServers ==
    pc \in {"finish", "clean", "reason"} \/ Finished =>
        /\ childReaped /\ child = "reaped"
        /\ killed = {} => childStatus \in ChildStatus
        /\ pc # "finish" => runResult.child = childStatus

\* A signal may arrive between any two fields of the report: a shutdown that
\* is reported clean still has status zero throughout, and a status that is
\* not the server's is explained by the signal.
ReportCoherent ==
    Finished =>
        /\ runResult.clean => runResult.child = 0 /\ runResult.proxy = 0
        /\ runResult.proxy # runResult.child => runResult.reason = "signal" /\ ~runResult.clean

\* A signal ends the guard, whether or not the server obeys it.
SignalEndsGuard == terminationSignal # 0 ~> Exited

\* The end of the client's input ends the guard: queues and pipes drain, the
\* server sees the end and leaves, its status and output are collected.
InputEndEndsGuard == clientClosed # "no" ~> Exited

\* No deadlock of full pipes: a message let through is read by the server in
\* the end, although the server does not read while its reply is blocked and
\* the relay does not read while the client is slow.
ForwardedIsServed ==
    \A n \in 1..MaxSent :
        Len(forwarded) >= n ~> \/ Len(served) >= n
                               \/ child # "running" \/ ~childInOpen
                               \/ sentTermination \/ Exited

\* What the server wrote reaches the client in the end.
QueuedIsReceived ==
    \A n \in 1..(MaxSent + MaxNotices) :
        Len(queued) >= n ~> Len(received) >= n \/ ~clientReads \/ Exited
==============================================================================
