-------------------------------- MODULE Inspect --------------------------------
(***************************************************************************)
(* run_inspect (src/src/inspect.cpp): starts a server in a process group   *)
(* of its own, initializes it, asks once for its tools, publishes the      *)
(* inventory and takes the server down.  The server, the descendants it    *)
(* leaves in its group and the clock move between any two system calls.    *)
(*                                                                         *)
(* The server's output is a stream of bytes, since a read may end inside a *)
(* line or span several; a line is known by its kind.                      *)
(***************************************************************************)
EXTENDS Naturals, Sequences, FiniteSets

CONSTANTS
    Kinds,            \* kinds of lines the server may write, of DOMAIN IdOf
    LineBytes,        \* bytes of a line of each kind, its newline not counted
    MaxMessageBytes,  \* --max-message-bytes
    ReadBytes,        \* the 4096 bytes of one read
    Members,          \* bound: descendants the server may leave in its group
    MaxLines,         \* bound: lines the server writes
    Faults            \* of {"spawn", "unasked", "quit", "hang", "fork", "output"}

\* The id of a response of each kind; "garbage" is no JSON-RPC 2.0 message,
\* "notice" a notification or a request of the server.  The "bad" responses
\* are refused by the validation of their contents.
IdOf ==
    [init |-> "init", init_bad |-> "init", list |-> "list", list_bad |-> "list",
     other |-> "other", notice |-> "none", garbage |-> "none"]

ASSUME InspectAssumption ==
    /\ Kinds \subseteq DOMAIN IdOf
    /\ LineBytes \in [Kinds -> Nat] /\ MaxMessageBytes \in Nat \ {0}
    /\ ReadBytes \in Nat \ {0} /\ MaxLines \in Nat

VARIABLES
    (* inspect *)
    pc,             \* "start", "write", "receive", "remaining", "poll", "poll_forever",
                    \* "shutdown", "stop", "stopping", "reap", "publish", "done", "killed"
    stage,          \* the response expected: "init" or "list"
    pending,        \* what receive_expected_response has read and not used
    accepted,       \* kinds of the responses taken, in order
    stdinWrite, stdoutRead,       \* child.stdin_write, child.stdout_read are open
    exitCode,       \* what run_inspect returns; 0 until something fails
    shutdown,       \* what the last line of the diagnostics says
    destination,    \* of the inventory: "old" before, "file" or "stdout" once published,
                    \* "buffer" when the flush of stdout at the exit of the process fails
    (* clocks *)
    deadline,       \* --timeout has expired
    timer,          \* --shutdown-timeout-ms: "off", "running", "over"
    (* the server *)
    leader,         \* "none", "running", "hung", "zombie", "reaped"
    leaderStatus,   \* "exit" or "signal"
    members,        \* descendants alive in its process group
    signals,        \* signals sent to the group
    inHeld, outHeld,              \* some process holds the server's end of the pipe
    toServer,       \* its stdin
    out,            \* its stdout
    owed,           \* requests it has read and not answered
    written,        \* kinds of the lines it has written
    unasked         \* it may write what it was not asked for

own    == <<pc, stage, pending, accepted, stdinWrite, stdoutRead, exitCode, shutdown, destination>>
clocks == <<deadline, timer>>
group  == <<leader, leaderStatus, members, signals, inHeld, outHeld, toServer, out, owed,
            written, unasked>>
vars   == <<own, clocks, group>>

Alive == leader \in {"running", "hung"}

Bytes(kind) == [i \in 1..(LineBytes[kind] + 1) |-> [kind |-> kind, newline |-> i > LineBytes[kind]]]

------------------------------------------------------------------------------
(* Launch, failure and the requests                                        *)

Start ==
    /\ pc = "start"
    /\ \/ /\ pc' = "write" /\ leader' = "running"
          /\ stdinWrite' = TRUE /\ stdoutRead' = TRUE /\ inHeld' = TRUE /\ outHeld' = TRUE
          /\ UNCHANGED exitCode
       \/ /\ "spawn" \in Faults
          /\ pc' = "done" /\ exitCode' = 4
          /\ UNCHANGED <<leader, stdinWrite, stdoutRead, inHeld, outHeld>>
    /\ UNCHANGED <<stage, pending, accepted, shutdown, destination, clocks, leaderStatus,
                   members, signals, toServer, out, owed, written, unasked>>

\* The closure fail: both pipes are closed before the group is terminated.
Fail ==
    /\ pc' = "stop" /\ exitCode' = 1
    /\ stdinWrite' = FALSE /\ stdoutRead' = FALSE

Requests(s) == IF s = "init" THEN <<"init">> ELSE <<"initialized", "list">>

\* A request nobody can read fails or, where SIGPIPE has its default action,
\* kills inspect: unlike run, it does not ignore the signal.
Write ==
    /\ pc = "write"
    /\ \/ /\ inHeld
          /\ toServer' = toServer \o Requests(stage)
          /\ pc' = "receive"
          /\ UNCHANGED <<stdinWrite, stdoutRead, exitCode>>
       \/ /\ ~inHeld
          /\ \/ Fail
             \/ /\ pc' = "killed" /\ stdinWrite' = FALSE /\ stdoutRead' = FALSE
                /\ UNCHANGED exitCode
          /\ UNCHANGED toServer
    /\ UNCHANGED <<stage, pending, accepted, shutdown, destination, clocks, leader, leaderStatus,
                   members, signals, inHeld, outHeld, out, owed, written, unasked>>

------------------------------------------------------------------------------
(* receive_expected_response                                               *)

\* The head of its loop: the deadline, then the state of the server, before
\* what the server may have written is looked at.
Receive ==
    /\ pc = "receive"
    /\ \/ deadline /\ Fail /\ UNCHANGED leader
       \/ ~deadline /\ leader = "zombie" /\ Fail /\ leader' = "reaped"
       \/ /\ ~deadline /\ Alive
          /\ pc' = "remaining"
          /\ UNCHANGED <<exitCode, stdinWrite, stdoutRead, leader>>
    /\ UNCHANGED <<stage, pending, accepted, shutdown, destination, clocks, leaderStatus,
                   members, signals, inHeld, outHeld, toServer, out, owed, written, unasked>>

\* The clock is read again for the timeout of poll.  By then the deadline may
\* have passed: within a millisecond of it the timeout is 0, later it is
\* negative, which poll takes for none.
Remaining ==
    /\ pc = "remaining"
    /\ pc' \in {"poll"} \cup (IF deadline THEN {"poll_forever"} ELSE {})
    /\ UNCHANGED <<stage, pending, accepted, stdinWrite, stdoutRead, exitCode, shutdown,
                   destination, clocks, group>>

Polling == pc \in {"poll", "poll_forever"}

PollTimesOut ==
    /\ pc = "poll" /\ out = << >> /\ outHeld
    /\ pc' = "receive"
    /\ UNCHANGED <<stage, pending, accepted, stdinWrite, stdoutRead, exitCode, shutdown,
                   destination, clocks, group>>

PollHangsUp ==
    /\ Polling /\ out = << >> /\ ~outHeld
    /\ Fail
    /\ UNCHANGED <<stage, pending, accepted, shutdown, destination, clocks, group>>

\* The first line of the buffer.  Of two lines in one read the second is forgotten, since the
\* buffer belongs to the call.
LineExpected(buffer) ==
    LET Expected(i) == buffer[i].newline /\ IdOf[buffer[i].kind] = stage
    IN  IF \E i \in DOMAIN buffer : Expected(i)
        THEN buffer[CHOOSE i \in DOMAIN buffer :
                      Expected(i) /\ \A j \in 1..(i - 1) : ~Expected(j)].kind
        ELSE "none"
Line(buffer) ==
    IF \E i \in DOMAIN buffer : buffer[i].newline
    THEN buffer[CHOOSE i \in DOMAIN buffer :
                  buffer[i].newline /\ \A j \in 1..(i - 1) : ~buffer[j].newline].kind
    ELSE "none"

\* A response with the expected id; anything else fails the inspection.
Take(kind) ==
    /\ accepted' = Append(accepted, kind)
    /\ \/ /\ kind = "init"
          /\ pc' = "write" /\ stage' = "list"
          /\ UNCHANGED <<stdinWrite, stdoutRead, exitCode, timer>>
       \/ /\ kind = "list"
          /\ pc' = "shutdown" /\ stdinWrite' = FALSE /\ timer' = "running"
          /\ UNCHANGED <<stage, stdoutRead, exitCode>>
       \/ /\ kind \notin {"init", "list"}
          /\ Fail
          /\ UNCHANGED <<stage, timer>>

\* The bytes a read may leave behind for the next one.
KeptWhole(buffer) == Len(buffer) <= MaxMessageBytes + ReadBytes
Kept(buffer) == Len(buffer) <= MaxMessageBytes + 1

Read ==
    /\ Polling /\ out # << >>
    /\ \E n \in 1..(IF ReadBytes < Len(out) THEN ReadBytes ELSE Len(out)) :
         LET buffer   == pending \o SubSeq(out, 1, n)
             line     == Line(buffer)
             tooLarge == \/ ~Kept(buffer)
                         \/ line # "none" /\ LineBytes[line] > MaxMessageBytes
         IN  /\ out' = SubSeq(out, n + 1, Len(out))
             /\ pending' = IF ~tooLarge /\ line = "none" THEN buffer ELSE << >>
             /\ \/ /\ ~tooLarge /\ line = "none"
                   /\ pc' = "receive"
                   /\ UNCHANGED <<stage, accepted, stdinWrite, stdoutRead, exitCode, timer>>
                \/ /\ ~tooLarge /\ line # "none" /\ IdOf[line] = stage
                   /\ Take(line)
                \/ /\ tooLarge \/ (line # "none" /\ IdOf[line] # stage)
                   /\ Fail
                   /\ UNCHANGED <<stage, accepted, timer>>
    /\ UNCHANGED <<shutdown, destination, deadline, leader, leaderStatus, members, signals,
                   inHeld, outHeld, toServer, owed, written, unasked>>

------------------------------------------------------------------------------
(* wait_for_clean_shutdown, terminate_process_group and the end            *)

WaitForCleanShutdownTrusting ==
    /\ pc = "shutdown" /\ timer # "over"
    /\ leader \in {"zombie", "reaped"}
    /\ leader' = "reaped"
    /\ shutdown' = "clean"
    /\ pc' = "publish"
    /\ UNCHANGED <<stage, pending, accepted, stdinWrite, stdoutRead, exitCode, destination,
                   clocks, leaderStatus, members, signals, inHeld, outHeld, toServer, out,
                   owed, written, unasked>>

WaitForCleanShutdown ==
    /\ pc = "shutdown" /\ timer # "over"
    /\ leader \in {"zombie", "reaped"}
    /\ leader' = "reaped"
    /\ shutdown' = IF leader = "zombie" /\ leaderStatus = "signal" THEN "forced" ELSE "clean"
    /\ pc' = "publish"
    /\ UNCHANGED <<stage, pending, accepted, stdinWrite, stdoutRead, exitCode, destination,
                   clocks, leaderStatus, members, signals, inHeld, outHeld, toServer, out,
                   owed, written, unasked>>

ForceShutdownAbandoning ==
    /\ pc = "shutdown" /\ timer = "over"
    /\ shutdown' = "forced" /\ pc' = "publish"
    /\ UNCHANGED <<stage, pending, accepted, stdinWrite, stdoutRead, exitCode, destination,
                   clocks, group>>

ForceShutdownFailing ==
    /\ pc = "shutdown" /\ timer = "over"
    /\ shutdown' = "forced" /\ pc' = "stop" /\ exitCode' = 1
    /\ UNCHANGED <<stage, pending, accepted, stdinWrite, stdoutRead, destination, clocks, group>>

ForceShutdown ==
    /\ pc = "shutdown" /\ timer = "over"
    /\ shutdown' = "forced" /\ pc' = "stop"
    /\ UNCHANGED <<stage, pending, accepted, stdinWrite, stdoutRead, exitCode, destination,
                   clocks, group>>

\* Where terminate_process_group returns to.
Stopped == pc' = IF exitCode = 0 THEN "publish" ELSE "done"

Quiet == UNCHANGED <<stage, pending, accepted, stdinWrite, stdoutRead, exitCode, shutdown,
                     destination, deadline, leaderStatus, members, inHeld, outHeld,
                     toServer, out, owed, written, unasked>>

\* A leader that has ended, or was collected before, spares its group.
Stop ==
    /\ pc = "stop"
    /\ \/ /\ Alive
          /\ signals' = signals \cup {"TERM"} /\ timer' = "running"
          /\ pc' = "stopping" /\ leader' = leader
       \/ /\ leader \in {"zombie", "reaped"}
          /\ leader' = "reaped" /\ Stopped
          /\ UNCHANGED <<signals, timer>>
    /\ Quiet

\* Only the leader is a child of inspect, so only it is waited for.
StoppingPatiently ==
    /\ pc = "stopping"
    /\ leader \in {"zombie", "reaped"}
    /\ leader' = "reaped"
    /\ IF leader = "reaped" THEN Stopped ELSE pc' = pc
    /\ UNCHANGED <<signals, timer>>
    /\ Quiet

Stopping ==
    /\ pc = "stopping"
    /\ \/ /\ timer = "over"
          /\ signals' = signals \cup {"KILL"}
          /\ pc' = "reap" /\ leader' = leader
       \/ /\ timer # "over" /\ leader = "zombie"
          /\ leader' = "reaped"
          /\ UNCHANGED <<pc, signals>>
       \/ /\ timer # "over" /\ leader = "reaped"
          /\ Stopped
          /\ UNCHANGED <<leader, signals>>
    /\ UNCHANGED timer
    /\ Quiet

Reap ==
    /\ pc = "reap"
    /\ leader \in {"zombie", "reaped"}
    /\ leader' = "reaped" /\ Stopped
    /\ UNCHANGED <<signals, timer>>
    /\ Quiet

\* By write_file_atomic to the file of --output or to stdout, which is not
\* flushed: what fits its buffer is written after run_inspect has returned, so
\* only the failure of a larger inventory is noticed, where SIGPIPE leaves time.
Publish ==
    /\ pc = "publish"
    /\ \/ pc' = "done" /\ destination' \in {"file", "stdout"} /\ UNCHANGED exitCode
       \/ "output" \in Faults /\ pc' = "done" /\ exitCode' = 1 /\ UNCHANGED destination
       \/ "output" \in Faults /\ pc' = "done" /\ destination' = "buffer" /\ UNCHANGED exitCode
       \/ "output" \in Faults /\ pc' = "killed" /\ UNCHANGED <<exitCode, destination>>
    /\ stdoutRead' = FALSE
    /\ UNCHANGED <<stage, pending, accepted, stdinWrite, shutdown, clocks, group>>

------------------------------------------------------------------------------
(* The clocks, the server and its descendants                              *)

Running == pc \notin {"start", "done", "killed"}

DeadlineExpires ==
    /\ Running /\ ~deadline
    /\ deadline' = TRUE
    /\ UNCHANGED <<own, timer, group>>

TimerExpires ==
    /\ Running /\ timer = "running"
    /\ timer' = "over"
    /\ UNCHANGED <<own, deadline, group>>

ServerReads ==
    /\ Running /\ leader = "running" /\ inHeld /\ toServer # << >>
    /\ toServer' = Tail(toServer)
    /\ owed' = IF Head(toServer) = "initialized" THEN owed ELSE Append(owed, Head(toServer))
    /\ UNCHANGED <<own, clocks, leader, leaderStatus, members, signals, inHeld, outHeld, out,
                   written, unasked>>

\* An answer to the next request or, from a careless server, anything.
ServerWrites(kind) ==
    /\ Running /\ leader = "running" /\ outHeld /\ stdoutRead
    /\ Len(written) < MaxLines
    /\ \/ owed # << >> /\ kind = Head(owed) /\ owed' = Tail(owed)
       \/ unasked /\ owed' = owed
    /\ written' = Append(written, kind)
    /\ out' = out \o Bytes(kind)
    /\ UNCHANGED <<own, clocks, leader, leaderStatus, members, signals, inHeld, outHeld,
                   toServer, unasked>>

Forks(m) ==
    /\ "fork" \in Faults /\ Running /\ leader = "running" /\ m \notin members
    /\ "KILL" \notin signals
    /\ members' = members \cup {m}
    /\ UNCHANGED <<own, clocks, leader, leaderStatus, signals, inHeld, outHeld, toServer, out,
                   owed, written, unasked>>

\* The leader ends; its descendants may hold on to its pipes.
Ends(status) ==
    /\ Alive
    /\ leader' = "zombie" /\ leaderStatus' = status
    /\ inHeld' \in {FALSE} \cup (IF members # {} THEN {inHeld} ELSE {})
    /\ outHeld' \in {FALSE} \cup (IF members # {} THEN {outHeld} ELSE {})
    /\ UNCHANGED <<own, clocks, members, signals, toServer, out, owed, written, unasked>>

ServerHangs ==
    /\ "hang" \in Faults /\ leader = "running"
    /\ leader' = "hung"
    /\ UNCHANGED <<own, clocks, leaderStatus, members, signals, inHeld, outHeld, toServer, out,
                   owed, written, unasked>>

LeaderExits ==
    /\ leader = "running"
    /\ \/ "quit" \in Faults
       \/ ~stdinWrite /\ toServer = << >> /\ owed = << >>
    /\ Ends("exit")

LeaderDies ==
    /\ "quit" \in Faults \/ signals # {}
    /\ Ends("signal")

LeaderKilled == "KILL" \in signals /\ Ends("signal")

MemberEnds(m) ==
    /\ m \in members
    /\ members' = members \ {m}
    /\ LET last == members = {m} /\ ~Alive
       IN  inHeld' = (inHeld /\ ~last) /\ outHeld' = (outHeld /\ ~last)
    /\ UNCHANGED <<own, clocks, leader, leaderStatus, signals, toServer, out, owed, written,
                   unasked>>

------------------------------------------------------------------------------

Init ==
    /\ pc = "start" /\ stage = "init" /\ pending = << >> /\ accepted = << >>
    /\ stdinWrite = FALSE /\ stdoutRead = FALSE
    /\ exitCode = 0 /\ shutdown = "none" /\ destination = "old"
    /\ deadline = FALSE /\ timer = "off"
    /\ leader = "none" /\ leaderStatus = "exit" /\ members = {} /\ signals = {}
    /\ inHeld = FALSE /\ outHeld = FALSE
    /\ toServer = << >> /\ out = << >> /\ owed = << >> /\ written = << >>
    /\ unasked \in {FALSE, "unasked" \in Faults}

Guard ==
    \/ Start \/ Write \/ Receive \/ Remaining \/ PollTimesOut \/ PollHangsUp \/ Read
    \/ WaitForCleanShutdown \/ ForceShutdown \/ Stop \/ Stopping \/ Reap \/ Publish

Server ==
    \/ ServerReads \/ ServerHangs \/ LeaderExits \/ LeaderDies
    \/ \E kind \in Kinds : ServerWrites(kind)
    \/ \E m \in Members : Forks(m) \/ MemberEnds(m)

Next == Guard \/ DeadlineExpires \/ TimerExpires \/ Server

Spec == Init /\ [][Next]_vars

\* Inspect is scheduled, time passes, SIGKILL kills.  Nothing else is asked of
\* the server.
FairSpec ==
    /\ Spec
    /\ WF_vars(Guard) /\ WF_vars(DeadlineExpires) /\ WF_vars(TimerExpires)
    /\ WF_vars(LeaderKilled)

\* A server that goes on serving its requests, unless it hangs.
GoodServer ==
    /\ WF_vars(ServerReads)
    /\ WF_vars(\E kind \in Kinds : owed # << >> /\ kind = Head(owed) /\ ServerWrites(kind))

FairServerSpec == FairSpec /\ GoodServer

------------------------------------------------------------------------------
(* Properties                                                              *)

Returned == pc = "done"

\* Every variable has its type; what is kept between two reads fits the limit.
TypeOK ==
    /\ pc \in {"start", "write", "receive", "remaining", "poll", "poll_forever", "shutdown",
               "stop", "stopping", "reap", "publish", "done", "killed"}
    /\ stage \in {"init", "list"} /\ exitCode \in {0, 1, 4}
    /\ shutdown \in {"none", "clean", "forced"}
    /\ destination \in {"old", "file", "stdout", "buffer"}
    /\ {stdinWrite, stdoutRead, deadline, inHeld, outHeld, unasked} \subseteq BOOLEAN
    /\ timer \in {"off", "running", "over"}
    /\ leader \in {"none", "running", "hung", "zombie", "reaped"} /\ leaderStatus \in {"exit", "signal"}
    /\ members \subseteq Members /\ signals \subseteq {"TERM", "KILL"}
    /\ Len(pending) <= MaxMessageBytes + 1
    /\ Len(accepted) <= 2 /\ Len(written) <= MaxLines

\* An inventory is handed to a file or to stdout only when the server's very
\* first line was the answer to initialize and the answer to tools/list was the
\* only other line taken; how the reads cut the stream, and how the server ends,
\* makes no difference.  inspect reports success exactly when it was handed over:
\* the file is then complete, but stdout may still fail to take its buffer.
InventoryIsTheAnswer ==
    /\ destination # "old" =>
          /\ accepted = <<"init", "list">>
          /\ written[1] = "init" /\ \E i \in 2..Len(written) : written[i] = "list"
    /\ Returned => (exitCode = 0 <=> destination # "old")

\* When inspect returns it has collected the server it started, whichever of
\* the two waits, the failures and the deadlines led there.
ServerCollected ==
    Returned /\ exitCode # 4 => leader = "reaped" /\ ~stdinWrite /\ ~stdoutRead

\* A shutdown reported clean was an exit of the server's own accord: nothing
\* was sent to its group and no signal ended it.
CleanIsUnforced ==
    shutdown = "clean" => signals = {} /\ leaderStatus = "exit"

\* docs/inspect.md: on timeout or failure the process group is signalled.
GroupTerminated ==
    Returned /\ exitCode = 1 /\ shutdown = "none" => members = {} \/ "TERM" \in signals

\* docs/inspect.md: unsolicited notifications or requests fail closed.
UnsolicitedFailsClosed ==
    destination # "old" =>
        \A i \in DOMAIN written : written[i] = "notice" => \E j \in 1..(i - 1) : written[j] = "list"

\* In a poll without limit, and nothing to wake it: the server neither writes
\* nor closes its output.
Stranded == pc = "poll_forever" /\ out = << >> /\ outHeld

\* Whatever the server and its descendants do, inspect comes to an end, unless
\* the deadline passed between the check of it and the computation of poll's
\* timeout and the server stays silent from then on.
InspectEnds == <>[](pc \in {"done", "killed"} \/ Stranded)

QuitsEarly == leader \in {"zombie", "reaped"} /\ stdinWrite

\* A server that writes answers only, goes on answering and stays until its input
\* ends gets as far as the publication of its inventory unless the deadline
\* passes, even one that must be killed once it has answered.
GoodServerInventoried ==
    <>(deadline \/ QuitsEarly \/ leader = "hung" \/ unasked \/ exitCode = 4 \/ pc = "publish")
================================================================================
