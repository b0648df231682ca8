---------------------------- MODULE StdioRelayProofs ----------------------------
(***************************************************************************)
(* Proofs about StdioRelay, for any messages, pipe and queue sizes, exit   *)
(* statuses and faults.  The first part is about the end of a session:     *)
(* what its report says of the server and of the signals, whenever they    *)
(* arrive.  The second is about the messages: each invariant of the relay  *)
(* is one part of RelayInv, with a lemma that says which other parts a     *)
(* step needs to preserve it.                                              *)
(***************************************************************************)
EXTENDS StdioRelay, FilteringProofs, FiniteSetTheorems, TLAPS

\* The variables these invariants speak of.
reported == <<pc, childReaped, child, childStatus, killed, runResult, terminationSignal>>

\* The status of a process that has ended is its own choice unless a signal
\* was sent to it, and it is collected once.
Collected ==
    /\ childReaped \in BOOLEAN
    /\ pc = "launch" => child = "none"
    /\ childReaped => child = "reaped"
    /\ childReaped \/ child = "zombie" => (killed = {} => childStatus \in ChildStatus)
    /\ pc \in {"finish", "clean", "reason"} => childReaped

\* Nothing is reported before the loop has ended; then the report is filled
\* in field by field, the signal being looked at for each.
Filled ==
    /\ terminationSignal \in {0, SIGTERM}
    /\ pc \in {"launch", "top", "poll", "events", "finish", "clean", "reason"}
         => runResult.reason = "startup_failure"
    /\ pc \in {"launch", "top", "poll", "events", "finish"} => runResult = DefaultResult
    /\ DOMAIN runResult = {"child", "proxy", "clean", "reason"}
    /\ pc \in {"clean", "reason"} \/ Finished =>
         /\ childReaped
         /\ runResult.child = childStatus
         /\ runResult.proxy # runResult.child => terminationSignal # 0
    /\ pc = "reason" \/ Finished =>
         (runResult.clean => runResult.child = 0 /\ runResult.proxy = 0)
    /\ Finished => (runResult.proxy # runResult.child => runResult.reason = "signal")

ReportInv == Collected /\ Filled

------------------------------------------------------------------------------

\* Nothing has been reported before the launch.
LEMMA ReportInit == Init => ReportInv
<1> SUFFICES ASSUME Init PROVE ReportInv
  OBVIOUS
<1>1. /\ pc = "launch" /\ childReaped = FALSE /\ child = "none" /\ terminationSignal = 0
      /\ runResult = DefaultResult
  BY DEF Init
<1>2. DOMAIN DefaultResult = {"child", "proxy", "clean", "reason"}
  BY DEF DefaultResult
<1>3. DefaultResult.reason = "startup_failure"
  BY DEF DefaultResult
<1> QED BY <1>1, <1>2, <1>3 DEF ReportInv, Collected, Filled, Finished, Exited

\* A step that leaves those variables alone.
LEMMA ReportUntouched == ReportInv /\ UNCHANGED reported => ReportInv'
BY DEF reported, ReportInv, Collected, Filled, Finished, Exited

\* A return from inside the function: the report is still the initial one.
LEMMA FailKeepsReport ==
    ASSUME ReportInv, pc \in {"top", "poll", "events"}, NEW signals, NEW code,
           FailAfter(signals, code), UNCHANGED clock
    PROVE  ReportInv'
<1>1. /\ pc' = "exited" /\ child' = "reaped" /\ runResult' = runResult
      /\ childReaped' = childReaped /\ childStatus' = childStatus
      /\ terminationSignal' = terminationSignal
      /\ killed \subseteq killed'
  BY DEF FailAfter, Return, clock
<1>2. runResult = DefaultResult
  BY DEF ReportInv, Filled
<1>3. ~Finished'
  BY <1>1, <1>2 DEF Finished, DefaultResult
<1>4. Collected'
  BY <1>1 DEF ReportInv, Collected
<1>5. Filled'
  BY <1>1, <1>2, <1>3 DEF ReportInv, Filled, DefaultResult
<1> QED BY <1>4, <1>5 DEF ReportInv

\* A system call that succeeds goes on with the round.
LEMMA RoundKeepsReport ==
    ASSUME ReportInv, pc = "events", NEW d, Done(d), Alive, UNCHANGED clock
    PROVE  ReportInv'
<1>1. /\ pc' \in {"top", "events"}
      /\ UNCHANGED <<childReaped, runResult, child, childStatus, killed, terminationSignal>>
  BY DEF Done, Alive, clock
<1> QED BY <1>1 DEF ReportInv, Collected, Filled, Finished, Exited

\* A step of another process does not touch the relay, its report included.
LEMMA OthersKeepReport ==
    ASSUME ReportInv, Server \/ GraceExpires \/ SignalArrives \/ Client
    PROVE  ReportInv'
<1>1. UNCHANGED <<pc, childReaped, runResult>>
  BY DEF Server, GraceExpires, SignalArrives, Client, ServerReads, ServerWrites, ServerExits,
         ServerDies, ServerCloses, Ends, DescendantExits, ClientSends, ClientCloses, ClientReads,
         ClientLeaves, Still, relay
<1>2. CASE UNCHANGED reported
  BY <1>2, ReportUntouched
<1>3. CASE SignalArrives
  <2>1. terminationSignal' = SIGTERM /\ UNCHANGED <<child, childStatus, killed>>
    BY <1>3 DEF SignalArrives, server
  <2> QED BY <1>1, <2>1 DEF ReportInv, Collected, Filled, Finished, Exited, SIGTERM
<1>4. CASE \E status \in ChildStatus : ServerExits(status)
  <2>1. /\ child = "running" /\ child' = "zombie" /\ childStatus' \in ChildStatus
        /\ UNCHANGED <<killed, terminationSignal>>
    BY <1>4 DEF ServerExits, Ends, clock
  <2> QED BY <1>1, <2>1 DEF ReportInv, Collected, Filled, Finished, Exited
<1>5. CASE \E signal \in {SIGTERM, SIGKILL} : ServerDies(signal)
  <2>1. /\ child = "running" /\ child' = "zombie" /\ killed # {}
        /\ UNCHANGED <<killed, terminationSignal>>
    BY <1>5 DEF ServerDies, Ends, clock
  <2> QED BY <1>1, <2>1 DEF ReportInv, Collected, Filled, Finished, Exited
<1>6. CASE \/ ServerReads \/ ServerCloses \/ DescendantExits
           \/ \E kind \in ServerKinds : ServerWrites(kind)
           \/ GraceExpires
           \/ Client
  <2>1. UNCHANGED reported
    BY <1>1, <1>6 DEF ServerReads, ServerCloses, DescendantExits, ServerWrites, GraceExpires,
           Client, ClientSends, ClientCloses, ClientReads, ClientLeaves, reported, clock, server
  <2> QED BY <2>1, ReportUntouched
<1> QED BY <1>3, <1>4, <1>5, <1>6 DEF Server

------------------------------------------------------------------------------

\* One step per action of the relay.
LEMMA ReportStep == ReportInv /\ [Next]_vars => ReportInv'
<1> SUFFICES ASSUME ReportInv, [Next]_vars PROVE ReportInv'
  OBVIOUS
<1>1. CASE Launch
  <2>1. \/ pc' = "top" \/ pc' = "exited"
    BY <1>1 DEF Launch
  <2>2. /\ pc = "launch" /\ UNCHANGED <<childReaped, childStatus, killed, runResult, terminationSignal>>
        /\ child' = "running" \/ child' = child
    BY <1>1 DEF Launch, clock
  <2>3. runResult = DefaultResult /\ ~Finished'
    BY <2>2 DEF ReportInv, Filled, Finished, DefaultResult
  <2>4. ~childReaped \/ child' = child
    BY <1>1 DEF Launch, ReportInv, Collected
  <2> QED BY <2>1, <2>2, <2>3, <2>4 DEF ReportInv, Collected, Filled, DefaultResult
<1>2. CASE Top
  <2>1. /\ pc = "top"
        /\ childReaped' = (childReaped \/ child = "zombie")
        /\ child' = IF child = "zombie" THEN "reaped" ELSE child
        /\ killed \subseteq killed'
        /\ UNCHANGED <<childStatus, runResult, terminationSignal>>
        /\ \/ pc' = "finish" /\ childReaped'
           \/ pc' = "poll"
    <3>1. /\ pc = "top"
          /\ childReaped' = (childReaped \/ child = "zombie")
          /\ child' = IF child = "zombie" THEN "reaped" ELSE child
      BY <1>2 DEF Top
    <3>2. killed \subseteq killed'
      BY <1>2 DEF Top
    <3>3. UNCHANGED <<childStatus, runResult, terminationSignal>>
      BY <1>2 DEF Top, clock
    <3>4. \/ pc' = "finish" /\ (childReaped \/ child = "zombie")
          \/ pc' = "poll"
      BY <1>2 DEF Top
    <3> QED BY <3>1, <3>2, <3>3, <3>4
  <2>2. Collected'
    BY <2>1 DEF ReportInv, Collected
  <2>3. Filled'
    BY <2>1 DEF ReportInv, Filled, Finished, Exited
  <2> QED BY <2>2, <2>3 DEF ReportInv
<1>3. CASE LoopEnds
  BY <1>3 DEF LoopEnds, clock, server, ReportInv, Collected, Filled, Finished, Exited
<1>4. CASE Poll
  BY <1>4 DEF Poll, clock, server, ReportInv, Collected, Filled, Finished, Exited
<1>5. CASE ReadStdin
  <2>1. pc = "events" /\ UNCHANGED clock
    BY <1>5 DEF ReadStdin, Turn
  <2>2. Fail(3) \/ Fail(4) \/ (Done("stdin") /\ Alive)
    BY <1>5 DEF ReadStdin
  <2> QED BY <2>1, <2>2, FailKeepsReport, RoundKeepsReport DEF Fail
<1>6. CASE StdinEnds
  <2>1. pc = "events" /\ UNCHANGED clock
    BY <1>6 DEF StdinEnds, Turn
  <2>2. Fail(3) \/ (Done("stdin") /\ Alive)
    BY <1>6 DEF StdinEnds
  <2> QED BY <2>1, <2>2, FailKeepsReport, RoundKeepsReport DEF Fail
<1>7. CASE ReadChildOut
  <2>1. pc = "events" /\ UNCHANGED clock
    BY <1>7 DEF ReadChildOut, Turn
  <2>2. Fail(3) \/ Fail(4) \/ (Done("childOut") /\ Alive)
    BY <1>7 DEF ReadChildOut
  <2> QED BY <2>1, <2>2, FailKeepsReport, RoundKeepsReport DEF Fail
<1>8. CASE ChildOutEnds
  <2>1. pc = "events" /\ UNCHANGED clock
    BY <1>8 DEF ChildOutEnds, Turn
  <2>2. Fail(3) \/ (Done("childOut") /\ Alive)
    BY <1>8 DEF ChildOutEnds
  <2> QED BY <2>1, <2>2, FailKeepsReport, RoundKeepsReport DEF Fail
<1>9. CASE WriteChildIn
  <2>1. pc = "events" /\ UNCHANGED clock /\ Done("childIn") /\ Alive
    BY <1>9 DEF WriteChildIn, Turn
  <2> QED BY <2>1, RoundKeepsReport
<1>10. CASE WriteStdout
  <2>1. pc = "events" /\ UNCHANGED clock
    BY <1>10 DEF WriteStdout, Turn
  <2>2. \/ FailAfter(IF childReaped THEN {} ELSE {SIGTERM}, 4)
        \/ Done("stdout") /\ Alive
    BY <1>10 DEF WriteStdout
  <2> QED BY <2>1, <2>2, FailKeepsReport, RoundKeepsReport
<1>11. CASE FinishStatus
  <2>1. /\ pc = "finish" /\ pc' = "clean" /\ runResult = DefaultResult
        /\ runResult' = [runResult EXCEPT
                           !.child = childStatus,
                           !.proxy = IF terminationSignal # 0
                                     THEN 128 + terminationSignal ELSE childStatus]
        /\ UNCHANGED <<childReaped, child, childStatus, killed, terminationSignal>>
    BY <1>11 DEF FinishStatus, Rest, clock, server, ReportInv, Filled
  <2>2. /\ DOMAIN runResult' = {"child", "proxy", "clean", "reason"}
        /\ runResult'.child = childStatus /\ runResult'.reason = "startup_failure"
        /\ runResult'.proxy # childStatus => terminationSignal # 0
    BY <2>1 DEF DefaultResult
  <2> QED BY <2>1, <2>2 DEF ReportInv, Collected, Filled, Finished, Exited
<1>12. CASE FinishClean
  <2>1. /\ pc = "clean" /\ pc' = "reason"
        /\ runResult' = [runResult EXCEPT !["clean"] = terminationSignal = 0 /\ runResult.child = 0]
        /\ UNCHANGED <<childReaped, child, childStatus, killed, terminationSignal>>
    BY <1>12 DEF FinishClean, Report, Rest, clock, server
  <2>2. /\ DOMAIN runResult' = DOMAIN runResult
        /\ runResult'.child = runResult.child /\ runResult'.reason = runResult.reason
        /\ runResult'.proxy = runResult.proxy
        /\ runResult'.clean = (terminationSignal = 0 /\ runResult.child = 0)
    BY <2>1 DEF ReportInv, Filled
  <2>3. Collected'
    BY <2>1 DEF ReportInv, Collected
  <2>4. Filled'
    BY <2>1, <2>2 DEF ReportInv, Filled, Finished, Exited
  <2> QED BY <2>3, <2>4 DEF ReportInv
<1>13. CASE FinishReason
  <2>1. /\ pc = "reason" /\ pc' = "exited" /\ child' = "reaped" /\ killed \subseteq killed'
        /\ runResult' = [runResult EXCEPT !["reason"] =
                           IF terminationSignal # 0 THEN "signal"
                           ELSE IF runResult.child = 0 THEN "child_exit" ELSE "child_nonzero_exit"]
        /\ UNCHANGED <<childReaped, childStatus, terminationSignal>>
    BY <1>13 DEF FinishReason, Return, Report, clock
  <2>2. /\ DOMAIN runResult' = DOMAIN runResult
        /\ runResult'.child = runResult.child /\ runResult'.clean = runResult.clean
        /\ runResult'.proxy = runResult.proxy
        /\ terminationSignal # 0 => runResult'.reason = "signal"
    BY <2>1 DEF ReportInv, Filled
  <2>3. Collected'
    BY <2>1 DEF ReportInv, Collected
  <2>4. Filled'
    BY <2>1, <2>2 DEF ReportInv, Filled, Finished, Exited
  <2> QED BY <2>3, <2>4 DEF ReportInv
<1>14. CASE SyscallFails
  <2>1. pc \in {"top", "poll", "events"} /\ UNCHANGED clock /\ FailAfter({}, 4)
    BY <1>14 DEF SyscallFails, Fail
  <2> QED BY <2>1, FailKeepsReport
<1>15. CASE Server \/ GraceExpires \/ SignalArrives \/ Client
  BY <1>15, OthersKeepReport
<1>16. CASE UNCHANGED vars
  <2>1. UNCHANGED reported
    BY <1>16 DEF vars, relay, clock, server, reported
  <2> QED BY <2>1, ReportUntouched
<1> QED BY <1>1, <1>2, <1>3, <1>4, <1>5, <1>6, <1>7, <1>8, <1>9, <1>10, <1>11, <1>12, <1>13,
           <1>14, <1>15, <1>16 DEF Next, Relay

\* The inductive invariant of the end of a session.
THEOREM ReportInvHolds == Spec => []ReportInv
<1> QED BY ReportInit, ReportStep, PTL DEF Spec

\* A session that ends regularly reports the status of the server, which it
\* has collected, and which is the server's own unless it was sent a signal.
THEOREM StatusIsCollected == Spec => []StatusIsTheServers
<1>1. ReportInv => StatusIsTheServers
  BY DEF ReportInv, Collected, Filled, StatusIsTheServers, Finished, Exited
<1> QED BY <1>1, ReportInvHolds, PTL

\* Whenever a signal arrives between two fields of the report, a shutdown
\* reported clean has status zero, and a status that is not the server's has
\* the signal for its reason.
THEOREM ReportsAreCoherent == Spec => []ReportCoherent
<1>1. ReportInv => ReportCoherent
  BY DEF ReportInv, Filled, ReportCoherent, Finished, Exited
<1> QED BY <1>1, ReportInvHolds, PTL

------------------------------------------------------------------------------
(* The invariants of the messages                                          *)

Messages == [id : Nat, kind : {"forward", "error", "drop", "oversized"}]
LinesOf(source) == [from : {source}, id : Nat]

\* Every queue, pipe and history is a sequence of its messages or lines.
Typed ==
    /\ clientIn \in Seq(Messages) /\ childOut \in Seq(Messages) /\ produced \in Seq(Messages)
    /\ toChild \in Seq(Lines) /\ toClient \in Seq(Lines)
    /\ childIn \in Seq(Lines) /\ clientOut \in Seq(Lines)
    /\ forwarded \in Seq(Lines) /\ served \in Seq(Lines)
    /\ queued \in Seq(Lines) /\ received \in Seq(Lines)
    /\ sent \in Nat

\* Which places of the loop the descriptors and the process agree with.
Control ==
    /\ pc \in {"launch", "top", "poll", "events", "finish", "clean", "reason", "exited"}
    /\ polled \subseteq {"stdin", "childOut", "childIn", "stdout"}
    /\ {stdinWrite, stdoutRead, inputEof, outputEof, childReaped, sentTermination, sentKill,
        graceOver, childInOpen, childOutOpen, owes, clientReads} \subseteq BOOLEAN
    /\ child \in {"none", "running", "zombie", "reaped"}
    /\ killed \subseteq {SIGTERM, SIGKILL}
    /\ pc = "launch" => polled = {} /\ ~sentTermination /\ ~outputEof
    /\ child = "none" => pc \in {"launch", "exited"}
    /\ pc = "exited" => child \in {"none", "reaped"}
    /\ ~Exited /\ childInOpen => child = "running"

\* The calls of the observer are a sequence.
Heard == \E X : events \in Seq(X)

\* The statuses are bytes, and the observer hears of the end once.
Statuses ==
    /\ childStatus \in 0..255 /\ exitCode \in -1..255
    /\ runResult.child \in -1..255 /\ runResult.proxy \in 0..255
    /\ Heard
    /\ Len(events) <= 2 /\ (~Exited => Len(events) <= 1)

\* What enters the queue to the server fits it, ...
Bounded ==
    /\ Len(toChild) <= ChunkSize
    /\ ~Exited => Len(toClient) <= QueueSize
    /\ "stdin" \in polled => toChild = << >> /\ ~sentTermination
    /\ ~Exited /\ sentTermination => toChild = << >> /\ ~stdinWrite

\* What has been read, what is in the pipe and what is in the queue behind it.
Path(read, pipe, queue) == (read \o pipe) \o queue

Flow ==
    /\ queued = Path(received, clientOut, toClient)
    /\ ~Exited /\ (childInOpen \/ pc = "launch") /\ ~sentTermination => forwarded = Path(served, childIn, toChild)
    /\ \E rest \in Seq(Lines) : forwarded = Path(served, childIn, rest)

\* The end of the server's output is seen when it has been read up and nothing
\* can follow, and the loop is left behind it.
Drained ==
    /\ pc \notin {"launch", "exited"} => stdoutRead = ~outputEof
    /\ outputEof => childOut = << >> /\ ~childOutOpen
    /\ pc = "events" /\ "childOut" \in polled => childOut # << >> \/ ~childOutOpen
    /\ pc \in {"finish", "clean", "reason"} \/ Finished => outputEof /\ toClient = << >>

\* What was queued for the client and what is left to read are what the server
\* wrote for it.
Relayed ==
    ~Exited \/ Finished =>
      Select(queued, LinesOf("server")) \o Kept(childOut, "forward", "server")
        = Kept(produced, "forward", "server")

\* The queues, the pipes and the histories.
flows == <<clientIn, childOut, produced, toChild, toClient, childIn, clientOut, forwarded, served,
           queued, received, sent>>

\* The steps that move no message.
Quiet ==
    \/ Launch \/ LoopEnds \/ Poll \/ StdinEnds \/ ChildOutEnds
    \/ FinishStatus \/ FinishClean \/ FinishReason \/ SyscallFails
    \/ ServerCloses \/ DescendantExits
    \/ \E status \in ChildStatus : ServerExits(status)
    \/ \E signal \in {SIGTERM, SIGKILL} : ServerDies(signal)
    \/ GraceExpires \/ SignalArrives \/ ClientCloses \/ ClientLeaves
    \/ UNCHANGED vars

------------------------------------------------------------------------------
(* The chunks of a read and of a write, and what is kept of them           *)

\* A read cuts a chunk off the front of a pipe.
LEMMA ChunksCut ==
    ASSUME NEW X, NEW pipe \in Seq(X), NEW chunk \in Chunks(pipe)
    PROVE  /\ chunk \in Seq(X) /\ Len(chunk) \in Nat /\ Len(chunk) <= ChunkSize
           /\ pipe # << >>
           /\ After(pipe, chunk) \in Seq(X) /\ pipe = chunk \o After(pipe, chunk)
<1>1. PICK n \in 1..(IF ChunkSize < Len(pipe) THEN ChunkSize ELSE Len(pipe)) : chunk = SubSeq(pipe, 1, n)
  BY DEF Chunks
<1>2. Len(pipe) \in Nat /\ n \in 1..Len(pipe) /\ n <= ChunkSize
  BY RelayAssumption, LenProperties
<1>3. chunk \in Seq(X) /\ Len(chunk) = n
  BY <1>1, <1>2, SubSeqProperties, ElementOfSeq
<1>4. After(pipe, chunk) = SubSeq(pipe, n + 1, Len(pipe))
  BY <1>3 DEF After
<1>5. SubSeq(pipe, n + 1, Len(pipe)) \in Seq(X)
  BY <1>2, SubSeqProperties, ElementOfSeq
<1>6. SubSeq(pipe, 1, n) \o SubSeq(pipe, n + 1, Len(pipe)) = SubSeq(pipe, 1, Len(pipe))
  BY <1>2, ConcatAdjacentSubSeq
<1>7. SubSeq(pipe, 1, Len(pipe)) = pipe
  BY SubSeqFull
<1>8. pipe # << >>
  BY <1>2, EmptySeq
<1>9. Len(chunk) \in Nat /\ Len(chunk) <= ChunkSize
  BY <1>2, <1>3
<1> QED BY ONLY <1>1, <1>3, <1>4, <1>5, <1>6, <1>7, <1>8, <1>9

\* So does a write to a queue.
LEMMA FlushedCut ==
    ASSUME NEW X, NEW queue \in Seq(X), NEW pipe \in Seq(X), NEW part \in Flushed(queue, pipe)
    PROVE  /\ part \in Seq(X) /\ After(queue, part) \in Seq(X) /\ queue # << >>
           /\ Len(After(queue, part)) <= Len(queue) /\ queue = part \o After(queue, part)
<1>1. PICK n \in 1..(IF PipeSize - Len(pipe) < Len(queue) THEN PipeSize - Len(pipe) ELSE Len(queue)) :
        part = SubSeq(queue, 1, n)
  BY DEF Flushed
<1>2. Len(queue) \in Nat /\ n \in 1..Len(queue)
  BY RelayAssumption, LenProperties
<1>3. part \in Seq(X) /\ Len(part) = n
  BY <1>1, <1>2, SubSeqProperties, ElementOfSeq
<1>4. After(queue, part) = SubSeq(queue, n + 1, Len(queue))
  BY <1>3 DEF After
<1>5. SubSeq(queue, n + 1, Len(queue)) \in Seq(X) /\ Len(SubSeq(queue, n + 1, Len(queue))) <= Len(queue)
  BY <1>2, SubSeqProperties, ElementOfSeq
<1>6. SubSeq(queue, 1, n) \o SubSeq(queue, n + 1, Len(queue)) = SubSeq(queue, 1, Len(queue))
  BY <1>2, ConcatAdjacentSubSeq
<1>7. SubSeq(queue, 1, Len(queue)) = queue
  BY SubSeqFull
<1>8. queue # << >>
  BY <1>2, EmptySeq
<1> QED BY ONLY <1>1, <1>3, <1>4, <1>5, <1>6, <1>7, <1>8

\* The framer emits messages of the chunk, all of them if none is too long.
LEMMA FramedOf ==
    ASSUME NEW chunk \in Seq(Messages)
    PROVE  /\ Framed(chunk) \in Seq(Messages) /\ Len(Framed(chunk)) <= Len(chunk)
           /\ ~Oversized(chunk) => Framed(chunk) = chunk
<1> DEFINE clean == {i \in DOMAIN chunk : \A j \in 1..i : chunk[j].kind # "oversized"}
           n == Cardinality(clean)
<1>1. Len(chunk) \in Nat /\ DOMAIN chunk = 1..Len(chunk)
  BY LenProperties
<1>2. IsFiniteSet(1..Len(chunk)) /\ Cardinality(1..Len(chunk)) = Len(chunk)
  <2> DEFINE k == Len(chunk)
  <2>1. k \in Int /\ 1 \in Int /\ (1 > k => k = 0) /\ k - 1 + 1 = k
    BY <1>1
  <2> HIDE DEF k
  <2>2. IsFiniteSet(1..k) /\ Cardinality(1..k) = k
    BY ONLY <2>1, FS_Interval
  <2> QED BY ONLY <2>2 DEF k
<1>3. clean \subseteq 1..Len(chunk)
  BY <1>1
<1>4. n \in Nat /\ n <= Len(chunk)
  BY <1>2, <1>3, FS_Subset, FS_CardinalityType
<1>5. Framed(chunk) = SubSeq(chunk, 1, n)
  BY DEF Framed
<1> HIDE DEF n
<1>6. SubSeq(chunk, 1, n) \in Seq(Messages) /\ Len(SubSeq(chunk, 1, n)) <= Len(chunk)
  <2>1. \A i \in 1..n : chunk[i] \in Messages
    BY <1>1, <1>4, ElementOfSeq
  <2> QED BY <1>1, <1>4, <2>1, SubSeqProperties
<1>7. ASSUME ~Oversized(chunk) PROVE Framed(chunk) = chunk
  <2>1. clean = 1..Len(chunk)
    BY <1>1, <1>7 DEF Oversized
  <2>2. n = Len(chunk)
    BY <1>2, <2>1 DEF n
  <2> QED BY <1>5, <2>2, SubSeqFull
<1> QED BY <1>5, <1>6, <1>7

\* What is kept of messages are as many lines as were chosen, in that order.
LEMMA KeptOf ==
    ASSUME NEW messages \in Seq(Messages), NEW kind, NEW source
    PROVE  /\ Kept(messages, kind, source) \in Seq(LinesOf(source))
           /\ Len(Kept(messages, kind, source)) <= Len(messages)
<1> DEFINE S == [id : Nat, kind : {kind}]
           chosen == Select(messages, S)
           kept == [i \in 1..Len(chosen) |-> [from |-> source, id |-> chosen[i].id]]
<1>1. chosen \in Seq(Messages \cap S) /\ Len(chosen) <= Len(messages)
  BY SelectType
<1> HIDE DEF chosen
<1>2. Len(chosen) \in Nat /\ DOMAIN chosen = 1..Len(chosen)
  BY <1>1, LenProperties
<1>3. Kept(messages, kind, source) = kept
  BY <1>2 DEF Kept, chosen
<1>4. \A i \in 1..Len(chosen) : [from |-> source, id |-> chosen[i].id] \in LinesOf(source)
  BY <1>1, ElementOfSeq DEF Messages, LinesOf
<1>5. kept \in [1..Len(chosen) -> LinesOf(source)]
  BY <1>4
<1>6. kept \in Seq(LinesOf(source))
  BY <1>2, <1>5, SeqDef
<1>7. Len(kept) = Len(chosen)
  BY <1>2
<1> QED BY <1>1, <1>3, <1>6, <1>7

\* Nothing is kept of nothing.
LEMMA KeptOfNone == ASSUME NEW kind, NEW source PROVE Kept(<< >>, kind, source) = << >>
<1>1. << >> \in Seq(Messages) /\ Len(<< >>) = 0
  BY EmptySeq
<1>2. Kept(<< >>, kind, source) \in Seq(LinesOf(source)) /\ Len(Kept(<< >>, kind, source)) <= 0
  BY <1>1, KeptOf
<1> QED BY <1>2, EmptySeq, LenProperties

\* Keeping messages of two sequences one after the other.
LEMMA KeptOfBoth ==
    ASSUME NEW p \in Seq(Messages), NEW q \in Seq(Messages), NEW kind, NEW source
    PROVE  Kept(p \o q, kind, source) = Kept(p, kind, source) \o Kept(q, kind, source)
<1> DEFINE S == [id : Nat, kind : {kind}]
           T == Messages \cap S
           a == Select(p, S)
           b == Select(q, S)
           lines(s) == [i \in DOMAIN s |-> [from |-> source, id |-> s[i].id]]
<1>1. Select(p \o q, S) = a \o b
  BY SelectConcat
<1>2. a \in Seq(T) /\ b \in Seq(T)
  BY SelectType
<1>3. /\ Kept(p, kind, source) = lines(a) /\ Kept(q, kind, source) = lines(b)
      /\ Kept(p \o q, kind, source) = lines(Select(p \o q, S))
  BY DEF Kept
<1> HIDE DEF a, b, T
<1>4. /\ Len(a) \in Nat /\ Len(b) \in Nat /\ DOMAIN a = 1..Len(a) /\ DOMAIN b = 1..Len(b)
      /\ Len(a \o b) = Len(a) + Len(b) /\ DOMAIN (a \o b) = 1..(Len(a) + Len(b))
      /\ \A i \in 1..(Len(a) + Len(b)) : (a \o b)[i] = IF i <= Len(a) THEN a[i] ELSE b[i - Len(a)]
  BY <1>2, LenProperties, ConcatProperties
<1>5. lines(a \o b) = lines(a) \o lines(b)
  <2>0. \A s \in Seq(Messages) : Kept(s, kind, source) \in Seq(LinesOf(source))
    BY ONLY KeptOf
  <2>1. /\ lines(a) \in Seq(LinesOf(source)) /\ lines(b) \in Seq(LinesOf(source))
    <3>1. /\ Kept(p, kind, source) \in Seq(LinesOf(source))
          /\ Kept(q, kind, source) \in Seq(LinesOf(source))
      BY ONLY <2>0, p \in Seq(Messages), q \in Seq(Messages)
    <3> HIDE DEF lines
    <3> QED BY ONLY <1>3, <3>1
  <2>2. lines(a \o b) \in Seq(LinesOf(source))
    <3>1. p \o q \in Seq(Messages)
      BY ConcatProperties
    <3>2. Kept(p \o q, kind, source) \in Seq(LinesOf(source))
      BY ONLY <2>0, <3>1
    <3> HIDE DEF lines
    <3> QED BY ONLY <1>1, <1>3, <3>2
  <2>3. Len(lines(a)) = Len(a) /\ Len(lines(b)) = Len(b) /\ Len(lines(a \o b)) = Len(a) + Len(b)
    BY <1>4
  <2>4. ASSUME NEW i \in 1..(Len(a) + Len(b)) PROVE lines(a \o b)[i] = (lines(a) \o lines(b))[i]
    <3>1. lines(a \o b)[i] = [from |-> source, id |-> (a \o b)[i].id]
      BY <1>4
    <3>2. (lines(a) \o lines(b))[i] = IF i <= Len(a) THEN lines(a)[i] ELSE lines(b)[i - Len(a)]
      <4> HIDE DEF lines
      <4> QED BY <2>1, <2>3, ConcatProperties
    <3>3. CASE i <= Len(a)
      BY <1>4, <3>1, <3>2, <3>3
    <3>4. CASE ~(i <= Len(a))
      <4>1. i - Len(a) \in 1..Len(b)
        BY <1>4, <3>4
      <4> QED BY <1>4, <3>1, <3>2, <3>4, <4>1
    <3> QED BY <3>3, <3>4
  <2>5. lines(a) \o lines(b) \in Seq(LinesOf(source)) /\ Len(lines(a) \o lines(b)) = Len(a) + Len(b)
    <3>1. \A u, v \in Seq(LinesOf(source)) :
            u \o v \in Seq(LinesOf(source)) /\ Len(u \o v) = Len(u) + Len(v)
      BY ConcatProperties
    <3> HIDE DEF lines
    <3> QED BY ONLY <2>1, <2>3, <3>1
  <2> HIDE DEF lines
  <2> QED BY <2>2, <2>3, <2>4, <2>5, SeqEqual
<1> QED BY <1>1, <1>3, <1>5

------------------------------------------------------------------------------
(* The types of the flows                                                  *)

\* A quiet step leaves every flow as it is.
LEMMA QuietMovesNothing == Quiet => UNCHANGED flows
<1> SUFFICES ASSUME Quiet PROVE UNCHANGED flows
  OBVIOUS
<1>1. CASE Launch
  BY <1>1 DEF Launch, flows, client, ghosts
<1>2. CASE LoopEnds \/ Poll
  BY <1>2 DEF LoopEnds, Poll, flows, server, client, ghosts
<1>3. CASE StdinEnds
  BY <1>3 DEF StdinEnds, Fail, FailAfter, Return, flows, client, ghosts
<1>4. CASE ChildOutEnds
  BY <1>4 DEF ChildOutEnds, Fail, FailAfter, Return, flows, client, ghosts
<1>5. CASE FinishStatus \/ FinishClean
  BY <1>5 DEF FinishStatus, FinishClean, Rest, flows, server, client, ghosts
<1>6. CASE FinishReason
  BY <1>6 DEF FinishReason, Return, flows, client, ghosts
<1>7. CASE SyscallFails
  BY <1>7 DEF SyscallFails, Fail, FailAfter, Return, flows, client, ghosts
<1>8. CASE ServerCloses \/ DescendantExits
  BY <1>8 DEF ServerCloses, DescendantExits, Still, flows, relay, client, ghosts
<1>9. CASE \E status \in ChildStatus : ServerExits(status)
  BY <1>9 DEF ServerExits, Ends, Still, flows, relay, client, ghosts
<1>10. CASE \E signal \in {SIGTERM, SIGKILL} : ServerDies(signal)
  BY <1>10 DEF ServerDies, Ends, Still, flows, relay, client, ghosts
<1>11. CASE GraceExpires \/ SignalArrives
  BY <1>11 DEF GraceExpires, SignalArrives, Still, flows, relay, server, client, ghosts
<1>12. CASE ClientCloses \/ ClientLeaves
  BY <1>12 DEF ClientCloses, ClientLeaves, flows, relay, server, ghosts
<1>13. CASE UNCHANGED vars
  BY <1>13 DEF vars, flows, relay, server, client, ghosts
<1> QED BY <1>1, <1>2, <1>3, <1>4, <1>5, <1>6, <1>7, <1>8, <1>9, <1>10, <1>11, <1>12, <1>13 DEF Quiet

\* Every step is quiet or one that moves messages.
LEMMA StepsAreQuietOrMove ==
    ASSUME [Next]_vars
    PROVE  \/ Quiet \/ Top \/ ReadStdin \/ ReadChildOut \/ WriteChildIn \/ WriteStdout
           \/ ServerReads \/ ClientReads
           \/ \E kind \in ServerKinds : ServerWrites(kind)
           \/ \E kind \in ClientKinds : ClientSends(kind)
BY DEF Next, Relay, Server, Client, Quiet

\* What a read of stdin adds to each queue.
LEMMA StdinRead ==
    ASSUME Typed, ReadStdin
    PROVE  \E toServer \in Seq(Lines), replies \in Seq(LinesOf("guard")) :
             /\ Len(toServer) <= ChunkSize
             /\ clientIn' \in Seq(Messages)
             /\ toChild' = toChild \o toServer /\ forwarded' = forwarded \o toServer
             /\ toClient' = toClient \o replies /\ queued' = queued \o replies
             /\ \/ Fail(3) \/ Fail(4)
                \/ /\ Len(toClient) + Len(replies) <= QueueSize
                   /\ Done("stdin") /\ Alive
                   /\ UNCHANGED <<stdinWrite, stdoutRead, inputEof, outputEof, childIn, childOut,
                                  childInOpen, childOutOpen, owes, notices, produced>>
<1>1. PICK chunk \in Chunks(clientIn) :
        /\ clientIn' = After(clientIn, chunk)
        /\ toChild' = toChild \o Kept(Framed(chunk), "forward", "client")
        /\ forwarded' = forwarded \o Kept(Framed(chunk), "forward", "client")
        /\ toClient' = toClient \o Kept(Framed(chunk), "error", "guard")
        /\ queued' = queued \o Kept(Framed(chunk), "error", "guard")
        /\ \/ Fail(3) \/ Fail(4)
           \/ /\ Len(toClient) + Len(Kept(Framed(chunk), "error", "guard")) <= QueueSize
              /\ Done("stdin") /\ Alive
              /\ UNCHANGED <<stdinWrite, stdoutRead, inputEof, outputEof, childIn, childOut,
                             childInOpen, childOutOpen, owes, notices, produced>>
  BY DEF ReadStdin
<1>2. /\ chunk \in Seq(Messages) /\ Len(chunk) \in Nat /\ Len(chunk) <= ChunkSize
      /\ After(clientIn, chunk) \in Seq(Messages)
  BY ChunksCut DEF Typed
<1>3. Framed(chunk) \in Seq(Messages) /\ Len(Framed(chunk)) <= Len(chunk)
  BY <1>2, FramedOf
<1> DEFINE toServer == Kept(Framed(chunk), "forward", "client")
           replies == Kept(Framed(chunk), "error", "guard")
<1>4. toServer \in Seq(LinesOf("client")) /\ Len(toServer) <= Len(Framed(chunk))
  BY <1>3, KeptOf
<1>5. replies \in Seq(LinesOf("guard"))
  BY <1>3, KeptOf
<1>6. toServer \in Seq(Lines)
  <2>1. LinesOf("client") \subseteq Lines
    BY DEF Lines, LinesOf
  <2> HIDE DEF toServer
  <2> QED BY <1>4, <2>1, SeqMonotonic
<1>7. Len(toServer) <= ChunkSize
  <2>1. Len(toServer) \in Nat /\ Len(Framed(chunk)) \in Nat /\ ChunkSize \in Nat
    BY <1>3, <1>6, LenProperties, RelayAssumption
  <2> QED BY ONLY <1>2, <1>3, <1>4, <2>1
<1> HIDE DEF toServer, replies
<1> QED BY <1>1, <1>2, <1>5, <1>6, <1>7 DEF toServer, replies

\* What a read of the server's output adds to the queue to the client.
LEMMA ChildOutRead ==
    ASSUME Typed, ReadChildOut
    PROVE  \E chunk \in Seq(Messages), rest \in Seq(Messages), lines \in Seq(LinesOf("server")) :
             /\ childOut = chunk \o rest /\ childOut # << >>
             /\ toClient' = toClient \o lines /\ queued' = queued \o lines
             /\ \/ Fail(3) \/ Fail(4)
                \/ /\ lines = Kept(chunk, "forward", "server")
                   /\ Len(toClient) + Len(lines) <= QueueSize
                   /\ childOut' = rest
                   /\ Done("childOut") /\ Alive
                   /\ UNCHANGED <<stdinWrite, stdoutRead, inputEof, outputEof, childIn,
                                  childInOpen, childOutOpen, owes, notices, produced>>
<1>1. PICK chunk \in Chunks(childOut) :
        /\ toClient' = toClient \o Kept(Framed(chunk), "forward", "server")
        /\ queued' = queued \o Kept(Framed(chunk), "forward", "server")
        /\ \/ Fail(3) \/ Fail(4)
           \/ /\ ~Oversized(chunk)
              /\ Len(toClient) + Len(Kept(Framed(chunk), "forward", "server")) <= QueueSize
              /\ childOut' = After(childOut, chunk)
              /\ Done("childOut") /\ Alive
              /\ UNCHANGED <<stdinWrite, stdoutRead, inputEof, outputEof, childIn,
                             childInOpen, childOutOpen, owes, notices, produced>>
  BY DEF ReadChildOut
<1>2. /\ chunk \in Seq(Messages) /\ After(childOut, chunk) \in Seq(Messages)
      /\ childOut = chunk \o After(childOut, chunk) /\ childOut # << >>
  BY ChunksCut DEF Typed
<1>3. Framed(chunk) \in Seq(Messages) /\ (~Oversized(chunk) => Framed(chunk) = chunk)
  BY <1>2, FramedOf
<1> DEFINE lines == Kept(Framed(chunk), "forward", "server")
<1>4. lines \in Seq(LinesOf("server"))
  BY <1>3, KeptOf
<1>5. ~Oversized(chunk) => lines = Kept(chunk, "forward", "server")
  BY <1>3
<1> HIDE DEF lines
<1> QED BY <1>1, <1>2, <1>4, <1>5 DEF lines

\* Whatever moves, every flow goes on to be a sequence of its messages or lines.
LEMMA TypedStep == Typed /\ [Next]_vars => Typed'
<1> SUFFICES ASSUME Typed, [Next]_vars PROVE Typed'
  OBVIOUS
<1>0. ASSUME NEW X, NEW s \in Seq(X), NEW t \in Seq(X) PROVE s \o t \in Seq(X)
  BY ConcatProperties
<1>1. CASE Quiet
  BY <1>1, QuietMovesNothing DEF flows, Typed
<1>2. CASE Top
  <2>1. toChild' = << >> \/ toChild' = toChild
    BY <1>2 DEF Top
  <2>2. << >> \in Seq(Lines)
    BY EmptySeq
  <2>3. UNCHANGED <<clientIn, childOut, produced, toClient, childIn, clientOut, forwarded,
                    served, queued, received, sent>>
    BY <1>2 DEF Top, client, ghosts
  <2> QED BY <2>1, <2>2, <2>3 DEF Typed
<1>3. CASE ReadStdin
  <2>1. PICK toServer \in Seq(Lines), replies \in Seq(LinesOf("guard")) :
          /\ clientIn' \in Seq(Messages)
          /\ toChild' = toChild \o toServer /\ forwarded' = forwarded \o toServer
          /\ toClient' = toClient \o replies /\ queued' = queued \o replies
          /\ UNCHANGED <<childIn, childOut, produced>>
    BY <1>3, StdinRead DEF Fail, FailAfter, Return
  <2>2. replies \in Seq(Lines)
    BY SeqMonotonic DEF Lines, LinesOf
  <2>3. UNCHANGED <<clientOut, served, received, sent>>
    BY <1>3 DEF ReadStdin
  <2>4. /\ toChild \o toServer \in Seq(Lines) /\ forwarded \o toServer \in Seq(Lines)
        /\ toClient \o replies \in Seq(Lines) /\ queued \o replies \in Seq(Lines)
    BY <1>0, <2>2 DEF Typed
  <2> QED BY ONLY <2>1, <2>3, <2>4, Typed DEF Typed
<1>4. CASE ReadChildOut
  <2>1. PICK lines \in Seq(LinesOf("server")) :
          /\ toClient' = toClient \o lines /\ queued' = queued \o lines
          /\ childOut' \in Seq(Messages)
          /\ UNCHANGED <<childIn, produced>>
    BY <1>4, ChildOutRead DEF Fail, FailAfter, Return, Typed
  <2>2. lines \in Seq(Lines)
    BY SeqMonotonic DEF Lines, LinesOf
  <2>3. UNCHANGED <<toChild, clientIn, clientOut, sent, forwarded, served, received>>
    BY <1>4 DEF ReadChildOut, client
  <2>4. toClient \o lines \in Seq(Lines) /\ queued \o lines \in Seq(Lines)
    BY <1>0, <2>2 DEF Typed
  <2> QED BY ONLY <2>1, <2>3, <2>4, Typed DEF Typed
<1>5. CASE WriteChildIn
  <2>1. childIn' \in Seq(Lines) /\ toChild' \in Seq(Lines)
    <3>1. CASE \E part \in Flushed(toChild, childIn) :
                 childIn' = childIn \o part /\ toChild' = After(toChild, part)
      BY <1>0, <3>1, FlushedCut DEF Typed
    <3>2. CASE UNCHANGED childIn /\ toChild' = << >>
      BY <3>2, EmptySeq DEF Typed
    <3> QED BY <1>5, <3>1, <3>2 DEF WriteChildIn
  <2>2. UNCHANGED <<clientIn, childOut, produced, toClient, clientOut, forwarded, served, queued,
                    received, sent>>
    BY <1>5 DEF WriteChildIn, client, ghosts
  <2> QED BY ONLY <2>1, <2>2, Typed DEF Typed
<1>6. CASE WriteStdout
  <2>1. clientOut' \in Seq(Lines) /\ toClient' \in Seq(Lines)
    <3>1. CASE \E part \in Flushed(toClient, clientOut) :
                 clientOut' = clientOut \o part /\ toClient' = After(toClient, part)
      BY <1>0, <3>1, FlushedCut DEF Typed
    <3>2. CASE UNCHANGED <<clientOut, toClient>>
      BY <3>2 DEF Typed
    <3> QED BY <1>6, <3>1, <3>2 DEF WriteStdout
  <2>2. UNCHANGED <<clientIn, childOut, produced, toChild, childIn, forwarded, served, queued,
                    received, sent>>
    BY <1>6 DEF WriteStdout, FailAfter, Return, ghosts
  <2> QED BY ONLY <2>1, <2>2, Typed DEF Typed
<1>7. CASE ServerReads
  <2>1. /\ childIn # << >> /\ served' = Append(served, Head(childIn)) /\ childIn' = Tail(childIn)
        /\ UNCHANGED <<clientIn, childOut, produced, toChild, toClient, clientOut, forwarded,
                       queued, received, sent>>
    BY <1>7 DEF ServerReads, Still, relay, client
  <2>2. Append(served, Head(childIn)) \in Seq(Lines) /\ Tail(childIn) \in Seq(Lines)
    BY <2>1, HeadTailProperties, AppendProperties DEF Typed
  <2> QED BY ONLY <2>1, <2>2, Typed DEF Typed
<1>8. CASE ClientReads
  <2>1. /\ clientOut # << >> /\ received' = Append(received, Head(clientOut))
        /\ clientOut' = Tail(clientOut)
        /\ UNCHANGED <<clientIn, childOut, produced, toChild, toClient, childIn, forwarded,
                       served, queued, sent>>
    BY <1>8 DEF ClientReads, relay, server
  <2>2. Append(received, Head(clientOut)) \in Seq(Lines) /\ Tail(clientOut) \in Seq(Lines)
    BY <2>1, HeadTailProperties, AppendProperties DEF Typed
  <2> QED BY ONLY <2>1, <2>2, Typed DEF Typed
<1>9. CASE \E kind \in ServerKinds : ServerWrites(kind)
  <2>1. PICK kind \in ServerKinds : ServerWrites(kind)
    BY <1>9
  <2> DEFINE m == [id |-> Len(produced) + 1, kind |-> kind]
  <2>2. /\ childOut' = Append(childOut, m) /\ produced' = Append(produced, m)
        /\ UNCHANGED <<clientIn, toChild, toClient, childIn, clientOut, forwarded, served,
                       queued, received, sent>>
    BY <2>1 DEF ServerWrites, Still, relay, client, ghosts
  <2>3. m \in Messages
    BY LenProperties, RelayAssumption DEF Messages, Typed
  <2>4. Append(childOut, m) \in Seq(Messages) /\ Append(produced, m) \in Seq(Messages)
    BY <2>3, AppendProperties DEF Typed
  <2> QED BY ONLY <2>2, <2>4, Typed DEF Typed
<1>10. CASE \E kind \in ClientKinds : ClientSends(kind)
  <2>1. PICK kind \in ClientKinds : ClientSends(kind)
    BY <1>10
  <2> DEFINE m == [id |-> sent + 1, kind |-> kind]
  <2>2. /\ clientIn' = Append(clientIn, m) /\ sent' = sent + 1
        /\ UNCHANGED <<childOut, produced, toChild, toClient, childIn, clientOut, forwarded,
                       served, queued, received>>
    BY <2>1 DEF ClientSends, relay, server, ghosts
  <2>3. m \in Messages /\ sent + 1 \in Nat
    BY RelayAssumption DEF Messages, Typed
  <2>4. Append(clientIn, m) \in Seq(Messages)
    BY <2>3, AppendProperties DEF Typed
  <2> QED BY ONLY <2>2, <2>3, <2>4, Typed DEF Typed
<1> QED BY <1>1, <1>2, <1>3, <1>4, <1>5, <1>6, <1>7, <1>8, <1>9, <1>10, StepsAreQuietOrMove

------------------------------------------------------------------------------
(* The places of the loop                                                  *)

\* What Control speaks of.
controls == <<pc, polled, stdinWrite, stdoutRead, inputEof, outputEof, childReaped, sentTermination,
              sentKill, child, killed, childInOpen, childOutOpen, owes>>

\* The clock and the client move no descriptor of the relay.
LEMMA ControlUntouched ==
    ASSUME Control, UNCHANGED controls, graceOver' \in BOOLEAN, clientReads' \in BOOLEAN
    PROVE  Control'
BY DEF Control, Exited, controls

\* A return is the end: nothing but the loop asks what is open.
LEMMA ReturnKeepsControl ==
    ASSUME Control, NEW signals, signals \subseteq {SIGTERM, SIGKILL}, NEW code,
           FailAfter(signals, code), UNCHANGED <<clock, clientReads>>
    PROVE  Control'
BY DEF Control, Exited, FailAfter, Return, clock

\* A system call that succeeds stays in the round or ends it.
LEMMA RoundKeepsControl ==
    ASSUME Control, pc = "events", NEW d, Done(d), Alive,
           UNCHANGED <<owes, childInOpen, childOutOpen, clock, clientReads>>,
           stdinWrite' \in BOOLEAN, stdoutRead' \in BOOLEAN,
           inputEof' \in BOOLEAN, outputEof' \in BOOLEAN
    PROVE  Control'
BY DEF Control, Exited, Done, Alive, clock

\* Each step leaves the descriptors and the process in agreement with the loop.
LEMMA ControlStep == Control /\ ReportInv /\ [Next]_vars => Control'
<1> SUFFICES ASSUME Control, ReportInv, [Next]_vars PROVE Control'
  OBVIOUS
<1>1. CASE Launch
  <2>1. /\ pc = "launch" /\ UNCHANGED <<inputEof, outputEof, childReaped, sentTermination, sentKill>>
        /\ UNCHANGED <<graceOver, owes, clientReads, killed, polled>>
    BY <1>1 DEF Launch, clock, client
  <2>2. \/ /\ pc' = "top" /\ child' = "running"
           /\ childInOpen' = TRUE /\ childOutOpen' = TRUE /\ stdinWrite' = TRUE /\ stdoutRead' = TRUE
        \/ /\ pc' = "exited"
           /\ UNCHANGED <<child, childInOpen, childOutOpen, stdinWrite, stdoutRead>>
    BY <1>1 DEF Launch
  <2>3. child = "none"
    BY <2>1 DEF ReportInv, Collected
  <2> QED BY <2>1, <2>2, <2>3 DEF Control, Exited
<1>2. CASE Top
  <2>1. /\ pc = "top" /\ pc' \in {"finish", "poll"}
        /\ polled' \subseteq {"stdin", "childOut", "childIn", "stdout"}
    BY <1>2 DEF Top
  <2>2. /\ child' = IF child = "zombie" THEN "reaped" ELSE child
        /\ UNCHANGED <<inputEof, outputEof, stdoutRead, graceOver, childInOpen, childOutOpen, owes,
                       clientReads>>
    BY <1>2 DEF Top, clock, client
  <2>3. {childReaped, stdinWrite, sentTermination, sentKill}' \subseteq BOOLEAN
    BY <1>2 DEF Top, Escalate, KeepsInput, Control
  <2>4. killed' \subseteq {SIGTERM, SIGKILL}
    BY <1>2 DEF Top, Control
  <2> QED BY <2>1, <2>2, <2>3, <2>4 DEF Control, Exited
<1>3. CASE LoopEnds
  BY <1>3 DEF Control, Exited, LoopEnds, clock, server, client
<1>4. CASE Poll
  BY <1>4 DEF Control, Exited, Poll, clock, server, client
<1>5. CASE ReadStdin
  <2>1. pc = "events" /\ UNCHANGED <<clock, clientReads>>
    BY <1>5 DEF ReadStdin, Turn, client
  <2>2. \/ Fail(3) \/ Fail(4)
        \/ /\ Done("stdin") /\ Alive /\ UNCHANGED <<owes, childInOpen, childOutOpen>>
           /\ stdinWrite' \in BOOLEAN /\ stdoutRead' \in BOOLEAN
           /\ inputEof' \in BOOLEAN /\ outputEof' \in BOOLEAN
    BY <1>5 DEF ReadStdin, Control
  <2> QED BY <2>1, <2>2, ReturnKeepsControl, RoundKeepsControl DEF Fail
<1>6. CASE StdinEnds
  <2>1. pc = "events" /\ UNCHANGED <<clock, clientReads>>
    BY <1>6 DEF StdinEnds, Turn, client
  <2>2. \/ Fail(3)
        \/ /\ Done("stdin") /\ Alive /\ UNCHANGED <<owes, childInOpen, childOutOpen>>
           /\ stdinWrite' \in BOOLEAN /\ stdoutRead' \in BOOLEAN
           /\ inputEof' \in BOOLEAN /\ outputEof' \in BOOLEAN
    BY <1>6 DEF StdinEnds, Control
  <2> QED BY <2>1, <2>2, ReturnKeepsControl, RoundKeepsControl DEF Fail
<1>7. CASE ReadChildOut
  <2>1. pc = "events" /\ UNCHANGED <<clock, clientReads>>
    BY <1>7 DEF ReadChildOut, Turn, client
  <2>2. \/ Fail(3) \/ Fail(4)
        \/ /\ Done("childOut") /\ Alive /\ UNCHANGED <<owes, childInOpen, childOutOpen>>
           /\ stdinWrite' \in BOOLEAN /\ stdoutRead' \in BOOLEAN
           /\ inputEof' \in BOOLEAN /\ outputEof' \in BOOLEAN
    BY <1>7 DEF ReadChildOut, Control
  <2> QED BY <2>1, <2>2, ReturnKeepsControl, RoundKeepsControl DEF Fail
<1>8. CASE ChildOutEnds
  <2>1. pc = "events" /\ UNCHANGED <<clock, clientReads>>
    BY <1>8 DEF ChildOutEnds, Turn, client
  <2>2. \/ Fail(3)
        \/ /\ Done("childOut") /\ Alive /\ UNCHANGED <<owes, childInOpen, childOutOpen>>
           /\ stdinWrite' \in BOOLEAN /\ stdoutRead' \in BOOLEAN
           /\ inputEof' \in BOOLEAN /\ outputEof' \in BOOLEAN
    BY <1>8 DEF ChildOutEnds, Control
  <2> QED BY <2>1, <2>2, ReturnKeepsControl, RoundKeepsControl DEF Fail
<1>9. CASE WriteChildIn
  <2>1. /\ pc = "events" /\ UNCHANGED <<clock, clientReads>> /\ Done("childIn") /\ Alive
        /\ UNCHANGED <<owes, childInOpen, childOutOpen>>
    BY <1>9 DEF WriteChildIn, Turn, client
  <2>2. /\ stdinWrite' \in BOOLEAN /\ stdoutRead' \in BOOLEAN
        /\ inputEof' \in BOOLEAN /\ outputEof' \in BOOLEAN
    BY <1>9 DEF WriteChildIn, Control
  <2> QED BY <2>1, <2>2, RoundKeepsControl
<1>10. CASE WriteStdout
  <2>1. pc = "events" /\ UNCHANGED <<clock, clientReads>>
    BY <1>10 DEF WriteStdout, Turn
  <2>2. \/ FailAfter(IF childReaped THEN {} ELSE {SIGTERM}, 4)
        \/ /\ Done("stdout") /\ Alive /\ UNCHANGED <<owes, childInOpen, childOutOpen>>
           /\ stdinWrite' \in BOOLEAN /\ stdoutRead' \in BOOLEAN
           /\ inputEof' \in BOOLEAN /\ outputEof' \in BOOLEAN
    BY <1>10 DEF WriteStdout, Control
  <2> QED BY <2>1, <2>2, ReturnKeepsControl, RoundKeepsControl
<1>11. CASE FinishStatus
  BY <1>11 DEF Control, Exited, FinishStatus, Rest, clock, server, client
<1>12. CASE FinishClean
  BY <1>12 DEF Control, Exited, FinishClean, Report, Rest, clock, server, client
<1>13. CASE FinishReason
  BY <1>13 DEF Control, Exited, FinishReason, Return, clock, client
<1>14. CASE SyscallFails
  BY <1>14 DEF Control, Exited, SyscallFails, Fail, FailAfter, Return, clock, client
<1>15. CASE ServerReads
  BY <1>15 DEF Control, Exited, ServerReads, Still, relay, clock, client
<1>16. CASE ServerCloses \/ DescendantExits
  <2>1. /\ UNCHANGED relay /\ UNCHANGED clock /\ UNCHANGED <<child, killed, owes, clientReads>>
    BY <1>16 DEF ServerCloses, DescendantExits, Still, client
  <2>2. /\ childInOpen' = childInOpen \/ childInOpen' = FALSE
        /\ childOutOpen' = childOutOpen \/ childOutOpen' = FALSE
    BY <1>16 DEF ServerCloses, DescendantExits
  <2>3. childInOpen' \in BOOLEAN /\ childOutOpen' \in BOOLEAN
    <3>1. childInOpen \in BOOLEAN /\ childOutOpen \in BOOLEAN
      BY DEF Control
    <3> QED BY <2>2, <3>1, Zenon
  <2>4. childInOpen' => childInOpen
    BY <2>2
  <2> QED BY <2>1, <2>3, <2>4 DEF Control, Exited, relay, clock
<1>17. CASE \E kind \in ServerKinds : ServerWrites(kind)
  <2>1. /\ UNCHANGED relay /\ UNCHANGED clock
        /\ UNCHANGED <<child, killed, childInOpen, childOutOpen, clientReads>>
        /\ owes' = FALSE \/ owes' = owes
    BY <1>17 DEF ServerWrites, Still, client
  <2>2. owes' \in BOOLEAN
    <3>1. owes \in BOOLEAN
      BY DEF Control
    <3> QED BY <2>1, <3>1, Zenon
  <2> QED BY <2>1, <2>2 DEF Control, Exited, relay, clock
<1>18. CASE \/ \E status \in ChildStatus : ServerExits(status)
            \/ \E signal \in {SIGTERM, SIGKILL} : ServerDies(signal)
  <2>1. /\ UNCHANGED relay /\ UNCHANGED clock /\ UNCHANGED <<killed, owes, clientReads>>
        /\ child = "running" /\ child' = "zombie" /\ childInOpen' = FALSE
        /\ childOutOpen' = FALSE \/ childOutOpen' = childOutOpen
    BY <1>18 DEF ServerExits, ServerDies, Ends, Still, client
  <2>2. childOutOpen' \in BOOLEAN
    <3>1. childOutOpen \in BOOLEAN
      BY DEF Control
    <3> QED BY <2>1, <3>1, Zenon
  <2> QED BY <2>1, <2>2 DEF Control, Exited, relay, clock
<1>19. CASE GraceExpires \/ SignalArrives
  <2>1. UNCHANGED relay /\ UNCHANGED server /\ UNCHANGED clientReads
    BY <1>19 DEF GraceExpires, SignalArrives, Still, client
  <2>2. graceOver' \in BOOLEAN
    BY <1>19 DEF GraceExpires, SignalArrives, Control
  <2>3. UNCHANGED controls /\ clientReads' \in BOOLEAN
    BY <2>1 DEF controls, relay, server, Control
  <2> QED BY <2>2, <2>3, ControlUntouched
<1>20. CASE Client
  <2>1. UNCHANGED relay /\ UNCHANGED server /\ UNCHANGED graceOver
    BY <1>20 DEF Client, ClientSends, ClientCloses, ClientReads, ClientLeaves, clock
  <2>2. clientReads' \in BOOLEAN
    BY <1>20 DEF Client, ClientSends, ClientCloses, ClientReads, ClientLeaves, Control
  <2>3. UNCHANGED controls /\ graceOver' \in BOOLEAN
    BY <2>1 DEF controls, relay, server, Control
  <2> QED BY <2>2, <2>3, ControlUntouched
<1>21. CASE UNCHANGED vars
  <2>1. UNCHANGED controls /\ UNCHANGED <<graceOver, clientReads>>
    BY <1>21 DEF vars, relay, clock, server, client, controls
  <2> QED BY <2>1, ControlUntouched DEF Control
<1> QED BY <1>1, <1>2, <1>3, <1>4, <1>5, <1>6, <1>7, <1>8, <1>9, <1>10, <1>11, <1>12, <1>13,
           <1>14, <1>15, <1>16, <1>17, <1>18, <1>19, <1>20, <1>21 DEF Next, Relay, Server

------------------------------------------------------------------------------
(* The report and the observer                                             *)

\* The report takes a byte from the server or from the signal.
LEMMA StatusesStep == Statuses /\ Control /\ ReportInv /\ [Next]_vars => Statuses'
<1> SUFFICES ASSUME Statuses, Control, ReportInv, [Next]_vars PROVE Statuses'
  OBVIOUS
<1>1. ASSUME NEW signals, NEW code \in -1..255, NEW result, ~Exited, Return(code, result, signals),
             runResult'.child \in -1..255, runResult'.proxy \in 0..255
      PROVE  Statuses'
  <2>1. PICK X : events \in Seq(X)
    BY DEF Statuses, Heard
  <2> DEFINE e == [event |-> "child_finished", result |-> result]
  <2>2. events \in Seq(X \cup {e}) /\ Len(events) <= 1 /\ Len(events) \in Nat
    BY <1>1, <2>1, SeqMonotonic, LenProperties DEF Statuses
  <2>3. events' = Append(events, e) /\ exitCode' = code /\ UNCHANGED childStatus
    BY <1>1 DEF Return
  <2> HIDE DEF e
  <2>4. events' \in Seq(X \cup {e}) /\ Len(events') = Len(events) + 1
    BY <2>2, <2>3, AppendProperties
  <2>5. Exited'
    BY <1>1 DEF Return, Exited
  <2>6. Heard'
    BY <2>4 DEF Heard
  <2> QED BY <1>1, <2>2, <2>3, <2>4, <2>5, <2>6 DEF Statuses
<1>2. ASSUME NEW signals, NEW code \in {3, 4}, ~Exited, FailAfter(signals, code) PROVE Statuses'
  <2>1. Return(code, runResult, signals) /\ runResult' = runResult
    BY <1>2 DEF FailAfter
  <2>2. runResult'.child \in -1..255 /\ runResult'.proxy \in 0..255
    BY <2>1 DEF Statuses
  <2>3. code \in -1..255
    OBVIOUS
  <2> QED BY <1>1, <1>2, <2>1, <2>2, <2>3
<1>3. ASSUME UNCHANGED <<runResult, exitCode, events, childStatus>>, Exited => Exited' PROVE Statuses'
  <2>1. Heard'
    BY <1>3 DEF Statuses, Heard
  <2> QED BY <1>3, <2>1 DEF Statuses
<1>4. CASE Launch
  <2>1. UNCHANGED <<runResult, childStatus>>
    BY <1>4 DEF Launch
  <2>2. CASE pc' = "top" /\ events' = <<[event |-> "child_started"]>> /\ UNCHANGED exitCode
    <3>1. events' \in Seq({[event |-> "child_started"]}) /\ Len(events') = 1
      BY <2>2
    <3>2. Heard'
      BY <3>1 DEF Heard
    <3> QED BY <2>1, <2>2, <3>1, <3>2 DEF Statuses, Exited
  <2>3. CASE pc' = "exited" /\ exitCode' \in {2, 4} /\ UNCHANGED events
    <3>1. Heard'
      BY <2>3 DEF Statuses, Heard
    <3> QED BY <2>1, <2>3, <3>1 DEF Statuses, Exited
  <2> QED BY <1>4, <2>2, <2>3 DEF Launch
<1>5. CASE Top \/ LoopEnds \/ Poll
  BY <1>3, <1>5 DEF Top, LoopEnds, Poll, server, Exited
<1>6. CASE ReadStdin \/ StdinEnds \/ ReadChildOut \/ ChildOutEnds
  <2>1. Fail(3) \/ Fail(4) \/ (Alive /\ \E d : Done(d))
    BY <1>6 DEF ReadStdin, StdinEnds, ReadChildOut, ChildOutEnds
  <2>2. ~Exited
    BY <1>6 DEF ReadStdin, StdinEnds, ReadChildOut, ChildOutEnds, Turn, Exited
  <2> QED BY <1>2, <1>3, <2>1, <2>2 DEF Fail, Alive, Done, Exited
<1>7. CASE WriteChildIn \/ WriteStdout
  <2>1. FailAfter(IF childReaped THEN {} ELSE {SIGTERM}, 4) \/ (Alive /\ \E d : Done(d))
    BY <1>7 DEF WriteChildIn, WriteStdout
  <2>2. ~Exited
    BY <1>7 DEF WriteChildIn, WriteStdout, Turn, Exited
  <2> QED BY <1>2, <1>3, <2>1, <2>2 DEF Alive, Done, Exited
<1>8. CASE FinishStatus
  <2>1. /\ runResult' = [runResult EXCEPT
                           !.child = childStatus,
                           !.proxy = IF terminationSignal # 0
                                     THEN 128 + terminationSignal ELSE childStatus]
        /\ UNCHANGED <<exitCode, events, childStatus>>
        /\ ~Exited /\ ~Exited'
    BY <1>8 DEF FinishStatus, Rest, server, Exited
  <2>2. /\ DOMAIN runResult = {"child", "proxy", "clean", "reason"}
        /\ terminationSignal \in {0, SIGTERM}
    BY DEF ReportInv, Filled
  <2>3. runResult'.child \in -1..255 /\ runResult'.proxy \in 0..255
    BY <2>1, <2>2 DEF Statuses, SIGTERM
  <2> QED BY <2>1, <2>3 DEF Statuses, Heard
<1>9. CASE FinishClean
  <2>1. /\ runResult' = [runResult EXCEPT !["clean"] = terminationSignal = 0 /\ runResult.child = 0]
        /\ UNCHANGED <<exitCode, events, childStatus>>
        /\ ~Exited /\ ~Exited'
    BY <1>9 DEF FinishClean, Report, Rest, server, Exited
  <2>2. runResult'.child = runResult.child /\ runResult'.proxy = runResult.proxy
    BY <2>1 DEF ReportInv, Filled
  <2> QED BY <2>1, <2>2 DEF Statuses, Heard
<1>10. CASE FinishReason
  <2>1. /\ runResult' = [runResult EXCEPT !["reason"] =
                           IF terminationSignal # 0 THEN "signal"
                           ELSE IF runResult.child = 0 THEN "child_exit" ELSE "child_nonzero_exit"]
        /\ Return(runResult.proxy, runResult', {}) /\ ~Exited
    BY <1>10 DEF FinishReason, Report, Exited
  <2>2. runResult'.child = runResult.child /\ runResult'.proxy = runResult.proxy
    BY <2>1 DEF ReportInv, Filled
  <2>3. runResult.proxy \in -1..255
    BY DEF Statuses
  <2> QED BY <1>1, <2>1, <2>2, <2>3 DEF Statuses
<1>11. CASE SyscallFails
  BY <1>2, <1>11 DEF SyscallFails, Fail, Exited
<1>12. CASE ServerReads \/ ServerCloses \/ DescendantExits
  BY <1>3, <1>12 DEF ServerReads, ServerCloses, DescendantExits, Still, relay, Exited
<1>13. CASE \E kind \in ServerKinds : ServerWrites(kind)
  BY <1>3, <1>13 DEF ServerWrites, Still, relay, Exited
<1>14. CASE \/ \E status \in ChildStatus : ServerExits(status)
            \/ \E signal \in {SIGTERM, SIGKILL} : ServerDies(signal)
  <2>1. childStatus' \in 0..255 /\ UNCHANGED relay
    BY <1>14, RelayAssumption DEF ServerExits, ServerDies, Ends, Still, SIGTERM, SIGKILL
  <2> QED BY <2>1 DEF Statuses, Heard, relay, Exited
<1>15. CASE GraceExpires \/ SignalArrives
  BY <1>3, <1>15 DEF GraceExpires, SignalArrives, Still, relay, server, Exited
<1>16. CASE Client
  BY <1>3, <1>16 DEF Client, ClientSends, ClientCloses, ClientReads, ClientLeaves, relay, server, Exited
<1>17. CASE UNCHANGED vars
  BY <1>3, <1>17 DEF vars, relay, server, Exited
<1> QED BY <1>4, <1>5, <1>6, <1>7, <1>8, <1>9, <1>10, <1>11, <1>12, <1>13, <1>14, <1>15, <1>16,
           <1>17 DEF Next, Relay, Server

------------------------------------------------------------------------------
(* The sizes of the queues                                                 *)

\* An append that was let in keeps the queue within its size.
LEMMA BoundedStep == Bounded /\ Control /\ Typed /\ [Next]_vars => Bounded'
<1> SUFFICES ASSUME Bounded, Control, Typed, [Next]_vars PROVE Bounded'
  OBVIOUS
<1>0. /\ Len(<< >>) = 0 /\ ChunkSize \in Nat /\ QueueSize \in Nat
      /\ Len(toChild) \in Nat /\ Len(toClient) \in Nat
  BY RelayAssumption, LenProperties DEF Typed
<1>1. ASSUME pc' = "exited", polled' = {}, Len(toChild') <= ChunkSize PROVE Bounded'
  BY <1>1 DEF Bounded, Exited
<1>2. ASSUME UNCHANGED <<toChild, toClient, sentTermination>>, ~Exited' => ~Exited,
             polled' \subseteq polled, stdinWrite' => stdinWrite \/ ~sentTermination
      PROVE  Bounded'
  BY <1>2 DEF Bounded
<1>3. CASE Launch
  <2>1. UNCHANGED <<toChild, toClient, sentTermination, polled>> /\ pc = "launch"
    BY <1>3 DEF Launch
  <2>2. polled = {} /\ ~sentTermination
    BY <2>1 DEF Control
  <2> QED BY <2>1, <2>2, <1>2 DEF Exited
<1>4. CASE Top
  <2> DEFINE reaped == childReaped \/ child = "zombie"
             terminate == terminationSignal # 0 /\ ~sentTermination /\ ~reaped
             keep == IF reaped \/ terminate THEN << >> ELSE toChild
             write == KeepsInput(reaped, terminate, keep)
  <2>1. /\ pc = "top" /\ UNCHANGED toClient
        /\ sentTermination' = (sentTermination \/ terminate)
        /\ toChild' = keep /\ stdinWrite' = write
        /\ \/ pc' = "finish" /\ polled' = {}
           \/ /\ pc' = "poll"
              /\ polled' = {d \in {"stdin", "childOut", "childIn", "stdout"} : Wanted(d, write, keep)}
    BY <1>4 DEF Top
  <2>2. "stdin" \in polled' => write /\ keep = << >>
    <3>1. Wanted("stdin", write, keep) = AcceptsClient(write, keep)
      BY Zenon DEF Wanted
    <3> QED BY <2>1, <3>1 DEF AcceptsClient
  <2>3. write => stdinWrite /\ ~terminate
    BY DEF KeepsInput
  <2>4. toChild' = << >> \/ toChild' = toChild
    BY <2>1
  <2>5. terminate => toChild' = << >> /\ ~stdinWrite'
    BY <2>1, <2>3
  <2>6. sentTermination => toChild = << >> /\ ~stdinWrite
    BY <2>1 DEF Bounded, Exited
  <2> HIDE DEF terminate, keep, write
  <2>7. "stdin" \in polled' => toChild' = << >> /\ ~sentTermination'
    BY <2>1, <2>2, <2>3, <2>6
  <2>8. sentTermination' => toChild' = << >> /\ ~stdinWrite'
    BY <2>1, <2>3, <2>4, <2>5, <2>6
  <2>9. Len(toChild') <= ChunkSize /\ Len(toClient') <= QueueSize
    BY <1>0, <2>1, <2>4 DEF Bounded, Exited
  <2> QED BY <2>7, <2>8, <2>9 DEF Bounded
<1>5. CASE LoopEnds \/ Poll
  BY <1>2, <1>5 DEF LoopEnds, Poll, Exited
<1>6. CASE ReadStdin
  <2>1. PICK toServer \in Seq(Lines), replies \in Seq(LinesOf("guard")) :
          /\ Len(toServer) <= ChunkSize
          /\ toChild' = toChild \o toServer
          /\ toClient' = toClient \o replies
          /\ \/ Fail(3) \/ Fail(4)
             \/ /\ Len(toClient) + Len(replies) <= QueueSize
                /\ Done("stdin") /\ Alive
    BY <1>6, StdinRead
  <2>2. "stdin" \in polled /\ pc = "events"
    BY <1>6 DEF ReadStdin, Turn
  <2>3. toChild = << >> /\ ~sentTermination
    BY <2>2 DEF Bounded
  <2>4. Len(toChild') <= ChunkSize
    BY <2>1, <2>3, ConcatEmptySeq
  <2>5. CASE Fail(3) \/ Fail(4)
    BY <1>1, <2>4, <2>5 DEF Fail, FailAfter, Return
  <2>6. CASE Len(toClient) + Len(replies) <= QueueSize /\ Done("stdin") /\ Alive
    <3>1. Len(toClient') <= QueueSize
      <4>1. replies \in Seq(Lines)
        BY SeqMonotonic DEF Lines, LinesOf
      <4>2. Len(toClient') = Len(toClient) + Len(replies)
        BY <2>1, <4>1, ConcatProperties DEF Typed
      <4> QED BY <2>6, <4>2
    <3>2. "stdin" \notin polled' /\ ~sentTermination'
      BY <2>3, <2>6 DEF Done, Alive
    <3> QED BY <2>4, <3>1, <3>2 DEF Bounded
  <2> QED BY <2>1, <2>5, <2>6
<1>7. CASE StdinEnds \/ ChildOutEnds
  <2>1. UNCHANGED <<toChild, toClient>> /\ pc = "events"
    BY <1>7 DEF StdinEnds, ChildOutEnds, Turn
  <2>2. Fail(3) \/ ((\E d : Done(d)) /\ Alive /\ UNCHANGED stdinWrite)
    BY <1>7 DEF StdinEnds, ChildOutEnds
  <2>3. CASE Fail(3)
    BY <1>1, <2>1, <2>3 DEF Fail, FailAfter, Return, Bounded
  <2>4. CASE (\E d : Done(d)) /\ Alive /\ UNCHANGED stdinWrite
    BY <1>2, <2>1, <2>4 DEF Done, Alive, Exited
  <2> QED BY <2>2, <2>3, <2>4
<1>8. CASE ReadChildOut
  <2>1. PICK lines \in Seq(LinesOf("server")) :
          /\ toClient' = toClient \o lines
          /\ \/ Fail(3) \/ Fail(4)
             \/ /\ Len(toClient) + Len(lines) <= QueueSize
                /\ Done("childOut") /\ Alive /\ UNCHANGED stdinWrite
    BY <1>8, ChildOutRead
  <2>2. pc = "events" /\ UNCHANGED toChild
    BY <1>8 DEF ReadChildOut, Turn
  <2>3. CASE Fail(3) \/ Fail(4)
    BY <1>1, <2>2, <2>3 DEF Fail, FailAfter, Return, Bounded
  <2>4. CASE /\ Len(toClient) + Len(lines) <= QueueSize
             /\ Done("childOut") /\ Alive /\ UNCHANGED stdinWrite
    <3>1. Len(toClient') <= QueueSize
      <4>1. lines \in Seq(Lines)
        BY SeqMonotonic DEF Lines, LinesOf
      <4>2. Len(toClient') = Len(toClient) + Len(lines)
        BY <2>1, <4>1, ConcatProperties DEF Typed
      <4> QED BY <2>4, <4>2
    <3>2. polled' \subseteq polled /\ UNCHANGED sentTermination
      BY <2>4 DEF Done, Alive
    <3> QED BY <2>2, <2>4, <3>1, <3>2 DEF Bounded, Exited
  <2> QED BY <2>1, <2>3, <2>4
<1>9. CASE WriteChildIn
  <2>1. /\ pc = "events" /\ UNCHANGED toClient /\ Done("childIn") /\ Alive
        /\ UNCHANGED stdinWrite \/ stdinWrite' = FALSE
    BY <1>9 DEF WriteChildIn, Turn
  <2>2. polled' \subseteq polled /\ UNCHANGED sentTermination
    BY <2>1 DEF Done, Alive
  <2>3. CASE \E part \in Flushed(toChild, childIn) : toChild' = After(toChild, part)
    <3>1. toChild # << >> /\ Len(toChild') <= Len(toChild) /\ Len(toChild') \in Nat
      BY <2>3, FlushedCut, LenProperties DEF Typed
    <3>2. "stdin" \notin polled' /\ ~sentTermination
      BY <2>1, <2>2, <3>1 DEF Bounded, Exited
    <3>3. Len(toChild') <= ChunkSize
      BY <1>0, <3>1 DEF Bounded
    <3> QED BY <2>1, <2>2, <3>2, <3>3 DEF Bounded, Exited
  <2>4. CASE toChild' = << >>
    BY <1>0, <2>1, <2>2, <2>4 DEF Bounded, Exited
  <2> QED BY <1>9, <2>3, <2>4 DEF WriteChildIn
<1>10. CASE WriteStdout
  <2>1. pc = "events" /\ UNCHANGED toChild
    BY <1>10 DEF WriteStdout, Turn
  <2>2. CASE FailAfter(IF childReaped THEN {} ELSE {SIGTERM}, 4)
    BY <1>1, <2>1, <2>2 DEF FailAfter, Return, Bounded
  <2>3. CASE /\ \E part \in Flushed(toClient, clientOut) : toClient' = After(toClient, part)
             /\ Done("stdout") /\ Alive /\ UNCHANGED stdinWrite
    <3>1. Len(toClient') <= Len(toClient) /\ Len(toClient') \in Nat
      BY <2>3, FlushedCut, LenProperties DEF Typed
    <3>2. Len(toClient') <= QueueSize
      BY <1>0, <2>1, <3>1 DEF Bounded, Exited
    <3>3. polled' \subseteq polled /\ UNCHANGED sentTermination
      BY <2>3 DEF Done, Alive
    <3> QED BY <2>1, <2>3, <3>2, <3>3 DEF Bounded, Exited
  <2> QED BY <1>10, <2>2, <2>3 DEF WriteStdout
<1>11. CASE FinishStatus \/ FinishClean
  BY <1>2, <1>11 DEF FinishStatus, FinishClean, Rest, Exited
<1>12. CASE FinishReason
  BY <1>1, <1>12 DEF FinishReason, Return, Bounded
<1>13. CASE SyscallFails
  BY <1>1, <1>13 DEF SyscallFails, Fail, FailAfter, Return, Bounded
<1>14. CASE Server \/ GraceExpires \/ SignalArrives \/ Client \/ UNCHANGED vars
  <2>1. UNCHANGED relay
    BY <1>14 DEF Server, GraceExpires, SignalArrives, Client, ServerReads, ServerWrites, ServerExits,
           ServerDies, ServerCloses, Ends, DescendantExits, ClientSends, ClientCloses, ClientReads,
           ClientLeaves, Still, vars
  <2> QED BY <1>2, <2>1 DEF relay, Exited
<1> QED BY <1>3, <1>4, <1>5, <1>6, <1>7, <1>8, <1>9, <1>10, <1>11, <1>12, <1>13, <1>14
         DEF Next, Relay

------------------------------------------------------------------------------
(* Moving messages along a path                                            *)

\* The head of a sequence goes to the end of the one before.
LEMMA HeadMoved ==
    ASSUME NEW X, NEW a \in Seq(X), NEW b \in Seq(X), b # << >>
    PROVE  Append(a, Head(b)) \o Tail(b) = a \o b
<1>1. Head(b) \in X /\ Tail(b) \in Seq(X)
  BY HeadTailProperties
<1>2. <<Head(b)>> \in Seq(X) /\ Append(a, Head(b)) = a \o <<Head(b)>>
  BY <1>1, AppendIsConcat
<1>3. (a \o <<Head(b)>>) \o Tail(b) = a \o (<<Head(b)>> \o Tail(b))
  BY <1>1, <1>2, ConcatAssociative
<1>4. <<Head(b)>> \o Tail(b) = b
  <2>1. Len(b) \in Nat /\ Len(b) # 0
    BY EmptySeq, LenProperties
  <2>2. SubSeq(b, 1, Len(b)) = <<b[1]>> \o SubSeq(b, 2, Len(b))
    BY <2>1, SubSeqRecursiveFirst
  <2>3. SubSeq(b, 1, Len(b)) = b /\ Tail(b) = SubSeq(b, 2, Len(b)) /\ Head(b) = b[1]
    BY <2>1, SubSeqFull, TailIsSubSeq, HeadTailOfSubSeq
  <2> QED BY ONLY <2>2, <2>3
<1> QED BY ONLY <1>2, <1>3, <1>4

\* The front of two sequences put together is a prefix of them.
LEMMA FrontIsPrefix ==
    ASSUME NEW X, NEW p \in Seq(X), NEW r \in Seq(X) PROVE Prefix(p, p \o r)
<1>1. /\ Len(p) \in Nat /\ Len(r) \in Nat /\ p \o r \in Seq(X) /\ Len(p \o r) = Len(p) + Len(r)
      /\ \A i \in 1..Len(p) : (p \o r)[i] = p[i]
  BY LenProperties, ConcatProperties
<1>2. /\ SubSeq(p \o r, 1, Len(p)) \in Seq(X) /\ Len(SubSeq(p \o r, 1, Len(p))) = Len(p)
      /\ \A i \in 1..Len(p) : SubSeq(p \o r, 1, Len(p))[i] = p[i]
  <2> DEFINE s == p \o r
  <2>1. \A i \in 1..Len(p) : s[i] \in X
    BY <1>1, ElementOfSeq
  <2>2. 1 \in Int /\ Len(p) \in Int
    BY <1>1
  <2> HIDE DEF s
  <2>3. /\ SubSeq(s, 1, Len(p)) \in Seq(X)
        /\ Len(SubSeq(s, 1, Len(p))) = IF 1 <= Len(p) THEN Len(p) - 1 + 1 ELSE 0
        /\ \A i \in 1..(Len(p) - 1 + 1) : SubSeq(s, 1, Len(p))[i] = s[1 + i - 1]
    BY <2>1, <2>2, SubSeqProperties
  <2>4. \A i \in 1..Len(p) : i \in 1..(Len(p) - 1 + 1) /\ 1 + i - 1 = i
    BY <1>1
  <2>5. Len(SubSeq(s, 1, Len(p))) = Len(p)
    BY <1>1, <2>3
  <2>6. \A i \in 1..Len(p) : SubSeq(s, 1, Len(p))[i] = s[i]
    BY <2>3, <2>4
  <2> QED BY <1>1, <2>3, <2>5, <2>6 DEF s
<1>3. p = SubSeq(p \o r, 1, Len(p))
  BY <1>2, SeqEqual
<1>4. Len(p) <= Len(p \o r)
  BY <1>1
<1> QED BY <1>3, <1>4 DEF Prefix

\* Concatenation is associative.
LEMMA ConcatThree ==
    ASSUME NEW X PROVE \A s, t, u \in Seq(X) : (s \o t) \o u = s \o (t \o u)
BY ConcatAssociative

\* Appending to the queue appends to the path.
LEMMA PathQueued ==
    ASSUME NEW a \in Seq(Lines), NEW b \in Seq(Lines), NEW q \in Seq(Lines), NEW more \in Seq(Lines)
    PROVE  Path(a, b, q \o more) = Path(a, b, q) \o more
<1>1. a \o b \in Seq(Lines)
  BY ConcatProperties
<1> DEFINE ab == a \o b
<1>2. ab \in Seq(Lines)
  BY <1>1
<1> HIDE DEF ab
<1>3. (ab \o q) \o more = ab \o (q \o more)
  <2>1. q \in Seq(Lines) /\ more \in Seq(Lines)
    OBVIOUS
  <2> QED BY ONLY <1>2, <2>1, ConcatThree, SMTT(30)
<1> QED BY <1>3 DEF ab, Path

\* Writing a part of the queue to the pipe leaves the path as it is, ...
LEMMA PathWritten ==
    ASSUME NEW a \in Seq(Lines), NEW b \in Seq(Lines), NEW p \in Seq(Lines), NEW r \in Seq(Lines)
    PROVE  Path(a, b \o p, r) = Path(a, b, p \o r)
<1>1. Path(a, b, p \o r) = Path(a, b, p) \o r
  <2>1. \A q, more \in Seq(Lines) : Path(a, b, q \o more) = Path(a, b, q) \o more
    BY PathQueued
  <2>2. p \in Seq(Lines) /\ r \in Seq(Lines)
    OBVIOUS
  <2> QED BY ONLY <2>1, <2>2
<1>2. Path(a, b, p) = a \o (b \o p)
  <2>1. (a \o b) \o p = a \o (b \o p)
    BY ConcatAssociative
  <2> QED BY ONLY <2>1 DEF Path
<1>3. Path(a, b \o p, r) = (a \o (b \o p)) \o r
  BY ONLY DEF Path
<1> QED BY ONLY <1>1, <1>2, <1>3, Zenon

\* ... and so does reading the head of the pipe.
LEMMA PathRead ==
    ASSUME NEW a \in Seq(Lines), NEW b \in Seq(Lines), b # << >>, NEW q
    PROVE  Path(Append(a, Head(b)), Tail(b), q) = Path(a, b, q)
BY HeadMoved DEF Path

\* What has been read is the beginning of the path.
LEMMA PathBegins ==
    ASSUME NEW a \in Seq(Lines), NEW b \in Seq(Lines), NEW c \in Seq(Lines)
    PROVE  Prefix(a, Path(a, b, c))
<1>1. (a \o b) \o c = a \o (b \o c)
  BY ConcatAssociative
<1>2. b \o c \in Seq(Lines)
  BY ConcatProperties
<1>3. Prefix(a, a \o (b \o c))
  <2> DEFINE bc == b \o c
  <2>1. bc \in Seq(Lines)
    BY <1>2
  <2> HIDE DEF bc
  <2>2. Prefix(a, a \o bc)
    BY <2>1, FrontIsPrefix
  <2> QED BY <2>2 DEF bc
<1> QED BY ONLY <1>1, <1>3 DEF Path

------------------------------------------------------------------------------

\* The way to the server and the way to the client, whatever moves on them.
LEMMA FlowStep == Flow /\ Control /\ Bounded /\ Typed /\ ReportInv /\ [Next]_vars => Flow'
<1> SUFFICES ASSUME Flow, Control, Bounded, Typed, ReportInv, [Next]_vars PROVE Flow'
  OBVIOUS
<1> DEFINE Running == ~Exited /\ (childInOpen \/ pc = "launch") /\ ~sentTermination
<1>0. /\ clientOut \in Seq(Lines) /\ toClient \in Seq(Lines) /\ received \in Seq(Lines)
      /\ childIn \in Seq(Lines) /\ toChild \in Seq(Lines) /\ served \in Seq(Lines)
      /\ forwarded \in Seq(Lines) /\ queued \in Seq(Lines)
  BY DEF Typed
<1>b. served \in Seq(Lines) /\ childIn \in Seq(Lines) /\ toChild \in Seq(Lines)
  BY DEF Typed
<1>c. received \in Seq(Lines) /\ clientOut \in Seq(Lines) /\ toClient \in Seq(Lines)
  BY DEF Typed
<1>a. PICK rest : rest \in Seq(Lines) /\ forwarded = Path(served, childIn, rest)
  BY DEF Flow
<1>d. \A a, b, q, more \in Seq(Lines) : Path(a, b, q \o more) = Path(a, b, q) \o more
  BY PathQueued
<1>e. /\ \A q, more \in Seq(Lines) : Path(received, clientOut, q \o more) = Path(received, clientOut, q) \o more
      /\ \A q, more \in Seq(Lines) : Path(served, childIn, q \o more) = Path(served, childIn, q) \o more
  BY ONLY <1>b, <1>c, <1>d
<1>1. ASSUME UNCHANGED <<queued, received, clientOut, toClient>>
      PROVE  queued' = Path(received', clientOut', toClient')
  BY <1>1 DEF Flow
<1>2. ASSUME UNCHANGED <<forwarded, served, childIn, toChild>>, Running' => Running
      PROVE  /\ Running' => forwarded' = Path(served', childIn', toChild')
             /\ \E r \in Seq(Lines) : forwarded' = Path(served', childIn', r)
  BY <1>2, <1>a DEF Flow
<1>3. CASE Quiet
  <2>1. UNCHANGED flows
    BY <1>3, QuietMovesNothing
  <2>2. Running' => Running
    <3>1. CASE Launch
      BY <3>1 DEF Launch, Exited
    <3>2. CASE LoopEnds \/ Poll
      BY <3>2 DEF LoopEnds, Poll, server, Exited
    <3>3. CASE StdinEnds \/ ChildOutEnds
      BY <3>3 DEF StdinEnds, ChildOutEnds, Turn, Fail, FailAfter, Return, Done, Alive, Exited
    <3>4. CASE FinishStatus \/ FinishClean
      BY <3>4 DEF FinishStatus, FinishClean, Rest, server, Exited
    <3>5. CASE FinishReason \/ SyscallFails
      BY <3>5 DEF FinishReason, SyscallFails, Fail, FailAfter, Return, Exited
    <3>6. CASE ServerCloses \/ DescendantExits
      BY <3>6 DEF ServerCloses, DescendantExits, Still, relay, Exited
    <3>7. CASE \/ \E status \in ChildStatus : ServerExits(status)
               \/ \E signal \in {SIGTERM, SIGKILL} : ServerDies(signal)
      BY <3>7 DEF ServerExits, ServerDies, Ends, Still, relay, Exited
    <3>8. CASE GraceExpires \/ SignalArrives \/ ClientCloses \/ ClientLeaves \/ UNCHANGED vars
      BY <3>8 DEF GraceExpires, SignalArrives, ClientCloses, ClientLeaves, Still, vars, relay, server,
             Exited
    <3> QED BY <1>3, <3>1, <3>2, <3>3, <3>4, <3>5, <3>6, <3>7, <3>8 DEF Quiet
  <2> HIDE DEF Running
  <2> QED BY <1>1, <1>2, <2>1, <2>2 DEF flows, Flow, Running
<1>4. CASE Top
  <2>1. /\ UNCHANGED <<queued, received, clientOut, toClient, forwarded, served, childIn, childInOpen>>
        /\ pc = "top"
    BY <1>4 DEF Top, client, ghosts
  <2>2. \/ toChild' = toChild /\ (Running' => Running)
        \/ ~Running'
    <3>1. CASE childReaped \/ child = "zombie"
      <4>1. child # "running"
        BY <3>1 DEF ReportInv, Collected
      <4>2. ~childInOpen /\ pc' # "launch"
        BY <1>4, <2>1, <4>1 DEF Control, Exited, Top
      <4> QED BY <2>1, <4>2
    <3>2. CASE ~(childReaped \/ child = "zombie") /\ terminationSignal # 0 /\ ~sentTermination
      BY <1>4, <3>2 DEF Top
    <3>3. CASE ~(childReaped \/ child = "zombie") /\ ~(terminationSignal # 0 /\ ~sentTermination)
      <4>1. toChild' = toChild
        BY <1>4, <3>3 DEF Top
      <4>2. ~sentTermination' => ~sentTermination
        BY <1>4, <3>3 DEF Top
      <4>3. pc' # "launch"
        BY <1>4 DEF Top
      <4> QED BY <2>1, <4>1, <4>2, <4>3 DEF Exited
    <3> QED BY <3>1, <3>2, <3>3
  <2> HIDE DEF Running
  <2>3. Running' => forwarded' = Path(served', childIn', toChild')
    BY <1>2, <2>1, <2>2
  <2>4. \E r \in Seq(Lines) : forwarded' = Path(served', childIn', r)
    BY <1>a, <2>1
  <2> QED BY <1>1, <2>1, <2>3, <2>4 DEF Flow, Running
<1>5. CASE ReadStdin
  <2>1. PICK toServer, replies :
          /\ toServer \in Seq(Lines) /\ replies \in Seq(LinesOf("guard"))
          /\ toChild' = toChild \o toServer /\ forwarded' = forwarded \o toServer
          /\ toClient' = toClient \o replies /\ queued' = queued \o replies
          /\ UNCHANGED childIn
          /\ Exited' \/ UNCHANGED <<sentTermination, childInOpen>>
    BY <1>5, StdinRead DEF Fail, FailAfter, Return, Alive, Exited
  <2>2. UNCHANGED <<served, received, clientOut>> /\ pc = "events" /\ pc' # "launch"
    BY <1>5 DEF ReadStdin, Turn, Fail, FailAfter, Return, Done
  <2>3. Running' => Running
    BY <2>1, <2>2 DEF Exited
  <2>4. replies \in Seq(Lines)
    BY <2>1, SeqMonotonic DEF Lines, LinesOf
  <2> HIDE DEF Running
  <2>5. queued' = Path(received', clientOut', toClient')
    <3>1. queued = Path(received, clientOut, toClient)
      BY DEF Flow
    <3>2. Path(received, clientOut, toClient \o replies) = Path(received, clientOut, toClient) \o replies
      BY ONLY <1>c, <2>4, <1>e
    <3> QED BY <2>1, <2>2, <3>1, <3>2
  <2>6. Running' => forwarded' = Path(served', childIn', toChild')
    <3> SUFFICES ASSUME Running' PROVE forwarded' = Path(served', childIn', toChild')
      OBVIOUS
    <3>1. forwarded = Path(served, childIn, toChild)
      BY <2>3 DEF Flow, Running
    <3>2. Path(served, childIn, toChild \o toServer) = Path(served, childIn, toChild) \o toServer
      BY ONLY <1>b, <2>1, <1>e
    <3> QED BY <2>1, <2>2, <3>1, <3>2
  <2>7. \E r \in Seq(Lines) : forwarded' = Path(served', childIn', r)
    <3>1. Path(served, childIn, rest \o toServer) = Path(served, childIn, rest) \o toServer
      BY ONLY <1>b, <1>a, <2>1, <1>e
    <3>2. rest \o toServer \in Seq(Lines)
      BY <1>a, <2>1, ConcatProperties
    <3> QED BY <1>a, <2>1, <2>2, <3>1, <3>2
  <2> QED BY <2>5, <2>6, <2>7 DEF Flow, Running
<1>6. CASE ReadChildOut
  <2>1. PICK lines :
          /\ lines \in Seq(LinesOf("server"))
          /\ toClient' = toClient \o lines /\ queued' = queued \o lines
          /\ UNCHANGED childIn
          /\ Exited' \/ UNCHANGED <<sentTermination, childInOpen>>
    BY <1>6, ChildOutRead DEF Fail, FailAfter, Return, Alive, Exited
  <2>2. /\ UNCHANGED <<forwarded, toChild, served, received, clientOut>>
        /\ pc = "events" /\ pc' # "launch"
    BY <1>6 DEF ReadChildOut, Turn, Fail, FailAfter, Return, Done, client
  <2>3. Running' => Running
    BY <2>1, <2>2 DEF Exited
  <2>4. lines \in Seq(Lines)
    BY <2>1, SeqMonotonic DEF Lines, LinesOf
  <2> HIDE DEF Running
  <2>5. queued' = Path(received', clientOut', toClient')
    <3>1. queued = Path(received, clientOut, toClient)
      BY DEF Flow
    <3>2. Path(received, clientOut, toClient \o lines) = Path(received, clientOut, toClient) \o lines
      BY ONLY <1>c, <2>4, <1>e
    <3> QED BY <2>1, <2>2, <3>1, <3>2
  <2> QED BY <1>2, <2>1, <2>2, <2>3, <2>5 DEF Flow, Running
<1>7. CASE WriteChildIn
  <2>1. /\ UNCHANGED <<queued, received, clientOut, toClient, forwarded, served, childInOpen>>
        /\ UNCHANGED sentTermination /\ pc = "events" /\ pc' # "launch"
    BY <1>7 DEF WriteChildIn, Turn, Done, Alive, client, ghosts
  <2>2. CASE childInOpen /\ \E part \in Flushed(toChild, childIn) :
               childIn' = childIn \o part /\ toChild' = After(toChild, part)
    <3>1. PICK part \in Flushed(toChild, childIn) :
            childIn' = childIn \o part /\ toChild' = After(toChild, part)
      BY <2>2
    <3>2. /\ part \in Seq(Lines) /\ After(toChild, part) \in Seq(Lines) /\ toChild # << >>
          /\ toChild = part \o After(toChild, part)
      BY <1>0, FlushedCut
    <3>3. ~sentTermination
      BY <2>1, <3>2 DEF Bounded, Exited
    <3>4. forwarded = Path(served, childIn, toChild)
      BY <2>1, <2>2, <3>3 DEF Flow, Exited
    <3>5. Path(served, childIn \o part, After(toChild, part))
            = Path(served, childIn, part \o After(toChild, part))
      BY ONLY <1>b, <3>2, PathWritten
    <3>6. forwarded' = Path(served', childIn', toChild')
      BY <2>1, <3>1, <3>2, <3>4, <3>5
    <3>7. toChild' \in Seq(Lines)
      BY <3>1, <3>2
    <3> QED BY <1>1, <2>1, <3>6, <3>7 DEF Flow
  <2>3. CASE ~childInOpen /\ UNCHANGED childIn
    <3>1. ~Running'
      BY <2>1, <2>3
    <3>2. \E r \in Seq(Lines) : forwarded' = Path(served', childIn', r)
      BY <1>a, <2>1, <2>3
    <3> QED BY <1>1, <2>1, <3>1, <3>2 DEF Flow
  <2> QED BY <1>7, <2>2, <2>3 DEF WriteChildIn
<1>8. CASE WriteStdout
  <2>1. UNCHANGED <<queued, received, forwarded, served, toChild, childIn>> /\ pc = "events"
    BY <1>8 DEF WriteStdout, FailAfter, Return, Turn, ghosts
  <2>2. Running' => Running
    BY <1>8 DEF WriteStdout, FailAfter, Return, Turn, Done, Alive, Exited
  <2>3. queued' = Path(received', clientOut', toClient')
    <3>1. CASE \E part \in Flushed(toClient, clientOut) :
                 clientOut' = clientOut \o part /\ toClient' = After(toClient, part)
      <4>1. PICK part \in Flushed(toClient, clientOut) :
              clientOut' = clientOut \o part /\ toClient' = After(toClient, part)
        BY <3>1
      <4>2. /\ part \in Seq(Lines) /\ After(toClient, part) \in Seq(Lines)
            /\ toClient = part \o After(toClient, part)
        BY <1>0, FlushedCut
      <4>3. Path(received, clientOut \o part, After(toClient, part))
              = Path(received, clientOut, part \o After(toClient, part))
        BY ONLY <1>c, <4>2, PathWritten
      <4> QED BY <2>1, <4>1, <4>2, <4>3 DEF Flow
    <3>2. CASE UNCHANGED <<clientOut, toClient>>
      BY <1>1, <2>1, <3>2
    <3> QED BY <1>8, <3>1, <3>2 DEF WriteStdout
  <2> HIDE DEF Running
  <2> QED BY <1>2, <2>1, <2>2, <2>3 DEF Flow, Running
<1>9. CASE ServerReads
  <2>1. /\ childIn # << >> /\ served' = Append(served, Head(childIn)) /\ childIn' = Tail(childIn)
        /\ UNCHANGED <<pc, childInOpen, sentTermination, toChild, toClient, clientOut, forwarded,
                       queued, received>>
    BY <1>9 DEF ServerReads, Still, relay, client
  <2>2. \A q : Path(served', childIn', q) = Path(served, childIn, q)
    BY <1>0, <2>1, PathRead
  <2>3. Running' = Running
    BY <2>1 DEF Exited
  <2>4. Running' => forwarded' = Path(served', childIn', toChild')
    BY <2>1, <2>2, <2>3 DEF Flow
  <2>5. \E r \in Seq(Lines) : forwarded' = Path(served', childIn', r)
    BY <1>a, <2>1, <2>2
  <2> QED BY <1>1, <2>1, <2>4, <2>5 DEF Flow
<1>10. CASE ClientReads
  <2>1. /\ clientOut # << >> /\ received' = Append(received, Head(clientOut))
        /\ clientOut' = Tail(clientOut)
        /\ UNCHANGED <<pc, childInOpen, sentTermination, toChild, toClient, childIn, forwarded,
                       served, queued>>
    BY <1>10 DEF ClientReads, relay, server
  <2>2. \A q : Path(received', clientOut', q) = Path(received, clientOut, q)
    BY <1>0, <2>1, PathRead
  <2>3. queued' = Path(received', clientOut', toClient')
    BY <2>1, <2>2 DEF Flow
  <2>4. Running' => Running
    BY <2>1 DEF Exited
  <2> HIDE DEF Running
  <2> QED BY <1>2, <2>1, <2>3, <2>4 DEF Flow, Running
<1>11. CASE \/ \E kind \in ServerKinds : ServerWrites(kind)
            \/ \E kind \in ClientKinds : ClientSends(kind)
  <2>1. UNCHANGED <<pc, childInOpen, sentTermination, toChild, toClient, childIn, clientOut,
                    forwarded, served, queued, received>>
    BY <1>11 DEF ServerWrites, ClientSends, Still, relay, server, client, ghosts
  <2>2. Running' => Running
    BY <2>1 DEF Exited
  <2> HIDE DEF Running
  <2> QED BY <1>1, <1>2, <2>1, <2>2 DEF Flow, Running
<1> QED BY <1>3, <1>4, <1>5, <1>6, <1>7, <1>8, <1>9, <1>10, <1>11, StepsAreQuietOrMove

\* What was read is a prefix of what was sent on.
LEMMA FlowIsInOrder ==
    ASSUME Flow, Typed PROVE Prefix(served, forwarded) /\ Prefix(received, queued)
<1>1. PICK rest : rest \in Seq(Lines) /\ forwarded = Path(served, childIn, rest)
  BY DEF Flow
<1>2. Prefix(served, Path(served, childIn, rest))
  BY <1>1, PathBegins DEF Typed
<1>3. Prefix(received, Path(received, clientOut, toClient))
  BY PathBegins DEF Typed
<1> QED BY <1>1, <1>2, <1>3 DEF Flow

------------------------------------------------------------------------------
(* The end of the server's output                                          *)

\* Nobody opens the pipe again, so a step that reads, writes and polls nothing
\* leaves its end where it is.
LEMMA DrainedUntouched ==
    ASSUME Drained, childOutOpen' = childOutOpen \/ childOutOpen' = FALSE,
           UNCHANGED <<pc, polled, stdoutRead, outputEof, childOut, toClient, runResult>>
    PROVE  Drained'
BY DEF Drained, Finished, Exited

\* A return on an error path reports nothing.
LEMMA ReturnKeepsDrained ==
    ASSUME Drained, ReportInv, pc \in {"top", "poll", "events"}, NEW signals, NEW code,
           FailAfter(signals, code)
    PROVE  Drained' /\ Exited' /\ ~Finished'
<1>1. /\ pc' = "exited" /\ runResult' = runResult
      /\ UNCHANGED <<outputEof, childOut, childOutOpen>>
  BY DEF FailAfter, Return
<1>2. runResult.reason = "startup_failure"
  BY DEF ReportInv, Filled
<1> QED BY <1>1, <1>2 DEF Drained, Finished, Exited

\* Neither does a round that goes on without the server's output.
LEMMA RoundKeepsDrained ==
    ASSUME Drained, pc = "events", NEW d, Done(d),
           UNCHANGED <<stdoutRead, outputEof, childOut, childOutOpen>>
    PROVE  Drained'
BY DEF Drained, Done, Finished, Exited

\* The end of the output is seen once, behind the last of it.
LEMMA DrainedStep == Drained /\ Control /\ Typed /\ ReportInv /\ [Next]_vars => Drained'
<1> SUFFICES ASSUME Drained, Control, Typed, ReportInv, [Next]_vars PROVE Drained'
  OBVIOUS
<1>1. CASE Launch
  <2>1. /\ UNCHANGED <<outputEof, runResult, childOut>> /\ ~outputEof
        /\ runResult.reason = "startup_failure"
    BY <1>1 DEF Launch, Control, ReportInv, Filled
  <2>2. (pc' = "top" /\ stdoutRead' = TRUE) \/ pc' = "exited"
    BY <1>1 DEF Launch
  <2> QED BY <2>1, <2>2 DEF Drained, Finished, Exited
<1>2. CASE Top
  <2>1. /\ UNCHANGED <<stdoutRead, outputEof, childOut, childOutOpen, toClient, runResult>>
        /\ pc = "top"
    BY <1>2 DEF Top
  <2>2. pc' = "poll" \/ (pc' = "finish" /\ outputEof /\ toClient = << >>)
    BY <1>2 DEF Top
  <2> QED BY <2>1, <2>2 DEF Drained, Finished, Exited
<1>3. CASE LoopEnds
  <2>1. /\ UNCHANGED <<stdoutRead, outputEof, childOut, childOutOpen, toClient, runResult>>
        /\ pc = "top" /\ pc' = "finish" /\ ~stdoutRead /\ toClient = << >>
    BY <1>3 DEF LoopEnds, server
  <2> QED BY <2>1 DEF Drained, Finished, Exited
<1>4. CASE Poll
  <2>1. /\ UNCHANGED <<stdoutRead, outputEof, childOut, childOutOpen, toClient, runResult>>
        /\ pc = "poll" /\ pc' \in {"top", "events"} /\ polled' = {d \in polled : Ready(d)}
    BY <1>4 DEF Poll, server
  <2>2. Ready("childOut") = (childOut # << >> \/ ~childOutOpen)
    BY Zenon DEF Ready
  <2>3. "childOut" \in polled' => childOut # << >> \/ ~childOutOpen
    BY <2>1, <2>2
  <2> QED BY <2>1, <2>3 DEF Drained, Finished, Exited
<1>5. CASE ReadStdin
  <2>1. pc = "events"
    BY <1>5 DEF ReadStdin, Turn
  <2>2. \/ Fail(3) \/ Fail(4)
        \/ Done("stdin") /\ UNCHANGED <<stdoutRead, outputEof, childOut, childOutOpen>>
    BY <1>5 DEF ReadStdin
  <2> QED BY <2>1, <2>2, ReturnKeepsDrained, RoundKeepsDrained DEF Fail
<1>6. CASE StdinEnds
  <2>1. pc = "events"
    BY <1>6 DEF StdinEnds, Turn
  <2>2. \/ Fail(3)
        \/ Done("stdin") /\ UNCHANGED <<stdoutRead, outputEof, childOut, childOutOpen>>
    BY <1>6 DEF StdinEnds
  <2> QED BY <2>1, <2>2, ReturnKeepsDrained, RoundKeepsDrained DEF Fail
<1>7. CASE ReadChildOut
  <2>1. pc = "events"
    BY <1>7 DEF ReadChildOut, Turn
  <2>2. /\ childOut # << >>
        /\ \/ Fail(3) \/ Fail(4)
           \/ Done("childOut") /\ UNCHANGED <<stdoutRead, outputEof, childOutOpen>>
    BY <1>7, ChildOutRead
  <2>3. ASSUME Done("childOut"), UNCHANGED <<stdoutRead, outputEof, childOutOpen>>
        PROVE  Drained'
    BY <2>1, <2>2, <2>3 DEF Drained, Done, Finished, Exited
  <2> QED BY <2>1, <2>2, <2>3, ReturnKeepsDrained DEF Fail
<1>8. CASE ChildOutEnds
  <2>1. pc = "events" /\ "childOut" \in polled /\ childOut = << >>
    BY <1>8 DEF ChildOutEnds, Turn
  <2>2. ~childOutOpen
    BY <2>1 DEF Drained
  <2>3. \/ Fail(3)
        \/ /\ Done("childOut") /\ stdoutRead' = FALSE /\ outputEof' = TRUE
           /\ UNCHANGED <<childOut, childOutOpen>>
    BY <1>8 DEF ChildOutEnds
  <2>4. ASSUME Done("childOut"), stdoutRead' = FALSE, outputEof' = TRUE,
               UNCHANGED <<childOut, childOutOpen>>
        PROVE  Drained'
    BY <2>1, <2>2, <2>4 DEF Drained, Done, Finished, Exited
  <2> QED BY <2>1, <2>3, <2>4, ReturnKeepsDrained DEF Fail
<1>9. CASE WriteChildIn
  BY <1>9, RoundKeepsDrained DEF WriteChildIn, Turn
<1>10. CASE WriteStdout
  <2>1. pc = "events"
    BY <1>10 DEF WriteStdout, Turn
  <2>2. \/ FailAfter(IF childReaped THEN {} ELSE {SIGTERM}, 4)
        \/ Done("stdout") /\ UNCHANGED <<stdoutRead, outputEof, childOut, childOutOpen>>
    BY <1>10 DEF WriteStdout
  <2> QED BY <2>1, <2>2, ReturnKeepsDrained, RoundKeepsDrained
<1>11. CASE FinishStatus \/ FinishClean
  <2>1. /\ UNCHANGED <<stdoutRead, outputEof, childOut, childOutOpen, toClient>>
        /\ pc \in {"finish", "clean"} /\ pc' \in {"clean", "reason"}
    BY <1>11 DEF FinishStatus, FinishClean, Rest, server
  <2> QED BY <2>1 DEF Drained, Finished, Exited
<1>12. CASE FinishReason
  <2>1. /\ UNCHANGED <<outputEof, childOut, childOutOpen, toClient>>
        /\ pc = "reason" /\ pc' = "exited"
    BY <1>12 DEF FinishReason, Return
  <2> QED BY <2>1 DEF Drained, Finished, Exited
<1>13. CASE SyscallFails
  BY <1>13, ReturnKeepsDrained DEF SyscallFails, Fail
<1>14. CASE \E kind \in ServerKinds : ServerWrites(kind)
  <2>1. PICK kind \in ServerKinds : ServerWrites(kind)
    BY <1>14
  <2> DEFINE m == [id |-> Len(produced) + 1, kind |-> kind]
  <2>2. /\ UNCHANGED <<pc, polled, stdoutRead, outputEof, childOutOpen, toClient, runResult>>
        /\ childOutOpen /\ childOut' = Append(childOut, m)
    BY <2>1 DEF ServerWrites, Still, relay
  <2>3. m \in Messages
    BY LenProperties, RelayAssumption DEF Messages, Typed
  <2>4. Append(childOut, m) # << >>
    <3>1. \A s \in Seq(Messages), x \in Messages : Append(s, x) # << >>
      BY ONLY AppendProperties
    <3>2. childOut \in Seq(Messages)
      BY DEF Typed
    <3> QED BY ONLY <2>3, <3>1, <3>2
  <2> QED BY <2>2, <2>4 DEF Drained, Finished, Exited
<1>15. CASE \/ ServerReads \/ ServerCloses \/ DescendantExits
            \/ \E status \in ChildStatus : ServerExits(status)
            \/ \E signal \in {SIGTERM, SIGKILL} : ServerDies(signal)
  <2>1. /\ childOutOpen' = childOutOpen \/ childOutOpen' = FALSE
        /\ UNCHANGED <<pc, polled, stdoutRead, outputEof, childOut, toClient, runResult>>
    BY <1>15 DEF ServerReads, ServerCloses, DescendantExits, ServerExits, ServerDies, Ends, Still,
         relay
  <2> QED BY <2>1, DrainedUntouched
<1>16. CASE GraceExpires \/ SignalArrives \/ Client \/ UNCHANGED vars
  <2>1. UNCHANGED relay /\ UNCHANGED server
    BY <1>16 DEF GraceExpires, SignalArrives, Still, Client, ClientSends, ClientCloses, ClientReads,
         ClientLeaves, vars
  <2> QED BY <2>1, DrainedUntouched DEF relay, server
<1> QED BY <1>1, <1>2, <1>3, <1>4, <1>5, <1>6, <1>7, <1>8, <1>9, <1>10, <1>11, <1>12, <1>13,
           <1>14, <1>15, <1>16 DEF Next, Relay, Server

------------------------------------------------------------------------------
(* What the server wrote                                                   *)

\* Nothing moves the relay once it has returned.
LEMMA ExitIsForGood == Exited /\ [Next]_vars => UNCHANGED <<pc, runResult>>
<1> SUFFICES ASSUME Exited, [Next]_vars PROVE UNCHANGED <<pc, runResult>>
  OBVIOUS
<1>1. CASE Relay
  <2>1. ~Launch /\ ~Top /\ ~LoopEnds /\ ~Poll
    BY DEF Exited, Launch, Top, LoopEnds, Poll
  <2>2. ~ReadStdin /\ ~StdinEnds /\ ~ReadChildOut /\ ~ChildOutEnds /\ ~WriteChildIn /\ ~WriteStdout
    BY DEF Exited, Turn, ReadStdin, StdinEnds, ReadChildOut, ChildOutEnds, WriteChildIn, WriteStdout
  <2>3. ~FinishStatus /\ ~FinishClean /\ ~FinishReason
    BY DEF Exited, FinishStatus, FinishClean, FinishReason
  <2> QED BY <1>1, <2>1, <2>2, <2>3 DEF Relay
<1>2. CASE SyscallFails
  BY <1>2 DEF Exited, SyscallFails
<1>3. CASE Server
  BY <1>3 DEF Server, ServerReads, ServerCloses, DescendantExits, ServerWrites, ServerExits,
       ServerDies, Ends, Still, relay
<1>4. CASE GraceExpires \/ SignalArrives \/ Client \/ UNCHANGED vars
  BY <1>4 DEF GraceExpires, SignalArrives, Still, Client, ClientSends, ClientCloses, ClientReads,
       ClientLeaves, vars, relay
<1> QED BY <1>1, <1>2, <1>3, <1>4 DEF Next

\* What the server wrote is counted the same before and after each read of it.
LEMMA RelayedStep ==
    Relayed /\ Drained /\ Control /\ Typed /\ ReportInv /\ [Next]_vars => Relayed'
<1> SUFFICES ASSUME Relayed, Drained, Control, Typed, ReportInv, [Next]_vars,
                    ~Exited' \/ Finished'
             PROVE  Select(queued', LinesOf("server")) \o Kept(childOut', "forward", "server")
                      = Kept(produced', "forward", "server")
  BY DEF Relayed
<1> DEFINE L == LinesOf("server")
           chosen == Select(queued, L)
           left == Kept(childOut, "forward", "server")
           all == Kept(produced, "forward", "server")
<1>0. chosen \o left = all
  <2>1. ~Exited \/ Finished
    BY ExitIsForGood DEF Exited, Finished
  <2> QED BY <2>1 DEF Relayed
<1>a. queued \in Seq(Lines) /\ childOut \in Seq(Messages) /\ produced \in Seq(Messages)
  BY DEF Typed
<1>b. L \subseteq Lines
  BY DEF LinesOf, Lines
<1>c. chosen \in Seq(L) /\ left \in Seq(L) /\ all \in Seq(L)
  <2>1. Lines \cap L = L
    BY <1>b
  <2>2. chosen \in Seq(Lines \cap L)
    BY <1>a, SelectType
  <2> QED BY <1>a, <2>1, <2>2, KeptOf
<1>d. \A s, t \in Seq(Lines) : Select(s \o t, L) = Select(s, L) \o Select(t, L)
  BY SelectConcat
<1>e. \A p, q \in Seq(Messages) :
        Kept(p \o q, "forward", "server") = Kept(p, "forward", "server") \o Kept(q, "forward", "server")
  BY KeptOfBoth
<1>1. ASSUME UNCHANGED <<queued, childOut, produced>>
      PROVE  Select(queued', L) \o Kept(childOut', "forward", "server")
               = Kept(produced', "forward", "server")
  BY <1>0, <1>1
<1>2. CASE Quiet
  BY <1>1, <1>2, QuietMovesNothing DEF flows
<1>3. CASE Top \/ WriteChildIn \/ ServerReads \/ ClientReads
           \/ \E kind \in ClientKinds : ClientSends(kind)
  <2>1. UNCHANGED <<queued, childOut, produced>>
    BY <1>3 DEF Top, WriteChildIn, ServerReads, ClientReads, ClientSends, server, ghosts
  <2> QED BY <1>1, <2>1
<1>4. CASE WriteStdout
  <2>1. UNCHANGED <<queued, childOut, produced>>
    BY <1>4 DEF WriteStdout, FailAfter, Return, ghosts
  <2> QED BY <1>1, <2>1
<1>5. CASE ReadStdin
  <2>1. PICK replies :
          /\ replies \in Seq(LinesOf("guard")) /\ queued' = queued \o replies
          /\ Fail(3) \/ Fail(4) \/ UNCHANGED <<childOut, produced>>
    BY <1>5, StdinRead
  <2>2. pc = "events"
    BY <1>5 DEF ReadStdin, Turn
  <2>3. UNCHANGED <<childOut, produced>>
    BY <2>1, <2>2, ReturnKeepsDrained DEF Fail
  <2>4. Select(replies, L) = << >>
    <3>1. LinesOf("guard") \cap L = {}
      BY DEF LinesOf
    <3> QED BY <2>1, <3>1, SelectNone
  <2>5. Select(queued \o replies, L) = chosen \o << >>
    <3>1. replies \in Seq(Lines)
      BY <2>1, SeqMonotonic DEF Lines, LinesOf
    <3> HIDE DEF L
    <3>2. Select(queued \o replies, L) = Select(queued, L) \o Select(replies, L)
      BY ONLY <1>a, <1>d, <3>1
    <3> QED BY ONLY <2>4, <3>2
  <2>6. chosen \o << >> = chosen
    BY <1>c, ConcatEmptySeq
  <2>7. Select(queued', L) = chosen
    BY ONLY <2>1, <2>5, <2>6
  <2> QED BY ONLY <1>0, <2>3, <2>7
<1>6. CASE ReadChildOut
  <2>1. PICK chunk, rest, lines :
          /\ chunk \in Seq(Messages) /\ rest \in Seq(Messages)
          /\ childOut = chunk \o rest /\ queued' = queued \o lines
          /\ \/ Fail(3) \/ Fail(4)
             \/ /\ lines = Kept(chunk, "forward", "server")
                /\ childOut' = rest /\ UNCHANGED produced
    BY <1>6, ChildOutRead
  <2>2. pc = "events"
    BY <1>6 DEF ReadChildOut, Turn
  <2>3. lines = Kept(chunk, "forward", "server") /\ childOut' = rest /\ UNCHANGED produced
    BY <2>1, <2>2, ReturnKeepsDrained DEF Fail
  <2>4. lines \in Seq(L)
    BY <2>1, <2>3, KeptOf
  <2>5. Select(lines, L) = lines
    BY <2>4, SelectAll
  <2>6. Select(queued \o lines, L) = chosen \o lines
    <3>1. lines \in Seq(Lines)
      BY <1>b, <2>4, SeqMonotonic
    <3> HIDE DEF L
    <3>2. Select(queued \o lines, L) = Select(queued, L) \o Select(lines, L)
      BY ONLY <1>a, <1>d, <3>1
    <3> QED BY ONLY <2>5, <3>2
  <2> DEFINE remaining == Kept(rest, "forward", "server")
  <2>7. left = lines \o remaining
    <3>1. Kept(chunk \o rest, "forward", "server") = Kept(chunk, "forward", "server") \o remaining
      BY <1>e, <2>1
    <3> QED BY ONLY <2>1, <2>3, <3>1
  <2>8. remaining \in Seq(L)
    BY <2>1, KeptOf
  <2> HIDE DEF remaining, chosen, L, left, all
  <2>9. (chosen \o lines) \o remaining = chosen \o (lines \o remaining)
    <3>1. chosen \in Seq(L) /\ lines \in Seq(L)
      BY <1>c, <2>4
    <3> QED BY ONLY <3>1, <2>8, ConcatThree, SMTT(30)
  <2>10. Select(queued', L) \o remaining = all
    BY ONLY <1>0, <2>1, <2>6, <2>7, <2>9
  <2> QED BY <2>3, <2>10 DEF remaining, all, L
<1>7. CASE \E kind \in ServerKinds : ServerWrites(kind)
  <2>1. PICK kind \in ServerKinds : ServerWrites(kind)
    BY <1>7
  <2> DEFINE m == [id |-> Len(produced) + 1, kind |-> kind]
             more == Kept(<<m>>, "forward", "server")
  <2>2. /\ UNCHANGED queued
        /\ childOut' = Append(childOut, m) /\ produced' = Append(produced, m)
    BY <2>1 DEF ServerWrites, ghosts
  <2>3. m \in Messages
    BY LenProperties, RelayAssumption DEF Messages, Typed
  <2>4. /\ <<m>> \in Seq(Messages)
        /\ Append(childOut, m) = childOut \o <<m>> /\ Append(produced, m) = produced \o <<m>>
    BY <1>a, <2>3, AppendIsConcat
  <2> HIDE DEF m
  <2>5. Kept(childOut \o <<m>>, "forward", "server") = left \o more
    BY ONLY <1>a, <1>e, <2>4
  <2>6. Kept(produced \o <<m>>, "forward", "server") = all \o more
    BY ONLY <1>a, <1>e, <2>4
  <2>7. more \in Seq(L)
    BY <2>4, KeptOf
  <2> HIDE DEF more, chosen, L, left, all
  <2>8. chosen \o (left \o more) = (chosen \o left) \o more
    <3>1. chosen \in Seq(L) /\ left \in Seq(L)
      BY <1>c
    <3> QED BY ONLY <3>1, <2>7, ConcatThree, SMTT(30)
  <2>9. Select(queued', L) = chosen
    BY <2>2 DEF chosen
  <2>10. chosen \o (left \o more) = all \o more
    BY ONLY <1>0, <2>8
  <2>11. /\ Kept(childOut', "forward", "server") = left \o more
         /\ Kept(produced', "forward", "server") = all \o more
    BY ONLY <2>2, <2>4, <2>5, <2>6
  <2> QED BY ONLY <2>9, <2>10, <2>11 DEF L
<1> QED BY <1>2, <1>3, <1>4, <1>5, <1>6, <1>7, StepsAreQuietOrMove

------------------------------------------------------------------------------
(* The relay                                                               *)

\* The inductive invariant of the relay.
RelayInv ==
    ReportInv /\ Typed /\ Control /\ Statuses /\ Bounded /\ Flow /\ Drained /\ Relayed

\* Before the launch nothing has moved.
LEMMA RelayInit == Init => RelayInv
<1> SUFFICES ASSUME Init PROVE RelayInv
  OBVIOUS
<1>1. ReportInv
  BY ReportInit
<1>2. /\ << >> \in Seq(Messages) /\ << >> \in Seq(Lines) /\ << >> \in Seq({}) /\ Len(<< >>) = 0
      /\ Path(<< >>, << >>, << >>) = << >>
  <2>1. \A X : << >> \in Seq(X)
    BY EmptySeq
  <2>2. << >> \o << >> = << >>
    BY <2>1, ConcatEmptySeq
  <2> QED BY <2>1, <2>2, EmptySeq DEF Path
<1>3. Typed
  BY <1>2 DEF Init, Typed
<1>4. Control
  BY DEF Init, Control, Exited
<1>5. Statuses
  <2>1. Heard
    BY <1>2 DEF Init, Heard
  <2> QED BY <1>2, <2>1 DEF Init, Statuses, DefaultResult, Exited
<1>6. Bounded
  BY <1>2, RelayAssumption DEF Init, Bounded, Exited
<1>7. Flow
  BY <1>2 DEF Init, Flow, Exited
<1>8. Drained
  BY DEF Init, Drained, Exited, Finished
<1>9. Relayed
  <2>1. /\ Select(<< >>, LinesOf("server")) = << >>
        /\ Kept(<< >>, "forward", "server") = << >>
    BY SelectEmpty, KeptOfNone
  <2>2. << >> \o << >> = << >>
    BY <1>2, ConcatEmptySeq
  <2> QED BY <2>1, <2>2 DEF Init, Relayed
<1> QED BY <1>1, <1>3, <1>4, <1>5, <1>6, <1>7, <1>8, <1>9 DEF RelayInv

\* Each part is preserved with the help of the others.
LEMMA RelayStep == RelayInv /\ [Next]_vars => RelayInv'
BY ReportStep, TypedStep, ControlStep, StatusesStep, BoundedStep, FlowStep, DrainedStep, RelayedStep
   DEF RelayInv

\* The relay keeps its invariant, whatever its peers, the clock and the
\* signals do between two of its system calls.
THEOREM RelayInvHolds == Spec => []RelayInv
<1> QED BY RelayInit, RelayStep, PTL DEF Spec

\* Every variable of the relay has its type.
THEOREM RelayIsTyped == Spec => []TypeOK
<1>1. RelayInv => TypeOK
  <2> SUFFICES ASSUME RelayInv PROVE TypeOK
    OBVIOUS
  <2>1. \A q \in {toChild, toClient, childIn, clientOut, forwarded, served, queued, received} :
          \A i \in DOMAIN q : q[i] \in Lines
    <3>1. \A q \in Seq(Lines) : \A i \in DOMAIN q : q[i] \in Lines
      BY ElementOfSeq, LenProperties
    <3> QED BY <3>1 DEF RelayInv, Typed
  <2>2. terminationSignal \in {0, SIGTERM}
    BY DEF RelayInv, ReportInv, Filled
  <2> QED BY <2>1, <2>2 DEF RelayInv, Control, Statuses, TypeOK
<1> QED BY <1>1, RelayInvHolds, PTL

\* What one read of the client adds fits the queue to the server, the queue to
\* the client never exceeds its capacity while the relay runs, and the client
\* is not read while the queue to the server holds anything.
THEOREM QueuesStayBounded == Spec => []QueuesBounded
<1>1. RelayInv => QueuesBounded
  BY DEF RelayInv, Bounded, QueuesBounded
<1> QED BY <1>1, RelayInvHolds, PTL

\* Both peers read what was let through to them in its order and once each,
\* and nothing is lost on a way that is still open.
THEOREM StreamsStayIntact == Spec => []StreamsIntact
<1>1. RelayInv => StreamsIntact
  BY FlowIsInOrder DEF RelayInv, Flow, Path, StreamsIntact
<1> QED BY <1>1, RelayInvHolds, PTL

\* A session that ends regularly has queued for the client every message the
\* server wrote, and the queue has drained.
THEOREM ServerOutputIsRelayed == Spec => []ServerOutputRelayed
<1>1. RelayInv => ServerOutputRelayed
  <2> SUFFICES ASSUME RelayInv, Finished PROVE ServerOutputRelayed
    BY DEF ServerOutputRelayed
  <2>1. toClient = << >> /\ childOut = << >>
    BY DEF RelayInv, Drained
  <2>2. Kept(childOut, "forward", "server") = << >>
    BY <2>1, KeptOfNone
  <2>3. Select(queued, LinesOf("server")) \in Seq(Lines \cap LinesOf("server"))
    BY SelectType DEF RelayInv, Typed
  <2>4. Select(queued, LinesOf("server")) \o << >> = Select(queued, LinesOf("server"))
    BY <2>3, ConcatEmptySeq
  <2>5. Select(queued, LinesOf("server")) \o Kept(childOut, "forward", "server")
          = Kept(produced, "forward", "server")
    BY DEF RelayInv, Relayed
  <2>6. Select(queued, LinesOf("server")) = Kept(produced, "forward", "server")
    BY ONLY <2>2, <2>4, <2>5
  <2> QED BY <2>1, <2>6 DEF ServerOutputRelayed, LinesOf
<1> QED BY <1>1, RelayInvHolds, PTL
==============================================================================
