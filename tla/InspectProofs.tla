----------------------------- MODULE InspectProofs -----------------------------
(***************************************************************************)
(* Proofs about Inspect, for any lines and their lengths, any limit, any   *)
(* cut of the server's output into reads and any descendants: what is      *)
(* published, that the server is collected, what a clean shutdown means.   *)
(***************************************************************************)
EXTENDS Inspect, FilteringProofs

Bits == [kind : Kinds, newline : BOOLEAN]

Receiving == {"start", "write", "receive", "remaining", "poll", "poll_forever"}
Forcing   == {"stop", "stopping", "reap"}

\* Both answers were taken and nothing has failed.
Answered == \/ pc \in {"shutdown", "publish"}
            \/ pc \in Forcing /\ exitCode = 0
            \/ destination # "old"

\* Which answers were taken, and what has been published, at each place.
Ordered ==
    /\ pc \in Receiving \cup Forcing \cup {"shutdown", "publish", "done", "killed"}
    /\ stage \in {"init", "list"} /\ exitCode \in {0, 1, 4}
    /\ destination \in {"old", "file", "stdout", "buffer"}
    /\ pc \in Receiving \cup {"shutdown", "publish"} => exitCode = 0
    /\ pc # "done" => destination = "old"
    /\ pc = "done" => (exitCode = 0 <=> destination # "old")
    /\ pc \in Receiving => accepted = IF stage = "init" THEN << >> ELSE <<"init">>
    /\ Answered => stage = "list" /\ accepted = <<"init", "list">>

\* Which ends of the pipes are open and whether the server is collected.
Collected ==
    /\ pc = "publish" => leader = "reaped"
    /\ pc \in Forcing \cup {"shutdown", "publish"} => ~stdinWrite
    /\ pc \in Forcing /\ exitCode = 1 => ~stdoutRead
    /\ pc = "done" /\ exitCode # 4 => leader = "reaped" /\ ~stdinWrite /\ ~stdoutRead

\* Nothing is sent to the group before it is terminated, and a process that
\* was collected keeps its status.
Unforced ==
    /\ leaderStatus \in {"exit", "signal"}
    /\ pc \in Receiving \cup {"shutdown", "stop"} => signals = {}
    /\ pc \in Receiving \cup {"shutdown"} => leader # "reaped"
    /\ pc \notin {"publish", "done", "killed"} => shutdown # "clean"
    /\ shutdown = "clean" => signals = {} /\ leaderStatus = "exit" /\ leader = "reaped"

\* The first line in a stream, with its newline, is of this kind.
FirstLine(text, kind) ==
    \E i \in DOMAIN text :
        /\ text[i].newline /\ text[i].kind = kind
        /\ \A j \in 1..(i - 1) : ~text[j].newline

Comes(text) == \A i \in DOMAIN text : \E k \in DOMAIN written : written[k] = text[i].kind

\* What is read and what is still in the pipe is what the server has written.
Stream ==
    /\ pending \in Seq(Bits) /\ out \in Seq(Bits) /\ written \in Seq(Kinds)
    /\ Comes(pending) /\ Comes(out)
    /\ pc \in Receiving /\ stage = "init" =>
         IF written = << >> THEN pending = << >> /\ out = << >>
         ELSE FirstLine(pending \o out, written[1])
    /\ stage = "list" => written # << >> /\ written[1] = "init"
    /\ accepted = <<"init", "list">> => \E k \in DOMAIN written : written[k] = "list"

IInv == Ordered /\ Collected /\ Unforced /\ Stream

------------------------------------------------------------------------------
(* Sequences                                                               *)

\* Line() gives the kind of the first byte that is a newline.
LEMMA LineIsFirst ==
    ASSUME NEW text \in Seq(Bits), Line(text) # "none"
    PROVE  \E i \in DOMAIN text :
             /\ text[i].newline /\ Line(text) = text[i].kind
             /\ \A j \in 1..(i - 1) : ~text[j].newline
<1> DEFINE Newlines == {i \in DOMAIN text : text[i].newline}
           First(i) == text[i].newline /\ \A j \in 1..(i - 1) : ~text[j].newline
<1>1. DOMAIN text = 1..Len(text) /\ Len(text) \in Nat
  BY LenProperties
<1>2. Newlines \subseteq Nat /\ Newlines # {}
  BY <1>1 DEF Line
<1>3. PICK i \in Newlines : \A k \in Newlines : i <= k
  BY <1>2, Least
<1>4. \A j \in 1..(i - 1) : ~text[j].newline
  BY <1>1, <1>3
<1>5. i \in DOMAIN text /\ First(i)
  BY <1>3, <1>4
<1>6. Line(text) = text[CHOOSE n \in DOMAIN text : First(n)].kind
  BY <1>2 DEF Line
<1> QED BY <1>5, <1>6

\* The first line of a stream is the first of what it begins with, once a
\* newline is in there.
LEMMA FirstOfConcat ==
    ASSUME NEW s \in Seq(Bits), NEW t \in Seq(Bits), NEW kind,
           FirstLine(s \o t, kind), Line(s) # "none"
    PROVE  Line(s) = kind
<1>1. /\ DOMAIN s = 1..Len(s) /\ Len(s) \in Nat /\ Len(t) \in Nat
      /\ DOMAIN (s \o t) = 1..(Len(s) + Len(t))
      /\ \A i \in 1..Len(s) : (s \o t)[i] = s[i]
  BY LenProperties, ConcatProperties
<1>2. PICK i \in 1..Len(s) : /\ s[i].newline /\ Line(s) = s[i].kind
                             /\ \A j \in 1..(i - 1) : ~s[j].newline
  BY <1>1, LineIsFirst
<1>3. PICK n \in 1..(Len(s) + Len(t)) :
        /\ (s \o t)[n].newline /\ (s \o t)[n].kind = kind
        /\ \A j \in 1..(n - 1) : ~(s \o t)[j].newline
  BY <1>1 DEF FirstLine
<1>4. ~(i < n)
  BY <1>1, <1>2, <1>3
<1>5. n \in 1..Len(s)
  BY <1>1, <1>4
<1>6. ~(n < i)
  BY <1>1, <1>2, <1>3, <1>5
<1>7. n = i
  BY <1>4, <1>5, <1>6
<1> QED BY <1>1, <1>2, <1>3, <1>7

\* More output does not change the first line.
LEMMA FirstStays ==
    ASSUME NEW s \in Seq(Bits), NEW t \in Seq(Bits), NEW kind, FirstLine(s, kind)
    PROVE  FirstLine(s \o t, kind)
<1>1. /\ DOMAIN s = 1..Len(s) /\ Len(s) \in Nat /\ Len(t) \in Nat
      /\ DOMAIN (s \o t) = 1..(Len(s) + Len(t))
      /\ \A i \in 1..Len(s) : (s \o t)[i] = s[i]
  BY LenProperties, ConcatProperties
<1>2. PICK i \in 1..Len(s) : /\ s[i].newline /\ s[i].kind = kind
                             /\ \A j \in 1..(i - 1) : ~s[j].newline
  BY <1>1 DEF FirstLine
<1>3. i \in DOMAIN (s \o t) /\ (s \o t)[i] = s[i]
  BY <1>1
<1>4. \A j \in 1..(i - 1) : ~(s \o t)[j].newline
  BY <1>1, <1>2
<1> QED BY <1>2, <1>3, <1>4 DEF FirstLine

\* A line is bytes of its kind, the last of them its newline.
LEMMA BytesOfLine ==
    ASSUME InspectAssumption, NEW kind \in Kinds
    PROVE  /\ Bytes(kind) \in Seq(Bits)
           /\ \A i \in DOMAIN Bytes(kind) : Bytes(kind)[i].kind = kind
           /\ FirstLine(Bytes(kind), kind)
<1> DEFINE n == LineBytes[kind] + 1
           e == [i \in 1..n |-> [kind |-> kind, newline |-> i > LineBytes[kind]]]
<1>1. n \in Nat /\ n \in 1..n /\ LineBytes[kind] \in Nat
  BY DEF InspectAssumption
<1>2. \A i \in 1..n : e[i] = [kind |-> kind, newline |-> i > LineBytes[kind]]
  OBVIOUS
<1>3. \A i \in 1..n : [kind |-> kind, newline |-> i > LineBytes[kind]] \in Bits
  BY DEF Bits
<1>4. e \in [1..n -> Bits]
  BY <1>2, <1>3
<1>5. e \in Seq(Bits)
  BY <1>1, <1>4, SeqDef
<1>6. Bytes(kind) = e
  BY DEF Bytes
<1>7. \A i \in 1..n : e[i].kind = kind /\ e[i].newline = (i > LineBytes[kind])
  BY <1>2
<1>8. DOMAIN e = 1..n
  OBVIOUS
<1> HIDE DEF e
<1>9. FirstLine(e, kind)
  <2>1. n \in DOMAIN e /\ e[n].kind = kind
    BY <1>1, <1>7, <1>8
  <2>2. e[n].newline
    <3>1. n > LineBytes[kind]
      BY <1>1
    <3> QED BY <1>1, <1>7, <3>1
  <2>3. ASSUME NEW j \in 1..(n - 1) PROVE ~e[j].newline
    <3>1. j \in 1..n /\ ~(j > LineBytes[kind])
      BY <1>1
    <3> QED BY <1>7, <3>1
  <2> HIDE DEF n
  <2> QED BY <2>1, <2>2, <2>3 DEF FirstLine
<1> QED BY <1>5, <1>6, <1>7, <1>8, <1>9

------------------------------------------------------------------------------

\* Nothing has been read or published before the launch.
LEMMA InspectInit == Init => IInv
<1> SUFFICES ASSUME Init PROVE IInv
  OBVIOUS
<1>1. Ordered
  BY DEF Init, Ordered, Receiving, Forcing, Answered
<1>2. Collected
  BY DEF Init, Collected, Receiving, Forcing
<1>3. Unforced
  BY DEF Init, Unforced, Receiving, Forcing
<1>4. << >> \in Seq(Bits) /\ << >> \in Seq(Kinds) /\ DOMAIN << >> = {}
  BY EmptySeq
<1>5. Stream
  BY <1>4 DEF Init, Stream, Comes
<1> QED BY <1>1, <1>2, <1>3, <1>5 DEF IInv

\* A step that reads and writes nothing, and takes no answer.
LEMMA StreamUntouched ==
    ASSUME Stream, UNCHANGED <<pending, out, written, stage, accepted>>,
           pc' \in Receiving => pc \in Receiving
    PROVE  Stream'
BY DEF Stream, Comes, FirstLine

\* Such a step of the server leaves what inspect has as it is.
LEMMA GroupStep ==
    ASSUME IInv, UNCHANGED <<own, clocks>>, UNCHANGED <<signals, out, written>>,
           \/ leader' = leader /\ leaderStatus' = leaderStatus
           \/ Alive /\ leader' \in {"hung", "zombie"} /\ leaderStatus' \in {"exit", "signal"}
    PROVE  IInv'
<1>1. UNCHANGED <<pc, stage, pending, accepted, stdinWrite, stdoutRead, exitCode, shutdown, destination>>
  BY DEF own
<1>2. Ordered'
  BY <1>1 DEF IInv, Ordered, Answered
<1>3. leader = "reaped" => leader' = "reaped" /\ leaderStatus' = leaderStatus
  BY DEF Alive
<1>4. leader # "reaped" => leader' # "reaped"
  OBVIOUS
<1>5. Collected'
  BY <1>1, <1>3 DEF IInv, Collected
<1>6. leaderStatus' \in {"exit", "signal"}
  BY DEF IInv, Unforced
<1>7. Unforced'
  BY <1>1, <1>3, <1>4, <1>6 DEF IInv, Unforced
<1>8. Stream'
  BY <1>1, StreamUntouched DEF IInv
<1> QED BY <1>2, <1>5, <1>7, <1>8 DEF IInv

\* The server writes a line.
LEMMA WriteStep ==
    ASSUME InspectAssumption, IInv, NEW kind \in Kinds, ServerWrites(kind)
    PROVE  IInv'
<1>1. /\ UNCHANGED <<pc, stage, pending, accepted, stdinWrite, stdoutRead, exitCode, shutdown,
                      destination, leader, leaderStatus, signals>>
      /\ written' = Append(written, kind) /\ out' = out \o Bytes(kind)
  BY DEF ServerWrites, own
<1>2. Ordered'
  BY <1>1 DEF IInv, Ordered, Answered
<1>3. Collected' /\ Unforced'
  BY <1>1 DEF IInv, Collected, Unforced
<1>4. pending \in Seq(Bits) /\ out \in Seq(Bits) /\ written \in Seq(Kinds)
  BY DEF IInv, Stream
<1>5. /\ Bytes(kind) \in Seq(Bits) /\ FirstLine(Bytes(kind), kind)
      /\ \A i \in DOMAIN Bytes(kind) : Bytes(kind)[i].kind = kind
  BY BytesOfLine
<1>6. out' \in Seq(Bits)
  BY <1>1, <1>4, <1>5, ConcatProperties
<1>7. /\ written' \in Seq(Kinds) /\ written' # << >>
      /\ Len(written) \in Nat /\ DOMAIN written = 1..Len(written)
      /\ DOMAIN written' = 1..(Len(written) + 1)
      /\ \A k \in DOMAIN written : k \in DOMAIN written' /\ written'[k] = written[k]
      /\ written'[Len(written) + 1] = kind
  BY <1>1, <1>4, AppendProperties, LenProperties
<1>8. written # << >> => 1 \in DOMAIN written /\ written'[1] = written[1]
  <2>1. written # << >> => Len(written) # 0
    BY <1>4, EmptySeq
  <2> QED BY <1>7, <2>1
<1>9. Comes(pending)'
  BY <1>1, <1>7 DEF IInv, Stream, Comes
<1>10. Comes(out)'
  <2> SUFFICES ASSUME NEW i \in DOMAIN (out \o Bytes(kind))
               PROVE  \E k \in DOMAIN written' : written'[k] = (out \o Bytes(kind))[i].kind
    BY <1>1 DEF Comes
  <2>1. /\ DOMAIN out = 1..Len(out) /\ Len(out) \in Nat
        /\ DOMAIN Bytes(kind) = 1..Len(Bytes(kind)) /\ Len(Bytes(kind)) \in Nat
        /\ i \in 1..(Len(out) + Len(Bytes(kind)))
        /\ (out \o Bytes(kind))[i] = IF i <= Len(out) THEN out[i] ELSE Bytes(kind)[i - Len(out)]
    BY <1>4, <1>5, <1>6, <1>1, ConcatProperties, LenProperties
  <2>2. CASE i <= Len(out)
    <3>1. i \in DOMAIN out /\ (out \o Bytes(kind))[i] = out[i]
      BY <2>1, <2>2
    <3>2. \E k \in DOMAIN written : written[k] = out[i].kind
      BY <3>1 DEF IInv, Stream, Comes
    <3> QED BY <1>7, <3>1, <3>2
  <2>3. CASE ~(i <= Len(out))
    <3>1. /\ i - Len(out) \in DOMAIN Bytes(kind)
          /\ (out \o Bytes(kind))[i] = Bytes(kind)[i - Len(out)]
      BY <2>1, <2>3
    <3>2. (out \o Bytes(kind))[i].kind = kind
      BY <1>5, <3>1
    <3>3. Len(written) + 1 \in DOMAIN written'
      BY <1>7
    <3> QED BY <1>7, <3>2, <3>3
  <2> QED BY <2>2, <2>3
<1>11. pc \in Receiving /\ stage = "init" => FirstLine(pending \o (out \o Bytes(kind)), written'[1])
  <2> SUFFICES ASSUME pc \in Receiving, stage = "init"
               PROVE  FirstLine(pending \o (out \o Bytes(kind)), written'[1])
    OBVIOUS
  <2>1. CASE written = << >>
    <3>1. pending = << >> /\ out = << >>
      BY <2>1 DEF IInv, Stream
    <3>2. pending \o (out \o Bytes(kind)) = Bytes(kind)
      BY <1>5, <3>1, ConcatEmptySeq
    <3>3. written'[1] = kind
      <4>1. Len(written) = 0
        BY <2>1, EmptySeq
      <4> QED BY <1>7, <4>1
    <3> QED BY <1>5, <3>2, <3>3
  <2>2. CASE written # << >>
    <3>1. FirstLine(pending \o out, written[1])
      BY <2>2 DEF IInv, Stream
    <3>2. pending \o out \in Seq(Bits)
      BY <1>4, ConcatProperties
    <3>3. FirstLine((pending \o out) \o Bytes(kind), written[1])
      BY <1>5, <3>1, <3>2, FirstStays
    <3>4. (pending \o out) \o Bytes(kind) = pending \o (out \o Bytes(kind))
      <4>1. \A s, t, u \in Seq(Bits) : (s \o t) \o u = s \o (t \o u)
        BY ONLY ConcatAssociative
      <4> QED BY ONLY <1>4, <1>5, <4>1
    <3> QED BY <1>8, <2>2, <3>3, <3>4
  <2> QED BY <2>1, <2>2
<1>12. stage = "list" => written'[1] = "init"
  BY <1>8 DEF IInv, Stream
<1>13. accepted = <<"init", "list">> => \E k \in DOMAIN written' : written'[k] = "list"
  BY <1>7 DEF IInv, Stream
<1>14. Stream'
  BY <1>1, <1>4, <1>6, <1>7, <1>9, <1>10, <1>11, <1>12, <1>13 DEF Stream
<1> QED BY <1>2, <1>3, <1>14 DEF IInv

\* What a read gives and what it leaves are together what was there.
LEMMA Cut ==
    ASSUME NEW p, NEW o, p \in Seq(Bits), o \in Seq(Bits), NEW n \in 1..Len(o)
    PROVE  /\ SubSeq(o, 1, n) \in Seq(Bits) /\ SubSeq(o, n + 1, Len(o)) \in Seq(Bits)
           /\ p \o SubSeq(o, 1, n) \in Seq(Bits)
           /\ (p \o SubSeq(o, 1, n)) \o SubSeq(o, n + 1, Len(o)) = p \o o
           /\ Comes(p) /\ Comes(o) => /\ Comes(p \o SubSeq(o, 1, n))
                                      /\ Comes(SubSeq(o, n + 1, Len(o)))
<1> DEFINE a == SubSeq(o, 1, n)
           z == SubSeq(o, n + 1, Len(o))
<1>1. /\ Len(o) \in Nat /\ DOMAIN o = 1..Len(o) /\ \A i \in 1..Len(o) : o[i] \in Bits
      /\ n \in Nat /\ 1 <= n /\ n <= Len(o)
  <2>1. Len(o) \in Nat /\ DOMAIN o = 1..Len(o) /\ \A i \in 1..Len(o) : o[i] \in Bits
    BY LenProperties, ElementOfSeq
  <2> QED BY <2>1
<1>2. a \in Seq(Bits) /\ Len(a) = n /\ \A i \in 1..n : a[i] = o[i]
  <2>1. \A i \in 1..n : o[i] \in Bits
    BY <1>1
  <2> QED BY <1>1, <2>1, SubSeqProperties
<1>3. z \in Seq(Bits) /\ Len(z) = Len(o) - n /\ \A i \in 1..(Len(o) - n) : z[i] = o[n + i]
  <2>1. \A i \in (n + 1)..Len(o) : o[i] \in Bits
    BY <1>1
  <2>2. n + 1 \in Int /\ Len(o) \in Int
    BY <1>1
  <2>3. /\ z \in Seq(Bits)
        /\ Len(z) = IF n + 1 <= Len(o) THEN Len(o) - (n + 1) + 1 ELSE 0
        /\ \A i \in 1..(Len(o) - (n + 1) + 1) : z[i] = o[(n + 1) + i - 1]
    BY <2>1, <2>2, SubSeqProperties
  <2>4. (n + 1 <= Len(o) \/ n = Len(o)) /\ Len(o) - (n + 1) + 1 = Len(o) - n
    <3>1. Len(o) \in Nat /\ n \in Nat /\ n <= Len(o)
      BY <1>1
    <3> HIDE DEF a, z
    <3> QED BY ONLY <3>1
  <2>5. \A i \in 1..(Len(o) - n) : (n + 1) + i - 1 = n + i
    BY <1>1
  <2> HIDE DEF z
  <2>6. Len(z) = Len(o) - n
    <3>1. Len(o) \in Nat /\ n \in Nat /\ n <= Len(o)
      BY <1>1
    <3>2. Len(z) = IF n + 1 <= Len(o) THEN Len(o) - n ELSE 0
      BY <2>3, <2>4
    <3>3. CASE n + 1 <= Len(o)
      BY <3>2, <3>3
    <3>4. CASE n = Len(o)
      BY ONLY <3>1, <3>2, <3>4
    <3> QED BY <2>4, <3>3, <3>4
  <2> QED BY <2>3, <2>4, <2>5, <2>6
<1>4. a \o z = o
  <2>1. /\ 1 \in 1..(Len(o) + 1) /\ n \in (1 - 1)..Len(o) /\ Len(o) \in n..Len(o)
    BY <1>1
  <2>2. a \o z = SubSeq(o, 1, Len(o))
    BY <2>1, ConcatAdjacentSubSeq
  <2> QED BY <2>2, SubSeqFull
<1> HIDE DEF a, z
<1>5. p \o a \in Seq(Bits)
  BY <1>2, ConcatProperties
<1>6. (p \o a) \o z = p \o o
  <2>1. p \in Seq(Bits) /\ a \in Seq(Bits) /\ z \in Seq(Bits)
    BY <1>2, <1>3
  <2>2. (p \o a) \o z = p \o (a \o z)
    BY ONLY <2>1, ConcatAssociative
  <2> QED BY <1>4, <2>2
<1>7. ASSUME Comes(p), Comes(o) PROVE Comes(p \o a) /\ Comes(z)
  <2>1. /\ DOMAIN p = 1..Len(p) /\ Len(p) \in Nat /\ DOMAIN z = 1..(Len(o) - n)
        /\ DOMAIN (p \o a) = 1..(Len(p) + n)
        /\ \A i \in 1..(Len(p) + n) : (p \o a)[i] = IF i <= Len(p) THEN p[i] ELSE a[i - Len(p)]
    <3>1. /\ \A s, t \in Seq(Bits) :
               /\ Len(s \o t) = Len(s) + Len(t)
               /\ \A i \in 1..(Len(s) + Len(t)) :
                     (s \o t)[i] = IF i <= Len(s) THEN s[i] ELSE t[i - Len(s)]
          /\ \A s \in Seq(Bits) : DOMAIN s = 1..Len(s) /\ Len(s) \in Nat
      BY ONLY ConcatProperties, LenProperties
    <3>2. p \in Seq(Bits)
      OBVIOUS
    <3> QED BY ONLY <1>2, <1>3, <1>5, <3>1, <3>2
  <2>2. ASSUME NEW i \in DOMAIN (p \o a)
        PROVE  \E k \in DOMAIN written : written[k] = (p \o a)[i].kind
    <3>1. CASE i <= Len(p)
      <4>1. i \in DOMAIN p /\ (p \o a)[i] = p[i]
        BY <2>1, <3>1
      <4> QED BY <1>7, <4>1 DEF Comes
    <3>2. CASE ~(i <= Len(p))
      <4>1. i - Len(p) \in 1..n /\ i - Len(p) \in DOMAIN o /\ (p \o a)[i] = a[i - Len(p)]
        BY <1>1, <2>1, <3>2
      <4>2. (p \o a)[i] = o[i - Len(p)]
        BY <1>2, <4>1
      <4> QED BY <1>7, <4>1, <4>2 DEF Comes
    <3> QED BY <3>1, <3>2
  <2>3. ASSUME NEW i \in DOMAIN z
        PROVE  \E k \in DOMAIN written : written[k] = z[i].kind
    <3>1. i \in 1..(Len(o) - n)
      BY <2>1
    <3>2. n + i \in 1..Len(o) /\ z[i] = o[n + i]
      BY <1>1, <1>3, <3>1
    <3>3. n + i \in DOMAIN o
      BY ONLY <1>1, <3>2
    <3>4. \E k \in DOMAIN written : written[k] = o[n + i].kind
      BY ONLY <1>7, <3>3 DEF Comes
    <3> QED BY ONLY <3>2, <3>4
  <2> QED BY <2>2, <2>3 DEF Comes
<1> QED BY <1>2, <1>3, <1>5, <1>6, <1>7 DEF a, z

\* The answers taken, after one more.
LEMMA OneMore ==
    ASSUME NEW k
    PROVE  /\ Append(<< >>, k) = <<k>> /\ Append(<<"init">>, k) = <<"init", k>>
           /\ Append(<< >>, k) # <<"init", "list">>
           /\ Append(<<"init">>, k) = <<"init", "list">> => k = "list"
<1>1. Append(<< >>, k) = <<k>>
  OBVIOUS
<1>2. Append(<<"init">>, k) = <<"init", k>>
  <2> DEFINE S == {"init", k}
  <2>1. <<"init">> \in Seq(S) /\ Len(<<"init">>) = 1 /\ k \in S
    OBVIOUS
  <2>2. /\ Append(<<"init">>, k) \in Seq(S) /\ Len(Append(<<"init">>, k)) = 2
        /\ Append(<<"init">>, k)[1] = "init" /\ Append(<<"init">>, k)[2] = k
    BY <2>1, AppendProperties
  <2>3. /\ <<"init", k>> \in Seq(S) /\ Len(<<"init", k>>) = 2
        /\ <<"init", k>>[1] = "init" /\ <<"init", k>>[2] = k
    OBVIOUS
  <2>4. \A i \in 1..2 : Append(<<"init">>, k)[i] = <<"init", k>>[i]
    BY <2>2, <2>3
  <2> QED BY <2>2, <2>3, <2>4, SeqEqual
<1>3. <<k>> # <<"init", "list">>
  OBVIOUS
<1>4. <<"init", k>> = <<"init", "list">> => k = "list"
  OBVIOUS
<1> QED BY ONLY <1>1, <1>2, <1>3, <1>4

\* A read: a line is not complete, is an answer expected, or fails.
LEMMA ReadStep ==
    ASSUME InspectAssumption, IInv, Read
    PROVE  IInv'
<1>1. PICK n \in 1..Len(out) :
        LET buffer   == pending \o SubSeq(out, 1, n)
            line     == Line(buffer)
        IN  /\ out' = SubSeq(out, n + 1, Len(out))
            /\ \/ /\ line = "none" /\ pending' = buffer
                  /\ pc' = "receive"
                  /\ UNCHANGED <<stage, accepted, stdinWrite, stdoutRead, exitCode>>
               \/ /\ line # "none" /\ IdOf[line] = stage /\ pending' = << >>
                  /\ Take(line)
               \/ /\ pending' = << >>
                  /\ Fail
                  /\ UNCHANGED <<stage, accepted>>
  <2>1. Len(out) \in Nat /\ ReadBytes \in Nat
    BY LenProperties DEF IInv, Stream, InspectAssumption
  <2>2. \A n \in 1..(IF ReadBytes < Len(out) THEN ReadBytes ELSE Len(out)) : n \in 1..Len(out)
    BY <2>1
  <2> QED BY <2>2 DEF Read
<1> DEFINE buffer == pending \o SubSeq(out, 1, n)
           line   == Line(buffer)
<1>2. /\ pc \in {"poll", "poll_forever"} /\ out # << >>
      /\ UNCHANGED <<shutdown, destination, leader, leaderStatus, signals, written>>
  BY DEF Read, Polling
<1>3. pending \in Seq(Bits) /\ out \in Seq(Bits) /\ written \in Seq(Kinds) /\ Comes(pending) /\ Comes(out)
  BY DEF IInv, Stream
<1>4. /\ out' \in Seq(Bits) /\ buffer \in Seq(Bits) /\ buffer \o out' = pending \o out
      /\ Comes(buffer) /\ Comes(out')
  BY <1>1, <1>3, Cut
<1>5. /\ accepted = IF stage = "init" THEN << >> ELSE <<"init">>
      /\ stage \in {"init", "list"} /\ exitCode = 0 /\ destination = "old"
      /\ signals = {} /\ leader # "reaped" /\ shutdown # "clean"
      /\ leaderStatus \in {"exit", "signal"}
  BY <1>2 DEF IInv, Ordered, Unforced, Receiving
<1>6. << >> \in Seq(Bits) /\ (Comes(<< >>))'
  BY EmptySeq DEF Comes
<1>7. stage = "init" => written # << >> /\ FirstLine(buffer \o out', written[1])
  BY <1>2, <1>4 DEF IInv, Stream, Receiving
<1>9. Comes(out)'
  BY <1>2, <1>4 DEF Comes
<1>10. CASE /\ line = "none" /\ pending' = buffer /\ pc' = "receive"
            /\ UNCHANGED <<stage, accepted, stdinWrite, stdoutRead, exitCode>>
  <2>1. Ordered' /\ Collected' /\ Unforced'
    BY <1>2, <1>5, <1>10 DEF Ordered, Collected, Unforced, Receiving, Forcing, Answered
  <2>2. Comes(pending)'
    BY <1>2, <1>4, <1>10 DEF Comes
  <2>3. /\ pending' \in Seq(Bits) /\ written' = written
        /\ stage = "init" => FirstLine(pending' \o out', written[1])
    BY <1>2, <1>4, <1>7, <1>10
  <2>4. Stream'
    BY <1>2, <1>3, <1>4, <1>7, <1>9, <1>10, <2>2, <2>3 DEF IInv, Stream, FirstLine
  <2> QED BY <2>1, <2>4 DEF IInv
<1>11. CASE /\ line # "none" /\ IdOf[line] = stage /\ pending' = << >> /\ Take(line)
  <2>1. PICK i \in DOMAIN buffer : line = buffer[i].kind
    BY <1>4, <1>11, LineIsFirst
  <2>2. \E k \in DOMAIN written : written[k] = line
    BY <1>4, <2>1 DEF Comes
  <2>3. stage = "init" => line = written[1]
    BY <1>4, <1>7, <1>11, FirstOfConcat
  <2>4. accepted' = Append(accepted, line)
    BY <1>11 DEF Take
  <2>5. Comes(pending)'
    BY <1>6, <1>11 DEF Comes
  <2>6. CASE /\ line = "init" /\ pc' = "write" /\ stage' = "list"
             /\ UNCHANGED <<stdinWrite, stdoutRead, exitCode, timer>>
    <3>1. stage = "init"
      BY <1>11, <2>6 DEF IdOf
    <3>2. accepted' = <<"init">>
      BY <1>5, <2>4, <2>6, <3>1, OneMore
    <3>3. Ordered' /\ Collected' /\ Unforced'
      BY <1>2, <1>5, <2>6, <3>2 DEF Ordered, Collected, Unforced, Receiving, Forcing, Answered
    <3>4. written # << >> /\ written[1] = "init"
      BY <1>7, <2>3, <2>6, <3>1
    <3>5. accepted' # <<"init", "list">>
      BY <3>2
    <3>6. Stream'
      BY <1>2, <1>3, <1>4, <1>6, <1>9, <1>11, <2>5, <2>6, <3>4, <3>5 DEF Stream
    <3> QED BY <3>3, <3>6 DEF IInv
  <2>7. CASE /\ line = "list" /\ pc' = "shutdown" /\ stdinWrite' = FALSE
             /\ UNCHANGED <<stage, stdoutRead, exitCode>>
    <3>1. stage = "list"
      BY <1>11, <2>7 DEF IdOf
    <3>2. accepted' = <<"init", "list">>
      BY <1>5, <2>4, <2>7, <3>1, OneMore
    <3>3. Ordered' /\ Collected' /\ Unforced'
      BY <1>2, <1>5, <2>7, <3>1, <3>2 DEF Ordered, Collected, Unforced, Receiving, Forcing, Answered
    <3>4. written # << >> /\ written[1] = "init"
      BY <3>1 DEF IInv, Stream
    <3>5. Stream'
      BY <1>2, <1>3, <1>4, <1>6, <1>9, <1>11, <2>2, <2>5, <2>7, <3>1, <3>4 DEF Stream, Receiving
    <3> QED BY <3>3, <3>5 DEF IInv
  <2>8. CASE line \notin {"init", "list"} /\ Fail /\ UNCHANGED <<stage, timer>>
    <3>1. accepted' # <<"init", "list">>
      BY <1>5, <2>4, <2>8, OneMore
    <3>2. /\ pc' = "stop" /\ exitCode' = 1 /\ stdinWrite' = FALSE /\ stdoutRead' = FALSE
      BY <2>8 DEF Fail
    <3>3. Ordered' /\ Collected' /\ Unforced'
      BY <1>2, <1>5, <2>8, <3>2 DEF Ordered, Collected, Unforced, Receiving, Forcing, Answered
    <3>4. Stream'
      BY <1>2, <1>3, <1>4, <1>6, <1>9, <1>11, <2>5, <2>8, <3>1, <3>2 DEF IInv, Stream, Receiving
    <3> QED BY <3>3, <3>4 DEF IInv
  <2> QED BY <1>11, <2>6, <2>7, <2>8 DEF Take
<1>12. CASE pending' = << >> /\ Fail /\ UNCHANGED <<stage, accepted>>
  <2>1. /\ pc' = "stop" /\ exitCode' = 1 /\ stdinWrite' = FALSE /\ stdoutRead' = FALSE
    BY <1>12 DEF Fail
  <2>2. Ordered' /\ Collected' /\ Unforced'
    BY <1>2, <1>5, <1>12, <2>1 DEF Ordered, Collected, Unforced, Receiving, Forcing, Answered
  <2>3. Comes(pending)'
    BY <1>6, <1>12 DEF Comes
  <2>4. Stream'
    BY <1>2, <1>3, <1>4, <1>5, <1>6, <1>9, <1>12, <2>1, <2>3 DEF IInv, Stream, Receiving
  <2> QED BY <2>2, <2>4 DEF IInv
<1> QED BY <1>1, <1>10, <1>11, <1>12

------------------------------------------------------------------------------

\* One step per action of inspect.
LEMMA GuardStep == ASSUME InspectAssumption, IInv, Guard PROVE IInv'
<1> USE DEF Receiving, Forcing, Answered
<1>1. CASE Start
  <2>1. /\ UNCHANGED <<pending, out, written, stage, accepted>> /\ pc = "start"
        /\ UNCHANGED <<shutdown, destination, leaderStatus, signals>>
        /\ \/ pc' = "write" /\ leader' = "running" /\ exitCode' = exitCode
           \/ pc' = "done" /\ exitCode' = 4 /\ leader' = leader
    BY <1>1 DEF Start
  <2>2. Stream'
    BY <2>1, StreamUntouched DEF IInv
  <2>3. Ordered' /\ Collected' /\ Unforced'
    BY <2>1 DEF IInv, Ordered, Collected, Unforced
  <2> QED BY <2>2, <2>3 DEF IInv
<1>2. CASE Write
  <2>1. /\ UNCHANGED <<pending, out, written, stage, accepted>> /\ pc = "write"
        /\ UNCHANGED <<shutdown, destination, leader, leaderStatus, signals>>
        /\ \/ pc' = "receive" /\ exitCode' = exitCode
           \/ pc' = "stop" /\ exitCode' = 1 /\ stdinWrite' = FALSE /\ stdoutRead' = FALSE
           \/ pc' = "killed" /\ exitCode' = exitCode
    BY <1>2 DEF Write, Fail
  <2>2. Stream'
    BY <2>1, StreamUntouched DEF IInv
  <2>3. Ordered' /\ Collected' /\ Unforced'
    BY <2>1 DEF IInv, Ordered, Collected, Unforced
  <2> QED BY <2>2, <2>3 DEF IInv
<1>3. CASE Receive
  <2>1. /\ UNCHANGED <<pending, out, written, stage, accepted>> /\ pc = "receive"
        /\ UNCHANGED <<shutdown, destination, leaderStatus, signals>>
        /\ \/ /\ pc' = "stop" /\ exitCode' = 1 /\ stdinWrite' = FALSE /\ stdoutRead' = FALSE
              /\ leader' \in {leader, "reaped"}
           \/ pc' = "remaining" /\ exitCode' = exitCode /\ leader' = leader
    BY <1>3 DEF Receive, Fail
  <2>2. Stream'
    BY <2>1, StreamUntouched DEF IInv
  <2>3. Ordered' /\ Collected' /\ Unforced'
    BY <2>1 DEF IInv, Ordered, Collected, Unforced
  <2> QED BY <2>2, <2>3 DEF IInv
<1>4. CASE Remaining \/ PollTimesOut \/ PollHangsUp
  <2>1. /\ UNCHANGED <<pending, out, written, stage, accepted>>
        /\ pc \in {"remaining", "poll", "poll_forever"}
        /\ UNCHANGED <<shutdown, destination, leader, leaderStatus, signals>>
        /\ \/ pc' \in {"poll", "poll_forever", "receive"} /\ exitCode' = exitCode
           \/ pc' = "stop" /\ exitCode' = 1 /\ stdinWrite' = FALSE /\ stdoutRead' = FALSE
    BY <1>4 DEF Remaining, Polling, PollTimesOut, PollHangsUp, Fail, group
  <2>2. Stream'
    BY <2>1, StreamUntouched DEF IInv
  <2>3. Ordered' /\ Collected' /\ Unforced'
    BY <2>1 DEF IInv, Ordered, Collected, Unforced
  <2> QED BY <2>2, <2>3 DEF IInv
<1>5. CASE Read
  BY <1>5, ReadStep
<1>6. CASE WaitForCleanShutdown
  <2>1. /\ UNCHANGED <<pending, out, written, stage, accepted>>
        /\ pc = "shutdown" /\ pc' = "publish" /\ leader' = "reaped"
        /\ UNCHANGED <<stdinWrite, stdoutRead, exitCode, destination, leaderStatus, signals>>
        /\ leader \in {"zombie", "reaped"}
        /\ shutdown' = IF leader = "zombie" /\ leaderStatus = "signal" THEN "forced" ELSE "clean"
    BY <1>6 DEF WaitForCleanShutdown
  <2>2. Stream'
    BY <2>1, StreamUntouched DEF IInv
  <2>3. Ordered' /\ Collected' /\ Unforced'
    BY <2>1 DEF IInv, Ordered, Collected, Unforced
  <2> QED BY <2>2, <2>3 DEF IInv
<1>7. CASE ForceShutdown
  <2>1. /\ UNCHANGED <<pending, out, written, stage, accepted>>
        /\ pc = "shutdown" /\ pc' = "stop" /\ shutdown' = "forced"
        /\ UNCHANGED <<stdinWrite, stdoutRead, exitCode, destination, leader, leaderStatus, signals>>
    BY <1>7 DEF ForceShutdown, group
  <2>2. Stream'
    BY <2>1, StreamUntouched DEF IInv
  <2>3. Ordered' /\ Collected' /\ Unforced'
    BY <2>1 DEF IInv, Ordered, Collected, Unforced
  <2> QED BY <2>2, <2>3 DEF IInv
<1>8. CASE Stop \/ Stopping \/ Reap
  <2>1. /\ UNCHANGED <<pending, out, written, stage, accepted>> /\ pc \in Forcing
        /\ UNCHANGED <<stdinWrite, stdoutRead, exitCode, shutdown, destination, leaderStatus>>
        /\ \/ pc' \in {"stopping", "reap"}
           \/ leader' = "reaped" /\ pc' = IF exitCode = 0 THEN "publish" ELSE "done"
    BY <1>8 DEF Stop, Stopping, Reap, Stopped, Quiet
  <2>2. Stream'
    BY <2>1, StreamUntouched DEF IInv
  <2>3. Ordered'
    BY <2>1 DEF IInv, Ordered
  <2>4. Collected'
    BY <2>1 DEF IInv, Ordered, Collected
  <2>5. shutdown' # "clean" /\ leaderStatus' \in {"exit", "signal"}
    BY <2>1 DEF IInv, Unforced
  <2>6. Unforced'
    BY <2>1, <2>5 DEF Unforced
  <2> QED BY <2>2, <2>3, <2>4, <2>6 DEF IInv
<1>9. CASE Publish
  <2>1. /\ UNCHANGED <<pending, out, written, stage, accepted>>
        /\ pc = "publish" /\ stdoutRead' = FALSE
        /\ UNCHANGED <<stdinWrite, shutdown, leader, leaderStatus, signals>>
        /\ \/ /\ pc' = "done" /\ exitCode' = exitCode
              /\ destination' \in {"file", "stdout", "buffer"}
           \/ pc' = "done" /\ exitCode' = 1 /\ destination' = destination
           \/ pc' = "killed" /\ exitCode' = exitCode /\ destination' = destination
    BY <1>9 DEF Publish, group
  <2>2. Stream'
    BY <2>1, StreamUntouched DEF IInv
  <2>3. Ordered'
    BY <2>1 DEF IInv, Ordered
  <2>4. Collected'
    BY <2>1 DEF IInv, Collected
  <2>5. Unforced'
    BY <2>1 DEF IInv, Unforced
  <2> QED BY <2>2, <2>3, <2>4, <2>5 DEF IInv
<1> QED BY <1>1, <1>2, <1>3, <1>4, <1>5, <1>6, <1>7, <1>8, <1>9 DEF Guard

\* One step per action of the server, its descendants and the clocks.
LEMMA OthersStep ==
    ASSUME InspectAssumption, IInv, DeadlineExpires \/ TimerExpires \/ Server
    PROVE  IInv'
<1>1. CASE DeadlineExpires \/ TimerExpires
  <2>1. /\ UNCHANGED <<pc, stage, pending, accepted, stdinWrite, stdoutRead, exitCode, shutdown,
                       destination, leader, leaderStatus, signals, out, written>>
    BY <1>1 DEF DeadlineExpires, TimerExpires, own, group
  <2>2. Stream'
    BY <2>1, StreamUntouched DEF IInv
  <2>3. Ordered' /\ Collected' /\ Unforced'
    BY <2>1 DEF IInv, Ordered, Collected, Unforced, Answered
  <2> QED BY <2>2, <2>3 DEF IInv
<1>2. CASE ServerReads
  <2>1. UNCHANGED <<own, clocks>> /\ UNCHANGED <<signals, out, written, leader, leaderStatus>>
    BY <1>2 DEF ServerReads
  <2> QED BY <2>1, GroupStep
<1>3. CASE ServerHangs
  <2>1. /\ UNCHANGED <<own, clocks>> /\ UNCHANGED <<signals, out, written, leaderStatus>>
        /\ Alive /\ leader' = "hung"
    BY <1>3 DEF ServerHangs, Alive
  <2>2. leaderStatus' \in {"exit", "signal"}
    BY <2>1 DEF IInv, Unforced
  <2> QED BY <2>1, <2>2, GroupStep
<1>4. CASE LeaderExits \/ LeaderDies
  <2>1. /\ UNCHANGED <<own, clocks>> /\ UNCHANGED <<signals, out, written>>
        /\ Alive /\ leader' = "zombie" /\ leaderStatus' \in {"exit", "signal"}
    BY <1>4 DEF LeaderExits, LeaderDies, Ends
  <2> QED BY <2>1, GroupStep
<1>5. CASE \E kind \in Kinds : ServerWrites(kind)
  BY <1>5, WriteStep
<1>6. CASE \E m \in Members : Forks(m) \/ MemberEnds(m)
  <2>1. UNCHANGED <<own, clocks>> /\ UNCHANGED <<signals, out, written, leader, leaderStatus>>
    BY <1>6 DEF Forks, MemberEnds
  <2> QED BY <2>1, GroupStep
<1> QED BY <1>1, <1>2, <1>3, <1>4, <1>5, <1>6 DEF Server

\* The inductive invariant of run_inspect.
THEOREM InspectInvHolds == Spec => []IInv
<1>1. IInv /\ UNCHANGED vars => IInv'
  <2> SUFFICES ASSUME IInv, UNCHANGED vars PROVE IInv'
    OBVIOUS
  <2>1. UNCHANGED <<own, clocks>> /\ UNCHANGED <<signals, out, written, leader, leaderStatus>>
    BY DEF vars, group
  <2> QED BY <2>1, GroupStep
<1>2. IInv /\ [Next]_vars => IInv'
  BY <1>1, GuardStep, OthersStep, InspectAssumption DEF Next
<1> QED BY <1>2, InspectInit, PTL DEF Spec

\* An inventory is handed to a file or to stdout only on the answer to initialize
\* as the very first line and the answer to tools/list, however the reads cut the
\* stream, and inspect reports success exactly when it was.  Whether the buffer of
\* stdout can be written when the process ends is not part of that success.
THEOREM InventoryIsGenuine == Spec => []InventoryIsTheAnswer
<1>1. ASSUME IInv PROVE InventoryIsTheAnswer
  <2>1. ASSUME destination # "old"
        PROVE  /\ accepted = <<"init", "list">> /\ written[1] = "init"
               /\ \E i \in 2..Len(written) : written[i] = "list"
    <3>1. stage = "list" /\ accepted = <<"init", "list">>
      BY <1>1, <2>1 DEF IInv, Ordered, Answered
    <3>2. written[1] = "init" /\ \E k \in DOMAIN written : written[k] = "list"
      BY <1>1, <3>1 DEF IInv, Stream
    <3>3. DOMAIN written = 1..Len(written) /\ Len(written) \in Nat
      BY <1>1, LenProperties DEF IInv, Stream
    <3>4. PICK k \in 1..Len(written) : written[k] = "list"
      BY <3>2, <3>3
    <3>5. k # 1
      BY <3>2, <3>4
    <3>6. k \in 2..Len(written)
      BY <3>3, <3>5
    <3> QED BY <3>1, <3>2, <3>4, <3>6
  <2>2. Returned => (exitCode = 0 <=> destination # "old")
    BY <1>1 DEF IInv, Ordered, Returned
  <2> QED BY <2>1, <2>2 DEF InventoryIsTheAnswer
<1> QED BY <1>1, InspectInvHolds, PTL

\* However it comes to return, inspect has collected the server it started.
THEOREM ServerIsCollected == Spec => []ServerCollected
<1>1. IInv => ServerCollected
  BY DEF IInv, Collected, ServerCollected, Returned
<1> QED BY <1>1, InspectInvHolds, PTL

\* A shutdown reported clean was the server's own exit, and nothing was sent.
THEOREM CleanMeansUnforced == Spec => []CleanIsUnforced
<1>1. IInv => CleanIsUnforced
  BY DEF IInv, Unforced, CleanIsUnforced
<1> QED BY <1>1, InspectInvHolds, PTL

------------------------------------------------------------------------------
(* The types, the buffer and the bounds of the histories                   *)

Flags == {stdinWrite, stdoutRead, deadline, inHeld, outHeld, unasked} \subseteq BOOLEAN

\* Everything of the type that IInv does not say.
Sized ==
    /\ Flags
    /\ shutdown \in {"none", "clean", "forced"}
    /\ timer \in {"off", "running", "over"}
    /\ leader \in {"none", "running", "hung", "zombie", "reaped"}
    /\ members \subseteq Members /\ signals \subseteq {"TERM", "KILL"}
    /\ Len(pending) <= MaxMessageBytes + 1
    /\ Len(accepted) <= 2 /\ Len(written) <= MaxLines

\* A read keeps no more than one message and its newline, and takes at most one answer.
LEMMA ReadFits ==
    ASSUME InspectAssumption, IInv, Sized, Read
    PROVE  Len(pending') <= MaxMessageBytes + 1 /\ Len(accepted') <= 2
<1>1. PICK n : /\ pending' = pending \o SubSeq(out, 1, n) \/ pending' = << >>
               /\ pending' = << >> \/ Kept(pending \o SubSeq(out, 1, n))
               /\ accepted' = accepted \/ \E kind : accepted' = Append(accepted, kind)
  BY DEF Read, Take
<1>2. Len(<< >>) = 0
  BY EmptySeq
<1>3. Len(pending') <= MaxMessageBytes + 1
  <2>1. CASE pending' = << >>
    BY <1>2, <2>1 DEF InspectAssumption
  <2>2. CASE pending' = pending \o SubSeq(out, 1, n) /\ Kept(pending \o SubSeq(out, 1, n))
    BY <2>2 DEF Kept
  <2> QED BY <1>1, <2>1, <2>2
<1>4. Len(accepted') <= 2
  <2>1. accepted = << >> \/ accepted = <<"init">>
    BY DEF Read, Polling, IInv, Ordered, Receiving
  <2>2. \A kind : Len(Append(<< >>, kind)) = 1 /\ Len(Append(<<"init">>, kind)) = 2
    <3>1. \A kind : Append(<< >>, kind) = <<kind>> /\ Append(<<"init">>, kind) = <<"init", kind>>
      BY OneMore
    <3>2. \A kind : Len(<<kind>>) = 1 /\ Len(<<"init", kind>>) = 2
      OBVIOUS
    <3> QED BY ONLY <3>1, <3>2
  <2>3. Len(<< >>) = 0 /\ Len(<<"init">>) = 1
    BY EmptySeq
  <2>4. CASE accepted' = accepted
    BY <2>1, <2>3, <2>4
  <2>5. CASE \E kind : accepted' = Append(accepted, kind)
    <3>1. PICK kind : accepted' = Append(accepted, kind)
      BY <2>5
    <3>2. Len(accepted') = 1 \/ Len(accepted') = 2
      BY ONLY <2>1, <2>2, <3>1, Zenon
    <3> QED BY ONLY <3>2
  <2> QED BY <1>1, <2>4, <2>5
<1> QED BY <1>3, <1>4

\* The steps of inspect itself.
LEMMA GuardIsSized == ASSUME InspectAssumption, IInv, Sized, Guard PROVE Sized'
<1>1. UNCHANGED <<deadline, members, written, unasked>>
  BY DEF Guard, Start, Write, Receive, Remaining, PollTimesOut, PollHangsUp, Read, WaitForCleanShutdown,
         ForceShutdown, Stop, Stopping, Reap, Publish, Quiet, clocks, group
<1>2. Read \/ UNCHANGED <<pending, accepted>>
  BY DEF Guard, Start, Write, Receive, Remaining, PollTimesOut, PollHangsUp, WaitForCleanShutdown,
         ForceShutdown, Stop, Stopping, Reap, Publish, Quiet
<1>3. Len(pending') <= MaxMessageBytes + 1 /\ Len(accepted') <= 2
  BY <1>2, ReadFits DEF Sized
<1>4. Flags'
  <2>1. \/ stdinWrite' = TRUE /\ stdoutRead' = TRUE /\ inHeld' = TRUE /\ outHeld' = TRUE
        \/ /\ stdinWrite' = stdinWrite \/ stdinWrite' = FALSE
           /\ stdoutRead' = stdoutRead \/ stdoutRead' = FALSE
           /\ UNCHANGED <<inHeld, outHeld>>
    <3>1. CASE Start
      BY <3>1 DEF Start
    <3>2. CASE Write \/ Receive
      BY <3>2 DEF Write, Receive, Fail
    <3>3. CASE Remaining \/ PollTimesOut \/ PollHangsUp
      BY <3>3 DEF Remaining, PollTimesOut, PollHangsUp, Fail, group
    <3>4. CASE Read
      BY <3>4 DEF Read, Take, Fail
    <3>5. CASE WaitForCleanShutdown \/ ForceShutdown \/ Publish
      BY <3>5 DEF WaitForCleanShutdown, ForceShutdown, Publish, group
    <3>6. CASE Stop \/ Stopping \/ Reap
      BY <3>6 DEF Stop, Stopping, Reap, Quiet
    <3> QED BY <3>1, <3>2, <3>3, <3>4, <3>5, <3>6 DEF Guard
  <2>2. stdinWrite \in BOOLEAN /\ stdoutRead \in BOOLEAN /\ inHeld \in BOOLEAN /\ outHeld \in BOOLEAN
    BY DEF Sized, Flags
  <2>3. /\ stdinWrite' \in BOOLEAN /\ stdoutRead' \in BOOLEAN
        /\ inHeld' \in BOOLEAN /\ outHeld' \in BOOLEAN
    BY <2>1, <2>2, Zenon
  <2> QED BY <1>1, <2>3 DEF Sized, Flags
<1>5. shutdown' \in {"none", "clean", "forced"}
  BY DEF Sized, Guard, Start, Write, Receive, Remaining, PollTimesOut, PollHangsUp, Read,
         WaitForCleanShutdown, ForceShutdown, Stop, Stopping, Reap, Publish, Quiet
<1>6. timer' \in {"off", "running", "over"}
  BY DEF Sized, Guard, Start, Write, Receive, Remaining, PollTimesOut, PollHangsUp, Read, Take, clocks,
         WaitForCleanShutdown, ForceShutdown, Stop, Stopping, Reap, Publish
<1>7. leader' \in {leader, "running", "reaped"} /\ signals' \subseteq signals \cup {"TERM", "KILL"}
  BY DEF Guard, Start, Write, Receive, Remaining, PollTimesOut, PollHangsUp, Read, group,
         WaitForCleanShutdown, ForceShutdown, Stop, Stopping, Reap, Publish
<1> QED BY <1>1, <1>3, <1>4, <1>5, <1>6, <1>7 DEF Sized

\* The steps of the server and of the clocks.
LEMMA OthersAreSized ==
    ASSUME InspectAssumption, IInv, Sized, DeadlineExpires \/ TimerExpires \/ Server
    PROVE  Sized'
<1>1. UNCHANGED <<stdinWrite, stdoutRead, shutdown, pending, accepted, signals, unasked>>
  BY DEF Server, DeadlineExpires, TimerExpires, ServerReads, ServerHangs, LeaderExits, LeaderDies,
         Ends, ServerWrites, Forks, MemberEnds, own, group
<1>2. timer' \in {"off", "running", "over"} /\ deadline' \in {deadline, TRUE}
  BY DEF Sized, Server, DeadlineExpires, TimerExpires, ServerReads, ServerHangs, LeaderExits,
         LeaderDies, Ends, ServerWrites, Forks, MemberEnds, clocks
<1>3. leader' \in {leader, "hung", "zombie"} /\ members' \subseteq Members
  BY DEF Sized, Server, DeadlineExpires, TimerExpires, ServerReads, ServerHangs, LeaderExits,
         LeaderDies, Ends, ServerWrites, Forks, MemberEnds, group
<1>4. inHeld' \in BOOLEAN /\ outHeld' \in BOOLEAN
  <2>1. inHeld \in BOOLEAN /\ outHeld \in BOOLEAN
    BY DEF Sized, Flags
  <2>2. \/ inHeld' \in {inHeld, FALSE} /\ outHeld' \in {outHeld, FALSE}
        \/ \E m \in Members : MemberEnds(m)
    BY DEF Server, DeadlineExpires, TimerExpires, ServerReads, ServerHangs, LeaderExits, LeaderDies,
           Ends, ServerWrites, Forks, group
  <2>3. ASSUME NEW m \in Members, MemberEnds(m) PROVE inHeld' \in BOOLEAN /\ outHeld' \in BOOLEAN
    BY <2>3, Zenon DEF MemberEnds
  <2> QED BY <2>1, <2>2, <2>3
<1>5. Len(written') <= MaxLines
  <2>1. written' = written \/ \E kind \in Kinds : ServerWrites(kind)
    BY DEF Server, DeadlineExpires, TimerExpires, ServerReads, ServerHangs, LeaderExits, LeaderDies,
           Ends, Forks, MemberEnds, group
  <2>2. ASSUME NEW kind \in Kinds, ServerWrites(kind) PROVE Len(written') <= MaxLines
    <3>1. written \in Seq(Kinds)
      BY DEF IInv, Stream
    <3>2. Len(Append(written, kind)) = Len(written) + 1 /\ Len(written) \in Nat
      BY <3>1, AppendProperties, LenProperties
    <3>3. Len(written) < MaxLines /\ written' = Append(written, kind)
      BY <2>2 DEF ServerWrites
    <3> QED BY ONLY <3>2, <3>3, InspectAssumption DEF InspectAssumption
  <2> QED BY <2>1, <2>2 DEF Sized
<1>6. Flags'
  BY <1>1, <1>2, <1>4 DEF Sized, Flags
<1> QED BY <1>1, <1>2, <1>3, <1>5, <1>6 DEF Sized

\* Every variable of inspect has its type, and what it keeps between two reads
\* fits the message limit and a newline.
THEOREM InspectIsTyped == Spec => []TypeOK
<1>1. Init => Sized
  <2> SUFFICES ASSUME Init PROVE Sized
    OBVIOUS
  <2>1. Len(<< >>) = 0
    BY EmptySeq
  <2>2. Flags
    <3>1. unasked = FALSE \/ unasked = ("unasked" \in Faults)
      BY DEF Init
    <3>2. ("unasked" \in Faults) \in BOOLEAN
      BY SMT
    <3>3. unasked \in BOOLEAN
      BY ONLY <3>1, <3>2, Zenon
    <3> QED BY <3>3 DEF Init, Flags
  <2> QED BY <2>1, <2>2, InspectAssumption DEF Init, Sized, InspectAssumption
<1>2. Sized /\ IInv /\ [Next]_vars => Sized'
  <2>1. Sized /\ UNCHANGED vars => Sized'
    BY DEF Sized, Flags, vars, own, clocks, group
  <2> QED BY <2>1, GuardIsSized, OthersAreSized, InspectAssumption DEF Next
<1>3. Sized /\ IInv => TypeOK
  <2> SUFFICES ASSUME Sized, IInv PROVE TypeOK
    OBVIOUS
  <2>1. /\ pc \in {"start", "write", "receive", "remaining", "poll", "poll_forever", "shutdown",
                   "stop", "stopping", "reap", "publish", "done", "killed"}
        /\ stage \in {"init", "list"} /\ exitCode \in {0, 1, 4}
        /\ destination \in {"old", "file", "stdout", "buffer"}
    BY DEF IInv, Ordered, Receiving, Forcing
  <2>2. leaderStatus \in {"exit", "signal"}
    BY DEF IInv, Unforced
  <2> QED BY <2>1, <2>2 DEF Sized, Flags, TypeOK
<1> QED BY <1>1, <1>2, <1>3, InspectInvHolds, PTL DEF Spec
================================================================================
