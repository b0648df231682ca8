----------------------------- MODULE DoctorProofs -----------------------------
(***************************************************************************)
(* Proofs about Doctor, for any messages, limits and pipes; first about    *)
(* its two parts that deal in whole lines: LineFramer, for any cut of the  *)
(* stream into chunks, and AuditSink, for any number of sessions on one    *)
(* file and any outcome of every write.  Framer and sink keep their        *)
(* invariants in the guard, because every step of doctor, guard, server    *)
(* and client is a step of theirs or leaves them alone; and no server      *)
(* outlives the session but behind a guard that was killed waiting for     *)
(* room in the stderr pipe.  The audit tells the whole session, and the    *)
(* verdict of doctor is deserved: along the script of its three messages,  *)
(* the answers to them, and who ends for what cause.                       *)
(***************************************************************************)
EXTENDS Doctor, FilteringProofs, SequenceTheorems, TLAPS

------------------------------------------------------------------------------
(* LineFramer                                                              *)

FramerInv == FramerTypeOK /\ LinesAreTheStream

\* A sequence is what precedes a place, what stands there, and the rest.
LEMMA SplitAt ==
    ASSUME NEW S, NEW s \in Seq(S), NEW i \in 1..Len(s)
    PROVE  /\ SubSeq(s, 1, i - 1) \in Seq(S) /\ Len(SubSeq(s, 1, i - 1)) = i - 1
           /\ \A j \in 1..(i - 1) : SubSeq(s, 1, i - 1)[j] = s[j]
           /\ SubSeq(s, i + 1, Len(s)) \in Seq(S)
           /\ s = SubSeq(s, 1, i - 1) \o (<<s[i]>> \o SubSeq(s, i + 1, Len(s)))
<1>1. Len(s) \in Nat /\ \A j \in 1..Len(s) : s[j] \in S
  BY LenProperties, ElementOfSeq
<1>2. /\ SubSeq(s, 1, i - 1) \in Seq(S) /\ Len(SubSeq(s, 1, i - 1)) = i - 1
      /\ \A j \in 1..(i - 1) : SubSeq(s, 1, i - 1)[j] = s[j]
  <2>1. \A j \in 1..(i - 1) : s[j] \in S
    BY <1>1
  <2> QED BY <2>1, SubSeqProperties, i - 1 \in Int, 1 \in Int, (1 <= i - 1 <=> i # 1)
<1>3. SubSeq(s, i + 1, Len(s)) \in Seq(S)
  <2>1. \A j \in (i + 1)..Len(s) : s[j] \in S
    BY <1>1
  <2> QED BY <1>1, <2>1, SubSeqProperties, i + 1 \in Int
<1>4. SubSeq(s, i, Len(s)) = <<s[i]>> \o SubSeq(s, i + 1, Len(s))
  <2>1. Len(s) \in i..Len(s)
    BY <1>1
  <2> QED BY <2>1, SubSeqRecursiveFirst
<1>5. SubSeq(s, 1, i - 1) \o SubSeq(s, i, Len(s)) = SubSeq(s, 1, Len(s))
  <2>1. /\ 1 \in 1..(Len(s) + 1) /\ i - 1 \in (1 - 1)..Len(s) /\ Len(s) \in (i - 1)..Len(s)
        /\ (i - 1) + 1 = i
    BY <1>1
  <2>2. \A k \in (1 - 1)..Len(s) : \A n \in k..Len(s) :
           SubSeq(s, 1, k) \o SubSeq(s, k + 1, n) = SubSeq(s, 1, n)
    BY <2>1, ConcatAdjacentSubSeq
  <2>3. SubSeq(s, 1, i - 1) \o SubSeq(s, (i - 1) + 1, Len(s)) = SubSeq(s, 1, Len(s))
    BY <2>1, <2>2
  <2> QED BY <2>1, <2>3
<1>6. SubSeq(s, 1, Len(s)) = s
  BY SubSeqFull
<1> QED BY <1>2, <1>3, <1>4, <1>5, <1>6

\* What a concatenation begins with.
LEMMA Begins ==
    ASSUME NEW S, NEW s \in Seq(S), NEW t \in Seq(S), NEW n \in DOMAIN s
    PROVE  n \in DOMAIN (s \o t) /\ (s \o t)[n] = s[n]
<1>1. DOMAIN s = 1..Len(s) /\ Len(s) \in Nat /\ Len(t) \in Nat
  BY LenProperties
<1>2. /\ s \o t \in Seq(S) /\ Len(s \o t) = Len(s) + Len(t)
      /\ \A i \in 1..(Len(s) + Len(t)) : (s \o t)[i] = IF i <= Len(s) THEN s[i] ELSE t[i - Len(s)]
  BY ConcatProperties
<1>3. DOMAIN (s \o t) = 1..(Len(s) + Len(t))
  BY <1>2, LenProperties
<1> QED BY <1>1, <1>2, <1>3

\* A concatenation without newlines has none.
LEMMA NoneInConcat ==
    ASSUME NEW S, NEW s \in Seq(S), NEW t \in Seq(S),
           \A j \in DOMAIN s : s[j] # NL, \A j \in DOMAIN t : t[j] # NL
    PROVE  \A j \in DOMAIN (s \o t) : (s \o t)[j] # NL
<1>1. /\ DOMAIN s = 1..Len(s) /\ DOMAIN t = 1..Len(t) /\ Len(s) \in Nat /\ Len(t) \in Nat
  BY LenProperties
<1>2. /\ s \o t \in Seq(S) /\ Len(s \o t) = Len(s) + Len(t)
      /\ \A i \in 1..(Len(s) + Len(t)) : (s \o t)[i] = IF i <= Len(s) THEN s[i] ELSE t[i - Len(s)]
  BY ConcatProperties
<1>3. DOMAIN (s \o t) = 1..(Len(s) + Len(t))
  BY <1>2, LenProperties
<1> QED BY <1>1, <1>2, <1>3

\* Three sequences concatenate in either grouping.
LEMMA Assoc ==
    ASSUME NEW S, NEW x, NEW y, NEW z, x \in Seq(S), y \in Seq(S), z \in Seq(S)
    PROVE  (x \o y) \o z = x \o (y \o z)
BY ConcatAssociative

------------------------------------------------------------------------------

\* Nothing has been fed.
LEMMA FramerInitInv == FramerInit => FramerInv
<1>1. << >> \in Seq(Bytes) /\ << >> \in Seq(Seq(Bytes)) /\ Len(<< >>) = 0
  BY EmptySeq
<1>2. << >> = (<< >> \o << >>) \o << >>
  BY <1>1, ConcatEmptySeq
<1> QED BY <1>1, <1>2, FramerAssumption
    DEF FramerInit, FramerInv, FramerTypeOK, LinesAreTheStream

\* A chunk joins the stream behind what is buffered.
LEMMA FeedInv ==
    ASSUME FramerInv, NEW bytes \in Seq(Bytes), Feed(bytes)
    PROVE  FramerInv'
<1>1. /\ stream \in Seq(Bytes) /\ delimited \in Seq(Bytes) /\ buffer \in Seq(Bytes)
      /\ failure = "none" /\ chunk = << >> /\ chunk' = bytes /\ stream' = stream \o bytes
      /\ UNCHANGED <<buffer, failure, failedBytes, lines, delimited>>
  BY DEF FramerInv, FramerTypeOK, Feed
<1>2. delimited \o buffer \in Seq(Bytes) /\ stream \o bytes \in Seq(Bytes)
  BY <1>1, ConcatProperties
<1>3. stream = delimited \o buffer
  BY <1>1, <1>2, ConcatEmptySeq DEF FramerInv, LinesAreTheStream
<1>4. \A i \in DOMAIN delimited' : i \in DOMAIN stream' /\ stream'[i] = delimited'[i]
  <2> SUFFICES ASSUME NEW i \in DOMAIN delimited
               PROVE  i \in DOMAIN (stream \o bytes) /\ (stream \o bytes)[i] = delimited[i]
    BY <1>1
  <2>1. i \in DOMAIN stream /\ stream[i] = delimited[i]
    BY DEF FramerInv, LinesAreTheStream
  <2> QED BY <1>1, <2>1, Begins
<1>5. FramerTypeOK'
  BY <1>1, <1>2 DEF FramerInv, FramerTypeOK
<1>6. stream' = (delimited \o buffer) \o bytes
  BY <1>1, <1>3
<1> QED BY <1>1, <1>4, <1>5, <1>6 DEF FramerInv, LinesAreTheStream

\* The bytes of a line move from the buffer and the chunk to the lines.
LEMMA EmitInv ==
    ASSUME FramerInv, NEW i \in DOMAIN chunk, Emit(i)
    PROVE  FramerInv'
<1>1. /\ stream \in Seq(Bytes) /\ delimited \in Seq(Bytes) /\ buffer \in Seq(Bytes)
      /\ chunk \in Seq(Bytes) /\ lines \in Seq(Seq(Bytes)) /\ NL \in Bytes
      /\ chunk # << >>
  BY FramerAssumption, EmptySeq DEF FramerInv, FramerTypeOK
<1>2. PICK seg, rest, line :
        /\ seg \in Seq(Bytes) /\ rest \in Seq(Bytes) /\ line \in Seq(Bytes)
        /\ line = buffer \o seg
        /\ chunk = seg \o (<<NL>> \o rest)
        /\ \A j \in DOMAIN seg : seg[j] # NL
        /\ Len(line) <= MaxMessage
        /\ lines' = Append(lines, line)
        /\ delimited' = (delimited \o line) \o <<NL>>
        /\ buffer' = << >> /\ chunk' = rest
        /\ stream' = stream /\ failure' = failure /\ failedBytes' = failedBytes
  <2> DEFINE seg  == SubSeq(chunk, 1, i - 1)
             rest == SubSeq(chunk, i + 1, Len(chunk))
             line == buffer \o seg
  <2>1. i \in 1..Len(chunk)
    BY <1>1, LenProperties
  <2>2. chunk[i] = NL /\ \A j \in 1..(i - 1) : chunk[j] # NL
    BY DEF Emit, FirstNewline
  <2>3. /\ seg \in Seq(Bytes) /\ Len(seg) = i - 1 /\ \A j \in 1..(i - 1) : seg[j] = chunk[j]
        /\ rest \in Seq(Bytes)
        /\ chunk = seg \o (<<NL>> \o rest)
    BY <1>1, <2>1, <2>2, SplitAt
  <2>4. \A j \in DOMAIN seg : seg[j] # NL
    BY <2>2, <2>3, LenProperties
  <2>5. line \in Seq(Bytes)
    BY <1>1, <2>3, ConcatProperties
  <2>6. /\ Len(line) <= MaxMessage
        /\ lines' = Append(lines, line)
        /\ delimited' = (delimited \o line) \o <<NL>>
        /\ buffer' = << >> /\ chunk' = rest
        /\ stream' = stream /\ failure' = failure /\ failedBytes' = failedBytes
    BY DEF Emit, LineTo
  <2> HIDE DEF seg, rest
  <2> QED BY <2>3, <2>4, <2>5, <2>6
<1>3. failure = "none" /\ stream = (delimited \o buffer) \o chunk
  BY <1>1 DEF FramerInv, LinesAreTheStream, FramerTypeOK
<1>4. <<NL>> \in Seq(Bytes) /\ delimited \o line \in Seq(Bytes)
  <2>1. <<NL>> \in Seq(Bytes)
    BY <1>1
  <2>2. delimited \in Seq(Bytes) /\ line \in Seq(Bytes)
    BY <1>1, <1>2
  <2> QED BY ONLY <2>1, <2>2, ConcatProperties
<1>5. delimited' \in Seq(Bytes)
  BY <1>2, <1>4, ConcatProperties
<1>6. stream = delimited' \o rest
  <2> DEFINE nl == <<NL>>   db == delimited \o buffer   nr == nl \o rest
             dl == delimited \o line
  <2>1. delimited \in Seq(Bytes) /\ buffer \in Seq(Bytes) /\ seg \in Seq(Bytes)
    BY <1>1, <1>2
  <2>2. db \in Seq(Bytes) /\ seg \in Seq(Bytes) /\ nr \in Seq(Bytes)
    BY <1>2, <1>4, <2>1, ConcatProperties
  <2>3. db \o seg = dl
    <3>1. (delimited \o buffer) \o seg = delimited \o (buffer \o seg)
      BY ONLY <2>1, Assoc
    <3> QED BY <1>2, <3>1
  <2>4. dl \in Seq(Bytes) /\ nl \in Seq(Bytes) /\ rest \in Seq(Bytes)
    BY <1>2, <1>4
  <2>5. stream = db \o (seg \o nr) /\ delimited' = dl \o nl
    BY <1>2, <1>3
  <2> HIDE DEF nl, db, nr, dl
  <2>6. (db \o seg) \o nr = db \o (seg \o nr)
    BY ONLY <2>2, Assoc
  <2>7. (dl \o nl) \o rest = dl \o (nl \o rest)
    BY ONLY <2>4, Assoc
  <2>8. (dl \o nl) \o rest = dl \o nr
    BY ONLY <2>7 DEF nr
  <2> QED BY ONLY <2>3, <2>5, <2>6, <2>8
<1>7. stream' = (delimited' \o buffer') \o chunk'
  BY <1>2, <1>5, <1>6, ConcatEmptySeq
<1>8. \A n \in DOMAIN delimited' : n \in DOMAIN stream' /\ stream'[n] = delimited'[n]
  <2> SUFFICES ASSUME NEW n \in DOMAIN delimited'
               PROVE  n \in DOMAIN stream' /\ stream'[n] = delimited'[n]
    OBVIOUS
  <2>1. n \in DOMAIN (delimited' \o rest) /\ (delimited' \o rest)[n] = delimited'[n]
    BY <1>5, Begins
  <2> QED BY <1>2, <1>6, <2>1
<1>9. \A j \in DOMAIN line : line[j] # NL
  <2>1. \A j \in DOMAIN buffer : buffer[j] # NL
    BY DEF FramerInv, LinesAreTheStream
  <2> QED BY <1>1, <1>2, <2>1, NoneInConcat
<1>10. lines' \in Seq(Seq(Bytes))
  BY <1>1, <1>2, AppendProperties
<1>11. \A n \in DOMAIN lines' : /\ Len(lines'[n]) <= MaxMessage
                                /\ \A j \in DOMAIN lines'[n] : lines'[n][j] # NL
  <2> SUFFICES ASSUME NEW n \in DOMAIN lines'
               PROVE  /\ Len(lines'[n]) <= MaxMessage
                      /\ \A j \in DOMAIN lines'[n] : lines'[n][j] # NL
    OBVIOUS
  <2>1. /\ Len(lines) \in Nat /\ DOMAIN lines = 1..Len(lines) /\ n \in 1..(Len(lines) + 1)
        /\ \A k \in 1..Len(lines) : lines'[k] = lines[k]
        /\ lines'[Len(lines) + 1] = line
    BY <1>1, <1>2, <1>10, AppendProperties, LenProperties
  <2>2. CASE n = Len(lines) + 1
    BY <1>2, <1>9, <2>1, <2>2
  <2>3. CASE n \in DOMAIN lines
    <3>1. Len(lines[n]) <= MaxMessage /\ \A j \in DOMAIN lines[n] : lines[n][j] # NL
      BY <2>3 DEF FramerInv, LinesAreTheStream
    <3> QED BY <2>1, <2>3, <3>1
  <2> QED BY <2>1, <2>2, <2>3
<1>12. << >> \in Seq(Bytes) /\ Len(<< >>) = 0 /\ DOMAIN << >> = {} /\ MaxMessage \in Nat
  BY EmptySeq, FramerAssumption
<1>13. FramerTypeOK'
  BY <1>2, <1>5, <1>10, <1>12 DEF FramerInv, FramerTypeOK
<1>14. /\ Len(buffer') <= MaxMessage /\ \A j \in DOMAIN buffer' : buffer'[j] # NL
  BY <1>2, <1>12
<1>15. failure' = "none"
  BY <1>2, <1>3
<1> QED BY <1>7, <1>8, <1>11, <1>13, <1>14, <1>15 DEF FramerInv, LinesAreTheStream

\* A failure clears what is held and keeps what was emitted.
LEMMA FailsInv ==
    ASSUME FramerInv, NEW code \in {"message_too_large", "truncated_message"}, NEW bytes \in Nat,
           Fails(code, bytes), code = "message_too_large" => bytes > MaxMessage
    PROVE  FramerInv'
<1>1. << >> \in Seq(Bytes) /\ Len(<< >>) = 0 /\ DOMAIN << >> = {} /\ MaxMessage \in Nat
  BY EmptySeq, FramerAssumption
<1>2. FramerTypeOK'
  BY <1>1 DEF FramerInv, FramerTypeOK, Fails
<1> QED BY <1>1, <1>2 DEF FramerInv, LinesAreTheStream, Fails

\* Both refusals are of more than the limit.
LEMMA RejectInv == FramerInv /\ Reject => FramerInv'
<1> SUFFICES ASSUME FramerInv, Reject PROVE FramerInv'
  OBVIOUS
<1>1. buffer \in Seq(Bytes) /\ chunk \in Seq(Bytes) /\ Len(buffer) \in Nat /\ Len(chunk) \in Nat
      /\ DOMAIN chunk = 1..Len(chunk) /\ MaxMessage \in Nat
  BY FramerAssumption, LenProperties DEF FramerInv, FramerTypeOK
<1>2. CASE \E i \in DOMAIN chunk : /\ FirstNewline(i) /\ Len(buffer) + i - 1 > MaxMessage
                                   /\ Fails("message_too_large", Len(buffer) + i - 1)
  <2>1. PICK i \in 1..Len(chunk) : /\ Len(buffer) + i - 1 > MaxMessage
                                   /\ Fails("message_too_large", Len(buffer) + i - 1)
    BY <1>1, <1>2
  <2>2. Len(buffer) + i - 1 \in Nat
    BY <1>1
  <2> QED BY <2>1, <2>2, FailsInv
<1>3. CASE /\ Len(buffer) + Len(chunk) > MaxMessage
           /\ Fails("message_too_large", Len(buffer) + Len(chunk))
  BY <1>1, <1>3, FailsInv
<1> QED BY <1>2, <1>3 DEF Reject

\* The rest of a chunk joins the buffer.
LEMMA KeepInv == FramerInv /\ Keep => FramerInv'
<1> SUFFICES ASSUME FramerInv, Keep PROVE FramerInv'
  OBVIOUS
<1>1. /\ stream \in Seq(Bytes) /\ delimited \in Seq(Bytes) /\ buffer \in Seq(Bytes)
      /\ chunk \in Seq(Bytes) /\ Len(buffer) \in Nat /\ Len(chunk) \in Nat
      /\ failure = "none"
  BY LenProperties DEF FramerInv, FramerTypeOK, LinesAreTheStream, Keep
<1>2. /\ buffer' = buffer \o chunk /\ chunk' = << >>
      /\ Len(buffer) + Len(chunk) <= MaxMessage
      /\ UNCHANGED <<failure, failedBytes, stream, lines, delimited>>
  BY DEF Keep
<1>3. buffer' \in Seq(Bytes) /\ Len(buffer') = Len(buffer) + Len(chunk) /\ << >> \in Seq(Bytes)
  BY <1>1, <1>2, ConcatProperties, EmptySeq
<1>4. delimited \o buffer' \in Seq(Bytes)
  BY <1>1, <1>3, ConcatProperties
<1>5. stream' = (delimited' \o buffer') \o chunk'
  <2>1. stream = (delimited \o buffer) \o chunk
    BY <1>1 DEF FramerInv, LinesAreTheStream
  <2>2. (delimited \o buffer) \o chunk = delimited \o buffer'
    <3>1. \A s, t, u \in Seq(Bytes) : (s \o t) \o u = s \o (t \o u)
      BY ONLY ConcatAssociative
    <3> QED BY ONLY <1>1, <1>2, <3>1
  <2> QED BY <1>2, <1>4, <2>1, <2>2, ConcatEmptySeq
<1>6. \A j \in DOMAIN buffer' : buffer'[j] # NL
  <2>1. /\ \A j \in DOMAIN buffer : buffer[j] # NL
        /\ \A j \in DOMAIN chunk : chunk[j] # NL
    BY DEF FramerInv, LinesAreTheStream, Keep, NoNewline
  <2> QED BY <1>1, <1>2, <2>1, NoneInConcat
<1>7. FramerTypeOK'
  BY <1>2, <1>3 DEF FramerInv, FramerTypeOK
<1> QED BY <1>1, <1>2, <1>3, <1>5, <1>6, <1>7 DEF FramerInv, LinesAreTheStream

\* A step of the framer keeps the invariant; so does setting up another one.
LEMMA FramerStep ==
    FramerInv /\ (FramerNext \/ FramerAgain \/ FinishTruncated \/ UNCHANGED framer) => FramerInv'
<1> SUFFICES ASSUME FramerInv,
                    FramerNext \/ FramerAgain \/ FinishTruncated \/ UNCHANGED framer
             PROVE  FramerInv'
  OBVIOUS
<1>1. ASSUME FinishTruncated PROVE FramerInv'
  BY <1>1, FailsInv DEF FinishTruncated
<1>2. ASSUME UNCHANGED framer PROVE FramerInv'
  BY <1>2 DEF framer, FramerInv, FramerTypeOK, LinesAreTheStream
<1>3. ASSUME FramerAgain PROVE FramerInv'
  <2>1. << >> \in Seq(Bytes) /\ << >> \in Seq(Seq(Bytes)) /\ Len(<< >>) = 0
        /\ DOMAIN << >> = {}
    BY EmptySeq
  <2>2. << >> = (<< >> \o << >>) \o << >>
    BY <2>1, ConcatEmptySeq
  <2> QED BY <1>3, <2>1, <2>2, FramerAssumption
      DEF FramerAgain, FramerInv, FramerTypeOK, LinesAreTheStream
<1>4. ASSUME FinishClean PROVE FramerInv'
  BY <1>2, <1>4 DEF FinishClean
<1> QED BY <1>1, <1>2, <1>3, <1>4, FeedInv, EmitInv, RejectInv, KeepInv DEF FramerNext

\* LinesAreTheStream holds of a framer fed with any stream in any chunks.
THEOREM FramesAnyStream == FramerSpec => []LinesAreTheStream
<1>1. FramerInit => FramerInv
  BY FramerInitInv
<1>2. FramerInv /\ [FramerNext]_framer => FramerInv'
  BY FramerStep
<1>3. FramerInv => LinesAreTheStream
  BY DEF FramerInv
<1> QED BY <1>1, <1>2, <1>3, PTL DEF FramerSpec

------------------------------------------------------------------------------
(* AuditSink                                                               *)

LastPiece == file[Len(file)]

\* Nothing of this session is in the file.
Untouched == file = << >> \/ LastPiece.session < session

\* What the stream holds stands next in the trail: behind a beginning of
\* itself, or where nothing of it has been written.
HeldComesNext ==
    \/ held = 1 /\ Untouched
    \/ /\ file # << >> /\ LastPiece.session = session /\ LastPiece.whole
       /\ held = LastPiece.number + 1
    \/ /\ file # << >> /\ LastPiece.session = session /\ ~LastPiece.whole
       /\ held = LastPiece.number
       /\ Len(file) > 1 /\ file[Len(file) - 1].session = session => file[Len(file) - 1].whole

SinkInv ==
    /\ SinkTypeOK /\ TrailIsAPrefix
    /\ \A i \in DOMAIN file : file[i].session <= session
    /\ ~failed /\ events = << >> => Untouched
    /\ held # 0 => failed /\ HeldComesNext

\* A piece that may follow the last one.
Fits(piece) ==
    \/ piece.number = 1 /\ (file = << >> \/ LastPiece.session < piece.session)
    \/ /\ file # << >> /\ LastPiece.session = piece.session /\ LastPiece.whole
       /\ piece.number = LastPiece.number + 1
    \/ /\ file # << >> /\ LastPiece.session = piece.session /\ ~LastPiece.whole
       /\ piece.number = LastPiece.number
       /\ Len(file) > 1 /\ file[Len(file) - 1].session = piece.session => file[Len(file) - 1].whole

Ordered == \A i \in DOMAIN file :
              (Starts(i) /\ file[i].number = 1) \/ Continues(i) \/ Repeats(i)

\* A piece that fits leaves the trail in order.
LEMMA PieceFits ==
    ASSUME SinkTypeOK, Ordered, NEW piece \in Pieces, Fits(piece), file' = Append(file, piece)
    PROVE  /\ Ordered' /\ file' \in Seq(Pieces) /\ file' # << >> /\ Len(file') = Len(file) + 1
           /\ \A i \in DOMAIN file : file'[i] = file[i]
           /\ file'[Len(file')] = piece
<1>1. file \in Seq(Pieces) /\ Len(file) \in Nat /\ DOMAIN file = 1..Len(file)
      /\ (file = << >> <=> Len(file) = 0)
  BY LenProperties, EmptySeq DEF SinkTypeOK
<1>2. /\ file' \in Seq(Pieces) /\ file' # << >> /\ Len(file') = Len(file) + 1
      /\ DOMAIN file' = 1..(Len(file) + 1)
      /\ \A i \in 1..Len(file) : file'[i] = file[i]
      /\ file'[Len(file) + 1] = piece
  BY <1>1, AppendProperties, LenProperties
<1>3. ASSUME NEW i \in 1..Len(file)
      PROVE  ((Starts(i) /\ file[i].number = 1) \/ Continues(i) \/ Repeats(i))'
  <2>1. (Starts(i) /\ file[i].number = 1) \/ Continues(i) \/ Repeats(i)
    BY <1>1 DEF Ordered
  <2>2. /\ file'[i] = file[i]
        /\ i > 1 => file'[i - 1] = file[i - 1]
        /\ i > 2 => file'[i - 2] = file[i - 2]
    BY <1>1, <1>2
  <2>3. CASE Starts(i) /\ file[i].number = 1
    BY <2>2, <2>3 DEF Starts
  <2>4. CASE Continues(i)
    BY <2>2, <2>4 DEF Continues
  <2>5. CASE Repeats(i)
    BY <2>2, <2>5 DEF Repeats
  <2> QED BY <2>1, <2>3, <2>4, <2>5
<1>4. ASSUME NEW i \in {Len(file) + 1}
      PROVE  ((Starts(i) /\ file[i].number = 1) \/ Continues(i) \/ Repeats(i))'
  <2>1. /\ i = Len(file) + 1 /\ file'[i] = piece
        /\ i > 1 => file'[i - 1] = LastPiece
        /\ i > 2 => file'[i - 2] = file[Len(file) - 1]
    BY <1>1, <1>2 DEF LastPiece
  <2>2. (file # << >> => i > 1) /\ (file = << >> => i = 1) /\ (i > 2 => Len(file) > 1)
    BY ONLY <1>1, <2>1
  <2>3. CASE piece.number = 1 /\ (file = << >> \/ LastPiece.session < piece.session)
    <3>1. file'[i].number = 1
      BY <2>1, <2>3
    <3>2. i = 1 \/ file'[i - 1].session < file'[i].session
      <4>1. CASE file = << >>
        BY <2>2, <4>1
      <4>2. CASE file # << >> /\ LastPiece.session < piece.session
        <5>1. i > 1
          BY <2>2, <4>2, Zenon
        <5> QED BY <2>1, <4>2, <5>1
      <4> QED BY <2>3, <4>1, <4>2
    <3> QED BY <3>1, <3>2, Zenon DEF Starts
  <2>4. CASE /\ file # << >> /\ LastPiece.session = piece.session /\ LastPiece.whole
             /\ piece.number = LastPiece.number + 1
    <3>1. i > 1
      BY <2>4, <2>2, Zenon
    <3>2. /\ file'[i - 1].session = file'[i].session /\ file'[i - 1].whole
          /\ file'[i].number = file'[i - 1].number + 1
      BY <2>1, <2>4, <3>1
    <3> QED BY <3>1, <3>2, Zenon DEF Continues
  <2>5. CASE /\ file # << >> /\ LastPiece.session = piece.session /\ ~LastPiece.whole
             /\ piece.number = LastPiece.number
             /\ Len(file) > 1 /\ file[Len(file) - 1].session = piece.session
                  => file[Len(file) - 1].whole
    <3>1. i > 1 /\ (i > 2 => Len(file) > 1)
      BY <2>5, <2>2, Zenon
    <3>2. /\ file'[i - 1].session = file'[i].session /\ ~file'[i - 1].whole
          /\ file'[i].number = file'[i - 1].number
      BY <2>1, <2>5, <3>1
    <3>3. i > 2 /\ file'[i - 2].session = file'[i].session => file'[i - 2].whole
      BY <2>1, <2>5, <3>1
    <3> QED BY <3>1, <3>2, <3>3, Zenon DEF Repeats
  <2> QED BY <2>3, <2>4, <2>5, Zenon DEF Fits
<1>5. Ordered'
  BY <1>2, <1>3, <1>4 DEF Ordered
<1> QED BY <1>1, <1>2, <1>5

------------------------------------------------------------------------------

\* The first session finds no file, or an empty one.
LEMMA SinkInitInv == SinkInit => SinkInv
<1>1. << >> \in Seq(Events) /\ << >> \in Seq(Pieces) /\ DOMAIN << >> = {}
  BY EmptySeq
<1> SUFFICES ASSUME SinkInit PROVE SinkInv
  OBVIOUS
<1>2. SinkTypeOK
  <2>1. session = 1 /\ held = 0 /\ complaints = 0 /\ failed \in BOOLEAN
    BY Zenon DEF SinkInit
  <2>2. session \in Nat \ {0} /\ held \in Nat /\ complaints \in {0, 1}
    BY <2>1
  <2>3. events \in Seq(Events) /\ file \in Seq(Pieces)
    BY <1>1, Zenon DEF SinkInit
  <2> QED BY <2>1, <2>2, <2>3 DEF SinkTypeOK
<1>3. TrailIsAPrefix
  BY <1>1 DEF SinkInit, TrailIsAPrefix
<1> QED BY <1>1, <1>2, <1>3 DEF SinkInit, SinkInv, Untouched

\* The trail is in order and of pieces of sessions up to this one.
LEMMA TrailParts ==
    /\ SinkInv => Ordered
    /\ SinkInv => \A i \in DOMAIN file : file[i].session <= session
BY DEF SinkInv, TrailIsAPrefix, Ordered

\* The next record, when none has failed: it fits, and what the stream keeps of
\* it, if it could not write it, comes next.
LEMMA WriteInv ==
    ASSUME SinkInv, NEW event \in Events, NEW outcome \in Outcomes,
           ~failed, event \notin Beyond, Record(event, outcome)
    PROVE  SinkInv'
<1> DEFINE number == Len(events) + 1
           piece  == [session |-> session, number |-> number, whole |-> outcome = "written"]
<1>1. /\ events \in Seq(Events) /\ Len(events) \in Nat /\ number \in Nat \ {0}
      /\ (events = << >> <=> Len(events) = 0)
      /\ session \in Nat \ {0} /\ held = 0 /\ complaints = 0
      /\ file \in Seq(Pieces) /\ Len(file) \in Nat /\ DOMAIN file = 1..Len(file)
      /\ (file = << >> <=> Len(file) = 0)
  BY LenProperties, EmptySeq DEF SinkInv, SinkTypeOK, TrailIsAPrefix
<1>2. /\ events' = Append(events, event)
      /\ failed' = (outcome # "written")
      /\ held' = IF outcome = "written" THEN 0 ELSE number
      /\ session' = session /\ complaints' = complaints
      /\ file' = IF outcome = "lost" THEN file ELSE Append(file, piece)
  BY DEF Record, Left
<1>3. /\ events' \in Seq(Events) /\ events' # << >> /\ Len(events') = number
  BY <1>1, <1>2, AppendProperties
<1>4. piece \in Pieces
  BY <1>1 DEF Pieces
<1>5. IF events = << >> THEN Untouched
      ELSE /\ file # << >> /\ LastPiece.session = session /\ LastPiece.whole
           /\ number = LastPiece.number + 1
  BY <1>1 DEF SinkInv, TrailIsAPrefix, LastPiece
<1>6. Fits(piece)
  BY <1>1, <1>5 DEF Fits, Untouched
<1>7. \A i \in DOMAIN file : file[i].session <= session
  BY TrailParts
<1>8. CASE outcome = "lost"
  <2>1. file' = file /\ held' = number /\ failed' = TRUE
    BY <1>2, <1>8
  <2>2. HeldComesNext'
    <3>1. CASE events = << >>
      <4>1. held' = 1 /\ session' = session
        <5>1. Len(events) = 0
          BY <3>1, EmptySeq
        <5>2. session' = session /\ held' = Len(events) + 1
          BY <1>2, <2>1, Zenon
        <5> QED BY <5>1, <5>2
      <4>2. Untouched'
        <5>1. Untouched
          BY <1>5, <3>1
        <5> QED BY <2>1, <4>1, <5>1 DEF Untouched, LastPiece
      <4> QED BY <4>1, <4>2 DEF HeldComesNext
    <3>2. CASE events # << >>
      <4>1. /\ file # << >> /\ LastPiece.session = session /\ LastPiece.whole
            /\ held' = LastPiece.number + 1
        BY <1>5, <2>1, <3>2
      <4>2. /\ file' # << >> /\ LastPiece'.session = session' /\ LastPiece'.whole
            /\ held' = LastPiece'.number + 1
        BY <1>2, <2>1, <4>1 DEF LastPiece
      <4> QED BY <4>2 DEF HeldComesNext
    <3> QED BY <3>1, <3>2
  <2>3. SinkTypeOK'
    BY <1>1, <1>2, <1>3, <2>1 DEF SinkInv, SinkTypeOK
  <2>4. TrailIsAPrefix'
    BY <2>1 DEF SinkInv, TrailIsAPrefix, Starts, Continues, Repeats
  <2> QED BY <1>2, <1>7, <2>1, <2>2, <2>3, <2>4 DEF SinkInv
<1>9. CASE outcome # "lost"
  <2>1. file' = Append(file, piece)
    BY <1>2, <1>9
  <2> HIDE DEF piece
  <2>2. /\ Ordered' /\ file' \in Seq(Pieces) /\ file' # << >> /\ Len(file') = Len(file) + 1
        /\ \A i \in DOMAIN file : file'[i] = file[i]
        /\ file'[Len(file')] = piece
    BY <1>4, <1>6, <2>1, TrailParts, PieceFits DEF SinkInv
  <2>3. /\ piece.session = session /\ piece.number = number
        /\ piece.whole = (outcome = "written")
    BY DEF piece
  <2>4. SinkTypeOK'
    BY <1>1, <1>2, <1>3, <2>2 DEF SinkInv, SinkTypeOK
  <2>5. failed' = FALSE => held' = 0 /\ file'[Len(file')] = [session |-> session', number |-> Len(events'), whole |-> TRUE]
    BY <1>2, <1>3, <2>2 DEF piece
  <2>6. TrailIsAPrefix'
    BY <1>1, <1>2, <2>2, <2>5 DEF TrailIsAPrefix, Ordered
  <2>7. \A i \in DOMAIN file' : file'[i].session <= session'
    <3>1. DOMAIN file' = 1..(Len(file) + 1)
      BY <2>2, LenProperties
    <3> QED BY <1>1, <1>2, <1>7, <2>2, <2>3, <3>1
  <2>8. held' # 0 => failed' /\ HeldComesNext'
    <3> SUFFICES ASSUME held' # 0 PROVE failed' /\ HeldComesNext'
      OBVIOUS
    <3>1. failed' /\ held' = number /\ ~piece.whole
      BY <1>2, <2>3
    <3>2. Len(file') > 1 /\ file'[Len(file') - 1].session = session
            => file'[Len(file') - 1].whole
      <4> SUFFICES ASSUME Len(file') > 1, file'[Len(file') - 1].session = session
                   PROVE  file'[Len(file') - 1].whole
        OBVIOUS
      <4>1. file # << >> /\ file'[Len(file') - 1] = LastPiece
        BY <1>1, <2>2 DEF LastPiece
      <4>2. LastPiece.session = session
        BY <4>1
      <4>3. ~Untouched
        BY <1>1, <4>1, <4>2 DEF Untouched
      <4> QED BY <1>5, <4>1, <4>3
    <3> QED BY <1>2, <2>2, <2>3, <3>1, <3>2 DEF HeldComesNext, LastPiece
  <2> QED BY <1>3, <2>4, <2>6, <2>7, <2>8 DEF SinkInv
<1> QED BY <1>8, <1>9

\* A step that is not the sink's.
LEMMA SinkUnchanged == SinkInv /\ UNCHANGED sink => SinkInv'
<1> SUFFICES ASSUME SinkInv, UNCHANGED sink PROVE SinkInv'
  OBVIOUS
<1> QED BY Zenon DEF sink, SinkInv, SinkTypeOK, TrailIsAPrefix, Untouched, HeldComesNext,
                     LastPiece, Starts, Continues, Repeats

\* What stands in the file stays as it is.
LEMMA FileKept ==
    ASSUME SinkInv, file' = file, session' = session,
           complaints' \in {0, 1}, events' \in Seq(Events), failed',
           held' = held \/ held' = 0
    PROVE  SinkInv'
<1>1. SinkTypeOK'
  <2>1. session \in Nat \ {0} /\ held \in Nat /\ file \in Seq(Pieces) /\ failed' \in BOOLEAN
    BY DEF SinkInv, SinkTypeOK
  <2>2. held' \in Nat
    BY <2>1
  <2> QED BY <2>1, <2>2, Zenon DEF SinkTypeOK
<1>2. Ordered'
  BY TrailParts, Zenon DEF Ordered, Starts, Continues, Repeats
<1>3. TrailIsAPrefix'
  BY <1>2, Zenon DEF TrailIsAPrefix, Ordered
<1>4. (\A i \in DOMAIN file : file[i].session <= session)'
  BY TrailParts, Zenon
<1>5. held' # 0 => HeldComesNext'
  <2>1. held # 0 => HeldComesNext
    BY DEF SinkInv
  <2> QED BY <2>1 DEF HeldComesNext, Untouched, LastPiece
<1> QED BY <1>1, <1>3, <1>4, <1>5, Zenon DEF SinkInv

\* A record, whatever becomes of it.
LEMMA RecordInv ==
    ASSUME SinkInv, NEW event \in Events, NEW outcome \in Outcomes, Record(event, outcome)
    PROVE  SinkInv'
<1>1. events' \in Seq(Events)
  BY AppendProperties DEF SinkInv, SinkTypeOK, Record
<1>2. complaints' \in {0, 1} /\ session' = session
  BY DEF SinkInv, SinkTypeOK, Record
<1>3. CASE failed /\ UNCHANGED <<failed, held, file>>
  BY <1>1, <1>2, <1>3, FileKept
<1>4. CASE failed' = TRUE /\ UNCHANGED <<held, file>>
  BY <1>1, <1>2, <1>4, FileKept
<1>5. CASE ~failed /\ event \notin Beyond
  BY <1>5, WriteInv
<1> QED BY <1>3, <1>4, <1>5, Zenon DEF Record

\* The line that tells of the failure.
LEMMA ComplainInv == SinkInv /\ Complain => SinkInv'
<1> SUFFICES ASSUME SinkInv, Complain PROVE SinkInv'
  OBVIOUS
<1>1. file' = file /\ session' = session /\ failed' /\ held' = held /\ events' = events
      /\ complaints' = 1
  BY Zenon DEF Complain
<1>2. events' \in Seq(Events) /\ complaints' \in {0, 1}
  BY <1>1 DEF SinkInv, SinkTypeOK
<1> QED BY <1>1, <1>2, FileKept, Zenon

\* The stream is closed: what it holds goes where it would have stood.
LEMMA CloseInv ==
    ASSUME SinkInv, NEW outcome \in Outcomes, CloseFile(outcome)
    PROVE  SinkInv'
<1> DEFINE piece == [session |-> session, number |-> held, whole |-> outcome = "written"]
<1>1. /\ session \in Nat \ {0} /\ held \in Nat /\ events \in Seq(Events)
      /\ complaints \in {0, 1} /\ failed \in BOOLEAN
      /\ file \in Seq(Pieces) /\ Len(file) \in Nat /\ DOMAIN file = 1..Len(file)
  BY LenProperties DEF SinkInv, SinkTypeOK
<1>2. /\ held' = 0 /\ session' = session /\ failed' = failed
      /\ complaints' = complaints /\ events' = events
      /\ file' = IF held = 0 \/ outcome = "lost" THEN file ELSE Append(file, piece)
  BY DEF CloseFile, Left
<1>3. CASE held = 0
  <2>1. UNCHANGED sink
    BY <1>2, <1>3 DEF sink
  <2> QED BY <2>1, SinkUnchanged, Zenon
<1>4. CASE held # 0 /\ outcome = "lost"
  <2>1. failed /\ file' = file
    BY <1>2, <1>4 DEF SinkInv
  <2>2. failed' /\ events' \in Seq(Events) /\ complaints' \in {0, 1}
    BY <1>1, <1>2, <2>1
  <2> QED BY <1>2, <2>1, <2>2, FileKept, Zenon
<1>5. CASE held # 0 /\ outcome # "lost"
  <2>1. failed /\ HeldComesNext /\ file' = Append(file, piece)
    BY <1>2, <1>5 DEF SinkInv
  <2>2. piece \in Pieces
    BY <1>1, <1>5 DEF Pieces
  <2>3. piece.session = session /\ piece.number = held
    OBVIOUS
  <2> HIDE DEF piece
  <2>4. Fits(piece)
    BY <2>1, <2>3 DEF HeldComesNext, Untouched, Fits
  <2>5. /\ Ordered' /\ file' \in Seq(Pieces) /\ file' # << >> /\ Len(file') = Len(file) + 1
        /\ \A i \in DOMAIN file : file'[i] = file[i]
        /\ file'[Len(file')] = piece
    BY <2>1, <2>2, <2>4, TrailParts, PieceFits DEF SinkInv
  <2>6. \A i \in DOMAIN file' : file'[i].session <= session'
    <3>1. DOMAIN file' = 1..(Len(file) + 1)
      BY <2>5, LenProperties
    <3> QED BY <1>1, <1>2, <2>3, <2>5, <3>1, TrailParts
  <2>7. SinkTypeOK'
    BY <1>1, <1>2, <2>5 DEF SinkTypeOK
  <2>8. TrailIsAPrefix'
    BY <1>2, <2>1, <2>5, Zenon DEF TrailIsAPrefix, Ordered
  <2>9. failed' /\ held' = 0
    BY <1>2, <2>1
  <2> QED BY <2>6, <2>7, <2>8, <2>9, Zenon DEF SinkInv
<1> QED BY <1>3, <1>4, <1>5

\* A later session finds only what earlier ones have left.
LEMMA NextSessionInv == SinkInv /\ NextSession => SinkInv'
<1> SUFFICES ASSUME SinkInv, NextSession PROVE SinkInv'
  OBVIOUS
<1>1. /\ session \in Nat \ {0} /\ file \in Seq(Pieces) /\ Len(file) \in Nat
      /\ DOMAIN file = 1..Len(file) /\ (file = << >> <=> Len(file) = 0)
  BY LenProperties, EmptySeq DEF SinkInv, SinkTypeOK
<1>2. session' = session + 1 /\ failed' = FALSE /\ held' = 0 /\ complaints' = 0
      /\ events' = << >> /\ file' = file
  BY Zenon DEF NextSession
<1>3. \A i \in DOMAIN file : file[i].session <= session /\ file[i].session \in Nat
  <2> SUFFICES ASSUME NEW i \in DOMAIN file
               PROVE  file[i].session <= session /\ file[i].session \in Nat
    OBVIOUS
  <2>1. file[i] \in Pieces
    BY <1>1
  <2>2. file[i].session \in Nat
    BY <2>1 DEF Pieces
  <2> QED BY <2>2, TrailParts
<1>4. \A i \in DOMAIN file' : file'[i].session < session'
  BY <1>1, <1>2, <1>3
<1>5. (\A i \in DOMAIN file : file[i].session <= session)'
  BY <1>1, <1>2, <1>3
<1>6. Untouched'
  <2>1. file' # << >> => Len(file') \in DOMAIN file'
    BY <1>1, <1>2
  <2> QED BY <1>4, <2>1, Zenon DEF Untouched, LastPiece
<1>7. SinkTypeOK'
  <2>1. session' \in Nat \ {0} /\ held' \in Nat /\ complaints' \in {0, 1}
    BY <1>1, <1>2
  <2>2. events' \in Seq(Events) /\ file' \in Seq(Pieces) /\ failed' \in BOOLEAN
    BY <1>1, <1>2, EmptySeq, Zenon
  <2> QED BY <2>1, <2>2, Zenon DEF SinkTypeOK
<1>8. Ordered'
  BY <1>2, TrailParts, Zenon DEF Ordered, Starts, Continues, Repeats
<1>9. TrailIsAPrefix'
  BY <1>2, <1>8, Zenon DEF TrailIsAPrefix, Ordered
<1> QED BY <1>2, <1>5, <1>6, <1>7, <1>9, Zenon DEF SinkInv

\* Every step of the sink.
LEMMA SinkStep == SinkInv /\ [SinkNext]_sink => SinkInv'
<1> SUFFICES ASSUME SinkInv, [SinkNext]_sink PROVE SinkInv'
  OBVIOUS
<1> QED BY SinkUnchanged, RecordInv, ComplainInv, CloseInv, NextSessionInv, Zenon DEF SinkNext

\* TrailIsAPrefix holds whatever events there are, however their records end
\* and however often the file is opened again.
THEOREM TrailStaysAPrefix == SinkSpec => []TrailIsAPrefix
<1>1. SinkInit => SinkInv
  BY SinkInitInv
<1>2. SinkInv /\ [SinkNext]_sink => SinkInv'
  BY SinkStep
<1>3. SinkInv => TrailIsAPrefix
  BY DEF SinkInv
<1> QED BY <1>1, <1>2, <1>3, PTL DEF SinkSpec

------------------------------------------------------------------------------
(* Doctor                                                                  *)

\* Where the guard and the server are, together.
Supervised ==
    /\ err \in 0..ErrSize
    /\ gpc \in {"exec", "ending", "closing", "exited"} => server \notin {"running", "zombie"}
    /\ gpc = "killed" => dpc = "done"
    /\ dpc = "done" => GuardGone
    /\ client = "other" <=> dpc = "absent"
    /\ dpc = "done" /\ server = "running" => gpc = "killed" /\ err = ErrSize

DoctorInv == FramerInv /\ SinkInv /\ toGuard \in Seq(Bytes) /\ Supervised

------------------------------------------------------------------------------
(* Framer and sink                                                          *)

\* What the guard records keeps the trail.
LEMMA AuditInv ==
    ASSUME SinkInv, NEW event \in Events, Audit(event)
    PROVE  SinkInv'
<1>1. {"written", "lost"} \subseteq Outcomes
  BY DEF Outcomes
<1>2. CASE UNCHANGED sink
  BY <1>2, SinkUnchanged
<1>3. CASE \E outcome \in Outcomes : Record(event, outcome)
  BY <1>3, RecordInv
<1> QED BY <1>1, <1>2, <1>3 DEF Audit

\* What the filter decides of a message, and what is recorded of it.
LEMMA HandleInv ==
    ASSUME SinkInv, NEW message, Handle(message)
    PROVE  SinkInv'
<1>1. CASE message \in Recorded
  <2>1. message \in Events
    BY <1>1, DoctorAssumption DEF Recorded
  <2> QED BY <1>1, <2>1, AuditInv DEF Handle
<1>2. CASE message \notin Recorded
  BY <1>2, SinkUnchanged DEF Handle
<1> QED BY <1>1, <1>2

\* The steps of the guard that cut lines or record them.
LEMMA GuardParts ==
    ASSUME DoctorInv, Guard
    PROVE  FramerInv' /\ SinkInv' /\ toGuard' \in Seq(Bytes)
<1>1. FramerInv /\ SinkInv /\ toGuard \in Seq(Bytes)
  BY DEF DoctorInv
<1>2. {"session_start", "session_end", "too_large"} \subseteq Events
  BY DoctorAssumption
<1>3. CASE /\ UNCHANGED framer /\ UNCHANGED toGuard
           /\ \/ UNCHANGED sink \/ Complain
              \/ \E event \in {"session_start", "session_end"} : Audit(event)
              \/ \E outcome \in Outcomes : CloseFile(outcome)
  BY <1>1, <1>2, <1>3, FramerStep, SinkUnchanged, ComplainInv, AuditInv, CloseInv
<1>4. CASE GuardReads
  <2>1. PICK n \in 1..Len(toGuard) : /\ Feed(SubSeq(toGuard, 1, n))
                                     /\ toGuard' = SubSeq(toGuard, n + 1, Len(toGuard))
    BY <1>4 DEF GuardReads
  <2>2. Len(toGuard) \in Nat /\ \A j \in 1..Len(toGuard) : toGuard[j] \in Bytes
    BY <1>1, LenProperties, ElementOfSeq
  <2>3. SubSeq(toGuard, 1, n) \in Seq(Bytes) /\ SubSeq(toGuard, n + 1, Len(toGuard)) \in Seq(Bytes)
    BY <1>1, <2>2, SubSeqProperties
  <2>4. FramerInv'
    BY <1>1, <2>1, <2>3, FeedInv
  <2> QED BY <1>1, <1>4, <2>1, <2>3, <2>4, SinkUnchanged DEF GuardReads
<1>5. CASE GuardFrames
  <2>1. toGuard' = toGuard
    BY <1>5 DEF GuardFrames, pipes
  <2>2. CASE \E i \in DOMAIN chunk : Emit(i) /\ Handle(MessageOf(LineTo(i)))
    BY <1>1, <2>1, <2>2, EmitInv, HandleInv
  <2>3. CASE Keep /\ UNCHANGED sink
    BY <1>1, <2>1, <2>3, KeepInv, SinkUnchanged
  <2>4. CASE Reject /\ Audit("too_large")
    BY <1>1, <1>2, <2>1, <2>4, RejectInv, AuditInv
  <2> QED BY <1>5, <2>2, <2>3, <2>4 DEF GuardFrames
<1>6. CASE GuardInputEnds
  <2>1. toGuard' = toGuard /\ UNCHANGED sink /\ (FinishTruncated \/ UNCHANGED framer)
    BY <1>6 DEF GuardInputEnds, pipes, FinishClean
  <2> QED BY <1>1, <2>1, FramerStep, SinkUnchanged
<1>7. CASE \/ GuardRefuses \/ GuardSpawns \/ GuardStarts \/ GuardRelays \/ GuardObeys
           \/ GuardKills \/ GuardReaps \/ GuardGivesUp \/ GuardEnds \/ GuardExits
           \/ GuardComplains
  BY <1>3, <1>7 DEF GuardRefuses, GuardSpawns, GuardStarts, GuardRelays, GuardObeys, GuardKills,
                    GuardReaps, GuardGivesUp, GuardEnds, GuardExits, GuardComplains, pipes
<1> QED BY <1>4, <1>5, <1>6, <1>7 DEF Guard

\* The steps of the others: they fill the pipe to the guard, or start it again.
LEMMA OtherParts ==
    ASSUME DoctorInv, DoctorSteps \/ DeadlinePasses \/ Server \/ Other
    PROVE  FramerInv' /\ SinkInv' /\ toGuard' \in Seq(Bytes)
<1>1. FramerInv /\ SinkInv /\ toGuard \in Seq(Bytes)
  BY DEF DoctorInv
<1>2. CASE UNCHANGED framer /\ UNCHANGED sink /\ UNCHANGED toGuard
  BY <1>1, <1>2, FramerStep, SinkUnchanged
<1>3. ASSUME NEW at, NEW message \in Bytes, NEW next, DoctorSends(at, message, next)
      PROVE  FramerInv' /\ SinkInv' /\ toGuard' \in Seq(Bytes)
  <2>1. <<message, NL>> \in Seq(Bytes)
    BY FramerAssumption
  <2>2. toGuard \o <<message, NL>> \in Seq(Bytes)
    BY <1>1, <2>1, ConcatProperties
  <2>3. toGuard' \in Seq(Bytes)
    BY <1>1, <1>3, <2>2 DEF DoctorSends
  <2>4. UNCHANGED framer /\ UNCHANGED sink
    BY <1>3 DEF DoctorSends, DoctorOnly
  <2> QED BY <1>1, <2>3, <2>4, FramerStep, SinkUnchanged
<1>4. CASE DoctorSteps
  <2>1. {"init", "note", "list"} \subseteq Bytes
    BY DoctorAssumption
  <2>2. CASE \/ DoctorStarts \/ DoctorReads("initAnswer", "init") \/ DoctorReads("listAnswer", "list")
             \/ DoctorStopsWaiting \/ DoctorConcludes \/ DoctorTerminates \/ DoctorReaps
    <3>1. UNCHANGED framer /\ UNCHANGED sink /\ UNCHANGED toGuard
      BY <2>2 DEF DoctorStarts, DoctorReads, DoctorStopsWaiting, DoctorConcludes,
                  DoctorTerminates, DoctorReaps, DoctorOnly, pipes
    <3> QED BY <1>2, <3>1
  <2> QED BY <1>3, <1>4, <2>1, <2>2 DEF DoctorSteps
<1>5. CASE DeadlinePasses
  BY <1>2, <1>5 DEF DeadlinePasses, pipes
<1>6. CASE Server
  BY <1>2, <1>6 DEF Server, ServerReads, ServerAnswers, ServerNotifies, ServerComplains,
                    ServerExits, Still, pipes
<1>7. ASSUME NEW byte \in ClientBytes, ClientSends(byte)
      PROVE  FramerInv' /\ SinkInv' /\ toGuard' \in Seq(Bytes)
  <2>1. byte \in Bytes
    BY DoctorAssumption
  <2>2. toGuard' \in Seq(Bytes) /\ UNCHANGED framer /\ UNCHANGED sink
    BY <1>1, <1>7, <2>1, AppendProperties DEF ClientSends
  <2> QED BY <1>1, <2>2, FramerStep, SinkUnchanged
<1>8. CASE ClientCloses
  BY <1>2, <1>8 DEF ClientCloses
<1>9. CASE SessionAgain
  <2>1. FramerAgain /\ NextSession /\ toGuard' = << >>
    BY <1>9 DEF SessionAgain
  <2> QED BY <1>1, <2>1, FramerStep, NextSessionInv, EmptySeq
<1> QED BY <1>4, <1>5, <1>6, <1>7, <1>8, <1>9 DEF Other

------------------------------------------------------------------------------
(* The server                                                               *)

\* What is said goes to a pipe with room.
LEMMA SaidInto ==
    err \in 0..ErrSize => /\ Diagnose => err' \in 0..ErrSize
                          /\ \A event : Audit(event) => err' \in 0..ErrSize
<1>1. ErrSize \in Nat
  BY DoctorAssumption
<1>2. err \in 0..ErrSize /\ Diagnose => err' \in 0..ErrSize
  BY <1>1 DEF Diagnose, Room
<1>3. ASSUME err \in 0..ErrSize, NEW event, Audit(event)
      PROVE  err' \in 0..ErrSize
  BY <1>2, <1>3 DEF Audit
<1> QED BY <1>2, <1>3

\* The guard starts the server and does not leave it.
LEMMA GuardSupervises ==
    ASSUME Supervised, Guard
    PROVE  Supervised'
<1>1. err \in 0..ErrSize /\ gpc \notin {"exited", "killed"}
  BY DEF Supervised, Guard, GuardRefuses, GuardSpawns, GuardStarts, GuardReads, GuardFrames,
         GuardInputEnds, GuardRelays, GuardObeys, GuardKills, GuardReaps, GuardGivesUp, GuardEnds,
         GuardExits, GuardComplains
<1>2. dpc # "done"
  BY <1>1 DEF Supervised, GuardGone
<1>3. dpc' = dpc /\ client' = client
  BY DEF Guard, GuardRefuses, GuardSpawns, GuardStarts, GuardReads, GuardFrames, GuardInputEnds,
         GuardRelays, GuardObeys, GuardKills, GuardReaps, GuardGivesUp, GuardEnds, GuardExits,
         GuardComplains, Use, doctor
<1>4. err' \in 0..ErrSize
  <2>1. CASE UNCHANGED err \/ Diagnose \/ \E event : Audit(event)
    BY <1>1, <2>1, SaidInto
  <2>2. CASE GuardFrames
    <3>1. ASSUME NEW m, Handle(m) PROVE UNCHANGED err \/ \E event : Audit(event)
      BY <3>1 DEF Handle
    <3> QED BY <2>1, <2>2, <3>1 DEF GuardFrames
  <2> QED BY <2>1, <2>2
      DEF Guard, GuardRefuses, GuardSpawns, GuardStarts, GuardReads, GuardInputEnds, GuardRelays,
          GuardObeys, GuardKills, GuardReaps, GuardGivesUp, GuardEnds, GuardExits, GuardComplains
<1>5. gpc' # "killed"
      /\ (gpc' \in {"exec", "ending", "closing", "exited"} => server' \notin {"running", "zombie"})
  <2>1. gpc \in {"exec", "ending", "closing", "exited"} => server \notin {"running", "zombie"}
    BY DEF Supervised
  <2>2. CASE GuardRefuses \/ GuardSpawns \/ GuardStarts
    BY <2>1, <2>2 DEF GuardRefuses, GuardSpawns, GuardStarts, peer
  <2>3. CASE GuardReads \/ GuardFrames \/ GuardInputEnds \/ GuardRelays \/ GuardObeys \/ GuardKills
    BY <1>1, <2>1, <2>3
       DEF GuardReads, GuardFrames, GuardInputEnds, GuardRelays, GuardObeys, GuardKills, guard
  <2>4. CASE GuardReaps \/ GuardGivesUp
    BY <2>4 DEF GuardReaps, GuardGivesUp
  <2>5. CASE GuardEnds \/ GuardExits \/ GuardComplains
    BY <1>1, <2>1, <2>5 DEF GuardEnds, GuardExits, GuardComplains, guard, peer
  <2> QED BY <2>2, <2>3, <2>4, <2>5 DEF Guard
<1> QED BY <1>2, <1>3, <1>4, <1>5 DEF Supervised

\* Doctor ends behind a guard that is gone, or kills one that found no room.
LEMMA DoctorSupervises ==
    ASSUME Supervised, DoctorSteps \/ DeadlinePasses
    PROVE  Supervised'
<1>1. err' = err /\ server' = server /\ client' = client
  BY DEF DoctorSteps, DeadlinePasses, DoctorStarts, DoctorSends, DoctorReads, DoctorStopsWaiting,
         DoctorConcludes, DoctorTerminates, DoctorReaps, DoctorOnly, Use, peer
<1>2. dpc # "done" /\ dpc # "absent" /\ dpc' # "absent"
  BY DEF DoctorSteps, DeadlinePasses, DoctorStarts, DoctorSends, DoctorReads, DoctorStopsWaiting,
         DoctorConcludes, DoctorTerminates, DoctorReaps, GivesUp
<1>3. client # "other" /\ gpc # "killed"
  BY <1>2 DEF Supervised
<1>4. CASE gpc' = gpc /\ (dpc' = "done" => GuardGone)
  BY <1>1, <1>2, <1>3, <1>4 DEF Supervised, GuardGone
<1>5. CASE DoctorTerminates
  BY <1>1, <1>2, <1>3, <1>5 DEF Supervised, DoctorTerminates, GuardGone
<1>6. CASE DoctorReaps
  <2>1. CASE gpc' = "killed" /\ dpc' = "done" /\ ~GuardGone /\ GuardIsStuck
    <3>1. server = "running" => ~(err < ErrSize)
      BY <2>1 DEF GuardIsStuck, Room
    <3>2. err \in 0..ErrSize /\ ErrSize \in Nat
      BY DoctorAssumption DEF Supervised
    <3>3. server = "running" => err = ErrSize
      BY <3>1, <3>2
    <3> QED BY <1>1, <1>3, <2>1, <3>3 DEF Supervised, GuardGone
  <2> QED BY <1>4, <1>6, <2>1 DEF DoctorReaps
<1> QED BY <1>4, <1>5, <1>6
    DEF DoctorSteps, DeadlinePasses, DoctorStarts, DoctorSends, DoctorReads, DoctorStopsWaiting,
        DoctorConcludes, GivesUp, guard

\* The server acts only while it runs and doctor watches; another client starts
\* the guard again when the guard is gone.
LEMMA OthersSupervise ==
    ASSUME Supervised, Server \/ Other
    PROVE  Supervised'
<1>1. dpc' = dpc /\ client' = client
  BY DEF Server, Other, ServerReads, ServerAnswers, ServerNotifies, ServerComplains, ServerExits,
         ClientSends, ClientCloses, SessionAgain, Still, Use, doctor
<1>2. CASE Server
  <2>1. server = "running" /\ dpc # "done" /\ gpc' = gpc
    BY <1>2 DEF Server, ServerReads, ServerAnswers, ServerNotifies, ServerComplains, ServerExits,
                Running, Still, guard
  <2>2. err' \in 0..ErrSize
    <3>1. err \in 0..ErrSize /\ ErrSize \in Nat
      BY DoctorAssumption DEF Supervised
    <3>2. CASE ServerComplains
      BY <3>1, <3>2 DEF ServerComplains
    <3>3. CASE UNCHANGED err
      BY <3>1, <3>3
    <3> QED BY <1>2, <3>2, <3>3 DEF Server, ServerReads, ServerAnswers, ServerNotifies, ServerExits
  <2> QED BY <1>1, <2>1, <2>2 DEF Supervised
<1>3. CASE UNCHANGED <<guard, err, peer>>
  BY <1>1, <1>3 DEF Supervised, GuardGone, guard, peer
<1>4. CASE SessionAgain
  <2>1. client = "other" /\ gpc' = "exec" /\ server' = "none" /\ err' = err
    BY <1>4 DEF SessionAgain
  <2> QED BY <1>1, <2>1 DEF Supervised, GuardGone
<1> QED BY <1>2, <1>3, <1>4 DEF Other, ClientSends, ClientCloses

------------------------------------------------------------------------------

\* Nothing has started.
LEMMA DoctorInitInv == Init => DoctorInv
<1> SUFFICES ASSUME Init PROVE DoctorInv
  OBVIOUS
<1>1. FramerInv /\ SinkInv
  BY FramerInitInv, SinkInitInv DEF Init
<1>2. toGuard \in Seq(Bytes)
  BY EmptySeq DEF Init
<1>3. Supervised
  BY DoctorAssumption DEF Init, Supervised
<1> QED BY <1>1, <1>2, <1>3 DEF DoctorInv

\* Every step of the session.
LEMMA DoctorStep == DoctorInv /\ [Next]_vars => DoctorInv'
<1> SUFFICES ASSUME DoctorInv, [Next]_vars PROVE DoctorInv'
  OBVIOUS
<1>1. CASE UNCHANGED vars
  <2>1. /\ UNCHANGED framer /\ UNCHANGED sink
        /\ UNCHANGED <<toGuard, client, dpc, gpc, err, server>>
    BY <1>1 DEF vars, pipes, doctor, guard, peer
  <2>2. FramerInv' /\ SinkInv'
    BY <2>1, FramerStep, SinkUnchanged DEF DoctorInv
  <2>3. Supervised'
    BY <2>1 DEF DoctorInv, Supervised, GuardGone
  <2> QED BY <2>1, <2>2, <2>3 DEF DoctorInv
<1>2. CASE Next
  <2>1. FramerInv' /\ SinkInv' /\ toGuard' \in Seq(Bytes)
    BY <1>2, GuardParts, OtherParts DEF Next
  <2>2. Supervised'
    BY <1>2, GuardSupervises, DoctorSupervises, OthersSupervise DEF Next, DoctorInv
  <2> QED BY <2>1, <2>2 DEF DoctorInv
<1> QED BY <1>1, <1>2

\* DoctorInv is inductive.
THEOREM DoctorInvHolds == Spec => []DoctorInv
<1>1. Init => DoctorInv
  BY DoctorInitInv
<1>2. DoctorInv /\ [Next]_vars => DoctorInv'
  BY DoctorStep
<1> QED BY <1>1, <1>2, PTL DEF Spec

\* The stdin of the guard is cut at its newlines however it arrives: Spec keeps
\* LinesAreTheStream, over any number of sessions.
THEOREM GuardFramesItsInput == Spec => []LinesAreTheStream
<1>1. DoctorInv => LinesAreTheStream
  BY DEF DoctorInv, FramerInv
<1> QED BY <1>1, DoctorInvHolds, PTL

\* The audit file of the guard: Spec keeps TrailIsAPrefix, whatever is written
\* through, torn or lost, and however often the guard is started again.
THEOREM GuardKeepsTheTrail == Spec => []TrailIsAPrefix
<1>1. DoctorInv => TrailIsAPrefix
  BY DEF DoctorInv, SinkInv
<1> QED BY <1>1, DoctorInvHolds, PTL

\* Spec keeps LeavesNoServer: no server outlives the guard, nor doctor, but for
\* one behind a guard killed while it waited for room in the stderr pipe.
THEOREM NoServerIsLeft == Spec => []LeavesNoServer
<1>1. DoctorInv => LeavesNoServer
  BY DEF DoctorInv, Supervised, LeavesNoServer
<1> QED BY <1>1, DoctorInvHolds, PTL

------------------------------------------------------------------------------
(* The types                                                                *)

\* What the flags and the enumerations of the session may be.
Typed ==
    /\ client \in Clients /\ audit \in Audits
    /\ dpc \in {"absent", "start", "init", "initAnswer", "note", "list", "listAnswer",
                "shutdown", "terminate", "grace", "done"}
    /\ verdict \in {"none", "healthy", "unhealthy"}
    /\ gpc \in {"exec", "spawned", "relay", "diagnose", "ending", "closing", "exited", "killed"}
    /\ gstatus \in 0..255 /\ sstatus \in 0..255
    /\ {deadline, asleep, terminationSignal, sentTermination, inputEof, toGuardOpen, toServerOpen,
        quit} \subseteq BOOLEAN
    /\ server \in {"none", "running", "zombie", "reaped"}
    /\ sent \in 0..MaxSent /\ notices \in 0..MaxNotices

\* The guard moves itself and the server.
LEMMA GuardIsTyped == ASSUME Typed, Guard PROVE Typed'
<1> DEFINE First == GuardRefuses \/ GuardSpawns \/ GuardStarts \/ GuardReads \/ GuardFrames
                       \/ GuardInputEnds \/ GuardRelays
           Second == GuardObeys \/ GuardKills \/ GuardReaps \/ GuardGivesUp \/ GuardEnds
                        \/ GuardExits \/ GuardComplains
<1>0. First \/ Second
  BY DEF Guard
<1>1. UNCHANGED <<client, audit, dpc, verdict, deadline, asleep, terminationSignal, toGuardOpen,
                  sent, notices, quit>>
  BY DEF Guard, GuardRefuses, GuardSpawns, GuardStarts, GuardReads, GuardFrames, GuardInputEnds,
         GuardRelays, GuardObeys, GuardKills, GuardReaps, GuardGivesUp, GuardEnds, GuardExits,
         GuardComplains, Use, doctor, guard, pipes, peer
<1>2. gstatus' \in {gstatus, sstatus, 2, 3, 4, 143}
  <2>1. CASE First
    BY <2>1 DEF GuardRefuses, GuardSpawns, GuardStarts, GuardReads, GuardFrames, GuardInputEnds,
                GuardRelays, guard
  <2>2. CASE Second
    BY <2>2 DEF GuardObeys, GuardKills, GuardReaps, GuardGivesUp, GuardEnds, GuardExits,
                GuardComplains, guard
  <2> QED BY <1>0, <2>1, <2>2
<1>3. /\ gpc' = gpc \/ gpc' \in {"spawned", "relay", "diagnose", "ending", "closing", "exited"}
      /\ inputEof' = inputEof \/ inputEof' = TRUE
      /\ sentTermination' = sentTermination \/ sentTermination' = TRUE
  <2>1. CASE First
    BY <2>1 DEF GuardRefuses, GuardSpawns, GuardStarts, GuardReads, GuardFrames, GuardInputEnds,
                GuardRelays, guard
  <2>2. CASE Second
    BY <2>2 DEF GuardObeys, GuardKills, GuardReaps, GuardGivesUp, GuardEnds, GuardExits,
                GuardComplains, guard
  <2> QED BY <1>0, <2>1, <2>2
<1>4. /\ server' = server \/ server' \in {"running", "zombie", "reaped"}
      /\ sstatus' = sstatus \/ sstatus' = 137
      /\ toServerOpen' = toServerOpen \/ toServerOpen' = TRUE \/ toServerOpen' = FALSE
  <2>1. CASE First
    BY <2>1 DEF GuardRefuses, GuardSpawns, GuardStarts, GuardReads, GuardFrames, GuardInputEnds,
                GuardRelays, peer
  <2>2. CASE Second
    BY <2>2 DEF GuardObeys, GuardKills, GuardReaps, GuardGivesUp, GuardEnds, GuardExits,
                GuardComplains, peer
  <2> QED BY <1>0, <2>1, <2>2
<1>5. inputEof' \in BOOLEAN /\ sentTermination' \in BOOLEAN /\ toServerOpen' \in BOOLEAN
  <2>1. inputEof \in BOOLEAN /\ sentTermination \in BOOLEAN /\ toServerOpen \in BOOLEAN
    BY DEF Typed
  <2> QED BY <1>3, <1>4, <2>1, Zenon
<1>6. gstatus' \in 0..255 /\ sstatus' \in 0..255
  BY <1>2, <1>4 DEF Typed
<1> QED BY <1>1, <1>3, <1>4, <1>5, <1>6 DEF Typed

\* Doctor moves itself and ends the guard.
LEMMA DoctorIsTyped == ASSUME Typed, DoctorSteps \/ DeadlinePasses PROVE Typed'
<1>1. UNCHANGED <<client, audit, sentTermination, inputEof, sent, peer>>
  BY DEF DoctorSteps, DeadlinePasses, DoctorStarts, DoctorSends, DoctorReads, DoctorStopsWaiting,
         DoctorConcludes, DoctorTerminates, DoctorReaps, DoctorOnly, Use, guard, pipes
<1>2. /\ gpc' = gpc \/ gpc' \in {"exited", "killed"}
      /\ gstatus' = gstatus \/ gstatus' = 143
      /\ terminationSignal' = terminationSignal \/ terminationSignal' = TRUE
  BY DEF DoctorSteps, DeadlinePasses, DoctorStarts, DoctorSends, DoctorReads, DoctorStopsWaiting,
         DoctorConcludes, DoctorTerminates, DoctorReaps, guard
<1>3. /\ verdict' = verdict \/ verdict' \in {"healthy", "unhealthy"}
      /\ deadline' = deadline \/ deadline' = TRUE
      /\ asleep' = asleep \/ asleep' \in {TRUE, FALSE}
  BY DEF DoctorSteps, DeadlinePasses, DoctorStarts, DoctorSends, DoctorReads, DoctorStopsWaiting,
         DoctorConcludes, DoctorTerminates, DoctorReaps, GivesUp, pipes
<1>4. dpc' = dpc \/ dpc' \in {"init", "initAnswer", "note", "list", "listAnswer", "shutdown",
                              "terminate", "grace", "done"}
  BY DEF DoctorSteps, DeadlinePasses, DoctorStarts, DoctorSends, DoctorReads, DoctorStopsWaiting,
         DoctorConcludes, DoctorTerminates, DoctorReaps, GivesUp
<1>5. toGuardOpen' \in BOOLEAN
  <2>1. toGuardOpen \in BOOLEAN
    BY DEF Typed
  <2>2. CASE UNCHANGED toGuardOpen
    BY <2>1, <2>2
  <2>3. ASSUME NEW at, NEW id, DoctorReads(at, id) PROVE toGuardOpen' \in BOOLEAN
    <3>1. toGuardOpen' = toGuardOpen \/ toGuardOpen' = FALSE \/ toGuardOpen' = (at = "initAnswer")
      BY <2>3 DEF DoctorReads, GivesUp
    <3> QED BY <2>1, <3>1, Zenon
  <2> QED BY <2>2, <2>3 DEF DoctorSteps, DeadlinePasses, DoctorStarts, DoctorSends, GivesUp, pipes,
             DoctorStopsWaiting, DoctorConcludes, DoctorTerminates, DoctorReaps
<1>6. terminationSignal' \in BOOLEAN /\ deadline' \in BOOLEAN /\ asleep' \in BOOLEAN
  <2>1. terminationSignal \in BOOLEAN /\ deadline \in BOOLEAN /\ asleep \in BOOLEAN
    BY DEF Typed
  <2> QED BY <1>2, <1>3, <2>1, Zenon
<1>7. gstatus' \in 0..255
  BY <1>2 DEF Typed
<1> QED BY <1>1, <1>2, <1>3, <1>4, <1>5, <1>6, <1>7 DEF Typed, peer

\* The server moves itself; the other client sends, and starts the guard again.
LEMMA OthersAreTyped == ASSUME Typed, Server \/ Other PROVE Typed'
<1>1. CASE Server
  <2>1. UNCHANGED <<client, audit, doctor, guard, toGuardOpen, sent, toServerOpen>>
    BY <1>1 DEF Server, ServerReads, ServerAnswers, ServerNotifies, ServerComplains, ServerExits,
                Still, Use, pipes, peer
  <2>2. server' \in {server, "zombie"} /\ sstatus' \in {sstatus, 0, 7}
    BY <1>1 DEF Server, ServerReads, ServerAnswers, ServerNotifies, ServerComplains, ServerExits, peer
  <2>3. notices' \in 0..MaxNotices
    <3>1. notices' = notices \/ (notices < MaxNotices /\ notices' = notices + 1)
      BY <1>1 DEF Server, ServerReads, ServerAnswers, ServerNotifies, ServerComplains, ServerExits,
                  peer
    <3> QED BY <3>1, DoctorAssumption DEF Typed
  <2>4. quit' \in BOOLEAN
    <3>1. quit \in BOOLEAN
      BY DEF Typed
    <3>2. quit' = quit \/ quit' = (toServerOpen \/ toServer # << >> \/ owed # "none")
      BY <1>1 DEF Server, ServerReads, ServerAnswers, ServerNotifies, ServerComplains, ServerExits,
                  peer
    <3> QED BY <3>1, <3>2, Zenon
  <2> QED BY <2>1, <2>2, <2>3, <2>4 DEF Typed, doctor, guard
<1>2. CASE ClientCloses \/ \E byte \in ClientBytes : ClientSends(byte)
  <2>1. UNCHANGED <<client, audit, doctor, guard, peer>> /\ toGuardOpen' \in {toGuardOpen, FALSE}
    BY <1>2 DEF ClientCloses, ClientSends, Use
  <2>2. sent' \in 0..MaxSent
    <3>1. sent' = sent \/ (sent < MaxSent /\ sent' = sent + 1)
      BY <1>2 DEF ClientCloses, ClientSends
    <3>2. sent \in 0..MaxSent
      BY DEF Typed
    <3>3. MaxSent \in Nat
      BY DoctorAssumption
    <3> QED BY ONLY <3>1, <3>2, <3>3
  <2>3. toGuardOpen' \in BOOLEAN
    BY <2>1 DEF Typed
  <2> QED BY <2>1, <2>2, <2>3 DEF Typed, doctor, guard, peer
<1>3. CASE SessionAgain
  <2>1. /\ UNCHANGED <<client, audit, doctor, terminationSignal, sentTermination, sent>>
        /\ gpc' = "exec" /\ gstatus' = 0 /\ inputEof' = FALSE /\ toGuardOpen' = TRUE
        /\ server' = "none" /\ sstatus' = 0 /\ toServerOpen' = FALSE
        /\ notices' = 0 /\ quit' = FALSE
    BY <1>3 DEF SessionAgain, Use
  <2>2. 0 \in 0..255 /\ 0 \in 0..MaxNotices
    BY DoctorAssumption
  <2>3. UNCHANGED <<dpc, verdict, deadline, asleep>>
    BY <2>1 DEF doctor
  <2>4. {deadline', asleep', terminationSignal', sentTermination', inputEof', toGuardOpen',
         toServerOpen', quit'} \subseteq BOOLEAN
    BY <2>1, <2>3 DEF Typed
  <2> QED BY <2>1, <2>2, <2>3, <2>4 DEF Typed
<1> QED BY <1>1, <1>2, <1>3 DEF Other

\* Every step keeps the types.
LEMMA TypedStep == Typed /\ [Next]_vars => Typed'
<1>1. Typed /\ UNCHANGED vars => Typed'
  BY DEF Typed, vars, doctor, guard, pipes, peer
<1> QED BY <1>1, GuardIsTyped, DoctorIsTyped, OthersAreTyped DEF Next

\* Typed is inductive.
LEMMA TypedHolds == Spec => []Typed
<1>1. Init => Typed
  <2> SUFFICES ASSUME Init PROVE Typed
    OBVIOUS
  <2>1. /\ client \in Clients /\ audit \in Audits
        /\ dpc \in {"start", "absent"} /\ verdict = "none" /\ gpc = "exec" /\ server = "none"
    BY DEF Init
  <2>2. gstatus = 0 /\ sstatus = 0 /\ sent = 0 /\ notices = 0
    BY DEF Init
  <2>3. /\ deadline = FALSE /\ asleep = FALSE /\ terminationSignal = FALSE /\ sentTermination = FALSE
        /\ inputEof = FALSE /\ toGuardOpen = TRUE /\ toServerOpen = FALSE /\ quit = FALSE
    BY DEF Init
  <2>4. 0 \in 0..MaxSent /\ 0 \in 0..MaxNotices /\ 0 \in 0..255
    BY DoctorAssumption
  <2> QED BY <2>1, <2>2, <2>3, <2>4 DEF Typed
<1> QED BY <1>1, TypedStep, PTL DEF Spec

\* Every variable of doctor, the guard, the pipes and the server has its type.
THEOREM DoctorIsWellTyped == Spec => []TypeOK
<1>1. DoctorInv /\ Typed => TypeOK
  BY DEF DoctorInv, FramerInv, SinkInv, Supervised, Typed, TypeOK
<1> QED BY <1>1, TypedHolds, DoctorInvHolds, PTL

------------------------------------------------------------------------------
(* The audit of the session                                                 *)

\* What the audit of a session holds until its end, and at its end.
Opening == <<"session_start">> \o Selected(Recorded)
Told(ended) ==
    Opening \o (IF failure = "message_too_large" THEN <<"too_large">> ELSE << >>)
            \o (IF ended THEN <<"session_end">> ELSE << >>)

Untold == events = << >> /\ lines = << >>

\* How far the telling is, and who has heard of a failed write.
Tale ==
    /\ forwarded = Selected(LetThrough)
    /\ gpc \in {"exec", "spawned"} => Untold /\ failure = "none" /\ ~failed
    /\ gpc = "relay" => failure = "none"
    /\ gpc = "exited" /\ failed => complaints = 1 \/ gstatus = 143
    /\ audit = "none" \/ /\ gpc \in {"relay", "diagnose", "ending"} => events = Told(FALSE)
                         /\ gpc = "closing" => events = Told(TRUE)
                         /\ gpc = "exited" => Untold \/ events = Told(TRUE)
                         /\ gpc = "killed" => Untold \/ \E ended \in BOOLEAN : events = Told(ended)

Made == {MessageOf(line) : line \in Seq(Bytes)}

\* One more line is one more message.
LEMMA MessagesOf ==
    ASSUME FramerInv
    PROVE  /\ Messages \in Seq(Made)
           /\ \A line \in Seq(Bytes) : lines' = Append(lines, line)
                => Messages' = Append(Messages, MessageOf(line))
<1>1. /\ lines \in Seq(Seq(Bytes)) /\ Len(lines) \in Nat /\ DOMAIN lines = 1..Len(lines)
      /\ \A n \in 1..Len(lines) : lines[n] \in Seq(Bytes)
  BY LenProperties, ElementOfSeq DEF FramerInv, FramerTypeOK
<1>2. /\ Messages = [n \in 1..Len(lines) |-> MessageOf(lines[n])]
      /\ Messages \in [1..Len(lines) -> Made]
  BY <1>1 DEF Messages, Made
<1>3. Messages \in Seq(Made) /\ Len(Messages) = Len(lines)
  <2>1. [1..Len(lines) -> Made] \in {[1..n -> Made] : n \in Nat}
    BY <1>1
  <2>2. Messages \in Seq(Made)
    BY <1>2, <2>1, SeqDef
  <2>3. DOMAIN Messages = 1..Len(lines) /\ DOMAIN Messages = 1..Len(Messages) /\ Len(Messages) \in Nat
    BY <1>2, <2>2, LenProperties
  <2> QED BY <1>1, <2>2, <2>3
<1>4. ASSUME NEW line \in Seq(Bytes), lines' = Append(lines, line)
      PROVE  Messages' = Append(Messages, MessageOf(line))
  <2>1. MessageOf(line) \in Made
    BY DEF Made
  <2>2. /\ lines' \in Seq(Seq(Bytes)) /\ Len(lines') = Len(lines) + 1
        /\ DOMAIN lines' = 1..(Len(lines) + 1)
        /\ lines'[Len(lines) + 1] = line /\ \A n \in 1..Len(lines) : lines'[n] = lines[n]
    BY <1>1, <1>4, AppendProperties, LenProperties
  <2>3. Messages' = [n \in 1..(Len(lines) + 1) |-> MessageOf(lines'[n])]
    BY <2>2 DEF Messages
  <2>4. /\ Append(Messages, MessageOf(line)) \in [1..(Len(lines) + 1) -> Made]
        /\ Append(Messages, MessageOf(line))[Len(lines) + 1] = MessageOf(line)
        /\ \A n \in 1..Len(lines) : Append(Messages, MessageOf(line))[n] = Messages[n]
    <3> DEFINE x == MessageOf(line)
               longer == Append(Messages, x)
    <3>1. x \in Made
      BY <2>1
    <3> HIDE DEF x
    <3>2. /\ longer \in Seq(Made) /\ Len(longer) = Len(Messages) + 1
          /\ \A n \in 1..Len(Messages) : longer[n] = Messages[n]
          /\ longer[Len(Messages) + 1] = x
      BY <1>3, <3>1, AppendProperties
    <3> HIDE DEF longer
    <3>3. longer \in [1..Len(longer) -> Made]
      BY <3>2, LenProperties
    <3>4. longer \in [1..(Len(lines) + 1) -> Made]
      BY <1>3, <3>2, <3>3
    <3> QED BY <1>3, <3>2, <3>4 DEF x, longer
  <2>5. \A n \in 1..(Len(lines) + 1) :
           MessageOf(lines'[n]) = Append(Messages, MessageOf(line))[n]
    <3> SUFFICES ASSUME NEW n \in 1..(Len(lines) + 1)
                 PROVE  MessageOf(lines'[n]) = Append(Messages, MessageOf(line))[n]
      OBVIOUS
    <3>1. CASE n = Len(lines) + 1
      BY <2>2, <2>4, <3>1
    <3>2. CASE n \in 1..Len(lines)
      <4>1. Append(Messages, MessageOf(line))[n] = Messages[n] /\ lines'[n] = lines[n]
        BY <2>2, <2>4, <3>2
      <4>2. Messages[n] = MessageOf(lines[n])
        BY <1>2, <3>2, Zenon
      <4> QED BY <4>1, <4>2
    <3>3. n = Len(lines) + 1 \/ n \in 1..Len(lines)
      BY <1>1
    <3> QED BY <3>1, <3>2, <3>3
  <2> DEFINE longer == Append(Messages, MessageOf(line))
  <2>6. longer = [n \in 1..(Len(lines) + 1) |-> longer[n]]
    BY <2>4
  <2>7. \A n \in 1..(Len(lines) + 1) : MessageOf(lines'[n]) = longer[n]
    BY <2>5
  <2> HIDE DEF longer
  <2>8. Messages' = longer
    BY <2>3, <2>6, <2>7
  <2> QED BY <2>8 DEF longer
<1> QED BY <1>3, <1>4

\* What is chosen of the messages when a line has come in, or none has.
LEMMA SelectedOf ==
    ASSUME FramerInv, NEW kinds
    PROVE  /\ Selected(kinds) \in Seq(kinds)
           /\ lines = << >> => Selected(kinds) = << >>
           /\ \A line \in Seq(Bytes) : lines' = Append(lines, line)
                => Selected(kinds)' = IF MessageOf(line) \in kinds
                                      THEN Append(Selected(kinds), MessageOf(line))
                                      ELSE Selected(kinds)
           /\ lines' = lines => Selected(kinds)' = Selected(kinds)
<1>1. Messages \in Seq(Made)
  BY MessagesOf
<1>2. Selected(kinds) \in Seq(kinds)
  <2>1. Select(Messages, kinds) \in Seq(Made \cap kinds)
    BY <1>1, SelectType
  <2>2. Made \cap kinds \subseteq kinds
    OBVIOUS
  <2>3. Select(Messages, kinds) \in Seq(kinds)
    BY <2>1, <2>2, SeqMonotonic
  <2> QED BY <2>3 DEF Selected
<1>3. ASSUME lines = << >> PROVE Selected(kinds) = << >>
  <2>1. Len(lines) = 0
    BY <1>3, EmptySeq
  <2>2. Messages = << >>
    BY <1>3, <2>1 DEF Messages
  <2> QED BY <2>2, SelectEmpty DEF Selected
<1>4. ASSUME NEW line \in Seq(Bytes), lines' = Append(lines, line)
      PROVE  Selected(kinds)' = IF MessageOf(line) \in kinds
                                THEN Append(Selected(kinds), MessageOf(line))
                                ELSE Selected(kinds)
  <2>1. Messages' = Append(Messages, MessageOf(line)) /\ MessageOf(line) \in Made
    BY <1>4, MessagesOf DEF Made
  <2>2. Select(Append(Messages, MessageOf(line)), kinds) =
          IF MessageOf(line) \in kinds
          THEN Append(Select(Messages, kinds), MessageOf(line)) ELSE Select(Messages, kinds)
    BY <1>1, <2>1, SelectAppend
  <2> QED BY <2>1, <2>2 DEF Selected
<1>5. lines' = lines => Selected(kinds)' = Selected(kinds)
  BY DEF Selected, Messages
<1> QED BY <1>2, <1>3, <1>4, <1>5

\* The telling so far, what an end adds to it, and what a failure adds.
LEMMA ToldIs ==
    ASSUME FramerInv
    PROVE  /\ Opening \in Seq(Events)
           /\ failure # "message_too_large" => Told(FALSE) = Opening
           /\ failure = "message_too_large" => Told(FALSE) = Append(Opening, "too_large")
           /\ Told(TRUE) = Append(Told(FALSE), "session_end")
<1>1. /\ <<"session_start">> \in Seq(Events) /\ <<"too_large">> \in Seq(Events)
      /\ <<"session_end">> \in Seq(Events) /\ {"too_large", "session_end"} \subseteq Events
      /\ Recorded \subseteq Events
  BY DoctorAssumption DEF Recorded
<1>2. Opening \in Seq(Events)
  <2>1. Selected(Recorded) \in Seq(Recorded)
    BY SelectedOf
  <2>2. Selected(Recorded) \in Seq(Events)
    BY <1>1, <2>1, SeqMonotonic
  <2> QED BY <1>1, <2>2, ConcatProperties DEF Opening
<1> HIDE DEF Opening
<1>3. /\ Opening \o << >> = Opening
      /\ \A s \in Seq(Events) : s \o << >> = s
      /\ \A s \in Seq(Events) : Append(s, "too_large") \in Seq(Events)
      /\ \A s \in Seq(Events) : Append(s, "too_large") = s \o <<"too_large">>
      /\ \A s \in Seq(Events) : Append(s, "session_end") = s \o <<"session_end">>
  BY <1>1, <1>2, ConcatEmptySeq, AppendProperties, AppendIsConcat
<1>4. CASE failure # "message_too_large"
  <2>1. Told(FALSE) = (Opening \o << >>) \o << >> /\ Told(TRUE) = (Opening \o << >>) \o <<"session_end">>
    BY <1>4 DEF Told
  <2>2. Told(FALSE) = Opening /\ Told(TRUE) = Opening \o <<"session_end">>
    BY ONLY <1>2, <1>3, <2>1
  <2>3. Told(TRUE) = Append(Told(FALSE), "session_end")
    BY ONLY <1>2, <1>3, <2>2
  <2> QED BY ONLY <1>2, <1>4, <2>2, <2>3
<1>5. CASE failure = "message_too_large"
  <2> DEFINE Failed == Opening \o <<"too_large">>
  <2>1. Told(FALSE) = Failed \o << >> /\ Told(TRUE) = Failed \o <<"session_end">>
    BY <1>5 DEF Told
  <2>2. Failed \in Seq(Events) /\ Failed = Append(Opening, "too_large")
    BY ONLY <1>2, <1>3
  <2> HIDE DEF Failed
  <2>3. Told(FALSE) = Failed /\ Told(TRUE) = Append(Failed, "session_end")
    BY ONLY <1>3, <2>1, <2>2
  <2> QED BY ONLY <1>2, <1>5, <2>2, <2>3
<1> QED BY <1>4, <1>5, <1>2

\* Nothing is told of no line but the start.
LEMMA OpeningIs ==
    ASSUME FramerInv
    PROVE  /\ lines = << >> => Opening = <<"session_start">>
           /\ \A line \in Seq(Bytes) : lines' = Append(lines, line)
                => Opening' = IF MessageOf(line) \in Recorded
                              THEN Append(Opening, MessageOf(line)) ELSE Opening
           /\ lines' = lines => Opening' = Opening
<1>1. Selected(Recorded) \in Seq(Recorded) /\ Recorded \subseteq Events
  BY SelectedOf, DoctorAssumption DEF Recorded
<1>2. Selected(Recorded) \in Seq(Events) /\ <<"session_start">> \in Seq(Events)
  BY <1>1, SeqMonotonic, DoctorAssumption
<1>3. lines = << >> => Opening = <<"session_start">>
  BY <1>2, SelectedOf, ConcatEmptySeq DEF Opening
<1>4. ASSUME NEW line \in Seq(Bytes), lines' = Append(lines, line)
      PROVE  Opening' = IF MessageOf(line) \in Recorded
                        THEN Append(Opening, MessageOf(line)) ELSE Opening
  <2>1. CASE MessageOf(line) \in Recorded
    <3>1. Selected(Recorded)' = Append(Selected(Recorded), MessageOf(line))
      BY <1>4, <2>1, SelectedOf
    <3>2. MessageOf(line) \in Events
      BY <1>1, <2>1
    <3>3. \A s, t \in Seq(Events) : \A x \in Events : s \o Append(t, x) = Append(s \o t, x)
      BY AppendOfConcat
    <3>4. <<"session_start">> \o Append(Selected(Recorded), MessageOf(line)) =
            Append(<<"session_start">> \o Selected(Recorded), MessageOf(line))
      BY ONLY <1>2, <3>2, <3>3
    <3> QED BY <2>1, <3>1, <3>4 DEF Opening
  <2>2. CASE MessageOf(line) \notin Recorded
    BY <1>4, <2>2, SelectedOf DEF Opening
  <2> QED BY <2>1, <2>2
<1>5. lines' = lines => Opening' = Opening
  BY SelectedOf DEF Opening
<1> QED BY <1>3, <1>4, <1>5

\* What is given to the sink is one event more.
LEMMA AuditTells ==
    ASSUME NEW event, Audit(event)
    PROVE  audit = "none" \/ events' = Append(events, event)
BY DEF Audit, Record

\* No line, nor a failure of the framer: what is to be told stays.
LEMMA ToldStays ==
    ASSUME FramerInv, lines' = lines, failure' = failure
    PROVE  /\ Told(FALSE)' = Told(FALSE) /\ Told(TRUE)' = Told(TRUE)
           /\ Selected(LetThrough)' = Selected(LetThrough)
BY OpeningIs, SelectedOf DEF Told

\* Steps that concern neither the framer nor the sink nor where the guard is.
LEMMA TaleStays ==
    ASSUME FramerInv, Tale, UNCHANGED <<lines, failure, events, failed, forwarded, audit, gpc>>,
           gpc = "exited" => UNCHANGED <<complaints, gstatus>>
    PROVE  Tale'
BY ToldStays DEF Tale, Untold

\* The guard starts the session, ends it, or comes to an end itself.
LEMMA SessionIsTold ==
    ASSUME FramerInv, Typed, Tale,
           \/ GuardRefuses \/ GuardSpawns \/ GuardStarts \/ GuardReaps \/ GuardGivesUp
           \/ GuardEnds \/ GuardExits \/ DoctorTerminates \/ DoctorReaps
    PROVE  Tale'
<1>1. audit' = audit /\ UNCHANGED <<lines, failure, forwarded>>
  BY DEF GuardRefuses, GuardSpawns, GuardStarts, GuardReaps, GuardGivesUp, GuardEnds, GuardExits,
         DoctorTerminates, DoctorReaps, DoctorOnly, Use, framer, guard
<1>2. /\ Told(FALSE)' = Told(FALSE) /\ Told(TRUE)' = Told(TRUE)
      /\ forwarded' = Selected(LetThrough)'
  BY <1>1, ToldStays DEF Tale
<1>3. CASE GuardRefuses \/ GuardSpawns
  <2>1. /\ gpc = "exec" /\ gpc' \in {"exited", "spawned"}
        /\ UNCHANGED <<failed, complaints, events>>
    BY <1>3 DEF GuardRefuses, GuardSpawns, sink
  <2> QED BY <1>1, <1>2, <2>1 DEF Tale, Untold
<1>4. CASE GuardStarts
  <2>1. gpc' = "relay" /\ failure' = "none" /\ Untold
    BY <1>1, <1>4 DEF GuardStarts, Tale
  <2>2. audit = "none" \/ events' = <<"session_start">>
    BY <1>4, <2>1, AuditTells DEF GuardStarts, Untold
  <2>3. Told(FALSE) = <<"session_start">>
    BY <2>1, <1>1, ToldIs, OpeningIs DEF Untold
  <2> QED BY <1>1, <1>2, <2>1, <2>2, <2>3 DEF Tale
<1>5. CASE GuardReaps \/ GuardGivesUp
  <2>1. gpc \in {"relay", "diagnose"} /\ gpc' = "ending" /\ UNCHANGED sink
    BY <1>5 DEF GuardReaps, GuardGivesUp
  <2> QED BY <1>1, <1>2, <2>1 DEF sink, Tale
<1>6. CASE GuardEnds
  <2>1. gpc = "ending" /\ gpc' = "closing"
    BY <1>6 DEF GuardEnds
  <2>2. audit = "none" \/ events' = Append(Told(FALSE), "session_end")
    BY <1>6, <2>1, AuditTells DEF GuardEnds, Tale
  <2>3. Told(TRUE) = Append(Told(FALSE), "session_end")
    BY ToldIs
  <2> QED BY <1>1, <1>2, <2>1, <2>2, <2>3 DEF Tale
<1>7. CASE GuardExits
  <2>1. /\ gpc = "closing" /\ gpc' = "exited" /\ Settled
        /\ UNCHANGED <<failed, complaints, events>>
    BY <1>7 DEF GuardExits, CloseFile
  <2> QED BY <1>1, <1>2, <2>1 DEF Tale, Settled
<1>8. CASE DoctorTerminates
  <2>1. UNCHANGED <<failed, complaints, events>>
    BY <1>8 DEF DoctorTerminates, DoctorOnly, sink
  <2>2. \/ gpc' = gpc /\ gstatus' = gstatus
        \/ gpc \in {"exec", "closing"} /\ gpc' = "exited" /\ gstatus' = 143
    BY <1>8 DEF DoctorTerminates
  <2> QED BY <1>1, <1>2, <2>1, <2>2 DEF Tale, Untold
<1>9. CASE DoctorReaps
  <2>1. UNCHANGED <<failed, complaints, events, gstatus>>
    BY <1>9 DEF DoctorReaps, DoctorOnly, sink
  <2>2. gpc' = gpc \/ (~GuardGone /\ gpc' = "killed")
    BY <1>9 DEF DoctorReaps
  <2>3. CASE gpc' = gpc
    BY <1>1, <2>1, <2>3, TaleStays
  <2>4. CASE ~GuardGone /\ gpc' = "killed"
    <3>1. ~GuardGone => gpc \in {"exec", "spawned", "relay", "diagnose", "ending", "closing"}
      BY DEF Typed, GuardGone
    <3> QED BY <1>1, <1>2, <2>1, <2>4, <3>1 DEF Tale, Untold
  <2> QED BY <2>2, <2>3, <2>4
<1> QED BY <1>3, <1>4, <1>5, <1>6, <1>7, <1>8, <1>9

\* The guard reads its stdin, and makes lines of it.
LEMMA LinesAreTold ==
    ASSUME FramerInv, Tale, GuardReads \/ GuardFrames \/ GuardInputEnds
    PROVE  Tale'
<1>1. gpc = "relay" /\ failure = "none" /\ audit' = audit
  BY DEF GuardReads, GuardFrames, GuardInputEnds, Tale, Use
<1>2. Told(FALSE) = Opening /\ (audit = "none" \/ events = Opening)
  BY <1>1, ToldIs DEF Tale
<1>3. forwarded = Selected(LetThrough)
  BY DEF Tale
<1>4. CASE /\ UNCHANGED <<lines, forwarded, failed, events>>
           /\ \/ failure' = "none" /\ gpc' = "relay"
              \/ failure' = "truncated_message" /\ gpc' = "diagnose"
  <2>1. Told(FALSE)' = Opening
    <3>1. Opening' = Opening
      BY <1>4, OpeningIs
    <3>2. Told(FALSE)' = (Opening' \o << >>) \o << >>
      BY <1>4 DEF Told
    <3>3. Opening \in Seq(Events)
      BY ToldIs
    <3>4. \A s \in Seq(Events) : s \o << >> = s
      BY ConcatEmptySeq
    <3> QED BY ONLY <3>1, <3>2, <3>3, <3>4
  <2>2. Selected(LetThrough)' = Selected(LetThrough)
    BY <1>4, SelectedOf
  <2> QED BY <1>1, <1>2, <1>3, <1>4, <2>1, <2>2 DEF Tale
<1>5. CASE GuardReads
  BY <1>1, <1>4, <1>5 DEF GuardReads, Feed, guard, sink
<1>6. CASE GuardInputEnds
  BY <1>1, <1>4, <1>6 DEF GuardInputEnds, FinishTruncated, FinishClean, Fails, framer, sink
<1>7. CASE GuardFrames
  <2>1. CASE Keep /\ UNCHANGED <<gpc, forwarded, sink>>
    BY <1>1, <1>4, <2>1 DEF Keep, sink
  <2>2. CASE Reject /\ Audit("too_large") /\ gpc' = "diagnose" /\ UNCHANGED forwarded
    <3>1. failure' = "message_too_large" /\ lines' = lines
      BY <2>2 DEF Reject, Fails
    <3>2. Opening' = Opening /\ Selected(LetThrough)' = Selected(LetThrough)
      BY <3>1, OpeningIs, SelectedOf
    <3>3. audit = "none" \/ events' = Append(Opening, "too_large")
      BY <1>2, <2>2, AuditTells
    <3>4. Told(FALSE)' = Append(Opening, "too_large")
      <4>1. Told(FALSE)' = (Opening' \o <<"too_large">>) \o << >>
        BY <3>1 DEF Told
      <4>2. Opening \in Seq(Events)
        BY ToldIs
      <4>3. /\ \A s \in Seq(Events) : s \o << >> = s
            /\ \A s \in Seq(Events) : Append(s, "too_large") = s \o <<"too_large">>
            /\ \A s \in Seq(Events) : Append(s, "too_large") \in Seq(Events)
        BY DoctorAssumption, ConcatEmptySeq, AppendIsConcat, AppendProperties
      <4> QED BY ONLY <3>2, <4>1, <4>2, <4>3
    <3> QED BY <1>1, <1>3, <2>2, <3>1, <3>2, <3>3, <3>4 DEF Tale
  <2>3. ASSUME NEW i \in DOMAIN chunk, Emit(i), Handle(MessageOf(LineTo(i))), UNCHANGED gpc
        PROVE  Tale'
    <3>1. LineTo(i) \in Seq(Bytes)
      <4>1. buffer \in Seq(Bytes) /\ chunk \in Seq(Bytes)
        BY DEF FramerInv, FramerTypeOK
      <4>2. i \in 1..Len(chunk)
        BY <4>1, LenProperties
      <4>3. SubSeq(chunk, 1, i - 1) \in Seq(Bytes)
        BY <4>1, <4>2, SplitAt
      <4> QED BY <4>1, <4>3, ConcatProperties DEF LineTo
    <3> DEFINE line == LineTo(i)
               message == MessageOf(line)
    <3>2. lines' = Append(lines, line) /\ failure' = failure
      BY <2>3 DEF Emit
    <3>3. /\ Opening' = IF message \in Recorded THEN Append(Opening, message) ELSE Opening
          /\ Selected(LetThrough)' = IF message \in LetThrough
                                     THEN Append(Selected(LetThrough), message)
                                     ELSE Selected(LetThrough)
      BY <3>1, <3>2, OpeningIs, SelectedOf
    <3>4. Told(FALSE)' = Opening'
      <4>1. Told(FALSE)' = (Opening' \o << >>) \o << >>
        BY <1>1, <3>2 DEF Told
      <4>2. Opening' \in Seq(Events)
        <5>1. Opening \in Seq(Events) /\ Recorded \subseteq Events
          BY ToldIs, DoctorAssumption DEF Recorded
        <5>2. message \in Recorded => Append(Opening, message) \in Seq(Events)
          BY <5>1, AppendProperties
        <5> QED BY <3>3, <5>1, <5>2
      <4>3. \A s \in Seq(Events) : s \o << >> = s
        BY ConcatEmptySeq
      <4> QED BY ONLY <4>1, <4>2, <4>3
    <3>5. forwarded' = IF message \in LetThrough THEN Append(forwarded, message) ELSE forwarded
      BY <2>3 DEF Handle
    <3>6. audit = "none"
          \/ events' = IF message \in Recorded THEN Append(events, message) ELSE events
      BY <2>3, AuditTells DEF Handle, sink
    <3> HIDE DEF message
    <3> QED BY <1>1, <1>2, <1>3, <2>3, <3>2, <3>3, <3>4, <3>5, <3>6 DEF Tale
  <2> QED BY <1>7, <2>1, <2>2, <2>3 DEF GuardFrames
<1> QED BY <1>5, <1>6, <1>7

\* Every step leaves the tale true.
LEMMA TaleStep == DoctorInv /\ Typed /\ Tale /\ [Next]_vars => Tale'
<1> SUFFICES ASSUME DoctorInv, Typed, Tale, [Next]_vars PROVE Tale'
  OBVIOUS
<1>0. FramerInv
  BY DEF DoctorInv
<1>1. CASE /\ UNCHANGED <<lines, failure, events, failed, forwarded, audit, gpc, gstatus>>
           /\ UNCHANGED complaints \/ gpc # "exited"
  BY <1>0, <1>1, TaleStays
<1>2. CASE UNCHANGED vars
  BY <1>1, <1>2 DEF vars, framer, sink, guard
<1>3. CASE Guard
  <2>1. CASE GuardRelays \/ GuardObeys \/ GuardKills \/ GuardComplains
    BY <1>1, <2>1 DEF GuardRelays, GuardObeys, GuardKills, GuardComplains, Complain, Use, guard,
                      framer, sink
  <2> QED BY <1>0, <1>3, <2>1, LinesAreTold, SessionIsTold DEF Guard
<1>4. CASE DoctorSteps \/ DeadlinePasses
  <2>1. CASE \/ DoctorStarts \/ DoctorReads("initAnswer", "init") \/ DoctorReads("listAnswer", "list")
             \/ DoctorStopsWaiting \/ DoctorConcludes \/ DeadlinePasses
    BY <1>1, <2>1 DEF DoctorStarts, DoctorReads, DoctorStopsWaiting, DoctorConcludes,
                      DeadlinePasses, DoctorOnly, Use, guard, framer, sink
  <2>2. ASSUME NEW at, NEW message, NEW next, DoctorSends(at, message, next) PROVE Tale'
    BY <1>1, <2>2 DEF DoctorSends, DoctorOnly, Use, guard, framer, sink
  <2> QED BY <1>0, <1>4, <2>1, <2>2, SessionIsTold DEF DoctorSteps
<1>5. CASE Server
  BY <1>1, <1>5 DEF Server, ServerReads, ServerAnswers, ServerNotifies, ServerComplains, ServerExits,
                    Still, Use, guard, framer, sink
<1>6. CASE ClientCloses \/ \E byte \in ClientBytes : ClientSends(byte)
  BY <1>1, <1>6 DEF ClientCloses, ClientSends, Use, guard, framer, sink
<1>7. CASE SessionAgain
  <2>1. /\ gpc' = "exec" /\ forwarded' = << >> /\ lines' = << >> /\ events' = << >>
        /\ failure' = "none" /\ failed' = FALSE
    BY <1>7 DEF SessionAgain, NextSession, FramerAgain
  <2>2. Selected(LetThrough)' = << >>
    <3>1. DOMAIN << >> = {}
      OBVIOUS
    <3>2. Messages' = << >>
      BY <2>1, <3>1 DEF Messages
    <3> QED BY <3>2, SelectEmpty DEF Selected
  <2> QED BY <2>1, <2>2 DEF Tale, Untold
<1> QED BY <1>2, <1>3, <1>4, <1>5, <1>6, <1>7 DEF Next, Other

\* Tale holds throughout.
LEMMA TaleHolds == Spec => []Tale
<1>1. Init => Tale
  <2> SUFFICES ASSUME Init PROVE Tale
    OBVIOUS
  <2>1. /\ gpc = "exec" /\ forwarded = << >> /\ lines = << >> /\ events = << >>
        /\ failure = "none" /\ failed = FALSE
    BY DEF Init, FramerInit, SinkInit
  <2>2. Selected(LetThrough) = << >>
    BY <2>1, FramerInitInv, SelectedOf DEF Init
  <2> QED BY <2>1, <2>2 DEF Tale, Untold
<1> QED BY <1>1, TaleStep, TypedHolds, DoctorInvHolds, PTL DEF Spec

\* Spec keeps AuditTellsTheSession: whatever the client sends and the file or
\* the stderr pipe does, the sink is given the start of the session, what was
\* decided of each line in its order, a line beyond the limit and the end; the
\* server is given what the filter lets through whether or not any of it could
\* be written; and a write that failed was reported, once, unless a signal
\* ended the guard.
THEOREM SessionIsAudited == Spec => []AuditTellsTheSession
<1>1. DoctorInv /\ Typed /\ Tale => AuditTellsTheSession
  <2> SUFFICES ASSUME DoctorInv, Typed, Tale PROVE AuditTellsTheSession
    OBVIOUS
  <2>1. TrailIsAPrefix /\ forwarded = Selected(LetThrough)
    BY DEF DoctorInv, SinkInv, Tale
  <2>2. gpc = "exited" /\ failed => complaints = 1 \/ gstatus = 143
    BY DEF Tale
  <2>3. \/ audit = "none"
        \/ events = << >> /\ lines = << >> /\ gpc \in {"exec", "spawned", "exited", "killed"}
        \/ \E ended \in BOOLEAN : /\ gpc # "killed" => ended = (gpc \in {"closing", "exited"})
                                 /\ events = Told(ended)
    <3>1. CASE gpc \in {"exec", "spawned"}
      BY <3>1 DEF Tale, Untold
    <3>2. CASE gpc \in {"relay", "diagnose", "ending"}
      <4>1. gpc \notin {"closing", "exited"} /\ (audit = "none" \/ events = Told(FALSE))
        BY <3>2 DEF Tale
      <4>2. FALSE = (gpc \in {"closing", "exited"})
        BY <4>1
      <4> QED BY <4>1, <4>2, Zenon
    <3>3. CASE gpc \in {"closing", "exited"}
      BY <3>3 DEF Tale, Untold
    <3>4. CASE gpc = "killed"
      BY <3>4 DEF Tale, Untold
    <3> QED BY <3>1, <3>2, <3>3, <3>4 DEF Typed
  <2> QED BY <2>1, <2>2, <2>3, Zenon DEF AuditTellsTheSession, Told, Opening
<1> QED BY <1>1, TaleHolds, TypedHolds, DoctorInvHolds, PTL

------------------------------------------------------------------------------
(* The script of doctor                                                     *)

\* What doctor sends, byte by byte, and how much of it is on its way or handled.
Script == <<"init", NL, "note", NL, "list", NL>>
Total == 2 * Len(forwarded) + Len(buffer) + Len(chunk) + Len(toGuard)

\* What the guard has handled, what it holds and what is in the pipe are the
\* script, as far as doctor has come; and it has met no line it cannot frame.
OnScript ==
    /\ failure = "none" /\ gpc # "diagnose"
    /\ Total \in {0, 2, 4, 6}
    /\ dpc \in {"start", "init"} => Total = 0
    /\ dpc \in {"initAnswer", "note"} => Total = 2
    /\ dpc = "list" => Total = 4
    /\ \A n \in 1..Len(forwarded) : forwarded[n] = Script[2 * n - 1]
    /\ \A n \in 1..Len(buffer) : buffer[n] = Script[2 * Len(forwarded) + n]
    /\ \A n \in 1..Len(chunk) : chunk[n] = Script[2 * Len(forwarded) + Len(buffer) + n]
    /\ \A n \in 1..Len(toGuard) :
          toGuard[n] = Script[2 * Len(forwarded) + Len(buffer) + Len(chunk) + n]

\* The types OnScript relies on.
Sequenced ==
    /\ forwarded \in Seq(LetThrough) /\ toGuard \in Seq(Bytes)
    /\ chunk \in Seq(Bytes) /\ buffer \in Seq(Bytes)
    /\ \A j \in 1..Len(buffer) : buffer[j] # NL

\* Every second byte of the script is a newline.
LEMMA ScriptIs ==
    /\ Script[1] = "init" /\ Script[3] = "note" /\ Script[5] = "list"
    /\ \A n \in {2, 4, 6} : Script[n] = NL
    /\ \A n \in {1, 3, 5} : Script[n] # NL /\ Script[n] \in LetThrough \ Recorded
BY DoctorAssumption DEF Script, LetThrough, Recorded

\* Lengths are numbers, and places are what they count.
LEMMA Lengths ==
    ASSUME Sequenced
    PROVE  /\ Len(forwarded) \in Nat /\ Len(buffer) \in Nat /\ Len(chunk) \in Nat
           /\ Len(toGuard) \in Nat /\ DOMAIN chunk = 1..Len(chunk)
BY LenProperties DEF Sequenced

\* A line of the script is one message, and it ends within two bytes.
LEMMA LineOfScript ==
    ASSUME Sequenced, OnScript, NEW i \in DOMAIN chunk, FirstNewline(i)
    PROVE  /\ Len(buffer) + i = 2 /\ 2 * Len(forwarded) + 2 <= Total
           /\ MessageOf(LineTo(i)) = Script[2 * Len(forwarded) + 1]
<1> DEFINE f == Len(forwarded)
           b == Len(buffer)
           c == Len(chunk)
           g == Len(toGuard)
<1>1. f \in Nat /\ b \in Nat /\ c \in Nat /\ g \in Nat /\ i \in 1..c
  BY Lengths
<1>2. Total = 2 * f + b + c + g /\ Total \in {0, 2, 4, 6}
  BY DEF OnScript, Total
<1>3. chunk[i] = Script[2 * f + b + i] /\ chunk[i] = NL
  BY <1>1 DEF OnScript, FirstNewline
<1> HIDE DEF f, b, c, g
<1>4. 2 * f + b + i \in 1..6
  BY <1>1, <1>2
<1>5. 2 * f + b + i \in {2, 4, 6}
  <2> DEFINE p == 2 * f + b + i
  <2>1. p \in 1..6 /\ Script[p] = NL
    BY <1>3, <1>4
  <2> HIDE DEF p
  <2>2. p \in {1, 3, 5} \/ p \in {2, 4, 6}
    BY <2>1
  <2>3. p \in {2, 4, 6}
    BY <2>1, <2>2, ScriptIs
  <2> QED BY <2>3 DEF p
<1>6. ~(b >= 2)
  <2> SUFFICES ASSUME b >= 2 PROVE FALSE
    OBVIOUS
  <2>1. 2 \in 1..b /\ 2 * f + 2 \in {2, 4, 6}
    BY <1>1, <1>4, <1>5
  <2>2. buffer[2] = Script[2 * f + 2] /\ buffer[2] # NL
    BY <2>1 DEF OnScript, Sequenced, f, b
  <2> QED BY <2>1, <2>2, ScriptIs
<1>7. ~(b + i > 2)
  <2> SUFFICES ASSUME b + i > 2 PROVE FALSE
    OBVIOUS
  <2>1. 2 - b \in 1..(i - 1) /\ 2 - b \in 1..c /\ 2 * f + 2 \in {2, 4, 6} /\ 2 * f + b + (2 - b) = 2 * f + 2
    BY <1>1, <1>4, <1>5, <1>6
  <2>2. chunk[2 - b] = Script[2 * f + b + (2 - b)]
    BY <2>1 DEF OnScript, f, b, c
  <2>3. chunk[2 - b] # NL
    BY <2>1 DEF FirstNewline
  <2> QED BY <2>1, <2>2, <2>3, ScriptIs
<1>8. b + i = 2 /\ 2 * f + 2 <= Total
  BY <1>1, <1>2, <1>4, <1>5, <1>7
<1>9. Len(LineTo(i)) = 1 /\ LineTo(i)[1] = Script[2 * f + 1]
  <2> DEFINE part == SubSeq(chunk, 1, i - 1)
  <2>1. part \in Seq(Bytes) /\ Len(part) = i - 1 /\ \A j \in 1..(i - 1) : part[j] = chunk[j]
    <3>1. chunk \in Seq(Bytes) /\ i \in 1..Len(chunk)
      BY <1>1 DEF Sequenced, c
    <3> QED BY <3>1, SplitAt
  <2> HIDE DEF part
  <2>2. /\ Len(buffer \o part) = b + (i - 1)
        /\ \A j \in 1..(b + (i - 1)) : (buffer \o part)[j] = IF j <= b THEN buffer[j] ELSE part[j - b]
    <3>1. buffer \in Seq(Bytes)
      BY DEF Sequenced
    <3>2. /\ Len(buffer \o part) = Len(buffer) + Len(part)
          /\ \A j \in 1..(Len(buffer) + Len(part)) :
                (buffer \o part)[j] = IF j <= Len(buffer) THEN buffer[j] ELSE part[j - Len(buffer)]
      BY <2>1, <3>1, ConcatProperties
    <3> QED BY <2>1, <3>2 DEF b
  <2>3. LineTo(i) = buffer \o part
    BY DEF LineTo, part
  <2>4. CASE b = 0
    <3>1. i = 2 /\ 1 \in 1..c
      BY <1>1, <1>8, <2>4
    <3>2. (buffer \o part)[1] = chunk[1] /\ Len(buffer \o part) = 1
      BY <2>1, <2>2, <2>4, <3>1
    <3>3. chunk[1] = Script[2 * f + b + 1]
      BY <3>1 DEF OnScript, f, b, c
    <3>4. 2 * f + b + 1 = 2 * f + 1
      BY <1>1, <2>4
    <3> QED BY <2>3, <3>2, <3>3, <3>4
  <2>5. CASE b = 1
    <3>1. i = 1 /\ 1 \in 1..b
      BY <1>1, <1>8, <2>5
    <3>2. (buffer \o part)[1] = buffer[1] /\ Len(buffer \o part) = 1
      BY <2>1, <2>2, <2>5, <3>1
    <3>3. buffer[1] = Script[2 * f + 1]
      BY <3>1 DEF OnScript, f, b
    <3> QED BY <2>3, <3>2, <3>3
  <2> QED BY <1>1, <1>8, <2>4, <2>5
<1> QED BY <1>8, <1>9 DEF MessageOf, f, b

\* No byte of the script is refused: a line is never too long, nor cut short.
LEMMA NothingIsRefused ==
    ASSUME Sequenced, OnScript
    PROVE  /\ ~Reject
           /\ ~(chunk = << >> /\ toGuard = << >> /\ FinishTruncated)
<1> DEFINE f == Len(forwarded)
           b == Len(buffer)
           c == Len(chunk)
           g == Len(toGuard)
<1>1. f \in Nat /\ b \in Nat /\ c \in Nat /\ g \in Nat /\ DOMAIN chunk = 1..c
  BY Lengths
<1>2. Total = 2 * f + b + c + g /\ Total \in {0, 2, 4, 6} /\ MaxMessage \in Nat \ {0}
  BY FramerAssumption DEF OnScript, Total
<1>3. ASSUME NEW i \in DOMAIN chunk, FirstNewline(i) PROVE ~(b + i - 1 > MaxMessage)
  <2>1. b + i = 2
    BY <1>3, LineOfScript
  <2> QED BY <1>1, <1>2, <2>1
<1>4. \A n \in 1..b : buffer[n] = Script[2 * f + n] /\ buffer[n] # NL
  BY DEF OnScript, Sequenced
<1>5. \A n \in 1..c : chunk[n] = Script[2 * f + b + n]
  BY DEF OnScript
<1> HIDE DEF f, b, c, g
<1>6. ~(b >= 2)
  <2> SUFFICES ASSUME b >= 2 PROVE FALSE
    OBVIOUS
  <2>1. 2 \in 1..b /\ 2 * f + 2 \in {2, 4, 6}
    BY <1>1, <1>2
  <2> QED BY <1>4, <2>1, ScriptIs
<1>7. ASSUME NoNewline PROVE ~(b + c > MaxMessage)
  <2> SUFFICES ASSUME b + c > MaxMessage PROVE FALSE
    OBVIOUS
  <2>1. 2 - b \in 1..c /\ 2 * f + b + (2 - b) \in {2, 4, 6}
    BY <1>1, <1>2, <1>6
  <2>2. chunk[2 - b] = Script[2 * f + b + (2 - b)] /\ chunk[2 - b] # NL
    BY <1>1, <1>5, <1>7, <2>1 DEF NoNewline
  <2> QED BY <2>1, <2>2, ScriptIs
<1>8. ~Reject
  BY <1>3, <1>7 DEF Reject, b, c
<1>9. ASSUME chunk = << >>, toGuard = << >>, buffer # << >> PROVE FALSE
  <2>1. c = 0 /\ g = 0
    BY <1>9, EmptySeq DEF c, g
  <2>2. b # 0
    BY <1>9, EmptySeq DEF b, Sequenced
  <2> QED BY <1>1, <1>2, <1>6, <2>1, <2>2
<1> QED BY <1>8, <1>9 DEF FinishTruncated

\* The script is followed as long as no byte moves.
LEMMA ScriptStays ==
    ASSUME OnScript, UNCHANGED <<forwarded, buffer, chunk, toGuard, failure>>, gpc' # "diagnose",
           \/ dpc' = dpc \/ dpc' \in {"shutdown", "terminate", "grace", "done"}
           \/ dpc = "start" /\ dpc' = "init"
           \/ dpc = "initAnswer" /\ dpc' = "note"
    PROVE  OnScript'
<1>1. Total' = Total
  BY DEF Total
<1> QED BY <1>1 DEF OnScript

\* A chunk is taken from the pipe.
LEMMA ChunkOfScript ==
    ASSUME Sequenced, OnScript, GuardReads
    PROVE  OnScript'
<1> DEFINE f == Len(forwarded)
           b == Len(buffer)
           g == Len(toGuard)
<1>1. f \in Nat /\ b \in Nat /\ g \in Nat
  BY Lengths
<1>2. PICK n \in 1..Len(toGuard) : /\ Feed(SubSeq(toGuard, 1, n))
                                   /\ toGuard' = SubSeq(toGuard, n + 1, Len(toGuard))
  BY DEF GuardReads
<1>3. /\ chunk = << >> /\ chunk' = SubSeq(toGuard, 1, n)
      /\ UNCHANGED <<forwarded, buffer, failure, gpc, dpc>> /\ Len(chunk) = 0
  <2>1. chunk = << >> /\ chunk' = SubSeq(toGuard, 1, n) /\ UNCHANGED <<buffer, failure>>
    BY <1>2 DEF Feed
  <2> QED BY <2>1, EmptySeq DEF GuardReads, guard, doctor
<1>4. /\ Len(chunk') = n /\ \A j \in 1..n : chunk'[j] = toGuard[j]
      /\ Len(toGuard') = g - n /\ \A j \in 1..(g - n) : toGuard'[j] = toGuard[n + j]
  <2>1. n \in 1..g /\ \A j \in 1..g : toGuard[j] \in Bytes
    BY <1>2, ElementOfSeq DEF Sequenced
  <2> HIDE DEF g
  <2>2. (\A j \in 1..n : toGuard[j] \in Bytes) /\ (\A j \in (n + 1)..g : toGuard[j] \in Bytes)
    BY <1>1, <2>1
  <2>3. n \in Int /\ 1 \in Int /\ n + 1 \in Int /\ g \in Int
    BY <1>1, <2>1
  <2>4. /\ Len(SubSeq(toGuard, 1, n)) = IF 1 <= n THEN n - 1 + 1 ELSE 0
        /\ \A j \in 1..(n - 1 + 1) : SubSeq(toGuard, 1, n)[j] = toGuard[1 + j - 1]
    BY <2>2, <2>3, SubSeqProperties
  <2>5. /\ Len(SubSeq(toGuard, n + 1, g)) = IF n + 1 <= g THEN g - (n + 1) + 1 ELSE 0
        /\ \A j \in 1..(g - (n + 1) + 1) : SubSeq(toGuard, n + 1, g)[j] = toGuard[(n + 1) + j - 1]
    BY <2>2, <2>3, SubSeqProperties
  <2>6. toGuard' = SubSeq(toGuard, n + 1, g)
    BY <1>2 DEF g
  <2> QED BY <1>1, <1>3, <2>1, <2>4, <2>5, <2>6
<1>5. Total' = Total
  BY <1>1, <1>3, <1>4 DEF Total
<1>6. /\ \A j \in 1..b : buffer[j] = Script[2 * f + j]
      /\ \A j \in 1..g : toGuard[j] = Script[2 * f + b + j]
  <2>1. 2 * f + b + Len(chunk) = 2 * f + b
    BY <1>1, <1>3
  <2>2. \A j \in 1..g : toGuard[j] = Script[2 * f + b + Len(chunk) + j]
    BY DEF OnScript
  <2> QED BY <2>1, <2>2 DEF OnScript
<1>7. n \in 1..g /\ Len(forwarded') = f /\ Len(buffer') = b
  BY <1>2, <1>3
<1> HIDE DEF f, b, g
<1>8. \A j \in 1..Len(chunk') : chunk'[j] = Script[2 * Len(forwarded') + Len(buffer') + j]
  <2> SUFFICES ASSUME NEW j \in 1..n PROVE chunk'[j] = Script[2 * f + b + j]
    BY <1>4, <1>7
  <2>1. j \in 1..g
    BY <1>1, <1>7
  <2> QED BY <1>4, <1>6, <2>1
<1>9. \A j \in 1..Len(toGuard') :
         toGuard'[j] = Script[2 * Len(forwarded') + Len(buffer') + Len(chunk') + j]
  <2> SUFFICES ASSUME NEW j \in 1..(g - n)
               PROVE  toGuard'[j] = Script[2 * f + b + n + j]
    BY <1>4, <1>7
  <2>1. n + j \in 1..g /\ 2 * f + b + (n + j) = 2 * f + b + n + j
    BY <1>1, <1>7
  <2> QED BY <1>4, <1>6, <2>1
<1> QED BY <1>3, <1>5, <1>8, <1>9 DEF OnScript

\* A line is handled: it is the next message of the script, it goes to the
\* server, and nothing of it is recorded.
LEMMA LineIsForwarded ==
    ASSUME Sequenced, OnScript, NEW i \in DOMAIN chunk, Emit(i), Handle(MessageOf(LineTo(i)))
    PROVE  /\ Script[2 * Len(forwarded) + 1] \in LetThrough
           /\ forwarded' = Append(forwarded, Script[2 * Len(forwarded) + 1])
           /\ toServer' = Append(toServer, Script[2 * Len(forwarded) + 1])
<1>1. /\ 2 * Len(forwarded) + 2 <= Total
      /\ MessageOf(LineTo(i)) = Script[2 * Len(forwarded) + 1]
  BY LineOfScript DEF Emit
<1>2. 2 * Len(forwarded) + 1 \in {1, 3, 5}
  BY <1>1, Lengths DEF OnScript
<1> DEFINE m == Script[2 * Len(forwarded) + 1]
<1>3. m \in LetThrough
  BY <1>2, ScriptIs
<1>4. Handle(m)
  BY <1>1
<1> HIDE DEF m
<1>5. forwarded' = Append(forwarded, m) /\ toServer' = Append(toServer, m)
  BY <1>3, <1>4 DEF Handle
<1> QED BY <1>3, <1>5 DEF m

\* What is left behind that line is still the script.
LEMMA RestOfScript ==
    ASSUME Sequenced, OnScript, NEW i \in DOMAIN chunk, Emit(i), Handle(MessageOf(LineTo(i))),
           UNCHANGED <<gpc, dpc, toGuard>>
    PROVE  OnScript'
<1> DEFINE f == Len(forwarded)
           b == Len(buffer)
           c == Len(chunk)
           g == Len(toGuard)
<1>1. f \in Nat /\ b \in Nat /\ c \in Nat /\ g \in Nat /\ i \in 1..c
  BY Lengths
<1>2. b + i = 2 /\ 2 * f + 2 <= Total /\ Total = 2 * f + b + c + g
  BY LineOfScript DEF Emit, Total
<1>3. /\ Len(forwarded') = f + 1 /\ forwarded'[f + 1] = Script[2 * f + 1]
      /\ \A n \in 1..f : forwarded'[n] = forwarded[n]
  <2> DEFINE m == Script[2 * f + 1]
  <2>1. forwarded' = Append(forwarded, m) /\ m \in LetThrough
    BY LineIsForwarded
  <2>2. forwarded \in Seq(LetThrough)
    BY DEF Sequenced
  <2> HIDE DEF m
  <2>3. /\ Len(Append(forwarded, m)) = Len(forwarded) + 1
        /\ \A n \in 1..Len(forwarded) : Append(forwarded, m)[n] = forwarded[n]
        /\ Append(forwarded, m)[Len(forwarded) + 1] = m
    BY <2>1, <2>2, AppendProperties
  <2> QED BY <2>1, <2>3 DEF m
<1>4. buffer' = << >> /\ Len(buffer') = 0 /\ failure' = failure
  BY EmptySeq DEF Emit
<1>5. Len(chunk') = c - i /\ \A n \in 1..(c - i) : chunk'[n] = chunk[i + n]
  <2>1. \A j \in 1..c : chunk[j] \in Bytes
    BY ElementOfSeq DEF Sequenced
  <2>2. chunk' = SubSeq(chunk, i + 1, c)
    BY DEF Emit
  <2> HIDE DEF c
  <2>3. (\A j \in (i + 1)..c : chunk[j] \in Bytes) /\ i + 1 \in Int /\ c \in Int
    BY <1>1, <2>1
  <2>4. /\ Len(SubSeq(chunk, i + 1, c)) = IF i + 1 <= c THEN c - (i + 1) + 1 ELSE 0
        /\ \A j \in 1..(c - (i + 1) + 1) : SubSeq(chunk, i + 1, c)[j] = chunk[(i + 1) + j - 1]
    BY <2>3, SubSeqProperties
  <2>5. c - (i + 1) + 1 = c - i /\ (i + 1 <= c \/ c - i = 0) /\ \A n \in 1..(c - i) : (i + 1) + n - 1 = i + n
    BY <1>1
  <2> QED BY ONLY <2>2, <2>4, <2>5
<1>6. \A n \in 1..f : forwarded[n] = Script[2 * n - 1]
  BY DEF OnScript
<1>7. /\ \A n \in 1..c : chunk[n] = Script[2 * f + b + n]
      /\ \A n \in 1..g : toGuard[n] = Script[2 * f + b + c + n]
  BY DEF OnScript
<1>8. Len(toGuard') = g /\ toGuard' = toGuard
  OBVIOUS
<1>9. Total' = 2 * (f + 1) + 0 + (c - i) + g
  BY <1>3, <1>4, <1>5 DEF Total
<1> HIDE DEF f, b, c, g
<1>10. Total' = Total
  BY <1>1, <1>2, <1>9
<1>11. \A n \in 1..Len(forwarded') : forwarded'[n] = Script[2 * n - 1]
  <2> SUFFICES ASSUME NEW n \in 1..(f + 1) PROVE forwarded'[n] = Script[2 * n - 1]
    BY <1>3
  <2>1. CASE n = f + 1
    <3>1. 2 * n - 1 = 2 * f + 1
      BY <1>1, <2>1
    <3> QED BY <1>3, <2>1, <3>1
  <2>2. CASE n \in 1..f
    BY <1>3, <1>6, <2>2
  <2> QED BY <1>1, <2>1, <2>2
<1>12. \A n \in 1..Len(chunk') : chunk'[n] = Script[2 * Len(forwarded') + Len(buffer') + n]
  <2> SUFFICES ASSUME NEW n \in 1..(c - i) PROVE chunk'[n] = Script[2 * (f + 1) + 0 + n]
    BY <1>3, <1>4, <1>5
  <2>1. i + n \in 1..c /\ 2 * f + b + (i + n) = 2 * (f + 1) + 0 + n
    BY <1>1, <1>2
  <2> QED BY <1>5, <1>7, <2>1
<1>13. \A n \in 1..Len(toGuard') :
          toGuard'[n] = Script[2 * Len(forwarded') + Len(buffer') + Len(chunk') + n]
  <2> SUFFICES ASSUME NEW n \in 1..g PROVE toGuard[n] = Script[2 * (f + 1) + 0 + (c - i) + n]
    BY <1>3, <1>4, <1>5, <1>8
  <2>1. 2 * f + b + c + n = 2 * (f + 1) + 0 + (c - i) + n
    BY <1>1, <1>2
  <2> QED BY <1>7, <2>1
<1>14. \A n \in 1..Len(buffer') : buffer'[n] = Script[2 * Len(forwarded') + n]
  BY <1>4
<1> QED BY <1>4, <1>10, <1>11, <1>12, <1>13, <1>14 DEF OnScript

\* The beginning of a line is kept.
LEMMA BeginningOfScript ==
    ASSUME Sequenced, OnScript, Keep, UNCHANGED <<gpc, dpc, forwarded, toGuard>>
    PROVE  OnScript'
<1> DEFINE f == Len(forwarded)
           b == Len(buffer)
           c == Len(chunk)
           g == Len(toGuard)
<1>1. f \in Nat /\ b \in Nat /\ c \in Nat /\ g \in Nat
  BY Lengths
<1>2. /\ chunk' = << >> /\ Len(chunk') = 0 /\ buffer' = buffer \o chunk /\ failure' = failure
      /\ UNCHANGED <<forwarded, toGuard>>
  BY EmptySeq DEF Keep
<1>3. /\ Len(buffer') = b + c
      /\ \A n \in 1..(b + c) : buffer'[n] = IF n <= b THEN buffer[n] ELSE chunk[n - b]
  BY <1>2, ConcatProperties DEF Sequenced
<1>4. /\ \A n \in 1..b : buffer[n] = Script[2 * f + n]
      /\ \A n \in 1..c : chunk[n] = Script[2 * f + b + n]
      /\ \A n \in 1..g : toGuard[n] = Script[2 * f + b + c + n]
  BY DEF OnScript
<1>5. Total' = Total /\ Len(forwarded') = f /\ Len(toGuard') = g
  BY <1>1, <1>2, <1>3 DEF Total
<1> HIDE DEF f, b, c, g
<1>6. \A n \in 1..Len(buffer') : buffer'[n] = Script[2 * Len(forwarded') + n]
  <2> SUFFICES ASSUME NEW n \in 1..(b + c) PROVE buffer'[n] = Script[2 * f + n]
    BY <1>3, <1>5
  <2>1. CASE n <= b
    BY <1>1, <1>3, <1>4, <2>1
  <2>2. CASE ~(n <= b)
    <3>1. n - b \in 1..c /\ 2 * f + b + (n - b) = 2 * f + n
      BY <1>1, <2>2
    <3> QED BY <1>3, <1>4, <2>2, <3>1
  <2> QED BY <2>1, <2>2
<1>7. \A n \in 1..Len(toGuard') :
         toGuard'[n] = Script[2 * Len(forwarded') + Len(buffer') + Len(chunk') + n]
  <2> SUFFICES ASSUME NEW n \in 1..g PROVE toGuard[n] = Script[2 * f + (b + c) + 0 + n]
    BY <1>2, <1>3, <1>5
  <2>1. 2 * f + b + c + n = 2 * f + (b + c) + 0 + n
    BY <1>1
  <2> QED BY <1>4, <2>1
<1>8. /\ failure' = "none" /\ gpc' # "diagnose"
      /\ Total' \in {0, 2, 4, 6}
      /\ dpc' \in {"start", "init"} => Total' = 0
      /\ dpc' \in {"initAnswer", "note"} => Total' = 2
      /\ dpc' = "list" => Total' = 4
  BY <1>2, <1>5 DEF OnScript
<1>9. \A n \in 1..Len(forwarded') : forwarded'[n] = Script[2 * n - 1]
  BY <1>2 DEF OnScript
<1>10. \A n \in 1..Len(chunk') : chunk'[n] = Script[2 * Len(forwarded') + Len(buffer') + n]
  BY <1>2
<1> QED BY ONLY <1>6, <1>7, <1>8, <1>9, <1>10 DEF OnScript

\* Doctor sends the next message of the script.
LEMMA NextOfScript ==
    ASSUME Sequenced, OnScript, NEW at, NEW message \in Bytes, NEW next,
           DoctorSends(at, message, next),
           \/ at = "init" /\ message = "init" /\ next = "initAnswer"
           \/ at = "note" /\ message = "note" /\ next = "list"
           \/ at = "list" /\ message = "list" /\ next = "listAnswer"
    PROVE  OnScript'
<1>1. CASE GuardGone /\ dpc' = "done" /\ UNCHANGED toGuard
  BY <1>1, ScriptStays DEF DoctorSends, DoctorOnly, guard, framer, GuardGone
<1>2. CASE toGuard' = toGuard \o <<message, NL>> /\ dpc' = next
  <2> DEFINE f == Len(forwarded)
             b == Len(buffer)
             c == Len(chunk)
             g == Len(toGuard)
             base == 2 * f + b + c
  <2>1. f \in Nat /\ b \in Nat /\ c \in Nat /\ g \in Nat
    BY Lengths
  <2>2. UNCHANGED <<forwarded, buffer, chunk, failure, gpc>>
    BY <1>2 DEF DoctorSends, DoctorOnly, guard, framer
  <2>3. /\ Len(toGuard') = g + 2
        /\ \A n \in 1..(g + 2) : toGuard'[n] = IF n <= g THEN toGuard[n] ELSE <<message, NL>>[n - g]
    <3>1. <<message, NL>> \in Seq(Bytes) /\ Len(<<message, NL>>) = 2
      BY FramerAssumption
    <3>2. toGuard \in Seq(Bytes)
      BY DEF Sequenced
    <3> DEFINE two == <<message, NL>>
    <3> HIDE DEF two
    <3>3. two \in Seq(Bytes) /\ Len(two) = 2
      BY <3>1 DEF two
    <3>4. /\ Len(toGuard \o two) = Len(toGuard) + Len(two)
          /\ \A n \in 1..(Len(toGuard) + Len(two)) :
                (toGuard \o two)[n] = IF n <= Len(toGuard) THEN toGuard[n] ELSE two[n - Len(toGuard)]
      BY <3>2, <3>3, ConcatProperties
    <3> QED BY <1>2, <3>3, <3>4 DEF two
  <2>4. \A n \in 1..g : toGuard[n] = Script[base + n]
    BY DEF OnScript
  <2>5. base + g = Total /\ Total' = base + (g + 2)
    BY <2>2, <2>3 DEF Total
  <2>6. /\ Total \in {0, 2, 4}
        /\ Script[Total + 1] = message /\ Script[Total + 2] = NL
        /\ next = "initAnswer" => Total = 0
        /\ next = "list" => Total = 2
    BY ScriptIs DEF DoctorSends, OnScript
  <2>7. dpc' \in {"initAnswer", "list", "listAnswer"} /\ dpc' = next
    BY <1>2
  <2>8. base \in Nat /\ \A n \in 1..c : chunk[n] = Script[2 * f + b + n]
    BY <2>1 DEF OnScript
  <2> HIDE DEF base, g
  <2>9. Total' = Total + 2
    BY <2>1, <2>5, <2>8
  <2>10. \A n \in 1..(g + 2) : toGuard'[n] = Script[base + n]
    <3> SUFFICES ASSUME NEW n \in 1..(g + 2) PROVE toGuard'[n] = Script[base + n]
      OBVIOUS
    <3>1. CASE n \in 1..g
      BY <2>1, <2>3, <2>4, <3>1
    <3>2. CASE n = g + 1
      <4>1. ~(n <= g) /\ n - g = 1
        BY <2>1, <3>2
      <4>2. base + n = Total + 1
        BY <2>1, <2>5, <2>8, <3>2
      <4> QED BY <2>3, <2>6, <4>1, <4>2
    <3>3. CASE n = g + 2
      <4>1. ~(n <= g) /\ n - g = 2
        BY <2>1, <3>3
      <4>2. base + n = Total + 2
        BY <2>1, <2>5, <2>8, <3>3
      <4> QED BY <2>3, <2>6, <4>1, <4>2
    <3> QED BY <2>1, <3>1, <3>2, <3>3
  <2>11. \A n \in 1..Len(toGuard') :
            toGuard'[n] = Script[2 * Len(forwarded') + Len(buffer') + Len(chunk') + n]
    BY <2>2, <2>3, <2>10 DEF base
  <2>12. /\ Total' \in {0, 2, 4, 6}
         /\ dpc' \notin {"start", "init", "note"}
         /\ dpc' = "initAnswer" => Total' = 2
         /\ dpc' = "list" => Total' = 4
    BY <2>6, <2>7, <2>9
  <2> QED BY <2>2, <2>11, <2>12 DEF OnScript
<1> QED BY <1>1, <1>2 DEF DoctorSends

\* What is forwarded, cut and piped are sequences.
LEMMA SequencedHolds == ASSUME DoctorInv, Tale PROVE Sequenced
<1>1. FramerInv /\ toGuard \in Seq(Bytes)
  BY DEF DoctorInv
<1>2. forwarded \in Seq(LetThrough)
  BY <1>1, SelectedOf DEF Tale
<1>3. chunk \in Seq(Bytes) /\ buffer \in Seq(Bytes) /\ \A j \in DOMAIN buffer : buffer[j] # NL
  BY <1>1 DEF FramerInv, FramerTypeOK, LinesAreTheStream
<1>4. DOMAIN buffer = 1..Len(buffer)
  BY <1>3, LenProperties
<1> QED BY <1>1, <1>2, <1>3, <1>4 DEF Sequenced

\* Every step of a session with doctor follows the script.
LEMMA ScriptStep ==
    ASSUME Sequenced, OnScript, client = "doctor", Next
    PROVE  OnScript'
<1>1. CASE GuardFrames
  <2>1. UNCHANGED <<dpc, toGuard>>
    BY <1>1 DEF GuardFrames, doctor, pipes
  <2>2. CASE Keep /\ UNCHANGED <<gpc, forwarded>>
    BY <2>1, <2>2, BeginningOfScript
  <2>3. CASE (\E i \in DOMAIN chunk : Emit(i) /\ Handle(MessageOf(LineTo(i)))) /\ UNCHANGED gpc
    BY <2>1, <2>3, RestOfScript
  <2> QED BY <1>1, <2>2, <2>3, NothingIsRefused DEF GuardFrames
<1>2. CASE GuardInputEnds
  <2>1. FinishClean /\ UNCHANGED <<gpc, dpc, forwarded, toGuard>>
    BY <1>2, NothingIsRefused DEF GuardInputEnds, doctor, pipes
  <2> QED BY <2>1, ScriptStays DEF FinishClean, framer, OnScript
<1>3. CASE GuardRefuses \/ GuardSpawns \/ GuardStarts \/ GuardRelays \/ GuardObeys \/ GuardKills
           \/ GuardReaps \/ GuardGivesUp \/ GuardEnds \/ GuardExits \/ GuardComplains
  <2>1. UNCHANGED <<dpc, forwarded, toGuard, framer>>
    BY <1>3 DEF GuardRefuses, GuardSpawns, GuardStarts, GuardRelays, GuardObeys, GuardKills, GuardReaps,
                GuardGivesUp, GuardEnds, GuardExits, GuardComplains, doctor, guard, pipes
  <2>2. gpc' = gpc \/ gpc' # "diagnose"
    BY <1>3 DEF GuardRefuses, GuardSpawns, GuardStarts, GuardRelays, GuardObeys, GuardKills, GuardReaps,
                GuardGivesUp, GuardEnds, GuardExits, GuardComplains, guard
  <2> QED BY <2>1, <2>2, ScriptStays DEF framer, OnScript
<1>4. CASE GuardReads
  BY <1>4, ChunkOfScript
<1>5. CASE \/ DoctorStarts \/ DoctorReads("initAnswer", "init") \/ DoctorReads("listAnswer", "list")
           \/ DoctorStopsWaiting \/ DoctorConcludes \/ DeadlinePasses
  <2>1. UNCHANGED <<toGuard, guard, framer>>
    BY <1>5 DEF DoctorStarts, DoctorReads, DoctorStopsWaiting, DoctorConcludes, DeadlinePasses,
                DoctorOnly, pipes
  <2>2. \/ dpc' = dpc \/ dpc' \in {"shutdown", "terminate", "done"}
        \/ dpc = "start" /\ dpc' = "init"
        \/ dpc = "initAnswer" /\ dpc' = "note"
    BY <1>5 DEF DoctorStarts, DoctorReads, DoctorStopsWaiting, DoctorConcludes, DeadlinePasses, GivesUp
  <2> QED BY <2>1, <2>2, ScriptStays DEF framer, guard, OnScript
<1>6. CASE DoctorTerminates \/ DoctorReaps
  <2>1. UNCHANGED <<toGuard, forwarded, framer>> /\ dpc' \in {"grace", "done"}
    BY <1>6 DEF DoctorTerminates, DoctorReaps, DoctorOnly, pipes
  <2>2. gpc' = gpc \/ gpc' \in {"exited", "killed"}
    BY <1>6 DEF DoctorTerminates, DoctorReaps
  <2> QED BY <2>1, <2>2, ScriptStays DEF framer, OnScript
<1>7. CASE \/ DoctorSends("init", "init", "initAnswer") \/ DoctorSends("note", "note", "list")
           \/ DoctorSends("list", "list", "listAnswer")
  BY <1>7, DoctorAssumption, NextOfScript
<1>8. CASE Server
  <2>1. UNCHANGED <<doctor, guard, pipes, framer>>
    BY <1>8 DEF Server, ServerReads, ServerAnswers, ServerNotifies, ServerComplains, ServerExits, Still
  <2> QED BY <2>1, ScriptStays DEF doctor, guard, pipes, framer, OnScript
<1>9. ~Other
  BY DEF Other, ClientCloses, ClientSends, SessionAgain
<1> QED BY <1>1, <1>2, <1>3, <1>4, <1>5, <1>6, <1>7, <1>8, <1>9 DEF Next, Guard, DoctorSteps

------------------------------------------------------------------------------
(* The answers                                                              *)

\* What the server has been given, and what doctor may read.
Said == {forwarded[n] : n \in 1..Len(forwarded)}
Notice == [id |-> "note", kind |-> "good"]
Known == {Newline, Notice} \cup answers

\* The server is owed nothing and answers nothing but what was forwarded; what
\* comes back to doctor is those answers, notices and newlines.
Heard ==
    /\ toServer \in Seq(Said) /\ owed \in Said \cup {"none"}
    /\ answers \subseteq [id : Said, kind : Answers]
    /\ fromServer \in Seq(Known) /\ toDoctor \in Seq(Known) /\ pending \in Seq(Known)
    /\ dpc = "shutdown" => \E kind \in Answers : [id |-> "list", kind |-> kind] \in answers

\* An answer that is not good.
BadAnswer == \E a \in answers : a.kind # "good"

\* Steps that move no message.
LEMMA HeardStays ==
    ASSUME Heard, UNCHANGED <<toServer, owed, answers, forwarded, fromServer, toDoctor, pending>>,
           dpc' = "shutdown" => dpc = "shutdown"
    PROVE  Heard'
BY DEF Heard, Said, Known, Notice, Newline

\* The text doctor has left when it has looked for a newline.
LEMMA BehindIsKnown ==
    ASSUME NEW X, NEW text \in Seq(X)
    PROVE  Behind(text) \in Seq(X)
<1> DEFINE ends == {i \in DOMAIN text : text[i] = Newline}
           last == IF ends = {} THEN 0 ELSE CHOOSE i \in ends : \A j \in ends : j <= i
<1>1. /\ Len(text) \in Nat /\ DOMAIN text = 1..Len(text)
      /\ \A i \in 1..Len(text) : text[i] \in X
  BY LenProperties, ElementOfSeq
<1>2. last \in Nat
  <2>1. CASE ends = {}
    BY <2>1
  <2>2. CASE ends # {}
    <3> DEFINE T == {m \in Nat : \A j \in ends : j <= m}
    <3>1. ends \subseteq 1..Len(text)
      BY <1>1
    <3> HIDE DEF ends
    <3>2. T \subseteq Nat /\ Len(text) \in T
      BY <1>1, <3>1
    <3>3. PICK m \in T : \A k \in T : m <= k
      <4> HIDE DEF T
      <4> QED BY <3>2, Least
    <3>4. m \in ends
      <4> SUFFICES ASSUME m \notin ends PROVE FALSE
        OBVIOUS
      <4>1. m \in Nat /\ \A j \in ends : j \in Nat /\ j >= 1 /\ j <= m /\ j # m
        BY <1>1, <2>2, <3>1, <3>3
      <4>2. m - 1 \in T
        BY <2>2, <4>1
      <4> QED BY <3>3, <4>1, <4>2
    <3>5. \E i \in ends : \A j \in ends : j <= i
      BY <3>3, <3>4
    <3>6. last \in ends
      BY <2>2, <3>5
    <3> HIDE DEF last
    <3>7. last \in 1..Len(text)
      BY <3>1, <3>6
    <3> QED BY <1>1, <3>7
  <2> QED BY <2>1, <2>2
<1> HIDE DEF last
<1>3. SubSeq(text, last + 1, Len(text)) \in Seq(X)
  <2>1. last + 1 \in Int /\ Len(text) \in Int /\ \A i \in (last + 1)..Len(text) : text[i] \in X
    BY <1>1, <1>2
  <2> QED BY <2>1, SubSeqProperties
<1>4. Behind(text) = SubSeq(text, last + 1, Len(text))
  BY DEF Behind, last
<1> QED BY <1>3, <1>4

\* Doctor reads: what it keeps it knows; it gives up because of an answer that
\* is not good, and goes on because of one with the id it waits for.
LEMMA DoctorReadsAnswers ==
    ASSUME Heard, NEW at, NEW id \in {"init", "list"}, DoctorReads(at, id)
    PROVE  /\ pending' \in Seq(Known) /\ toDoctor' \in Seq(Known)
           /\ \/ UNCHANGED <<dpc, verdict, toGuardOpen>>
              \/ GivesUp /\ BadAnswer
              \/ /\ dpc' = IF at = "initAnswer" THEN "note" ELSE "shutdown"
                 /\ toGuardOpen' = (at = "initAnswer") /\ UNCHANGED verdict
                 /\ \E kind \in Answers : [id |-> id, kind |-> kind] \in answers
<1>1. pending \in Seq(Known) /\ toDoctor \in Seq(Known) /\ answers \subseteq [id : Said, kind : Answers]
  BY DEF Heard
<1>2. PICK n \in 1..Len(toDoctor) :
        LET text  == pending \o SubSeq(toDoctor, 1, n)
            found == Matches(text, id)
            first == CHOOSE i \in found : \A j \in found : i <= j
        IN  /\ toDoctor' = SubSeq(toDoctor, n + 1, Len(toDoctor))
            /\ \/ /\ \E i \in DOMAIN text : text[i].kind = "huge"
                  /\ GivesUp /\ UNCHANGED pending
               \/ /\ \A i \in DOMAIN text : text[i].kind # "huge"
                  /\ found = {}
                  /\ pending' = Behind(text)
                  /\ UNCHANGED <<dpc, verdict, toGuardOpen>>
               \/ /\ \A i \in DOMAIN text : text[i].kind # "huge"
                  /\ found # {}
                  /\ pending' = << >>
                  /\ \/ ~Passes(at, text[first].kind) /\ GivesUp
                     \/ /\ Passes(at, text[first].kind)
                        /\ dpc' = IF at = "initAnswer" THEN "note" ELSE "shutdown"
                        /\ toGuardOpen' = (at = "initAnswer")
                        /\ UNCHANGED verdict
  BY DEF DoctorReads
<1> DEFINE text  == pending \o SubSeq(toDoctor, 1, n)
           found == Matches(text, id)
           first == CHOOSE i \in found : \A j \in found : i <= j
<1>3. text \in Seq(Known) /\ SubSeq(toDoctor, n + 1, Len(toDoctor)) \in Seq(Known)
  <2>1. Len(toDoctor) \in Nat /\ \A j \in 1..Len(toDoctor) : toDoctor[j] \in Known
    BY <1>1, LenProperties, ElementOfSeq
  <2>2. /\ n \in Int /\ n + 1 \in Int /\ Len(toDoctor) \in Int /\ 1 \in Int
        /\ \A j \in 1..n : toDoctor[j] \in Known
        /\ \A j \in (n + 1)..Len(toDoctor) : toDoctor[j] \in Known
    BY <2>1
  <2>3. SubSeq(toDoctor, 1, n) \in Seq(Known) /\ SubSeq(toDoctor, n + 1, Len(toDoctor)) \in Seq(Known)
    BY <2>2, SubSeqProperties
  <2> QED BY <1>1, <2>3, ConcatProperties
<1>4. toDoctor' = SubSeq(toDoctor, n + 1, Len(toDoctor))
  BY <1>2
<1> HIDE DEF text
<1>5. /\ DOMAIN text = 1..Len(text) /\ Len(text) \in Nat
      /\ \A i \in DOMAIN text : text[i] \in Known
  BY <1>3, LenProperties, ElementOfSeq
<1>6. ASSUME NEW i \in DOMAIN text, text[i].kind # "good" PROVE BadAnswer
  <2>1. text[i] \in answers
    BY <1>5, <1>6 DEF Known, Newline, Notice
  <2> QED BY <1>6, <2>1 DEF BadAnswer
<1>7. CASE /\ \E i \in DOMAIN text : text[i].kind = "huge"
           /\ GivesUp /\ UNCHANGED pending
  BY <1>1, <1>3, <1>4, <1>6, <1>7
<1>8. CASE pending' = Behind(text) /\ UNCHANGED <<dpc, verdict, toGuardOpen>>
  BY <1>3, <1>4, <1>8, BehindIsKnown
<1>9. CASE /\ found # {} /\ pending' = << >>
           /\ \/ ~Passes(at, text[first].kind) /\ GivesUp
              \/ /\ dpc' = IF at = "initAnswer" THEN "note" ELSE "shutdown"
                 /\ toGuardOpen' = (at = "initAnswer") /\ UNCHANGED verdict
  <2>1. first \in DOMAIN text /\ text[first].id = id
    <3>1. found \subseteq Nat /\ \A i \in found : i \in DOMAIN text /\ text[i].id = id
      BY <1>5 DEF Matches
    <3> HIDE DEF found
    <3>2. \E i \in found : \A j \in found : i <= j
      BY <1>9, <3>1, Least
    <3>3. first \in found
      BY <3>2
    <3> QED BY <3>1, <3>3
  <2> HIDE DEF first
  <2>2. text[first] \in Known
    BY <1>5, <2>1
  <2>3. text[first] \in answers
    BY <2>1, <2>2 DEF Known, Newline, Notice
  <2>4. \E kind \in Answers : [id |-> id, kind |-> kind] \in answers
    <3>1. text[first] \in [id : Said, kind : Answers]
      BY <1>1, <2>3
    <3>2. text[first] = [id |-> id, kind |-> text[first].kind] /\ text[first].kind \in Answers
      BY <2>1, <3>1
    <3> QED BY <2>3, <3>2
  <2>5. ~Passes(at, text[first].kind) => text[first].kind # "good"
    BY DEF Passes
  <2>6. << >> \in Seq(Known)
    BY EmptySeq
  <2> QED BY <1>3, <1>4, <1>6, <1>9, <2>1, <2>4, <2>5, <2>6
<1> QED BY <1>2, <1>7, <1>8, <1>9 DEF text

\* A sequence whose elements are still among those it may have.
LEMMA StillIn ==
    ASSUME NEW A, NEW B, A \subseteq B PROVE Seq(A) \subseteq Seq(B)
BY SeqMonotonic

\* Every step of a session with doctor leaves Heard true.
LEMMA HeardStep ==
    ASSUME Sequenced, OnScript, Heard, client = "doctor", Next
    PROVE  Heard'
<1>1. CASE GuardFrames
  <2>1. UNCHANGED <<owed, answers, fromServer, toDoctor, pending, dpc>>
    BY <1>1 DEF GuardFrames, doctor, pipes
  <2>2. CASE UNCHANGED <<forwarded, toServer>>
    BY <2>1, <2>2, HeardStays
  <2>3. ASSUME NEW i \in DOMAIN chunk, Emit(i), Handle(MessageOf(LineTo(i))) PROVE Heard'
    <3> DEFINE m == Script[2 * Len(forwarded) + 1]
    <3>1. m \in LetThrough /\ forwarded' = Append(forwarded, m) /\ toServer' = Append(toServer, m)
      BY <2>3, LineIsForwarded
    <3> HIDE DEF m
    <3>2. forwarded \in Seq(LetThrough) /\ Len(forwarded) \in Nat
      BY LenProperties DEF Sequenced
    <3>3. /\ Len(forwarded') = Len(forwarded) + 1
          /\ \A n \in 1..Len(forwarded) : forwarded'[n] = forwarded[n]
          /\ forwarded'[Len(forwarded) + 1] = m
      BY <3>1, <3>2, AppendProperties
    <3>4. Said \subseteq Said' /\ m \in Said'
      <4>1. /\ Len(forwarded) + 1 \in 1..Len(forwarded')
            /\ \A n \in 1..Len(forwarded) : n \in 1..Len(forwarded')
        BY <3>2, <3>3
      <4>2. m \in Said'
        BY <3>3, <4>1 DEF Said
      <4>3. Said \subseteq Said'
        BY <3>3, <4>1 DEF Said
      <4> QED BY <4>2, <4>3
    <3>5. toServer' \in Seq(Said')
      <4>1. toServer \in Seq(Said')
        BY <3>4, StillIn DEF Heard
      <4> QED BY <3>1, <3>4, <4>1, AppendProperties
    <3>6. Known' = Known
      BY <2>1 DEF Known, Newline, Notice
    <3>7. owed' \in Said' \cup {"none"} /\ answers' \subseteq [id : Said', kind : Answers]
      BY <2>1, <3>4 DEF Heard
    <3> QED BY <2>1, <3>5, <3>6, <3>7 DEF Heard
  <2> QED BY <1>1, <2>2, <2>3 DEF GuardFrames
<1>2. CASE GuardRelays
  <2>1. /\ UNCHANGED <<toServer, owed, answers, forwarded, pending, dpc>>
        /\ fromServer # << >> /\ fromServer' = Tail(fromServer)
        /\ toDoctor' = toDoctor \o <<Head(fromServer), Newline>>
    BY <1>2 DEF GuardRelays, guard, doctor
  <2>2. Known' = Known /\ Said' = Said
    BY <2>1 DEF Known, Newline, Notice, Said
  <2>3. fromServer \in Seq(Known) /\ toDoctor \in Seq(Known) /\ Newline \in Known
    BY DEF Heard, Known
  <2>4. Head(fromServer) \in Known /\ Tail(fromServer) \in Seq(Known)
    BY <2>1, <2>3, HeadTailProperties
  <2> DEFINE two == <<Head(fromServer), Newline>>
  <2>5. two \in Seq(Known)
    BY <2>3, <2>4
  <2> HIDE DEF two
  <2>6. toDoctor \o two \in Seq(Known)
    BY <2>3, <2>5, ConcatProperties
  <2> QED BY <2>1, <2>2, <2>4, <2>6 DEF Heard, two
<1>3. ASSUME NEW at \in {"initAnswer", "listAnswer"}, NEW id \in {"init", "list"},
             at = "initAnswer" <=> id = "init", DoctorReads(at, id)
      PROVE  Heard'
  <2>1. UNCHANGED <<toServer, owed, answers, forwarded, fromServer>>
    BY <1>3 DEF DoctorReads, DoctorOnly, peer, guard
  <2>2. Known' = Known /\ Said' = Said
    BY <2>1 DEF Known, Newline, Notice, Said
  <2>3. dpc = at
    BY <1>3 DEF DoctorReads
  <2>4. pending' \in Seq(Known) /\ toDoctor' \in Seq(Known)
    BY <1>3, DoctorReadsAnswers
  <2>5. dpc' = "shutdown" => \E kind \in Answers : [id |-> "list", kind |-> kind] \in answers
    BY <1>3, <2>3, DoctorReadsAnswers DEF GivesUp
  <2> QED BY <2>1, <2>2, <2>4, <2>5 DEF Heard
<1>4. CASE ServerReads
  <2>1. /\ UNCHANGED <<answers, forwarded, fromServer, toDoctor, pending, dpc>>
        /\ toServer # << >> /\ toServer' = Tail(toServer)
        /\ owed' \in {"none"} \cup ({Head(toServer)} \cap {"init", "list"})
    BY <1>4 DEF ServerReads, Still, guard, doctor, pipes
  <2>2. Known' = Known /\ Said' = Said
    BY <2>1 DEF Known, Newline, Notice, Said
  <2>3. Head(toServer) \in Said /\ Tail(toServer) \in Seq(Said)
    BY <2>1, HeadTailProperties DEF Heard
  <2> QED BY <2>1, <2>2, <2>3 DEF Heard
<1>5. ASSUME NEW kind \in Answers, ServerAnswers(kind) PROVE Heard'
  <2> DEFINE answer == [id |-> owed, kind |-> kind]
  <2>1. /\ UNCHANGED <<toServer, forwarded, toDoctor, pending, dpc>>
        /\ owed # "none" /\ owed' = "none"
        /\ fromServer' = Append(fromServer, answer) /\ answers' = answers \cup {answer}
    BY <1>5 DEF ServerAnswers, Still, guard, doctor, pipes
  <2>2. Said' = Said /\ answer \in [id : Said, kind : Answers]
    BY <2>1 DEF Said, Heard
  <2> HIDE DEF answer
  <2>3. Known \subseteq Known' /\ answer \in Known'
    BY <2>1 DEF Known, Newline, Notice
  <2>4. fromServer \in Seq(Known') /\ toDoctor \in Seq(Known') /\ pending \in Seq(Known')
    BY <2>3, StillIn DEF Heard
  <2>5. Append(fromServer, answer) \in Seq(Known')
    BY <2>3, <2>4, AppendProperties
  <2> QED BY <2>1, <2>2, <2>4, <2>5 DEF Heard
<1>6. CASE ServerNotifies
  <2>1. /\ UNCHANGED <<toServer, owed, answers, forwarded, toDoctor, pending, dpc>>
        /\ fromServer' = Append(fromServer, Notice)
    BY <1>6 DEF ServerNotifies, Still, guard, doctor, pipes, Notice
  <2>2. Known' = Known /\ Said' = Said /\ Notice \in Known
    BY <2>1 DEF Known, Newline, Notice, Said
  <2>3. Append(fromServer, Notice) \in Seq(Known)
    BY <2>2, AppendProperties DEF Heard
  <2> QED BY <2>1, <2>2, <2>3 DEF Heard
<1>7. CASE \/ GuardRefuses \/ GuardSpawns \/ GuardStarts \/ GuardReads \/ GuardInputEnds \/ GuardObeys
           \/ GuardKills \/ GuardReaps \/ GuardGivesUp \/ GuardEnds \/ GuardExits \/ GuardComplains
  <2>1. UNCHANGED <<toServer, owed, answers, forwarded, fromServer, toDoctor, pending, dpc>>
    BY <1>7 DEF GuardRefuses, GuardSpawns, GuardStarts, GuardReads, GuardInputEnds, GuardObeys, GuardKills,
                GuardReaps, GuardGivesUp, GuardEnds, GuardExits, GuardComplains, doctor, guard, pipes, peer
  <2> QED BY <2>1, HeardStays
<1>8. CASE DoctorStarts \/ DoctorStopsWaiting \/ DoctorConcludes \/ DoctorTerminates \/ DoctorReaps
           \/ DeadlinePasses
  <2>1. /\ UNCHANGED <<toServer, owed, answers, forwarded, fromServer, toDoctor, pending>>
        /\ dpc' = "shutdown" => dpc = "shutdown"
    BY <1>8 DEF DoctorStarts, DoctorStopsWaiting, DoctorConcludes, DoctorTerminates, DoctorReaps,
                DeadlinePasses, DoctorOnly, GivesUp, guard, pipes, peer
  <2> QED BY <2>1, HeardStays
<1>9. CASE \/ DoctorSends("init", "init", "initAnswer") \/ DoctorSends("note", "note", "list")
           \/ DoctorSends("list", "list", "listAnswer")
  <2>1. /\ UNCHANGED <<toServer, owed, answers, forwarded, fromServer, toDoctor, pending>>
        /\ dpc' = "shutdown" => dpc = "shutdown"
    BY <1>9 DEF DoctorSends, DoctorOnly, guard, peer
  <2> QED BY <2>1, HeardStays
<1>10. CASE ServerComplains \/ \E status \in {0, 7} : ServerExits(status)
  <2>1. UNCHANGED <<toServer, owed, answers, forwarded, fromServer, toDoctor, pending, dpc>>
    BY <1>10 DEF ServerComplains, ServerExits, Still, guard, doctor, pipes, peer
  <2> QED BY <2>1, HeardStays
<1>11. ~Other
  BY DEF Other, ClientCloses, ClientSends, SessionAgain
<1> QED BY <1>1, <1>2, <1>3, <1>4, <1>5, <1>6, <1>7, <1>8, <1>9, <1>10, <1>11
        DEF Next, Guard, DoctorSteps, Server

------------------------------------------------------------------------------
(* The verdict                                                              *)

Waiting == {"start", "init", "initAnswer", "note", "list", "listAnswer"}

\* What may make a session fail that is not doctor's doing.
Cause ==
    \/ server = "none" /\ GuardGone
    \/ quit \/ sstatus # 0 \/ deadline
    \/ BadAnswer

\* How far doctor, guard and server have come with one another.
Progress ==
    /\ dpc \in Waiting \cup {"shutdown"} => verdict = "none" /\ ~terminationSignal
    /\ dpc \in Waiting => toGuardOpen
    /\ dpc \in {"terminate", "grace"} => verdict = "unhealthy" /\ Cause
    /\ ~terminationSignal => ~sentTermination
    /\ gpc = "exec" => server = "none"
    /\ gpc \in {"spawned", "relay", "ending", "closing"} => server # "none"
    /\ gpc = "exited" /\ server = "none" => gstatus # 0
    /\ quit \/ sstatus # 0 => server \in {"zombie", "reaped"}
    /\ dpc \in Waiting \cup {"shutdown"} /\ gpc \in {"ending", "closing", "exited"} /\ server # "none"
          => gstatus = sstatus
    /\ dpc \in Waiting => /\ server = "running" => toServerOpen
                          /\ server \in {"zombie", "reaped"} => quit

\* The guard ends the session only because its server has ended, and with the
\* status of the server while no signal was sent.
LEMMA GuardProgresses ==
    ASSUME Typed, Supervised, OnScript, Sequenced, Progress, client = "doctor", Guard
    PROVE  Progress'
<1>1. UNCHANGED <<dpc, verdict, deadline, terminationSignal, toGuardOpen, answers, quit>>
  BY DEF Guard, GuardRefuses, GuardSpawns, GuardStarts, GuardReads, GuardFrames, GuardInputEnds,
         GuardRelays, GuardObeys, GuardKills, GuardReaps, GuardGivesUp, GuardEnds, GuardExits,
         GuardComplains, doctor, guard, pipes, peer
<1>2. gpc \notin {"exited", "killed", "diagnose"}
  BY DEF OnScript, Guard, GuardRefuses, GuardSpawns, GuardStarts, GuardReads, GuardFrames,
         GuardInputEnds, GuardRelays, GuardObeys, GuardKills, GuardReaps, GuardGivesUp, GuardEnds,
         GuardExits, GuardComplains
<1>3. Cause = (quit \/ sstatus # 0 \/ deadline \/ BadAnswer) /\ BadAnswer' = BadAnswer
  BY <1>1, <1>2 DEF Cause, GuardGone, BadAnswer
<1>4. CASE GuardRefuses
  <2>1. /\ gpc = "exec" /\ gpc' = "exited" /\ gstatus' # 0
        /\ UNCHANGED <<server, sstatus, toServerOpen, sentTermination>>
    BY <1>4 DEF GuardRefuses, peer
  <2> QED BY <1>1, <1>3, <2>1 DEF Progress, Cause
<1>5. CASE GuardSpawns
  <2>1. /\ gpc = "exec" /\ gpc' = "spawned" /\ server' = "running" /\ toServerOpen' = TRUE
        /\ UNCHANGED <<gstatus, sstatus, sentTermination>>
    BY <1>5 DEF GuardSpawns
  <2> QED BY <1>1, <1>3, <2>1 DEF Progress, Cause
<1>6. CASE GuardStarts \/ GuardReads \/ GuardFrames \/ GuardRelays \/ GuardComplains
  <2>1. UNCHANGED <<server, sstatus, toServerOpen, sentTermination, gstatus>>
    BY <1>6 DEF GuardStarts, GuardReads, GuardFrames, GuardRelays, GuardComplains, guard, peer
  <2>2. gpc' = gpc \/ (gpc = "spawned" /\ gpc' = "relay")
    BY <1>6, NothingIsRefused
       DEF GuardStarts, GuardReads, GuardFrames, GuardRelays, GuardComplains, guard
  <2> QED BY <1>1, <1>3, <2>1, <2>2 DEF Progress, Cause
<1>7. CASE GuardInputEnds
  <2>1. gpc = "relay" /\ gpc' = gpc /\ ~toGuardOpen
        /\ UNCHANGED <<server, sstatus, sentTermination, gstatus>>
    BY <1>7, NothingIsRefused DEF GuardInputEnds
  <2>2. dpc \notin Waiting
    BY <2>1 DEF Progress
  <2> QED BY <1>1, <1>3, <2>1, <2>2 DEF Progress, Cause
<1>8. CASE GuardObeys \/ GuardKills
  <2>1. /\ gpc = "relay" /\ gpc' = gpc /\ terminationSignal /\ server = "running"
        /\ gstatus' = gstatus /\ server' \in {"running", "zombie"}
        /\ (server' = "running" /\ sstatus' = sstatus) \/ (server' = "zombie" /\ sstatus' = 137)
    BY <1>8 DEF GuardObeys, GuardKills, Progress, guard
  <2>2. dpc \notin Waiting \cup {"shutdown"}
    BY <2>1 DEF Progress
  <2> QED BY <1>1, <1>3, <2>1, <2>2 DEF Progress, Cause
<1>9. CASE GuardReaps
  <2>1. /\ gpc' = "ending" /\ server = "zombie" /\ server' = "reaped"
        /\ UNCHANGED <<sstatus, toServerOpen, sentTermination>>
        /\ gstatus' = IF terminationSignal THEN 143 ELSE sstatus
    BY <1>9 DEF GuardReaps
  <2> QED BY <1>1, <1>3, <2>1 DEF Progress, Cause
<1>10. CASE GuardEnds \/ GuardExits
  <2>1. /\ gpc \in {"ending", "closing"} /\ gpc' \in {"closing", "exited"}
        /\ UNCHANGED <<server, sstatus, toServerOpen, sentTermination, gstatus>>
    BY <1>10 DEF GuardEnds, GuardExits, peer
  <2> QED BY <1>1, <1>3, <2>1 DEF Progress, Cause
<1>11. ~GuardGivesUp
  BY <1>2 DEF GuardGivesUp
<1> QED BY <1>4, <1>5, <1>6, <1>7, <1>8, <1>9, <1>10, <1>11 DEF Guard

\* A guard that is gone while doctor waits had no server, or one that left.
LEMMA GoneForACause ==
    ASSUME Typed, Supervised, Progress, dpc # "done", GuardGone
    PROVE  /\ gpc = "exited" /\ (dpc \in Waiting => Cause)
           /\ dpc = "shutdown" /\ gstatus # 0 => Cause
           /\ dpc = "shutdown" /\ gstatus = 0 => server = "reaped" /\ sstatus = 0
<1>1. gpc = "exited" /\ server \in {"none", "reaped"}
  BY DEF Supervised, GuardGone, Typed
<1> QED BY <1>1 DEF Progress, Cause, GuardGone

\* Doctor goes on as it is answered, and gives up for a cause.
LEMMA DoctorProgresses ==
    ASSUME Typed, Supervised, Heard, Progress, DoctorSteps \/ DeadlinePasses
    PROVE  Progress'
<1>1. UNCHANGED <<server, sstatus, toServerOpen, quit, answers, sentTermination>>
      /\ BadAnswer' = BadAnswer
  BY DEF DoctorSteps, DeadlinePasses, DoctorStarts, DoctorSends, DoctorReads, DoctorStopsWaiting,
         DoctorConcludes, DoctorTerminates, DoctorReaps, DoctorOnly, guard, peer, BadAnswer
<1>2. CASE DoctorStarts
  <2>1. dpc = "start" /\ dpc' = "init" /\ UNCHANGED <<verdict, deadline, toGuardOpen, guard>>
    BY <1>2 DEF DoctorStarts, pipes
  <2> QED BY <1>1, <2>1 DEF Progress, Cause, Waiting, guard
<1>3. ASSUME NEW at \in Waiting, NEW message, NEW next \in Waiting, DoctorSends(at, message, next)
      PROVE  Progress'
  <2>1. /\ dpc \in Waiting /\ dpc' \in Waiting \cup {"done"}
        /\ UNCHANGED <<verdict, deadline, toGuardOpen, guard>>
    BY <1>3 DEF DoctorSends
  <2> QED BY <1>1, <2>1 DEF Progress, Cause, Waiting, guard
<1>4. ASSUME NEW at \in {"initAnswer", "listAnswer"}, NEW id \in {"init", "list"}, DoctorReads(at, id)
      PROVE  Progress'
  <2>1. dpc = at /\ dpc \in Waiting /\ UNCHANGED <<deadline, guard>>
    BY <1>4 DEF DoctorReads, Waiting
  <2>2. \/ UNCHANGED <<dpc, verdict, toGuardOpen>>
        \/ GivesUp /\ BadAnswer
        \/ /\ dpc' = IF at = "initAnswer" THEN "note" ELSE "shutdown"
           /\ toGuardOpen' = (at = "initAnswer") /\ UNCHANGED verdict
    BY <1>4, DoctorReadsAnswers
  <2>3. CASE UNCHANGED <<dpc, verdict, toGuardOpen>>
    BY <1>1, <2>1, <2>3 DEF Progress, Cause, guard, GuardGone
  <2>4. CASE GivesUp /\ BadAnswer
    BY <1>1, <2>1, <2>4 DEF Progress, Cause, guard, GuardGone, GivesUp, Waiting
  <2>5. CASE /\ dpc' = IF at = "initAnswer" THEN "note" ELSE "shutdown"
             /\ toGuardOpen' = (at = "initAnswer") /\ UNCHANGED verdict
    <3>1. dpc' = "shutdown" \/ (dpc' = "note" /\ toGuardOpen')
      BY <2>5
    <3> QED BY <1>1, <2>1, <2>5, <3>1 DEF Progress, guard, Waiting
  <2> QED BY <2>2, <2>3, <2>4, <2>5
<1>5. CASE DoctorStopsWaiting
  <2>1. dpc \in Waiting /\ GivesUp /\ UNCHANGED <<deadline, guard>> /\ (GuardGone \/ deadline)
    BY <1>5 DEF DoctorStopsWaiting, Waiting
  <2>2. Cause
    BY <2>1, GoneForACause DEF Cause, Waiting
  <2>3. Cause'
    BY <1>1, <2>1, <2>2 DEF Cause, GuardGone, guard
  <2> QED BY <1>1, <2>1, <2>3 DEF Progress, GivesUp, guard, Waiting
<1>6. CASE DoctorConcludes
  <2>1. /\ dpc = "shutdown" /\ UNCHANGED <<deadline, guard>>
        /\ \/ dpc' = "done"
           \/ GivesUp /\ ((GuardGone /\ gstatus # 0) \/ deadline)
    BY <1>6 DEF DoctorConcludes
  <2>2. CASE dpc' = "done"
    BY <1>1, <2>1, <2>2 DEF Progress, guard, Waiting
  <2>3. CASE GivesUp /\ ((GuardGone /\ gstatus # 0) \/ deadline)
    <3>1. Cause
      BY <2>1, <2>3, GoneForACause DEF Cause
    <3>2. Cause'
      BY <1>1, <2>1, <3>1 DEF Cause, GuardGone, guard
    <3> QED BY <1>1, <2>1, <2>3, <3>2 DEF Progress, GivesUp, guard, Waiting
  <2> QED BY <2>1, <2>2, <2>3
<1>7. CASE DoctorTerminates \/ DoctorReaps
  <2>1. /\ dpc \in {"terminate", "grace"} /\ dpc' \in {"grace", "done"}
        /\ UNCHANGED <<verdict, deadline, toGuardOpen>>
    BY <1>7 DEF DoctorTerminates, DoctorReaps, pipes
  <2>2. /\ \/ gpc' = gpc /\ gstatus' = gstatus
           \/ gpc' = "exited" /\ gstatus' = 143
           \/ gpc' = "killed"
        /\ GuardGone => GuardGone'
    BY <1>7 DEF DoctorTerminates, DoctorReaps, GuardGone
  <2>3. ~terminationSignal' => ~terminationSignal
    BY <1>7 DEF DoctorTerminates, DoctorReaps
  <2>4. Cause'
    BY <1>1, <2>1, <2>2 DEF Progress, Cause
  <2> QED BY <1>1, <2>1, <2>2, <2>3, <2>4 DEF Progress, Waiting
<1>8. CASE DeadlinePasses
  <2>1. deadline' = TRUE /\ UNCHANGED <<dpc, verdict, toGuardOpen, guard>>
    BY <1>8 DEF DeadlinePasses, pipes
  <2> QED BY <1>1, <2>1 DEF Progress, Cause, guard
<1> QED BY <1>2, <1>3, <1>4, <1>5, <1>6, <1>7, <1>8 DEF DoctorSteps, Waiting

\* A server that ends while doctor waits has left before the end of its input.
LEMMA ServerProgresses ==
    ASSUME Supervised, Progress, Server
    PROVE  Progress'
<1>1. UNCHANGED <<doctor, guard, toGuardOpen, toServerOpen>> /\ server = "running"
  BY DEF Server, ServerReads, ServerAnswers, ServerNotifies, ServerComplains, ServerExits, Running,
         Still, pipes, peer
<1>2. BadAnswer => BadAnswer'
  BY DEF BadAnswer, Server, ServerReads, ServerAnswers, ServerNotifies, ServerComplains, ServerExits, peer
<1>3. CASE UNCHANGED <<server, sstatus, quit>>
  <2>1. Cause => Cause'
    BY <1>1, <1>2, <1>3 DEF Cause, GuardGone, doctor, guard
  <2> QED BY <1>1, <1>3, <2>1 DEF Progress, doctor, guard
<1>4. ASSUME NEW status \in {0, 7}, ServerExits(status) PROVE Progress'
  <2>1. server' = "zombie" /\ (toServerOpen => quit')
    BY <1>4 DEF ServerExits
  <2>2. Cause => Cause'
    <3>1. ~(quit \/ sstatus # 0)
      BY <1>1 DEF Progress
    <3> QED BY <1>1, <1>2, <3>1 DEF Cause, doctor, guard
  <2>3. gpc \notin {"ending", "closing", "exited"}
    BY <1>1 DEF Supervised
  <2> QED BY <1>1, <2>1, <2>2, <2>3 DEF Progress, doctor, guard
<1> QED BY <1>3, <1>4 DEF Server, ServerReads, ServerAnswers, ServerNotifies, ServerComplains, peer

\* A session with doctor, at every moment of it.
Deserving == client = "doctor" => OnScript /\ Heard /\ Progress

\* Doctor has not started the guard.
LEMMA DeservingInit == Init => Deserving
<1> SUFFICES ASSUME Init, client = "doctor" PROVE OnScript /\ Heard /\ Progress
  BY DEF Deserving
<1>1. /\ forwarded = << >> /\ toGuard = << >> /\ buffer = << >> /\ chunk = << >>
      /\ toServer = << >> /\ fromServer = << >> /\ toDoctor = << >> /\ pending = << >>
      /\ failure = "none" /\ gpc = "exec" /\ dpc = "start" /\ verdict = "none"
      /\ owed = "none" /\ answers = {} /\ server = "none" /\ sstatus = 0 /\ quit = FALSE
      /\ terminationSignal = FALSE /\ sentTermination = FALSE /\ toGuardOpen = TRUE
  BY DEF Init, FramerInit
<1>2. Len(<< >>) = 0 /\ << >> \in Seq(Said) /\ << >> \in Seq(Known)
  BY EmptySeq
<1>3. OnScript
  BY <1>1, <1>2 DEF OnScript, Total
<1>4. Heard
  BY <1>1, <1>2 DEF Heard
<1>5. Progress
  BY <1>1 DEF Progress, Waiting
<1> QED BY <1>3, <1>4, <1>5

\* Every step of the session.
LEMMA DeservingStep ==
    DoctorInv /\ Typed /\ Tale /\ Deserving /\ [Next]_vars => Deserving'
<1> SUFFICES ASSUME DoctorInv, Typed, Tale, Deserving, [Next]_vars, client' = "doctor"
             PROVE  OnScript' /\ Heard' /\ Progress'
  BY DEF Deserving
<1>1. CASE UNCHANGED vars
  <2>1. /\ client' = client
        /\ UNCHANGED <<forwarded, toGuard, buffer, chunk, toServer, fromServer, toDoctor, pending>>
        /\ UNCHANGED <<failure, gpc, dpc, verdict, owed, answers, server, sstatus, quit, gstatus>>
        /\ UNCHANGED <<terminationSignal, sentTermination, toGuardOpen, toServerOpen, deadline>>
    BY <1>1 DEF vars, doctor, guard, pipes, peer, framer
  <2>2. OnScript /\ Heard /\ Progress
    BY <2>1 DEF Deserving
  <2>3. OnScript' /\ Heard'
    BY <2>1, <2>2, ScriptStays, HeardStays DEF OnScript
  <2>4. Progress'
    BY <2>1, <2>2 DEF Progress, Cause, BadAnswer, GuardGone
  <2> QED BY <2>3, <2>4
<1>2. CASE Next
  <2>1. client = "doctor" /\ ~Other
    <3>1. client' = client
      BY <1>2 DEF Next, Guard, GuardRefuses, GuardSpawns, GuardStarts, GuardReads, GuardFrames,
             GuardInputEnds, GuardRelays, GuardObeys, GuardKills, GuardReaps, GuardGivesUp, GuardEnds,
             GuardExits, GuardComplains, DoctorSteps, DeadlinePasses, DoctorStarts, DoctorSends,
             DoctorReads, DoctorStopsWaiting, DoctorConcludes, DoctorTerminates, DoctorReaps, DoctorOnly,
             Server, ServerReads, ServerAnswers, ServerNotifies, ServerComplains, ServerExits, Still,
             Other, ClientCloses, ClientSends, SessionAgain, Use
    <3> QED BY <3>1 DEF Other, ClientCloses, ClientSends, SessionAgain
  <2>2. OnScript /\ Heard /\ Progress /\ Supervised /\ Sequenced
    BY <2>1, SequencedHolds DEF Deserving, DoctorInv
  <2>3. OnScript' /\ Heard'
    BY <1>2, <2>1, <2>2, ScriptStep, HeardStep
  <2>4. Progress'
    BY <1>2, <2>1, <2>2, GuardProgresses, DoctorProgresses, ServerProgresses DEF Next
  <2> QED BY <2>3, <2>4
<1> QED BY <1>1, <1>2

\* All three messages were let through when there is an answer to the last.
LEMMA AllWasSaid ==
    ASSUME Sequenced, OnScript, "list" \in Said
    PROVE  forwarded = <<"init", "note", "list">>
<1>1. Len(forwarded) \in Nat /\ Len(forwarded) <= 3
  BY Lengths DEF OnScript, Total
<1>2. PICK n : n \in 1..Len(forwarded) /\ Script[2 * n - 1] = "list"
  BY DEF Said, OnScript
<1>3. n = 3
  <2>1. n \in {1, 2, 3}
    BY <1>1, <1>2
  <2>2. n # 1
    <3>1. n = 1 => 2 * n - 1 = 1
      OBVIOUS
    <3> QED BY <1>2, <3>1, ScriptIs
  <2>3. n # 2
    <3>1. n = 2 => 2 * n - 1 = 3
      OBVIOUS
    <3> QED BY <1>2, <3>1, ScriptIs
  <2> QED BY <2>1, <2>2, <2>3
<1>4. Len(forwarded) = 3
  <2> DEFINE f == Len(forwarded)
  <2>1. f \in Nat /\ f <= 3 /\ 3 \in 1..f
    BY <1>1, <1>2, <1>3
  <2> HIDE DEF f
  <2>2. f = 3
    BY <2>1
  <2> QED BY <2>2 DEF f
<1>5. forwarded[1] = "init" /\ forwarded[2] = "note" /\ forwarded[3] = "list"
  <2>1. \A j \in 1..3 : forwarded[j] = Script[2 * j - 1]
    BY <1>4 DEF OnScript
  <2>2. forwarded[1] = Script[1]
    BY <2>1
  <2>3. forwarded[2] = Script[3]
    BY <2>1
  <2>4. forwarded[3] = Script[5]
    BY <2>1
  <2> QED BY <2>2, <2>3, <2>4, ScriptIs
<1> DEFINE all == <<"init", "note", "list">>
<1>6. all \in Seq(LetThrough) /\ Len(all) = 3
  <2>1. "init" \in LetThrough /\ "note" \in LetThrough /\ "list" \in LetThrough
    BY DEF LetThrough
  <2> QED BY <2>1
<1>7. forwarded \in Seq(LetThrough) /\ all[1] = "init" /\ all[2] = "note" /\ all[3] = "list"
  BY DEF Sequenced
<1> HIDE DEF all
<1>8. \A j \in 1..3 : forwarded[j] = all[j]
  BY <1>5, <1>7
<1>9. forwarded = all
  BY <1>4, <1>6, <1>7, <1>8, SeqEqual
<1> QED BY <1>9 DEF all

\* Doctor comes to its end with the verdict the session deserves.
LEMMA VerdictStep ==
    DoctorInv /\ Typed /\ Tale /\ Deserving /\ VerdictIsDeserved /\ [Next]_vars => VerdictIsDeserved'
<1> SUFFICES ASSUME DoctorInv, Typed, Tale, Deserving, VerdictIsDeserved, [Next]_vars, dpc' = "done"
             PROVE  VerdictIsDeserved'
  BY DEF VerdictIsDeserved
<1>1. CASE UNCHANGED vars
  BY <1>1 DEF vars, doctor, guard, peer, VerdictIsDeserved
<1>2. CASE Next
  <2>1. DoctorSteps
    <3>1. CASE Guard
      <4>1. dpc' = dpc /\ ~GuardGone
        BY <3>1 DEF Guard, GuardRefuses, GuardSpawns, GuardStarts, GuardReads, GuardFrames,
               GuardInputEnds, GuardRelays, GuardObeys, GuardKills, GuardReaps, GuardGivesUp, GuardEnds,
               GuardExits, GuardComplains, doctor, GuardGone
      <4> QED BY <4>1 DEF DoctorInv, Supervised
    <3>2. CASE Server
      BY <3>2 DEF Server, ServerReads, ServerAnswers, ServerNotifies, ServerComplains, ServerExits,
             Running, Still, doctor
    <3>3. CASE Other
      <4>1. client = "other" /\ dpc' = dpc
        BY <3>3 DEF Other, ClientCloses, ClientSends, SessionAgain, doctor
      <4> QED BY <4>1 DEF DoctorInv, Supervised
    <3>4. CASE DeadlinePasses
      BY <3>4 DEF DeadlinePasses
    <3> QED BY <1>2, <3>1, <3>2, <3>3, <3>4 DEF Next
  <2>2. dpc \notin {"done", "absent"} /\ UNCHANGED peer
    BY <2>1 DEF DoctorSteps, DoctorStarts, DoctorSends, DoctorReads, DoctorStopsWaiting,
           DoctorConcludes, DoctorTerminates, DoctorReaps, DoctorOnly
  <2>3. client = "doctor"
    BY <2>2, DoctorAssumption DEF DoctorInv, Supervised, Typed
  <2>4. OnScript /\ Heard /\ Progress /\ Supervised /\ Sequenced
    BY <2>3, SequencedHolds DEF Deserving, DoctorInv
  <2>5. CASE Cause /\ verdict' # "healthy" /\ deadline' = deadline
             /\ (server = "none" \/ quit \/ sstatus # 0 \/ deadline \/ BadAnswer)
    BY <2>2, <2>5 DEF VerdictIsDeserved, BadAnswer, peer
  <2>6. Cause => server = "none" \/ quit \/ sstatus # 0 \/ deadline \/ BadAnswer
    BY DEF Cause
  <2>7. ASSUME NEW at \in Waiting, NEW message, NEW next \in Waiting, DoctorSends(at, message, next)
        PROVE  VerdictIsDeserved'
    <3>1. dpc \in Waiting /\ GuardGone /\ UNCHANGED <<verdict, deadline>>
      BY <2>7 DEF DoctorSends, Waiting
    <3>2. Cause /\ verdict = "none"
      BY <2>2, <2>4, <3>1, GoneForACause DEF Progress
    <3> QED BY <2>5, <2>6, <3>1, <3>2
  <2>8. CASE DoctorTerminates \/ DoctorReaps
    <3>1. dpc \in {"terminate", "grace"} /\ UNCHANGED <<verdict, deadline>>
      BY <2>8 DEF DoctorTerminates, DoctorReaps
    <3>2. Cause /\ verdict = "unhealthy"
      BY <2>4, <3>1 DEF Progress
    <3> QED BY <2>5, <2>6, <3>1, <3>2
  <2>9. CASE DoctorConcludes
    <3>1. dpc = "shutdown" /\ GuardGone /\ gstatus = 0 /\ verdict' = "healthy" /\ UNCHANGED guard
      BY <2>9 DEF DoctorConcludes, GivesUp
    <3>2. gpc = "exited" /\ server = "reaped" /\ sstatus = 0 /\ ~terminationSignal
      BY <2>2, <2>4, <3>1, GoneForACause DEF Progress
    <3>3. PICK kind \in Answers : [id |-> "list", kind |-> kind] \in answers
      BY <2>4, <3>1 DEF Heard
    <3>4. "list" \in Said
      <4>1. [id |-> "list", kind |-> kind] \in [id : Said, kind : Answers]
        BY <2>4, <3>3 DEF Heard
      <4>2. [id |-> "list", kind |-> kind].id \in Said
        BY <4>1
      <4> QED BY <4>2
    <3>5. forwarded = <<"init", "note", "list">>
      BY <2>4, <3>4, AllWasSaid
    <3> QED BY <2>2, <3>1, <3>2, <3>3, <3>5 DEF VerdictIsDeserved, guard, peer
  <2>10. ~(DoctorStarts \/ DoctorReads("initAnswer", "init") \/ DoctorReads("listAnswer", "list")
           \/ DoctorStopsWaiting)
    <3>1. ASSUME NEW at \in {"initAnswer", "listAnswer"}, NEW id, DoctorReads(at, id) PROVE FALSE
      BY <3>1 DEF DoctorReads, GivesUp
    <3> QED BY <3>1 DEF DoctorStarts, DoctorStopsWaiting, GivesUp
  <2> QED BY <2>1, <2>7, <2>8, <2>9, <2>10 DEF DoctorSteps, Waiting
<1> QED BY <1>1, <1>2

\* Spec keeps VerdictIsDeserved: doctor calls a guard healthy only after both
\* requests were answered and guard and server have ended with status zero, and
\* otherwise the guard refused to run, the server left, answered something that
\* is not good, or the time has passed; whatever the server sends and when.
THEOREM DoctorJudgesRightly == Spec => []VerdictIsDeserved
<1>1. Init => VerdictIsDeserved
  BY DEF Init, VerdictIsDeserved
<1> QED BY <1>1, DeservingInit, DeservingStep, VerdictStep, DoctorInvHolds, TypedHolds, TaleHolds, PTL
        DEF Spec
==============================================================================
