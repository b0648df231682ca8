------------------------------ MODULE LineFramer ------------------------------
(***************************************************************************)
(* io::LineFramer (src/include/mcp_native_guard/io/line_framer.hpp,        *)
(* src/src/line_framer.cpp), as run_stdio_child sets it up: it cuts the    *)
(* bytes of a stream, read in chunks of any size, into lines, keeps at     *)
(* most one line that is not complete, and fails for good on a line beyond *)
(* the limit or on a stream that ends within a line.                       *)
(*                                                                         *)
(* feed() handles a chunk segment by segment, and what its sink does comes *)
(* between two segments: each segment is a step.  run_stdio_child switches *)
(* the trimming of a carriage return off and never calls reset().          *)
(***************************************************************************)
EXTENDS Integers, Sequences

CONSTANTS
    Bytes,          \* what a stream is made of
    NL,             \* the newline
    MaxMessage      \* max_message_bytes

ASSUME FramerAssumption == NL \in Bytes /\ MaxMessage \in Nat \ {0}

VARIABLES
    chunk,          \* the bytes given to feed() and not yet scanned
    buffer,         \* buffer_: the beginning of a line
    failure,        \* failure_, "none" while failed_ is false
    failedBytes,    \* failed_message_bytes_
    stream,         \* every byte given to feed()
    lines,          \* the lines handed to the sink
    delimited       \* the bytes of those lines, each with its newline

framer == <<chunk, buffer, failure, failedBytes, stream, lines, delimited>>

FramerInit ==
    /\ chunk = << >> /\ buffer = << >> /\ failure = "none" /\ failedBytes = 0
    /\ stream = << >> /\ lines = << >> /\ delimited = << >>

\* A framer for another stream.
FramerAgain ==
    /\ chunk' = << >> /\ buffer' = << >> /\ failure' = "none" /\ failedBytes' = 0
    /\ stream' = << >> /\ lines' = << >> /\ delimited' = << >>

\* feed() is called: after a failure it would do nothing.
Feed(bytes) ==
    /\ failure = "none" /\ chunk = << >> /\ bytes # << >>
    /\ chunk' = bytes
    /\ stream' = stream \o bytes
    /\ UNCHANGED <<buffer, failure, failedBytes, lines, delimited>>

\* fail(): the rest of the chunk is not looked at.
Fails(code, bytes) ==
    /\ failure' = code /\ failedBytes' = bytes
    /\ buffer' = << >> /\ chunk' = << >>
    /\ UNCHANGED <<stream, lines, delimited>>

\* The first newline of the chunk.
FirstNewline(i) ==
    /\ i \in DOMAIN chunk /\ chunk[i] = NL
    /\ \A j \in 1..(i - 1) : chunk[j] # NL

NoNewline == \A j \in DOMAIN chunk : chunk[j] # NL

\* What a newline at i completes.
LineTo(i) == buffer \o SubSeq(chunk, 1, i - 1)

\* The line goes to the sink.
EmitKeepingBuffer(i) ==
    /\ FirstNewline(i) /\ Len(LineTo(i)) <= MaxMessage
    /\ lines' = Append(lines, LineTo(i))
    /\ delimited' = delimited \o LineTo(i) \o <<NL>>
    /\ chunk' = SubSeq(chunk, i + 1, Len(chunk))
    /\ UNCHANGED <<buffer, stream, failure, failedBytes>>

Emit(i) ==
    /\ FirstNewline(i) /\ Len(LineTo(i)) <= MaxMessage
    /\ lines' = Append(lines, LineTo(i))
    /\ delimited' = delimited \o LineTo(i) \o <<NL>>
    /\ buffer' = << >>
    /\ chunk' = SubSeq(chunk, i + 1, Len(chunk))
    /\ UNCHANGED <<stream, failure, failedBytes>>

\* The line is too long, whether or not its end has been seen.
Reject ==
    \/ \E i \in DOMAIN chunk :
         /\ FirstNewline(i)
         /\ Len(buffer) + i - 1 > MaxMessage
         /\ Fails("message_too_large", Len(buffer) + i - 1)
    \/ /\ chunk # << >> /\ NoNewline
       /\ Len(buffer) + Len(chunk) > MaxMessage
       /\ Fails("message_too_large", Len(buffer) + Len(chunk))

\* No newline is left: append() keeps the rest.
Keep ==
    /\ chunk # << >> /\ NoNewline
    /\ Len(buffer) + Len(chunk) <= MaxMessage
    /\ buffer' = buffer \o chunk /\ chunk' = << >>
    /\ UNCHANGED <<failure, failedBytes, stream, lines, delimited>>

\* finish(), at the end of the stream.
FinishTruncated == buffer # << >> /\ Fails("truncated_message", 0)
FinishClean == buffer = << >> /\ UNCHANGED framer

------------------------------------------------------------------------------
(* The framer on its own: a stream in chunks of any size.                   *)

FramerNext ==
    \/ \E bytes \in Seq(Bytes) : Feed(bytes)
    \/ \E i \in DOMAIN chunk : Emit(i)
    \/ Reject \/ Keep
    \/ chunk = << >> /\ failure = "none" /\ (FinishTruncated \/ FinishClean)

FramerSpec == FramerInit /\ [][FramerNext]_framer

FramerTypeOK ==
    /\ chunk \in Seq(Bytes) /\ buffer \in Seq(Bytes) /\ stream \in Seq(Bytes)
    /\ delimited \in Seq(Bytes) /\ lines \in Seq(Seq(Bytes))
    /\ failure \in {"none", "message_too_large", "truncated_message"}
    /\ failedBytes \in Nat

\* However the stream is cut into chunks, the lines are the stream cut at its
\* newlines, nothing lost and nothing repeated; after a failure they are its
\* beginning.  No line is longer than the limit, no more than one line's bytes
\* are ever held, and a failure for size tells of more than the limit.
LinesAreTheStream ==
    /\ failure = "none" => stream = delimited \o buffer \o chunk
    /\ \A i \in DOMAIN delimited : i \in DOMAIN stream /\ stream[i] = delimited[i]
    /\ \A n \in DOMAIN lines :
          Len(lines[n]) <= MaxMessage /\ \A j \in DOMAIN lines[n] : lines[n][j] # NL
    /\ Len(buffer) <= MaxMessage /\ \A j \in DOMAIN buffer : buffer[j] # NL
    /\ failure = "message_too_large" => failedBytes > MaxMessage
    /\ failure # "none" => buffer = << >> /\ chunk = << >>
==============================================================================
