---------------------------- MODULE AtomicFileProofs ----------------------------
(***************************************************************************)
(* Proofs about AtomicFile, for any number of writers and any length of    *)
(* their contents.  The flush before the rename is what carries them: a    *)
(* file that ever gets the name of the destination is on the disk whole.   *)
(***************************************************************************)
EXTENDS AtomicFile, TLAPS

\* What is flushed follows the place in the code; until power is lost nothing
\* written is lost either.
Progress ==
    \A w \in Writers :
        /\ pc[w] \in {"close", "rename", "ok"} => flushed[w] = Size
        /\ pc[w] = "sync" /\ powered => length[w] = Size

\* A file gets the name by the last step of its writer.
NamedIsDone == \A w \in Writers : w \in renamed => pc[w] = "ok"

\* A temporary file exists only between its creation and its removal or rename.
TemporaryIsOpen ==
    \A w \in Writers :
        w \in temporaries => pc[w] \in {"write", "sync", "close", "rename", "killed"}

IInv == TypeOK /\ Progress /\ NamedIsDone /\ TemporaryIsOpen

\* The invariant holds at the start.
LEMMA InitIInv == Init => IInv
  BY AtomicFileAssumption DEF Init, IInv, TypeOK, Progress, NamedIsDone, TemporaryIsOpen

\* Every step keeps it.
LEMMA NextIInv == IInv /\ [Next]_vars => IInv'
<1> SUFFICES ASSUME IInv, [Next]_vars PROVE IInv'
  OBVIOUS
<1> USE AtomicFileAssumption
<1>1. ASSUME NEW w \in Writers, Check(w) PROVE IInv'
  BY <1>1 DEF IInv, TypeOK, Progress, NamedIsDone, TemporaryIsOpen, Check, Go, Files
<1>2. ASSUME NEW w \in Writers, Create(w) PROVE IInv'
  BY <1>2 DEF IInv, TypeOK, Progress, NamedIsDone, TemporaryIsOpen, Create, Go
<1>3. ASSUME NEW w \in Writers, Write(w) PROVE IInv'
  <2>1. PICK n \in (length[w] + 1)..Size :
          /\ powered /\ pc[w] = "write"
          /\ pc' = [pc EXCEPT ![w] = IF n = Size THEN "sync" ELSE "write"]
          /\ length' = [length EXCEPT ![w] = n]
    BY <1>3 DEF Write, Go
  <2>2. n \in 0..Size /\ length[w] < n
    BY <2>1 DEF IInv, TypeOK
  <2>3. TypeOK'
    BY <1>3, <2>1, <2>2 DEF IInv, TypeOK, Write
  <2>4. (Progress /\ NamedIsDone /\ TemporaryIsOpen)'
    BY <1>3, <2>1, <2>2 DEF IInv, TypeOK, Progress, NamedIsDone, TemporaryIsOpen, Write
  <2> QED BY <2>3, <2>4 DEF IInv
<1>4. ASSUME NEW w \in Writers, Sync(w) PROVE IInv'
  BY <1>4 DEF IInv, TypeOK, Progress, NamedIsDone, TemporaryIsOpen, Sync, Go
<1>5. ASSUME NEW w \in Writers, Close(w) PROVE IInv'
  BY <1>5 DEF IInv, TypeOK, Progress, NamedIsDone, TemporaryIsOpen, Close, Go, Files
<1>6. ASSUME NEW w \in Writers, Rename(w) PROVE IInv'
  BY <1>6 DEF IInv, TypeOK, Progress, NamedIsDone, TemporaryIsOpen, Rename, Go
<1>7. ASSUME NEW w \in Writers, Fail(w) PROVE IInv'
  BY <1>7 DEF IInv, TypeOK, Progress, NamedIsDone, TemporaryIsOpen, Fail, Go
<1>8. ASSUME NEW w \in Writers, Killed(w) PROVE IInv'
  BY <1>8 DEF IInv, TypeOK, Progress, NamedIsDone, TemporaryIsOpen, Killed, Go, Files
<1>9. ASSUME NEW w \in Writers, FlushData(w) PROVE IInv'
  BY <1>9 DEF IInv, TypeOK, Progress, NamedIsDone, TemporaryIsOpen, FlushData
<1>10. CASE FlushDirectory
  BY <1>10 DEF IInv, TypeOK, Progress, NamedIsDone, TemporaryIsOpen, FlushDirectory
<1>11. CASE PowerLoss
  <2>1. TypeOK'
    <3>1. \A w \in Writers : flushed[w] \in Nat
      BY DEF IInv, TypeOK
    <3>2. \A w \in Writers : flushed'[w] <= length'[w]
      BY <1>11, <3>1 DEF PowerLoss
    <3> QED BY <1>11, <3>2 DEF IInv, TypeOK, PowerLoss
  <2>2. Progress'
    BY <1>11 DEF IInv, Progress, PowerLoss
  <2>3. (NamedIsDone /\ TemporaryIsOpen)'
    BY <1>11 DEF IInv, NamedIsDone, TemporaryIsOpen, PowerLoss
  <2> QED BY <2>1, <2>2, <2>3 DEF IInv
<1>12. CASE UNCHANGED vars
  BY <1>12 DEF IInv, TypeOK, Progress, NamedIsDone, TemporaryIsOpen, vars
<1> QED
  BY <1>1, <1>2, <1>3, <1>4, <1>5, <1>6, <1>7, <1>8, <1>9, <1>10, <1>11, <1>12
  DEF Next, Step

\* The inductive invariant of write_file_atomic.
THEOREM InductiveInvariant == Spec => []IInv
  BY InitIInv, NextIInv, PTL DEF Spec

\* Every variable of write_file_atomic has its type at all times.
THEOREM TypeCorrect == Spec => []TypeOK
<1>1. IInv => TypeOK
  BY DEF IInv
<1> QED BY <1>1, InductiveInvariant, PTL

\* The destination is the old file or the complete contents of one writer, at
\* any moment and after a loss of power.
THEOREM DestinationIsWhole == Spec => []DestinationWhole
<1>1. IInv => DestinationWhole
  BY AtomicFileAssumption DEF IInv, TypeOK, Progress, NamedIsDone, DestinationWhole
<1> QED BY <1>1, InductiveInvariant, PTL

\* A write_file_atomic that returned an error has left neither its temporary
\* file nor, ever, its contents under the name of the destination.
THEOREM FailuresLeaveNothing == Spec => []FailureLeavesNothing
<1>1. IInv => FailureLeavesNothing
  BY DEF IInv, TypeOK, NamedIsDone, TemporaryIsOpen, FailureLeavesNothing
<1> QED BY <1>1, InductiveInvariant, PTL

\* Only the rename of a complete file, or a loss of power, changes what the
\* destination is.
THEOREM ReplacedAsAWhole == Spec => Replaced
<1> DEFINE Change ==
      destination' # destination =>
         \/ \E w \in Writers : destination' = w /\ length[w] = Size /\ pc'[w] = "ok"
         \/ powered /\ ~powered'
<1>1. IInv /\ [Next]_vars => [Change]_vars
  <2> SUFFICES ASSUME IInv, Next, destination' # destination PROVE Change
    BY DEF vars
  <2>1. ASSUME NEW w \in Writers, Step(w)
        PROVE Rename(w)
    BY <2>1 DEF Step, Check, Create, Write, Sync, Close, Fail, Killed, FlushData, Files
  <2>2. ASSUME NEW w \in Writers, Rename(w)
        PROVE destination' = w /\ length[w] = Size /\ pc'[w] = "ok"
    BY <2>2, AtomicFileAssumption DEF Rename, Go, IInv, TypeOK, Progress
  <2>3. CASE PowerLoss
    BY <2>3 DEF PowerLoss
  <2>4. CASE FlushDirectory
    BY <2>4 DEF FlushDirectory
  <2> QED BY <2>1, <2>2, <2>3, <2>4 DEF Next
<1> QED BY <1>1, InductiveInvariant, PTL DEF Spec, Replaced
================================================================================
