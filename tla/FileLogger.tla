----------------------------- MODULE FileLogger -----------------------------
(***************************************************************************)
(* aconnect::FileLogger: messages of several threads go to one file, and   *)
(* to a new one when its size is reached.  A message is processMessage's   *)
(* filter without the mutex, then writeMessage under it; destroy() does    *)
(* not take the mutex.  A message is <<thread, number>> and has size 1; a  *)
(* file name is its time stamp and the index that makes it new.            *)
(***************************************************************************)
EXTENDS Sequences, Integers, SequencesExt

CONSTANTS
  Thread,        \* threads that log
  MaxMessages,   \* bound: messages of a thread
  MaxFileSize,   \* maxFileSize_
  TimeStamps,    \* the seconds at which files may be created
  OldFiles,      \* files of an earlier process: names
  NoFile

ASSUME FileLoggerAssumption ==
  /\ MaxMessages \in Nat
  /\ MaxFileSize \in Nat \ {0}
  /\ IsFiniteSet(OldFiles)
  /\ NoFile \notin [ts : TimeStamps, index : Int]

VARIABLES
  logFiles,      \* name -> messages
  output,        \* the file output_ is open on, NoFile when it is closed
  outputSize,
  logging,       \* thread -> what it does: "no", "write", "rotate"
  numbered,      \* thread -> messages it has begun
  written,       \* history: messages written, in order
  order,         \* history: names of the files opened, in order
  logState       \* "new", "ready", "destroyed", or "failed" when no file could be opened

logVars == <<logFiles, output, outputSize, logging, numbered, written, order, logState>>

LogInit(begun) ==
  /\ logFiles = [name \in OldFiles |-> <<>>]
  /\ output = NoFile
  /\ outputSize = 0
  /\ logging = [t \in Thread |-> "no"]
  /\ numbered = [t \in Thread |-> begun]
  /\ written = <<>> /\ order = <<>>
  /\ logState = "new"

Free == \A t \in Thread : logging[t] # "rotate"   \* mutex_, between two steps
-----------------------------------------------------------------------------
(* createLogFile. *)

\* Faulty: the name is not looked up before the file is opened.
FirstName(ts) == [ts |-> ts, index |-> -1]

\* The time stamp as it is, then .000000, .000001 ...
NewName(ts) ==
  LET used == {name.index : name \in {n \in DOMAIN logFiles : n.ts = ts}}
  IN [ts |-> ts, index |-> Min((-1..Cardinality(used)) \ used)]

\* Opening fails, or truncates.  Any second: the local time may go back, too.
CreateLogFile(opened) ==
  IF opened
  THEN \E ts \in TimeStamps :
         /\ output' = NewName(ts)
         /\ logFiles' = [name \in DOMAIN logFiles \cup {NewName(ts)} |->
                           IF name = NewName(ts) THEN <<>> ELSE logFiles[name]]
         /\ order' = Append(order, NewName(ts))
  ELSE output' = NoFile /\ UNCHANGED <<logFiles, order>>

\* init; where it fails the process ends.
LoggerInit ==
  /\ logState = "new"
  /\ \E opened \in BOOLEAN :
       CreateLogFile(opened) /\ logState' = IF opened THEN "ready" ELSE "failed"
  /\ UNCHANGED <<outputSize, logging, numbered, written>>
-----------------------------------------------------------------------------
(* processMessage and writeMessage. *)

\* A level that is not enabled, and a file that is not valid, end it here.
Log(t) ==
  /\ logging[t] = "no" /\ numbered[t] < MaxMessages
  /\ output # NoFile
  /\ numbered' = [numbered EXCEPT ![t] = @ + 1]
  /\ logging' = [logging EXCEPT ![t] = "write"]
  /\ UNCHANGED <<logFiles, output, outputSize, written, order, logState>>

Write(t) ==
  /\ logging[t] = "write" /\ Free
  /\ \/ /\ output # NoFile
        /\ logFiles' = [logFiles EXCEPT ![output] = Append(@, <<t, numbered[t]>>)]
        /\ written' = Append(written, <<t, numbered[t]>>)
        /\ outputSize' = outputSize + 1
        /\ logging' = [logging EXCEPT ![t] = IF outputSize' >= MaxFileSize THEN "rotate"
                                             ELSE "no"]
     \/ /\ output = NoFile
        /\ logging' = [logging EXCEPT ![t] = "no"]
        /\ UNCHANGED <<logFiles, written, outputSize>>
  /\ UNCHANGED <<output, numbered, order, logState>>

\* outputSize_ is reset only when the next file could be opened; the exception
\* reaches whoever logged.
Rotate(t) ==
  /\ logging[t] = "rotate"
  /\ \E opened \in BOOLEAN :
       /\ CreateLogFile(opened)
       /\ outputSize' = IF opened THEN 0 ELSE outputSize
       /\ logState' = IF opened THEN logState ELSE "failed"
  /\ logging' = [logging EXCEPT ![t] = "no"]
  /\ UNCHANGED <<numbered, written>>

\* destroy, at any moment: a thread between Write and Rotate opens a file again.
LoggerDestroy ==
  /\ output' = NoFile
  /\ logState' = IF logState = "ready" THEN "destroyed" ELSE logState
  /\ UNCHANGED <<logFiles, outputSize, logging, numbered, written, order>>

LogStep == \E t \in Thread : Log(t) \/ Write(t) \/ Rotate(t)
-----------------------------------------------------------------------------
(* Correctness. *)

LogTypeOK ==
  /\ output \in DOMAIN logFiles \cup {NoFile}
  /\ outputSize \in 0..MaxFileSize
  /\ logging \in [Thread -> {"no", "write", "rotate"}]
  /\ logState = "ready" => output # NoFile

\* The files opened hold, in their order, the messages written, each once and whole;
\* none but the last is short of its size, and the files of earlier processes are
\* as they were.
LogComplete ==
  /\ FlattenSeq([i \in DOMAIN order |-> logFiles[order[i]]]) = written
  /\ \A i, j \in DOMAIN written : i # j => written[i] # written[j]
  /\ logState = "ready" =>
       \A i \in 1..Len(order) - 1 : Len(logFiles[order[i]]) = MaxFileSize
  /\ \A name \in OldFiles : name \in DOMAIN logFiles /\ logFiles[name] = <<>>
=============================================================================
