------------------------ MODULE ServerProcess_proofs ------------------------
(***************************************************************************)
(* Proofs about ServerProcess: one actor at a time is inside stop(); while *)
(* a reload loads, no worker runs; what a started server serves is what    *)
(* the last good document says, whenever load() keeps LoaderContract; and  *)
(* the log is complete until the process ends.                             *)
(***************************************************************************)
EXTENDS ServerProcess, DataLemmas
-----------------------------------------------------------------------------
(* The log, for any threads, any number of messages, any size of a file    *)
(* and any files of earlier processes.  Its invariant LogInv is kept by    *)
(* each operation, in whatever process they are called.                    *)

Message == Thread \X Nat
Rotating == \E t \in Thread : logging[t] = "rotate"
Contents == [i \in 1..Len(order) |-> logFiles[order[i]]]

LogTyped ==
  /\ logFiles \in [DOMAIN logFiles -> Seq(Message)] /\ IsFiniteSet(DOMAIN logFiles)
  /\ outputSize \in Nat
  /\ logging \in [Thread -> {"no", "write", "rotate"}]
  /\ numbered \in [Thread -> Nat]
  /\ written \in Seq(Message)
  /\ order \in Seq(DOMAIN logFiles)

\* The open file is the last one; it is full exactly while a thread is about to replace it.
OutputInv ==
  /\ output # NoFile => /\ Len(order) > 0 /\ output = order[Len(order)]
                        /\ outputSize = Len(logFiles[output])
                        /\ ~Rotating => outputSize < MaxFileSize
  /\ outputSize <= MaxFileSize
  /\ \A t, u \in Thread : logging[t] = "rotate" /\ logging[u] = "rotate" => t = u
  /\ Rotating => Len(order) > 0 /\ Len(logFiles[order[Len(order)]]) = MaxFileSize
  /\ logState = "ready" => output # NoFile
  /\ logState = "new" => /\ output = NoFile /\ order = <<>> /\ outputSize = 0
                         /\ ~Rotating

\* Files are opened once and never an old one; all but the last are full.
FilesInv ==
  /\ \A i, j \in 1..Len(order) : i # j => order[i] # order[j]
  /\ \A i \in 1..Len(order) - 1 : Len(logFiles[order[i]]) = MaxFileSize
  /\ \A name \in OldFiles : /\ name \in DOMAIN logFiles /\ logFiles[name] = <<>>
                            /\ \A i \in 1..Len(order) : order[i] # name
  /\ FlattenSeq(Contents) = written

\* What is written has a number its thread has begun, and does not write again.
NumberInv ==
  /\ \A i \in 1..Len(written) :
       /\ written[i][2] <= numbered[written[i][1]]
       /\ logging[written[i][1]] = "write" => written[i][2] < numbered[written[i][1]]
  /\ \A i, j \in 1..Len(written) : i # j => written[i] # written[j]

LogInv == LogTyped /\ OutputInv /\ FilesInv /\ NumberInv
-----------------------------------------------------------------------------
\* createLogFile finds a name that no file has.
LEMMA NewNameIsNew ==
  ASSUME LogTyped, NEW ts \in TimeStamps
  PROVE  /\ NewName(ts) \notin DOMAIN logFiles
         /\ NewName(ts) # NoFile
  <1> DEFINE same == {n \in DOMAIN logFiles : n.ts = ts}
             used == {name.index : name \in same}
             free == (-1..Cardinality(used)) \ used
             index == [n \in same |-> n.index]
  <1>1. IsFiniteSet(same)
    BY FS_Subset DEF LogTyped
  <1>2. index \in Surjection(same, used)
    BY DEF Surjection
  <1>3. IsFiniteSet(used)
    <2> HIDE DEF same, used, index
    <2> QED BY <1>1, <1>2, FS_Surjection
  <1>4. Cardinality(used) \in Nat
    <2> HIDE DEF used
    <2> QED BY <1>3, FS_CardinalityType
  <1>5. free # {}
    <2> HIDE DEF used
    <2> SUFFICES ASSUME -1..Cardinality(used) \subseteq used PROVE FALSE
      OBVIOUS
    <2>1. Cardinality(-1..Cardinality(used)) = Cardinality(used) - (-1) + 1
      BY <1>4, FS_Interval
    <2>2. Cardinality(-1..Cardinality(used)) <= Cardinality(used)
      BY <1>3, FS_Subset
    <2> QED BY <1>4, <2>1, <2>2
  <1>6. Min(free) \in free
    <2> DEFINE low == -1
    <2>1. free \subseteq Int /\ low \in Int /\ \A x \in free : low <= x
      BY <1>4
    <2> HIDE DEF free, low
    <2> QED BY <1>5, <2>1, MinIsLeast
  <1>7. NewName(ts) = [ts |-> ts, index |-> Min(free)]
    BY DEF NewName
  <1>8. Min(free) \in Int /\ Min(free) \notin used
    <2> HIDE DEF used
    <2> QED BY <1>4, <1>6
  <1>9. NewName(ts) \notin DOMAIN logFiles
    <2> SUFFICES ASSUME NewName(ts) \in DOMAIN logFiles PROVE FALSE
      OBVIOUS
    <2>1. NewName(ts).ts = ts /\ NewName(ts).index = Min(free)
      BY <1>7
    <2>2. NewName(ts) \in same
      BY <2>1
    <2>3. Min(free) \in used
      BY <2>1, <2>2
    <2> QED BY <2>3, <1>8
  <1>10. NewName(ts) # NoFile
    <2>1. NewName(ts) \in [ts : TimeStamps, index : Int]
      BY <1>7, <1>8
    <2> QED BY <2>1, FileLoggerAssumption
  <1> QED BY <1>9, <1>10

\* A step that leaves the files alone leaves their contents alone.
LEMMA ContentsSame ==
  ASSUME UNCHANGED <<logFiles, order>>
  PROVE  FlattenSeq(Contents)' = FlattenSeq(Contents)
  BY DEF Contents

LEMMA ContentsTyped ==
  ASSUME LogTyped
  PROVE  /\ Contents \in Seq(Seq(Message)) /\ Len(Contents) = Len(order)
         /\ Len(order) \in Nat
         /\ \A i \in 1..Len(order) : /\ order[i] \in DOMAIN logFiles
                                     /\ logFiles[order[i]] \in Seq(Message)
                                     /\ Len(logFiles[order[i]]) \in Nat
  <1>1. Len(order) \in Nat /\ order \in [1..Len(order) -> DOMAIN logFiles]
    BY LenProperties DEF LogTyped
  <1>2. \A i \in 1..Len(order) : order[i] \in DOMAIN logFiles
                                 /\ logFiles[order[i]] \in Seq(Message)
    BY <1>1 DEF LogTyped
  <1>3. Contents \in [1..Len(order) -> Seq(Message)]
    BY <1>2 DEF Contents
  <1>4. Contents \in Seq(Seq(Message))
    BY <1>1, <1>3, IsASeq
  <1>5. Len(Contents) = Len(order)
    BY <1>1, <1>3, <1>4, LenProperties
  <1> QED BY <1>1, <1>2, <1>4, <1>5, LenProperties
-----------------------------------------------------------------------------
(* Opening a file. *)

\* Where the last file is full, or there is none, a new one is added to the files and
\* takes nothing from them.
LEMMA OpensNew ==
  ASSUME LogInv, CreateLogFile(TRUE), UNCHANGED written,
         Len(order) > 0 => Len(logFiles[order[Len(order)]]) = MaxFileSize
  PROVE  /\ output' # NoFile
         /\ Len(order)' = Len(order) + 1 /\ output' = order'[Len(order)']
         /\ Len(logFiles[output])' = 0
         /\ logFiles' \in [DOMAIN logFiles' -> Seq(Message)] /\ IsFiniteSet(DOMAIN logFiles')
         /\ order' \in Seq(DOMAIN logFiles')
         /\ FilesInv'
  <1>1. PICK ts \in TimeStamps :
          /\ output' = NewName(ts)
          /\ logFiles' = [name \in DOMAIN logFiles \cup {NewName(ts)} |->
                            IF name = NewName(ts) THEN <<>> ELSE logFiles[name]]
          /\ order' = Append(order, NewName(ts))
    BY DEF CreateLogFile
  <1> DEFINE new == NewName(ts)
             n == Len(order)
  <1>2. new \notin DOMAIN logFiles /\ new # NoFile
    BY NewNameIsNew DEF LogInv
  <1> HIDE DEF new
  <1>3. /\ output' = new /\ order' = Append(order, new)
        /\ DOMAIN logFiles' = DOMAIN logFiles \cup {new}
        /\ logFiles'[new] = <<>>
        /\ \A name \in DOMAIN logFiles : logFiles'[name] = logFiles[name]
    BY <1>1, <1>2 DEF new
  <1>4. order \in Seq(DOMAIN logFiles \cup {new})
    BY SeqMonotonic DEF LogInv, LogTyped
  <1>5. /\ n \in Nat /\ order' \in Seq(DOMAIN logFiles') /\ Len(order)' = n + 1
        /\ order'[n + 1] = new /\ \A i \in 1..n : order'[i] = order[i]
    BY <1>3, <1>4, AppendProperties, LenProperties
  <1>6. <<>> \in Seq(Message) /\ Len(<<>>) = 0
    BY EmptySeq
  <1>7. logFiles' \in [DOMAIN logFiles' -> Seq(Message)]
    BY <1>1, <1>3, <1>6 DEF LogInv, LogTyped
  <1>8. IsFiniteSet(DOMAIN logFiles')
    <2>1. IsFiniteSet(DOMAIN logFiles)
      BY DEF LogInv, LogTyped
    <2> QED BY <1>3, <2>1, FS_AddElement
  <1>9. \A i \in 1..n : order[i] \in DOMAIN logFiles /\ order[i] # new
                        /\ logFiles'[order'[i]] = logFiles[order[i]]
    BY <1>2, <1>3, <1>5, ContentsTyped DEF LogInv
  <1>10. ASSUME NEW i \in 1..n + 1, NEW j \in 1..n + 1, i # j PROVE order'[i] # order'[j]
    <2>1. CASE i \in 1..n /\ j \in 1..n
      BY <1>5, <1>10, <2>1 DEF LogInv, FilesInv
    <2>2. CASE i = n + 1
      BY <1>5, <1>9, <1>10, <2>2
    <2>3. CASE j = n + 1
      BY <1>5, <1>9, <1>10, <2>3
    <2> QED BY <1>5, <2>1, <2>2, <2>3
  <1>11. ASSUME NEW i \in 1..n PROVE Len(logFiles'[order'[i]]) = MaxFileSize
    <2>1. CASE i = n
      BY <1>5, <1>9, <2>1
    <2>2. CASE i # n
      <3>1. i \in 1..n - 1
        BY <1>5, <2>2
      <3> QED BY <1>9, <3>1 DEF LogInv, FilesInv
    <2> QED BY <2>1, <2>2
  <1>12. ASSUME NEW name \in OldFiles
         PROVE  /\ name \in DOMAIN logFiles' /\ logFiles'[name] = <<>>
                /\ \A i \in 1..n + 1 : order'[i] # name
    <2>1. name \in DOMAIN logFiles /\ logFiles[name] = <<>>
          /\ \A i \in 1..n : order[i] # name
      BY DEF LogInv, FilesInv
    <2> QED BY <1>2, <1>3, <1>5, <2>1
  <1>13. FlattenSeq(Contents)' = written'
    <2>1. Contents \in Seq(Seq(Message)) /\ Len(Contents) = n
      BY ContentsTyped DEF LogInv
    <2>2. Contents' = Append(Contents, <<>>)
      <3>1. Append(Contents, <<>>) \in Seq(Seq(Message))
            /\ Len(Append(Contents, <<>>)) = n + 1
            /\ Append(Contents, <<>>)[n + 1] = <<>>
            /\ \A i \in 1..n : Append(Contents, <<>>)[i] = Contents[i]
        BY <1>6, <2>1, AppendProperties
      <3>2. Contents' = [i \in 1..n + 1 |-> logFiles'[order'[i]]]
        BY <1>5 DEF Contents
      <3>3. Append(Contents, <<>>) = [i \in 1..n + 1 |-> Append(Contents, <<>>)[i]]
        BY <3>1, LenProperties
      <3>4. \A i \in 1..n + 1 : logFiles'[order'[i]] = Append(Contents, <<>>)[i]
        BY <1>3, <1>5, <1>9, <3>1 DEF Contents
      <3> QED BY <3>2, <3>3, <3>4
    <2>3. FlattenSeq(Append(Contents, <<>>)) = FlattenSeq(Contents) \o <<>>
          /\ FlattenSeq(Contents) \in Seq(Message)
      BY <1>6, <2>1, FlattenAppend
    <2>4. FlattenSeq(Contents)' = FlattenSeq(Append(Contents, <<>>))
      BY <2>2
    <2>5. FlattenSeq(Contents) \o <<>> = FlattenSeq(Contents)
      BY <2>3, ConcatEmptySeq
    <2> QED BY <2>3, <2>4, <2>5 DEF LogInv, FilesInv
  <1>14. FilesInv'
    <2>1. Len(order)' - 1 = n
      BY <1>5
    <2> QED BY <1>5, <1>10, <1>11, <1>12, <1>13, <2>1 DEF FilesInv
  <1> QED BY <1>2, <1>3, <1>5, <1>6, <1>7, <1>8, <1>14
-----------------------------------------------------------------------------
(* The operations. *)

LEMMA LogInitInv ==
  ASSUME NEW begun \in Nat, LogInit(begun)
  PROVE  LogInv
  <1>1. LogTyped
    <2>1. <<>> \in Seq(Message) /\ <<>> \in Seq(DOMAIN logFiles)
      BY EmptySeq
    <2> QED BY <2>1, FileLoggerAssumption DEF LogInit, LogTyped
  <1>2. Len(<<>>) = 0
    BY EmptySeq
  <1>3. OutputInv
    BY <1>2, FileLoggerAssumption DEF LogInit, OutputInv, Rotating
  <1>4. FilesInv
    <2>1. \A i \in 1..0 : FALSE
      OBVIOUS
    <2>2. Contents = <<>>
      BY <1>2, <2>1 DEF LogInit, Contents
    <2>3. FlattenSeq(Contents) = written
      BY <2>2, FlattenEmpty DEF LogInit
    <2> QED BY <1>2, <2>1, <2>3 DEF LogInit, FilesInv
  <1>5. NumberInv
    BY <1>2 DEF LogInit, NumberInv
  <1> QED BY <1>1, <1>3, <1>4, <1>5 DEF LogInv

LEMMA LogSame ==
  ASSUME LogInv, UNCHANGED logVars
  PROVE  LogInv'
  <1>1. LogTyped'
    BY DEF LogInv, LogTyped, logVars
  <1>2. OutputInv'
    BY DEF LogInv, OutputInv, Rotating, logVars
  <1>3. FilesInv'
    BY ContentsSame DEF LogInv, FilesInv, logVars
  <1>4. NumberInv'
    BY DEF LogInv, NumberInv, logVars
  <1> QED BY <1>1, <1>2, <1>3, <1>4 DEF LogInv

LEMMA LoggerInitKeeps ==
  ASSUME LogInv, LoggerInit
  PROVE  LogInv'
  <1>1. /\ logState = "new" /\ order = <<>> /\ Len(order) = 0 /\ outputSize = 0 /\ ~Rotating
        /\ UNCHANGED <<outputSize, logging, numbered, written>> /\ ~Rotating'
    BY EmptySeq DEF LoggerInit, LogInv, OutputInv, Rotating
  <1>2. NumberInv'
    BY <1>1 DEF LogInv, NumberInv
  <1>3. CASE CreateLogFile(TRUE) /\ logState' = "ready"
    <2>1. LogTyped' /\ FilesInv'
      BY <1>1, <1>3, OpensNew DEF LogInv, LogTyped
    <2>2. /\ output' # NoFile /\ Len(order)' > 0 /\ output' = order'[Len(order)']
          /\ Len(logFiles[output])' = 0
      <3>1. Len(order)' = Len(order) + 1 /\ output' # NoFile
            /\ output' = order'[Len(order)'] /\ Len(logFiles[output])' = 0
        BY <1>1, <1>3, OpensNew
      <3> QED BY <1>1, <3>1
    <2>3. OutputInv'
      BY <1>1, <1>3, <2>2, FileLoggerAssumption DEF LogInv, OutputInv, Rotating
    <2> QED BY <1>2, <2>1, <2>3 DEF LogInv
  <1>4. CASE CreateLogFile(FALSE) /\ logState' = "failed"
    <2>1. output' = NoFile /\ UNCHANGED <<logFiles, order>>
      BY <1>4 DEF CreateLogFile
    <2>2. LogTyped'
      BY <1>1, <2>1 DEF LogInv, LogTyped
    <2>3. FilesInv'
      BY <1>1, <2>1, ContentsSame DEF LogInv, FilesInv
    <2>4. OutputInv'
      BY <1>1, <1>4, <2>1 DEF LogInv, OutputInv
    <2> QED BY <1>2, <2>2, <2>3, <2>4 DEF LogInv
  <1> QED BY <1>3, <1>4 DEF LoggerInit

LEMMA LogKeeps ==
  ASSUME LogInv, NEW t \in Thread, Log(t)
  PROVE  LogInv'
  <1> USE DEF Log
  <1>1. LogTyped'
    BY DEF LogInv, LogTyped
  <1>2. \A u \in Thread : logging'[u] = "rotate" <=> logging[u] = "rotate"
    BY DEF LogInv, LogTyped
  <1>3. OutputInv'
    BY <1>2 DEF LogInv, OutputInv, Rotating
  <1>4. FilesInv'
    BY ContentsSame DEF LogInv, FilesInv
  <1>5. NumberInv'
    <2>1. ASSUME NEW i \in 1..Len(written)
          PROVE  /\ written[i][2] <= numbered'[written[i][1]]
                 /\ logging'[written[i][1]] = "write" => written[i][2] < numbered'[written[i][1]]
      <3>1. written[i] \in Message
        BY ElementOfSeq DEF LogInv, LogTyped
      <3>2. written[i][1] \in Thread /\ written[i][2] \in Nat
        BY <3>1 DEF Message
      <3>3. written[i][2] <= numbered[written[i][1]]
            /\ (logging[written[i][1]] = "write" => written[i][2] < numbered[written[i][1]])
        BY DEF LogInv, NumberInv
      <3>4. CASE written[i][1] = t
        BY <3>2, <3>3, <3>4 DEF LogInv, LogTyped
      <3>5. CASE written[i][1] # t
        BY <3>2, <3>3, <3>5 DEF LogInv, LogTyped
      <3> QED BY <3>4, <3>5
    <2> QED BY <2>1 DEF LogInv, NumberInv
  <1> QED BY <1>1, <1>3, <1>4, <1>5 DEF LogInv

\* A message is appended to the last file, and to what has been written.
LEMMA WriteAppends ==
  ASSUME LogInv, NEW message \in Message, output # NoFile,
         logFiles' = [logFiles EXCEPT ![output] = Append(@, message)],
         written' = Append(written, message), UNCHANGED order
  PROVE  /\ logFiles' \in [DOMAIN logFiles' -> Seq(Message)] /\ DOMAIN logFiles' = DOMAIN logFiles
         /\ Len(logFiles'[output]) = Len(logFiles[output]) + 1
         /\ FilesInv'
  <1> DEFINE n == Len(order)
             front == [i \in 1..n - 1 |-> logFiles[order[i]]]
             last == logFiles[output]
  <1>1. n \in Nat /\ n > 0 /\ output = order[n] /\ output \in DOMAIN logFiles
        /\ last \in Seq(Message)
    BY ContentsTyped DEF LogInv, OutputInv
  <1>2. Append(last, message) \in Seq(Message) /\ Len(Append(last, message)) = Len(last) + 1
    BY <1>1, AppendProperties
  <1>3. /\ DOMAIN logFiles' = DOMAIN logFiles /\ logFiles'[output] = Append(last, message)
        /\ \A name \in DOMAIN logFiles : name # output => logFiles'[name] = logFiles[name]
    BY <1>1 DEF LogInv, LogTyped
  <1>4. logFiles' \in [DOMAIN logFiles' -> Seq(Message)]
    BY <1>1, <1>2 DEF LogInv, LogTyped
  <1>5. \A i \in 1..n - 1 : /\ order[i] \in DOMAIN logFiles /\ order[i] # output
                            /\ logFiles'[order[i]] = logFiles[order[i]]
                            /\ logFiles[order[i]] \in Seq(Message)
    <2> TAKE i \in 1..n - 1
    <2>1. i \in 1..n /\ n \in 1..n /\ i # n
      BY <1>1
    <2>2. order[i] \in DOMAIN logFiles /\ logFiles[order[i]] \in Seq(Message)
      BY <2>1, ContentsTyped DEF LogInv
    <2>3. order[i] # output
      BY <1>1, <2>1 DEF LogInv, FilesInv
    <2> QED BY <1>3, <2>2, <2>3
  <1>6. \A name \in OldFiles : name \in DOMAIN logFiles' /\ logFiles'[name] = <<>>
                             /\ \A i \in 1..n : order[i] # name
    <2> TAKE name \in OldFiles
    <2>1. name \in DOMAIN logFiles /\ logFiles[name] = <<>> /\ \A i \in 1..n : order[i] # name
      BY DEF LogInv, FilesInv
    <2>2. n \in 1..n
      BY <1>1
    <2> QED BY <1>1, <1>3, <2>1, <2>2
  <1>7. FlattenSeq(Contents)' = written'
    <2>1. front \in Seq(Seq(Message)) /\ Len(front) = n - 1
      <3>1. n - 1 \in Nat /\ front \in [1..n - 1 -> Seq(Message)]
        BY <1>1, <1>5
      <3>2. front \in Seq(Seq(Message))
        BY <3>1, IsASeq
      <3> QED BY <3>1, <3>2, LenProperties
    <2>2. ASSUME NEW s \in Seq(Message),
                 NEW all, all = [i \in 1..n |-> IF i = n THEN s ELSE front[i]]
          PROVE  all = Append(front, s)
      <3>1. Append(front, s) \in Seq(Seq(Message)) /\ Len(Append(front, s)) = n
            /\ Append(front, s)[n] = s
            /\ \A i \in 1..n - 1 : Append(front, s)[i] = front[i]
        <4> HIDE DEF front
        <4>1. (n - 1) + 1 = n
          BY <1>1
        <4> QED BY <2>1, <4>1, AppendProperties
      <3>2. Append(front, s) = [i \in 1..n |-> Append(front, s)[i]]
        BY <3>1, LenProperties
      <3>3. \A i \in 1..n : Append(front, s)[i] = IF i = n THEN s ELSE front[i]
        <4> HIDE DEF front
        <4> QED BY <1>1, <3>1
      <3> HIDE DEF front
      <3> QED BY <2>2, <3>2, <3>3
    <2>3. Contents = Append(front, last)
      <3>1. Contents = [i \in 1..n |-> IF i = n THEN last ELSE front[i]]
        BY <1>1 DEF Contents
      <3> HIDE DEF front, last
      <3> QED BY <1>1, <2>2, <3>1
    <2>4. Contents' = Append(front, Append(last, message))
      <3>1. Contents' = [i \in 1..n |-> IF i = n THEN Append(last, message) ELSE front[i]]
        BY <1>1, <1>3, <1>5 DEF Contents
      <3> HIDE DEF front, last
      <3> QED BY <1>2, <2>2, <3>1
    <2>5. FlattenSeq(Append(front, Append(last, message)))
            = Append(FlattenSeq(Append(front, last)), message)
      <3> HIDE DEF front, last
      <3> QED BY <1>1, <2>1, FlattenAppendLast
    <2>6. FlattenSeq(Contents)' = FlattenSeq(Append(front, Append(last, message)))
      <3> HIDE DEF front, last
      <3> QED BY <2>4
    <2>7. FlattenSeq(Append(front, last)) = written
      <3> HIDE DEF front, last
      <3> QED BY <2>3 DEF LogInv, FilesInv
    <2> QED BY <2>5, <2>6, <2>7
  <1>8. FilesInv'
    <2>1. \A i \in 1..Len(order)' - 1 : Len(logFiles'[order'[i]]) = MaxFileSize
      BY <1>5 DEF LogInv, FilesInv
    <2> QED BY <1>6, <1>7, <2>1 DEF LogInv, FilesInv
  <1> QED BY <1>2, <1>3, <1>4, <1>8

\* Under mutex_ the file is not full; whoever fills it is to replace it.
LEMMA WriteKeeps ==
  ASSUME LogInv, NEW t \in Thread, Write(t)
  PROVE  LogInv'
  <1> USE DEF Write
  <1>1. /\ UNCHANGED <<output, numbered, order, logState>> /\ logging[t] = "write" /\ ~Rotating
        /\ logging' \in [Thread -> {"no", "write", "rotate"}] /\ logging'[t] # "write"
        /\ \A u \in Thread : u # t => logging'[u] = logging[u] /\ logging[u] # "rotate"
    <2>1. ~Rotating
      BY DEF Free, Rotating
    <2> QED BY <2>1 DEF LogInv, LogTyped, Rotating
  <1>2. numbered[t] \in Nat /\ <<t, numbered[t]>> \in Message
    BY DEF LogInv, LogTyped, Message
  <1>3. CASE output = NoFile
    <2>1. UNCHANGED <<logFiles, written, outputSize>> /\ logging'[t] = "no"
      BY <1>3 DEF LogInv, LogTyped
    <2>2. LogTyped'
      BY <1>1, <2>1 DEF LogInv, LogTyped
    <2>3. OutputInv'
      BY <1>1, <2>1 DEF LogInv, OutputInv, Rotating
    <2>4. FilesInv'
      BY <1>1, <2>1, ContentsSame DEF LogInv, FilesInv
    <2>5. NumberInv'
      <3>1. ASSUME NEW i \in 1..Len(written), logging'[written[i][1]] = "write"
            PROVE  logging[written[i][1]] = "write"
        <4>1. written[i] \in Message
          BY ElementOfSeq DEF LogInv, LogTyped
        <4> QED BY <1>1, <3>1, <4>1 DEF Message
      <3> QED BY <1>1, <2>1, <3>1 DEF LogInv, NumberInv
    <2> QED BY <2>2, <2>3, <2>4, <2>5 DEF LogInv
  <1>4. CASE output # NoFile
    <2> DEFINE message == <<t, numbered[t]>>
               n == Len(written)
    <2>1. /\ logFiles' = [logFiles EXCEPT ![output] = Append(@, message)]
          /\ written' = Append(written, message)
          /\ outputSize' = outputSize + 1
          /\ logging'[t] = IF outputSize' >= MaxFileSize THEN "rotate" ELSE "no"
      BY <1>4 DEF LogInv, LogTyped
    <2>2. /\ logFiles' \in [DOMAIN logFiles' -> Seq(Message)]
          /\ DOMAIN logFiles' = DOMAIN logFiles
          /\ Len(logFiles'[output]) = Len(logFiles[output]) + 1
          /\ FilesInv'
      <3> HIDE DEF message, Write
      <3> QED BY <1>1, <1>2, <1>4, <2>1, WriteAppends DEF message
    <2>3. /\ n \in Nat /\ written' \in Seq(Message) /\ Len(written') = n + 1
          /\ written'[n + 1] = message /\ \A i \in 1..n : written'[i] = written[i]
      <3> HIDE DEF message
      <3> QED BY <1>2, <2>1, AppendProperties, LenProperties DEF LogInv, LogTyped, message
    <2>4. LogTyped'
      BY <1>1, <2>1, <2>2, <2>3 DEF LogInv, LogTyped
    <2>5. OutputInv'
      <3>1. /\ Len(order) > 0 /\ output = order[Len(order)] /\ outputSize < MaxFileSize
            /\ outputSize = Len(logFiles[output]) /\ outputSize \in Nat /\ logState # "new"
        BY <1>1, <1>4 DEF LogInv, LogTyped, OutputInv
      <3>2. outputSize' <= MaxFileSize /\ outputSize' = Len(logFiles'[output])
        BY <2>1, <2>2, <3>1, FileLoggerAssumption
      <3>3. Rotating' => outputSize' = MaxFileSize
        BY <1>1, <2>1, <3>1, <3>2, FileLoggerAssumption DEF Rotating
      <3>4. ~Rotating' => outputSize' < MaxFileSize
        BY <1>1, <2>1, <3>1, <3>2, FileLoggerAssumption DEF Rotating
      <3>5. \A u, v \in Thread : logging'[u] = "rotate" /\ logging'[v] = "rotate" => u = v
        BY <1>1
      <3> QED BY <1>1, <1>4, <3>1, <3>2, <3>3, <3>4, <3>5 DEF OutputInv, Rotating
    <2>6. NumberInv'
      <3>1. ASSUME NEW i \in 1..n
            PROVE  /\ written[i][1] \in Thread /\ written[i][2] \in Nat
                   /\ written[i][2] <= numbered[written[i][1]]
                   /\ logging'[written[i][1]] = "write" => written[i][2] < numbered[written[i][1]]
                   /\ written[i] # message
        <4>1. written[i] \in Message
          BY ElementOfSeq DEF LogInv, LogTyped
        <4>2. written[i][1] \in Thread /\ written[i][2] \in Nat
              /\ numbered[written[i][1]] \in Nat
          BY <4>1 DEF Message, LogInv, LogTyped
        <4>3. /\ written[i][2] <= numbered[written[i][1]]
              /\ logging[written[i][1]] = "write" => written[i][2] < numbered[written[i][1]]
          BY DEF LogInv, NumberInv
        <4>4. logging'[written[i][1]] = "write" => logging[written[i][1]] = "write"
          BY <1>1, <4>2
        <4>5. written[i] # message
          <5>1. written[i] = message => written[i][1] = t /\ written[i][2] = numbered[t]
            OBVIOUS
          <5> QED BY <1>1, <4>2, <4>3, <5>1
        <4> QED BY <4>2, <4>3, <4>4, <4>5
      <3>2. message[1] = t /\ message[2] = numbered[t]
        OBVIOUS
      <3>3. ASSUME NEW i \in 1..n + 1
            PROVE  /\ written'[i][2] <= numbered[written'[i][1]]
                   /\ logging'[written'[i][1]] = "write"
                        => written'[i][2] < numbered[written'[i][1]]
        <4>1. CASE i \in 1..n
          BY <2>3, <3>1, <4>1
        <4>2. CASE i = n + 1
          BY <1>1, <1>2, <2>3, <3>2, <4>2
        <4> QED BY <2>3, <4>1, <4>2
      <3>4. ASSUME NEW i \in 1..n + 1, NEW j \in 1..n + 1, i # j PROVE written'[i] # written'[j]
        <4>1. CASE i \in 1..n /\ j \in 1..n
          BY <2>3, <3>4, <4>1 DEF LogInv, NumberInv
        <4>2. CASE i = n + 1
          <5>1. j \in 1..n
            BY <2>3, <3>4, <4>2
          <5> QED BY <2>3, <3>1, <4>2, <5>1
        <4>3. CASE j = n + 1
          <5>1. i \in 1..n
            BY <2>3, <3>4, <4>3
          <5> QED BY <2>3, <3>1, <4>3, <5>1
        <4> QED BY <2>3, <4>1, <4>2, <4>3
      <3> HIDE DEF message
      <3> QED BY <1>1, <2>3, <3>3, <3>4 DEF NumberInv
    <2> QED BY <2>2, <2>4, <2>5, <2>6 DEF LogInv
  <1> QED BY <1>3, <1>4

LEMMA RotateKeeps ==
  ASSUME LogInv, NEW t \in Thread, Rotate(t)
  PROVE  LogInv'
  <1>1. /\ logging[t] = "rotate" /\ Rotating /\ ~Rotating' /\ UNCHANGED <<numbered, written>>
        /\ logging' \in [Thread -> {"no", "write", "rotate"}]
        /\ \A u \in Thread : logging'[u] = "write" => logging[u] = "write"
        /\ Len(order) > 0 /\ Len(logFiles[order[Len(order)]]) = MaxFileSize
        /\ logState # "new"
    BY DEF Rotate, LogInv, LogTyped, OutputInv, Rotating
  <1>2. NumberInv'
    <2>1. ASSUME NEW i \in 1..Len(written), logging'[written[i][1]] = "write"
          PROVE  logging[written[i][1]] = "write"
      <3>1. written[i] \in Message
        BY ElementOfSeq DEF LogInv, LogTyped
      <3> QED BY <1>1, <2>1, <3>1 DEF Message
    <2> QED BY <1>1, <2>1 DEF LogInv, NumberInv
  <1>3. CASE CreateLogFile(TRUE) /\ outputSize' = 0 /\ logState' = logState
    <2>1. /\ output' # NoFile /\ Len(order)' = Len(order) + 1 /\ output' = order'[Len(order)']
          /\ Len(logFiles[output])' = 0 /\ order' \in Seq(DOMAIN logFiles')
          /\ logFiles' \in [DOMAIN logFiles' -> Seq(Message)] /\ IsFiniteSet(DOMAIN logFiles')
          /\ FilesInv'
      BY <1>1, <1>3, OpensNew
    <2>2. LogTyped'
      BY <1>1, <1>3, <2>1 DEF LogInv, LogTyped
    <2>3. Len(order) \in Nat
      BY ContentsTyped DEF LogInv
    <2>4. OutputInv'
      BY <1>1, <1>3, <2>1, <2>3, FileLoggerAssumption DEF OutputInv, Rotating
    <2> QED BY <1>2, <2>1, <2>2, <2>4 DEF LogInv
  <1>4. CASE CreateLogFile(FALSE) /\ outputSize' = outputSize /\ logState' = "failed"
    <2>1. output' = NoFile /\ UNCHANGED <<logFiles, order>>
      BY <1>4 DEF CreateLogFile
    <2>2. LogTyped'
      BY <1>1, <1>4, <2>1 DEF LogInv, LogTyped
    <2>3. FilesInv'
      BY <1>1, <2>1, ContentsSame DEF LogInv, FilesInv
    <2>4. OutputInv'
      BY <1>1, <1>4, <2>1 DEF LogInv, OutputInv, Rotating
    <2> QED BY <1>2, <2>2, <2>3, <2>4 DEF LogInv
  <1> QED BY <1>3, <1>4 DEF Rotate

LEMMA LoggerDestroyKeeps ==
  ASSUME LogInv, LoggerDestroy
  PROVE  LogInv'
  <1> USE DEF LoggerDestroy
  <1>1. LogTyped'
    BY DEF LogInv, LogTyped
  <1>2. OutputInv'
    BY DEF LogInv, OutputInv, Rotating
  <1>3. FilesInv'
    BY ContentsSame DEF LogInv, FilesInv
  <1>4. NumberInv'
    BY DEF LogInv, NumberInv
  <1> QED BY <1>1, <1>2, <1>3, <1>4 DEF LogInv

LEMMA LogStepKeeps ==
  ASSUME LogInv, LogStep
  PROVE  LogInv'
  BY LogKeeps, WriteKeeps, RotateKeeps DEF LogStep
-----------------------------------------------------------------------------
(* What the invariant says of the properties of the log. *)

LEMMA LogInvTypes ==
  ASSUME LogInv
  PROVE  LogTypeOK
  <1>1. output # NoFile => output \in DOMAIN logFiles
    <2>1. output # NoFile => Len(order) > 0 /\ output = order[Len(order)]
      BY DEF LogInv, OutputInv
    <2> QED BY <2>1, ContentsTyped DEF LogInv
  <1> QED BY <1>1, FileLoggerAssumption DEF LogInv, LogTyped, OutputInv, LogTypeOK

LEMMA LogInvComplete ==
  ASSUME LogInv
  PROVE  LogComplete
  <1>1. DOMAIN order = 1..Len(order) /\ DOMAIN written = 1..Len(written)
    BY LenProperties DEF LogInv, LogTyped
  <1>2. FlattenSeq([i \in DOMAIN order |-> logFiles[order[i]]]) = written
    BY <1>1 DEF LogInv, FilesInv, Contents
  <1> QED BY <1>1, <1>2 DEF LogInv, FilesInv, NumberInv, LogComplete
-----------------------------------------------------------------------------
(* The process. *)

Stopping(a) == at[a] \in {"test", "lock", "wait", "close"}
Reloading(c) ==
  \/ at[c] \in {"test", "lock", "wait", "load", "loading", "start"}
  \/ at[c] = "close" /\ command[c] = "reload"

\* Where each actor may be.
PlacesInv ==
  /\ at \in [Actor -> {"init", "sockets", "settings", "dispatch", "find", "send", "log",
                       "handlers", "detach", "http", "commands", "join", "idle", "reply",
                       "begin", "test", "lock", "wait", "close", "load", "loading", "start",
                       "logger", "exit"}]
  /\ at["main"] \notin {"idle", "reply", "test", "lock", "wait", "load", "loading", "start"}
  /\ at["signal"] \in {"idle", "begin", "close", "logger", "exit"}
  /\ signalled = "none" => at["signal"] = "idle"
  /\ command \in [Command -> {"none", "stop", "reload"}]
  /\ \A c \in Command :
       /\ at[c] # "idle" => at["main"] = "join"
       /\ \/ at[c] = "idle" /\ command[c] = "none"
          \/ at[c] \in {"reply", "begin", "close"} /\ command[c] # "none"
          \/ at[c] \in {"test", "lock", "wait", "load", "loading", "start"}
               /\ command[c] = "reload"
          \/ at[c] \in {"logger", "exit"} /\ command[c] = "stop"

\* stopMutex_ is held inside stop(), which has set the flag.
MutexInv ==
  /\ stopMutex \in Actor \cup {"none"}
  /\ \A a \in Actor : stopMutex = a <=> Stopping(a)
  /\ stopMutex # "none" => isStopped

CountInv ==
  /\ accepting \in Nat /\ checked \in Nat /\ accepting + checked <= MaxAcceptors
  /\ workers \in Nat /\ workers <= MaxHttpWorkers

FlagInv ==
  /\ {isStopped, mainThread, socket, overlapped, late, missed} \subseteq BOOLEAN
  /\ mainThread => socket
  /\ exitCode \in {-1, 0, 1, 2, 3, 4, 10}

\* Two reloads at once, from stop() to start(), have overlapped.  Else the one there is
\* keeps the flag set until it starts the server again.
OverlapInv ==
  /\ \A c, d \in Command : c # d /\ Reloading(c) /\ Reloading(d) => overlapped
  /\ ~overlapped => \A c \in Command : at[c] \in {"load", "loading"} => isStopped

\* A reload behind its wait has no workers; nor has a server that is stopped while
\* nobody is between stop() and what follows it: the next reload will not wait.
WorkersInv ==
  ~overlapped /\ ~late =>
    /\ \A c \in Command :
         \/ at[c] = "close" /\ command[c] = "reload"
         \/ at[c] \in {"load", "loading"}
         => workers = 0
    /\ isStopped /\ stopMutex = "none" /\ (\A a \in Actor : ~Busy(a)) => workers = 0

CoreInv ==
  PlacesInv /\ MutexInv /\ CountInv /\ FlagInv /\ OverlapInv /\ WorkersInv


LEMMA Actors ==
  /\ "main" \in Actor /\ "signal" \in Actor /\ "none" \notin Actor
  /\ \A c \in Command : c \in Actor /\ c # "main" /\ c # "signal" /\ c # "none"
  /\ MaxHttpWorkers \in Nat /\ MaxAcceptors \in Nat
  BY ServerProcessAssumption DEF Actor


LEMMA InitCore ==
  ASSUME Init
  PROVE  CoreInv
  <1> USE Actors DEF Init
  <1>1. PlacesInv
    BY DEF PlacesInv
  <1>2. \A a \in Actor : ~Stopping(a) /\ ~Busy(a)
    BY DEF Stopping, Busy
  <1>3. \A c \in Command : ~Reloading(c) /\ at[c] = "idle"
    BY DEF Reloading
  <1>4. MutexInv
    BY <1>2 DEF MutexInv
  <1>5. CountInv
    BY DEF CountInv
  <1>6. FlagInv
    BY DEF FlagInv
  <1>7. OverlapInv /\ WorkersInv
    BY <1>3 DEF OverlapInv, WorkersInv
  <1> QED BY <1>1, <1>4, <1>5, <1>6, <1>7 DEF CoreInv

\* Most steps of main before it joins: it goes on, or the process ends.
LEMMA MainMoves ==
  ASSUME CoreInv, exitCode' \in {-1, 1, 2, 3, 4},
         at["main"] \notin {"join", "begin", "close", "logger", "exit"},
         \/ at' = at
         \/ \E place \in {"sockets", "settings", "dispatch", "find", "send", "log", "handlers",
                          "detach", "http", "commands", "join", "begin"} : Goes("main", place),
         UNCHANGED <<httpVars, poolVars, commandVars, signalled>>
  PROVE  CoreInv'
  <1> USE Actors DEF CoreInv, PlacesInv, Goes, httpVars, poolVars, commandVars
  <1>1. PlacesInv'
    OBVIOUS
  <1>2. /\ \A a \in Actor : a # "main" => at'[a] = at[a]
        /\ ~Stopping("main") /\ ~Stopping("main")' /\ ~Busy("main") /\ ~Busy("main")'
    BY DEF Stopping, Busy
  <1>3. \A a \in Actor : (Stopping(a)' <=> Stopping(a)) /\ (Busy(a)' <=> Busy(a))
    BY <1>2 DEF Stopping, Busy
  <1>4. MutexInv'
    BY <1>3 DEF MutexInv
  <1>5. \A c \in Command : (Reloading(c)' <=> Reloading(c)) /\ at'[c] = at[c]
    BY <1>2 DEF Reloading
  <1>6. OverlapInv'
    BY <1>5 DEF OverlapInv
  <1>7. WorkersInv'
    BY <1>3, <1>5 DEF WorkersInv
  <1> QED BY <1>1, <1>4, <1>6, <1>7 DEF CountInv, FlagInv

\* The handler of signals begins, on the thread of t.
LEMMA Raises ==
  ASSUME CoreInv, NEW t, t # "none", Raise(t), exitCode' = exitCode,
         UNCHANGED <<httpVars, poolVars, commandVars>>
  PROVE  CoreInv'
  <1> USE Actors DEF CoreInv, PlacesInv, Raise, Goes, httpVars, poolVars, commandVars
  <1>1. PlacesInv'
    OBVIOUS
  <1>2. /\ \A a \in Actor : a # "signal" => at'[a] = at[a]
        /\ ~Stopping("signal") /\ ~Stopping("signal")' /\ ~Busy("signal") /\ ~Busy("signal")'
    BY DEF Stopping, Busy
  <1>3. \A a \in Actor : (Stopping(a)' <=> Stopping(a)) /\ (Busy(a)' <=> Busy(a))
    BY <1>2 DEF Stopping, Busy
  <1>4. MutexInv'
    BY <1>3 DEF MutexInv
  <1>5. \A c \in Command : (Reloading(c)' <=> Reloading(c)) /\ at'[c] = at[c]
    BY <1>2 DEF Reloading
  <1>6. OverlapInv'
    BY <1>5 DEF OverlapInv
  <1>7. WorkersInv'
    BY <1>3, <1>5 DEF WorkersInv
  <1> QED BY <1>1, <1>4, <1>6, <1>7 DEF CountInv, FlagInv

LEMMA MainKeeps ==
  ASSUME CoreInv,
         InitProcess \/ InitSockets \/ LoadSettings \/ Dispatch \/ FindRunningServer
           \/ SendCommand \/ InitLogger \/ InitHandlers \/ Detach \/ StartCommands
  PROVE  CoreInv'
  <1> USE MainMoves DEF Main, Is, Exit
  <1>1. CASE InitProcess
    BY <1>1 DEF InitProcess
  <1>2. CASE InitSockets
    BY <1>2 DEF InitSockets
  <1>3. CASE LoadSettings
    BY <1>3, Raises DEF LoadSettings
  <1>4. CASE Dispatch
    BY <1>4 DEF Dispatch
  <1>5. CASE FindRunningServer
    BY <1>5, Raises DEF FindRunningServer
  <1>6. CASE SendCommand
    BY <1>6, Raises DEF SendCommand
  <1>7. CASE InitLogger
    BY <1>7 DEF InitLogger
  <1>8. CASE InitHandlers
    BY <1>8 DEF InitHandlers
  <1>9. CASE Detach
    BY <1>9 DEF Detach
  <1>10. CASE StartCommands
    BY <1>10 DEF StartCommands
  <1> QED BY <1>1, <1>2, <1>3, <1>4, <1>5, <1>6, <1>7, <1>8, <1>9, <1>10

LEMMA SignalKeeps ==
  ASSUME CoreInv, Signal
  PROVE  CoreInv'
  BY Raises DEF Signal
-----------------------------------------------------------------------------
(* Server::start and Server::stop. *)

LEMMA StartServerKeeps ==
  ASSUME CountInv, FlagInv, NEW outcome, StartServer(outcome)
  PROVE  /\ stopMutex = "none" /\ stopMutex' = "none" /\ isStopped' = FALSE
         /\ UNCHANGED <<workers, late, missed>>
         /\ CountInv'
         /\ {mainThread', socket'} \subseteq BOOLEAN /\ (mainThread' => socket')
  <1> USE Actors DEF StartServer
  <1>1. CountInv'
    BY DEF CountInv
  <1>2. /\ mainThread \in BOOLEAN /\ socket \in BOOLEAN /\ (mainThread => socket)
    BY DEF FlagInv
  <1>3. \/ mainThread' = mainThread /\ socket' = socket
        \/ mainThread' = mainThread /\ ~mainThread /\ socket' = TRUE
        \/ mainThread' = TRUE /\ socket' = TRUE
    BY DEF AlreadyStarted, NoSocket, NoOptions, NotBound, NoThread
  <1>4. mainThread' \in BOOLEAN /\ socket' \in BOOLEAN /\ (mainThread' => socket')
    <2>1. CASE mainThread' = mainThread /\ socket' = socket
      BY <1>2, <2>1
    <2>2. CASE mainThread' = mainThread /\ socket' = TRUE
      BY <1>2, <2>2
    <2>3. CASE mainThread' = TRUE /\ socket' = TRUE
      BY <2>3
    <2> QED BY <1>3, <2>1, <2>2, <2>3
  <1> QED BY <1>1, <1>4

LEMMA StartHttpKeeps ==
  ASSUME CoreInv, StartHttp
  PROVE  CoreInv'
  <1> USE Actors DEF StartHttp, Main, Is, Goes, Exit, Raise, commandVars
  <1>1. PICK outcome : StartServer(outcome)
    OBVIOUS
  <1>2. /\ stopMutex = "none" /\ stopMutex' = "none" /\ isStopped' = FALSE
        /\ UNCHANGED <<workers, late, missed>>
        /\ CountInv'
        /\ {mainThread', socket'} \subseteq BOOLEAN /\ (mainThread' => socket')
    BY <1>1, StartServerKeeps DEF CoreInv
  <1> HIDE DEF StartServer
  <1>3. PlacesInv'
    BY DEF CoreInv, PlacesInv
  <1>4. MutexInv'
    BY <1>2 DEF CoreInv, PlacesInv, MutexInv, Stopping
  <1>5. FlagInv'
    BY <1>2 DEF CoreInv, FlagInv
  <1>6. \A c \in Command : at'[c] = "idle"
    BY DEF CoreInv, PlacesInv
  <1>7. OverlapInv' /\ WorkersInv'
    BY <1>2, <1>6 DEF OverlapInv, WorkersInv, Reloading
  <1> QED BY <1>2, <1>3, <1>4, <1>5, <1>7 DEF CoreInv

\* No reload can be found on its way: a second one either sees the mutex held, or
\* overlaps.
LEMMA StopBeginKeeps ==
  ASSUME CoreInv, NEW a \in Actor, StopBegin(a)
  PROVE  CoreInv'
  <1> USE Actors DEF StopBegin, AfterStop, WaitsForWorkers, Is, Goes, poolVars
  <1>1. /\ at[a] = "begin" /\ stopMutex = "none" /\ isStopped' = TRUE
        /\ at' = [at EXCEPT ![a] = at'[a]] /\ stopMutex' \in {"none", a}
        /\ UNCHANGED <<signalled, command, workers, late, missed, accepting, checked,
                       mainThread, socket, exitCode>>
    BY DEF CoreInv, PlacesInv
  <1>2. a \in Command /\ command[a] = "reload"
        => /\ at'[a] = IF isStopped THEN "load" ELSE "test"
           /\ overlapped' = (overlapped \/ \E b \in Actor \ {a} : Busy(b))
    BY DEF CoreInv, PlacesInv
  <1>3. ~(a \in Command /\ command[a] = "reload")
        => at'[a] = (IF isStopped THEN "logger" ELSE "close") /\ overlapped' = overlapped
    BY DEF CoreInv, PlacesInv, FlagInv
  <1>4. stopMutex' = IF isStopped THEN "none" ELSE a
    BY <1>1
  <1>5. \A b \in Actor : ~Stopping(b)
    BY <1>1 DEF CoreInv, MutexInv
  <1> HIDE DEF StopBegin, AfterStop, WaitsForWorkers, Goes
  <1>6. \A b \in Actor : b # a => at'[b] = at[b]
    BY <1>1 DEF CoreInv, PlacesInv
  <1>7. PlacesInv'
    <2>1. at'[a] \in {"load", "test", "logger", "close"}
      BY <1>2, <1>3
    <2>2. a = "main" \/ a = "signal" => at'[a] \in {"logger", "close"}
      BY <1>3
    <2>3. a \in Command =>
            \/ command[a] = "stop" /\ at'[a] \in {"logger", "close"}
            \/ command[a] = "reload" /\ at'[a] \in {"load", "test"}
      BY <1>1, <1>2, <1>3 DEF CoreInv, PlacesInv
    <2> QED BY <1>1, <1>6, <2>1, <2>2, <2>3 DEF CoreInv, PlacesInv
  <1>8. MutexInv'
    BY <1>1, <1>2, <1>3, <1>4, <1>5, <1>6 DEF CoreInv, MutexInv, Stopping
  <1>9. OverlapInv'
    <2>1. \A b \in Command : Reloading(b) => Busy(b)
      BY <1>5 DEF Reloading, Stopping, Busy
    <2>2. \A b \in Command : b # a => (Reloading(b)' <=> Reloading(b))
      BY <1>1, <1>6 DEF Reloading
    <2>3. Reloading(a)' /\ a \in Command => command[a] = "reload"
      BY <1>1, <1>3 DEF Reloading
    <2>4. overlapped => overlapped'
      BY <1>2, <1>3
    <2>5. ASSUME NEW c \in Command, NEW d \in Command, c # d, Reloading(c)', Reloading(d)'
          PROVE  overlapped'
      <3>1. CASE c = a
        BY <1>2, <2>1, <2>2, <2>3, <2>5, <3>1
      <3>2. CASE d = a
        BY <1>2, <2>1, <2>2, <2>3, <2>5, <3>2
      <3>3. CASE c # a /\ d # a
        BY <2>2, <2>4, <2>5, <3>3 DEF CoreInv, OverlapInv
      <3> QED BY <3>1, <3>2, <3>3
    <2> QED BY <1>1, <2>5 DEF OverlapInv
  <1>10. WorkersInv'
    <2>1. \A b \in Actor : b # a => (Busy(b)' <=> Busy(b))
      BY <1>6 DEF Busy
    <2>2. overlapped => overlapped'
      BY <1>2, <1>3
    <2>3. CASE isStopped /\ a \in Command /\ command[a] = "reload"
      <3>1. ~overlapped' => \A b \in Actor : ~Busy(b)
        BY <1>1, <1>2, <2>3 DEF Busy
      <3> QED BY <1>1, <1>2, <1>6, <2>2, <2>3, <3>1 DEF CoreInv, WorkersInv
    <2>4. CASE ~(isStopped /\ a \in Command /\ command[a] = "reload")
      <3>1. stopMutex' # "none" \/ Busy(a)'
        BY <1>3, <1>4, <2>4 DEF Busy
      <3>2. a \in Command => ~(at'[a] = "close" /\ command[a] = "reload")
                             /\ at'[a] \notin {"load", "loading"}
        BY <1>2, <1>3, <2>4
      <3> QED BY <1>1, <1>6, <2>2, <3>1, <3>2 DEF CoreInv, WorkersInv
    <2> QED BY <2>3, <2>4
  <1>11. CountInv' /\ FlagInv'
    BY <1>1, <1>2, <1>3 DEF CoreInv, CountInv, FlagInv
  <1> QED BY <1>7, <1>8, <1>9, <1>10, <1>11 DEF CoreInv

\* One step inside stop(): the test, or the wait.
LEMMA StopTestKeeps ==
  ASSUME CoreInv, NEW a \in Actor, StopTest(a) \/ StopWait(a)
  PROVE  CoreInv'
  <1> USE Actors DEF StopTest, StopWait, Is, Goes, httpVars, poolVars, commandVars
  <1>1. PlacesInv'
    BY DEF CoreInv, PlacesInv
  <1>2. MutexInv'
    BY DEF CoreInv, PlacesInv, MutexInv, Stopping
  <1>3. CountInv' /\ FlagInv'
    BY DEF CoreInv, CountInv, FlagInv
  <1>4. OverlapInv'
    BY DEF CoreInv, PlacesInv, OverlapInv, Reloading
  <1>5. WorkersInv'
    BY DEF CoreInv, PlacesInv, MutexInv, CountInv, WorkersInv, Stopping, Busy
  <1> QED BY <1>1, <1>2, <1>3, <1>4, <1>5 DEF CoreInv

LEMMA StopCloseKeeps ==
  ASSUME CoreInv, NEW a \in Actor, StopClose(a)
  PROVE  CoreInv'
  <1> USE Actors DEF StopClose, Is, Goes, poolVars, commandVars
  <1>1. at'[a] = (IF a \in Command /\ command[a] = "reload" THEN "load" ELSE "logger")
        /\ \A b \in Actor : b # a => at'[b] = at[b]
    BY DEF CoreInv, PlacesInv, AfterStop, WaitsForWorkers
  <1>2. PlacesInv'
    <2>1. a \in Command => command[a] \in {"stop", "reload"}
      BY DEF CoreInv, PlacesInv
    <2>2. at'[a] \in {"load", "logger"} /\ at' = [at EXCEPT ![a] = at'[a]]
      BY <1>1 DEF CoreInv, PlacesInv
    <2> HIDE DEF Goes
    <2> QED BY <1>1, <2>1, <2>2 DEF CoreInv, PlacesInv
  <1>3. MutexInv' /\ isStopped' = TRUE
    BY <1>1 DEF CoreInv, MutexInv, Stopping, FlagInv
  <1>4. CountInv' /\ FlagInv'
    BY DEF CoreInv, CountInv, FlagInv
  <1>5. OverlapInv'
    BY <1>1, <1>3 DEF CoreInv, PlacesInv, OverlapInv, Reloading
  <1>6. WorkersInv'
    BY <1>1 DEF CoreInv, PlacesInv, WorkersInv, Busy
  <1> QED BY <1>2, <1>3, <1>4, <1>5, <1>6 DEF CoreInv

\* destroy() after stop(): the log is closed, the process ends.
LEMMA DestroyKeeps ==
  ASSUME CoreInv, NEW a \in Actor, CloseLog(a) \/ End(a)
  PROVE  CoreInv'
  <1> USE Actors DEF CloseLog, End, Is, Goes, Exit, httpVars, poolVars, commandVars
  <1>1. PlacesInv'
    BY DEF CoreInv, PlacesInv
  <1>2. MutexInv'
    BY DEF CoreInv, PlacesInv, MutexInv, Stopping
  <1>3. CountInv' /\ FlagInv'
    BY DEF CoreInv, CountInv, FlagInv
  <1>4. OverlapInv'
    BY DEF CoreInv, PlacesInv, OverlapInv, Reloading
  <1>5. WorkersInv'
    BY DEF CoreInv, PlacesInv, WorkersInv, Busy
  <1> QED BY <1>1, <1>2, <1>3, <1>4, <1>5 DEF CoreInv
-----------------------------------------------------------------------------
(* processCommand. *)

\* The steps that neither load nor start: a command comes, load() begins, or the reply
\* is sent.
LEMMA CommandKeeps ==
  ASSUME CoreInv, NEW c \in Command, Receive(c) \/ ReloadBegin(c) \/ Reply(c)
  PROVE  CoreInv'
  <1> USE Actors DEF Receive, ReloadBegin, Reply, Done, Is, Goes, httpVars, poolVars, commandVars
  <1>1. PlacesInv'
    BY DEF CoreInv, PlacesInv
  <1>2. MutexInv'
    BY DEF CoreInv, PlacesInv, MutexInv, Stopping
  <1>3. CountInv' /\ FlagInv'
    BY DEF CoreInv, CountInv, FlagInv
  <1>4. OverlapInv'
    BY DEF CoreInv, PlacesInv, OverlapInv, Reloading
  <1>5. WorkersInv'
    BY DEF CoreInv, PlacesInv, WorkersInv, Busy
  <1> QED BY <1>1, <1>2, <1>3, <1>4, <1>5 DEF CoreInv

\* A reload that leaves load(), with the server still stopped and no worker, or start(),
\* with the flag reset; or it stays there, for the process has been aborted.
LEMMA ReloadMoves ==
  ASSUME CoreInv, NEW c \in Command, at[c] \in {"loading", "start"}, exitCode' = exitCode,
         \/ Goes(c, "reply") /\ UNCHANGED <<command, signalled>>
         \/ at[c] = "loading" /\ Goes(c, "start") /\ UNCHANGED <<command, signalled>>
         \/ Done(c) /\ UNCHANGED signalled
         \/ Raise(c) /\ UNCHANGED command,
         UNCHANGED <<received, overlapped, workers, late, missed>>,
         \/ at[c] = "loading" /\ UNCHANGED <<httpVars, poolVars>>
         \/ /\ at[c] = "start" /\ isStopped' = FALSE /\ stopMutex = "none" /\ stopMutex' = "none"
            /\ CountInv' /\ mainThread' \in BOOLEAN /\ socket' \in BOOLEAN
            /\ (mainThread' => socket')
  PROVE  CoreInv'
  <1> USE Actors DEF Raise, Done, Goes, httpVars, poolVars
  <1>1. PlacesInv'
    <2>1. CASE (Goes(c, "reply") \/ Goes(c, "start")) /\ UNCHANGED <<command, signalled>>
      BY <2>1 DEF CoreInv, PlacesInv
    <2>2. CASE Done(c) /\ UNCHANGED signalled
      BY <2>2 DEF CoreInv, PlacesInv
    <2>3. CASE Raise(c) /\ UNCHANGED command
      BY <2>3 DEF CoreInv, PlacesInv
    <2> QED BY <2>1, <2>2, <2>3
  <1>2. /\ \A a \in Actor : a # c /\ a # "signal" => at'[a] = at[a]
        /\ at'["signal"] = at["signal"] \/ (at["signal"] = "idle" /\ at'["signal"] = "begin")
        /\ \A d \in Command : d # c => command'[d] = command[d]
        /\ at'[c] \in {"reply", "start", "idle", at[c]} /\ command[c] = "reload"
    BY DEF CoreInv, PlacesInv
  <1> HIDE DEF Raise, Done, Goes
  <1>3. MutexInv'
    BY <1>2 DEF CoreInv, MutexInv, Stopping
  <1>4. CountInv'
    BY DEF CoreInv, CountInv
  <1>5. FlagInv'
    <2>1. CASE UNCHANGED <<httpVars, poolVars>>
      BY <2>1 DEF CoreInv, FlagInv
    <2>2. CASE isStopped' = FALSE /\ mainThread' \in BOOLEAN /\ socket' \in BOOLEAN
               /\ (mainThread' => socket')
      BY <2>2 DEF CoreInv, FlagInv
    <2> QED BY <2>1, <2>2
  <1>6. ASSUME NEW d \in Command, ~overlapped, d # c PROVE ~Reloading(d) /\ ~Reloading(d)'
    <2>1. Reloading(c)
      BY DEF Reloading
    <2>2. ~Reloading(d)
      BY <1>6, <2>1 DEF CoreInv, OverlapInv
    <2> QED BY <1>2, <1>6, <2>2 DEF Reloading
  <1>7. OverlapInv'
    <2>1. ~overlapped /\ at'[c] = "loading" => isStopped'
      BY <1>2 DEF CoreInv, OverlapInv
    <2>2. ~overlapped => at'[c] # "load"
      BY <1>2
    <2>3. \A d \in Command : ~Reloading(d)' => at'[d] \notin {"load", "loading"}
      BY DEF Reloading
    <2> QED BY <1>6, <2>1, <2>2, <2>3 DEF OverlapInv
  <1>8. WorkersInv'
    <2>1. at[c] = "loading" /\ ~overlapped /\ ~late => workers = 0
      BY DEF CoreInv, WorkersInv
    <2>2. at[c] = "start" => at'[c] \notin {"close", "load", "loading"} /\ isStopped' = FALSE
      BY <1>2
    <2>3. \A d \in Command : ~Reloading(d)'
            => ~(at'[d] = "close" /\ command'[d] = "reload") /\ at'[d] \notin {"load", "loading"}
      BY DEF Reloading
    <2> QED BY <1>6, <2>1, <2>2, <2>3 DEF WorkersInv
  <1> QED BY <1>1, <1>3, <1>4, <1>5, <1>7, <1>8 DEF CoreInv

LEMMA ReloadEndKeeps ==
  ASSUME CoreInv, NEW c \in Command, ReloadEnd(c)
  PROVE  CoreInv'
  BY Actors, ReloadMoves DEF ReloadEnd, Unexpected, Is, httpVars, poolVars

LEMMA ReloadStartKeeps ==
  ASSUME CoreInv, NEW c \in Command, ReloadStart(c)
  PROVE  CoreInv'
  <1>1. PICK outcome : StartServer(outcome)
    BY DEF ReloadStart
  <1>2. /\ stopMutex = "none" /\ stopMutex' = "none" /\ isStopped' = FALSE
        /\ UNCHANGED <<workers, late, missed>>
        /\ CountInv'
        /\ mainThread' \in BOOLEAN /\ socket' \in BOOLEAN /\ (mainThread' => socket')
    BY <1>1, StartServerKeeps DEF CoreInv
  <1>3. /\ at[c] = "start" /\ UNCHANGED <<exitCode, received, overlapped>>
        /\ \/ Goes(c, "reply") /\ UNCHANGED <<command, signalled>>
           \/ Done(c) /\ UNCHANGED signalled
           \/ Raise(c) /\ UNCHANGED command
    BY DEF ReloadStart, Unexpected, Is
  <1> QED BY <1>2, <1>3, ReloadMoves
-----------------------------------------------------------------------------
(* The threads of the HTTP server. *)

LEMMA AcceptorKeeps ==
  ASSUME CoreInv, AcceptorChecks \/ AcceptorSpawns
  PROVE  CoreInv'
  <1> USE Actors DEF AcceptorChecks, AcceptorSpawns, httpVars, commandVars
  <1>1. PlacesInv' /\ MutexInv' /\ OverlapInv'
    BY DEF CoreInv, PlacesInv, MutexInv, OverlapInv, Stopping, Reloading
  <1>2. CountInv'
    BY DEF CoreInv, CountInv
  <1>3. FlagInv'
    BY DEF CoreInv, FlagInv
  <1>4. WorkersInv'
    BY DEF CoreInv, MutexInv, OverlapInv, WorkersInv, Stopping, Busy
  <1> QED BY <1>1, <1>2, <1>3, <1>4 DEF CoreInv

LEMMA WorkerEndsKeeps ==
  ASSUME CoreInv, WorkerEnds
  PROVE  CoreInv'
  <1> USE Actors DEF WorkerEnds, Goes, httpVars, commandVars
  <1>1. PlacesInv'
    BY DEF CoreInv, PlacesInv
  <1>2. MutexInv'
    BY DEF CoreInv, PlacesInv, MutexInv, Stopping
  <1>3. CountInv'
    BY DEF CoreInv, CountInv
  <1>4. FlagInv'
    BY DEF CoreInv, FlagInv
  <1>5. OverlapInv'
    BY DEF CoreInv, PlacesInv, OverlapInv, Reloading
  <1>6. WorkersInv'
    BY DEF CoreInv, PlacesInv, CountInv, WorkersInv, Busy
  <1> QED BY <1>1, <1>2, <1>3, <1>4, <1>5, <1>6 DEF CoreInv
-----------------------------------------------------------------------------
(* All steps together, and the log. *)

ProcessInv == CoreInv /\ LogInv

LEMMA CoreKeeps ==
  ASSUME CoreInv, Next
  PROVE  CoreInv'
  <1>1. CASE \E a \in Actor : StopStep(a)
    BY <1>1, StopBeginKeeps, StopTestKeeps, StopCloseKeeps, DestroyKeeps DEF StopStep
  <1>2. CASE \E c \in Command : Receive(c) \/ ReloadBegin(c) \/ ReloadEnd(c) \/ ReloadStart(c)
                                \/ Reply(c)
    BY <1>2, CommandKeeps, ReloadEndKeeps, ReloadStartKeeps
  <1>3. CASE Logs
    BY <1>3 DEF Logs, serverVars, httpVars, poolVars, commandVars, CoreInv, PlacesInv, MutexInv,
                CountInv, FlagInv, OverlapInv, WorkersInv, Stopping, Reloading, Busy
  <1> QED BY <1>1, <1>2, <1>3, MainKeeps, SignalKeeps, StartHttpKeeps, AcceptorKeeps,
             WorkerEndsKeeps DEF Next

LEMMA CoreSame ==
  ASSUME CoreInv, UNCHANGED allVars
  PROVE  CoreInv'
  BY DEF allVars, serverVars, httpVars, poolVars, commandVars, CoreInv, PlacesInv, MutexInv,
         CountInv, FlagInv, OverlapInv, WorkersInv, Stopping, Reloading, Busy

\* Whoever ends the process may close the log at any moment.
LEMMA LogKept ==
  ASSUME LogInv, Next
  PROVE  LogInv'
  <1>1. \/ UNCHANGED logVars
        \/ LoggerInit \/ LoggerDestroy \/ LogStep
    <2>1. CASE \E a \in Actor : StopStep(a)
      BY <2>1 DEF StopStep, StopBegin, StopTest, StopWait, StopClose, CloseLog, End
    <2>2. CASE \E c \in Command : Receive(c) \/ ReloadBegin(c) \/ ReloadEnd(c)
                                  \/ ReloadStart(c) \/ Reply(c)
      BY <2>2 DEF Receive, ReloadBegin, ReloadEnd, ReloadStart, Reply
    <2>3. CASE InitProcess \/ InitSockets \/ LoadSettings \/ Dispatch \/ FindRunningServer
               \/ SendCommand \/ InitLogger \/ InitHandlers \/ Detach \/ StartHttp
               \/ StartCommands
      BY <2>3 DEF InitProcess, InitSockets, LoadSettings, Dispatch, FindRunningServer,
                  SendCommand, InitLogger, InitHandlers, Detach, StartHttp, StartCommands
    <2>4. CASE Signal \/ AcceptorChecks \/ AcceptorSpawns \/ WorkerEnds \/ Logs
      BY <2>4 DEF Signal, AcceptorChecks, AcceptorSpawns, WorkerEnds, Logs
    <2> QED BY <2>1, <2>2, <2>3, <2>4 DEF Next
  <1> QED BY <1>1, LogSame, LoggerInitKeeps, LoggerDestroyKeeps, LogStepKeeps

\* The invariant, for any number of threads, commands, acceptors, workers and messages.
THEOREM ProcessInvariant == ProcessSpec => []ProcessInv
  <1>1. Init => ProcessInv
    BY InitCore, LogInitInv, FileLoggerAssumption DEF Init, ProcessInv
  <1>2. ProcessInv /\ [Next]_allVars => ProcessInv'
    <2> SUFFICES ASSUME ProcessInv, [Next]_allVars PROVE ProcessInv'
      OBVIOUS
    <2>1. CASE Next
      BY <2>1, CoreKeeps, LogKept DEF ProcessInv
    <2>2. CASE UNCHANGED allVars
      BY <2>2, CoreSame, LogSame DEF ProcessInv, allVars
    <2> QED BY <2>1, <2>2
  <1> QED BY <1>1, <1>2, PTL DEF ProcessSpec

\* stopMutex_ is held by the actor that is inside stop() and by no other; the counts
\* keep to their bounds, the log to its types.
THEOREM ProcessTyped == ProcessSpec => []TypeOK
  <1>1. ProcessInv => TypeOK
    <2> SUFFICES ASSUME ProcessInv PROVE TypeOK
      OBVIOUS
    <2>1. LogTypeOK
      BY LogInvTypes DEF ProcessInv
    <2>2. accepting + checked \in 0..MaxAcceptors /\ workers \in 0..MaxHttpWorkers
      BY Actors DEF ProcessInv, CoreInv, CountInv
    <2> QED BY <2>1, <2>2 DEF ProcessInv, CoreInv, MutexInv, FlagInv, Stopping, TypeOK
  <1> QED BY <1>1, ProcessInvariant, PTL

\* A reload waits for the workers, or need not: a server that was stopped has none left,
\* and an acceptor that passed its test in time is the only one to start another.
THEOREM ReloadsAlone == ProcessSpec => []ReadersExcluded
  <1>1. ProcessInv => ReadersExcluded
    BY DEF ProcessInv, CoreInv, WorkersInv, ReadersExcluded
  <1> QED BY <1>1, ProcessInvariant, PTL

\* Every message that was written is in the files, once and in order, also when the
\* process ends while threads log.
THEOREM LogIsComplete == ProcessSpec => []LogComplete
  <1>1. ProcessInv => LogComplete
    BY LogInvComplete DEF ProcessInv
  <1> QED BY <1>1, ProcessInvariant, PTL
-----------------------------------------------------------------------------
(* What is served. *)

Good == Says(settings, lastLoaded)

LoadInv(States) ==
  /\ settings \in States
  /\ reading \in [Command -> DOMAIN Documents \cup {0}]
  /\ \A c \in Command : at[c] = "loading" /\ signalled # c => reading[c] \in DOMAIN Documents

Loads == {"dispatch", "find", "send", "log", "handlers", "detach", "http", "commands"}

\* The settings are good from main's load on, and while the flag is not set: a reload
\* that is loading set it, and only one that has loaded resets it.
ServingInv ==
  /\ at["main"] \in Loads => Good
  /\ ~overlapped /\ ((\E c \in Command : at[c] = "start") \/ (~isStopped /\ at["main"] = "join"))
       => Good

LEMMA GoodSame ==
  ASSUME Good, UNCHANGED <<settings, lastLoaded>>
  PROVE  Good'
  BY DEF Good

LEMMA GoodLoaded ==
  ASSUME NEW States, LoaderContract(States), settings \in States,
         NEW i \in DOMAIN Documents, settings' = Loaded(settings, Documents[i])
  PROVE  /\ settings' \in States
         /\ settings'.error = "none" /\ lastLoaded' = i => Good'
  BY DEF LoaderContract, Good

LEMMA ServingInit ==
  ASSUME NEW States, LoaderContract(States), Init
  PROVE  LoadInv(States) /\ ServingInv
  <1>1. at["main"] = "init" /\ \A c \in Command : at[c] = "idle"
    BY Actors DEF Init
  <1> QED BY <1>1 DEF Init, LoaderContract, LoadInv, ServingInv, Loads

\* Steps that load nothing: no new place, no flag reset, unless what is there is good.
LEMMA ServedOn ==
  ASSUME NEW States, LoadInv(States), ServingInv, UNCHANGED loadVars,
         at'["main"] \in Loads => at["main"] \in Loads,
         overlapped => overlapped',
         \A c \in Command : /\ at'[c] = "start" => at[c] = "start"
                            /\ at'[c] = "loading" /\ signalled' # c
                                 => at[c] = "loading" /\ signalled # c,
         ~overlapped /\ ~isStopped' /\ at'["main"] = "join"
           => \/ ~isStopped /\ at["main"] = "join"
              \/ at["main"] \in Loads
              \/ \E c \in Command : at[c] = "start"
  PROVE  LoadInv(States)' /\ ServingInv'
  <1>1. Good => Good'
    BY GoodSame DEF loadVars
  <1>2. LoadInv(States)'
    BY DEF LoadInv, loadVars
  <1>3. ServingInv'
    BY <1>1 DEF ServingInv
  <1> QED BY <1>2, <1>3

LEMMA ServedByMain ==
  ASSUME NEW States, LoaderContract(States), CoreInv, LoadInv(States), ServingInv,
         InitProcess \/ InitSockets \/ LoadSettings \/ Dispatch \/ FindRunningServer
           \/ SendCommand \/ InitLogger \/ InitHandlers \/ Detach \/ StartHttp \/ StartCommands
           \/ Signal
  PROVE  LoadInv(States)' /\ ServingInv'
  <1> USE Actors DEF Main, Is, Exit, Goes, Raise
  <1>1. \A c \in Command : at'[c] = at[c]
    <2>1. CASE InitProcess \/ InitSockets \/ LoadSettings \/ Dispatch \/ FindRunningServer
      BY <2>1 DEF CoreInv, PlacesInv, InitProcess, InitSockets, LoadSettings, Dispatch,
                  FindRunningServer
    <2>2. CASE SendCommand \/ InitLogger \/ InitHandlers \/ Detach
      BY <2>2 DEF CoreInv, PlacesInv, SendCommand, InitLogger, InitHandlers, Detach
    <2>3. CASE StartHttp \/ StartCommands \/ Signal
      BY <2>3 DEF CoreInv, PlacesInv, StartHttp, StartCommands, Signal
    <2> QED BY <2>1, <2>2, <2>3
  <1>2. overlapped' = overlapped /\ (signalled' = signalled \/ signalled = "none")
    BY DEF commandVars, InitProcess, InitSockets, LoadSettings, Dispatch, FindRunningServer,
           SendCommand, InitLogger, InitHandlers, Detach, StartHttp, StartCommands, Signal
  <1>3. CASE LoadSettings
    <2>1. at["main"] = "settings" /\ \A c \in Command : at[c] = "idle"
      BY <1>3 DEF LoadSettings, CoreInv, PlacesInv
    <2>2. at'["main"] # "join" /\ UNCHANGED reading
      BY <1>3 DEF LoadSettings, CoreInv, PlacesInv
    <2>3. PICK document \in DOMAIN Documents :
            LET loaded == Loaded(settings, Documents[document]) IN
            \/ loaded.error = "none" /\ settings' = loaded /\ lastLoaded' = document
            \/ at'["main"] = "settings" /\ UNCHANGED <<settings, lastLoaded>>
      BY <1>3, <2>1 DEF LoadSettings, CoreInv, PlacesInv
    <2>4. settings' \in States /\ (at'["main"] \in Loads => Good')
      BY <2>3, GoodLoaded DEF LoadInv, Loads
    <2>5. LoadInv(States)'
      BY <1>1, <2>1, <2>2, <2>4 DEF LoadInv
    <2>6. ServingInv'
      BY <1>1, <2>1, <2>2, <2>4 DEF ServingInv
    <2> QED BY <2>5, <2>6
  <1>4. CASE ~LoadSettings
    <2>1. UNCHANGED loadVars
      BY <1>4 DEF InitProcess, InitSockets, Dispatch, FindRunningServer, SendCommand,
                  InitLogger, InitHandlers, Detach, StartHttp, StartCommands, Signal
    <2>2. at'["main"] \in Loads => at["main"] \in Loads
      BY <1>4 DEF CoreInv, PlacesInv, Loads, InitProcess, InitSockets, Dispatch,
                  FindRunningServer, SendCommand, InitLogger, InitHandlers, Detach, StartHttp,
                  StartCommands, Signal
    <2>3. at'["main"] = "join"
            => at["main"] \in Loads \/ (at["main"] = "join" /\ isStopped' = isStopped)
      BY <1>4 DEF CoreInv, PlacesInv, Loads, httpVars, InitProcess, InitSockets, Dispatch,
                  FindRunningServer, SendCommand, InitLogger, InitHandlers, Detach, StartHttp,
                  StartCommands, Signal
    <2> QED BY <1>1, <1>2, <2>1, <2>2, <2>3, ServedOn
  <1> QED BY <1>3, <1>4

\* stop() sets the flag, and what follows it starts nothing.
LEMMA ServedByStop ==
  ASSUME NEW States, CoreInv, LoadInv(States), ServingInv, NEW a \in Actor, StopStep(a)
  PROVE  LoadInv(States)' /\ ServingInv'
  <1> USE Actors DEF Is, Goes, Exit
  <1> USE DEF StopStep, StopBegin, StopTest, StopWait, StopClose, CloseLog, End
  <1>1. UNCHANGED <<settings, lastLoaded, reading, signalled>>
    BY DEF loadVars
  <1>2. /\ \A b \in Actor : b # a => at'[b] = at[b]
        /\ at'[a] = at[a] \/ at'[a] \notin {"start", "loading", "join"} \cup Loads
    BY DEF CoreInv, PlacesInv, AfterStop, Loads
  <1>3. (overlapped => overlapped') /\ (isStopped' = isStopped \/ isStopped' = TRUE)
    <2>1. CASE StopBegin(a)
      BY <2>1
    <2>2. CASE ~StopBegin(a)
      BY <2>2 DEF httpVars, commandVars
    <2> QED BY <2>1, <2>2
  <1> HIDE DEF StopStep
  <1>4. UNCHANGED loadVars
    BY <1>1 DEF loadVars
  <1> QED BY <1>1, <1>2, <1>3, <1>4, ServedOn

LEMMA ServedByCommand ==
  ASSUME NEW States, LoaderContract(States), CoreInv, LoadInv(States), ServingInv,
         NEW c \in Command,
         Receive(c) \/ ReloadBegin(c) \/ ReloadEnd(c) \/ ReloadStart(c) \/ Reply(c)
  PROVE  LoadInv(States)' /\ ServingInv'
  <1> USE Actors DEF Is, Goes, Done
  <1>1. at["main"] = "join"
    BY DEF CoreInv, PlacesInv, Receive, ReloadBegin, ReloadEnd, ReloadStart, Reply
  <1>2. \A d \in Command : d # c => at'[d] = at[d]
    BY DEF CoreInv, PlacesInv, Raise, Unexpected, Receive, ReloadBegin, ReloadEnd,
           ReloadStart, Reply
  <1>3. /\ at'["main"] = "join" /\ (signalled' = signalled \/ signalled = "none")
        /\ overlapped' = overlapped
    BY <1>1 DEF CoreInv, PlacesInv, Raise, Unexpected, commandVars, Receive, ReloadBegin,
                ReloadEnd, ReloadStart, Reply
  <1>4. ~overlapped /\ Reloading(c) => \A d \in Command : d # c => ~Reloading(d)
    BY DEF CoreInv, OverlapInv
  <1>5. CASE ReloadBegin(c)
    <2>1. /\ at[c] = "load" /\ at'[c] = "loading" /\ signalled' = signalled
          /\ UNCHANGED <<isStopped, lastLoaded>>
          /\ reading' \in [Command -> DOMAIN Documents \cup {0}]
          /\ reading'[c] \in DOMAIN Documents
          /\ \A d \in Command : d # c => reading'[d] = reading[d]
          /\ settings' \in {settings, Cleared(settings)}
      BY <1>5 DEF ReloadBegin, LoadInv, httpVars, CoreInv, PlacesInv
    <2>2. settings' \in States
      BY <2>1 DEF LoadInv, LoaderContract
    <2>3. LoadInv(States)'
      BY <1>2, <2>1, <2>2 DEF LoadInv
    <2>4. ~overlapped => isStopped /\ \A d \in Command : at'[d] # "start"
      BY <1>2, <1>4, <2>1 DEF CoreInv, OverlapInv, Reloading
    <2> QED BY <1>3, <2>1, <2>3, <2>4 DEF ServingInv, Loads
  <1>6. CASE ReloadEnd(c)
    <2>1. /\ at[c] = "loading" /\ signalled # c /\ UNCHANGED isStopped
          /\ settings' = Loaded(settings, Documents[reading[c]])
          /\ lastLoaded' = IF settings'.error = "none" THEN reading[c] ELSE lastLoaded
          /\ reading' = [reading EXCEPT ![c] = 0]
          /\ \/ at'[c] = "start" /\ settings'.error = "none"
             \/ at'[c] \in {"reply", "idle"}
             \/ at'[c] = "loading" /\ signalled' = c
      BY <1>6 DEF ReloadEnd, Unexpected, Raise, CoreInv, PlacesInv, httpVars
    <2>2. reading[c] \in DOMAIN Documents
      BY <2>1 DEF LoadInv
    <2>3. settings' \in States /\ (settings'.error = "none" => Good')
      BY <2>1, <2>2, GoodLoaded DEF LoadInv
    <2>4. LoadInv(States)'
      BY <1>2, <1>3, <2>1, <2>3 DEF LoadInv
    <2>5. ~overlapped => isStopped /\ \A d \in Command : d # c => at'[d] # "start"
      BY <1>2, <1>4, <2>1 DEF CoreInv, OverlapInv, Reloading
    <2> QED BY <1>3, <2>1, <2>3, <2>4, <2>5 DEF ServingInv, Loads
  <1>7. CASE Receive(c) \/ ReloadStart(c) \/ Reply(c)
    <2>1. /\ UNCHANGED loadVars
          /\ at'[c] \in {"begin", "reply", "idle"} \/ (at'[c] = at[c] /\ at[c] = "start")
          /\ at[c] = "start" \/ UNCHANGED isStopped
      BY <1>7 DEF Receive, ReloadStart, Unexpected, Raise, Reply, CoreInv, PlacesInv, httpVars
    <2> QED BY <1>1, <1>2, <1>3, <2>1, ServedOn DEF Loads
  <1> QED BY <1>5, <1>6, <1>7

LEMMA ServedByPool ==
  ASSUME NEW States, CoreInv, LoadInv(States), ServingInv,
         AcceptorChecks \/ AcceptorSpawns \/ WorkerEnds \/ Logs \/ UNCHANGED allVars
  PROVE  LoadInv(States)' /\ ServingInv'
  <1> USE Actors DEF AcceptorChecks, AcceptorSpawns, WorkerEnds, Logs, allVars, serverVars,
                     httpVars, commandVars, Goes
  <1>1. UNCHANGED <<loadVars, signalled, overlapped, isStopped>>
    OBVIOUS
  <1>2. \A a \in Actor : at'[a] = at[a] \/ (at'[a] = "test" /\ a # "main")
    BY DEF CoreInv, PlacesInv
  <1> QED BY <1>1, <1>2, ServedOn DEF Loads

\* Whatever load() is, if it keeps its contract, a started server serves what the last
\* document that loaded without an error says.  LoadsAsWritten checks that Load of
\* HttpSettings does, on documents of every kind.
THEOREM ServesTheLast ==
  ASSUME NEW States, LoaderContract(States)
  PROVE  ProcessSpec => []ServesConfigured
  <1>1. Init => LoadInv(States) /\ ServingInv
    BY ServingInit
  <1>2. ProcessInv /\ LoadInv(States) /\ ServingInv /\ [Next]_allVars
          => LoadInv(States)' /\ ServingInv'
    <2> SUFFICES ASSUME CoreInv, LoadInv(States), ServingInv, [Next]_allVars
                 PROVE  LoadInv(States)' /\ ServingInv'
      BY DEF ProcessInv
    <2> QED BY ServedByMain, ServedByStop, ServedByCommand, ServedByPool DEF Next
  <1>3. ProcessInv /\ ServingInv => ServesConfigured
    <2>1. ProcessInv => \A c \in Command : at[c] = "reply" => at["main"] = "join"
      BY DEF ProcessInv, CoreInv, PlacesInv
    <2> QED BY <2>1 DEF ServingInv, ServesConfigured, Loads, Good
  <1> QED BY <1>1, <1>2, <1>3, ProcessInvariant, PTL DEF ProcessSpec
=============================================================================
