------------------------ MODULE PythonHandler_proofs ------------------------
(***************************************************************************)
(* Proofs about PythonHandler: what the parsers leave of a body, what      *)
(* becomes of the uploads, where the output of a script goes, and what it  *)
(* is given of the query string, of a form and of a multipart body.        *)
(***************************************************************************)
EXTENDS MultipartBody_proofs

\* The record is a part of the body that has been read.
RecordInv ==
  /\ context \in Contexts
  /\ read \in 0..Len(body)
  /\ record \in Seq(Int) /\ Len(record) <= read
  /\ boundaryPos \in 0..Len(body)

\* Where the parser may be, and what it was called for.
ParserInv ==
  /\ script \in {"unloaded", "refused", "called", "running", "parsing", "returned",
                "destroyed"}
  /\ pc \in {"idle", "readForm", "readPart", "scan", "loaded", "failed"}
  /\ requestLoaded \in BOOLEAN /\ requestRaw \in BOOLEAN /\ ~(requestLoaded /\ requestRaw)
  /\ script \in {"unloaded", "refused", "called"} => ~requestLoaded
  /\ script = "parsing" => ~requestLoaded /\ ~requestRaw
  /\ script \notin {"parsing"} => pc = (IF requestLoaded THEN "loaded" ELSE "idle")
  /\ pc \in {"readPart", "scan"} => context.kind = "multipart"
  /\ DOMAIN uploadedFiles # {} => context.kind = "multipart"

\* Once nothing more is to be read, the body or the connection has ended.
ConsumedInv ==
  /\ more \in BOOLEAN /\ cut \in BOOLEAN
  /\ pc \in {"readPart", "scan"} /\ ~more => cut \/ read = Len(body)
  /\ pc = "loaded" => cut \/ read = Len(body)

\* A file is of another request, or the context knows it.
UploadsInv ==
  /\ reused \in BOOLEAN
  /\ ~reused =>
       /\ currentFile # NoPath => currentFile \in Range(uploadedFiles)
       /\ IF script = "destroyed" THEN \A path \in DOMAIN files : files[path] = Foreign
          ELSE \A path \in DOMAIN files :
                 files[path] = Foreign \/ path \in Range(uploadedFiles)

\* sys.stdout is this script's from its start until another one starts.
OutputInv ==
  /\ stdout \in {"own", "other", "gone"}
  /\ other \in BOOLEAN /\ overlapped \in BOOLEAN
  /\ answer \in [printed : Nat, foreign : Nat, status : Nat] /\ strayed \in Nat
  /\ script \in {"unloaded", "refused", "called"} => ~overlapped
  /\ ~overlapped =>
       /\ script \in {"running", "parsing"} => stdout = "own" /\ ~other
       /\ other /\ stdout = "own" => script = "destroyed"
       /\ strayed = 0 /\ answer.foreign = 0

HandlerInv == RecordInv /\ ParserInv /\ ConsumedInv /\ UploadsInv /\ OutputInv
-----------------------------------------------------------------------------
(* The helpers. *)

LEMMA BodyTyped ==
  ASSUME RecordInv
  PROVE  body \in Seq(Int) /\ Len(body) \in Nat /\ read \in Nat /\ Len(record) \in Nat
  BY RequestBodyAssumption, LenProperties DEF RecordInv, body
-----------------------------------------------------------------------------
(* The parsers. *)

LEMMA HeaderParamsKeep ==
  ASSUME RecordInv, ParserInv, ConsumedInv, UploadsInv, script = "parsing",
         LoadHeaderParams, UNCHANGED scriptVars
  PROVE  RecordInv' /\ ParserInv' /\ ConsumedInv' /\ UploadsInv'
  <1> USE DEF LoadHeaderParams, scriptVars, request
  <1>1. RecordInv'
    BY BodyTyped DEF RecordInv, body, NPos
  <1>2. ParserInv'
    BY DEF ParserInv
  <1>3. ConsumedInv'
    BY BodyTyped DEF RecordInv, ConsumedInv, body
  <1>4. UploadsInv'
    BY DEF UploadsInv, uploads
  <1> QED BY <1>1, <1>2, <1>3, <1>4

LEMMA FormKeeps ==
  ASSUME RecordInv, ParserInv, ConsumedInv, UploadsInv, script = "parsing",
         ReadForm \/ EndForm, UNCHANGED scriptVars
  PROVE  RecordInv' /\ ParserInv' /\ ConsumedInv' /\ UploadsInv'
  <1> USE DEF ReadForm, EndForm, scriptVars, request, parser
  <1>1. /\ UNCHANGED <<context, cut, more, record, boundaryPos, currentFile, uploadedFiles,
                       uploads, script, requestLoaded, requestRaw>>
        /\ pc = "readForm" /\ pc' \in {"readForm", "failed", "loaded"}
        /\ pc' = "loaded" => AtEnd /\ read' = read
        /\ read' = read \/ (read' \in Int /\ read <= read' /\ read' <= Len(body))
    BY BodyTyped DEF Arrives
  <1> HIDE DEF ReadForm, EndForm
  <1>2. RecordInv'
    BY <1>1, BodyTyped DEF RecordInv, body
  <1>3. ParserInv'
    BY <1>1 DEF ParserInv
  <1>4. ConsumedInv'
    BY <1>1 DEF ConsumedInv, AtEnd, body
  <1>5. UploadsInv'
    BY <1>1 DEF UploadsInv, uploads
  <1> QED BY <1>2, <1>3, <1>4, <1>5

LEMMA BoundaryTyped ==
  /\ BoundaryBegin \in Seq(Int) /\ Len(BoundaryBegin) = 2
  /\ HeadersEndMark \in Seq(Int) /\ Len(HeadersEndMark) = 2
  BY DEF BoundaryBegin, HeadersEndMark, Dashes, Boundary, LineEnd

LEMMA ReadPartKeeps ==
  ASSUME RecordInv, ParserInv, ConsumedInv, UploadsInv, script = "parsing",
         ReadPart, UNCHANGED scriptVars
  PROVE  RecordInv' /\ ParserInv' /\ ConsumedInv' /\ UploadsInv'
  <1> USE DEF scriptVars, request
  <1>1. /\ pc = "readPart" /\ pc' = "scan"
        /\ UNCHANGED <<context, cut, currentFile, loaded, uploads>>
        /\ boundaryPos' = Find(record', BoundaryBegin)
    BY DEF ReadPart
  <1>2. \/ /\ more' = TRUE /\ read' \in Int /\ read < read' /\ read' <= Len(body)
           /\ record' = record \o SubSeq(body, read + 1, read')
        \/ more' = FALSE /\ AtEnd /\ UNCHANGED <<read, record>>
    <2>1. CASE \E bytes \in 1..BufferSize :
                 Arrives(bytes) /\ more' = TRUE /\ record' = record \o Arrived
      <3>1. PICK bytes \in 1..BufferSize :
              Arrives(bytes) /\ more' = TRUE /\ record' = record \o Arrived
        BY <2>1
      <3>2. bytes \in 1..(Len(body) - read) /\ read' = read + bytes
        BY <3>1 DEF Arrives
      <3>3. read' \in Int /\ read < read' /\ read' <= Len(body)
        BY <3>2, BodyTyped
      <3> QED BY <3>1, <3>3 DEF Arrived
    <2>2. CASE AtEnd /\ more' = FALSE /\ UNCHANGED <<read, record>>
      BY <2>2
    <2> QED BY <2>1, <2>2 DEF ReadPart
  <1>3. read' \in 0..Len(body) /\ record' \in Seq(Int) /\ Len(record') <= read'
    <2>1. CASE UNCHANGED <<read, record>>
      BY <2>1 DEF RecordInv
    <2>2. CASE read' \in Int /\ read < read' /\ read' <= Len(body)
               /\ record' = record \o SubSeq(body, read + 1, read')
      <3>1. \A i \in read + 1..read' : body[i] \in Int
        BY <2>2, BodyTyped, ElementOfSeq
      <3>2. /\ SubSeq(body, read + 1, read') \in Seq(Int)
            /\ Len(SubSeq(body, read + 1, read')) = read' - read
        <4> DEFINE from == read + 1
        <4>1. from \in Int /\ read' \in Int /\ from <= read' /\ read' - from + 1 = read' - read
          BY <2>2, BodyTyped
        <4> HIDE DEF from
        <4>2. /\ SubSeq(body, from, read') \in Seq(Int)
              /\ Len(SubSeq(body, from, read')) = read' - from + 1
          <5>1. \A i \in from..read' : body[i] \in Int
            BY <3>1 DEF from
          <5> QED BY <4>1, <5>1, SubSeqProperties
        <4> QED BY <4>1, <4>2 DEF from
      <3>3. record' \in Seq(Int) /\ Len(record') = Len(record) + (read' - read)
        <4> DEFINE rest == SubSeq(body, read + 1, read')
        <4>1. record \in Seq(Int) /\ record' = record \o rest
          BY <2>2 DEF RecordInv
        <4>2. rest \in Seq(Int) /\ Len(rest) = read' - read
          BY <3>2
        <4> HIDE DEF rest
        <4>3. /\ record \o rest \in Seq(Int)
              /\ Len(record \o rest) = Len(record) + Len(rest)
          BY <4>1, <4>2, ConcatProperties
        <4> QED BY <4>1, <4>2, <4>3
      <3>4. Len(record) \in Nat /\ Len(record) <= read /\ read \in Nat /\ Len(body) \in Nat
        BY BodyTyped DEF RecordInv
      <3> QED BY <2>2, <3>3, <3>4
    <2> QED BY <1>2, <2>1, <2>2
  <1>4. RecordInv'
    <2>1. boundaryPos' \in 0..Len(record')
      <3>1. Len(BoundaryBegin) > 0 /\ BoundaryBegin \in Seq(Int)
        BY BoundaryTyped
      <3>2. Find(record', BoundaryBegin) \in 0..Len(record')
        BY <1>3, <3>1, FindRange
      <3> QED BY <1>1, <3>2
    <2>2. Len(record') \in Nat
      BY <1>3, LenProperties
    <2> QED BY <1>1, <1>3, <2>1, <2>2, BodyTyped DEF RecordInv, body
  <1>5. ParserInv'
    BY <1>1 DEF ParserInv, loaded
  <1>6. ConsumedInv'
    BY <1>1, <1>2 DEF ConsumedInv, AtEnd, body
  <1>7. UploadsInv'
    BY <1>1 DEF UploadsInv, loaded, uploads
  <1> QED BY <1>4, <1>5, <1>6, <1>7

\* What Continue leaves of the record, and of the body if that was the end mark.
LEMMA ContinueKeeps ==
  ASSUME RecordInv, ConsumedInv, pc = "scan", NEW rest \in Seq(Int), Len(rest) <= Len(record),
         NEW pos \in 0..Len(body), Continue(rest, pos), UNCHANGED <<context, cut>>
  PROVE  RecordInv' /\ ConsumedInv' /\ pc' \in {"loaded", "scan"}
  <1>1. /\ record' = rest /\ boundaryPos' = pos
        /\ \/ /\ more' = FALSE /\ pc' = "loaded"
              /\ read' = IF cut \/ ~more THEN read ELSE Len(body)
           \/ pc' = "scan" /\ UNCHANGED <<more, read>>
    BY DEF Continue
  <1>2. read' \in {read, Len(body)}
    BY <1>1
  <1>3. RecordInv'
    <2>1. Len(rest) \in Nat
      BY LenProperties
    <2> QED BY <1>1, <1>2, <2>1, BodyTyped DEF RecordInv, body
  <1>4. ConsumedInv'
    BY <1>1 DEF ConsumedInv, body
  <1> QED BY <1>1, <1>3, <1>4

LEMMA PartHeaderKeeps ==
  ASSUME RecordInv, ParserInv, ConsumedInv, UploadsInv, script = "parsing",
         PartHeader, UNCHANGED scriptVars
  PROVE  RecordInv' /\ ParserInv' /\ ConsumedInv' /\ UploadsInv'
  <1> DEFINE endPos == Find(record, HeadersEndMark)
             info   == LoadHeader(SubSeq(record, BoundOffset + 1, endPos - 1))
             rest   == SubSeq(record, endPos + 2, Len(record))
             pos    == FindSequence(rest, BoundaryWithEndMark)
             name   == DecodeUrl(info.name)
             path   == IF info.fileName = <<>> THEN NoPath ELSE UploadPath(info.fileName)
  <1>1. /\ pc = "scan" /\ record # <<>> /\ UNCHANGED <<context, cut>>
        /\ UNCHANGED <<script, requestLoaded, requestRaw>>
    BY DEF PartHeader, Scanning, scriptVars, request
  <1>2. CASE pc' = "failed" /\ UNCHANGED <<read, parser, loaded, uploads>>
    <2> USE DEF parser, loaded, uploads
    <2>1. RecordInv'
      BY <1>1, <1>2 DEF RecordInv, body
    <2>2. ParserInv' /\ ConsumedInv' /\ UploadsInv'
      BY <1>1, <1>2 DEF ParserInv, ConsumedInv, UploadsInv
    <2> QED BY <2>1, <2>2
  <1>3. CASE /\ Continue(From(rest, pos), 1)
             /\ \/ /\ info.isFileData /\ currentFile' = path
                   /\ files' = IF path = NoPath THEN files
                               ELSE Put(files, path, Before(rest, pos))
                   /\ uploadedFiles' = Put(uploadedFiles, name, path)
                   /\ reused' = (reused \/ name \in DOMAIN uploadedFiles)
                \/ /\ ~info.isFileData /\ currentFile' = NoPath
                   /\ UNCHANGED <<uploadedFiles, uploads>>
    <2>1. endPos \in Nat /\ Len(record) \in Nat /\ Len(record) >= 1
      <3>1. endPos \in 0..Len(record)
        <4>1. HeadersEndMark \in Seq(Int) /\ Len(HeadersEndMark) > 0
          BY BoundaryTyped
        <4> QED BY <4>1, FindRange DEF RecordInv
      <3>2. Len(record) # 0
        BY <1>1, EmptySeq DEF RecordInv
      <3> QED BY <3>1, <3>2, BodyTyped
    <2>2. rest \in Seq(Int) /\ Len(rest) <= Len(record)
      <3>1. \A i \in endPos + 2..Len(record) : record[i] \in Int
        BY <2>1, ElementOfSeq DEF RecordInv
      <3> QED BY <2>1, <3>1, SubSeqProperties DEF RecordInv
    <2> HIDE DEF rest
    <2>3. pos \in Nat
      BY <2>2, FindSequenceRange, LenProperties
    <2>4. From(rest, pos) \in Seq(Int) /\ Len(From(rest, pos)) <= Len(record)
      <3> HIDE DEF pos
      <3>1. From(rest, pos) \in Seq(Int) /\ Len(From(rest, pos)) <= Len(rest)
        BY <2>2, <2>3, FromShorter
      <3>2. Len(From(rest, pos)) \in Nat /\ Len(rest) \in Nat
        BY <2>2, <3>1, LenProperties
      <3> QED BY <2>1, <2>2, <3>1, <3>2
    <2>5. 1 \in 0..Len(body)
      BY <2>1, BodyTyped DEF RecordInv
    <2>6. RecordInv' /\ ConsumedInv' /\ pc' \in {"loaded", "scan"}
      BY <1>1, <1>3, <2>4, <2>5, ContinueKeeps
    <2>7. ParserInv'
      BY <1>1, <2>6 DEF ParserInv
    <2>8. UploadsInv'
      <3>1. CASE currentFile' = NoPath /\ UNCHANGED <<uploadedFiles, uploads>>
        BY <1>1, <3>1 DEF ParserInv, UploadsInv, uploads
      <3>2. CASE /\ currentFile' = path
                 /\ files' = IF path = NoPath THEN files
                             ELSE Put(files, path, Before(rest, pos))
                 /\ uploadedFiles' = Put(uploadedFiles, name, path)
                 /\ reused' = (reused \/ name \in DOMAIN uploadedFiles)
        <4> HIDE DEF path, name, pos
        <4>1. /\ DOMAIN uploadedFiles' = {name} \cup DOMAIN uploadedFiles
              /\ uploadedFiles'[name] = path
              /\ \A k \in DOMAIN uploadedFiles : k # name => uploadedFiles'[k] = uploadedFiles[k]
          <5>1. uploadedFiles' = Put(uploadedFiles, name, path)
            BY <3>2
          <5> QED BY <5>1 DEF Put
        <4>2. ~reused' => ~reused /\ name \notin DOMAIN uploadedFiles
          BY <3>2
        <4>3. ~reused' => Range(uploadedFiles)' = {path} \cup Range(uploadedFiles)
          BY <4>1, <4>2 DEF Range
        <4>4. /\ DOMAIN files' \subseteq {path} \cup DOMAIN files
              /\ \A file \in DOMAIN files' : file # path => files'[file] = files[file]
          <5>1. CASE path = NoPath
            BY <3>2, <5>1
          <5>2. CASE path # NoPath
            <6>1. files' = Put(files, path, Before(rest, pos))
              BY <3>2, <5>2
            <6> QED BY <6>1 DEF Put
          <5> QED BY <5>1, <5>2
        <4>5. script' # "destroyed"
          BY <1>1
        <4>6. ~reused' => \A file \in DOMAIN files' :
                            files'[file] = Foreign \/ file \in Range(uploadedFiles)'
          BY <4>2, <4>3, <4>4 DEF UploadsInv
        <4>7. reused' \in BOOLEAN
          BY <3>2
        <4> QED BY <3>2, <4>3, <4>5, <4>6, <4>7 DEF UploadsInv, Foreign
      <3> QED BY <1>3, <3>1, <3>2
    <2> QED BY <2>6, <2>7, <2>8
  <1> QED BY <1>2, <1>3 DEF PartHeader

\* Data that come later are added to the file that is being written.
LEMMA DataKeep ==
  ASSUME UploadsInv, script # "destroyed",
         files' = files \/ (currentFile # NoPath /\ \E data : files' = AddTo(files, currentFile, data)),
         UNCHANGED <<currentFile, uploadedFiles, reused, script>>
  PROVE  UploadsInv'
  <1>1. CASE files' = files
    BY <1>1 DEF UploadsInv
  <1>2. CASE currentFile # NoPath /\ \E data : files' = AddTo(files, currentFile, data)
    <2>1. PICK data : files' = AddTo(files, currentFile, data)
      BY <1>2
    <2>2. /\ DOMAIN files' = {currentFile} \cup DOMAIN files
          /\ \A file \in DOMAIN files' : file # currentFile => files'[file] = files[file]
      BY <2>1 DEF AddTo, Put
    <2> QED BY <1>2, <2>2 DEF UploadsInv
  <1> QED BY <1>1, <1>2

LEMMA DataEndKeeps ==
  ASSUME RecordInv, ParserInv, ConsumedInv, UploadsInv, script = "parsing",
         DataEnd, UNCHANGED scriptVars
  PROVE  RecordInv' /\ ParserInv' /\ ConsumedInv' /\ UploadsInv'
  <1>1. /\ pc = "scan" /\ Continue(From(record, boundaryPos), 1)
        /\ UNCHANGED <<context, cut, currentFile, uploadedFiles, reused>>
        /\ UNCHANGED <<script, requestLoaded, requestRaw>>
        /\ boundaryPos > 1
    BY DEF DataEnd, Scanning, AtBoundary, scriptVars, request
  <1>2. boundaryPos \in Nat /\ 1 \in 0..Len(body)
    BY <1>1, BodyTyped DEF RecordInv
  <1>3. From(record, boundaryPos) \in Seq(Int) /\ Len(From(record, boundaryPos)) <= Len(record)
    BY <1>2, FromShorter DEF RecordInv
  <1>4. RecordInv' /\ ConsumedInv' /\ pc' \in {"loaded", "scan"}
    BY <1>1, <1>2, <1>3, ContinueKeeps
  <1>5. ParserInv'
    BY <1>1, <1>4 DEF ParserInv
  <1>6. files' = files
        \/ (currentFile # NoPath /\ \E data : files' = AddTo(files, currentFile, data))
    BY DEF DataEnd
  <1>7. UploadsInv'
    BY <1>1, <1>6, DataKeep
  <1> QED BY <1>4, <1>5, <1>7

LEMMA FileDataKeeps ==
  ASSUME RecordInv, ParserInv, ConsumedInv, UploadsInv, script = "parsing",
         FileData, UNCHANGED scriptVars
  PROVE  RecordInv' /\ ParserInv' /\ ConsumedInv' /\ UploadsInv'
  <1>1. /\ pc = "scan" /\ Continue(<<>>, boundaryPos)
        /\ UNCHANGED <<context, cut, currentFile, uploadedFiles, reused>>
        /\ UNCHANGED <<script, requestLoaded, requestRaw>>
        /\ currentFile # NoPath /\ files' = AddTo(files, currentFile, record)
    BY DEF FileData, Scanning, InFileData, loaded, scriptVars, request
  <1>2. <<>> \in Seq(Int) /\ Len(<<>>) <= Len(record) /\ boundaryPos \in 0..Len(body)
    BY BodyTyped DEF RecordInv
  <1>3. RecordInv' /\ ConsumedInv' /\ pc' \in {"loaded", "scan"}
    BY <1>1, <1>2, ContinueKeeps
  <1>4. ParserInv'
    BY <1>1, <1>3 DEF ParserInv
  <1>5. UploadsInv'
    BY <1>1, DataKeep
  <1> QED BY <1>3, <1>4, <1>5

LEMMA NeedMoreKeeps ==
  ASSUME RecordInv, ParserInv, ConsumedInv, UploadsInv,
         \/ script = "parsing" /\ NeedMore
         \/ ClientGone,
         UNCHANGED scriptVars
  PROVE  RecordInv' /\ ParserInv' /\ ConsumedInv' /\ UploadsInv'
  <1> USE DEF NeedMore, Wait, ClientGone, parser, scriptVars, request
  <1>1. /\ UNCHANGED <<context, more, read, record, boundaryPos, currentFile, loaded, uploads>>
        /\ UNCHANGED <<script, requestLoaded, requestRaw>>
    OBVIOUS
  <1>2. RecordInv'
    BY <1>1 DEF RecordInv, body
  <1>3. ParserInv'
    BY <1>1 DEF ParserInv, loaded
  <1>4. ConsumedInv'
    BY <1>1 DEF ConsumedInv, body
  <1>5. UploadsInv'
    BY <1>1 DEF UploadsInv, loaded, uploads
  <1> QED BY <1>2, <1>3, <1>4, <1>5

\* All steps of the parsers, and the client who leaves them.
LEMMA ParserKeeps ==
  ASSUME HandlerInv, Parse \/ ClientLeaves
  PROVE  HandlerInv'
  <1>1. RecordInv' /\ ParserInv' /\ ConsumedInv' /\ UploadsInv'
    BY HeaderParamsKeep, FormKeeps, ReadPartKeeps, PartHeaderKeeps, DataEndKeeps,
       FileDataKeeps, NeedMoreKeeps
    DEF HandlerInv, Parse, ClientLeaves, ParserStep
  <1>2. OutputInv'
    BY DEF HandlerInv, OutputInv, Parse, ClientLeaves, scriptVars, output
  <1> QED BY <1>1, <1>2 DEF HandlerInv
-----------------------------------------------------------------------------
(* The handler and its script. *)

\* Steps of the handler that leave the parsers and their files alone.
LEMMA ScriptKeeps ==
  ASSUME HandlerInv,
         InitHandler \/ NotRun \/ Start \/ ScriptEnds \/ ScriptFails \/ Ask \/ Loaded
  PROVE  HandlerInv'
  <1>1. /\ UNCHANGED vars /\ UNCHANGED <<requestRaw, other, strayed>>
        /\ \/ /\ requestLoaded' = requestLoaded
              /\ \/ script = "unloaded" /\ script' \in {"called", "refused"}
                 \/ script = "called" /\ script' \in {"returned", "running"}
                 \/ script = "running" /\ script' = "returned"
                 \/ script = "running" /\ script' = "parsing" /\ ~requestRaw /\ ~requestLoaded
           \/ /\ script = "parsing" /\ script' = "running" /\ pc = "loaded"
              /\ requestLoaded' = TRUE
        /\ \/ script = "called" /\ script' = "running" /\ stdout' = "own" /\ overlapped' = other
           \/ UNCHANGED <<stdout, overlapped>> /\ ~(script = "called" /\ script' = "running")
        /\ answer' = answer \/ \E status \in {200, 404, 500} :
                                 answer' = [answer EXCEPT !.status = status]
    <2> USE DEF request, output
    <2>1. CASE InitHandler
      BY <2>1 DEF InitHandler
    <2>2. CASE Start
      BY <2>2 DEF Start
    <2>3. CASE Ask
      BY <2>3 DEF Ask
    <2>4. CASE Loaded
      BY <2>4 DEF Loaded
    <2>5. CASE NotRun
      <3>1. script = "called" /\ script' = "returned"
            /\ UNCHANGED <<vars, request, stdout, other, overlapped, strayed>>
            /\ (answer' = [answer EXCEPT !.status = 404] \/ answer' = answer)
        BY <2>5 DEF NotRun
      <3> QED BY <3>1
    <2>6. CASE ScriptEnds
      BY <2>6 DEF ScriptEnds
    <2>7. CASE ScriptFails
      BY <2>7 DEF ScriptFails
    <2> QED BY <2>1, <2>2, <2>3, <2>4, <2>5, <2>6, <2>7
  <1>2. UNCHANGED <<context, read, cut, pc, more, record, boundaryPos, currentFile,
                    uploadedFiles, files, reused>>
    BY <1>1 DEF vars, parser, loaded, uploads
  <1>3. RecordInv'
    BY <1>2 DEF HandlerInv, RecordInv, body
  <1>4. ParserInv'
    <2>1. CASE requestLoaded' = requestLoaded /\ script' # "parsing"
      <3>1. script \notin {"parsing", "returned", "destroyed"} /\ script' # "destroyed"
        BY <1>1, <2>1 DEF HandlerInv, ParserInv
      <3>2. script' \in {"called", "refused"} => ~requestLoaded
        BY <1>1, <2>1, <3>1 DEF HandlerInv, ParserInv
      <3> QED BY <1>1, <1>2, <2>1, <3>1, <3>2 DEF HandlerInv, ParserInv
    <2>2. CASE requestLoaded' = requestLoaded /\ script' = "parsing"
      <3>1. script = "running" /\ ~requestRaw /\ ~requestLoaded
        BY <1>1, <2>2 DEF HandlerInv, ParserInv
      <3> QED BY <1>1, <1>2, <2>2, <3>1 DEF HandlerInv, ParserInv
    <2>3. CASE script = "parsing" /\ script' = "running" /\ pc = "loaded"
      <3>1. requestLoaded' = TRUE /\ ~requestRaw
        BY <1>1, <2>3 DEF HandlerInv, ParserInv
      <3> QED BY <1>1, <1>2, <2>3, <3>1 DEF HandlerInv, ParserInv
    <2> QED BY <1>1, <2>1, <2>2, <2>3
  <1>5. ConsumedInv'
    BY <1>2 DEF HandlerInv, ConsumedInv, body
  <1>6. UploadsInv'
    BY <1>1, <1>2 DEF HandlerInv, UploadsInv
  <1>7. OutputInv'
    <2>1. answer'.foreign = answer.foreign
          /\ answer' \in [printed : Nat, foreign : Nat, status : Nat]
      BY <1>1 DEF HandlerInv, OutputInv
    <2>2. CASE script = "called" /\ script' = "running" /\ stdout' = "own" /\ overlapped' = other
      BY <1>1, <2>1, <2>2 DEF HandlerInv, OutputInv
    <2>3. CASE UNCHANGED <<stdout, overlapped>> /\ ~(script = "called" /\ script' = "running")
      BY <1>1, <2>1, <2>3 DEF HandlerInv, OutputInv
    <2> QED BY <1>1, <2>2, <2>3
  <1> QED BY <1>3, <1>4, <1>5, <1>6, <1>7 DEF HandlerInv

\* An exception of the parsers, the raw body, and the end of the context.
LEMMA FailedKeeps ==
  ASSUME HandlerInv, Failed
  PROVE  HandlerInv'
  <1> USE DEF Failed, HandlerInv
  <1>1. RecordInv'
    BY DEF RecordInv, body, parser
  <1>2. ParserInv'
    BY DEF ParserInv, loaded
  <1>3. ConsumedInv'
    BY DEF ConsumedInv, parser
  <1>4. UploadsInv'
    BY DEF UploadsInv, parser, loaded, uploads
  <1>5. OutputInv'
    BY DEF OutputInv, output
  <1> QED BY <1>1, <1>2, <1>3, <1>4, <1>5

LEMMA RawReadKeeps ==
  ASSUME HandlerInv, RawRead
  PROVE  HandlerInv'
  <1> USE DEF HandlerInv
  <1>1. /\ script = "running" /\ ~requestLoaded /\ requestRaw' = TRUE
        /\ UNCHANGED <<context, cut, pc, parser, loaded, uploads, script, requestLoaded, output>>
    BY DEF RawRead
  <1>2. read' = read \/ (read' \in Int /\ read <= read' /\ read' <= Len(body))
    BY BodyTyped DEF RawRead, Arrives
  <1>3. RecordInv'
    BY <1>1, <1>2, BodyTyped DEF RecordInv, body, parser
  <1>4. ParserInv'
    BY <1>1 DEF ParserInv, loaded
  <1>5. ConsumedInv'
    BY <1>1 DEF ConsumedInv, ParserInv, parser
  <1>6. UploadsInv'
    BY <1>1 DEF UploadsInv, parser, loaded, uploads
  <1>7. OutputInv'
    BY <1>1 DEF OutputInv, output
  <1> QED BY <1>3, <1>4, <1>5, <1>6, <1>7

\* ~HttpContext deletes what it knows, and sys.stdout goes with the wrapper.
LEMMA ReleaseKeeps ==
  ASSUME HandlerInv, Release
  PROVE  HandlerInv'
  <1> USE DEF Release, HandlerInv
  <1>1. RecordInv'
    BY DEF RecordInv, body, parser
  <1>2. ParserInv'
    BY DEF ParserInv, loaded, request
  <1>3. ConsumedInv'
    BY DEF ConsumedInv, body, parser
  <1>4. UploadsInv'
    BY DEF UploadsInv, parser, loaded
  <1>5. OutputInv'
    BY DEF OutputInv
  <1> QED BY <1>1, <1>2, <1>3, <1>4, <1>5

\* Printing, and the script of another request.
LEMMA OutputKeeps ==
  ASSUME HandlerInv, Prints \/ Writes \/ OtherStarts \/ OtherEnds \/ OtherPrints
  PROVE  HandlerInv'
  <1> USE DEF HandlerInv, Prints, Writes, OtherStarts, OtherEnds, OtherPrints
  <1>1. UNCHANGED <<vars, script, request>>
    OBVIOUS
  <1>2. OutputInv'
    <2>1. CASE Prints
      BY <2>1 DEF OutputInv
    <2>2. CASE Writes
      BY <2>2 DEF OutputInv
    <2>3. CASE OtherStarts
      BY <2>3 DEF OutputInv, ParserInv
    <2>4. CASE OtherEnds
      BY <2>4 DEF OutputInv
    <2>5. CASE OtherPrints
      BY <2>5 DEF OutputInv
    <2> QED BY <2>1, <2>2, <2>3, <2>4, <2>5
  <1> HIDE DEF Prints, Writes, OtherStarts, OtherEnds, OtherPrints
  <1>3. RecordInv'
    BY <1>1 DEF RecordInv, vars, body, parser
  <1>4. ParserInv'
    BY <1>1 DEF ParserInv, vars, loaded, request
  <1>5. ConsumedInv'
    BY <1>1 DEF ConsumedInv, vars, body, parser
  <1>6. UploadsInv'
    BY <1>1 DEF UploadsInv, vars, parser, loaded, uploads
  <1> QED BY <1>2, <1>3, <1>4, <1>5, <1>6
-----------------------------------------------------------------------------
\* For any requests, any buffer and any scripts, every step of the handler, the parsers,
\* the client and the other script keeps the invariant.
THEOREM HandlerInvariant == PythonSpec => []HandlerInv
  <1>1. PythonInit => HandlerInv
    <2> SUFFICES ASSUME PythonInit PROVE HandlerInv
      OBVIOUS
    <2> USE DEF PythonInit, Init
    <2>1. RecordInv
      BY RequestBodyAssumption, LenProperties DEF RecordInv, body, NPos
    <2>2. ParserInv
      <3>1. DOMAIN <<>> = {}
        OBVIOUS
      <3> QED BY <3>1 DEF ParserInv
    <2>3. ConsumedInv
      BY DEF ConsumedInv
    <2>4. UploadsInv
      BY DEF UploadsInv
    <2>5. OutputInv
      BY DEF OutputInv
    <2> QED BY <2>1, <2>2, <2>3, <2>4, <2>5 DEF HandlerInv
  <1>2. HandlerInv /\ [PythonNext]_allVars => HandlerInv'
    <2> SUFFICES ASSUME HandlerInv, [PythonNext]_allVars PROVE HandlerInv'
      OBVIOUS
    <2>1. CASE UNCHANGED allVars
      BY <2>1 DEF allVars, vars, scriptVars, request, output, body, parser, loaded, uploads,
                  HandlerInv, RecordInv, ParserInv, ConsumedInv, UploadsInv, OutputInv
    <2>2. CASE PythonNext
      BY <2>2, ParserKeeps, ScriptKeeps, FailedKeeps, RawReadKeeps, ReleaseKeeps, OutputKeeps
      DEF PythonNext, Handler
    <2> QED BY <2>1, <2>2
  <1> QED BY <1>1, <1>2, PTL DEF PythonSpec

\* A request counts as loaded only when its parsers have returned, a body is handed to
\* the script raw or parsed, and the record never holds more than was read.
THEOREM HandlerTyped == PythonSpec => []TypeOK
  <1>1. HandlerInv => TypeOK
    BY DEF HandlerInv, RecordInv, ParserInv, OutputInv, TypeOK
  <1> QED BY <1>1, HandlerInvariant, PTL

\* However the body comes in, also when the script asks again after an exception, the
\* parsers leave nothing of it, unless the client has gone.
THEOREM NothingLeft == PythonSpec => []BodyConsumed
  <1>1. HandlerInv => BodyConsumed
    BY DEF HandlerInv, ParserInv, ConsumedInv, BodyConsumed
  <1> QED BY <1>1, HandlerInvariant, PTL

\* Whatever a body holds, and wherever its parser fails, its uploads are deleted.
THEOREM NoUploadStays == PythonSpec => []UploadsDeleted
  <1>1. HandlerInv => UploadsDeleted
    BY DEF HandlerInv, UploadsInv, UploadsDeleted
  <1> QED BY <1>1, HandlerInvariant, PTL

\* Only an overlapping script takes output, or gives it.
THEOREM OutputIsOwn == PythonSpec => []OwnOutput
  <1>1. HandlerInv => OwnOutput
    BY DEF HandlerInv, OutputInv, OwnOutput
  <1> QED BY <1>1, HandlerInvariant, PTL
-----------------------------------------------------------------------------
(* The query string. *)

\* A pair that was encoded is cut at its '=' and decoded to what it was.
LEMMA PairDecodes ==
  ASSUME NEW pair \in Seq(Bytes) \X Seq(Bytes)
  PROVE  /\ EncodedPair(pair) \in Seq(Bytes \ {Amp}) /\ EncodedPair(pair) # <<>>
         /\ PairKey(EncodedPair(pair)) = pair[1] /\ PairValue(EncodedPair(pair)) = pair[2]
  <1> DEFINE u == EncodeUrlPart(pair[1])
             v == EncodeUrlPart(pair[2])
             eq == Find(EncodedPair(pair), <<Equals>>)
  <1>1. pair[1] \in Seq(Bytes) /\ pair[2] \in Seq(Bytes)
    OBVIOUS
  <1>2. u \in Seq(Plain) /\ v \in Seq(Plain) /\ DecodeUrl(u) = pair[1] /\ DecodeUrl(v) = pair[2]
    BY <1>1, PartDecodes
  <1>3. EncodedPair(pair) = u \o <<Equals>> \o v
    BY DEF EncodedPair
  <1> HIDE DEF u, v
  <1>4. /\ EncodedPair(pair) \in Seq(Bytes \ {Amp}) /\ EncodedPair(pair) # <<>> /\ eq # NPos
        /\ Before(EncodedPair(pair), eq) = u /\ From(EncodedPair(pair), eq + 1) = v
    BY <1>2, <1>3, PairCut
  <1> QED BY <1>2, <1>4 DEF PairKey, PairValue

\* A query string comes apart as it was put together.
QuerySplit(pairs) ==
  LET text == Encoded(pairs, Amp) IN
  pairs # <<>> =>
    /\ text \in Seq(Bytes) /\ text # <<>> /\ text[Len(text)] # Amp
    /\ Split(text, Amp) \in Seq(Seq(Bytes))
    /\ Len(Split(text, Amp)) = Len(pairs)
    /\ \A i \in 1..Len(pairs) : Split(text, Amp)[i] = EncodedPair(pairs[i])

\* What of a query string is written for the pair i.
Piece(pairs, i) ==
  IF i = 1 THEN EncodedPair(pairs[i]) ELSE <<Amp>> \o EncodedPair(pairs[i])

\* One pair more.
LEMMA EncodedAppend ==
  ASSUME NEW ps \in Seq(Seq(Bytes) \X Seq(Bytes)), NEW p \in Seq(Bytes) \X Seq(Bytes)
  PROVE  /\ Encoded(ps, Amp) \in Seq(Bytes)
         /\ ps = <<>> => Encoded(Append(ps, p), Amp) = EncodedPair(p)
         /\ ps # <<>> => Encoded(Append(ps, p), Amp) =
                           Encoded(ps, Amp) \o (<<Amp>> \o EncodedPair(p))
  <1> DEFINE S == Seq(Bytes) \X Seq(Bytes)
             n == Len(ps)
             grown == Append(ps, p)
             pieces == [i \in DOMAIN ps |-> Piece(ps, i)]
             next == [i \in DOMAIN grown |-> Piece(grown, i)]
             last == Piece(grown, n + 1)
  <1>1. /\ n \in Nat /\ DOMAIN ps = 1..n /\ \A i \in 1..n : ps[i] \in S
    BY LenProperties, ElementOfSeq
  <1>2. /\ grown \in Seq(S) /\ Len(grown) = n + 1 /\ DOMAIN grown = 1..n + 1
        /\ grown[n + 1] = p /\ \A i \in 1..n : grown[i] = ps[i]
    <2>1. /\ grown \in Seq(S) /\ Len(grown) = n + 1
          /\ grown[n + 1] = p /\ \A i \in 1..n : grown[i] = ps[i]
      BY AppendProperties
    <2> HIDE DEF grown
    <2> QED BY <2>1, LenProperties
  <1>3. \A q \in S : EncodedPair(q) \in Seq(Bytes)
    <2> TAKE q \in S
    <2>1. EncodedPair(q) \in Seq(Bytes \ {Amp}) /\ Bytes \ {Amp} \subseteq Bytes
      BY PairDecodes
    <2> QED BY <2>1, SubsetSeq
  <1>4. <<Amp>> \in Seq(Bytes)
    BY DEF Amp, Bytes
  <1> HIDE DEF S, n, grown
  <1>5. \A q \in S : <<Amp>> \o EncodedPair(q) \in Seq(Bytes)
    BY <1>3, <1>4, ConcatProperties
  <1>6. \A i \in 1..n + 1 : grown[i] \in S
    BY <1>2, ElementOfSeq
  <1>7. \A i \in 1..n + 1 : Piece(grown, i) \in Seq(Bytes)
    BY <1>3, <1>5, <1>6 DEF Piece
  <1>8. \A i \in 1..n : Piece(ps, i) = Piece(grown, i)
    BY <1>2 DEF Piece
  <1>9. n + 1 \in 1..n + 1 /\ n + 1 \in Nat /\ \A i \in 1..n : i \in 1..n + 1
    BY <1>1
  <1>10. /\ pieces \in Seq(Seq(Bytes)) /\ Len(pieces) = n
         /\ \A i \in 1..n : pieces[i] = Piece(grown, i)
    <2>1. pieces \in [1..n -> Seq(Bytes)]
      BY <1>1, <1>7, <1>8, <1>9
    <2>2. \A i \in 1..n : pieces[i] = Piece(grown, i)
      BY <1>1, <1>8
    <2> HIDE DEF pieces
    <2>3. pieces \in Seq(Seq(Bytes)) /\ Len(pieces) = n
      BY <1>1, <2>1, FunctionIsSeq, Zenon
    <2> QED BY <2>2, <2>3
  <1>11. /\ next \in Seq(Seq(Bytes)) /\ Len(next) = n + 1
         /\ \A i \in 1..n + 1 : next[i] = Piece(grown, i)
    <2>1. next \in [1..n + 1 -> Seq(Bytes)]
      BY <1>2, <1>7
    <2>2. \A i \in 1..n + 1 : next[i] = Piece(grown, i)
      BY <1>2
    <2> HIDE DEF next
    <2>3. next \in Seq(Seq(Bytes)) /\ Len(next) = n + 1
      BY <1>9, <2>1, FunctionIsSeq, Zenon
    <2> QED BY <2>2, <2>3
  <1>12. last \in Seq(Bytes) /\ next[n + 1] = last
    BY <1>7, <1>9, <1>11
  <1> HIDE DEF pieces, next, last
  <1>13. next = Append(pieces, last)
    <2> DEFINE T == Seq(Bytes)
    <2>1. /\ pieces \in Seq(T) /\ last \in T /\ next \in Seq(T) /\ Len(next) = Len(pieces) + 1
          /\ next[Len(pieces) + 1] = last /\ \A i \in 1..Len(pieces) : next[i] = pieces[i]
      BY <1>9, <1>10, <1>11, <1>12
    <2> HIDE DEF T
    <2> QED BY <2>1, AppendIs
  <1>14. FlattenSeq(pieces) \in Seq(Bytes) /\ FlattenSeq(next) = FlattenSeq(pieces) \o last
    <2>1. /\ FlattenSeq(pieces) \in Seq(Bytes)
          /\ FlattenSeq(Append(pieces, last)) = FlattenSeq(pieces) \o last
      BY <1>10, <1>12, FlattenAppend
    <2> QED BY <1>13, <2>1, Zenon
  <1>15. Encoded(ps, Amp) = FlattenSeq(pieces) /\ Encoded(grown, Amp) = FlattenSeq(next)
    BY DEF Encoded, pieces, next, Piece
  <1>16. CASE ps = <<>>
    <2>1. n = 0
      BY <1>1, <1>16 DEF n
    <2>2. pieces = <<>>
      BY <1>10, <2>1, EmptySeq
    <2>3. last = EncodedPair(p) /\ EncodedPair(p) \in Seq(Bytes)
      BY <1>2, <1>12, <2>1 DEF last, Piece
    <2>4. <<>> \o last = last
      BY <1>12, ConcatEmptySeq
    <2> QED BY <1>14, <1>15, <1>16, <2>2, <2>3, <2>4, FlattenEmpty DEF grown
  <1>17. CASE ps # <<>>
    <2>1. n # 0
      BY <1>17, EmptySeq DEF n
    <2>2. last = <<Amp>> \o EncodedPair(p)
      BY <1>1, <1>2, <2>1 DEF last, Piece
    <2> QED BY <1>14, <1>15, <1>17, <2>2 DEF grown
  <1> QED BY <1>16, <1>17

LEMMA OnePairSplits ==
  ASSUME NEW p \in Seq(Bytes) \X Seq(Bytes)
  PROVE  QuerySplit(Append(<<>>, p))
  <1> DEFINE S == Seq(Bytes) \X Seq(Bytes)
             e == EncodedPair(p)
             one == Append(<<>>, p)
             tokens == Split(e, Amp)
  <1>1. <<>> \in Seq(S) /\ p \in S
    BY EmptySeq
  <1>2. one \in Seq(S) /\ Len(one) = 1 /\ one[1] = p
    BY <1>1
  <1>3. Encoded(one, Amp) = e
    BY <1>1, EncodedAppend
  <1>4. e \in Seq(Bytes \ {Amp}) /\ e # <<>> /\ Bytes \ {Amp} \subseteq Bytes
    BY PairDecodes
  <1>5. e \in Seq(Bytes) /\ \A i \in 1..Len(e) : e[i] \in Bytes \ {Amp}
    <2> HIDE DEF e
    <2> QED BY <1>4, SubsetSeq, ElementOfSeq
  <1>6. Len(e) \in 1..Len(e)
    <2> HIDE DEF e
    <2>1. Len(e) \in Nat /\ Len(e) # 0
      BY <1>4, <1>5, EmptySeq, LenProperties
    <2> QED BY <2>1
  <1>7. e[Len(e)] # Amp
    BY <1>5, <1>6
  <1>8. tokens = <<e>>
    <2> HIDE DEF e
    <2> QED BY <1>4, SplitOne
  <1>9. tokens \in Seq(Seq(Bytes)) /\ Len(tokens) = 1 /\ tokens[1] = e
    <2> HIDE DEF tokens, e
    <2> QED BY <1>5, <1>8
  <1> HIDE DEF one, tokens
  <1>10. \A i \in 1..Len(one) : tokens[i] = EncodedPair(one[i])
    BY <1>2, <1>9
  <1> HIDE DEF e
  <1> QED BY <1>2, <1>3, <1>4, <1>5, <1>7, <1>9, <1>10 DEF QuerySplit, tokens, one

LEMMA MorePairsSplit ==
  ASSUME NEW ps \in Seq(Seq(Bytes) \X Seq(Bytes)), NEW p \in Seq(Bytes) \X Seq(Bytes),
         ps # <<>>, QuerySplit(ps)
  PROVE  QuerySplit(Append(ps, p))
  <1> DEFINE S == Seq(Bytes) \X Seq(Bytes)
             n == Len(ps)
             grown == Append(ps, p)
             e == EncodedPair(p)
             u == Encoded(ps, Amp)
             w == Encoded(grown, Amp)
             front == Split(u, Amp)
             tokens == Split(w, Amp)
  <1>1. /\ n \in Nat /\ grown \in Seq(S) /\ Len(grown) = n + 1
        /\ grown[n + 1] = p /\ \A i \in 1..n : grown[i] = ps[i]
    <2>1. p \in S /\ ps \in Seq(S)
      OBVIOUS
    <2> HIDE DEF S
    <2>2. /\ Append(ps, p) \in Seq(S) /\ Len(Append(ps, p)) = Len(ps) + 1
          /\ Append(ps, p)[Len(ps) + 1] = p
          /\ \A i \in 1..Len(ps) : Append(ps, p)[i] = ps[i]
      BY <2>1, AppendProperties
    <2> QED BY <2>1, <2>2, LenProperties, Zenon
  <1>2. /\ u \in Seq(Bytes) /\ u # <<>> /\ u[Len(u)] # Amp
        /\ front \in Seq(Seq(Bytes)) /\ Len(front) = n
        /\ \A i \in 1..n : front[i] = EncodedPair(ps[i])
    BY DEF QuerySplit
  <1>3. w = u \o (<<Amp>> \o e)
    BY EncodedAppend
  <1>4. e \in Seq(Bytes \ {Amp}) /\ e # <<>> /\ e \in Seq(Bytes) /\ <<Amp>> \in Seq(Bytes)
        /\ Amp \in Bytes
    <2>1. e \in Seq(Bytes \ {Amp}) /\ e # <<>> /\ Bytes \ {Amp} \subseteq Bytes
      BY PairDecodes
    <2>2. e \in Seq(Bytes)
      BY <2>1, SubsetSeq
    <2>3. Amp \in Bytes
      BY DEF Amp, Bytes
    <2> QED BY <2>1, <2>2, <2>3
  <1> HIDE DEF S, n, grown, e, u, w
  <1>5. /\ w \in Seq(Bytes) /\ w # <<>> /\ w[Len(w)] = e[Len(e)]
        /\ tokens = Append(front, e)
    <2>1. /\ Amp \in Bytes /\ u \in Seq(Bytes) /\ u # <<>> /\ u[Len(u)] # Amp
          /\ e \in Seq(Bytes \ {Amp}) /\ e # <<>>
      BY <1>2, <1>4
    <2>2. Joined(w, u, Amp, e)
      BY <1>3 DEF Joined
    <2> HIDE DEF front, tokens
    <2>3. SplitsOff(w, u, Amp, e)
      BY <2>1, <2>2, SplitLast
    <2> QED BY <2>3, Zenon DEF SplitsOff, front, tokens
  <1>6. w[Len(w)] # Amp
    <2>1. Len(e) \in 1..Len(e)
      <3>1. Len(e) \in Nat /\ Len(e) # 0
        BY <1>4, EmptySeq, LenProperties
      <3> QED BY <3>1
    <2>2. e[Len(e)] \in Bytes \ {Amp}
      BY <1>4, <2>1, ElementOfSeq
    <2> QED BY <1>5, <2>2
  <1> HIDE DEF front, tokens
  <1>8. /\ tokens \in Seq(Seq(Bytes)) /\ Len(tokens) = n + 1
        /\ tokens[n + 1] = e /\ \A i \in 1..n : tokens[i] = front[i]
    <2> DEFINE T == Seq(Bytes)
    <2>1. front \in Seq(T) /\ e \in T
      BY <1>2, <1>4
    <2> HIDE DEF T
    <2>2. /\ Append(front, e) \in Seq(T) /\ Len(Append(front, e)) = Len(front) + 1
          /\ Append(front, e)[Len(front) + 1] = e
          /\ \A i \in 1..Len(front) : Append(front, e)[i] = front[i]
      BY <2>1, AppendProperties
    <2> QED BY <1>2, <1>5, <2>2, Zenon DEF T
  <1>9. \A i \in 1..n + 1 : tokens[i] = EncodedPair(grown[i])
    <2> TAKE i \in 1..n + 1
    <2>1. i \in 1..n \/ i = n + 1
      BY <1>1
    <2>2. CASE i \in 1..n
      BY <1>1, <1>2, <1>8, <2>2
    <2>3. CASE i = n + 1
      BY <1>1, <1>8, <2>3 DEF e
    <2> QED BY <2>1, <2>2, <2>3
  <1> QED BY <1>1, <1>5, <1>6, <1>8, <1>9, Zenon DEF QuerySplit, tokens, w, grown

\* ... of every list of pairs.
LEMMA QuerySplits ==
  ASSUME NEW pairs \in Seq(Seq(Bytes) \X Seq(Bytes))
  PROVE  QuerySplit(pairs)
  <1> DEFINE S == Seq(Bytes) \X Seq(Bytes)
             Done == {ps \in Seq(S) : QuerySplit(ps)}
  <1>1. <<>> \in Done
    BY EmptySeq DEF QuerySplit
  <1>2. ASSUME NEW ps \in Seq(S), NEW p \in S, ps \in Done PROVE Append(ps, p) \in Done
    <2>1. Append(ps, p) \in Seq(S)
      BY AppendProperties
    <2>2. QuerySplit(Append(ps, p))
      BY <1>2, OnePairSplits, MorePairsSplit
    <2> QED BY <2>1, <2>2
  <1> HIDE DEF Done, S
  <1>3. pairs \in Seq(S)
    BY DEF S
  <1>4. pairs \in Done
    BY <1>1, <1>2, <1>3, SequenceInduction
  <1> QED BY <1>4 DEF Done
-----------------------------------------------------------------------------
\* The pairs of a query that was encoded are put in the map, the last of a key; what
\* the map has from an earlier time is of these keys, and is replaced.
LEMMA PairsAreSent ==
  ASSUME NEW pairs \in Seq(Seq(Bytes) \X Seq(Bytes)), NEW map,
         DOMAIN map \subseteq DOMAIN PairsSent(pairs)
  PROVE  /\ Pairs(map, Encoded(pairs, Amp), Amp).map = PairsSent(pairs)
         /\ Pairs(map, Encoded(pairs, Amp), Amp).ok = TRUE
  <1> DEFINE n == Len(pairs)
             text == Encoded(pairs, Amp)
             tokens == IF text = <<>> THEN <<>> ELSE Split(text, Amp)
             keys == [i \in DOMAIN tokens |-> PairKey(tokens[i])]
             values == [i \in DOMAIN tokens |-> PairValue(tokens[i])]
             thrown == {i \in DOMAIN tokens : Thrown \in {keys[i], values[i]}}
             put == {i \in DOMAIN tokens : \A j \in thrown : i < j}
             At(k) == {i \in put : keys[i] = k}
             loads == [k \in DOMAIN map \cup {keys[i] : i \in put} |->
                         IF At(k) = {} THEN map[k] ELSE values[Max(At(k))]]
             sent == PairsSent(pairs)
             Of(k) == {i \in DOMAIN pairs : pairs[i][1] = k}
  <1>1. /\ n \in Nat /\ DOMAIN pairs = 1..n
        /\ \A i \in 1..n : pairs[i] \in Seq(Bytes) \X Seq(Bytes)
    BY LenProperties, ElementOfSeq
  <1>2. DOMAIN tokens = 1..n /\ \A i \in 1..n : tokens[i] = EncodedPair(pairs[i])
    <2>1. CASE pairs = <<>>
      <3>1. text = <<>>
        BY <2>1, FlattenEmpty DEF Encoded
      <3>2. tokens = <<>> /\ n = 0
        BY <2>1, <3>1
      <3> QED BY <3>2
    <2>2. CASE pairs # <<>>
      <3>1. /\ text # <<>> /\ Split(text, Amp) \in Seq(Seq(Bytes)) /\ Len(Split(text, Amp)) = n
            /\ \A i \in 1..n : Split(text, Amp)[i] = EncodedPair(pairs[i])
        BY <2>2, QuerySplits DEF QuerySplit
      <3>2. tokens = Split(text, Amp)
        BY <3>1
      <3> HIDE DEF tokens, text, n
      <3> QED BY <3>1, <3>2, LenProperties
    <2> QED BY <2>1, <2>2
  <1>3. Pairs(map, text, Amp) = [map |-> loads, ok |-> thrown = {}]
    BY Zenon DEF Pairs
  <1> HIDE DEF tokens, text
  <1>4. /\ DOMAIN keys = 1..n /\ DOMAIN values = 1..n
        /\ \A i \in 1..n : keys[i] = pairs[i][1] /\ values[i] = pairs[i][2]
    BY <1>1, <1>2, PairDecodes
  <1> HIDE DEF keys, values
  <1>5. \A i \in 1..n : pairs[i][1] \in Seq(Bytes) /\ pairs[i][2] \in Seq(Bytes)
    BY <1>1
  <1>6. Thrown \notin Seq(Bytes)
    <2> SUFFICES ASSUME Thrown \in Seq(Bytes) PROVE FALSE
      OBVIOUS
    <2>1. 1 \in 1..Len(Thrown) /\ Thrown[1] = -1 /\ -1 \notin Bytes
      BY DEF Thrown, Bytes
    <2>2. Thrown[1] \in Bytes
      BY <2>1, ElementOfSeq
    <2> QED BY <2>1, <2>2
  <1>7. thrown = {}
    BY <1>2, <1>4, <1>5, <1>6
  <1>8. put = 1..n
    BY <1>2, <1>7
  <1> HIDE DEF thrown, put
  <1>9. ASSUME NEW k PROVE At(k) = Of(k)
    BY <1>1, <1>4, <1>8
  <1>10. DOMAIN sent = {pairs[i][1] : i \in DOMAIN pairs}
         /\ \A k \in DOMAIN sent : sent[k] = pairs[Max(Of(k))][2]
    BY DEF PairsSent
  <1>11. {keys[i] : i \in put} = {pairs[i][1] : i \in DOMAIN pairs}
    <2>1. {keys[i] : i \in 1..n} = {pairs[i][1] : i \in 1..n}
      <3> HIDE DEF n
      <3> QED BY <1>4
    <2> QED BY <1>1, <1>8, <2>1
  <1>12. DOMAIN map \cup {keys[i] : i \in put} = DOMAIN sent
    BY <1>10, <1>11
  <1>13. ASSUME NEW k \in DOMAIN sent PROVE loads[k] = sent[k]
    <2>1. Of(k) # {} /\ Of(k) \subseteq 1..n
      BY <1>1, <1>10
    <2>2. Max(Of(k)) \in 1..n
      <3> HIDE DEF Of, n
      <3>1. Of(k) \subseteq Int /\ n \in Int /\ \A i \in Of(k) : i <= n
        BY <1>1, <2>1
      <3> QED BY <2>1, <3>1, MaxIsGreatest
    <2>3. loads[k] = values[Max(Of(k))]
      BY <1>9, <1>12, <2>1
    <2> QED BY <1>4, <1>10, <2>2, <2>3
  <1>14. DOMAIN loads = DOMAIN sent
    BY <1>12
  <1>15. loads = sent
    <2> DEFINE D == DOMAIN sent
    <2>1. loads = [k \in D |-> loads[k]]
      BY <1>14
    <2>2. sent = [k \in D |-> sent[k]]
      BY DEF PairsSent
    <2> HIDE DEF loads, sent
    <2> QED BY <1>13, <2>1, <2>2
  <1>16. Pairs(map, text, Amp).map = loads /\ Pairs(map, text, Amp).ok = (thrown = {})
    <2> HIDE DEF loads
    <2> QED BY <1>3
  <1> HIDE DEF loads, sent
  <1> QED BY <1>7, <1>15, <1>16 DEF text, sent
-----------------------------------------------------------------------------
\* From the first time that the parameters are loaded, the map is what the pairs of the
\* query amount to; a request asked for again puts the same in it.
QueryInv ==
  QueryEncoded =>
    \/ getParameters = PairsSent(context.pairs)
    \/ getParameters = <<>> /\ pc = "idle" /\ ~requestLoaded

\* The parameters of the query are loaded, for the first time or again.
LEMMA QueryLoads ==
  ASSUME QueryInv, LoadHeaderParams
  PROVE  QueryInv'
  <1> SUFFICES ASSUME QueryEncoded PROVE (getParameters = PairsSent(context.pairs))'
    BY DEF LoadHeaderParams, QueryInv, QueryEncoded
  <1> DEFINE pairs == context.pairs
  <1>1. pairs \in Seq(Seq(Bytes) \X Seq(Bytes)) /\ context.query = Encoded(pairs, Amp)
    BY DEF QueryEncoded, Bytes
  <1>2. DOMAIN getParameters \subseteq DOMAIN PairsSent(pairs)
    <2>1. DOMAIN <<>> = {}
      OBVIOUS
    <2> QED BY <2>1 DEF QueryInv
  <1> HIDE DEF pairs
  <1>3. Pairs(getParameters, Encoded(pairs, Amp), Amp).map = PairsSent(pairs)
    BY <1>1, <1>2, PairsAreSent
  <1>4. getParameters' = Pairs(getParameters, context.query, Amp).map /\ context' = context
    BY DEF LoadHeaderParams
  <1>5. getParameters' = PairsSent(pairs)
    BY <1>1, <1>3, <1>4, Zenon
  <1> QED BY <1>4, <1>5 DEF pairs

\* The other steps leave the map alone, and only a request whose parsers have returned
\* is loaded.
LEMMA QueryStays ==
  ASSUME QueryInv, [PythonNext]_allVars, ~LoadHeaderParams
  PROVE  QueryInv'
  <1>1. UNCHANGED <<context, getParameters>>
        /\ (pc = "idle" /\ ~requestLoaded => pc' = "idle" /\ ~requestLoaded')
    <2> USE DEF vars, loaded, request, scriptVars, output
    <2>1. CASE UNCHANGED allVars
      BY <2>1 DEF allVars
    <2>2. CASE Parse
      <3> SUFFICES ASSUME ParserStep, UNCHANGED scriptVars
                   PROVE  UNCHANGED <<context, getParameters>> /\ pc # "idle"
        BY <2>2 DEF Parse
      <3>1. CASE ReadForm \/ EndForm
        BY <3>1 DEF ReadForm, EndForm
      <3>2. CASE ReadPart
        BY <3>2 DEF ReadPart
      <3>3. CASE PartHeader
        <4>1. Scanning /\ context' = context /\ getParameters' = getParameters
          BY <3>3, Zenon DEF PartHeader
        <4> QED BY <4>1 DEF Scanning
      <3>4. CASE DataEnd
        BY <3>4 DEF DataEnd, Scanning
      <3>5. CASE FileData \/ NeedMore
        BY <3>5 DEF FileData, NeedMore, Scanning
      <3> QED BY <3>1, <3>2, <3>3, <3>4, <3>5 DEF ParserStep
    <2>3. CASE InitHandler \/ NotRun \/ Start \/ ScriptEnds \/ ScriptFails \/ Ask \/ Release
      <3>1. CASE NotRun
        <4>1. UNCHANGED vars /\ UNCHANGED request
          BY <3>1 DEF NotRun
        <4> QED BY <4>1
      <3>2. CASE InitHandler \/ Start \/ ScriptEnds \/ ScriptFails \/ Ask
        BY <3>2 DEF InitHandler, Start, ScriptEnds, ScriptFails, Ask
      <3>3. CASE Release
        BY <3>3 DEF Release
      <3> QED BY <2>3, <3>1, <3>2, <3>3
    <2>4. CASE Loaded \/ Failed \/ RawRead
      BY <2>4 DEF Loaded, Failed, RawRead
    <2>5. CASE Prints \/ Writes \/ OtherStarts \/ OtherEnds \/ OtherPrints \/ ClientLeaves
      BY <2>5 DEF Prints, Writes, OtherStarts, OtherEnds, OtherPrints, ClientLeaves, ClientGone
    <2> QED BY <2>1, <2>2, <2>3, <2>4, <2>5 DEF PythonNext, Handler
  <1>2. QueryEncoded' = QueryEncoded /\ PairsSent(context.pairs)' = PairsSent(context.pairs)
    BY <1>1 DEF QueryEncoded
  <1> QED BY <1>1, <1>2 DEF QueryInv

\* encodeUrlPart and parseQueryStringParams, for pairs of any number and texts of any
\* bytes: what a page encodes, the script is given, also after an exception.
THEOREM QueryIsLoaded == PythonSpec => []QueryLoaded
  <1>1. PythonInit => QueryInv
    <2>1. PythonInit => getParameters = <<>> /\ pc = "idle" /\ ~requestLoaded
      BY DEF PythonInit, Init
    <2> QED BY <2>1 DEF QueryInv
  <1>2. QueryInv /\ [PythonNext]_allVars => QueryInv'
    BY QueryLoads, QueryStays
  <1>3. QueryInv => QueryLoaded
    <2> SUFFICES ASSUME QueryInv, requestLoaded, QueryEncoded
                 PROVE  LET sent == PairsSent(context.pairs) IN
                        /\ DOMAIN getParameters = DOMAIN sent
                        /\ \A key \in DOMAIN sent : Param(key) = sent[key]
      BY DEF QueryLoaded
    <2>1. getParameters = PairsSent(context.pairs)
      BY DEF QueryInv
    <2> QED BY <2>1, Zenon DEF Param
  <1> QED BY <1>1, <1>2, <1>3, PTL DEF PythonSpec
-----------------------------------------------------------------------------
(* The loop over a form. *)

\* What Scan carries, after each of n characters.
Scans(f, start, text, n) ==
  f = [i \in 0..n |-> IF i = 0 THEN start ELSE FormChar(f[i - 1], text[i])]

\* There is such a function, for any number of characters.
LEMMA ScansExists ==
  ASSUME NEW start, NEW text
  PROVE  \A n \in Nat : \E f : Scans(f, start, text, n)
  <1> DEFINE Some == {n \in Nat : \E f : Scans(f, start, text, n)}
  <1>1. 0 \in Some
    <2> DEFINE f == [i \in 0..0 |-> start]
    <2>1. f = [i \in 0..0 |-> IF i = 0 THEN start ELSE FormChar(f[i - 1], text[i])]
      OBVIOUS
    <2> HIDE DEF f
    <2> QED BY <2>1 DEF Scans
  <1>2. ASSUME NEW n \in Nat, n \in Some PROVE n + 1 \in Some
    <2> PICK f : Scans(f, start, text, n)
      BY <1>2
    <2> DEFINE next == FormChar(f[n], text[n + 1])
               g == [i \in 0..n + 1 |-> IF i = n + 1 THEN next ELSE f[i]]
               h == [i \in 0..n + 1 |-> IF i = 0 THEN start ELSE FormChar(g[i - 1], text[i])]
    <2>1. \A i \in 0..n : f[i] = IF i = 0 THEN start ELSE FormChar(f[i - 1], text[i])
      BY Zenon DEF Scans
    <2>2. ASSUME NEW i \in 0..n + 1
          PROVE  g[i] = IF i = 0 THEN start ELSE FormChar(g[i - 1], text[i])
      <3> HIDE DEF next
      <3>1. CASE i = 0
        BY <2>1, <3>1
      <3>2. CASE i \in 1..n
        <4>1. i # 0 /\ i \in 0..n /\ i - 1 \in 0..n /\ i - 1 \in 0..n + 1 /\ i # n + 1 /\ i - 1 # n + 1
          BY <3>2
        <4>2. g[i] = f[i] /\ g[i - 1] = f[i - 1]
          BY <4>1
        <4>3. f[i] = FormChar(f[i - 1], text[i])
          BY <2>1, <4>1, Zenon
        <4> HIDE DEF g
        <4> QED BY <4>1, <4>2, <4>3, Zenon
      <3>3. CASE i = n + 1
        <4>1. i # 0 /\ i - 1 = n /\ n \in 0..n + 1 /\ n # n + 1
          BY <3>3
        <4>2. g[i] = next /\ g[i - 1] = f[n]
          BY <3>3, <4>1
        <4> HIDE DEF g
        <4>3. g[i] = FormChar(g[i - 1], text[i])
          BY <3>3, <4>2, Zenon DEF next
        <4> QED BY <4>1, <4>3, Zenon
      <3> QED BY <3>1, <3>2, <3>3
    <2>3. g = h
      <3>1. g = [i \in 0..n + 1 |-> g[i]]
        OBVIOUS
      <3> HIDE DEF g
      <3> QED BY <2>2, <3>1, Zenon
    <2>4. Scans(g, start, text, n + 1)
      <3> HIDE DEF g
      <3> QED BY <2>3, Zenon DEF Scans, h
    <2> QED BY <2>4
  <1> HIDE DEF Some
  <1>3. \A n \in Nat : n \in Some
    BY <1>1, <1>2, SetInduction
  <1> QED BY <1>3 DEF Some

\* One turn of the loop: Scan binds what is carried.
LEMMA OneStep ==
  ASSUME NEW carried, NEW code
  PROVE  (CHOOSE next \in {FormChar(c, code) : c \in {carried}} : TRUE) = FormChar(carried, code)
  <1>1. {FormChar(c, code) : c \in {carried}} = {FormChar(carried, code)}
    BY Zenon
  <1>2. \A x : (CHOOSE next \in {x} : TRUE) = x
    OBVIOUS
  <1> QED BY <1>1, <1>2, Zenon

\* The loop over a text carries what follows from character to character.
LEMMA ScanIs ==
  ASSUME NEW start, NEW text \in Seq(Int)
  PROVE  \E f : /\ f[0] = start
                /\ \A i \in 1..Len(text) : f[i] = FormChar(f[i - 1], text[i])
                /\ Scan(FormChar, start, text) = f[Len(text)]
  <1> DEFINE n == Len(text)
             Step(f) == [i \in 0..n |->
                           IF i = 0 THEN start
                           ELSE CHOOSE next \in {FormChar(carried, text[i]) : carried \in {f[i - 1]}} : TRUE]
             chosen == CHOOSE f : f = Step(f)
  <1>1. Scan(FormChar, start, text) = chosen[n]
    BY Zenon DEF Scan
  <1>2. ASSUME NEW f
        PROVE  Step(f) = [i \in 0..n |-> IF i = 0 THEN start ELSE FormChar(f[i - 1], text[i])]
    <2>1. \A i : (CHOOSE next \in {FormChar(carried, text[i]) : carried \in {f[i - 1]}} : TRUE)
                   = FormChar(f[i - 1], text[i])
      BY OneStep, Zenon
    <2> QED BY <2>1, Zenon
  <1>3. n \in Nat
    BY LenProperties
  <1> HIDE DEF n, Step
  <1>4. PICK f : Scans(f, start, text, n)
    BY <1>3, ScansExists
  <1>5. f = Step(f)
    BY <1>2, <1>4, Zenon DEF Scans
  <1>6. chosen = Step(chosen)
    BY <1>5, Zenon
  <1> HIDE DEF chosen
  <1>7. chosen = [i \in 0..n |-> IF i = 0 THEN start ELSE FormChar(chosen[i - 1], text[i])]
    BY <1>2, <1>6, Zenon
  <1>8. chosen[0] = start
    <2>1. 0 \in 0..n
      BY <1>3
    <2> QED BY <1>7, <2>1, Zenon
  <1>9. \A i \in 1..n : chosen[i] = FormChar(chosen[i - 1], text[i])
    <2>1. \A i \in 1..n : i \in 0..n /\ i # 0
      BY <1>3
    <2> QED BY <1>7, <2>1, Zenon
  <1> QED BY <1>1, <1>8, <1>9, Zenon DEF n
-----------------------------------------------------------------------------
\* What parseQueryStringParams makes of the pairs it has split.
PairsOf(pairs) ==
  LET thrown == {i \in DOMAIN pairs : Thrown \in {PairKey(pairs[i]), PairValue(pairs[i])}}
      put    == {i \in DOMAIN pairs : \A j \in thrown : i < j}
      At(k)  == {i \in put : PairKey(pairs[i]) = k}
  IN [map |-> [k \in {PairKey(pairs[i]) : i \in put} |-> PairValue(pairs[Max(At(k))])],
      ok  |-> thrown = {}]

\* Its two fields, for the SMT solver.
LEMMA PairsFields ==
  ASSUME NEW r, NEW m, NEW b, r = [map |-> m, ok |-> b]
  PROVE  r.map = m /\ r.ok = b
  OBVIOUS

\* The same beside what the map has, as the code of Pairs says it.
PairsInto(map, pairs) ==
  LET keys   == [i \in DOMAIN pairs |-> PairKey(pairs[i])]
      values == [i \in DOMAIN pairs |-> PairValue(pairs[i])]
      thrown == {i \in DOMAIN pairs : Thrown \in {keys[i], values[i]}}
      put    == {i \in DOMAIN pairs : \A j \in thrown : i < j}
      At(k)  == {i \in put : keys[i] = k}
  IN [map |-> [k \in DOMAIN map \cup {keys[i] : i \in put} |->
                 IF At(k) = {} THEN map[k] ELSE values[Max(At(k))]],
      ok  |-> thrown = {}]

\* parseQueryStringParams, when nothing was in the map.
LEMMA PairsAre ==
  ASSUME NEW text, NEW pairs, pairs = (IF text = <<>> THEN <<>> ELSE Split(text, Amp)),
         NEW T, pairs \in Seq(T)
  PROVE  Pairs(<<>>, text, Amp) = PairsOf(pairs)
  <1> DEFINE n == Len(pairs)
             keys == [i \in DOMAIN pairs |-> PairKey(pairs[i])]
             values == [i \in DOMAIN pairs |-> PairValue(pairs[i])]
             thrown == {i \in DOMAIN pairs : Thrown \in {keys[i], values[i]}}
             put == {i \in DOMAIN pairs : \A j \in thrown : i < j}
             At(k) == {i \in put : keys[i] = k}
             loads == [k \in DOMAIN <<>> \cup {keys[i] : i \in put} |->
                         IF At(k) = {} THEN <<>>[k] ELSE values[Max(At(k))]]
             thrown1 == {i \in DOMAIN pairs : Thrown \in {PairKey(pairs[i]), PairValue(pairs[i])}}
             put1 == {i \in DOMAIN pairs : \A j \in thrown1 : i < j}
             At1(k) == {i \in put1 : PairKey(pairs[i]) = k}
             loads1 == [k \in {PairKey(pairs[i]) : i \in put1} |-> PairValue(pairs[Max(At1(k))])]
  <1>1. Pairs(<<>>, text, Amp) = [map |-> loads, ok |-> thrown = {}]
    <2>1. Pairs(<<>>, text, Amp) = PairsInto(<<>>, IF text = <<>> THEN <<>> ELSE Split(text, Amp))
      BY Zenon DEF Pairs, PairsInto
    <2>2. Pairs(<<>>, text, Amp) = PairsInto(<<>>, pairs)
      BY <2>1
    <2> QED BY <2>2, Zenon DEF PairsInto
  <1>2. PairsOf(pairs) = [map |-> loads1, ok |-> thrown1 = {}]
    BY Zenon DEF PairsOf
  <1>3. /\ DOMAIN pairs = 1..n /\ n \in Nat
        /\ \A i \in 1..n : keys[i] = PairKey(pairs[i]) /\ values[i] = PairValue(pairs[i])
    BY LenProperties
  <1> HIDE DEF n, keys, values
  <1>4. thrown = thrown1 /\ put = put1 /\ put \subseteq 1..n
    BY <1>3
  <1> HIDE DEF thrown, thrown1, put, put1
  <1>5. ASSUME NEW k PROVE At(k) = At1(k)
    BY <1>3, <1>4
  <1>6. DOMAIN <<>> \cup {keys[i] : i \in put} = {PairKey(pairs[i]) : i \in put1}
    <2>1. DOMAIN <<>> = {}
      OBVIOUS
    <2>2. {keys[i] : i \in put} = {PairKey(pairs[i]) : i \in put1}
      BY <1>3, <1>4
    <2> QED BY <2>1, <2>2
  <1>7. ASSUME NEW k \in {PairKey(pairs[i]) : i \in put1}
        PROVE  (IF At(k) = {} THEN <<>>[k] ELSE values[Max(At(k))]) = PairValue(pairs[Max(At1(k))])
    <2>1. At1(k) # {} /\ At1(k) \subseteq 1..n
      BY <1>4
    <2>2. Max(At1(k)) \in 1..n
      <3> HIDE DEF At1
      <3>1. At1(k) \subseteq Int /\ n \in Int /\ \A i \in At1(k) : i <= n
        BY <1>3, <2>1
      <3> QED BY <2>1, <3>1, MaxIsGreatest
    <2> HIDE DEF At, At1
    <2> QED BY <1>3, <1>5, <2>1, <2>2
  <1>8. loads = loads1
    <2> HIDE DEF At, At1
    <2> QED BY <1>6, <1>7, Zenon
  <1> HIDE DEF loads, loads1
  <1> QED BY <1>1, <1>2, <1>4, <1>8, Zenon

\* No pairs: nothing is put, and nothing throws.
LEMMA PairsOfNone == PairsOf(<<>>).ok = TRUE /\ PairsOf(<<>>).map = <<>>
  <1> DEFINE none == <<>>
             thrown == {i \in DOMAIN none : Thrown \in {PairKey(none[i]), PairValue(none[i])}}
             put == {i \in DOMAIN none : \A j \in thrown : i < j}
             At(k) == {i \in put : PairKey(none[i]) = k}
             map == [k \in {PairKey(none[i]) : i \in put} |-> PairValue(none[Max(At(k))])]
  <1>1. PairsOf(none) = [map |-> map, ok |-> thrown = {}]
    BY Zenon DEF PairsOf
  <1>2. DOMAIN none = {}
    OBVIOUS
  <1> HIDE DEF none
  <1>3. thrown = {} /\ put = {}
    BY <1>2, Zenon
  <1> HIDE DEF thrown, put
  <1>4. map = [k \in {} |-> PairValue(none[Max(At(k))])]
    BY <1>3, Zenon
  <1>5. [k \in {} |-> PairValue(none[Max(At(k))])] = <<>>
    <2> DEFINE F(k) == PairValue(none[Max(At(k))])
    <2> HIDE DEF F
    <2>1. [k \in {} |-> F(k)] = <<>>
      OBVIOUS
    <2> QED BY <2>1, Zenon DEF F
  <1>6. map = <<>>
    BY <1>4, <1>5, Zenon
  <1> HIDE DEF map
  <1>7. PairsOf(none).map = map /\ PairsOf(none).ok = (thrown = {})
    BY <1>1
  <1> QED BY <1>3, <1>6, <1>7, Zenon DEF none

\* One pair more is put in the map, unless it cannot be decoded.
LEMMA PairsAppend ==
  ASSUME NEW T, NEW pairs \in Seq(T), NEW pair \in T, PairsOf(pairs).ok
  PROVE  LET all == PairsOf(Append(pairs, pair)) IN
         IF Thrown \in {PairKey(pair), PairValue(pair)} THEN all.ok = FALSE
         ELSE /\ all.ok = TRUE
              /\ all.map = Put(PairsOf(pairs).map, PairKey(pair), PairValue(pair))
  <1> DEFINE n == Len(pairs)
             longer == Append(pairs, pair)
             thrown == {i \in DOMAIN pairs : Thrown \in {PairKey(pairs[i]), PairValue(pairs[i])}}
             put == {i \in DOMAIN pairs : \A j \in thrown : i < j}
             At(k) == {i \in put : PairKey(pairs[i]) = k}
             map == [k \in {PairKey(pairs[i]) : i \in put} |-> PairValue(pairs[Max(At(k))])]
             thrown1 == {i \in DOMAIN longer : Thrown \in {PairKey(longer[i]), PairValue(longer[i])}}
             put1 == {i \in DOMAIN longer : \A j \in thrown1 : i < j}
             At1(k) == {i \in put1 : PairKey(longer[i]) = k}
             map1 == [k \in {PairKey(longer[i]) : i \in put1} |-> PairValue(longer[Max(At1(k))])]
             new == PairKey(pair)
             grown == [k \in {new} \cup DOMAIN map |-> IF k = new THEN PairValue(pair) ELSE map[k]]
  <1>1. PairsOf(pairs) = [map |-> map, ok |-> thrown = {}]
    BY Zenon DEF PairsOf
  <1>2. PairsOf(longer) = [map |-> map1, ok |-> thrown1 = {}]
    BY Zenon DEF PairsOf
  <1>3. thrown = {}
    <2> HIDE DEF map, thrown
    <2>1. PairsOf(pairs).ok = (thrown = {})
      BY <1>1, PairsFields, Zenon
    <2> QED BY <2>1, Zenon
  <1>4. /\ n \in Nat /\ DOMAIN pairs = 1..n /\ DOMAIN longer = 1..n + 1
        /\ longer[n + 1] = pair /\ \A i \in 1..n : longer[i] = pairs[i]
    <2>1. /\ longer \in Seq(T) /\ Len(longer) = n + 1
          /\ longer[n + 1] = pair /\ \A i \in 1..n : longer[i] = pairs[i]
      BY AppendProperties
    <2> HIDE DEF longer
    <2> QED BY <2>1, LenProperties
  <1> HIDE DEF n, longer
  <1>5. Put(map, new, PairValue(pair)) = grown
    BY Zenon DEF Put
  <1>6. /\ \A i \in 1..n : i \in 1..n + 1 /\ i # n + 1
        /\ n + 1 \in 1..n + 1 /\ \A i \in 1..n + 1 : i \in 1..n \/ i = n + 1
    BY <1>4
  <1>7. CASE Thrown \in {PairKey(pair), PairValue(pair)}
    <2>1. n + 1 \in thrown1
      BY <1>4, <1>6, <1>7
    <2>2. thrown1 # {}
      BY <2>1
    <2> HIDE DEF thrown1, map1
    <2>3. PairsOf(longer).ok = (thrown1 = {})
      BY <1>2
    <2>4. PairsOf(longer).ok = FALSE
      BY <2>2, <2>3, Zenon
    <2> QED BY <1>7, <2>4, Zenon DEF longer
  <1>8. CASE Thrown \notin {PairKey(pair), PairValue(pair)}
    <2>1. thrown1 = {}
      <3>1. \A i \in 1..n : Thrown \notin {PairKey(pairs[i]), PairValue(pairs[i])}
        BY <1>3, <1>4
      <3>2. \A i \in 1..n + 1 : Thrown \notin {PairKey(longer[i]), PairValue(longer[i])}
        BY <1>4, <1>6, <1>8, <3>1
      <3> QED BY <1>4, <3>2
    <2>2. put = 1..n /\ put1 = 1..n + 1
      BY <1>3, <1>4, <2>1
    <2> HIDE DEF thrown, thrown1, put, put1
    <2>3. {PairKey(longer[i]) : i \in put1} = {new} \cup {PairKey(pairs[i]) : i \in put}
      BY <1>4, <1>6, <2>2
    <2>4. ASSUME NEW k \in {PairKey(longer[i]) : i \in put1}
          PROVE  PairValue(longer[Max(At1(k))]) = IF k = new THEN PairValue(pair) ELSE map[k]
      <3>1. CASE k = new
        <4>1. n + 1 \in At1(k) /\ At1(k) \subseteq 1..n + 1
          BY <1>4, <1>6, <2>2, <3>1
        <4> HIDE DEF At1
        <4>2. Max(At1(k)) = n + 1
          <5>1. At1(k) \subseteq Int /\ n + 1 \in Int /\ \A i \in At1(k) : i <= n + 1
            BY <1>4, <4>1
          <5>2. Max(At1(k)) \in At1(k) /\ \A i \in At1(k) : Max(At1(k)) >= i
            BY <4>1, <5>1, MaxIsGreatest
          <5>3. Max(At1(k)) \in 1..n + 1 /\ Max(At1(k)) >= n + 1
            BY <4>1, <5>2
          <5> QED BY <1>4, <5>3
        <4> QED BY <1>4, <3>1, <4>2
      <3>2. CASE k # new
        <4>1. At1(k) = At(k)
          BY <1>4, <1>6, <2>2, <3>2
        <4>2. k \in {PairKey(pairs[i]) : i \in put}
          BY <2>3, <3>2
        <4>3. At(k) # {} /\ At(k) \subseteq 1..n
          BY <2>2, <4>2
        <4>4. map[k] = PairValue(pairs[Max(At(k))])
          BY <4>2, Zenon
        <4> HIDE DEF At, At1, map
        <4>5. Max(At(k)) \in 1..n
          <5>1. At(k) \subseteq Int /\ n \in Int /\ \A i \in At(k) : i <= n
            BY <1>4, <4>3
          <5> QED BY <4>3, <5>1, MaxIsGreatest
        <4> QED BY <1>4, <3>2, <4>1, <4>4, <4>5
      <3> QED BY <3>1, <3>2
    <2>5. DOMAIN map = {PairKey(pairs[i]) : i \in put}
      BY Zenon
    <2>6. map1 = grown
      <3> HIDE DEF map, At1
      <3> QED BY <2>3, <2>4, <2>5, Zenon
    <2> HIDE DEF map, map1, grown, new
    <2>7. PairsOf(pairs).map = map /\ PairsOf(longer).map = map1 /\ PairsOf(longer).ok = (thrown1 = {})
      BY <1>1, <1>2
    <2> QED BY <1>5, <1>8, <2>1, <2>6, <2>7, Zenon DEF longer, new
  <1> QED BY <1>7, <1>8
-----------------------------------------------------------------------------
(* A form that has been read up to some character. *)

\* What is read of a pair: its key, and behind the '=' its value.
PairRead(v, acc) ==
  /\ acc.key \in Seq(Plain) /\ acc.val \in Seq(Plain)
  /\ IF acc.keyLoaded THEN acc.key # <<>> /\ v = acc.key \o <<Equals>> \o acc.val
     ELSE v = acc.key /\ acc.val = <<>>

\* The other parser cuts the pair at the same place.
LEMMA PairReads ==
  ASSUME NEW v, NEW acc, PairRead(v, acc)
  PROVE  PairKey(v) = DecodeUrl(acc.key) /\ PairValue(v) = DecodeUrl(acc.val)
  <1>1. CASE acc.keyLoaded
    <2>1. v = acc.key \o <<Equals>> \o acc.val
      BY <1>1, Zenon DEF PairRead
    <2>2. acc.key \in Seq(Plain) /\ acc.val \in Seq(Plain)
      BY Zenon DEF PairRead
    <2>3. /\ Find(v, <<Equals>>) # NPos
          /\ Before(v, Find(v, <<Equals>>)) = acc.key
          /\ From(v, Find(v, <<Equals>>) + 1) = acc.val
      BY <2>1, <2>2, PairCut
    <2> QED BY <2>3, Zenon DEF PairKey, PairValue
  <1>2. CASE ~acc.keyLoaded
    <2>1. v = acc.key /\ acc.val = <<>> /\ v \in Seq(Plain)
      BY <1>2, Zenon DEF PairRead
    <2>2. Find(v, <<Equals>>) = NPos
      BY <2>1, NoCut
    <2>3. Before(v, NPos) = v /\ From(v, NPos) = <<>>
      BY DEF Before, From
    <2> QED BY <2>1, <2>2, <2>3, Zenon DEF PairKey, PairValue
  <1> QED BY <1>1, <1>2

\* A text, the pairs that are complete in it, and what there is of the next one.
FormPairs(text, front, v) ==
  /\ text \in Seq(Bytes) /\ v \in Seq(Bytes \ {Amp}) /\ front \in Seq(Seq(Bytes))
  /\ \/ front = <<>> /\ text = v
     \/ \E u \in Seq(Bytes) : /\ u # <<>> /\ u[Len(u)] # Amp
                              /\ text = u \o <<Amp>> \o v /\ front = Split(u, Amp)

\* split gives the same pairs, and what there is of the next one.
LEMMA FormSplits ==
  ASSUME NEW text, NEW front, NEW v, FormPairs(text, front, v)
  PROVE  Split(text, Amp) = Append(front, v) /\ v \in Seq(Bytes)
  <1>1. v \in Seq(Bytes)
    <2>1. v \in Seq(Bytes \ {Amp})
      BY Zenon DEF FormPairs
    <2> QED BY <2>1, AmpIsByte, SubsetSeq
  <1>2. CASE front = <<>> /\ text = v
    <2>1. v \in Seq(Bytes \ {Amp})
      BY Zenon DEF FormPairs
    <2>2. Split(v, Amp) = <<v>>
      BY <2>1, SplitOne
    <2>3. Append(<<>>, v) = <<v>>
      OBVIOUS
    <2> QED BY <1>1, <1>2, <2>2, <2>3, Zenon
  <1>3. CASE \E u \in Seq(Bytes) : /\ u # <<>> /\ u[Len(u)] # Amp
                                   /\ text = u \o <<Amp>> \o v /\ front = Split(u, Amp)
    <2> PICK u \in Seq(Bytes) : /\ u # <<>> /\ u[Len(u)] # Amp
                                /\ text = u \o <<Amp>> \o v /\ front = Split(u, Amp)
      BY <1>3
    <2>1. v \in Seq(Bytes \ {Amp})
      BY Zenon DEF FormPairs
    <2>2. Split(text, Amp) = Append(Split(u, Amp), v)
      BY <2>1, AmpIsByte, SplitAppend
    <2> QED BY <1>1, <2>2, Zenon
  <1> QED BY <1>2, <1>3, Zenon DEF FormPairs

\* One character more of the pair.
LEMMA FormPairsGrow ==
  ASSUME NEW text, NEW front, NEW v, FormPairs(text, front, v), NEW code \in Bytes \ {Amp}
  PROVE  FormPairs(Append(text, code), front, Append(v, code))
  <1>1. /\ text \in Seq(Bytes) /\ v \in Seq(Bytes \ {Amp}) /\ front \in Seq(Seq(Bytes))
        /\ v \in Seq(Bytes) /\ code \in Bytes
    BY FormSplits, AmpIsByte, Zenon DEF FormPairs
  <1>2. Append(text, code) \in Seq(Bytes) /\ Append(v, code) \in Seq(Bytes \ {Amp})
    BY <1>1, AppendProperties
  <1>3. CASE front = <<>> /\ text = v
    BY <1>1, <1>2, <1>3, Zenon DEF FormPairs
  <1>4. CASE \E u \in Seq(Bytes) : /\ u # <<>> /\ u[Len(u)] # Amp
                                   /\ text = u \o <<Amp>> \o v /\ front = Split(u, Amp)
    <2> PICK u \in Seq(Bytes) : /\ u # <<>> /\ u[Len(u)] # Amp
                                /\ text = u \o <<Amp>> \o v /\ front = Split(u, Amp)
      BY <1>4
    <2> DEFINE head == u \o <<Amp>>
    <2>1. head \in Seq(Bytes)
      BY AmpIsByte, ConcatProperties
    <2>2. text = head \o v
      OBVIOUS
    <2> HIDE DEF head
    <2>3. head \o Append(v, code) = Append(head \o v, code)
      BY <1>1, <2>1, ConcatAppend
    <2>4. Append(text, code) = u \o <<Amp>> \o Append(v, code)
      BY <2>2, <2>3, Zenon DEF head
    <2> QED BY <1>1, <1>2, <2>4, Zenon DEF FormPairs
  <1> QED BY <1>3, <1>4, Zenon DEF FormPairs

\* The end of a pair.
LEMMA FormPairsNext ==
  ASSUME NEW text, NEW front, NEW v, FormPairs(text, front, v), text # <<>>, text[Len(text)] # Amp
  PROVE  FormPairs(Append(text, Amp), Append(front, v), <<>>)
  <1>1. /\ text \in Seq(Bytes) /\ front \in Seq(Seq(Bytes)) /\ v \in Seq(Bytes)
        /\ Split(text, Amp) = Append(front, v)
    BY FormSplits, Zenon DEF FormPairs
  <1>2. <<>> \in Seq(Bytes \ {Amp}) /\ Append(front, v) \in Seq(Seq(Bytes))
        /\ Append(text, Amp) \in Seq(Bytes)
    BY <1>1, AmpIsByte, AppendProperties, EmptySeq
  <1>3. Append(text, Amp) = text \o <<Amp>> \o <<>>
    <2>1. Append(text, Amp) = text \o <<Amp>>
      BY <1>1, AmpIsByte, AppendIsConcat
    <2>2. \A s \in Seq(Bytes) : s \o <<>> = s
      BY ConcatEmptySeq
    <2> QED BY <1>2, <2>1, <2>2, Zenon
  <1> QED BY <1>1, <1>2, <1>3, Zenon DEF FormPairs

\* A pair of which nothing has come is the first or follows an '&'.
LEMMA FormPairsBegin ==
  ASSUME NEW text, NEW front, FormPairs(text, front, <<>>)
  PROVE  text = <<>> \/ text[Len(text)] = Amp
  <1> SUFFICES ASSUME NEW u \in Seq(Bytes), text = u \o <<Amp>> \o <<>> PROVE text[Len(text)] = Amp
    BY Zenon DEF FormPairs
  <1>1. \A s \in Seq(Bytes) : s \o <<>> = s
    BY ConcatEmptySeq
  <1>2. u \o <<Amp>> \in Seq(Bytes) /\ (u \o <<Amp>>)[Len(u \o <<Amp>>)] = <<Amp>>[Len(<<Amp>>)]
    BY AmpIsByte, LastOfConcat
  <1>3. <<Amp>>[Len(<<Amp>>)] = Amp
    OBVIOUS
  <1> QED BY <1>1, <1>2, <1>3, Zenon

\* A character behind the last '&'.
HasLast(text, code) ==
  \E i \in 1..Len(text) : text[i] = code /\ \A k \in i..Len(text) : text[k] # Amp

\* A text of a head and of m characters behind it, none of which is an '&': each of these
\* is in the text, with no '&' behind.
Behind(text, head, n, v, m) ==
  /\ n \in Nat /\ m \in Nat /\ Len(text) = n + m
  /\ \A i \in 1..n + m : text[i] = IF i <= n THEN head[i] ELSE v[i - n]
  /\ \A i \in 1..m : v[i] # Amp

LEMMA PairBehind ==
  ASSUME NEW text, NEW head, NEW v, NEW n, NEW m, Behind(text, head, n, v, m), NEW j \in 1..m
  PROVE  HasLast(text, v[j])
  <1> USE DEF Behind, HasLast
  <1>1. n + j \in 1..n + m /\ ~(n + j <= n) /\ (n + j) - n = j
    OBVIOUS
  <1>2. \A k \in n + j..n + m : k \in 1..n + m /\ ~(k <= n) /\ k - n \in 1..m
    BY <1>1
  <1>3. text[n + j] = v[j]
    BY <1>1
  <1>4. \A k \in n + j..n + m : text[k] # Amp
    BY <1>2
  <1> QED BY <1>1, <1>3, <1>4

\* What is in the pair is in the text, behind the last '&'.
LEMMA FormPairsHave ==
  ASSUME NEW text, NEW front, NEW v, FormPairs(text, front, v), NEW j \in 1..Len(v)
  PROVE  HasLast(text, v[j])
  <1> DEFINE m == Len(v)
  <1>1. /\ text \in Seq(Bytes) /\ v \in Seq(Bytes) /\ m \in Nat
        /\ \A i \in 1..m : v[i] # Amp
    <2>1. v \in Seq(Bytes \ {Amp})
      BY Zenon DEF FormPairs
    <2>2. \A i \in 1..m : v[i] # Amp
      BY <2>1, ElementOfSeq
    <2> QED BY <2>2, FormSplits, LenProperties, Zenon DEF FormPairs
  <1>2. CASE text = v
    <2>1. j \in 1..m /\ \A k \in j..m : k \in 1..m
      BY <1>1
    <2> QED BY <1>1, <1>2, <2>1 DEF HasLast
  <1>3. CASE \E u \in Seq(Bytes) : text = u \o <<Amp>> \o v
    <2> PICK u \in Seq(Bytes) : text = u \o <<Amp>> \o v
      BY <1>3
    <2> DEFINE head == u \o <<Amp>>
               n == Len(head)
    <2>1. head \in Seq(Bytes) /\ n \in Nat
      BY AmpIsByte, ConcatProperties, LenProperties
    <2>2. text = head \o v
      OBVIOUS
    <2> HIDE DEF head
    <2>3. /\ Len(head \o v) = Len(head) + Len(v)
          /\ \A i \in 1..Len(head) + Len(v) :
               (head \o v)[i] = IF i <= Len(head) THEN head[i] ELSE v[i - Len(head)]
      BY <1>1, <2>1, ConcatProperties
    <2>4. /\ Len(text) = n + m
          /\ \A i \in 1..n + m : text[i] = IF i <= n THEN head[i] ELSE v[i - n]
      BY <2>2, <2>3, Zenon
    <2>5. j \in 1..m
      OBVIOUS
    <2> HIDE DEF n, m
    <2>6. Behind(text, head, n, v, m)
      BY <1>1, <2>1, <2>4, Zenon DEF Behind
    <2> QED BY <2>5, <2>6, PairBehind, Zenon
  <1> QED BY <1>2, <1>3, Zenon DEF FormPairs
-----------------------------------------------------------------------------
\* The record of FormChar, and what is changed in it.
FormTexts == Seq(Plain)

Acc(S, map) == [key : S, val : S, keyLoaded : BOOLEAN, params : {map}, ok : BOOLEAN]

LEMMA AccFails ==
  ASSUME NEW S, NEW map, NEW acc \in Acc(S, map)
  PROVE  [acc EXCEPT !.ok = FALSE] \in Acc(S, map) /\ [acc EXCEPT !.ok = FALSE].ok = FALSE
  BY DEF Acc

LEMMA AccPuts ==
  ASSUME NEW S, NEW map, NEW acc \in Acc(S, map), NEW params
  PROVE  LET r == [acc EXCEPT !.params = params] IN
         r \in Acc(S, params) /\ r.ok = acc.ok
  BY DEF Acc

\* What ReadForm carries from one character to the next, after a text.
FormAcc(front, v, acc) ==
  /\ PairRead(v, acc)
  /\ PairsOf(front).ok /\ acc.params = PairsOf(front).map
  /\ <<>> \notin DOMAIN acc.params

\* Until a pair could not be decoded, the complete pairs are in the map, and the next one
\* is in key and val.
FormRead(text, acc) ==
  /\ acc.ok \in BOOLEAN
  /\ acc.ok => /\ acc \in Acc(FormTexts, acc.params)
               /\ \E front, v : FormPairs(text, front, v) /\ FormAcc(front, v, acc)

\* The character that follows a text, in a form as a page writes it.
NextWritten(text, code) ==
  /\ code \in Bytes
  /\ code \in {Amp, Equals} => text # <<>> /\ text[Len(text)] # Amp
  /\ code = Equals => \A i \in 1..Len(text) :
                        text[i] = Equals => \E k \in i..Len(text) : text[k] = Amp

\* PutForm puts what is read of a pair, unless it cannot be decoded.
LEMMA FormPuts ==
  ASSUME NEW front, NEW v \in Seq(Bytes), NEW acc, front \in Seq(Seq(Bytes)),
         FormAcc(front, v, acc), acc.key # <<>>
  PROVE  LET key == DecodeUrl(acc.key)
             val == DecodeUrl(acc.val)
             all == PairsOf(Append(front, v))
         IN Thrown \notin {key, val} =>
              /\ all.ok = TRUE /\ all.map = Put(acc.params, key, val)
              /\ <<>> \notin DOMAIN Put(acc.params, key, val)
  <1> DEFINE key == DecodeUrl(acc.key)
             val == DecodeUrl(acc.val)
             all == PairsOf(Append(front, v))
             T == Seq(Bytes)
  <1>1. /\ PairRead(v, acc) /\ PairsOf(front).ok /\ acc.params = PairsOf(front).map
        /\ <<>> \notin DOMAIN acc.params
    BY Zenon DEF FormAcc
  <1>2. PairKey(v) = key /\ PairValue(v) = val
    BY <1>1, PairReads
  <1>3. front \in Seq(T) /\ v \in T
    OBVIOUS
  <1>4. key # <<>>
    <2>1. acc.key \in Seq(Plain)
      BY <1>1, Zenon DEF PairRead
    <2>2. Plain \subseteq Bytes
      BY DEF Plain
    <2>3. acc.key \in Seq(Bytes)
      BY <2>1, <2>2, SubsetSeq
    <2> QED BY <2>3, DecodeNonempty
  <1> HIDE DEF key, val, T
  <1>5. IF Thrown \in {PairKey(v), PairValue(v)} THEN all.ok = FALSE
        ELSE /\ all.ok = TRUE
             /\ all.map = Put(PairsOf(front).map, PairKey(v), PairValue(v))
    BY <1>1, <1>3, PairsAppend
  <1>6. ASSUME NEW map, <<>> \notin DOMAIN map PROVE <<>> \notin DOMAIN Put(map, key, val)
    BY <1>4, <1>6 DEF Put
  <1> HIDE DEF all
  <1> QED BY <1>1, <1>2, <1>5, <1>6, Zenon DEF key, val, all

\* A pair whose '=' has come has one.
HasEquals(pair) == \E j \in 1..Len(pair) : pair[j] = Equals

LEMMA PairHasEquals ==
  ASSUME NEW u \in Seq(Plain), NEW w \in Seq(Plain)
  PROVE  HasEquals(u \o <<Equals>> \o w)
  <1> DEFINE n == Len(u)
             head == u \o <<Equals>>
             pair == head \o w
  <1>1. Equals \in Bytes /\ Plain \subseteq Bytes /\ <<Equals>> \in Seq(Bytes)
    BY DEF Equals, Bytes, Plain
  <1>2. u \in Seq(Bytes) /\ w \in Seq(Bytes)
    BY <1>1, SubsetSeq
  <1>3. head \in Seq(Bytes) /\ Len(head) = n + 1 /\ head[n + 1] = Equals /\ n \in Nat
    <2>1. head = Append(u, Equals)
      BY <1>1, <1>2, AppendIsConcat
    <2> HIDE DEF head
    <2> QED BY <1>1, <1>2, <2>1, AppendProperties, LenProperties
  <1> HIDE DEF head
  <1>4. /\ Len(pair) = Len(head) + Len(w) /\ Len(w) \in Nat
        /\ \A i \in 1..Len(head) + Len(w) :
             pair[i] = IF i <= Len(head) THEN head[i] ELSE w[i - Len(head)]
    BY <1>2, <1>3, ConcatProperties, LenProperties
  <1> HIDE DEF n, pair
  <1>5. n + 1 \in 1..Len(pair) /\ n + 1 <= Len(head)
    BY <1>3, <1>4
  <1>6. HasEquals(pair)
    BY <1>3, <1>4, <1>5 DEF HasEquals
  <1> QED BY <1>6 DEF pair, head

LEMMA LoadedHasEquals ==
  ASSUME NEW v, NEW acc, PairRead(v, acc), acc.keyLoaded
  PROVE  HasEquals(v)
  <1>1. acc.key \in Seq(Plain) /\ acc.val \in Seq(Plain)
    BY Zenon DEF PairRead
  <1>2. v = acc.key \o <<Equals>> \o acc.val
    BY Zenon DEF PairRead
  <1> QED BY <1>1, <1>2, PairHasEquals, Zenon

\* A second '=' is not written.
LEMMA OneEquals ==
  ASSUME NEW text, NEW front, NEW v, FormPairs(text, front, v), HasEquals(v),
         NextWritten(text, Equals)
  PROVE  FALSE
  <1> PICK j \in 1..Len(v) : v[j] = Equals
    BY Zenon DEF HasEquals
  <1>1. PICK i \in 1..Len(text) : text[i] = v[j] /\ \A k \in i..Len(text) : text[k] # Amp
    <2>1. HasLast(text, v[j])
      BY FormPairsHave
    <2> QED BY <2>1, Zenon DEF HasLast
  <1>2. \E k \in i..Len(text) : text[k] = Amp
    BY <1>1, Zenon DEF NextWritten
  <1> QED BY <1>1, <1>2, Zenon

\* One character more.
LEMMA FormReads ==
  ASSUME NEW text, NEW acc, FormRead(text, acc), NEW code, NextWritten(text, code)
  PROVE  FormRead(Append(text, code), FormChar(acc, code))
  <1> DEFINE w == Append(text, code)
  <1>3. acc.ok \in BOOLEAN
    BY Zenon DEF FormRead
  <1>1. CASE ~acc.ok
    <2>1. FormChar(acc, code) = acc /\ acc.ok \in BOOLEAN
      BY <1>1, Zenon DEF FormChar, FormRead
    <2> QED BY <1>1, <2>1, Zenon DEF FormRead
  <1>2. CASE acc.ok
    <2>1. acc \in Acc(FormTexts, acc.params)
      BY <1>2, Zenon DEF FormRead
    <2> PICK front, v : FormPairs(text, front, v) /\ FormAcc(front, v, acc)
      BY <1>2, Zenon DEF FormRead
    <2>2. PairRead(v, acc) /\ v \in Seq(Bytes) /\ front \in Seq(Seq(Bytes))
      BY FormSplits, Zenon DEF FormAcc, FormPairs
    <2>3. acc.key = <<>> => text = <<>> \/ text[Len(text)] = Amp
      <3>1. acc.key = <<>> => v = <<>>
        BY <2>2, Zenon DEF PairRead
      <3> QED BY <3>1, FormPairsBegin, Zenon
    <2>4. Amp # Equals
      BY DEF Amp, Equals
    <2>5. CASE code = Amp
      <3>1. acc.key # <<>> /\ text # <<>> /\ text[Len(text)] # Amp
        BY <2>3, <2>5, Zenon DEF NextWritten
      <3> DEFINE key == DecodeUrl(acc.key)
                 val == DecodeUrl(acc.val)
                 put == PutForm(acc)
                 next == NextPair(put)
      <3>2. FormChar(acc, code) = next
        BY <1>2, <2>4, <2>5, <3>1, Zenon DEF FormChar
      <3>3. CASE Thrown \in {key, val}
        <4>1. put = [acc EXCEPT !.ok = FALSE]
          BY <3>3, Zenon DEF PutForm
        <4> HIDE DEF put
        <4>2. put \in Acc(FormTexts, acc.params) /\ put.ok = FALSE
          BY <2>1, <4>1, AccFails
        <4> HIDE DEF next
        <4>4. next.ok = FALSE
          <5>1. <<>> \in FormTexts
            BY EmptySeq DEF FormTexts
          <5> QED BY <4>2, <5>1 DEF Acc, NextPair, next
        <4> QED BY <3>2, <4>4, Zenon DEF FormRead
      <3>4. CASE Thrown \notin {key, val}
        <4> DEFINE params == Put(acc.params, key, val)
        <4>1. put = [acc EXCEPT !.params = params]
          BY <3>4 DEF PutForm
        <4> HIDE DEF params, put
        <4>2. put \in Acc(FormTexts, params) /\ put.ok = acc.ok
          BY <2>1, <4>1, AccPuts
        <4>3. next \in Acc(FormTexts, params)
              /\ next.key = <<>> /\ next.val = <<>> /\ next.keyLoaded = FALSE
              /\ next.params = params /\ next.ok = put.ok
          <5>1. <<>> \in FormTexts
            BY EmptySeq DEF FormTexts
          <5> QED BY <4>2, <5>1 DEF Acc, NextPair, next
        <4> HIDE DEF next
        <4>4. next \in Acc(FormTexts, next.params)
              /\ next.key = <<>> /\ next.val = <<>> /\ next.keyLoaded = FALSE
              /\ next.params = params /\ next.ok \in BOOLEAN
          BY <1>2, <1>3, <4>2, <4>3, Zenon
        <4>5. FormPairs(w, Append(front, v), <<>>)
          BY <2>5, <3>1, FormPairsNext, Zenon
        <4>6. /\ PairsOf(Append(front, v)).ok = TRUE
              /\ PairsOf(Append(front, v)).map = params /\ <<>> \notin DOMAIN params
          BY <2>2, <3>1, <3>4, FormPuts DEF params
        <4>7. PairRead(<<>>, next)
          <5>1. <<>> \in Seq(Plain)
            BY EmptySeq
          <5> QED BY <4>4, <5>1, Zenon DEF PairRead
        <4>8. FormAcc(Append(front, v), <<>>, next)
          BY <4>4, <4>6, <4>7, Zenon DEF FormAcc
        <4> QED BY <3>2, <4>4, <4>5, <4>8, Zenon DEF FormRead
      <3> QED BY <3>3, <3>4
    <2>6. CASE code = Equals
      <3>1. acc.key # <<>>
        BY <2>3, <2>6, Zenon DEF NextWritten
      <3>2. ~acc.keyLoaded
        <4> SUFFICES ASSUME acc.keyLoaded PROVE FALSE
          OBVIOUS
        <4>1. HasEquals(v)
          BY <2>2, LoadedHasEquals, Zenon
        <4> QED BY <2>6, <4>1, OneEquals, Zenon
      <3> DEFINE next == [acc EXCEPT !.keyLoaded = TRUE]
      <3>3. FormChar(acc, code) = next
        BY <1>2, <2>4, <2>6, Zenon DEF FormChar
      <3>4. next \in Acc(FormTexts, acc.params)
            /\ next.key = acc.key /\ next.val = acc.val /\ next.keyLoaded = TRUE
            /\ next.params = acc.params /\ next.ok = acc.ok
        BY <2>1 DEF Acc
      <3> HIDE DEF next
      <3>5. next \in Acc(FormTexts, next.params)
            /\ next.key = acc.key /\ next.val = acc.val /\ next.keyLoaded = TRUE
            /\ next.params = acc.params /\ next.ok \in BOOLEAN
        BY <1>2, <1>3, <3>4, Zenon
      <3>6. v = acc.key /\ acc.val = <<>> /\ acc.key \in Seq(Plain) /\ acc.val \in Seq(Plain)
        BY <2>2, <3>2, Zenon DEF PairRead
      <3>7. Append(v, code) = acc.key \o <<Equals>> \o acc.val
        <4>1. Equals \in Bytes /\ Plain \subseteq Bytes
          BY DEF Equals, Bytes, Plain
        <4>2. acc.key \o <<Equals>> = Append(acc.key, Equals)
          BY <2>2, <3>6, <4>1, AppendIsConcat
        <4>3. Append(acc.key, Equals) \in Seq(Bytes)
          BY <2>2, <3>6, <4>1, AppendProperties
        <4>4. Append(acc.key, Equals) \o <<>> = Append(acc.key, Equals)
          BY <4>3, ConcatEmptySeq
        <4> QED BY <2>6, <3>6, <4>2, <4>4, Zenon
      <3>8. PairRead(Append(v, code), next)
        BY <3>1, <3>5, <3>6, <3>7, Zenon DEF PairRead
      <3>9. FormPairs(w, front, Append(v, code))
        <4>1. code \in Bytes \ {Amp}
          BY <2>6 DEF Equals, Bytes, Amp
        <4> QED BY <4>1, FormPairsGrow, Zenon
      <3>10. FormAcc(front, Append(v, code), next)
        BY <3>5, <3>8, Zenon DEF FormAcc
      <3> QED BY <3>3, <3>5, <3>9, <3>10, Zenon DEF FormRead
    <2>7. CASE code # Amp /\ code # Equals
      <3>1. code \in Plain /\ code \in Bytes \ {Amp}
        BY <2>7, Zenon DEF NextWritten, Plain
      <3> DEFINE next == FormChar(acc, code)
      <3>2. next = IF acc.keyLoaded THEN [acc EXCEPT !.val = Append(@, code)]
                   ELSE [acc EXCEPT !.key = Append(@, code)]
        BY <1>2, <2>7, Zenon DEF FormChar
      <3> HIDE DEF next
      <3>3. FormPairs(w, front, Append(v, code))
        BY <3>1, FormPairsGrow, Zenon
      <3>4. acc.key \in Seq(Plain) /\ acc.val \in Seq(Plain)
        BY <2>2, Zenon DEF PairRead
      <3>5. CASE acc.keyLoaded
        <4>3. Append(acc.val, code) \in Seq(Plain)
          BY <3>1, <3>4, AppendProperties
        <4>a. Append(acc.val, code) \in FormTexts
          BY <4>3, Zenon DEF FormTexts
        <4>1. next \in Acc(FormTexts, acc.params)
              /\ next.key = acc.key /\ next.val = Append(acc.val, code)
              /\ next.keyLoaded = acc.keyLoaded /\ next.params = acc.params /\ next.ok = acc.ok
          <5>1. next = [acc EXCEPT !.val = Append(acc.val, code)]
            BY <3>2, <3>5
          <5> QED BY <2>1, <4>a, <5>1 DEF Acc
        <4>2. next \in Acc(FormTexts, next.params)
              /\ next.key = acc.key /\ next.val = Append(acc.val, code)
              /\ next.keyLoaded = acc.keyLoaded /\ next.params = acc.params /\ next.ok \in BOOLEAN
          BY <1>2, <1>3, <4>1, Zenon
        <4>4. v = acc.key \o <<Equals>> \o acc.val /\ acc.key # <<>>
          BY <2>2, <3>5, Zenon DEF PairRead
        <4>5. Append(v, code) = acc.key \o <<Equals>> \o Append(acc.val, code)
          <5> DEFINE head == acc.key \o <<Equals>>
          <5>1. Equals \in Bytes /\ Plain \subseteq Bytes /\ <<Equals>> \in Seq(Bytes)
            BY DEF Equals, Bytes, Plain
          <5>2. acc.key \in Seq(Bytes) /\ acc.val \in Seq(Bytes) /\ code \in Bytes
            BY <3>1, <3>4, <5>1, SubsetSeq
          <5>3. head \in Seq(Bytes)
            BY <5>1, <5>2, ConcatProperties
          <5>4. v = head \o acc.val
            BY <4>4
          <5> HIDE DEF head
          <5>5. head \o Append(acc.val, code) = Append(head \o acc.val, code)
            BY <5>2, <5>3, ConcatAppend
          <5> QED BY <5>4, <5>5, Zenon DEF head
        <4>6. PairRead(Append(v, code), next)
          BY <3>4, <3>5, <4>2, <4>3, <4>4, <4>5, Zenon DEF PairRead
        <4>7. FormAcc(front, Append(v, code), next)
          BY <4>2, <4>6, Zenon DEF FormAcc
        <4> QED BY <3>3, <4>2, <4>7, Zenon DEF FormRead, next
      <3>6. CASE ~acc.keyLoaded
        <4>3. Append(acc.key, code) \in Seq(Plain)
          BY <3>1, <3>4, AppendProperties
        <4>a. Append(acc.key, code) \in FormTexts
          BY <4>3, Zenon DEF FormTexts
        <4>1. next \in Acc(FormTexts, acc.params)
              /\ next.key = Append(acc.key, code) /\ next.val = acc.val
              /\ next.keyLoaded = acc.keyLoaded /\ next.params = acc.params /\ next.ok = acc.ok
          <5>1. next = [acc EXCEPT !.key = Append(acc.key, code)]
            BY <3>2, <3>6
          <5> QED BY <2>1, <4>a, <5>1 DEF Acc
        <4>2. next \in Acc(FormTexts, next.params)
              /\ next.key = Append(acc.key, code) /\ next.val = acc.val
              /\ next.keyLoaded = acc.keyLoaded /\ next.params = acc.params /\ next.ok \in BOOLEAN
          BY <1>2, <1>3, <4>1, Zenon
        <4>4. v = acc.key /\ acc.val = <<>>
          BY <2>2, <3>6, Zenon DEF PairRead
        <4>6. PairRead(Append(v, code), next)
          BY <3>4, <3>6, <4>2, <4>3, <4>4, Zenon DEF PairRead
        <4>7. FormAcc(front, Append(v, code), next)
          BY <4>2, <4>6, Zenon DEF FormAcc
        <4> QED BY <3>3, <4>2, <4>7, Zenon DEF FormRead, next
      <3> QED BY <3>5, <3>6
    <2> QED BY <2>5, <2>6, <2>7
  <1> QED BY <1>1, <1>2, <1>3
-----------------------------------------------------------------------------
(* What is loaded of it. *)

\* What the parser of query strings would load of a text, but for a pair without key.
Named(text) ==
  LET reference == Pairs(<<>>, text, Amp)
      named     == DOMAIN reference.map \ {<<>>}
  IN [key \in named |-> reference.map[key]]

NamedIn(map) == [key \in DOMAIN map \ {<<>>} |-> map[key]]

\* The same, of the map of the parser.
LEMMA NamedIs ==
  ASSUME NEW text
  PROVE  Named(text) = NamedIn(Pairs(<<>>, text, Amp).map)
  BY Zenon DEF Named, NamedIn

\* The map is the function of its keys.
LEMMA PairsOfIs ==
  ASSUME NEW pairs
  PROVE  LET map == PairsOf(pairs).map IN map = [key \in DOMAIN map |-> map[key]]
  <1> DEFINE thrown == {i \in DOMAIN pairs : Thrown \in {PairKey(pairs[i]), PairValue(pairs[i])}}
             put == {i \in DOMAIN pairs : \A j \in thrown : i < j}
             At(k) == {i \in put : PairKey(pairs[i]) = k}
             map == [k \in {PairKey(pairs[i]) : i \in put} |-> PairValue(pairs[Max(At(k))])]
  <1>1. PairsOf(pairs) = [map |-> map, ok |-> thrown = {}]
    BY Zenon DEF PairsOf
  <1>2. map = [key \in DOMAIN map |-> map[key]]
    <2> DEFINE D == {PairKey(pairs[i]) : i \in put}
               V(k) == PairValue(pairs[Max(At(k))])
    <2>1. map = [k \in D |-> V(k)]
      OBVIOUS
    <2> HIDE DEF map, D, V
    <2> QED BY <2>1
  <1> HIDE DEF map, thrown
  <1>3. PairsOf(pairs).map = map
    BY <1>1, PairsFields
  <1> QED BY <1>2, <1>3, Zenon

\* The pairs of a text that is not empty.
LEMMA FormHas ==
  ASSUME NEW text, NEW front, NEW v, FormPairs(text, front, v), text # <<>>
  PROVE  Pairs(<<>>, text, Amp) = PairsOf(Append(front, v))
  <1> DEFINE T == Seq(Bytes)
             all == Append(front, v)
  <1>1. Split(text, Amp) = all /\ v \in T /\ front \in Seq(T)
    BY FormSplits, Zenon DEF FormPairs
  <1>2. all = (IF text = <<>> THEN <<>> ELSE Split(text, Amp))
    BY <1>1, Zenon
  <1>3. all \in Seq(T)
    BY <1>1, AppendProperties
  <1> HIDE DEF T, all
  <1> QED BY <1>2, <1>3, PairsAre, Zenon DEF all

\* An empty text has no pairs.
LEMMA EmptyForm == Pairs(<<>>, <<>>, Amp) = PairsOf(<<>>)
  <1> DEFINE none == <<>>
  <1>1. none = (IF <<>> = <<>> THEN <<>> ELSE Split(<<>>, Amp)) /\ none \in Seq(Int)
    BY EmptySeq
  <1> QED BY <1>1, PairsAre, Zenon

\* ... and nothing has been read of it.
LEMMA EmptyFormPairs ==
  ASSUME NEW front, NEW v, FormPairs(<<>>, front, v)
  PROVE  front = <<>> /\ v = <<>>
  <1>1. ASSUME NEW u \in Seq(Bytes), <<>> = u \o <<Amp>> \o v PROVE FALSE
    <2>1. v \in Seq(Bytes)
      BY FormSplits
    <2>2. u \o <<Amp>> \in Seq(Bytes) /\ Len(u \o <<Amp>>) > 0 /\ Len(v) \in Nat
      BY <2>1, AmpIsByte, ConcatProperties, LenProperties
    <2>3. Len(u \o <<Amp>> \o v) > 0
      <3> DEFINE head == u \o <<Amp>>
      <3>1. head \in Seq(Bytes) /\ Len(head) > 0
        BY <2>2
      <3> HIDE DEF head
      <3>2. Len(head \o v) = Len(head) + Len(v) /\ Len(head) \in Nat
        BY <2>1, <3>1, ConcatProperties, LenProperties
      <3>3. Len(head \o v) > 0
        BY <2>2, <3>1, <3>2
      <3> QED BY <3>3, Zenon DEF head
    <2> QED BY <1>1, <2>3
  <1> QED BY <1>1, Zenon DEF FormPairs

\* Behind the last '&' of the text, or in an empty one, there is nothing to put.
LEMMA FormEndsNamed ==
  ASSUME NEW text, NEW acc, FormRead(text, acc), acc.ok, acc.key = <<>>
  PROVE  acc.params = Named(text)
  <1> PICK front, v : FormPairs(text, front, v) /\ FormAcc(front, v, acc)
    BY Zenon DEF FormRead
  <1> DEFINE map == PairsOf(front).map
  <1>1. PairRead(v, acc) /\ PairsOf(front).ok /\ acc.params = map /\ <<>> \notin DOMAIN map
    BY Zenon DEF FormAcc
  <1>2. v = <<>> /\ acc.val = <<>>
    BY <1>1, Zenon DEF PairRead
  <1>3. map = [key \in DOMAIN map |-> map[key]]
    BY PairsOfIs
  <1>4. CASE text = <<>>
    <2>1. front = <<>>
      BY <1>4, EmptyFormPairs
    <2>2. map = Pairs(<<>>, text, Amp).map
      BY <1>4, <2>1, EmptyForm, Zenon
    <2> HIDE DEF map
    <2>3. Named(text) = NamedIn(map)
      BY <2>2, NamedIs, Zenon
    <2>4. DOMAIN map \ {<<>>} = DOMAIN map
      BY <1>1
    <2> QED BY <1>1, <1>3, <2>3, <2>4, Zenon DEF NamedIn
  <1>5. CASE text # <<>>
    <2> DEFINE all == PairsOf(Append(front, v))
               T == Seq(Bytes)
    <2>1. Pairs(<<>>, text, Amp) = all
      BY <1>5, FormHas
    <2>2. front \in Seq(T) /\ v \in T
      BY FormSplits, Zenon DEF FormPairs
    <2>3. PairKey(v) = <<>> /\ PairValue(v) = <<>>
      BY <1>1, <1>2, PairReads, DecodeEmpty, Zenon
    <2>4. Thrown # <<>>
      BY DEF Thrown
    <2> HIDE DEF T
    <2>5. IF Thrown \in {PairKey(v), PairValue(v)} THEN all.ok = FALSE
          ELSE /\ all.ok = TRUE
               /\ all.map = Put(PairsOf(front).map, PairKey(v), PairValue(v))
      BY <1>1, <2>2, PairsAppend
    <2> HIDE DEF all
    <2>6. all.map = Put(map, <<>>, <<>>)
      BY <2>3, <2>4, <2>5, Zenon
    <2> DEFINE put == Put(map, <<>>, <<>>)
    <2>7. Named(text) = NamedIn(put)
      BY <2>1, <2>6, NamedIs, Zenon
    <2> HIDE DEF map
    <2>8. DOMAIN put \ {<<>>} = DOMAIN map /\ \A key \in DOMAIN map : put[key] = map[key]
      BY <1>1 DEF Put
    <2> HIDE DEF put
    <2>9. [key \in DOMAIN put \ {<<>>} |-> put[key]] = [key \in DOMAIN map |-> map[key]]
      BY <2>8, Zenon
    <2> QED BY <1>1, <1>3, <2>7, <2>9, Zenon DEF NamedIn
  <1> QED BY <1>4, <1>5

\* The pair that the end of the text ends is put.
LEMMA FormEndsPut ==
  ASSUME NEW text, NEW acc, FormRead(text, acc), acc.ok, acc.key # <<>>,
         Thrown \notin {DecodeUrl(acc.key), DecodeUrl(acc.val)}
  PROVE  Put(acc.params, DecodeUrl(acc.key), DecodeUrl(acc.val)) = Named(text)
  <1> PICK front, v : FormPairs(text, front, v) /\ FormAcc(front, v, acc)
    BY Zenon DEF FormRead
  <1> DEFINE all == PairsOf(Append(front, v))
             map == Put(acc.params, DecodeUrl(acc.key), DecodeUrl(acc.val))
  <1>1. PairRead(v, acc)
    BY Zenon DEF FormAcc
  <1>2. text # <<>>
    <2> SUFFICES ASSUME text = <<>> PROVE FALSE
      OBVIOUS
    <2>1. v = <<>>
      BY EmptyFormPairs
    <2>2. ~acc.keyLoaded => v = acc.key
      BY <1>1, Zenon DEF PairRead
    <2>3. ~HasEquals(<<>>)
      <3>1. 1..Len(<<>>) = {}
        OBVIOUS
      <3> QED BY <3>1 DEF HasEquals
    <2>4. acc.keyLoaded => HasEquals(v)
      BY <1>1, LoadedHasEquals
    <2> QED BY <2>1, <2>2, <2>3, <2>4, Zenon
  <1>3. Pairs(<<>>, text, Amp) = all
    BY <1>2, FormHas
  <1>4. front \in Seq(Seq(Bytes)) /\ v \in Seq(Bytes)
    BY FormSplits, Zenon DEF FormPairs
  <1>5. all.map = map /\ <<>> \notin DOMAIN map
    BY <1>4, FormPuts
  <1> HIDE DEF all
  <1>6. map = [key \in DOMAIN map |-> map[key]]
    BY DEF Put
  <1> HIDE DEF map
  <1>7. Named(text) = NamedIn(map)
    BY <1>3, <1>5, NamedIs, Zenon
  <1>8. DOMAIN map \ {<<>>} = DOMAIN map
    BY <1>5
  <1>9. Named(text) = map
    BY <1>6, <1>7, <1>8, Zenon DEF NamedIn
  <1> QED BY <1>9 DEF map
-----------------------------------------------------------------------------
(* A form as a page writes it. *)

\* A form that is cut off is written as a page would.
LEMMA PrefixWritten ==
  ASSUME NEW text, FormWritten(text), NEW n \in 0..Len(text)
  PROVE  FormWritten(Upto(text, n))
  <1> DEFINE p == Upto(text, n)
  <1>1. text \in Seq(0..255)
    BY DEF FormWritten
  <1>2. p \in Seq(0..255) /\ Len(p) = n /\ \A i \in 1..n : p[i] = text[i]
    BY <1>1, UptoIs
  <1>3. DOMAIN text = 1..Len(text) /\ Len(text) \in Nat
    BY <1>1, LenProperties
  <1> HIDE DEF p
  <1>4. DOMAIN p = 1..n
    BY <1>2, LenProperties
  <1>5. 1..n \subseteq DOMAIN text
    BY <1>3
  <1>6. ASSUME NEW i \in 1..n, i = 1 \/ p[i - 1] = Amp PROVE p[i] \notin {Amp, Equals}
    <2>1. i = 1 \/ i - 1 \in 1..n
      BY <1>3
    <2>2. i = 1 \/ text[i - 1] = Amp
      BY <1>2, <1>6, <2>1
    <2>3. text[i] \notin {Amp, Equals}
      BY <1>5, <2>2, Zenon DEF FormWritten
    <2> QED BY <1>2, <2>3
  <1>7. ASSUME NEW i \in 1..n, NEW j \in 1..n, i < j, p[i] = Equals, p[j] = Equals
        PROVE  \E k \in i..j : p[k] = Amp
    <2>1. text[i] = Equals /\ text[j] = Equals /\ i \in DOMAIN text /\ j \in DOMAIN text
      BY <1>2, <1>5, <1>7
    <2>2. PICK k \in i..j : text[k] = Amp
      BY <1>7, <2>1, Zenon DEF FormWritten
    <2>3. k \in 1..n
      BY <1>3
    <2> QED BY <1>2, <2>2, <2>3
  <1>8. FormWritten(p)
    BY <1>2, <1>4, <1>6, <1>7 DEF FormWritten
  <1> QED BY <1>8 DEF p

\* Each character of it is one that a page writes there.
LEMMA WrittenNext ==
  ASSUME NEW text, FormWritten(text), NEW n \in 1..Len(text)
  PROVE  NextWritten(Upto(text, n - 1), text[n])
  <1> DEFINE p == Upto(text, n - 1)
             code == text[n]
  <1>1. text \in Seq(0..255) /\ text \in Seq(Bytes)
    BY Zenon DEF FormWritten, Bytes
  <1>2. DOMAIN text = 1..Len(text) /\ Len(text) \in Nat /\ n \in DOMAIN text
    BY <1>1, LenProperties
  <1>3. n - 1 \in 0..Len(text) /\ code \in Bytes
    BY <1>1, <1>2, ElementOfSeq
  <1>4. p \in Seq(Bytes) /\ Len(p) = n - 1 /\ \A i \in 1..n - 1 : p[i] = text[i]
    BY <1>1, <1>3, UptoIs
  <1> HIDE DEF p
  <1>5. ASSUME code \in {Amp, Equals} PROVE p # <<>> /\ p[Len(p)] # Amp
    <2>1. ~(n = 1 \/ text[n - 1] = Amp)
      BY <1>2, <1>5, Zenon DEF FormWritten
    <2>2. n - 1 \in 1..n - 1 /\ n - 1 > 0
      BY <1>2, <2>1
    <2>3. p[n - 1] # Amp
      BY <1>4, <2>1, <2>2
    <2>4. p # <<>>
      BY <1>4, <2>2
    <2> QED BY <1>4, <2>3, <2>4
  <1>6. ASSUME code = Equals, NEW i \in 1..Len(p), p[i] = Equals
        PROVE  \E k \in i..Len(p) : p[k] = Amp
    <2>1. i \in 1..n - 1 /\ i \in DOMAIN text /\ i < n /\ text[i] = Equals
      BY <1>2, <1>4, <1>6
    <2>2. PICK k \in i..n : text[k] = Amp
      BY <1>2, <1>6, <2>1, Zenon DEF FormWritten
    <2>3. k # n
      BY <1>6, <2>2 DEF Amp, Equals
    <2>4. k \in 1..n - 1 /\ k \in i..n - 1
      BY <1>2, <2>1, <2>3
    <2> QED BY <1>4, <2>2, <2>4
  <1> HIDE DEF code
  <1>7. NextWritten(p, code)
    BY <1>3, <1>5, <1>6 DEF NextWritten
  <1> QED BY <1>7 DEF p, code
-----------------------------------------------------------------------------
\* What ReadForm starts with.
FormStart(key, val, keyLoaded, params) ==
  [key |-> key, val |-> val, keyLoaded |-> keyLoaded, params |-> params, ok |-> TRUE]

\* Nothing has come.
LEMMA FormStarts == FormRead(<<>>, FormStart(<<>>, <<>>, FALSE, <<>>))
  <1> DEFINE acc == FormStart(<<>>, <<>>, FALSE, <<>>)
  <1>1. <<>> \in FormTexts /\ <<>> \in Seq(Plain)
    BY EmptySeq DEF FormTexts
  <1>2. /\ acc \in Acc(FormTexts, <<>>)
        /\ acc.key = <<>> /\ acc.val = <<>> /\ acc.keyLoaded = FALSE
        /\ acc.params = <<>> /\ acc.ok = TRUE
    BY <1>1 DEF Acc, FormStart
  <1> HIDE DEF acc
  <1>3. PairRead(<<>>, acc)
    BY <1>1, <1>2, Zenon DEF PairRead
  <1>4. FormAcc(<<>>, <<>>, acc)
    <2>1. <<>> \notin DOMAIN <<>>
      OBVIOUS
    <2> QED BY <1>2, <1>3, <2>1, PairsOfNone, Zenon DEF FormAcc
  <1>5. FormPairs(<<>>, <<>>, <<>>)
    BY EmptySeq DEF FormPairs
  <1>6. FormRead(<<>>, acc)
    BY <1>2, <1>4, <1>5, Zenon DEF FormRead
  <1> QED BY <1>6 DEF acc

\* ReadForm's loop over all that has come.
LEMMA FormScans ==
  ASSUME NEW text, FormWritten(text)
  PROVE  FormRead(text, Scan(FormChar, FormStart(<<>>, <<>>, FALSE, <<>>), text))
  <1> DEFINE start == FormStart(<<>>, <<>>, FALSE, <<>>)
             n == Len(text)
  <1>1. text \in Seq(0..255) /\ text \in Seq(Int) /\ n \in Nat
    <2>1. text \in Seq(0..255) /\ 0..255 \subseteq Int
      BY DEF FormWritten
    <2>2. text \in Seq(Int)
      BY <2>1, SubsetSeq
    <2> QED BY <2>1, <2>2, LenProperties
  <1>2. FormRead(<<>>, start)
    BY FormStarts
  <1> HIDE DEF start
  <1>3. PICK f : /\ f[0] = start
                 /\ \A i \in 1..n : f[i] = FormChar(f[i - 1], text[i])
                 /\ Scan(FormChar, start, text) = f[n]
    BY <1>1, ScanIs
  <1> DEFINE P(i) == i \in 0..n => FormRead(Upto(text, i), f[i])
             Reads == {i \in Nat : P(i)}
  <1>4. 0 \in Reads
    BY <1>2, <1>3, UptoNone, Zenon
  <1>5. ASSUME NEW i \in Reads PROVE i + 1 \in Reads
    <2> SUFFICES ASSUME i + 1 \in 0..n PROVE FormRead(Upto(text, i + 1), f[i + 1])
      OBVIOUS
    <2>1. i \in 0..n /\ i + 1 \in 1..n /\ (i + 1) - 1 = i
      BY <1>1
    <2>2. FormRead(Upto(text, i), f[i])
      BY <2>1
    <2>3. NextWritten(Upto(text, i), text[i + 1])
      BY <2>1, WrittenNext
    <2>4. Upto(text, i + 1) = Append(Upto(text, i), text[i + 1])
      BY <1>1, <2>1, UptoNext
    <2>5. f[i + 1] = FormChar(f[i], text[i + 1])
      BY <1>3, <2>1
    <2> QED BY <2>2, <2>3, <2>4, <2>5, FormReads, Zenon
  <1> HIDE DEF P
  <1>6. \A i \in Nat : i \in Reads
    <2> HIDE DEF Reads
    <2> QED BY <1>4, <1>5, SetInduction
  <1>7. P(n)
    BY <1>1, <1>6
  <1>8. FormRead(Upto(text, n), f[n])
    BY <1>1, <1>7 DEF P
  <1>9. Upto(text, n) = text
    BY <1>1, UptoWhole
  <1> HIDE DEF n
  <1>10. FormRead(text, Scan(FormChar, start, text))
    BY <1>3, <1>8, <1>9, Zenon
  <1> QED BY <1>10 DEF start
-----------------------------------------------------------------------------
(* The invariant of ReadForm and EndForm. *)

\* What ReadForm leaves for EndForm is what the loop carries at the end of the bytes that
\* the stream has taken.
FormHeld ==
  \E acc : /\ FormRead(Upto(body, form.held), acc) /\ acc.ok
           /\ acc.key = form.key /\ acc.val = form.val /\ acc.params = postParameters

\* Until it is read, nothing is in the map, also if the script asks late; when it is
\* loaded, the map is what the other parser makes of the bytes taken.
FormHolds ==
  /\ pc = "idle" => postParameters = <<>> /\ (read = 0 \/ requestRaw)
  /\ pc = "readForm" /\ form.held = 0 => read = 0 /\ postParameters = <<>> /\ form = NewForm
  /\ pc = "readForm" /\ form.held # 0 => form.held \in Nat /\ FormHeld
  /\ pc = "loaded" => postParameters = Named(Upto(body, form.held))

\* A script that asks again after an exception reads from where the first attempt stopped.
FormInv == ~retried /\ context.kind = "form" /\ FormWritten(body) => FormHolds

\* A form of which nothing is taken has no parameters.
LEMMA NamedNone == Named(<<>>) = <<>>
  <1>1. FormRead(<<>>, FormStart(<<>>, <<>>, FALSE, <<>>))
    BY FormStarts
  <1> DEFINE acc == FormStart(<<>>, <<>>, FALSE, <<>>)
  <1>2. acc.ok = TRUE /\ acc.key = <<>> /\ acc.params = <<>>
    BY DEF FormStart
  <1> HIDE DEF acc
  <1>3. FormRead(<<>>, acc)
    BY <1>1 DEF acc
  <1> QED BY <1>2, <1>3, FormEndsNamed

LEMMA NewFormHeld == /\ NewForm.held = 0 /\ NewForm.key = <<>>
                      /\ NewForm.val = <<>> /\ NewForm.keyLoaded = FALSE
  BY DEF NewForm

\* The header parameters are loaded: the form is new, and rawRead has taken nothing.
LEMMA FormLoadBegins ==
  ASSUME HandlerInv, FormInv, script = "parsing", LoadHeaderParams, UNCHANGED scriptVars
  PROVE  FormInv'
  <1> SUFFICES ASSUME ~retried, context.kind = "form", FormWritten(body) PROVE FormHolds'
    BY DEF FormInv, LoadHeaderParams, scriptVars, request, body
  <1>1. pc = "idle" /\ ~requestRaw /\ FormHolds
    BY DEF LoadHeaderParams, FormInv, HandlerInv, ParserInv
  <1>2. postParameters = <<>> /\ read = 0
    BY <1>1 DEF FormHolds
  <1>3. /\ postParameters' = <<>> /\ read' = 0 /\ form' = NewForm /\ context' = context
        /\ pc' \in {"failed", "loaded", "readForm"}
    BY <1>2 DEF LoadHeaderParams
  <1>4. form'.held = 0
    BY <1>3, NewFormHeld
  <1>5. Upto(body, form.held)' = <<>>
    BY <1>4, UptoNone DEF body
  <1>6. (postParameters = Named(Upto(body, form.held)))'
    BY <1>3, <1>5, NamedNone
  <1> QED BY <1>3, <1>4, <1>6, Zenon DEF FormHolds

\* A part of the body comes: the first is scanned, a later one is lost.
LEMMA FormIsRead ==
  ASSUME HandlerInv, FormInv, ReadForm, UNCHANGED scriptVars
  PROVE  FormInv'
  <1> SUFFICES ASSUME ~retried, context.kind = "form", FormWritten(body) PROVE FormHolds'
    BY DEF FormInv, ReadForm, scriptVars, request, body
  <1> DEFINE start == [key |-> form.key, val |-> form.val, keyLoaded |-> form.keyLoaded,
                       params |-> postParameters, ok |-> TRUE]
             end == IF form.held > 0 THEN start ELSE Scan(FormChar, start, Arrived)
  <1>1. /\ pc = "readForm" /\ context' = context
        /\ form' = [held |-> IF form.held > 0 THEN form.held ELSE Len(Arrived),
                    key |-> end.key, val |-> end.val, keyLoaded |-> end.keyLoaded]
        /\ postParameters' = end.params
        /\ pc' = IF end.ok THEN "readForm" ELSE "failed"
    BY Zenon DEF ReadForm
  <1>2. FormHolds
    BY Zenon DEF FormInv
  <1>3. PICK bytes \in 1..BufferSize : Arrives(bytes)
    BY Zenon DEF ReadForm
  <1>4. CASE form.held # 0
    <2>1. form.held \in Nat /\ form.held > 0 /\ FormHeld
      BY <1>1, <1>2, <1>4 DEF FormHolds
    <2>2. end = start
      BY <2>1
    <2>3. /\ start.key = form.key /\ start.val = form.val /\ start.keyLoaded = form.keyLoaded
          /\ start.params = postParameters /\ start.ok = TRUE
      OBVIOUS
    <2> HIDE DEF start, end
    <2>4. /\ form'.held = form.held /\ form'.key = form.key /\ form'.val = form.val
          /\ postParameters' = postParameters /\ pc' = "readForm"
      BY <1>1, <2>1, <2>2, <2>3
    <2>5. body' = body
      BY <1>1 DEF body
    <2>6. FormHeld'
      BY <2>1, <2>4, <2>5, Zenon DEF FormHeld
    <2> QED BY <1>4, <2>1, <2>4, <2>6, Zenon DEF FormHolds
  <1>5. CASE form.held = 0
    <2>1. read = 0 /\ postParameters = <<>> /\ form = NewForm
      BY <1>1, <1>2, <1>5, Zenon DEF FormHolds
    <2>2. start = FormStart(<<>>, <<>>, FALSE, <<>>)
      BY <2>1, NewFormHeld, Zenon DEF FormStart
    <2>3. read' \in 1..Len(body)
      <3>1. Len(body) \in Nat
        BY BodyTyped DEF HandlerInv
      <3> QED BY <1>3, <2>1, <3>1 DEF Arrives
    <2>4. body \in Seq(0..255) /\ read' \in 0..Len(body) /\ read' # 0 /\ read' \in Nat
      BY <2>3 DEF FormWritten
    <2>5. Arrived = Upto(body, read')
      <3>1. read + 1 = 1
        BY <2>1
      <3> QED BY <3>1, Zenon DEF Arrived, Upto
    <2>6. Len(Arrived) = read'
      BY <2>4, <2>5, UptoIs
    <2>7. FormWritten(Arrived)
      BY <2>4, <2>5, PrefixWritten
    <2>8. end = Scan(FormChar, start, Arrived)
      BY <1>5
    <2> HIDE DEF start, end
    <2>9. FormRead(Arrived, end)
      BY <2>2, <2>7, <2>8, FormScans, Zenon
    <2>10. form'.held = read' /\ form'.key = end.key /\ form'.val = end.val
      BY <1>1, <1>5, <2>6
    <2>11. body' = body
      BY <1>1 DEF body
    <2>12. CASE end.ok
      <3>1. FormHeld'
        BY <1>1, <2>5, <2>9, <2>10, <2>11, <2>12, Zenon DEF FormHeld
      <3> QED BY <1>1, <2>4, <2>10, <2>12, <3>1, Zenon DEF FormHolds
    <2>13. CASE ~end.ok
      <3>1. pc' = "failed"
        BY <1>1, <2>13
      <3> QED BY <3>1 DEF FormHolds
    <2> QED BY <2>12, <2>13
  <1> QED BY <1>4, <1>5

\* The body ends: the last pair is put.
LEMMA FormEnds ==
  ASSUME HandlerInv, FormInv, EndForm, UNCHANGED scriptVars
  PROVE  FormInv'
  <1> SUFFICES ASSUME ~retried, context.kind = "form", FormWritten(body) PROVE FormHolds'
    BY DEF FormInv, EndForm, scriptVars, request, body
  <1> DEFINE start == [key |-> form.key, val |-> form.val, params |-> postParameters, ok |-> TRUE]
             end == PutForm(start)
             text == Upto(body, form.held)
  <1>1. /\ pc = "readForm" /\ context' = context /\ form' = form
        /\ IF form.key = <<>> THEN pc' = "loaded" /\ UNCHANGED postParameters
           ELSE /\ postParameters' = end.params
                /\ pc' = IF end.ok THEN "loaded" ELSE "failed"
    BY Zenon DEF EndForm, parser
  <1>2. FormHolds
    BY Zenon DEF FormInv
  <1>3. /\ pc' = "loaded" \/ pc' = "failed"
        /\ Upto(body, form.held)' = text
    BY <1>1 DEF body
  <1>4. CASE form.held = 0
    <2>1. postParameters = <<>> /\ form = NewForm
      BY <1>1, <1>2, <1>4, Zenon DEF FormHolds
    <2>2. form.key = <<>>
      BY <2>1, NewFormHeld
    <2>3. text = <<>>
      BY <1>4, UptoNone
    <2> HIDE DEF text
    <2>4. postParameters' = Named(text)
      BY <1>1, <2>1, <2>2, <2>3, NamedNone
    <2> QED BY <1>3, <2>4 DEF FormHolds
  <1>5. CASE form.held # 0
    <2>1. PICK acc : /\ FormRead(text, acc) /\ acc.ok
                     /\ acc.key = form.key /\ acc.val = form.val /\ acc.params = postParameters
      BY <1>1, <1>2, <1>5, Zenon DEF FormHolds, FormHeld
    <2> HIDE DEF text
    <2>2. CASE form.key = <<>>
      <3>1. postParameters = Named(text)
        BY <2>1, <2>2, FormEndsNamed
      <3>2. postParameters' = Named(text)
        BY <1>1, <2>2, <3>1
      <3> QED BY <1>3, <3>2 DEF FormHolds
    <2>3. CASE form.key # <<>>
      <3> DEFINE key == DecodeUrl(form.key)
                 val == DecodeUrl(form.val)
      <3>1. /\ start.key = form.key /\ start.val = form.val
            /\ start.params = postParameters /\ start.ok = TRUE
        OBVIOUS
      <3>2. CASE Thrown \in {key, val}
        <4>1. end = [start EXCEPT !.ok = FALSE]
          BY <3>1, <3>2, Zenon DEF PutForm
        <4>2. end.ok = FALSE
          <5> HIDE DEF end
          <5> QED BY <4>1
        <4>3. pc' = "failed"
          BY <1>1, <2>3, <4>2
        <4> QED BY <4>3 DEF FormHolds
      <3>3. CASE Thrown \notin {key, val}
        <4>1. end = [start EXCEPT !.params = Put(postParameters, key, val)]
          BY <3>1, <3>3 DEF PutForm
        <4>2. end.params = Put(postParameters, key, val)
          <5> HIDE DEF end, key, val
          <5> QED BY <4>1
        <4>3. postParameters' = Put(postParameters, key, val)
          BY <1>1, <2>3, <4>2
        <4>4. Put(postParameters, key, val) = Named(text)
          BY <2>1, <2>3, <3>3, FormEndsPut
        <4>5. postParameters' = Named(text)
          BY <4>3, <4>4, Zenon
        <4> QED BY <1>3, <4>5 DEF FormHolds
      <3> QED BY <3>2, <3>3
    <2> QED BY <2>2, <2>3
  <1> QED BY <1>4, <1>5

\* The other steps.
LEMMA FormStays ==
  ASSUME HandlerInv, FormInv, [PythonNext]_allVars,
         ~(Parse /\ (LoadHeaderParams \/ ReadForm \/ EndForm))
  PROVE  FormInv'
  <1>1. UNCHANGED <<context, read, pc, postParameters, form, requestRaw, retried>> => FormInv'
    <2> SUFFICES ASSUME UNCHANGED <<context, read, pc, postParameters, form, requestRaw, retried>>
                 PROVE  FormInv'
      OBVIOUS
    <2>1. body' = body
      BY DEF body
    <2>2. FormHeld' = FormHeld
      BY <2>1 DEF FormHeld
    <2> QED BY <2>1, <2>2 DEF FormInv, FormHolds
  <1> USE DEF vars, parser, loaded, request, scriptVars, output
  <1>2. CASE UNCHANGED allVars
    BY <1>1, <1>2 DEF allVars
  <1>3. CASE Parse
    <2> SUFFICES context'.kind # "form"
      BY DEF FormInv
    <2>1. ReadPart \/ PartHeader \/ DataEnd \/ FileData \/ NeedMore
      BY <1>3 DEF Parse, ParserStep
    <2>2. context' = context /\ pc \in {"readPart", "scan"}
      <3>1. CASE ReadPart
        BY <3>1 DEF ReadPart
      <3>2. CASE PartHeader
        <4>1. Scanning /\ context' = context
          BY <3>2, Zenon DEF PartHeader
        <4> QED BY <4>1 DEF Scanning
      <3>3. CASE DataEnd
        BY <3>3 DEF DataEnd, Scanning
      <3>4. CASE FileData \/ NeedMore
        BY <3>4 DEF FileData, NeedMore, Scanning
      <3> QED BY <2>1, <3>1, <3>2, <3>3, <3>4
    <2> QED BY <2>2 DEF HandlerInv, ParserInv
  <1>4. CASE NotRun
    <2>1. UNCHANGED vars /\ UNCHANGED request
      BY <1>4 DEF NotRun
    <2> QED BY <1>1, <2>1
  <1>5. CASE InitHandler \/ Start \/ ScriptEnds \/ ScriptFails \/ Ask \/ Release \/ Loaded
    BY <1>1, <1>5 DEF InitHandler, Start, ScriptEnds, ScriptFails, Ask, Release, Loaded
  <1>6. CASE Failed
    BY <1>6 DEF Failed, FormInv
  <1>7. CASE RawRead
    <2>1. /\ UNCHANGED <<context, pc, postParameters, form, retried>> /\ requestRaw' = TRUE
          /\ script = "running" /\ ~requestLoaded
      BY <1>7 DEF RawRead
    <2>2. pc = "idle"
      BY <2>1 DEF HandlerInv, ParserInv
    <2> QED BY <2>1, <2>2 DEF FormInv, FormHolds, body
  <1>8. CASE Prints \/ Writes \/ OtherStarts \/ OtherEnds \/ OtherPrints \/ ClientLeaves
    BY <1>1, <1>8 DEF Prints, Writes, OtherStarts, OtherEnds, OtherPrints, ClientLeaves, ClientGone
  <1> QED BY <1>2, <1>3, <1>4, <1>5, <1>6, <1>7, <1>8 DEF PythonNext, Handler

\* parsePostParams and parseQueryStringParams agree: for forms of any length that are
\* written as a page writes them, whatever the reads cut them into, the script is given what
\* the parser of query strings makes of the bytes that the stream has taken.
THEOREM FormIsLoaded == PythonSpec => []FormLoaded
  <1>1. PythonInit => FormInv
    <2> SUFFICES ASSUME PythonInit PROVE FormInv
      OBVIOUS
    <2>1. postParameters = <<>> /\ pc = "idle" /\ read = 0
      BY DEF PythonInit, Init
    <2> QED BY <2>1 DEF FormInv, FormHolds
  <1>2. HandlerInv /\ FormInv /\ [PythonNext]_allVars => FormInv'
    <2> SUFFICES ASSUME HandlerInv, FormInv, [PythonNext]_allVars PROVE FormInv'
      OBVIOUS
    <2>1. CASE Parse /\ (LoadHeaderParams \/ ReadForm \/ EndForm)
      BY <2>1, FormLoadBegins, FormIsRead, FormEnds DEF Parse
    <2> QED BY <2>1, FormStays
  <1>3. HandlerInv /\ FormInv => FormLoaded
    <2> SUFFICES ASSUME HandlerInv, FormInv, requestLoaded, ~retried, context.kind = "form",
                        FormWritten(body)
                 PROVE  postParameters = Named(Upto(body, form.held))
      BY Zenon DEF FormLoaded, Named, Upto
    <2>1. pc = "loaded"
      BY DEF HandlerInv, ParserInv
    <2> QED BY <2>1, Zenon DEF FormInv, FormHolds
  <1> QED BY <1>1, <1>2, <1>3, HandlerInvariant, PTL DEF PythonSpec
-----------------------------------------------------------------------------
(* What of a multipart body has been scanned. *)

\* What of a multipart body has been scanned: the parts up to j, and the record holds what
\* has been read from the boundary behind them ...
AtHead(parts, j, p) ==
  /\ j \in 0..Len(parts) /\ p + 1 = BoundaryAt(parts, j + 1)
  /\ pc = "scan" => boundaryPos \in {0, 1} /\ (boundaryPos = 0 => Len(record) < 2)
  /\ FieldsWhole(postParameters, parts, j)
  /\ FilesWhole(uploadedFiles, files, parts, j)

\* ... or the header of part j and the data before position p.
InData(parts, j, p) ==
  /\ j \in 1..Len(parts) /\ DataAt(parts, j) <= p /\ p < BoundaryAt(parts, j + 1) - 1
  /\ FieldsBegun(postParameters, parts, j, Upto(parts[j].data, p - DataAt(parts, j)))
  /\ FilesBegun(uploadedFiles, files, parts, j, Upto(parts[j].data, p - DataAt(parts, j)))
  /\ uploadInfo = Info(parts[j]) /\ fieldName = parts[j].name
  /\ currentFile = IF HasFile(parts[j]) THEN uploadedFiles[parts[j].name] ELSE NoPath
  /\ pc = "scan" => \/ boundaryPos = Find(record, BoundaryBegin)
                    \/ record = <<>>
                    \/ boundaryPos = 1 /\ FindSequence(record, BoundaryWithEndMark) = 1

Scanned(parts, text) ==
  \E p \in Nat : /\ Window(record, text, p, read)
                 /\ \E j \in 0..Len(parts) : AtHead(parts, j, p) \/ InData(parts, j, p)

AllLoaded(parts) ==
  /\ FieldsWhole(postParameters, parts, Len(parts))
  /\ script # "destroyed" => FilesWhole(uploadedFiles, files, parts, Len(parts))

MultipartHolds(parts) ==
  /\ pc # "readForm"
  /\ pc \in {"idle", "failed"} => postParameters = <<>> /\ (read = 0 \/ requestRaw)
  /\ pc \in {"readPart", "scan"} => Scanned(parts, MultipartText(parts))
  /\ pc = "loaded" /\ ~cut => AllLoaded(parts)

MultipartInv == MultipartWritten => MultipartHolds(context.parts)

\* Where the boundaries are.
LEMMA BoundariesAre ==
  ASSUME NEW parts \in Seq(WrittenParts)
  PROVE  /\ Len(parts) \in Nat /\ MultipartText(parts) \in Seq(Int)
         /\ BoundaryAt(parts, 1) = 1
         /\ \A j \in 0..Len(parts) : /\ BoundaryAt(parts, j + 1) \in Nat
                                     /\ BoundaryAt(parts, j + 1) >= 1
                                     /\ BoundaryAt(parts, j + 1) + 3 <= Len(MultipartText(parts))
  <1> DEFINE n == Len(parts)
             text == MultipartText(parts)
             B(k) == BoundaryAt(parts, k)
  <1>1. n \in Nat
    BY LenProperties
  <1>2. /\ text \in Seq(Int) /\ B(1) = 1 /\ EndAt(text, parts)
        /\ \A k \in 1..n : /\ BoundaryAt(parts, k) \in Nat /\ BoundaryAt(parts, k) >= 1
                           /\ BoundaryAt(parts, k + 1) <= BoundaryAt(parts, Len(parts) + 1)
                           /\ PartAt(text, parts, k)
    BY BodyLaid
  <1>3. B(n + 1) \in Nat /\ B(n + 1) >= 1 /\ Len(text) = B(n + 1) + 3
    BY <1>2 DEF EndAt
  <1> HIDE DEF text
  <1>4. ASSUME NEW j \in 0..n PROVE B(j + 1) \in Nat /\ B(j + 1) >= 1 /\ B(j + 1) + 3 <= Len(text)
    <2>1. CASE j = n
      BY <1>3, <2>1
    <2>2. CASE j < n
      <3>1. j + 1 \in 1..n
        BY <1>1, <2>2
      <3>2. Segment(text, B(j + 1), DataAt(parts, j + 1), B(j + 1 + 1), parts[j + 1])
        BY <3>1, SegmentIs DEF text
      <3>3. /\ B(j + 1) \in Nat /\ B(j + 1) >= 1
            /\ DataAt(parts, j + 1) \in Nat /\ DataAt(parts, j + 1) > B(j + 1) + 4
            /\ B(j + 1 + 1) \in Nat /\ B(j + 1 + 1) >= DataAt(parts, j + 1) + 2
            /\ B(j + 1 + 1) + 3 <= Len(text) /\ text \in Seq(Int)
        BY <3>2 DEF Segment
      <3>4. Len(text) \in Nat
        BY <3>3, LenProperties
      <3> HIDE DEF B
      <3> QED BY <3>3, <3>4
    <2> QED BY <1>1, <2>1, <2>2
  <1> QED BY <1>1, <1>2, <1>4 DEF text

\* A window grows with what is read behind it.
LEMMA WindowGrows ==
  ASSUME NEW text \in Seq(Int), NEW held, NEW p, NEW r, Window(held, text, p, r),
         NEW r2 \in Nat, r <= r2, r2 <= Len(text)
  PROVE  Window(held \o SubSeq(text, r + 1, r2), text, p, r2)
  <1> DEFINE n == Len(text)
  <1>1. p \in Nat /\ r \in Nat /\ p <= r /\ r <= n /\ n \in Nat
    BY LenProperties DEF Window
  <1>2. held = SubSeq(text, p + 1, r)
    <2>1. text \in Seq(Int) /\ p \in Nat /\ r \in Nat /\ p <= r /\ r <= Len(text)
      BY <1>1
    <2> QED BY <2>1, WindowIs
  <1> DEFINE m == p + 1
  <1>3. m \in 1..n + 1 /\ r \in m - 1..n /\ r2 \in r..n
    BY <1>1
  <1> HIDE DEF m
  <1>4. SubSeq(text, m, r) \o SubSeq(text, r + 1, r2) = SubSeq(text, m, r2)
    BY <1>3, ConcatAdjacentSubSeq DEF n
  <1>5. Window(SubSeq(text, p + 1, r2), text, p, r2)
    <2>1. text \in Seq(Int) /\ p \in Nat /\ r2 \in Nat /\ p <= r2 /\ r2 <= Len(text)
      BY <1>1
    <2> QED BY <2>1, WindowIs
  <1> QED BY <1>2, <1>4, <1>5 DEF m

\* Of what the parser is called for, nothing has been read.
LEMMA MultipartBegins ==
  ASSUME HandlerInv, MultipartInv, script = "parsing", LoadHeaderParams, UNCHANGED scriptVars
  PROVE  MultipartInv'
  <1> DEFINE parts == context.parts
             text == MultipartText(parts)
  <1> SUFFICES ASSUME MultipartWritten PROVE MultipartHolds(parts)'
    BY DEF MultipartInv, MultipartWritten, LoadHeaderParams, body
  <1>1. pc = "idle" /\ ~requestRaw /\ MultipartHolds(parts)
    BY DEF LoadHeaderParams, MultipartInv, HandlerInv, ParserInv
  <1>2. postParameters = <<>> /\ read = 0 /\ context.kind = "multipart" /\ parts \in Seq(WrittenParts)
    BY <1>1 DEF MultipartHolds, MultipartWritten
  <1>3. /\ UNCHANGED <<context, requestRaw>> /\ postParameters' = <<>> /\ read' = 0
        /\ record' = <<>> /\ pc' \in {"failed", "readPart"}
    BY <1>2 DEF LoadHeaderParams, scriptVars, request
  <1>4. parts' = parts /\ text' = text
    BY <1>3
  <1>5. Window(<<>>, text, 0, 0)
    <2>1. text \in Seq(Int) /\ Len(text) \in Nat
      BY <1>2, BoundariesAre, LenProperties
    <2>2. <<>> \in Seq(Int) /\ Len(<<>>) = 0 /\ 0 - 0 = 0 /\ 0 \in Nat
      BY EmptySeq
    <2> QED BY <2>1, <2>2 DEF Window
  <1>6. FieldsWhole(<<>>, parts, 0)
    BY UptoNone, FieldsNone DEF FieldsWhole
  <1>7. \A up, fl : FilesWhole(up, fl, parts, 0)
    BY DEF FilesWhole
  <1>8. 0 \in 0..Len(parts) /\ 0 + 1 = BoundaryAt(parts, 0 + 1)
    BY <1>2, BoundariesAre
  <1> HIDE DEF parts, text
  <1>9. pc' = "readPart" => AtHead(parts, 0, 0)'
    BY <1>3, <1>4, <1>6, <1>7, <1>8 DEF AtHead
  <1>10. pc' = "readPart" => Scanned(parts, text)'
    <2>1. 0 \in Nat /\ Window(record, text, 0, read)'
      BY <1>3, <1>4, <1>5
    <2>2. (0 \in 0..Len(parts))'
      BY <1>4, <1>8
    <2> QED BY <1>9, <2>1, <2>2, Zenon DEF Scanned
  <1> QED BY <1>3, <1>10 DEF MultipartHolds, text

\* A read: the record is what has come from where it begins.
LEMMA MultipartIsRead ==
  ASSUME HandlerInv, MultipartInv, ReadPart, UNCHANGED scriptVars
  PROVE  MultipartInv'
  <1> DEFINE parts == context.parts
             text == MultipartText(parts)
             n == Len(parts)
  <1> SUFFICES ASSUME MultipartWritten PROVE MultipartHolds(parts)'
    BY DEF MultipartInv, MultipartWritten, ReadPart, body
  <1>1. /\ pc = "readPart" /\ pc' = "scan"
        /\ UNCHANGED <<context, cut, uploadInfo, fieldName, currentFile, loaded, uploads>>
        /\ boundaryPos' = Find(record', BoundaryBegin)
    BY DEF ReadPart
  <1>2. body = text /\ parts \in Seq(WrittenParts)
    BY DEF MultipartWritten
  <1>3. text \in Seq(Int) /\ Len(text) \in Nat /\ n \in Nat
    BY <1>2, BoundariesAre, LenProperties
  <1>4. \/ /\ read' \in Nat /\ read <= read' /\ read' <= Len(text)
           /\ record' = record \o SubSeq(text, read + 1, read')
        \/ UNCHANGED <<read, record>>
    <2>1. read \in Nat /\ read <= Len(text)
      BY <1>2 DEF HandlerInv, RecordInv
    <2>2. CASE \E bytes \in 1..BufferSize :
                 Arrives(bytes) /\ more' = TRUE /\ record' = record \o Arrived
      <3>1. PICK bytes \in 1..BufferSize :
              Arrives(bytes) /\ more' = TRUE /\ record' = record \o Arrived
        BY <2>2
      <3>2. bytes \in 1..(Len(text) - read) /\ read' = read + bytes
        BY <1>2, <3>1 DEF Arrives
      <3>3. read' \in Nat /\ read <= read' /\ read' <= Len(text)
        BY <1>3, <2>1, <3>2
      <3> QED BY <1>2, <3>1, <3>3 DEF Arrived
    <2>3. CASE AtEnd /\ more' = FALSE /\ UNCHANGED <<read, record>>
      BY <2>3
    <2> QED BY <2>2, <2>3 DEF ReadPart
  <1>5. PICK p \in Nat, j \in 0..n :
          Window(record, text, p, read) /\ (AtHead(parts, j, p) \/ InData(parts, j, p))
    BY <1>1 DEF MultipartInv, MultipartHolds, Scanned
  <1>6. Window(record', text, p, read')
    <2>1. CASE UNCHANGED <<read, record>>
      BY <1>5, <2>1
    <2>2. CASE /\ read' \in Nat /\ read <= read' /\ read' <= Len(text)
               /\ record' = record \o SubSeq(text, read + 1, read')
      <3> HIDE DEF text
      <3>1. Window(record \o SubSeq(text, read + 1, read'), text, p, read')
        BY <1>3, <1>5, <2>2, WindowGrows
      <3> QED BY <2>2, <3>1
    <2> QED BY <1>4, <2>1, <2>2
  <1>7. AtHead(parts, j, p) => AtHead(parts, j, p)'
    <2> SUFFICES ASSUME AtHead(parts, j, p) PROVE AtHead(parts, j, p)'
      OBVIOUS
    <2> DEFINE s == BoundaryAt(parts, j + 1)
    <2>1. s \in Nat /\ p + 1 = s
      BY <1>2, BoundariesAre DEF AtHead
    <2>2. text[s] = Dashes /\ text[s + 1] = Boundary
      <3>1. CASE j = n
        <4>1. EndAt(text, parts)
          BY <1>2, BodyLaid
        <4> QED BY <3>1, <4>1 DEF EndAt
      <3>2. CASE j < n
        <4>1. j + 1 \in 1..n
          BY <1>3, <3>2
        <4>2. Segment(text, s, DataAt(parts, j + 1), BoundaryAt(parts, j + 1 + 1), parts[j + 1])
          BY <1>2, <4>1, SegmentIs
        <4> QED BY <4>2 DEF Segment
      <3> QED BY <1>3, <3>1, <3>2
    <2> HIDE DEF s, text
    <2>3. /\ Len(record') >= 2 => boundaryPos' = 1
          /\ Len(record') < 2 => boundaryPos' = NPos
      BY <1>1, <1>6, <2>1, <2>2, BoundaryFirst
    <2>4. Len(record') \in Nat
      BY <1>6, LenProperties DEF Window
    <2>5. boundaryPos' \in {0, 1} /\ (boundaryPos' = 0 => Len(record') < 2)
      BY <2>3, <2>4 DEF NPos
    <2> QED BY <1>1, <2>5 DEF AtHead, loaded, uploads
  <1>8. InData(parts, j, p) => InData(parts, j, p)'
    BY <1>1 DEF InData, loaded, uploads
  <1>9. parts' = parts /\ text' = text
    BY <1>1
  <1> HIDE DEF parts, text, n
  <1>10. Scanned(parts, text)'
    <2>1. p \in Nat /\ Window(record, text, p, read)'
      BY <1>6, <1>9
    <2>2. (j \in 0..Len(parts))' /\ (AtHead(parts, j, p) \/ InData(parts, j, p))'
      BY <1>5, <1>7, <1>8, <1>9 DEF n
    <2> QED BY <2>1, <2>2, Zenon DEF Scanned
  <1> QED BY <1>1, <1>10 DEF MultipartHolds, text
-----------------------------------------------------------------------------
(* The loop of loadMultipartFormData. *)

\* The loop ends until more comes; when nothing does, all parts are whole.
LEMMA MultipartWaits ==
  ASSUME HandlerInv, MultipartInv, script = "parsing", NeedMore, UNCHANGED scriptVars
  PROVE  MultipartInv'
  <1> DEFINE parts == context.parts
             text == MultipartText(parts)
             n == Len(parts)
  <1> SUFFICES ASSUME MultipartWritten PROVE MultipartHolds(parts)'
    BY DEF MultipartInv, MultipartWritten, NeedMore, body
  <1>1. /\ pc = "scan" /\ pc' = IF more THEN "readPart" ELSE "loaded"
        /\ UNCHANGED <<context, cut, read, record, uploadInfo, fieldName, currentFile, loaded,
                       uploads, script>>
        /\ record = <<>> \/ ~(InPartHeader \/ AtBoundary \/ InFileData)
    BY DEF NeedMore, Wait, scriptVars
  <1>2. body = text /\ parts \in Seq(WrittenParts)
    BY DEF MultipartWritten
  <1>3. text \in Seq(Int) /\ Len(text) \in Nat /\ n \in Nat
    BY <1>2, BoundariesAre, LenProperties
  <1>4. PICK p \in Nat, j \in 0..n :
          Window(record, text, p, read) /\ (AtHead(parts, j, p) \/ InData(parts, j, p))
    BY <1>1 DEF MultipartInv, MultipartHolds, Scanned
  <1>5. parts' = parts /\ text' = text
    BY <1>1
  <1>6. CASE more
    <2>1. pc' = "readPart"
      BY <1>1, <1>6
    <2>2. AtHead(parts, j, p) => AtHead(parts, j, p)'
      BY <1>1, <2>1 DEF AtHead, loaded, uploads
    <2>3. InData(parts, j, p) => InData(parts, j, p)'
      BY <1>1, <2>1 DEF InData, loaded, uploads
    <2> HIDE DEF parts, text, n
    <2>4. Scanned(parts, text)'
      <3>1. p \in Nat /\ Window(record, text, p, read)'
        BY <1>1, <1>4, <1>5
      <3>2. (j \in 0..Len(parts))' /\ (AtHead(parts, j, p) \/ InData(parts, j, p))'
        BY <1>4, <1>5, <2>2, <2>3 DEF n
      <3> QED BY <3>1, <3>2, Zenon DEF Scanned
    <2> QED BY <2>1, <2>4 DEF MultipartHolds, text
  <1>7. CASE ~more
    <2> SUFFICES ASSUME ~cut PROVE FieldsWhole(postParameters, parts, n)
                                   /\ FilesWhole(uploadedFiles, files, parts, n)
      <3>1. pc' = "loaded" /\ cut' = cut /\ UNCHANGED <<loaded, uploads>>
        BY <1>1, <1>7
      <3> QED BY <1>5, <3>1 DEF MultipartHolds, AllLoaded, loaded, uploads
    <2>1. read = Len(text)
      BY <1>1, <1>2, <1>7 DEF HandlerInv, ConsumedInv
    <2>2. CASE AtHead(parts, j, p)
      <3>1. /\ p + 1 = BoundaryAt(parts, j + 1) /\ boundaryPos \in {0, 1}
            /\ boundaryPos = 0 => Len(record) < 2
            /\ FieldsWhole(postParameters, parts, j)
            /\ FilesWhole(uploadedFiles, files, parts, j)
        BY <1>1, <2>2 DEF AtHead
      <3>2. Len(record) >= 4 /\ record # <<>>
        <4>1. BoundaryAt(parts, j + 1) \in Nat /\ BoundaryAt(parts, j + 1) + 3 <= Len(text)
          BY <1>2, BoundariesAre
        <4>2. Len(record) = read - p
          BY <1>4 DEF Window
        <4>3. Len(record) >= 4
          BY <1>3, <2>1, <3>1, <4>1, <4>2
        <4>4. Len(<<>>) = 0
          BY EmptySeq
        <4> QED BY <4>3, <4>4
      <3>3. boundaryPos = 1
        BY <3>1, <3>2
      <3>4. j = n
        <4> SUFFICES ASSUME j < n PROVE FALSE
          BY <1>3
        <4>1. j + 1 \in 1..n
          BY <1>3
        <4>2. p + 1 \in {BoundaryAt(parts, j + 1), BoundaryAt(parts, j + 1) - 1}
          BY <3>1
        <4>3. Find(record, HeadersEndMark) # NPos
          <5> DEFINE k == j + 1
          <5> HIDE DEF k, text
          <5>1. k \in 1..Len(parts) /\ p + 1 \in {BoundaryAt(parts, k), BoundaryAt(parts, k) - 1}
            BY <4>1, <4>2 DEF k
          <5> HIDE DEF parts
          <5>2. parts \in Seq(WrittenParts) /\ text = MultipartText(parts)
            BY <1>2 DEF text
          <5> QED BY <1>4, <2>1, <5>1, <5>2, HeaderComplete
        <4> QED BY <1>1, <3>2, <3>3, <4>3 DEF InPartHeader
      <3> QED BY <3>1, <3>4
    <2>3. CASE InData(parts, j, p)
      <3> DEFINE h == DataAt(parts, j)
                 e == BoundaryAt(parts, j + 1)
      <3>1. /\ j \in 1..n /\ h <= p /\ p < e - 1
            /\ FieldsBegun(postParameters, parts, j, Upto(parts[j].data, p - h))
            /\ FilesBegun(uploadedFiles, files, parts, j, Upto(parts[j].data, p - h))
            /\ fieldName = parts[j].name
            /\ \/ boundaryPos = Find(record, BoundaryBegin)
               \/ record = <<>>
               \/ boundaryPos = 1 /\ FindSequence(record, BoundaryWithEndMark) = 1
        BY <1>1, <2>3 DEF InData
      <3>2. Segment(text, BoundaryAt(parts, j), h, e, parts[j]) /\ parts[j] \in WrittenParts
        BY <1>2, <3>1, SegmentIs, ElementOfSeq
      <3> HIDE DEF h, e
      <3>3. e \in Nat /\ e + 3 <= Len(text)
        BY <3>2 DEF Segment
      <3>4. Len(record) = read - p
        BY <1>4 DEF Window
      <3>5. record # <<>>
        <4>1. Len(<<>>) = 0
          BY EmptySeq
        <4>2. Len(record) > 0
          BY <1>3, <2>1, <3>1, <3>3, <3>4
        <4> QED BY <4>1, <4>2
      <3>6. boundaryPos # Find(record, BoundaryBegin)
        <4> SUFFICES ASSUME boundaryPos = Find(record, BoundaryBegin) PROVE FALSE
          OBVIOUS
        <4>1. Find(record, BoundaryBegin) = e - p
          <5>1. read >= e + 1
            BY <1>3, <2>1, <3>3
          <5> HIDE DEF text, parts
          <5> QED BY <1>4, <3>1, <3>2, <5>1, BoundarySeen
        <4>2. boundaryPos > 1
          BY <3>1, <3>3, <4>1
        <4>3. fieldName # <<>>
          BY <3>1, <3>2, PartTyped
        <4> QED BY <1>1, <3>5, <4>2, <4>3 DEF AtBoundary, InPartHeader
      <3>7. boundaryPos = 1 /\ FindSequence(record, BoundaryWithEndMark) = 1
        BY <3>1, <3>5, <3>6
      <3>8. /\ p = e - 2 /\ Upto(parts[j].data, e - 2 - h) = parts[j].data
        <4> HIDE DEF text
        <4>1. parts \in Seq(WrittenParts) /\ text = MultipartText(parts)
          BY <1>2 DEF text
        <4> HIDE DEF parts
        <4>2. j \in 1..Len(parts) /\ h <= p /\ p < e - 1
          BY <3>1 DEF n
        <4>3. /\ read = Len(text) \/ Find(record, HeadersEndMark) # NPos =>
                   p = BoundaryAt(parts, j + 1) - 2
              /\ Upto(parts[j].data, BoundaryAt(parts, j + 1) - 2 - DataAt(parts, j)) = parts[j].data
          BY <1>4, <3>7, <4>1, <4>2, MarkStays DEF h, e
        <4> QED BY <2>1, <4>3 DEF h, e
      <3>9. j = n
        <4> SUFFICES ASSUME j < n PROVE FALSE
          BY <1>3, <3>1
        <4>1. j + 1 \in 1..n
          BY <1>3, <3>1
        <4>2. p + 1 \in {e, e - 1}
          BY <3>3, <3>8
        <4>3. Find(record, HeadersEndMark) # NPos
          <5> DEFINE k == j + 1
          <5> HIDE DEF k, text
          <5>1. k \in 1..Len(parts) /\ p + 1 \in {BoundaryAt(parts, k), BoundaryAt(parts, k) - 1}
            BY <4>1, <4>2 DEF k, e
          <5> HIDE DEF parts
          <5>2. parts \in Seq(WrittenParts) /\ text = MultipartText(parts)
            BY <1>2 DEF text
          <5> QED BY <1>4, <2>1, <5>1, <5>2, HeaderComplete
        <4> QED BY <1>1, <3>5, <3>7, <4>3 DEF InPartHeader
      <3>10. Upto(parts[j].data, p - h) = parts[j].data
        BY <3>8
      <3> HIDE DEF parts, text
      <3> QED BY <1>2, <3>1, <3>9, <3>10, BegunIsWhole DEF n
    <2> QED BY <1>4, <2>2, <2>3
  <1> QED BY <1>6, <1>7

\* The boundary before a part, and the last one.
LEMMA BoundaryThere ==
  ASSUME NEW parts \in Seq(WrittenParts), NEW j \in 0..Len(parts)
  PROVE  /\ MultipartText(parts)[BoundaryAt(parts, j + 1)] = Dashes
         /\ MultipartText(parts)[BoundaryAt(parts, j + 1) + 1] = Boundary
  <1> DEFINE text == MultipartText(parts)
             s == BoundaryAt(parts, j + 1)
  <1>1. Len(parts) \in Nat
    BY LenProperties
  <1>2. CASE j = Len(parts)
    <2>1. EndAt(text, parts)
      BY BodyLaid
    <2> QED BY <1>2, <2>1 DEF EndAt
  <1>3. CASE j < Len(parts)
    <2>1. j + 1 \in 1..Len(parts)
      BY <1>1, <1>3
    <2>2. Segment(text, s, DataAt(parts, j + 1), BoundaryAt(parts, j + 1 + 1), parts[j + 1])
      BY <2>1, SegmentIs
    <2> QED BY <2>2 DEF Segment
  <1> QED BY <1>1, <1>2, <1>3

\* findSequence finds a boundary at the beginning, and a beginning of one.
LEMMA HeadIsFound ==
  ASSUME NEW text, NEW s, s \in Nat, text[s] = Dashes, text[s + 1] = Boundary,
         NEW held, NEW p, NEW r, Window(held, text, p, r), p + 1 = s, held # <<>>
  PROVE  FindSequence(held, BoundaryBegin) # NPos
  <1> DEFINE seq == BoundaryBegin
  <1>1. /\ p \in Nat /\ r \in Nat /\ held \in Seq(Int) /\ Len(held) = r - p
        /\ \A i \in 1..r - p : held[i] = text[p + i]
    BY DEF Window
  <1>2. Len(seq) = 2 /\ seq[1] = Dashes /\ seq[2] = Boundary
    BY MarksAre
  <1>3. Len(held) # 0
    BY <1>1, EmptySeq
  <1>4. 1 \in 1..r - p /\ 1 \in 1..Len(held)
    BY <1>1, <1>3
  <1>5. Begins(held, seq, 1)
    <2>1. 1..2 = {1, 2} /\ 1 + 1 - 1 = 1 /\ 1 + 2 - 1 = 2 /\ p + 2 = s + 1
      BY <1>1
    <2>2. held[1] = Dashes
      BY <1>1, <1>4
    <2>3. 2 <= r - p => held[2] = Boundary
      <3>1. 2 <= r - p => 2 \in 1..r - p
        BY <1>1
      <3> QED BY <1>1, <2>1, <3>1
    <2> HIDE DEF seq
    <2> QED BY <1>1, <1>2, <2>1, <2>2, <2>3 DEF Begins
  <1> HIDE DEF seq
  <1>6. \/ FindSequence(held, seq) = NPos /\ \A i \in 1..Len(held) : ~Begins(held, seq, i)
        \/ FindSequence(held, seq) \in 1..Len(held)
    BY <1>1, FindSequenceIs, Zenon
  <1>7. 0 \notin 1..Len(held)
    BY <1>1
  <1> QED BY <1>4, <1>5, <1>6, <1>7 DEF NPos, seq

\* Nothing of a body.
LEMMA EmptyWindow ==
  ASSUME NEW text, NEW r \in Nat, r <= Len(text)
  PROVE  Window(<<>>, text, r, r)
  <1>1. <<>> \in Seq(Int) /\ Len(<<>>) = 0 /\ r - r = 0 /\ r <= r
    BY EmptySeq
  <1>2. 1..r - r = {}
    BY <1>1
  <1> QED BY <1>1, <1>2 DEF Window

\* A piece of a file in which no boundary begins.
LEMMA FileDataScanned ==
  ASSUME HandlerInv, MultipartInv, FileData, UNCHANGED scriptVars
  PROVE  MultipartInv'
  <1> DEFINE parts == context.parts
             text == MultipartText(parts)
             n == Len(parts)
  <1> SUFFICES ASSUME MultipartWritten PROVE MultipartHolds(parts)'
    BY DEF MultipartInv, MultipartWritten, FileData, body
  <1>1. /\ pc = "scan" /\ record # <<>> /\ currentFile # NoPath
        /\ FindSequence(record, BoundaryWithEndMark) = NPos
        /\ FindSequence(record, BoundaryBegin) = NPos
        /\ files' = AddTo(files, currentFile, record)
        /\ Continue(<<>>, boundaryPos)
        /\ UNCHANGED <<context, cut, uploadInfo, fieldName, currentFile, postParameters,
                       uploadedFiles>>
    BY DEF FileData, Scanning, InFileData, loaded
  <1>2. record' = <<>> /\ pc' = "scan" /\ read' = read
    BY <1>1, NoEnd DEF Continue
  <1>3. parts \in Seq(WrittenParts)
    BY DEF MultipartWritten
  <1>4. text \in Seq(Int) /\ Len(text) \in Nat /\ n \in Nat
    BY <1>3, BoundariesAre, LenProperties
  <1>5. PICK p \in Nat, j \in 0..n :
          Window(record, text, p, read) /\ (AtHead(parts, j, p) \/ InData(parts, j, p))
    BY <1>1 DEF MultipartInv, MultipartHolds, Scanned
  <1>6. parts' = parts /\ text' = text
    BY <1>1
  <1>7. ~AtHead(parts, j, p)
    <2> SUFFICES ASSUME AtHead(parts, j, p) PROVE FALSE
      OBVIOUS
    <2> DEFINE s == BoundaryAt(parts, j + 1)
    <2>1. s \in Nat /\ p + 1 = s
      BY <1>3, BoundariesAre DEF AtHead
    <2>2. text[s] = Dashes /\ text[s + 1] = Boundary
      BY <1>3, BoundaryThere
    <2> HIDE DEF s, text
    <2> QED BY <1>1, <1>5, <2>1, <2>2, HeadIsFound
  <1> DEFINE h == DataAt(parts, j)
             e == BoundaryAt(parts, j + 1)
             part == parts[j]
             got == Upto(part.data, p - h)
  <1>8. /\ j \in 1..n /\ h <= p /\ p < e - 1
        /\ FieldsBegun(postParameters, parts, j, got)
        /\ FilesBegun(uploadedFiles, files, parts, j, got)
        /\ uploadInfo = Info(part) /\ fieldName = part.name
        /\ currentFile = IF HasFile(part) THEN uploadedFiles[part.name] ELSE NoPath
    BY <1>5, <1>7 DEF InData
  <1>9. PICK r \in Nat : r = read
    BY <1>5 DEF Window
  <1>10. Segment(text, BoundaryAt(parts, j), h, e, part) /\ part \in WrittenParts
    BY <1>3, <1>8, SegmentIs, ElementOfSeq
  <1>11. got \in Seq(Int) /\ record \in Seq(Int)
    <2>1. DataIn(text, part.data, h, e)
      BY <1>10, DataThere, Zenon
    <2>2. \A q \in Nat : h <= q /\ q <= e - 2 => Upto(part.data, q - h) \in Seq(Int)
      BY <2>1 DEF DataIn
    <2>3. h \in Nat /\ e \in Nat
      BY <1>10 DEF Segment
    <2> HIDE DEF h, e, part
    <2>4. p <= e - 2
      BY <1>8, <2>3
    <2> QED BY <1>5, <1>8, <2>2, <2>4 DEF Window
  <1>12. h <= r /\ r < e - 1 /\ got \o record = Upto(part.data, r - h)
    <2> HIDE DEF text
    <2>1. parts \in Seq(WrittenParts) /\ text = MultipartText(parts)
      BY <1>3 DEF text
    <2> HIDE DEF parts
    <2>2. j \in 1..Len(parts) /\ DataAt(parts, j) <= p /\ p < BoundaryAt(parts, j + 1) - 1
      BY <1>8 DEF n
    <2>3. Window(record, text, p, r)
      BY <1>5, <1>9
    <2> QED BY <1>1, <2>1, <2>2, <2>3, FileDataStep
  <1>13. HasFile(part) /\ currentFile = uploadedFiles[part.name] /\ part.isFile
    BY <1>1, <1>8 DEF HasFile
  <1>14. FilesBegun(uploadedFiles, files', parts, j, got \o record)
    <2>1. files' = IF HasFile(parts[j]) THEN AddTo(files, uploadedFiles[parts[j].name], record)
                   ELSE files
      BY <1>1, <1>13
    <2>2. j \in Nat \ {0}
      BY <1>4, <1>8
    <2> HIDE DEF got
    <2>3. FilesBegun(uploadedFiles, files, parts, j, got)
      BY <1>8
    <2> HIDE DEF parts
    <2> QED BY <2>1, <2>2, <2>3, FileGrows, Zenon
  <1>15. FieldsBegun(postParameters, parts, j, got \o record)
    <2>1. FieldsBegun(IF parts[j].isFile THEN postParameters
                      ELSE AddTo(postParameters, parts[j].name, record), parts, j, got \o record)
      <3> HIDE DEF got
      <3>1. /\ parts \in Seq(WrittenParts) /\ got \in Seq(Int) /\ record \in Seq(Int)
            /\ FieldsBegun(postParameters, parts, j, got)
        BY <1>3, <1>8, <1>11
      <3>2. j \in 1..Len(parts)
        BY <1>8
      <3> HIDE DEF parts
      <3> QED BY <3>1, <3>2, FieldGrows, Zenon
    <2> QED BY <1>13, <2>1
  <1>16. InData(parts, j, r)'
    BY <1>1, <1>2, <1>6, <1>8, <1>12, <1>14, <1>15 DEF InData
  <1>17. Window(<<>>, text, r, r)
    <2>1. r <= Len(text)
      BY <1>5, <1>9 DEF Window
    <2> QED BY <2>1, EmptyWindow
  <1> HIDE DEF parts, text, n, h, e, part, got
  <1>18. Scanned(parts, text)'
    <2>1. r \in Nat /\ Window(record, text, r, read)'
      BY <1>2, <1>6, <1>9, <1>17
    <2>2. (j \in 0..Len(parts))' /\ InData(parts, j, r)'
      BY <1>5, <1>6, <1>16 DEF n
    <2> QED BY <2>1, <2>2, Zenon DEF Scanned
  <1> QED BY <1>2, <1>18 DEF MultipartHolds, text

\* The boundary behind data that came in later: the part is whole, and the last one is the
\* end of the body.
LEMMA DataEndScanned ==
  ASSUME HandlerInv, MultipartInv, script = "parsing", DataEnd, UNCHANGED scriptVars
  PROVE  MultipartInv'
  <1> DEFINE parts == context.parts
             text == MultipartText(parts)
             n == Len(parts)
             b == boundaryPos
             new == From(record, b)
             data == SubSeq(record, 1, b - 2)
  <1> SUFFICES ASSUME MultipartWritten PROVE MultipartHolds(parts)'
    BY DEF MultipartInv, MultipartWritten, DataEnd, body
  <1>1. /\ pc = "scan" /\ record # <<>> /\ b > 1
        /\ IF uploadInfo.isFileData
           THEN /\ files' = IF currentFile = NoPath THEN files ELSE AddTo(files, currentFile, data)
                /\ UNCHANGED postParameters
           ELSE postParameters' = AddTo(postParameters, fieldName, data) /\ UNCHANGED files
        /\ Continue(new, 1)
        /\ UNCHANGED <<context, cut, uploadInfo, fieldName, currentFile, uploadedFiles, script>>
    BY DEF DataEnd, Scanning, AtBoundary, scriptVars
  <1>2. /\ record' = new /\ boundaryPos' = 1
        /\ IF Find(new, BoundaryEnd) = 1 THEN pc' = "loaded" ELSE pc' = "scan" /\ read' = read
    BY <1>1, Zenon DEF Continue
  <1>3. parts \in Seq(WrittenParts)
    BY DEF MultipartWritten
  <1>4. text \in Seq(Int) /\ Len(text) \in Nat /\ n \in Nat
    BY <1>3, BoundariesAre, LenProperties
  <1>5. PICK p \in Nat, j \in 0..n :
          Window(record, text, p, read) /\ (AtHead(parts, j, p) \/ InData(parts, j, p))
    BY <1>1 DEF MultipartInv, MultipartHolds, Scanned
  <1>6. parts' = parts /\ text' = text
    BY <1>1
  <1>7. ~AtHead(parts, j, p)
    BY <1>1 DEF AtHead
  <1> DEFINE h == DataAt(parts, j)
             e == BoundaryAt(parts, j + 1)
             part == parts[j]
             got == Upto(part.data, p - h)
  <1>8. /\ j \in 1..n /\ h <= p /\ p < e - 1
        /\ FieldsBegun(postParameters, parts, j, got)
        /\ FilesBegun(uploadedFiles, files, parts, j, got)
        /\ uploadInfo = Info(part) /\ fieldName = part.name
        /\ currentFile = IF HasFile(part) THEN uploadedFiles[part.name] ELSE NoPath
        /\ b = Find(record, BoundaryBegin)
    BY <1>1, <1>5, <1>7 DEF InData
  <1>9. Segment(text, BoundaryAt(parts, j), h, e, part) /\ part \in WrittenParts
    BY <1>3, <1>8, SegmentIs, ElementOfSeq
  <1>10. got \in Seq(Int)
    <2>1. DataIn(text, part.data, h, e)
      BY <1>9, DataThere, Zenon
    <2>2. \A q \in Nat : h <= q /\ q <= e - 2 => Upto(part.data, q - h) \in Seq(Int)
      BY <2>1 DEF DataIn
    <2>3. h \in Nat /\ e \in Nat
      BY <1>9 DEF Segment
    <2> HIDE DEF h, e, part
    <2>4. p <= e - 2
      BY <1>8, <2>3
    <2> QED BY <1>5, <1>8, <2>2, <2>4 DEF Window
  <1>11. /\ data \in Seq(Int) /\ got \o data = part.data
         /\ e - 1 \in Nat /\ Window(new, text, e - 1, read)
         /\ Find(new, BoundaryEnd) = 1 => j = n
    <2> HIDE DEF text
    <2>1. parts \in Seq(WrittenParts) /\ text = MultipartText(parts)
      BY <1>3 DEF text
    <2> HIDE DEF parts
    <2>2. j \in 1..Len(parts) /\ DataAt(parts, j) <= p /\ p < BoundaryAt(parts, j + 1) - 1
      BY <1>8 DEF n
    <2>3. b # NPos
      BY <1>1 DEF NPos
    <2> HIDE DEF b
    <2>4. b = Find(record, BoundaryBegin)
      BY <1>8
    <2>5. DataEnds(parts, text, j, record, p, read, b)
      BY <1>5, <2>1, <2>2, <2>3, <2>4, DataEndStep, Zenon
    <2> QED BY <2>5 DEF DataEnds, n
  <1>12. HasFile(part) => currentFile # NoPath /\ part.isFile
    <2> SUFFICES ASSUME HasFile(part) PROVE currentFile # NoPath /\ part.isFile
      OBVIOUS
    <2>1. currentFile = uploadedFiles[part.name] /\ currentFile.name = part.fileName
          /\ part.fileName # <<>>
      BY <1>8 DEF FilesBegun, Uploaded, HasFile
    <2> QED BY <2>1 DEF NoPath, HasFile
  <1>13. uploadInfo.isFileData = part.isFile
    BY <1>8 DEF Info
  <1>14. FilesBegun(uploadedFiles, files', parts, j, part.data)
    <2>1. files' = IF HasFile(parts[j]) THEN AddTo(files, uploadedFiles[parts[j].name], data)
                   ELSE files
      <3>1. CASE HasFile(part)
        <4> HIDE DEF data
        <4> QED BY <1>1, <1>8, <1>12, <1>13, <3>1
      <3>2. CASE ~HasFile(part)
        <4> HIDE DEF data
        <4> QED BY <1>1, <1>8, <1>13, <3>2
      <3> QED BY <3>1, <3>2
    <2>2. j \in Nat \ {0}
      BY <1>4, <1>8
    <2> HIDE DEF got, data
    <2>3. FilesBegun(uploadedFiles, files, parts, j, got)
      BY <1>8
    <2> HIDE DEF parts
    <2>4. FilesBegun(uploadedFiles, files', parts, j, got \o data)
      BY <2>1, <2>2, <2>3, FileGrows, Zenon
    <2> QED BY <1>11, <2>4
  <1>15. FieldsBegun(postParameters', parts, j, part.data)
    <2>1. FieldsBegun(IF parts[j].isFile THEN postParameters
                      ELSE AddTo(postParameters, parts[j].name, data), parts, j, got \o data)
      <3> HIDE DEF got, data
      <3>1. /\ parts \in Seq(WrittenParts) /\ got \in Seq(Int) /\ data \in Seq(Int)
            /\ FieldsBegun(postParameters, parts, j, got)
        BY <1>3, <1>8, <1>10, <1>11
      <3>2. j \in 1..Len(parts)
        BY <1>8
      <3> HIDE DEF parts
      <3> QED BY <3>1, <3>2, FieldGrows, Zenon
    <2> HIDE DEF got, data
    <2>2. postParameters' = IF parts[j].isFile THEN postParameters
                            ELSE AddTo(postParameters, parts[j].name, data)
      BY <1>1, <1>8, <1>13
    <2> QED BY <1>11, <2>1, <2>2
  <1>16. FieldsWhole(postParameters', parts, j) /\ FilesWhole(uploadedFiles, files', parts, j)
    <2>1. parts \in Seq(WrittenParts) /\ j \in 1..Len(parts)
      BY <1>3, <1>8
    <2> HIDE DEF parts
    <2> QED BY <1>14, <1>15, <2>1, BegunIsWhole DEF part
  <1>17. CASE Find(new, BoundaryEnd) = 1
    <2>1. pc' = "loaded" /\ j = n
      BY <1>2, <1>11, <1>17
    <2>2. AllLoaded(parts)'
      BY <1>1, <1>6, <1>16, <2>1 DEF AllLoaded
    <2> QED BY <2>1, <2>2 DEF MultipartHolds
  <1>18. CASE Find(new, BoundaryEnd) # 1
    <2>1. pc' = "scan" /\ read' = read /\ record' = new /\ boundaryPos' = 1
      BY <1>2, <1>18
    <2>2. PICK q \in Nat : q = e - 1
      BY <1>11
    <2>3. q + 1 = BoundaryAt(parts, j + 1)
      <3>1. e \in Nat
        BY <1>9 DEF Segment
      <3> HIDE DEF e
      <3>2. q + 1 = e
        BY <2>2, <3>1
      <3> QED BY <3>2 DEF e
    <2>4. AtHead(parts, j, q)'
      BY <1>1, <1>5, <1>6, <1>16, <2>1, <2>3 DEF AtHead
    <2>5. Window(new, text, q, read)
      BY <1>11, <2>2
    <2> HIDE DEF parts, text, n, new
    <2>6. Scanned(parts, text)'
      <3>1. q \in Nat /\ Window(record, text, q, read)'
        BY <1>6, <2>1, <2>5
      <3>2. (j \in 0..Len(parts))' /\ AtHead(parts, j, q)'
        BY <1>5, <1>6, <2>4 DEF n
      <3> QED BY <3>1, <3>2, Zenon DEF Scanned
    <2> QED BY <2>1, <2>6 DEF MultipartHolds, text
  <1> QED BY <1>17, <1>18

\* Where a header is in the record, all parts before it are whole.
LEMMA HeaderIsNext ==
  ASSUME NEW parts \in Seq(WrittenParts), NEW text, text = MultipartText(parts),
         NEW p \in Nat, NEW j \in 0..Len(parts), Window(record, text, p, read),
         AtHead(parts, j, p) \/ InData(parts, j, p),
         pc = "scan", record # <<>>, InPartHeader
  PROVE  /\ p + 1 \in {BoundaryAt(parts, j + 1), BoundaryAt(parts, j + 1) - 1}
         /\ FieldsWhole(postParameters, parts, j) /\ FilesWhole(uploadedFiles, files, parts, j)
  <1>1. CASE AtHead(parts, j, p)
    BY <1>1 DEF AtHead
  <1>2. CASE InData(parts, j, p)
    <2> DEFINE h == DataAt(parts, j)
               e == BoundaryAt(parts, j + 1)
               part == parts[j]
               got == Upto(part.data, p - h)
    <2>1. /\ j \in 1..Len(parts) /\ h <= p /\ p < e - 1
          /\ FieldsBegun(postParameters, parts, j, got)
          /\ FilesBegun(uploadedFiles, files, parts, j, got)
          /\ \/ boundaryPos = Find(record, BoundaryBegin)
             \/ boundaryPos = 1 /\ FindSequence(record, BoundaryWithEndMark) = 1
      BY <1>2 DEF InData
    <2>2. Segment(text, BoundaryAt(parts, j), h, e, part)
      BY <2>1, SegmentIs
    <2>3. boundaryPos = 1 /\ Find(record, HeadersEndMark) # NPos
      BY DEF InPartHeader
    <2>4. e \in Nat
      BY <2>2 DEF Segment
    <2>5. Find(record, BoundaryBegin) # 1
      <3> HIDE DEF h, e, part
      <3>1. /\ read >= e + 1 => Find(record, BoundaryBegin) = e - p
            /\ ~(read >= e + 1) => Find(record, BoundaryBegin) = NPos
        BY <2>1, <2>2, BoundarySeen
      <3>2. e - p # 1 /\ NPos # 1
        BY <2>1, <2>4 DEF NPos
      <3> QED BY <3>1, <3>2
    <2>6. FindSequence(record, BoundaryWithEndMark) = 1
      BY <2>1, <2>3, <2>5
    <2>7. p = e - 2 /\ Upto(part.data, e - 2 - h) = part.data
      BY <2>1, <2>3, <2>6, MarkStays
    <2>8. got = part.data
      BY <2>7
    <2>9. FieldsWhole(postParameters, parts, j) /\ FilesWhole(uploadedFiles, files, parts, j)
      <3> HIDE DEF got
      <3> QED BY <2>1, <2>8, BegunIsWhole
    <2>10. p + 1 = e - 1
      <3> HIDE DEF e
      <3> QED BY <2>4, <2>7
    <2> QED BY <2>9, <2>10
  <1> QED BY <1>1, <1>2

\* What PartHeader does of a header that is read.
HeaderDone(part, new, got) ==
  /\ record' = new /\ boundaryPos' = 1 /\ pc' = "scan" /\ read' = read
  /\ uploadInfo' = Info(part) /\ fieldName' = part.name
  /\ postParameters' = IF part.isFile THEN postParameters
                       ELSE AddTo(postParameters, part.name, got)
  /\ \E path :
       /\ uploadedFiles' = IF part.isFile THEN Put(uploadedFiles, part.name, path)
                           ELSE uploadedFiles
       /\ files' = IF HasFile(part) THEN Put(files, path, got) ELSE files
       /\ HasFile(part) => path.name = part.fileName /\ currentFile' = path
       /\ ~HasFile(part) => currentFile' = NoPath
  /\ UNCHANGED <<context, cut>>

\* The branches of PartHeader for a header that is read.
LEMMA HeaderIsDone ==
  ASSUME PartHeader, NEW part \in WrittenParts,
         LoadHeader(SubSeq(record, BoundOffset + 1, Find(record, HeadersEndMark) - 1)) = Info(part),
         NEW rest, rest = SubSeq(record, Find(record, HeadersEndMark) + 2, Len(record)),
         NEW pos, pos = FindSequence(rest, BoundaryWithEndMark),
         Find(From(rest, pos), BoundaryEnd) # 1
  PROVE  HeaderDone(part, From(rest, pos), Before(rest, pos))
  <1> DEFINE info == Info(part)
             name == DecodeUrl(info.name)
             path == IF info.fileName = <<>> THEN NoPath ELSE UploadPath(info.fileName)
             new == From(rest, pos)
             got == Before(rest, pos)
  <1>1. /\ info.valid = TRUE /\ info.name = part.name /\ info.fileName = part.fileName
        /\ info.isFileData = part.isFile
    BY DEF Info
  <1>2. name = part.name /\ name # Thrown /\ info.valid
    <2>1. part.name \in Seq(NameChars) /\ part.name # <<>>
      BY PartTyped
    <2> DEFINE plain == part.name
    <2> HIDE DEF plain
    <2>2. DecodeUrl(plain) = plain /\ plain # Thrown
      BY <2>1, DecodePlain DEF plain
    <2> QED BY <1>1, <2>2 DEF plain
  <1>3. /\ IF ~info.valid \/ name = Thrown
           THEN /\ pc' = "failed"
                /\ UNCHANGED <<read, parser, loaded, uploads>>
           ELSE /\ Continue(new, 1)
                /\ uploadInfo' = info
                /\ fieldName' = name
                /\ IF info.isFileData
                   THEN /\ currentFile' = path
                        /\ files' = IF path = NoPath THEN files ELSE Put(files, path, got)
                        /\ uploadedFiles' = Put(uploadedFiles, name, path)
                        /\ reused' = (reused \/ name \in DOMAIN uploadedFiles)
                        /\ UNCHANGED postParameters
                   ELSE /\ currentFile' = NoPath
                        /\ postParameters' = AddTo(postParameters, name, got)
                        /\ UNCHANGED <<uploadedFiles, uploads>>
                /\ UNCHANGED <<form, getParameters, cookies>>
        /\ UNCHANGED <<context, cut>>
    BY Zenon DEF PartHeader
  <1>4. /\ Continue(new, 1) /\ uploadInfo' = info /\ fieldName' = part.name
        /\ UNCHANGED <<context, cut>>
    BY <1>2, <1>3, Zenon
  <1>5. record' = new /\ boundaryPos' = 1 /\ pc' = "scan" /\ read' = read
    BY <1>4, Zenon DEF Continue
  <1>6. IF part.isFile
        THEN /\ currentFile' = path
             /\ files' = IF path = NoPath THEN files ELSE Put(files, path, got)
             /\ uploadedFiles' = Put(uploadedFiles, part.name, path)
             /\ postParameters' = postParameters
        ELSE /\ currentFile' = NoPath
             /\ postParameters' = AddTo(postParameters, part.name, got)
             /\ uploadedFiles' = uploadedFiles /\ files' = files
    <2>1. CASE part.isFile
      <3>1. info.isFileData
        BY <1>1, <2>1
      <3> HIDE DEF info, name, path, got, new
      <3> QED BY <1>2, <1>3, <2>1, <3>1
    <2>2. CASE ~part.isFile
      <3>1. ~info.isFileData
        BY <1>1, <2>2
      <3> HIDE DEF info, name, path, got, new
      <3> QED BY <1>2, <1>3, <2>2, <3>1 DEF uploads
    <2> QED BY <2>1, <2>2
  <1>7. /\ HasFile(part) => path.name = part.fileName /\ path # NoPath
        /\ part.isFile /\ ~HasFile(part) => path = NoPath
    <2>1. path = IF part.fileName = <<>> THEN NoPath ELSE UploadPath(part.fileName)
      BY <1>1
    <2> HIDE DEF path
    <2>2. UploadPath(part.fileName).name = part.fileName
      BY DEF UploadPath
    <2>3. NoPath.name = <<>>
      BY DEF NoPath
    <2>4. UploadPath(part.fileName) = NoPath => part.fileName = <<>>
      BY <2>2, <2>3
    <2> QED BY <2>1, <2>2, <2>4 DEF HasFile
  <1> HIDE DEF path, got, new
  <1>8. HasFile(part) => part.isFile
    BY DEF HasFile
  <1>9. \E x :
       /\ uploadedFiles' = IF part.isFile THEN Put(uploadedFiles, part.name, x)
                           ELSE uploadedFiles
       /\ files' = IF HasFile(part) THEN Put(files, x, got) ELSE files
       /\ HasFile(part) => x.name = part.fileName /\ currentFile' = x
       /\ ~HasFile(part) => currentFile' = NoPath
    <2> WITNESS path
    <2>1. CASE part.isFile
      BY <1>6, <1>7, <2>1
    <2>2. CASE ~part.isFile
      BY <1>6, <1>8, <2>2
    <2> QED BY <2>1, <2>2
  <1>10. postParameters' = IF part.isFile THEN postParameters
                           ELSE AddTo(postParameters, part.name, got)
    BY <1>6
  <1> QED BY <1>4, <1>5, <1>9, <1>10, Zenon DEF HeaderDone, new, got

\* The header of a part, and its data as far as they have come.
LEMMA HeaderScanned ==
  ASSUME HandlerInv, MultipartInv, PartHeader, UNCHANGED scriptVars
  PROVE  MultipartInv'
  <1> DEFINE parts == context.parts
             text == MultipartText(parts)
             n == Len(parts)
             end == Find(record, HeadersEndMark)
             rest == SubSeq(record, end + 2, Len(record))
             pos == FindSequence(rest, BoundaryWithEndMark)
             new == From(rest, pos)
             got == Before(rest, pos)
  <1>1. /\ pc = "scan" /\ record # <<>> /\ InPartHeader /\ end # NPos
        /\ UNCHANGED <<context, cut>>
    BY Zenon DEF PartHeader, Scanning, InPartHeader
  <1> SUFFICES ASSUME MultipartWritten PROVE MultipartHolds(parts)'
    BY <1>1 DEF MultipartInv, MultipartWritten, body
  <1>2. parts \in Seq(WrittenParts)
    BY DEF MultipartWritten
  <1>3. n \in Nat
    BY <1>2, LenProperties
  <1>4. PICK p \in Nat, j \in 0..n :
          Window(record, text, p, read) /\ (AtHead(parts, j, p) \/ InData(parts, j, p))
    BY <1>1 DEF MultipartInv, MultipartHolds, Scanned
  <1>5. parts' = parts /\ text' = text
    BY <1>1
  <1>6. /\ p + 1 \in {BoundaryAt(parts, j + 1), BoundaryAt(parts, j + 1) - 1}
        /\ FieldsWhole(postParameters, parts, j) /\ FilesWhole(uploadedFiles, files, parts, j)
    <2> HIDE DEF text
    <2>1. parts \in Seq(WrittenParts) /\ text = MultipartText(parts)
      BY <1>2 DEF text
    <2> HIDE DEF parts
    <2>2. j \in 0..Len(parts)
      BY DEF n
    <2> QED BY <1>1, <1>4, <2>1, <2>2, HeaderIsNext
  <1> DEFINE k == j + 1
             h == DataAt(parts, k)
             e == BoundaryAt(parts, k + 1)
             part == parts[k]
  <1>7. /\ k \in 1..n
        /\ LoadHeader(SubSeq(record, BoundOffset + 1, end - 1)) = Info(part)
        /\ Begun(new, got, text, h, e, part.data, read)
    <2> HIDE DEF text
    <2>1. parts \in Seq(WrittenParts) /\ text = MultipartText(parts)
      BY <1>2 DEF text
    <2> HIDE DEF parts, k
    <2>2. /\ j \in 0..Len(parts) /\ k = j + 1
          /\ p + 1 \in {BoundaryAt(parts, k), BoundaryAt(parts, k) - 1}
      BY <1>6 DEF n, k
    <2> HIDE DEF pos
    <2>3. pos = FindSequence(rest, BoundaryWithEndMark)
      BY DEF pos
    <2> HIDE DEF rest
    <2>4. rest = SubSeq(record, end + 2, Len(record))
      BY DEF rest
    <2> HIDE DEF end
    <2>5. end = Find(record, HeadersEndMark) /\ end # NPos
      BY <1>1 DEF end
    <2>6. Window(record, text, p, read)
      BY <1>4
    <2>7. HeaderTold(parts, text, k, record, end, rest, pos, read)
      BY <2>1, <2>2, <2>3, <2>4, <2>5, <2>6, HeaderStep, Zenon
    <2> QED BY <2>7 DEF HeaderTold, n, new, got, h, e, part
  <1> HIDE DEF n, rest, pos, end, new, got, k, h, e, part, parts, text
  <1>8. PICK q \in Nat :
          /\ h <= q /\ q < e - 1 /\ Window(new, text, q, read)
          /\ got = Upto(part.data, q - h) /\ got \in Seq(Int)
          /\ (new = <<>> \/ FindSequence(new, BoundaryWithEndMark) = 1)
          /\ Find(new, BoundaryEnd) # 1
    BY <1>7 DEF Begun
  <1>9. part \in WrittenParts
    BY <1>2, <1>7, ElementOfSeq DEF n, part
  <1>10. HeaderDone(part, new, got)
    <2>1. LoadHeader(SubSeq(record, BoundOffset + 1, Find(record, HeadersEndMark) - 1)) = Info(part)
      BY <1>7 DEF end
    <2>2. rest = SubSeq(record, Find(record, HeadersEndMark) + 2, Len(record))
      BY DEF rest, end
    <2>3. pos = FindSequence(rest, BoundaryWithEndMark)
      BY DEF pos
    <2>4. Find(From(rest, pos), BoundaryEnd) # 1
      BY <1>8 DEF new
    <2> QED BY <1>9, <2>1, <2>2, <2>3, <2>4, HeaderIsDone, Zenon DEF new, got
  <1>11. PICK path :
       /\ uploadedFiles' = IF part.isFile THEN Put(uploadedFiles, part.name, path)
                           ELSE uploadedFiles
       /\ files' = IF HasFile(part) THEN Put(files, path, got) ELSE files
       /\ HasFile(part) => path.name = part.fileName /\ currentFile' = path
       /\ ~HasFile(part) => currentFile' = NoPath
    BY <1>10, Zenon DEF HeaderDone
  <1>12. /\ record' = new /\ boundaryPos' = 1 /\ pc' = "scan" /\ read' = read
         /\ uploadInfo' = Info(part) /\ fieldName' = part.name
         /\ postParameters' = IF part.isFile THEN postParameters
                              ELSE AddTo(postParameters, part.name, got)
    BY <1>10, Zenon DEF HeaderDone
  <1>13. FieldsBegun(postParameters', parts, k, got)
    <2>1. j \in Nat /\ k = j + 1 /\ k \in 1..Len(parts)
      BY <1>3, <1>7 DEF k, n
    <2>2. FieldsBegun(IF parts[k].isFile THEN postParameters
                      ELSE AddTo(postParameters, parts[k].name, got), parts, k, got)
      BY <1>2, <1>6, <2>1, FieldBegins, Zenon
    <2> QED BY <1>12, <2>2 DEF part
  <1>14. FilesBegun(uploadedFiles', files', parts, k, got)
    <2>1. j \in Nat /\ k = j + 1
      BY <1>3 DEF k
    <2>2. /\ uploadedFiles' = IF parts[k].isFile THEN Put(uploadedFiles, parts[k].name, path)
                              ELSE uploadedFiles
          /\ files' = IF HasFile(parts[k]) THEN Put(files, path, got) ELSE files
          /\ HasFile(parts[k]) => path.name = parts[k].fileName
      BY <1>11, Zenon DEF part
    <2> QED BY <1>6, <2>1, <2>2, FileBegins, Zenon
  <1>15. HasFile(part) => currentFile' = uploadedFiles'[part.name]
    <2> SUFFICES ASSUME HasFile(part) PROVE currentFile' = uploadedFiles'[part.name]
      OBVIOUS
    <2>1. uploadedFiles' = Put(uploadedFiles, part.name, path) /\ currentFile' = path
      BY <1>11 DEF HasFile
    <2> QED BY <2>1 DEF Put
  <1>16. /\ k \in 1..Len(parts) /\ DataAt(parts, k) <= q /\ q < BoundaryAt(parts, k + 1) - 1
         /\ got = Upto(parts[k].data, q - DataAt(parts, k))
    BY <1>7, <1>8 DEF n, h, e, part
  <1>17. InData(parts, k, q)'
    <2>1. /\ uploadInfo' = Info(parts[k]) /\ fieldName' = parts[k].name
          /\ currentFile' = IF HasFile(parts[k]) THEN uploadedFiles'[parts[k].name] ELSE NoPath
      BY <1>11, <1>12, <1>15 DEF part
    <2>2. record' = <<>> \/ (boundaryPos' = 1 /\ FindSequence(record', BoundaryWithEndMark) = 1)
      BY <1>8, <1>12
    <2>3. k' = k /\ parts' = parts
      BY <1>5 DEF k
    <2> QED BY <1>13, <1>14, <1>16, <2>1, <2>2, <2>3 DEF InData
  <1>18. Scanned(parts, text)'
    <2>1. q \in Nat /\ Window(record, text, q, read)'
      BY <1>5, <1>8, <1>12
    <2>2. k' = k
      BY DEF k
    <2>3. (k \in 0..Len(parts))' /\ InData(parts, k, q)'
      BY <1>3, <1>5, <1>7, <1>17, <2>2 DEF n
    <2> QED BY <2>1, <2>3, Zenon DEF Scanned
  <1> QED BY <1>12, <1>18 DEF MultipartHolds, text
-----------------------------------------------------------------------------
(* What is loaded of a multipart body. *)

\* The other steps.
LEMMA MultipartStays ==
  ASSUME HandlerInv, MultipartInv, [PythonNext]_allVars,
         ~(Parse /\ (LoadHeaderParams \/ ReadPart \/ PartHeader \/ DataEnd \/ FileData \/ NeedMore))
  PROVE  MultipartInv'
  <1> DEFINE parts == context.parts
             held == <<context, read, record, boundaryPos, postParameters, uploadInfo, fieldName,
                       currentFile>>
  <1> USE DEF scriptVars, request, output
  <1> SUFFICES ASSUME MultipartWritten' PROVE MultipartHolds(parts)'
    BY DEF MultipartInv
  <1>1. ASSUME UNCHANGED context
        PROVE  MultipartWritten /\ MultipartHolds(parts) /\ parts' = parts
    <2>1. MultipartWritten
      BY <1>1 DEF MultipartWritten, body
    <2> QED BY <1>1, <2>1 DEF MultipartInv
  <1>2. ASSUME UNCHANGED <<held, uploadedFiles, files>>, UNCHANGED <<pc, requestRaw>>,
               UNCHANGED cut \/ pc # "loaded", script = "destroyed" => script' = "destroyed"
        PROVE  MultipartHolds(parts)'
    <2>1. MultipartHolds(parts) /\ parts' = parts
      BY <1>1, <1>2
    <2>2. ASSUME NEW q, NEW j PROVE AtHead(parts, j, q) => AtHead(parts, j, q)'
      BY <1>2, <2>1 DEF AtHead
    <2>3. ASSUME NEW q, NEW j PROVE InData(parts, j, q) => InData(parts, j, q)'
      BY <1>2, <2>1 DEF InData
    <2>4. Scanned(parts, MultipartText(parts)) => Scanned(parts, MultipartText(parts))'
      <3> SUFFICES ASSUME Scanned(parts, MultipartText(parts))
                   PROVE  Scanned(parts, MultipartText(parts))'
        OBVIOUS
      <3>1. PICK q \in Nat, j \in 0..Len(parts) :
              /\ Window(record, MultipartText(parts), q, read)
              /\ AtHead(parts, j, q) \/ InData(parts, j, q)
        BY DEF Scanned
      <3>2. Window(record, MultipartText(parts), q, read)'
        BY <1>2, <2>1, <3>1
      <3>3. (j \in 0..Len(parts))' /\ (AtHead(parts, j, q) \/ InData(parts, j, q))'
        BY <2>1, <2>2, <2>3, <3>1
      <3> HIDE DEF parts
      <3> QED BY <3>2, <3>3, Zenon DEF Scanned
    <2>5. AllLoaded(parts) => AllLoaded(parts)'
      BY <1>2, <2>1 DEF AllLoaded
    <2> HIDE DEF parts
    <2> QED BY <1>2, <2>1, <2>4, <2>5 DEF MultipartHolds
  <1> USE DEF vars, parser, loaded, uploads
  <1>3. CASE UNCHANGED allVars
    BY <1>2, <1>3 DEF allVars
  <1>4. CASE Parse
    <2>1. (ReadForm \/ EndForm) /\ script = "parsing"
      BY <1>4 DEF Parse, ParserStep
    <2>2. pc = "readForm" /\ context' = context
      BY <2>1 DEF ReadForm, EndForm
    <2> QED BY <1>1, <2>2 DEF MultipartHolds
  <1>5. CASE InitHandler \/ NotRun \/ Start \/ ScriptEnds \/ ScriptFails \/ Ask \/ Loaded
    <2>1. UNCHANGED vars
      BY <1>5, Zenon DEF InitHandler, NotRun, Start, ScriptEnds, ScriptFails, Ask, Loaded
    <2>2. script # "destroyed"
      BY <1>5 DEF InitHandler, NotRun, Start, ScriptEnds, ScriptFails, Ask, Loaded
    <2>3. UNCHANGED requestRaw
      BY <1>5, Zenon DEF InitHandler, NotRun, Start, ScriptEnds, ScriptFails, Ask, Loaded
    <2> QED BY <1>2, <2>1, <2>2, <2>3
  <1>6. CASE Prints \/ Writes \/ OtherStarts \/ OtherEnds \/ OtherPrints
    <2>1. UNCHANGED <<vars, script, request>>
      BY <1>6, Zenon DEF Prints, Writes, OtherStarts, OtherEnds, OtherPrints
    <2> QED BY <1>2, <2>1
  <1>7. CASE Failed
    <2>1. pc = "failed" /\ pc' = "idle" /\ UNCHANGED <<context, read, postParameters, requestRaw>>
      BY <1>7 DEF Failed
    <2> HIDE DEF parts
    <2> QED BY <1>1, <2>1 DEF MultipartHolds
  <1>8. CASE RawRead
    <2>1. /\ UNCHANGED <<context, pc, postParameters>> /\ requestRaw' = TRUE
          /\ script = "running" /\ ~requestLoaded
      BY <1>8 DEF RawRead
    <2>2. pc = "idle"
      BY <2>1 DEF HandlerInv, ParserInv
    <2> HIDE DEF parts
    <2> QED BY <1>1, <2>1, <2>2 DEF MultipartHolds
  <1>9. CASE Release
    <2>1. /\ UNCHANGED <<context, read, pc, cut, postParameters, requestRaw>>
          /\ script = "returned" /\ script' = "destroyed"
      BY <1>9 DEF Release
    <2>2. pc \in {"idle", "loaded"}
      BY <2>1 DEF HandlerInv, ParserInv
    <2>3. parts' = parts /\ MultipartHolds(parts)
      BY <1>1, <2>1
    <2> HIDE DEF parts
    <2>4. AllLoaded(parts) => AllLoaded(parts)'
      BY <2>1, <2>3 DEF AllLoaded
    <2> QED BY <2>1, <2>2, <2>3, <2>4 DEF MultipartHolds
  <1>10. CASE ClientLeaves
    <2>1. /\ UNCHANGED <<held, uploadedFiles, files>> /\ UNCHANGED <<pc, requestRaw>>
          /\ pc # "loaded" /\ UNCHANGED script
      BY <1>10 DEF ClientLeaves, ClientGone
    <2> QED BY <1>2, <2>1
  <1> QED BY <1>3, <1>4, <1>5, <1>6, <1>7, <1>8, <1>9, <1>10 DEF PythonNext, Handler

\* What has been scanned of a multipart body is whole after every step.
THEOREM MultipartIsInvariant == PythonSpec => []MultipartInv
  <1>1. PythonInit => MultipartInv
    <2> SUFFICES ASSUME PythonInit PROVE MultipartInv
      OBVIOUS
    <2>1. postParameters = <<>> /\ pc = "idle" /\ read = 0
      BY DEF PythonInit, Init
    <2> QED BY <2>1 DEF MultipartInv, MultipartHolds
  <1>2. HandlerInv /\ MultipartInv /\ [PythonNext]_allVars => MultipartInv'
    <2> SUFFICES ASSUME HandlerInv, MultipartInv, [PythonNext]_allVars PROVE MultipartInv'
      OBVIOUS
    <2>1. CASE Parse /\ (LoadHeaderParams \/ ReadPart \/ PartHeader \/ DataEnd \/ FileData \/ NeedMore)
      <3>1. script = "parsing" /\ UNCHANGED scriptVars
        BY <2>1 DEF Parse
      <3> QED BY <2>1, <3>1, MultipartBegins, MultipartIsRead, HeaderScanned, DataEndScanned,
                 FileDataScanned, MultipartWaits, Zenon
    <2> QED BY <2>1, MultipartStays
  <1> QED BY <1>1, <1>2, HandlerInvariant, PTL DEF PythonSpec

\* A loaded request has all the parts of its body.
LEMMA LoadedWhole ==
  ASSUME HandlerInv, MultipartInv, requestLoaded, MultipartWritten, ~cut
  PROVE  AllLoaded(context.parts)
  <1>1. pc = "loaded"
    BY DEF HandlerInv, ParserInv
  <1> QED BY <1>1 DEF MultipartInv, MultipartHolds

\* loadMultipartFormData, of the fields: for bodies of any parts that are written as a
\* browser writes them, whatever the reads cut them into, each field is loaded with all of
\* its data.
THEOREM MultipartIsLoaded == PythonSpec => []MultipartLoaded
  <1>1. HandlerInv /\ MultipartInv => MultipartLoaded
    <2> SUFFICES ASSUME HandlerInv, MultipartInv, requestLoaded, MultipartWritten, ~cut
                 PROVE  postParameters = FieldsSent(context.parts)
      BY DEF MultipartLoaded
    <2>1. postParameters = FieldsSent(Upto(context.parts, Len(context.parts)))
      BY LoadedWhole DEF AllLoaded, FieldsWhole
    <2>2. Upto(context.parts, Len(context.parts)) = context.parts
      BY UptoWhole DEF MultipartWritten
    <2> QED BY <2>1, <2>2
  <1> QED BY <1>1, HandlerInvariant, MultipartIsInvariant, PTL

\* loadMultipartFormData, of the files: an upload whose names no other part has is in its
\* file with all of its data, from the time the request is loaded until it is destroyed.
THEOREM UploadsAreComplete == PythonSpec => []UploadsComplete
  <1>1. HandlerInv /\ MultipartInv => UploadsComplete
    <2> DEFINE parts == context.parts
               n == Len(parts)
               HasName(part) == part.isFile /\ part.fileName # <<>>
               Alone(part) == \A q \in Range(parts) \ {part} :
                                q.fileName # part.fileName /\ q.name # part.name
    <2> SUFFICES ASSUME HandlerInv, MultipartInv, requestLoaded, script # "destroyed",
                        MultipartWritten, ~cut, NEW part \in Range(parts), HasName(part), Alone(part)
                 PROVE  /\ uploadedFiles[part.name] \in DOMAIN files
                        /\ files[uploadedFiles[part.name]] = part.data
      BY DEF UploadsComplete
    <2>1. FilesWhole(uploadedFiles, files, parts, n) /\ parts \in Seq(WrittenParts)
      BY LoadedWhole DEF AllLoaded, MultipartWritten
    <2>2. n \in Nat /\ DOMAIN parts = 1..n
      BY <2>1, LenProperties
    <2> HIDE DEF parts, n
    <2> DEFINE at == {i \in 1..n : parts[i] = part}
               i == Max(at)
    <2>3. at # {} /\ at \subseteq Int /\ (\A k \in at : k <= n) /\ n \in Int
      BY <2>2 DEF Range
    <2>4. i \in at /\ \A k \in at : k <= i
      <3> HIDE DEF at
      <3>1. Max(at) \in at /\ \A k \in at : Max(at) >= k
        BY <2>3, MaxIsGreatest
      <3> QED BY <2>3, <3>1
    <2> HIDE DEF i
    <2>5. LastOfNames(parts, i, n)
      <3> SUFFICES ASSUME NEW k \in i + 1..n
                   PROVE  parts[k].name # parts[i].name /\ parts[k].fileName # parts[i].fileName
        BY DEF LastOfNames
      <3>1. k \in 1..n /\ k > i /\ k \notin at
        BY <2>2, <2>4
      <3>2. parts[k] \in Range(parts) \ {part}
        BY <2>2, <3>1 DEF Range
      <3> QED BY <2>4, <3>2
    <2>6. i \in 1..n /\ parts[i] = part /\ HasFile(part)
      BY <2>4 DEF HasFile
    <2>7. Uploaded(uploadedFiles, files, part, part.data)
      BY <2>1, <2>5, <2>6 DEF FilesWhole
    <2> QED BY <2>7 DEF Uploaded
  <1> QED BY <1>1, HandlerInvariant, MultipartIsInvariant, PTL
=============================================================================
