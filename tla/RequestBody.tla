---------------------------- MODULE RequestBody ----------------------------
(***************************************************************************)
(* The loading of a request's parameters into its HttpContext: the query   *)
(* string, the cookies and the body, form-encoded or multipart, and the    *)
(* uploaded files from their creation to ~HttpContext.                     *)
(*                                                                         *)
(* The body arrives in parts: HttpRequestStream::read returns what is      *)
(* there, and nothing once the body or the connection has ended.  In a     *)
(* multipart body a line end, the two dashes, the boundary, a word of a    *)
(* part's header and a data byte are one code each.                        *)
(***************************************************************************)
EXTENDS TextUtil

CONSTANTS
  Contexts,     \* the requests considered, with the upload names in use before them
  BufferSize    \* the longest part of the body one read returns

ASSUME RequestBodyAssumption ==
  /\ BufferSize \in Nat \ {0}
  /\ \A sent \in Contexts : sent.body \in Seq(Int)

VARIABLES
  context,      \* what the client sends
  read,         \* bytes of the body that read() has returned
  cut,          \* the client has gone: nothing more arrives
  pc,           \* where the parser is
  more,         \* readBytes > 0
  getParameters, cookies, postParameters,
  form,         \* parsePostParams: held (what its stream has taken), key, val, keyLoaded
  record, boundaryPos,
  uploadInfo, fieldName, currentFile,
  uploadedFiles,\* field name -> path, NoPath when the part had no file name
  files,        \* the directory of uploads: path -> content
  reused        \* history: an upload came whose field had one already

body    == context.body
parser  == <<more, form, record, boundaryPos, uploadInfo, fieldName, currentFile>>
loaded  == <<getParameters, cookies, postParameters, uploadedFiles>>
uploads == <<files, reused>>
vars    == <<context, read, cut, pc, parser, loaded, uploads>>

LineEnd == 10   Dashes == 45   Boundary == 66
FormData == 300   NameWord == 301   FilenameWord == 302
Data == {97, 98}

\* A path is a file name and the number of '$' put before it.
NoPath  == [name |-> <<>>, prefix |-> -1]
NoPart  == [valid |-> TRUE, name |-> <<>>, fileName |-> <<>>, isFileData |-> FALSE]
NewForm == [held |-> 0, key |-> <<>>, val |-> <<>>, keyLoaded |-> FALSE]
Foreign == <<0>>   \* content of a file of another request

Init ==
  /\ context \in Contexts
  /\ read = 0 /\ cut = FALSE
  /\ pc = "idle" /\ more = TRUE
  /\ getParameters = <<>> /\ cookies = <<>> /\ postParameters = <<>>
  /\ form = NewForm
  /\ record = <<>> /\ boundaryPos = NPos
  /\ uploadInfo = NoPart /\ fieldName = <<>> /\ currentFile = NoPath
  /\ uploadedFiles = <<>>
  /\ files = [path \in context.taken |-> Foreign] /\ reused = FALSE
-----------------------------------------------------------------------------
(* Helpers. *)

\* map[key] = value
Put(map, key, value) ==
  [k \in {key} \cup DOMAIN map |-> IF k = key THEN value ELSE map[k]]

\* PostParameters[key] += value
AddTo(map, key, value) ==
  Put(map, key, IF key \in DOMAIN map THEN map[key] \o value ELSE value)

\* HttpRequestStream::read, when it returns bytes.
Arrives(bytes) ==
  /\ ~cut
  /\ bytes \in 1..(Len(body) - read)
  /\ bytes <= BufferSize
  /\ read' = read + bytes

Arrived == SubSeq(body, read + 1, read')
AtEnd   == cut \/ read = Len(body)

\* The key and the value of a pair: what is before the first '=' and what follows it.
PairKey(pair) == DecodeUrl(Before(pair, Find(pair, <<Equals>>)))
PairValue(pair) ==
  LET eq == Find(pair, <<Equals>>) IN DecodeUrl(From(pair, IF eq = NPos THEN NPos ELSE eq + 1))

\* The pairs of a query string or of the cookies, and whether all could be decoded:
\* the first that cannot throws.  Of two with one key the last one counts.
Pairs(map, text, delimiter) ==
  LET pairs  == IF text = <<>> THEN <<>> ELSE Split(text, delimiter)
      keys   == [i \in DOMAIN pairs |-> PairKey(pairs[i])]
      values == [i \in DOMAIN pairs |-> PairValue(pairs[i])]
      thrown == {i \in DOMAIN pairs : Thrown \in {keys[i], values[i]}}
      put    == {i \in DOMAIN pairs : \A j \in thrown : i < j}
      At(k)  == {i \in put : keys[i] = k}
  IN [map |-> [k \in DOMAIN map \cup {keys[i] : i \in put} |->
                 IF At(k) = {} THEN map[k] ELSE values[Max(At(k))]],
      ok  |-> thrown = {}]
-----------------------------------------------------------------------------
(* RequestWrapper::processRequest, up to the body: parseQueryStringParams and *)
(* parseCookies; the first that throws leaves the rest.                       *)

LoadHeaderParams ==
  /\ pc = "idle"
  /\ LET query  == Pairs(getParameters, context.query, Amp)
         cookie == Pairs(cookies, context.cookies, Semicolon) IN
     /\ getParameters' = query.map
     /\ cookies' = IF query.ok THEN cookie.map ELSE cookies
     /\ pc' = IF ~(query.ok /\ cookie.ok) THEN "failed"
              ELSE IF context.kind = "multipart" THEN "readPart"
              ELSE IF Len(body) = 0 THEN "loaded" ELSE "readForm"
  /\ more' = TRUE
  /\ form' = NewForm
  /\ record' = <<>> /\ boundaryPos' = NPos
  /\ uploadInfo' = NoPart /\ fieldName' = <<>> /\ currentFile' = NoPath
  /\ UNCHANGED <<context, read, cut, postParameters, uploadedFiles, uploads>>
-----------------------------------------------------------------------------
(* parsePostParams. *)

\* Faulty: keyLoaded is not reset.
NextPairKeepsLoaded(acc) == [acc EXCEPT !.key = <<>>, !.val = <<>>]

NextPair(acc) == [acc EXCEPT !.key = <<>>, !.val = <<>>, !.keyLoaded = FALSE]

PutForm(acc) ==
  LET key == DecodeUrl(acc.key)
      val == DecodeUrl(acc.val)
  IN IF Thrown \in {key, val} THEN [acc EXCEPT !.ok = FALSE]
     ELSE [acc EXCEPT !.params = Put(@, key, val)]

\* One character.  An '&' without a key before it is a character like others.
FormChar(acc, code) ==
  CASE ~acc.ok -> acc
    [] acc.ok /\ code = Amp /\ acc.key # <<>> -> NextPair(PutForm(acc))
    [] acc.ok /\ code = Equals -> [acc EXCEPT !.keyLoaded = TRUE]
    [] OTHER -> IF acc.keyLoaded THEN [acc EXCEPT !.val = Append(@, code)]
                ELSE [acc EXCEPT !.key = Append(@, code)]

\* The end of the first part read sets the stream's eof bit, which nothing clears:
\* later parts are not written to it.
ReadForm ==
  /\ pc = "readForm"
  /\ \E bytes \in 1..BufferSize : Arrives(bytes)
  /\ LET start == [key |-> form.key, val |-> form.val, keyLoaded |-> form.keyLoaded,
                   params |-> postParameters, ok |-> TRUE]
         end   == IF form.held > 0 THEN start ELSE Scan(FormChar, start, Arrived) IN
     /\ form' = [held |-> IF form.held > 0 THEN form.held ELSE Len(Arrived),
                 key |-> end.key, val |-> end.val, keyLoaded |-> end.keyLoaded]
     /\ postParameters' = end.params
     /\ pc' = IF end.ok THEN "readForm" ELSE "failed"
  /\ UNCHANGED <<context, cut, more, record, boundaryPos, uploadInfo, fieldName,
                 currentFile, getParameters, cookies, uploadedFiles, uploads>>

EndForm ==
  /\ pc = "readForm" /\ AtEnd
  /\ LET end == PutForm([key |-> form.key, val |-> form.val, params |-> postParameters,
                         ok |-> TRUE]) IN
     IF form.key = <<>> THEN pc' = "loaded" /\ UNCHANGED postParameters
     ELSE /\ postParameters' = end.params
          /\ pc' = IF end.ok THEN "loaded" ELSE "failed"
  /\ UNCHANGED <<context, read, cut, parser, getParameters, cookies, uploadedFiles,
                 uploads>>
-----------------------------------------------------------------------------
(* loadMultipartFormData.  "scan" is the loop over what has been read. *)

BoundaryBegin == <<Dashes, Boundary>>
BoundaryWithEndMark == <<LineEnd>> \o BoundaryBegin
BoundaryEnd == BoundaryBegin \o <<Dashes>>
HeadersEndMark == <<LineEnd, LineEnd>>
BoundOffset == Len(BoundaryBegin) + 1

ReadPart ==
  /\ pc = "readPart"
  /\ \/ \E bytes \in 1..BufferSize :
          /\ Arrives(bytes)
          /\ more' = TRUE
          /\ record' = record \o Arrived
     \/ AtEnd /\ more' = FALSE /\ UNCHANGED <<read, record>>
  /\ boundaryPos' = Find(record', BoundaryBegin)
  /\ pc' = "scan"
  /\ UNCHANGED <<context, cut, form, uploadInfo, fieldName, currentFile, loaded, uploads>>

\* Faulty: what follows the end mark stays in the connection.
ContinueKeepsRest(rest, pos) ==
  /\ record' = rest
  /\ boundaryPos' = pos
  /\ pc' = IF Find(rest, BoundaryEnd) = 1 THEN "loaded" ELSE "scan"
  /\ UNCHANGED <<more, read>>

\* What follows an iteration: the end mark swallows the rest of the body.
Continue(rest, pos) ==
  /\ record' = rest
  /\ boundaryPos' = pos
  /\ IF Find(rest, BoundaryEnd) = 1
     THEN /\ more' = FALSE
          /\ read' = IF cut \/ ~more THEN read ELSE Len(body)
          /\ pc' = "loaded"
     ELSE pc' = "scan" /\ UNCHANGED <<more, read>>

\* Faulty: an unterminated body is waited for although nothing more comes.
WaitOn ==
  /\ pc' = "readPart"
  /\ UNCHANGED <<more, read, record, boundaryPos>>

\* The break: the rest of the record waits for the next read.
Wait ==
  /\ pc' = IF more THEN "readPart" ELSE "loaded"
  /\ UNCHANGED <<more, read, record, boundaryPos>>

\* UploadFileInfo::loadHeader: its lines are one Content-Disposition each, or none.
LoadHeader(header) ==
  LET lines == Split(header, LineEnd)
      whole == {i \in DOMAIN lines : lines[i] # <<>>}
      disposition == lines[Max(whole)]
      pairs == ParseKeyValuePairs(disposition)
      Value(word) == pairs[<<word>>]
  IN IF whole = {} THEN NoPart
     ELSE IF disposition[1] # FormData \/ <<NameWord>> \notin DOMAIN pairs
     THEN [NoPart EXCEPT !.valid = FALSE]
     ELSE [valid      |-> TRUE,
           name       |-> Value(NameWord),
           fileName   |-> IF <<FilenameWord>> \in DOMAIN pairs THEN Value(FilenameWord)
                          ELSE <<>>,
           isFileData |-> <<FilenameWord>> \in DOMAIN pairs]

\* The search for a name leaves one '$' more than the name it found unused.
UploadPath(name) ==
  LET free == {n \in 0..Cardinality(DOMAIN files) : [name |-> name, prefix |-> n]
                                                       \notin DOMAIN files}
  IN [name |-> name, prefix |-> Min(free) + 1]

InPartHeader == boundaryPos = 1 /\ Find(record, HeadersEndMark) # NPos
AtBoundary   == ~InPartHeader /\ fieldName # <<>> /\ boundaryPos > 1
\* Faulty: a beginning of a boundary at the end of what was read is written to the file.
InFileDataWhole == /\ ~InPartHeader /\ ~AtBoundary
                   /\ uploadInfo.isFileData /\ currentFile # NoPath
                   /\ Find(record, BoundaryBegin) = NPos
InFileData   == /\ ~InPartHeader /\ ~AtBoundary
                /\ uploadInfo.isFileData /\ currentFile # NoPath
                /\ FindSequence(record, BoundaryWithEndMark) = NPos
                /\ FindSequence(record, BoundaryBegin) = NPos
Scanning     == pc = "scan" /\ record # <<>>

\* A complete header of a part, and the data after it as far as it has come.
PartHeader ==
  /\ Scanning /\ InPartHeader
  /\ LET endPos == Find(record, HeadersEndMark)
         info   == LoadHeader(SubSeq(record, BoundOffset + 1, endPos - 1))
         rest   == SubSeq(record, endPos + 2, Len(record))
         pos    == FindSequence(rest, BoundaryWithEndMark)
         name   == DecodeUrl(info.name)
         path   == IF info.fileName = <<>> THEN NoPath ELSE UploadPath(info.fileName) IN
     IF ~info.valid \/ name = Thrown
     THEN /\ pc' = "failed"
          /\ UNCHANGED <<read, parser, loaded, uploads>>
     ELSE /\ Continue(From(rest, pos), 1)
          /\ uploadInfo' = info
          /\ fieldName' = name
          /\ IF info.isFileData
             THEN /\ currentFile' = path
                  /\ files' = IF path = NoPath THEN files
                              ELSE Put(files, path, Before(rest, pos))
                  /\ uploadedFiles' = Put(uploadedFiles, name, path)
                  /\ reused' = (reused \/ name \in DOMAIN uploadedFiles)
                  /\ UNCHANGED postParameters
             ELSE /\ currentFile' = NoPath
                  /\ postParameters' = AddTo(postParameters, name, Before(rest, pos))
                  /\ UNCHANGED <<uploadedFiles, uploads>>
          /\ UNCHANGED <<form, getParameters, cookies>>
  /\ UNCHANGED <<context, cut>>

\* The boundary after the data of a part, when they came in later.
DataEnd ==
  /\ Scanning /\ AtBoundary
  /\ LET data == SubSeq(record, 1, boundaryPos - 2) IN
     IF uploadInfo.isFileData
     THEN /\ files' = IF currentFile = NoPath THEN files
                      ELSE AddTo(files, currentFile, data)
          /\ UNCHANGED postParameters
     ELSE postParameters' = AddTo(postParameters, fieldName, data) /\ UNCHANGED files
  /\ Continue(From(record, boundaryPos), 1)
  /\ UNCHANGED <<context, cut, form, uploadInfo, fieldName, currentFile, getParameters,
                 cookies, uploadedFiles, reused>>

\* Data of a file without any beginning of a boundary.
FileData ==
  /\ Scanning /\ InFileData
  /\ files' = AddTo(files, currentFile, record)
  /\ Continue(<<>>, boundaryPos)
  /\ UNCHANGED <<context, cut, form, uploadInfo, fieldName, currentFile, loaded, reused>>

NeedMore ==
  /\ pc = "scan"
  /\ record = <<>> \/ ~(InPartHeader \/ AtBoundary \/ InFileData)
  /\ Wait
  /\ UNCHANGED <<context, cut, form, uploadInfo, fieldName, currentFile, loaded, uploads>>
-----------------------------------------------------------------------------
(* Around the parser. *)

\* The client closes the connection, or the time to receive is over.
ClientGone ==
  /\ ~cut /\ pc \in {"readForm", "readPart"}
  /\ cut' = TRUE
  /\ UNCHANGED <<context, read, pc, parser, loaded, uploads>>

\* processRequest from its first call to its return or exception.
ParserStep ==
  \/ LoadHeaderParams \/ ReadForm \/ EndForm \/ ReadPart \/ PartHeader \/ DataEnd
  \/ FileData \/ NeedMore
=============================================================================
