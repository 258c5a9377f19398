--------------------------- MODULE PythonHandler ---------------------------
(***************************************************************************)
(* The Python handler: processHandlerRequest runs a script for a request,  *)
(* and the script uses the request and the response through the wrappers.  *)
(* Other workers run scripts in the same interpreter, whose sys.stdout is  *)
(* replaced for each of them; they are one process, `other`.               *)
(***************************************************************************)
EXTENDS RequestBody

CONSTANT MaxPrints     \* bound: what each side prints

VARIABLES
  script,        \* where the handler is
  requestLoaded, \* requestLoaded_
  requestRaw,    \* requestReadInRawForm_
  rawData,       \* history: what rawRead has returned
  retried,       \* history: the request was asked for again after a failure
  stdout,        \* whose wrapper sys.stdout refers to; "gone" when it is destroyed
  other,         \* is a script of another request running?
  overlapped,    \* history: a script ran while this one did
  answer,        \* what this response is made of: printed, foreign, and its end
  strayed        \* what this script printed and another response took

NoValue == <<0>>   \* NULL

request == <<requestLoaded, requestRaw, rawData, retried>>
output  == <<stdout, other, overlapped, answer, strayed>>
scriptVars == <<script, request, output>>
allVars    == <<vars, scriptVars>>

PythonInit ==
  /\ Init
  /\ script = "unloaded"
  /\ requestLoaded = FALSE /\ requestRaw = FALSE /\ rawData = <<>> /\ retried = FALSE
  /\ stdout = "gone"
  /\ other = FALSE /\ overlapped = FALSE
  /\ answer = [printed |-> 0, foreign |-> 0, status |-> 0]
  /\ strayed = 0
-----------------------------------------------------------------------------
(* initHandler, processHandlerRequest and executeScript. *)

\* The interpreter cannot be started, its module is not registered, or the directory
\* of uploads cannot be made: the handler is not used.  That the parameter which
\* names the directory is missing is only logged.
InitHandler ==
  /\ script = "unloaded"
  /\ script' \in {"called", "refused"}
  /\ UNCHANGED <<vars, request, output>>

\* checkSocketState: select() reports a closed connection as ready too, so that only
\* a client who takes too long makes it false.
CheckSocketState == IF cut THEN {TRUE} ELSE BOOLEAN

\* isClientConnected: what came with the header is there; otherwise the socket is
\* asked, for reading while the body is not read, for writing after.
ClientConnected(buffered) == IF buffered THEN {TRUE} ELSE CheckSocketState

\* The file is not there (404), or the client does not seem to be: no script runs.
NotRun ==
  /\ script = "called"
  /\ \/ answer' = [answer EXCEPT !.status = 404]
     \/ /\ \E buffered \in BOOLEAN :
             (buffered => body # <<>>) /\ FALSE \in ClientConnected(buffered)
        /\ UNCHANGED answer
  /\ script' = "returned"
  /\ UNCHANGED <<vars, request, stdout, other, overlapped, strayed>>

\* Faulty: sys.stdout is set once, when the interpreter is initialized.
StartKeepsStdout ==
  /\ script = "called"
  /\ script' = "running"
  /\ overlapped' = other
  /\ UNCHANGED <<vars, request, stdout, other, answer, strayed>>

Start ==
  /\ script = "called"
  /\ stdout' = "own"
  /\ script' = "running"
  /\ overlapped' = other
  /\ UNCHANGED <<vars, request, other, answer, strayed>>

\* The script ends: setHtmlResponse.
ScriptEnds ==
  /\ script = "running"
  /\ answer' = [answer EXCEPT !.status = 200]
  /\ script' = "returned"
  /\ UNCHANGED <<vars, request, stdout, other, overlapped, strayed>>

\* It leaves with an exception, which loadPythonError describes and
\* processServerError answers with.
ScriptFails ==
  /\ script = "running"
  /\ answer' = [answer EXCEPT !.status = 500]
  /\ script' = "returned"
  /\ UNCHANGED <<vars, request, stdout, other, overlapped, strayed>>

\* Faulty: only the uploads of a request that was loaded are deleted.
ReleaseLoaded ==
  /\ script = "returned"
  /\ files' = IF ~requestLoaded THEN files
              ELSE [path \in DOMAIN files \ Range(uploadedFiles) |-> files[path]]
  /\ stdout' = IF stdout = "own" THEN "gone" ELSE stdout
  /\ script' = "destroyed"
  /\ UNCHANGED <<context, read, cut, pc, parser, loaded, reused, request, other,
                 overlapped, answer, strayed>>

\* The HttpContext is destroyed, and the wrapper was before; sys.stdout still
\* refers to it.
Release ==
  /\ script = "returned"
  /\ files' = [path \in DOMAIN files \ Range(uploadedFiles) |-> files[path]]
  /\ stdout' = IF stdout = "own" THEN "gone" ELSE stdout
  /\ script' = "destroyed"
  /\ UNCHANGED <<context, read, cut, pc, parser, loaded, reused, request, other,
                 overlapped, answer, strayed>>
-----------------------------------------------------------------------------
(* RequestWrapper. *)

\* processRequest: throws after rawRead, does nothing when it was loaded.
Ask ==
  /\ script = "running" /\ ~requestRaw /\ ~requestLoaded
  /\ script' = "parsing"
  /\ UNCHANGED <<vars, request, output>>

Parse == script = "parsing" /\ ParserStep /\ UNCHANGED scriptVars

Loaded ==
  /\ script = "parsing" /\ pc = "loaded"
  /\ script' = "running"
  /\ requestLoaded' = TRUE
  /\ UNCHANGED <<vars, requestRaw, rawData, retried, output>>

\* Faulty: requestLoaded_ is set before the parsers have returned.
FailedMarksLoaded ==
  /\ script = "parsing" /\ pc = "failed"
  /\ script' = "running"
  /\ pc' = "idle"
  /\ requestLoaded' = TRUE
  /\ UNCHANGED <<context, read, cut, parser, loaded, uploads, requestRaw, rawData,
                 retried, output>>

\* The exception reaches the script, which may catch it and ask again: what was
\* read of the body is gone.
Failed ==
  /\ script = "parsing" /\ pc = "failed"
  /\ script' = "running"
  /\ pc' = "idle"
  /\ retried' = TRUE
  /\ UNCHANGED <<context, read, cut, parser, loaded, uploads, requestLoaded, requestRaw,
                 rawData, output>>

\* rawRead: throws when the request was loaded.
RawRead ==
  /\ script = "running" /\ ~requestLoaded
  /\ requestRaw' = TRUE
  /\ \/ \E bytes \in 1..BufferSize : Arrives(bytes) /\ rawData' = rawData \o Arrived
     \/ AtEnd /\ UNCHANGED <<read, rawData>>
  /\ UNCHANGED <<context, cut, pc, parser, loaded, uploads, script, requestLoaded,
                 retried, output>>

\* param: the query string first, then the body, then the cookies.
Param(key) ==
  IF key \in DOMAIN getParameters THEN getParameters[key]
  ELSE IF key \in DOMAIN postParameters THEN postParameters[key]
  ELSE IF key \in DOMAIN cookies THEN cookies[key] ELSE NoValue
-----------------------------------------------------------------------------
(* Output. *)

\* print: HttpContextWrapper::write of the wrapper in sys.stdout.
Prints ==
  /\ script = "running" /\ answer.printed + strayed < MaxPrints
  /\ \/ /\ stdout = "own"
        /\ answer' = [answer EXCEPT !.printed = @ + 1]
        /\ UNCHANGED strayed
     \/ /\ stdout # "own"
        /\ strayed' = strayed + 1
        /\ UNCHANGED answer
  /\ UNCHANGED <<vars, script, request, stdout, other, overlapped>>

\* http_context.write: http_context is a name of the script's own namespace.
Writes ==
  /\ script = "running" /\ answer.printed + strayed < MaxPrints
  /\ answer' = [answer EXCEPT !.printed = @ + 1]
  /\ UNCHANGED <<vars, script, request, stdout, other, overlapped, strayed>>

\* Another worker's executeScript; nothing excludes it while this script runs.
OtherStarts ==
  /\ ~other /\ script \notin {"unloaded", "refused"}
  /\ other' = TRUE
  /\ stdout' = "other"
  /\ overlapped' = (overlapped \/ script \in {"running", "parsing"})
  /\ UNCHANGED <<vars, script, request, answer, strayed>>

OtherEnds ==
  /\ other
  /\ other' = FALSE
  /\ stdout' = IF stdout = "other" THEN "gone" ELSE stdout
  /\ UNCHANGED <<vars, script, request, overlapped, answer, strayed>>

OtherPrints ==
  /\ other /\ stdout = "own" /\ script # "destroyed"
  /\ answer.foreign < MaxPrints
  /\ answer' = [answer EXCEPT !.foreign = @ + 1]
  /\ UNCHANGED <<vars, script, request, stdout, other, overlapped, strayed>>

ClientLeaves == ClientGone /\ UNCHANGED scriptVars
-----------------------------------------------------------------------------
Handler ==
  \/ InitHandler \/ NotRun \/ Start \/ ScriptEnds \/ ScriptFails \/ Release
  \/ Ask \/ Parse \/ Loaded \/ Failed \/ RawRead \/ Prints \/ Writes

PythonNext == Handler \/ OtherStarts \/ OtherEnds \/ OtherPrints \/ ClientLeaves

PythonSpec == PythonInit /\ [][PythonNext]_allVars

\* What runs goes on: read() returns bytes, or the end after its timeout, and the
\* handler takes what the parser returns.  This is weak fairness of
\* Parse \/ Loaded \/ Failed, one of which can be taken whenever the script waits for
\* the parsers; with ENABLED, TLC would compute every parse once more.
FairPythonSpec ==
  /\ PythonSpec
  /\ \/ []<>(script # "parsing")
     \/ []<><<Parse \/ Loaded \/ Failed>>_allVars
-----------------------------------------------------------------------------
(* Correctness. *)

\* What pairs amount to: the last one of a key counts.
PairsSent(pairs) ==
  [key \in {pairs[i][1] : i \in DOMAIN pairs} |->
     pairs[Max({i \in DOMAIN pairs : pairs[i][1] = key})][2]]

\* How a page writes them.
EncodedPair(pair) == EncodeUrlPart(pair[1]) \o <<Equals>> \o EncodeUrlPart(pair[2])

Encoded(pairs, delimiter) ==
  FlattenSeq([i \in DOMAIN pairs |->
    IF i = 1 THEN EncodedPair(pairs[i]) ELSE <<delimiter>> \o EncodedPair(pairs[i])])

\* What the fields that are no files amount to: the values of a name are joined.
FieldsSent(parts) ==
  LET values(name) == [i \in DOMAIN parts |->
        IF ~parts[i].isFile /\ parts[i].name = name THEN parts[i].data ELSE <<>>]
  IN [name \in {parts[i].name : i \in {j \in DOMAIN parts : ~parts[j].isFile}} |->
        FlattenSeq(values(name))]

\* How a browser writes the parts.
Quoted(word, value) == <<word, Equals, Quote>> \o value \o <<Quote>>

HeaderText(part) ==
  <<FormData, Semicolon, Space>> \o Quoted(NameWord, part.name)
    \o (IF part.isFile THEN <<Semicolon, Space>> \o Quoted(FilenameWord, part.fileName)
        ELSE <<>>)

PartText(part) ==
  BoundaryBegin \o <<LineEnd>> \o HeaderText(part) \o HeadersEndMark \o part.data
    \o <<LineEnd>>

MultipartText(parts) ==
  FlattenSeq([i \in DOMAIN parts |-> PartText(parts[i])]) \o BoundaryEnd \o <<LineEnd>>

\* The types; a request counts as loaded only when its parsers have returned, and
\* a body is handed to the script either raw or parsed.
TypeOK ==
  /\ script \in {"unloaded", "refused", "called", "running", "parsing", "returned",
                "destroyed"}
  /\ pc \in {"idle", "readForm", "readPart", "scan", "loaded", "failed"}
  /\ read \in 0..Len(body)
  /\ boundaryPos \in 0..Len(body)
  /\ script = "running" => pc = (IF requestLoaded THEN "loaded" ELSE "idle")
  /\ ~(requestLoaded /\ requestRaw)
  /\ stdout \in {"own", "other", "gone"}
  /\ DOMAIN uploadedFiles # {} => context.kind = "multipart"

\* A multipart body as a browser writes one: each part has a name, nothing in the names
\* separates or is decoded, and the boundary is in no data.
NameChars == (0..255) \ {LineEnd, Boundary, Semicolon, Quote, Percent, Plus}
DataChars == (0..255) \ {Boundary}

WrittenParts ==
  {part \in [isFile : BOOLEAN, name : Seq(NameChars), fileName : Seq(NameChars),
             data : Seq(DataChars)] :
     part.name # <<>> /\ (part.isFile \/ part.fileName = <<>>)}

MultipartWritten ==
  /\ context.kind = "multipart"
  /\ context.parts \in Seq(WrittenParts)
  /\ body = MultipartText(context.parts)

\* Whatever the reads cut the body into, a multipart body gives its fields, each
\* with all of its data.
MultipartLoaded ==
  requestLoaded /\ MultipartWritten /\ ~cut => postParameters = FieldsSent(context.parts)

\* ... and its files: where no other upload has the name, and none was overwritten
\* when its own was opened, the uploaded file has the data of its part.
UploadsComplete ==
  requestLoaded /\ script # "destroyed" /\ MultipartWritten /\ ~cut =>
    \A part \in Range(context.parts) :
      /\ part.isFile /\ part.fileName # <<>>
      /\ \A q \in Range(context.parts) \ {part} :
           q.fileName # part.fileName /\ q.name # part.name
      => LET path == uploadedFiles[part.name] IN
         path \in DOMAIN files /\ files[path] = part.data

\* A form as a page writes one: each pair has a key, and no other '=' than the one
\* behind it.
FormWritten(text) ==
  /\ text \in Seq(0..255)
  /\ \A i \in DOMAIN text :
       i = 1 \/ text[i - 1] = Amp => text[i] \notin {Amp, Equals}
  /\ \A i, j \in DOMAIN text :
       i < j /\ text[i] = Equals /\ text[j] = Equals => \E k \in i..j : text[k] = Amp

\* The two parsers of pairs agree: of a form, what its stream has taken is loaded as
\* the parser of query strings would load it, its whole if it came at once.
FormLoaded ==
  requestLoaded /\ ~retried /\ context.kind = "form" /\ FormWritten(body) =>
    LET reference == Pairs(<<>>, SubSeq(body, 1, form.held), Amp)
        named     == DOMAIN reference.map \ {<<>>}
    IN postParameters = [key \in named |-> reference.map[key]]

\* The query is what encodeUrlPart writes of pairs of texts of bytes.
QueryEncoded ==
  /\ context.pairs \in Seq(Seq(0..255) \X Seq(0..255))
  /\ context.query = Encoded(context.pairs, Amp)

\* encodeUrlPart and parseQueryStringParams: the pairs a page encodes come back, and
\* nothing in the body or the cookies hides them from the script.
QueryLoaded ==
  requestLoaded /\ QueryEncoded =>
    LET sent == PairsSent(context.pairs) IN
    /\ DOMAIN getParameters = DOMAIN sent
    /\ \A key \in DOMAIN sent : Param(key) = sent[key]

\* The parsers leave nothing of the body to be read, so that processRequest can
\* keep the connection.
BodyConsumed == requestLoaded /\ ~cut => read = Len(body)

\* Unless scripts overlap, what the script prints is in its response, and nothing
\* else is.
OwnOutput ==
  ~overlapped => strayed = 0 /\ answer.foreign = 0

\* An uploaded file does not outlive its request, whether the request was loaded or
\* not, if no other upload has the name of its field.
UploadsDeleted ==
  script = "destroyed" /\ ~reused => \A path \in DOMAIN files : files[path] = Foreign

\* The loading of a request ends, whatever the body is and wherever the client
\* stops sending it.
LoadingEnds == (script = "parsing") ~> (script # "parsing")

\* "fast upload name search" ... while (fs::exists (uploadPath)): a file that is
\* there keeps its content when an upload is opened; only data of its own are added.
UploadNamesFree ==
  [][\A path \in DOMAIN files \cap DOMAIN files' : IsPrefix(files[path], files'[path])]_allVars
=============================================================================
