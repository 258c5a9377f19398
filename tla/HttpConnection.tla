--------------------------- MODULE HttpConnection ---------------------------
(***************************************************************************)
(* HttpServer::processConnection: one worker serves the requests of one    *)
(* connection, with the client that sends them and the handlers that may   *)
(* answer them.                                                            *)
(*                                                                         *)
(* What the client has sent and the server has not received is a sequence  *)
(* of units: the header of a request, then the bytes of its body.  recv    *)
(* returns any first part of it.  The answer to a request is kept as       *)
(* HttpResponse keeps it, reduced to what processRequest looks at: its     *)
(* status, whether its header left, whether it is finished, the length it  *)
(* declared and the bytes of body written.                                 *)
(***************************************************************************)
EXTENDS RequestTarget

CONSTANTS
  Requests,          \* the requests a client may send
  MaxRequests,       \* bound: requests on the connection
  BufferSize,        \* Response.Stream.getBufferSize()
  KeepAliveEnabled,  \* GlobalSettings()->isKeepAliveEnabled()
  NoLength           \* no Content-Length declared

ASSUME HttpConnectionAssumption ==
  /\ BufferSize \in Nat \ {0}
  /\ KeepAliveEnabled \in BOOLEAN
  /\ NoLength \notin Nat
  /\ MaxRequests \in Nat
  /\ \A r \in Requests : r.length \in Nat

VARIABLES
  sent,        \* the requests the client has sent, in order
  wire,        \* units sent and not received
  clientOpen,  \* the client has not closed its end
  pipelined,   \* history: a request was sent before the last one was answered
  changed,     \* history: a file changed while it was sent
  pc,          \* where the worker is
  context,     \* HttpContext: paths, directory, handlers left to run
  stream,      \* HttpRequestStream: requestBodyBegin_, loadedContentLength_
  current,     \* the request received last, 0 at first
  answers      \* the answer to each request sent

vars == <<sent, wire, clientOpen, pipelined, changed, pc, context, stream, current,
          answers>>
client == <<sent, clientOpen, pipelined>>

Header(i)   == [request |-> i, part |-> "header"]
BodyByte(i) == [request |-> i, part |-> "body"]

Implemented   == {"GET", "POST", "HEAD"}
UnknownStatus == 0
NoAnswer == [status |-> UnknownStatus, headersSent |-> FALSE, finished |-> FALSE,
             length |-> NoLength, body |-> 0]
NoContext == [path |-> Slash, mapped |-> Slash, dir |-> [virtualPath |-> Slash],
              file |-> <<>>, handlers |-> 0, document |-> FALSE, left |-> 0]

request == sent[current]
answer  == answers[current]
IsRead  == stream.loaded = request.length
Answered(i) == answers[i].finished

Init ==
  /\ sent = <<>> /\ wire = <<>>
  /\ clientOpen = TRUE /\ pipelined = FALSE /\ changed = FALSE
  /\ pc = "init"
  /\ context = NoContext
  /\ stream = [buffered |-> <<>>, loaded |-> 0]
  /\ current = 0
  /\ answers = <<>>
-----------------------------------------------------------------------------
(* The client. *)

\* A whole request, or its beginning and then nothing more.
ClientSends ==
  /\ clientOpen
  /\ Len(sent) < MaxRequests
  /\ \E r \in Requests : \E bytes \in 0..r.length :
       /\ sent' = Append(sent, r)
       /\ wire' = wire \o <<Header(Len(sent'))>>
                       \o [i \in 1..bytes |-> BodyByte(Len(sent'))]
       /\ clientOpen' = (bytes = r.length)
  /\ answers' = Append(answers, NoAnswer)
  /\ pipelined' = (pipelined \/ \E i \in DOMAIN sent : ~Answered(i))
  /\ UNCHANGED <<changed, pc, context, stream, current>>

ClientCloses ==
  /\ clientOpen
  /\ clientOpen' = FALSE
  /\ UNCHANGED <<sent, wire, pipelined, changed, pc, context, stream, current, answers>>

\* Another process writes to the file that is being sent.
FileChanges ==
  /\ pc = "send" /\ ~changed
  /\ changed' = TRUE
  /\ \E left \in {0, context.left + 1} : context' = [context EXCEPT !.left = left]
  /\ UNCHANGED <<client, wire, pc, stream, current, answers>>
-----------------------------------------------------------------------------
(* Answering, as HttpResponse does. *)

Answer(new) == answers' = [answers EXCEPT ![current] = new]

\* writeCompleteResponse; it throws when something was sent before, and the
\* exception leaves processConnection.
Page(status, next) ==
  IF answer.headersSent \/ answer.finished
  THEN pc' = "closed" /\ UNCHANGED answers
  ELSE /\ Answer([status |-> status, headersSent |-> TRUE, finished |-> TRUE,
                  length |-> 1, body |-> 1])
       /\ pc' = next

\* Response.end()
Ended(a) == [a EXCEPT !.headersSent = TRUE, !.finished = TRUE,
               !.length = IF a.headersSent THEN @ ELSE a.body]

\* processServerError: a page, or a text in the answer that has begun; write()
\* throws when the answer is finished.
ServerError(next) ==
  IF answer.headersSent /\ ~answer.finished
  THEN Answer(Ended([answer EXCEPT !.body = @ + 1])) /\ pc' = next
  ELSE Page(500, next)
-----------------------------------------------------------------------------
(* Receiving a request. *)

\* HttpContext::init: one recv completes the header, and what came with it is
\* the beginning of the body, or is dropped when no body is declared.
ContextInit ==
  /\ pc = "init" /\ wire # <<>>
  /\ Head(wire).part = "header" /\ sent[Head(wire).request].wellFormed
  /\ \E received \in 1..Len(wire) :
       /\ wire' = SubSeq(wire, received + 1, Len(wire))
       /\ stream' = [buffered |-> IF sent[Head(wire).request].length > 0
                                  THEN SubSeq(wire, 2, received) ELSE <<>>,
                     loaded   |-> 0]
  /\ context' = NoContext
  /\ current' = Head(wire).request
  /\ pc' = "request"
  /\ UNCHANGED <<client, changed, answers>>

\* What came is not a header, and RequestHeader.load throws.
InitThrows ==
  /\ pc = "init" /\ wire # <<>>
  /\ Head(wire).part = "body" \/ ~sent[Head(wire).request].wellFormed
  /\ pc' = "closed"
  /\ UNCHANGED <<client, wire, current, changed, context, stream, answers>>

\* Faulty: an empty read is taken for a request.
InitIgnoresEmpty ==
  /\ pc = "init" /\ wire = <<>>
  /\ pc' = "request"
  /\ UNCHANGED <<client, wire, current, changed, context, stream, answers>>

\* Nothing came in time, or the client closed the connection.
InitFails ==
  /\ pc = "init" /\ wire = <<>>
  /\ pc' = "closed"
  /\ UNCHANGED <<client, wire, current, changed, context, stream, answers>>

\* Faulty: the rest of the body is not a limit for recv.
ReadUnclamped(bytes) ==
  \/ /\ stream.buffered # <<>>
     /\ bytes \in 1..Len(stream.buffered)
     /\ stream' = [buffered |-> SubSeq(stream.buffered, bytes + 1, Len(stream.buffered)),
                   loaded   |-> stream.loaded + bytes]
     /\ UNCHANGED wire
  \/ /\ stream.buffered = <<>> /\ ~IsRead
     /\ bytes \in 1..Len(wire)
     /\ stream' = [stream EXCEPT !.loaded = @ + bytes]
     /\ wire' = SubSeq(wire, bytes + 1, Len(wire))

\* HttpRequestStream::read, not the whole of it at once: what is buffered is not
\* compared with the length; an end of the connection reads as nothing.
Read(bytes) ==
  \/ /\ stream.buffered # <<>>
     /\ bytes \in 1..Len(stream.buffered)
     /\ stream' = [buffered |-> SubSeq(stream.buffered, bytes + 1, Len(stream.buffered)),
                   loaded   |-> stream.loaded + bytes]
     /\ UNCHANGED wire
  \/ /\ stream.buffered = <<>> /\ ~IsRead
     /\ bytes \in 1..Len(wire)
     /\ bytes <= request.length - stream.loaded
     /\ stream' = [stream EXCEPT !.loaded = @ + bytes]
     /\ wire' = SubSeq(wire, bytes + 1, Len(wire))
-----------------------------------------------------------------------------
(* processRequest. *)

\* isMethodImplemented; its FALSE ends the connection.
CheckMethod ==
  /\ pc = "request"
  /\ \/ request.method = "" /\ pc' = "closed" /\ UNCHANGED answers
     \/ request.method \notin Implemented \cup {""} /\ Page(501, "closed")
     \/ request.method \in Implemented /\ pc' = "target" /\ UNCHANGED answers
  /\ UNCHANGED <<client, wire, current, changed, context, stream>>

\* findTarget, up to runHandlers.  A name that is not portable throws.
FindTarget ==
  /\ pc = "target"
  /\ IF ~RootRegistered
     THEN Page(404, "finish") /\ UNCHANGED context
     ELSE LET dir    == FindDirectory(request.path)
              mapped == Mapped(dir, request.path)
              file   == FileSystemPath(dir, mapped) IN
          IF ~NamesAllowed(dir, mapped)
          THEN pc' = "closed" /\ UNCHANGED <<context, answers>>
          ELSE /\ context' = [context EXCEPT
                    !.path = request.path, !.mapped = mapped, !.dir = dir,
                    !.file = file, !.handlers = Handlers(dir, file)]
               /\ pc' = "handlers"
               /\ UNCHANGED answers
  /\ UNCHANGED <<client, wire, current, changed, stream>>

\* Faulty: the same handler runs again.
RunHandlersAgain ==
  /\ pc = "handlers"
  /\ \/ context.handlers > 0 /\ pc' = "handler"
     \/ context.handlers = 0 /\ pc' = IF context.document THEN "file" ELSE "resource"
  /\ UNCHANGED <<client, wire, current, changed, context, stream, answers>>

\* runHandlers: the next registration, or what follows when none has answered.
RunHandlers ==
  /\ pc = "handlers"
  /\ \/ /\ context.handlers > 0
        /\ context' = [context EXCEPT !.handlers = @ - 1]
        /\ pc' = "handler"
     \/ /\ context.handlers = 0
        /\ pc' = IF context.document THEN "file" ELSE "resource"
        /\ UNCHANGED context
  /\ UNCHANGED <<client, wire, current, changed, stream, answers>>

\* findTarget, after the handlers.
FindResource ==
  /\ pc = "resource"
  /\ LET resource == Resource(context.path, context.mapped, context.file) IN
     \/ resource = "directory" /\ pc' = "directory" /\ UNCHANGED answers
     \/ resource = "redirect" /\ Page(302, "finish")
     \/ resource = "missing" /\ Page(404, "finish")
     \/ resource = "file" /\ pc' = "file" /\ UNCHANGED answers
  /\ UNCHANGED <<client, wire, current, changed, context, stream>>

\* processDirectoryRequest.  The listing is written and ended in one go.
ProcessDirectory ==
  /\ pc = "directory"
  /\ LET documents == DefaultDocument(context.dir, context.file)
         status    == ListingStatus(context.dir, request.method, request.charset) IN
     \/ /\ \E i \in documents :
             LET file == Append(context.file, context.dir.defaultDocuments[i]) IN
             context' = [context EXCEPT
               !.file = file, !.document = TRUE, !.handlers = Handlers(context.dir, file)]
        /\ pc' = "handlers"
        /\ UNCHANGED answers
     \/ documents = {} /\ status # 200 /\ Page(status, "finish") /\ UNCHANGED context
     \/ /\ documents = {} /\ status = 200
        /\ Answer(Ended([answer EXCEPT !.status = 200, !.body = 1]))
        /\ pc' = "finish"
        /\ UNCHANGED context
  /\ UNCHANGED <<client, wire, current, changed, stream>>

\* processDirectFileRequest, until the length of the file is declared.
OpenFile ==
  /\ pc = "file"
  /\ IF request.method = "POST" THEN Page(405, "finish") /\ UNCHANGED context
     ELSE IF ~Files[context.file].readable
     THEN Page(403, "finish") /\ UNCHANGED context
     ELSE LET status == IF request.unmodified THEN 304 ELSE 200
              length == IF status = 304 THEN 0 ELSE Files[context.file].size IN
          /\ Answer([answer EXCEPT !.status = status, !.length = length])
          /\ context' = [context EXCEPT !.left = length]
          /\ pc' = IF status = 304 THEN "finish" ELSE "send"
  /\ UNCHANGED <<client, wire, current, changed, stream>>

\* Faulty: the last, partial, part of a file is not written.
SendFileDropsTail ==
  /\ pc = "send"
  /\ LET size  == Files[context.file].size
         part  == IF size < BufferSize THEN size ELSE BufferSize
         bytes == IF part < context.left THEN part ELSE context.left IN
     /\ Answer([answer EXCEPT !.body = IF bytes < part THEN @ ELSE @ + bytes,
                  !.headersSent = (@ \/ answer.body + bytes >= BufferSize)])
     /\ context' = [context EXCEPT !.left = @ - bytes]
     /\ pc' = IF bytes < part THEN "finish" ELSE "send"
  /\ UNCHANGED <<client, wire, current, changed, stream>>

\* One turn of the loop that copies the file: read() sets eof when it gets less
\* than it asked for, so that with nothing to ask for it never does.
SendFile ==
  /\ pc = "send"
  /\ LET size  == Files[context.file].size
         part  == IF size < BufferSize THEN size ELSE BufferSize
         bytes == IF part < context.left THEN part ELSE context.left IN
     /\ Answer([answer EXCEPT !.body = @ + bytes,
                  !.headersSent = (@ \/ answer.body + bytes >= BufferSize)])
     /\ context' = [context EXCEPT !.left = @ - bytes]
     /\ pc' = IF bytes < part THEN "finish" ELSE "send"
  /\ UNCHANGED <<client, wire, current, changed, stream>>

\* Faulty: a body left unread does not end the connection.
FinishIgnoresBody ==
  /\ pc = "finish"
  /\ \/ answer.finished /\ pc' = "next" /\ UNCHANGED answers
     \/ ~answer.finished /\ answer.status = UnknownStatus /\ Page(404, "next")
     \/ /\ ~answer.finished /\ answer.status # UnknownStatus
        /\ Answer(Ended(answer)) /\ pc' = "next"
  /\ UNCHANGED <<client, wire, current, changed, context, stream>>

\* Faulty: an answer that has a status is taken to be ended.
FinishWithoutEnd ==
  /\ pc = "finish"
  /\ \/ ~IsRead /\ ServerError("closed")
     \/ IsRead /\ answer.status # UnknownStatus /\ pc' = "next" /\ UNCHANGED answers
     \/ IsRead /\ ~answer.finished /\ answer.status = UnknownStatus /\ Page(404, "next")
  /\ UNCHANGED <<client, wire, current, changed, context, stream>>

\* processRequest, after findTarget and the file: TRUE, which ends the
\* connection, unless the body has been read.
Finish ==
  /\ pc = "finish"
  /\ \/ ~IsRead /\ ServerError("closed")
     \/ IsRead /\ answer.finished /\ pc' = "next" /\ UNCHANGED answers
     \/ /\ IsRead /\ ~answer.finished /\ answer.status = UnknownStatus
        /\ Page(404, "next")
     \/ /\ IsRead /\ ~answer.finished /\ answer.status # UnknownStatus
        /\ Answer(Ended(answer)) /\ pc' = "next"
  /\ UNCHANGED <<client, wire, current, changed, context, stream>>

\* The condition of the loop of processConnection.
KeepAlive ==
  /\ pc = "next"
  /\ LET connection == IF request.proxyConnection # "none" THEN request.proxyConnection
                       ELSE request.connection IN
     pc' = IF KeepAliveEnabled /\ connection = "keep-alive" THEN "init" ELSE "closed"
  /\ UNCHANGED <<client, wire, current, changed, context, stream, answers>>
-----------------------------------------------------------------------------
(* A handler: any sequence of calls, then it returns or throws. *)

HandlerReads ==
  /\ pc = "handler"
  /\ \E bytes \in 1..(Len(wire) + Len(stream.buffered)) : Read(bytes)
  /\ UNCHANGED <<client, current, changed, pc, context, answers>>

\* It writes, with or without setting a status, and the header may leave; its
\* body is bounded by BufferSize.  A write to a finished answer throws.
HandlerWrites ==
  /\ pc = "handler" /\ ~answer.finished /\ answer.body < BufferSize
  /\ \E status \in {answer.status, 200} :
       Answer([answer EXCEPT !.status = status, !.body = @ + 1,
                 !.headersSent = (@ \/ answer.body + 1 >= BufferSize)])
  /\ UNCHANGED <<client, wire, current, changed, pc, context, stream>>

HandlerEnds ==
  /\ pc = "handler" /\ ~answer.finished
  /\ Answer(Ended([answer EXCEPT !.status = 200]))
  /\ UNCHANGED <<client, wire, current, changed, pc, context, stream>>

\* "Returns true if request was completed": one that declines has written nothing.
HandlerReturns ==
  /\ pc = "handler"
  /\ \/ pc' = "finish"
     \/ answer = NoAnswer /\ pc' = "handlers"
  /\ UNCHANGED <<client, wire, current, changed, context, stream, answers>>

\* request_processing_error is answered with 500; the others end the connection
\* (see ConnectionLost).
HandlerThrows ==
  /\ pc = "handler"
  /\ ServerError("finish")
  /\ UNCHANGED <<client, wire, current, changed, context, stream>>

\* An exception of any other type, of the socket, a handler or the file system.
ConnectionLost ==
  /\ pc \notin {"init", "closed"}
  /\ pc' = "closed"
  /\ UNCHANGED <<client, wire, current, changed, context, stream, answers>>
-----------------------------------------------------------------------------
Worker ==
  \/ ContextInit \/ InitThrows \/ InitFails
  \/ CheckMethod \/ FindTarget \/ RunHandlers \/ FindResource \/ ProcessDirectory
  \/ OpenFile \/ SendFile \/ Finish \/ KeepAlive

Handler == HandlerReads \/ HandlerWrites \/ HandlerEnds \/ HandlerReturns \/ HandlerThrows

Environment == ClientSends \/ ClientCloses \/ FileChanges \/ ConnectionLost

Next == Worker \/ Handler \/ Environment

Spec == Init /\ [][Next]_vars

\* The worker runs; receiving ends by its timeout at the latest (InitFails).
FairSpec == Spec /\ WF_vars(Worker) /\ WF_vars(HandlerReturns)
-----------------------------------------------------------------------------
(* Correctness. *)

Pcs == {"init", "request", "target", "handlers", "handler", "resource", "directory",
        "file", "send", "finish", "next", "closed"}

TypeOK ==
  /\ sent \in Seq(Requests)
  /\ wire \in Seq([request : DOMAIN sent, part : {"header", "body"}])
  /\ clientOpen \in BOOLEAN /\ pipelined \in BOOLEAN /\ changed \in BOOLEAN
  /\ pc \in Pcs
  /\ current \in 0..Len(sent)
  /\ pc \notin {"init", "closed"} => current > 0
  /\ answers \in [DOMAIN sent -> [status : Nat, headersSent : BOOLEAN,
                    finished : BOOLEAN, length : Nat \cup {NoLength}, body : Nat]]
  /\ stream.loaded \in Nat

\* Unless the client pipelines, what the server receives next when it has kept
\* the connection is the header of the next request: no byte of an earlier body
\* is taken for a header, and no header is lost.
FramingKept ==
  pc = "init" /\ ~pipelined =>
    /\ wire # <<>> => Head(wire) = Header(current + 1)
    /\ wire = <<>> => Len(sent) = current

\* Unless the client pipelines, a handler reads bytes of its own request only,
\* and not more than its header declares.
ReadsOwnBody ==
  ~pipelined /\ pc \notin {"init", "closed"} =>
    /\ stream.loaded + Len(stream.buffered) <= request.length
    /\ \A i \in DOMAIN stream.buffered : stream.buffered[i] = BodyByte(current)

\* The connection is kept only when the request received has been answered to the
\* end; without pipelining, then, when all were.
AnsweredBeforeNext ==
  /\ pc = "next" => Answered(current)
  /\ pc = "init" /\ ~pipelined => \A i \in 1..current : Answered(i)

\* An answer whose body is not as long as its header says is the last of its
\* connection (HEAD sends none), unless the file changed while it was sent.
BrokenAnswerIsLast ==
  pc = "init" /\ ~changed =>
    \A i \in 1..current :
      answers[i].length # NoLength /\ sent[i].method # "HEAD" =>
        answers[i].length = answers[i].body

\* What a path stands for, when no handler answers.
Leads(path) ==
  LET dir == FindDirectory(path)
  IN Resource(path, Mapped(dir, path), FileSystemPath(dir, Mapped(dir, path)))

\* The server sends a client only to what is there: a redirection leads to a
\* directory and is not redirected again, and what the listing of a directory refers
\* to is a directory or a file as listed.  (The listing of a directory that a mapping
\* led to has another path, and what a mapping matches is not what is listed.)
LinksLead ==
  pc = "target" =>
    LET path == request.path
        dir  == FindDirectory(path) IN
    /\ Leads(path) = "redirect" => Leads(path \o Slash) = "directory"
    /\ Leads(path) = "directory" /\ Mapped(dir, path) = path =>
         \A item \in Listing(dir, path, FileSystemPath(dir, path)) :
           Mapped(FindDirectory(item.url), item.url) = item.url =>
             Leads(item.url) = IF item.kind = "dir" THEN "directory" ELSE "file"

\* A request that is received is answered or its connection closed, unless it is
\* for an empty file: the loop that copies that one does not end.
RequestEnds ==
  (pc = "request") ~>
    \/ pc \in {"init", "closed"}
    \/ pc = "send" /\ Files[context.file].size = 0
=============================================================================
