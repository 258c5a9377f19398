---------------------------- MODULE HttpResponse ----------------------------
(***************************************************************************)
(* ahttp::HttpResponse with its HttpResponseStream: one response, the code *)
(* that writes it (HttpServer, a handler), and the client that reads it.   *)
(*                                                                         *)
(* A step is one call of writeToSocket, or the code between two of them;   *)
(* call and pc say which method of HttpResponse runs and where it is.  The *)
(* body is abstracted to its length: the bytes passed to write() are       *)
(* numbered from 1, buffer_ holds the last `buffer` of them.  Of the header *)
(* only what decides the framing is kept.                                  *)
(*                                                                         *)
(* The client parses what it receives (RFC 2616, 4.4) and is garbled when  *)
(* something arrives that its framing, or the order of the bytes, excludes. *)
(***************************************************************************)
EXTENDS Naturals

CONSTANTS
  MaxBuffer,        \* Stream.maxBuffSize_
  MaxChunk,         \* Stream.maxChunkSize_
  NoLength,         \* the header has no Content-Length
  MaxBody           \* bound: bytes passed to write(), and size of a whole page

ASSUME HttpResponseAssumption ==
  /\ MaxBuffer \in Nat \ {0}
  /\ MaxChunk \in Nat \ {0}
  /\ NoLength \notin Nat
  /\ MaxBody \in Nat

VARIABLES
  httpMethod,       \* httpMethod_; "Get" stands for GET and POST
  headersSent, finished, chunked,
  contentLength,    \* the header Content-Length
  buffer,           \* length of Stream.buffer_
  call, pc,         \* the method that runs, and where it is
  dataSize,         \* its argument
  curPos, chunkSize,\* locals of HttpResponseStream::flush
  connected,        \* does the socket still take data?
  written,          \* history: bytes accepted by write()
  client            \* what the client has made of the bytes received

stream   == <<chunked, buffer, curPos, chunkSize>>
response == <<httpMethod, headersSent, finished, contentLength, stream>>
control  == <<call, pc, dataSize>>
vars     == <<response, control, connected, written, client>>

Methods == {"Unknown", "Get", "Head"}
Calls   == {"none", "write", "flush", "end", "complete"}
Pcs     == {"idle", "abandoned", "header", "append", "flush", "whole", "size", "data",
            "mark", "last", "direct", "page"}
InChunk == {"size", "data", "mark"}

ClientStates == {"header", "body", "chunkSize", "chunkData", "chunkEnd",
                 "complete", "garbled"}

SendContent == httpMethod # "Head"
HasLength   == contentLength # NoLength
Smaller(m, n) == IF m <= n THEN m ELSE n

Init ==
  /\ httpMethod = "Unknown"
  /\ headersSent = FALSE /\ finished = FALSE /\ chunked = FALSE
  /\ contentLength = NoLength
  /\ buffer = 0
  /\ call = "none" /\ pc = "idle" /\ dataSize = 0
  /\ curPos = 0 /\ chunkSize = 0
  /\ connected = TRUE
  /\ written = 0
  /\ client = [state |-> "header", left |-> 0, received |-> 0, page |-> FALSE]
-----------------------------------------------------------------------------
(* The client. *)

Garbled == [client EXCEPT !.state = "garbled"]

\* A header that declares length, or chunked coding, which overrides it.
AfterHeader(length, isChunked) ==
  IF client.state # "header" THEN Garbled
  ELSE [state    |-> CASE ~SendContent -> "complete"
                       [] SendContent /\ isChunked -> "chunkSize"
                       [] SendContent /\ ~isChunked /\ length > 0 -> "body"
                       [] OTHER -> "complete",
        left     |-> IF isChunked THEN 0 ELSE length,
        received |-> 0,
        page     |-> call = "complete"]

AfterSize(size) ==
  IF client.state = "chunkSize" /\ size > 0
  THEN [client EXCEPT !.state = "chunkData", !.left = size]
  ELSE Garbled

\* Bytes first, first + 1, ... of the body.
AfterData(first, size) ==
  IF /\ client.state \in {"body", "chunkData"}
     /\ ~client.page
     /\ size <= client.left
     /\ first = client.received + 1
  THEN [client EXCEPT
          !.state = IF size < client.left THEN @
                    ELSE IF @ = "body" THEN "complete" ELSE "chunkEnd",
          !.left = client.left - size,
          !.received = client.received + size]
  ELSE Garbled

AfterMark ==
  IF client.state = "chunkEnd" THEN [client EXCEPT !.state = "chunkSize"] ELSE Garbled

AfterLast ==
  IF client.state = "chunkSize" THEN [client EXCEPT !.state = "complete"] ELSE Garbled

\* A page written whole, in place of what was passed to write().
AfterPage(size) ==
  IF client.state = "body" /\ client.page /\ size = client.left
  THEN [client EXCEPT !.state = "complete", !.left = 0]
  ELSE Garbled
-----------------------------------------------------------------------------
(* Steps shared by the actions. *)

\* writeToSocket succeeds, and the client makes newClient of it.
Send(newClient) ==
  /\ connected
  /\ client' = newClient
  /\ UNCHANGED connected

Goes(from, to) == pc = from /\ pc' = to /\ UNCHANGED <<call, dataSize>>

\* The method that runs returns.
Returns ==
  /\ pc' = "idle"
  /\ call' = "none"
  /\ dataSize' = 0

\* HttpResponseStream::flush returns to the method that called it.
FlushReturns ==
  \/ call = "end" /\ pc' = "last" /\ UNCHANGED <<call, dataSize>>
  \/ call # "end" /\ Returns

Call(method, size, at) ==
  /\ pc = "idle"
  /\ call' = method
  /\ dataSize' = size
  /\ pc' = at
  /\ UNCHANGED <<httpMethod, headersSent, finished, stream, connected, written,
                 client>>

FlushAt == IF headersSent THEN "flush" ELSE "header"
-----------------------------------------------------------------------------
(* The methods of HttpResponse, from their call to the first write. *)

\* write() throws "Response already sent" when finished: nothing changes.
Write(size) ==
  /\ ~finished
  /\ Call("write", size,
          IF ~headersSent /\ buffer + size >= MaxBuffer THEN "header" ELSE "append")
  /\ UNCHANGED contentLength

Flush == Call("flush", 0, FlushAt) /\ UNCHANGED contentLength

\* Faulty variant, as those below: a mistake the properties must reject.
EndWithoutFlush ==
  /\ Call("end", 0, IF headersSent THEN "last" ELSE "header")
  /\ contentLength' = IF headersSent THEN contentLength ELSE buffer

End ==
  /\ Call("end", 0, FlushAt)
  /\ contentLength' = IF headersSent THEN contentLength ELSE buffer

WriteCompleteResponse(size) ==
  /\ ~headersSent /\ ~finished
  /\ Call("complete", size, "header")
  /\ contentLength' = size
-----------------------------------------------------------------------------
(* Faulty variants of actions below: mistakes the properties must reject. *)

AppendFlushesLate ==
  /\ pc = "append"
  /\ written' = written + dataSize
  /\ buffer' = buffer + dataSize
  /\ \/ buffer' > MaxBuffer /\ Goes("append", "flush")
     \/ buffer' <= MaxBuffer /\ Returns
  /\ UNCHANGED <<httpMethod, headersSent, finished, contentLength, chunked,
                 curPos, chunkSize, connected, client>>

\* buffer_.clear() is forgotten.
WholeKeepsBuffer ==
  /\ pc = "whole"
  /\ Send(AfterData(written - buffer + 1, buffer))
  /\ FlushReturns
  /\ UNCHANGED <<response, written>>

\* chunkSize is not limited to what is left of the buffer.
MarkKeepsSize ==
  /\ pc = "mark"
  /\ Send(AfterMark)
  /\ curPos' = curPos + chunkSize
  /\ \/ curPos' < buffer /\ Goes("mark", "size") /\ UNCHANGED buffer
     \/ curPos' >= buffer /\ FlushReturns /\ buffer' = 0
  /\ UNCHANGED <<httpMethod, headersSent, finished, contentLength, chunked,
                 chunkSize, written>>

\* curPos does not advance.
MarkStays ==
  /\ pc = "mark"
  /\ Send(AfterMark)
  /\ Goes("mark", "size")
  /\ UNCHANGED <<response, written>>

NoLastChunk ==
  /\ Goes("last", "direct")
  /\ UNCHANGED <<response, connected, written, client>>
-----------------------------------------------------------------------------
(* What they do then. *)

\* applyContentEncoding, and the header is written.
SentHeaders ==
  /\ pc = "header"
  /\ chunked' = (chunked \/ ~HasLength)
  /\ Send(AfterHeader(contentLength, chunked'))
  /\ headersSent' = TRUE
  /\ \/ call = "write" /\ Goes("header", "append")
     \/ call \in {"flush", "end"} /\ Goes("header", "flush")
     \/ call = "complete" /\ Goes("header", "page")
  /\ UNCHANGED <<httpMethod, finished, contentLength, buffer, curPos, chunkSize,
                 written>>

\* HttpResponseStream::write
Append ==
  /\ pc = "append"
  /\ written' = written + dataSize
  /\ buffer' = buffer + dataSize
  /\ \/ buffer' >= MaxBuffer /\ Goes("append", "flush")
     \/ buffer' < MaxBuffer /\ Returns
  /\ UNCHANGED <<httpMethod, headersSent, finished, contentLength, chunked,
                 curPos, chunkSize, connected, client>>

\* HttpResponseStream::flush, up to its first write.  For HEAD the buffer stays.
StreamFlush ==
  /\ pc = "flush"
  /\ LET nothing == buffer = 0 \/ ~SendContent IN
     \/ nothing /\ FlushReturns /\ UNCHANGED <<curPos, chunkSize>>
     \/ /\ ~nothing /\ chunked
        /\ Goes("flush", "size")
        /\ curPos' = 0
        /\ chunkSize' = Smaller(buffer, MaxChunk)
     \/ ~nothing /\ ~chunked /\ Goes("flush", "whole") /\ UNCHANGED <<curPos, chunkSize>>
  /\ UNCHANGED <<httpMethod, headersSent, finished, contentLength, chunked,
                 buffer, connected, written, client>>

FlushWhole ==
  /\ pc = "whole"
  /\ Send(AfterData(written - buffer + 1, buffer))
  /\ buffer' = 0
  /\ FlushReturns
  /\ UNCHANGED <<httpMethod, headersSent, finished, contentLength, chunked,
                 curPos, chunkSize, written>>

ChunkHeader ==
  /\ Goes("size", "data")
  /\ Send(AfterSize(chunkSize))
  /\ UNCHANGED <<response, written>>

ChunkData ==
  /\ Goes("data", "mark")
  /\ Send(AfterData(written - buffer + curPos + 1, chunkSize))
  /\ UNCHANGED <<response, written>>

ChunkEnd ==
  /\ pc = "mark"
  /\ Send(AfterMark)
  /\ curPos' = curPos + chunkSize
  /\ chunkSize' = Smaller(MaxChunk, buffer - curPos')
  /\ \/ curPos' < buffer /\ Goes("mark", "size") /\ UNCHANGED buffer
     \/ curPos' >= buffer /\ FlushReturns /\ buffer' = 0
  /\ UNCHANGED <<httpMethod, headersSent, finished, contentLength, chunked, written>>

\* HttpResponseStream::end
StreamEnd ==
  /\ Goes("last", "direct")
  /\ \/ chunked /\ SendContent /\ Send(AfterLast)
     \/ ~(chunked /\ SendContent) /\ UNCHANGED <<connected, client>>
  /\ UNCHANGED <<response, written>>

\* Stream.writeDirectly (""): sends nothing.
EndReturns ==
  /\ pc = "direct"
  /\ finished' = TRUE
  /\ Returns
  /\ UNCHANGED <<httpMethod, headersSent, contentLength, stream, connected,
                 written, client>>

\* Stream.clear and Stream.writeDirectly (response)
WritePage ==
  /\ pc = "page"
  /\ \/ SendContent /\ dataSize > 0 /\ Send(AfterPage(dataSize))
     \/ ~(SendContent /\ dataSize > 0) /\ UNCHANGED <<connected, client>>
  /\ buffer' = 0
  /\ chunked' = FALSE
  /\ finished' = TRUE
  /\ Returns
  /\ UNCHANGED <<httpMethod, headersSent, contentLength, curPos, chunkSize, written>>

\* Does the next step write to the socket?
Sending ==
  \/ pc \in {"header", "whole"} \cup InChunk
  \/ pc = "last" /\ chunked /\ SendContent
  \/ pc = "page" /\ SendContent /\ dataSize > 0

\* writeToSocket throws socket_error, for good, and the method is left.  A
\* handler may catch what write or flush throw; end and a whole page are the last
\* calls, and their exception leaves for processConnection.
SendFails ==
  /\ Sending
  /\ connected' = FALSE
  /\ chunked' = (pc # "page" /\ (chunked \/ (pc = "header" /\ ~HasLength)))
  /\ buffer' = IF pc = "page" THEN 0 ELSE buffer
  /\ pc' = IF call \in {"end", "complete"} THEN "abandoned" ELSE "idle"
  /\ call' = "none" /\ dataSize' = 0
  /\ UNCHANGED <<httpMethod, headersSent, finished, contentLength, curPos,
                 chunkSize, written, client>>
-----------------------------------------------------------------------------
(* The code that writes the response. *)

\* processRequest: setHttpMethod, which isMethodImplemented precedes.
SetHttpMethod ==
  /\ pc = "idle" /\ httpMethod = "Unknown" /\ ~HasLength
  /\ httpMethod' \in {"Get", "Head"}
  /\ UNCHANGED <<headersSent, finished, contentLength, stream, control, connected,
                 written, client>>

\* processDirectFileRequest: the size of the file, before any of its bytes.
SetContentLength ==
  /\ pc = "idle" /\ httpMethod # "Unknown"
  /\ ~headersSent /\ ~finished /\ written = 0 /\ ~HasLength
  /\ contentLength' \in 0..MaxBody
  /\ UNCHANGED <<httpMethod, headersSent, finished, stream, control, connected,
                 written, client>>

\* A file keeps the size it had when its length was declared.
WriteSome ==
  \E size \in 0..MaxBody :
    /\ httpMethod # "Unknown"
    /\ written + size <= IF HasLength THEN Smaller(contentLength, MaxBody) ELSE MaxBody
    /\ Write(size)

FlushSome == httpMethod # "Unknown" /\ ~finished /\ Flush

EndResponse ==
  /\ httpMethod # "Unknown" /\ ~finished
  /\ headersSent /\ HasLength => written = contentLength
  /\ End

\* Error pages, redirections; the 501 comes before setHttpMethod.
WritePageOf == \E size \in 0..MaxBody : WriteCompleteResponse(size)

Caller ==
  SetHttpMethod \/ SetContentLength \/ WriteSome \/ FlushSome \/ EndResponse \/ WritePageOf

ResponseStep ==
  \/ SentHeaders \/ Append \/ StreamFlush \/ FlushWhole \/ ChunkHeader \/ ChunkData
  \/ ChunkEnd \/ StreamEnd \/ EndReturns \/ WritePage \/ SendFails

Next == Caller \/ ResponseStep

Spec == Init /\ [][Next]_vars

\* A send returns: data taken, or an error after socketWriteTimeout.
FairSpec == Spec /\ WF_vars(ResponseStep)
-----------------------------------------------------------------------------
(* Correctness. *)

\* The types, and in the loop over the chunks: the chunk is not empty, not
\* longer than allowed, and lies in the buffer.
TypeOK ==
  /\ httpMethod \in Methods
  /\ headersSent \in BOOLEAN /\ finished \in BOOLEAN /\ chunked \in BOOLEAN
  /\ contentLength \in Nat \cup {NoLength}
  /\ buffer \in Nat /\ written \in Nat /\ buffer <= written
  /\ call \in Calls /\ pc \in Pcs /\ dataSize \in Nat
  /\ curPos \in Nat /\ chunkSize \in Nat
  /\ pc \in InChunk => chunkSize \in 1..MaxChunk /\ curPos + chunkSize <= buffer
  /\ connected \in BOOLEAN
  /\ client \in [state : ClientStates, left : Nat, received : Nat, page : BOOLEAN]

\* Whatever mixture of writes, flushes, errors and whole pages: the client gets
\* one header, a body framed as the header says, and the bytes of write() in
\* order, each once; after the end of the body nothing more.
ClientInSync == client.state # "garbled"

\* A client that believes to have the whole body has every byte written, unless
\* a whole page was sent in their place.
NothingMissing ==
  client.state = "complete" /\ SendContent /\ ~client.page => client.received = written

\* When the server has finished the response, the client has finished reading
\* it: no keep-alive client waits for the rest of a body.
FinishedMeansComplete == finished => client.state = "complete"

\* Between two calls the buffer is below its limit (of a response that is sent).
MemoryBounded == pc = "idle" /\ SendContent /\ connected => buffer < MaxBuffer

\* Every method of the response returns: the chunk loop ends.
CallsReturn == (pc # "idle") ~> (pc \in {"idle", "abandoned"})

\* assert (!chunked_ && "writeDirectly must not be called in 'chunked' mode")
DirectNotChunked == pc = "direct" => ~chunked

\* assert (httpMethod_ != Unknown && "HTTP method is not loaded") in sentHeaders
MethodLoaded == pc = "header" => httpMethod # "Unknown"
=============================================================================
