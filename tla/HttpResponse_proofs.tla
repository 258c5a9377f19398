------------------------ MODULE HttpResponse_proofs -------------------------
(***************************************************************************)
(* For every size of the buffer, of the chunks and of the body: what the   *)
(* client of an HttpResponse makes of it.  The invariant relates the place *)
(* of the server in its methods with the place of the client in the        *)
(* message; once the connection is broken the client no longer moves.      *)
(***************************************************************************)
EXTENDS HttpResponse, TLAPS

\* Between the calls and around the steps of each.
ControlInv ==
  /\ pc \in {"idle", "abandoned"} => call = "none"
  /\ pc = "header" => call # "none" /\ ~headersSent
  /\ pc = "header" /\ call = "end" => contentLength = buffer
  /\ pc = "append" => call = "write"
  /\ pc = "append" /\ ~headersSent => buffer + dataSize < MaxBuffer
  /\ pc \in {"flush", "whole"} \cup InChunk =>
       headersSent /\ call \in {"write", "flush", "end"}
  /\ pc = "whole" => ~chunked /\ SendContent /\ buffer > 0
  /\ pc \in InChunk => chunked /\ SendContent
  /\ pc \in {"last", "direct"} => call = "end" /\ headersSent
  /\ pc = "page" => call = "complete" /\ headersSent /\ client.page
  /\ pc \notin {"idle", "abandoned"} => ~finished
  /\ pc \notin {"idle", "abandoned"} /\ call # "complete" => httpMethod # "Unknown"
  /\ call = "complete" => contentLength = dataSize /\ pc \in {"header", "page"}
  /\ httpMethod = "Unknown" => ~headersSent \/ client.page

\* Before the header, and after the header of a whole page.
StartInv ==
  /\ client.state = "header" <=> ~headersSent
  /\ ~headersSent => ~finished /\ buffer = written /\ ~client.page /\ client.received = 0
  /\ chunked /\ ~headersSent => ~connected
  /\ client.page =>
       /\ \/ pc = "page" /\ ~chunked
          \/ pc = "idle" /\ finished /\ client.state = "complete"
          \/ pc = "abandoned" /\ ~finished
       /\ pc = "page" /\ client.state = "body" =>
            client.left = dataSize /\ dataSize > 0 /\ SendContent
       /\ client.state \in {"body", "complete"}
       /\ pc = "page" =>
            client.state = IF SendContent /\ dataSize > 0 THEN "body" ELSE "complete"
  /\ headersSent /\ ~SendContent => client.state = "complete"

\* What a caller writes fits the length it declared.
Announced ==
  IF pc \in {"header", "append"} /\ call = "write" THEN written + dataSize ELSE written

LengthInv ==
  /\ HasLength /\ call # "complete" /\ ~client.page
  /\ pc = "abandoned" => headersSent
  => Announced <= contentLength

\* The body being sent.
Sent == headersSent /\ SendContent /\ ~client.page

WholeInv ==
  Sent /\ ~chunked =>
    /\ HasLength
    /\ client.received = written - buffer
    /\ client.left = contentLength - client.received /\ client.received <= contentLength
    /\ client.state = IF client.left > 0 THEN "body" ELSE "complete"
    /\ pc \in {"last", "direct"} \/ finished => client.state = "complete" /\ buffer = 0
    /\ call = "end" => written = contentLength

ChunkInv ==
  Sent /\ chunked =>
    /\ ~HasLength
    /\ client.state \in {"chunkSize", "chunkData", "chunkEnd", "complete"}
    /\ client.state = "complete" <=> (pc = "direct" \/ finished)
    /\ client.state = "complete" => client.received = written
    /\ connected =>
         /\ pc \in {"idle", "append", "flush"} /\ ~finished =>
              client.state = "chunkSize" /\ client.received = written - buffer
         /\ pc = "size" =>
              client.state = "chunkSize" /\ client.received = written - buffer + curPos
         /\ pc = "data" =>
              /\ client.state = "chunkData" /\ client.left = chunkSize
              /\ client.received = written - buffer + curPos
         /\ pc = "mark" =>
              /\ client.state = "chunkEnd"
              /\ client.received = written - buffer + curPos + chunkSize
         /\ pc = "last" => client.state = "chunkSize" /\ client.received = written

SyncInv == ControlInv /\ StartInv /\ LengthInv /\ WholeInv /\ ChunkInv

Inv == TypeOK /\ SyncInv

ClientType == [state : ClientStates, left : Nat, received : Nat, page : BOOLEAN]

\* Whatever the client receives, its state keeps its type.
LEMMA DataTyped ==
  ASSUME client \in ClientType, NEW first \in Nat, NEW size \in Nat
  PROVE  AfterData(first, size) \in ClientType
<1> DEFINE fits == /\ client.state \in {"body", "chunkData"}
                   /\ ~client.page
                   /\ size <= client.left
                   /\ first = client.received + 1
<1>1. CASE fits
  <2>1. client.left - size \in Nat /\ client.received + size \in Nat
    BY <1>1 DEF ClientType
  <2>2. AfterData(first, size) =
          [state    |-> IF size < client.left THEN client.state
                        ELSE IF client.state = "body" THEN "complete" ELSE "chunkEnd",
           left     |-> client.left - size,
           received |-> client.received + size,
           page     |-> client.page]
    BY <1>1 DEF AfterData, ClientType
  <2>3. QED  BY <2>1, <2>2 DEF ClientType, ClientStates
<1>2. CASE ~fits
  BY <1>2 DEF AfterData, Garbled, ClientType, ClientStates
<1>3. QED  BY <1>1, <1>2

\* What the three actions that send bytes leave of it.
LEMMA ClientTyped ==
  Inv /\ (FlushWhole \/ ChunkData \/ WritePage) => client' \in ClientType
<1> SUFFICES ASSUME Inv, FlushWhole \/ ChunkData \/ WritePage
             PROVE  client' \in ClientType
  OBVIOUS
<1>1. client \in ClientType
  BY DEF Inv, TypeOK, ClientType
<1>2. CASE FlushWhole
  <2>1. written - buffer + 1 \in Nat /\ buffer \in Nat
    BY DEF Inv, TypeOK
  <2>2. QED  BY <1>1, <1>2, <2>1, DataTyped DEF FlushWhole, Send
<1>3. CASE ChunkData
  <2>1. written - buffer + curPos + 1 \in Nat /\ chunkSize \in Nat
    BY DEF Inv, TypeOK
  <2>2. QED  BY <1>1, <1>3, <2>1, DataTyped DEF ChunkData, Send
<1>4. CASE WritePage
  <2>1. AfterPage(dataSize) \in ClientType
    BY <1>1 DEF AfterPage, Garbled, ClientType, ClientStates
  <2>2. QED  BY <1>1, <1>4, <2>1 DEF WritePage, Send
<1>5. QED  BY <1>2, <1>3, <1>4

-----------------------------------------------------------------------------
(* Each action keeps the invariant. *)

LEMMA SetHttpMethodKeeps == Inv /\ SetHttpMethod => Inv'
<1> SUFFICES ASSUME Inv, SetHttpMethod PROVE Inv'
  OBVIOUS
<1>1. TypeOK'
  BY DEF SetHttpMethod, Methods, stream, control, Inv, TypeOK
<1>2. ControlInv'
  BY DEF SetHttpMethod, control, Inv, SyncInv, ControlInv
<1>3. StartInv'
  BY DEF SetHttpMethod, stream, control, Inv, SyncInv, ControlInv, StartInv
<1>4. LengthInv'
  BY DEF SetHttpMethod, HasLength, LengthInv
<1>5. WholeInv'
  BY DEF SetHttpMethod, Inv, SyncInv, ControlInv, WholeInv, Sent
<1>6. ChunkInv'
  BY DEF SetHttpMethod, Inv, SyncInv, ControlInv, ChunkInv, Sent
<1>7. QED  BY <1>1, <1>2, <1>3, <1>4, <1>5, <1>6 DEF Inv, SyncInv

LEMMA SetContentLengthKeeps == Inv /\ SetContentLength => Inv'
<1> SUFFICES ASSUME Inv, SetContentLength PROVE Inv'
  OBVIOUS
<1>1. TypeOK'
  BY DEF SetContentLength, stream, control, Inv, TypeOK
<1>2. ControlInv'
  BY DEF SetContentLength, control, Inv, SyncInv, ControlInv
<1>3. StartInv'
  BY DEF SetContentLength, stream, Inv, SyncInv, StartInv
<1>4. LengthInv'
  BY DEF SetContentLength, control, LengthInv, Announced
<1>5. WholeInv'
  BY DEF SetContentLength, WholeInv, Sent
<1>6. ChunkInv'
  BY DEF SetContentLength, ChunkInv, Sent
<1>7. QED  BY <1>1, <1>2, <1>3, <1>4, <1>5, <1>6 DEF Inv, SyncInv

LEMMA WriteSomeKeeps == Inv /\ WriteSome => Inv'
<1> SUFFICES ASSUME Inv, WriteSome PROVE Inv'
  OBVIOUS
<1>1. TypeOK'
  BY DEF WriteSome, Write, Call, Calls, Pcs, InChunk, stream, Inv, TypeOK
<1>2. ControlInv'
  BY HttpResponseAssumption
     DEF HttpResponseAssumption, WriteSome, Write, Call, InChunk, stream, Inv,
         TypeOK, ControlInv
<1>3. StartInv'
  BY DEF WriteSome, Write, Call, SendContent, stream, Inv, SyncInv, StartInv
<1>4. LengthInv'
  BY HttpResponseAssumption
     DEF HttpResponseAssumption, WriteSome, Write, Call, Smaller, HasLength,
         Inv, TypeOK, LengthInv, Announced
<1>5. WholeInv'
  BY DEF WriteSome, Write, Call, SendContent, HasLength, stream, Inv, SyncInv,
         WholeInv, Sent
<1>6. ChunkInv'
  BY DEF WriteSome, Write, Call, SendContent, HasLength, stream, Inv, SyncInv,
         ChunkInv, Sent
<1>7. QED  BY <1>1, <1>2, <1>3, <1>4, <1>5, <1>6 DEF Inv, SyncInv

LEMMA FlushSomeKeeps == Inv /\ FlushSome => Inv'
<1> SUFFICES ASSUME Inv, FlushSome PROVE Inv'
  OBVIOUS
<1>1. TypeOK'
  BY DEF FlushSome, Flush, FlushAt, Call, Calls, Pcs, InChunk, stream, Inv,
         TypeOK
<1>2. ControlInv'
  BY DEF FlushSome, Flush, FlushAt, Call, InChunk, ControlInv
<1>3. StartInv'
  BY DEF FlushSome, Flush, Call, SendContent, stream, Inv, SyncInv, StartInv
<1>4. LengthInv'
  BY DEF FlushSome, Flush, Call, HasLength, Inv, SyncInv, ControlInv, LengthInv,
         Announced
<1>5. WholeInv'
  BY DEF FlushSome, Flush, FlushAt, Call, SendContent, HasLength, stream, Inv,
         SyncInv, WholeInv, Sent
<1>6. ChunkInv'
  BY DEF FlushSome, Flush, FlushAt, Call, SendContent, HasLength, stream, Inv,
         SyncInv, ChunkInv, Sent
<1>7. QED  BY <1>1, <1>2, <1>3, <1>4, <1>5, <1>6 DEF Inv, SyncInv

LEMMA EndResponseKeeps == Inv /\ EndResponse => Inv'
<1> SUFFICES ASSUME Inv, EndResponse PROVE Inv'
  OBVIOUS
<1>1. TypeOK'
  BY DEF EndResponse, End, FlushAt, Call, Calls, Pcs, InChunk, stream, Inv,
         TypeOK
<1>2. ControlInv'
  BY DEF EndResponse, End, FlushAt, Call, InChunk, stream, ControlInv
<1>3. StartInv'
  BY DEF EndResponse, End, Call, SendContent, stream, Inv, SyncInv, StartInv
<1>4. LengthInv'
  BY DEF EndResponse, End, Call, HasLength, Inv, SyncInv, TypeOK, StartInv,
         LengthInv, Announced
<1>5. WholeInv'
  BY DEF EndResponse, End, FlushAt, Call, SendContent, HasLength, stream, Inv,
         SyncInv, WholeInv, Sent
<1>6. ChunkInv'
  BY DEF EndResponse, End, FlushAt, Call, SendContent, HasLength, stream, Inv,
         SyncInv, ChunkInv, Sent
<1>7. QED  BY <1>1, <1>2, <1>3, <1>4, <1>5, <1>6 DEF Inv, SyncInv

LEMMA WritePageOfKeeps == Inv /\ WritePageOf => Inv'
<1> SUFFICES ASSUME Inv, WritePageOf PROVE Inv'
  OBVIOUS
<1>1. TypeOK'
  BY DEF WritePageOf, WriteCompleteResponse, Call, Calls, Pcs, InChunk, stream,
         Inv, TypeOK
<1>2. ControlInv'
  BY DEF WritePageOf, WriteCompleteResponse, Call, InChunk, ControlInv
<1>3. StartInv'
  BY DEF WritePageOf, WriteCompleteResponse, Call, stream, Inv, SyncInv,
         StartInv
<1>4. LengthInv'
  BY DEF WritePageOf, WriteCompleteResponse, Call, LengthInv
<1>5. WholeInv'
  BY DEF WritePageOf, WriteCompleteResponse, Call, WholeInv, Sent
<1>6. ChunkInv'
  BY DEF WritePageOf, WriteCompleteResponse, Call, ChunkInv, Sent
<1>7. QED  BY <1>1, <1>2, <1>3, <1>4, <1>5, <1>6 DEF Inv, SyncInv

LEMMA SentHeadersKeeps == Inv /\ SentHeaders => Inv'
<1> SUFFICES ASSUME Inv, SentHeaders PROVE Inv'
  OBVIOUS
<1>1. TypeOK'
  BY DEF SentHeaders, Send, Goes, AfterHeader, Garbled, Pcs, InChunk,
         ClientStates, HasLength, Inv, TypeOK
<1>2. ControlInv'
  BY DEF SentHeaders, Send, Goes, AfterHeader, InChunk, Inv, SyncInv,
         ControlInv, StartInv
<1>3. StartInv'
  BY HttpResponseAssumption
     DEF HttpResponseAssumption, SentHeaders, Send, Goes, AfterHeader,
         SendContent, HasLength, Inv, SyncInv, TypeOK, ControlInv, StartInv
<1>4. LengthInv'
  BY DEF SentHeaders, Goes, HasLength, Inv, SyncInv, StartInv, LengthInv,
         Announced
<1>5. WholeInv'
  <2> SUFFICES ASSUME Sent', ~chunked' PROVE WholeInv'
    BY DEF WholeInv
  <2>1. /\ client.state = "header" /\ buffer = written /\ contentLength \in Nat
        /\ pc = "header" /\ ~finished /\ ~client.page
    BY DEF Inv, SyncInv, ControlInv, StartInv, SentHeaders, HasLength, TypeOK
  <2>2. client' = AfterHeader(contentLength, FALSE)
    BY DEF SentHeaders, Send
  <2>3. SendContent /\ call # "complete"
    BY <2>1, <2>2 DEF Sent, SendContent, SentHeaders, AfterHeader
  <2>4. /\ client'.left = contentLength /\ client'.received = 0
        /\ client'.state = IF contentLength > 0 THEN "body" ELSE "complete"
    BY <2>1, <2>2, <2>3 DEF AfterHeader
  <2>5. call \in {"write", "flush", "end"}
    BY <2>1, <2>3 DEF Inv, TypeOK, Calls, SyncInv, ControlInv
  <2>6. written <= contentLength /\ (call = "end" => written = contentLength)
    BY <2>1, <2>3, HttpResponseAssumption
       DEF Inv, SyncInv, ControlInv, LengthInv, Announced, HasLength, TypeOK,
           HttpResponseAssumption
  <2>7. /\ call' = call /\ pc' \in {"append", "flush"} /\ contentLength' = contentLength
        /\ written' = written /\ buffer' = buffer /\ finished' = finished
    BY <2>3, <2>5 DEF SentHeaders, Goes
  <2>8. QED
    BY <2>1, <2>4, <2>5, <2>6, <2>7, HttpResponseAssumption
       DEF WholeInv, HasLength, Inv, TypeOK, HttpResponseAssumption
<1>6. ChunkInv'
  BY DEF SentHeaders, Send, Goes, AfterHeader, SendContent, HasLength, Inv,
         SyncInv, TypeOK, ControlInv, StartInv, ChunkInv, Sent
<1>7. QED  BY <1>1, <1>2, <1>3, <1>4, <1>5, <1>6 DEF Inv, SyncInv

LEMMA AppendKeeps == Inv /\ Append => Inv'
<1> SUFFICES ASSUME Inv, Append PROVE Inv'
  OBVIOUS
<1>1. TypeOK'
  BY DEF Append, Goes, Returns, Calls, Pcs, InChunk, Inv, TypeOK
<1>2. ControlInv'
  BY HttpResponseAssumption
     DEF HttpResponseAssumption, Append, Goes, Returns, InChunk, Inv, SyncInv,
         ControlInv
<1>3. StartInv'
  BY DEF Append, SendContent, Inv, SyncInv, StartInv
<1>4. LengthInv'
  BY DEF Append, Goes, Returns, HasLength, Inv, SyncInv, ControlInv, LengthInv,
         Announced
<1>5. WholeInv'
  BY DEF Append, Goes, Returns, SendContent, HasLength, Inv, SyncInv, TypeOK,
         ControlInv, WholeInv, Sent
<1>6. ChunkInv'
  BY DEF Append, Goes, Returns, SendContent, HasLength, Inv, SyncInv, TypeOK,
         ControlInv, ChunkInv, Sent
<1>7. QED  BY <1>1, <1>2, <1>3, <1>4, <1>5, <1>6 DEF Inv, SyncInv

LEMMA StreamFlushKeeps == Inv /\ StreamFlush => Inv'
<1> SUFFICES ASSUME Inv, StreamFlush PROVE Inv'
  OBVIOUS
<1>1. TypeOK'
  BY HttpResponseAssumption
     DEF HttpResponseAssumption, StreamFlush, Goes, Returns, FlushReturns,
         Smaller, Calls, Pcs, InChunk, Inv, TypeOK
<1>2. ControlInv'
  BY DEF StreamFlush, Goes, Returns, FlushReturns, InChunk, SendContent, Inv,
         SyncInv, TypeOK, ControlInv
<1>3. StartInv'
  BY DEF StreamFlush, SendContent, Inv, SyncInv, StartInv
<1>4. LengthInv'
  BY DEF StreamFlush, Goes, Returns, FlushReturns, HasLength, Inv, SyncInv,
         ControlInv, LengthInv, Announced
<1>5. WholeInv'
  BY DEF StreamFlush, Goes, Returns, FlushReturns, SendContent, HasLength, Inv,
         SyncInv, TypeOK, WholeInv, Sent
<1>6. ChunkInv'
  BY DEF StreamFlush, Goes, Returns, FlushReturns, SendContent, HasLength, Inv,
         SyncInv, TypeOK, ControlInv, ChunkInv, Sent
<1>7. QED  BY <1>1, <1>2, <1>3, <1>4, <1>5, <1>6 DEF Inv, SyncInv

LEMMA FlushWholeKeeps == Inv /\ FlushWhole => Inv'
<1> SUFFICES ASSUME Inv, FlushWhole PROVE Inv'
  OBVIOUS
<1>1. TypeOK'
  BY ClientTyped
     DEF FlushWhole, Send, FlushReturns, Returns, Calls, Pcs, InChunk, Inv,
         TypeOK, ClientType
<1>2. ControlInv'
  BY DEF FlushWhole, FlushReturns, Returns, InChunk, Inv, SyncInv, ControlInv
<1>3. StartInv'
  BY DEF FlushWhole, Send, AfterData, Garbled, SendContent, Inv, SyncInv,
         ControlInv, StartInv
<1>4. LengthInv'
  BY DEF FlushWhole, Send, AfterData, Garbled, FlushReturns, Returns, Inv,
         SyncInv, ControlInv, LengthInv, WholeInv, Sent, Announced
<1>5. WholeInv'
  BY DEF FlushWhole, Send, AfterData, Garbled, FlushReturns, Returns, HasLength,
         Inv, SyncInv, TypeOK, ControlInv, LengthInv, WholeInv, Sent, Announced
<1>6. ChunkInv'
  BY DEF FlushWhole, Inv, SyncInv, ControlInv, ChunkInv
<1>7. QED  BY <1>1, <1>2, <1>3, <1>4, <1>5, <1>6 DEF Inv, SyncInv

LEMMA ChunkHeaderKeeps == Inv /\ ChunkHeader => Inv'
<1> SUFFICES ASSUME Inv, ChunkHeader PROVE Inv'
  OBVIOUS
<1>1. TypeOK'
  BY DEF ChunkHeader, Goes, Send, AfterSize, Garbled, Pcs, InChunk,
         ClientStates, response, stream, Inv, TypeOK
<1>2. ControlInv'
  BY DEF ChunkHeader, Goes, InChunk, SendContent, response, stream, Inv,
         SyncInv, ControlInv
<1>3. StartInv'
  BY DEF ChunkHeader, Goes, Send, AfterSize, Garbled, InChunk, SendContent,
         response, Inv, SyncInv, ControlInv, StartInv
<1>4. LengthInv'
  BY DEF ChunkHeader, Goes, Send, AfterSize, Garbled, HasLength, response, Inv,
         SyncInv, LengthInv, Announced
<1>5. WholeInv'
  BY DEF ChunkHeader, Goes, InChunk, response, stream, Inv, SyncInv, ControlInv,
         WholeInv
<1>6. ChunkInv'
  BY DEF ChunkHeader, Goes, Send, AfterSize, Garbled, InChunk, HasLength,
         response, stream, Inv, SyncInv, TypeOK, ControlInv, ChunkInv, Sent
<1>7. QED  BY <1>1, <1>2, <1>3, <1>4, <1>5, <1>6 DEF Inv, SyncInv

LEMMA ChunkDataKeeps == Inv /\ ChunkData => Inv'
<1> SUFFICES ASSUME Inv, ChunkData PROVE Inv'
  OBVIOUS
<1>1. TypeOK'
  BY ClientTyped
     DEF ChunkData, Goes, Send, Pcs, InChunk, response, stream, Inv, TypeOK,
         ClientType
<1>2. ControlInv'
  BY DEF ChunkData, Goes, InChunk, SendContent, response, stream, Inv, SyncInv,
         ControlInv
<1>3. StartInv'
  BY DEF ChunkData, Goes, Send, AfterData, Garbled, InChunk, SendContent,
         response, Inv, SyncInv, ControlInv, StartInv
<1>4. LengthInv'
  BY DEF ChunkData, Goes, Send, AfterData, Garbled, HasLength, response, Inv,
         SyncInv, LengthInv, Announced
<1>5. WholeInv'
  BY DEF ChunkData, Goes, InChunk, response, stream, Inv, SyncInv, ControlInv,
         WholeInv
<1>6. ChunkInv'
  BY DEF ChunkData, Goes, Send, AfterData, Garbled, SendContent, HasLength,
         response, stream, Inv, SyncInv, TypeOK, ChunkInv, Sent
<1>7. QED  BY <1>1, <1>2, <1>3, <1>4, <1>5, <1>6 DEF Inv, SyncInv

LEMMA ChunkEndKeeps == Inv /\ ChunkEnd => Inv'
<1> SUFFICES ASSUME Inv, ChunkEnd PROVE Inv'
  OBVIOUS
<1>1. TypeOK'
  BY HttpResponseAssumption
     DEF HttpResponseAssumption, ChunkEnd, Goes, Send, AfterMark, Garbled,
         FlushReturns, Returns, Smaller, Calls, Pcs, InChunk, ClientStates,
         SendContent, Inv, TypeOK
<1>2. ControlInv'
  BY DEF ChunkEnd, Goes, FlushReturns, Returns, InChunk, SendContent, Inv,
         SyncInv, ControlInv
<1>3. StartInv'
  BY DEF ChunkEnd, Send, AfterMark, Garbled, InChunk, SendContent, Inv, SyncInv,
         ControlInv, StartInv
<1>4. LengthInv'
  BY DEF ChunkEnd, Goes, Send, AfterMark, Garbled, FlushReturns, Returns,
         HasLength, Inv, SyncInv, ControlInv, LengthInv, Announced
<1>5. WholeInv'
  BY DEF ChunkEnd, InChunk, Inv, SyncInv, ControlInv, WholeInv
<1>6. ChunkInv'
  BY DEF ChunkEnd, Goes, Send, AfterMark, Garbled, FlushReturns, Returns,
         InChunk, HasLength, Inv, SyncInv, TypeOK, ControlInv, ChunkInv, Sent
<1>7. QED  BY <1>1, <1>2, <1>3, <1>4, <1>5, <1>6 DEF Inv, SyncInv

LEMMA StreamEndKeeps == Inv /\ StreamEnd => Inv'
<1> SUFFICES ASSUME Inv, StreamEnd PROVE Inv'
  OBVIOUS
<1>1. TypeOK'
  BY DEF StreamEnd, Goes, Send, AfterLast, Garbled, Pcs, InChunk, ClientStates,
         response, stream, Inv, TypeOK
<1>2. ControlInv'
  BY DEF StreamEnd, Goes, InChunk, response, Inv, SyncInv, ControlInv
<1>3. StartInv'
  BY DEF StreamEnd, Goes, Send, AfterLast, response, Inv, SyncInv, TypeOK,
         ControlInv, StartInv, WholeInv, ChunkInv, Sent
<1>4. LengthInv'
  BY DEF StreamEnd, Goes, HasLength, response, Inv, SyncInv, StartInv,
         LengthInv, Announced
<1>5. WholeInv'
  BY DEF StreamEnd, Goes, SendContent, HasLength, response, stream, Inv,
         SyncInv, WholeInv, Sent
<1>6. ChunkInv'
  BY DEF StreamEnd, Goes, Send, AfterLast, Garbled, SendContent, HasLength,
         response, stream, Inv, SyncInv, TypeOK, ChunkInv, Sent
<1>7. QED  BY <1>1, <1>2, <1>3, <1>4, <1>5, <1>6 DEF Inv, SyncInv

LEMMA EndReturnsKeeps == Inv /\ EndReturns => Inv'
<1> SUFFICES ASSUME Inv, EndReturns PROVE Inv'
  OBVIOUS
<1>1. TypeOK'
  BY DEF EndReturns, Returns, Calls, Pcs, InChunk, stream, Inv, TypeOK
<1>2. ControlInv'
  BY DEF EndReturns, Returns, InChunk, Inv, SyncInv, ControlInv
<1>3. StartInv'
  BY DEF EndReturns, Inv, SyncInv, ControlInv, StartInv, WholeInv, ChunkInv,
         Sent
<1>4. LengthInv'
  BY DEF EndReturns, Returns, HasLength, Inv, SyncInv, ControlInv, LengthInv,
         Announced
<1>5. WholeInv'
  BY DEF EndReturns, Returns, SendContent, HasLength, stream, Inv, SyncInv,
         WholeInv, Sent
<1>6. ChunkInv'
  BY DEF EndReturns, Returns, SendContent, HasLength, stream, Inv, SyncInv,
         ChunkInv, Sent
<1>7. QED  BY <1>1, <1>2, <1>3, <1>4, <1>5, <1>6 DEF Inv, SyncInv

LEMMA WritePageKeeps == Inv /\ WritePage => Inv'
<1> SUFFICES ASSUME Inv, WritePage PROVE Inv'
  OBVIOUS
<1>1. TypeOK'
  <2>1. client' \in ClientType
    BY ClientTyped
  <2>2. connected' = connected
    BY DEF WritePage, Send
  <2>3. chunked' \in BOOLEAN /\ finished' \in BOOLEAN
    BY Zenon DEF WritePage
  <2>4. /\ pc' = "idle" /\ call' = "none" /\ dataSize' = 0 /\ buffer' = 0
        /\ UNCHANGED <<httpMethod, headersSent, contentLength, curPos, chunkSize, written>>
    BY DEF WritePage, Returns
  <2>5. QED
    BY <2>1, <2>2, <2>3, <2>4 DEF Inv, TypeOK, Calls, Pcs, InChunk, ClientType
<1>2. ControlInv'
  BY DEF WritePage, Send, AfterPage, Garbled, Returns, InChunk, Inv, SyncInv,
         TypeOK, ControlInv
<1>3. StartInv'
  BY DEF WritePage, Send, AfterPage, Returns, Inv, SyncInv, TypeOK, ControlInv,
         StartInv
<1>4. LengthInv'
  BY DEF WritePage, Send, AfterPage, Garbled, Inv, SyncInv, TypeOK, ControlInv,
         LengthInv
<1>5. WholeInv'
  BY DEF WritePage, Send, AfterPage, Garbled, Inv, SyncInv, TypeOK, ControlInv,
         WholeInv, Sent
<1>6. ChunkInv'
  BY DEF WritePage, ChunkInv
<1>7. QED  BY <1>1, <1>2, <1>3, <1>4, <1>5, <1>6 DEF Inv, SyncInv

LEMMA SendFailsKeeps == Inv /\ SendFails => Inv'
<1> SUFFICES ASSUME Inv, SendFails PROVE Inv'
  OBVIOUS
<1>1. TypeOK'
  <2>1. chunked' \in BOOLEAN
    BY Zenon DEF SendFails
  <2>2. buffer' \in Nat /\ buffer' <= written
    BY DEF Inv, TypeOK, SendFails
  <2>3. QED
    BY <2>1, <2>2 DEF SendFails, Inv, TypeOK, Calls, Pcs, InChunk
<1>2. ControlInv'
  BY DEF SendFails, InChunk, Inv, SyncInv, ControlInv
<1>3. StartInv'
  BY DEF SendFails, Sending, SendContent, Inv, SyncInv, ControlInv, StartInv
<1>4. LengthInv'
  BY DEF SendFails, Sending, HasLength, Inv, SyncInv, TypeOK, ControlInv,
         LengthInv, Announced
<1>5. WholeInv'
  BY DEF SendFails, Sending, HasLength, Inv, SyncInv, ControlInv, WholeInv, Sent
<1>6. ChunkInv'
  BY DEF SendFails, Sending, InChunk, HasLength, Inv, SyncInv, ControlInv,
         ChunkInv, Sent
<1>7. QED  BY <1>1, <1>2, <1>3, <1>4, <1>5, <1>6 DEF Inv, SyncInv

-----------------------------------------------------------------------------
(* The invariant, and what it shows. *)

LEMMA InvInit == Init => Inv
<1> SUFFICES ASSUME Init PROVE Inv
  OBVIOUS
<1>1. TypeOK
  <2>1. client \in ClientType
    BY DEF Init, ClientType, ClientStates
  <2>2. httpMethod \in Methods /\ call \in Calls /\ pc \in Pcs \ InChunk
    BY DEF Init, Methods, Calls, Pcs, InChunk
  <2>3. /\ buffer \in Nat /\ written \in Nat /\ buffer <= written
        /\ dataSize \in Nat /\ curPos \in Nat /\ chunkSize \in Nat
    BY DEF Init
  <2>4. QED  BY <2>1, <2>2, <2>3 DEF Init, TypeOK, ClientType
<1>2. ControlInv /\ StartInv /\ LengthInv /\ WholeInv /\ ChunkInv
  BY DEF Init, ControlInv, StartInv, LengthInv, WholeInv, ChunkInv, Sent, InChunk,
     HasLength
<1>3. QED  BY <1>1, <1>2 DEF Inv, SyncInv

LEMMA InvNext == Inv /\ [Next]_vars => Inv'
<1> SUFFICES ASSUME Inv, [Next]_vars PROVE Inv'
  OBVIOUS
<1>1. CASE Caller
  BY <1>1, SetHttpMethodKeeps, SetContentLengthKeeps, WriteSomeKeeps, FlushSomeKeeps,
     EndResponseKeeps, WritePageOfKeeps DEF Caller
<1>2. CASE ResponseStep
  BY <1>2, SentHeadersKeeps, AppendKeeps, StreamFlushKeeps, FlushWholeKeeps,
     ChunkHeaderKeeps, ChunkDataKeeps, ChunkEndKeeps, StreamEndKeeps, EndReturnsKeeps,
     WritePageKeeps, SendFailsKeeps DEF ResponseStep
<1>3. CASE UNCHANGED vars
  BY <1>3 DEF vars, response, stream, control, Inv, SyncInv, TypeOK, ControlInv,
     StartInv, LengthInv, WholeInv, ChunkInv, Sent, Announced, InChunk, SendContent,
     HasLength
<1>4. QED  BY <1>1, <1>2, <1>3 DEF Next

\* The state keeps its types; a chunk is never empty, too long or outside the buffer.
THEOREM ResponseTyped == Spec => []TypeOK
<1>1. Inv => TypeOK
  BY DEF Inv
<1>2. QED  BY <1>1, InvInit, InvNext, PTL DEF Spec

\* The client is never garbled: one header, a body framed as declared, the bytes
\* in order and once, nothing after the end.
THEOREM ClientStaysInSync == Spec => []ClientInSync
<1>1. Inv => ClientInSync
  BY DEF Inv, SyncInv, StartInv, WholeInv, ChunkInv, Sent, ClientInSync
<1>2. QED  BY <1>1, InvInit, InvNext, PTL DEF Spec

\* A client that has read to the end of a body has every byte that was written.
THEOREM NothingIsMissing == Spec => []NothingMissing
<1>1. Inv => NothingMissing
  BY HttpResponseAssumption
     DEF Inv, SyncInv, TypeOK, ControlInv, StartInv, LengthInv, Announced, HasLength,
         WholeInv, ChunkInv, Sent, NothingMissing, HttpResponseAssumption
<1>2. QED  BY <1>1, InvInit, InvNext, PTL DEF Spec

\* A finished response has been read to its end: nobody waits for more of it.
THEOREM FinishedIsComplete == Spec => []FinishedMeansComplete
<1>1. Inv => FinishedMeansComplete
  BY DEF Inv, SyncInv, TypeOK, ControlInv, StartInv, WholeInv, ChunkInv, Sent,
     FinishedMeansComplete
<1>2. QED  BY <1>1, InvInit, InvNext, PTL DEF Spec
-----------------------------------------------------------------------------
(* The buffer. *)

\* Where the buffer of a response that is sent stays below its limit, and where
\* it is empty.
MemInv ==
  SendContent /\ connected =>
    /\ pc \in {"idle", "header", "append", "page"} => buffer < MaxBuffer
    /\ pc \in {"last", "direct"} => buffer = 0

LEMMA MemInit == Init => MemInv
  BY HttpResponseAssumption DEF Init, MemInv, HttpResponseAssumption

LEMMA MemNext == TypeOK /\ MemInv /\ [Next]_vars => MemInv'
<1> SUFFICES ASSUME TypeOK, MemInv, [Next]_vars PROVE MemInv'
  OBVIOUS
<1> USE HttpResponseAssumption DEF HttpResponseAssumption, TypeOK, MemInv, SendContent
<1>1. CASE SetHttpMethod
  BY <1>1 DEF SetHttpMethod, stream, control
<1>2. CASE SetContentLength
  BY <1>2 DEF SetContentLength, stream, control
<1>3. CASE WriteSome
  BY <1>3 DEF WriteSome, Write, Call, stream
<1>4. CASE FlushSome
  BY <1>4 DEF FlushSome, Flush, FlushAt, Call, stream
<1>5. CASE EndResponse
  BY <1>5 DEF EndResponse, End, FlushAt, Call, stream
<1>6. CASE WritePageOf
  BY <1>6 DEF WritePageOf, WriteCompleteResponse, Call, stream
<1>7. CASE SentHeaders
  BY <1>7 DEF SentHeaders, Send, Goes
<1>8. CASE Append
  BY <1>8 DEF Append, Goes, Returns
<1>9. CASE StreamFlush
  BY <1>9 DEF StreamFlush, FlushReturns, Goes, Returns
<1>10. CASE FlushWhole
  BY <1>10 DEF FlushWhole, FlushReturns, Send, Returns
<1>11. CASE ChunkHeader \/ ChunkData \/ StreamEnd
  BY <1>11 DEF ChunkHeader, ChunkData, StreamEnd, Goes, Send, response, stream
<1>12. CASE ChunkEnd
  BY <1>12 DEF ChunkEnd, FlushReturns, Goes, Send, Returns
<1>13. CASE EndReturns
  BY <1>13 DEF EndReturns, Returns, stream
<1>14. CASE WritePage
  BY <1>14 DEF WritePage, Returns
<1>15. CASE SendFails
  BY <1>15 DEF SendFails
<1>16. CASE UNCHANGED vars
  BY <1>16 DEF vars, response, stream, control
<1>17. QED
  BY <1>1, <1>2, <1>3, <1>4, <1>5, <1>6, <1>7, <1>8, <1>9, <1>10, <1>11, <1>12, <1>13,
     <1>14, <1>15, <1>16 DEF Next, Caller, ResponseStep

\* What waits in the buffer between two calls is bounded by its limit.
THEOREM MemoryIsBounded == Spec => []MemoryBounded
<1>1. MemInv => MemoryBounded
  BY DEF MemInv, MemoryBounded
<1>2. QED  BY <1>1, MemInit, MemNext, ResponseTyped, PTL DEF Spec
=============================================================================
