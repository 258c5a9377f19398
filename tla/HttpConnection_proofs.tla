----------------------- MODULE HttpConnection_proofs ------------------------
(***************************************************************************)
(* Theorems about HttpConnection for any site, any requests and any size   *)
(* of the buffer.  The invariant has five parts: the types, the context of *)
(* the request, the order in which headers are on the wire, the contents   *)
(* of the answers and the framing of what is not received yet.  The last   *)
(* section is about the paths of a site alone: where its links lead.       *)
(***************************************************************************)
EXTENDS HttpConnection, DataLemmas

Answers == [status : Nat, headersSent : BOOLEAN, finished : BOOLEAN,
            length : Nat \cup {NoLength}, body : Nat]
Units == [request : 1..Len(sent), part : {"header", "body"}]
ContextFields == {"path", "mapped", "dir", "file", "handlers", "document", "left"}

Received == pc \notin {"init", "closed"}

Typed ==
  /\ sent \in Seq(Requests)
  /\ wire \in Seq(Units)
  /\ clientOpen \in BOOLEAN /\ pipelined \in BOOLEAN /\ changed \in BOOLEAN
  /\ pc \in Pcs
  /\ current \in 0..Len(sent)
  /\ Received => current > 0
  /\ answers \in Seq(Answers) /\ Len(answers) = Len(sent)
  /\ stream \in [buffered : Seq(Units), loaded : Nat]

ContextInv ==
  /\ DOMAIN context = ContextFields
  /\ context.document \in BOOLEAN
  /\ pc \in {"request", "target"} => ~context.document
  /\ \/ pc \in {"file", "send"}
     \/ pc \in {"handlers", "handler"} /\ context.document
     => context.file \in DOMAIN Files
  /\ pc = "send" => context.left \in Nat

\* Headers come once and in order, and an answer is begun when its request is received.
OrderInv ==
  /\ \A i \in 1..Len(wire) : wire[i].part = "header" => wire[i].request > current
  /\ \A i, j \in 1..Len(wire) :
       i < j /\ wire[i].part = "header" /\ wire[j].part = "header" =>
         wire[i].request < wire[j].request
  /\ \A i \in 1..Len(sent) : i > current => answers[i] = NoAnswer

\* What is written is what is declared, at each place of the worker.
Whole(i) == answers[i].length # NoLength => answers[i].length = answers[i].body

ContentInv ==
  /\ pc \in {"request", "target", "handlers", "resource", "directory", "file"} =>
       answer = NoAnswer
  /\ pc = "handler" => Whole(current) /\ (~answer.finished => answer.length = NoLength)
  /\ ~changed =>
       /\ pc = "send" => answer.length = answer.body + context.left
       /\ pc \in {"finish", "next", "init"} /\ current > 0 => Whole(current)
       /\ pc # "closed" => \A i \in 1..current - 1 : Whole(i)

\* Without pipelining: what is not received is the rest of the current body, n
\* bytes, and then maybe the next request.
NextSent == Len(sent) > current

Framed(n) ==
  /\ \A i \in 1..n : wire[i] = BodyByte(current)
  /\ current = 0 => n = 0
  /\ current > 0 =>
       /\ n + Len(stream.buffered) + stream.loaded <= request.length
       /\ clientOpen \/ NextSent =>
            n + Len(stream.buffered) + stream.loaded = request.length
       /\ \A i \in 1..Len(stream.buffered) : stream.buffered[i] = BodyByte(current)
  /\ ~NextSent => n = Len(wire)
  /\ NextSent =>
       /\ n < Len(wire) /\ wire[n + 1] = Header(current + 1)
       /\ \A i \in n + 2..Len(wire) : wire[i] = BodyByte(current + 1)
       /\ Len(wire) - n - 1 <= sent[current + 1].length
       /\ clientOpen => Len(wire) - n - 1 = sent[current + 1].length

FramingInv ==
  /\ pc \in {"init", "next"} /\ current > 0 => IsRead /\ Answered(current)
  /\ ~pipelined =>
       /\ \A i \in 1..Len(sent) - 1 : Answered(i)
       /\ pc # "closed" => \E n \in 0..Len(wire) : Framed(n)

IInv == Typed /\ ContextInv /\ OrderInv /\ ContentInv /\ FramingInv
-----------------------------------------------------------------------------
\* Answer(new) changes the answer to the current request only.
LEMMA AnswerStep ==
  ASSUME Typed, current > 0, NEW new \in Answers, Answer(new)
  PROVE  /\ answers' \in Seq(Answers) /\ Len(answers') = Len(answers)
         /\ \A i \in 1..Len(sent) : answers'[i] = IF i = current THEN new ELSE answers[i]
  <1>1. current \in 1..Len(answers)
    BY DEF Typed
  <1> QED BY <1>1, ExceptSeq DEF Answer, Typed

\* Once a request is received, there is an answer to it.
LEMMA AnswerTyped ==
  ASSUME Typed, current > 0
  PROVE  answer \in Answers
  BY DEF Typed, answer

\* What Typed says of the numbers and of what is on the wire.
LEMMA Lengths ==
  ASSUME Typed
  PROVE  /\ Len(sent) \in Nat /\ Len(wire) \in Nat /\ Len(stream.buffered) \in Nat
         /\ stream.loaded \in Nat /\ current \in Nat /\ current <= Len(sent)
         /\ current > 0 => request.length \in Nat
         /\ \A i \in 1..Len(sent) : sent[i] \in Requests /\ sent[i].length \in Nat
         /\ \A i \in 1..Len(wire) : wire[i].request \in Nat /\ wire[i].request <= Len(sent)
  <1>1. Len(sent) \in Nat /\ Len(wire) \in Nat /\ Len(stream.buffered) \in Nat
    BY LenProperties DEF Typed
  <1>2. stream.loaded \in Nat /\ current \in Nat /\ current <= Len(sent)
    BY <1>1 DEF Typed
  <1>3. \A i \in 1..Len(sent) : sent[i] \in Requests /\ sent[i].length \in Nat
    BY ElementOfSeq, HttpConnectionAssumption DEF Typed
  <1>4. \A i \in 1..Len(wire) : wire[i] \in Units
    BY ElementOfSeq DEF Typed
  <1>5. \A i \in 1..Len(wire) : wire[i].request \in Nat /\ wire[i].request <= Len(sent)
    BY <1>1, <1>4 DEF Units
  <1> QED BY <1>1, <1>2, <1>3, <1>5 DEF request

\* writeCompleteResponse answers whole, or finds an answer begun and throws.
LEMMA PageStep ==
  ASSUME Typed, current > 0, NEW status \in Nat, NEW next, Page(status, next)
  PROVE  \/ pc' = "closed" /\ answers' = answers
         \/ /\ pc' = next /\ ~answer.finished
            /\ Answer([status |-> status, headersSent |-> TRUE, finished |-> TRUE,
                       length |-> 1, body |-> 1])
            /\ [status |-> status, headersSent |-> TRUE, finished |-> TRUE,
                       length |-> 1, body |-> 1] \in Answers
  BY AnswerTyped DEF Page, Answers

\* The listing of a directory is written before the answer ends.
LEMMA ListingTyped ==
  ASSUME NEW a \in Answers
  PROVE  /\ [a EXCEPT !.status = 200, !.body = 1] \in Answers
         /\ [a EXCEPT !.status = 200, !.body = 1].headersSent = a.headersSent
  <1>1. ASSUME NEW b \in Answers
        PROVE  /\ [b EXCEPT !.status = 200] \in Answers
               /\ [b EXCEPT !.status = 200].headersSent = b.headersSent
    BY DEF Answers
  <1>2. ASSUME NEW b \in Answers
        PROVE  /\ [b EXCEPT !.body = 1] \in Answers
               /\ [b EXCEPT !.body = 1].headersSent = b.headersSent
    BY DEF Answers
  <1> DEFINE half == [a EXCEPT !.status = 200]
  <1>3. half \in Answers /\ half.headersSent = a.headersSent
    BY <1>1
  <1> HIDE DEF half
  <1>4. [half EXCEPT !.body = 1] \in Answers
        /\ [half EXCEPT !.body = 1].headersSent = a.headersSent
    BY <1>2, <1>3
  <1> QED BY <1>4 DEF half

\* Response.end() finishes the answer, and declares its length when the header is still there.
LEMMA EndedTyped ==
  ASSUME NEW a \in Answers
  PROVE  /\ Ended(a) \in Answers /\ Ended(a).finished /\ Ended(a).body = a.body
         /\ Ended(a).length = IF a.headersSent THEN a.length ELSE a.body
  BY DEF Ended, Answers
-----------------------------------------------------------------------------
(* The steps after a request was received that receive nothing. *)

Middle == \/ CheckMethod \/ FindTarget \/ RunHandlers \/ FindResource \/ ProcessDirectory
          \/ OpenFile \/ SendFile \/ Finish
          \/ HandlerWrites \/ HandlerEnds \/ HandlerReturns \/ HandlerThrows

\* They change the answer to the current request at most, and only finish it.
AnswerKept ==
  \/ answers' = answers
  \/ \E new \in Answers : Answer(new) /\ (answer.finished => new.finished)

\* An answer that is not touched is kept.
LEMMA SameKept ==
  ASSUME UNCHANGED answers
  PROVE  AnswerKept
  BY DEF AnswerKept

\* An answer that is changed and stays finished when it was is kept.
LEMMA NewKept ==
  ASSUME NEW new \in Answers, Answer(new), answer.finished => new.finished
  PROVE  AnswerKept
  BY DEF AnswerKept

\* Page only finishes the answer, and goes on or closes.
LEMMA PageKept ==
  ASSUME Typed, current > 0, NEW status \in Nat, NEW next, Page(status, next)
  PROVE  AnswerKept /\ pc' \in {next, "closed"}
  BY PageStep DEF AnswerKept

\* ServerError only finishes the answer, and goes on or closes.
LEMMA ErrorKept ==
  ASSUME Typed, current > 0, NEW next, ServerError(next)
  PROVE  AnswerKept /\ pc' \in {next, "closed"}
  <1>1. CASE answer.headersSent /\ ~answer.finished
    <2>1. [answer EXCEPT !.body = @ + 1] \in Answers
      BY AnswerTyped DEF Answers
    <2> QED BY <1>1, <2>1, EndedTyped DEF ServerError, AnswerKept
  <1>2. CASE ~(answer.headersSent /\ ~answer.finished)
    BY <1>2, PageKept DEF ServerError
  <1> QED BY <1>1, <1>2

\* What follows SendFile, with its local definitions.
LEMMA SendFileStep ==
  ASSUME Typed, ContextInv, SendFile
  PROVE  \E bytes \in Nat, part \in Nat :
           /\ bytes = IF part < context.left THEN part ELSE context.left
           /\ Answer([answer EXCEPT !.body = @ + bytes,
                        !.headersSent = (@ \/ answer.body + bytes >= BufferSize)])
           /\ [answer EXCEPT !.body = @ + bytes,
                  !.headersSent = (@ \/ answer.body + bytes >= BufferSize)] \in Answers
           /\ context' = [context EXCEPT !.left = @ - bytes]
           /\ pc' = IF bytes < part THEN "finish" ELSE "send"
  <1> DEFINE size  == Files[context.file].size
             part  == IF size < BufferSize THEN size ELSE BufferSize
             bytes == IF part < context.left THEN part ELSE context.left
  <1>1. size \in Nat /\ context.left \in Nat
    BY RequestTargetAssumption DEF ContextInv, SendFile
  <1>2. part \in Nat /\ bytes \in Nat
    BY <1>1, HttpConnectionAssumption
  <1>3. answer \in Answers
    BY AnswerTyped DEF Typed, Received, SendFile
  <1> HIDE DEF size
  <1>4. [answer EXCEPT !.body = @ + bytes,
           !.headersSent = (@ \/ answer.body + bytes >= BufferSize)] \in Answers
    <2> DEFINE body    == answer.body + bytes
               leaves  == answer.headersSent \/ answer.body + bytes >= BufferSize
    <2>1. body \in Nat /\ leaves \in BOOLEAN
      BY <1>2, <1>3 DEF Answers
    <2> HIDE DEF body, leaves
    <2>2. [answer EXCEPT !.body = body, !.headersSent = leaves] \in Answers
      BY <1>3, <2>1 DEF Answers
    <2> QED BY <2>2 DEF body, leaves
  <1>5. /\ Answer([answer EXCEPT !.body = @ + bytes,
                     !.headersSent = (@ \/ answer.body + bytes >= BufferSize)])
        /\ context' = [context EXCEPT !.left = @ - bytes]
        /\ pc' = IF bytes < part THEN "finish" ELSE "send"
    BY DEF SendFile, size
  <1> HIDE DEF part, bytes
  <1> QED BY <1>2, <1>4, <1>5 DEF bytes

\* What a handler's write changes of an answer.
LEMMA ChangedTyped ==
  ASSUME NEW a \in Answers, NEW status \in Nat, NEW body \in Nat, NEW leaves \in BOOLEAN
  PROVE  [a EXCEPT !.status = status, !.body = body, !.headersSent = leaves] \in Answers
  BY DEF Answers

\* What follows HandlerWrites, with a name for what it computes.
LEMMA HandlerWritesStep ==
  ASSUME Typed, HandlerWrites
  PROVE  \E status \in Nat, leaves \in BOOLEAN :
           /\ Answer([answer EXCEPT !.status = status, !.body = @ + 1, !.headersSent = leaves])
           /\ [answer EXCEPT !.status = status, !.body = @ + 1, !.headersSent = leaves]
                \in Answers
  <1>1. answer \in Answers
    BY AnswerTyped DEF Typed, Received, HandlerWrites
  <1> DEFINE leaves == answer.headersSent \/ answer.body + 1 >= BufferSize
  <1>2. leaves \in BOOLEAN
    BY <1>1 DEF Answers
  <1>3. PICK status \in {answer.status, 200} :
          Answer([answer EXCEPT !.status = status, !.body = @ + 1, !.headersSent = leaves])
    BY DEF HandlerWrites
  <1> HIDE DEF leaves
  <1>4. status \in Nat /\ answer.body + 1 \in Nat
    BY <1>1 DEF Answers
  <1>5. [answer EXCEPT !.status = status, !.body = @ + 1, !.headersSent = leaves] \in Answers
    BY <1>1, <1>2, <1>4, ChangedTyped
  <1> QED BY <1>2, <1>3, <1>4, <1>5

\* What follows OpenFile: a page, or a length declared and as much left to send.
LEMMA OpenFileStep ==
  ASSUME Typed, ContextInv, OpenFile
  PROVE  \/ (\E status \in Nat : Page(status, "finish")) /\ UNCHANGED context
         \/ \E status \in Nat, length \in Nat :
              /\ Answer([answer EXCEPT !.status = status, !.length = length])
              /\ [answer EXCEPT !.status = status, !.length = length] \in Answers
              /\ context' = [context EXCEPT !.left = length]
              /\ pc' = "send" \/ (pc' = "finish" /\ length = 0)
  <1>1. answer \in Answers
    BY AnswerTyped DEF Typed, Received, OpenFile
  <1>2. CASE request.method = "POST" \/ ~Files[context.file].readable
    <2>1. (Page(405, "finish") \/ Page(403, "finish")) /\ UNCHANGED context
      BY <1>2 DEF OpenFile
    <2>2. \E status \in Nat : Page(status, "finish")
      BY <2>1, 403 \in Nat, 405 \in Nat, Zenon
    <2> QED BY <2>1, <2>2
  <1>3. CASE ~(request.method = "POST" \/ ~Files[context.file].readable)
    <2> DEFINE status == IF request.unmodified THEN 304 ELSE 200
               length == IF status = 304 THEN 0 ELSE Files[context.file].size
    <2>1. status \in Nat /\ length \in Nat
      BY RequestTargetAssumption DEF ContextInv, OpenFile
    <2>2. /\ Answer([answer EXCEPT !.status = status, !.length = length])
          /\ context' = [context EXCEPT !.left = length]
          /\ pc' = IF status = 304 THEN "finish" ELSE "send"
      BY <1>3 DEF OpenFile
    <2> HIDE DEF status
    <2>3. pc' = "send" \/ (pc' = "finish" /\ length = 0)
      BY <2>2
    <2> HIDE DEF length
    <2>4. [answer EXCEPT !.status = status, !.length = length] \in Answers
      BY <1>1, <2>1 DEF Answers
    <2> QED BY <2>1, <2>2, <2>3, <2>4
  <1> QED BY <1>2, <1>3

\* The middle steps receive nothing, keep the answers and do not wait for a request.
LEMMA MiddleKept ==
  ASSUME Typed, ContextInv, Middle
  PROVE  /\ AnswerKept /\ UNCHANGED <<client, wire, current, changed, stream>>
         /\ Received /\ pc' \in Pcs \ {"init"}
  <1> USE DEF Pcs, Received
  <1>0. Received => current > 0 /\ answer \in Answers
    BY AnswerTyped DEF Typed
  <1>1. CASE CheckMethod
    <2>1. \/ pc' \in {"closed", "target"} /\ UNCHANGED answers
          \/ Page(501, "closed")
      BY <1>1 DEF CheckMethod
    <2>2. current > 0
      BY <1>0, <1>1 DEF CheckMethod
    <2>3. Page(501, "closed") => AnswerKept /\ pc' \in {"closed"}
      BY <2>2, PageKept
    <2>4. AnswerKept /\ pc' \in {"closed", "target"}
      BY <2>1, <2>3, SameKept
    <2> QED BY <1>1, <2>4 DEF CheckMethod
  <1>2. CASE FindTarget
    <2>1. Page(404, "finish") \/ (UNCHANGED answers /\ pc' \in {"closed", "handlers"})
      BY <1>2 DEF FindTarget
    <2>2. pc = "target" /\ current > 0
      BY <1>0, <1>2 DEF FindTarget
    <2>3. Page(404, "finish") => AnswerKept /\ pc' \in {"finish", "closed"}
      BY <2>2, PageKept
    <2>4. AnswerKept /\ pc' \in {"finish", "closed", "handlers"}
      BY <2>1, <2>3, SameKept
    <2>5. UNCHANGED <<client, wire, current, changed, stream>>
      BY <1>2 DEF FindTarget
    <2> QED BY <2>2, <2>4, <2>5
  <1>3. CASE RunHandlers
    BY <1>0, <1>3, SameKept DEF RunHandlers
  <1>4. CASE FindResource
    BY <1>0, <1>4, PageKept, SameKept DEF FindResource
  <1>5. CASE ProcessDirectory
    <2>0. answer \in Answers
      BY <1>0, <1>5 DEF ProcessDirectory
    <2>1. [answer EXCEPT !.status = 200, !.body = 1] \in Answers
      BY <2>0, ListingTyped
    <2>2. ListingStatus(context.dir, request.method, request.charset) \in Nat
      BY DEF ListingStatus
    <2>3. Answer(Ended([answer EXCEPT !.status = 200, !.body = 1])) => AnswerKept
      BY <2>1, EndedTyped, NewKept
    <2>4. \/ pc' = "handlers" /\ UNCHANGED answers
          \/ Page(ListingStatus(context.dir, request.method, request.charset), "finish")
          \/ Answer(Ended([answer EXCEPT !.status = 200, !.body = 1])) /\ pc' = "finish"
      BY <1>5 DEF ProcessDirectory
    <2>5. AnswerKept /\ pc' \in {"handlers", "finish", "closed"}
      BY <1>0, <1>5, <2>2, <2>3, <2>4, PageKept, SameKept DEF ProcessDirectory
    <2> QED BY <1>5, <2>5 DEF ProcessDirectory
  <1>6. CASE OpenFile
    <2>1. ASSUME NEW status \in Nat, NEW length \in Nat,
                 Answer([answer EXCEPT !.status = status, !.length = length]),
                 [answer EXCEPT !.status = status, !.length = length] \in Answers
          PROVE  AnswerKept
      <3>1. [answer EXCEPT !.status = status, !.length = length].finished = answer.finished
        BY <1>0, <1>6 DEF OpenFile, Answers
      <3> QED BY <2>1, <3>1, NewKept
    <2>2. pc = "file" /\ UNCHANGED <<client, wire, current, changed, stream>>
      BY <1>6 DEF OpenFile
    <2>3. AnswerKept /\ pc' \in {"send", "finish", "closed"}
      BY <1>0, <1>6, <2>1, <2>2, OpenFileStep, PageKept
    <2> QED BY <2>2, <2>3
  <1>7. CASE SendFile
    <2>1. PICK bytes \in Nat, leaves \in BOOLEAN :
            /\ Answer([answer EXCEPT !.body = @ + bytes, !.headersSent = leaves])
            /\ [answer EXCEPT !.body = @ + bytes, !.headersSent = leaves] \in Answers
      BY <1>7, SendFileStep
    <2>2. [answer EXCEPT !.body = @ + bytes, !.headersSent = leaves].finished
            = answer.finished
      BY <1>0, <1>7 DEF SendFile, Answers
    <2>3. AnswerKept
      BY <2>1, <2>2, NewKept
    <2> QED BY <1>0, <1>7, <2>3 DEF SendFile
  <1>8. CASE Finish
    <2>1. Answer(Ended(answer)) => AnswerKept
      BY <1>0, <1>8, EndedTyped, NewKept DEF Finish
    <2> QED BY <1>0, <1>8, <2>1, PageKept, ErrorKept, SameKept DEF Finish
  <1>9. CASE HandlerWrites
    <2>1. PICK status \in Nat, leaves \in BOOLEAN :
            /\ Answer([answer EXCEPT !.status = status, !.body = @ + 1,
                        !.headersSent = leaves])
            /\ [answer EXCEPT !.status = status, !.body = @ + 1, !.headersSent = leaves]
                 \in Answers
      BY <1>9, HandlerWritesStep
    <2>2. [answer EXCEPT !.status = status, !.body = @ + 1, !.headersSent = leaves].finished
            = answer.finished
      BY <1>0, <1>9 DEF HandlerWrites, Answers
    <2>3. AnswerKept
      BY <2>1, <2>2, NewKept
    <2> QED BY <1>0, <1>9, <2>3 DEF HandlerWrites
  <1>10. CASE HandlerEnds
    <2>1. [answer EXCEPT !.status = 200] \in Answers
      BY <1>0, <1>10 DEF HandlerEnds, Answers
    <2>2. AnswerKept
      BY <1>10, <2>1, EndedTyped, NewKept DEF HandlerEnds
    <2> QED BY <1>0, <1>10, <2>2 DEF HandlerEnds
  <1>11. CASE HandlerReturns
    BY <1>0, <1>11, SameKept DEF HandlerReturns
  <1>12. CASE HandlerThrows
    BY <1>0, <1>12, ErrorKept DEF HandlerThrows
  <1> QED BY <1>1, <1>2, <1>3, <1>4, <1>5, <1>6, <1>7, <1>8, <1>9, <1>10, <1>11, <1>12
          DEF Middle
-----------------------------------------------------------------------------
(* Types. *)

\* One unit and a tail appended to a sequence.
LEMMA ConcatOne ==
  ASSUME NEW S, NEW s \in Seq(S), NEW head \in S, NEW t \in Seq(S),
         NEW v, v = s \o <<head>> \o t
  PROVE  /\ v \in Seq(S) /\ Len(v) = Len(s) + 1 + Len(t)
         /\ \A i \in 1..Len(s) : v[i] = s[i]
         /\ v[Len(s) + 1] = head
         /\ \A i \in Len(s) + 2..Len(s) + 1 + Len(t) : v[i] = t[i - (Len(s) + 1)]
  <1> DEFINE u == s \o <<head>>
  <1>1. Len(s) \in Nat /\ Len(t) \in Nat
    BY LenProperties
  <1>2. <<head>> \in Seq(S) /\ Len(<<head>>) = 1 /\ <<head>>[1] = head
    OBVIOUS
  <1>3. /\ u \in Seq(S) /\ Len(u) = Len(s) + 1
        /\ \A i \in 1..Len(s) + 1 : u[i] = IF i <= Len(s) THEN s[i] ELSE <<head>>[i - Len(s)]
    BY <1>2, ConcatProperties
  <1>4. \A x \in Seq(S) :
          /\ x \o t \in Seq(S) /\ Len(x \o t) = Len(x) + Len(t)
          /\ \A i \in 1..Len(x) + Len(t) : (x \o t)[i] = IF i <= Len(x) THEN x[i] ELSE t[i - Len(x)]
    BY ConcatProperties
  <1>6. v = u \o t
    OBVIOUS
  <1> HIDE DEF u
  <1>5. /\ v \in Seq(S) /\ Len(v) = Len(s) + 1 + Len(t)
        /\ \A i \in 1..Len(s) : v[i] = s[i]
        /\ v[Len(s) + 1] = head
        /\ \A i \in Len(s) + 2..Len(s) + 1 + Len(t) : v[i] = t[i - (Len(s) + 1)]
    <2>1. /\ v \in Seq(S) /\ Len(v) = Len(u) + Len(t)
          /\ \A i \in 1..Len(u) + Len(t) : v[i] = IF i <= Len(u) THEN u[i] ELSE t[i - Len(u)]
      BY <1>3, <1>4, <1>6
    <2> QED BY <1>1, <1>2, <1>3, <2>1
  <1> QED BY <1>5

\* The bytes of body a client sends at once.
LEMMA BytesSent ==
  ASSUME NEW U, NEW byte \in U, NEW k \in Nat
  PROVE  /\ [i \in 1..k |-> byte] \in Seq(U) /\ Len([i \in 1..k |-> byte]) = k
         /\ \A i \in 1..k : [j \in 1..k |-> byte][i] = byte
  <1> DEFINE tail == [i \in 1..k |-> byte]
  <1>1. tail \in Seq(U)
    BY IsASeq
  <1>2. DOMAIN tail = 1..Len(tail) /\ Len(tail) \in Nat
    BY <1>1, LenProperties
  <1> QED BY <1>1, <1>2

\* What is sent when the client sends a request: its header and a tail of body.
LEMMA SendsWire ==
  ASSUME Typed, NEW r \in Requests, sent' = Append(sent, r),
         NEW tail \in Seq(Units'), \A i \in 1..Len(tail) : tail[i] = BodyByte(Len(sent) + 1),
         wire' = wire \o <<Header(Len(sent) + 1)>> \o tail
  PROVE  /\ sent' \in Seq(Requests) /\ Len(sent') = Len(sent) + 1
         /\ sent'[Len(sent) + 1] = r
         /\ \A i \in 1..Len(sent) : sent'[i] = sent[i]
         /\ wire' \in Seq(Units') /\ Len(wire') = Len(wire) + 1 + Len(tail)
         /\ \A i \in 1..Len(wire) : wire'[i] = wire[i]
         /\ wire'[Len(wire) + 1] = Header(Len(sent) + 1)
         /\ \A i \in Len(wire) + 2..Len(wire') : wire'[i] = BodyByte(Len(sent) + 1)
  <1>1. /\ sent' \in Seq(Requests) /\ Len(sent') = Len(sent) + 1
        /\ sent'[Len(sent) + 1] = r
        /\ \A i \in 1..Len(sent) : sent'[i] = sent[i]
    BY AppendProperties DEF Typed
  <1>2. Len(sent) \in Nat
    BY LenProperties DEF Typed
  <1> DEFINE n == Len(sent) + 1
             h == Header(n)
             U == [request : 1..n, part : {"header", "body"}]
  <1>3. h \in U
    BY <1>2 DEF Header
  <1>4. Units \subseteq U /\ Units' = U
    BY <1>1, <1>2 DEF Units
  <1>5. wire \in Seq(U) /\ tail \in Seq(U)
    BY <1>4, SeqMonotonic DEF Typed
  <1>6. wire' = wire \o <<h>> \o tail
    OBVIOUS
  <1> HIDE DEF U, n, h
  <1>8. /\ wire' \in Seq(U) /\ Len(wire') = Len(wire) + 1 + Len(tail)
        /\ \A i \in 1..Len(wire) : wire'[i] = wire[i]
        /\ wire'[Len(wire) + 1] = h
        /\ \A i \in Len(wire) + 2..Len(wire) + 1 + Len(tail) :
             wire'[i] = tail[i - (Len(wire) + 1)]
    BY <1>3, <1>5, <1>6, ConcatOne
  <1>9. Len(wire) \in Nat /\ Len(tail) \in Nat
    BY <1>5, LenProperties
  <1>10. \A i \in Len(wire) + 2..Len(wire') : wire'[i] = BodyByte(n)
    BY <1>8, <1>9 DEF n
  <1> QED BY <1>1, <1>4, <1>8, <1>10 DEF n, h

\* What is left of a sequence when its first units are taken.
LEMMA DropFirst ==
  ASSUME NEW S, NEW s \in Seq(S), NEW k \in 0..Len(s)
  PROVE  /\ SubSeq(s, k + 1, Len(s)) \in Seq(S)
         /\ Len(SubSeq(s, k + 1, Len(s))) = Len(s) - k
         /\ \A i \in 1..Len(s) - k : SubSeq(s, k + 1, Len(s))[i] = s[i + k]
  <1>1. Len(s) \in Nat /\ \A i \in k + 1..Len(s) : s[i] \in S
    BY LenProperties, ElementOfSeq
  <1> QED BY <1>1, SubSeqProperties

\* The body that comes with a header.
LEMMA TakeBody ==
  ASSUME NEW S, NEW s \in Seq(S), NEW k \in 1..Len(s)
  PROVE  /\ SubSeq(s, 2, k) \in Seq(S)
         /\ Len(SubSeq(s, 2, k)) = k - 1
         /\ \A i \in 1..k - 1 : SubSeq(s, 2, k)[i] = s[i + 1]
  <1>1. Len(s) \in Nat /\ \A i \in 2..k : s[i] \in S
    BY LenProperties, ElementOfSeq
  <1> QED BY <1>1, SubSeqProperties
-----------------------------------------------------------------------------
\* Keeping the answer leaves the others alone and none unfinished.
LEMMA AnswersAfter ==
  ASSUME Typed, current > 0, AnswerKept
  PROVE  /\ answers' \in Seq(Answers) /\ Len(answers') = Len(sent)
         /\ \A i \in 1..Len(sent) : i # current => answers'[i] = answers[i]
         /\ \A i \in 1..Len(sent) : Answered(i) => answers'[i].finished
  <1>1. CASE answers' = answers
    BY <1>1 DEF Typed, Answered
  <1>2. ASSUME NEW new \in Answers, Answer(new), answer.finished => new.finished
        PROVE  /\ answers' \in Seq(Answers) /\ Len(answers') = Len(sent)
               /\ \A i \in 1..Len(sent) : i # current => answers'[i] = answers[i]
               /\ \A i \in 1..Len(sent) : Answered(i) => answers'[i].finished
    <2>1. /\ answers' \in Seq(Answers) /\ Len(answers') = Len(answers)
          /\ \A i \in 1..Len(sent) : answers'[i] = IF i = current THEN new ELSE answers[i]
      BY <1>2, AnswerStep
    <2> QED BY <1>2, <2>1 DEF Typed, Answered, answer
  <1> QED BY <1>1, <1>2 DEF AnswerKept

\* The middle steps keep the types.
LEMMA MiddleTyped ==
  ASSUME Typed, ContextInv, Middle
  PROVE  Typed'
  <1>1. /\ AnswerKept /\ UNCHANGED <<sent, clientOpen, pipelined, wire, current, changed, stream>>
        /\ Received /\ pc' \in Pcs \ {"init"}
    BY MiddleKept DEF client
  <1>2. current > 0
    BY <1>1 DEF Typed
  <1>3. answers' \in Seq(Answers) /\ Len(answers') = Len(sent)
    BY <1>1, <1>2, AnswersAfter
  <1>4. UNCHANGED Units
    BY <1>1 DEF Units
  <1> QED BY <1>1, <1>2, <1>3, <1>4 DEF Typed

\* The middle steps keep the order of headers and answers.
LEMMA MiddleOrder ==
  ASSUME Typed, ContextInv, OrderInv, Middle
  PROVE  OrderInv'
  <1>1. /\ AnswerKept /\ UNCHANGED <<sent, wire, current>> /\ current > 0
    BY MiddleKept DEF client, Typed
  <1>2. \A i \in 1..Len(sent) : i # current => answers'[i] = answers[i]
    BY <1>1, AnswersAfter
  <1> QED BY <1>1, <1>2 DEF OrderInv, Typed

\* Finish is the only step to "next", and it has read the body and ended the answer.
LEMMA FinishEnds ==
  ASSUME Typed, ContextInv, Middle, pc' = "next"
  PROVE  IsRead /\ Answered(current)'
  <1>1. current > 0 /\ answer \in Answers /\ current \in 1..Len(sent)
    BY MiddleKept, AnswerTyped DEF Typed
  <1>2. CASE Finish
    <2>1. CASE ~IsRead /\ ServerError("closed")
      BY <1>1, <2>1, ErrorKept
    <2>2. CASE IsRead /\ answer.finished /\ UNCHANGED answers
      BY <1>2, <2>2 DEF Answered, answer, Finish
    <2>3. CASE IsRead /\ Page(404, "next")
      <3> DEFINE new == [status |-> 404, headersSent |-> TRUE, finished |-> TRUE,
                         length |-> 1, body |-> 1]
      <3>1. pc' = "next" /\ Answer(new) /\ new \in Answers
        BY <1>1, <2>3, PageStep
      <3>2. new.finished
        OBVIOUS
      <3> HIDE DEF new
      <3>3. answers'[current] = new
        BY <1>1, <3>1, AnswerStep
      <3>4. current' = current
        BY <1>2 DEF Finish
      <3> QED BY <2>3, <3>2, <3>3, <3>4 DEF Answered
    <2>4. CASE IsRead /\ Answer(Ended(answer))
      <3>1. Ended(answer) \in Answers /\ Ended(answer).finished
        BY <1>1, EndedTyped
      <3>2. answers'[current] = Ended(answer)
        BY <1>1, <2>4, <3>1, AnswerStep
      <3>3. current' = current
        BY <1>2 DEF Finish
      <3> QED BY <2>4, <3>1, <3>2, <3>3 DEF Answered
    <2> QED BY <1>2, <2>1, <2>2, <2>3, <2>4 DEF Finish
  <1>3. CASE Middle /\ ~Finish
    <2>1. \A status \in Nat : \A next : Page(status, next) => pc' \in {next, "closed"}
      BY <1>1, PageKept
    <2>2. CheckMethod \/ FindTarget \/ RunHandlers \/ FindResource => pc' # "next"
      <3>1. Page(501, "closed") => pc' \in {"closed"}
        BY <1>1, PageKept
      <3>2. \A status \in {302, 404} : Page(status, "finish") => pc' \in {"finish", "closed"}
        BY <1>1, PageKept
      <3>3. CheckMethod => pc' # "next"
        BY <3>1 DEF CheckMethod
      <3>4. FindTarget => pc' # "next"
        BY <3>2 DEF FindTarget
      <3>5. RunHandlers \/ FindResource => pc' # "next"
        BY <3>2 DEF RunHandlers, FindResource
      <3> QED BY <3>3, <3>4, <3>5
    <2>3. ProcessDirectory => pc' # "next"
      <3>1. ListingStatus(context.dir, request.method, request.charset) \in Nat
        BY DEF ListingStatus
      <3> QED BY <2>1, <3>1 DEF ProcessDirectory
    <2>4. OpenFile \/ SendFile => pc' # "next"
      BY <2>1, OpenFileStep DEF SendFile
    <2>5. HandlerWrites \/ HandlerEnds \/ HandlerReturns => pc' # "next"
      BY DEF HandlerWrites, HandlerEnds, HandlerReturns
    <2>6. HandlerThrows => pc' # "next"
      BY <1>1, ErrorKept DEF HandlerThrows
    <2> QED BY <1>3, <2>2, <2>3, <2>4, <2>5, <2>6 DEF Middle
  <1> QED BY <1>2, <1>3

\* What is not received and what is buffered stay framed when nothing moves.
LEMMA FramedKept ==
  ASSUME UNCHANGED <<client, wire, current, stream>>, NEW n, Framed(n)
  PROVE  Framed(n)'
  BY DEF Framed, NextSent, client, request

\* The middle steps keep the framing; Finish asks for the whole body.
LEMMA MiddleFraming ==
  ASSUME Typed, ContextInv, FramingInv, Middle
  PROVE  FramingInv'
  <1>1. /\ AnswerKept /\ UNCHANGED <<client, wire, current, changed, stream>>
        /\ Received /\ pc' \in Pcs \ {"init"} /\ current > 0
    BY MiddleKept DEF Typed
  <1>2. UNCHANGED <<sent, pipelined>>
    BY <1>1 DEF client
  <1>3. pc' = "next" => (IsRead /\ Answered(current))'
    <2>1. IsRead' <=> IsRead
      BY <1>1, <1>2 DEF IsRead, request
    <2> QED BY <2>1, FinishEnds
  <1>4. \A i \in 1..Len(sent) : Answered(i) => Answered(i)'
    BY <1>1, AnswersAfter DEF Answered
  <1>5. ~pipelined => \A i \in 1..Len(sent) - 1 : Answered(i)'
    BY <1>4 DEF FramingInv, Typed
  <1>6. ~pipelined => \E n \in 0..Len(wire) : Framed(n)'
    <2>1. SUFFICES ASSUME ~pipelined PROVE \E n \in 0..Len(wire) : Framed(n)'
      OBVIOUS
    <2>2. PICK n \in 0..Len(wire) : Framed(n)
      BY <1>1, <2>1 DEF FramingInv, Received
    <2> QED BY <1>1, <2>2, FramedKept
  <1> QED BY <1>1, <1>2, <1>3, <1>5, <1>6 DEF FramingInv
-----------------------------------------------------------------------------
(* The client sends a request. *)

\* What a request adds to the wire.
LEMMA Sends ==
  ASSUME Typed, ClientSends
  PROVE  \E r \in Requests : \E bytes \in 0..r.length :
           /\ sent' \in Seq(Requests) /\ Len(sent') = Len(sent) + 1
           /\ sent'[Len(sent) + 1] = r
           /\ \A i \in 1..Len(sent) : sent'[i] = sent[i]
           /\ wire' \in Seq(Units') /\ Len(wire') = Len(wire) + 1 + bytes
           /\ \A i \in 1..Len(wire) : wire'[i] = wire[i]
           /\ wire'[Len(wire) + 1] = Header(Len(sent) + 1)
           /\ \A i \in Len(wire) + 2..Len(wire') : wire'[i] = BodyByte(Len(sent) + 1)
           /\ clientOpen' = (bytes = r.length)
  <1>1. PICK r \in Requests : \E bytes \in 0..r.length :
          /\ sent' = Append(sent, r)
          /\ wire' = wire \o <<Header(Len(sent'))>> \o [i \in 1..bytes |-> BodyByte(Len(sent'))]
          /\ clientOpen' = (bytes = r.length)
    BY DEF ClientSends
  <1>2. PICK bytes \in 0..r.length :
          /\ sent' = Append(sent, r)
          /\ wire' = wire \o <<Header(Len(sent'))>> \o [i \in 1..bytes |-> BodyByte(Len(sent'))]
          /\ clientOpen' = (bytes = r.length)
    BY <1>1
  <1>3. Len(sent') = Len(sent) + 1 /\ Len(sent) \in Nat
    BY <1>2, AppendProperties, LenProperties DEF Typed
  <1>4. bytes \in Nat
    BY HttpConnectionAssumption
  <1> DEFINE tail == [i \in 1..bytes |-> BodyByte(Len(sent) + 1)]
  <1>5. BodyByte(Len(sent) + 1) \in Units'
    BY <1>3 DEF BodyByte, Units
  <1>6. /\ tail \in Seq(Units') /\ Len(tail) = bytes
        /\ \A i \in 1..Len(tail) : tail[i] = BodyByte(Len(sent) + 1)
    BY <1>4, <1>5, BytesSent
  <1>7. wire' = wire \o <<Header(Len(sent) + 1)>> \o tail
    BY <1>2, <1>3
  <1> HIDE DEF tail
  <1>8. /\ sent' \in Seq(Requests) /\ Len(sent') = Len(sent) + 1
        /\ sent'[Len(sent) + 1] = r
        /\ \A i \in 1..Len(sent) : sent'[i] = sent[i]
        /\ wire' \in Seq(Units') /\ Len(wire') = Len(wire) + 1 + Len(tail)
        /\ \A i \in 1..Len(wire) : wire'[i] = wire[i]
        /\ wire'[Len(wire) + 1] = Header(Len(sent) + 1)
        /\ \A i \in Len(wire) + 2..Len(wire') : wire'[i] = BodyByte(Len(sent) + 1)
    BY <1>2, <1>6, <1>7, SendsWire
  <1> QED BY <1>2, <1>6, <1>8

\* A request that is sent adds an answer not begun.
LEMMA AnswersSent ==
  ASSUME Typed, ClientSends
  PROVE  /\ answers' \in Seq(Answers) /\ Len(answers') = Len(sent) + 1
         /\ \A i \in 1..Len(sent) : answers'[i] = answers[i]
         /\ answers'[Len(sent) + 1] = NoAnswer
  <1>1. NoAnswer \in Answers
    BY DEF NoAnswer, Answers, UnknownStatus
  <1>2. answers' = Append(answers, NoAnswer) /\ answers \in Seq(Answers)
        /\ Len(answers) = Len(sent)
    BY DEF Typed, ClientSends
  <1> QED BY <1>1, <1>2, AppendProperties

\* Sending keeps the types.
LEMMA SendsTyped ==
  ASSUME Typed, ClientSends
  PROVE  Typed'
  <1>1. /\ sent' \in Seq(Requests) /\ Len(sent') = Len(sent) + 1
        /\ wire' \in Seq(Units') /\ clientOpen' \in BOOLEAN
    BY Sends
  <1>2. answers' \in Seq(Answers) /\ Len(answers') = Len(sent')
    BY <1>1, AnswersSent
  <1>3. Units \subseteq Units'
    BY <1>1 DEF Units, Typed
  <1>4. stream' \in [buffered : Seq(Units'), loaded : Nat]
    BY <1>3, SeqMonotonic DEF Typed, ClientSends
  <1>5. current' \in 0..Len(sent')
    BY <1>1 DEF Typed, ClientSends
  <1>6. pipelined' \in BOOLEAN /\ UNCHANGED <<changed, pc, current>>
    BY DEF ClientSends, Typed
  <1> QED BY <1>1, <1>2, <1>4, <1>5, <1>6 DEF Typed, Received

\* Sending keeps the order: the new header comes last.
LEMMA SendsOrder ==
  ASSUME Typed, OrderInv, ClientSends
  PROVE  OrderInv'
  <1>1. PICK r \in Requests : \E bytes \in 0..r.length :
           /\ Len(sent') = Len(sent) + 1
           /\ Len(wire') = Len(wire) + 1 + bytes
           /\ \A i \in 1..Len(wire) : wire'[i] = wire[i]
           /\ wire'[Len(wire) + 1] = Header(Len(sent) + 1)
           /\ \A i \in Len(wire) + 2..Len(wire') : wire'[i] = BodyByte(Len(sent) + 1)
    BY Sends
  <1>2. PICK bytes \in 0..r.length :
           /\ Len(sent') = Len(sent) + 1
           /\ Len(wire') = Len(wire) + 1 + bytes
           /\ \A i \in 1..Len(wire) : wire'[i] = wire[i]
           /\ wire'[Len(wire) + 1] = Header(Len(sent) + 1)
           /\ \A i \in Len(wire) + 2..Len(wire') : wire'[i] = BodyByte(Len(sent) + 1)
    BY <1>1
  <1>3. /\ Len(wire) \in Nat /\ Len(sent) \in Nat /\ current \in Nat /\ current <= Len(sent)
        /\ \A i \in 1..Len(wire) : wire[i].request \in Nat /\ wire[i].request <= Len(sent)
    BY Lengths
  <1>4. bytes \in Nat /\ current' = current
    BY HttpConnectionAssumption DEF ClientSends
  <1>5. \A i \in 1..Len(wire') :
          wire'[i].part = "header" =>
            \/ i \in 1..Len(wire) /\ wire'[i] = wire[i]
            \/ i = Len(wire) + 1 /\ wire'[i].request = Len(sent) + 1
    <2>1. TAKE i \in 1..Len(wire')
    <2>2. \/ i \in 1..Len(wire) \/ i = Len(wire) + 1 \/ i \in Len(wire) + 2..Len(wire')
      BY <1>2, <1>3, <1>4
    <2> QED BY <1>2, <2>2 DEF Header, BodyByte
  <1>6. \A i \in 1..Len(sent') : i > current' => answers'[i] = NoAnswer
    <2>1. TAKE i \in 1..Len(sent')
    <2>2. i \in 1..Len(sent) \/ i = Len(sent) + 1
      BY <1>2, <1>3
    <2> QED BY <1>4, <2>2, AnswersSent DEF OrderInv
  <1>7. \A i \in 1..Len(wire') : wire'[i].part = "header" => wire'[i].request > current'
    BY <1>3, <1>4, <1>5 DEF OrderInv
  <1>8. \A i, j \in 1..Len(wire') :
          i < j /\ wire'[i].part = "header" /\ wire'[j].part = "header" =>
            wire'[i].request < wire'[j].request
    <2>1. TAKE i, j \in 1..Len(wire')
    <2>2. HAVE i < j /\ wire'[i].part = "header" /\ wire'[j].part = "header"
    <2>3. i \in 1..Len(wire) /\ wire'[i] = wire[i]
      BY <1>2, <1>3, <1>4, <1>5, <2>2
    <2>4. CASE j \in 1..Len(wire) /\ wire'[j] = wire[j]
      BY <2>2, <2>3, <2>4 DEF OrderInv
    <2>5. CASE wire'[j].request = Len(sent) + 1
      BY <1>3, <2>3, <2>5
    <2> QED BY <1>5, <2>2, <2>4, <2>5
  <1> QED BY <1>6, <1>7, <1>8 DEF OrderInv

\* When every request is answered, the last one is the current.
LEMMA AllAnswered ==
  ASSUME Typed, OrderInv, NEW n \in 0..Len(sent), \A i \in 1..n : Answered(i)
  PROVE  n <= current
  BY DEF OrderInv, Answered, NoAnswer, Typed

\* Sending without pipelining puts the next request behind the rest of the current body.
LEMMA SendsFraming ==
  ASSUME Typed, OrderInv, FramingInv, ClientSends
  PROVE  FramingInv'
  <1>1. PICK r \in Requests : \E bytes \in 0..r.length :
           /\ Len(sent') = Len(sent) + 1
           /\ sent'[Len(sent) + 1] = r
           /\ \A i \in 1..Len(sent) : sent'[i] = sent[i]
           /\ Len(wire') = Len(wire) + 1 + bytes
           /\ \A i \in 1..Len(wire) : wire'[i] = wire[i]
           /\ wire'[Len(wire) + 1] = Header(Len(sent) + 1)
           /\ \A i \in Len(wire) + 2..Len(wire') : wire'[i] = BodyByte(Len(sent) + 1)
           /\ clientOpen' = (bytes = r.length)
    BY Sends
  <1>2. PICK bytes \in 0..r.length :
           /\ Len(sent') = Len(sent) + 1
           /\ sent'[Len(sent) + 1] = r
           /\ \A i \in 1..Len(sent) : sent'[i] = sent[i]
           /\ Len(wire') = Len(wire) + 1 + bytes
           /\ \A i \in 1..Len(wire) : wire'[i] = wire[i]
           /\ wire'[Len(wire) + 1] = Header(Len(sent) + 1)
           /\ \A i \in Len(wire) + 2..Len(wire') : wire'[i] = BodyByte(Len(sent) + 1)
           /\ clientOpen' = (bytes = r.length)
    BY <1>1
  <1>3. /\ UNCHANGED <<pc, stream, current>> /\ clientOpen
        /\ current \in 0..Len(sent) /\ Len(wire) \in Nat /\ Len(sent) \in Nat
        /\ bytes \in Nat /\ r.length \in Nat
    BY HttpConnectionAssumption, LenProperties DEF ClientSends, Typed
  <1>4. \A i \in 1..Len(sent) : Answered(i)' <=> Answered(i)
    BY AnswersSent DEF Answered
  <1>5. current > 0 => request' = request
    BY <1>2, <1>3 DEF request
  <1>6. pc' \in {"init", "next"} /\ current' > 0 => (IsRead /\ Answered(current))'
    <2>1. SUFFICES ASSUME pc \in {"init", "next"}, current > 0
                   PROVE  (IsRead /\ Answered(current))'
      BY <1>3
    <2>2. IsRead /\ Answered(current) /\ current \in 1..Len(sent)
      BY <1>3, <2>1 DEF FramingInv
    <2>3. IsRead'
      BY <1>3, <1>5, <2>1, <2>2 DEF IsRead
    <2>4. Answered(current)'
      BY <1>3, <2>2, AnswersSent DEF Answered
    <2> QED BY <2>3, <2>4
  <1>7. ASSUME ~pipelined'
        PROVE  /\ \A i \in 1..Len(sent') - 1 : Answered(i)'
               /\ pc' # "closed" => (\E n \in 0..Len(wire) : Framed(n))'
    <2>1. ~pipelined /\ \A i \in 1..Len(sent) : Answered(i)
      <3>1. DOMAIN sent = 1..Len(sent)
        BY LenProperties DEF Typed
      <3>2. ~(pipelined \/ \E i \in DOMAIN sent : ~Answered(i))
        BY <1>7 DEF ClientSends, Typed
      <3> QED BY <3>1, <3>2
    <2>2. current = Len(sent)
      BY <1>3, <2>1, AllAnswered
    <2>3. \A i \in 1..Len(sent') - 1 : Answered(i)'
      BY <1>2, <1>3, <1>4, <2>1
    <2>4. ASSUME pc' # "closed" PROVE (\E n \in 0..Len(wire) : Framed(n))'
      <3>1. PICK n \in 0..Len(wire) : Framed(n)
        BY <1>3, <2>1, <2>4 DEF FramingInv
      <3>2. n = Len(wire)
        BY <1>3, <2>2, <3>1 DEF Framed, NextSent
      <3>3. \A i \in 1..n : wire'[i] = BodyByte(current)
        BY <1>2, <3>1, <3>2 DEF Framed
      <3>4. current > 0 =>
              /\ n + Len(stream.buffered) + stream.loaded = request.length
              /\ \A i \in 1..Len(stream.buffered) : stream.buffered[i] = BodyByte(current)
        BY <1>3, <3>1 DEF Framed
      <3>5. /\ n < Len(wire') /\ wire'[n + 1] = Header(current + 1)
            /\ \A i \in n + 2..Len(wire') : wire'[i] = BodyByte(current + 1)
            /\ Len(wire') - n - 1 <= sent'[current + 1].length
            /\ clientOpen' => Len(wire') - n - 1 = sent'[current + 1].length
        <4>1. /\ n < Len(wire') /\ wire'[n + 1] = Header(current + 1)
              /\ \A i \in n + 2..Len(wire') : wire'[i] = BodyByte(current + 1)
          BY <1>2, <1>3, <2>2, <3>2
        <4>2. Len(wire') - n - 1 = bytes /\ sent'[current + 1] = r
          BY <1>2, <1>3, <2>2, <3>2
        <4>3. bytes <= r.length
          BY <1>3
        <4>4. clientOpen' => bytes = r.length
          BY <1>2, Zenon
        <4> QED BY <4>1, <4>2, <4>3, <4>4
      <3>6. NextSent'
        BY <1>2, <1>3, <2>2 DEF NextSent
      <3>7. n \in 0..Len(wire')
        BY <1>2, <1>3
      <3>8. current = 0 => n = 0
        BY <3>1 DEF Framed
      <3>9. current > 0 =>
              /\ n + Len(stream'.buffered) + stream'.loaded = request'.length
              /\ \A i \in 1..Len(stream'.buffered) : stream'.buffered[i] = BodyByte(current)
        BY <1>3, <1>5, <3>4
      <3>10. Len(stream'.buffered) \in Nat /\ stream'.loaded \in Nat
        BY <1>3, LenProperties DEF Typed
      <3>11. Framed(n)'
        BY <1>3, <3>3, <3>5, <3>6, <3>8, <3>9, <3>10 DEF Framed
      <3> QED BY <3>7, <3>11
    <2> QED BY <2>3, <2>4
  <1> QED BY <1>6, <1>7 DEF FramingInv
-----------------------------------------------------------------------------
(* A request is received. *)

\* What HttpContext::init takes from the wire, and what it leaves.
LEMMA Receives ==
  ASSUME Typed, OrderInv, ContextInit
  PROVE  \E received \in 1..Len(wire) :
           /\ wire[1].part = "header" /\ wire[1].request > current
           /\ current' = wire[1].request /\ current' \in 1..Len(sent)
           /\ wire' \in Seq(Units) /\ Len(wire') = Len(wire) - received
           /\ \A i \in 1..Len(wire') : wire'[i] = wire[i + received]
           /\ stream' \in [buffered : Seq(Units), loaded : {0}]
           /\ sent[current'].length = 0 => stream'.buffered = <<>>
           /\ sent[current'].length > 0 =>
                /\ Len(stream'.buffered) = received - 1
                /\ \A i \in 1..received - 1 : stream'.buffered[i] = wire[i + 1]
  <1>1. PICK received \in 1..Len(wire) :
          /\ wire' = SubSeq(wire, received + 1, Len(wire))
          /\ stream' = [buffered |-> IF sent[Head(wire).request].length > 0
                                     THEN SubSeq(wire, 2, received) ELSE <<>>,
                        loaded   |-> 0]
    BY DEF ContextInit
  <1>2. Len(wire) \in Nat /\ wire \in Seq(Units) /\ received \in 0..Len(wire)
    BY Lengths DEF Typed
  <1>3. Head(wire) = wire[1] /\ 1 \in 1..Len(wire)
    BY <1>2, EmptySeq, HeadTailProperties DEF ContextInit
  <1>4. /\ wire[1].part = "header" /\ wire[1].request > current
        /\ current' = wire[1].request /\ current' \in 1..Len(sent)
    BY <1>3, Lengths DEF ContextInit, OrderInv
  <1>5. /\ wire' \in Seq(Units) /\ Len(wire') = Len(wire) - received
        /\ \A i \in 1..Len(wire') : wire'[i] = wire[i + received]
    BY <1>1, <1>2, DropFirst
  <1>6. sent[current'].length \in Nat
    BY <1>4, Lengths
  <1>7. /\ stream' \in [buffered : Seq(Units), loaded : {0}]
        /\ sent[current'].length = 0 => stream'.buffered = <<>>
        /\ sent[current'].length > 0 => stream'.buffered = SubSeq(wire, 2, received)
    <2> DEFINE first == SubSeq(wire, 2, received)
    <2>1. first \in Seq(Units) /\ <<>> \in Seq(Units)
      BY <1>2, TakeBody, EmptySeq
    <2>2. stream' = [buffered |-> IF sent[current'].length > 0 THEN first ELSE <<>>,
                     loaded   |-> 0]
      BY <1>1, <1>3, <1>4
    <2> HIDE DEF first
    <2>3. \/ /\ sent[current'].length = 0 /\ stream' = [buffered |-> <<>>, loaded |-> 0]
          \/ /\ sent[current'].length > 0 /\ stream' = [buffered |-> first, loaded |-> 0]
      BY <1>6, <2>2
    <2>4. \/ /\ sent[current'].length = 0 /\ stream'.buffered = <<>>
             /\ stream' \in [buffered : Seq(Units), loaded : {0}]
          \/ /\ sent[current'].length > 0 /\ stream'.buffered = first
             /\ stream' \in [buffered : Seq(Units), loaded : {0}]
      <3>1. \A x \in Seq(Units) :
              /\ [buffered |-> x, loaded |-> 0] \in [buffered : Seq(Units), loaded : {0}]
              /\ [buffered |-> x, loaded |-> 0].buffered = x
        OBVIOUS
      <3>2. CASE stream' = [buffered |-> <<>>, loaded |-> 0] /\ sent[current'].length = 0
        BY <2>1, <3>1, <3>2
      <3>3. CASE stream' = [buffered |-> first, loaded |-> 0] /\ sent[current'].length > 0
        BY <2>1, <3>1, <3>3
      <3> QED BY <2>3, <3>2, <3>3
    <2> QED BY <1>6, <2>4 DEF first
  <1>8. sent[current'].length > 0 =>
          /\ Len(stream'.buffered) = received - 1
          /\ \A i \in 1..received - 1 : stream'.buffered[i] = wire[i + 1]
    BY <1>2, <1>7, TakeBody
  <1> WITNESS received \in 1..Len(wire)
  <1> QED BY <1>4, <1>5, <1>7, <1>8

\* Receiving a request keeps the types.
LEMMA ReceivesTyped ==
  ASSUME Typed, OrderInv, ContextInit
  PROVE  Typed'
  <1>1. /\ current' \in 1..Len(sent) /\ wire' \in Seq(Units)
        /\ stream' \in [buffered : Seq(Units), loaded : {0}]
    BY Receives
  <1>2. UNCHANGED <<sent, clientOpen, pipelined, changed, answers>> /\ pc' = "request"
    BY DEF ContextInit, client
  <1>3. UNCHANGED Units
    BY <1>2 DEF Units
  <1>4. Len(sent) \in Nat
    BY Lengths
  <1>5. stream' \in [buffered : Seq(Units), loaded : Nat]
    BY <1>1
  <1>6. /\ current' \in 0..Len(sent) /\ current' > 0 /\ pc' \in Pcs
    BY <1>1, <1>2, <1>4 DEF Pcs
  <1> QED BY <1>1, <1>2, <1>3, <1>5, <1>6 DEF Typed

\* Receiving a request keeps the order: its header was the first on the wire.
LEMMA ReceivesOrder ==
  ASSUME Typed, OrderInv, ContextInit
  PROVE  OrderInv'
  <1>1. PICK received \in 1..Len(wire) :
           /\ wire[1].part = "header" /\ wire[1].request > current
           /\ current' = wire[1].request
           /\ Len(wire') = Len(wire) - received
           /\ \A i \in 1..Len(wire') : wire'[i] = wire[i + received]
    BY Receives
  <1>2. /\ Len(wire) \in Nat /\ Len(sent) \in Nat /\ current \in Nat
        /\ \A i \in 1..Len(wire) : wire[i].request \in Nat
    BY Lengths
  <1>3. \A i \in 1..Len(wire') : i + received \in 2..Len(wire)
    BY <1>1, <1>2
  <1>4. \A i \in 1..Len(wire') : wire'[i].part = "header" => wire'[i].request > current'
    BY <1>1, <1>2, <1>3 DEF OrderInv
  <1>5. \A i, j \in 1..Len(wire') :
          i < j /\ wire'[i].part = "header" /\ wire'[j].part = "header" =>
            wire'[i].request < wire'[j].request
    <2>1. TAKE i, j \in 1..Len(wire')
    <2>2. HAVE i < j /\ wire'[i].part = "header" /\ wire'[j].part = "header"
    <2>3. /\ wire'[i] = wire[i + received] /\ wire'[j] = wire[j + received]
          /\ i + received \in 1..Len(wire) /\ j + received \in 1..Len(wire)
      <3>1. wire'[i] = wire[i + received] /\ wire'[j] = wire[j + received]
        BY <1>1, <2>1
      <3>2. i + received \in 2..Len(wire) /\ j + received \in 2..Len(wire)
        BY <1>3, <2>1
      <3>3. 2..Len(wire) \subseteq 1..Len(wire)
        BY <1>2
      <3> QED BY <3>1, <3>2, <3>3
    <2>4. i + received < j + received
      BY <1>1, <1>2, <2>1, <2>2
    <2> QED BY <2>2, <2>3, <2>4 DEF OrderInv
  <1>6. \A i \in 1..Len(sent') : i > current' => answers'[i] = NoAnswer
    <2>1. answers' = answers /\ sent' = sent
      BY DEF ContextInit, client
    <2>2. current' \in Nat /\ current' > current
      BY <1>1, <1>2
    <2>3. \A i \in 1..Len(sent) : i > current' => i > current
      BY <1>2, <2>2
    <2> QED BY <2>1, <2>3 DEF OrderInv
  <1> QED BY <1>4, <1>5, <1>6 DEF OrderInv

\* Receiving a request keeps the framing: what came with the header and what is left are its body.
LEMMA ReceivesFraming ==
  ASSUME Typed, OrderInv, FramingInv, ContextInit
  PROVE  FramingInv'
  <1>1. PICK received \in 1..Len(wire) :
           /\ wire[1].part = "header" /\ wire[1].request > current
           /\ current' = wire[1].request /\ current' \in 1..Len(sent)
           /\ wire' \in Seq(Units) /\ Len(wire') = Len(wire) - received
           /\ \A i \in 1..Len(wire') : wire'[i] = wire[i + received]
           /\ stream' \in [buffered : Seq(Units), loaded : {0}]
           /\ sent[current'].length = 0 => stream'.buffered = <<>>
           /\ sent[current'].length > 0 =>
                /\ Len(stream'.buffered) = received - 1
                /\ \A i \in 1..received - 1 : stream'.buffered[i] = wire[i + 1]
    BY Receives
  <1>2. /\ UNCHANGED <<sent, clientOpen, pipelined, changed, answers>>
        /\ pc = "init" /\ pc' = "request"
    BY DEF ContextInit, client
  <1>3. /\ Len(wire) \in Nat /\ Len(sent) \in Nat /\ current \in Nat
        /\ sent[current'].length \in Nat
    BY <1>1, Lengths
  <1>4. \A i \in 1..Len(sent) : Answered(i)' <=> Answered(i)
    BY <1>2 DEF Answered
  <1>5. ASSUME ~pipelined
        PROVE  \E n \in 0..Len(wire') : Framed(n)'
    <2>1. PICK n \in 0..Len(wire) : Framed(n)
      BY <1>2, <1>5 DEF FramingInv
    <2>2. n = 0
      <3>1. n \in Nat
        OBVIOUS
      <3>2. n >= 1 => wire[1] = BodyByte(current)
        BY <2>1, <3>1 DEF Framed
      <3>3. BodyByte(current).part # "header"
        BY DEF BodyByte
      <3> QED BY <1>1, <3>1, <3>2, <3>3
    <2>3. NextSent
      BY <1>1, <1>3, <2>1, <2>2 DEF Framed
    <2>4. /\ wire[1] = Header(current + 1)
          /\ \A i \in 2..Len(wire) : wire[i] = BodyByte(current + 1)
          /\ Len(wire) - 1 <= sent[current + 1].length
          /\ clientOpen => Len(wire) - 1 = sent[current + 1].length
      BY <1>3, <2>1, <2>2, <2>3 DEF Framed
    <2>5. current' = current + 1
      BY <1>1, <2>4 DEF Header
    <2>6. current + 1 = Len(sent)
      <3>1. \A i \in 1..Len(sent) - 1 : Answered(i)
        BY <1>5 DEF FramingInv
      <3>2. Len(sent) - 1 <= current
        BY <1>3, <2>3, <3>1, AllAnswered DEF NextSent
      <3> QED BY <1>3, <2>3, <3>2 DEF NextSent
    <2>13. Len(wire) - received \in Nat
      BY <1>1, <1>3
    <2> DEFINE length == sent[current'].length
    <2>14. PICK m \in Nat : m = Len(wire) - received
      BY <2>13
    <2>7. m = Len(wire') /\ ~NextSent'
      BY <1>1, <1>2, <1>3, <2>5, <2>6, <2>14 DEF NextSent
    <2>8. \A i \in 1..m : wire'[i] = BodyByte(current')
      <3>1. \A i \in 1..m : i \in 1..Len(wire') /\ i + received \in 2..Len(wire)
        BY <1>1, <1>3, <2>7, <2>14
      <3>2. \A i \in 1..m : wire'[i] = wire[i + received]
        BY <1>1, <3>1
      <3> QED BY <2>4, <2>5, <3>1, <3>2
    <2>9. /\ m + Len(stream'.buffered) + stream'.loaded <= length
          /\ clientOpen => m + Len(stream'.buffered) + stream'.loaded = length
          /\ \A i \in 1..Len(stream'.buffered) : stream'.buffered[i] = BodyByte(current')
      <3>1. stream'.loaded = 0 /\ length \in Nat
        BY <1>1, <1>3
      <3>2. Len(wire) - 1 <= length /\ (clientOpen => Len(wire) - 1 = length)
        BY <2>4, <2>5
      <3>3. CASE length = 0
        <4>1. m = 0 /\ stream'.buffered = <<>> /\ Len(stream'.buffered) = 0
          BY <1>1, <1>3, <2>14, <3>2, <3>3, EmptySeq
        <4> QED BY <3>1, <3>3, <4>1
      <3>4. CASE length > 0
        <4>1. /\ Len(stream'.buffered) = received - 1
              /\ \A i \in 1..received - 1 : stream'.buffered[i] = wire[i + 1]
          BY <1>1, <3>4
        <4>2. \A i \in 1..received - 1 : wire[i + 1] = BodyByte(current')
          BY <1>3, <2>4, <2>5
        <4>3. m + Len(stream'.buffered) + stream'.loaded = Len(wire) - 1
          BY <1>3, <2>14, <3>1, <4>1
        <4> QED BY <3>2, <4>1, <4>2, <4>3
      <3> QED BY <3>1, <3>3, <3>4
    <2>10. request' = sent[current']
      BY <1>2 DEF request
    <2>11. m \in 0..Len(wire')
      BY <2>7
    <2> HIDE DEF length
    <2>15. current' > 0 /\ clientOpen' = clientOpen
      BY <1>1, <1>2, <1>3
    <2>12. Framed(m)'
      BY <2>7, <2>8, <2>9, <2>10, <2>15 DEF Framed, length
    <2> QED BY <2>11, <2>12
  <1>6. ~pipelined => \A i \in 1..Len(sent) - 1 : Answered(i)'
    BY <1>3, <1>4 DEF FramingInv
  <1> QED BY <1>2, <1>5, <1>6 DEF FramingInv
-----------------------------------------------------------------------------
(* A handler reads: what is buffered, or what is on the wire. *)

\* What a handler's read takes, from the buffer or from the wire.
LEMMA Reads ==
  ASSUME Typed, HandlerReads
  PROVE  \E bytes \in Nat \ {0} :
           \/ /\ wire' = wire
              /\ bytes <= Len(stream.buffered)
              /\ stream'.buffered \in Seq(Units) /\ stream'.loaded = stream.loaded + bytes
              /\ stream' \in [buffered : Seq(Units), loaded : Nat]
              /\ Len(stream'.buffered) = Len(stream.buffered) - bytes
              /\ \A i \in 1..Len(stream'.buffered) :
                   stream'.buffered[i] = stream.buffered[i + bytes]
           \/ /\ stream.buffered = <<>>
              /\ bytes <= Len(wire) /\ bytes <= request.length - stream.loaded
              /\ stream'.buffered = <<>> /\ stream'.loaded = stream.loaded + bytes
              /\ stream' \in [buffered : Seq(Units), loaded : Nat]
              /\ wire' \in Seq(Units) /\ Len(wire') = Len(wire) - bytes
              /\ \A i \in 1..Len(wire') : wire'[i] = wire[i + bytes]
  <1>1. PICK bytes \in 1..(Len(wire) + Len(stream.buffered)) : Read(bytes)
    BY DEF HandlerReads
  <1>2. /\ bytes \in Nat \ {0} /\ stream.loaded + bytes \in Nat
        /\ Len(wire) \in Nat /\ Len(stream.buffered) \in Nat
        /\ wire \in Seq(Units) /\ stream.buffered \in Seq(Units)
    BY Lengths DEF Typed
  <1>3. CASE /\ bytes \in 1..Len(stream.buffered)
             /\ stream' = [buffered |-> SubSeq(stream.buffered, bytes + 1, Len(stream.buffered)),
                           loaded   |-> stream.loaded + bytes]
             /\ UNCHANGED wire
    <2> DEFINE rest == SubSeq(stream.buffered, bytes + 1, Len(stream.buffered))
    <2>1. /\ rest \in Seq(Units) /\ Len(rest) = Len(stream.buffered) - bytes
          /\ \A i \in 1..Len(rest) : rest[i] = stream.buffered[i + bytes]
      BY <1>2, <1>3, DropFirst
    <2>2. stream' = [buffered |-> rest, loaded |-> stream.loaded + bytes]
      BY <1>3
    <2> HIDE DEF rest
    <2>3. /\ stream'.buffered = rest /\ stream'.loaded = stream.loaded + bytes
          /\ stream' \in [buffered : Seq(Units), loaded : Nat]
      BY <1>2, <2>1, <2>2
    <2>4. /\ wire' = wire
          /\ bytes <= Len(stream.buffered)
          /\ stream'.buffered \in Seq(Units) /\ stream'.loaded = stream.loaded + bytes
          /\ stream' \in [buffered : Seq(Units), loaded : Nat]
          /\ Len(stream'.buffered) = Len(stream.buffered) - bytes
          /\ \A i \in 1..Len(stream'.buffered) :
               stream'.buffered[i] = stream.buffered[i + bytes]
      BY <1>3, <2>1, <2>3
    <2> QED BY <1>2, <2>4
  <1>4. CASE /\ stream.buffered = <<>>
             /\ bytes \in 1..Len(wire)
             /\ bytes <= request.length - stream.loaded
             /\ stream' = [stream EXCEPT !.loaded = @ + bytes]
             /\ wire' = SubSeq(wire, bytes + 1, Len(wire))
    <2>1. /\ wire' \in Seq(Units) /\ Len(wire') = Len(wire) - bytes
          /\ \A i \in 1..Len(wire') : wire'[i] = wire[i + bytes]
      BY <1>2, <1>4, DropFirst
    <2>2. /\ stream'.buffered = stream.buffered /\ stream'.loaded = stream.loaded + bytes
          /\ stream' \in [buffered : Seq(Units), loaded : Nat]
      BY <1>2, <1>4 DEF Typed
    <2>3. /\ stream.buffered = <<>>
          /\ bytes <= Len(wire) /\ bytes <= request.length - stream.loaded
          /\ stream'.buffered = <<>> /\ stream'.loaded = stream.loaded + bytes
          /\ stream' \in [buffered : Seq(Units), loaded : Nat]
          /\ wire' \in Seq(Units) /\ Len(wire') = Len(wire) - bytes
          /\ \A i \in 1..Len(wire') : wire'[i] = wire[i + bytes]
      BY <1>4, <2>1, <2>2
    <2> QED BY <1>2, <2>3
  <1> QED BY <1>1, <1>3, <1>4 DEF Read

\* Reading keeps the types.
LEMMA ReadsTyped ==
  ASSUME Typed, HandlerReads
  PROVE  Typed'
  <1>1. wire' \in Seq(Units) /\ stream' \in [buffered : Seq(Units), loaded : Nat]
    BY Reads DEF Typed
  <1>2. UNCHANGED <<sent, clientOpen, pipelined, current, changed, pc, answers>>
    BY DEF HandlerReads, client
  <1>3. UNCHANGED Units
    BY <1>2 DEF Units
  <1> QED BY <1>1, <1>2, <1>3 DEF Typed, Received

\* Reading keeps the order.
LEMMA ReadsOrder ==
  ASSUME Typed, OrderInv, HandlerReads
  PROVE  OrderInv'
  <1>1. UNCHANGED <<sent, current, answers>>
    BY DEF HandlerReads, client
  <1>2. PICK bytes \in Nat :
          /\ Len(wire') = Len(wire) - bytes
          /\ \A i \in 1..Len(wire') : wire'[i] = wire[i + bytes]
    <2>1. Len(wire) \in Nat
      BY Lengths
    <2>2. CASE wire' = wire
      <3>1. /\ Len(wire') = Len(wire) - 0
            /\ \A i \in 1..Len(wire') : wire'[i] = wire[i + 0]
        BY <2>1, <2>2
      <3> QED BY <3>1
    <2> QED BY <2>2, Reads
  <1>3. \A i \in 1..Len(wire') : i \in Nat /\ i + bytes \in 1..Len(wire)
    BY <1>2, Lengths
  <1>4. \A i \in 1..Len(wire') : wire'[i].part = "header" => wire'[i].request > current'
    BY <1>1, <1>2, <1>3 DEF OrderInv
  <1>5. \A i, j \in 1..Len(wire') :
          i < j /\ wire'[i].part = "header" /\ wire'[j].part = "header" =>
            wire'[i].request < wire'[j].request
    <2>1. TAKE i, j \in 1..Len(wire')
    <2>2. HAVE i < j /\ wire'[i].part = "header" /\ wire'[j].part = "header"
    <2>3. /\ wire'[i] = wire[i + bytes] /\ wire'[j] = wire[j + bytes]
          /\ i + bytes < j + bytes
          /\ i + bytes \in 1..Len(wire) /\ j + bytes \in 1..Len(wire)
      BY <1>2, <1>3, <2>2
    <2> QED BY <2>2, <2>3 DEF OrderInv
  <1> QED BY <1>1, <1>4, <1>5 DEF OrderInv

\* Reading keeps the framing: never more than the rest of the body is taken.
LEMMA ReadsFraming ==
  ASSUME Typed, FramingInv, HandlerReads
  PROVE  FramingInv'
  <1>1. /\ UNCHANGED <<sent, clientOpen, pipelined, current, changed, pc, answers>>
        /\ pc = "handler" /\ current > 0
    BY DEF HandlerReads, client, Typed, Received
  <1>2. UNCHANGED <<NextSent, request>>
    BY <1>1 DEF NextSent, request
  <1>3. /\ Len(sent) \in Nat /\ Len(wire) \in Nat /\ Len(stream.buffered) \in Nat
        /\ stream.loaded \in Nat /\ current \in Nat /\ request.length \in Nat
        /\ current <= Len(sent) /\ NextSent => sent[current + 1].length \in Nat
    BY <1>1, Lengths DEF NextSent
  <1>4. ASSUME ~pipelined
        PROVE  \E n \in 0..Len(wire') : Framed(n)'
    <2>1. PICK n \in 0..Len(wire) : Framed(n)
      BY <1>1, <1>4 DEF FramingInv
    <2>2. PICK bytes \in Nat \ {0} :
           \/ /\ wire' = wire
              /\ bytes <= Len(stream.buffered)
              /\ stream'.buffered \in Seq(Units) /\ stream'.loaded = stream.loaded + bytes
              /\ stream' \in [buffered : Seq(Units), loaded : Nat]
              /\ Len(stream'.buffered) = Len(stream.buffered) - bytes
              /\ \A i \in 1..Len(stream'.buffered) :
                   stream'.buffered[i] = stream.buffered[i + bytes]
           \/ /\ stream.buffered = <<>>
              /\ bytes <= Len(wire) /\ bytes <= request.length - stream.loaded
              /\ stream'.buffered = <<>> /\ stream'.loaded = stream.loaded + bytes
              /\ stream' \in [buffered : Seq(Units), loaded : Nat]
              /\ wire' \in Seq(Units) /\ Len(wire') = Len(wire) - bytes
              /\ \A i \in 1..Len(wire') : wire'[i] = wire[i + bytes]
      BY Reads
    <2>3. /\ n + Len(stream.buffered) + stream.loaded <= request.length
          /\ clientOpen \/ NextSent =>
               n + Len(stream.buffered) + stream.loaded = request.length
          /\ \A i \in 1..Len(stream.buffered) : stream.buffered[i] = BodyByte(current)
      BY <1>1, <2>1 DEF Framed
    <2>4. CASE /\ wire' = wire
               /\ bytes <= Len(stream.buffered) /\ stream'.loaded = stream.loaded + bytes
               /\ Len(stream'.buffered) = Len(stream.buffered) - bytes
               /\ \A i \in 1..Len(stream'.buffered) :
                    stream'.buffered[i] = stream.buffered[i + bytes]
      <3>1. n + Len(stream'.buffered) + stream'.loaded
              = n + Len(stream.buffered) + stream.loaded
        BY <1>3, <2>4
      <3>2. \A i \in 1..Len(stream'.buffered) : stream'.buffered[i] = BodyByte(current)
        <4>1. \A i \in 1..Len(stream'.buffered) : i + bytes \in 1..Len(stream.buffered)
          BY <1>3, <2>4
        <4> QED BY <2>3, <2>4, <4>1
      <3>3. Framed(n)'
        BY <1>1, <1>2, <2>1, <2>3, <2>4, <3>1, <3>2 DEF Framed
      <3> QED BY <2>4, <3>3
    <2>5. CASE /\ stream.buffered = <<>>
               /\ bytes <= Len(wire) /\ bytes <= request.length - stream.loaded
               /\ stream'.buffered = <<>> /\ stream'.loaded = stream.loaded + bytes
               /\ wire' \in Seq(Units) /\ Len(wire') = Len(wire) - bytes
               /\ \A i \in 1..Len(wire') : wire'[i] = wire[i + bytes]
      <3>1. Len(stream.buffered) = 0 /\ Len(stream'.buffered) = 0
        BY <2>5, EmptySeq
      <3>2. bytes <= n
        BY <1>3, <2>1, <2>3, <2>5, <3>1 DEF Framed
      <3>3. PICK m \in Nat : m = n - bytes
        BY <2>1, <3>2
      <3>4. \A i \in 1..m : wire'[i] = BodyByte(current)
        <4>1. \A i \in 1..m : i \in 1..Len(wire') /\ i + bytes \in 1..n
          BY <1>3, <2>5, <3>3
        <4> QED BY <2>1, <2>5, <4>1 DEF Framed
      <3>5. /\ m + Len(stream'.buffered) + stream'.loaded
                 = n + Len(stream.buffered) + stream.loaded
            /\ m \in 0..Len(wire')
        BY <1>3, <2>5, <3>1, <3>3
      <3>6. ~NextSent => m = Len(wire')
        BY <1>3, <2>1, <2>5, <3>3 DEF Framed
      <3>7. ASSUME NextSent
            PROVE  /\ m < Len(wire') /\ wire'[m + 1] = Header(current + 1)
                   /\ \A i \in m + 2..Len(wire') : wire'[i] = BodyByte(current + 1)
                   /\ Len(wire') - m - 1 <= sent[current + 1].length
                   /\ clientOpen => Len(wire') - m - 1 = sent[current + 1].length
        <4>1. /\ n < Len(wire) /\ wire[n + 1] = Header(current + 1)
              /\ \A i \in n + 2..Len(wire) : wire[i] = BodyByte(current + 1)
              /\ Len(wire) - n - 1 <= sent[current + 1].length
              /\ clientOpen => Len(wire) - n - 1 = sent[current + 1].length
          BY <2>1, <3>7 DEF Framed
        <4>2. Len(wire') - m - 1 = Len(wire) - n - 1 /\ m < Len(wire')
          BY <1>3, <2>5, <3>3, <4>1
        <4>3. m + 1 \in 1..Len(wire') /\ (m + 1) + bytes = n + 1
          <5>1. Len(wire') \in Nat
            BY <2>5, LenProperties
          <5>2. m + 1 \in 1..Len(wire')
            BY <4>2, <5>1
          <5>3. (m + 1) + bytes = n + 1
            BY <3>3
          <5> QED BY <5>2, <5>3
        <4>4. \A i \in m + 2..Len(wire') : i \in 1..Len(wire') /\ i + bytes \in n + 2..Len(wire)
          BY <1>3, <2>5, <3>3
        <4>5. \A i \in m + 2..Len(wire') : wire'[i] = wire[i + bytes]
          BY <2>5, <4>4
        <4>6. wire'[m + 1] = Header(current + 1)
          <5>1. \A i \in 1..Len(wire') : wire'[i] = wire[i + bytes]
            BY <2>5
          <5>2. wire'[m + 1] = wire[(m + 1) + bytes]
            BY <4>3, <5>1
          <5> QED BY <4>1, <4>3, <5>2
        <4>7. \A i \in m + 2..Len(wire') : wire'[i] = BodyByte(current + 1)
          BY <4>1, <4>4, <4>5
        <4> QED BY <4>1, <4>2, <4>6, <4>7
      <3>8. \A i \in 1..Len(stream'.buffered) : stream'.buffered[i] = BodyByte(current)
        BY <3>1
      <3>9. Framed(m)'
        BY <1>1, <1>2, <2>3, <3>4, <3>5, <3>6, <3>7, <3>8 DEF Framed
      <3> QED BY <3>5, <3>9
    <2> QED BY <2>2, <2>4, <2>5
  <1>5. ~pipelined => \A i \in 1..Len(sent) - 1 : Answered(i)'
    BY <1>1 DEF FramingInv, Answered
  <1> QED BY <1>1, <1>4, <1>5 DEF FramingInv
-----------------------------------------------------------------------------
(* The steps that change nothing but where the worker is, or what the client may do. *)

Ends == \/ InitThrows \/ InitFails \/ KeepAlive \/ ConnectionLost

\* Closing and keeping the connection change nothing else.
LEMMA EndsStep ==
  ASSUME Ends
  PROVE  /\ UNCHANGED <<client, wire, current, changed, context, stream, answers>>
         /\ pc' = "closed" \/ (pc = "next" /\ pc' = "init")
  BY DEF Ends, InitThrows, InitFails, KeepAlive, ConnectionLost

\* Closing, keeping and what the environment does keep the types.
LEMMA OthersTyped ==
  ASSUME Typed, Ends \/ ClientCloses \/ FileChanges \/ UNCHANGED vars
  PROVE  Typed'
  <1>1. /\ UNCHANGED <<sent, wire, pipelined, current, stream, answers>>
        /\ clientOpen' \in BOOLEAN /\ changed' \in BOOLEAN
        /\ pc' = pc \/ pc' \in {"init", "closed"}
    BY EndsStep DEF Typed, ClientCloses, FileChanges, vars, client
  <1>2. UNCHANGED Units /\ pc' \in Pcs
    BY <1>1 DEF Units, Typed, Pcs
  <1> QED BY <1>1, <1>2 DEF Typed, Received

\* Closing, keeping and what the environment does keep the order.
LEMMA OthersOrder ==
  ASSUME OrderInv, Ends \/ ClientCloses \/ FileChanges \/ UNCHANGED vars
  PROVE  OrderInv'
  <1>1. UNCHANGED <<sent, wire, current, answers>>
    BY EndsStep DEF ClientCloses, FileChanges, vars, client
  <1> QED BY <1>1 DEF OrderInv

\* Closing, keeping and what the environment does keep the framing.
LEMMA OthersFraming ==
  ASSUME Typed, FramingInv, Ends \/ ClientCloses \/ FileChanges \/ UNCHANGED vars
  PROVE  FramingInv'
  <1>1. /\ UNCHANGED <<sent, wire, pipelined, current, stream, answers>>
        /\ clientOpen' => clientOpen
        /\ pc' = pc \/ pc' = "closed" \/ (pc = "next" /\ pc' = "init")
    BY EndsStep DEF Typed, ClientCloses, FileChanges, vars, client
  <1>2. (IsRead' <=> IsRead) /\ (Answered(current)' <=> Answered(current))
    BY <1>1 DEF IsRead, request, Answered
  <1>3. \A n : Framed(n) => Framed(n)'
    BY <1>1 DEF Framed, NextSent, request
  <1>4. \A i \in 1..Len(sent) - 1 : Answered(i)' <=> Answered(i)
    BY <1>1 DEF Answered
  <1>5. ASSUME ~pipelined, pc' # "closed"
        PROVE  \E n \in 0..Len(wire) : Framed(n)'
    <2>1. PICK n \in 0..Len(wire) : Framed(n)
      BY <1>1, <1>5 DEF FramingInv
    <2> QED BY <1>3, <2>1
  <1>6. pc' \in {"init", "next"} /\ current' > 0 => IsRead' /\ Answered(current)'
    BY <1>1, <1>2 DEF FramingInv
  <1>7. ~pipelined' => \A i \in 1..Len(sent') - 1 : Answered(i)'
    BY <1>1, <1>4 DEF FramingInv
  <1> QED BY <1>1, <1>5, <1>6, <1>7 DEF FramingInv
-----------------------------------------------------------------------------
(* The context: what is sent is a file that is there. *)

\* A context that is not changed stays right where the worker goes.
LEMMA ContextSame ==
  ASSUME ContextInv, UNCHANGED context,
         \/ pc' = pc
         \/ pc' \notin {"request", "target", "file", "send", "handlers", "handler"}
         \/ {pc, pc'} = {"handlers", "handler"}
         \/ pc = "request" /\ pc' = "target"
  PROVE  ContextInv'
  BY DEF ContextInv

\* The steps around the middle ones keep the context right.
LEMMA OthersContext ==
  ASSUME ContextInv, \/ Ends \/ ClientCloses \/ FileChanges \/ UNCHANGED vars
                     \/ ClientSends \/ HandlerReads \/ ContextInit
  PROVE  ContextInv'
  <1>1. CASE Ends
    BY <1>1, EndsStep, ContextSame
  <1>2. CASE ClientCloses \/ ClientSends \/ HandlerReads \/ UNCHANGED vars
    <2>1. UNCHANGED <<context, pc>>
      BY <1>2 DEF ClientCloses, ClientSends, HandlerReads, vars
    <2> QED BY <2>1, ContextSame
  <1>3. CASE FileChanges
    <2>1. PICK left \in {0, context.left + 1} : context' = [context EXCEPT !.left = left]
      BY <1>3 DEF FileChanges
    <2>2. left \in Nat /\ pc = "send" /\ pc' = "send"
      BY <1>3, <2>1 DEF FileChanges, ContextInv
    <2>3. context'.left = left /\ context'.document = context.document
          /\ context'.file = context.file /\ DOMAIN context' = ContextFields
      BY <2>1 DEF ContextInv, ContextFields
    <2> QED BY <2>2, <2>3 DEF ContextInv
  <1>4. CASE ContextInit
    <2>1. context' = NoContext /\ pc' = "request"
      BY <1>4 DEF ContextInit
    <2>2. DOMAIN NoContext = ContextFields /\ NoContext.document = FALSE
      BY DEF NoContext, ContextFields
    <2> QED BY <2>1, <2>2 DEF ContextInv
  <1> QED BY <1>1, <1>2, <1>3, <1>4

\* The middle steps keep the context right: only a file that is there is opened.
LEMMA MiddleContext ==
  ASSUME Typed, ContextInv, Middle
  PROVE  ContextInv'
  <1>0. current > 0
    BY MiddleKept DEF Typed
  <1>a. \A status \in Nat : Page(status, "finish") => pc' \in {"finish", "closed"}
    BY <1>0, PageKept
  <1>1. CASE CheckMethod
    <2>1. Page(501, "closed") => pc' = "closed"
      BY <1>0, PageKept
    <2>2. UNCHANGED context /\ pc = "request" /\ pc' \in {"target", "closed"}
      BY <1>1, <2>1 DEF CheckMethod
    <2> QED BY <2>2, ContextSame
  <1>2. CASE FindTarget
    <2>1. CASE ~RootRegistered
      <3>1. Page(404, "finish") /\ UNCHANGED context
        BY <1>2, <2>1 DEF FindTarget
      <3>2. pc' \in {"finish", "closed"}
        BY <1>a, <3>1, 404 \in Nat, Zenon
      <3> QED BY <3>1, <3>2, ContextSame
    <2>2. CASE RootRegistered /\ pc' = "closed" /\ UNCHANGED context
      BY <2>2, ContextSame
    <2>3. CASE RootRegistered /\ pc' = "handlers"
      <3> DEFINE dir    == FindDirectory(request.path)
                 mapped == Mapped(dir, request.path)
                 file   == FileSystemPath(dir, mapped)
                 left   == Handlers(dir, file)
      <3>1. context' = [context EXCEPT !.path = request.path, !.mapped = mapped,
                          !.dir = dir, !.file = file, !.handlers = left]
        BY <1>2, <2>3 DEF FindTarget
      <3> HIDE DEF dir, mapped, file, left
      <3>2. DOMAIN context' = ContextFields /\ context'.document = context.document
        BY <3>1 DEF ContextInv, ContextFields
      <3>3. ~context.document
        BY <1>2 DEF FindTarget, ContextInv
      <3> QED BY <2>3, <3>2, <3>3 DEF ContextInv
    <2> QED BY <1>2, <2>1, <2>2, <2>3 DEF FindTarget
  <1>3. CASE RunHandlers
    <2>1. CASE context' = [context EXCEPT !.handlers = @ - 1] /\ pc' = "handler"
      <3>1. /\ DOMAIN context' = ContextFields /\ context'.document = context.document
            /\ context'.file = context.file
        BY <2>1 DEF ContextInv, ContextFields
      <3> QED BY <1>3, <2>1, <3>1 DEF ContextInv, RunHandlers
    <2>2. CASE UNCHANGED context /\ pc' = IF context.document THEN "file" ELSE "resource"
      BY <1>3, <2>2 DEF ContextInv, RunHandlers
    <2> QED BY <1>3, <2>1, <2>2 DEF RunHandlers
  <1>4. CASE FindResource
    <2>1. UNCHANGED context
      BY <1>4 DEF FindResource
    <2>2. \/ pc' = "directory"
          \/ Page(302, "finish") \/ Page(404, "finish")
          \/ Resource(context.path, context.mapped, context.file) = "file" /\ pc' = "file"
      BY <1>4 DEF FindResource
    <2>3. Page(302, "finish") \/ Page(404, "finish") => pc' \in {"finish", "closed"}
      BY <1>0, PageKept
    <2>4. Resource(context.path, context.mapped, context.file) = "file" =>
            context.file \in DOMAIN Files
      BY DEF Resource, Exists
    <2>5. CASE context.file \in DOMAIN Files /\ pc' = "file"
      BY <2>1, <2>5 DEF ContextInv
    <2> QED BY <2>1, <2>2, <2>3, <2>4, <2>5, ContextSame
  <1>5. CASE ProcessDirectory
    <2> DEFINE documents == DefaultDocument(context.dir, context.file)
               status == ListingStatus(context.dir, request.method, request.charset)
    <2>1. status \in Nat
      BY DEF ListingStatus
    <2>2. \/ \E i \in documents :
               /\ context' = [context EXCEPT
                    !.file = Append(context.file, context.dir.defaultDocuments[i]),
                    !.document = TRUE,
                    !.handlers = Handlers(context.dir,
                                   Append(context.file, context.dir.defaultDocuments[i]))]
               /\ pc' = "handlers"
          \/ Page(status, "finish") /\ UNCHANGED context
          \/ pc' = "finish" /\ UNCHANGED context
      BY <1>5 DEF ProcessDirectory
    <2>3. ASSUME NEW i \in documents,
                 context' = [context EXCEPT
                    !.file = Append(context.file, context.dir.defaultDocuments[i]),
                    !.document = TRUE,
                    !.handlers = Handlers(context.dir,
                                   Append(context.file, context.dir.defaultDocuments[i]))],
                 pc' = "handlers"
          PROVE  ContextInv'
      <3> DEFINE file == Append(context.file, context.dir.defaultDocuments[i])
                 left == Handlers(context.dir, file)
      <3>1. file \in DOMAIN Files
        BY DEF DefaultDocument, Exists
      <3>2. context' = [context EXCEPT !.file = file, !.document = TRUE, !.handlers = left]
        BY <2>3
      <3> HIDE DEF file, left
      <3>3. /\ DOMAIN context' = ContextFields /\ context'.document = TRUE
            /\ context'.file = file
        BY <3>2 DEF ContextInv, ContextFields
      <3> QED BY <2>3, <3>1, <3>3 DEF ContextInv
    <2> HIDE DEF documents, status
    <2>4. CASE Page(status, "finish") /\ UNCHANGED context
      BY <1>a, <2>1, <2>4, ContextSame
    <2>5. CASE pc' = "finish" /\ UNCHANGED context
      BY <2>5, ContextSame
    <2> QED BY <2>2, <2>3, <2>4, <2>5
  <1>6. CASE OpenFile
    <2>1. CASE (\E status \in Nat : Page(status, "finish")) /\ UNCHANGED context
      BY <1>a, <2>1, ContextSame
    <2>2. ASSUME NEW length \in Nat, context' = [context EXCEPT !.left = length],
                 pc' \in {"send", "finish"}
          PROVE  ContextInv'
      <3>1. /\ DOMAIN context' = ContextFields /\ context'.document = context.document
            /\ context'.file = context.file /\ context'.left = length
        BY <2>2 DEF ContextInv, ContextFields
      <3> QED BY <1>6, <2>2, <3>1 DEF ContextInv, OpenFile
    <2> QED BY <1>6, <2>1, <2>2, OpenFileStep
  <1>7. CASE SendFile
    <2>1. PICK bytes \in Nat, part \in Nat :
            /\ bytes = IF part < context.left THEN part ELSE context.left
            /\ context' = [context EXCEPT !.left = @ - bytes]
            /\ pc' = IF bytes < part THEN "finish" ELSE "send"
      BY <1>7, SendFileStep
    <2>2. context.left \in Nat /\ pc = "send"
      BY <1>7 DEF SendFile, ContextInv
    <2>3. context.left - bytes \in Nat
      BY <2>1, <2>2
    <2>4. /\ DOMAIN context' = ContextFields /\ context'.document = context.document
          /\ context'.file = context.file /\ context'.left = context.left - bytes
      BY <2>1 DEF ContextInv, ContextFields
    <2> QED BY <2>1, <2>2, <2>3, <2>4 DEF ContextInv
  <1>8. CASE Finish
    <2>1. Page(404, "next") => pc' \in {"next", "closed"}
      BY <1>0, PageKept
    <2>2. ServerError("closed") => pc' = "closed"
      BY <1>0, ErrorKept
    <2>3. UNCHANGED context /\ pc' \in {"next", "closed"}
      BY <1>8, <2>1, <2>2 DEF Finish
    <2> QED BY <2>3, ContextSame
  <1>9. CASE HandlerWrites \/ HandlerEnds
    BY <1>9, ContextSame DEF HandlerWrites, HandlerEnds
  <1>10. CASE HandlerReturns
    <2>1. UNCHANGED context /\ pc = "handler" /\ pc' \in {"finish", "handlers"}
      BY <1>10 DEF HandlerReturns
    <2> QED BY <2>1, ContextSame
  <1>11. CASE HandlerThrows
    <2>1. UNCHANGED context /\ pc' \in {"finish", "closed"}
      BY <1>0, <1>11, ErrorKept DEF HandlerThrows
    <2> QED BY <2>1, ContextSame
  <1> QED BY <1>1, <1>2, <1>3, <1>4, <1>5, <1>6, <1>7, <1>8, <1>9, <1>10, <1>11 DEF Middle
-----------------------------------------------------------------------------
(* The contents: what is written is what is declared. *)

\* The answers before the current one are whole.
EarlierWhole == \A i \in 1..current - 1 : Whole(i)

\* An answer not begun declares nothing.
LEMMA NotBegunWhole ==
  ASSUME NEW i, answers[i] = NoAnswer
  PROVE  Whole(i)
  BY DEF Whole, NoAnswer

\* Reading, closing, keeping and what the environment does keep the contents.
LEMMA OthersContent ==
  ASSUME Typed, OrderInv, ContentInv,
         \/ Ends \/ ClientCloses \/ FileChanges \/ HandlerReads \/ UNCHANGED vars
  PROVE  ContentInv'
  <1>1. CASE FileChanges
    <2>1. pc' = "send" /\ changed'
      BY <1>1 DEF FileChanges
    <2> QED BY <2>1 DEF ContentInv
  <1>2. CASE Ends \/ ClientCloses \/ HandlerReads \/ UNCHANGED vars
    <2>1. /\ UNCHANGED <<current, changed, context, answers>>
          /\ pc' = pc \/ pc' = "closed" \/ (pc = "next" /\ pc' = "init")
      BY <1>2, EndsStep DEF ClientCloses, HandlerReads, vars
    <2>2. UNCHANGED answer /\ \A i : Whole(i)' <=> Whole(i)
      BY <2>1 DEF answer, Whole
    <2> QED BY <2>1, <2>2 DEF ContentInv
  <1> QED BY <1>1, <1>2

\* Sending keeps the contents.
LEMMA SendsContent ==
  ASSUME Typed, ContentInv, ClientSends
  PROVE  ContentInv'
  <1>1. UNCHANGED <<current, changed, context, pc>>
    BY DEF ClientSends
  <1>2. current \in Nat /\ current <= Len(sent) /\ Len(sent) \in Nat
    BY Lengths
  <1>3. \A i \in 1..Len(sent) : Whole(i)' <=> Whole(i)
    BY AnswersSent DEF Whole
  <1>4. current > 0 => answer' = answer /\ (Whole(current)' <=> Whole(current))
    BY <1>1, <1>2, <1>3, AnswersSent DEF answer, Whole
  <1>5. Received => current > 0
    BY DEF Typed
  <1>6. \A i \in 1..current - 1 : i \in 1..Len(sent)
    BY <1>2
  <1> QED BY <1>1, <1>3, <1>4, <1>5, <1>6 DEF ContentInv, Received

\* Receiving a request keeps the contents: requests jumped over are not answered.
LEMMA ReceivesContent ==
  ASSUME Typed, OrderInv, ContentInv, ContextInit
  PROVE  ContentInv'
  <1>1. current' > current /\ current' \in 1..Len(sent)
    BY Receives
  <1>2. UNCHANGED <<sent, changed, answers>> /\ pc = "init" /\ pc' = "request"
    BY DEF ContextInit, client
  <1>3. current \in Nat /\ Len(sent) \in Nat
    BY Lengths
  <1>4. answer' = NoAnswer
    BY <1>1, <1>2 DEF OrderInv, answer
  <1>6. \A i \in 1..current' - 1 : i \in 1..Len(sent) /\ i < current'
    <2>1. PICK k \in Nat : k = current' /\ k <= Len(sent)
      BY <1>1, <1>3
    <2> PICK l \in Nat : l = Len(sent)
      BY <1>3
    <2>3. k <= l
      BY <2>1
    <2>4. \A i \in 1..k - 1 : i \in 1..l /\ i < k
      BY <2>3
    <2>2. \A i \in 1..k - 1 : i \in 1..Len(sent) /\ i < k
      BY <2>4
    <2> QED BY <2>1, <2>2
  <1>5. ASSUME ~changed, NEW i \in 1..Len(sent), i < current'
        PROVE  Whole(i)'
    <2>1. i \in 1..Len(sent)
      OBVIOUS
    <2>2. CASE i > current
      BY <1>2, <2>1, <2>2, NotBegunWhole DEF OrderInv, Whole, NoAnswer
    <2>3. CASE i <= current
      <3>1. i = current \/ i \in 1..current - 1
        BY <1>3, <2>1, <2>3
      <3>2. Whole(i)
        BY <1>2, <1>3, <1>5, <2>1, <2>3, <3>1 DEF ContentInv
      <3> QED BY <1>2, <3>2 DEF Whole
    <2> QED BY <1>3, <2>1, <2>2, <2>3
  <1>7. ~changed => \A i \in 1..current' - 1 : Whole(i)'
    BY <1>5, <1>6
  <1> QED BY <1>2, <1>4, <1>7 DEF ContentInv

\* What ContentInv asks of the step, as the answer to the current request may change.
LEMMA ContentFrom ==
  ASSUME Typed, ContextInv, ContentInv, Middle,
         pc' \in {"target", "handlers", "resource", "directory", "file"} => answer' = NoAnswer,
         pc' = "handler" => Whole(current)' /\ (~answer'.finished => answer'.length = NoLength),
         ~changed /\ pc' = "send" => answer'.length = answer'.body + context'.left,
         ~changed /\ pc' \in {"finish", "next"} => Whole(current)'
  PROVE  ContentInv'
  <1>1. /\ AnswerKept /\ UNCHANGED <<sent, current, changed>> /\ current > 0
        /\ Received /\ pc' \in Pcs \ {"init"}
    BY MiddleKept DEF client, Typed
  <1>2. \A i \in 1..Len(sent) : i # current => answers'[i] = answers[i]
    BY <1>1, AnswersAfter
  <1>3. \A i \in 1..current - 1 : i \in 1..Len(sent) /\ i # current
    BY Lengths
  <1>4. ~changed => \A i \in 1..current - 1 : Whole(i)'
    BY <1>1, <1>2, <1>3 DEF ContentInv, Received, Whole
  <1>5. pc' # "request"
    <2>1. Page(501, "closed") => pc' = "closed"
      BY <1>1, PageKept
    <2>2. \A status \in Nat : Page(status, "finish") => pc' \in {"finish", "closed"}
      BY <1>1, PageKept
    <2>3. Page(404, "finish") \/ Page(302, "finish") => pc' \in {"finish", "closed"}
      <3>1. 404 \in Nat /\ 302 \in Nat
        OBVIOUS
      <3>2. Page(404, "finish") => pc' \in {"finish", "closed"}
        BY <2>2, <3>1
      <3>3. Page(302, "finish") => pc' \in {"finish", "closed"}
        BY <2>2, <3>1
      <3> QED BY <3>2, <3>3
    <2>4. CheckMethod \/ RunHandlers \/ FindResource => pc' # "request"
      <3>1. CheckMethod => pc' # "request"
        BY <2>1 DEF CheckMethod
      <3>2. RunHandlers => pc' # "request"
        BY DEF RunHandlers
      <3>3. FindResource => pc' # "request"
        BY <2>3 DEF FindResource
      <3> QED BY <3>1, <3>2, <3>3
    <2>5. FindTarget => pc' # "request"
      BY <2>3 DEF FindTarget
    <2>6. ProcessDirectory => pc' # "request"
      <3>1. ListingStatus(context.dir, request.method, request.charset) \in Nat
        BY DEF ListingStatus
      <3> QED BY <2>2, <3>1 DEF ProcessDirectory
    <2>7. OpenFile \/ SendFile => pc' # "request"
      BY <2>2, OpenFileStep DEF SendFile
    <2>8. Page(404, "next") => pc' \in {"next", "closed"}
      BY <1>1, PageKept
    <2>9. Finish => pc' # "request"
      BY <1>1, <2>8, ErrorKept DEF Finish
    <2>10. HandlerWrites \/ HandlerEnds \/ HandlerReturns \/ HandlerThrows => pc' # "request"
      BY <1>1, ErrorKept DEF HandlerWrites, HandlerEnds, HandlerReturns, HandlerThrows
    <2> QED BY <2>4, <2>5, <2>6, <2>7, <2>9, <2>10 DEF Middle
  <1> QED BY <1>1, <1>4, <1>5 DEF ContentInv

\* The answer after Answer(new).
LEMMA NewAnswer ==
  ASSUME Typed, current > 0, UNCHANGED current, NEW new \in Answers, Answer(new)
  PROVE  /\ answer' = new
         /\ Whole(current)' <=> (new.length # NoLength => new.length = new.body)
  <1>1. current \in 1..Len(sent)
    BY DEF Typed
  <1>2. answers'[current] = new
    BY <1>1, AnswerStep
  <1> QED BY <1>2 DEF answer, Whole

\* An answer that is not changed is as whole as before.
LEMMA SameAnswer ==
  ASSUME UNCHANGED <<current, answers>>
  PROVE  UNCHANGED answer /\ (Whole(current)' <=> Whole(current))
  BY DEF answer, Whole

\* A page is whole.
LEMMA PageWhole ==
  ASSUME Typed, current > 0, UNCHANGED current, NEW status \in Nat, NEW next,
         Page(status, next)
  PROVE  pc' = "closed" \/ (pc' = next /\ Whole(current)')
  <1> DEFINE new == [status |-> status, headersSent |-> TRUE, finished |-> TRUE,
                     length |-> 1, body |-> 1]
  <1>1. pc' = "closed" \/ (pc' = next /\ Answer(new) /\ new \in Answers)
    BY PageStep
  <1>2. new.length = new.body
    OBVIOUS
  <1> HIDE DEF new
  <1> QED BY <1>1, <1>2, NewAnswer

\* What Response.end() finishes is whole, unless a length was declared before.
LEMMA EndedWhole ==
  ASSUME Typed, current > 0, UNCHANGED current, NEW new \in Answers,
         new.length # NoLength /\ new.headersSent => new.length = new.body,
         Answer(Ended(new))
  PROVE  Whole(current)' /\ answer'.finished
  <1>1. /\ Ended(new) \in Answers /\ Ended(new).finished /\ Ended(new).body = new.body
        /\ Ended(new).length = IF new.headersSent THEN new.length ELSE new.body
    BY EndedTyped
  <1> QED BY <1>1, NewAnswer

\* The text of an error completes an answer that has declared no length.
LEMMA ErrorWhole ==
  ASSUME Typed, current > 0, UNCHANGED current, NEW next, ServerError(next),
         ~answer.finished => answer.length = NoLength
  PROVE  pc' = "closed" \/ (pc' = next /\ Whole(current)')
  <1>1. answer \in Answers
    BY AnswerTyped
  <1>2. CASE answer.headersSent /\ ~answer.finished
    <2> DEFINE new == [answer EXCEPT !.body = @ + 1]
    <2>1. new \in Answers /\ new.length = NoLength
      BY <1>1, <1>2 DEF Answers
    <2>2. Answer(Ended(new)) /\ pc' = next
      BY <1>2 DEF ServerError
    <2> HIDE DEF new
    <2> QED BY <2>1, <2>2, EndedWhole
  <1>3. CASE ~(answer.headersSent /\ ~answer.finished)
    <2>1. Page(500, next)
      BY <1>3 DEF ServerError
    <2> QED BY <2>1, PageWhole
  <1> QED BY <1>2, <1>3

\* The middle steps keep the contents.
LEMMA MiddleContent ==
  ASSUME Typed, ContextInv, ContentInv, Middle
  PROVE  ContentInv'
  <1>0. current > 0 /\ UNCHANGED <<current, changed>> /\ answer \in Answers
    BY MiddleKept, AnswerTyped DEF Typed
  <1>a. pc \in {"request", "target", "handlers", "resource", "directory", "file"} =>
          answer = NoAnswer
    BY DEF ContentInv
  <1>b. answer = NoAnswer => Whole(current) /\ answer.length = NoLength
    BY DEF NoAnswer, Whole, answer
  <1>c. ASSUME pc' = "closed" PROVE ContentInv'
    BY <1>c, ContentFrom
  <1>d. ASSUME pc' \in {"finish", "next"}, Whole(current)' PROVE ContentInv'
    BY <1>d, ContentFrom
  <1>e. ASSUME NEW status \in Nat, Page(status, "finish") PROVE ContentInv'
    BY <1>0, <1>c, <1>d, <1>e, PageWhole
  <1>f. ASSUME UNCHANGED answers, answer = NoAnswer, pc' # "send"
        PROVE  ContentInv'
    <2>1. answer' = NoAnswer /\ Whole(current)' /\ answer'.length = NoLength
      BY <1>0, <1>b, <1>f, SameAnswer
    <2> QED BY <1>f, <2>1, ContentFrom
  <1>1. CASE CheckMethod
    <2>1. Page(501, "closed") => pc' = "closed"
      BY <1>0, PageKept
    <2>2. pc' = "closed" \/ (UNCHANGED answers /\ pc' = "target")
      BY <1>1, <2>1 DEF CheckMethod
    <2> QED BY <1>1, <1>a, <1>c, <1>f, <2>2 DEF CheckMethod
  <1>2. CASE FindTarget
    <2>1. Page(404, "finish") \/ (UNCHANGED answers /\ pc' \in {"closed", "handlers"})
      BY <1>2 DEF FindTarget
    <2>2. Page(404, "finish") => ContentInv'
      BY <1>e, 404 \in Nat, Zenon
    <2> QED BY <1>2, <1>a, <1>f, <2>1, <2>2 DEF FindTarget
  <1>3. CASE RunHandlers
    <2>1. UNCHANGED answers /\ pc = "handlers" /\ pc' \in {"handler", "file", "resource"}
      BY <1>3 DEF RunHandlers
    <2> QED BY <1>a, <1>f, <2>1
  <1>4. CASE FindResource
    <2>1. \/ Page(302, "finish") \/ Page(404, "finish")
          \/ UNCHANGED answers /\ pc' \in {"directory", "file"}
      BY <1>4 DEF FindResource
    <2>2. Page(302, "finish") \/ Page(404, "finish") => ContentInv'
      BY <1>e, 302 \in Nat, 404 \in Nat, Zenon
    <2> QED BY <1>4, <1>a, <1>f, <2>1, <2>2 DEF FindResource
  <1>5. CASE ProcessDirectory
    <2> DEFINE listing == [answer EXCEPT !.status = 200, !.body = 1]
               status  == ListingStatus(context.dir, request.method, request.charset)
    <2>1. status \in Nat
      BY DEF ListingStatus
    <2>2. listing \in Answers /\ ~listing.headersSent
      <3>1. answer = NoAnswer
        BY <1>5, <1>a DEF ProcessDirectory
      <3>2. ~answer.headersSent
        BY <3>1 DEF NoAnswer
      <3>3. answer \in Answers
        BY <1>0
      <3> QED BY <3>2, <3>3, ListingTyped
    <2>3. \/ UNCHANGED answers /\ pc' = "handlers"
          \/ Page(status, "finish")
          \/ Answer(Ended(listing)) /\ pc' = "finish"
      BY <1>5 DEF ProcessDirectory
    <2> HIDE DEF listing, status
    <2>4. CASE UNCHANGED answers /\ pc' = "handlers"
      BY <1>5, <1>a, <1>f, <2>4 DEF ProcessDirectory
    <2>5. CASE Page(status, "finish")
      BY <1>e, <2>1, <2>5
    <2>6. CASE Answer(Ended(listing)) /\ pc' = "finish"
      BY <1>0, <1>d, <2>2, <2>6, EndedWhole
    <2> QED BY <2>3, <2>4, <2>5, <2>6
  <1>6. CASE OpenFile
    <2>1. ASSUME NEW status \in Nat, NEW length \in Nat,
                 Answer([answer EXCEPT !.status = status, !.length = length]),
                 [answer EXCEPT !.status = status, !.length = length] \in Answers,
                 context' = [context EXCEPT !.left = length],
                 pc' = "send" \/ (pc' = "finish" /\ length = 0)
          PROVE  ContentInv'
      <3> DEFINE new == [answer EXCEPT !.status = status, !.length = length]
      <3>1. new.length = length /\ new.body = 0 /\ new \in Answers
        BY <1>0, <1>6, <1>a, <2>1 DEF OpenFile, NoAnswer, Answers
      <3>2. context'.left = length
        BY <2>1 DEF ContextInv, ContextFields
      <3>3. Answer(new)
        BY <2>1
      <3> HIDE DEF new
      <3>4. answer' = new /\ (Whole(current)' <=> (new.length # NoLength => new.length = new.body))
        BY <1>0, <3>1, <3>3, NewAnswer
      <3>5. CASE pc' = "send"
        <4>1. answer'.length = answer'.body + context'.left
          BY <3>1, <3>2, <3>4
        <4> QED BY <3>5, <4>1, ContentFrom
      <3>6. CASE pc' = "finish" /\ length = 0
        BY <1>d, <3>1, <3>4, <3>6
      <3> QED BY <2>1, <3>5, <3>6
    <2>2. CASE \E status \in Nat : Page(status, "finish")
      BY <1>e, <2>2
    <2> QED BY <1>6, <2>1, <2>2, OpenFileStep
  <1>7. CASE SendFile
    <2>1. PICK bytes \in Nat, part \in Nat :
            /\ bytes = IF part < context.left THEN part ELSE context.left
            /\ Answer([answer EXCEPT !.body = @ + bytes,
                         !.headersSent = (@ \/ answer.body + bytes >= BufferSize)])
            /\ [answer EXCEPT !.body = @ + bytes,
                   !.headersSent = (@ \/ answer.body + bytes >= BufferSize)] \in Answers
            /\ context' = [context EXCEPT !.left = @ - bytes]
            /\ pc' = IF bytes < part THEN "finish" ELSE "send"
      BY <1>7, SendFileStep
    <2> DEFINE leaves == answer.headersSent \/ answer.body + bytes >= BufferSize
               new == [answer EXCEPT !.body = @ + bytes, !.headersSent = leaves]
    <2>2. new \in Answers /\ Answer(new)
      BY <2>1
    <2> HIDE DEF leaves
    <2>3. new.length = answer.length /\ new.body = answer.body + bytes
      BY <1>0 DEF Answers
    <2> HIDE DEF new
    <2>4. answer' = new /\ (Whole(current)' <=> (new.length # NoLength => new.length = new.body))
      BY <1>0, <2>2, NewAnswer
    <2>5. context'.left = context.left - bytes /\ context.left \in Nat
      BY <1>7, <2>1 DEF ContextInv, ContextFields, SendFile
    <2>6. ~changed => answer.length = answer.body + context.left
      BY <1>7 DEF ContentInv, SendFile
    <2>7. answer.body \in Nat
      BY <1>0 DEF Answers
    <2>8. CASE pc' = "send"
      <3>1. ~changed => answer'.length = answer'.body + context'.left
        BY <2>1, <2>3, <2>4, <2>5, <2>6, <2>7
      <3> QED BY <2>8, <3>1, ContentFrom
    <2>9. CASE pc' = "finish"
      <3>1. bytes = context.left
        BY <2>1, <2>5, <2>9
      <3>2. ~changed => Whole(current)'
        BY <2>3, <2>4, <2>6, <3>1
      <3> QED BY <2>9, <3>2, ContentFrom
    <2> QED BY <2>1, <2>8, <2>9
  <1>8. CASE Finish
    <2>1. CASE ServerError("closed")
      BY <1>0, <1>c, <2>1, ErrorKept
    <2>2. CASE pc' = "next" /\ UNCHANGED answers
      <3>1. ~changed => Whole(current)'
        BY <1>0, <1>8, <2>2, SameAnswer DEF Finish, ContentInv
      <3> QED BY <2>2, <3>1, ContentFrom
    <2>3. CASE Page(404, "next")
      BY <1>0, <1>c, <1>d, <2>3, PageWhole
    <2>4. CASE Answer(Ended(answer)) /\ pc' = "next"
      <3>1. ASSUME ~changed PROVE Whole(current)'
        <4>1. answer.length # NoLength => answer.length = answer.body
          BY <1>0, <1>8, <3>1 DEF Finish, ContentInv, Whole, answer
        <4> QED BY <1>0, <2>4, <4>1, EndedWhole
      <3> QED BY <2>4, <3>1, ContentFrom
    <2> QED BY <1>8, <2>1, <2>2, <2>3, <2>4 DEF Finish
  <1>9. CASE HandlerWrites
    <2>1. pc = "handler" /\ pc' = "handler" /\ answer.length = NoLength
      BY <1>9 DEF HandlerWrites, ContentInv
    <2>2. PICK status \in Nat, leaves \in BOOLEAN :
            /\ Answer([answer EXCEPT !.status = status, !.body = @ + 1, !.headersSent = leaves])
            /\ [answer EXCEPT !.status = status, !.body = @ + 1, !.headersSent = leaves]
                 \in Answers
      BY <1>9, HandlerWritesStep
    <2> DEFINE new == [answer EXCEPT !.status = status, !.body = @ + 1, !.headersSent = leaves]
    <2>3. new \in Answers /\ Answer(new) /\ new.length = NoLength
      BY <1>0, <2>1, <2>2 DEF Answers
    <2> HIDE DEF new
    <2>4. Whole(current)' /\ answer'.length = NoLength
      BY <1>0, <2>3, NewAnswer
    <2> QED BY <2>1, <2>4, ContentFrom
  <1>10. CASE HandlerEnds
    <2> DEFINE new == [answer EXCEPT !.status = 200]
    <2>1. /\ pc' = "handler" /\ answer.length = NoLength
          /\ new \in Answers /\ new.length = NoLength /\ Answer(Ended(new))
      BY <1>0, <1>10 DEF HandlerEnds, ContentInv, Answers
    <2> HIDE DEF new
    <2>2. Whole(current)' /\ answer'.finished
      BY <1>0, <2>1, EndedWhole
    <2> QED BY <2>1, <2>2, ContentFrom
  <1>11. CASE HandlerReturns
    <2>1. UNCHANGED answers
      BY <1>11 DEF HandlerReturns
    <2>2. CASE pc' = "finish"
      <3>1. Whole(current)
        BY <1>11 DEF HandlerReturns, ContentInv
      <3> QED BY <1>0, <1>d, <2>1, <2>2, <3>1, SameAnswer
    <2>3. CASE answer = NoAnswer /\ pc' = "handlers"
      BY <1>f, <2>1, <2>3
    <2> QED BY <1>11, <2>2, <2>3 DEF HandlerReturns
  <1>12. CASE HandlerThrows
    <2>1. ServerError("finish") /\ (~answer.finished => answer.length = NoLength)
      BY <1>12 DEF HandlerThrows, ContentInv
    <2> QED BY <1>0, <1>c, <1>d, <2>1, ErrorWhole
  <1> QED BY <1>1, <1>2, <1>3, <1>4, <1>5, <1>6, <1>7, <1>8, <1>9, <1>10, <1>11, <1>12
          DEF Middle
-----------------------------------------------------------------------------
(* The invariant, and what follows from it. *)

\* The invariant holds at first.
LEMMA InitInv ==
  ASSUME Init
  PROVE  IInv
  <1> USE DEF Init
  <1>1. \A S : <<>> \in Seq(S) /\ Len(<<>>) = 0
    BY EmptySeq
  <1>2. Typed
    <2>1. stream \in [buffered : Seq(Units), loaded : Nat]
      BY <1>1
    <2>2. sent \in Seq(Requests) /\ wire \in Seq(Units)
      BY <1>1
    <2>3. answers \in Seq(Answers) /\ Len(answers) = Len(sent)
      BY <1>1
    <2>4. current \in 0..Len(sent)
      BY <1>1
    <2>5. pc \in Pcs /\ ~Received
      BY DEF Pcs, Received
    <2> QED BY <2>1, <2>2, <2>3, <2>4, <2>5 DEF Typed
  <1>3. DOMAIN NoContext = ContextFields /\ NoContext.document = FALSE
    BY DEF NoContext, ContextFields
  <1>4. ContextInv
    BY <1>3 DEF ContextInv
  <1>5. OrderInv
    BY <1>1 DEF OrderInv
  <1>6. ContentInv
    <2>1. \A i \in 1..current - 1 : Whole(i)
      OBVIOUS
    <2> QED BY <2>1 DEF ContentInv
  <1>7. Framed(0)
    BY <1>1 DEF Framed, NextSent
  <1>8. FramingInv
    BY <1>1, <1>7 DEF FramingInv
  <1> QED BY <1>2, <1>4, <1>5, <1>6, <1>8 DEF IInv

\* Every step keeps the invariant.
LEMMA NextInv ==
  ASSUME IInv, [Next]_vars
  PROVE  IInv'
  <1> USE DEF IInv
  <1>1. CASE Middle
    BY <1>1, MiddleTyped, MiddleContext, MiddleOrder, MiddleContent, MiddleFraming
  <1>2. CASE ClientSends
    BY <1>2, SendsTyped, OthersContext, SendsOrder, SendsContent, SendsFraming
  <1>3. CASE ContextInit
    BY <1>3, ReceivesTyped, OthersContext, ReceivesOrder, ReceivesContent, ReceivesFraming
  <1>4. CASE HandlerReads
    BY <1>4, ReadsTyped, OthersContext, ReadsOrder, OthersContent, ReadsFraming
  <1>5. CASE Ends \/ ClientCloses \/ FileChanges \/ UNCHANGED vars
    BY <1>5, OthersTyped, OthersContext, OthersOrder, OthersContent, OthersFraming
  <1>6. \/ Middle \/ ClientSends \/ ContextInit \/ HandlerReads
        \/ Ends \/ ClientCloses \/ FileChanges \/ UNCHANGED vars
    BY DEF Next, Worker, Handler, Environment, Middle, Ends
  <1> QED BY <1>1, <1>2, <1>3, <1>4, <1>5, <1>6

\* The invariant holds in every state.
THEOREM Invariant == Spec => []IInv
  BY InitInv, NextInv, PTL DEF Spec

\* Unless the client pipelines, what a kept connection receives next is the header
\* of the next request (processConnection, HttpContext::init).
THEOREM FramingIsKept == Spec => []FramingKept
  <1>1. IInv => FramingKept
    <2> SUFFICES ASSUME IInv, pc = "init", ~pipelined
                 PROVE  /\ wire # <<>> => Head(wire) = Header(current + 1)
                        /\ wire = <<>> => Len(sent) = current
      BY DEF FramingKept
    <2>1. /\ Len(sent) \in Nat /\ Len(wire) \in Nat /\ Len(stream.buffered) \in Nat
          /\ stream.loaded \in Nat /\ current \in Nat /\ current <= Len(sent)
          /\ current > 0 => request.length \in Nat
      BY Lengths DEF IInv
    <2>2. PICK n \in 0..Len(wire) : Framed(n)
      BY DEF IInv, FramingInv
    <2>3. n = 0
      <3>1. CASE current = 0
        BY <2>2, <3>1 DEF Framed
      <3>2. CASE current > 0
        <4>1. stream.loaded = request.length
          BY <3>2 DEF IInv, FramingInv, IsRead
        <4>2. n + Len(stream.buffered) + stream.loaded <= request.length
          BY <2>2, <3>2 DEF Framed
        <4> QED BY <2>1, <3>2, <4>1, <4>2
      <3> QED BY <2>1, <3>1, <3>2
    <2>4. wire # <<>> => Len(wire) > 0 /\ Head(wire) = wire[1]
      BY EmptySeq, HeadTailProperties DEF IInv, Typed
    <2>5. wire = <<>> => Len(wire) = 0
      BY EmptySeq
    <2>6. NextSent => Len(wire) > 0 /\ wire[1] = Header(current + 1)
      BY <2>1, <2>2, <2>3 DEF Framed
    <2>7. ~NextSent => Len(wire) = 0 /\ Len(sent) = current
      BY <2>1, <2>2, <2>3 DEF Framed, NextSent
    <2> QED BY <2>4, <2>5, <2>6, <2>7
  <1> QED BY <1>1, Invariant, PTL

\* Unless the client pipelines, a handler reads bytes of its own request only, and
\* not more than its header declares (HttpRequestStream::read).
THEOREM OwnBodyRead == Spec => []ReadsOwnBody
  <1>1. IInv => ReadsOwnBody
    <2> SUFFICES ASSUME IInv, ~pipelined, pc \notin {"init", "closed"}
                 PROVE  /\ stream.loaded + Len(stream.buffered) <= request.length
                        /\ \A i \in DOMAIN stream.buffered :
                             stream.buffered[i] = BodyByte(current)
      BY DEF ReadsOwnBody
    <2>1. current > 0 /\ stream.buffered \in Seq(Units)
      BY DEF IInv, Typed, Received
    <2>2. /\ Len(wire) \in Nat /\ Len(stream.buffered) \in Nat
          /\ stream.loaded \in Nat /\ request.length \in Nat
      BY <2>1, Lengths DEF IInv
    <2>3. PICK n \in 0..Len(wire) : Framed(n)
      BY DEF IInv, FramingInv
    <2>4. /\ n + Len(stream.buffered) + stream.loaded <= request.length
          /\ \A i \in 1..Len(stream.buffered) : stream.buffered[i] = BodyByte(current)
      BY <2>1, <2>3 DEF Framed
    <2>5. DOMAIN stream.buffered = 1..Len(stream.buffered)
      BY <2>1, LenProperties
    <2>6. stream.loaded + Len(stream.buffered) <= request.length
      BY <2>2, <2>4
    <2> QED BY <2>4, <2>5, <2>6
  <1> QED BY <1>1, Invariant, PTL

\* The connection is kept only when what was received is answered to the end
\* (processRequest, processConnection).
THEOREM AnswersComeFirst == Spec => []AnsweredBeforeNext
  <1>1. IInv => AnsweredBeforeNext
    <2> SUFFICES ASSUME IInv
                 PROVE  AnsweredBeforeNext
      OBVIOUS
    <2>1. current \in Nat /\ current <= Len(sent) /\ Len(sent) \in Nat
      BY Lengths DEF IInv
    <2>2. pc = "next" => Answered(current)
      BY DEF IInv, FramingInv, Typed, Received
    <2>3. ASSUME pc = "init", ~pipelined, NEW i \in 1..current
          PROVE  Answered(i)
      <3>1. i = current \/ i \in 1..Len(sent) - 1
        BY <2>1
      <3>2. current > 0
        BY <2>1
      <3> QED BY <2>3, <3>1, <3>2 DEF IInv, FramingInv
    <2> QED BY <2>2, <2>3 DEF AnsweredBeforeNext
  <1> QED BY <1>1, Invariant, PTL

\* An answer whose body is not as long as its header says is the last of its
\* connection, unless a file changed while it was sent (processDirectFileRequest,
\* processServerError, HttpResponse::end).
THEOREM BrokenIsLast == Spec => []BrokenAnswerIsLast
  <1>1. IInv => BrokenAnswerIsLast
    <2> SUFFICES ASSUME IInv, pc = "init", ~changed, NEW i \in 1..current,
                        answers[i].length # NoLength
                 PROVE  answers[i].length = answers[i].body
      BY DEF BrokenAnswerIsLast
    <2>1. current \in Nat
      BY Lengths DEF IInv
    <2>2. current > 0 /\ (i = current \/ i \in 1..current - 1)
      BY <2>1
    <2>3. Whole(i)
      BY <2>2 DEF IInv, ContentInv
    <2> QED BY <2>3 DEF Whole
  <1> QED BY <1>1, Invariant, PTL

\* Types, at the places of the connection.
THEOREM TypesAreKept == Spec => []TypeOK
  <1>1. IInv => TypeOK
    <2> SUFFICES ASSUME IInv PROVE TypeOK
      OBVIOUS
    <2>1. DOMAIN sent = 1..Len(sent) /\ DOMAIN answers = 1..Len(answers)
      BY LenProperties DEF IInv, Typed
    <2>2. Units = [request : DOMAIN sent, part : {"header", "body"}]
      BY <2>1 DEF Units
    <2>3. answers \in [DOMAIN sent -> Answers]
      <3>1. \A i \in 1..Len(answers) : answers[i] \in Answers
        BY ElementOfSeq DEF IInv, Typed
      <3>2. answers \in [1..Len(answers) -> Answers]
        BY LenProperties DEF IInv, Typed
      <3> QED BY <2>1, <3>2 DEF IInv, Typed
    <2> QED BY <2>2, <2>3 DEF TypeOK, IInv, Typed, Received, Answers
  <1> QED BY <1>1, Invariant, PTL
-----------------------------------------------------------------------------
(* Where the paths of a sound site lead. *)

\* The provers do not see that "" is a string.
Names == STRING \cup {""}
Paths == Seq(Names) \ {<<>>}

\* The name at the end of the path of a directory.
LEMMA EmptyName == "" \in Names
  BY DEF Names

\* The path of the root.
LEMMA SlashIsPath == Slash \in Paths /\ Len(Slash) = 1 /\ Slash[1] = ""
  BY DEF Slash, Paths, Names

\* Sequences of strings are sequences of names.
LEMMA StringsAreNames ==
  ASSUME NEW path \in Seq(STRING)
  PROVE  path \in Seq(Names)
  BY SeqMonotonic DEF Names

\* How far the walk to the directory of a path gets.
Reached(path) ==
  {depth \in 0..Len(path) - 1 :
     \A d \in 1..depth : DirectoryPath(path, d) \in DOMAIN Directories}
Depth(path) == Max(Reached(path))

\* The walk goes on while the directories are registered.
LEMMA DepthIs ==
  ASSUME NEW path \in Paths
  PROVE  /\ Len(path) \in Nat \ {0}
         /\ Depth(path) \in 0..Len(path) - 1
         /\ \A d \in 1..Depth(path) : DirectoryPath(path, d) \in DOMAIN Directories
         /\ Depth(path) < Len(path) - 1 =>
              DirectoryPath(path, Depth(path) + 1) \notin DOMAIN Directories
  <1>1. Len(path) \in Nat \ {0}
    BY LenProperties, EmptySeq DEF Paths
  <1>2. Reached(path) \subseteq Int /\ Len(path) \in Int
        /\ \A d \in Reached(path) : d <= Len(path)
    BY <1>1 DEF Reached
  <1>3. 0 \in Reached(path)
    BY <1>1 DEF Reached
  <1>4. Depth(path) \in Reached(path) /\ \A d \in Reached(path) : Depth(path) >= d
    BY <1>2, <1>3, MaxIsGreatest DEF Depth
  <1>5. Depth(path) \in 0..Len(path) - 1
        /\ \A d \in 1..Depth(path) : DirectoryPath(path, d) \in DOMAIN Directories
    BY <1>4 DEF Reached
  <1>6. ASSUME Depth(path) < Len(path) - 1,
               DirectoryPath(path, Depth(path) + 1) \in DOMAIN Directories
        PROVE  FALSE
    <2>1. Depth(path) + 1 \in 0..Len(path) - 1
      BY <1>1, <1>5, <1>6
    <2>2. \A d \in 1..Depth(path) + 1 : d \in 1..Depth(path) \/ d = Depth(path) + 1
      BY <1>5
    <2>3. Depth(path) + 1 \in Reached(path)
      BY <1>5, <1>6, <2>1, <2>2 DEF Reached
    <2> QED BY <1>4, <1>5, <2>3
  <1> QED BY <1>1, <1>5, <1>6

\* Where it ends is where it finds no directory.
LEMMA DepthIsWhere ==
  ASSUME NEW path \in Paths, NEW k \in 0..Len(path) - 1,
         \A d \in 1..k : DirectoryPath(path, d) \in DOMAIN Directories,
         k < Len(path) - 1 => DirectoryPath(path, k + 1) \notin DOMAIN Directories
  PROVE  Depth(path) = k
  <1>1. Len(path) \in Nat \ {0} /\ Depth(path) \in 0..Len(path) - 1
    BY DepthIs
  <1>2. CASE Depth(path) < k
    <2>1. Depth(path) + 1 \in 1..k /\ Depth(path) < Len(path) - 1
      BY <1>1, <1>2
    <2> QED BY <2>1, DepthIs
  <1>3. CASE Depth(path) > k
    <2>1. k + 1 \in 1..Depth(path) /\ k < Len(path) - 1
      BY <1>1, <1>3
    <2> QED BY <2>1, DepthIs
  <1> QED BY <1>1, <1>2, <1>3

\* The directory that serves a path, on a sound site.
LEMMA DirectoryFound ==
  ASSUME SoundSite, NEW path \in Paths
  PROVE  LET place == DirectoryPath(path, Depth(path))
         IN /\ place \in DOMAIN Directories
            /\ FindDirectory(path) = Directories[place]
            /\ FindDirectory(path).virtualPath = place
            /\ FindDirectory(path).realPath \in Seq(Names)
            /\ IsDirectory(FindDirectory(path).realPath)
            /\ Below(FindDirectory(path), path) =
                 SubSeq(path, Depth(path) + 1, Len(path))
  <1> DEFINE place == DirectoryPath(path, Depth(path))
  <1>1. Len(path) \in Nat \ {0} /\ Depth(path) \in 0..Len(path) - 1
    BY DepthIs
  <1>2. place \in DOMAIN Directories
    <2>1. CASE Depth(path) = 0
      <3>1. SubSeq(path, 1, 0) = <<>> /\ <<>> \o Slash = Slash
        BY SubSeqProperties, ConcatEmptySeq DEF Slash, Paths
      <3> QED BY <2>1, <3>1 DEF DirectoryPath, SoundSite, RootRegistered
    <2>2. CASE Depth(path) # 0
      <3>1. Depth(path) \in 1..Depth(path)
        BY <1>1, <2>2
      <3> QED BY <3>1, DepthIs
    <2> QED BY <2>1, <2>2
  <1>3. FindDirectory(path) = Directories[place]
    BY DEF FindDirectory, Depth, Reached
  <1>4. /\ Directories[place].virtualPath = place
        /\ Directories[place].realPath \in Seq(Names)
        /\ IsDirectory(Directories[place].realPath)
    BY <1>2, StringsAreNames DEF SoundSite
  <1>5. Len(place) = Depth(path) + 1
    <2>1. SubSeq(path, 1, Depth(path)) \in Seq(Names)
          /\ Len(SubSeq(path, 1, Depth(path))) = Depth(path)
      <3>1. \A i \in 1..Depth(path) : path[i] \in Names
        BY <1>1, ElementOfSeq DEF Paths
      <3> QED BY <1>1, <3>1, SubSeqProperties
    <2>2. Slash \in Seq(Names) /\ Len(Slash) = 1
      BY SlashIsPath DEF Paths
    <2>3. Len(place) = Len(SubSeq(path, 1, Depth(path))) + Len(Slash)
      BY <2>1, <2>2, ConcatProperties DEF DirectoryPath
    <2> HIDE DEF place
    <2> QED BY <2>1, <2>2, <2>3
  <1>6. Below(FindDirectory(path), path) = SubSeq(path, Depth(path) + 1, Len(path))
    BY <1>3, <1>4, <1>5 DEF Below
  <1> QED BY <1>2, <1>3, <1>4, <1>6

\* The path of a directory on the way: the names before, and a slash.
LEMMA DirectoryPathIs ==
  ASSUME NEW path \in Paths, NEW d \in 0..Len(path)
  PROVE  /\ DirectoryPath(path, d) \in Paths
         /\ Len(DirectoryPath(path, d)) = d + 1
         /\ \A i \in 1..d : DirectoryPath(path, d)[i] = path[i]
         /\ DirectoryPath(path, d)[d + 1] = ""
  <1> DEFINE first == SubSeq(path, 1, d)
             whole == first \o Slash
  <1>1. d \in Nat /\ d <= Len(path)
    BY LenProperties DEF Paths
  <1>2. first \in Seq(Names) /\ Len(first) = d /\ \A i \in 1..d : first[i] = path[i]
    <2>1. \A i \in 1..d : path[i] \in Names
      BY <1>1, ElementOfSeq DEF Paths
    <2> QED BY <1>1, <2>1, SubSeqProperties
  <1>3. Slash \in Seq(Names) /\ Len(Slash) = 1 /\ Slash[1] = ""
    BY SlashIsPath DEF Paths
  <1> HIDE DEF first
  <1>4. /\ whole \in Seq(Names) /\ Len(whole) = d + 1
        /\ \A i \in 1..d + 1 : whole[i] = IF i <= d THEN first[i] ELSE Slash[i - d]
    <2>1. /\ whole \in Seq(Names) /\ Len(whole) = Len(first) + Len(Slash)
          /\ \A i \in 1..Len(first) + Len(Slash) :
               whole[i] = IF i <= Len(first) THEN first[i] ELSE Slash[i - Len(first)]
      BY <1>2, <1>3, ConcatProperties
    <2> HIDE DEF whole
    <2> QED BY <1>2, <1>3, <2>1
  <1>5. whole[d + 1] = "" /\ \A i \in 1..d : whole[i] = first[i]
    <2> HIDE DEF whole
    <2>1. d + 1 \in 1..d + 1 /\ ~(d + 1 <= d) /\ (d + 1) - d = 1
          /\ \A i \in 1..d : i \in 1..d + 1 /\ i <= d
      BY <1>1
    <2> QED BY <1>3, <1>4, <2>1
  <1>6. whole # <<>>
    BY <1>1, <1>4, EmptySeq
  <1>7. DirectoryPath(path, d) = whole
    BY DEF DirectoryPath, first
  <1> HIDE DEF whole
  <1> QED BY <1>2, <1>4, <1>5, <1>6, <1>7 DEF Paths

\* It depends on the names before only.
LEMMA SamePrefix ==
  ASSUME NEW path \in Paths, NEW url \in Paths,
         NEW d \in 0..Len(path), d <= Len(url), \A i \in 1..d : path[i] = url[i]
  PROVE  DirectoryPath(path, d) = DirectoryPath(url, d)
  <1>1. Len(path) \in Nat /\ Len(url) \in Nat /\ d \in 0..Len(url)
    BY LenProperties DEF Paths
  <1> DEFINE p == DirectoryPath(path, d)
             u == DirectoryPath(url, d)
  <1>2. /\ p \in Seq(Names) /\ Len(p) = d + 1
        /\ (\A i \in 1..d : p[i] = path[i]) /\ p[d + 1] = ""
    BY DirectoryPathIs DEF Paths
  <1>3. /\ u \in Seq(Names) /\ Len(u) = d + 1
        /\ (\A i \in 1..d : u[i] = url[i]) /\ u[d + 1] = ""
    BY <1>1, DirectoryPathIs DEF Paths
  <1> HIDE DEF p, u
  <1>4. \A i \in 1..d + 1 : p[i] = u[i]
    <2>1. \A i \in 1..d + 1 : i \in 1..d \/ i = d + 1
      BY <1>1
    <2> QED BY <1>2, <1>3, <2>1
  <1>5. p = u
    BY <1>2, <1>3, <1>4, SeqEqual
  <1> QED BY <1>5 DEF p, u

\* The last directory on the way of a path that ends in a slash is its own.
LEMMA WholePath ==
  ASSUME NEW path \in Paths, path[Len(path)] = ""
  PROVE  DirectoryPath(path, Len(path) - 1) = path
  <1>0. PICK n \in Nat \ {0} : n = Len(path)
    BY DepthIs
  <1>1. PICK d \in 0..n : d + 1 = n /\ d = n - 1 /\ \A i \in 1..n : i \in 1..d \/ i = n
    BY Predecessor
  <1> DEFINE p == DirectoryPath(path, d)
  <1>2. /\ p \in Seq(Names) /\ Len(p) = n
        /\ (\A i \in 1..d : p[i] = path[i]) /\ p[n] = ""
    BY <1>0, <1>1, DirectoryPathIs DEF Paths
  <1> HIDE DEF p
  <1>3. \A i \in 1..n : p[i] = path[i]
    BY <1>0, <1>1, <1>2
  <1>4. p = path
    BY <1>0, <1>2, <1>3, SeqEqual DEF Paths
  <1> QED BY <1>0, <1>1, <1>4 DEF p

\* The same directory serves two paths that agree as far as the walk goes.
LEMMA SameDirectory ==
  ASSUME NEW path \in Paths, NEW url \in Paths,
         Depth(path) <= Len(url) - 1,
         \A i \in 1..Depth(path) : url[i] = path[i],
         Depth(path) < Len(url) - 1 =>
           DirectoryPath(url, Depth(path) + 1) \notin DOMAIN Directories
  PROVE  Depth(url) = Depth(path) /\ FindDirectory(url) = FindDirectory(path)
  <1> DEFINE k == Depth(path)
  <1>1. Len(url) \in Nat \ {0} /\ Len(path) \in Nat \ {0} /\ k \in 0..Len(path) - 1
        /\ k \in 0..Len(url) - 1
    BY DepthIs
  <1>2. \A d \in 0..k : DirectoryPath(url, d) = DirectoryPath(path, d)
    <2> SUFFICES ASSUME NEW d \in 0..k PROVE DirectoryPath(url, d) = DirectoryPath(path, d)
      OBVIOUS
    <2>1. d \in 0..Len(path) /\ d <= Len(url) /\ \A i \in 1..d : path[i] = url[i]
      BY <1>1
    <2> QED BY <2>1, SamePrefix
  <1>3. \A d \in 1..k : DirectoryPath(url, d) \in DOMAIN Directories
    <2> SUFFICES ASSUME NEW d \in 1..k
                 PROVE  DirectoryPath(url, d) \in DOMAIN Directories
      OBVIOUS
    <2>1. d \in 0..k
      BY <1>1
    <2> QED BY <1>2, <2>1, DepthIs
  <1>4. Depth(url) = k
    BY <1>1, <1>3, DepthIsWhere
  <1>5. DirectoryPath(url, k) = DirectoryPath(path, k)
    <2>1. k \in 0..k
      BY <1>1
    <2> QED BY <1>2, <2>1
  <1>6. FindDirectory(path) = Directories[DirectoryPath(path, Depth(path))]
        /\ FindDirectory(url) = Directories[DirectoryPath(url, Depth(url))]
    BY DEF FindDirectory, Depth, Reached
  <1> QED BY <1>4, <1>5, <1>6

\* A name at the end of a path is one more name, unless it is empty.
LEMMA NamesAppend ==
  ASSUME NEW path \in Seq(Names), NEW name \in Names
  PROVE  /\ NamesOf(path) \in Seq(Names)
         /\ NamesOf(Append(path, name)) =
              IF name = "" THEN NamesOf(path) ELSE Append(NamesOf(path), name)
  <1> DEFINE Piece(n) == IF n = "" THEN <<>> ELSE <<n>>
             pieces(p) == [i \in DOMAIN p |-> Piece(p[i])]
             more == Append(path, name)
  <1>1. /\ Len(path) \in Nat /\ DOMAIN path = 1..Len(path)
        /\ \A i \in 1..Len(path) : path[i] \in Names
    BY LenProperties, ElementOfSeq
  <1>2. /\ more \in Seq(Names) /\ Len(more) = Len(path) + 1
        /\ DOMAIN more = 1..Len(path) + 1
        /\ more[Len(path) + 1] = name /\ \A i \in 1..Len(path) : more[i] = path[i]
    BY AppendProperties, LenProperties
  <1>3. \A n \in Names : Piece(n) \in Seq(Names)
    <2> SUFFICES ASSUME NEW n \in Names PROVE Piece(n) \in Seq(Names)
      OBVIOUS
    <2>1. <<>> \in Seq(Names) /\ <<n>> \in Seq(Names)
      BY EmptySeq
    <2> QED BY <2>1
  <1> HIDE DEF Piece, more
  <1>4. /\ pieces(path) \in Seq(Seq(Names)) /\ Len(pieces(path)) = Len(path)
        /\ \A i \in 1..Len(path) : pieces(path)[i] = Piece(path[i])
    <2>1. pieces(path) \in [1..Len(path) -> Seq(Names)]
      BY <1>1, <1>3
    <2> QED BY <1>1, <2>1
  <1>5. /\ pieces(more) \in Seq(Seq(Names)) /\ Len(pieces(more)) = Len(path) + 1
        /\ \A i \in 1..Len(path) + 1 : pieces(more)[i] = Piece(more[i])
    <2>1. \A i \in 1..Len(path) + 1 : more[i] \in Names
      BY <1>2, ElementOfSeq
    <2>2. pieces(more) \in [1..Len(path) + 1 -> Seq(Names)]
      BY <1>2, <1>3, <2>1
    <2> QED BY <1>1, <1>2, <2>2
  <1>6. Append(pieces(path), Piece(name)) \in Seq(Seq(Names))
        /\ Len(Append(pieces(path), Piece(name))) = Len(path) + 1
        /\ Append(pieces(path), Piece(name))[Len(path) + 1] = Piece(name)
        /\ \A i \in 1..Len(path) :
             Append(pieces(path), Piece(name))[i] = pieces(path)[i]
    <2> HIDE DEF pieces
    <2> QED BY <1>3, <1>4, AppendProperties
  <1>7. pieces(more) = Append(pieces(path), Piece(name))
    <2> DEFINE p == pieces(more)
               q == Append(pieces(path), Piece(name))
    <2>1. \A i \in 1..Len(path) + 1 : p[i] = q[i]
      <3> SUFFICES ASSUME NEW i \in 1..Len(path) + 1 PROVE p[i] = q[i]
        OBVIOUS
      <3>1. i \in 1..Len(path) \/ i = Len(path) + 1
        BY <1>1
      <3>2. p[i] = Piece(more[i])
        BY <1>5
      <3> HIDE DEF p, q
      <3>3. CASE i \in 1..Len(path)
        <4>1. q[i] = pieces(path)[i] /\ pieces(path)[i] = Piece(path[i]) /\ more[i] = path[i]
          BY <1>2, <1>4, <1>6, <3>3 DEF q
        <4> QED BY <3>2, <4>1
      <3>4. CASE i = Len(path) + 1
        BY <1>2, <1>6, <3>2, <3>4 DEF q
      <3> QED BY <3>1, <3>3, <3>4
    <2>2. Len(p) = Len(path) + 1 /\ Len(q) = Len(path) + 1
          /\ p \in Seq(Seq(Names)) /\ q \in Seq(Seq(Names))
      BY <1>5, <1>6
    <2> HIDE DEF p, q
    <2>3. p = q
      BY <2>1, <2>2, SeqEqual
    <2> QED BY <2>3 DEF p, q
  <1>8. NamesOf(path) = FlattenSeq(pieces(path)) /\ NamesOf(more) = FlattenSeq(pieces(more))
    BY DEF NamesOf, Piece
  <1> HIDE DEF pieces
  <1>9. /\ FlattenSeq(pieces(path)) \in Seq(Names)
        /\ FlattenSeq(Append(pieces(path), Piece(name))) = FlattenSeq(pieces(path)) \o Piece(name)
    BY <1>3, <1>4, FlattenAppend
  <1>10. NamesOf(path) \in Seq(Names) /\ NamesOf(more) = NamesOf(path) \o Piece(name)
    BY <1>7, <1>8, <1>9
  <1>11. CASE name = ""
    <2>1. Piece(name) = <<>>
      BY <1>11 DEF Piece
    <2> QED BY <1>10, <1>11, <2>1, ConcatEmptySeq DEF more
  <1>12. CASE name # ""
    <2>1. Piece(name) = <<name>>
      BY <1>12 DEF Piece
    <2> QED BY <1>10, <1>12, <2>1, AppendIsConcat DEF more
  <1> QED BY <1>11, <1>12

\* What an appended name adds to the end of a path.
LEMMA TailAppend ==
  ASSUME NEW first \in Seq(Names), NEW name \in Names, NEW k \in 0..Len(first)
  PROVE  /\ SubSeq(first, k + 1, Len(first)) \in Seq(Names)
         /\ SubSeq(Append(first, name), k + 1, Len(first) + 1)
              = Append(SubSeq(first, k + 1, Len(first)), name)
  <1> DEFINE n == Len(first)
             more == Append(first, name)
             tail == SubSeq(first, k + 1, n)
             rest == SubSeq(more, k + 1, n + 1)
             grown == Append(tail, name)
  <1>1. n \in Nat /\ \A i \in 1..n : first[i] \in Names
    BY LenProperties, ElementOfSeq
  <1>2. /\ more \in Seq(Names) /\ Len(more) = n + 1
        /\ more[n + 1] = name /\ \A i \in 1..n : more[i] = first[i]
    BY AppendProperties
  <1>3. \A i \in 1..n + 1 : more[i] \in Names
    BY <1>2, ElementOfSeq
  <1> HIDE DEF n, more
  <1>4. k + 1 \in Int /\ n \in Int /\ n + 1 \in Int /\ k \in Nat /\ n - k \in Nat
        /\ n - (k + 1) + 1 = n - k /\ (n + 1) - (k + 1) + 1 = n - k + 1
        /\ (k + 1 > n <=> n - k = 0) /\ ~(k + 1 > n + 1)
        /\ (\A i \in k + 1..n : i \in 1..n) /\ (\A i \in k + 1..n + 1 : i \in 1..n + 1)
    BY <1>1 DEF n
  <1>5. /\ tail \in Seq(Names) /\ Len(tail) = n - k
        /\ \A i \in 1..n - k : tail[i] = first[k + i]
    <2>1. \A i \in k + 1..n : first[i] \in Names
      BY <1>1, <1>4
    <2>2. /\ tail \in Seq(Names)
          /\ Len(tail) = IF k + 1 <= n THEN n - (k + 1) + 1 ELSE 0
          /\ \A i \in 1..n - (k + 1) + 1 : tail[i] = first[k + 1 + i - 1]
      BY <1>4, <2>1, SubSeqProperties
    <2>3. \A i \in 1..n - k : k + 1 + i - 1 = k + i
      BY <1>4
    <2> HIDE DEF tail
    <2> QED BY <1>4, <2>2, <2>3
  <1>6. /\ rest \in Seq(Names) /\ Len(rest) = n - k + 1
        /\ \A i \in 1..n - k + 1 : rest[i] = more[k + i]
    <2>1. \A i \in k + 1..n + 1 : more[i] \in Names
      BY <1>3, <1>4
    <2>2. /\ rest \in Seq(Names)
          /\ Len(rest) = IF k + 1 <= n + 1 THEN n + 1 - (k + 1) + 1 ELSE 0
          /\ \A i \in 1..n + 1 - (k + 1) + 1 : rest[i] = more[k + 1 + i - 1]
      BY <1>4, <2>1, SubSeqProperties
    <2>3. \A i \in 1..n - k + 1 : k + 1 + i - 1 = k + i
      BY <1>4
    <2> HIDE DEF rest
    <2> QED BY <1>4, <2>2, <2>3
  <1> HIDE DEF tail, rest
  <1>7. /\ grown \in Seq(Names) /\ Len(grown) = n - k + 1
        /\ grown[n - k + 1] = name /\ \A i \in 1..n - k : grown[i] = tail[i]
    BY <1>5, AppendProperties
  <1> HIDE DEF grown
  <1>8. \A i \in 1..n - k + 1 : rest[i] = grown[i]
    <2> SUFFICES ASSUME NEW i \in 1..n - k + 1 PROVE rest[i] = grown[i]
      OBVIOUS
    <2>1. CASE i = n - k + 1
      <3>1. k + i = n + 1
        BY <1>4, <2>1
      <3> QED BY <1>2, <1>6, <1>7, <2>1, <3>1
    <2>2. CASE i # n - k + 1
      <3>1. i \in 1..n - k /\ k + i \in 1..n
        BY <1>4, <2>2
      <3> QED BY <1>2, <1>5, <1>6, <1>7, <3>1
    <2> QED BY <2>1, <2>2
  <1>9. rest = grown
    BY <1>6, <1>7, <1>8, SeqEqual
  <1> QED BY <1>5, <1>9 DEF rest, grown, tail, more, n

\* A path is the names before its last, and the last.
LEMMA PathSplit ==
  ASSUME NEW path \in Paths
  PROVE  LET first == SubSeq(path, 1, Len(path) - 1)
             name  == path[Len(path)]
         IN /\ first \in Seq(Names) /\ name \in Names
            /\ path = Append(first, name) /\ Len(path) = Len(first) + 1
            /\ \A i \in 1..Len(first) : path[i] = first[i]
  <1>0. PICK n \in Nat \ {0} : n = Len(path)
    BY DepthIs
  <1>1. PICK d \in 0..n : d + 1 = n /\ d = n - 1 /\ \A i \in 1..n : i \in 1..d \/ i = n
    BY Predecessor
  <1> DEFINE first == SubSeq(path, 1, d)
  <1>2. \A i \in 1..n : path[i] \in Names
    BY <1>0, ElementOfSeq DEF Paths
  <1>3. first \in Seq(Names) /\ Len(first) = d /\ \A i \in 1..d : path[i] = first[i]
    BY <1>1, <1>2, SubSeqProperties
  <1> HIDE DEF first
  <1>4. path[n] \in Names
    BY <1>2
  <1> DEFINE whole == Append(first, path[n])
  <1>5. /\ whole \in Seq(Names) /\ Len(whole) = n
        /\ whole[n] = path[n] /\ \A i \in 1..d : whole[i] = first[i]
    BY <1>1, <1>3, <1>4, AppendProperties
  <1> HIDE DEF whole
  <1>6. \A i \in 1..n : whole[i] = path[i]
    BY <1>1, <1>3, <1>5
  <1>7. whole = path
    BY <1>0, <1>5, <1>6, SeqEqual DEF Paths
  <1> QED BY <1>0, <1>1, <1>3, <1>4, <1>7 DEF first, whole

\* The last name of a path.
LEMMA LastMade ==
  ASSUME NEW first \in Seq(Names), NEW name \in Names
  PROVE  /\ Append(first, name) # <<>>
         /\ Append(first, name)[Len(Append(first, name))] = name
  <1>1. /\ Append(first, name) \in Seq(Names) /\ Len(first) \in Nat
        /\ Len(Append(first, name)) = Len(first) + 1
        /\ Append(first, name)[Len(first) + 1] = name
    BY AppendProperties, LenProperties
  <1>2. Append(first, name) # <<>>
    BY <1>1, EmptySeq
  <1> QED BY <1>1, <1>2

\* The names before it.
LEMMA FrontMade ==
  ASSUME NEW first \in Seq(Names), NEW name \in Names
  PROVE  SubSeq(Append(first, name), 1, Len(Append(first, name)) - 1) = first
  <1>0. PICK n \in Nat : n = Len(first)
    BY LenProperties
  <1> DEFINE whole == Append(first, name)
             front == SubSeq(whole, 1, n)
  <1>1. Len(whole) = n + 1 /\ \A i \in 1..n : whole[i] = first[i]
    BY <1>0, AppendProperties
  <1> HIDE DEF whole
  <1>2. \A i \in 1..n : first[i] \in Names
    BY <1>0, ElementOfSeq
  <1>3. front \in Seq(Names) /\ Len(front) = n /\ \A i \in 1..n : front[i] = whole[i]
    BY <1>1, <1>2, SubSeqProperties
  <1> HIDE DEF front
  <1>4. front = first
    BY <1>0, <1>1, <1>3, SeqEqual
  <1>5. (n + 1) - 1 = n
    OBVIOUS
  <1> QED BY <1>1, <1>4, <1>5 DEF front, whole

\* What holds a file or a directory is a directory.
LEMMA AboveIsDirectory ==
  ASSUME SoundSite, NEW file \in DOMAIN Files, file # <<>>
  PROVE  IsDirectory(SubSeq(file, 1, Len(file) - 1))
  BY DEF SoundSite

\* A path made of the names before its last and the last.
LEMMA PathMade ==
  ASSUME NEW first \in Seq(Names), NEW name \in Names
  PROVE  /\ Append(first, name) \in Paths
         /\ Len(first) \in Nat /\ Len(Append(first, name)) = Len(first) + 1
         /\ Append(first, name)[Len(first) + 1] = name
         /\ \A i \in 1..Len(first) : Append(first, name)[i] = first[i]
         /\ Append(first, name) = first \o <<name>>
  <1>1. /\ Append(first, name) \in Seq(Names) /\ Len(first) \in Nat
        /\ Len(Append(first, name)) = Len(first) + 1
        /\ Append(first, name)[Len(first) + 1] = name
        /\ \A i \in 1..Len(first) : Append(first, name)[i] = first[i]
    BY AppendProperties, LenProperties
  <1>2. Append(first, name) # <<>>
    BY <1>1, EmptySeq
  <1> QED BY <1>1, <1>2, AppendIsConcat DEF Paths

\* The directory that a name is in.
LEMMA DirectoryPathMade ==
  ASSUME NEW first \in Seq(Names), NEW name \in Names
  PROVE  DirectoryPath(Append(first, name), Len(first)) = Append(first, "")
  <1>0. "" \in Names
    BY DEF Names
  <1>1. PICK n \in Nat : n = Len(first)
    BY LenProperties
  <1>2. PICK path \in Paths : /\ path = Append(first, name) /\ Len(path) = n + 1
                              /\ \A i \in 1..n : path[i] = first[i]
    BY <1>1, PathMade
  <1>3. PICK url \in Paths : /\ url = Append(first, "") /\ Len(url) = n + 1
                             /\ url[n + 1] = ""
                             /\ \A i \in 1..n : url[i] = first[i]
    BY <1>0, <1>1, PathMade
  <1>4. n \in 0..n + 1 /\ n <= n + 1 /\ (n + 1) - 1 = n
    BY <1>1
  <1>5. DirectoryPath(path, n) = DirectoryPath(url, n)
    <2>1. n \in 0..Len(path) /\ n <= Len(url) /\ \A i \in 1..n : path[i] = url[i]
      BY <1>2, <1>3, <1>4
    <2> QED BY <2>1, SamePrefix
  <1>6. DirectoryPath(url, n) = url
    BY <1>3, <1>4, WholePath
  <1> QED BY <1>1, <1>2, <1>3, <1>5, <1>6

\* The file that a path stands for when no mapping matches it.
FileOf(path) == FileSystemPath(FindDirectory(path), path)

\* The file of a path: below the directory, the names before the last, and the last.
LEMMA FileIs ==
  ASSUME SoundSite, NEW first \in Seq(Names), NEW name \in Names
  PROVE  LET path == Append(first, name)
             base == FindDirectory(path).realPath
                       \o NamesOf(SubSeq(first, Depth(path) + 1, Len(first)))
         IN /\ base \in Seq(Names)
            /\ FileOf(path) = IF name = "" THEN base ELSE Append(base, name)
  <1> DEFINE path == Append(first, name)
             k    == Depth(path)
             dir  == FindDirectory(path)
             tail == SubSeq(first, k + 1, Len(first))
             base == dir.realPath \o NamesOf(tail)
  <1>1. path \in Paths /\ Len(first) \in Nat /\ Len(path) = Len(first) + 1
    BY PathMade
  <1>2. k \in 0..Len(first)
    <2>1. k \in 0..Len(path) - 1
      BY <1>1, DepthIs
    <2> HIDE DEF k
    <2> QED BY <1>1, <2>1
  <1>3. dir.realPath \in Seq(Names) /\ Below(dir, path) = SubSeq(path, k + 1, Len(path))
    BY <1>1, DirectoryFound
  <1> HIDE DEF k, dir
  <1>4. tail \in Seq(Names) /\ Below(dir, path) = Append(tail, name)
    BY <1>1, <1>2, <1>3, TailAppend
  <1> HIDE DEF tail, path
  <1>5. /\ NamesOf(tail) \in Seq(Names)
        /\ NamesOf(Append(tail, name)) =
             IF name = "" THEN NamesOf(tail) ELSE Append(NamesOf(tail), name)
    BY <1>4, NamesAppend
  <1>6. base \in Seq(Names)
    BY <1>3, <1>5, ConcatProperties
  <1>7. FileOf(path) = dir.realPath \o NamesOf(Append(tail, name))
    BY <1>4 DEF FileOf, FileSystemPath, dir
  <1>8. dir.realPath \o Append(NamesOf(tail), name) = Append(base, name)
    <2> DEFINE names == NamesOf(tail)
    <2>1. names \in Seq(Names) /\ dir.realPath \in Seq(Names) /\ base = dir.realPath \o names
      BY <1>3, <1>5
    <2> HIDE DEF names, base
    <2>2. dir.realPath \o Append(names, name) = Append(dir.realPath \o names, name)
      <3> DEFINE real == dir.realPath
      <3>1. real \in Seq(Names)
        BY <2>1
      <3> HIDE DEF real
      <3>2. real \o Append(names, name) = Append(real \o names, name)
        BY <2>1, <3>1, ConcatAppend
      <3> QED BY <3>2 DEF real
    <2> QED BY <2>1, <2>2 DEF names
  <1> QED BY <1>5, <1>6, <1>7, <1>8 DEF base, tail, dir, k, path

\* The names of the directory itself.
LEMMA NoNames == NamesOf(<<>>) = <<>>
  <1> DEFINE pieces == [i \in DOMAIN <<>> |-> IF <<>>[i] = "" THEN <<>> ELSE <<(<<>>[i])>>]
  <1>1. pieces = <<>>
    BY EmptySeq
  <1>2. NamesOf(<<>>) = FlattenSeq(pieces)
    BY DEF NamesOf
  <1> HIDE DEF pieces
  <1> QED BY <1>1, <1>2, FlattenEmpty

\* No mapping matches the path of a directory.
LEMMA NotMapped ==
  ASSUME SoundSite, NEW first \in Seq(Names)
  PROVE  Mapped(FindDirectory(Append(first, "")), Append(first, "")) = Append(first, "")
  <1>0. PICK n \in Nat : n = Len(first)
    BY LenProperties
  <1>1. PICK path \in Paths : path = Append(first, "") /\ Len(path) = n + 1
    BY <1>0, PathMade, EmptyName
  <1>2. PICK k \in 0..n : k = Depth(path)
    <2>1. Depth(path) \in 0..Len(path) - 1 /\ (n + 1) - 1 = n
      BY DepthIs
    <2> QED BY <1>1, <2>1
  <1> DEFINE dir   == FindDirectory(path)
             below == Below(dir, path)
             hits  == {i \in DOMAIN dir.mappings : below \in DOMAIN dir.mappings[i]}
  <1>3. PICK place \in DOMAIN Directories : dir = Directories[place]
    BY DirectoryFound
  <1>4. below = SubSeq(path, k + 1, n + 1)
    BY <1>1, <1>2, DirectoryFound
  <1>5. PICK tail \in Seq(Names) : below = Append(tail, "")
    BY <1>0, <1>1, <1>4, EmptyName, TailAppend
  <1>6. PICK last : last = Len(below) /\ below # <<>> /\ below[last] = ""
    <2> HIDE DEF below
    <2>1. Append(tail, "") # <<>> /\ Append(tail, "")[Len(Append(tail, ""))] = ""
      BY EmptyName, LastMade
    <2> QED BY <1>5, <2>1
  <1>7. hits = {}
    <2> HIDE DEF dir, below
    <2> SUFFICES ASSUME NEW i \in DOMAIN dir.mappings, below \in DOMAIN dir.mappings[i]
                 PROVE  FALSE
      OBVIOUS
    <2>1. \A q \in DOMAIN Directories :
            \A j \in DOMAIN Directories[q].mappings :
              \A b \in DOMAIN Directories[q].mappings[j] :
                b # <<>> => b[Len(b)] # ""
      BY DEF SoundSite
    <2>2. below # <<>> => below[Len(below)] # ""
      BY <1>3, <2>1
    <2> QED BY <1>6, <2>2
  <1>8. Mapped(dir, path) = IF hits = {} THEN path
                            ELSE SubSeq(dir.virtualPath, 1, Len(dir.virtualPath) - 1)
                                   \o dir.mappings[Max(hits)][below]
    <2> HIDE DEF dir
    <2> QED BY DEF Mapped
  <1> HIDE DEF hits
  <1> QED BY <1>1, <1>7, <1>8

\* The path of a directory leads to it when it is there.
LEMMA SlashLeads ==
  ASSUME SoundSite, NEW first \in Seq(Names), IsDirectory(FileOf(Append(first, "")))
  PROVE  Leads(Append(first, "")) = "directory"
  <1> DEFINE path == Append(first, "")
  <1>1. Mapped(FindDirectory(path), path) = path
    BY NotMapped
  <1>2. path[Len(path)] = ""
    BY EmptyName, LastMade
  <1> HIDE DEF path
  <1>3. Leads(path) = Resource(path, path, FileOf(path))
    BY <1>1 DEF Leads, FileOf
  <1> QED BY <1>2, <1>3 DEF Resource, path

\* The path of a registered directory leads to what it stands for.
LEMMA RegisteredLeads ==
  ASSUME SoundSite, NEW path \in DOMAIN Directories
  PROVE  Leads(path) = "directory"
  <1>1. path \in Paths /\ path[Len(path)] = "" /\ IsDirectory(Directories[path].realPath)
        /\ Directories[path].realPath \in Seq(Names)
        /\ \A d \in 1..Len(path) - 1 : DirectoryPath(path, d) \in DOMAIN Directories
    <2>1. /\ path \in Seq(STRING) /\ path # <<>> /\ path[Len(path)] = ""
          /\ Directories[path].realPath \in Seq(STRING)
          /\ IsDirectory(Directories[path].realPath)
          /\ \A d \in 1..Len(path) - 1 : DirectoryPath(path, d) \in DOMAIN Directories
      BY DEF SoundSite
    <2>2. path \in Seq(Names) /\ Directories[path].realPath \in Seq(Names)
      BY <2>1, StringsAreNames
    <2> QED BY <2>1, <2>2 DEF Paths
  <1>2. PICK first \in Seq(Names) : path = Append(first, "") /\ Len(path) = Len(first) + 1
    BY <1>1, PathSplit, Zenon
  <1>3. Len(first) \in Nat
    BY LenProperties
  <1>4. Depth(path) = Len(first)
    <2>1. PICK n \in Nat \ {0} : n = Len(path)
      BY <1>1, DepthIs
    <2>2. PICK d \in 0..n - 1 : d = n - 1
      BY Predecessor
    <2>3. \A i \in 1..d : DirectoryPath(path, i) \in DOMAIN Directories
      BY <1>1, <2>1, <2>2
    <2>4. d \in 0..Len(path) - 1 /\ ~(d < Len(path) - 1)
      BY <2>1, <2>2
    <2>5. Depth(path) = d
      BY <1>1, <2>3, <2>4, DepthIsWhere
    <2>6. n = Len(first) + 1
      BY <1>2, <2>1, Zenon
    <2>7. Len(first) = d
      BY <1>3, <2>1, <2>2, <2>6
    <2> QED BY <2>5, <2>7
  <1>5. DirectoryPath(path, Len(first)) = path
    BY <1>2, EmptyName, DirectoryPathMade
  <1>6. FindDirectory(path) = Directories[path]
    BY <1>1, <1>4, <1>5, DirectoryFound
  <1>7. SubSeq(first, Len(first) + 1, Len(first)) = <<>>
    BY <1>3, SubSeqEmpty
  <1>8. FileOf(path) = Directories[path].realPath \o NamesOf(<<>>)
    BY <1>2, <1>4, <1>6, <1>7, EmptyName, FileIs
  <1>9. FileOf(path) = Directories[path].realPath
    BY <1>1, <1>8, NoNames, ConcatEmptySeq
  <1> QED BY <1>1, <1>2, <1>9, SlashLeads

\* A slash after the path of what is a directory leads to it.
LEMMA AppendSlash ==
  ASSUME SoundSite, NEW path \in Paths, IsDirectory(FileOf(path))
  PROVE  Leads(Append(path, "")) = "directory"
  <1> DEFINE url == Append(path, "")
  <1>0. path \in Seq(Names)
    BY DEF Paths
  <1>1. CASE url \in DOMAIN Directories
    BY <1>1, RegisteredLeads
  <1>2. CASE url \notin DOMAIN Directories
    <2>1. PICK n \in Nat \ {0} : n = Len(path)
      BY DepthIs
    <2>2. /\ url \in Paths /\ Len(url) = n + 1
          /\ \A i \in 1..n : url[i] = path[i]
      BY <1>0, <2>1, EmptyName, PathMade
    <2>3. DirectoryPath(url, n) = url
      BY <1>0, <2>1, EmptyName, DirectoryPathMade
    <2>4. PICK k \in 0..n - 1 :
            k = Depth(path) /\ (k < n - 1 => DirectoryPath(path, k + 1) \notin DOMAIN Directories)
      BY <2>1, DepthIs
    <2> HIDE DEF url
    <2>5. DirectoryPath(url, k + 1) \notin DOMAIN Directories
      <3>1. CASE k = n - 1
        <4>1. k + 1 = n
          BY <2>1, <3>1
        <4> QED BY <1>2, <2>3, <4>1
      <3>2. CASE k # n - 1
        <4>1. k + 1 \in 0..n /\ k + 1 <= n + 1 /\ k < n - 1
              /\ \A i \in 1..k + 1 : path[i] = url[i]
          BY <2>1, <2>2, <2>4, <3>2
        <4>2. DirectoryPath(path, k + 1) = DirectoryPath(url, k + 1)
          BY <2>1, <2>2, <4>1, SamePrefix
        <4> QED BY <2>4, <4>1, <4>2
      <3> QED BY <3>1, <3>2
    <2>6. Depth(url) = k /\ FindDirectory(url) = FindDirectory(path)
      <3>1. k <= Len(url) - 1 /\ \A i \in 1..k : url[i] = path[i]
        BY <2>1, <2>2
      <3> QED BY <2>2, <2>4, <2>5, <3>1, SameDirectory
    <2>7. FileOf(url) = FindDirectory(path).realPath \o NamesOf(SubSeq(path, k + 1, Len(path)))
      BY <1>0, <2>6, EmptyName, FileIs DEF url
    <2>8. FileOf(path) = FindDirectory(path).realPath \o NamesOf(SubSeq(path, k + 1, Len(path)))
      BY <2>4, DirectoryFound DEF FileOf, FileSystemPath
    <2> QED BY <1>0, <2>7, <2>8, SlashLeads DEF url
  <1> QED BY <1>1, <1>2

\* A redirection is to the path of a directory.
LEMMA RedirectLeads ==
  ASSUME SoundSite, NEW path \in Paths, Leads(path) = "redirect"
  PROVE  Leads(path \o Slash) = "directory"
  <1> DEFINE mapped == Mapped(FindDirectory(path), path)
             file   == FileSystemPath(FindDirectory(path), mapped)
             url    == path \o Slash
  <1>1. Resource(path, mapped, file) = "redirect"
    BY DEF Leads
  <1>2. url = Append(path, "")
    BY EmptyName, AppendIsConcat DEF Slash, Paths
  <1> HIDE DEF mapped, file, url
  <1>3. \/ IsDirectory(file) /\ path = mapped
        \/ \E link \in DOMAIN Directories : url = link
    BY <1>1 DEF Resource, url
  <1>4. CASE IsDirectory(file) /\ path = mapped
    BY <1>2, <1>4, AppendSlash DEF FileOf, file, url
  <1>5. CASE \E link \in DOMAIN Directories : url = link
    BY <1>5, RegisteredLeads DEF url
  <1> QED BY <1>3, <1>4, <1>5 DEF url

\* The path of a page of a directory ends in a slash.
LEMMA PageEnds ==
  ASSUME SoundSite, NEW path \in Paths,
         Leads(path) = "directory", Mapped(FindDirectory(path), path) = path
  PROVE  /\ IsDirectory(FileOf(path))
         /\ \E first \in Seq(Names) :
              /\ path = Append(first, "") /\ Len(path) = Len(first) + 1
              /\ first = SubSeq(path, 1, Len(path) - 1)
  <1>1. Resource(path, path, FileOf(path)) = "directory"
    BY DEF Leads, FileOf
  <1>2. IsDirectory(FileOf(path)) /\ path[Len(path)] = ""
    BY <1>1 DEF Resource
  <1> QED BY <1>2, PathSplit, Zenon

\* The directory above the one of a page.
LEMMA ParentLeads ==
  ASSUME SoundSite, NEW path \in Paths, path # Slash,
         Leads(path) = "directory", Mapped(FindDirectory(path), path) = path
  PROVE  Leads(SubSeq(path, 1, Len(path) - 2) \o Slash) = "directory"
  <1>1. PICK first \in Seq(Names) : path = Append(first, "") /\ Len(path) = Len(first) + 1
    BY PageEnds
  <1>2. first # <<>>
    <2>1. Append(<<>>, "") = Slash
      <3>1. <<>> \in Seq(Names)
        BY EmptySeq
      <3>2. Append(<<>>, "") = <<>> \o Slash
        BY <3>1, EmptyName, AppendIsConcat DEF Slash
      <3> QED BY <3>2, SlashIsPath, ConcatEmptySeq DEF Paths
    <2> QED BY <1>1, <2>1
  <1>3. PICK up \in Seq(Names), name \in Names :
          first = Append(up, name) /\ Len(first) = Len(up) + 1
    BY <1>2, PathSplit DEF Paths
  <1>4. PICK m \in Nat : m = Len(up)
    BY LenProperties
  <1>5. Len(first) = m + 1 /\ Len(path) = m + 2
    <2>1. Len(path) = Len(first) + 1 /\ Len(first) = m + 1
      BY <1>1, <1>3, <1>4, Zenon
    <2> QED BY <1>4, <2>1
  <1> DEFINE url == DirectoryPath(path, m)
  <1>6. url = SubSeq(path, 1, Len(path) - 2) \o Slash
    <2>1. Len(path) - 2 = m
      BY <1>5
    <2> QED BY <2>1 DEF DirectoryPath
  <1>7. PICK k \in 0..m + 1 : /\ k = Depth(path)
                              /\ \A d \in 1..k : DirectoryPath(path, d) \in DOMAIN Directories
                              /\ k < m + 1 =>
                                   DirectoryPath(path, k + 1) \notin DOMAIN Directories
    <2>1. (m + 2) - 1 = m + 1
      BY <1>4
    <2>2. Depth(path) \in 0..m + 1
          /\ (Depth(path) < m + 1 =>
                DirectoryPath(path, Depth(path) + 1) \notin DOMAIN Directories)
      BY <1>5, <2>1, DepthIs
    <2> QED BY <2>2, DepthIs
  <1>8. /\ url = Append(up, "") /\ url \in Paths /\ Len(url) = m + 1
        /\ \A i \in 1..m : url[i] = path[i]
    <2>1. /\ \A i \in 1..m : path[i] = first[i] /\ first[i] = up[i]
      <3>1. \A i \in 1..m + 1 : path[i] = first[i]
        <4>1. \A i \in 1..Len(first) : Append(first, "")[i] = first[i]
          BY EmptyName, PathMade
        <4> QED BY <1>1, <1>5, <4>1, Zenon
      <3>2. \A i \in 1..m : first[i] = up[i]
        BY <1>3, <1>4, PathMade
      <3>3. \A i \in 1..m : i \in 1..m + 1
        BY <1>4
      <3> QED BY <3>1, <3>2, <3>3
    <2>2. PICK whole \in Paths : whole = Append(up, "") /\ Len(whole) = m + 1
                                 /\ \A i \in 1..m : whole[i] = up[i]
      BY <1>4, EmptyName, PathMade
    <2>3. DirectoryPath(whole, m) = whole
      BY <1>4, <2>2, EmptyName, DirectoryPathMade
    <2>4. DirectoryPath(path, m) = DirectoryPath(whole, m)
      <3>1. m \in 0..Len(path) /\ m <= Len(whole) /\ \A i \in 1..m : path[i] = whole[i]
        <4>1. \A i \in 1..m : path[i] = whole[i]
          BY <2>1, <2>2, Zenon
        <4>2. Len(whole) = m + 1
          BY <2>2, Zenon
        <4> QED BY <1>4, <1>5, <4>1, <4>2
      <3> QED BY <3>1, SamePrefix
    <2> QED BY <2>1, <2>2, <2>3, <2>4
  <1> HIDE DEF url
  <1>9. CASE url \in DOMAIN Directories
    BY <1>6, <1>9, RegisteredLeads
  <1>10. CASE url \notin DOMAIN Directories
    <2>1. k < m
      <3>1. CASE m = 0
        <4>1. url = Slash
          <5>1. SubSeq(path, 1, 0) = <<>>
            BY SubSeqEmpty
          <5>2. url = <<>> \o Slash
            BY <3>1, <5>1 DEF url, DirectoryPath
          <5> QED BY <5>2, SlashIsPath, ConcatEmptySeq DEF Paths
        <4> QED BY <1>10, <4>1 DEF SoundSite, RootRegistered
      <3>2. CASE m # 0 /\ m <= k
        <4>1. m \in 1..k
          BY <1>4, <1>7, <3>2
        <4> QED BY <1>7, <1>10, <4>1 DEF url
      <3> QED BY <1>4, <1>7, <3>1, <3>2
    <2>2. DirectoryPath(path, k + 1) = DirectoryPath(url, k + 1)
      <3>1. k + 1 \in 0..Len(path) /\ k + 1 <= Len(url)
            /\ \A i \in 1..k + 1 : path[i] = url[i]
        <4>1. Len(url) = m + 1 /\ \A i \in 1..m : path[i] = url[i]
          BY <1>8, Zenon
        <4> QED BY <1>4, <1>5, <2>1, <4>1
      <3> QED BY <1>8, <3>1, SamePrefix
    <2>3. DirectoryPath(url, k + 1) \notin DOMAIN Directories
      <3>1. k < m + 1
        BY <1>4, <1>7, <2>1
      <3> QED BY <1>7, <2>2, <3>1
    <2>4. Depth(url) = k /\ FindDirectory(url) = FindDirectory(path)
      <3>1. k <= Len(url) - 1 /\ \A i \in 1..k : url[i] = path[i]
        <4>1. Len(url) = m + 1 /\ \A i \in 1..m : url[i] = path[i]
          BY <1>8, Zenon
        <4> QED BY <1>4, <2>1, <4>1
      <3> QED BY <1>7, <1>8, <2>3, <3>1, SameDirectory
    <2>5. PICK tail \in Seq(Names) :
            /\ tail = SubSeq(up, k + 1, m)
            /\ SubSeq(first, k + 1, m + 1) = Append(tail, name)
      <3>1. k \in 0..Len(up)
        BY <1>4, <1>7, <2>1
      <3> QED BY <1>3, <1>4, <3>1, TailAppend
    <2> DEFINE real == FindDirectory(path).realPath
               file == real \o NamesOf(tail)
    <2>6. file \in Seq(Names) /\ FileOf(url) = file
      BY <1>4, <1>8, <2>4, <2>5, EmptyName, FileIs
    <2>7. FileOf(path) = real \o NamesOf(Append(tail, name))
      <3>1. FileOf(path) = real \o NamesOf(SubSeq(first, Depth(path) + 1, Len(first)))
        BY <1>1, EmptyName, FileIs
      <3> QED BY <1>5, <1>7, <2>5, <3>1, Zenon
    <2>8. FileOf(path) = IF name = "" THEN file ELSE Append(file, name)
      <3>1. real \in Seq(Names)
        BY DirectoryFound
      <3>2. /\ NamesOf(tail) \in Seq(Names)
            /\ NamesOf(Append(tail, name)) =
                 IF name = "" THEN NamesOf(tail) ELSE Append(NamesOf(tail), name)
        BY NamesAppend
      <3>3. real \o Append(NamesOf(tail), name) = Append(file, name)
        <4> DEFINE names == NamesOf(tail)
        <4>1. names \in Seq(Names)
          BY <3>2
        <4> HIDE DEF real, names
        <4>2. real \o Append(names, name) = Append(real \o names, name)
          BY <3>1, <4>1, ConcatAppend
        <4> QED BY <4>2 DEF names
      <3> QED BY <2>7, <3>2, <3>3
    <2> HIDE DEF real, file
    <2>9. IsDirectory(file)
      <3>1. CASE name = ""
        BY <2>8, <3>1, PageEnds
      <3>2. CASE name # ""
        <4>1. IsDirectory(Append(file, name))
          BY <2>8, <3>2, PageEnds
        <4>2. SubSeq(Append(file, name), 1, Len(Append(file, name)) - 1) = file
          BY <2>6, FrontMade
        <4>3. Append(file, name) # <<>>
          BY <2>6, LastMade
        <4> QED BY <4>1, <4>2, <4>3, AboveIsDirectory DEF IsDirectory, Exists
      <3> QED BY <3>1, <3>2
    <2>10. Leads(url) = "directory"
      BY <1>8, <2>6, <2>9, SlashLeads
    <2> QED BY <1>6, <2>10
  <1> QED BY <1>9, <1>10

\* What SoundSite says of linked directories.
LEMMA NoneHidden ==
  ASSUME SoundSite, NEW link \in DOMAIN Directories, Directories[link].isLinkedDirectory,
         NEW place, place = SubSeq(link, 1, Len(link) - 1), Exists(FileOf(place))
  PROVE  IsDirectory(FileOf(place))
  BY DEF SoundSite, FileOf

\* What SoundSite says of the path of a file.
LEMMA FileNamed ==
  ASSUME SoundSite, NEW f \in DOMAIN Files, f # <<>>
  PROVE  /\ f \in Seq(Names) /\ f[Len(f)] \in Names /\ f[Len(f)] # ""
         /\ f = Append(SubSeq(f, 1, Len(f) - 1), f[Len(f)])
         /\ Files[f].kind \in {"dir", "file"}
  <1>1. f \in Seq(Names) /\ (\A i \in DOMAIN f : f[i] # "") /\ Files[f].kind \in {"dir", "file"}
    BY StringsAreNames DEF SoundSite
  <1>2. f \in Paths
    BY <1>1 DEF Paths
  <1>3. PICK n \in Nat \ {0} : n = Len(f)
    BY <1>2, DepthIs
  <1>4. f[n] # ""
    <2>1. DOMAIN f = 1..n /\ n \in 1..n
      <3>1. DOMAIN f = 1..Len(f)
        BY <1>1, LenProperties, Zenon
      <3>2. n \in 1..n
        OBVIOUS
      <3> QED BY <1>3, <3>1, <3>2, Zenon
    <2> QED BY <1>1, <2>1
  <1>5. f[Len(f)] \in Names /\ f = Append(SubSeq(f, 1, Len(f) - 1), f[Len(f)])
    BY <1>2, PathSplit, Zenon
  <1> QED BY <1>1, <1>3, <1>4, <1>5

\* The path of a name next to the slash that ends the path of a page.
LEMMA NextTo ==
  ASSUME SoundSite, NEW first \in Seq(Names), NEW name \in Names, name # ""
  PROVE  FileOf(Append(first, name)) = Append(FileOf(Append(first, "")), name)
  <1>1. PICK n \in Nat : n = Len(first)
    BY LenProperties
  <1>2. PICK path \in Paths : /\ path = Append(first, "") /\ Len(path) = n + 1
                              /\ \A i \in 1..n : path[i] = first[i]
    BY <1>1, EmptyName, PathMade
  <1>3. PICK url \in Paths : /\ url = Append(first, name) /\ Len(url) = n + 1
                             /\ \A i \in 1..n : url[i] = first[i]
    BY <1>1, PathMade
  <1>4. Len(path) = n + 1 /\ Len(url) = n + 1 /\ (n + 1) - 1 = n
    <2>1. Len(path) = n + 1 /\ Len(url) = n + 1
      BY <1>2, <1>3, Zenon
    <2>2. (n + 1) - 1 = n
      BY <1>1, Within, Zenon
    <2> QED BY <2>1, <2>2
  <1>5. \A i \in 1..n : path[i] = url[i]
    BY <1>2, <1>3, Zenon
  <1>6. PICK k \in 0..n : /\ k = Depth(path)
                          /\ k < n => DirectoryPath(path, k + 1) \notin DOMAIN Directories
    <2>1. /\ Depth(path) \in 0..n
          /\ Depth(path) < n => DirectoryPath(path, Depth(path) + 1) \notin DOMAIN Directories
      BY <1>4, DepthIs
    <2> QED BY <2>1
  <1>7. k < n => DirectoryPath(url, k + 1) \notin DOMAIN Directories
    <2> SUFFICES ASSUME k < n PROVE DirectoryPath(url, k + 1) \notin DOMAIN Directories
      OBVIOUS
    <2>0. k + 1 \in 0..n + 1 /\ k + 1 <= n + 1 /\ \A i \in 1..k + 1 : i \in 1..n
      BY <1>1, <1>6, Within, Zenon
    <2>1. k + 1 \in 0..Len(path) /\ k + 1 <= Len(url) /\ \A i \in 1..k + 1 : path[i] = url[i]
      BY <1>4, <1>5, <2>0, Zenon
    <2>2. DirectoryPath(path, k + 1) = DirectoryPath(url, k + 1)
      BY <2>1, SamePrefix
    <2> QED BY <1>6, <2>2
  <1>8. Depth(url) = k /\ FindDirectory(url) = FindDirectory(path)
    <2>1. /\ Depth(path) <= Len(url) - 1 /\ \A i \in 1..Depth(path) : url[i] = path[i]
          /\ Depth(path) < Len(url) - 1 =>
               DirectoryPath(url, Depth(path) + 1) \notin DOMAIN Directories
      <3>1. k <= n /\ \A i \in 1..k : i \in 1..n
        BY <1>1, <1>6, Within, Zenon
      <3>2. k = Depth(path) /\ Len(url) - 1 = n
        BY <1>4, <1>6
      <3>3. \A i \in 1..k : url[i] = path[i]
        BY <1>5, <3>1, Zenon
      <3> QED BY <1>7, <3>1, <3>2, <3>3, Zenon
    <2>2. Depth(url) = Depth(path) /\ FindDirectory(url) = FindDirectory(path)
      BY <2>1, SameDirectory
    <2> QED BY <1>6, <2>2
  <1> DEFINE base == FindDirectory(path).realPath \o NamesOf(SubSeq(first, k + 1, n))
  <1>9. FileOf(path) = base
    BY <1>1, <1>2, <1>6, EmptyName, FileIs
  <1>10. FileOf(url) = Append(base, name)
    <2>1. FileOf(url) = Append(FindDirectory(url).realPath
                                 \o NamesOf(SubSeq(first, Depth(url) + 1, Len(first))), name)
      BY <1>3, FileIs
    <2> QED BY <1>1, <1>8, <2>1
  <1> QED BY <1>2, <1>3, <1>9, <1>10

\* What a directory holds.
LEMMA ContentLeads ==
  ASSUME SoundSite, NEW path \in Paths,
         Leads(path) = "directory", Mapped(FindDirectory(path), path) = path,
         NEW item \in DirectoryContent(path, FileOf(path)),
         Mapped(FindDirectory(item.url), item.url) = item.url
  PROVE  Leads(item.url) = IF item.kind = "dir" THEN "directory" ELSE "file"
  <1>1. PICK first \in Seq(Names) : path = Append(first, "")
                                    /\ first = SubSeq(path, 1, Len(path) - 1)
    BY PageEnds
  <1>2. PICK f \in DOMAIN Files :
          /\ f # <<>> /\ SubSeq(f, 1, Len(f) - 1) = FileOf(path)
          /\ item = [kind |-> Files[f].kind,
                     url  |-> SubSeq(path, 1, Len(path) - 1) \o <<f[Len(f)]>>
                                \o (IF IsDirectory(f) THEN Slash ELSE <<>>)]
    BY DEF DirectoryContent
  <1>3. PICK name \in Names : name = f[Len(f)] /\ name # ""
    BY <1>2, FileNamed
  <1> DEFINE url == Append(first, name)
  <1>4. url \in Paths /\ url \in Seq(Names) /\ url = first \o <<name>>
    BY PathMade DEF Paths
  <1>5. f = FileOf(url) /\ Files[f].kind \in {"dir", "file"}
    <2>1. f = Append(FileOf(path), name) /\ Files[f].kind \in {"dir", "file"}
      BY <1>2, <1>3, FileNamed
    <2>2. FileOf(url) = Append(FileOf(path), name)
      BY <1>1, <1>3, NextTo
    <2> QED BY <2>1, <2>2
  <1>6. item.kind = Files[f].kind
        /\ item.url = url \o (IF IsDirectory(f) THEN Slash ELSE <<>>)
    BY <1>1, <1>2, <1>3, <1>4
  <1> HIDE DEF url
  <1>7. CASE IsDirectory(f)
    <2>1. item.url = Append(url, "") /\ item.kind = "dir"
      BY <1>4, <1>6, <1>7, EmptyName, AppendIsConcat DEF Slash, IsDirectory
    <2>2. Leads(Append(url, "")) = "directory"
      BY <1>4, <1>5, <1>7, AppendSlash
    <2> QED BY <2>1, <2>2
  <1>8. CASE ~IsDirectory(f)
    <2>1. item.url = url /\ item.kind = "file"
      BY <1>4, <1>5, <1>6, <1>8, ConcatEmptySeq DEF IsDirectory, Exists
    <2>2. Leads(url) = Resource(url, url, f)
      BY <1>5, <2>1 DEF Leads, FileOf
    <2>3. ASSUME NEW link \in DOMAIN Directories,
                 Directories[link].isLinkedDirectory, url \o Slash = link
          PROVE  FALSE
      <3>1. url \o Slash = Append(url, "")
        BY <1>4, EmptyName, AppendIsConcat DEF Slash
      <3>2. url = SubSeq(link, 1, Len(link) - 1)
        <4>1. SubSeq(Append(url, ""), 1, Len(Append(url, "")) - 1) = url
          BY <1>4, EmptyName, FrontMade
        <4> QED BY <2>3, <3>1, <4>1
      <3> QED BY <1>5, <1>8, <2>3, <3>2, NoneHidden DEF Exists
    <2> QED BY <1>8, <2>1, <2>2, <2>3 DEF Resource, Exists
  <1> QED BY <1>7, <1>8

\* What a page of a directory refers to.
LEMMA ListedLeads ==
  ASSUME SoundSite, NEW path \in Paths,
         Leads(path) = "directory", Mapped(FindDirectory(path), path) = path,
         NEW item \in Listing(FindDirectory(path), path, FileOf(path)),
         Mapped(FindDirectory(item.url), item.url) = item.url
  PROVE  Leads(item.url) = IF item.kind = "dir" THEN "directory" ELSE "file"
  <1> DEFINE up == SubSeq(path, 1, Len(path) - 2) \o Slash
  <1>1. \/ path # Slash /\ item = [kind |-> "dir", url |-> up]
        \/ \E link \in DOMAIN Directories : item = [kind |-> "dir", url |-> link]
        \/ item \in DirectoryContent(path, FileOf(path))
    BY DEF Listing
  <1>2. CASE path # Slash /\ item = [kind |-> "dir", url |-> up]
    <2>1. Leads(up) = "directory"
      BY <1>2, ParentLeads
    <2> HIDE DEF up
    <2> QED BY <1>2, <2>1
  <1>3. CASE \E link \in DOMAIN Directories : item = [kind |-> "dir", url |-> link]
    BY <1>3, RegisteredLeads
  <1>4. CASE item \in DirectoryContent(path, FileOf(path))
    BY <1>4, ContentLeads
  <1> QED BY <1>1, <1>2, <1>3, <1>4

\* On a sound site, whatever is requested, the server redirects only to the page of a
\* directory and a page refers only to what is there (findTarget,
\* readDirectoryContent).
THEOREM LinksAreTrue ==
  ASSUME SoundSite, \A r \in Requests : r.path \in Seq(STRING) /\ r.path # <<>>
  PROVE  Spec => []LinksLead
  <1>1. IInv => LinksLead
    <2> SUFFICES ASSUME IInv, pc = "target" PROVE LinksLead
      BY DEF LinksLead
    <2> DEFINE path == request.path
               dir  == FindDirectory(path)
    <2>1. request \in Requests
      <3>1. sent \in Seq(Requests) /\ current \in 1..Len(sent)
        BY LenProperties DEF IInv, Typed, Received
      <3> QED BY <3>1, ElementOfSeq DEF request
    <2>2. path \in Paths
      BY <2>1, StringsAreNames DEF Paths
    <2> HIDE DEF path
    <2>3. Leads(path) = "redirect" => Leads(path \o Slash) = "directory"
      BY <2>2, RedirectLeads
    <2>4. ASSUME Leads(path) = "directory", Mapped(dir, path) = path,
                 NEW item \in Listing(dir, path, FileSystemPath(dir, path)),
                 Mapped(FindDirectory(item.url), item.url) = item.url
          PROVE  Leads(item.url) = IF item.kind = "dir" THEN "directory" ELSE "file"
      BY <2>2, <2>4, ListedLeads DEF FileOf
    <2> QED BY <2>3, <2>4 DEF LinksLead, path
  <1> QED BY <1>1, Invariant, PTL
=============================================================================
