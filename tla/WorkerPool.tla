----------------------------- MODULE WorkerPool -----------------------------
(***************************************************************************)
(* aconnect::Server: the acceptor thread (Server::run), the worker threads *)
(* (WorkerThreadProcAdapter and Server::waitRequest) and one thread that   *)
(* may call Server::stop.  They share the queue requests_, two atomic      *)
(* counters, the plain flag isStopped_, and two mutex/condition pairs.     *)
(*                                                                         *)
(* A step is the code between two points where another thread can see or   *)
(* change something.  A critical section of pendingMutex_ never blocks     *)
(* inside, so it is one step; finishMutex_ is a variable because the       *)
(* acceptor holds it over several steps.  Waiting on a condition is a      *)
(* program counter, being woken is another.                                *)
(***************************************************************************)
EXTENDS Naturals, Sequences, FiniteSets

CONSTANTS
  Worker,             \* worker thread slots; a slot is used again after exit
  Fd,                 \* descriptors the process can have open for clients
  NoSock,             \* INVALID_SOCKET
  MaxWorkers,         \* settings.workersCount
  EnablePooling,      \* settings.enablePooling
  WaitAllWorkers,     \* the argument of stop()
  SpuriousWakeups,    \* may a condition wait return without a notify?
  MaxThreadFailures   \* bound: thread creations that fail

ASSUME WorkerPoolAssumption ==
  /\ IsFiniteSet(Worker)
  /\ NoSock \notin Fd
  /\ MaxWorkers \in Nat
  /\ EnablePooling \in BOOLEAN
  /\ WaitAllWorkers \in BOOLEAN
  /\ SpuriousWakeups \in BOOLEAN
  /\ MaxThreadFailures \in Nat

VARIABLES
  open,                 \* client descriptors that are open
  requests,             \* requests_
  pendingWorkersCount,
  workersCount,
  isStopped,
  listening,            \* socket_ # INVALID_SOCKET
  finishMutex,          \* "free" or "acceptor"
  accPc,                \* where the acceptor is
  clientSock,           \* the connection the acceptor holds
  workerPc,             \* where each worker is; "off" when it has no thread
  client,               \* client_.socket of each worker
  stopPc,               \* where the thread that calls stop() is
  failedThreads         \* history: thread creations that failed

acceptorVars == <<accPc, clientSock, finishMutex, failedThreads>>
workerVars   == <<workerPc, client>>
counters     == <<pendingWorkersCount, workersCount>>
stopVars     == <<isStopped, listening, stopPc>>
vars == <<open, requests, counters, acceptorVars, workerVars, stopVars>>

AccPcs == {"accept", "checkStop", "acceptError", "checkPending", "pushRequest",
           "checkWorkers", "lockFinish", "finishWait", "finishWoken", "spawn",
           "createThread", "threadError", "selfStop", "done"}

\* Where clientSock names the connection just accepted.
AccHolding == {"checkPending", "pushRequest", "checkWorkers", "lockFinish",
               "finishWait", "finishWoken", "spawn", "createThread",
               "threadError", "selfStop"}

\* Where it has none in hand.
AccEmpty == {"accept", "acceptError", "done"}

WorkerPcs == {"off", "proc", "served", "enter", "waiting", "notified",
              "timedOut", "exit"}

StopPcs == {"idle", "drain", "joinWorkers", "lockFinish", "finishWait",
            "finishWoken", "closeListen", "returned"}

Live      == {w \in Worker : workerPc[w] # "off"}
Waiting   == {w \in Worker : workerPc[w] = "waiting"}
Notified  == {w \in Worker : workerPc[w] = "notified"}
Pending   == {w \in Worker : workerPc[w] \in {"waiting", "notified", "timedOut"}}
Serving   == {w \in Worker : workerPc[w] = "proc"}
Queued    == {requests[i] : i \in DOMAIN requests}

Init ==
  /\ open = {}
  /\ requests = <<>>
  /\ pendingWorkersCount = 0
  /\ workersCount = 0
  /\ isStopped = FALSE
  /\ listening = TRUE
  /\ finishMutex = "free"
  /\ accPc = "accept"
  /\ clientSock = NoSock
  /\ workerPc = [w \in Worker |-> "off"]
  /\ client = [w \in Worker |-> NoSock]
  /\ stopPc = "idle"
  /\ failedThreads = 0
-----------------------------------------------------------------------------
(* Condition variables. *)

\* pendingCondition_.notify_one(): lost when no worker waits.
NotifyPending ==
  \/ \E w \in Waiting : workerPc' = [workerPc EXCEPT ![w] = "notified"]
  \/ Waiting = {} /\ UNCHANGED workerPc

\* finishCondition_.notify_one(): the acceptor and stop() wait on the same one.
NotifyFinish ==
  \/ accPc = "finishWait" /\ accPc' = "finishWoken" /\ UNCHANGED stopPc
  \/ stopPc = "finishWait" /\ stopPc' = "finishWoken" /\ UNCHANGED accPc
  \/ accPc # "finishWait" /\ stopPc # "finishWait" /\ UNCHANGED <<accPc, stopPc>>

StopMutexFree == stopPc \in {"idle", "returned"}
-----------------------------------------------------------------------------
(* Steps shared by the actions. *)

AcceptorGoes(from, to) == accPc = from /\ accPc' = to

\* A step that moves only the acceptor's program counter.
Goto(from, to) ==
  /\ AcceptorGoes(from, to)
  /\ UNCHANGED <<open, requests, counters, clientSock, finishMutex,
                 failedThreads, workerVars, stopVars>>

WorkerGoes(w, from, to) ==
  workerPc[w] = from /\ workerPc' = [workerPc EXCEPT ![w] = to]

\* A step that moves only the program counter of worker w.
Step(w, from, to) ==
  /\ WorkerGoes(w, from, to)
  /\ UNCHANGED <<open, requests, counters, acceptorVars, client, stopVars>>

StopGoes(from, to) ==
  /\ stopPc = from
  /\ stopPc' = to
  /\ UNCHANGED <<open, requests, counters, acceptorVars, workerVars>>

\* The end of waitRequest when it finds a request.
Take(w, request, rest) ==
  /\ requests # <<>>
  /\ WorkerGoes(w, "notified", "proc")
  /\ pendingWorkersCount' = pendingWorkersCount - 1
  /\ client' = [client EXCEPT ![w] = request]
  /\ requests' = rest
  /\ UNCHANGED <<open, workersCount, acceptorVars, stopVars>>
-----------------------------------------------------------------------------
(* Faulty variants of actions below: mistakes the properties must reject. *)

WaitUncounted(w) == Step(w, "enter", "waiting")

TimeoutUncounted(w) == Step(w, "timedOut", "exit")

\* waitResult is not tested before the queue is popped.
TimeoutPops(w) ==
  /\ WorkerGoes(w, "timedOut", "exit")
  /\ pendingWorkersCount' = pendingWorkersCount - 1
  /\ requests' = IF requests = <<>> THEN requests ELSE Tail(requests)
  /\ UNCHANGED <<open, workersCount, acceptorVars, client, stopVars>>

WaitForever(w) == FALSE /\ Step(w, "waiting", "timedOut")

TakeWithoutPop(w) == Take(w, Head(requests), requests)

TakeNewest(w) ==
  Take(w, requests[Len(requests)], SubSeq(requests, 1, Len(requests) - 1))

OneWorkerTooMany ==
  \/ workersCount <= MaxWorkers /\ Goto("checkWorkers", "spawn")
  \/ workersCount > MaxWorkers /\ Goto("checkWorkers", "lockFinish")

RefuseWithoutClose ==
  /\ ~isStopped
  /\ AcceptorGoes("threadError", "accept")
  /\ clientSock' = NoSock
  /\ UNCHANGED <<open, requests, counters, finishMutex, failedThreads,
                 workerVars, stopVars>>

IgnoreStop ==
  \/ clientSock # NoSock /\ Goto("checkStop", "checkPending")
  \/ clientSock = NoSock /\ Goto("checkStop", "acceptError")
  \/ Goto("acceptError", "accept")

RemoveSilently(w) ==
  /\ finishMutex = "free"
  /\ WorkerGoes(w, "exit", "off")
  /\ client' = [client EXCEPT ![w] = NoSock]
  /\ workersCount' = workersCount - 1
  /\ UNCHANGED <<open, requests, pendingWorkersCount, acceptorVars, stopVars>>
-----------------------------------------------------------------------------
(* The acceptor. *)

\* A thread blocked in accept() may still return a connection after stop() has
\* closed the listening socket.
Accept ==
  /\ AcceptorGoes("accept", "checkStop")
  /\ \E fd \in Fd \ open : open' = open \cup {fd} /\ clientSock' = fd
  /\ UNCHANGED <<requests, counters, finishMutex, failedThreads, workerVars, stopVars>>

\* accept() returns INVALID_SOCKET: receive timeout, no descriptor, closed socket.
AcceptFails == Goto("accept", "checkStop")

CheckStop ==
  /\ ~isStopped
  /\ \/ clientSock # NoSock /\ Goto("checkStop", "checkPending")
     \/ clientSock = NoSock /\ Goto("checkStop", "acceptError")
     \/ Goto("acceptError", "accept")

\* break: the connection in hand, if any, is neither served nor closed.
BreakOnStop ==
  /\ isStopped
  /\ accPc \in {"checkStop", "acceptError", "threadError"}
  /\ accPc' = "done"
  /\ clientSock' = NoSock
  /\ UNCHANGED <<open, requests, counters, finishMutex, failedThreads,
                 workerVars, stopVars>>

CheckPending ==
  LET mayPush == EnablePooling /\ pendingWorkersCount > 0 IN
  \/ mayPush /\ Goto("checkPending", "pushRequest")
  \/ ~mayPush /\ Goto("checkPending", "checkWorkers")

PushRequest ==
  /\ pendingWorkersCount > 0
  /\ AcceptorGoes("pushRequest", "accept")
  /\ requests' = Append(requests, clientSock)
  /\ clientSock' = NoSock
  /\ NotifyPending
  /\ UNCHANGED <<open, counters, finishMutex, failedThreads, client, stopVars>>

\* The pending worker has left between the check and the lock.
PushNothing == pendingWorkersCount = 0 /\ Goto("pushRequest", "checkWorkers")

CheckWorkers ==
  \/ workersCount < MaxWorkers /\ Goto("checkWorkers", "spawn")
  \/ workersCount >= MaxWorkers /\ Goto("checkWorkers", "lockFinish")

\* finishCondition_.wait(lock): the count read before the lock is not read again.
WaitForFinish == finishMutex = "free" /\ Goto("lockFinish", "finishWait")

WakeAcceptor ==
  /\ finishMutex = "free"
  /\ AcceptorGoes("finishWoken", "spawn")
  /\ finishMutex' = "acceptor"
  /\ UNCHANGED <<open, requests, counters, clientSock, failedThreads,
                 workerVars, stopVars>>

\* runWorkerThread: the check at its start.
SpawnCheck == ~isStopped /\ Goto("spawn", "createThread")

\* runWorkerThread returns early; the connection stays open.
SpawnStopped ==
  /\ isStopped
  /\ AcceptorGoes("spawn", "accept")
  /\ clientSock' = NoSock
  /\ finishMutex' = "free"
  /\ UNCHANGED <<open, requests, counters, failedThreads, workerVars, stopVars>>

\* addWorker() and the boost::thread that takes a copy of the connection.
CreateThread ==
  /\ AcceptorGoes("createThread", "accept")
  /\ workersCount' = workersCount + 1
  /\ \E w \in Worker \ Live :
       /\ workerPc' = [workerPc EXCEPT ![w] = "proc"]
       /\ client' = [client EXCEPT ![w] = clientSock]
  /\ clientSock' = NoSock
  /\ finishMutex' = "free"
  /\ UNCHANGED <<open, requests, pendingWorkersCount, failedThreads, stopVars>>

\* boost::thread_resource_error: addWorker() is not undone.
CreateThreadFails ==
  /\ failedThreads < MaxThreadFailures
  /\ AcceptorGoes("createThread", "threadError")
  /\ workersCount' = workersCount + 1
  /\ failedThreads' = failedThreads + 1
  /\ finishMutex' = "free"
  /\ UNCHANGED <<open, requests, pendingWorkersCount, clientSock, workerVars,
                 stopVars>>

\* errorProcessProc writes the 503 and the acceptor closes the connection.
SendUnavailable ==
  /\ ~isStopped
  /\ AcceptorGoes("threadError", "accept")
  /\ open' = open \ {clientSock}
  /\ clientSock' = NoSock
  /\ UNCHANGED <<requests, counters, finishMutex, failedThreads, workerVars,
                 stopVars>>

\* Writing the 503 throws: the exception leaves the loop for the outer catch.
SendUnavailableFails == ~isStopped /\ Goto("threadError", "selfStop")

\* The outer catch calls stop() on the acceptor's own thread.
SelfStop ==
  /\ StopMutexFree
  /\ AcceptorGoes("selfStop", "done")
  /\ isStopped' = TRUE
  /\ listening' = FALSE
  /\ clientSock' = NoSock
  /\ UNCHANGED <<open, requests, counters, finishMutex, failedThreads,
                 workerVars, stopPc>>
-----------------------------------------------------------------------------
(* A worker. *)

\* proc_(client_) returns and the socket is closed.
CloseClient(w) ==
  /\ client[w] \in open
  /\ WorkerGoes(w, "proc", "served")
  /\ open' = open \ {client[w]}
  /\ UNCHANGED <<requests, counters, acceptorVars, client, stopVars>>

\* closeSocket throws on a descriptor that is not open: the loop is left.
CloseClientFails(w) == client[w] \notin open /\ Step(w, "proc", "exit")

LoopCheck(w) ==
  LET again == EnablePooling /\ ~isStopped IN
  \/ again /\ Step(w, "served", "enter")
  \/ ~again /\ Step(w, "served", "exit")

\* waitRequest up to timed_wait; the queue is not looked at.
WaitRequest(w) ==
  /\ WorkerGoes(w, "enter", "waiting")
  /\ pendingWorkersCount' = pendingWorkersCount + 1
  /\ UNCHANGED <<open, requests, workersCount, acceptorVars, client, stopVars>>

WaitTimesOut(w) == Step(w, "waiting", "timedOut")

TakeRequest(w) == Take(w, Head(requests), Tail(requests))

\* waitRequest returns true and leaves client_ as it was.
TakeNothing(w) ==
  /\ requests = <<>>
  /\ WorkerGoes(w, "notified", "proc")
  /\ pendingWorkersCount' = pendingWorkersCount - 1
  /\ UNCHANGED <<open, requests, workersCount, acceptorVars, client, stopVars>>

GiveUp(w) ==
  /\ WorkerGoes(w, "timedOut", "exit")
  /\ pendingWorkersCount' = pendingWorkersCount - 1
  /\ UNCHANGED <<open, requests, workersCount, acceptorVars, client, stopVars>>

\* ~ThreadGuard calls removeWorker, and the thread ends.
RemoveWorker(w) ==
  /\ finishMutex = "free"
  /\ WorkerGoes(w, "exit", "off")
  /\ client' = [client EXCEPT ![w] = NoSock]
  /\ workersCount' = workersCount - 1
  /\ NotifyFinish
  /\ UNCHANGED <<open, requests, pendingWorkersCount, clientSock, finishMutex,
                 failedThreads, isStopped, listening>>
-----------------------------------------------------------------------------
(* The thread that calls stop(WaitAllWorkers), once. *)

Stop ==
  /\ \/ isStopped /\ StopGoes("idle", "returned")
     \/ ~isStopped /\ StopGoes("idle", IF WaitAllWorkers THEN "drain" ELSE "closeListen")
  /\ isStopped' = TRUE
  /\ UNCHANGED listening

\* while (pendingWorkersCount_ > 0) notify_one()
StopDrain ==
  \/ /\ pendingWorkersCount > 0
     /\ stopPc = "drain"
     /\ NotifyPending
     /\ UNCHANGED <<open, requests, counters, acceptorVars, client, stopVars>>
  \/ /\ pendingWorkersCount = 0
     /\ StopGoes("drain", "joinWorkers")
     /\ UNCHANGED <<isStopped, listening>>

\* while (workersCount_ > 0) { lock; finishCondition_.wait }
StopJoin ==
  /\ \/ workersCount > 0 /\ StopGoes("joinWorkers", "lockFinish")
     \/ workersCount = 0 /\ StopGoes("joinWorkers", "closeListen")
     \/ finishMutex = "free" /\ StopGoes("lockFinish", "finishWait")
     \/ finishMutex = "free" /\ StopGoes("finishWoken", "joinWorkers")
  /\ UNCHANGED <<isStopped, listening>>

StopClose ==
  /\ StopGoes("closeListen", "returned")
  /\ listening' = FALSE
  /\ UNCHANGED isStopped
-----------------------------------------------------------------------------
(* A condition wait that returns although nobody notified. *)
Spurious ==
  /\ SpuriousWakeups
  /\ \/ Goto("finishWait", "finishWoken")
     \/ StopGoes("finishWait", "finishWoken") /\ UNCHANGED <<isStopped, listening>>
     \/ \E w \in Worker : Step(w, "waiting", "notified")
-----------------------------------------------------------------------------
AcceptorStep ==
  \/ Accept \/ AcceptFails \/ CheckStop \/ BreakOnStop \/ CheckPending
  \/ PushRequest \/ PushNothing \/ CheckWorkers \/ WaitForFinish \/ WakeAcceptor
  \/ SpawnCheck \/ SpawnStopped \/ CreateThread \/ CreateThreadFails
  \/ SendUnavailable \/ SendUnavailableFails \/ SelfStop

WorkerStep(w) ==
  \/ CloseClient(w) \/ CloseClientFails(w) \/ LoopCheck(w) \/ WaitRequest(w)
  \/ WaitTimesOut(w) \/ TakeRequest(w) \/ TakeNothing(w) \/ GiveUp(w)
  \/ RemoveWorker(w)

StopStep == StopDrain \/ StopJoin \/ StopClose

Next ==
  \/ AcceptorStep
  \/ \E w \in Worker : WorkerStep(w)
  \/ Stop
  \/ StopStep
  \/ Spurious

Spec == Init /\ [][Next]_vars

(***************************************************************************)
(* The scheduler runs every thread; the receive timeout of the listening   *)
(* socket makes accept() return; a handler answers in finite time and a    *)
(* timed wait ends.  Nobody has to call stop() and no wakeup is spurious.  *)
(***************************************************************************)
Fairness ==
  /\ WF_vars(AcceptorStep)
  /\ \A w \in Worker : WF_vars(WorkerStep(w))
  /\ WF_vars(StopStep)

FairSpec == Spec /\ Fairness
-----------------------------------------------------------------------------
(* Correctness. *)

\* The types of the shared state, and which descriptor the acceptor has in hand
\* in its variable: it has one from the check of the accepted connection until
\* it has handed it over.
TypeOK ==
  /\ open \subseteq Fd
  /\ requests \in Seq(Fd)
  /\ pendingWorkersCount \in Nat /\ workersCount \in Nat
  /\ isStopped \in BOOLEAN /\ listening \in BOOLEAN
  /\ finishMutex \in {"free", "acceptor"}
  /\ accPc \in AccPcs
  /\ clientSock \in Fd \cup {NoSock}
  /\ accPc \in AccHolding => clientSock # NoSock
  /\ accPc \in AccEmpty => clientSock = NoSock
  /\ workerPc \in [Worker -> WorkerPcs]
  /\ client \in [Worker -> Fd \cup {NoSock}]
  /\ stopPc \in StopPcs
  /\ failedThreads \in 0..MaxThreadFailures

\* The two counters are exactly the threads they stand for, plus one for every
\* thread whose creation failed after addWorker().  The asserts of waitRequest
\* (pending never above all workers) and removeWorker follow.
CountersMatch ==
  /\ pendingWorkersCount = Cardinality(Pending)
  /\ workersCount = Cardinality(Live) + failedThreads

\* The asserts of waitRequest and removeWorker, as written.
PoolAsserts ==
  /\ 0 <= pendingWorkersCount /\ pendingWorkersCount <= workersCount
  /\ 0 <= workersCount

\* settings.workersCount bounds the workers although the acceptor compares and
\* adds in separate steps, and waits with no predicate: it is the only adder,
\* and what wakes it is a removal.  (Without spurious wakeups.)
WithinLimit == workersCount <= MaxWorkers

\* Every notified worker will find a request of its own when it gets the mutex,
\* however many time out, exit or are notified meanwhile.
\* (Without spurious wakeups and stop(true), whose notifies carry no request.)
EveryNoticeHasRequest == Cardinality(Notified) <= Len(requests)

\* An open connection has one holder: the acceptor, one place in the queue, or
\* one worker; and what they hold is open.  No socket is read, written or
\* closed by two threads.
SingleOwner ==
  /\ clientSock # NoSock => clientSock \in open \ Queued
  /\ Queued \subseteq open
  /\ \A i, j \in DOMAIN requests : requests[i] = requests[j] => i = j
  /\ \A w \in Serving :
       /\ client[w] \in open \ (Queued \cup {clientSock})
       /\ \A v \in Serving : client[v] = client[w] => v = w

\* Until the server stops, no accepted connection is forgotten: whatever fails
\* or times out, an open descriptor is in somebody's hands.
NothingForgotten ==
  ~isStopped => open \subseteq Queued \cup {clientSock} \cup {client[w] : w \in Serving}

\* While the acceptor waits for a worker to finish there is a worker that can.
\* (The comment at the wait; the count it relied on may be stale by then.)
AcceptorWaitsForWorker == accPc = "finishWait" => Live # {}

\* A worker that came back from waitRequest works on an open connection.
WorkersServeOpenSockets == \A w \in Serving : client[w] \in open

\* stop() ends every worker: one that is serving finishes, one that waits for a
\* request times out, one created after the flag was set stops after its first.
StopEndsWorkers == isStopped ~> (Live = {})

\* stop() ends the acceptor, unless it sits in the wait for a worker to finish.
StopEndsAcceptor == isStopped ~> (accPc \in {"done", "finishWait"})

\* While some worker lives, a waiting acceptor is woken in the end: pending
\* workers do not notify it, but they time out, and leaving notifies.
WaitingAcceptorIsWoken ==
  (accPc = "finishWait" /\ Live # {}) ~> (accPc # "finishWait")

\* Who answers for each descriptor, in the terms of ConnectionHandOff.
HolderOf(fd) ==
  IF fd \notin open THEN "nobody"
  ELSE IF fd = clientSock THEN "acceptor"
  ELSE IF fd \in Queued THEN "queue"
  ELSE IF \E w \in Serving : client[w] = fd THEN "worker"
  ELSE "abandoned"

HandOff == INSTANCE ConnectionHandOff WITH
  holder <- [fd \in Fd |-> HolderOf(fd)], queue <- requests, stopped <- isStopped

\* Accepting, queueing, serving, refusing and closing as the pool does them are
\* steps of ConnectionHandOff: each connection is served once, the queue is
\* first in first out, and a socket is abandoned only by a server that stops.
ImplementsHandOff == HandOff!Spec
=============================================================================
