------------------------- MODULE WorkerPool_proofs -------------------------
(***************************************************************************)
(* Theorems about WorkerPool for any number of workers, descriptors and    *)
(* any settings.  The first block counts threads: the two atomic counters  *)
(* are the cardinalities of sets of program counters.  The last ones are   *)
(* about the hand-over of connections: who holds each descriptor.          *)
(***************************************************************************)
EXTENDS WorkerPool, FiniteSetTheorems, TLAPS

PendingPcs == {"waiting", "notified", "timedOut"}

LEMMA WorkerSetsFinite ==
  /\ IsFiniteSet(Live) /\ IsFiniteSet(Pending) /\ IsFiniteSet(Notified)
  /\ Cardinality(Live) \in Nat /\ Cardinality(Pending) \in Nat
  /\ Cardinality(Notified) \in Nat
<1>1. Live \subseteq Worker /\ Pending \subseteq Worker /\ Notified \subseteq Worker
  BY DEF Live, Pending, Notified
<1>2. QED
  BY <1>1, WorkerPoolAssumption, FS_Subset, FS_CardinalityType
     DEF WorkerPoolAssumption

\* How the sets change when one worker moves to pc.
LEMMA OneWorkerMoves ==
  ASSUME TypeOK, NEW w \in Worker, NEW pc \in WorkerPcs,
         workerPc' = [workerPc EXCEPT ![w] = pc]
  PROVE  /\ Live' = IF pc # "off" THEN Live \cup {w} ELSE Live \ {w}
         /\ Pending' = IF pc \in PendingPcs THEN Pending \cup {w} ELSE Pending \ {w}
         /\ Notified' = IF pc = "notified" THEN Notified \cup {w} ELSE Notified \ {w}
BY DEF TypeOK, Live, Pending, Notified, PendingPcs

LEMMA MemberMoves ==
  ASSUME NEW S, IsFiniteSet(S), NEW T, NEW x, NEW stays \in BOOLEAN,
         T = IF stays THEN S \cup {x} ELSE S \ {x}
  PROVE  Cardinality(T) = Cardinality(S)
           + (IF stays /\ x \notin S THEN 1 ELSE IF ~stays /\ x \in S THEN -1 ELSE 0)
<1>1. Cardinality(S) \in Nat
  BY FS_CardinalityType
<1>2. CASE stays
  <2>1. Cardinality(S \cup {x}) = IF x \in S THEN Cardinality(S) ELSE Cardinality(S) + 1
    BY FS_AddElement
  <2>2. QED  BY <1>1, <1>2, <2>1
<1>3. CASE ~stays
  <2>1. Cardinality(S \ {x}) = IF x \in S THEN Cardinality(S) - 1 ELSE Cardinality(S)
    BY FS_RemoveElement
  <2>2. QED  BY <1>1, <1>3, <2>1
<1>4. QED  BY <1>2, <1>3

\* How their sizes change.
LEMMA CountsMove ==
  ASSUME TypeOK, NEW w \in Worker, NEW pc \in WorkerPcs,
         workerPc' = [workerPc EXCEPT ![w] = pc]
  PROVE  /\ Cardinality(Live') = Cardinality(Live)
              + (IF pc # "off" /\ workerPc[w] = "off" THEN 1
                 ELSE IF pc = "off" /\ workerPc[w] # "off" THEN -1 ELSE 0)
         /\ Cardinality(Pending') = Cardinality(Pending)
              + (IF pc \in PendingPcs /\ workerPc[w] \notin PendingPcs THEN 1
                 ELSE IF pc \notin PendingPcs /\ workerPc[w] \in PendingPcs THEN -1
                 ELSE 0)
         /\ Cardinality(Notified') = Cardinality(Notified)
              + (IF pc = "notified" /\ workerPc[w] # "notified" THEN 1
                 ELSE IF pc # "notified" /\ workerPc[w] = "notified" THEN -1 ELSE 0)
<1>1. /\ w \in Live <=> workerPc[w] # "off"
      /\ w \in Pending <=> workerPc[w] \in PendingPcs
      /\ w \in Notified <=> workerPc[w] = "notified"
  BY DEF Live, Pending, Notified, PendingPcs
<1>2. /\ Live' = IF pc # "off" THEN Live \cup {w} ELSE Live \ {w}
      /\ Pending' = IF pc \in PendingPcs THEN Pending \cup {w} ELSE Pending \ {w}
      /\ Notified' = IF pc = "notified" THEN Notified \cup {w} ELSE Notified \ {w}
  BY OneWorkerMoves
<1>3. QED
  <2>1. Cardinality(Live') = Cardinality(Live)
          + (IF (pc # "off") /\ w \notin Live THEN 1
             ELSE IF ~(pc # "off") /\ w \in Live THEN -1 ELSE 0)
    BY <1>2, WorkerSetsFinite, MemberMoves
  <2>2. Cardinality(Pending') = Cardinality(Pending)
          + (IF pc \in PendingPcs /\ w \notin Pending THEN 1
             ELSE IF ~(pc \in PendingPcs) /\ w \in Pending THEN -1 ELSE 0)
    BY <1>2, WorkerSetsFinite, MemberMoves
  <2>3. Cardinality(Notified') = Cardinality(Notified)
          + (IF (pc = "notified") /\ w \notin Notified THEN 1
             ELSE IF ~(pc = "notified") /\ w \in Notified THEN -1 ELSE 0)
    BY <1>2, WorkerSetsFinite, MemberMoves
  <2>4. QED  BY <1>1, <2>1, <2>2, <2>3
-----------------------------------------------------------------------------
(* The counters and the types.  TypeOK is not inductive alone: that the two *)
(* counters stay natural numbers needs what they count.                     *)

CountInv == TypeOK /\ CountersMatch

\* A step that leaves the worker threads and the counters alone.
LEMMA CountersUnmoved ==
  ASSUME CountersMatch, UNCHANGED <<workerPc, counters, failedThreads>>
  PROVE  CountersMatch'
BY DEF CountersMatch, Pending, Live, counters

LEMMA GotoCounts ==
  ASSUME CountInv, NEW from, NEW to \in AccPcs, Goto(from, to),
         to \in AccHolding => clientSock # NoSock,
         to \in AccEmpty => clientSock = NoSock
  PROVE  CountInv'
<1>1. CountersMatch'
  BY CountersUnmoved DEF CountInv, Goto, workerVars
<1>2. TypeOK'
  BY DEF CountInv, TypeOK, Goto, AcceptorGoes, counters, workerVars, stopVars
<1>3. QED  BY <1>1, <1>2 DEF CountInv

LEMMA NotifyPendingCounts ==
  ASSUME CountInv, NotifyPending, UNCHANGED <<counters, failedThreads>>
  PROVE  CountersMatch' /\ workerPc' \in [Worker -> WorkerPcs]
<1>1. CASE UNCHANGED workerPc
  BY <1>1, CountersUnmoved DEF CountInv, TypeOK
<1>2. ASSUME NEW w \in Waiting, workerPc' = [workerPc EXCEPT ![w] = "notified"]
      PROVE  CountersMatch' /\ workerPc' \in [Worker -> WorkerPcs]
  <2>1. w \in Worker /\ workerPc[w] = "waiting" /\ "notified" \in WorkerPcs
    BY <1>2 DEF Waiting, WorkerPcs
  <2>2. Cardinality(Live') = Cardinality(Live) + 0
        /\ Cardinality(Pending') = Cardinality(Pending) + 0
    BY <1>2, <2>1, CountsMove DEF CountInv, PendingPcs
  <2>3. QED
    BY <1>2, <2>1, <2>2, WorkerSetsFinite
       DEF CountInv, TypeOK, CountersMatch, counters
<1>3. QED  BY <1>1, <1>2 DEF NotifyPending

\* A worker goes from one pc to another and the counters follow.
LEMMA WorkerCounts ==
  ASSUME CountInv, NEW w \in Worker, NEW from, NEW to \in WorkerPcs,
         WorkerGoes(w, from, to), UNCHANGED failedThreads,
         pendingWorkersCount' = pendingWorkersCount
           + (IF to \in PendingPcs /\ from \notin PendingPcs THEN 1
              ELSE IF to \notin PendingPcs /\ from \in PendingPcs THEN -1 ELSE 0),
         workersCount' = workersCount
           + (IF to # "off" /\ from = "off" THEN 1
              ELSE IF to = "off" /\ from # "off" THEN -1 ELSE 0)
  PROVE  /\ CountersMatch'
         /\ workerPc' \in [Worker -> WorkerPcs]
         /\ pendingWorkersCount' \in Nat /\ workersCount' \in Nat
<1>1. workerPc' = [workerPc EXCEPT ![w] = to] /\ workerPc[w] = from
  BY DEF WorkerGoes
<1>2. /\ Cardinality(Live') = Cardinality(Live)
           + (IF to # "off" /\ from = "off" THEN 1
              ELSE IF to = "off" /\ from # "off" THEN -1 ELSE 0)
      /\ Cardinality(Pending') = Cardinality(Pending)
           + (IF to \in PendingPcs /\ from \notin PendingPcs THEN 1
              ELSE IF to \notin PendingPcs /\ from \in PendingPcs THEN -1 ELSE 0)
  BY <1>1, CountsMove DEF CountInv
<1>3. workerPc' \in [Worker -> WorkerPcs]
  BY <1>1 DEF CountInv, TypeOK
<1>4. CountersMatch'
  BY <1>2, WorkerSetsFinite DEF CountInv, TypeOK, CountersMatch
<1>5. Cardinality(Live)' \in Nat /\ Cardinality(Pending)' \in Nat
  <2>1. Live' \subseteq Worker /\ Pending' \subseteq Worker
    BY DEF Live, Pending
  <2>2. QED
    BY <2>1, WorkerPoolAssumption, FS_Subset, FS_CardinalityType
       DEF WorkerPoolAssumption
<1>6. QED  BY <1>3, <1>4, <1>5 DEF CountersMatch, CountInv, TypeOK

LEMMA CountInvInit == Init => CountInv
<1> SUFFICES ASSUME Init PROVE CountInv
  OBVIOUS
<1>1. Live = {} /\ Pending = {}
  BY DEF Init, Live, Pending
<1>2. CountersMatch
  BY <1>1, FS_EmptySet DEF Init, CountersMatch
<1>3. TypeOK
  <2>1. requests \in Seq(Fd) /\ failedThreads \in 0..MaxThreadFailures
    BY WorkerPoolAssumption DEF Init, WorkerPoolAssumption
  <2>2. /\ accPc \in AccPcs /\ accPc \notin AccHolding /\ clientSock = NoSock
        /\ stopPc \in StopPcs
        /\ workerPc \in [Worker -> WorkerPcs]
        /\ client \in [Worker -> Fd \cup {NoSock}]
    BY DEF Init, AccPcs, AccHolding, WorkerPcs, StopPcs
  <2>3. QED  BY <2>1, <2>2 DEF Init, TypeOK
<1>4. QED  BY <1>2, <1>3 DEF CountInv

LEMMA CountInvAcceptor == CountInv /\ AcceptorStep => CountInv'
<1> SUFFICES ASSUME CountInv, AcceptorStep PROVE CountInv'
  OBVIOUS
<1> USE DEF AcceptorGoes, AccPcs, AccHolding, AccEmpty
<1>1. CASE Accept
  BY <1>1, CountersUnmoved, WorkerPoolAssumption
     DEF Accept, CountInv, TypeOK, workerVars, stopVars, counters, WorkerPoolAssumption
<1>2. CASE AcceptFails
  BY <1>2, GotoCounts DEF AcceptFails, CountInv, TypeOK, Goto
<1>3. CASE CheckStop
  BY <1>3, GotoCounts DEF CheckStop, CountInv, TypeOK, Goto
<1>4. CASE BreakOnStop
  BY <1>4, CountersUnmoved
     DEF BreakOnStop, CountInv, TypeOK, workerVars, stopVars, counters
<1>5. CASE CheckPending
  BY <1>5, GotoCounts DEF CheckPending, CountInv, TypeOK, Goto
<1>6. CASE PushRequest
  <2>1. CountersMatch' /\ workerPc' \in [Worker -> WorkerPcs]
    BY <1>6, NotifyPendingCounts DEF PushRequest
  <2>2. requests' \in Seq(Fd)
    BY <1>6 DEF PushRequest, CountInv, TypeOK
  <2>3. QED
    BY <1>6, <2>1, <2>2 DEF PushRequest, CountInv, TypeOK, stopVars, counters
<1>7. CASE PushNothing
  BY <1>7, GotoCounts DEF PushNothing, CountInv, TypeOK, Goto
<1>8. CASE CheckWorkers
  BY <1>8, GotoCounts DEF CheckWorkers, CountInv, TypeOK, Goto
<1>9. CASE WaitForFinish
  BY <1>9, GotoCounts DEF WaitForFinish, CountInv, TypeOK, Goto
<1>10. CASE WakeAcceptor
  BY <1>10, CountersUnmoved
     DEF WakeAcceptor, CountInv, TypeOK, workerVars, stopVars, counters
<1>11. CASE SpawnCheck
  BY <1>11, GotoCounts DEF SpawnCheck, CountInv, TypeOK, Goto
<1>12. CASE SpawnStopped
  BY <1>12, CountersUnmoved
     DEF SpawnStopped, CountInv, TypeOK, workerVars, stopVars, counters
<1>13. CASE CreateThread
  <2>1. PICK w \in Worker \ Live :
          /\ workerPc' = [workerPc EXCEPT ![w] = "proc"]
          /\ client' = [client EXCEPT ![w] = clientSock]
    BY <1>13 DEF CreateThread
  <2>2. WorkerGoes(w, "off", "proc") /\ "proc" \in WorkerPcs
    BY <2>1 DEF WorkerGoes, Live, WorkerPcs
  <2>3. /\ CountersMatch'
        /\ workerPc' \in [Worker -> WorkerPcs]
        /\ pendingWorkersCount' \in Nat /\ workersCount' \in Nat
    BY <1>13, <2>1, <2>2, WorkerCounts DEF CreateThread, PendingPcs, CountInv, TypeOK
  <2>4. QED
    BY <1>13, <2>1, <2>3 DEF CreateThread, CountInv, TypeOK, stopVars
<1>14. CASE CreateThreadFails
  <2>1. Live' = Live /\ Pending' = Pending
    BY <1>14 DEF CreateThreadFails, Live, Pending, workerVars
  <2>2. failedThreads' \in 0..MaxThreadFailures
    BY <1>14, WorkerPoolAssumption
       DEF CreateThreadFails, CountInv, TypeOK, WorkerPoolAssumption
  <2>3. CountersMatch'
    BY <1>14, <2>1, WorkerSetsFinite
       DEF CreateThreadFails, CountInv, CountersMatch, TypeOK
  <2>4. QED
    BY <1>14, <2>2, <2>3 DEF CreateThreadFails, CountInv, TypeOK, stopVars, workerVars
<1>15. CASE SendUnavailable
  BY <1>15, CountersUnmoved
     DEF SendUnavailable, CountInv, TypeOK, workerVars, stopVars, counters
<1>16. CASE SendUnavailableFails
  BY <1>16, GotoCounts DEF SendUnavailableFails, CountInv, TypeOK, Goto
<1>17. CASE SelfStop
  BY <1>17, CountersUnmoved
     DEF SelfStop, CountInv, TypeOK, workerVars, counters
<1>18. QED
  BY <1>1, <1>2, <1>3, <1>4, <1>5, <1>6, <1>7, <1>8, <1>9, <1>10, <1>11, <1>12,
     <1>13, <1>14, <1>15, <1>16, <1>17 DEF AcceptorStep

LEMMA CountInvWorker ==
  ASSUME CountInv, NEW w \in Worker, WorkerStep(w)
  PROVE  CountInv'
<1> USE DEF PendingPcs, WorkerPcs
<1>1. ASSUME NEW from, NEW to \in WorkerPcs, Step(w, from, to),
             from \in PendingPcs <=> to \in PendingPcs, from # "off", to # "off"
      PROVE  CountInv'
  <2>1. CountersMatch' /\ workerPc' \in [Worker -> WorkerPcs]
    BY <1>1, WorkerCounts DEF Step, counters, acceptorVars, CountInv, TypeOK
  <2>2. QED
    BY <1>1, <2>1 DEF Step, CountInv, TypeOK, counters, acceptorVars, stopVars
<1>2. CASE CloseClient(w)
  <2>1. CountersMatch' /\ workerPc' \in [Worker -> WorkerPcs]
    BY <1>2, WorkerCounts DEF CloseClient, counters, acceptorVars, CountInv, TypeOK
  <2>2. QED
    BY <1>2, <2>1 DEF CloseClient, CountInv, TypeOK, counters, acceptorVars, stopVars
<1>3. CASE CloseClientFails(w)
  BY <1>1, <1>3 DEF CloseClientFails
<1>4. CASE LoopCheck(w)
  BY <1>1, <1>4 DEF LoopCheck
<1>5. CASE WaitRequest(w)
  <2>1. /\ CountersMatch' /\ workerPc' \in [Worker -> WorkerPcs]
        /\ pendingWorkersCount' \in Nat /\ workersCount' \in Nat
    BY <1>5, WorkerCounts DEF WaitRequest, acceptorVars, CountInv, TypeOK
  <2>2. QED
    BY <1>5, <2>1 DEF WaitRequest, CountInv, TypeOK, acceptorVars, stopVars
<1>6. CASE WaitTimesOut(w)
  BY <1>1, <1>6 DEF WaitTimesOut
<1>7. CASE TakeRequest(w)
  <2>1. /\ CountersMatch' /\ workerPc' \in [Worker -> WorkerPcs]
        /\ pendingWorkersCount' \in Nat /\ workersCount' \in Nat
    BY <1>7, WorkerCounts DEF TakeRequest, Take, acceptorVars, CountInv, TypeOK
  <2>2. Head(requests) \in Fd /\ Tail(requests) \in Seq(Fd)
    BY <1>7 DEF TakeRequest, Take, CountInv, TypeOK
  <2>3. QED
    BY <1>7, <2>1, <2>2 DEF TakeRequest, Take, CountInv, TypeOK, acceptorVars, stopVars
<1>8. CASE TakeNothing(w)
  <2>1. /\ CountersMatch' /\ workerPc' \in [Worker -> WorkerPcs]
        /\ pendingWorkersCount' \in Nat /\ workersCount' \in Nat
    BY <1>8, WorkerCounts DEF TakeNothing, acceptorVars, CountInv, TypeOK
  <2>2. QED
    BY <1>8, <2>1 DEF TakeNothing, CountInv, TypeOK, acceptorVars, stopVars
<1>9. CASE GiveUp(w)
  <2>1. /\ CountersMatch' /\ workerPc' \in [Worker -> WorkerPcs]
        /\ pendingWorkersCount' \in Nat /\ workersCount' \in Nat
    BY <1>9, WorkerCounts DEF GiveUp, acceptorVars, CountInv, TypeOK
  <2>2. QED
    BY <1>9, <2>1 DEF GiveUp, CountInv, TypeOK, acceptorVars, stopVars
<1>10. CASE RemoveWorker(w)
  <2>1. /\ CountersMatch' /\ workerPc' \in [Worker -> WorkerPcs]
        /\ pendingWorkersCount' \in Nat /\ workersCount' \in Nat
    BY <1>10, WorkerCounts DEF RemoveWorker, CountInv, TypeOK
  <2>2. QED
    BY <1>10, <2>1
       DEF RemoveWorker, NotifyFinish, CountInv, TypeOK, AccPcs, AccHolding, AccEmpty,
           StopPcs
<1>11. QED
  BY <1>2, <1>3, <1>4, <1>5, <1>6, <1>7, <1>8, <1>9, <1>10 DEF WorkerStep

LEMMA CountInvStop == CountInv /\ (Stop \/ StopStep) => CountInv'
<1> SUFFICES ASSUME CountInv, Stop \/ StopStep PROVE CountInv'
  OBVIOUS
<1> USE DEF StopPcs, stopVars, acceptorVars
<1>1. ASSUME NEW from, NEW to \in StopPcs, StopGoes(from, to),
             isStopped' \in BOOLEAN, listening' \in BOOLEAN
      PROVE  CountInv'
  BY <1>1, CountersUnmoved
     DEF StopGoes, CountInv, TypeOK, counters, workerVars
<1>2. CASE Stop
  BY <1>1, <1>2 DEF Stop, CountInv, TypeOK
<1>3. CASE StopDrain
  <2>1. CASE NotifyPending /\ UNCHANGED <<open, requests, counters, acceptorVars, client, stopVars>>
    <3>1. CountersMatch' /\ workerPc' \in [Worker -> WorkerPcs]
      BY <2>1, NotifyPendingCounts
    <3>2. QED  BY <2>1, <3>1 DEF CountInv, TypeOK, counters
  <2>2. CASE StopGoes("drain", "joinWorkers") /\ UNCHANGED <<isStopped, listening>>
    BY <1>1, <2>2 DEF CountInv, TypeOK
  <2>3. QED  BY <1>3, <2>1, <2>2 DEF StopDrain
<1>4. CASE StopJoin
  BY <1>1, <1>4 DEF StopJoin, CountInv, TypeOK
<1>5. CASE StopClose
  BY <1>1, <1>5 DEF StopClose, CountInv, TypeOK
<1>6. QED  BY <1>2, <1>3, <1>4, <1>5 DEF StopStep

LEMMA CountInvSpurious == CountInv /\ Spurious => CountInv'
<1> SUFFICES ASSUME CountInv, Spurious PROVE CountInv'
  OBVIOUS
<1>1. CASE Goto("finishWait", "finishWoken")
  BY <1>1, GotoCounts DEF AccPcs, AccHolding, AccEmpty, CountInv, TypeOK, Goto, AcceptorGoes
<1>2. CASE StopGoes("finishWait", "finishWoken") /\ UNCHANGED <<isStopped, listening>>
  BY <1>2, CountersUnmoved
     DEF StopGoes, StopPcs, CountInv, TypeOK, counters, workerVars, acceptorVars
<1>3. ASSUME NEW w \in Worker, Step(w, "waiting", "notified") PROVE CountInv'
  <2>1. CountersMatch' /\ workerPc' \in [Worker -> WorkerPcs]
    BY <1>3, WorkerCounts
       DEF Step, counters, acceptorVars, CountInv, TypeOK, PendingPcs, WorkerPcs
  <2>2. QED
    BY <1>3, <2>1 DEF Step, CountInv, TypeOK, counters, acceptorVars, stopVars
<1>4. QED  BY <1>1, <1>2, <1>3 DEF Spurious

LEMMA CountInvNext == CountInv /\ [Next]_vars => CountInv'
<1>1. CountInv /\ UNCHANGED vars => CountInv'
  BY DEF vars, CountInv, TypeOK, CountersMatch, Pending, Live, counters,
         acceptorVars, workerVars, stopVars
<1>2. QED
  BY <1>1, CountInvAcceptor, CountInvWorker, CountInvStop, CountInvSpurious DEF Next

\* The shared state keeps its types, and the counters count threads, for any
\* number of threads and descriptors, with pooling or without, with spurious
\* wakeups and failing thread creation.
THEOREM CountersCount == Spec => [](TypeOK /\ CountersMatch)
<1>1. CountInv => TypeOK /\ CountersMatch
  BY DEF CountInv
<1>2. QED  BY <1>1, CountInvInit, CountInvNext, PTL DEF Spec

\* Every shared variable and program counter keeps its type, the sets of threads too.
THEOREM PoolTyped == Spec => []TypeOK
<1>1. TypeOK /\ CountersMatch => TypeOK
  OBVIOUS
<1>2. QED  BY <1>1, CountersCount, PTL

\* The asserts of waitRequest and removeWorker never fire.
THEOREM AssertsHold == Spec => []PoolAsserts
<1>1. CountInv => PoolAsserts
  <2> SUFFICES ASSUME CountInv PROVE PoolAsserts
    OBVIOUS
  <2>1. Pending \subseteq Live
    BY DEF Pending, Live
  <2>2. Cardinality(Pending) <= Cardinality(Live)
    BY <2>1, WorkerSetsFinite, FS_Subset
  <2>3. QED
    BY <2>2, WorkerSetsFinite, WorkerPoolAssumption
       DEF CountInv, CountersMatch, PoolAsserts, TypeOK, WorkerPoolAssumption
<1>2. QED  BY <1>1, CountInvInit, CountInvNext, PTL DEF Spec
-----------------------------------------------------------------------------
(* The limit on workers.  The acceptor adds a worker only where it knows the *)
(* count to be below the limit; nothing between can raise it.                *)

LimitInv ==
  /\ WithinLimit
  /\ accPc \in {"finishWoken", "spawn", "createThread"} => workersCount < MaxWorkers

\* Without spurious wakeups there are never more workers than settings allow,
\* and the count of failed creations is part of the limit.
THEOREM LimitHolds ==
  ASSUME ~SpuriousWakeups
  PROVE  Spec => []WithinLimit
<1>1. Init => LimitInv
  BY WorkerPoolAssumption DEF Init, LimitInv, WithinLimit, WorkerPoolAssumption
<1>2. CountInv /\ LimitInv /\ [Next]_vars => LimitInv'
  <2> SUFFICES ASSUME CountInv, LimitInv, [Next]_vars PROVE LimitInv'
    OBVIOUS
  <2> USE DEF LimitInv, WithinLimit
  <2>0. workersCount \in Nat /\ MaxWorkers \in Nat
    BY WorkerPoolAssumption DEF CountInv, TypeOK, WorkerPoolAssumption
  <2>1. CASE AcceptorStep
    <3>1. CASE UNCHANGED workersCount
      BY <2>0, <2>1, <3>1
         DEF AcceptorStep, Accept, AcceptFails, CheckStop, BreakOnStop, CheckPending,
             PushRequest, PushNothing, CheckWorkers, WaitForFinish, WakeAcceptor,
             SpawnCheck, SpawnStopped, CreateThread, CreateThreadFails,
             SendUnavailable, SendUnavailableFails, SelfStop, Goto, AcceptorGoes
    <3>2. CASE CreateThread \/ CreateThreadFails
      BY <2>0, <3>2 DEF CreateThread, CreateThreadFails, AcceptorGoes
    <3>3. QED
      BY <2>1, <3>1, <3>2
         DEF AcceptorStep, Accept, AcceptFails, CheckStop, BreakOnStop, CheckPending,
             PushRequest, PushNothing, CheckWorkers, WaitForFinish, WakeAcceptor,
             SpawnCheck, SpawnStopped, SendUnavailable, SendUnavailableFails,
             SelfStop, Goto, counters
  <2>2. ASSUME NEW w \in Worker, WorkerStep(w) PROVE LimitInv'
    <3>1. CASE RemoveWorker(w)
      BY <2>0, <3>1 DEF RemoveWorker, NotifyFinish
    <3>2. CASE ~RemoveWorker(w)
      <4>1. UNCHANGED <<workersCount, accPc>>
        BY <2>2, <3>2
           DEF WorkerStep, CloseClient, CloseClientFails, LoopCheck, WaitRequest,
               WaitTimesOut, TakeRequest, Take, TakeNothing, GiveUp, Step, counters,
               acceptorVars
      <4>2. QED  BY <4>1
    <3>3. QED  BY <3>1, <3>2
  <2>3. CASE Stop \/ StopStep
    <3>1. UNCHANGED <<workersCount, accPc>>
      BY <2>3
         DEF Stop, StopStep, StopDrain, StopJoin, StopClose, StopGoes, counters,
             acceptorVars
    <3>2. QED  BY <3>1
  <2>4. CASE UNCHANGED vars
    BY <2>4 DEF vars, counters, acceptorVars
  <2>5. QED  BY <2>1, <2>2, <2>3, <2>4 DEF Next, Spurious
<1>3. LimitInv => WithinLimit
  BY DEF LimitInv
<1>4. QED  BY <1>1, <1>2, <1>3, CountInvInit, CountInvNext, PTL DEF Spec
-----------------------------------------------------------------------------
(* The hand-over of connections.  The queue as a set. *)

Elems(s) == {s[i] : i \in DOMAIN s}
NoRepeat(s) == \A i, j \in DOMAIN s : s[i] = s[j] => i = j

LEMMA ElemsAppend ==
  ASSUME NEW S, NEW s \in Seq(S), NEW x \in S
  PROVE  /\ Elems(Append(s, x)) = Elems(s) \cup {x}
         /\ NoRepeat(s) /\ x \notin Elems(s) => NoRepeat(Append(s, x))
<1> DEFINE t == Append(s, x)
<1>1. /\ Len(s) \in Nat /\ DOMAIN s = 1..Len(s)
      /\ DOMAIN t = 1..(Len(s) + 1)
      /\ t[Len(s) + 1] = x
      /\ \A i \in 1..Len(s) : t[i] = s[i]
  OBVIOUS
<1> HIDE DEF t
<1>2. Elems(t) = Elems(s) \cup {x}
  <2>1. ASSUME NEW i \in DOMAIN t PROVE t[i] \in Elems(s) \cup {x}
    <3>1. i \in 1..Len(s) \/ i = Len(s) + 1
      BY <1>1
    <3>2. QED  BY <1>1, <3>1 DEF Elems
  <2>2. ASSUME NEW i \in DOMAIN s PROVE s[i] \in Elems(t)
    <3>1. i \in DOMAIN t /\ t[i] = s[i]
      BY <1>1
    <3>2. QED  BY <3>1 DEF Elems
  <2>3. x \in Elems(t)
    <3>1. Len(s) + 1 \in DOMAIN t
      BY <1>1
    <3>2. QED  BY <1>1, <3>1 DEF Elems
  <2>4. QED  BY <2>1, <2>2, <2>3 DEF Elems
<1>3. ASSUME NoRepeat(s), x \notin Elems(s) PROVE NoRepeat(t)
  <2> SUFFICES ASSUME NEW i \in DOMAIN t, NEW j \in DOMAIN t, t[i] = t[j] PROVE i = j
    BY DEF NoRepeat
  <2>1. \A k \in 1..Len(s) : t[k] # x
    BY <1>1, <1>3 DEF Elems
  <2>2. CASE i \in 1..Len(s) /\ j \in 1..Len(s)
    BY <1>1, <1>3, <2>2 DEF NoRepeat
  <2>3. CASE i = Len(s) + 1 \/ j = Len(s) + 1
    BY <1>1, <2>1, <2>3
  <2>4. QED  BY <1>1, <2>2, <2>3
<1>4. QED  BY <1>2, <1>3 DEF t

LEMMA ElemsTail ==
  ASSUME NEW S, NEW s \in Seq(S), s # <<>>
  PROVE  /\ Head(s) \in Elems(s)
         /\ Elems(s) = Elems(Tail(s)) \cup {Head(s)}
         /\ NoRepeat(s) => NoRepeat(Tail(s)) /\ Head(s) \notin Elems(Tail(s))
<1> DEFINE t == Tail(s)
<1>1. /\ Len(s) \in Nat \ {0} /\ DOMAIN s = 1..Len(s)
      /\ DOMAIN t = 1..(Len(s) - 1)
      /\ Head(s) = s[1]
      /\ \A i \in 1..(Len(s) - 1) : t[i] = s[i + 1]
  OBVIOUS
<1> HIDE DEF t
<1>2. Head(s) \in Elems(s)
  BY <1>1 DEF Elems
<1>3. Elems(s) = Elems(t) \cup {Head(s)}
  <2>1. ASSUME NEW i \in DOMAIN s PROVE s[i] \in Elems(t) \cup {Head(s)}
    <3>1. CASE i = 1
      BY <1>1, <3>1
    <3>2. CASE i # 1
      <4>1. i - 1 \in DOMAIN t /\ t[i - 1] = s[i]
        BY <1>1, <3>2
      <4>2. QED  BY <4>1 DEF Elems
    <3>3. QED  BY <3>1, <3>2
  <2>2. ASSUME NEW i \in DOMAIN t PROVE t[i] \in Elems(s)
    <3>1. i + 1 \in DOMAIN s /\ t[i] = s[i + 1]
      BY <1>1
    <3>2. QED  BY <3>1 DEF Elems
  <2>3. QED  BY <1>2, <2>1, <2>2 DEF Elems
<1>4. ASSUME NoRepeat(s) PROVE NoRepeat(t) /\ Head(s) \notin Elems(t)
  <2>1. NoRepeat(t)
    BY <1>1, <1>4 DEF NoRepeat
  <2>2. ASSUME NEW i \in DOMAIN t PROVE t[i] # Head(s)
    BY <1>1, <1>4 DEF NoRepeat
  <2>3. QED  BY <2>1, <2>2 DEF Elems
<1>5. QED  BY <1>2, <1>3, <1>4 DEF t

LEMMA QueuedIsElems == Queued = Elems(requests)
BY DEF Queued, Elems

\* What an action does to the set of queued descriptors.
LEMMA QueuedAfterPush ==
  ASSUME TypeOK, PushRequest
  PROVE  Queued' = Queued \cup {clientSock}
<1>1. clientSock \in Fd
  BY DEF TypeOK, PushRequest, AcceptorGoes, AccHolding
<1>2. QED
  BY <1>1, ElemsAppend DEF PushRequest, TypeOK, Queued, Elems

LEMMA QueuedAfterTake ==
  ASSUME TypeOK, NEW w \in Worker, TakeRequest(w)
  PROVE  /\ Queued = Queued' \cup {client'[w]}
         /\ NoRepeat(requests) => NoRepeat(requests') /\ client'[w] \notin Queued'
         /\ client'[w] = Head(requests)
<1>1. client'[w] = Head(requests) /\ requests' = Tail(requests) /\ requests # <<>>
  BY DEF TypeOK, TakeRequest, Take
<1>2. QED
  BY <1>1, ElemsTail DEF TypeOK, Queued, Elems
-----------------------------------------------------------------------------
(* Nothing is forgotten before the server stops. *)

Held(fd) ==
  fd = clientSock \/ fd \in Queued \/ \E w \in Worker : workerPc[w] = "proc" /\ client[w] = fd

HeldInv == ~isStopped => \A fd \in open : Held(fd)

LEMMA HeldAcceptor == CountInv /\ HeldInv /\ AcceptorStep => HeldInv'
<1> SUFFICES ASSUME CountInv, HeldInv, AcceptorStep, ~isStopped', NEW fd \in open'
             PROVE  Held(fd)'
  BY DEF HeldInv
<1> USE DEF Held
<1>1. CASE isStopped
  BY <1>1 DEF AcceptorStep, Accept, AcceptFails, CheckStop, BreakOnStop, CheckPending,
       PushRequest, PushNothing, CheckWorkers, WaitForFinish, WakeAcceptor,
       SpawnCheck, SpawnStopped, CreateThread, CreateThreadFails,
       SendUnavailable, SendUnavailableFails, SelfStop, Goto, stopVars
<1>2. CASE ~isStopped
  <2>1. \A f \in open : Held(f)
    BY <1>2 DEF HeldInv
  <2>2. CASE Accept
    <3>1. clientSock = NoSock
      BY <2>2 DEF Accept, AcceptorGoes, CountInv, TypeOK, AccEmpty
    <3>2. QED
      BY <2>1, <2>2, <3>1, WorkerPoolAssumption
         DEF Accept, workerVars, Queued, CountInv, TypeOK, WorkerPoolAssumption
  <2>3. CASE PushRequest
    <3>1. Queued' = Queued \cup {clientSock}
      BY <2>3, QueuedAfterPush DEF CountInv
    <3>2. ASSUME NEW w \in Worker, workerPc[w] = "proc"
          PROVE  workerPc'[w] = "proc" /\ client'[w] = client[w]
      BY <2>3, <3>2 DEF PushRequest, NotifyPending, Waiting, CountInv, TypeOK
    <3>3. QED  BY <2>1, <2>3, <3>1, <3>2 DEF PushRequest
  <2>4. CASE CreateThread
    <3>1. PICK w \in Worker \ Live :
            /\ workerPc' = [workerPc EXCEPT ![w] = "proc"]
            /\ client' = [client EXCEPT ![w] = clientSock]
      BY <2>4 DEF CreateThread
    <3>2. workerPc'[w] = "proc" /\ client'[w] = clientSock
      BY <3>1 DEF CountInv, TypeOK
    <3>3. ASSUME NEW v \in Worker, workerPc[v] = "proc"
          PROVE  workerPc'[v] = "proc" /\ client'[v] = client[v]
      BY <3>1, <3>3 DEF CountInv, TypeOK, Live
    <3>4. QED  BY <2>1, <2>4, <3>2, <3>3 DEF CreateThread, Queued
  <2>5. CASE SendUnavailable
    BY <2>1, <2>5 DEF SendUnavailable, Queued, workerVars
  <2>6. CASE ~(Accept \/ PushRequest \/ CreateThread \/ SendUnavailable)
    <3>1. UNCHANGED <<open, requests, clientSock, workerVars>>
      BY <1>2, <2>6
         DEF AcceptorStep, AcceptFails, CheckStop, BreakOnStop, CheckPending,
             PushNothing, CheckWorkers, WaitForFinish, WakeAcceptor, SpawnCheck,
             SpawnStopped, CreateThreadFails, SendUnavailableFails, SelfStop, Goto
    <3>2. QED  BY <2>1, <3>1 DEF Queued, workerVars
  <2>7. QED  BY <2>2, <2>3, <2>4, <2>5, <2>6
<1>3. QED  BY <1>1, <1>2

LEMMA HeldWorker ==
  ASSUME CountInv, HeldInv, NEW w \in Worker, WorkerStep(w) \/ Step(w, "waiting", "notified")
  PROVE  HeldInv'
<1> SUFFICES ASSUME ~isStopped', NEW fd \in open' PROVE Held(fd)'
  BY DEF HeldInv
<1>1. UNCHANGED <<clientSock, isStopped>> /\ open' \subseteq open
  BY DEF WorkerStep, CloseClient, CloseClientFails, LoopCheck, WaitRequest, WaitTimesOut,
         TakeRequest, Take, TakeNothing, GiveUp, RemoveWorker, Step, acceptorVars, stopVars
<1>2. Held(fd)
  BY <1>1 DEF HeldInv
<1>3. ASSUME NEW v \in Worker, v # w, workerPc[v] = "proc"
      PROVE  workerPc'[v] = "proc" /\ client'[v] = client[v]
  BY <1>3
     DEF WorkerStep, CloseClient, CloseClientFails, LoopCheck, WaitRequest, WaitTimesOut,
         TakeRequest, Take, TakeNothing, GiveUp, RemoveWorker, Step, WorkerGoes, CountInv,
         TypeOK
<1>4. CASE TakeRequest(w)
  <2>1. Queued = Queued' \cup {client'[w]} /\ workerPc'[w] = "proc"
    BY <1>4, QueuedAfterTake DEF TakeRequest, Take, WorkerGoes, CountInv, TypeOK
  <2>2. workerPc[w] = "notified"
    BY <1>4 DEF TakeRequest, Take, WorkerGoes
  <2>3. QED  BY <1>1, <1>2, <1>3, <2>1, <2>2 DEF Held
<1>5. CASE ~TakeRequest(w)
  <2>1. UNCHANGED Queued
    BY <1>5
       DEF WorkerStep, CloseClient, CloseClientFails, LoopCheck, WaitRequest,
           WaitTimesOut, TakeNothing, GiveUp, RemoveWorker, Step, Queued
  <2>2. workerPc[w] = "proc" => client[w] # fd
    BY <1>1, <1>5
       DEF WorkerStep, CloseClient, CloseClientFails, LoopCheck, WaitRequest,
           WaitTimesOut, TakeNothing, GiveUp, RemoveWorker, Step, WorkerGoes
  <2>3. QED  BY <1>1, <1>2, <1>3, <2>1, <2>2 DEF Held
<1>6. QED  BY <1>4, <1>5

LEMMA HeldOther ==
  CountInv /\ HeldInv /\ (Stop \/ StopStep \/ Spurious \/ UNCHANGED vars) => HeldInv'
<1> SUFFICES ASSUME CountInv, HeldInv, Stop \/ StopStep \/ Spurious \/ UNCHANGED vars
             PROVE  HeldInv'
  OBVIOUS
<1>1. CASE UNCHANGED <<open, requests, clientSock, workerVars>> /\ (isStopped => isStopped')
  BY <1>1 DEF HeldInv, Held, Queued, workerVars
<1>2. ASSUME NotifyPending, UNCHANGED <<open, requests, acceptorVars, client, stopVars>>
      PROVE  HeldInv'
  <2>1. ASSUME NEW v \in Worker, workerPc[v] = "proc" PROVE workerPc'[v] = "proc"
    BY <1>2, <2>1 DEF NotifyPending, Waiting, CountInv, TypeOK
  <2>2. QED  BY <1>2, <2>1 DEF HeldInv, Held, Queued, acceptorVars, stopVars
<1>3. CASE Stop
  BY <1>1, <1>3 DEF Stop, StopGoes, acceptorVars
<1>4. CASE StopStep
  BY <1>1, <1>2, <1>4 DEF StopStep, StopDrain, StopJoin, StopClose, StopGoes, acceptorVars
<1>5. CASE Spurious
  BY <1>1, <1>5, HeldWorker DEF Spurious, Goto, StopGoes, acceptorVars, stopVars
<1>6. CASE UNCHANGED vars
  BY <1>1, <1>6 DEF vars, acceptorVars, stopVars
<1>7. QED  BY <1>3, <1>4, <1>5, <1>6

\* Until the server is told to stop, every open client descriptor is in the
\* hands of the acceptor, the queue or a serving worker: no failure of a
\* thread, a write or a close, no timeout and no spurious wakeup loses one.
THEOREM NothingIsForgotten == Spec => []NothingForgotten
<1>1. Init => HeldInv
  BY DEF Init, HeldInv
<1>2. CountInv /\ HeldInv /\ [Next]_vars => HeldInv'
  BY HeldAcceptor, HeldWorker, HeldOther DEF Next
<1>3. HeldInv => NothingForgotten
  BY DEF HeldInv, Held, NothingForgotten, Serving
<1>4. QED  BY <1>1, <1>2, <1>3, CountInvInit, CountInvNext, PTL DEF Spec
-----------------------------------------------------------------------------
(* One holder for each connection, when no wakeup is spurious and stop(true) *)
(* is not called: then every notify stands for a request in the queue.       *)

NoticeInv ==
  /\ EveryNoticeHasRequest
  /\ stopPc \in {"idle", "closeListen", "returned"}

Owns(w) ==
  /\ client[w] \in open
  /\ client[w] \notin Queued
  /\ client[w] # clientSock
  /\ \A v \in Worker : workerPc[v] = "proc" /\ client[v] = client[w] => v = w

OwnerInv ==
  /\ clientSock # NoSock => clientSock \in open /\ clientSock \notin Queued
  /\ Queued \subseteq open
  /\ NoRepeat(requests)
  /\ \A w \in Worker : workerPc[w] = "proc" => Owns(w)

HandOffInv == CountInv /\ NoticeInv /\ OwnerInv

\* The number of notified workers changes only where a worker moves.
LEMMA NotifyRaises ==
  ASSUME CountInv, NotifyPending
  PROVE  /\ Cardinality(Notified') \in Nat
         /\ Cardinality(Notified') <= Cardinality(Notified) + 1
         /\ \A v \in Worker : workerPc'[v] = "proc" <=> workerPc[v] = "proc"
<1>1. CASE UNCHANGED workerPc
  BY <1>1, WorkerSetsFinite DEF Notified
<1>2. ASSUME NEW w \in Waiting, workerPc' = [workerPc EXCEPT ![w] = "notified"]
      PROVE  /\ Cardinality(Notified') = Cardinality(Notified) + 1
             /\ \A v \in Worker : workerPc'[v] = "proc" <=> workerPc[v] = "proc"
  <2>1. w \in Worker /\ workerPc[w] = "waiting" /\ "notified" \in WorkerPcs
    BY DEF Waiting, WorkerPcs
  <2>2. Cardinality(Notified') = Cardinality(Notified) + 1
    BY <1>2, <2>1, CountsMove DEF CountInv
  <2>3. QED  BY <1>2, <2>1, <2>2 DEF CountInv, TypeOK
<1>3. QED  BY <1>1, <1>2, WorkerSetsFinite DEF NotifyPending

LEMMA NoticeAcceptor == HandOffInv /\ AcceptorStep => NoticeInv'
<1> SUFFICES ASSUME HandOffInv, AcceptorStep PROVE NoticeInv'
  OBVIOUS
<1> USE DEF NoticeInv, EveryNoticeHasRequest
<1>1. UNCHANGED stopPc
  BY DEF AcceptorStep, Accept, AcceptFails, CheckStop, BreakOnStop, CheckPending,
         PushRequest, PushNothing, CheckWorkers, WaitForFinish, WakeAcceptor, SpawnCheck,
         SpawnStopped, CreateThread, CreateThreadFails, SendUnavailable,
         SendUnavailableFails, SelfStop, Goto, stopVars
<1>2. CASE PushRequest
  <2>1. requests \in Seq(Fd) /\ clientSock \in Fd
    BY <1>2 DEF PushRequest, HandOffInv, CountInv, TypeOK, AcceptorGoes, AccHolding
  <2>2. Len(requests') = Len(requests) + 1 /\ Len(requests) \in Nat
    BY <1>2, <2>1 DEF PushRequest
  <2>3. QED
    BY <1>1, <1>2, <2>2, NotifyRaises, WorkerSetsFinite DEF PushRequest, HandOffInv
<1>3. CASE CreateThread
  <2>1. PICK w \in Worker \ Live : workerPc' = [workerPc EXCEPT ![w] = "proc"]
    BY <1>3 DEF CreateThread
  <2>2. Notified' = Notified
    BY <2>1 DEF Notified, Live, HandOffInv, CountInv, TypeOK
  <2>3. QED  BY <1>1, <1>3, <2>2 DEF CreateThread, HandOffInv
<1>4. CASE ~(PushRequest \/ CreateThread)
  <2>1. UNCHANGED <<requests, workerPc>>
    BY <1>4
       DEF AcceptorStep, Accept, AcceptFails, CheckStop, BreakOnStop, CheckPending,
           PushNothing, CheckWorkers, WaitForFinish, WakeAcceptor, SpawnCheck,
           SpawnStopped, CreateThreadFails, SendUnavailable, SendUnavailableFails,
           SelfStop, Goto, workerVars
  <2>2. QED  BY <1>1, <2>1 DEF HandOffInv, Notified
<1>5. QED  BY <1>2, <1>3, <1>4

\* A notified worker never finds the queue empty.
LEMMA NoticeMeansRequest ==
  ASSUME HandOffInv, NEW w \in Worker, workerPc[w] = "notified"
  PROVE  requests # <<>>
<1>1. Notified # {}
  BY DEF Notified
<1>2. Cardinality(Notified) # 0
  BY <1>1, WorkerSetsFinite, FS_EmptySet
<1>3. QED
  BY <1>2, WorkerSetsFinite DEF HandOffInv, NoticeInv, EveryNoticeHasRequest

LEMMA NoticeWorker ==
  ASSUME HandOffInv, NEW w \in Worker, WorkerStep(w)
  PROVE  NoticeInv'
<1> USE DEF NoticeInv, EveryNoticeHasRequest
<1>0. ~TakeNothing(w)
  BY NoticeMeansRequest DEF TakeNothing, WorkerGoes
<1>1. stopPc' \in {"idle", "closeListen", "returned"}
  BY DEF WorkerStep, CloseClient, CloseClientFails, LoopCheck, WaitRequest, WaitTimesOut,
         TakeRequest, Take, TakeNothing, GiveUp, RemoveWorker, NotifyFinish, Step,
         stopVars, HandOffInv
<1>2. CASE TakeRequest(w)
  <2>1. workerPc' = [workerPc EXCEPT ![w] = "proc"] /\ workerPc[w] = "notified"
    BY <1>2 DEF TakeRequest, Take, WorkerGoes
  <2>2. Cardinality(Notified') = Cardinality(Notified) - 1
    BY <2>1, CountsMove DEF HandOffInv, CountInv, WorkerPcs
  <2>3. Len(requests') = Len(requests) - 1
    BY <1>2 DEF TakeRequest, Take, HandOffInv, CountInv, TypeOK
  <2>4. Len(requests) \in Nat
    BY DEF HandOffInv, CountInv, TypeOK
  <2>5. QED  BY <1>1, <2>2, <2>3, <2>4, WorkerSetsFinite DEF HandOffInv
<1>3. CASE ~TakeRequest(w)
  <2>1. UNCHANGED requests
    BY <1>0, <1>3
       DEF WorkerStep, CloseClient, CloseClientFails, LoopCheck, WaitRequest,
           WaitTimesOut, GiveUp, RemoveWorker, Step
  <2>2. Notified' = Notified
    BY <1>0, <1>3
       DEF WorkerStep, CloseClient, CloseClientFails, LoopCheck, WaitRequest,
           WaitTimesOut, GiveUp, RemoveWorker, Step, WorkerGoes, Notified, HandOffInv,
           CountInv, TypeOK
  <2>3. QED  BY <1>1, <2>1, <2>2 DEF HandOffInv
<1>4. QED  BY <1>2, <1>3

LEMMA OwnerAcceptor == HandOffInv /\ AcceptorStep => OwnerInv'
<1> SUFFICES ASSUME HandOffInv, AcceptorStep PROVE OwnerInv'
  OBVIOUS
<1> USE DEF OwnerInv, Owns
<1>0. /\ OwnerInv /\ TypeOK
      /\ \A w \in Worker : workerPc[w] = "proc" => client[w] # NoSock
  BY WorkerPoolAssumption DEF HandOffInv, CountInv, TypeOK, WorkerPoolAssumption
<1>1. CASE Accept
  <2>1. PICK fd \in Fd \ open : open' = open \cup {fd} /\ clientSock' = fd
    BY <1>1 DEF Accept
  <2>2. UNCHANGED <<Queued, requests, workerPc, client>>
    BY <1>1 DEF Accept, workerVars, Queued
  <2>3. QED  BY <1>0, <2>1, <2>2
<1>2. CASE PushRequest
  <2>1. Queued' = Queued \cup {clientSock} /\ clientSock \in Fd /\ clientSock # NoSock
    BY <1>0, <1>2, QueuedAfterPush DEF PushRequest, TypeOK, AcceptorGoes, AccHolding
  <2>2. NoRepeat(requests')
    BY <1>0, <1>2, <2>1, ElemsAppend, QueuedIsElems DEF PushRequest, TypeOK
  <2>3. \A v \in Worker : workerPc'[v] = "proc" <=> workerPc[v] = "proc"
    BY <1>2, NotifyRaises DEF PushRequest, HandOffInv
  <2>4. UNCHANGED <<open, client>> /\ clientSock' = NoSock
    BY <1>2 DEF PushRequest
  <2>5. QED  BY <1>0, <2>1, <2>2, <2>3, <2>4
<1>3. CASE CreateThread
  <2>1. PICK w \in Worker \ Live :
          /\ workerPc' = [workerPc EXCEPT ![w] = "proc"]
          /\ client' = [client EXCEPT ![w] = clientSock]
    BY <1>3 DEF CreateThread
  <2>2. /\ workerPc'[w] = "proc" /\ client'[w] = clientSock /\ workerPc[w] = "off"
        /\ \A v \in Worker : v # w => workerPc'[v] = workerPc[v] /\ client'[v] = client[v]
    BY <1>0, <2>1 DEF TypeOK, Live
  <2>3. /\ UNCHANGED <<Queued, requests, open>> /\ clientSock' = NoSock
        /\ clientSock # NoSock
    BY <1>0, <1>3 DEF CreateThread, Queued, AcceptorGoes, TypeOK, AccHolding
  <2>4. NoSock \notin open
    BY <1>0, WorkerPoolAssumption DEF TypeOK, WorkerPoolAssumption
  <2>5. QED  BY <1>0, <2>2, <2>3, <2>4
<1>4. CASE SendUnavailable
  <2>1. /\ UNCHANGED <<Queued, requests, workerPc, client>>
        /\ clientSock' = NoSock /\ open' = open \ {clientSock}
        /\ clientSock # NoSock
    BY <1>0, <1>4
       DEF SendUnavailable, Queued, workerVars, AcceptorGoes, TypeOK, AccHolding
  <2>2. QED  BY <1>0, <2>1
<1>5. CASE ~(Accept \/ PushRequest \/ CreateThread \/ SendUnavailable)
  <2>1. /\ UNCHANGED <<open, Queued, requests, workerPc, client>>
        /\ clientSock' \in {clientSock, NoSock}
    BY <1>5
       DEF AcceptorStep, AcceptFails, CheckStop, BreakOnStop, CheckPending,
           PushNothing, CheckWorkers, WaitForFinish, WakeAcceptor, SpawnCheck,
           SpawnStopped, CreateThreadFails, SendUnavailableFails, SelfStop, Goto, Queued,
           workerVars
  <2>2. QED  BY <1>0, <2>1
<1>6. QED  BY <1>1, <1>2, <1>3, <1>4, <1>5

LEMMA OwnerWorker ==
  ASSUME HandOffInv, NEW w \in Worker, WorkerStep(w)
  PROVE  OwnerInv'
<1> USE DEF OwnerInv, Owns
<1>0. OwnerInv /\ TypeOK /\ UNCHANGED clientSock /\ ~TakeNothing(w)
  BY NoticeMeansRequest
     DEF HandOffInv, CountInv, WorkerStep, CloseClient, CloseClientFails, LoopCheck,
         WaitRequest, WaitTimesOut, TakeRequest, Take, TakeNothing, GiveUp, RemoveWorker,
         Step, WorkerGoes, acceptorVars
<1>1. CASE CloseClient(w)
  <2>1. /\ UNCHANGED <<Queued, requests, client>>
        /\ open' = open \ {client[w]}
        /\ workerPc[w] = "proc" /\ workerPc'[w] # "proc"
        /\ \A v \in Worker : workerPc'[v] = "proc" => workerPc[v] = "proc" /\ v # w
    BY <1>0, <1>1 DEF CloseClient, Queued, WorkerGoes, TypeOK
  <2>2. QED  BY <1>0, <2>1
<1>2. CASE TakeRequest(w)
  <2>1. /\ Queued = Queued' \cup {client'[w]}
        /\ NoRepeat(requests') /\ client'[w] \notin Queued'
    BY <1>0, <1>2, QueuedAfterTake
  <2>2. /\ UNCHANGED open
        /\ \A v \in Worker : v # w => workerPc'[v] = workerPc[v] /\ client'[v] = client[v]
    BY <1>0, <1>2 DEF TakeRequest, Take, WorkerGoes, TypeOK
  <2>3. clientSock # client'[w]
    <3>1. client'[w] \in Fd /\ NoSock \notin Fd
      BY <1>0, <2>1, WorkerPoolAssumption DEF TypeOK, WorkerPoolAssumption
    <3>2. QED  BY <1>0, <2>1, <3>1
  <2>4. QED  BY <1>0, <2>1, <2>2, <2>3
<1>3. CASE ~(CloseClient(w) \/ TakeRequest(w))
  <2>1. /\ UNCHANGED <<open, Queued, requests>>
        /\ \A v \in Worker :
             workerPc'[v] = "proc" => workerPc[v] = "proc" /\ client'[v] = client[v]
    BY <1>0, <1>3
       DEF WorkerStep, CloseClientFails, LoopCheck, WaitRequest, WaitTimesOut, GiveUp,
           RemoveWorker, Step, WorkerGoes, Queued, TypeOK
  <2>2. QED  BY <1>0, <2>1
<1>4. QED  BY <1>1, <1>2, <1>3

\* With the notifies of stop(true) and spurious wakeups out of the way.
LEMMA HandOffNext ==
  ASSUME ~SpuriousWakeups, ~WaitAllWorkers
  PROVE  HandOffInv /\ [Next]_vars => HandOffInv'
<1> SUFFICES ASSUME HandOffInv, [Next]_vars PROVE HandOffInv'
  OBVIOUS
<1>1. CountInv'
  BY CountInvNext DEF HandOffInv
<1>2. CASE AcceptorStep
  BY <1>1, <1>2, NoticeAcceptor, OwnerAcceptor DEF HandOffInv
<1>3. ASSUME NEW w \in Worker, WorkerStep(w) PROVE HandOffInv'
  BY <1>1, <1>3, NoticeWorker, OwnerWorker DEF HandOffInv
<1>4. CASE Stop \/ StopStep \/ UNCHANGED vars
  <2>1. /\ UNCHANGED <<open, requests, clientSock, workerPc, client>>
        /\ stopPc' \in {"idle", "closeListen", "returned"}
    BY <1>4
       DEF HandOffInv, NoticeInv, Stop, StopStep, StopDrain, StopJoin, StopClose,
           StopGoes, acceptorVars, workerVars, vars, stopVars
  <2>2. NoticeInv'
    BY <2>1 DEF HandOffInv, NoticeInv, EveryNoticeHasRequest, Notified
  <2>3. OwnerInv'
    BY <2>1 DEF HandOffInv, OwnerInv, Owns, Queued
  <2>4. QED  BY <1>1, <2>2, <2>3 DEF HandOffInv
<1>5. QED  BY <1>2, <1>3, <1>4 DEF Next, Spurious

LEMMA HandOffInit == Init => HandOffInv
<1> SUFFICES ASSUME Init PROVE HandOffInv
  OBVIOUS
<1>1. Notified = {} /\ Queued = {} /\ Len(requests) = 0
  BY DEF Init, Notified, Queued
<1>2. NoticeInv
  BY <1>1, FS_EmptySet DEF Init, NoticeInv, EveryNoticeHasRequest
<1>3. OwnerInv
  BY <1>1 DEF Init, OwnerInv, NoRepeat
<1>4. QED  BY <1>2, <1>3, CountInvInit DEF HandOffInv

\* A worker that notify_one has woken finds a request when it runs, whatever
\* other workers time out, exit or are woken in between.
THEOREM NoticesAreMet ==
  ASSUME ~SpuriousWakeups, ~WaitAllWorkers
  PROVE  Spec => []EveryNoticeHasRequest
<1>1. HandOffInv => EveryNoticeHasRequest
  BY DEF HandOffInv, NoticeInv
<1>2. QED  BY <1>1, HandOffInit, HandOffNext, PTL DEF Spec

\* No two threads ever hold the same connection, and what a thread holds is
\* open: nobody reads, answers or closes another's socket.
THEOREM OwnersAreSingle ==
  ASSUME ~SpuriousWakeups, ~WaitAllWorkers
  PROVE  Spec => []SingleOwner
<1>1. HandOffInv => SingleOwner
  BY DEF HandOffInv, OwnerInv, Owns, NoRepeat, SingleOwner, Serving
<1>2. QED  BY <1>1, HandOffInit, HandOffNext, PTL DEF Spec
-----------------------------------------------------------------------------
(* The pool implements ConnectionHandOff.                                    *)

Holder == [fd \in Fd |-> HolderOf(fd)]

\* A step that hands fd, and nothing else, to somebody.
LEMMA HolderMoves ==
  ASSUME NEW fd \in Fd, NEW to, HolderOf(fd)' = to,
         \A f \in Fd : f # fd => HolderOf(f)' = HolderOf(f)
  PROVE  Holder' = [Holder EXCEPT ![fd] = to]
BY DEF Holder

LEMMA HolderStays ==
  ASSUME UNCHANGED <<open, clientSock, Queued>>,
         \A v \in Worker : /\ workerPc'[v] = "proc" <=> workerPc[v] = "proc"
                           /\ workerPc[v] = "proc" => client'[v] = client[v]
  PROVE  Holder' = Holder
BY DEF Holder, HolderOf, Serving

\* The acceptor leaves what it holds behind.
LEMMA HolderAbandons ==
  ASSUME HandOffInv, UNCHANGED <<open, requests, workerPc, client>>, clientSock' = NoSock,
         isStopped' = TRUE
  PROVE  [HandOff!Next]_HandOff!vars
<1> USE DEF Serving, HolderOf
<1>1. /\ OwnerInv /\ TypeOK /\ UNCHANGED Queued
      /\ NoSock \notin Fd
      /\ \A w \in Worker : workerPc[w] = "proc" => client[w] # clientSock
  BY WorkerPoolAssumption
     DEF HandOffInv, CountInv, OwnerInv, Owns, Queued, WorkerPoolAssumption
<1>2. CASE clientSock = NoSock
  <2>1. Holder' = Holder
    BY <1>2, HolderStays, <1>1
  <2>2. HandOff!Stop
    BY <2>1 DEF HandOff!Stop, Holder
  <2>3. QED  BY <2>2 DEF HandOff!Next
<1>3. CASE clientSock # NoSock
  <2>1. PICK c \in Fd : c = clientSock
    BY <1>1, <1>3 DEF TypeOK
  <2>2. HolderOf(c) = "acceptor" /\ HolderOf(c)' = "abandoned"
    BY <1>1, <1>3, <2>1 DEF OwnerInv
  <2>3. \A f \in Fd : f # c => HolderOf(f)' = HolderOf(f)
    BY <1>1, <2>1
  <2>4. Holder' = [Holder EXCEPT ![c] = "abandoned"]
    BY <2>2, <2>3, HolderMoves
  <2>5. HandOff!Abandon(c)
    BY <2>2, <2>4 DEF HandOff!Abandon, HandOff!Move, Holder
  <2>6. QED  BY <2>5 DEF HandOff!Next
<1>4. QED  BY <1>2, <1>3

LEMMA HandOffAcceptor == HandOffInv /\ AcceptorStep => [HandOff!Next]_HandOff!vars
<1> SUFFICES ASSUME HandOffInv, AcceptorStep PROVE [HandOff!Next]_HandOff!vars
  OBVIOUS
<1> USE DEF Serving, HolderOf
<1>1. /\ OwnerInv /\ TypeOK /\ NoSock \notin Fd
      /\ \A w \in Worker : workerPc[w] = "proc" => client[w] # clientSock /\ client[w] \in open
  BY WorkerPoolAssumption
     DEF HandOffInv, CountInv, OwnerInv, Owns, WorkerPoolAssumption
<1>2. CASE Accept
  <2>1. PICK fd \in Fd \ open : open' = open \cup {fd} /\ clientSock' = fd
    BY <1>2 DEF Accept
  <2>2. /\ UNCHANGED <<Queued, requests, workerPc, client, isStopped>>
        /\ clientSock = NoSock
    BY <1>1, <1>2
       DEF Accept, workerVars, Queued, stopVars, AcceptorGoes, AccEmpty, TypeOK
  <2>3. /\ HolderOf(fd) = "nobody" /\ HolderOf(fd)' = "acceptor"
        /\ \A f \in Fd : f # fd => HolderOf(f)' = HolderOf(f)
    BY <1>1, <2>1, <2>2
  <2>4. Holder' = [Holder EXCEPT ![fd] = "acceptor"]
    BY <2>3, HolderMoves
  <2>5. HandOff!Accept(fd)
    BY <2>2, <2>3, <2>4 DEF HandOff!Accept, HandOff!Move, Holder
  <2>6. QED  BY <2>5 DEF HandOff!Next
<1>3. CASE PushRequest
  <2>1. /\ Queued' = Queued \cup {clientSock} /\ clientSock \in Fd /\ clientSock # NoSock
        /\ requests' = Append(requests, clientSock) /\ clientSock' = NoSock
        /\ UNCHANGED <<open, client, isStopped>>
    BY <1>1, <1>3, QueuedAfterPush
       DEF PushRequest, TypeOK, AcceptorGoes, AccHolding, stopVars
  <2>2. \A v \in Worker : workerPc'[v] = "proc" <=> workerPc[v] = "proc"
    BY <1>3, NotifyRaises DEF PushRequest, HandOffInv
  <2>3. PICK c \in Fd : c = clientSock
    BY <2>1
  <2>4. /\ HolderOf(c) = "acceptor" /\ HolderOf(c)' = "queue"
        /\ \A f \in Fd : f # c => HolderOf(f)' = HolderOf(f)
    BY <1>1, <2>1, <2>2, <2>3 DEF OwnerInv
  <2>5. Holder' = [Holder EXCEPT ![c] = "queue"]
    BY <2>4, HolderMoves
  <2>6. HandOff!Enqueue(c)
    BY <2>1, <2>3, <2>4, <2>5 DEF HandOff!Enqueue, HandOff!Move, Holder
  <2>7. QED  BY <2>6 DEF HandOff!Next
<1>4. CASE CreateThread
  <2>1. PICK w \in Worker \ Live :
          /\ workerPc' = [workerPc EXCEPT ![w] = "proc"]
          /\ client' = [client EXCEPT ![w] = clientSock]
    BY <1>4 DEF CreateThread
  <2>2. /\ workerPc'[w] = "proc" /\ client'[w] = clientSock /\ workerPc[w] = "off"
        /\ \A v \in Worker : v # w => workerPc'[v] = workerPc[v] /\ client'[v] = client[v]
    BY <1>1, <2>1 DEF TypeOK, Live
  <2>3. /\ UNCHANGED <<Queued, requests, open, isStopped>> /\ clientSock' = NoSock
        /\ clientSock \in Fd
    BY <1>1, <1>4 DEF CreateThread, Queued, AcceptorGoes, TypeOK, AccHolding, stopVars
  <2>4. PICK c \in Fd : c = clientSock
    BY <2>3
  <2>5. /\ HolderOf(c) = "acceptor" /\ HolderOf(c)' = "worker"
        /\ \A f \in Fd : f # c => HolderOf(f)' = HolderOf(f)
    BY <1>1, <2>2, <2>3, <2>4 DEF OwnerInv
  <2>6. Holder' = [Holder EXCEPT ![c] = "worker"]
    BY <2>5, HolderMoves
  <2>7. HandOff!StartOn(c)
    BY <2>3, <2>5, <2>6 DEF HandOff!StartOn, HandOff!Move, Holder
  <2>8. QED  BY <2>7 DEF HandOff!Next
<1>5. CASE SendUnavailable
  <2>1. /\ UNCHANGED <<Queued, requests, workerPc, client, isStopped>>
        /\ clientSock' = NoSock /\ open' = open \ {clientSock}
        /\ clientSock \in Fd
    BY <1>1, <1>5
       DEF SendUnavailable, Queued, workerVars, AcceptorGoes, TypeOK, AccHolding, stopVars
  <2>2. PICK c \in Fd : c = clientSock
    BY <2>1
  <2>3. /\ HolderOf(c) = "acceptor" /\ HolderOf(c)' = "nobody"
        /\ \A f \in Fd : f # c => HolderOf(f)' = HolderOf(f)
    BY <1>1, <2>1, <2>2 DEF OwnerInv
  <2>4. Holder' = [Holder EXCEPT ![c] = "nobody"]
    BY <2>3, HolderMoves
  <2>5. HandOff!Refuse(c)
    BY <2>1, <2>3, <2>4 DEF HandOff!Refuse, HandOff!Move, Holder
  <2>6. QED  BY <2>5 DEF HandOff!Next
<1>6. CASE BreakOnStop \/ SpawnStopped \/ SelfStop
  <2>1. /\ UNCHANGED <<open, requests, workerPc, client>>
        /\ clientSock' = NoSock /\ isStopped' = TRUE
    BY <1>1, <1>6 DEF BreakOnStop, SpawnStopped, SelfStop, workerVars, stopVars, TypeOK
  <2>2. QED  BY <2>1, HolderAbandons
<1>7. CASE ~(\/ Accept \/ PushRequest \/ CreateThread \/ SendUnavailable \/ BreakOnStop
             \/ SpawnStopped \/ SelfStop)
  <2>1. UNCHANGED <<open, requests, clientSock, workerPc, client, isStopped>>
    BY <1>7
       DEF AcceptorStep, AcceptFails, CheckStop, CheckPending, PushNothing, CheckWorkers,
           WaitForFinish, WakeAcceptor, SpawnCheck, CreateThreadFails,
           SendUnavailableFails, Goto, workerVars, stopVars
  <2>2. UNCHANGED Queued
    BY <2>1 DEF Queued
  <2>3. Holder' = Holder
    BY <2>1, <2>2, HolderStays
  <2>4. QED  BY <2>1, <2>3 DEF HandOff!vars, Holder
<1>8. QED  BY <1>2, <1>3, <1>4, <1>5, <1>6, <1>7

LEMMA HandOffWorker ==
  ASSUME HandOffInv, NEW w \in Worker, WorkerStep(w)
  PROVE  [HandOff!Next]_HandOff!vars
<1> USE DEF Serving, HolderOf
<1>1. /\ OwnerInv /\ TypeOK /\ NoSock \notin Fd
      /\ UNCHANGED <<clientSock, isStopped>> /\ ~TakeNothing(w)
  BY NoticeMeansRequest, WorkerPoolAssumption
     DEF HandOffInv, CountInv, WorkerStep, CloseClient, CloseClientFails, LoopCheck,
         WaitRequest, WaitTimesOut, TakeRequest, Take, TakeNothing, GiveUp, RemoveWorker,
         Step, WorkerGoes, acceptorVars, stopVars, WorkerPoolAssumption
<1>2. CASE CloseClient(w)
  <2>1. /\ UNCHANGED <<Queued, requests, client>>
        /\ open' = open \ {client[w]}
        /\ workerPc[w] = "proc" /\ workerPc'[w] = "served"
        /\ \A v \in Worker : v # w => workerPc'[v] = workerPc[v]
    BY <1>1, <1>2 DEF CloseClient, Queued, WorkerGoes, TypeOK
  <2>2. PICK c \in Fd : c = client[w]
    BY <1>1, <2>1 DEF OwnerInv, Owns, TypeOK
  <2>3. /\ HolderOf(c) = "worker" /\ HolderOf(c)' = "nobody"
        /\ \A f \in Fd : f # c => HolderOf(f)' = HolderOf(f)
    BY <1>1, <2>1, <2>2 DEF OwnerInv, Owns, TypeOK
  <2>4. Holder' = [Holder EXCEPT ![c] = "nobody"]
    BY <2>3, HolderMoves
  <2>5. HandOff!Close(c)
    BY <1>1, <2>1, <2>3, <2>4 DEF HandOff!Close, HandOff!Move, Holder
  <2>6. QED  BY <2>5 DEF HandOff!Next
<1>3. CASE TakeRequest(w)
  <2>1. PICK c \in Fd : c = Head(requests)
    BY <1>1, <1>3 DEF TakeRequest, Take, TypeOK
  <2>2. /\ Queued = Queued' \cup {c} /\ c \notin Queued' /\ client'[w] = c
    BY <1>1, <1>3, <2>1, QueuedAfterTake DEF OwnerInv
  <2>3. /\ requests # <<>> /\ requests' = Tail(requests)
        /\ UNCHANGED open
        /\ workerPc[w] = "notified" /\ workerPc'[w] = "proc"
        /\ \A v \in Worker : v # w => workerPc'[v] = workerPc[v] /\ client'[v] = client[v]
    BY <1>1, <1>3 DEF TakeRequest, Take, WorkerGoes, TypeOK
  <2>4. /\ HolderOf(c) = "queue" /\ HolderOf(c)' = "worker"
        /\ \A f \in Fd : f # c => HolderOf(f)' = HolderOf(f)
    BY <1>1, <2>2, <2>3 DEF OwnerInv, Owns, TypeOK
  <2>5. Holder' = [Holder EXCEPT ![c] = "worker"]
    BY <2>4, HolderMoves
  <2>6. HandOff!Take
    BY <1>1, <2>1, <2>3, <2>4, <2>5 DEF HandOff!Take, HandOff!Move, Holder
  <2>7. QED  BY <2>6 DEF HandOff!Next
<1>4. CASE ~(CloseClient(w) \/ TakeRequest(w))
  <2>1. /\ UNCHANGED <<open, Queued, requests>>
        /\ \A v \in Worker :
             /\ workerPc'[v] = "proc" <=> workerPc[v] = "proc"
             /\ workerPc[v] = "proc" => client'[v] = client[v]
    BY <1>1, <1>4
       DEF WorkerStep, CloseClientFails, LoopCheck, WaitRequest, WaitTimesOut, GiveUp,
           RemoveWorker, Step, WorkerGoes, Queued, TypeOK, OwnerInv, Owns
  <2>2. Holder' = Holder
    BY <1>1, <2>1, HolderStays
  <2>3. QED  BY <1>1, <2>1, <2>2 DEF HandOff!vars, Holder
<1>5. QED  BY <1>2, <1>3, <1>4

\* The pool is an implementation of ConnectionHandOff: every connection goes
\* once from the acceptor, through a first-in first-out queue or directly, to
\* one worker, which closes it; only a stopping server abandons one.
THEOREM PoolHandsOff ==
  ASSUME ~SpuriousWakeups, ~WaitAllWorkers
  PROVE  Spec => ImplementsHandOff
<1>1. Init => HandOff!Init
  BY DEF Init, HandOff!Init, HolderOf
<1>2. HandOffInv /\ [Next]_vars => [HandOff!Next]_HandOff!vars
  <2> SUFFICES ASSUME HandOffInv, [Next]_vars PROVE [HandOff!Next]_HandOff!vars
    OBVIOUS
  <2>1. CASE AcceptorStep
    BY <2>1, HandOffAcceptor
  <2>2. ASSUME NEW w \in Worker, WorkerStep(w) PROVE [HandOff!Next]_HandOff!vars
    BY <2>2, HandOffWorker
  <2>3. CASE Stop \/ StopStep \/ UNCHANGED vars
    <3>1. /\ UNCHANGED <<open, requests, clientSock, workerPc, client>>
          /\ isStopped' = TRUE \/ UNCHANGED isStopped
      BY <2>3
         DEF HandOffInv, NoticeInv, Stop, StopStep, StopDrain, StopJoin, StopClose,
             StopGoes, acceptorVars, workerVars, vars, stopVars
    <3>2. Holder' = Holder
      BY <3>1, HolderStays DEF Queued
    <3>3. HandOff!Stop \/ UNCHANGED HandOff!vars
      BY <3>1, <3>2 DEF HandOff!Stop, HandOff!vars, Holder
    <3>4. QED  BY <3>3 DEF HandOff!Next
  <2>4. QED  BY <2>1, <2>2, <2>3 DEF Next, Spurious
<1>3. QED
  BY <1>1, <1>2, HandOffInit, HandOffNext, PTL DEF Spec, ImplementsHandOff, HandOff!Spec
=============================================================================
