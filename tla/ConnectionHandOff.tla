------------------------- MODULE ConnectionHandOff -------------------------
(***************************************************************************)
(* What the worker pool of aconnect::Server promises about an accepted     *)
(* connection, without threads, counters, mutexes or condition variables.  *)
(* Every open client socket has exactly one holder: the acceptor, the      *)
(* queue of requests, or one worker.  It moves from the acceptor to a      *)
(* worker directly or through the queue, which is first in, first out; a   *)
(* worker closes what it was given; the acceptor closes only what it       *)
(* refuses with a 503; a socket is abandoned only when the server stops.   *)
(***************************************************************************)
EXTENDS Naturals, Sequences

CONSTANT Fd     \* socket descriptors the process can hold open

VARIABLES
  holder,       \* who answers for each descriptor
  queue,        \* connections waiting for a worker, oldest first
  stopped       \* the server has been told to stop

vars == <<holder, queue, stopped>>

Holder == {"nobody", "acceptor", "queue", "worker", "abandoned"}

TypeOK ==
  /\ holder \in [Fd -> Holder]
  /\ queue \in Seq(Fd)
  /\ stopped \in BOOLEAN

Init ==
  /\ holder = [fd \in Fd |-> "nobody"]
  /\ queue = <<>>
  /\ stopped = FALSE

Move(fd, from, to) ==
  /\ holder[fd] = from
  /\ holder' = [holder EXCEPT ![fd] = to]

Accept(fd)    == Move(fd, "nobody", "acceptor")  /\ UNCHANGED <<queue, stopped>>
StartOn(fd)   == Move(fd, "acceptor", "worker")  /\ UNCHANGED <<queue, stopped>>
Refuse(fd)    == Move(fd, "acceptor", "nobody")  /\ UNCHANGED <<queue, stopped>>
Close(fd)     == Move(fd, "worker", "nobody")    /\ UNCHANGED <<queue, stopped>>

Enqueue(fd) ==
  /\ Move(fd, "acceptor", "queue")
  /\ queue' = Append(queue, fd)
  /\ UNCHANGED stopped

Take ==
  /\ queue # <<>>
  /\ Move(Head(queue), "queue", "worker")
  /\ queue' = Tail(queue)
  /\ UNCHANGED stopped

Stop ==
  /\ stopped' = TRUE
  /\ UNCHANGED <<holder, queue>>

\* The acceptor leaves a connection open and unanswered: only when stopping.
Abandon(fd) ==
  /\ Move(fd, "acceptor", "abandoned")
  /\ stopped' = TRUE
  /\ UNCHANGED queue

Next ==
  \/ \E fd \in Fd : \/ Accept(fd) \/ StartOn(fd) \/ Refuse(fd) \/ Close(fd)
                    \/ Enqueue(fd) \/ Abandon(fd)
  \/ Take
  \/ Stop

Spec == Init /\ [][Next]_vars
=============================================================================
