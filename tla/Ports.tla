-------------------------------- MODULE Ports --------------------------------
(***************************************************************************)
(* A port and the port:recv calls on it.  The four kinds of port share one *)
(* shape: what arrives goes to the first receiver waiting or is queued.    *)
(* They differ in where it comes from and in what close() does:            *)
(*   listener  ListenerPort over BunListener, which keeps one receiver;    *)
(*   udp       UdpPort, which binds its socket at the first receive;       *)
(*   watch     WatchPort, which runs a VFS iterator that may end or throw; *)
(*   pubsub    PubsubPort over a subscription of MemoryRedis.              *)
(* A receiver is a syscall of one response.  If it is cancelled while it   *)
(* waits, its place remains taken, and what it then gets is dropped.       *)
(* Messages (datagrams, connections, events) are numbered as they arrive.  *)
(***************************************************************************)
EXTENDS Integers, Sequences, FiniteSets

CONSTANTS
  Reader,       \* port:recv calls that may be in progress at the same time
  MaxArrivals,  \* bound: messages that arrive
  MaxCancels    \* bound: receivers cancelled

ASSUME PortAssumption ==
  IsFiniteSet(Reader) /\ MaxArrivals \in Nat /\ MaxCancels \in Nat

Kind == {"listener", "udp", "watch", "pubsub"}
Nothing == 0
Failure == -1    \* recv() throws

VARIABLES
  kind,       \* which of the four; it never changes
  queue,      \* messageQueue, connectionQueue, the queue of the subscription
  waiters,    \* waiters; of a listener, connectionResolve
  closed,
  socket,     \* udp: none, binding, open, failed (its promise is rejected), shut
  source,     \* watch: on, ended (iteratorDone), failed (the loop threw)
  (* the receivers *)
  pc,         \* idle; binding: in ensureSocket(); waiting; forgotten: waiting
              \* for a promise that nothing refers to; woken: it has settled
  hand, cancelled,
  (* history *)
  arrived, got, dropped, discarded, cancels

port == <<kind, queue, waiters, closed, socket, source>>
receivers == <<pc, hand, cancelled>>
counts == <<arrived, got, dropped, discarded, cancels>>
vars == <<port, receivers, counts>>

Message == 1..MaxArrivals
Elements(s) == {s[i] : i \in DOMAIN s}

TypeOK ==
  /\ kind \in Kind /\ closed \in BOOLEAN
  /\ queue \in Seq(Message) /\ waiters \in Seq(Reader)
  /\ socket \in {"none", "binding", "open", "failed", "shut"}
  /\ source \in {"on", "ended", "failed"}
  /\ pc \in [Reader -> {"idle", "binding", "waiting", "forgotten", "woken"}]
  /\ hand \in [Reader -> Message \cup {Nothing, Failure}]
  /\ cancelled \in [Reader -> BOOLEAN]
  /\ arrived \in 0..MaxArrivals /\ got \in [Reader -> Seq(Message)]
  /\ dropped \subseteq Message /\ discarded \subseteq Message /\ cancels \in 0..MaxCancels

Init ==
  /\ kind \in Kind
  /\ queue = <<>> /\ waiters = <<>> /\ closed = FALSE
  /\ socket = "none" /\ source = "on"
  /\ pc = [r \in Reader |-> "idle"] /\ hand = [r \in Reader |-> Nothing]
  /\ cancelled = [r \in Reader |-> FALSE]
  /\ arrived = 0 /\ got = [r \in Reader |-> <<>>]
  /\ dropped = {} /\ discarded = {} /\ cancels = 0

-----------------------------------------------------------------------------
(* What comes in.                                                          *)

(* A socket that opens after close() stays open.  (The iterator of a       *)
(* subscription queues what is published before it has taken up the next   *)
(* request; that turn of the event loop is left out.)                      *)
Live ==
  CASE kind = "udp" -> socket = "open"
    [] kind = "watch" -> ~closed /\ source = "on"
    [] OTHER -> ~closed

Settle(r, m) ==
  /\ pc' = [pc EXCEPT ![r] = "woken"]
  /\ hand' = [hand EXCEPT ![r] = m]

ArriveQueued ==                         \* mutant: a receiver that waits is passed over
  /\ Live /\ arrived < MaxArrivals
  /\ arrived' = arrived + 1
  /\ queue' = Append(queue, arrived + 1) /\ UNCHANGED <<waiters, pc, hand>>
  /\ UNCHANGED <<kind, closed, socket, source, cancelled, got, dropped, discarded, cancels>>
Arrive ==
  /\ Live /\ arrived < MaxArrivals
  /\ arrived' = arrived + 1
  /\ IF waiters # <<>>
     THEN /\ Settle(Head(waiters), arrived + 1)
          /\ waiters' = Tail(waiters) /\ UNCHANGED queue
     ELSE queue' = Append(queue, arrived + 1) /\ UNCHANGED <<waiters, pc, hand>>
  /\ UNCHANGED <<kind, closed, socket, source, cancelled, got, dropped, discarded, cancels>>

(* startConsuming(): the iterator is done or throws.  Nobody is told.      *)
SourceStops ==
  /\ kind = "watch" /\ ~closed /\ source = "on"
  /\ source' \in {"ended", "failed"}
  /\ UNCHANGED <<kind, queue, waiters, closed, socket, receivers, counts>>

-----------------------------------------------------------------------------
(* recv().                                                                 *)

TakePeeks(r) ==                         \* mutant: the message stays in the queue
  /\ Settle(r, Head(queue)) /\ UNCHANGED <<queue, waiters>>
Take(r) ==
  /\ Settle(r, Head(queue))
  /\ queue' = Tail(queue) /\ UNCHANGED waiters

Fail(r) == Settle(r, Failure) /\ UNCHANGED <<queue, waiters>>

(* accept() has one slot: who is in it is forgotten.                       *)
TakeSlot(r) ==
  /\ pc' = [q \in Reader |-> IF q = r THEN "waiting"
                             ELSE IF q \in Elements(waiters) THEN "forgotten" ELSE pc[q]]
  /\ waiters' = <<r>> /\ UNCHANGED <<queue, hand>>

Line(r) ==
  /\ pc' = [pc EXCEPT ![r] = "waiting"]
  /\ waiters' = Append(waiters, r) /\ UNCHANGED <<queue, hand>>

Ask(r) ==
  IF queue # <<>> THEN Take(r)
  ELSE IF kind = "watch" /\ source = "ended" THEN Fail(r)
  ELSE IF kind = "listener" THEN TakeSlot(r) ELSE Line(r)

(* A call finds the port through its handle, which close() takes away.     *)
Recv(r) ==
  /\ pc[r] = "idle" /\ ~closed
  /\ kind # "udp" \/ socket = "open"
  /\ Ask(r)
  /\ UNCHANGED <<kind, closed, socket, source, cancelled, counts>>

(* ensureSocket(): the first call binds, the others wait with it.          *)
RecvUnbound(r) ==
  /\ pc[r] = "idle" /\ ~closed /\ kind = "udp"
  /\ \/ /\ socket \in {"none", "binding"}
        /\ socket' = "binding"
        /\ pc' = [pc EXCEPT ![r] = "binding"] /\ UNCHANGED <<queue, waiters, hand>>
     \/ socket = "failed" /\ Fail(r) /\ UNCHANGED socket
  /\ UNCHANGED <<kind, closed, source, cancelled, counts>>

Bound ==
  /\ socket = "binding"
  /\ socket' \in {"open", "failed"}
  /\ UNCHANGED <<kind, queue, waiters, closed, source, receivers, counts>>

RecvBoundClosed(r) ==                   \* mutant: closed is not looked at again
  /\ pc[r] = "binding" /\ socket # "binding"
  /\ IF socket = "failed" THEN Fail(r) ELSE Ask(r)
  /\ UNCHANGED <<kind, closed, socket, source, cancelled, counts>>
(* recv() goes on once the socket is there, or has failed.                 *)
RecvBound(r) ==
  /\ pc[r] = "binding" /\ socket # "binding"
  /\ IF socket = "failed" \/ closed THEN Fail(r) ELSE Ask(r)
  /\ UNCHANGED <<kind, closed, socket, source, cancelled, counts>>

-----------------------------------------------------------------------------
(* close(): a subscription wakes its waiters; the other kinds drop them.   *)
(* (A listener keeps its queue; with the port gone nothing can read it.)   *)
Close ==
  /\ ~closed /\ closed' = TRUE
  /\ discarded' = discarded \cup Elements(queue)
  /\ queue' = <<>> /\ waiters' = <<>>
  /\ socket' = IF socket = "open" THEN "shut" ELSE socket
  /\ LET w == Elements(waiters)
         to == IF kind = "pubsub" THEN "woken" ELSE "forgotten"
     IN /\ pc' = [r \in Reader |-> IF r \in w THEN to ELSE pc[r]]
        /\ hand' = [r \in Reader |-> IF r \in w /\ kind = "pubsub" THEN Failure ELSE hand[r]]
  /\ UNCHANGED <<kind, source, cancelled, arrived, got, dropped, cancels>>

-----------------------------------------------------------------------------
(* The end of a receive.                                                   *)

End(r) ==
  /\ pc' = [pc EXCEPT ![r] = "idle"]
  /\ hand' = [hand EXCEPT ![r] = Nothing]
  /\ cancelled' = [cancelled EXCEPT ![r] = FALSE]

(* The client is sent the message, ...                                     *)
Deliver(r) ==
  /\ pc[r] = "woken" /\ hand[r] \in Message /\ ~cancelled[r]
  /\ got' = [got EXCEPT ![r] = Append(@, hand[r])]
  /\ End(r)
  /\ UNCHANGED <<port, arrived, dropped, discarded, cancels>>

(* ... or has cancelled: a connection has then got a descriptor that no    *)
(* one knows, anything else is gone, ...                                   *)
Drop(r) ==
  /\ pc[r] = "woken" /\ hand[r] \in Message /\ cancelled[r]
  /\ dropped' = dropped \cup {hand[r]}
  /\ End(r)
  /\ UNCHANGED <<port, arrived, got, discarded, cancels>>

(* ... or has no descriptor left for the connection, which is closed, ...  *)
Refuse(r) ==
  /\ pc[r] = "woken" /\ hand[r] \in Message /\ kind = "listener"
  /\ discarded' = discarded \cup {hand[r]}
  /\ End(r)
  /\ UNCHANGED <<port, arrived, got, dropped, cancels>>

(* ... or gets an error.                                                   *)
Throw(r) ==
  /\ pc[r] = "woken" /\ hand[r] = Failure
  /\ End(r)
  /\ UNCHANGED <<port, counts>>

Cancel(r) ==
  /\ pc[r] # "idle" /\ ~cancelled[r] /\ cancels < MaxCancels
  /\ cancels' = cancels + 1
  /\ cancelled' = [cancelled EXCEPT ![r] = TRUE]
  /\ UNCHANGED <<port, pc, hand, arrived, got, dropped, discarded>>

Finish(r) == RecvBound(r) \/ Deliver(r) \/ Drop(r) \/ Refuse(r) \/ Throw(r)

Next ==
  \/ Arrive \/ SourceStops \/ Bound \/ Close
  \/ \E r \in Reader : Recv(r) \/ RecvUnbound(r) \/ Finish(r) \/ Cancel(r)

(* A bind settles, and so does everything that has been resolved.  Nothing *)
(* has to arrive, and nobody has to call.                                  *)
Spec == Init /\ [][Next]_vars /\ WF_vars(Bound) /\ \A r \in Reader : WF_vars(Finish(r))

-----------------------------------------------------------------------------
(* Properties.                                                             *)

Held == {hand[r] : r \in Reader} \cap Message
Given == UNION {Elements(got[r]) : r \in Reader}

(* What arrives is in one place, whatever closes, is cancelled or fails:   *)
(* queued, held by one receiver, sent to one client, dropped by a          *)
(* cancelled call, of which each takes one at most, or discarded; no       *)
(* client sees two messages in another order than they arrived in.         *)
EachOnceInOrder ==
  /\ 1..arrived = Elements(queue) \cup Held \cup Given \cup dropped \cup discarded
  /\ Elements(queue) \cap (Held \cup Given \cup dropped \cup discarded) = {}
  /\ Held \cap (Given \cup dropped \cup discarded) = {}
  /\ Given \cap (dropped \cup discarded) = {} /\ dropped \cap discarded = {}
  /\ \A q, r \in Reader : q # r => /\ hand[q] = hand[r] => hand[q] \notin Message
                                   /\ Elements(got[q]) \cap Elements(got[r]) = {}
  /\ \A i, j \in DOMAIN queue : i < j => queue[i] < queue[j]
  /\ \A r \in Reader : \A i, j \in DOMAIN got[r] : i < j => got[r][i] < got[r][j]
  /\ Cardinality(dropped) + Cardinality({r \in Reader : cancelled[r]}) <= cancels

(* Nobody waits beside a message (udp-port.ts, INV-2 and INV-3), and a     *)
(* call is forgotten only by the close of a port that is no subscription,  *)
(* or by a second call on a listener.                                      *)
WaitersAreKept ==
  /\ queue # <<>> => waiters = <<>>
  /\ \A r \in Reader :
       /\ pc[r] = "waiting" <=> r \in Elements(waiters)
       /\ pc[r] = "waiting" => ~closed
       /\ pc[r] = "forgotten" => kind = "listener" \/ (closed /\ kind # "pubsub")

(* After the close of a subscription, and from a bind whose port is closed *)
(* meanwhile or whose socket cannot be opened, every call comes back.      *)
CallsComeBack ==
  \A r \in Reader :
    (\/ closed /\ kind = "pubsub"
     \/ pc[r] = "binding" /\ (closed \/ socket = "failed")) ~> pc[r] = "idle"
=============================================================================
