------------------------------- MODULE Gateway -------------------------------
(***************************************************************************)
(* The gateway: clients on TCP sockets and WebSockets, the frames they     *)
(* send, the syscalls these start and the responses that go back.          *)
(*                                                                         *)
(* A client's handler reads in a loop and never waits for what it starts:  *)
(* the requests of a client run beside each other, each in the virtual     *)
(* process of the client.  On TCP the bytes come in chunks that know       *)
(* nothing of frames: here a frame is two units, a head and a body, and a  *)
(* chunk is any number of them.  On a WebSocket a message is a frame.      *)
(* What a handler does between two awaits is one step: a chunk with all    *)
(* its frames, the end of a connection with all it cancels, shutdown().    *)
(***************************************************************************)
EXTENDS Integers, Sequences, SequencesExt

CONSTANTS
  Client,      \* connections, those to the TCP port and those to the other
  Tcp,
  Id,          \* ids that clients give them ("unknown" is one)
  None,        \* no request
  MaxBuffer,   \* MAX_READ_BUFFER_SIZE, in units
  HighWater,   \* StreamController's: items sent without a ping
  MaxRequests  \* bound: messages that clients send

Request == 1..MaxRequests

ASSUME GatewayAssumption == None \notin Request

VARIABLES
  listening,   \* until shutdown()
  conn,        \* none, open, closed (by shutdown, its end not seen yet) or gone
  wire,        \* what the client has sent and the handler not read: units
  buffer,      \* readBuffer
  request,     \* each message: who sent it, its id, and how far it is
  streams,     \* proc.activeStreams: the request behind each id
  (* history *)
  sent, begun, \* per client, in order: messages written, messages dispatched
  shared       \* requests that ran beside one with the same id

gatewayHistory == <<sent, begun, shared>>
gatewayVars == <<listening, conn, wire, buffer, request, streams, gatewayHistory>>

Unsent == [st |-> "none", client |-> None, id |-> None, form |-> "call", items |-> 0, aborted |-> FALSE]
Closed(c, st) == [Unsent EXCEPT !.st = st, !.client = c]

GatewayInit ==
  /\ listening = TRUE
  /\ conn = [c \in Client |-> "none"]
  /\ wire = [c \in Client |-> <<>>] /\ buffer = [c \in Client |-> <<>>]
  /\ request = [r \in Request |-> Unsent]
  /\ streams = [c \in Client |-> [i \in Id |-> None]]
  /\ sent = [c \in Client |-> <<>>] /\ begun = [c \in Client |-> <<>>] /\ shared = {}

(* Dispatched and not over: running, or paused by its controller.          *)
Active(r) == request[r].st \in {"running", "paused"}
ActiveOf(c) == {r \in Request : Active(r) /\ request[r].client = c}

-----------------------------------------------------------------------------
(* The listeners' open callbacks, and the accept loops.                    *)
Connect(c) ==
  /\ listening /\ conn[c] = "none"
  /\ conn' = [conn EXCEPT ![c] = "open"]
  /\ UNCHANGED <<listening, wire, buffer, request, streams, gatewayHistory>>

(* A client writes its next message: a call, one that does not parse or    *)
(* names no call (bad), or the msgpack value nil.                          *)
ClientSends(c) ==
  /\ conn[c] = "open"
  /\ \E r \in Request, i \in Id, form \in {"call", "bad", "nil"} :
       /\ request[r].st = "none" /\ \A q \in 1..(r - 1) : request[q].st # "none"
       /\ request' = [request EXCEPT ![r] =
            [Unsent EXCEPT !.st = "sent", !.client = c, !.id = i, !.form = form]]
       /\ wire' = [wire EXCEPT ![c] = @ \o << <<r, "head">>, <<r, "body">> >>]
       /\ sent' = [sent EXCEPT ![c] = Append(@, r)]
  /\ UNCHANGED <<listening, conn, buffer, streams, begun, shared>>

-----------------------------------------------------------------------------
(* Reading.                                                                *)

(* The frames that the read loop cuts from its buffer: the unit where it   *)
(* expects a length is taken for one.                                      *)
Frames(units) == [i \in 1..(Len(units) \div 2) |-> units[2 * i - 1][1]]
RestLost(units) == <<>>                    \* mutant: a cut frame is dropped
Rest(units) == SubSeq(units, 2 * (Len(units) \div 2) + 1, Len(units))

(* processMessage() up to its first await, for each frame in turn: a call  *)
(* is in the table of streams from then on, over any other of its id; nil  *)
(* makes it throw where nobody catches it, and gets no response.           *)
Dispatched(frames) ==
  [r \in Request |->
     IF ~Contains(frames, r) THEN request[r]
     ELSE IF request[r].form = "call" THEN [request[r] EXCEPT !.st = "running"]
     ELSE Closed(request[r].client, IF request[r].form = "bad" THEN "answered" ELSE "ignored")]
Streaming(c, frames) ==
  [i \in Id |->
     LET named == {k \in DOMAIN frames : request[frames[k]].id = i /\ request[frames[k]].form = "call"}
     IN IF named = {} THEN streams[c][i] ELSE frames[Max(named)]]
Sharing(c, frames) ==
  LET both == ActiveOf(c) \cup {r \in Request : Contains(frames, r) /\ request[r].form = "call"}
  IN {r \in both : \E q \in both \ {r} : request[q].id = request[r].id}

(* The end of a handler: its streams are aborted, its process is a zombie. *)
(* A message sent but not read is lost.                                    *)
Severed(c, table, reqs) ==
  [r \in Request |->
     IF \E i \in Id : table[i] = r THEN [reqs[r] EXCEPT !.aborted = TRUE]
     ELSE IF reqs[r].st = "sent" /\ reqs[r].client = c THEN Closed(c, "lost")
     ELSE reqs[r]]
Leave(c, table, reqs) ==
  /\ conn' = [conn EXCEPT ![c] = "gone"]
  /\ request' = Severed(c, table, reqs)
  /\ streams' = [streams EXCEPT ![c] = [i \in Id |-> None]]
  /\ buffer' = [buffer EXCEPT ![c] = <<>>] /\ wire' = [wire EXCEPT ![c] = <<>>]

(* A chunk, or a message, arrives.  On a socket that shutdown() has closed *)
(* one that was under way is still read, and the loop ends after it.       *)
Arrive(c) ==
  /\ conn[c] \in {"open", "closed"} /\ wire[c] # <<>>
  /\ \E n \in IF c \in Tcp THEN 1..Len(wire[c]) ELSE {2} :
       LET units  == buffer[c] \o SubSeq(wire[c], 1, n)
           frames == Frames(units)
       IN IF c \in Tcp /\ Len(units) > MaxBuffer
          THEN Leave(c, streams[c], request) /\ UNCHANGED <<begun, shared>>
          ELSE /\ begun' = [begun EXCEPT ![c] = @ \o frames]
               /\ shared' = shared \cup Sharing(c, frames)
               /\ IF conn[c] = "closed"
                  THEN Leave(c, Streaming(c, frames), Dispatched(frames))
                  ELSE /\ request' = Dispatched(frames)
                       /\ streams' = [streams EXCEPT ![c] = Streaming(c, frames)]
                       /\ buffer' = [buffer EXCEPT ![c] = Rest(units)]
                       /\ wire' = [wire EXCEPT ![c] = SubSeq(@, n + 1, Len(@))]
                       /\ UNCHANGED conn
  /\ UNCHANGED <<listening, sent>>

(* The client closes, or the end that shutdown() sent comes back.          *)
EndOfClient(c) ==
  /\ conn[c] \in {"open", "closed"}
  /\ Leave(c, streams[c], request)
  /\ UNCHANGED <<listening, gatewayHistory>>

-----------------------------------------------------------------------------
(* Responding.                                                             *)

(* execute() and processMessage() are over: whatever is in the table under *)
(* the id goes.                                                            *)
OverClears(r, st) ==                       \* mutant: the whole table goes
  /\ request' = [request EXCEPT ![r] = Closed(request[r].client, st)]
  /\ streams' = [streams EXCEPT ![request[r].client] = [i \in Id |-> None]]
Over(r, st) ==
  /\ request' = [request EXCEPT ![r] = Closed(request[r].client, st)]
  /\ streams' = [streams EXCEPT ![request[r].client][request[r].id] = None]

(* A response can be sent while neither side has closed.  Bun may refuse   *)
(* one on a WebSocket (backpressure), and the request is given up.         *)
CanSend(r) == conn[request[r].client] = "open"
Refused(r) == request[r].client \notin Tcp /\ Over(r, "refused")

(* An item.  The controller stops a stream after HighWater items, and one  *)
(* that is at its second or a later item long after the first.             *)
YieldItem(r) ==
  /\ request[r].st = "running"
  /\ IF request[r].aborted \/ ~CanSend(r) THEN Over(r, "dropped")
     ELSE \/ Refused(r)
          \/ \E st \in {"running", "paused"} :
               /\ st = "running" => request[r].items + 1 < HighWater
               /\ st = "paused" => request[r].items > 0 \/ HighWater = 1
               /\ request' = [request EXCEPT ![r].items = @ + 1, ![r].st = st]
               /\ UNCHANGED streams
  /\ UNCHANGED <<listening, conn, wire, buffer, gatewayHistory>>

(* A terminal response, or an error that the syscall throws.               *)
YieldLast(r) ==
  /\ request[r].st = "running"
  /\ IF request[r].aborted \/ ~CanSend(r) THEN Over(r, "dropped")
     ELSE Over(r, "answered") \/ Refused(r)
  /\ UNCHANGED <<listening, conn, wire, buffer, gatewayHistory>>

(* Clients of the gateway cannot ping: a stopped stream is aborted, or     *)
(* found to be stalled (ETIMEDOUT), at the latest by a timer.              *)
StallSilently(r) ==                        \* mutant: no response to a stall
  /\ request[r].st = "paused"
  /\ Over(r, "dropped")
  /\ UNCHANGED <<listening, conn, wire, buffer, gatewayHistory>>
Stall(r) ==
  /\ request[r].st = "paused"
  /\ IF request[r].aborted \/ ~CanSend(r) THEN Over(r, "dropped")
     ELSE Over(r, "answered") \/ Refused(r)
  /\ UNCHANGED <<listening, conn, wire, buffer, gatewayHistory>>

-----------------------------------------------------------------------------
Shutdown ==
  /\ listening /\ listening' = FALSE
  /\ conn' = [c \in Client |-> IF conn[c] = "open" THEN "closed" ELSE conn[c]]
  /\ UNCHANGED <<wire, buffer, request, streams, gatewayHistory>>

GatewayNext ==
  \/ \E c \in Client : Connect(c) \/ ClientSends(c) \/ Arrive(c) \/ EndOfClient(c)
  \/ \E r \in Request : YieldItem(r) \/ YieldLast(r) \/ Stall(r)
  \/ Shutdown

GatewaySpec == GatewayInit /\ [][GatewayNext]_gatewayVars

(* Bytes arrive, a socket that shutdown() has closed ends, timers fire, and *)
(* syscalls come to an end.                                                *)
GatewayFair ==
  /\ GatewaySpec
  /\ \A c \in Client : WF_gatewayVars(Arrive(c)) /\ WF_gatewayVars(conn[c] = "closed" /\ EndOfClient(c))
  /\ \A r \in Request : WF_gatewayVars(YieldLast(r)) /\ WF_gatewayVars(Stall(r))

-----------------------------------------------------------------------------
(* Properties.                                                             *)

(* However the bytes of a client are cut into chunks, its requests are     *)
(* begun in the order it wrote them, each once, and as soon as the last of *)
(* their bytes is there.                                                   *)
RequestsInOrder ==
  \A c \in Client : IsPrefix(begun[c], sent[c]) /\ Len(buffer[c]) < 2

(* INV-3: when a client has gone all its streams are cancelled, whatever   *)
(* else it had running and however its connection ended.  Of requests that *)
(* ran at the same time under the same id only the last is known.          *)
StreamsCancelled ==
  \A r \in Request :
    Active(r) /\ conn[request[r].client] = "gone" /\ r \notin shared => request[r].aborted

(* A call that has arrived gets a terminal response, however many items    *)
(* it yields, unless a response to it was refused or its client goes, as   *)
(* all do after a shutdown.                                                *)
RequestsAreAnswered ==
  \A r \in Request :
    Active(r) ~> \/ request[r].st \in {"answered", "refused"}
                 \/ \E c \in Client : request[r].client = c /\ conn[c] = "gone"
=============================================================================
