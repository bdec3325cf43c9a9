----------------------------- MODULE MessagePipe -----------------------------
(***************************************************************************)
(* A pipe between processes: MessageQueue and the two MessagePipe handles  *)
(* over it, with the streaming handle:recv calls that read from it.        *)
(*                                                                         *)
(* A sender's exec() runs to its answer in one go; a refused send (EAGAIN, *)
(* EPIPE, EBADF) changes nothing and is no step.  A reader is a generator: *)
(* doRecv() awaits the queue, and what it yields goes through the stream   *)
(* controller's wrap() to the client.  A cancelled stream only notices     *)
(* when its generator yields: until then its waiter keeps its place.       *)
(*                                                                         *)
(* Messages are numbered in the order in which send() accepts them.        *)
(***************************************************************************)
EXTENDS Integers, Sequences, FiniteSets

CONSTANTS
  Reader,       \* streaming receives that may be open at the same time
  HighWater,    \* MESSAGE_PIPE_HIGH_WATER
  MaxMessages,  \* bound: messages accepted
  MaxCancels    \* bound: streams cancelled

ASSUME PipeAssumption ==
  /\ IsFiniteSet(Reader)
  /\ HighWater \in Nat /\ MaxMessages \in Nat /\ MaxCancels \in Nat

NoMessage == 0
Eof == -1      \* the null that recv() resolves with at the end

VARIABLES
  (* MessageQueue *)
  messages, waiters, sendClosed, recvClosed,
  (* the readers *)
  pc,         \* idle; asleep: in waiters; woken: its promise has settled;
              \* held: it has yielded and waits for wrap() to ask for more
  hand,       \* what the promise of recv() has settled with
  cancelled,  \* the stream's abort signal, or its process is a zombie
  (* history *)
  accepted,   \* messages send() has taken
  got,        \* what each reader's clients have been sent
  dropped,    \* messages that a cancelled stream took
  discarded,  \* messages closeRecv() threw away
  cancels     \* streams cancelled

queueVars == <<messages, waiters, sendClosed, recvClosed>>
vars == <<queueVars, pc, hand, cancelled, accepted, got, dropped, discarded, cancels>>

Message == 1..MaxMessages

TypeOK ==
  /\ messages \in Seq(Message) /\ Len(messages) <= HighWater
  /\ waiters \in Seq(Reader)
  /\ sendClosed \in BOOLEAN /\ recvClosed \in BOOLEAN
  /\ pc \in [Reader -> {"idle", "asleep", "woken", "held"}]
  /\ hand \in [Reader -> Message \cup {NoMessage, Eof}]
  /\ cancelled \in [Reader -> BOOLEAN]
  /\ accepted \in 0..MaxMessages
  /\ got \in [Reader -> Seq(Message)]
  /\ dropped \subseteq Message /\ discarded \subseteq Message
  /\ cancels \in 0..MaxCancels

Init ==
  /\ messages = <<>> /\ waiters = <<>>
  /\ sendClosed = FALSE /\ recvClosed = FALSE
  /\ pc = [r \in Reader |-> "idle"]
  /\ hand = [r \in Reader |-> NoMessage]
  /\ cancelled = [r \in Reader |-> FALSE]
  /\ accepted = 0
  /\ got = [r \in Reader |-> <<>>]
  /\ dropped = {} /\ discarded = {} /\ cancels = 0

-----------------------------------------------------------------------------
(* MessageQueue.                                                           *)

Elements(s) == {s[i] : i \in DOMAIN s}

(* recv() of r settles with m.                                             *)
Settle(r, m) ==
  /\ pc' = [pc EXCEPT ![r] = "woken"]
  /\ hand' = [hand EXCEPT ![r] = m]

(* send() with a reader waiting: the first one gets the message.           *)
SendToWaiter ==
  /\ accepted < MaxMessages
  /\ ~recvClosed /\ ~sendClosed /\ waiters # <<>>
  /\ accepted' = accepted + 1
  /\ Settle(Head(waiters), accepted + 1)
  /\ waiters' = Tail(waiters)
  /\ UNCHANGED <<messages, sendClosed, recvClosed, cancelled, got, dropped, discarded, cancels>>

Full == Len(messages) >= HighWater

(* send() with nobody waiting: the message is queued, unless it is full.   *)
SendToQueue ==
  /\ accepted < MaxMessages
  /\ ~recvClosed /\ ~sendClosed /\ waiters = <<>> /\ ~Full
  /\ accepted' = accepted + 1
  /\ messages' = Append(messages, accepted + 1)
  /\ UNCHANGED <<waiters, sendClosed, recvClosed, pc, hand, cancelled, got, dropped, discarded, cancels>>

RecvPeeks(r) ==                         \* mutant: the message stays in the queue
  \/ /\ messages # <<>>
     /\ Settle(r, Head(messages))
     /\ UNCHANGED <<messages, waiters>>
  \/ /\ messages = <<>> /\ sendClosed
     /\ Settle(r, Eof)
     /\ UNCHANGED <<messages, waiters>>
  \/ /\ messages = <<>> /\ ~sendClosed
     /\ waiters' = Append(waiters, r)
     /\ pc' = [pc EXCEPT ![r] = "asleep"]
     /\ UNCHANGED <<messages, hand>>
RecvBlindly(r) ==                       \* mutant: the end is not looked at
  \/ /\ messages # <<>>
     /\ Settle(r, Head(messages))
     /\ messages' = Tail(messages) /\ UNCHANGED waiters
  \/ /\ messages = <<>>
     /\ waiters' = Append(waiters, r)
     /\ pc' = [pc EXCEPT ![r] = "asleep"] /\ UNCHANGED <<messages, hand>>

(* recv(): the oldest message, or the end, or a place among the waiters.   *)
(* It does not look at recvClosed.                                         *)
Recv(r) ==
  \/ /\ messages # <<>>
     /\ Settle(r, Head(messages))
     /\ messages' = Tail(messages)
     /\ UNCHANGED waiters
  \/ /\ messages = <<>> /\ sendClosed
     /\ Settle(r, Eof)
     /\ UNCHANGED <<messages, waiters>>
  \/ /\ messages = <<>> /\ ~sendClosed
     /\ waiters' = Append(waiters, r)
     /\ pc' = [pc EXCEPT ![r] = "asleep"]
     /\ UNCHANGED <<messages, hand>>

WakeFirst ==                            \* mutant: only one waiter is told
  /\ waiters' = <<>>
  /\ \/ waiters = <<>> /\ UNCHANGED <<pc, hand>>
     \/ waiters # <<>> /\ Settle(Head(waiters), Eof)
(* Both closes resolve every waiter with null.                             *)
WakeAll ==
  /\ pc' = [r \in Reader |-> IF r \in Elements(waiters) THEN "woken" ELSE pc[r]]
  /\ hand' = [r \in Reader |-> IF r \in Elements(waiters) THEN Eof ELSE hand[r]]
  /\ waiters' = <<>>

(* close() of the send end.                                                *)
CloseSend ==
  /\ ~sendClosed /\ sendClosed' = TRUE
  /\ WakeAll
  /\ UNCHANGED <<messages, recvClosed, cancelled, accepted, got, dropped, discarded, cancels>>

(* close() of the receive end: what is queued is thrown away.              *)
CloseRecv ==
  /\ ~recvClosed /\ recvClosed' = TRUE
  /\ discarded' = discarded \cup Elements(messages)
  /\ messages' = <<>>
  /\ WakeAll
  /\ UNCHANGED <<sendClosed, cancelled, accepted, got, dropped, cancels>>

-----------------------------------------------------------------------------
(* The readers.                                                            *)

(* The stream of r ends, and its generator with it.                        *)
Stop(r) ==
  /\ pc' = [pc EXCEPT ![r] = "idle"]
  /\ cancelled' = [cancelled EXCEPT ![r] = FALSE]

(* A handle:recv call: exec() turns it away on a closed handle.            *)
Open(r) ==
  /\ pc[r] = "idle" /\ ~recvClosed
  /\ Recv(r)
  /\ UNCHANGED <<sendClosed, recvClosed, cancelled, accepted, got, dropped, discarded, cancels>>

(* doRecv() goes on with null: it yields done.                             *)
WakeToEnd(r) ==
  /\ pc[r] = "woken" /\ hand[r] = Eof
  /\ Stop(r)
  /\ hand' = [hand EXCEPT ![r] = NoMessage]
  /\ UNCHANGED <<queueVars, accepted, got, dropped, discarded, cancels>>

(* doRecv() goes on with a message and yields it; wrap() passes it on to   *)
(* the client.  If it is a terminal response, execute() returns after it.  *)
WakeToMessage(r) ==
  /\ pc[r] = "woken" /\ hand[r] \in Message /\ ~cancelled[r]
  /\ got' = [got EXCEPT ![r] = Append(@, hand[r])]
  /\ hand' = [hand EXCEPT ![r] = NoMessage]
  /\ \/ pc' = [pc EXCEPT ![r] = "held"] /\ UNCHANGED cancelled
     \/ Stop(r)
  /\ UNCHANGED <<queueVars, accepted, dropped, discarded, cancels>>

WakeToNobodyGoesOn(r) ==                \* mutant: the cancelled stream reads on
  /\ pc[r] = "woken" /\ hand[r] \in Message /\ cancelled[r]
  /\ dropped' = dropped \cup {hand[r]}
  /\ hand' = [hand EXCEPT ![r] = NoMessage]
  /\ pc' = [pc EXCEPT ![r] = "held"]
  /\ UNCHANGED <<queueVars, cancelled, accepted, got, discarded, cancels>>
(* ... or drops it, because the stream was cancelled in the meantime.      *)
WakeToNobody(r) ==
  /\ pc[r] = "woken" /\ hand[r] \in Message /\ cancelled[r]
  /\ dropped' = dropped \cup {hand[r]}
  /\ hand' = [hand EXCEPT ![r] = NoMessage]
  /\ Stop(r)
  /\ UNCHANGED <<queueVars, accepted, got, discarded, cancels>>

(* wrap() asks for the next message, ...                                   *)
GoOn(r) ==
  /\ pc[r] = "held"
  /\ Recv(r)
  /\ UNCHANGED <<sendClosed, recvClosed, cancelled, accepted, got, dropped, discarded, cancels>>

(* ... or gives up at its pause: cancelled, or the client has stalled.     *)
GiveUp(r) ==
  /\ pc[r] = "held"
  /\ Stop(r)
  /\ UNCHANGED <<queueVars, hand, accepted, got, dropped, discarded, cancels>>

(* The client cancels the stream, is signalled or dies.                    *)
Cancel(r) ==
  /\ pc[r] # "idle" /\ ~cancelled[r] /\ cancels < MaxCancels
  /\ cancels' = cancels + 1
  /\ cancelled' = [cancelled EXCEPT ![r] = TRUE]
  /\ UNCHANGED <<queueVars, pc, hand, accepted, got, dropped, discarded>>

Wake(r) == WakeToEnd(r) \/ WakeToMessage(r) \/ WakeToNobody(r)

Next ==
  \/ SendToWaiter \/ SendToQueue \/ CloseSend \/ CloseRecv
  \/ \E r \in Reader : Open(r) \/ Wake(r) \/ GoOn(r) \/ GiveUp(r) \/ Cancel(r)

(* Settled promises are run by the event loop.  Nobody has to ask for      *)
(* more, to send or to close.                                              *)
Spec == Init /\ [][Next]_vars /\ \A r \in Reader : WF_vars(Wake(r))

-----------------------------------------------------------------------------
(* Properties.                                                             *)

Held == {hand[r] : r \in Reader} \cap Message
Given == UNION {Elements(got[r]) : r \in Reader}

(* Every message that send() accepted is in one place: queued, in the hand *)
(* of one reader, sent to one client, thrown away by the close of the      *)
(* receive end or taken by a stream that was cancelled.  No client sees    *)
(* two messages in another order than they were sent in.                   *)
DeliveredOnceInOrder ==
  /\ 1..accepted = Elements(messages) \cup Held \cup Given \cup dropped \cup discarded
  /\ Elements(messages) \cap (Held \cup Given \cup dropped \cup discarded) = {}
  /\ Held \cap (Given \cup dropped \cup discarded) = {}
  /\ Given \cap (dropped \cup discarded) = {}
  /\ dropped \cap discarded = {}
  /\ \A q, r \in Reader : q # r => /\ hand[q] = hand[r] => hand[q] \notin Message
                                   /\ Elements(got[q]) \cap Elements(got[r]) = {}
  /\ \A i, j \in DOMAIN messages : i < j => messages[i] < messages[j]
  /\ \A r \in Reader : \A i, j \in DOMAIN got[r] : i < j => got[r][i] < got[r][j]

(* A cancelled stream keeps its place among the waiters and takes one more *)
(* message, and no more than one.                                          *)
LossBounded ==
  Cardinality(dropped) + Cardinality({r \in Reader : cancelled[r]}) <= cancels

(* The pipe is a Conduit: bounded, first in first out, no reader asleep    *)
(* while there is a message or when the writer has gone.                   *)
Promise == INSTANCE Conduit WITH
  Capacity <- HighWater, entered <- accepted, left <- accepted - Len(messages),
  line <- waiters, answer <- hand, writerGone <- sendClosed, readerGone <- recvClosed
KeepsPromise == Promise!Spec

(* Once the send end is closed, no reader stays in the kernel: each one    *)
(* has ended or waits for its own client to ask for more.                  *)
EndIsSeen ==
  \A r \in Reader : sendClosed /\ pc[r] # "idle" ~> pc[r] \in {"idle", "held"}
=============================================================================
