------------------------- MODULE MessagePipeProofs --------------------------
(***************************************************************************)
(* Proofs about MessagePipe, for any readers, size of the queue and bounds.*)
(***************************************************************************)
EXTENDS MessagePipe, FiniteSetTheorems, TLAPS

(* Messages that have left the queue.                                      *)
Left == accepted - Len(messages)

(* A promise that has settled holds something, no other does.              *)
Settled == \A r \in Reader : (pc[r] = "woken") <=> (hand[r] # NoMessage)

(* The waiters are the readers asleep, each once; they wait for something  *)
(* that may come.                                                          *)
Queued ==
  /\ \A i, j \in DOMAIN waiters : waiters[i] = waiters[j] => i = j
  /\ \A i \in DOMAIN waiters : pc[waiters[i]] = "asleep"
  /\ \A r \in Reader : pc[r] = "asleep" => \E i \in DOMAIN waiters : waiters[i] = r
  /\ waiters # <<>> => messages = <<>> /\ ~sendClosed

(* The queue holds the last messages accepted.                             *)
Numbered ==
  /\ Len(messages) <= accepted
  /\ \A i \in DOMAIN messages : messages[i] = Left + i

QueueInv == TypeOK /\ Settled /\ Queued /\ Numbered

(* Every message that has left the queue has one fate.                     *)
InHand(m) == \E r \in Reader : hand[r] = m
Sent(m) == \E r \in Reader : m \in Elements(got[r])
Fates ==
  /\ \A r \in Reader : hand[r] # NoMessage /\ hand[r] # Eof => hand[r] \in 1..Left
  /\ \A r \in Reader : Elements(got[r]) \subseteq 1..Left
  /\ dropped \subseteq 1..Left /\ discarded \subseteq 1..Left
  /\ \A m \in 1..Left : InHand(m) \/ Sent(m) \/ m \in dropped \/ m \in discarded
  /\ \A m \in 1..Left : ~(InHand(m) /\ Sent(m)) /\ ~(InHand(m) /\ m \in dropped)
                        /\ ~(InHand(m) /\ m \in discarded) /\ ~(Sent(m) /\ m \in dropped)
                        /\ ~(Sent(m) /\ m \in discarded) /\ ~(m \in dropped /\ m \in discarded)
  /\ \A q, r \in Reader : hand[q] = hand[r] /\ hand[q] \in 1..Left => q = r
  /\ \A q, r \in Reader : \A m \in 1..Left :
       m \in Elements(got[q]) /\ m \in Elements(got[r]) => q = r

Ordered ==
  \A r \in Reader :
    /\ \A i, j \in DOMAIN got[r] : i < j => got[r][i] < got[r][j]
    /\ hand[r] # NoMessage /\ hand[r] # Eof => \A i \in DOMAIN got[r] : got[r][i] < hand[r]

-----------------------------------------------------------------------------
(* Sequences.                                                              *)

LEMMA Appended ==
  ASSUME NEW S, NEW q \in Seq(S), NEW t \in S
  PROVE  /\ Append(q, t) \in Seq(S)
         /\ Len(q) \in Nat /\ Len(Append(q, t)) = Len(q) + 1
         /\ DOMAIN Append(q, t) = 1..(Len(q) + 1)
         /\ DOMAIN q = 1..Len(q)
         /\ \A i \in 1..Len(q) : Append(q, t)[i] = q[i]
         /\ Append(q, t)[Len(q) + 1] = t
         /\ Append(q, t) # <<>>
  OBVIOUS

LEMMA Shortened ==
  ASSUME NEW S, NEW q \in Seq(S), q # <<>>
  PROVE  /\ Tail(q) \in Seq(S)
         /\ Len(q) \in Nat \ {0} /\ DOMAIN q = 1..Len(q)
         /\ Len(Tail(q)) = Len(q) - 1
         /\ Head(q) = q[1] /\ q[1] \in S
         /\ DOMAIN Tail(q) = 1..(Len(q) - 1)
         /\ \A i \in 1..(Len(q) - 1) : Tail(q)[i] = q[i + 1]
  OBVIOUS

LEMMA Empty ==
  ASSUME NEW S
  PROVE  <<>> \in Seq(S) /\ Len(<<>>) = 0 /\ DOMAIN <<>> = {}
  OBVIOUS

LEMMA Listed ==
  ASSUME NEW S, NEW q \in Seq(S)
  PROVE  /\ Len(q) \in Nat /\ DOMAIN q = 1..Len(q)
         /\ Len(q) = 0 <=> q = <<>>
         /\ \A i \in 1..Len(q) : q[i] \in S
  OBVIOUS

-----------------------------------------------------------------------------
(* Types.                                                                  *)

LEMMA RecvTypes ==
  ASSUME TypeOK, NEW r \in Reader, Recv(r)
  PROVE  /\ messages' \in Seq(Message) /\ Len(messages') <= HighWater
         /\ waiters' \in Seq(Reader)
         /\ pc' \in [Reader -> {"idle", "asleep", "woken", "held"}]
         /\ hand' \in [Reader -> Message \cup {NoMessage, Eof}]
<1> USE DEF TypeOK
<1>1. CASE messages # <<>> /\ Settle(r, Head(messages)) /\ messages' = Tail(messages) /\ UNCHANGED waiters
  <2>1. /\ Tail(messages) \in Seq(Message) /\ Head(messages) \in Message
        /\ Len(Tail(messages)) <= Len(messages) /\ Len(messages) \in Nat /\ Len(Tail(messages)) \in Nat
    BY <1>1, Shortened
  <2>2. Len(messages') <= HighWater
    BY <2>1, <1>1, PipeAssumption
  <2> QED
    BY <2>1, <2>2, <1>1 DEF Settle
<1>2. CASE messages = <<>> /\ sendClosed /\ Settle(r, Eof) /\ UNCHANGED <<messages, waiters>>
  BY <1>2 DEF Settle
<1>3. CASE /\ messages = <<>> /\ ~sendClosed /\ waiters' = Append(waiters, r)
           /\ pc' = [pc EXCEPT ![r] = "asleep"] /\ UNCHANGED <<messages, hand>>
  BY <1>3, Appended
<1> QED
  BY <1>1, <1>2, <1>3 DEF Recv

LEMMA TypesInit == Init => TypeOK
<1> SUFFICES ASSUME Init PROVE TypeOK
  OBVIOUS
<1> USE DEF Init
<1>1. /\ messages \in Seq(Message) /\ Len(messages) <= HighWater
      /\ waiters \in Seq(Reader) /\ got \in [Reader -> Seq(Message)]
  BY PipeAssumption, Empty
<1>2. sendClosed \in BOOLEAN /\ recvClosed \in BOOLEAN /\ cancelled \in [Reader -> BOOLEAN]
  BY Zenon
<1>3. /\ pc \in [Reader -> {"idle", "asleep", "woken", "held"}]
      /\ hand \in [Reader -> Message \cup {NoMessage, Eof}]
      /\ accepted \in 0..MaxMessages /\ cancels \in 0..MaxCancels
      /\ dropped \subseteq Message /\ discarded \subseteq Message
  BY PipeAssumption
<1> QED
  BY <1>1, <1>2, <1>3 DEF TypeOK

LEMMA StopTypes ==
  ASSUME TypeOK, NEW r \in Reader, Stop(r)
  PROVE  /\ pc' \in [Reader -> {"idle", "asleep", "woken", "held"}]
         /\ cancelled' \in [Reader -> BOOLEAN]
<1>1. cancelled' \in [Reader -> BOOLEAN]
  BY Zenon DEF Stop, TypeOK
<1>2. pc' \in [Reader -> {"idle", "asleep", "woken", "held"}]
  BY DEF Stop, TypeOK
<1> QED
  BY <1>1, <1>2

LEMMA WakeAllTypes ==
  ASSUME TypeOK, WakeAll
  PROVE  /\ waiters' \in Seq(Reader)
         /\ pc' \in [Reader -> {"idle", "asleep", "woken", "held"}]
         /\ hand' \in [Reader -> Message \cup {NoMessage, Eof}]
  BY Empty DEF WakeAll, TypeOK

LEMMA TypesStep == TypeOK /\ [Next]_vars => TypeOK'
<1> SUFFICES ASSUME TypeOK, [Next]_vars PROVE TypeOK'
  OBVIOUS
<1> USE DEF TypeOK
<1>1. CASE SendToWaiter
  <2>1. Tail(waiters) \in Seq(Reader) /\ Head(waiters) \in Reader
    BY <1>1, Shortened DEF SendToWaiter
  <2>2. accepted + 1 \in Message /\ accepted + 1 \in 0..MaxMessages
    BY <1>1, PipeAssumption DEF SendToWaiter, Message
  <2> QED
    BY <1>1, <2>1, <2>2 DEF SendToWaiter, Settle
<1>2. CASE SendToQueue
  <2>1. accepted + 1 \in Message /\ accepted + 1 \in 0..MaxMessages
    BY <1>2, PipeAssumption DEF SendToQueue, Message
  <2>2. /\ Append(messages, accepted + 1) \in Seq(Message)
        /\ Len(Append(messages, accepted + 1)) = Len(messages) + 1 /\ Len(messages) \in Nat
    BY <2>1, Appended
  <2>3. Len(messages') <= HighWater
    BY <2>2, <1>2, PipeAssumption DEF SendToQueue, Full
  <2> QED
    BY <1>2, <2>1, <2>2, <2>3 DEF SendToQueue
<1>3. CASE CloseSend
  <2>1. sendClosed' \in BOOLEAN
    BY <1>3 DEF CloseSend
  <2> QED
    BY <1>3, <2>1, WakeAllTypes DEF CloseSend
<1>4. CASE CloseRecv
  <2>1. recvClosed' \in BOOLEAN
    BY <1>4 DEF CloseRecv
  <2>2. Elements(messages) \subseteq Message
    BY Listed DEF Elements
  <2>3. messages' \in Seq(Message) /\ Len(messages') <= HighWater
    BY <1>4, Empty, PipeAssumption DEF CloseRecv
  <2> QED
    BY <1>4, <2>1, <2>2, <2>3, WakeAllTypes DEF CloseRecv
<1>5. ASSUME NEW r \in Reader, Open(r) PROVE TypeOK'
  BY <1>5, RecvTypes DEF Open
<1>6. ASSUME NEW r \in Reader, WakeToEnd(r) PROVE TypeOK'
  BY <1>6, StopTypes DEF WakeToEnd, queueVars
<1>7. ASSUME NEW r \in Reader, WakeToMessage(r) PROVE TypeOK'
  <2>1. got' \in [Reader -> Seq(Message)]
    <3>1. Append(got[r], hand[r]) \in Seq(Message)
      BY <1>7, Appended DEF WakeToMessage
    <3> QED
      BY <3>1, <1>7 DEF WakeToMessage
  <2>2. hand' \in [Reader -> Message \cup {NoMessage, Eof}]
    BY <1>7 DEF WakeToMessage
  <2>3. CASE Stop(r)
    BY <1>7, <2>1, <2>2, <2>3, StopTypes DEF WakeToMessage, queueVars
  <2>4. CASE pc' = [pc EXCEPT ![r] = "held"] /\ UNCHANGED cancelled
    BY <1>7, <2>1, <2>2, <2>4 DEF WakeToMessage, queueVars
  <2> QED
    BY <1>7, <2>3, <2>4 DEF WakeToMessage
<1>8. ASSUME NEW r \in Reader, WakeToNobody(r) PROVE TypeOK'
  BY <1>8, StopTypes DEF WakeToNobody, queueVars
<1>9. ASSUME NEW r \in Reader, GoOn(r) PROVE TypeOK'
  BY <1>9, RecvTypes DEF GoOn
<1>10. ASSUME NEW r \in Reader, GiveUp(r) PROVE TypeOK'
  BY <1>10, StopTypes DEF GiveUp, queueVars
<1>11. ASSUME NEW r \in Reader, Cancel(r) PROVE TypeOK'
  <2>1. cancelled' \in [Reader -> BOOLEAN]
    BY <1>11, Zenon DEF Cancel
  <2>2. cancels' \in 0..MaxCancels
    BY <1>11, PipeAssumption DEF Cancel
  <2> QED
    BY <1>11, <2>1, <2>2 DEF Cancel, queueVars
<1>12. CASE UNCHANGED vars
  BY <1>12 DEF vars, queueVars
<1> QED
  BY <1>1, <1>2, <1>3, <1>4, <1>5, <1>6, <1>7, <1>8, <1>9, <1>10, <1>11, <1>12 DEF Next, Wake

(* Every variable of the pipe keeps its type, and the queue its bound.     *)
THEOREM TypeCorrect == Spec => []TypeOK
  BY TypesInit, TypesStep, PTL DEF Spec

-----------------------------------------------------------------------------
(* The queue and its waiters.                                              *)

LEMMA NoWaiters ==
  ASSUME waiters' = <<>>, \A r \in Reader : pc'[r] # "asleep"
  PROVE  Queued'
  BY Empty DEF Queued

LEMMA SameWaiters ==
  ASSUME Queued, UNCHANGED <<waiters, messages, sendClosed>>,
         \A r \in Reader : pc'[r] = "asleep" <=> pc[r] = "asleep",
         waiters \in Seq(Reader)
  PROVE  Queued'
<1>1. \A i \in DOMAIN waiters : waiters[i] \in Reader
  BY Listed
<1> QED
  BY <1>1 DEF Queued

LEMMA RecvQueue ==
  ASSUME QueueInv, NEW r \in Reader, pc[r] \in {"idle", "held"}, Recv(r),
         UNCHANGED <<sendClosed, accepted>>
  PROVE  Settled' /\ Queued' /\ Numbered'
<1> USE DEF QueueInv
<1>0. hand[r] = NoMessage
  BY DEF Settled
<1>1. CASE messages # <<>> /\ Settle(r, Head(messages)) /\ messages' = Tail(messages) /\ UNCHANGED waiters
  <2>1. /\ Len(messages) \in Nat \ {0} /\ Len(messages') = Len(messages) - 1
        /\ DOMAIN messages = 1..Len(messages) /\ DOMAIN messages' = 1..(Len(messages) - 1)
        /\ \A i \in 1..(Len(messages) - 1) : messages'[i] = messages[i + 1]
        /\ Head(messages) \in Message
    BY <1>1, Shortened DEF TypeOK
  <2>2. Head(messages) # NoMessage
    BY <2>1 DEF Message, NoMessage
  <2>3. Settled'
    BY <1>1, <2>2 DEF Settle, Settled, TypeOK
  <2>4. waiters = <<>>
    BY <1>1 DEF Queued
  <2>5. \A q \in Reader : pc'[q] # "asleep"
    BY <1>1, <2>4, Empty DEF Settle, Queued, TypeOK
  <2>6. Queued'
    BY <1>1, <2>4, <2>5, NoWaiters
  <2>7. accepted \in Int
    BY DEF TypeOK
  <2>8. Len(messages') <= accepted'
    BY <2>1, <2>7 DEF Numbered
  <2>9. \A i \in 1..(Len(messages) - 1) : i + 1 \in DOMAIN messages
    BY <2>1
  <2>10. \A i \in 1..(Len(messages) - 1) : messages'[i] = accepted - Len(messages) + (i + 1)
    BY <2>1, <2>9 DEF Numbered, Left
  <2>11. \A i \in DOMAIN messages' : messages'[i] = (accepted' - Len(messages')) + i
    BY <2>1, <2>7, <2>10
  <2> QED
    BY <2>3, <2>6, <2>8, <2>11 DEF Numbered, Left
<1>2. CASE messages = <<>> /\ sendClosed /\ Settle(r, Eof) /\ UNCHANGED <<messages, waiters>>
  <2>1. Settled'
    BY <1>2 DEF Settle, Settled, TypeOK, Eof, NoMessage
  <2>2. \A q \in Reader : pc'[q] = "asleep" <=> pc[q] = "asleep"
    BY <1>2 DEF Settle, TypeOK
  <2>3. Queued'
    BY <2>2, <1>2, SameWaiters DEF TypeOK
  <2> QED
    BY <2>1, <2>3, <1>2 DEF Numbered, Left
<1>3. CASE /\ messages = <<>> /\ ~sendClosed /\ waiters' = Append(waiters, r)
           /\ pc' = [pc EXCEPT ![r] = "asleep"] /\ UNCHANGED <<messages, hand>>
  <2>1. Settled'
    BY <1>3 DEF Settled, TypeOK
  <2>2. /\ DOMAIN waiters' = 1..(Len(waiters) + 1) /\ Len(waiters) \in Nat
        /\ DOMAIN waiters = 1..Len(waiters)
        /\ \A i \in 1..Len(waiters) : waiters'[i] = waiters[i]
        /\ waiters'[Len(waiters) + 1] = r
    BY <1>3, Appended DEF TypeOK
  <2>3. \A i \in 1..Len(waiters) : waiters[i] # r /\ waiters[i] \in Reader
    BY <2>2, Listed DEF Queued, TypeOK
  <2>4. \A i \in DOMAIN waiters' : i \in 1..Len(waiters) \/ i = Len(waiters) + 1
    BY <2>2
  <2>5. \A i, j \in DOMAIN waiters' : waiters'[i] = waiters'[j] => i = j
    BY <2>2, <2>3, <2>4 DEF Queued
  <2>6. \A i \in DOMAIN waiters' : pc'[waiters'[i]] = "asleep"
    BY <1>3, <2>2, <2>3, <2>4 DEF Queued, TypeOK
  <2>7. \A q \in Reader : pc'[q] = "asleep" => \E i \in DOMAIN waiters' : waiters'[i] = q
    <3> TAKE q \in Reader
    <3>1. CASE q = r
      BY <3>1, <2>2
    <3>2. CASE q # r
      <4>1. pc'[q] = pc[q]
        BY <3>2, <1>3 DEF TypeOK
      <4>2. pc[q] = "asleep" => \E i \in DOMAIN waiters : waiters[i] = q
        BY DEF Queued
      <4>3. DOMAIN waiters \subseteq DOMAIN waiters'
        BY <2>2
      <4> QED
        BY <4>1, <4>2, <4>3, <2>2
    <3> QED
      BY <3>1, <3>2
  <2>8. Queued'
    BY <2>5, <2>6, <2>7, <1>3 DEF Queued
  <2> QED
    BY <2>1, <2>8, <1>3 DEF Numbered, Left
<1> QED
  BY <1>1, <1>2, <1>3 DEF Recv

LEMMA WakeAllQueue ==
  ASSUME QueueInv, WakeAll
  PROVE  Settled' /\ Queued'
<1> USE DEF QueueInv
<1>1. \A r \in Reader : r \in Elements(waiters) <=> pc[r] = "asleep"
  BY Listed DEF Elements, Queued, TypeOK
<1>2. Settled'
  BY <1>1 DEF WakeAll, Settled, Eof, NoMessage
<1>3. \A r \in Reader : pc'[r] # "asleep"
  BY <1>1 DEF WakeAll
<1> QED
  BY <1>2, <1>3, NoWaiters DEF WakeAll

LEMMA QueueInit == Init => QueueInv
<1> SUFFICES ASSUME Init PROVE QueueInv
  OBVIOUS
<1>1. Settled /\ Queued /\ Numbered
  BY Empty, PipeAssumption DEF Init, Settled, Queued, Numbered, Left
<1> QED
  BY <1>1, TypesInit DEF QueueInv

LEMMA QueueStep == QueueInv /\ [Next]_vars => QueueInv'
<1> SUFFICES ASSUME QueueInv, [Next]_vars PROVE Settled' /\ Queued' /\ Numbered'
  BY TypesStep DEF QueueInv
<1> USE DEF QueueInv
<1>1. CASE SendToWaiter
  <2>1. /\ Len(waiters) \in Nat \ {0} /\ DOMAIN waiters = 1..Len(waiters)
        /\ Head(waiters) = waiters[1] /\ waiters[1] \in Reader
        /\ DOMAIN waiters' = 1..(Len(waiters) - 1)
        /\ \A i \in 1..(Len(waiters) - 1) : waiters'[i] = waiters[i + 1]
    BY <1>1, Shortened DEF SendToWaiter, TypeOK
  <2>2. messages = <<>> /\ ~sendClosed
    BY <1>1 DEF SendToWaiter, Queued
  <2>3. Settled'
    BY <1>1, <2>1 DEF SendToWaiter, Settle, Settled, TypeOK, NoMessage
  <2>4. \A i \in 1..(Len(waiters) - 1) :
          i + 1 \in DOMAIN waiters /\ 1 \in DOMAIN waiters /\ i + 1 # 1 /\ waiters[i + 1] \in Reader
    BY <2>1, Listed DEF TypeOK
  <2>5. \A i, j \in DOMAIN waiters' : waiters'[i] = waiters'[j] => i = j
    <3> TAKE i, j \in DOMAIN waiters'
    <3>1. i + 1 = j + 1 => i = j
      BY <2>1
    <3> QED
      BY <3>1, <2>1, <2>4 DEF Queued
  <2>6. \A i \in DOMAIN waiters' : pc'[waiters'[i]] = "asleep"
    <3> TAKE i \in DOMAIN waiters'
    <3>1. waiters'[i] = waiters[i + 1] /\ waiters[i + 1] # waiters[1] /\ pc[waiters[i + 1]] = "asleep"
      BY <2>1, <2>4 DEF Queued
    <3> QED
      BY <3>1, <2>1, <1>1 DEF SendToWaiter, Settle, TypeOK
  <2>7. \A q \in Reader : pc'[q] = "asleep" => \E i \in DOMAIN waiters' : waiters'[i] = q
    <3> TAKE q \in Reader
    <3> HAVE pc'[q] = "asleep"
    <3>1. q # waiters[1] /\ pc[q] = "asleep"
      BY <2>1, <1>1 DEF SendToWaiter, Settle, TypeOK
    <3>2. PICK i \in DOMAIN waiters : waiters[i] = q
      BY <3>1 DEF Queued
    <3>3. i # 1 /\ i \in 1..Len(waiters)
      BY <3>1, <3>2, <2>1
    <3>4. i - 1 \in 1..(Len(waiters) - 1) /\ (i - 1) + 1 = i
      BY <3>3, <2>1
    <3> QED
      BY <3>2, <3>4, <2>1
  <2>8. messages' = <<>> /\ ~sendClosed'
    BY <1>1, <2>2 DEF SendToWaiter
  <2>9. Queued'
    BY <2>5, <2>6, <2>7, <2>8 DEF Queued
  <2>10. Numbered'
    BY <1>1, <2>8, Empty DEF SendToWaiter, Numbered, TypeOK
  <2> QED
    BY <2>3, <2>9, <2>10
<1>2. CASE SendToQueue
  <2>1. /\ Len(messages) \in Nat /\ Len(messages') = Len(messages) + 1
        /\ DOMAIN messages = 1..Len(messages) /\ DOMAIN messages' = 1..(Len(messages) + 1)
        /\ \A i \in 1..Len(messages) : messages'[i] = messages[i]
        /\ messages'[Len(messages) + 1] = accepted + 1
    <3>1. accepted + 1 \in Message
      BY <1>2, PipeAssumption DEF SendToQueue, Message, TypeOK
    <3> QED
      BY <3>1, <1>2, Appended DEF SendToQueue, TypeOK
  <2>2. accepted \in Nat /\ accepted' = accepted + 1
    BY <1>2, PipeAssumption DEF SendToQueue, TypeOK
  <2>3. Numbered'
    <3>1. Len(messages') <= accepted'
      BY <2>1, <2>2 DEF Numbered
    <3>2. ASSUME NEW i \in DOMAIN messages' PROVE messages'[i] = (accepted' - Len(messages')) + i
      <4>1. CASE i \in 1..Len(messages)
        <5>1. messages[i] = (accepted - Len(messages)) + i
          BY <4>1, <2>1 DEF Numbered, Left
        <5> QED
          BY <5>1, <4>1, <2>1, <2>2
      <4>2. CASE i = Len(messages) + 1
        BY <4>2, <2>1, <2>2
      <4> QED
        BY <4>1, <4>2, <2>1
    <3> QED
      BY <3>1, <3>2 DEF Numbered, Left
  <2>4. Settled' /\ Queued'
    BY <1>2, Empty DEF SendToQueue, Settled, Queued
  <2> QED
    BY <2>3, <2>4
<1>3. CASE CloseSend
  <2>1. Numbered'
    BY <1>3 DEF CloseSend, Numbered, Left
  <2> QED
    BY <1>3, <2>1, WakeAllQueue DEF CloseSend
<1>4. CASE CloseRecv
  <2>1. Numbered'
    BY <1>4, Empty, PipeAssumption DEF CloseRecv, Numbered, TypeOK
  <2> QED
    BY <1>4, <2>1, WakeAllQueue DEF CloseRecv
<1>5. ASSUME NEW r \in Reader, Open(r) PROVE Settled' /\ Queued' /\ Numbered'
  BY <1>5, RecvQueue DEF Open
<1>9. ASSUME NEW r \in Reader, GoOn(r) PROVE Settled' /\ Queued' /\ Numbered'
  BY <1>9, RecvQueue DEF GoOn
<1>6. ASSUME NEW r \in Reader, WakeToEnd(r) \/ WakeToMessage(r) \/ WakeToNobody(r) \/ GiveUp(r) \/ Cancel(r)
      PROVE  Settled' /\ Queued' /\ Numbered'
  <2>1. UNCHANGED <<messages, waiters, sendClosed, accepted>>
    BY <1>6 DEF WakeToEnd, WakeToMessage, WakeToNobody, GiveUp, Cancel, queueVars
  <2>2. Settled'
    BY <1>6 DEF WakeToEnd, WakeToMessage, WakeToNobody, GiveUp, Cancel, Stop, Settled, TypeOK,
                queueVars
  <2>3. \A q \in Reader : pc'[q] = "asleep" <=> pc[q] = "asleep"
    BY <1>6 DEF WakeToEnd, WakeToMessage, WakeToNobody, GiveUp, Cancel, Stop, TypeOK
  <2>4. Queued'
    BY <2>1, <2>3, SameWaiters DEF TypeOK
  <2>5. Numbered'
    BY <2>1 DEF Numbered, Left
  <2> QED
    BY <2>2, <2>4, <2>5
<1>12. CASE UNCHANGED vars
  <2>1. UNCHANGED <<messages, waiters, sendClosed, accepted, pc, hand>>
    BY <1>12 DEF vars, queueVars
  <2>2. Queued'
    BY <2>1, SameWaiters DEF TypeOK
  <2> QED
    BY <2>1, <2>2 DEF Settled, Numbered, Left
<1> QED
  BY <1>1, <1>2, <1>3, <1>4, <1>5, <1>6, <1>9, <1>12 DEF Next, Wake

-----------------------------------------------------------------------------
(* What a step does to the messages that have left the queue.              *)

SameFates ==
  /\ Left' = Left /\ UNCHANGED <<got, dropped, discarded>>
  /\ \A r \in Reader : \/ hand'[r] = hand[r]
                       \/ hand[r] \in {NoMessage, Eof} /\ hand'[r] \in {NoMessage, Eof}
Taken(r) ==
  /\ Left' = Left + 1 /\ UNCHANGED <<got, dropped, discarded>>
  /\ hand[r] = NoMessage /\ hand' = [hand EXCEPT ![r] = Left + 1]
Passed(r) ==
  /\ Left' = Left /\ UNCHANGED <<dropped, discarded>>
  /\ hand[r] \in Message /\ hand' = [hand EXCEPT ![r] = NoMessage]
  /\ got' = [got EXCEPT ![r] = Append(got[r], hand[r])]
Lost(r) ==
  /\ Left' = Left /\ UNCHANGED <<got, discarded>>
  /\ hand[r] \in Message /\ hand' = [hand EXCEPT ![r] = NoMessage]
  /\ dropped' = dropped \cup {hand[r]}
Thrown ==
  /\ Left' = accepted /\ UNCHANGED <<got, dropped>>
  /\ discarded' = discarded \cup (Left + 1)..accepted
  /\ \A r \in Reader : \/ hand'[r] = hand[r]
                       \/ hand[r] \in {NoMessage, Eof} /\ hand'[r] \in {NoMessage, Eof}

LEMMA RecvEffect ==
  ASSUME QueueInv, NEW r \in Reader, pc[r] \in {"idle", "held"}, Recv(r),
         UNCHANGED <<accepted, got, dropped, discarded>>
  PROVE  SameFates \/ Taken(r)
<1> USE DEF QueueInv
<1>0. hand[r] = NoMessage
  BY DEF Settled
<1>1. CASE messages # <<>> /\ Settle(r, Head(messages)) /\ messages' = Tail(messages) /\ UNCHANGED waiters
  <2>1. /\ Len(messages) \in Nat \ {0} /\ Len(messages') = Len(messages) - 1
        /\ DOMAIN messages = 1..Len(messages) /\ Head(messages) = messages[1]
    BY <1>1, Shortened DEF TypeOK
  <2>2. Head(messages) = Left + 1
    BY <2>1 DEF Numbered
  <2>3. Left' = Left + 1
    BY <2>1 DEF Left, TypeOK
  <2> QED
    BY <1>0, <1>1, <2>2, <2>3 DEF Taken, Settle
<1>2. CASE messages = <<>> /\ sendClosed /\ Settle(r, Eof) /\ UNCHANGED <<messages, waiters>>
  BY <1>0, <1>2 DEF SameFates, Settle, Left, TypeOK
<1>3. CASE /\ messages = <<>> /\ ~sendClosed /\ waiters' = Append(waiters, r)
           /\ pc' = [pc EXCEPT ![r] = "asleep"] /\ UNCHANGED <<messages, hand>>
  BY <1>3 DEF SameFates, Left
<1> QED
  BY <1>1, <1>2, <1>3 DEF Recv

LEMMA WakeAllEffect ==
  ASSUME QueueInv, WakeAll
  PROVE  \A r \in Reader : \/ hand'[r] = hand[r]
                           \/ hand[r] \in {NoMessage, Eof} /\ hand'[r] \in {NoMessage, Eof}
<1>1. \A r \in Reader : r \in Elements(waiters) => pc[r] = "asleep"
  BY DEF Elements, Queued, QueueInv
<1> QED
  BY <1>1 DEF WakeAll, Settled, QueueInv

LEMMA Effects ==
  ASSUME QueueInv, [Next]_vars
  PROVE  \/ SameFates \/ Thrown
         \/ \E r \in Reader : Taken(r) \/ Passed(r) \/ Lost(r)
<1> USE DEF QueueInv
<1>1. CASE SendToWaiter
  <2>1. messages = <<>>
    BY <1>1 DEF SendToWaiter, Queued
  <2>2. Head(waiters) \in Reader /\ Head(waiters) = waiters[1] /\ 1 \in DOMAIN waiters
    BY <1>1, Shortened DEF SendToWaiter, TypeOK
  <2>3. hand[Head(waiters)] = NoMessage
    BY <2>2 DEF Queued, Settled
  <2>4. Left = accepted /\ Left' = accepted + 1
    BY <1>1, <2>1, Empty DEF SendToWaiter, Left, TypeOK
  <2>5. Taken(Head(waiters))
    BY <1>1, <2>3, <2>4 DEF SendToWaiter, Settle, Taken
  <2> QED
    BY <2>2, <2>5
<1>2. CASE SendToQueue
  <2>1. accepted + 1 \in Message
    BY <1>2, PipeAssumption DEF SendToQueue, Message, TypeOK
  <2>2. Len(messages') = Len(messages) + 1 /\ Len(messages) \in Nat
    BY <1>2, <2>1, Appended DEF SendToQueue, TypeOK
  <2>3. Left' = Left
    BY <1>2, <2>2 DEF SendToQueue, Left, TypeOK
  <2> QED
    BY <1>2, <2>3 DEF SendToQueue, SameFates
<1>3. CASE CloseSend
  BY <1>3, WakeAllEffect DEF CloseSend, SameFates, Left
<1>4. CASE CloseRecv
  <2>1. Left' = accepted
    BY <1>4, Empty DEF CloseRecv, Left, TypeOK
  <2>2. /\ Len(messages) \in Nat /\ DOMAIN messages = 1..Len(messages)
        /\ accepted \in Int /\ Left = accepted - Len(messages)
    BY Listed DEF TypeOK, Left
  <2>3. ASSUME NEW m PROVE m \in Elements(messages) <=> m \in (Left + 1)..accepted
    <3>1. ASSUME m \in Elements(messages) PROVE m \in (Left + 1)..accepted
      <4>1. PICK i \in 1..Len(messages) : m = messages[i]
        BY <3>1, <2>2 DEF Elements
      <4>2. m = Left + i
        BY <4>1, <2>2 DEF Numbered
      <4> QED
        BY <4>1, <4>2, <2>2
    <3>2. ASSUME m \in (Left + 1)..accepted PROVE m \in Elements(messages)
      <4>1. m - Left \in 1..Len(messages) /\ Left + (m - Left) = m
        BY <3>2, <2>2
      <4>2. messages[m - Left] = m
        BY <4>1, <2>2 DEF Numbered
      <4> QED
        BY <4>1, <4>2, <2>2 DEF Elements
    <3> QED
      BY <3>1, <3>2
  <2>4. Elements(messages) = (Left + 1)..accepted
    BY <2>3
  <2> QED
    BY <1>4, <2>1, <2>4, WakeAllEffect DEF CloseRecv, Thrown
<1>5. ASSUME NEW r \in Reader, Open(r) PROVE SameFates \/ Taken(r)
  BY <1>5, RecvEffect DEF Open
<1>6. ASSUME NEW r \in Reader, WakeToEnd(r) PROVE SameFates
  BY <1>6 DEF WakeToEnd, SameFates, Left, queueVars, TypeOK
<1>7. ASSUME NEW r \in Reader, WakeToMessage(r) PROVE Passed(r)
  BY <1>7 DEF WakeToMessage, Passed, Left, queueVars
<1>8. ASSUME NEW r \in Reader, WakeToNobody(r) PROVE Lost(r)
  BY <1>8 DEF WakeToNobody, Lost, Left, queueVars
<1>9. ASSUME NEW r \in Reader, GoOn(r) PROVE SameFates \/ Taken(r)
  BY <1>9, RecvEffect DEF GoOn
<1>10. ASSUME NEW r \in Reader, GiveUp(r) \/ Cancel(r) PROVE SameFates
  BY <1>10 DEF GiveUp, Cancel, SameFates, Left, queueVars
<1>12. CASE UNCHANGED vars
  BY <1>12 DEF vars, queueVars, SameFates, Left
<1> QED
  BY <1>1, <1>2, <1>3, <1>4, <1>5, <1>6, <1>7, <1>8, <1>9, <1>10, <1>12 DEF Next, Wake

-----------------------------------------------------------------------------
(* Every message has one fate.                                             *)

LEMMA LeftIs == QueueInv => Left \in Nat /\ Left <= accepted /\ accepted \in Nat
  BY Listed DEF QueueInv, TypeOK, Numbered, Left

LEMMA SentBecomes ==
  ASSUME QueueInv, NEW r \in Reader, Passed(r)
  PROVE  \A q \in Reader : Elements(got'[q]) = IF q = r THEN Elements(got[r]) \cup {hand[r]}
                                                        ELSE Elements(got[q])
<1>1. /\ DOMAIN Append(got[r], hand[r]) = 1..(Len(got[r]) + 1) /\ Len(got[r]) \in Nat
      /\ DOMAIN got[r] = 1..Len(got[r])
      /\ \A i \in 1..Len(got[r]) : Append(got[r], hand[r])[i] = got[r][i]
      /\ Append(got[r], hand[r])[Len(got[r]) + 1] = hand[r]
  BY Appended DEF Passed, QueueInv, TypeOK
<1>2. Elements(Append(got[r], hand[r])) = Elements(got[r]) \cup {hand[r]}
  <2>1. ASSUME NEW m \in Elements(Append(got[r], hand[r])) PROVE m \in Elements(got[r]) \cup {hand[r]}
    <3>1. PICK i \in 1..(Len(got[r]) + 1) : m = Append(got[r], hand[r])[i]
      BY <1>1 DEF Elements
    <3>2. i \in 1..Len(got[r]) \/ i = Len(got[r]) + 1
      BY <1>1
    <3> QED
      BY <1>1, <3>1, <3>2 DEF Elements
  <2>2. ASSUME NEW m \in Elements(got[r]) PROVE m \in Elements(Append(got[r], hand[r]))
    <3>1. PICK i \in 1..Len(got[r]) : m = got[r][i]
      BY <1>1 DEF Elements
    <3>2. i \in 1..(Len(got[r]) + 1)
      BY <1>1
    <3> QED
      BY <1>1, <3>1, <3>2 DEF Elements
  <2>3. hand[r] \in Elements(Append(got[r], hand[r]))
    <3>1. Len(got[r]) + 1 \in 1..(Len(got[r]) + 1)
      BY <1>1
    <3> QED
      BY <1>1, <3>1 DEF Elements
  <2> QED
    BY <2>1, <2>2, <2>3
<1>3. \A q \in Reader : got'[q] = IF q = r THEN Append(got[r], hand[r]) ELSE got[q]
  BY DEF Passed, QueueInv, TypeOK
<1> QED
  BY <1>2, <1>3

LEMMA FatesSame == QueueInv /\ Fates /\ SameFates => Fates'
<1> SUFFICES ASSUME QueueInv, Fates, SameFates PROVE Fates'
  OBVIOUS
<1>1. Left' = Left /\ got' = got /\ dropped' = dropped /\ discarded' = discarded /\ Left \in Nat
  BY LeftIs DEF SameFates
<1>2. \A m \in 1..Left : \A r \in Reader : hand'[r] = m <=> hand[r] = m
  BY <1>1 DEF SameFates, NoMessage, Eof
<1>3. \A m \in 1..Left : (InHand(m)' <=> InHand(m)) /\ (Sent(m)' <=> Sent(m))
  BY <1>1, <1>2 DEF InHand, Sent
<1>4. \A r \in Reader : hand'[r] # NoMessage /\ hand'[r] # Eof => hand'[r] \in 1..Left
  BY DEF SameFates, Fates
<1>5. \A q, r \in Reader : hand'[q] = hand'[r] /\ hand'[q] \in 1..Left => q = r
  BY <1>2 DEF Fates
<1> QED
  BY <1>1, <1>3, <1>4, <1>5 DEF Fates

LEMMA FatesThrown == QueueInv /\ Fates /\ Thrown => Fates'
<1> SUFFICES ASSUME QueueInv, Fates, Thrown PROVE Fates'
  OBVIOUS
<1>1. /\ Left' = accepted /\ got' = got /\ dropped' = dropped
      /\ discarded' = discarded \cup (Left + 1)..accepted
      /\ Left \in Nat /\ accepted \in Nat /\ Left <= accepted
  BY LeftIs DEF Thrown
<1>2. \A m \in 1..accepted : \A r \in Reader : hand'[r] = m <=> hand[r] = m
  BY <1>1 DEF Thrown, NoMessage, Eof
<1>3. \A m \in 1..accepted : (InHand(m)' <=> InHand(m)) /\ (Sent(m)' <=> Sent(m))
  BY <1>1, <1>2 DEF InHand, Sent
<1>4. \A m \in 1..accepted : m \in 1..Left \/ (m \in (Left + 1)..accepted /\ m \notin 1..Left)
  BY <1>1
<1>5. 1..Left \subseteq 1..accepted /\ (Left + 1)..accepted \subseteq 1..accepted
  BY <1>1
<1>6. \A m \in (Left + 1)..accepted : ~InHand(m) /\ ~Sent(m) /\ m \notin dropped
  <2> TAKE m \in (Left + 1)..accepted
  <2>1. m \notin 1..Left /\ m # NoMessage /\ m # Eof
    BY <1>1 DEF NoMessage, Eof
  <2> QED
    BY <2>1 DEF Fates, InHand, Sent
<1>7. \A r \in Reader : hand'[r] # NoMessage /\ hand'[r] # Eof => hand'[r] \in 1..accepted
  BY <1>5 DEF Thrown, Fates
<1>8. \A q, r \in Reader : hand'[q] = hand'[r] /\ hand'[q] \in 1..accepted => q = r
  <2> TAKE q, r \in Reader
  <2> HAVE hand'[q] = hand'[r] /\ hand'[q] \in 1..accepted
  <2>1. hand[q] = hand[r] /\ hand[q] \in 1..accepted
    BY <1>2
  <2>2. hand[q] \in 1..Left
    BY <2>1, <1>4, <1>6 DEF InHand
  <2> QED
    BY <2>1, <2>2 DEF Fates
<1>9. \A q, r \in Reader : \A m \in 1..accepted :
        m \in Elements(got[q]) /\ m \in Elements(got[r]) => q = r
  BY DEF Fates
<1>10. \A m \in 1..accepted : InHand(m) \/ Sent(m) \/ m \in dropped \/ m \in discarded'
  BY <1>1, <1>4 DEF Fates
<1>11. \A m \in 1..accepted :
         /\ ~(InHand(m) /\ Sent(m)) /\ ~(InHand(m) /\ m \in dropped)
         /\ ~(InHand(m) /\ m \in discarded') /\ ~(Sent(m) /\ m \in dropped)
         /\ ~(Sent(m) /\ m \in discarded') /\ ~(m \in dropped /\ m \in discarded')
  <2> TAKE m \in 1..accepted
  <2>1. CASE m \in 1..Left
    <3>1. m \in discarded' <=> m \in discarded
      BY <2>1, <1>1
    <3> QED
      BY <3>1, <2>1 DEF Fates
  <2>2. CASE m \in (Left + 1)..accepted
    BY <2>2, <1>6
  <2> QED
    BY <2>1, <2>2, <1>4
<1>12. /\ \A r \in Reader : Elements(got[r]) \subseteq 1..accepted
       /\ dropped \subseteq 1..accepted /\ discarded' \subseteq 1..accepted
  BY <1>1, <1>5 DEF Fates
<1> QED
  BY <1>1, <1>3, <1>7, <1>8, <1>9, <1>10, <1>11, <1>12 DEF Fates

LEMMA FatesTaken == ASSUME QueueInv, Fates, NEW r \in Reader, Taken(r) PROVE Fates'
<1>1. /\ Left' = Left + 1 /\ got' = got /\ dropped' = dropped /\ discarded' = discarded
      /\ Left \in Nat
  BY LeftIs DEF Taken
<1>2. \A q \in Reader : hand'[q] = IF q = r THEN Left + 1 ELSE hand[q]
  BY DEF Taken, QueueInv, TypeOK
<1>3. \A m \in 1..(Left + 1) : m = Left + 1 \/ m \in 1..Left
  BY <1>1
<1>4. Left + 1 \notin 1..Left /\ 1..Left \subseteq 1..(Left + 1) /\ Left + 1 \in 1..(Left + 1)
      /\ Left + 1 # NoMessage /\ Left + 1 # Eof
  BY <1>1 DEF NoMessage, Eof
<1>5. \A m : Sent(m)' <=> Sent(m)
  BY <1>1 DEF Sent
<1>6. /\ ~InHand(Left + 1) /\ ~Sent(Left + 1)
      /\ Left + 1 \notin dropped /\ Left + 1 \notin discarded
  BY <1>4 DEF Fates, InHand, Sent
<1>7. \A m \in 1..Left : InHand(m)' <=> InHand(m)
  <2>1. hand[r] \notin 1..Left
    BY DEF Taken, NoMessage
  <2> QED
    BY <1>2, <1>4, <2>1 DEF InHand
<1>8. \A m : m = Left + 1 => InHand(m)'
  BY <1>2 DEF InHand
<1>9. \A q \in Reader : hand'[q] # NoMessage /\ hand'[q] # Eof => hand'[q] \in 1..(Left + 1)
  BY <1>2, <1>4 DEF Fates
<1>10. \A q, s \in Reader : hand'[q] = hand'[s] /\ hand'[q] \in 1..(Left + 1) => q = s
  BY <1>2, <1>3, <1>6 DEF Fates, InHand
<1>11. \A q, s \in Reader : \A m \in 1..(Left + 1) :
         m \in Elements(got[q]) /\ m \in Elements(got[s]) => q = s
  BY <1>3, <1>6 DEF Fates, Sent
<1>12. \A m \in 1..(Left + 1) : InHand(m)' \/ Sent(m)' \/ m \in dropped \/ m \in discarded
  BY <1>3, <1>5, <1>7, <1>8 DEF Fates
<1>13. \A m \in 1..(Left + 1) :
         /\ ~(InHand(m)' /\ Sent(m)') /\ ~(InHand(m)' /\ m \in dropped)
         /\ ~(InHand(m)' /\ m \in discarded) /\ ~(Sent(m)' /\ m \in dropped)
         /\ ~(Sent(m)' /\ m \in discarded) /\ ~(m \in dropped /\ m \in discarded)
  BY <1>3, <1>5, <1>6, <1>7 DEF Fates
<1>14. /\ \A q \in Reader : Elements(got[q]) \subseteq 1..(Left + 1)
       /\ dropped \subseteq 1..(Left + 1) /\ discarded \subseteq 1..(Left + 1)
  BY <1>4 DEF Fates
<1> QED
  BY <1>1, <1>9, <1>10, <1>11, <1>12, <1>13, <1>14 DEF Fates

LEMMA FatesPassed == ASSUME QueueInv, Fates, NEW r \in Reader, Passed(r) PROVE Fates'
<1>1. Left' = Left /\ dropped' = dropped /\ discarded' = discarded /\ Left \in Nat
  BY LeftIs DEF Passed
<1>2. \A q \in Reader : hand'[q] = IF q = r THEN NoMessage ELSE hand[q]
  BY DEF Passed, QueueInv, TypeOK
<1>3. hand[r] \in 1..Left /\ InHand(hand[r]) /\ NoMessage \notin 1..Left
  BY <1>1 DEF Passed, Fates, InHand, Message, NoMessage, Eof
<1>4. \A m \in 1..Left : Sent(m)' <=> (Sent(m) \/ m = hand[r])
  BY SentBecomes DEF Sent
<1>5. \A m \in 1..Left : InHand(m)' <=> (InHand(m) /\ m # hand[r])
  BY <1>2, <1>3 DEF InHand, Fates
<1>6. \A q \in Reader : hand'[q] # NoMessage /\ hand'[q] # Eof => hand'[q] \in 1..Left
  BY <1>2 DEF Fates
<1>0. \A q \in Reader : \A m :
        m \in Elements(got'[q]) <=> m \in Elements(got[q]) \/ (q = r /\ m = hand[r])
  <2> TAKE q \in Reader
  <2>1. Elements(got'[q]) = IF q = r THEN Elements(got[r]) \cup {hand[r]} ELSE Elements(got[q])
    BY SentBecomes
  <2> QED
    BY <2>1
<1>7. \A q \in Reader : Elements(got'[q]) \subseteq 1..Left
  BY <1>0, <1>3 DEF Fates
<1>8. \A q, s \in Reader : hand'[q] = hand'[s] /\ hand'[q] \in 1..Left => q = s
  BY <1>2, <1>3 DEF Fates
<1>9. ~Sent(hand[r])
  BY <1>3 DEF Fates
<1>10. \A q, s \in Reader : \A m \in 1..Left :
         m \in Elements(got'[q]) /\ m \in Elements(got'[s]) => q = s
  BY <1>0, <1>3, <1>9 DEF Fates, Sent
<1>11. \A m \in 1..Left :
         /\ InHand(m)' \/ Sent(m)' \/ m \in dropped \/ m \in discarded
         /\ ~(InHand(m)' /\ Sent(m)') /\ ~(InHand(m)' /\ m \in dropped)
         /\ ~(InHand(m)' /\ m \in discarded) /\ ~(Sent(m)' /\ m \in dropped)
         /\ ~(Sent(m)' /\ m \in discarded) /\ ~(m \in dropped /\ m \in discarded)
  BY <1>3, <1>4, <1>5 DEF Fates
<1> QED
  BY <1>1, <1>6, <1>7, <1>8, <1>10, <1>11 DEF Fates

LEMMA FatesLost == ASSUME QueueInv, Fates, NEW r \in Reader, Lost(r) PROVE Fates'
<1>1. /\ Left' = Left /\ got' = got /\ discarded' = discarded /\ Left \in Nat
      /\ dropped' = dropped \cup {hand[r]}
  BY LeftIs DEF Lost
<1>2. \A q \in Reader : hand'[q] = IF q = r THEN NoMessage ELSE hand[q]
  BY DEF Lost, QueueInv, TypeOK
<1>3. hand[r] \in 1..Left /\ InHand(hand[r]) /\ NoMessage \notin 1..Left
  BY <1>1 DEF Lost, Fates, InHand, Message, NoMessage, Eof
<1>4. \A m : Sent(m)' <=> Sent(m)
  BY <1>1 DEF Sent
<1>5. \A m \in 1..Left : InHand(m)' <=> (InHand(m) /\ m # hand[r])
  BY <1>2, <1>3 DEF InHand, Fates
<1>6. \A q \in Reader : hand'[q] # NoMessage /\ hand'[q] # Eof => hand'[q] \in 1..Left
  BY <1>2 DEF Fates
<1>8. \A q, s \in Reader : hand'[q] = hand'[s] /\ hand'[q] \in 1..Left => q = s
  BY <1>2, <1>3 DEF Fates
<1>11. \A m \in 1..Left :
         /\ InHand(m)' \/ Sent(m)' \/ m \in dropped' \/ m \in discarded
         /\ ~(InHand(m)' /\ Sent(m)') /\ ~(InHand(m)' /\ m \in dropped')
         /\ ~(InHand(m)' /\ m \in discarded) /\ ~(Sent(m)' /\ m \in dropped')
         /\ ~(Sent(m)' /\ m \in discarded) /\ ~(m \in dropped' /\ m \in discarded)
  BY <1>1, <1>3, <1>4, <1>5 DEF Fates
<1>12. /\ dropped' \subseteq 1..Left /\ discarded \subseteq 1..Left
       /\ \A q \in Reader : Elements(got[q]) \subseteq 1..Left
       /\ \A q, s \in Reader : \A m \in 1..Left :
            m \in Elements(got[q]) /\ m \in Elements(got[s]) => q = s
  BY <1>1, <1>3 DEF Fates
<1> QED
  BY <1>1, <1>6, <1>8, <1>11, <1>12 DEF Fates

LEMMA FatesStep == QueueInv /\ Fates /\ [Next]_vars => Fates'
  BY Effects, FatesSame, FatesThrown, FatesTaken, FatesPassed, FatesLost

(* What a client has been sent is older than what its reader holds.        *)
LEMMA OrderedStep == QueueInv /\ Fates /\ Ordered /\ [Next]_vars => Ordered'
<1> SUFFICES ASSUME QueueInv, Fates, Ordered, [Next]_vars PROVE Ordered'
  OBVIOUS
<1>1. CASE SameFates \/ Thrown
  BY <1>1 DEF SameFates, Thrown, Ordered
<1>2. ASSUME NEW r \in Reader, Taken(r) PROVE Ordered'
  <2>1. \A q \in Reader : hand'[q] = IF q = r THEN Left + 1 ELSE hand[q]
    BY <1>2 DEF Taken, QueueInv, TypeOK
  <2>2. \A i \in DOMAIN got[r] : got[r][i] \in 1..Left
    BY DEF Fates, Elements
  <2>3. \A i \in DOMAIN got[r] : got[r][i] < Left + 1
    BY <2>2, LeftIs
  <2> QED
    BY <1>2, <2>1, <2>3 DEF Taken, Ordered
<1>3. ASSUME NEW r \in Reader, Lost(r) PROVE Ordered'
  <2>1. \A q \in Reader : hand'[q] = IF q = r THEN NoMessage ELSE hand[q]
    BY <1>3 DEF Lost, QueueInv, TypeOK
  <2> QED
    BY <1>3, <2>1 DEF Lost, Ordered
<1>4. ASSUME NEW r \in Reader, Passed(r) PROVE Ordered'
  <2>1. \A q \in Reader : /\ hand'[q] = IF q = r THEN NoMessage ELSE hand[q]
                          /\ got'[q] = IF q = r THEN Append(got[r], hand[r]) ELSE got[q]
    BY <1>4 DEF Passed, QueueInv, TypeOK
  <2>2. /\ DOMAIN Append(got[r], hand[r]) = 1..(Len(got[r]) + 1) /\ Len(got[r]) \in Nat
        /\ DOMAIN got[r] = 1..Len(got[r])
        /\ \A i \in 1..Len(got[r]) : Append(got[r], hand[r])[i] = got[r][i]
        /\ Append(got[r], hand[r])[Len(got[r]) + 1] = hand[r]
    BY <1>4, Appended DEF Passed, QueueInv, TypeOK
  <2>3. hand[r] # NoMessage /\ hand[r] # Eof
    BY <1>4, PipeAssumption DEF Passed, Message, NoMessage, Eof
  <2>4. ASSUME NEW i \in 1..(Len(got[r]) + 1), NEW j \in 1..(Len(got[r]) + 1), i < j
        PROVE  Append(got[r], hand[r])[i] < Append(got[r], hand[r])[j]
    <3>1. i \in 1..Len(got[r])
      BY <2>2, <2>4
    <3>2. CASE j = Len(got[r]) + 1
      BY <3>1, <3>2, <2>2, <2>3 DEF Ordered
    <3>3. CASE j \in 1..Len(got[r])
      BY <3>1, <3>3, <2>2, <2>4 DEF Ordered
    <3> QED
      BY <3>2, <3>3, <2>2
  <2>5. ASSUME NEW q \in Reader
        PROVE  /\ \A i, j \in DOMAIN got'[q] : i < j => got'[q][i] < got'[q][j]
               /\ hand'[q] # NoMessage /\ hand'[q] # Eof => \A i \in DOMAIN got'[q] : got'[q][i] < hand'[q]
    <3>1. CASE q = r
      BY <3>1, <2>1, <2>2, <2>4
    <3>2. CASE q # r
      BY <3>2, <2>1 DEF Ordered
    <3> QED
      BY <3>1, <3>2
  <2> QED
    BY <2>5 DEF Ordered
<1> QED
  BY <1>1, <1>2, <1>3, <1>4, Effects

IInv == QueueInv /\ Fates /\ Ordered

LEMMA IInvInit == Init => IInv
<1> SUFFICES ASSUME Init PROVE IInv
  OBVIOUS
<1>0. Len(messages) = 0 /\ accepted = 0
  BY Empty DEF Init
<1>1. Left = 0 /\ \A r \in Reader : hand[r] = NoMessage /\ Elements(got[r]) = {}
  <2>1. Left = 0
    BY <1>0 DEF Left
  <2>2. \A r \in Reader : hand[r] = NoMessage /\ got[r] = <<>>
    BY DEF Init
  <2>3. Elements(<<>>) = {}
    BY Empty DEF Elements
  <2> QED
    BY <2>1, <2>2, <2>3
<1>2. Fates
  BY <1>1 DEF Init, Fates, InHand, Sent
<1>3. Ordered
  BY Empty DEF Init, Ordered
<1> QED
  BY <1>2, <1>3, QueueInit DEF IInv

LEMMA IInvNext == IInv /\ [Next]_vars => IInv'
  BY QueueStep, FatesStep, OrderedStep DEF IInv

LEMMA QueuedMessages ==
  ASSUME QueueInv
  PROVE  /\ \A m : m \in Elements(messages) <=> m \in (Left + 1)..accepted
         /\ \A i, j \in DOMAIN messages : i < j => messages[i] < messages[j]
<1>1. /\ Len(messages) \in Nat /\ DOMAIN messages = 1..Len(messages)
      /\ accepted \in Int /\ Left = accepted - Len(messages)
  BY Listed DEF QueueInv, TypeOK, Left
<1>2. \A i \in 1..Len(messages) : messages[i] = Left + i
  BY <1>1 DEF QueueInv, Numbered
<1>3. ASSUME NEW m \in Elements(messages) PROVE m \in (Left + 1)..accepted
  <2>1. PICK i \in 1..Len(messages) : m = messages[i]
    BY <1>1 DEF Elements
  <2> QED
    BY <2>1, <1>1, <1>2
<1>4. ASSUME NEW m \in (Left + 1)..accepted PROVE m \in Elements(messages)
  <2>1. m - Left \in 1..Len(messages) /\ Left + (m - Left) = m
    BY <1>1
  <2> QED
    BY <2>1, <1>1, <1>2 DEF Elements
<1> QED
  BY <1>1, <1>2, <1>3, <1>4

LEMMA FatesImply == IInv => DeliveredOnceInOrder
<1> SUFFICES ASSUME IInv PROVE DeliveredOnceInOrder
  OBVIOUS
<1> USE DEF IInv
<1>1. Left \in Nat /\ accepted \in Nat /\ Left <= accepted
  BY LeftIs
<1>2. \A m : m \in Held <=> m \in 1..Left /\ InHand(m)
  <2> TAKE m
  <2>1. 1..Left \subseteq Message
    BY <1>1, PipeAssumption DEF Message, QueueInv, TypeOK
  <2>2. m \in Message => m # NoMessage /\ m # Eof
    BY PipeAssumption DEF Message, NoMessage, Eof
  <2> QED
    BY <2>1, <2>2 DEF Held, InHand, Fates
<1>3. \A m : m \in Given <=> m \in 1..Left /\ Sent(m)
  BY DEF Given, Sent, Fates
<1>4. \A m : m \in Elements(messages) <=> m \in (Left + 1)..accepted
  BY QueuedMessages
<1>5. \A m : m \in 1..accepted <=> m \in 1..Left \/ m \in (Left + 1)..accepted
  BY <1>1
<1>6. \A m \in (Left + 1)..accepted : m \notin 1..Left
  BY <1>1
<1>7. 1..accepted = Elements(messages) \cup Held \cup Given \cup dropped \cup discarded
  BY <1>2, <1>3, <1>4, <1>5 DEF Fates
<1>8. Elements(messages) \cap (Held \cup Given \cup dropped \cup discarded) = {}
  BY <1>2, <1>3, <1>4, <1>6 DEF Fates
<1>9. /\ Held \cap (Given \cup dropped \cup discarded) = {}
      /\ Given \cap (dropped \cup discarded) = {} /\ dropped \cap discarded = {}
  BY <1>2, <1>3 DEF Fates
<1>10. ASSUME NEW q \in Reader, NEW r \in Reader, q # r
       PROVE  /\ hand[q] = hand[r] => hand[q] \notin Message
              /\ Elements(got[q]) \cap Elements(got[r]) = {}
  <2>1. hand[q] \in Message => hand[q] \in 1..Left
    BY PipeAssumption DEF Message, NoMessage, Eof, Fates
  <2>2. \A m \in Elements(got[q]) : m \in 1..Left
    BY DEF Fates
  <2> QED
    BY <1>10, <2>1, <2>2 DEF Fates
<1> QED
  BY <1>7, <1>8, <1>9, <1>10, QueuedMessages DEF DeliveredOnceInOrder, Ordered

(* Every message that send() accepts has one fate, whatever is cancelled   *)
(* or closed, and clients are sent messages in the order of the sends.     *)
THEOREM EachMessageOnce == Spec => []DeliveredOnceInOrder
<1>1. Spec => []IInv
  BY IInvInit, IInvNext, PTL DEF Spec
<1> QED
  BY <1>1, FatesImply, PTL

-----------------------------------------------------------------------------
(* What a cancel costs.                                                    *)

Cancelled == {r \in Reader : cancelled[r]}

LEMMA Finite ==
  ASSUME TypeOK
  PROVE  /\ IsFiniteSet(dropped) /\ IsFiniteSet(Cancelled)
         /\ Cardinality(dropped) \in Nat /\ Cardinality(Cancelled) \in Nat
<1>1. IsFiniteSet(Message)
  BY FS_Interval, PipeAssumption DEF Message
<1>2. IsFiniteSet(dropped)
  BY <1>1, FS_Subset DEF TypeOK
<1>3. Cancelled \subseteq Reader
  BY DEF Cancelled
<1>4. IsFiniteSet(Cancelled)
  BY <1>3, FS_Subset, PipeAssumption
<1> QED
  BY <1>2, <1>4, FS_CardinalityType

LEMMA StopCancelled ==
  ASSUME TypeOK, NEW r \in Reader, Stop(r)
  PROVE  /\ Cancelled' = Cancelled \ {r}
         /\ Cardinality(Cancelled') \in Nat
         /\ Cardinality(Cancelled') = IF cancelled[r] THEN Cardinality(Cancelled) - 1
                                      ELSE Cardinality(Cancelled)
<1>1. cancelled' = [cancelled EXCEPT ![r] = FALSE] /\ cancelled \in [Reader -> BOOLEAN]
  BY DEF Stop, TypeOK
<1>2. Cancelled' = Cancelled \ {r}
  BY <1>1 DEF Cancelled
<1>3. r \in Cancelled <=> cancelled[r]
  BY DEF Cancelled
<1>4. /\ IsFiniteSet(Cancelled \ {r})
      /\ Cardinality(Cancelled \ {r}) = IF r \in Cancelled THEN Cardinality(Cancelled) - 1
                                        ELSE Cardinality(Cancelled)
  BY Finite, FS_RemoveElement
<1>5. Cardinality(Cancelled \ {r}) \in Nat
  BY <1>4, FS_CardinalityType
<1> QED
  BY <1>2, <1>3, <1>4, <1>5

LEMMA LossStep == TypeOK /\ LossBounded /\ [Next]_vars => LossBounded'
<1> SUFFICES ASSUME TypeOK, LossBounded, [Next]_vars PROVE LossBounded'
  OBVIOUS
<1>0. /\ Cardinality(dropped) \in Nat /\ Cardinality(Cancelled) \in Nat /\ cancels \in Int
      /\ Cardinality(dropped) + Cardinality(Cancelled) <= cancels
  BY Finite DEF LossBounded, Cancelled, TypeOK
<1>1. SUFFICES Cardinality(dropped') + Cardinality(Cancelled') <= cancels'
  BY DEF LossBounded, Cancelled
<1>2. CASE UNCHANGED <<cancelled, dropped, cancels>>
  BY <1>0, <1>2 DEF Cancelled
<1>3. ASSUME NEW r \in Reader, Stop(r), UNCHANGED <<dropped, cancels>>
      PROVE  Cardinality(dropped') + Cardinality(Cancelled') <= cancels'
  BY <1>0, <1>3, StopCancelled
<1>4. ASSUME NEW r \in Reader, WakeToNobody(r)
      PROVE  Cardinality(dropped') + Cardinality(Cancelled') <= cancels'
  <2>1. Cardinality(Cancelled') = Cardinality(Cancelled) - 1
    BY <1>4, StopCancelled DEF WakeToNobody
  <2>2. /\ IsFiniteSet(dropped \cup {hand[r]})
        /\ Cardinality(dropped \cup {hand[r]}) = IF hand[r] \in dropped THEN Cardinality(dropped)
                                                 ELSE Cardinality(dropped) + 1
    BY Finite, FS_AddElement
  <2>3. dropped' = dropped \cup {hand[r]} /\ cancels' = cancels
    BY <1>4 DEF WakeToNobody
  <2> QED
    BY <1>0, <2>1, <2>2, <2>3
<1>5. ASSUME NEW r \in Reader, Cancel(r)
      PROVE  Cardinality(dropped') + Cardinality(Cancelled') <= cancels'
  <2>1. cancelled' = [cancelled EXCEPT ![r] = TRUE] /\ cancelled \in [Reader -> BOOLEAN]
    BY <1>5 DEF Cancel, TypeOK
  <2>2. Cancelled' = Cancelled \cup {r} /\ r \notin Cancelled
    BY <1>5, <2>1 DEF Cancelled, Cancel
  <2>3. Cardinality(Cancelled') = Cardinality(Cancelled) + 1
    BY <2>2, Finite, FS_AddElement
  <2>4. dropped' = dropped /\ cancels' = cancels + 1
    BY <1>5 DEF Cancel
  <2> QED
    BY <1>0, <2>3, <2>4
<1> QED
  BY <1>2, <1>3, <1>4, <1>5 DEF Next, Wake, SendToWaiter, SendToQueue, CloseSend, CloseRecv, Open,
     WakeToEnd, WakeToMessage, GoOn, GiveUp, vars, queueVars

LEMMA LossInit == Init => LossBounded
<1> SUFFICES ASSUME Init PROVE LossBounded
  OBVIOUS
<1>1. {r \in Reader : cancelled[r]} = {} /\ dropped = {} /\ cancels = 0
  BY DEF Init
<1> QED
  BY <1>1, FS_EmptySet DEF LossBounded

(* A cancelled stream takes one more message, and no more than one.        *)
THEOREM LossIsBounded == Spec => []LossBounded
  BY TypesInit, TypesStep, LossInit, LossStep, PTL DEF Spec

-----------------------------------------------------------------------------
(* The pipe is a Conduit.                                                  *)

LEMMA RecvPromise ==
  ASSUME QueueInv, NEW r \in Reader, pc[r] \in {"idle", "held"}, Recv(r),
         UNCHANGED <<accepted, sendClosed, recvClosed>>
  PROVE  Promise!Take(r) \/ Promise!Finish(r) \/ Promise!Queue(r)
<1> USE DEF QueueInv
<1>0. hand[r] = NoMessage
  BY DEF Settled
<1>a. Len(messages) \in Nat /\ accepted \in Int
  BY Listed DEF TypeOK
<1>1. CASE messages # <<>> /\ Settle(r, Head(messages)) /\ messages' = Tail(messages) /\ UNCHANGED waiters
  <2>1. /\ Len(messages) \in Nat \ {0} /\ Len(messages') = Len(messages) - 1
        /\ DOMAIN messages = 1..Len(messages) /\ Head(messages) = messages[1]
    BY <1>1, Shortened DEF TypeOK
  <2>2. Head(messages) = (accepted - Len(messages)) + 1
    BY <2>1 DEF Numbered, Left
  <2>3. accepted - Len(messages') = (accepted - Len(messages)) + 1 /\ accepted # accepted - Len(messages)
    BY <2>1, <1>a
  <2> QED
    BY <1>0, <1>1, <2>2, <2>3
    DEF Settle, Promise!Take, Promise!Empty, Promise!Give, Promise!NoMessage, NoMessage
<1>2. CASE messages = <<>> /\ sendClosed /\ Settle(r, Eof) /\ UNCHANGED <<messages, waiters>>
  <2>1. accepted = accepted - Len(messages)
    BY <1>2, <1>a, Empty
  <2> QED
    BY <1>0, <1>2, <2>1
    DEF Settle, Promise!Finish, Promise!Empty, Promise!Give, Promise!NoMessage, Promise!End, NoMessage, Eof
<1>3. CASE /\ messages = <<>> /\ ~sendClosed /\ waiters' = Append(waiters, r)
           /\ pc' = [pc EXCEPT ![r] = "asleep"] /\ UNCHANGED <<messages, hand>>
  <2>1. accepted = accepted - Len(messages)
    BY <1>3, <1>a, Empty
  <2> QED
    BY <1>0, <1>3, <2>1 DEF Promise!Queue, Promise!Empty, Promise!NoMessage, NoMessage
<1> QED
  BY <1>1, <1>2, <1>3 DEF Recv

LEMMA DismissPromise ==
  ASSUME WakeAll PROVE Promise!DismissAll
<1>1. hand' = [r \in Reader |-> IF \E i \in DOMAIN waiters : waiters[i] = r THEN -1 ELSE hand[r]]
  BY DEF WakeAll, Elements, Eof
<1> QED
  BY <1>1 DEF WakeAll, Promise!DismissAll, Promise!End

LEMMA PromiseStep == QueueInv /\ [Next]_vars => [Promise!Next]_(Promise!vars)
<1> SUFFICES ASSUME QueueInv, [Next]_vars PROVE [Promise!Next]_(Promise!vars)
  OBVIOUS
<1>a. Len(messages) \in Nat /\ accepted \in Int
  BY Listed DEF QueueInv, TypeOK
<1>1. CASE SendToWaiter
  <2>1. messages = <<>> /\ messages' = <<>>
    BY <1>1 DEF SendToWaiter, Queued, QueueInv
  <2>2. /\ accepted = accepted - Len(messages)
        /\ accepted' - Len(messages') = (accepted - Len(messages)) + 1
    BY <1>1, <1>a, <2>1, Empty DEF SendToWaiter
  <2>3. Promise!Pass
    BY <1>1, <2>2 DEF SendToWaiter, Settle, Promise!Pass, Promise!Empty, Promise!Give
  <2> QED
    BY <2>3 DEF Promise!Next
<1>2. CASE SendToQueue
  <2>1. accepted + 1 \in Message
    BY <1>2, PipeAssumption DEF SendToQueue, Message, QueueInv, TypeOK
  <2>2. Len(messages') = Len(messages) + 1
    BY <1>2, <2>1, Appended DEF SendToQueue, QueueInv, TypeOK
  <2>3. /\ accepted' - Len(messages') = accepted - Len(messages)
        /\ accepted - (accepted - Len(messages)) < HighWater
    BY <1>2, <1>a, <2>2, PipeAssumption DEF SendToQueue, Full
  <2>4. Promise!Put
    BY <1>2, <2>3 DEF SendToQueue, Promise!Put
  <2> QED
    BY <2>4 DEF Promise!Next
<1>3. CASE CloseSend
  <2>1. Promise!CloseWriter
    BY <1>3, DismissPromise DEF CloseSend, Promise!CloseWriter
  <2> QED
    BY <2>1 DEF Promise!Next
<1>4. CASE CloseRecv
  <2>1. accepted' - Len(messages') = accepted
    BY <1>4, <1>a, Empty DEF CloseRecv
  <2>2. Promise!CloseReader
    BY <1>4, <2>1, DismissPromise DEF CloseRecv, Promise!CloseReader
  <2> QED
    BY <2>2 DEF Promise!Next
<1>5. ASSUME NEW r \in Reader, Open(r) \/ GoOn(r) PROVE Promise!Next
  BY <1>5, RecvPromise DEF Open, GoOn, Promise!Next
<1>6. ASSUME NEW r \in Reader, WakeToEnd(r) \/ WakeToMessage(r) \/ WakeToNobody(r) PROVE Promise!Next
  <2>1. hand[r] # NoMessage /\ hand' = [hand EXCEPT ![r] = NoMessage]
    BY <1>6, PipeAssumption DEF WakeToEnd, WakeToMessage, WakeToNobody, Message, NoMessage, Eof
  <2>2. Promise!PickUp(r)
    BY <1>6, <2>1 DEF WakeToEnd, WakeToMessage, WakeToNobody, queueVars, Promise!PickUp, Promise!Give,
       Promise!NoMessage, NoMessage
  <2> QED
    BY <2>2 DEF Promise!Next
<1>7. ASSUME NEW r \in Reader, GiveUp(r) \/ Cancel(r) PROVE UNCHANGED Promise!vars
  BY <1>7 DEF GiveUp, Cancel, queueVars, Promise!vars
<1>8. CASE UNCHANGED vars
  BY <1>8 DEF vars, queueVars, Promise!vars
<1> QED
  BY <1>1, <1>2, <1>3, <1>4, <1>5, <1>6, <1>7, <1>8 DEF Next, Wake

LEMMA PromiseInit == Init => Promise!Init
<1> SUFFICES ASSUME Init PROVE Promise!Init
  OBVIOUS
<1>1. Len(messages) = 0 /\ accepted = 0
  BY Empty DEF Init
<1>2. accepted - Len(messages) = 0
  BY <1>1
<1> QED
  BY <1>1, <1>2 DEF Init, Promise!Init, Promise!NoMessage, NoMessage

(* A reader that sleeps has its place among the waiters, nothing to read   *)
(* and a writer: neither a message nor the end of the pipe was slept       *)
(* through.                                                                *)
SleepersMissNothing ==
  \A r \in Reader : pc[r] = "asleep" =>
    /\ \E i \in DOMAIN waiters : /\ waiters[i] = r
                                /\ \A j \in DOMAIN waiters : waiters[j] = r => j = i
    /\ messages = <<>> /\ ~sendClosed

(* What recv() has put to sleep, send() and the close of the send end will *)
(* find: no message is queued beside a sleeper, no end passes it by.       *)
THEOREM NothingIsSleptThrough == Spec => []SleepersMissNothing
<1>1. Spec => []QueueInv
  BY QueueInit, QueueStep, PTL DEF Spec
<1>2. QueueInv => SleepersMissNothing
  <2> SUFFICES ASSUME QueueInv, NEW r \in Reader, pc[r] = "asleep"
               PROVE  /\ \E i \in DOMAIN waiters :
                           /\ waiters[i] = r
                           /\ \A j \in DOMAIN waiters : waiters[j] = r => j = i
                      /\ messages = <<>> /\ ~sendClosed
    BY DEF SleepersMissNothing
  <2>1. PICK i \in DOMAIN waiters : waiters[i] = r
    BY DEF QueueInv, Queued
  <2>2. \A j \in DOMAIN waiters : waiters[j] = r => j = i
    BY <2>1 DEF QueueInv, Queued
  <2>3. waiters # <<>>
    BY <2>1, Empty
  <2> QED
    BY <2>1, <2>2, <2>3 DEF QueueInv, Queued
<1> QED
  BY <1>1, <1>2, PTL

(* Every step of the pipe is one of the conduit's or leaves it alone:      *)
(* first in first out, bounded, nobody asleep beside a message.            *)
THEOREM PromiseKept == Spec => KeepsPromise
<1>1. Spec => []QueueInv
  BY QueueInit, QueueStep, PTL DEF Spec
<1> QED
  BY <1>1, PromiseInit, PromiseStep, PTL DEF Spec, KeepsPromise, Promise!Spec
=============================================================================
