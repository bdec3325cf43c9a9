---------------------------- MODULE PortsProofs -----------------------------
(***************************************************************************)
(* Proofs about Ports, for any receivers and bounds and for every kind of  *)
(* port.                                                                   *)
(***************************************************************************)
EXTENDS Ports, FiniteSetTheorems, TLAPS

(* Messages that have left the queue.                                      *)
Left == arrived - Len(queue)

(* A promise that has settled holds something, no other does.              *)
Settled == \A r \in Reader : (pc[r] = "woken") <=> (hand[r] # Nothing)

(* The queue holds the last messages that arrived.                         *)
Numbered ==
  /\ Len(queue) <= arrived
  /\ \A i \in DOMAIN queue : queue[i] = Left + i

Distinct == \A i, j \in DOMAIN waiters : waiters[i] = waiters[j] => i = j

PortInv == TypeOK /\ Settled /\ Numbered /\ Distinct /\ WaitersAreKept

(* Every message that has left the queue has one fate.                     *)
InHand(m) == \E r \in Reader : hand[r] = m
Sent(m) == \E r \in Reader : m \in Elements(got[r])
Fates ==
  /\ \A r \in Reader : hand[r] # Nothing /\ hand[r] # Failure => hand[r] \in 1..Left
  /\ \A r \in Reader : Elements(got[r]) \subseteq 1..Left
  /\ dropped \subseteq 1..Left /\ discarded \subseteq 1..Left
  /\ \A m \in 1..Left : InHand(m) \/ Sent(m) \/ m \in dropped \/ m \in discarded
  /\ \A m \in 1..Left : ~(InHand(m) /\ Sent(m)) /\ ~(InHand(m) /\ m \in dropped)
                        /\ ~(InHand(m) /\ m \in discarded) /\ ~(Sent(m) /\ m \in dropped)
                        /\ ~(Sent(m) /\ m \in discarded) /\ ~(m \in dropped /\ m \in discarded)
  /\ \A q, r \in Reader : hand[q] = hand[r] /\ hand[q] \in 1..Left => q = r
  /\ \A q, r \in Reader : \A m \in 1..Left :
       m \in Elements(got[q]) /\ m \in Elements(got[r]) => q = r

Ordered ==
  \A r \in Reader :
    /\ \A i, j \in DOMAIN got[r] : i < j => got[r][i] < got[r][j]
    /\ hand[r] # Nothing /\ hand[r] # Failure => \A i \in DOMAIN got[r] : got[r][i] < hand[r]

Cancelled == {r \in Reader : cancelled[r]}
Loss == Cardinality(dropped) + Cardinality(Cancelled) <= cancels

-----------------------------------------------------------------------------
(* Sequences.                                                              *)

LEMMA Appended ==
  ASSUME NEW S, NEW q \in Seq(S), NEW t \in S
  PROVE  /\ Append(q, t) \in Seq(S)
         /\ Len(q) \in Nat /\ Len(Append(q, t)) = Len(q) + 1
         /\ DOMAIN Append(q, t) = 1..(Len(q) + 1)
         /\ DOMAIN q = 1..Len(q)
         /\ \A i \in 1..Len(q) : Append(q, t)[i] = q[i]
         /\ Append(q, t)[Len(q) + 1] = t
         /\ Append(q, t) # <<>>
  OBVIOUS

LEMMA Shortened ==
  ASSUME NEW S, NEW q \in Seq(S), q # <<>>
  PROVE  /\ Tail(q) \in Seq(S)
         /\ Len(q) \in Nat \ {0} /\ DOMAIN q = 1..Len(q)
         /\ Len(Tail(q)) = Len(q) - 1
         /\ Head(q) = q[1] /\ q[1] \in S
         /\ DOMAIN Tail(q) = 1..(Len(q) - 1)
         /\ \A i \in 1..(Len(q) - 1) : Tail(q)[i] = q[i + 1]
  OBVIOUS

LEMMA Empty ==
  ASSUME NEW S
  PROVE  <<>> \in Seq(S) /\ Len(<<>>) = 0 /\ DOMAIN <<>> = {}
  OBVIOUS

LEMMA Listed ==
  ASSUME NEW S, NEW q \in Seq(S)
  PROVE  /\ Len(q) \in Nat /\ DOMAIN q = 1..Len(q)
         /\ Len(q) = 0 <=> q = <<>>
         /\ \A i \in 1..Len(q) : q[i] \in S
  OBVIOUS

-----------------------------------------------------------------------------
(* Types.                                                                  *)

Pcs == {"idle", "binding", "waiting", "forgotten", "woken"}

LEMMA AskTypes ==
  ASSUME TypeOK, NEW r \in Reader, Ask(r)
  PROVE  /\ queue' \in Seq(Message) /\ waiters' \in Seq(Reader)
         /\ pc' \in [Reader -> Pcs]
         /\ hand' \in [Reader -> Message \cup {Nothing, Failure}]
<1> USE DEF TypeOK, Pcs
<1>1. CASE queue # <<>> /\ Take(r)
  <2>1. Tail(queue) \in Seq(Message) /\ Head(queue) \in Message
    BY <1>1, Shortened
  <2> QED
    BY <2>1, <1>1 DEF Take, Settle
<1>2. CASE Fail(r)
  BY <1>2 DEF Fail, Settle
<1>3. CASE TakeSlot(r)
  <2>1. <<r>> \in Seq(Reader)
    OBVIOUS
  <2> QED
    BY <2>1, <1>3 DEF TakeSlot
<1>4. CASE Line(r)
  BY <1>4, Appended DEF Line
<1> QED
  BY <1>1, <1>2, <1>3, <1>4 DEF Ask

LEMMA EndTypes ==
  ASSUME TypeOK, NEW r \in Reader, End(r)
  PROVE  /\ pc' \in [Reader -> Pcs]
         /\ hand' \in [Reader -> Message \cup {Nothing, Failure}]
         /\ cancelled' \in [Reader -> BOOLEAN]
<1>1. cancelled' \in [Reader -> BOOLEAN]
  BY Zenon DEF End, TypeOK
<1>2. pc' \in [Reader -> Pcs] /\ hand' \in [Reader -> Message \cup {Nothing, Failure}]
  BY DEF End, TypeOK, Pcs
<1> QED
  BY <1>1, <1>2

LEMMA TypesInit == Init => TypeOK
<1> SUFFICES ASSUME Init PROVE TypeOK
  OBVIOUS
<1> USE DEF Init
<1>1. queue \in Seq(Message) /\ waiters \in Seq(Reader) /\ got \in [Reader -> Seq(Message)]
  BY Empty
<1>2. closed \in BOOLEAN /\ cancelled \in [Reader -> BOOLEAN]
  BY Zenon
<1>3. /\ pc \in [Reader -> {"idle", "binding", "waiting", "forgotten", "woken"}]
      /\ hand \in [Reader -> Message \cup {Nothing, Failure}]
      /\ arrived \in 0..MaxArrivals /\ cancels \in 0..MaxCancels
      /\ dropped \subseteq Message /\ discarded \subseteq Message
      /\ kind \in Kind /\ source \in {"on", "ended", "failed"}
      /\ socket \in {"none", "binding", "open", "failed", "shut"}
  BY PortAssumption
<1> QED
  BY <1>1, <1>2, <1>3 DEF TypeOK

LEMMA TypesStep == TypeOK /\ [Next]_vars => TypeOK'
<1> SUFFICES ASSUME TypeOK, [Next]_vars PROVE TypeOK'
  OBVIOUS
<1> USE DEF TypeOK
<1>1. CASE Arrive
  <2>1. arrived + 1 \in Message /\ arrived' \in 0..MaxArrivals
    BY <1>1, PortAssumption DEF Arrive, Message
  <2>2. CASE waiters # <<>>
    <3>1. Tail(waiters) \in Seq(Reader) /\ Head(waiters) \in Reader
      BY <2>2, Shortened
    <3> QED
      BY <1>1, <2>1, <2>2, <3>1 DEF Arrive, Settle
  <2>3. CASE waiters = <<>>
    <3>1. Append(queue, arrived + 1) \in Seq(Message)
      BY <2>1, Appended
    <3> QED
      BY <1>1, <2>1, <2>3, <3>1 DEF Arrive
  <2> QED
    BY <2>2, <2>3
<1>2. CASE SourceStops
  BY <1>2 DEF SourceStops, receivers, counts
<1>3. CASE Bound
  BY <1>3 DEF Bound, receivers, counts
<1>4. CASE Close
  <2>1. closed' \in BOOLEAN
    BY <1>4 DEF Close
  <2>2. Elements(queue) \subseteq Message
    BY Listed DEF Elements
  <2>3. queue' \in Seq(Message) /\ waiters' \in Seq(Reader)
    BY <1>4, Empty DEF Close
  <2>4. pc' \in [Reader -> Pcs] /\ hand' \in [Reader -> Message \cup {Nothing, Failure}]
    BY <1>4 DEF Close, Pcs
  <2>5. socket' \in {"none", "binding", "open", "failed", "shut"}
    BY <1>4 DEF Close
  <2> QED
    BY <1>4, <2>1, <2>2, <2>3, <2>4, <2>5 DEF Close, Pcs
<1>5. ASSUME NEW r \in Reader, Recv(r) PROVE TypeOK'
  BY <1>5, AskTypes DEF Recv, counts, Pcs
<1>6. ASSUME NEW r \in Reader, RecvUnbound(r) PROVE TypeOK'
  BY <1>6 DEF RecvUnbound, Fail, Settle, counts
<1>7. ASSUME NEW r \in Reader, RecvBound(r) PROVE TypeOK'
  <2>1. CASE Ask(r)
    BY <1>7, <2>1, AskTypes DEF RecvBound, counts, Pcs
  <2>2. CASE Fail(r)
    BY <1>7, <2>2 DEF RecvBound, Fail, Settle, counts
  <2> QED
    BY <1>7, <2>1, <2>2 DEF RecvBound
<1>8. ASSUME NEW r \in Reader, Deliver(r) PROVE TypeOK'
  <2>1. got' \in [Reader -> Seq(Message)]
    <3>1. Append(got[r], hand[r]) \in Seq(Message)
      BY <1>8, Appended DEF Deliver
    <3> QED
      BY <3>1, <1>8 DEF Deliver
  <2> QED
    BY <1>8, <2>1, EndTypes DEF Deliver, port, Pcs
<1>9. ASSUME NEW r \in Reader, Drop(r) \/ Refuse(r) \/ Throw(r) PROVE TypeOK'
  <2>1. End(r) /\ dropped' \subseteq Message /\ discarded' \subseteq Message
    BY <1>9 DEF Drop, Refuse, Throw, counts
  <2>2. UNCHANGED <<port, arrived, got, cancels>>
    BY <1>9 DEF Drop, Refuse, Throw, counts
  <2> QED
    BY <2>1, <2>2, EndTypes DEF port, Pcs
<1>10. ASSUME NEW r \in Reader, Cancel(r) PROVE TypeOK'
  <2>1. cancelled' \in [Reader -> BOOLEAN]
    BY <1>10, Zenon DEF Cancel
  <2>2. cancels' \in 0..MaxCancels
    BY <1>10, PortAssumption DEF Cancel
  <2> QED
    BY <1>10, <2>1, <2>2 DEF Cancel, port
<1>11. CASE UNCHANGED vars
  BY <1>11 DEF vars, port, receivers, counts
<1> QED
  BY <1>1, <1>2, <1>3, <1>4, <1>5, <1>6, <1>7, <1>8, <1>9, <1>10, <1>11 DEF Next, Finish

(* Every variable of a port keeps its type.                                *)
THEOREM TypeCorrect == Spec => []TypeOK
  BY TypesInit, TypesStep, PTL DEF Spec

-----------------------------------------------------------------------------
(* The queue and its waiters.                                              *)

LEMMA Members ==
  ASSUME NEW q \in Seq(Reader), q # <<>>, \A i, j \in DOMAIN q : q[i] = q[j] => i = j
  PROVE  /\ \A r : r \in Elements(Tail(q)) <=> r \in Elements(q) /\ r # Head(q)
         /\ \A i, j \in DOMAIN Tail(q) : Tail(q)[i] = Tail(q)[j] => i = j
         /\ Head(q) \in Elements(q) /\ Head(q) \in Reader
<1>1. /\ Len(q) \in Nat \ {0} /\ DOMAIN q = 1..Len(q) /\ Head(q) = q[1] /\ q[1] \in Reader
      /\ DOMAIN Tail(q) = 1..(Len(q) - 1)
      /\ \A i \in 1..(Len(q) - 1) : Tail(q)[i] = q[i + 1]
  BY Shortened
<1>2. \A i \in 1..(Len(q) - 1) : i + 1 \in 1..Len(q) /\ 1 \in 1..Len(q) /\ i + 1 # 1
  BY <1>1
<1>3. \A i \in 1..Len(q) : i # 1 => i - 1 \in 1..(Len(q) - 1) /\ (i - 1) + 1 = i
  BY <1>1
<1>4. ASSUME NEW r \in Elements(Tail(q)) PROVE r \in Elements(q) /\ r # Head(q)
  <2>1. PICK i \in 1..(Len(q) - 1) : r = q[i + 1]
    BY <1>1 DEF Elements
  <2> QED
    BY <2>1, <1>1, <1>2 DEF Elements
<1>5. ASSUME NEW r \in Elements(q), r # Head(q) PROVE r \in Elements(Tail(q))
  <2>1. PICK i \in 1..Len(q) : r = q[i]
    BY <1>1 DEF Elements
  <2>2. i # 1
    BY <2>1, <1>1, <1>5
  <2>3. i - 1 \in 1..(Len(q) - 1) /\ (i - 1) + 1 = i
    BY <2>2, <1>3
  <2>4. Tail(q)[i - 1] = q[i]
    BY <2>3, <1>1
  <2>5. i - 1 \in DOMAIN Tail(q) /\ Tail(q)[i - 1] = r
    BY <2>1, <2>3, <2>4, <1>1
  <2> QED
    BY <2>5 DEF Elements
<1>6. ASSUME NEW i \in 1..(Len(q) - 1), NEW j \in 1..(Len(q) - 1), q[i + 1] = q[j + 1] PROVE i = j
  <2>1. i + 1 = j + 1
    BY <1>1, <1>2, <1>6
  <2> QED
    BY <2>1
<1>7. Head(q) \in Elements(q)
  BY <1>1, <1>2 DEF Elements
<1> QED
  BY <1>1, <1>4, <1>5, <1>6, <1>7

LEMMA Joins ==
  ASSUME NEW q \in Seq(Reader), NEW r \in Reader, r \notin Elements(q),
         \A i, j \in DOMAIN q : q[i] = q[j] => i = j
  PROVE  /\ \A s : s \in Elements(Append(q, r)) <=> s \in Elements(q) \/ s = r
         /\ \A i, j \in DOMAIN Append(q, r) : Append(q, r)[i] = Append(q, r)[j] => i = j
<1>1. /\ Len(q) \in Nat /\ DOMAIN Append(q, r) = 1..(Len(q) + 1) /\ DOMAIN q = 1..Len(q)
      /\ \A i \in 1..Len(q) : Append(q, r)[i] = q[i]
      /\ Append(q, r)[Len(q) + 1] = r
  BY Appended
<1>2. \A i \in 1..(Len(q) + 1) : i \in 1..Len(q) \/ i = Len(q) + 1
  BY <1>1
<1>3. \A i \in 1..Len(q) : q[i] # r /\ i \in 1..(Len(q) + 1)
  BY <1>1 DEF Elements
<1>4. Len(q) + 1 \in 1..(Len(q) + 1)
  BY <1>1
<1>5. \A i, j \in DOMAIN Append(q, r) : Append(q, r)[i] = Append(q, r)[j] => i = j
  BY <1>1, <1>2, <1>3
<1>6. \A s : s \in Elements(Append(q, r)) <=> s \in Elements(q) \/ s = r
  <2> TAKE s
  <2>1. ASSUME s \in Elements(Append(q, r)) PROVE s \in Elements(q) \/ s = r
    BY <2>1, <1>1, <1>2 DEF Elements
  <2>2. ASSUME s \in Elements(q) PROVE s \in Elements(Append(q, r))
    BY <2>2, <1>1, <1>3 DEF Elements
  <2>3. r \in Elements(Append(q, r))
    BY <1>1, <1>4 DEF Elements
  <2> QED
    BY <2>1, <2>2, <2>3
<1> QED
  BY <1>5, <1>6

LEMMA NoWaiters ==
  ASSUME waiters' = <<>>
  PROVE  Distinct' /\ Elements(waiters') = {}
  BY Empty DEF Distinct, Elements

(* Every receiver keeps its place, or leaves what is not one.              *)
LEMMA PlacesKept ==
  ASSUME Distinct, WaitersAreKept, UNCHANGED <<waiters, kind>>, queue' = queue \/ waiters' = <<>>,
         closed' = closed,
         \A r \in Reader : pc'[r] = pc[r] \/ {pc[r], pc'[r]} \cap {"waiting", "forgotten"} = {}
                           \/ (pc[r] = "forgotten" /\ pc'[r] \notin {"waiting", "forgotten"})
  PROVE  Distinct' /\ WaitersAreKept'
<1>1. Distinct'
  BY DEF Distinct
<1>2. \A r \in Reader : /\ pc'[r] = "waiting" <=> pc[r] = "waiting"
                        /\ pc'[r] = "forgotten" => pc[r] = "forgotten"
  OBVIOUS
<1> QED
  BY <1>1, <1>2 DEF WaitersAreKept

LEMMA TakeFacts ==
  ASSUME TypeOK, Numbered, NEW r \in Reader, queue # <<>>, Take(r), UNCHANGED arrived
  PROVE  /\ Numbered' /\ Head(queue) = Left + 1 /\ Left' = Left + 1 /\ Head(queue) # Nothing
<1>1. /\ Len(queue) \in Nat \ {0} /\ Len(queue') = Len(queue) - 1
      /\ DOMAIN queue = 1..Len(queue) /\ DOMAIN queue' = 1..(Len(queue) - 1)
      /\ \A i \in 1..(Len(queue) - 1) : queue'[i] = queue[i + 1]
      /\ Head(queue) = queue[1] /\ Head(queue) \in Message
  BY Shortened DEF TypeOK, Take
<1>2. arrived \in Int /\ Len(queue) <= arrived
  BY DEF TypeOK, Numbered
<1>3. \A i \in 1..(Len(queue) - 1) : i + 1 \in DOMAIN queue
  BY <1>1
<1>4. \A i \in 1..(Len(queue) - 1) : queue'[i] = (arrived - Len(queue)) + (i + 1)
  BY <1>1, <1>3 DEF Numbered, Left
<1>5. \A i \in DOMAIN queue' : queue'[i] = (arrived' - Len(queue')) + i
  BY <1>1, <1>2, <1>4
<1>6. Len(queue') <= arrived'
  BY <1>1, <1>2
<1>7. Numbered'
  BY <1>5, <1>6 DEF Numbered, Left
<1>8. Head(queue) = Left + 1
  BY <1>1 DEF Numbered
<1>9. Left' = Left + 1
  BY <1>1, <1>2 DEF Left
<1> QED
  BY <1>1, <1>7, <1>8, <1>9 DEF Message, Nothing

LEMMA AskKeeps ==
  ASSUME PortInv, NEW r \in Reader, pc[r] \in {"idle", "binding"}, ~closed, Ask(r),
         UNCHANGED <<kind, closed, arrived>>
  PROVE  Settled' /\ Numbered' /\ Distinct' /\ WaitersAreKept'
<1> USE DEF PortInv
<1>0. hand[r] = Nothing /\ r \notin Elements(waiters)
  BY DEF Settled, WaitersAreKept
<1>1. CASE queue # <<>> /\ Take(r)
  <2>1. Settled'
    BY <1>1, TakeFacts DEF Take, Settle, Settled, TypeOK
  <2>2. Distinct' /\ WaitersAreKept'
    <3>1. waiters' = <<>>
      BY <1>1 DEF WaitersAreKept, Take
    <3>2. \A q \in Reader : pc'[q] = pc[q] \/ {pc[q], pc'[q]} \cap {"waiting", "forgotten"} = {}
      BY <1>1 DEF Take, Settle, TypeOK
    <3> QED
      BY <3>1, <3>2, <1>1, PlacesKept DEF Take
  <2> QED
    BY <1>1, <2>1, <2>2, TakeFacts
<1>2. CASE Fail(r)
  <2>1. Settled'
    BY <1>2 DEF Fail, Settle, Settled, TypeOK, Failure, Nothing
  <2>2. Distinct' /\ WaitersAreKept'
    <3>1. \A q \in Reader : pc'[q] = pc[q] \/ {pc[q], pc'[q]} \cap {"waiting", "forgotten"} = {}
      BY <1>2 DEF Fail, Settle, TypeOK
    <3> QED
      BY <3>1, <1>2, PlacesKept DEF Fail
  <2> QED
    BY <1>2, <2>1, <2>2 DEF Fail, Numbered, Left
<1>3. CASE queue = <<>> /\ kind = "listener" /\ TakeSlot(r)
  <2>1. \A q \in Reader : pc'[q] = IF q = r THEN "waiting"
                                   ELSE IF pc[q] = "waiting" THEN "forgotten" ELSE pc[q]
    BY <1>3 DEF TakeSlot, WaitersAreKept
  <2>2. Settled'
    BY <1>3, <2>1 DEF TakeSlot, Settled
  <2>3. waiters' = <<r>> /\ queue' = <<>>
    BY <1>3 DEF TakeSlot
  <2>4. Distinct' /\ Elements(waiters') = {r}
    BY <2>3 DEF Distinct, Elements
  <2>5. WaitersAreKept'
    BY <1>3, <2>1, <2>3, <2>4 DEF WaitersAreKept
  <2> QED
    BY <1>3, <2>2, <2>4, <2>5 DEF TakeSlot, Numbered, Left
<1>4. CASE queue = <<>> /\ Line(r)
  <2>1. \A q \in Reader : pc'[q] = IF q = r THEN "waiting" ELSE pc[q]
    BY <1>4 DEF Line, TypeOK
  <2>2. Settled'
    BY <1>4, <2>1 DEF Line, Settled
  <2>3. /\ \A s : s \in Elements(waiters') <=> s \in Elements(waiters) \/ s = r
        /\ \A i, j \in DOMAIN waiters' : waiters'[i] = waiters'[j] => i = j
    BY <1>0, <1>4, Joins DEF Line, TypeOK, Distinct
  <2>4. WaitersAreKept'
    BY <1>4, <2>1, <2>3 DEF WaitersAreKept, Line
  <2> QED
    BY <1>4, <2>2, <2>3, <2>4 DEF Line, Numbered, Left, Distinct
<1> QED
  BY <1>1, <1>2, <1>3, <1>4 DEF Ask

LEMMA PortInit == Init => PortInv
<1> SUFFICES ASSUME Init PROVE PortInv
  OBVIOUS
<1>1. Settled /\ Numbered
  BY Empty, PortAssumption DEF Init, Settled, Numbered, Left
<1>2. Distinct /\ WaitersAreKept
  BY Empty DEF Init, Distinct, WaitersAreKept, Elements
<1> QED
  BY <1>1, <1>2, TypesInit DEF PortInv

LEMMA EndKeeps ==
  ASSUME PortInv, NEW r \in Reader, pc[r] = "woken", End(r), UNCHANGED port, UNCHANGED arrived
  PROVE  Settled' /\ Numbered' /\ Distinct' /\ WaitersAreKept'
<1> USE DEF PortInv
<1>1. \A q \in Reader : /\ pc'[q] = IF q = r THEN "idle" ELSE pc[q]
                        /\ hand'[q] = IF q = r THEN Nothing ELSE hand[q]
  BY DEF End, TypeOK
<1>2. Settled'
  BY <1>1 DEF Settled
<1>3. Distinct' /\ WaitersAreKept'
  BY <1>1, PlacesKept DEF port
<1> QED
  BY <1>2, <1>3 DEF port, Numbered, Left

LEMMA ArriveKeeps ==
  ASSUME PortInv, Arrive
  PROVE  Settled' /\ Numbered' /\ Distinct' /\ WaitersAreKept'
<1> USE DEF PortInv
<1>0. arrived + 1 # Nothing /\ arrived + 1 \in Message /\ arrived \in Nat
  BY PortAssumption DEF Arrive, Message, Nothing, TypeOK
<1>1. CASE waiters # <<>>
  <2>1. /\ \A s : s \in Elements(waiters') <=> s \in Elements(waiters) /\ s # Head(waiters)
        /\ \A i, j \in DOMAIN waiters' : waiters'[i] = waiters'[j] => i = j
        /\ Head(waiters) \in Elements(waiters) /\ Head(waiters) \in Reader
    BY <1>1, Members DEF Arrive, TypeOK, Distinct
  <2>2. \A q \in Reader : /\ pc'[q] = IF q = Head(waiters) THEN "woken" ELSE pc[q]
                          /\ hand'[q] = IF q = Head(waiters) THEN arrived + 1 ELSE hand[q]
    BY <1>1, <2>1 DEF Arrive, Settle, TypeOK
  <2>3. Settled'
    BY <2>2, <1>0 DEF Settled
  <2>4. queue = <<>> /\ queue' = <<>>
    BY <1>1 DEF Arrive, WaitersAreKept
  <2>5. Len(queue') = 0 /\ DOMAIN queue' = {} /\ arrived' = arrived + 1
    BY <2>4, Empty DEF Arrive
  <2>6. Numbered'
    BY <2>5, <1>0 DEF Numbered
  <2>7. WaitersAreKept'
    BY <2>1, <2>2, <2>4 DEF WaitersAreKept, Arrive
  <2> QED
    BY <2>1, <2>3, <2>6, <2>7 DEF Distinct
<1>2. CASE waiters = <<>>
  <2>1. /\ Len(queue) \in Nat /\ Len(queue') = Len(queue) + 1
        /\ DOMAIN queue' = 1..(Len(queue) + 1) /\ DOMAIN queue = 1..Len(queue)
        /\ \A i \in 1..Len(queue) : queue'[i] = queue[i]
        /\ queue'[Len(queue) + 1] = arrived + 1
    <3>1. queue' = Append(queue, arrived + 1) /\ queue \in Seq(Message)
      BY <1>2 DEF Arrive, TypeOK
    <3> QED
      BY <3>1, <1>0, Appended
  <2>2. arrived' = arrived + 1 /\ UNCHANGED <<waiters, pc, hand, kind, closed>>
    BY <1>2 DEF Arrive
  <2>3. \A i \in 1..(Len(queue) + 1) : i \in 1..Len(queue) \/ i = Len(queue) + 1
    BY <2>1
  <2>4. \A i \in 1..Len(queue) : queue'[i] = (arrived - Len(queue)) + i
    BY <2>1 DEF Numbered, Left
  <2>5. ASSUME NEW i \in DOMAIN queue' PROVE queue'[i] = (arrived' - Len(queue')) + i
    <3>1. CASE i \in 1..Len(queue)
      BY <3>1, <2>1, <2>2, <2>4, <1>0
    <3>2. CASE i = Len(queue) + 1
      BY <3>2, <2>1, <2>2, <1>0
    <3> QED
      BY <3>1, <3>2, <2>1, <2>3
  <2>6. Len(queue') <= arrived'
    BY <2>1, <2>2, <1>0 DEF Numbered
  <2>7. Numbered'
    BY <2>5, <2>6 DEF Numbered, Left
  <2>8. Settled' /\ Distinct'
    BY <2>2 DEF Settled, Distinct
  <2>9. WaitersAreKept'
    BY <1>2, <2>2 DEF WaitersAreKept
  <2> QED
    BY <2>7, <2>8, <2>9
<1> QED
  BY <1>1, <1>2

LEMMA CloseKeeps ==
  ASSUME PortInv, Close
  PROVE  Settled' /\ Numbered' /\ Distinct' /\ WaitersAreKept'
<1> USE DEF PortInv
<1>1. queue' = <<>> /\ waiters' = <<>> /\ closed' /\ kind' = kind /\ arrived' = arrived
  BY DEF Close
<1>2. \A q \in Reader :
        /\ pc'[q] = IF pc[q] = "waiting" THEN IF kind = "pubsub" THEN "woken" ELSE "forgotten"
                    ELSE pc[q]
        /\ hand'[q] = IF pc[q] = "waiting" /\ kind = "pubsub" THEN Failure ELSE hand[q]
  BY DEF Close, WaitersAreKept
<1>3. Settled'
  BY <1>2 DEF Settled, Failure, Nothing
<1>4. Distinct' /\ Elements(waiters') = {}
  BY <1>1, NoWaiters
<1>5. WaitersAreKept'
  <2>1. \A q \in Reader : pc'[q] # "waiting"
    BY <1>2
  <2>2. \A q \in Reader : pc'[q] = "forgotten" => kind = "listener" \/ kind # "pubsub"
    BY <1>2 DEF WaitersAreKept
  <2> QED
    BY <1>1, <1>4, <2>1, <2>2 DEF WaitersAreKept
<1>6. Numbered'
  <2>1. Len(queue') = 0 /\ DOMAIN queue' = {}
    BY <1>1, Empty
  <2>2. arrived' \in Nat
    BY <1>1, PortAssumption DEF TypeOK
  <2> QED
    BY <2>1, <2>2 DEF Numbered
<1> QED
  BY <1>3, <1>4, <1>5, <1>6

LEMMA FailKeeps ==
  ASSUME PortInv, NEW r \in Reader, pc[r] \in {"idle", "binding"}, Fail(r),
         UNCHANGED <<kind, closed, arrived>>
  PROVE  Settled' /\ Numbered' /\ Distinct' /\ WaitersAreKept'
<1> USE DEF PortInv
<1>1. \A q \in Reader : /\ pc'[q] = IF q = r THEN "woken" ELSE pc[q]
                        /\ hand'[q] = IF q = r THEN Failure ELSE hand[q]
  BY DEF Fail, Settle, TypeOK
<1>2. Settled'
  BY <1>1 DEF Settled, Failure, Nothing
<1>3. Distinct' /\ WaitersAreKept'
  BY <1>1, PlacesKept DEF Fail
<1> QED
  BY <1>2, <1>3 DEF Fail, Numbered, Left

LEMMA PortStep == PortInv /\ [Next]_vars => PortInv'
<1> SUFFICES ASSUME PortInv, [Next]_vars PROVE Settled' /\ Numbered' /\ Distinct' /\ WaitersAreKept'
  BY TypesStep DEF PortInv
<1>1. CASE Arrive
  BY <1>1, ArriveKeeps
<1>2. CASE Close
  BY <1>2, CloseKeeps
<1>3. CASE SourceStops \/ Bound \/ UNCHANGED vars
  <2>1. UNCHANGED <<kind, queue, waiters, closed, pc, hand, arrived>>
    BY <1>3 DEF SourceStops, Bound, vars, port, receivers, counts
  <2> QED
    BY <2>1 DEF PortInv, Settled, Numbered, Left, Distinct, WaitersAreKept
<1>4. ASSUME NEW r \in Reader, Recv(r) PROVE Settled' /\ Numbered' /\ Distinct' /\ WaitersAreKept'
  BY <1>4, AskKeeps DEF Recv, counts
<1>5. ASSUME NEW r \in Reader, RecvUnbound(r) PROVE Settled' /\ Numbered' /\ Distinct' /\ WaitersAreKept'
  <2>1. CASE Fail(r)
    BY <1>5, <2>1, FailKeeps DEF RecvUnbound, counts
  <2>2. CASE pc' = [pc EXCEPT ![r] = "binding"] /\ UNCHANGED <<queue, waiters, hand>>
    <3>1. \A q \in Reader : pc'[q] = IF q = r THEN "binding" ELSE pc[q]
      BY <2>2 DEF PortInv, TypeOK
    <3>2. pc[r] = "idle" /\ UNCHANGED <<kind, closed, arrived>>
      BY <1>5 DEF RecvUnbound, counts
    <3>3. Settled'
      BY <2>2, <3>1, <3>2 DEF PortInv, Settled
    <3>4. Distinct' /\ WaitersAreKept'
      BY <2>2, <3>1, <3>2, PlacesKept DEF PortInv
    <3> QED
      BY <2>2, <3>2, <3>3, <3>4 DEF PortInv, Numbered, Left
  <2> QED
    BY <1>5, <2>1, <2>2 DEF RecvUnbound
<1>6. ASSUME NEW r \in Reader, RecvBound(r) PROVE Settled' /\ Numbered' /\ Distinct' /\ WaitersAreKept'
  BY <1>6, AskKeeps, FailKeeps DEF RecvBound, counts
<1>7. ASSUME NEW r \in Reader, Deliver(r) \/ Drop(r) \/ Refuse(r) \/ Throw(r)
      PROVE  Settled' /\ Numbered' /\ Distinct' /\ WaitersAreKept'
  BY <1>7, EndKeeps DEF Deliver, Drop, Refuse, Throw, counts
<1>8. ASSUME NEW r \in Reader, Cancel(r) PROVE Settled' /\ Numbered' /\ Distinct' /\ WaitersAreKept'
  <2>1. UNCHANGED <<kind, queue, waiters, closed, pc, hand, arrived>>
    BY <1>8 DEF Cancel, port
  <2> QED
    BY <2>1 DEF PortInv, Settled, Numbered, Left, Distinct, WaitersAreKept
<1> QED
  BY <1>1, <1>2, <1>3, <1>4, <1>5, <1>6, <1>7, <1>8 DEF Next, Finish

(* Nobody waits beside a message, and nobody is forgotten except by a      *)
(* close or a second call on a listener.                                   *)
THEOREM WaitersKept == Spec => []WaitersAreKept
<1>1. Spec => []PortInv
  BY PortInit, PortStep, PTL DEF Spec
<1>2. PortInv => WaitersAreKept
  BY DEF PortInv
<1> QED
  BY <1>1, <1>2, PTL

-----------------------------------------------------------------------------
(* What a step does to the messages.                                       *)

SameFates ==
  /\ Left' = Left /\ got' = got /\ dropped' = dropped /\ discarded' = discarded
  /\ \A r \in Reader : \/ hand'[r] = hand[r]
                       \/ hand[r] \in {Nothing, Failure} /\ hand'[r] \in {Nothing, Failure}
Taken(r) ==
  /\ hand[r] = Nothing /\ hand' = [hand EXCEPT ![r] = Left + 1] /\ Left' = Left + 1
  /\ got' = got /\ dropped' = dropped /\ discarded' = discarded
Passed(r) ==
  /\ hand[r] \in Message /\ hand' = [hand EXCEPT ![r] = Nothing] /\ Left' = Left
  /\ got' = [got EXCEPT ![r] = Append(@, hand[r])]
  /\ dropped' = dropped /\ discarded' = discarded
Lost(r) ==
  /\ hand[r] \in Message /\ hand' = [hand EXCEPT ![r] = Nothing] /\ Left' = Left
  /\ got' = got /\ dropped' = dropped \cup {hand[r]} /\ discarded' = discarded
Refused(r) ==
  /\ hand[r] \in Message /\ hand' = [hand EXCEPT ![r] = Nothing] /\ Left' = Left
  /\ got' = got /\ dropped' = dropped /\ discarded' = discarded \cup {hand[r]}
Thrown ==
  /\ Left' = arrived /\ arrived' = arrived /\ got' = got /\ dropped' = dropped
  /\ discarded' = discarded \cup (Left + 1)..arrived
  /\ \A r \in Reader : \/ hand'[r] = hand[r]
                       \/ hand[r] \in {Nothing, Failure} /\ hand'[r] \in {Nothing, Failure}

LEMMA QueuedMessages ==
  ASSUME PortInv
  PROVE  /\ \A m : m \in Elements(queue) <=> m \in (Left + 1)..arrived
         /\ \A i, j \in DOMAIN queue : i < j => queue[i] < queue[j]
<1>1. /\ Len(queue) \in Nat /\ DOMAIN queue = 1..Len(queue)
      /\ arrived \in Int /\ Left = arrived - Len(queue)
  BY Listed DEF PortInv, TypeOK, Left
<1>2. \A i \in 1..Len(queue) : queue[i] = Left + i
  BY <1>1 DEF PortInv, Numbered
<1>3. ASSUME NEW m \in Elements(queue) PROVE m \in (Left + 1)..arrived
  <2>1. PICK i \in 1..Len(queue) : m = queue[i]
    BY <1>1 DEF Elements
  <2> QED
    BY <2>1, <1>1, <1>2
<1>4. ASSUME NEW m \in (Left + 1)..arrived PROVE m \in Elements(queue)
  <2>1. m - Left \in 1..Len(queue) /\ Left + (m - Left) = m
    BY <1>1
  <2> QED
    BY <2>1, <1>1, <1>2 DEF Elements
<1> QED
  BY <1>1, <1>2, <1>3, <1>4

LEMMA AskEffect ==
  ASSUME PortInv, NEW r \in Reader, pc[r] \in {"idle", "binding"}, Ask(r),
         UNCHANGED <<arrived, got, dropped, discarded>>
  PROVE  SameFates \/ Taken(r)
<1> USE DEF PortInv
<1>0. hand[r] = Nothing
  BY DEF Settled
<1>1. CASE queue # <<>> /\ Take(r)
  <2>1. Head(queue) = Left + 1 /\ Left' = Left + 1
    BY <1>1, TakeFacts
  <2> QED
    BY <1>0, <1>1, <2>1 DEF Taken, Take, Settle
<1>2. CASE Fail(r)
  BY <1>0, <1>2 DEF SameFates, Fail, Settle, Left, TypeOK
<1>3. CASE TakeSlot(r) \/ Line(r)
  BY <1>3 DEF SameFates, Left, TakeSlot, Line
<1> QED
  BY <1>1, <1>2, <1>3 DEF Ask

LEMMA ArriveEffect ==
  ASSUME PortInv, Arrive
  PROVE  SameFates \/ \E r \in Reader : Taken(r)
<1> USE DEF PortInv
<1>0. arrived + 1 \in Message /\ arrived \in Nat
  BY PortAssumption DEF Arrive, Message, TypeOK
<1>1. CASE waiters # <<>>
  <2>1. Head(waiters) \in Elements(waiters) /\ Head(waiters) \in Reader
    BY <1>1, Members DEF TypeOK, Distinct
  <2>2. hand[Head(waiters)] = Nothing
    BY <2>1 DEF WaitersAreKept, Settled
  <2>3. queue = <<>> /\ queue' = <<>>
    BY <1>1 DEF Arrive, WaitersAreKept
  <2>4. Left = arrived /\ Left' = arrived + 1
    BY <2>3, <1>0, Empty DEF Arrive, Left
  <2>5. Taken(Head(waiters))
    BY <1>1, <2>2, <2>4 DEF Arrive, Settle, Taken
  <2> QED
    BY <2>1, <2>5
<1>2. CASE waiters = <<>>
  <2>1. queue' = Append(queue, arrived + 1) /\ queue \in Seq(Message)
    BY <1>2 DEF Arrive, TypeOK
  <2>2. Len(queue') = Len(queue) + 1 /\ Len(queue) \in Nat
    BY <2>1, <1>0, Appended
  <2>3. Left' = Left
    BY <2>2, <1>0 DEF Arrive, Left
  <2> QED
    BY <1>2, <2>3 DEF Arrive, SameFates
<1> QED
  BY <1>1, <1>2

LEMMA CloseEffect ==
  ASSUME PortInv, Close
  PROVE  Thrown
<1>1. Left' = arrived
  BY Empty DEF Close, Left, PortInv, TypeOK
<1>2. Elements(queue) = (Left + 1)..arrived
  BY QueuedMessages
<1>3. \A r \in Reader : \/ hand'[r] = hand[r]
                        \/ hand[r] \in {Nothing, Failure} /\ hand'[r] \in {Nothing, Failure}
  <2>1. \A r \in Reader : r \in Elements(waiters) => hand[r] = Nothing
    BY DEF PortInv, WaitersAreKept, Settled
  <2> QED
    BY <2>1 DEF Close
<1> QED
  BY <1>1, <1>2, <1>3 DEF Close, Thrown

LEMMA Effects ==
  ASSUME PortInv, [Next]_vars
  PROVE  \/ SameFates \/ Thrown
         \/ \E r \in Reader : Taken(r) \/ Passed(r) \/ Lost(r) \/ Refused(r)
<1>1. CASE Arrive
  BY <1>1, ArriveEffect
<1>2. CASE Close
  BY <1>2, CloseEffect
<1>3. CASE SourceStops \/ Bound \/ UNCHANGED vars
  BY <1>3 DEF SourceStops, Bound, vars, port, receivers, counts, SameFates, Left
<1>4. ASSUME NEW r \in Reader, Recv(r) PROVE SameFates \/ Taken(r)
  BY <1>4, AskEffect DEF Recv, counts
<1>5. ASSUME NEW r \in Reader, Fail(r), pc[r] \in {"idle", "binding"}, UNCHANGED counts PROVE SameFates
  <2>1. hand[r] = Nothing
    BY <1>5 DEF PortInv, Settled
  <2> QED
    BY <1>5, <2>1 DEF SameFates, Fail, Settle, Left, PortInv, TypeOK, counts
<1>6. ASSUME NEW r \in Reader, RecvUnbound(r) PROVE SameFates
  <2>1. CASE UNCHANGED <<queue, waiters, hand>>
    BY <1>6, <2>1 DEF RecvUnbound, SameFates, Left, counts
  <2> QED
    BY <1>6, <1>5, <2>1 DEF RecvUnbound
<1>7. ASSUME NEW r \in Reader, RecvBound(r) PROVE SameFates \/ Taken(r)
  BY <1>7, <1>5, AskEffect DEF RecvBound, counts
<1>8. ASSUME NEW r \in Reader, Deliver(r) PROVE Passed(r)
  BY <1>8 DEF Deliver, End, Passed, Left, port
<1>9. ASSUME NEW r \in Reader, Drop(r) PROVE Lost(r)
  BY <1>9 DEF Drop, End, Lost, Left, port
<1>10. ASSUME NEW r \in Reader, Refuse(r) PROVE Refused(r)
  BY <1>10 DEF Refuse, End, Refused, Left, port
<1>11. ASSUME NEW r \in Reader, Throw(r) PROVE SameFates
  BY <1>11 DEF Throw, End, SameFates, Left, port, counts, PortInv, TypeOK
<1>12. ASSUME NEW r \in Reader, Cancel(r) PROVE SameFates
  BY <1>12 DEF Cancel, SameFates, Left, port
<1> QED
  BY <1>1, <1>2, <1>3, <1>4, <1>6, <1>7, <1>8, <1>9, <1>10, <1>11, <1>12 DEF Next, Finish

-----------------------------------------------------------------------------
(* Every message has one fate.                                             *)

LEMMA LeftIs == PortInv => Left \in Nat /\ Left <= arrived /\ arrived \in Nat
  BY Listed DEF PortInv, TypeOK, Numbered, Left

LEMMA SentBecomes ==
  ASSUME PortInv, NEW r \in Reader, Passed(r)
  PROVE  \A q \in Reader : Elements(got'[q]) = IF q = r THEN Elements(got[r]) \cup {hand[r]}
                                                        ELSE Elements(got[q])
<1>1. /\ DOMAIN Append(got[r], hand[r]) = 1..(Len(got[r]) + 1) /\ Len(got[r]) \in Nat
      /\ DOMAIN got[r] = 1..Len(got[r])
      /\ \A i \in 1..Len(got[r]) : Append(got[r], hand[r])[i] = got[r][i]
      /\ Append(got[r], hand[r])[Len(got[r]) + 1] = hand[r]
  BY Appended DEF Passed, PortInv, TypeOK
<1>2. Elements(Append(got[r], hand[r])) = Elements(got[r]) \cup {hand[r]}
  <2>1. ASSUME NEW m \in Elements(Append(got[r], hand[r])) PROVE m \in Elements(got[r]) \cup {hand[r]}
    <3>1. PICK i \in 1..(Len(got[r]) + 1) : m = Append(got[r], hand[r])[i]
      BY <1>1 DEF Elements
    <3>2. i \in 1..Len(got[r]) \/ i = Len(got[r]) + 1
      BY <1>1
    <3> QED
      BY <1>1, <3>1, <3>2 DEF Elements
  <2>2. ASSUME NEW m \in Elements(got[r]) PROVE m \in Elements(Append(got[r], hand[r]))
    <3>1. PICK i \in 1..Len(got[r]) : m = got[r][i]
      BY <1>1 DEF Elements
    <3>2. i \in 1..(Len(got[r]) + 1)
      BY <1>1
    <3> QED
      BY <1>1, <3>1, <3>2 DEF Elements
  <2>3. hand[r] \in Elements(Append(got[r], hand[r]))
    <3>1. Len(got[r]) + 1 \in 1..(Len(got[r]) + 1)
      BY <1>1
    <3> QED
      BY <1>1, <3>1 DEF Elements
  <2> QED
    BY <2>1, <2>2, <2>3
<1>3. \A q \in Reader : got'[q] = IF q = r THEN Append(got[r], hand[r]) ELSE got[q]
  BY DEF Passed, PortInv, TypeOK
<1> QED
  BY <1>2, <1>3

LEMMA FatesSame == PortInv /\ Fates /\ SameFates => Fates'
<1> SUFFICES ASSUME PortInv, Fates, SameFates PROVE Fates'
  OBVIOUS
<1>1. Left' = Left /\ got' = got /\ dropped' = dropped /\ discarded' = discarded /\ Left \in Nat
  BY LeftIs DEF SameFates
<1>2. \A m \in 1..Left : \A r \in Reader : hand'[r] = m <=> hand[r] = m
  BY <1>1 DEF SameFates, Nothing, Failure
<1>3. \A m \in 1..Left : (InHand(m)' <=> InHand(m)) /\ (Sent(m)' <=> Sent(m))
  BY <1>1, <1>2 DEF InHand, Sent
<1>4. \A r \in Reader : hand'[r] # Nothing /\ hand'[r] # Failure => hand'[r] \in 1..Left
  BY DEF SameFates, Fates
<1>5. \A q, r \in Reader : hand'[q] = hand'[r] /\ hand'[q] \in 1..Left => q = r
  BY <1>2 DEF Fates
<1> QED
  BY <1>1, <1>3, <1>4, <1>5 DEF Fates

LEMMA FatesThrown == PortInv /\ Fates /\ Thrown => Fates'
<1> SUFFICES ASSUME PortInv, Fates, Thrown PROVE Fates'
  OBVIOUS
<1>1. /\ Left' = arrived /\ got' = got /\ dropped' = dropped
      /\ discarded' = discarded \cup (Left + 1)..arrived
      /\ Left \in Nat /\ arrived \in Nat /\ Left <= arrived
  BY LeftIs DEF Thrown
<1>2. \A m \in 1..arrived : \A r \in Reader : hand'[r] = m <=> hand[r] = m
  BY <1>1 DEF Thrown, Nothing, Failure
<1>3. \A m \in 1..arrived : (InHand(m)' <=> InHand(m)) /\ (Sent(m)' <=> Sent(m))
  BY <1>1, <1>2 DEF InHand, Sent
<1>4. \A m \in 1..arrived : m \in 1..Left \/ (m \in (Left + 1)..arrived /\ m \notin 1..Left)
  BY <1>1
<1>5. 1..Left \subseteq 1..arrived /\ (Left + 1)..arrived \subseteq 1..arrived
  BY <1>1
<1>6. \A m \in (Left + 1)..arrived : ~InHand(m) /\ ~Sent(m) /\ m \notin dropped
  <2> TAKE m \in (Left + 1)..arrived
  <2>1. m \notin 1..Left /\ m # Nothing /\ m # Failure
    BY <1>1 DEF Nothing, Failure
  <2> QED
    BY <2>1 DEF Fates, InHand, Sent
<1>7. \A r \in Reader : hand'[r] # Nothing /\ hand'[r] # Failure => hand'[r] \in 1..arrived
  BY <1>5 DEF Thrown, Fates
<1>8. \A q, r \in Reader : hand'[q] = hand'[r] /\ hand'[q] \in 1..arrived => q = r
  <2> TAKE q, r \in Reader
  <2> HAVE hand'[q] = hand'[r] /\ hand'[q] \in 1..arrived
  <2>1. hand[q] = hand[r] /\ hand[q] \in 1..arrived
    BY <1>2
  <2>2. hand[q] \in 1..Left
    BY <2>1, <1>4, <1>6 DEF InHand
  <2> QED
    BY <2>1, <2>2 DEF Fates
<1>9. \A q, r \in Reader : \A m \in 1..arrived :
        m \in Elements(got[q]) /\ m \in Elements(got[r]) => q = r
  BY DEF Fates
<1>10. \A m \in 1..arrived : InHand(m) \/ Sent(m) \/ m \in dropped \/ m \in discarded'
  BY <1>1, <1>4 DEF Fates
<1>11. \A m \in 1..arrived :
         /\ ~(InHand(m) /\ Sent(m)) /\ ~(InHand(m) /\ m \in dropped)
         /\ ~(InHand(m) /\ m \in discarded') /\ ~(Sent(m) /\ m \in dropped)
         /\ ~(Sent(m) /\ m \in discarded') /\ ~(m \in dropped /\ m \in discarded')
  <2> TAKE m \in 1..arrived
  <2>1. CASE m \in 1..Left
    <3>1. m \in discarded' <=> m \in discarded
      BY <2>1, <1>1
    <3> QED
      BY <3>1, <2>1 DEF Fates
  <2>2. CASE m \in (Left + 1)..arrived
    BY <2>2, <1>6
  <2> QED
    BY <2>1, <2>2, <1>4
<1>12. /\ \A r \in Reader : Elements(got[r]) \subseteq 1..arrived
       /\ dropped \subseteq 1..arrived /\ discarded' \subseteq 1..arrived
  BY <1>1, <1>5 DEF Fates
<1> QED
  BY <1>1, <1>3, <1>7, <1>8, <1>9, <1>10, <1>11, <1>12 DEF Fates

LEMMA FatesTaken == ASSUME PortInv, Fates, NEW r \in Reader, Taken(r) PROVE Fates'
<1>1. /\ Left' = Left + 1 /\ got' = got /\ dropped' = dropped /\ discarded' = discarded
      /\ Left \in Nat
  BY LeftIs DEF Taken
<1>2. \A q \in Reader : hand'[q] = IF q = r THEN Left + 1 ELSE hand[q]
  BY DEF Taken, PortInv, TypeOK
<1>3. \A m \in 1..(Left + 1) : m = Left + 1 \/ m \in 1..Left
  BY <1>1
<1>4. Left + 1 \notin 1..Left /\ 1..Left \subseteq 1..(Left + 1) /\ Left + 1 \in 1..(Left + 1)
      /\ Left + 1 # Nothing /\ Left + 1 # Failure
  BY <1>1 DEF Nothing, Failure
<1>5. \A m : Sent(m)' <=> Sent(m)
  BY <1>1 DEF Sent
<1>6. /\ ~InHand(Left + 1) /\ ~Sent(Left + 1)
      /\ Left + 1 \notin dropped /\ Left + 1 \notin discarded
  BY <1>4 DEF Fates, InHand, Sent
<1>7. \A m \in 1..Left : InHand(m)' <=> InHand(m)
  <2>1. hand[r] \notin 1..Left
    BY DEF Taken, Nothing
  <2> QED
    BY <1>2, <1>4, <2>1 DEF InHand
<1>8. \A m : m = Left + 1 => InHand(m)'
  BY <1>2 DEF InHand
<1>9. \A q \in Reader : hand'[q] # Nothing /\ hand'[q] # Failure => hand'[q] \in 1..(Left + 1)
  BY <1>2, <1>4 DEF Fates
<1>10. \A q, s \in Reader : hand'[q] = hand'[s] /\ hand'[q] \in 1..(Left + 1) => q = s
  BY <1>2, <1>3, <1>6 DEF Fates, InHand
<1>11. \A q, s \in Reader : \A m \in 1..(Left + 1) :
         m \in Elements(got[q]) /\ m \in Elements(got[s]) => q = s
  BY <1>3, <1>6 DEF Fates, Sent
<1>12. \A m \in 1..(Left + 1) : InHand(m)' \/ Sent(m)' \/ m \in dropped \/ m \in discarded
  BY <1>3, <1>5, <1>7, <1>8 DEF Fates
<1>13. \A m \in 1..(Left + 1) :
         /\ ~(InHand(m)' /\ Sent(m)') /\ ~(InHand(m)' /\ m \in dropped)
         /\ ~(InHand(m)' /\ m \in discarded) /\ ~(Sent(m)' /\ m \in dropped)
         /\ ~(Sent(m)' /\ m \in discarded) /\ ~(m \in dropped /\ m \in discarded)
  BY <1>3, <1>5, <1>6, <1>7 DEF Fates
<1>14. /\ \A q \in Reader : Elements(got[q]) \subseteq 1..(Left + 1)
       /\ dropped \subseteq 1..(Left + 1) /\ discarded \subseteq 1..(Left + 1)
  BY <1>4 DEF Fates
<1> QED
  BY <1>1, <1>9, <1>10, <1>11, <1>12, <1>13, <1>14 DEF Fates

LEMMA FatesPassed == ASSUME PortInv, Fates, NEW r \in Reader, Passed(r) PROVE Fates'
<1>1. Left' = Left /\ dropped' = dropped /\ discarded' = discarded /\ Left \in Nat
  BY LeftIs DEF Passed
<1>2. \A q \in Reader : hand'[q] = IF q = r THEN Nothing ELSE hand[q]
  BY DEF Passed, PortInv, TypeOK
<1>3. hand[r] \in 1..Left /\ InHand(hand[r]) /\ Nothing \notin 1..Left
  BY <1>1 DEF Passed, Fates, InHand, Message, Nothing, Failure
<1>4. \A m \in 1..Left : Sent(m)' <=> (Sent(m) \/ m = hand[r])
  BY SentBecomes DEF Sent
<1>5. \A m \in 1..Left : InHand(m)' <=> (InHand(m) /\ m # hand[r])
  BY <1>2, <1>3 DEF InHand, Fates
<1>6. \A q \in Reader : hand'[q] # Nothing /\ hand'[q] # Failure => hand'[q] \in 1..Left
  BY <1>2 DEF Fates
<1>0. \A q \in Reader : \A m :
        m \in Elements(got'[q]) <=> m \in Elements(got[q]) \/ (q = r /\ m = hand[r])
  <2> TAKE q \in Reader
  <2>1. Elements(got'[q]) = IF q = r THEN Elements(got[r]) \cup {hand[r]} ELSE Elements(got[q])
    BY SentBecomes
  <2> QED
    BY <2>1
<1>7. \A q \in Reader : Elements(got'[q]) \subseteq 1..Left
  BY <1>0, <1>3 DEF Fates
<1>8. \A q, s \in Reader : hand'[q] = hand'[s] /\ hand'[q] \in 1..Left => q = s
  BY <1>2, <1>3 DEF Fates
<1>9. ~Sent(hand[r])
  BY <1>3 DEF Fates
<1>10. \A q, s \in Reader : \A m \in 1..Left :
         m \in Elements(got'[q]) /\ m \in Elements(got'[s]) => q = s
  BY <1>0, <1>3, <1>9 DEF Fates, Sent
<1>11. \A m \in 1..Left :
         /\ InHand(m)' \/ Sent(m)' \/ m \in dropped \/ m \in discarded
         /\ ~(InHand(m)' /\ Sent(m)') /\ ~(InHand(m)' /\ m \in dropped)
         /\ ~(InHand(m)' /\ m \in discarded) /\ ~(Sent(m)' /\ m \in dropped)
         /\ ~(Sent(m)' /\ m \in discarded) /\ ~(m \in dropped /\ m \in discarded)
  BY <1>3, <1>4, <1>5 DEF Fates
<1> QED
  BY <1>1, <1>6, <1>7, <1>8, <1>10, <1>11 DEF Fates

LEMMA FatesLost == ASSUME PortInv, Fates, NEW r \in Reader, Lost(r) PROVE Fates'
<1>1. /\ Left' = Left /\ got' = got /\ discarded' = discarded /\ Left \in Nat
      /\ dropped' = dropped \cup {hand[r]}
  BY LeftIs DEF Lost
<1>2. \A q \in Reader : hand'[q] = IF q = r THEN Nothing ELSE hand[q]
  BY DEF Lost, PortInv, TypeOK
<1>3. hand[r] \in 1..Left /\ InHand(hand[r]) /\ Nothing \notin 1..Left
  BY <1>1 DEF Lost, Fates, InHand, Message, Nothing, Failure
<1>4. \A m : Sent(m)' <=> Sent(m)
  BY <1>1 DEF Sent
<1>5. \A m \in 1..Left : InHand(m)' <=> (InHand(m) /\ m # hand[r])
  BY <1>2, <1>3 DEF InHand, Fates
<1>6. \A q \in Reader : hand'[q] # Nothing /\ hand'[q] # Failure => hand'[q] \in 1..Left
  BY <1>2 DEF Fates
<1>8. \A q, s \in Reader : hand'[q] = hand'[s] /\ hand'[q] \in 1..Left => q = s
  BY <1>2, <1>3 DEF Fates
<1>11. \A m \in 1..Left :
         /\ InHand(m)' \/ Sent(m)' \/ m \in dropped' \/ m \in discarded
         /\ ~(InHand(m)' /\ Sent(m)') /\ ~(InHand(m)' /\ m \in dropped')
         /\ ~(InHand(m)' /\ m \in discarded) /\ ~(Sent(m)' /\ m \in dropped')
         /\ ~(Sent(m)' /\ m \in discarded) /\ ~(m \in dropped' /\ m \in discarded)
  BY <1>1, <1>3, <1>4, <1>5 DEF Fates
<1>12. /\ dropped' \subseteq 1..Left /\ discarded \subseteq 1..Left
       /\ \A q \in Reader : Elements(got[q]) \subseteq 1..Left
       /\ \A q, s \in Reader : \A m \in 1..Left :
            m \in Elements(got[q]) /\ m \in Elements(got[s]) => q = s
  BY <1>1, <1>3 DEF Fates
<1> QED
  BY <1>1, <1>6, <1>8, <1>11, <1>12 DEF Fates

LEMMA FatesRefused == ASSUME PortInv, Fates, NEW r \in Reader, Refused(r) PROVE Fates'
<1>1. /\ Left' = Left /\ got' = got /\ dropped' = dropped /\ Left \in Nat
      /\ discarded' = discarded \cup {hand[r]}
  BY LeftIs DEF Refused
<1>2. \A q \in Reader : hand'[q] = IF q = r THEN Nothing ELSE hand[q]
  BY DEF Refused, PortInv, TypeOK
<1>3. hand[r] \in 1..Left /\ InHand(hand[r]) /\ Nothing \notin 1..Left
  BY <1>1 DEF Refused, Fates, InHand, Message, Nothing, Failure
<1>4. \A m : Sent(m)' <=> Sent(m)
  BY <1>1 DEF Sent
<1>5. \A m \in 1..Left : InHand(m)' <=> (InHand(m) /\ m # hand[r])
  BY <1>2, <1>3 DEF InHand, Fates
<1>6. \A q \in Reader : hand'[q] # Nothing /\ hand'[q] # Failure => hand'[q] \in 1..Left
  BY <1>2 DEF Fates
<1>8. \A q, s \in Reader : hand'[q] = hand'[s] /\ hand'[q] \in 1..Left => q = s
  BY <1>2, <1>3 DEF Fates
<1>11. \A m \in 1..Left :
         /\ InHand(m)' \/ Sent(m)' \/ m \in dropped \/ m \in discarded'
         /\ ~(InHand(m)' /\ Sent(m)') /\ ~(InHand(m)' /\ m \in dropped)
         /\ ~(InHand(m)' /\ m \in discarded') /\ ~(Sent(m)' /\ m \in dropped)
         /\ ~(Sent(m)' /\ m \in discarded') /\ ~(m \in dropped /\ m \in discarded')
  BY <1>1, <1>3, <1>4, <1>5 DEF Fates
<1>12. /\ dropped \subseteq 1..Left /\ discarded' \subseteq 1..Left
       /\ \A q \in Reader : Elements(got[q]) \subseteq 1..Left
       /\ \A q, s \in Reader : \A m \in 1..Left :
            m \in Elements(got[q]) /\ m \in Elements(got[s]) => q = s
  BY <1>1, <1>3 DEF Fates
<1> QED
  BY <1>1, <1>6, <1>8, <1>11, <1>12 DEF Fates

LEMMA FatesStep == PortInv /\ Fates /\ [Next]_vars => Fates'
  BY Effects, FatesSame, FatesThrown, FatesTaken, FatesPassed, FatesLost, FatesRefused

(* What a client has been sent is older than what its reader holds.        *)
LEMMA OrderedStep == PortInv /\ Fates /\ Ordered /\ [Next]_vars => Ordered'
<1> SUFFICES ASSUME PortInv, Fates, Ordered, [Next]_vars PROVE Ordered'
  OBVIOUS
<1>1. CASE SameFates \/ Thrown
  BY <1>1 DEF SameFates, Thrown, Ordered
<1>2. ASSUME NEW r \in Reader, Taken(r) PROVE Ordered'
  <2>1. \A q \in Reader : hand'[q] = IF q = r THEN Left + 1 ELSE hand[q]
    BY <1>2 DEF Taken, PortInv, TypeOK
  <2>2. \A i \in DOMAIN got[r] : got[r][i] \in 1..Left
    BY DEF Fates, Elements
  <2>3. \A i \in DOMAIN got[r] : got[r][i] < Left + 1
    BY <2>2, LeftIs
  <2> QED
    BY <1>2, <2>1, <2>3 DEF Taken, Ordered
<1>3. ASSUME NEW r \in Reader, Lost(r) \/ Refused(r) PROVE Ordered'
  <2>1. \A q \in Reader : hand'[q] = IF q = r THEN Nothing ELSE hand[q]
    BY <1>3 DEF Lost, Refused, PortInv, TypeOK
  <2> QED
    BY <1>3, <2>1 DEF Lost, Refused, Ordered
<1>4. ASSUME NEW r \in Reader, Passed(r) PROVE Ordered'
  <2>1. \A q \in Reader : /\ hand'[q] = IF q = r THEN Nothing ELSE hand[q]
                          /\ got'[q] = IF q = r THEN Append(got[r], hand[r]) ELSE got[q]
    BY <1>4 DEF Passed, PortInv, TypeOK
  <2>2. /\ DOMAIN Append(got[r], hand[r]) = 1..(Len(got[r]) + 1) /\ Len(got[r]) \in Nat
        /\ DOMAIN got[r] = 1..Len(got[r])
        /\ \A i \in 1..Len(got[r]) : Append(got[r], hand[r])[i] = got[r][i]
        /\ Append(got[r], hand[r])[Len(got[r]) + 1] = hand[r]
    BY <1>4, Appended DEF Passed, PortInv, TypeOK
  <2>3. hand[r] # Nothing /\ hand[r] # Failure
    BY <1>4, PortAssumption DEF Passed, Message, Nothing, Failure
  <2>4. ASSUME NEW i \in 1..(Len(got[r]) + 1), NEW j \in 1..(Len(got[r]) + 1), i < j
        PROVE  Append(got[r], hand[r])[i] < Append(got[r], hand[r])[j]
    <3>1. i \in 1..Len(got[r])
      BY <2>2, <2>4
    <3>2. CASE j = Len(got[r]) + 1
      BY <3>1, <3>2, <2>2, <2>3 DEF Ordered
    <3>3. CASE j \in 1..Len(got[r])
      BY <3>1, <3>3, <2>2, <2>4 DEF Ordered
    <3> QED
      BY <3>2, <3>3, <2>2
  <2>5. ASSUME NEW q \in Reader
        PROVE  /\ \A i, j \in DOMAIN got'[q] : i < j => got'[q][i] < got'[q][j]
               /\ hand'[q] # Nothing /\ hand'[q] # Failure => \A i \in DOMAIN got'[q] : got'[q][i] < hand'[q]
    <3>1. CASE q = r
      BY <3>1, <2>1, <2>2, <2>4
    <3>2. CASE q # r
      BY <3>2, <2>1 DEF Ordered
    <3> QED
      BY <3>1, <3>2
  <2> QED
    BY <2>5 DEF Ordered
<1> QED
  BY <1>1, <1>2, <1>3, <1>4, Effects

-----------------------------------------------------------------------------
(* What a cancel costs.                                                    *)

LEMMA Finite ==
  ASSUME TypeOK
  PROVE  /\ IsFiniteSet(dropped) /\ IsFiniteSet(Cancelled)
         /\ Cardinality(dropped) \in Nat /\ Cardinality(Cancelled) \in Nat
<1>1. IsFiniteSet(Message)
  BY FS_Interval, PortAssumption DEF Message
<1>2. IsFiniteSet(dropped)
  BY <1>1, FS_Subset DEF TypeOK
<1>3. Cancelled \subseteq Reader
  BY DEF Cancelled
<1>4. IsFiniteSet(Cancelled)
  BY <1>3, FS_Subset, PortAssumption
<1> QED
  BY <1>2, <1>4, FS_CardinalityType

LEMMA EndCancelled ==
  ASSUME TypeOK, NEW r \in Reader, End(r)
  PROVE  /\ Cardinality(Cancelled') \in Nat
         /\ Cardinality(Cancelled') = IF cancelled[r] THEN Cardinality(Cancelled) - 1
                                      ELSE Cardinality(Cancelled)
<1>1. cancelled' = [cancelled EXCEPT ![r] = FALSE] /\ cancelled \in [Reader -> BOOLEAN]
  BY DEF End, TypeOK
<1>2. Cancelled' = Cancelled \ {r}
  BY <1>1 DEF Cancelled
<1>3. r \in Cancelled <=> cancelled[r]
  BY DEF Cancelled
<1>4. /\ IsFiniteSet(Cancelled \ {r})
      /\ Cardinality(Cancelled \ {r}) = IF r \in Cancelled THEN Cardinality(Cancelled) - 1
                                        ELSE Cardinality(Cancelled)
  BY Finite, FS_RemoveElement
<1>5. Cardinality(Cancelled \ {r}) \in Nat
  BY <1>4, FS_CardinalityType
<1> QED
  BY <1>2, <1>3, <1>4, <1>5

LEMMA LossStep == TypeOK /\ Loss /\ [Next]_vars => Loss'
<1> SUFFICES ASSUME TypeOK, Loss, [Next]_vars
             PROVE  Cardinality(dropped') + Cardinality(Cancelled') <= cancels'
  BY DEF Loss
<1>0. /\ Cardinality(dropped) \in Nat /\ Cardinality(Cancelled) \in Nat /\ cancels \in Int
      /\ Cardinality(dropped) + Cardinality(Cancelled) <= cancels
  BY Finite DEF Loss, TypeOK
<1>1. CASE UNCHANGED <<cancelled, dropped, cancels>>
  BY <1>0, <1>1 DEF Cancelled
<1>2. ASSUME NEW r \in Reader, End(r), UNCHANGED <<dropped, cancels>>
      PROVE  Cardinality(dropped') + Cardinality(Cancelled') <= cancels'
  BY <1>0, <1>2, EndCancelled
<1>3. ASSUME NEW r \in Reader, Drop(r)
      PROVE  Cardinality(dropped') + Cardinality(Cancelled') <= cancels'
  <2>1. Cardinality(Cancelled') = Cardinality(Cancelled) - 1
    BY <1>3, EndCancelled DEF Drop
  <2>2. /\ IsFiniteSet(dropped \cup {hand[r]})
        /\ Cardinality(dropped \cup {hand[r]}) = IF hand[r] \in dropped THEN Cardinality(dropped)
                                                 ELSE Cardinality(dropped) + 1
    BY Finite, FS_AddElement
  <2>3. dropped' = dropped \cup {hand[r]} /\ cancels' = cancels
    BY <1>3 DEF Drop
  <2> QED
    BY <1>0, <2>1, <2>2, <2>3
<1>4. ASSUME NEW r \in Reader, Cancel(r)
      PROVE  Cardinality(dropped') + Cardinality(Cancelled') <= cancels'
  <2>1. cancelled' = [cancelled EXCEPT ![r] = TRUE] /\ cancelled \in [Reader -> BOOLEAN]
    BY <1>4 DEF Cancel, TypeOK
  <2>2. Cancelled' = Cancelled \cup {r} /\ r \notin Cancelled
    BY <1>4, <2>1 DEF Cancelled, Cancel
  <2>3. Cardinality(Cancelled') = Cardinality(Cancelled) + 1
    BY <2>2, Finite, FS_AddElement
  <2>4. dropped' = dropped /\ cancels' = cancels + 1
    BY <1>4 DEF Cancel
  <2> QED
    BY <1>0, <2>3, <2>4
<1> QED
  BY <1>1, <1>2, <1>3, <1>4 DEF Next, Finish, Arrive, SourceStops, Bound, Close, Recv, RecvUnbound,
     RecvBound, Deliver, Refuse, Throw, vars, counts, receivers

LEMMA LossInit == Init => Loss
<1> SUFFICES ASSUME Init PROVE Loss
  OBVIOUS
<1>1. Cancelled = {} /\ dropped = {} /\ cancels = 0
  BY DEF Init, Cancelled
<1> QED
  BY <1>1, FS_EmptySet DEF Loss

-----------------------------------------------------------------------------

IInv == PortInv /\ Fates /\ Ordered /\ Loss

LEMMA IInvInit == Init => IInv
<1> SUFFICES ASSUME Init PROVE IInv
  OBVIOUS
<1>0. Len(queue) = 0 /\ arrived = 0
  BY Empty DEF Init
<1>1. Left = 0 /\ \A r \in Reader : hand[r] = Nothing /\ Elements(got[r]) = {}
  <2>1. Left = 0
    BY <1>0 DEF Left
  <2>2. \A r \in Reader : hand[r] = Nothing /\ got[r] = <<>>
    BY DEF Init
  <2>3. Elements(<<>>) = {}
    BY Empty DEF Elements
  <2> QED
    BY <2>1, <2>2, <2>3
<1>2. Fates
  BY <1>1 DEF Init, Fates, InHand, Sent
<1>3. Ordered
  BY Empty DEF Init, Ordered
<1> QED
  BY <1>2, <1>3, PortInit, LossInit DEF IInv

LEMMA IInvNext == IInv /\ [Next]_vars => IInv'
  BY PortStep, FatesStep, OrderedStep, LossStep DEF IInv, PortInv

LEMMA FatesImply == IInv => EachOnceInOrder
<1> SUFFICES ASSUME IInv PROVE EachOnceInOrder
  OBVIOUS
<1> USE DEF IInv
<1>1. Left \in Nat /\ arrived \in Nat /\ Left <= arrived
  BY LeftIs
<1>2. \A m : m \in Held <=> m \in 1..Left /\ InHand(m)
  <2> TAKE m
  <2>1. 1..Left \subseteq Message
    BY <1>1, PortAssumption DEF Message, PortInv, TypeOK
  <2>2. m \in Message => m # Nothing /\ m # Failure
    BY PortAssumption DEF Message, Nothing, Failure
  <2> QED
    BY <2>1, <2>2 DEF Held, InHand, Fates
<1>3. \A m : m \in Given <=> m \in 1..Left /\ Sent(m)
  BY DEF Given, Sent, Fates
<1>4. \A m : m \in Elements(queue) <=> m \in (Left + 1)..arrived
  BY QueuedMessages
<1>5. \A m : m \in 1..arrived <=> m \in 1..Left \/ m \in (Left + 1)..arrived
  BY <1>1
<1>6. \A m \in (Left + 1)..arrived : m \notin 1..Left
  BY <1>1
<1>7. 1..arrived = Elements(queue) \cup Held \cup Given \cup dropped \cup discarded
  BY <1>2, <1>3, <1>4, <1>5 DEF Fates
<1>8. Elements(queue) \cap (Held \cup Given \cup dropped \cup discarded) = {}
  BY <1>2, <1>3, <1>4, <1>6 DEF Fates
<1>9. /\ Held \cap (Given \cup dropped \cup discarded) = {}
      /\ Given \cap (dropped \cup discarded) = {} /\ dropped \cap discarded = {}
  BY <1>2, <1>3 DEF Fates
<1>10. ASSUME NEW q \in Reader, NEW r \in Reader, q # r
       PROVE  /\ hand[q] = hand[r] => hand[q] \notin Message
              /\ Elements(got[q]) \cap Elements(got[r]) = {}
  <2>1. hand[q] \in Message => hand[q] \in 1..Left
    BY PortAssumption DEF Message, Nothing, Failure, Fates
  <2>2. \A m \in Elements(got[q]) : m \in 1..Left
    BY DEF Fates
  <2> QED
    BY <1>10, <2>1, <2>2 DEF Fates
<1> QED
  BY <1>7, <1>8, <1>9, <1>10, QueuedMessages DEF EachOnceInOrder, Ordered, Loss, Cancelled

(* Every message that arrives has one fate, clients are sent messages in   *)
(* the order of arrival, and a cancelled call costs one message at most.   *)
THEOREM EachArrivesOnce == Spec => []EachOnceInOrder
<1>1. Spec => []IInv
  BY IInvInit, IInvNext, PTL DEF Spec
<1> QED
  BY <1>1, FatesImply, PTL
=============================================================================
