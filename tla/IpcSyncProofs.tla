--------------------------- MODULE IpcSyncProofs ----------------------------
(***************************************************************************)
(* Proofs about IpcSync, for any threads, number of spins, initial count   *)
(* and bounds.                                                             *)
(***************************************************************************)
EXTENDS IpcSync, FiniteSetTheorems, TLAPS

AsleepAt(w) ==
  IF w = "lock" THEN "lockAsleep" ELSE IF w = "seq" THEN "waitAsleep" ELSE "semAsleep"

Offers == {"lock", "unlockNotify", "waitNotify"}

(* The lists hold the sleepers, each once.                                 *)
Queued ==
  \A w \in Word :
    /\ \A i, j \in DOMAIN asleep[w] : asleep[w][i] = asleep[w][j] => i = j
    /\ \A i \in DOMAIN asleep[w] : pc[asleep[w][i]] = AsleepAt(w)
    /\ \A t \in Thread : pc[t] = AsleepAt(w) => \E i \in DOMAIN asleep[w] : asleep[w][i] = t

Held == \A t \in Thread : pc[t] = "waitStore" => t \in holding

(* A unit is taken only where one was read.                                *)
Read == \A t \in Thread : pc[t] \in {"decrement", "tryDecrement"} => seen[t] > 0

(* Whoever has read the sequence number has read no later one.             *)
Seen ==
  \A t \in Thread : pc[t] \in {"waitStore", "waitNotify", "waitWait"} => seen[t] <= seqWord

Waits == {"waitNotify", "waitWait", "waitAsleep"}

(* A wake-up is owed to threads that wait, and those of them that do not   *)
(* sleep have read an older number; of those that sleep it is owed to the  *)
(* first ones.                                                             *)
Owed ==
  \A s \in Thread :
    /\ owed[s] \subseteq Waiters
    /\ \A t \in owed[s] : pc[t] # "waitAsleep" => seen[t] < seqWord
    /\ \A i, j \in DOMAIN asleep["seq"] :
         i < j /\ asleep["seq"][j] \in owed[s] => asleep["seq"][i] \in owed[s]

LockInv == TypeOK /\ Queued /\ Held /\ Read /\ Exclusive

IInv == LockInv /\ Seen /\ Owed /\ SignalDelivered

Beds == {"lockAsleep", "waitAsleep", "semAsleep"}

-----------------------------------------------------------------------------
(* Lists of sleepers.                                                      *)

LEMMA Appended ==
  ASSUME NEW q \in Seq(Thread), NEW t \in Thread
  PROVE  /\ Append(q, t) \in Seq(Thread)
         /\ DOMAIN Append(q, t) = 1..(Len(q) + 1)
         /\ DOMAIN q = 1..Len(q) /\ Len(q) \in Nat
         /\ \A i \in 1..Len(q) : Append(q, t)[i] = q[i]
         /\ Append(q, t)[Len(q) + 1] = t
  OBVIOUS

LEMMA Shortened ==
  ASSUME NEW q \in Seq(Thread), q # <<>>
  PROVE  /\ Tail(q) \in Seq(Thread)
         /\ Len(q) \in Nat \ {0} /\ DOMAIN q = 1..Len(q)
         /\ Head(q) = q[1] /\ q[1] \in Thread
         /\ DOMAIN Tail(q) = 1..(Len(q) - 1)
         /\ \A i \in 1..(Len(q) - 1) : Tail(q)[i] = q[i + 1]
  OBVIOUS

LEMMA Joined ==
  ASSUME NEW a \in Seq(Thread), NEW b \in Seq(Thread)
  PROVE  /\ a \o b \in Seq(Thread)
         /\ Len(a) \in Nat /\ Len(b) \in Nat
         /\ DOMAIN (a \o b) = 1..(Len(a) + Len(b))
         /\ \A j \in 1..(Len(a) + Len(b)) : (a \o b)[j] = IF j <= Len(a) THEN a[j] ELSE b[j - Len(a)]
  OBVIOUS

LEMMA Cut ==
  ASSUME NEW q \in Seq(Thread), NEW i \in DOMAIN q
  PROVE  LET r == SubSeq(q, 1, i - 1) \o SubSeq(q, i + 1, Len(q))
         IN  /\ r \in Seq(Thread)
             /\ Len(q) \in Nat /\ DOMAIN q = 1..Len(q)
             /\ DOMAIN r = 1..(Len(q) - 1)
             /\ \A j \in 1..(Len(q) - 1) : r[j] = IF j < i THEN q[j] ELSE q[j + 1]
<1> DEFINE a == SubSeq(q, 1, i - 1)
           b == SubSeq(q, i + 1, Len(q))
<1>1. i \in 1..Len(q) /\ Len(q) \in Nat /\ DOMAIN q = 1..Len(q)
  OBVIOUS
<1>2. a \in Seq(Thread) /\ Len(a) = i - 1 /\ \A j \in 1..(i - 1) : a[j] = q[j]
  BY <1>1
<1>3. b \in Seq(Thread) /\ Len(b) = Len(q) - i /\ \A j \in 1..(Len(q) - i) : b[j] = q[i + j]
  BY <1>1
<1> HIDE DEF a, b
<1>4. /\ a \o b \in Seq(Thread)
      /\ DOMAIN (a \o b) = 1..(Len(q) - 1)
      /\ \A j \in 1..(Len(q) - 1) : (a \o b)[j] = IF j <= i - 1 THEN a[j] ELSE b[j - (i - 1)]
  <2>1. Len(a) + Len(b) = Len(q) - 1
    BY <1>1, <1>2, <1>3
  <2>2. /\ a \o b \in Seq(Thread)
        /\ DOMAIN (a \o b) = 1..(Len(a) + Len(b))
        /\ \A j \in 1..(Len(a) + Len(b)) : (a \o b)[j] = IF j <= Len(a) THEN a[j] ELSE b[j - Len(a)]
    BY <1>2, <1>3, Joined
  <2> QED
    BY <2>1, <2>2, <1>2
<1>5. ASSUME NEW j \in 1..(Len(q) - 1)
      PROVE  (a \o b)[j] = IF j < i THEN q[j] ELSE q[j + 1]
  <2>1. CASE j < i
    <3>1. j <= i - 1 /\ j \in 1..(i - 1)
      BY <2>1, <1>1
    <3> QED
      BY <3>1, <2>1, <1>2, <1>4
  <2>2. CASE ~(j < i)
    <3>1. /\ j - (i - 1) \in 1..(Len(q) - i) /\ i + (j - (i - 1)) = j + 1
          /\ ~(j <= i - 1)
      BY <2>2, <1>1
    <3> QED
      BY <3>1, <2>2, <1>3, <1>4
  <2> QED
    BY <2>1, <2>2
<1> QED
  BY <1>1, <1>4, <1>5 DEF a, b

-----------------------------------------------------------------------------
(* What Atomics.notify() changes.                                          *)
LEMMA NotifyTypes ==
  ASSUME TypeOK, NEW t \in Thread, NEW w \in Word, NEW l \in Location,
         NotifyOne(t, w, l) \/ NotifyAll(t, w, l)
  PROVE  /\ asleep' \in [Word -> Seq(Thread)]
         /\ pc' \in [Thread -> Location]
         /\ spins' \in [Thread -> 0..Spins]
         /\ timed' \in [Thread -> BOOLEAN]
<1>1. PICK woken \in SUBSET Thread, rest \in Seq(Thread) : Notify(t, w, woken, rest, l)
  <2>1. asleep[w] \in Seq(Thread)
    BY DEF TypeOK
  <2>2. CASE NotifyOne(t, w, l)
    BY <2>1, <2>2, Shortened DEF NotifyOne
  <2>3. CASE NotifyAll(t, w, l)
    <3>1. \A i \in DOMAIN asleep[w] : asleep[w][i] \in Thread
      BY <2>1
    <3>2. <<>> \in Seq(Thread)
      OBVIOUS
    <3> QED
      BY <3>1, <3>2, <2>3 DEF NotifyAll
  <2> QED
    BY <2>2, <2>3
<1>2. asleep' \in [Word -> Seq(Thread)]
  BY <1>1 DEF TypeOK, Notify
<1>3. pc' \in [Thread -> Location]
  <2>1. Resumed(w) \in Location
    BY DEF Resumed, Location
  <2> QED
    BY <1>1, <2>1 DEF TypeOK, Notify
<1>4. spins' \in [Thread -> 0..Spins]
  <2>1. 0 \in 0..Spins
    BY IpcAssumption
  <2> QED
    BY <1>1, <2>1 DEF TypeOK, Notify
<1>5. timed' \in [Thread -> BOOLEAN]
  BY <1>1, Zenon DEF TypeOK, Notify
<1> QED
  BY <1>2, <1>3, <1>4, <1>5

(* owed is set by Owe, whatever the step.                                  *)
CodeTypes ==
  /\ lockWord \in {0, 1} /\ seqWord \in Nat /\ semWord \in Nat
  /\ asleep \in [Word -> Seq(Thread)]
  /\ pc \in [Thread -> Location]
  /\ spins \in [Thread -> 0..Spins]
  /\ timed \in [Thread -> BOOLEAN]
  /\ seen \in [Thread -> Nat]
  /\ holding \subseteq Thread

(* The sleeps, returns and restarts of a call.                             *)
LEMMA ParkTypes ==
  ASSUME TypeOK, NEW t \in Thread, NEW w \in Word, NEW l \in Location, NEW limit \in BOOLEAN,
         \/ Sleep(t, w, l)
         \/ (Locking(t, limit) \/ Done(t)) /\ (UNCHANGED asleep \/ Leave(t, w))
  PROVE  /\ asleep' \in [Word -> Seq(Thread)]
         /\ pc' \in [Thread -> Location]
         /\ spins' \in [Thread -> 0..Spins]
         /\ timed' \in [Thread -> BOOLEAN]
<1>0. 0 \in 0..Spins /\ asleep[w] \in Seq(Thread)
  BY IpcAssumption DEF TypeOK
<1>1. CASE Sleep(t, w, l)
  <2>1. Append(asleep[w], t) \in Seq(Thread)
    BY <1>0, Appended
  <2> QED
    BY <1>1, <2>1 DEF Sleep, Goto, TypeOK
<1>2. ASSUME Locking(t, limit) \/ Done(t)
      PROVE  /\ pc' \in [Thread -> Location]
             /\ spins' \in [Thread -> 0..Spins]
             /\ timed' \in [Thread -> BOOLEAN]
  BY <1>2, <1>0 DEF Locking, Done, Goto, TypeOK, Location
<1>3. ASSUME Leave(t, w) PROVE asleep' \in [Word -> Seq(Thread)]
  <2>1. PICK i \in DOMAIN asleep[w] :
          asleep' = [asleep EXCEPT ![w] =
            SubSeq(asleep[w], 1, i - 1) \o SubSeq(asleep[w], i + 1, Len(asleep[w]))]
    BY <1>3 DEF Leave
  <2>2. SubSeq(asleep[w], 1, i - 1) \o SubSeq(asleep[w], i + 1, Len(asleep[w])) \in Seq(Thread)
    BY <1>0, Cut
  <2> QED
    BY <2>1, <2>2 DEF TypeOK
<1> QED
  BY <1>1, <1>2, <1>3 DEF TypeOK

LEMMA CodeTypesStep ==
  ASSUME TypeOK, Read, NEW t \in Thread, Call(t) \/ Continue(t) \/ TimeOut(t)
  PROVE  CodeTypes'
<1>0. TypeOK /\ Read /\ 0 \in 0..Spins
  BY IpcAssumption
<1>1. ASSUME NEW limit \in BOOLEAN, Lock(t, limit) PROVE CodeTypes'
  BY <1>1, <1>0 DEF Lock, Locking, Goto, TypeOK, CodeTypes, Word, Location
<1>2. ASSUME Acquire(t) PROVE CodeTypes'
  BY <1>2, <1>0 DEF Acquire, Done, Goto, TypeOK, CodeTypes, Word, Location
<1>3. ASSUME Busy(t) PROVE CodeTypes'
  <2>1. pc' \in [Thread -> Location] /\ timed' \in [Thread -> BOOLEAN]
    BY <1>3, <1>0 DEF Busy, Done, Goto, TypeOK, Location
  <2>2. spins' \in [Thread -> 0..Spins]
    <3>1. spins[t] < Spins => spins[t] + 1 \in 0..Spins
      BY IpcAssumption DEF TypeOK
    <3>2. \/ spins' = [spins EXCEPT ![t] = 0]
          \/ spins[t] < Spins /\ spins' = [spins EXCEPT ![t] = spins[t] + 1]
          \/ spins' = spins
      BY <1>3 DEF Busy, Done
    <3> QED
      BY <3>1, <3>2, <1>0 DEF TypeOK
  <2> QED
    BY <1>3, <2>1, <2>2, <1>0 DEF Busy, TypeOK, CodeTypes
<1>4. ASSUME LockWait(t) PROVE CodeTypes'
  <2>1. asleep' \in [Word -> Seq(Thread)] /\ pc' \in [Thread -> Location]
        /\ spins' \in [Thread -> 0..Spins] /\ timed' \in [Thread -> BOOLEAN]
    BY <1>4, <1>0, ParkTypes DEF LockWait, Word, Location, TypeOK
  <2> QED
    BY <1>4, <2>1, <1>0 DEF LockWait, TypeOK, CodeTypes
<1>5. ASSUME TryLock(t) PROVE CodeTypes'
  BY <1>5, <1>0 DEF TryLock, sleepers, TypeOK, CodeTypes, Word, Location
<1>6. ASSUME Unlock(t) PROVE CodeTypes'
  BY <1>6, <1>0 DEF Unlock, Goto, TypeOK, CodeTypes, Word, Location
<1>7. ASSUME UnlockNotify(t) PROVE CodeTypes'
  <2>1. NotifyOne(t, "lock", "idle")
    BY <1>7 DEF UnlockNotify
  <2> QED
    BY <1>7, <2>1, <1>0, NotifyTypes DEF UnlockNotify, TypeOK, CodeTypes, Word, Location
<1>8. ASSUME TimeOut(t) PROVE CodeTypes'
  <2>1. asleep' \in [Word -> Seq(Thread)] /\ pc' \in [Thread -> Location]
        /\ spins' \in [Thread -> 0..Spins] /\ timed' \in [Thread -> BOOLEAN]
    BY <1>8, <1>0, ParkTypes DEF TimeOut, Word, Location, TypeOK
  <2> QED
    BY <1>8, <2>1, <1>0 DEF TimeOut, TypeOK, CodeTypes
<1>9. ASSUME NEW limit \in BOOLEAN, Wait(t, limit) PROVE CodeTypes'
  BY <1>9, <1>0 DEF Wait, Goto, TypeOK, CodeTypes, Word, Location
<1>10. ASSUME WaitStore(t) PROVE CodeTypes'
  BY <1>10, <1>0 DEF WaitStore, Goto, TypeOK, CodeTypes, Word, Location
<1>11. ASSUME WaitNotify(t) PROVE CodeTypes'
  <2>1. NotifyOne(t, "lock", "waitWait")
    BY <1>11 DEF WaitNotify
  <2> QED
    BY <1>11, <2>1, <1>0, NotifyTypes DEF WaitNotify, TypeOK, CodeTypes, Word, Location
<1>12. ASSUME WaitWait(t) PROVE CodeTypes'
  <2>1. asleep' \in [Word -> Seq(Thread)] /\ pc' \in [Thread -> Location]
        /\ spins' \in [Thread -> 0..Spins] /\ timed' \in [Thread -> BOOLEAN]
    BY <1>12, <1>0, ParkTypes DEF WaitWait, Word, Location, TypeOK
  <2>2. seen' \in [Thread -> Nat]
    BY <1>12, <1>0 DEF WaitWait, TypeOK
  <2> QED
    BY <1>12, <2>1, <2>2, <1>0 DEF WaitWait, TypeOK, CodeTypes
<1>13. ASSUME NEW l \in {"signalNotify", "broadcastNotify"}, Add(t, l) PROVE CodeTypes'
  BY <1>13, <1>0 DEF Add, Goto, TypeOK, CodeTypes, Word, Location
<1>14. ASSUME SignalNotify(t) PROVE CodeTypes'
  <2>1. NotifyOne(t, "seq", "idle")
    BY <1>14 DEF SignalNotify
  <2> QED
    BY <1>14, <2>1, <1>0, NotifyTypes DEF SignalNotify, TypeOK, CodeTypes, Word, Location
<1>15. ASSUME BroadcastNotify(t) PROVE CodeTypes'
  <2>1. NotifyAll(t, "seq", "idle")
    BY <1>15 DEF BroadcastNotify
  <2> QED
    BY <1>15, <2>1, <1>0, NotifyTypes DEF BroadcastNotify, TypeOK, CodeTypes, Word, Location
<1>16. ASSUME NEW l \in {"load", "tryLoad"}, SemCall(t, l) PROVE CodeTypes'
  BY <1>16, <1>0 DEF SemCall, Goto, TypeOK, CodeTypes, Word, Location
<1>17. ASSUME Load(t) PROVE CodeTypes'
  BY <1>17, <1>0 DEF Load, Goto, TypeOK, CodeTypes, Word, Location
<1>18. ASSUME Decrement(t) PROVE CodeTypes'
  <2>1. seen[t] - 1 \in Nat
    BY <1>18, <1>0 DEF Decrement, TypeOK, Read
  <2> QED
    BY <1>18, <2>1, <1>0 DEF Decrement, Goto, TypeOK, CodeTypes, Location
<1>19. ASSUME Contended(t) PROVE CodeTypes'
  BY <1>19, <1>0 DEF Contended, Goto, TypeOK, CodeTypes, Word, Location
<1>20. ASSUME SemWait(t) PROVE CodeTypes'
  <2>1. asleep' \in [Word -> Seq(Thread)] /\ pc' \in [Thread -> Location]
        /\ spins' \in [Thread -> 0..Spins] /\ timed' \in [Thread -> BOOLEAN]
    BY <1>20, <1>0, ParkTypes DEF SemWait, Word, Location, TypeOK, Goto
  <2> QED
    BY <1>20, <2>1, <1>0 DEF SemWait, TypeOK, CodeTypes
<1>21. ASSUME Post(t) PROVE CodeTypes'
  BY <1>21, <1>0 DEF Post, Goto, TypeOK, CodeTypes, Word, Location
<1>22. ASSUME PostNotify(t) PROVE CodeTypes'
  <2>1. NotifyOne(t, "sem", "idle")
    BY <1>22 DEF PostNotify
  <2> QED
    BY <1>22, <2>1, <1>0, NotifyTypes DEF PostNotify, TypeOK, CodeTypes, Word, Location
<1> QED
  BY <1>1, <1>2, <1>3, <1>4, <1>5, <1>6, <1>7, <1>8, <1>9, <1>10, <1>11, <1>12, <1>13, <1>14, <1>15, <1>16, <1>17, <1>18, <1>19, <1>20, <1>21, <1>22 DEF Call, Continue, LockStep

-----------------------------------------------------------------------------
(* The lists and the program counters change together.                     *)

Only(t) == \A u \in Thread : u # t => pc'[u] = pc[u]

LEMMA QueuedRuns ==
  ASSUME TypeOK, Queued, NEW t \in Thread,
         asleep' = asleep, pc[t] \notin Beds, pc'[t] \notin Beds, Only(t)
  PROVE  Queued'
<1> SUFFICES ASSUME NEW w \in Word
             PROVE  /\ \A i, j \in DOMAIN asleep[w] : asleep[w][i] = asleep[w][j] => i = j
                    /\ \A i \in DOMAIN asleep[w] : pc'[asleep[w][i]] = AsleepAt(w)
                    /\ \A u \in Thread : pc'[u] = AsleepAt(w) => \E i \in DOMAIN asleep[w] : asleep[w][i] = u
  BY DEF Queued
<1>1. AsleepAt(w) \in Beds
  BY DEF AsleepAt, Beds
<1>2. \A i \in DOMAIN asleep[w] : asleep[w][i] \in Thread
  BY DEF TypeOK
<1> QED
  BY <1>1, <1>2 DEF Queued, Only

LEMMA QueuedSleeps ==
  ASSUME TypeOK, Queued, NEW t \in Thread, NEW v \in Word,
         Sleep(t, v, AsleepAt(v)), pc[t] \notin Beds
  PROVE  Queued'
<1> DEFINE q == asleep[v]
<1>0. \A u, v1 \in Word : AsleepAt(u) = AsleepAt(v1) => u = v1
  BY DEF AsleepAt, Word
<1>1. AsleepAt(v) \in Beds
  BY DEF AsleepAt, Beds
<1>2. /\ asleep' = [asleep EXCEPT ![v] = Append(q, t)]
      /\ pc' = [pc EXCEPT ![t] = AsleepAt(v)]
  BY DEF Sleep, Goto
<1>3. \A w \in Word : \A i \in DOMAIN asleep[w] : asleep[w][i] \in Thread /\ asleep[w][i] # t
  BY DEF TypeOK, Queued, AsleepAt, Beds
<1>4. ASSUME NEW w \in Word, w # v
      PROVE  /\ \A i, j \in DOMAIN asleep'[w] : asleep'[w][i] = asleep'[w][j] => i = j
             /\ \A i \in DOMAIN asleep'[w] : pc'[asleep'[w][i]] = AsleepAt(w)
             /\ \A u \in Thread : pc'[u] = AsleepAt(w) => \E i \in DOMAIN asleep'[w] : asleep'[w][i] = u
  <2>1. asleep'[w] = asleep[w]
    BY <1>2, <1>4 DEF TypeOK
  <2>2. AsleepAt(w) # AsleepAt(v)
    BY <1>0, <1>4
  <2> QED
    BY <2>1, <2>2, <1>2, <1>3 DEF TypeOK, Queued
<1>5. /\ \A i, j \in DOMAIN asleep'[v] : asleep'[v][i] = asleep'[v][j] => i = j
      /\ \A i \in DOMAIN asleep'[v] : pc'[asleep'[v][i]] = AsleepAt(v)
      /\ \A u \in Thread : pc'[u] = AsleepAt(v) => \E i \in DOMAIN asleep'[v] : asleep'[v][i] = u
  <2>1. q \in Seq(Thread) /\ asleep'[v] = Append(q, t)
    BY <1>2 DEF TypeOK
  <2>2. /\ DOMAIN asleep'[v] = 1..(Len(q) + 1) /\ DOMAIN q = 1..Len(q) /\ Len(q) \in Nat
        /\ \A i \in 1..Len(q) : asleep'[v][i] = q[i]
        /\ asleep'[v][Len(q) + 1] = t
    BY <2>1, Appended
  <2>0. /\ \A i \in 1..Len(q) : q[i] # t
        /\ \A i, j \in 1..Len(q) : q[i] = q[j] => i = j
    BY <2>2, <1>3 DEF Queued
  <2>3. \A i, j \in DOMAIN asleep'[v] : asleep'[v][i] = asleep'[v][j] => i = j
    <3> SUFFICES ASSUME NEW i \in 1..(Len(q) + 1), NEW j \in 1..(Len(q) + 1),
                        asleep'[v][i] = asleep'[v][j]
                 PROVE  i = j
      BY <2>2
    <3>1. CASE i \in 1..Len(q) /\ j \in 1..Len(q)
      BY <3>1, <2>0, <2>2
    <3>2. CASE i = Len(q) + 1 \/ j = Len(q) + 1
      BY <3>2, <2>0, <2>2
    <3> QED
      BY <3>1, <3>2, <2>2
  <2>4. \A i \in DOMAIN asleep'[v] : pc'[asleep'[v][i]] = AsleepAt(v)
    BY <2>2, <1>2, <1>3 DEF Queued, TypeOK
  <2>5. ASSUME NEW u \in Thread, pc'[u] = AsleepAt(v) PROVE \E i \in DOMAIN asleep'[v] : asleep'[v][i] = u
    <3>1. CASE u = t
      BY <3>1, <2>2
    <3>2. CASE u # t
      <4>1. PICK i \in DOMAIN q : q[i] = u
        BY <3>2, <2>5, <1>2 DEF Queued, TypeOK
      <4> QED
        BY <4>1, <2>2
    <3> QED
      BY <3>1, <3>2
  <2> QED
    BY <2>3, <2>4, <2>5
<1> QED
  BY <1>4, <1>5 DEF Queued

(* The k-th of the sleepers on v leaves its list.                          *)
Drops(v, k) ==
  /\ k \in DOMAIN asleep[v]
  /\ \A w \in Word : w # v => asleep'[w] = asleep[w]
  /\ DOMAIN asleep'[v] = 1..(Len(asleep[v]) - 1)
  /\ \A j \in 1..(Len(asleep[v]) - 1) :
       asleep'[v][j] = IF j < k THEN asleep[v][j] ELSE asleep[v][j + 1]

LEMMA LeaveDrops ==
  ASSUME TypeOK, NEW t \in Thread, NEW v \in Word, Leave(t, v)
  PROVE  \E k \in DOMAIN asleep[v] : asleep[v][k] = t /\ Drops(v, k)
<1> DEFINE q == asleep[v]
<1>1. PICK k \in DOMAIN q :
        q[k] = t /\ asleep' = [asleep EXCEPT ![v] = SubSeq(q, 1, k - 1) \o SubSeq(q, k + 1, Len(q))]
  BY DEF Leave
<1>2. q \in Seq(Thread) /\ asleep'[v] = SubSeq(q, 1, k - 1) \o SubSeq(q, k + 1, Len(q))
  BY <1>1 DEF TypeOK
<1>3. \A w \in Word : w # v => asleep'[w] = asleep[w]
  BY <1>1 DEF TypeOK
<1> HIDE DEF q
<1>4. /\ DOMAIN asleep'[v] = 1..(Len(q) - 1)
      /\ \A j \in 1..(Len(q) - 1) : asleep'[v][j] = IF j < k THEN q[j] ELSE q[j + 1]
  BY <1>1, <1>2, Cut
<1> QED
  BY <1>1, <1>3, <1>4 DEF Drops, q

LEMMA HeadDrops ==
  ASSUME TypeOK, NEW v \in Word, asleep[v] # <<>>,
         asleep' = [asleep EXCEPT ![v] = Tail(asleep[v])]
  PROVE  1 \in DOMAIN asleep[v] /\ asleep[v][1] = Head(asleep[v]) /\ Drops(v, 1)
<1> DEFINE q == asleep[v]
<1>1. q \in Seq(Thread) /\ asleep'[v] = Tail(q)
  BY DEF TypeOK
<1>2. \A w \in Word : w # v => asleep'[w] = asleep[w]
  BY DEF TypeOK
<1>3. /\ Len(q) \in Nat \ {0} /\ DOMAIN q = 1..Len(q) /\ Head(q) = q[1]
      /\ DOMAIN asleep'[v] = 1..(Len(q) - 1)
      /\ \A i \in 1..(Len(q) - 1) : asleep'[v][i] = q[i + 1]
  BY <1>1, Shortened
<1> QED
  BY <1>2, <1>3 DEF Drops

(* It goes on, and t, which does not sleep, does a step.                   *)
LEMMA QueuedDrops ==
  ASSUME TypeOK, Queued, NEW h \in Thread, NEW t \in Thread, NEW v \in Word, NEW k \in DOMAIN asleep[v],
         asleep[v][k] = h, Drops(v, k), pc'[h] \notin Beds,
         t = h \/ (pc[t] \notin Beds /\ pc'[t] \notin Beds),
         \A u \in Thread : u # t /\ u # h => pc'[u] = pc[u]
  PROVE  Queued'
<1> DEFINE q == asleep[v]
<1>0. \A u, w \in Word : AsleepAt(u) = AsleepAt(w) => u = w
  BY DEF AsleepAt, Word
<1>1. \A w \in Word : AsleepAt(w) \in Beds
  BY DEF AsleepAt, Beds
<1>3. \A w \in Word : \A i \in DOMAIN asleep[w] : asleep[w][i] \in Thread
  BY DEF TypeOK
<1>4. ASSUME NEW w \in Word, w # v
      PROVE  /\ \A i, j \in DOMAIN asleep'[w] : asleep'[w][i] = asleep'[w][j] => i = j
             /\ \A i \in DOMAIN asleep'[w] : pc'[asleep'[w][i]] = AsleepAt(w)
             /\ \A u \in Thread : pc'[u] = AsleepAt(w) => \E i \in DOMAIN asleep'[w] : asleep'[w][i] = u
  <2>1. asleep'[w] = asleep[w]
    BY <1>4 DEF Drops
  <2>2. pc[h] # AsleepAt(w)
    BY <1>0, <1>4 DEF Queued
  <2> QED
    BY <2>1, <2>2, <1>1, <1>3 DEF Queued
<1>5. /\ \A i, j \in DOMAIN asleep'[v] : asleep'[v][i] = asleep'[v][j] => i = j
      /\ \A i \in DOMAIN asleep'[v] : pc'[asleep'[v][i]] = AsleepAt(v)
      /\ \A u \in Thread : pc'[u] = AsleepAt(v) => \E i \in DOMAIN asleep'[v] : asleep'[v][i] = u
  <2>1. q \in Seq(Thread)
    BY DEF TypeOK
  <2>2. /\ Len(q) \in Nat /\ DOMAIN q = 1..Len(q) /\ DOMAIN asleep'[v] = 1..(Len(q) - 1)
        /\ \A j \in 1..(Len(q) - 1) : asleep'[v][j] = IF j < k THEN q[j] ELSE q[j + 1]
    BY <2>1 DEF Drops
  <2>3. \A i \in DOMAIN asleep'[v] :
          \E j \in DOMAIN q : j # k /\ j = (IF i < k THEN i ELSE i + 1) /\ asleep'[v][i] = q[j]
    BY <2>2
  <2>4. \A i, j \in DOMAIN asleep'[v] : asleep'[v][i] = asleep'[v][j] => i = j
    <3> SUFFICES ASSUME NEW i \in DOMAIN asleep'[v], NEW j \in DOMAIN asleep'[v], asleep'[v][i] = asleep'[v][j]
                 PROVE  i = j
      OBVIOUS
    <3>1. (IF i < k THEN i ELSE i + 1) = (IF j < k THEN j ELSE j + 1)
      BY <2>3 DEF Queued
    <3> QED
      BY <3>1, <2>2
  <2>5. \A i \in DOMAIN asleep'[v] : pc'[asleep'[v][i]] = AsleepAt(v)
    <3>1. \A j \in DOMAIN q : j # k => q[j] # h /\ q[j] \in Thread /\ pc[q[j]] = AsleepAt(v)
      BY <1>3 DEF Queued
    <3> QED
      BY <2>3, <3>1, <1>1
  <2>6. ASSUME NEW u \in Thread, pc'[u] = AsleepAt(v) PROVE \E i \in DOMAIN asleep'[v] : asleep'[v][i] = u
    <3>1. u # h /\ pc[u] = AsleepAt(v)
      BY <2>6, <1>1
    <3>2. PICK j \in DOMAIN q : q[j] = u
      BY <3>1 DEF Queued
    <3>3. j # k
      BY <3>1, <3>2
    <3>4. CASE j < k
      <4>1. j \in 1..(Len(q) - 1)
        BY <3>4, <2>2
      <4> QED
        BY <4>1, <3>4, <3>2, <2>2
    <3>5. CASE j > k
      <4>1. j - 1 \in 1..(Len(q) - 1) /\ ~(j - 1 < k) /\ (j - 1) + 1 = j
        BY <3>5, <2>2
      <4> QED
        BY <4>1, <3>2, <2>2
    <3> QED
      BY <3>3, <3>4, <3>5, <2>2
  <2> QED
    BY <2>4, <2>5, <2>6
<1> QED
  BY <1>4, <1>5 DEF Queued

LEMMA QueuedLeaves ==
  ASSUME TypeOK, Queued, NEW t \in Thread, NEW v \in Word,
         Leave(t, v), pc'[t] \notin Beds, Only(t)
  PROVE  Queued'
BY LeaveDrops, QueuedDrops DEF Only

LEMMA QueuedNotifyOne ==
  ASSUME TypeOK, Queued, NEW t \in Thread, NEW v \in Word, NEW l,
         NotifyOne(t, v, l), pc[t] \notin Beds, l \notin Beds
  PROVE  Queued'
<1>1. CASE asleep[v] = <<>>
  <2>1. asleep' = asleep
    BY <1>1 DEF NotifyOne, Notify, TypeOK
  <2>2. pc'[t] = l /\ Only(t)
    BY <1>1 DEF NotifyOne, Notify, Only
  <2> QED
    BY <2>1, <2>2, QueuedRuns
<1>2. CASE asleep[v] # <<>>
  <2> DEFINE h == Head(asleep[v])
  <2>1. asleep' = [asleep EXCEPT ![v] = Tail(asleep[v])]
    BY <1>2 DEF NotifyOne, Notify
  <2>2. 1 \in DOMAIN asleep[v] /\ asleep[v][1] = h /\ Drops(v, 1)
    BY <1>2, <2>1, HeadDrops
  <2>3. h \in Thread /\ pc[h] \in Beds
    BY <2>2 DEF TypeOK, Queued, AsleepAt, Beds
  <2>4. pc'[h] = Resumed(v) /\ pc'[t] = l /\ \A u \in Thread : u # t /\ u # h => pc'[u] = pc[u]
    BY <1>2, <2>3 DEF NotifyOne, Notify
  <2>5. Resumed(v) \notin Beds
    BY DEF Resumed, Beds
  <2> QED
    BY <2>2, <2>3, <2>4, <2>5, QueuedDrops
<1> QED
  BY <1>1, <1>2

LEMMA QueuedNotifyAll ==
  ASSUME TypeOK, Queued, NEW t \in Thread, NEW v \in Word, NEW l,
         NotifyAll(t, v, l), pc[t] \notin Beds, l \notin Beds
  PROVE  Queued'
<1>0. \A u, w \in Word : AsleepAt(u) = AsleepAt(w) => u = w
  BY DEF AsleepAt, Word
<1>1. Resumed(v) \notin Beds /\ \A w \in Word : AsleepAt(w) \in Beds
  BY DEF Resumed, AsleepAt, Beds
<1> DEFINE woken == {asleep[v][i] : i \in DOMAIN asleep[v]}
<1>2. /\ asleep' = [asleep EXCEPT ![v] = <<>>]
      /\ pc' = [u \in Thread |-> IF u \in woken THEN Resumed(v) ELSE IF u = t THEN l ELSE pc[u]]
  BY DEF NotifyAll, Notify
<1>3. \A w \in Word : \A i \in DOMAIN asleep[w] : asleep[w][i] \in Thread
  BY DEF TypeOK
<1>4. \A u \in Thread : u \in woken <=> pc[u] = AsleepAt(v)
  BY <1>3 DEF Queued
<1> HIDE DEF woken
<1>5. ASSUME NEW w \in Word, w # v
      PROVE  /\ \A i, j \in DOMAIN asleep'[w] : asleep'[w][i] = asleep'[w][j] => i = j
             /\ \A i \in DOMAIN asleep'[w] : pc'[asleep'[w][i]] = AsleepAt(w)
             /\ \A u \in Thread : pc'[u] = AsleepAt(w) => \E i \in DOMAIN asleep'[w] : asleep'[w][i] = u
  <2>1. asleep'[w] = asleep[w]
    BY <1>2, <1>5 DEF TypeOK
  <2>2. AsleepAt(w) # AsleepAt(v)
    BY <1>0, <1>5
  <2> QED
    BY <2>1, <2>2, <1>1, <1>2, <1>3, <1>4 DEF Queued
<1>6. /\ \A i, j \in DOMAIN asleep'[v] : asleep'[v][i] = asleep'[v][j] => i = j
      /\ \A i \in DOMAIN asleep'[v] : pc'[asleep'[v][i]] = AsleepAt(v)
      /\ \A u \in Thread : pc'[u] = AsleepAt(v) => \E i \in DOMAIN asleep'[v] : asleep'[v][i] = u
  <2>1. asleep'[v] = <<>> /\ DOMAIN asleep'[v] = {}
    BY <1>2 DEF TypeOK
  <2>2. \A u \in Thread : pc'[u] # AsleepAt(v)
    BY <1>1, <1>2, <1>4
  <2> QED
    BY <2>1, <2>2
<1> QED
  BY <1>5, <1>6 DEF Queued

LEMMA QueuedStep ==
  ASSUME TypeOK, Queued, NEW t \in Thread, Call(t) \/ Continue(t) \/ TimeOut(t)
  PROVE  Queued'
<1>0. TypeOK /\ Queued
  OBVIOUS
<1>1. ASSUME NEW limit \in BOOLEAN, Lock(t, limit) PROVE Queued'
  <2>1. asleep' = asleep /\ pc[t] \notin Beds /\ pc'[t] \notin Beds /\ Only(t)
    BY <1>1, <1>0 DEF Lock, Locking, Goto, TypeOK, Beds, Only
  <2> QED
    BY <2>1, <1>0, QueuedRuns
<1>2. ASSUME Acquire(t) PROVE Queued'
  <2>1. asleep' = asleep /\ pc[t] \notin Beds /\ pc'[t] \notin Beds /\ Only(t)
    BY <1>2, <1>0 DEF Acquire, Done, Goto, TypeOK, Beds, Only
  <2> QED
    BY <2>1, <1>0, QueuedRuns
<1>3. ASSUME Busy(t) PROVE Queued'
  <2>1. asleep' = asleep /\ pc[t] \notin Beds /\ pc'[t] \notin Beds /\ Only(t)
    BY <1>3, <1>0 DEF Busy, Done, Goto, TypeOK, Beds, Only
  <2> QED
    BY <2>1, <1>0, QueuedRuns
<1>4. ASSUME LockWait(t) PROVE Queued'
  <2>1. CASE Sleep(t, "lock", "lockAsleep")
    <3>1. pc[t] \notin Beds /\ "lockAsleep" = AsleepAt("lock")
      BY <1>4 DEF LockWait, Beds, AsleepAt
    <3> QED
      BY <2>1, <3>1, <1>0, QueuedSleeps DEF Word
  <2>2. CASE (Locking(t, timed[t]) \/ Done(t)) /\ UNCHANGED asleep
    <3>1. asleep' = asleep /\ pc[t] \notin Beds /\ pc'[t] \notin Beds /\ Only(t)
      BY <1>4, <2>2, <1>0 DEF LockWait, Locking, Done, Goto, TypeOK, Beds, Only
    <3> QED
      BY <3>1, <1>0, QueuedRuns
  <2> QED
    BY <1>4, <2>1, <2>2 DEF LockWait
<1>5. ASSUME TryLock(t) PROVE Queued'
  <2>1. asleep' = asleep /\ pc[t] \notin Beds /\ pc' = pc
    BY <1>5 DEF TryLock, sleepers, Beds
  <2> QED
    BY <2>1, <1>0, QueuedRuns DEF Only
<1>6. ASSUME Unlock(t) PROVE Queued'
  <2>1. asleep' = asleep /\ pc[t] \notin Beds /\ pc'[t] \notin Beds /\ Only(t)
    BY <1>6, <1>0 DEF Unlock, Goto, TypeOK, Beds, Only
  <2> QED
    BY <2>1, <1>0, QueuedRuns
<1>7. ASSUME UnlockNotify(t) PROVE Queued'
  <2>1. NotifyOne(t, "lock", "idle") /\ pc[t] \notin Beds /\ "idle" \notin Beds
    BY <1>7 DEF UnlockNotify, Beds
  <2> QED
    BY <2>1, <1>0, QueuedNotifyOne DEF Word
<1>8. ASSUME TimeOut(t) PROVE Queued'
  <2>1. Leave(t, "lock") \/ Leave(t, "seq")
    BY <1>8 DEF TimeOut
  <2>2. pc'[t] \notin Beds /\ Only(t)
    BY <1>8, <1>0 DEF TimeOut, Done, Locking, Goto, TypeOK, Beds, Only
  <2> QED
    BY <2>1, <2>2, <1>0, QueuedLeaves DEF Word
<1>9. ASSUME NEW limit \in BOOLEAN, Wait(t, limit) PROVE Queued'
  <2>1. asleep' = asleep /\ pc[t] \notin Beds /\ pc'[t] \notin Beds /\ Only(t)
    BY <1>9, <1>0 DEF Wait, Goto, TypeOK, Beds, Only
  <2> QED
    BY <2>1, <1>0, QueuedRuns
<1>10. ASSUME WaitStore(t) PROVE Queued'
  <2>1. asleep' = asleep /\ pc[t] \notin Beds /\ pc'[t] \notin Beds /\ Only(t)
    BY <1>10, <1>0 DEF WaitStore, Goto, TypeOK, Beds, Only
  <2> QED
    BY <2>1, <1>0, QueuedRuns
<1>11. ASSUME WaitNotify(t) PROVE Queued'
  <2>1. NotifyOne(t, "lock", "waitWait") /\ pc[t] \notin Beds /\ "waitWait" \notin Beds
    BY <1>11 DEF WaitNotify, Beds
  <2> QED
    BY <2>1, <1>0, QueuedNotifyOne DEF Word
<1>12. ASSUME WaitWait(t) PROVE Queued'
  <2>1. CASE Sleep(t, "seq", "waitAsleep")
    <3>1. pc[t] \notin Beds /\ "waitAsleep" = AsleepAt("seq")
      BY <1>12 DEF WaitWait, Beds, AsleepAt
    <3> QED
      BY <2>1, <3>1, <1>0, QueuedSleeps DEF Word
  <2>2. CASE Locking(t, FALSE) /\ UNCHANGED asleep
    <3>1. asleep' = asleep /\ pc[t] \notin Beds /\ pc'[t] \notin Beds /\ Only(t)
      BY <1>12, <2>2, <1>0 DEF WaitWait, Locking, Goto, TypeOK, Beds, Only
    <3> QED
      BY <3>1, <1>0, QueuedRuns
  <2> QED
    BY <1>12, <2>1, <2>2 DEF WaitWait
<1>13. ASSUME NEW l \in {"signalNotify", "broadcastNotify"}, Add(t, l) PROVE Queued'
  <2>1. asleep' = asleep /\ pc[t] \notin Beds /\ pc'[t] \notin Beds /\ Only(t)
    BY <1>13, <1>0 DEF Add, Goto, TypeOK, Beds, Only
  <2> QED
    BY <2>1, <1>0, QueuedRuns
<1>14. ASSUME SignalNotify(t) PROVE Queued'
  <2>1. NotifyOne(t, "seq", "idle") /\ pc[t] \notin Beds /\ "idle" \notin Beds
    BY <1>14 DEF SignalNotify, Beds
  <2> QED
    BY <2>1, <1>0, QueuedNotifyOne DEF Word
<1>15. ASSUME BroadcastNotify(t) PROVE Queued'
  <2>1. NotifyAll(t, "seq", "idle") /\ pc[t] \notin Beds /\ "idle" \notin Beds
    BY <1>15 DEF BroadcastNotify, Beds
  <2> QED
    BY <2>1, <1>0, QueuedNotifyAll DEF Word
<1>16. ASSUME NEW l \in {"load", "tryLoad"}, SemCall(t, l) PROVE Queued'
  <2>1. asleep' = asleep /\ pc[t] \notin Beds /\ pc'[t] \notin Beds /\ Only(t)
    BY <1>16, <1>0 DEF SemCall, Goto, TypeOK, Beds, Only
  <2> QED
    BY <2>1, <1>0, QueuedRuns
<1>17. ASSUME Load(t) PROVE Queued'
  <2>1. asleep' = asleep /\ pc[t] \notin Beds /\ pc'[t] \notin Beds /\ Only(t)
    BY <1>17, <1>0 DEF Load, Goto, TypeOK, Beds, Only
  <2> QED
    BY <2>1, <1>0, QueuedRuns
<1>18. ASSUME Decrement(t) PROVE Queued'
  <2>1. asleep' = asleep /\ pc[t] \notin Beds /\ pc'[t] \notin Beds /\ Only(t)
    BY <1>18, <1>0 DEF Decrement, Goto, TypeOK, Beds, Only
  <2> QED
    BY <2>1, <1>0, QueuedRuns
<1>19. ASSUME Contended(t) PROVE Queued'
  <2>1. asleep' = asleep /\ pc[t] \notin Beds /\ pc'[t] \notin Beds /\ Only(t)
    BY <1>19, <1>0 DEF Contended, Goto, TypeOK, Beds, Only
  <2> QED
    BY <2>1, <1>0, QueuedRuns
<1>20. ASSUME SemWait(t) PROVE Queued'
  <2>1. CASE Sleep(t, "sem", "semAsleep")
    <3>1. pc[t] \notin Beds /\ "semAsleep" = AsleepAt("sem")
      BY <1>20 DEF SemWait, Beds, AsleepAt
    <3> QED
      BY <2>1, <3>1, <1>0, QueuedSleeps DEF Word
  <2>2. CASE (Goto(t, IF t \in Main THEN "idle" ELSE "load") /\ UNCHANGED asleep)
    <3>1. asleep' = asleep /\ pc[t] \notin Beds /\ pc'[t] \notin Beds /\ Only(t)
      BY <1>20, <2>2, <1>0 DEF SemWait, Goto, TypeOK, Beds, Only
    <3> QED
      BY <3>1, <1>0, QueuedRuns
  <2> QED
    BY <1>20, <2>1, <2>2 DEF SemWait
<1>21. ASSUME Post(t) PROVE Queued'
  <2>1. asleep' = asleep /\ pc[t] \notin Beds /\ pc'[t] \notin Beds /\ Only(t)
    BY <1>21, <1>0 DEF Post, Goto, TypeOK, Beds, Only
  <2> QED
    BY <2>1, <1>0, QueuedRuns
<1>22. ASSUME PostNotify(t) PROVE Queued'
  <2>1. NotifyOne(t, "sem", "idle") /\ pc[t] \notin Beds /\ "idle" \notin Beds
    BY <1>22 DEF PostNotify, Beds
  <2> QED
    BY <2>1, <1>0, QueuedNotifyOne DEF Word
<1> QED
  BY <1>1, <1>2, <1>3, <1>4, <1>5, <1>6, <1>7, <1>8, <1>9, <1>10, <1>11, <1>12, <1>13, <1>14, <1>15, <1>16, <1>17, <1>18, <1>19, <1>20, <1>21, <1>22 DEF Call, Continue, LockStep

(* A step moves the thread that does it and wakes others.                  *)
Moves(t) ==
  \A u \in Thread : u # t =>
    \/ pc'[u] = pc[u]
    \/ \E w \in Word : pc[u] = AsleepAt(w) /\ pc'[u] = Resumed(w)

LEMMA NotifyMoves ==
  ASSUME TypeOK, Queued, NEW t \in Thread, NEW w \in Word, NEW l, NotifyOne(t, w, l) \/ NotifyAll(t, w, l)
  PROVE  Moves(t)
<1>1. \A i \in DOMAIN asleep[w] : asleep[w][i] \in Thread /\ pc[asleep[w][i]] = AsleepAt(w)
  BY DEF TypeOK, Queued
<1>2. CASE NotifyOne(t, w, l)
  <2>1. CASE asleep[w] = <<>>
    BY <1>2, <2>1 DEF NotifyOne, Notify, Moves
  <2>2. CASE asleep[w] # <<>>
    <3>1. asleep[w] \in Seq(Thread)
      BY DEF TypeOK
    <3>2. 1 \in DOMAIN asleep[w] /\ Head(asleep[w]) = asleep[w][1]
      BY <2>2, <3>1, Shortened
    <3>3. pc[Head(asleep[w])] = AsleepAt(w)
      BY <1>1, <3>2
    <3> QED
      BY <1>2, <2>2, <3>3 DEF NotifyOne, Notify, Moves
  <2> QED
    BY <2>1, <2>2
<1>3. CASE NotifyAll(t, w, l)
  BY <1>1, <1>3 DEF NotifyAll, Notify, Moves
<1> QED
  BY <1>2, <1>3

LEMMA MovesStep ==
  ASSUME TypeOK, Queued, NEW t \in Thread, Call(t) \/ Continue(t) \/ TimeOut(t)
  PROVE  Moves(t)
<1>1. CASE UnlockNotify(t)
  BY <1>1, NotifyMoves DEF UnlockNotify, Word
<1>2. CASE WaitNotify(t)
  BY <1>2, NotifyMoves DEF WaitNotify, Word
<1>3. CASE SignalNotify(t)
  BY <1>3, NotifyMoves DEF SignalNotify, Word
<1>4. CASE BroadcastNotify(t)
  BY <1>4, NotifyMoves DEF BroadcastNotify, Word
<1>5. CASE PostNotify(t)
  BY <1>5, NotifyMoves DEF PostNotify, Word
<1>6. CASE Call(t)
  BY <1>6 DEF Moves, TypeOK, Call, Goto, Locking, Lock, Wait, TryLock, sleepers, Unlock, Add, SemCall, Post
<1>7. CASE TimeOut(t)
  BY <1>7 DEF Moves, TypeOK, TimeOut, Goto, Locking, Done
<1>8. CASE Acquire(t) \/ Busy(t) \/ LockWait(t)
  BY <1>8 DEF Moves, TypeOK, Goto, Locking, Done, Sleep, Acquire, Busy, LockWait
<1>9. CASE WaitStore(t) \/ WaitWait(t)
  BY <1>9 DEF Moves, TypeOK, Goto, Locking, Sleep, WaitStore, WaitWait
<1>10. CASE Load(t) \/ Decrement(t) \/ Contended(t) \/ SemWait(t)
  BY <1>10 DEF Moves, TypeOK, Goto, Sleep, Load, Decrement, Contended, SemWait
<1> QED
  BY <1>1, <1>2, <1>3, <1>4, <1>5, <1>6, <1>7, <1>8, <1>9, <1>10 DEF Continue, LockStep

-----------------------------------------------------------------------------
(* What a step does to the mutex, to its own thread and to what it read.   *)

HeldBy(t) == t \in holding' /\ holding' = holding \cup {t} /\ lockWord = 0 /\ lockWord' = 1
GivenUp(t) == t \in holding /\ holding' = holding \ {t} /\ lockWord' = 0
KeptLock == holding' = holding /\ lockWord' = lockWord

LEMMA MutexStep ==
  ASSUME TypeOK, Held, NEW t \in Thread, Call(t) \/ Continue(t) \/ TimeOut(t)
  PROVE  HeldBy(t) \/ GivenUp(t) \/ KeptLock
<1>1. CASE Call(t)
  BY <1>1 DEF HeldBy, GivenUp, KeptLock, Call, Lock, Wait, TryLock, Unlock, Add, SemCall, Post
<1>2. CASE WaitStore(t)
  BY <1>2 DEF HeldBy, GivenUp, KeptLock, WaitStore, Held
<1>3. CASE Acquire(t)
  BY <1>3 DEF HeldBy, GivenUp, KeptLock, Acquire
<1>4. CASE TimeOut(t)
  BY <1>4 DEF KeptLock, TimeOut
<1>5. CASE Busy(t) \/ LockWait(t) \/ UnlockNotify(t) \/ WaitNotify(t) \/ WaitWait(t)
  BY <1>5 DEF KeptLock, Busy, LockWait, UnlockNotify, WaitNotify, WaitWait
<1>6. CASE SignalNotify(t) \/ BroadcastNotify(t) \/ PostNotify(t)
  BY <1>6 DEF KeptLock, SignalNotify, BroadcastNotify, PostNotify
<1>7. CASE Load(t) \/ Decrement(t) \/ Contended(t) \/ SemWait(t)
  BY <1>7 DEF KeptLock, Load, Decrement, Contended, SemWait
<1> QED
  BY <1>1, <1>2, <1>3, <1>4, <1>5, <1>6, <1>7 DEF Continue, LockStep

LEMMA ExclusiveStep ==
  ASSUME TypeOK, Held, Exclusive, NEW t \in Thread, Call(t) \/ Continue(t) \/ TimeOut(t)
  PROVE  Exclusive'
<1>1. CASE HeldBy(t)
  BY <1>1 DEF HeldBy, Exclusive
<1>2. CASE GivenUp(t)
  BY <1>2 DEF GivenUp, Exclusive
<1>3. CASE KeptLock
  BY <1>3 DEF KeptLock, Exclusive
<1> QED
  BY <1>1, <1>2, <1>3, MutexStep

(* The thread gives its mutex up and starts to wait.                       *)
StartsToWait(t) == pc[t] = "waitStore" /\ pc'[t] = "waitNotify" /\ GivenUp(t)

LEMMA NotifyOwn ==
  ASSUME TypeOK, Queued, NEW t \in Thread, NEW w \in Word, NEW l, pc[t] \notin Beds,
         NotifyOne(t, w, l) \/ NotifyAll(t, w, l)
  PROVE  pc'[t] = l
<1>1. \A i \in DOMAIN asleep[w] : asleep[w][i] # t
  BY DEF Queued, AsleepAt, Beds
<1>2. CASE NotifyOne(t, w, l)
  <2>1. CASE asleep[w] = <<>>
    BY <1>2, <2>1 DEF NotifyOne, Notify
  <2>2. CASE asleep[w] # <<>>
    <3>1. asleep[w] \in Seq(Thread)
      BY DEF TypeOK
    <3>2. 1 \in DOMAIN asleep[w] /\ Head(asleep[w]) = asleep[w][1]
      BY <2>2, <3>1, Shortened
    <3>3. t # Head(asleep[w])
      BY <1>1, <3>2
    <3> QED
      BY <1>2, <2>2, <3>3 DEF NotifyOne, Notify
  <2> QED
    BY <2>1, <2>2
<1>3. CASE NotifyAll(t, w, l)
  BY <1>1, <1>3 DEF NotifyAll, Notify
<1> QED
  BY <1>2, <1>3

(* What the thread of a step comes to, and what it has read by then.       *)
Own(t) ==
  /\ \A u \in Thread : u # t => seen'[u] = seen[u]
  /\ seqWord' = seqWord \/ (seqWord' = seqWord + 1 /\ pc'[t] \in {"signalNotify", "broadcastNotify"})
  /\ pc'[t] = "waitStore" => t \in holding' /\ seen'[t] = seqWord
  /\ pc'[t] = "waitNotify" => pc[t] = "waitStore" /\ seen'[t] = seen[t] /\ GivenUp(t)
  /\ pc'[t] = "waitWait" => pc[t] = "waitNotify" /\ seen'[t] = seen[t]
  /\ pc'[t] = "waitAsleep" =>
       /\ pc[t] = "waitWait" /\ seen[t] = seqWord
       /\ asleep' = [asleep EXCEPT !["seq"] = Append(asleep["seq"], t)]
  /\ pc'[t] = "signalNotify" => pc[t] = "idle" /\ seqWord' = seqWord + 1 /\ asleep' = asleep
  /\ pc'[t] \in {"decrement", "tryDecrement"} => seen'[t] > 0
  /\ pc'[t] = "lockAsleep" => lockWord = 1
  /\ pc'[t] = "semAsleep" => semWord' = 0
  /\ pc[t] = "lock" /\ lockWord = 0 => lockWord' = 1
  /\ pc[t] \in {"unlockNotify", "waitNotify"} => NotifyOne(t, "lock", pc'[t])
  /\ pc[t] = "signalNotify" => NotifyOne(t, "seq", "idle")
  /\ t \in holding /\ t \notin holding' => pc'[t] \in {"unlockNotify", "waitNotify"}

LEMMA OwnStep ==
  ASSUME TypeOK, Held, Queued, NEW t \in Thread, Call(t) \/ Continue(t) \/ TimeOut(t), pc'[t] # pc[t]
  PROVE  Own(t)
<1>0. TypeOK /\ Held /\ Queued /\ pc'[t] # pc[t]
  OBVIOUS
<1>1. ASSUME NEW limit \in BOOLEAN, Lock(t, limit) PROVE Own(t)
  BY <1>1, <1>0 DEF Lock, Locking, Goto, Own, GivenUp, Held, TypeOK
<1>2. ASSUME Acquire(t) PROVE Own(t)
  BY <1>2, <1>0 DEF Acquire, Done, Goto, Own, GivenUp, Held, TypeOK
<1>3. ASSUME Busy(t) PROVE Own(t)
  BY <1>3, <1>0 DEF Busy, Done, Goto, Own, GivenUp, Held, TypeOK
<1>4. ASSUME LockWait(t) PROVE Own(t)
  BY <1>4, <1>0 DEF LockWait, Locking, Done, Goto, Sleep, Own, GivenUp, Held, TypeOK
<1>5. ASSUME TryLock(t) PROVE Own(t)
  BY <1>5, <1>0 DEF TryLock, sleepers, Own, GivenUp, Held, TypeOK
<1>6. ASSUME Unlock(t) PROVE Own(t)
  BY <1>6, <1>0 DEF Unlock, Goto, Own, GivenUp, Held, TypeOK
<1>7. ASSUME UnlockNotify(t) PROVE Own(t)
  <2>1. pc'[t] = "idle"
    BY <1>7, <1>0, NotifyOwn DEF UnlockNotify, Beds, Word
  <2> QED
    BY <1>7, <2>1, <1>0 DEF UnlockNotify, Own, TypeOK
<1>8. ASSUME TimeOut(t) PROVE Own(t)
  BY <1>8, <1>0, ZenonT(60) DEF TimeOut, Leave, Done, Locking, Goto, Own, GivenUp, Held, TypeOK
<1>9. ASSUME NEW limit \in BOOLEAN, Wait(t, limit) PROVE Own(t)
  BY <1>9, <1>0 DEF Wait, Goto, Own, GivenUp, Held, TypeOK
<1>10. ASSUME WaitStore(t) PROVE Own(t)
  BY <1>10, <1>0 DEF WaitStore, Goto, Own, GivenUp, Held, TypeOK
<1>11. ASSUME WaitNotify(t) PROVE Own(t)
  <2>1. pc'[t] = "waitWait"
    BY <1>11, <1>0, NotifyOwn DEF WaitNotify, Beds, Word
  <2> QED
    BY <1>11, <2>1, <1>0 DEF WaitNotify, Own, TypeOK
<1>12. ASSUME WaitWait(t) PROVE Own(t)
  BY <1>12, <1>0 DEF WaitWait, Locking, Goto, Sleep, Own, GivenUp, Held, TypeOK
<1>13. ASSUME NEW l \in {"signalNotify", "broadcastNotify"}, Add(t, l) PROVE Own(t)
  BY <1>13, <1>0 DEF Add, Goto, Own, GivenUp, Held, TypeOK
<1>14. ASSUME SignalNotify(t) PROVE Own(t)
  <2>1. pc'[t] = "idle"
    BY <1>14, <1>0, NotifyOwn DEF SignalNotify, Beds, Word
  <2> QED
    BY <1>14, <2>1, <1>0 DEF SignalNotify, Own, TypeOK
<1>15. ASSUME BroadcastNotify(t) PROVE Own(t)
  <2>1. pc'[t] = "idle"
    BY <1>15, <1>0, NotifyOwn DEF BroadcastNotify, Beds, Word
  <2> QED
    BY <1>15, <2>1, <1>0 DEF BroadcastNotify, Own, TypeOK
<1>16. ASSUME NEW l \in {"load", "tryLoad"}, SemCall(t, l) PROVE Own(t)
  BY <1>16, <1>0 DEF SemCall, Goto, Own, GivenUp, Held, TypeOK
<1>17. ASSUME Load(t) PROVE Own(t)
  BY <1>17, <1>0 DEF Load, Goto, Own, GivenUp, Held, TypeOK
<1>18. ASSUME Decrement(t) PROVE Own(t)
  BY <1>18, <1>0 DEF Decrement, Goto, Own, GivenUp, Held, TypeOK
<1>19. ASSUME Contended(t) PROVE Own(t)
  BY <1>19, <1>0 DEF Contended, Goto, Own, GivenUp, Held, TypeOK
<1>20. ASSUME SemWait(t) PROVE Own(t)
  BY <1>20, <1>0 DEF SemWait, Goto, Sleep, Own, GivenUp, Held, TypeOK
<1>21. ASSUME Post(t) PROVE Own(t)
  BY <1>21, <1>0 DEF Post, Goto, Own, GivenUp, Held, TypeOK
<1>22. ASSUME PostNotify(t) PROVE Own(t)
  <2>1. pc'[t] = "idle"
    BY <1>22, <1>0, NotifyOwn DEF PostNotify, Beds, Word
  <2> QED
    BY <1>22, <2>1, <1>0 DEF PostNotify, Own, TypeOK
<1> QED
  BY <1>1, <1>2, <1>3, <1>4, <1>5, <1>6, <1>7, <1>8, <1>9, <1>10, <1>11, <1>12, <1>13, <1>14, <1>15, <1>16, <1>17, <1>18, <1>19, <1>20, <1>21, <1>22 DEF Call, Continue, LockStep

LEMMA StillStep ==
  ASSUME TypeOK, Queued, NEW t \in Thread, Call(t) \/ Continue(t) \/ TimeOut(t), pc'[t] = pc[t]
  PROVE  /\ seen' = seen /\ seqWord' = seqWord /\ asleep' = asleep
         /\ t \in holding => t \in holding'
         /\ pc[t] \in {"idle", "lock"} /\ (pc[t] = "lock" => lockWord = 1)
<1>1. CASE Call(t)
  BY <1>1 DEF TypeOK, Call, Goto, Locking, Lock, Wait, TryLock, sleepers, Unlock, Add, SemCall, Post
<1>2. CASE TimeOut(t)
  BY <1>2 DEF TypeOK, TimeOut, Goto, Locking, Done
<1>3. CASE Acquire(t) \/ LockWait(t)
  BY <1>3 DEF TypeOK, Goto, Locking, Done, Sleep, Acquire, LockWait
<1>4. CASE Busy(t)
  BY <1>4 DEF TypeOK, Goto, Done, Busy
<1>5. CASE WaitStore(t) \/ WaitWait(t)
  BY <1>5 DEF TypeOK, Goto, Locking, Sleep, WaitStore, WaitWait
<1>6. CASE Load(t) \/ Decrement(t) \/ Contended(t) \/ SemWait(t)
  BY <1>6 DEF TypeOK, Goto, Sleep, Load, Decrement, Contended, SemWait
<1>7. CASE UnlockNotify(t)
  BY <1>7, NotifyOwn DEF UnlockNotify, Word, Beds
<1>8. CASE WaitNotify(t)
  BY <1>8, NotifyOwn DEF WaitNotify, Word, Beds
<1>9. CASE SignalNotify(t)
  BY <1>9, NotifyOwn DEF SignalNotify, Word, Beds
<1>10. CASE BroadcastNotify(t)
  BY <1>10, NotifyOwn DEF BroadcastNotify, Word, Beds
<1>11. CASE PostNotify(t)
  BY <1>11, NotifyOwn DEF PostNotify, Word, Beds
<1> QED
  BY <1>1, <1>2, <1>3, <1>4, <1>5, <1>6, <1>7, <1>8, <1>9, <1>10, <1>11 DEF Continue, LockStep

LEMMA WokenGoOn == \A w \in Word : AsleepAt(w) \in Beds /\ Resumed(w) \in {"lock", "load"}
BY DEF AsleepAt, Beds, Resumed

LEMMA OwedTypes == TypeOK /\ Owe => owed' \in [Thread -> SUBSET Thread]
BY DEF TypeOK, Owe, Waiters

LEMMA LockInvStep ==
  ASSUME LockInv, NEW t \in Thread, Call(t) \/ Continue(t) \/ TimeOut(t), Owe
  PROVE  LockInv'
<1>0. TypeOK /\ Queued /\ Held /\ Read /\ Exclusive
  BY DEF LockInv
<1>1. TypeOK'
  BY <1>0, CodeTypesStep, OwedTypes DEF CodeTypes, TypeOK
<1>2. Queued'
  BY <1>0, QueuedStep
<1>3. Exclusive'
  BY <1>0, ExclusiveStep
<1>4. ASSUME NEW u \in Thread, u # t
      PROVE  /\ pc'[u] = "waitStore" => u \in holding'
             /\ pc'[u] \in {"decrement", "tryDecrement"} => seen'[u] > 0
  <2>1. pc'[u] = pc[u] \/ pc'[u] \in {"lock", "load"}
    BY <1>0, <1>4, MovesStep, WokenGoOn DEF Moves
  <2>2. u \in holding => u \in holding'
    BY <1>0, <1>4, MutexStep DEF HeldBy, GivenUp, KeptLock
  <2>3. seen'[u] = seen[u]
    BY <1>0, <1>4, OwnStep, StillStep DEF Own
  <2> QED
    BY <2>1, <2>2, <2>3, <1>0 DEF Held, Read
<1>5. CASE pc'[t] = pc[t]
  <2>1. pc[t] \in {"idle", "lock"}
    BY <1>0, <1>5, StillStep
  <2> QED
    BY <2>1, <1>1, <1>2, <1>3, <1>4, <1>5 DEF LockInv, Held, Read
<1>6. CASE pc'[t] # pc[t]
  <2>1. Own(t)
    BY <1>0, <1>6, OwnStep
  <2> QED
    BY <2>1, <1>1, <1>2, <1>3, <1>4 DEF LockInv, Held, Read, Own
<1> QED
  BY <1>5, <1>6

LEMMA LockInvInit == Init => LockInv
<1> SUFFICES ASSUME Init PROVE LockInv
  OBVIOUS
<1>1. TypeOK
  <2>1. 0 \in 0..Spins /\ <<>> \in Seq(Thread)
    BY IpcAssumption
  <2> QED
    BY <2>1, IpcAssumption DEF Init, TypeOK, Location
<1>2. Queued
  BY DEF Init, Queued, AsleepAt
<1>3. Held /\ Read /\ Exclusive
  BY DEF Init, Held, Read, Exclusive
<1> QED
  BY <1>1, <1>2, <1>3 DEF LockInv

LEMMA LockInvStutter == LockInv /\ UNCHANGED vars => LockInv'
<1> SUFFICES ASSUME LockInv, UNCHANGED vars PROVE LockInv'
  OBVIOUS
<1>1. TypeOK'
  BY DEF LockInv, TypeOK, vars, sleepers
<1>2. Queued'
  BY DEF LockInv, Queued, vars, sleepers
<1>3. Held' /\ Read' /\ Exclusive'
  BY DEF LockInv, Held, Read, Exclusive, vars, sleepers
<1> QED
  BY <1>1, <1>2, <1>3 DEF LockInv

(* What the model's variables are, in every state that Spec reaches.       *)
THEOREM TypeCorrect == Spec => []TypeOK
<1>1. LockInv /\ [Next]_vars => LockInv'
  BY LockInvStep, LockInvStutter DEF Next
<1>2. LockInv => TypeOK
  BY DEF LockInv
<1> QED
  BY LockInvInit, <1>1, <1>2, PTL DEF Spec

(* Mutual exclusion: compareExchange, the stores of unlock() and wait(),   *)
(* and timeouts never leave two threads with the mutex.                    *)
THEOREM MutualExclusion == Spec => []Exclusive
<1>1. LockInv /\ [Next]_vars => LockInv'
  BY LockInvStep, LockInvStutter DEF Next
<1>2. LockInv => Exclusive
  BY DEF LockInv
<1> QED
  BY LockInvInit, <1>1, <1>2, PTL DEF Spec

-----------------------------------------------------------------------------
(* A free mutex is offered to its sleepers.                                *)

LEMMA LockListGrows ==
  ASSUME LockInv, LockInv', NEW t \in Thread, Call(t) \/ Continue(t) \/ TimeOut(t),
         asleep["lock"] = <<>>, asleep'["lock"] # <<>>
  PROVE  lockWord = 1
<1>0. TypeOK /\ Queued /\ Held /\ TypeOK' /\ Queued'
  BY DEF LockInv
<1>1. PICK v \in Thread : pc'[v] = "lockAsleep"
  <2>1. asleep'["lock"] \in Seq(Thread)
    BY <1>0 DEF TypeOK, Word
  <2>2. 1 \in DOMAIN asleep'["lock"] /\ asleep'["lock"][1] \in Thread
    BY <2>1, Shortened
  <2> QED
    BY <2>2, <1>0 DEF Queued, AsleepAt, Word
<1>2. pc[v] # "lockAsleep"
  BY <1>0 DEF Queued, AsleepAt, Word
<1>3. v = t
  BY <1>0, <1>1, <1>2, MovesStep, WokenGoOn DEF Moves
<1> QED
  BY <1>0, <1>1, <1>2, <1>3, OwnStep DEF Own

LEMMA FreeLockStep ==
  ASSUME LockInv, LockInv', FreeLockIsOffered, NEW t \in Thread, Call(t) \/ Continue(t) \/ TimeOut(t)
  PROVE  FreeLockIsOffered'
<1>0. TypeOK /\ Queued /\ Held /\ Exclusive
  BY DEF LockInv
<1> SUFFICES ASSUME lockWord' = 0, asleep'["lock"] # <<>>
             PROVE  \E u \in Thread : pc'[u] \in Offers
  BY DEF FreeLockIsOffered, Offers
<1>1. CASE lockWord = 1
  <2>1. GivenUp(t)
    BY <1>1, <1>0, MutexStep DEF HeldBy, KeptLock
  <2>2. t \in holding /\ t \notin holding'
    BY <2>1 DEF GivenUp
  <2>3. Own(t)
    BY <2>2, <1>0, OwnStep, StillStep
  <2> QED
    BY <2>2, <2>3 DEF Own, Offers
<1>2. CASE lockWord = 0
  <2>1. asleep["lock"] # <<>>
    BY <1>2, LockListGrows
  <2>2. PICK u \in Thread : pc[u] \in Offers
    BY <1>2, <2>1 DEF FreeLockIsOffered, Offers
  <2>3. CASE u # t
    BY <2>2, <2>3, <1>0, MovesStep DEF Moves, AsleepAt, Offers
  <2>4. CASE u = t
    <3>1. CASE pc'[t] = pc[t]
      BY <2>2, <2>4, <3>1
    <3>2. CASE pc'[t] # pc[t]
      <4>1. Own(t)
        BY <3>2, <1>0, OwnStep
      <4>2. NotifyOne(t, "lock", pc'[t])
        BY <4>1, <2>2, <2>4, <1>2 DEF Own, Offers
      <4>3. 1 \in DOMAIN asleep["lock"] /\ Head(asleep["lock"]) = asleep["lock"][1]
            /\ asleep["lock"][1] \in Thread
        BY <2>1, <1>0, Shortened DEF TypeOK, Word
      <4>4. pc'[Head(asleep["lock"])] = "lock"
        BY <4>2, <4>3, <2>1 DEF NotifyOne, Notify, Resumed
      <4> QED
        BY <4>3, <4>4 DEF Offers
    <3> QED
      BY <3>1, <3>2
  <2> QED
    BY <2>3, <2>4
<1> QED
  BY <1>0, <1>1, <1>2 DEF TypeOK

(* No lost wake-up of the mutex: see FreeLockIsOffered.                    *)
THEOREM FreeLockOffered == Spec => []FreeLockIsOffered
<1> DEFINE I == LockInv /\ FreeLockIsOffered
<1>1. Init => I
  BY LockInvInit DEF Init, FreeLockIsOffered, Word
<1>2. I /\ [Next]_vars => I'
  <2>1. ASSUME I, UNCHANGED vars PROVE I'
    BY <2>1, LockInvStutter DEF FreeLockIsOffered, vars, sleepers
  <2>2. ASSUME I, Next PROVE I'
    BY <2>2, LockInvStep, FreeLockStep DEF Next
  <2> QED
    BY <2>1, <2>2
<1>3. I => FreeLockIsOffered
  OBVIOUS
<1> HIDE DEF I
<1> QED
  BY <1>1, <1>2, <1>3, PTL DEF Spec

-----------------------------------------------------------------------------
(* The units of the semaphore.                                             *)

Taking == {"load", "decrement", "postNotify"}
Takers == {t \in Thread : pc[t] \in Taking}

LEMMA TakersFinite ==
  /\ \A S \in SUBSET Thread : IsFiniteSet(S) /\ Cardinality(S) \in Nat
  /\ \A S, T \in SUBSET Thread : S \subseteq T => Cardinality(S) <= Cardinality(T)
  /\ \A S \in SUBSET Thread, t \in Thread :
       /\ t \in S => Cardinality(S \ {t}) = Cardinality(S) - 1
       /\ t \notin S => Cardinality(S \cup {t}) = Cardinality(S) + 1
<1>1. \A S \in SUBSET Thread : IsFiniteSet(S)
  BY IpcAssumption, FS_Subset
<1> QED
  BY <1>1, FS_Subset, FS_CardinalityType, FS_AddElement, FS_RemoveElement

LEMMA TakersStay ==
  ASSUME LockInv, NEW t \in Thread, Call(t) \/ Continue(t) \/ TimeOut(t)
  PROVE  Takers \ {t} \subseteq Takers'
BY MovesStep DEF LockInv, Moves, Takers, Taking, AsleepAt

LEMMA SemListGrows ==
  ASSUME LockInv, LockInv', NEW t \in Thread, Call(t) \/ Continue(t) \/ TimeOut(t),
         asleep["sem"] = <<>>, asleep'["sem"] # <<>>
  PROVE  semWord' = 0
<1>0. TypeOK /\ Queued /\ Held /\ TypeOK' /\ Queued'
  BY DEF LockInv
<1>1. PICK v \in Thread : pc'[v] = "semAsleep"
  <2>1. asleep'["sem"] \in Seq(Thread)
    BY <1>0 DEF TypeOK, Word
  <2>2. 1 \in DOMAIN asleep'["sem"] /\ asleep'["sem"][1] \in Thread
    BY <2>1, Shortened
  <2> QED
    BY <2>2, <1>0 DEF Queued, AsleepAt, Word
<1>2. pc[v] # "semAsleep"
  BY <1>0 DEF Queued, AsleepAt, Word
<1>3. v = t
  BY <1>0, <1>1, <1>2, MovesStep, WokenGoOn DEF Moves
<1> QED
  BY <1>0, <1>1, <1>2, <1>3, OwnStep DEF Own

LEMMA UnitsStep ==
  ASSUME LockInv, LockInv', UnitsAreOffered, NEW t \in Thread, Call(t) \/ Continue(t) \/ TimeOut(t)
  PROVE  UnitsAreOffered'
<1>0. /\ TypeOK /\ Queued /\ Held /\ semWord \in Nat /\ semWord' \in Nat
      /\ Takers \in SUBSET Thread /\ Takers' \in SUBSET Thread
      /\ Cardinality(Takers) \in Nat /\ Cardinality(Takers') \in Nat
  BY TakersFinite DEF LockInv, TypeOK, Takers
<1> SUFFICES ASSUME asleep'["sem"] # <<>>, semWord' # 0
             PROVE  semWord' <= Cardinality(Takers')
  BY <1>0 DEF UnitsAreOffered, Takers, Taking
<1>1. asleep["sem"] # <<>>
  BY SemListGrows
<1>2. semWord <= Cardinality(Takers)
  BY <1>1 DEF UnitsAreOffered, Takers, Taking
<1>3. Takers \ {t} \subseteq Takers'
  BY TakersStay
<1>4. CASE Post(t)
  <2>1. semWord' = semWord + 1 /\ t \notin Takers /\ t \in Takers'
    BY <1>4, <1>0 DEF Post, Goto, Takers, Taking, TypeOK
  <2>2. Cardinality(Takers \cup {t}) = Cardinality(Takers) + 1 /\ Takers \cup {t} \subseteq Takers'
    BY <2>1, <1>0, <1>3, TakersFinite
  <2>3. Cardinality(Takers \cup {t}) <= Cardinality(Takers')
    BY <2>2, <1>0, TakersFinite
  <2> QED
    BY <2>1, <2>2, <2>3, <1>0, <1>2
<1>5. CASE Decrement(t)
  <2>1. semWord' = semWord - 1
    BY <1>5 DEF Decrement
  <2>2. Cardinality(Takers \ {t}) >= Cardinality(Takers) - 1
    <3>1. t \notin Takers => Takers \ {t} = Takers
      OBVIOUS
    <3> QED
      BY <3>1, <1>0, TakersFinite
  <2>3. Cardinality(Takers \ {t}) <= Cardinality(Takers')
    BY <1>0, <1>3, TakersFinite
  <2>4. Cardinality(Takers \ {t}) \in Nat
    BY <1>0, TakersFinite
  <2> QED
    BY <2>1, <2>2, <2>3, <2>4, <1>0, <1>2
<1>6. CASE PostNotify(t)
  <2> DEFINE h == Head(asleep["sem"])
  <2>1. 1 \in DOMAIN asleep["sem"] /\ h = asleep["sem"][1] /\ h \in Thread
    BY <1>1, <1>0, Shortened DEF TypeOK, Word
  <2>2. pc[h] = "semAsleep"
    BY <2>1, <1>0 DEF Queued, AsleepAt, Word
  <2>3. pc'[h] = "load" /\ semWord' = semWord
    BY <1>6, <1>1, <2>1 DEF PostNotify, NotifyOne, Notify, Resumed
  <2>4. t \in Takers /\ h \notin Takers /\ h \in Takers' /\ t # h
    BY <1>6, <2>1, <2>2, <2>3 DEF PostNotify, Takers, Taking
  <2>5. /\ Cardinality(Takers \ {t}) = Cardinality(Takers) - 1
        /\ Cardinality((Takers \ {t}) \cup {h}) = Cardinality(Takers \ {t}) + 1
        /\ (Takers \ {t}) \cup {h} \subseteq Takers'
    BY <2>1, <2>4, <1>0, <1>3, TakersFinite
  <2>6. Cardinality((Takers \ {t}) \cup {h}) <= Cardinality(Takers')
    BY <2>1, <2>5, <1>0, TakersFinite
  <2> QED
    BY <2>3, <2>5, <2>6, <1>0, <1>2
<1>7. ASSUME t \in Takers => t \in Takers', semWord' = semWord
      PROVE  semWord' <= Cardinality(Takers')
  <2>1. Takers \subseteq Takers'
    BY <1>3, <1>7
  <2>2. Cardinality(Takers) <= Cardinality(Takers')
    BY <2>1, <1>0, TakersFinite
  <2> QED
    BY <2>2, <1>0, <1>2, <1>7
<1>8. CASE Call(t) /\ ~Post(t)
  <2>1. semWord' = semWord /\ t \notin Takers
    BY <1>8 DEF Call, Lock, Wait, TryLock, Unlock, Add, SemCall, Takers, Taking
  <2> QED
    BY <2>1, <1>7
<1>9. CASE TimeOut(t)
  <2>1. semWord' = semWord /\ t \notin Takers
    BY <1>9 DEF TimeOut, Takers, Taking
  <2> QED
    BY <2>1, <1>7
<1>10. CASE LockStep(t) \/ WaitStore(t) \/ WaitWait(t)
  <2>1. semWord' = semWord /\ t \notin Takers
    BY <1>10 DEF LockStep, Acquire, Busy, LockWait, UnlockNotify, WaitNotify, WaitStore, WaitWait, Takers, Taking
  <2> QED
    BY <2>1, <1>7
<1>11. CASE SignalNotify(t) \/ BroadcastNotify(t) \/ SemWait(t)
  <2>1. semWord' = semWord /\ t \notin Takers
    BY <1>11 DEF SignalNotify, BroadcastNotify, SemWait, Takers, Taking
  <2> QED
    BY <2>1, <1>7
<1>12. CASE Load(t) \/ Contended(t)
  <2>1. semWord' = semWord /\ (t \in Takers => t \in Takers')
    BY <1>12, <1>0 DEF Load, Contended, Goto, Takers, Taking, TypeOK
  <2> QED
    BY <2>1, <1>7
<1> QED
  BY <1>4, <1>5, <1>6, <1>8, <1>9, <1>10, <1>11, <1>12 DEF Continue

(* No lost wake-up of the semaphore: see UnitsAreOffered.                  *)
THEOREM UnitsOffered == Spec => []UnitsAreOffered
<1> DEFINE I == LockInv /\ UnitsAreOffered
<1>1. Init => I
  BY LockInvInit DEF Init, UnitsAreOffered, Word
<1>2. I /\ [Next]_vars => I'
  <2>1. ASSUME I, UNCHANGED vars PROVE I'
    BY <2>1, LockInvStutter DEF UnitsAreOffered, vars, sleepers
  <2>2. ASSUME I, Next PROVE I'
    BY <2>2, LockInvStep, UnitsStep DEF Next
  <2> QED
    BY <2>1, <2>2
<1>3. I => UnitsAreOffered
  OBVIOUS
<1> HIDE DEF I
<1> QED
  BY <1>1, <1>2, <1>3, PTL DEF Spec

(* No wake-up is lost, of the mutex or of the semaphore.                   *)
THEOREM WakeupsKept == Spec => []NobodyIsForgotten
BY FreeLockOffered, UnitsOffered, PTL DEF NobodyIsForgotten

-----------------------------------------------------------------------------
(* What signal() owes.                                                     *)

(* How the list of the condition variable changes.                         *)
LEMMA SeqList ==
  ASSUME LockInv, NEW t \in Thread, Call(t) \/ Continue(t) \/ TimeOut(t)
  PROVE  \/ asleep'["seq"] = asleep["seq"] \/ asleep'["seq"] = <<>>
         \/ \E k \in DOMAIN asleep["seq"] : Drops("seq", k)
         \/ pc'[t] = "waitAsleep" /\ pc'[t] # pc[t]
<1>0. TypeOK /\ Queued
  BY DEF LockInv
<1>1. CASE Call(t)
  BY <1>1 DEF Call, Lock, Wait, TryLock, sleepers, Unlock, Add, SemCall, Post
<1>2. CASE TimeOut(t)
  <2>1. CASE Leave(t, "lock")
    BY <2>1, <1>0 DEF Leave, TypeOK
  <2>2. CASE Leave(t, "seq")
    BY <2>2, <1>0, LeaveDrops DEF Word
  <2> QED
    BY <1>2, <2>1, <2>2 DEF TimeOut
<1>3. CASE Acquire(t) \/ Busy(t) \/ LockWait(t)
  BY <1>3, <1>0 DEF TypeOK, Word, Sleep, Acquire, Busy, LockWait
<1>4. CASE WaitStore(t) \/ WaitWait(t)
  BY <1>4, <1>0 DEF TypeOK, Goto, Sleep, WaitStore, WaitWait
<1>5. CASE Load(t) \/ Decrement(t) \/ Contended(t) \/ SemWait(t)
  BY <1>5, <1>0 DEF TypeOK, Word, Sleep, Load, Decrement, Contended, SemWait
<1>6. CASE UnlockNotify(t) \/ WaitNotify(t) \/ PostNotify(t)
  BY <1>6, <1>0 DEF TypeOK, Word, NotifyOne, Notify, UnlockNotify, WaitNotify, PostNotify
<1>7. CASE SignalNotify(t)
  <2>1. CASE asleep["seq"] = <<>>
    BY <2>1, <1>7, <1>0 DEF SignalNotify, NotifyOne, Notify, TypeOK, Word
  <2>2. CASE asleep["seq"] # <<>>
    <3>1. asleep' = [asleep EXCEPT !["seq"] = Tail(asleep["seq"])]
      BY <2>2, <1>7 DEF SignalNotify, NotifyOne, Notify
    <3> QED
      BY <3>1, <2>2, <1>0, HeadDrops DEF Word
  <2> QED
    BY <2>1, <2>2
<1>8. CASE BroadcastNotify(t)
  BY <1>8, <1>0 DEF BroadcastNotify, NotifyAll, Notify, TypeOK, Word
<1> QED
  BY <1>1, <1>2, <1>3, <1>4, <1>5, <1>6, <1>7, <1>8 DEF Continue, LockStep

(* Sleepers keep their order, and one that comes is the last.              *)
LEMMA SeqOrder ==
  ASSUME LockInv, NEW t \in Thread, Call(t) \/ Continue(t) \/ TimeOut(t),
         NEW i \in DOMAIN asleep'["seq"], NEW j \in DOMAIN asleep'["seq"], i < j
  PROVE  \/ asleep'["seq"][j] = t /\ pc[t] = "waitWait" /\ seen[t] = seqWord
         \/ \E k, m \in DOMAIN asleep["seq"] :
              k < m /\ asleep'["seq"][i] = asleep["seq"][k] /\ asleep'["seq"][j] = asleep["seq"][m]
<1> DEFINE q == asleep["seq"]
<1>0. TypeOK /\ Queued /\ Held /\ q \in Seq(Thread)
  BY DEF LockInv, TypeOK, Word
<1>1. CASE asleep'["seq"] = q
  BY <1>1
<1>2. CASE asleep'["seq"] = <<>>
  BY <1>2
<1>3. ASSUME NEW k \in DOMAIN q, Drops("seq", k)
      PROVE  \E n, m \in DOMAIN q : n < m /\ asleep'["seq"][i] = q[n] /\ asleep'["seq"][j] = q[m]
  <2>1. Len(q) \in Nat /\ DOMAIN q = 1..Len(q) /\ i \in 1..(Len(q) - 1) /\ j \in 1..(Len(q) - 1)
    BY <1>0, <1>3 DEF Drops
  <2> DEFINE n == IF i < k THEN i ELSE i + 1
             m == IF j < k THEN j ELSE j + 1
  <2>2. n \in DOMAIN q /\ m \in DOMAIN q /\ n < m
    BY <2>1
  <2>3. asleep'["seq"][i] = q[n] /\ asleep'["seq"][j] = q[m]
    BY <2>1, <1>3 DEF Drops
  <2> QED
    BY <2>2, <2>3
<1>4. CASE pc'[t] = "waitAsleep" /\ pc'[t] # pc[t]
  <2>1. pc[t] = "waitWait" /\ seen[t] = seqWord /\ asleep'["seq"] = Append(q, t)
    BY <1>4, <1>0, OwnStep DEF Own, TypeOK, Word
  <2>2. /\ DOMAIN asleep'["seq"] = 1..(Len(q) + 1) /\ DOMAIN q = 1..Len(q) /\ Len(q) \in Nat
        /\ \A n \in 1..Len(q) : asleep'["seq"][n] = q[n]
        /\ asleep'["seq"][Len(q) + 1] = t
    BY <2>1, <1>0, Appended
  <2>3. CASE j = Len(q) + 1
    BY <2>1, <2>2, <2>3
  <2>4. CASE j # Len(q) + 1
    <3>1. i \in 1..Len(q) /\ j \in 1..Len(q)
      BY <2>2, <2>4
    <3> QED
      BY <3>1, <2>2
  <2> QED
    BY <2>3, <2>4
<1> QED
  BY <1>1, <1>2, <1>3, <1>4, SeqList

InWindow == {"waitNotify", "waitWait"}

(* A thread that waits and does not sleep yet was there before, and what   *)
(* it has read is what it had read.                                        *)
LEMMA WindowStep ==
  ASSUME LockInv, NEW t \in Thread, Call(t) \/ Continue(t) \/ TimeOut(t),
         NEW u \in Thread, pc[u] \in InWindow, pc'[u] \in Waits
  PROVE  \/ pc'[u] \in InWindow /\ seen'[u] = seen[u]
         \/ pc'[u] = "waitAsleep" /\ u = t /\ seen[u] = seqWord
<1>0. TypeOK /\ Queued /\ Held
  BY DEF LockInv
<1>1. CASE u # t
  <2>1. pc'[u] = pc[u] /\ seen'[u] = seen[u]
    BY <1>0, <1>1, MovesStep, OwnStep, StillStep DEF Moves, Own, AsleepAt, InWindow
  <2> QED
    BY <2>1
<1>2. CASE u = t /\ pc'[t] = pc[t]
  BY <1>0, <1>2, StillStep
<1>3. CASE u = t /\ pc'[t] # pc[t]
  <2>1. Own(t)
    BY <1>0, <1>3, OwnStep
  <2> QED
    BY <2>1, <1>3 DEF Own, InWindow, Waits
<1> QED
  BY <1>1, <1>2, <1>3

LEMMA SeqGrows ==
  ASSUME LockInv, NEW t \in Thread, Call(t) \/ Continue(t) \/ TimeOut(t)
  PROVE  /\ seqWord \in Nat /\ seqWord' \in Nat /\ seqWord <= seqWord'
         /\ pc[t] = "signalNotify" => seqWord' = seqWord /\ NotifyOne(t, "seq", "idle")
<1>0. TypeOK /\ Queued /\ Held
  BY DEF LockInv
<1>1. CASE pc'[t] = pc[t]
  <2>1. seqWord' = seqWord /\ pc[t] \in {"idle", "lock"}
    BY <1>0, <1>1, StillStep
  <2>2. seqWord \in Nat
    BY <1>0 DEF TypeOK
  <2> QED
    BY <2>1, <2>2
<1>2. CASE pc'[t] # pc[t]
  <2>1. Own(t)
    BY <1>0, <1>2, OwnStep
  <2>2. pc[t] = "signalNotify" => pc'[t] = "idle"
    BY <2>1, <1>0, NotifyOwn DEF Own, Word, Beds
  <2> QED
    BY <2>1, <2>2, <1>0 DEF Own, TypeOK
<1> QED
  BY <1>1, <1>2

LEMMA SeenStep ==
  ASSUME LockInv, Seen, NEW t \in Thread, Call(t) \/ Continue(t) \/ TimeOut(t), LockInv'
  PROVE  Seen'
<1>0. TypeOK /\ Queued /\ Held /\ seqWord \in Nat /\ seqWord' \in Nat /\ seqWord <= seqWord'
      /\ seen \in [Thread -> Nat] /\ seen' \in [Thread -> Nat]
  BY SeqGrows DEF LockInv, TypeOK
<1> SUFFICES ASSUME NEW u \in Thread, pc'[u] \in {"waitStore", "waitNotify", "waitWait"}
             PROVE  seen'[u] <= seqWord'
  BY DEF Seen
<1>1. CASE u # t
  <2>1. pc'[u] = pc[u]
    BY <1>0, <1>1, MovesStep, WokenGoOn DEF Moves
  <2>2. seen'[u] = seen[u]
    BY <1>0, <1>1, OwnStep, StillStep DEF Own
  <2>3. seen[u] <= seqWord
    BY <2>1 DEF Seen
  <2> QED
    BY <2>2, <2>3, <1>0
<1>2. CASE u = t /\ pc'[t] = pc[t]
  BY <1>2, <1>0, StillStep
<1>3. CASE u = t /\ pc'[t] # pc[t]
  <2>1. Own(t)
    BY <1>0, <1>3, OwnStep
  <2>2. seen'[u] = seqWord \/ (seen'[u] = seen[u] /\ pc[u] \in {"waitStore", "waitNotify"})
    BY <2>1, <1>3 DEF Own
  <2>3. seen'[u] <= seqWord
    BY <2>2, <1>0 DEF Seen
  <2> QED
    BY <2>3, <1>0
<1> QED
  BY <1>1, <1>2, <1>3

(* When t adds 1 for a signal, nobody else moves.                          *)
LEMMA AddStep ==
  ASSUME LockInv, LockInv', NEW t \in Thread, Call(t) \/ Continue(t) \/ TimeOut(t),
         NEW s \in Thread, pc[s] = "idle", pc'[s] = "signalNotify"
  PROVE  /\ s = t /\ seqWord' = seqWord + 1 /\ asleep' = asleep
         /\ \A u \in Thread : u # t => pc'[u] = pc[u] /\ seen'[u] = seen[u]
<1>0. TypeOK /\ Queued /\ Held /\ Queued'
  BY DEF LockInv
<1>1. s = t
  BY <1>0, MovesStep, WokenGoOn DEF Moves, Beds
<1>2. Own(t)
  BY <1>0, <1>1, OwnStep
<1>3. seqWord' = seqWord + 1 /\ asleep' = asleep /\ \A u \in Thread : u # t => seen'[u] = seen[u]
  BY <1>1, <1>2 DEF Own
<1>4. ASSUME NEW u \in Thread, u # t PROVE pc'[u] = pc[u]
  <2> SUFFICES ASSUME NEW w \in Word, pc[u] = AsleepAt(w), pc'[u] = Resumed(w) PROVE FALSE
    BY <1>0, <1>4, MovesStep DEF Moves
  <2>1. PICK i \in DOMAIN asleep[w] : asleep[w][i] = u
    BY <1>0 DEF Queued
  <2>2. pc'[u] = AsleepAt(w)
    BY <2>1, <1>0, <1>3 DEF Queued
  <2> QED
    BY <2>2, WokenGoOn DEF Beds
<1> QED
  BY <1>1, <1>3, <1>4

LEMMA OwedIs ==
  ASSUME Owe, NEW s \in Thread
  PROVE  \/ pc[s] = "idle" /\ pc'[s] = "signalNotify" /\ owed'[s] = Waiters
         \/ owed'[s] = owed[s] /\ owed[s] \subseteq Waiters'
         \/ owed'[s] = {}
BY DEF Owe

(* The sleepers on the condition variable are those at waitAsleep.         *)
LEMMA SeqSleepers ==
  ASSUME LockInv
  PROVE  /\ \A i \in DOMAIN asleep["seq"] :
              asleep["seq"][i] \in Thread /\ pc[asleep["seq"][i]] = "waitAsleep"
         /\ \A u \in Thread : pc[u] = "waitAsleep" => \E i \in DOMAIN asleep["seq"] : asleep["seq"][i] = u
BY DEF LockInv, TypeOK, Queued, AsleepAt, Word

LEMMA AsleepStays ==
  ASSUME LockInv, NEW t \in Thread, Call(t) \/ Continue(t) \/ TimeOut(t),
         NEW u \in Thread, pc[u] = "waitAsleep"
  PROVE  pc'[u] \notin InWindow
<1>0. TypeOK /\ Queued /\ Held
  BY DEF LockInv
<1>1. CASE u # t
  BY <1>0, <1>1, MovesStep, WokenGoOn DEF Moves, InWindow
<1>2. CASE u = t /\ pc'[t] = pc[t]
  BY <1>2 DEF InWindow
<1>3. CASE u = t /\ pc'[t] # pc[t]
  BY <1>0, <1>3, OwnStep DEF Own, InWindow
<1> QED
  BY <1>1, <1>2, <1>3

LEMMA OwedStep ==
  ASSUME LockInv, LockInv', Seen, Owed, NEW t \in Thread, Call(t) \/ Continue(t) \/ TimeOut(t), Owe
  PROVE  Owed'
<1> SUFFICES ASSUME NEW s \in Thread
             PROVE  /\ owed'[s] \subseteq Waiters'
                    /\ \A u \in owed'[s] : pc'[u] # "waitAsleep" => seen'[u] < seqWord'
                    /\ \A i, j \in DOMAIN asleep'["seq"] :
                         i < j /\ asleep'["seq"][j] \in owed'[s] => asleep'["seq"][i] \in owed'[s]
  BY DEF Owed
<1>0. /\ seqWord \in Nat /\ seqWord' \in Nat /\ seqWord <= seqWord'
      /\ seen \in [Thread -> Nat] /\ seen' \in [Thread -> Nat]
  BY SeqGrows DEF LockInv, TypeOK
<1>1. CASE pc[s] = "idle" /\ pc'[s] = "signalNotify" /\ owed'[s] = Waiters
  <2>1. /\ s = t /\ seqWord' = seqWord + 1 /\ asleep' = asleep
        /\ \A u \in Thread : u # t => pc'[u] = pc[u] /\ seen'[u] = seen[u]
    BY <1>1, AddStep
  <2>2. \A u \in Waiters : u \in Thread /\ pc[u] \in Waits /\ pc'[u] = pc[u] /\ seen'[u] = seen[u]
    BY <1>1, <2>1 DEF Waiters, Waits
  <2>3. Waiters \subseteq Waiters'
    BY <2>2 DEF Waiters
  <2>4. \A u \in Waiters : pc'[u] # "waitAsleep" => seen'[u] < seqWord'
    BY <2>1, <2>2, <1>0 DEF Seen, Waits
  <2>5. \A i \in DOMAIN asleep["seq"] : asleep["seq"][i] \in Waiters
    BY SeqSleepers DEF Waiters
  <2> QED
    BY <1>1, <2>1, <2>3, <2>4, <2>5
<1>2. CASE owed'[s] = owed[s] /\ owed[s] \subseteq Waiters'
  <2>1. ASSUME NEW u \in owed[s], pc'[u] # "waitAsleep" PROVE seen'[u] < seqWord'
    <3>1. u \in Thread /\ pc[u] \in Waits /\ pc'[u] \in InWindow
      BY <1>2, <2>1 DEF Owed, Waiters, Waits, InWindow
    <3>2. CASE pc[u] \in InWindow
      <4>1. seen'[u] = seen[u]
        BY <3>1, <3>2, <2>1, WindowStep DEF InWindow, Waits
      <4>2. seen[u] < seqWord
        BY <3>2 DEF Owed, InWindow
      <4> QED
        BY <4>1, <4>2, <3>1, <1>0
    <3>3. CASE pc[u] = "waitAsleep"
      BY <3>1, <3>3, AsleepStays
    <3> QED
      BY <3>1, <3>2, <3>3 DEF Waits, InWindow
  <2>2. ASSUME NEW i \in DOMAIN asleep'["seq"], NEW j \in DOMAIN asleep'["seq"],
               i < j, asleep'["seq"][j] \in owed[s]
        PROVE  asleep'["seq"][i] \in owed[s]
    <3>1. CASE asleep'["seq"][j] = t /\ pc[t] = "waitWait" /\ seen[t] = seqWord
      <4>1. seen[t] < seqWord
        BY <2>2, <3>1 DEF Owed
      <4> QED
        BY <4>1, <3>1, <1>0
    <3>2. ASSUME NEW k \in DOMAIN asleep["seq"], NEW m \in DOMAIN asleep["seq"], k < m,
                 asleep'["seq"][i] = asleep["seq"][k], asleep'["seq"][j] = asleep["seq"][m]
          PROVE  asleep'["seq"][i] \in owed[s]
      BY <2>2, <3>2 DEF Owed
    <3> QED
      BY <2>2, <3>1, <3>2, SeqOrder
  <2> QED
    BY <1>2, <2>1, <2>2
<1>3. CASE owed'[s] = {}
  BY <1>3
<1> QED
  BY <1>1, <1>2, <1>3, OwedIs

(* One that waits and has not read the current number goes on waiting so,  *)
(* or goes on.                                                             *)
LEMMA StaleStep ==
  ASSUME LockInv, NEW t \in Thread, Call(t) \/ Continue(t) \/ TimeOut(t),
         NEW u \in Thread, pc[u] \in InWindow, seen[u] < seqWord, pc'[u] \in Waits
  PROVE  pc'[u] \in InWindow /\ seen'[u] # seqWord'
<1>0. seqWord \in Nat /\ seqWord' \in Nat /\ seqWord <= seqWord' /\ seen[u] \in Nat
  BY SeqGrows DEF LockInv, TypeOK
<1> QED
  BY <1>0, WindowStep

LEMMA DeliveredStep ==
  ASSUME LockInv, Owed, SignalDelivered,
         NEW t \in Thread, Call(t) \/ Continue(t) \/ TimeOut(t), Owe
  PROVE  SignalDelivered'
<1> SUFFICES ASSUME NEW s \in Thread, owed'[s] # {}, pc'[s] # "signalNotify"
             PROVE  \E u \in owed'[s] : pc'[u] \in InWindow /\ seen'[u] # seqWord'
  BY DEF SignalDelivered, InWindow
<1>1. owed'[s] = owed[s] /\ owed[s] \subseteq Waiters'
  BY OwedIs
<1>2. \A u \in owed[s] : u \in Thread /\ pc[u] \in Waits /\ pc'[u] \in Waits
  BY <1>1 DEF Owed, Waiters, Waits
<1>3. \A u \in owed[s] : pc[u] \in InWindow => seen[u] < seqWord
  BY DEF Owed, InWindow
<1>4. PICK u \in owed[s] : pc[u] \in InWindow
  <2>1. CASE pc[s] # "signalNotify"
    BY <1>1, <2>1 DEF SignalDelivered, InWindow
  <2>2. CASE pc[s] = "signalNotify"
    <3>1. s = t
      BY <2>2, MovesStep DEF LockInv, Moves, AsleepAt
    <3>2. NotifyOne(t, "seq", "idle")
      BY <2>2, <3>1, SeqGrows
    <3>3. ASSUME NEW i \in DOMAIN asleep["seq"], asleep["seq"][i] \in owed[s] PROVE FALSE
      <4>1. asleep["seq"] \in Seq(Thread) /\ asleep["seq"] # <<>>
        BY <3>3 DEF LockInv, TypeOK, Word
      <4>2. /\ Head(asleep["seq"]) = asleep["seq"][1] /\ asleep["seq"][1] \in Thread
            /\ 1 \in DOMAIN asleep["seq"] /\ (i = 1 \/ 1 < i)
        BY <4>1, Shortened
      <4>3. asleep["seq"][1] \in owed[s]
        BY <3>3, <4>2 DEF Owed
      <4>4. pc'[asleep["seq"][1]] = "lock"
        BY <3>2, <4>1, <4>2 DEF NotifyOne, Notify, Resumed
      <4> QED
        BY <1>2, <4>3, <4>4 DEF Waits
    <3>4. PICK u \in owed[s] : TRUE
      BY <1>1
    <3>5. pc[u] # "waitAsleep"
      BY <3>3, <3>4, <1>2, SeqSleepers
    <3> QED
      BY <3>4, <3>5, <1>2 DEF Waits, InWindow
  <2> QED
    BY <2>1, <2>2
<1> QED
  BY <1>1, <1>2, <1>3, <1>4, StaleStep

LEMMA IInvInit == Init => IInv
<1> SUFFICES ASSUME Init PROVE IInv
  OBVIOUS
<1>1. Seen /\ Owed /\ SignalDelivered
  BY DEF Init, Seen, Owed, SignalDelivered, Waiters
<1> QED
  BY <1>1, LockInvInit DEF IInv

LEMMA IInvNext == IInv /\ [Next]_vars => IInv'
<1>1. ASSUME IInv, UNCHANGED vars PROVE IInv'
  <2>1. LockInv'
    BY <1>1, LockInvStutter DEF IInv
  <2>2. Seen' /\ SignalDelivered'
    BY <1>1 DEF IInv, Seen, SignalDelivered, vars, sleepers
  <2>3. Owed'
    BY <1>1 DEF IInv, Owed, Waiters, vars, sleepers
  <2> QED
    BY <2>1, <2>2, <2>3 DEF IInv
<1>2. ASSUME IInv, NEW t \in Thread, Call(t) \/ Continue(t) \/ TimeOut(t), Owe PROVE IInv'
  <2>1. LockInv'
    BY <1>2, LockInvStep DEF IInv
  <2>2. Seen'
    BY <1>2, <2>1, SeenStep DEF IInv
  <2>3. Owed'
    BY <1>2, <2>1, OwedStep DEF IInv
  <2>4. SignalDelivered'
    BY <1>2, DeliveredStep DEF IInv
  <2> QED
    BY <2>1, <2>2, <2>3, <2>4 DEF IInv
<1> QED
  BY <1>1, <1>2 DEF Next

(* No lost signal, and none taken by a later waiter: see SignalDelivered.  *)
THEOREM SignalsDelivered == Spec => []SignalDelivered
<1>1. IInv => SignalDelivered
  BY DEF IInv
<1> QED
  BY IInvInit, IInvNext, <1>1, PTL DEF Spec

-----------------------------------------------------------------------------
(* The words and threads implement Synchronized.                           *)

LEMMA WaitersShrink ==
  ASSUME LockInv, NEW t \in Thread, Call(t) \/ Continue(t) \/ TimeOut(t), pc[t] # "waitStore"
  PROVE  Waiters' \subseteq Waiters
<1>0. TypeOK /\ Queued /\ Held
  BY DEF LockInv
<1> SUFFICES ASSUME NEW u \in Thread, pc'[u] \in Waits PROVE pc[u] \in Waits
  BY DEF Waiters, Waits
<1>1. CASE u # t
  BY <1>0, <1>1, MovesStep, WokenGoOn DEF Moves, Waits
<1>2. CASE u = t /\ pc'[t] = pc[t]
  BY <1>2
<1>3. CASE u = t /\ pc'[t] # pc[t]
  BY <1>0, <1>3, OwnStep DEF Own, Waits
<1> QED
  BY <1>1, <1>2, <1>3

LEMMA OwnerIs ==
  ASSUME Exclusive
  PROVE  (lockWord = 0 => Owner = NoThread) /\ \A t \in holding : Owner = t
BY DEF Exclusive, Owner

(* Steps that touch neither the mutex nor the count.                       *)
LEMMA QuietStep ==
  ASSUME LockInv, NEW t \in Thread, Call(t) \/ Continue(t) \/ TimeOut(t), pc[t] # "waitStore",
         holding' = holding, semWord' = semWord
  PROVE  Promise!Next
<1>1. Waiters' = Waiters \ (Waiters \ Waiters')
  BY WaitersShrink
<1>2. Owner' = Owner
  BY DEF Owner
<1>3. Promise!Wake(Waiters \ Waiters')
  BY <1>1, <1>2 DEF Promise!Wake
<1> QED
  BY <1>3 DEF Promise!Next

LEMMA PromiseStep ==
  ASSUME LockInv, LockInv', NEW t \in Thread, Call(t) \/ Continue(t) \/ TimeOut(t)
  PROVE  Promise!Next
<1>0. TypeOK /\ Held /\ Read /\ Exclusive /\ Exclusive'
  BY DEF LockInv
<1>1. CASE Acquire(t) \/ TryLock(t)
  <2>1. Waiters' = Waiters /\ t \notin Waiters /\ semWord' = semWord
    BY <1>1, <1>0 DEF Acquire, TryLock, Done, Goto, sleepers, Waiters, TypeOK
  <2>2. lockWord = 0 /\ t \in holding'
    BY <1>1 DEF Acquire, TryLock
  <2>3. Owner = NoThread /\ Owner' = t
    BY <2>2, <1>0, OwnerIs DEF Exclusive, Owner
  <2>4. Promise!Acquire(t)
    BY <2>1, <2>3 DEF Promise!Acquire
  <2> QED
    BY <2>4 DEF Promise!Next
<1>2. CASE Unlock(t)
  <2>1. Waiters' = Waiters /\ semWord' = semWord
    BY <1>2, <1>0 DEF Unlock, Goto, Waiters, TypeOK
  <2>2. t \in holding /\ holding' = {}
    BY <1>2, <1>0 DEF Unlock, Exclusive
  <2>3. Owner = t /\ Owner' = NoThread
    BY <2>2, <1>0, OwnerIs DEF Owner
  <2>4. Promise!Release(t)
    BY <2>1, <2>3 DEF Promise!Release
  <2> QED
    BY <2>4 DEF Promise!Next
<1>3. CASE WaitStore(t)
  <2>1. Waiters' = Waiters \cup {t} /\ semWord' = semWord
    BY <1>3, <1>0 DEF WaitStore, Goto, Waiters, TypeOK
  <2>2. t \in holding /\ holding' = {}
    BY <1>3, <1>0 DEF WaitStore, Held, Exclusive
  <2>3. Owner = t /\ Owner' = NoThread
    BY <2>2, <1>0, OwnerIs DEF Owner
  <2>4. Promise!Wait(t)
    BY <2>1, <2>3 DEF Promise!Wait
  <2> QED
    BY <2>4 DEF Promise!Next
<1>4. CASE Decrement(t)
  <2>1. Waiters' = Waiters /\ Owner' = Owner
    BY <1>4, <1>0 DEF Decrement, Goto, Waiters, TypeOK, Owner
  <2>2. semWord > 0 /\ semWord' = semWord - 1
    BY <1>4, <1>0 DEF Decrement, Read
  <2>3. Promise!Down
    BY <2>1, <2>2 DEF Promise!Down
  <2> QED
    BY <2>3 DEF Promise!Next
<1>5. CASE Post(t)
  <2>1. Waiters' = Waiters /\ Owner' = Owner /\ semWord' = semWord + 1
    BY <1>5, <1>0 DEF Post, Goto, Waiters, TypeOK, Owner
  <2>2. Promise!Up
    BY <2>1 DEF Promise!Up
  <2> QED
    BY <2>2 DEF Promise!Next
<1>6. CASE Call(t) /\ ~TryLock(t) /\ ~Unlock(t) /\ ~Post(t)
  <2>1. pc[t] # "waitStore" /\ holding' = holding /\ semWord' = semWord
    BY <1>6 DEF Call, Lock, Wait, Add, SemCall
  <2> QED
    BY <2>1, QuietStep
<1>7. CASE TimeOut(t)
  <2>1. pc[t] # "waitStore" /\ holding' = holding /\ semWord' = semWord
    BY <1>7 DEF TimeOut
  <2> QED
    BY <2>1, QuietStep
<1>8. CASE Busy(t) \/ LockWait(t) \/ UnlockNotify(t) \/ WaitNotify(t) \/ WaitWait(t)
  <2>1. pc[t] # "waitStore" /\ holding' = holding /\ semWord' = semWord
    BY <1>8 DEF Busy, LockWait, UnlockNotify, WaitNotify, WaitWait
  <2> QED
    BY <2>1, QuietStep
<1>9. CASE SignalNotify(t) \/ BroadcastNotify(t) \/ PostNotify(t) \/ Load(t) \/ Contended(t) \/ SemWait(t)
  <2>1. pc[t] # "waitStore" /\ holding' = holding /\ semWord' = semWord
    BY <1>9 DEF SignalNotify, BroadcastNotify, PostNotify, Load, Contended, SemWait
  <2> QED
    BY <2>1, QuietStep
<1> QED
  BY <1>1, <1>2, <1>3, <1>4, <1>5, <1>6, <1>7, <1>8, <1>9 DEF Continue, LockStep

(* The three classes of hal/ipc.ts do what their interfaces say, for any   *)
(* number of threads: every step is one of Synchronized or changes nothing *)
(* of what it shows.                                                       *)
THEOREM PromiseKept == Spec => ImplementsPromise
<1>1. Init => Promise!Init
  BY DEF Init, Promise!Init, Owner, Waiters
<1>2. LockInv /\ [Next]_vars => LockInv'
  BY LockInvStep, LockInvStutter DEF Next
<1>3. LockInv /\ LockInv' /\ [Next]_vars => [Promise!Next]_(Promise!vars)
  <2>1. ASSUME UNCHANGED vars PROVE UNCHANGED Promise!vars
    BY <2>1 DEF vars, sleepers, Promise!vars, Owner, Waiters
  <2>2. ASSUME LockInv, LockInv', Next PROVE Promise!Next
    BY <2>2, PromiseStep DEF Next
  <2> QED
    BY <2>1, <2>2
<1> QED
  BY LockInvInit, <1>1, <1>2, <1>3, PTL DEF Spec, ImplementsPromise, Promise!Spec

=============================================================================
