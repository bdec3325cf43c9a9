-------------------------- MODULE WorkerPoolProofs --------------------------
(***************************************************************************)
(* Proofs about WorkerPool, for any processes, workers, calls and sizes.   *)
(***************************************************************************)
EXTENDS WorkerPool, FiniteSetTheorems, TLAPS

Queued == \A i \in DOMAIN waiters : lease[waiters[i]].st = "waiting"
Distinct == \A i, j \in DOMAIN waiters : waiters[i] = waiters[j] => i = j

(* A call that has a worker in hand.                                       *)
Holds(c) == lease[c].st \in {"warming", "adding", "leased"}
Calls == \A c \in Lease : Holds(c) => lease[c].worker \in Worker

(* Nothing happens before there is a pool.                                 *)
Fresh ==
  pool = "none" =>
    waiters = <<>> /\ \A c \in Lease : lease[c].st = "idle"

(* The call that made the pool is the only one that warms it up, and finds *)
(* nobody waiting.                                                         *)
OneWarms ==
  /\ Warming => waiters = <<>>
  /\ \A c, d \in Lease :
       lease[c].st \in {"warming", "warm"} /\ lease[d].st \in {"warming", "warm"} => c = d

Owed ==
  /\ waiters # <<>> => pool = "up" /\ idle = <<>> /\ (busy # {} \/ \E c \in Lease : lease[c].st = "adding")
  /\ pool = "up" => \A c \in Lease : lease[c].st = "waiting" => \E i \in DOMAIN waiters : waiters[i] = c

(* Where a worker is that nobody gave back twice ...                       *)
InIdle(w) == \E i \in 1..Len(idle) : idle[i] = w
Carries(c, w) == lease[c].st \in {"warming", "adding"} /\ lease[c].worker = w
Carried(w) == \E c \in Lease : Carries(c, w)
Single(w) ==
  /\ \A i, j \in 1..Len(idle) : idle[i] = w /\ idle[j] = w => i = j
  /\ \A c, d \in Lease : Carries(c, w) /\ Carries(d, w) => c = d
  /\ ~(InIdle(w) /\ w \in busy) /\ ~(InIdle(w) /\ Carried(w)) /\ ~(w \in busy /\ Carried(w))
  /\ thread[w] = "live" <=> InIdle(w) \/ w \in busy \/ Carried(w)

(* ... and who leases it: a process on record that is not giving it back,  *)
(* or a call that is about to record it.                                   *)
Gives(r, p, w) == release[r].st = "releasing" /\ release[r].proc = p /\ release[r].worker = w
Records(p, w) == w \in leased[p] /\ \A r \in Release : ~Gives(r, p, w)
Takes(c, w) == lease[c].st = "leased" /\ lease[c].worker = w
Exclusive(w) ==
  /\ \A p \in Proc : Records(p, w) => w \in busy
  /\ \A c \in Lease : Takes(c, w) => w \in busy
  /\ \A p, q \in Proc : Records(p, w) /\ Records(q, w) => p = q
  /\ \A c, d \in Lease : Takes(c, w) /\ Takes(d, w) => c = d
  /\ \A p \in Proc, c \in Lease : ~(Records(p, w) /\ Takes(c, w))

(* A release whose map is gone has no record in a newer one: no call      *)
(* records a worker that is being released.                               *)
GoneIsGone ==
  \A r \in Release : release[r].st = "releasing" /\ release[r].gone =>
                       release[r].worker \notin leased[release[r].proc]

PlaceInv ==
  /\ GoneIsGone
  /\ pool # "shutdown" => \A w \in Worker \ doubled : Single(w) /\ Exclusive(w)

(* As long as nobody gives a worker back twice, a worker that is being     *)
(* released is still on record, so that no release drops a newer map.      *)
Known(w) == (\E p \in Proc : Records(p, w)) \/ \E c \in Lease : Takes(c, w)
KnownInv ==
  pool # "shutdown" /\ doubled = {} =>
    /\ \A r \in Release : release[r].st = "releasing" =>
         ~release[r].gone /\ release[r].worker \in leased[release[r].proc]
    /\ \A p \in Proc, w \in Worker, r, o \in Release : Gives(r, p, w) /\ Gives(o, p, w) => r = o
    /\ \A w \in busy : Known(w)

PoolInv == TypeOK /\ Queued /\ Distinct /\ Calls /\ Fresh /\ OneWarms /\ Owed

-----------------------------------------------------------------------------
(* Sequences.                                                              *)

LEMMA Listed ==
  ASSUME NEW S, NEW q \in Seq(S)
  PROVE  /\ Len(q) \in Nat /\ DOMAIN q = 1..Len(q)
         /\ Len(q) = 0 <=> q = <<>>
         /\ \A i \in 1..Len(q) : q[i] \in S
  OBVIOUS

LEMMA Empty ==
  ASSUME NEW S
  PROVE  <<>> \in Seq(S) /\ Len(<<>>) = 0 /\ DOMAIN <<>> = {}
  OBVIOUS

LEMMA Appended ==
  ASSUME NEW S, NEW q \in Seq(S), NEW t \in S
  PROVE  /\ Append(q, t) \in Seq(S)
         /\ Len(q) \in Nat /\ Len(Append(q, t)) = Len(q) + 1
         /\ DOMAIN q = 1..Len(q) /\ DOMAIN Append(q, t) = 1..(Len(q) + 1)
         /\ \A i \in 1..Len(q) : Append(q, t)[i] = q[i]
         /\ Append(q, t)[Len(q) + 1] = t
         /\ Append(q, t) # <<>>
  OBVIOUS

LEMMA Suffix ==
  ASSUME NEW S, NEW q \in Seq(S), NEW n \in 0..Len(q)
  PROVE  /\ SubSeq(q, n + 1, Len(q)) \in Seq(S)
         /\ Len(SubSeq(q, n + 1, Len(q))) = Len(q) - n
         /\ \A i \in 1..(Len(q) - n) : SubSeq(q, n + 1, Len(q))[i] = q[n + i]
<1>1. Len(q) \in Nat /\ n \in Nat /\ n <= Len(q)
  BY Listed
<1>2. \A i \in (n + 1)..Len(q) : q[i] \in S
  BY <1>1, Listed
<1> QED
  BY <1>1, <1>2

LEMMA Prefix ==
  ASSUME NEW S, NEW q \in Seq(S), NEW n \in 0..Len(q)
  PROVE  /\ SubSeq(q, 1, n) \in Seq(S) /\ Len(SubSeq(q, 1, n)) = n
         /\ \A i \in 1..n : SubSeq(q, 1, n)[i] = q[i]
<1>1. Len(q) \in Nat /\ n \in Nat /\ n <= Len(q) /\ \A i \in 1..n : q[i] \in S
  BY Listed
<1> QED
  BY <1>1

LEMMA Fronted ==
  ASSUME NEW S, NEW q \in Seq(S), q # <<>>
  PROVE  /\ Len(q) \in Nat \ {0} /\ Last(q) = q[Len(q)] /\ Last(q) \in S
         /\ Front(q) \in Seq(S) /\ Len(Front(q)) = Len(q) - 1
         /\ \A i \in 1..(Len(q) - 1) : Front(q)[i] = q[i]
<1>1. Len(q) \in Nat \ {0} /\ \A i \in 1..Len(q) : q[i] \in S
  BY Listed
<1>2. Len(q) - 1 \in 0..Len(q)
  BY <1>1
<1>3. /\ SubSeq(q, 1, Len(q) - 1) \in Seq(S) /\ Len(SubSeq(q, 1, Len(q) - 1)) = Len(q) - 1
      /\ \A i \in 1..(Len(q) - 1) : SubSeq(q, 1, Len(q) - 1)[i] = q[i]
  BY <1>2, Prefix
<1>4. Last(q) = q[Len(q)] /\ Front(q) = SubSeq(q, 1, Len(q) - 1)
  BY DEF Front, Last
<1> QED
  BY <1>1, <1>3, <1>4

LEMMA Joined ==
  ASSUME NEW S, NEW q \in Seq(S), NEW r \in Seq(S)
  PROVE  /\ q \o r \in Seq(S) /\ Len(q \o r) = Len(q) + Len(r)
         /\ \A i \in 1..Len(q) : (q \o r)[i] = q[i]
         /\ \A i \in 1..Len(r) : (q \o r)[Len(q) + i] = r[i]
  OBVIOUS

LEMMA Ranges ==
  ASSUME NEW S, NEW q \in Seq(S)
  PROVE  Range(q) \subseteq S /\ \A x : x \in Range(q) <=> \E i \in 1..Len(q) : q[i] = x
  BY Listed DEF Range

LEMMA OfASet ==
  ASSUME NEW S, IsFiniteSet(S), NEW s \in SetToSeqs(S)
  PROVE  s \in Seq(S) /\ Range(s) = S /\ \A i, j \in 1..Len(s) : s[i] = s[j] => i = j
<1> DEFINE n == Cardinality(S)
<1>1. n \in Nat
  BY FS_CardinalityType
<1>2. s \in [1..n -> S] /\ \A i, j \in 1..n : i # j => s[i] # s[j]
  BY DEF SetToSeqs
<1>3. s \in Seq(S) /\ DOMAIN s = 1..n /\ Len(s) = n
  BY <1>1, <1>2
<1>4. s \in Injection(1..n, S)
  BY <1>2 DEF Injection, IsInjective
<1>5. Cardinality(1..n) = n
  BY <1>1, FS_Interval
<1>6. s \in Surjection(1..n, S)
  BY <1>4, <1>5, FS_Injection
<1>7. Range(s) = S
  BY <1>2, <1>3, <1>6 DEF Range, Surjection
<1> QED
  BY <1>2, <1>3, <1>7

-----------------------------------------------------------------------------
(* What the actions do.                                                    *)

(* The first k workers of s are handed to the first k waiters.             *)
Handed(s, k) ==
  /\ k \in Nat /\ k <= Len(s) /\ k <= Len(waiters) /\ (k = Len(s) \/ k = Len(waiters))
  /\ busy' = busy \ Range(s)
  /\ waiters' \in Seq(Lease) /\ Len(waiters') = Len(waiters) - k
  /\ \A i \in 1..(Len(waiters) - k) : waiters'[i] = waiters[k + i]
  /\ idle' \in Seq(Worker) /\ Len(idle') = Len(idle) + (Len(s) - k)
  /\ \A i \in 1..Len(idle) : idle'[i] = idle[i]
  /\ \A i \in 1..(Len(s) - k) : idle'[Len(idle) + i] = s[k + i]
  /\ lease' \in [Lease -> LeaseCall \cup {NoCall}]
  /\ \A i \in 1..k : lease'[waiters[i]] = In("adding", lease[waiters[i]].proc, s[i])
  /\ \A c \in Lease : (\A i \in 1..k : waiters[i] # c) => lease'[c] = lease[c]

LEMMA CallOK ==
  ASSUME NEW st \in LeaseState, NEW p \in Proc, NEW w \in Worker \cup {NoWorker}
  PROVE  /\ In(st, p, w) \in LeaseCall
         /\ In(st, p, w).st = st /\ In(st, p, w).proc = p /\ In(st, p, w).worker = w
  BY DEF In, LeaseCall

LEMMA Busied ==
  ASSUME TypeOK, NEW c \in Lease, lease[c].st # "idle"
  PROVE  lease[c] \in LeaseCall /\ lease[c].proc \in Proc /\ lease[c].st \in LeaseState
  BY DEF TypeOK, LeaseCall, NoCall

LEMMA GivenBack ==
  ASSUME TypeOK, Queued, Distinct, NEW s \in Seq(Worker), GiveBack(s)
  PROVE  \E k \in Nat : Handed(s, k)
<1> DEFINE k == IF Len(s) < Len(waiters) THEN Len(s) ELSE Len(waiters)
<1>1. waiters \in Seq(Lease) /\ idle \in Seq(Worker) /\ lease \in [Lease -> LeaseCall \cup {NoCall}]
  BY DEF TypeOK
<1>2. /\ Len(s) \in Nat /\ Len(waiters) \in Nat
      /\ DOMAIN waiters = 1..Len(waiters) /\ DOMAIN s = 1..Len(s)
      /\ \A i \in 1..Len(waiters) : waiters[i] \in Lease
      /\ \A i \in 1..Len(s) : s[i] \in Worker
  BY <1>1, Listed
<1>3. /\ k \in Nat /\ k <= Len(s) /\ k <= Len(waiters) /\ (k = Len(s) \/ k = Len(waiters))
      /\ k \in 0..Len(s) /\ k \in 0..Len(waiters)
  BY <1>2
<1>4. /\ busy' = busy \ Range(s)
      /\ waiters' = SubSeq(waiters, k + 1, Len(waiters))
      /\ idle' = idle \o SubSeq(s, k + 1, Len(s))
      /\ lease' = [c \in Lease |->
                     IF \E i \in 1..k : waiters[i] = c
                     THEN In("adding", lease[c].proc, s[CHOOSE i \in 1..k : waiters[i] = c])
                     ELSE lease[c]]
  BY DEF GiveBack
<1>5. /\ waiters' \in Seq(Lease) /\ Len(waiters') = Len(waiters) - k
      /\ \A i \in 1..(Len(waiters) - k) : waiters'[i] = waiters[k + i]
  BY <1>1, <1>3, <1>4, Suffix
<1>6. PICK t \in Seq(Worker) :
        /\ t = SubSeq(s, k + 1, Len(s)) /\ Len(t) = Len(s) - k
        /\ \A i \in 1..(Len(s) - k) : t[i] = s[k + i]
  <2>1. k \in 0..Len(s)
    BY <1>3
  <2> HIDE DEF k
  <2>2. /\ SubSeq(s, k + 1, Len(s)) \in Seq(Worker) /\ Len(SubSeq(s, k + 1, Len(s))) = Len(s) - k
        /\ \A i \in 1..(Len(s) - k) : SubSeq(s, k + 1, Len(s))[i] = s[k + i]
    BY <2>1, Suffix
  <2> QED
    BY <2>2
<1>7. /\ idle' \in Seq(Worker) /\ Len(idle') = Len(idle) + (Len(s) - k)
      /\ \A i \in 1..Len(idle) : idle'[i] = idle[i]
      /\ \A i \in 1..(Len(s) - k) : idle'[Len(idle) + i] = s[k + i]
  <2>1. idle' = idle \o t
    BY <1>4, <1>6
  <2>2. /\ idle \o t \in Seq(Worker) /\ Len(idle \o t) = Len(idle) + Len(t)
        /\ \A i \in 1..Len(idle) : (idle \o t)[i] = idle[i]
        /\ \A i \in 1..Len(t) : (idle \o t)[Len(idle) + i] = t[i]
    BY <1>1, Joined
  <2> QED
    BY <1>6, <2>1, <2>2
<1>8. ASSUME NEW i \in 1..k
      PROVE  lease'[waiters[i]] = In("adding", lease[waiters[i]].proc, s[i])
  <2>1. i \in 1..Len(waiters) /\ waiters[i] \in Lease
    BY <1>2, <1>3
  <2>2. \A j \in 1..k : waiters[j] = waiters[i] => j = i
    BY <1>2, <1>3 DEF Distinct
  <2>3. (CHOOSE j \in 1..k : waiters[j] = waiters[i]) = i
    BY <2>2
  <2> QED
    BY <1>4, <2>1, <2>3
<1>9. ASSUME NEW c \in Lease, \A i \in 1..k : waiters[i] # c PROVE lease'[c] = lease[c]
  BY <1>4, <1>9
<1>10. ASSUME NEW c \in Lease PROVE lease'[c] \in LeaseCall \cup {NoCall}
  <2>1. CASE \E i \in 1..k : waiters[i] = c
    <3>1. PICK i \in 1..k : waiters[i] = c
      BY <2>1
    <3>2. i \in 1..Len(waiters) /\ i \in 1..Len(s) /\ s[i] \in Worker
      BY <1>2, <1>3
    <3>3. lease[c].st = "waiting"
      BY <1>2, <3>1, <3>2 DEF Queued
    <3>4. lease[c].proc \in Proc
      BY <3>3, Busied
    <3>5. In("adding", lease[c].proc, s[i]) \in LeaseCall
      BY <3>2, <3>4, CallOK DEF LeaseState
    <3> QED
      BY <1>8, <3>1, <3>5
  <2>2. CASE ~\E i \in 1..k : waiters[i] = c
    BY <1>1, <1>9, <2>2
  <2> QED
    BY <2>1, <2>2
<1>11. lease' \in [Lease -> LeaseCall \cup {NoCall}]
  BY <1>4, <1>10
<1> HIDE DEF k
<1>12. Handed(s, k)
  BY <1>3, <1>4, <1>5, <1>7, <1>8, <1>9, <1>11 DEF Handed
<1> QED
  BY <1>3, <1>12
LEMMA WaitersListed ==
  ASSUME TypeOK
  PROVE  /\ waiters \in Seq(Lease) /\ Len(waiters) \in Nat /\ DOMAIN waiters = 1..Len(waiters)
         /\ \A i \in 1..Len(waiters) : waiters[i] \in Lease
         /\ Len(waiters) = 0 <=> waiters = <<>>
         /\ idle \in Seq(Worker) /\ Len(idle) \in Nat /\ DOMAIN idle = 1..Len(idle)
         /\ \A i \in 1..Len(idle) : idle[i] \in Worker
         /\ Len(idle) = 0 <=> idle = <<>>
  BY Listed DEF TypeOK

LEMMA HandedWaiters ==
  ASSUME TypeOK, Queued, Distinct, NEW s \in Seq(Worker), NEW k \in Nat, Handed(s, k)
  PROVE  /\ DOMAIN waiters' = 1..(Len(waiters) - k)
         /\ \A i \in DOMAIN waiters' : /\ waiters'[i] = waiters[k + i] /\ k + i \in DOMAIN waiters
                                       /\ lease'[waiters'[i]] = lease[waiters'[i]]
         /\ waiters' # <<>> => k = Len(s) /\ waiters # <<>>
         /\ \A c \in Lease : \/ lease'[c] = lease[c]
                             \/ \E i \in 1..k : /\ waiters[i] = c /\ i \in DOMAIN waiters /\ i \in 1..Len(s)
                                                /\ lease'[c] = In("adding", lease[c].proc, s[i])
                                                /\ lease[c].st = "waiting"
<1>1. /\ k \in Nat /\ k <= Len(s) /\ k <= Len(waiters) /\ (k = Len(s) \/ k = Len(waiters))
      /\ Len(s) \in Nat /\ Len(waiters) \in Nat
  BY Listed, WaitersListed DEF Handed
<1>0. \A i \in 1..k : i \in 1..Len(waiters) /\ i \in 1..Len(s)
  BY <1>1
<1>7. \A i \in 1..(Len(waiters) - k) : k + i \in 1..Len(waiters) /\ \A j \in 1..k : j # k + i
  BY <1>1
<1>2. waiters' \in Seq(Lease) /\ Len(waiters') = Len(waiters) - k
      /\ \A i \in 1..(Len(waiters) - k) : waiters'[i] = waiters[k + i]
  BY DEF Handed
<1>3. DOMAIN waiters' = 1..(Len(waiters) - k) /\ (Len(waiters') = 0 <=> waiters' = <<>>)
  BY <1>2, Listed
<1>4. ASSUME NEW i \in DOMAIN waiters'
      PROVE  /\ waiters'[i] = waiters[k + i] /\ k + i \in DOMAIN waiters
             /\ lease'[waiters'[i]] = lease[waiters'[i]]
  <2>1. waiters'[i] = waiters[k + i]
    BY <1>2, <1>3
  <2>2. k + i \in 1..Len(waiters) /\ \A j \in 1..k : j # k + i
    BY <1>7, <1>3
  <2>3. \A j \in 1..k : j \in DOMAIN waiters /\ j # k + i
    BY <1>0, <2>2, WaitersListed
  <2>4. \A j \in 1..k : waiters[j] # waiters[k + i]
    BY <2>2, <2>3, WaitersListed DEF Distinct
  <2>5. waiters[k + i] \in Lease
    BY <2>2, WaitersListed
  <2> QED
    BY <2>1, <2>2, <2>4, <2>5, WaitersListed DEF Handed
<1>5. waiters' # <<>> => k = Len(s) /\ waiters # <<>>
  BY <1>1, <1>2, <1>3, WaitersListed
<1>6. ASSUME NEW c \in Lease, lease'[c] # lease[c]
      PROVE  \E i \in 1..k : /\ waiters[i] = c /\ i \in DOMAIN waiters /\ i \in 1..Len(s)
                             /\ lease'[c] = In("adding", lease[c].proc, s[i])
                             /\ lease[c].st = "waiting"
  <2>1. PICK i \in 1..k : waiters[i] = c
    BY <1>6 DEF Handed
  <2>2. i \in 1..Len(waiters) /\ i \in 1..Len(s)
    BY <1>0, <2>1
  <2>3. i \in DOMAIN waiters /\ lease[c].st = "waiting"
    BY <2>1, <2>2, WaitersListed DEF Queued
  <2>4. lease'[c] = In("adding", lease[c].proc, s[i])
    BY <2>1 DEF Handed
  <2> QED
    BY <2>1, <2>2, <2>3, <2>4
<1> QED
  BY <1>3, <1>4, <1>5, <1>6

LEMMA HandedKeeps ==
  ASSUME TypeOK, Queued, Distinct, Calls, OneWarms, Owed, pool' = pool,
         NEW s \in Seq(Worker), NEW k \in Nat, Handed(s, k)
  PROVE  Queued' /\ Distinct' /\ Calls' /\ OneWarms' /\ Owed'
<1>1. /\ DOMAIN waiters' = 1..(Len(waiters) - k)
      /\ \A i \in DOMAIN waiters' : /\ waiters'[i] = waiters[k + i] /\ k + i \in DOMAIN waiters
                                    /\ lease'[waiters'[i]] = lease[waiters'[i]]
      /\ waiters' # <<>> => k = Len(s) /\ waiters # <<>>
      /\ \A c \in Lease : \/ lease'[c] = lease[c]
                          \/ \E i \in 1..k : /\ waiters[i] = c /\ i \in DOMAIN waiters /\ i \in 1..Len(s)
                                             /\ lease'[c] = In("adding", lease[c].proc, s[i])
                                             /\ lease[c].st = "waiting"
  BY HandedWaiters
<1>2. Queued'
  BY <1>1 DEF Queued
<1>3. Distinct'
  <2>1. \A i, j \in DOMAIN waiters' : waiters'[i] = waiters'[j] => k + i = k + j
    BY <1>1 DEF Distinct
  <2>2. k \in Nat /\ \A i \in DOMAIN waiters' : i \in Int
    BY <1>1 DEF Handed
  <2> QED
    BY <2>1, <2>2 DEF Distinct
<1>4. \A p, w : In("adding", p, w).st = "adding" /\ In("adding", p, w).worker = w
  BY DEF In
<1>5. Calls'
  <2>1. \A i \in 1..Len(s) : s[i] \in Worker
    BY Listed
  <2> QED
    BY <1>1, <1>4, <2>1 DEF Calls, Holds
<1>6. \A c \in Lease : lease'[c].st \in {"warming", "warm", "waiting"} => lease'[c] = lease[c]
  BY <1>1, <1>4
<1>7. OneWarms'
  BY <1>1, <1>6 DEF OneWarms, Warming
<1>8. ASSUME waiters' # <<>>
      PROVE  pool' = "up" /\ idle' = <<>> /\ (busy' # {} \/ \E c \in Lease : lease'[c].st = "adding")
  <2>1. k = Len(s) /\ idle = <<>> /\ pool = "up" /\ k \in Nat
    BY <1>1, <1>8 DEF Owed, Handed
  <2>2. idle' = <<>>
    <3>1. idle' \in Seq(Worker) /\ Len(idle') = Len(idle) + (Len(s) - k) /\ Len(idle) = 0
      BY <2>1, Empty DEF Handed
    <3>2. Len(idle') = 0
      BY <2>1, <3>1
    <3> QED
      BY <3>1, <3>2, Listed
  <2>3. CASE k = 0
    <3>1. Range(s) = {}
      <4>1. \A x : x \in Range(s) <=> \E i \in 1..Len(s) : s[i] = x
        BY Ranges
      <4>2. 1..Len(s) = {}
        BY <2>1, <2>3
      <4> QED
        BY <4>1, <4>2
    <3>2. busy' = busy
      BY <3>1 DEF Handed
    <3>3. \A c \in Lease : lease'[c] = lease[c]
      BY <1>1, <2>3
    <3> QED
      BY <1>1, <1>8, <2>1, <2>2, <3>2, <3>3 DEF Owed
  <2>4. CASE k # 0
    <3>1. 1 \in 1..k /\ 1 \in 1..Len(waiters)
      BY <2>1, <2>4, WaitersListed DEF Handed
    <3>2. waiters[1] \in Lease /\ lease'[waiters[1]].st = "adding"
      BY <1>4, <3>1, WaitersListed DEF Handed
    <3> QED
      BY <2>1, <2>2, <3>2
  <2> QED
    BY <2>3, <2>4
<1>9. ASSUME pool' = "up", NEW c \in Lease, lease'[c].st = "waiting"
      PROVE  \E i \in DOMAIN waiters' : waiters'[i] = c
  <2>1. lease'[c] = lease[c]
    BY <1>6, <1>9
  <2>2. PICK i \in DOMAIN waiters : waiters[i] = c
    BY <1>9, <2>1 DEF Owed
  <2>3. ~(i \in 1..k)
    BY <1>4, <1>9, <2>2 DEF Handed
  <2>4. k \in Nat /\ i \in 1..Len(waiters) /\ Len(waiters) \in Nat
    BY <2>2, WaitersListed DEF Handed
  <2>5. i - k \in DOMAIN waiters' /\ k + (i - k) = i
    BY <1>1, <2>3, <2>4
  <2>6. waiters'[i - k] = waiters[i]
    BY <1>1, <2>5
  <2> QED
    BY <2>2, <2>5, <2>6
<1>10. Owed'
  BY <1>8, <1>9 DEF Owed
<1> QED
  BY <1>2, <1>3, <1>5, <1>7, <1>10

(* One call goes on and waits for nothing.                                 *)
LEMMA Moves ==
  ASSUME TypeOK, Queued, Distinct, Calls, Owed, NEW c \in Lease, NEW x \in LeaseCall \cup {NoCall},
         lease' = [lease EXCEPT ![c] = x], waiters' = waiters,
         lease[c].st # "waiting", x.st # "waiting",
         x.st \in {"warming", "adding", "leased"} => x.worker \in Worker
  PROVE  /\ lease' \in [Lease -> LeaseCall \cup {NoCall}]
         /\ \A d \in Lease : lease'[d] = IF d = c THEN x ELSE lease[d]
         /\ Queued' /\ Distinct' /\ Calls'
<1>1. lease \in [Lease -> LeaseCall \cup {NoCall}]
  BY DEF TypeOK
<1>2. lease' \in [Lease -> LeaseCall \cup {NoCall}]
  BY <1>1
<1>3. \A d \in Lease : lease'[d] = IF d = c THEN x ELSE lease[d]
  BY <1>1
<1>4. Queued'
  <2>1. \A i \in DOMAIN waiters : waiters[i] \in Lease /\ waiters[i] # c
    BY WaitersListed DEF Queued
  <2> QED
    BY <1>3, <2>1 DEF Queued
<1>5. Distinct'
  BY DEF Distinct
<1>6. Calls'
  BY <1>3 DEF Calls, Holds
<1> QED
  BY <1>2, <1>3, <1>4, <1>5, <1>6

(* WorkerPool.lease(): the others do not warm the pool up, or have just    *)
(* begun to.                                                               *)
OthersWarm(c) ==
  (\E d \in Lease : d # c /\ lease[d].st \in {"warming", "warm"}) => busy = {} /\ idle = <<>>

Typed ==
  /\ idle \in Seq(Worker) /\ busy \in SUBSET Worker /\ waiters \in Seq(Lease)
  /\ thread \in [Worker -> {"none", "live", "terminated"}]
  /\ lease \in [Lease -> LeaseCall \cup {NoCall}]

LEMMA StartsKeeps ==
  ASSUME TypeOK, NEW c \in Lease, NEW st \in LeaseState, NEW p \in Proc, NEW w \in Worker,
         Starts(c, st, p, w)
  PROVE  /\ thread' \in [Worker -> {"none", "live", "terminated"}]
         /\ lease' = [lease EXCEPT ![c] = In(st, p, w)]
         /\ In(st, p, w) \in LeaseCall /\ In(st, p, w).st = st /\ In(st, p, w).worker \in Worker
  BY CallOK DEF Starts, TypeOK

LEMMA TakeIdleKeeps ==
  ASSUME TypeOK, Queued, Distinct, Calls, OneWarms, Owed, pool' = pool,
         NEW c \in Lease, NEW p \in Proc, lease[c].st \in {"idle", "warm"}, OthersWarm(c),
         TakeIdle(c, p)
  PROVE  Typed' /\ Queued' /\ Distinct' /\ Calls' /\ OneWarms' /\ Owed'
<1> DEFINE x == In("leased", p, Last(idle))
<1>1. Last(idle) \in Worker /\ Front(idle) \in Seq(Worker)
  BY Fronted DEF TypeOK, TakeIdle
<1>2. x \in LeaseCall /\ x.st = "leased" /\ x.worker \in Worker
  BY <1>1, CallOK DEF LeaseState
<1>3. /\ lease' = [lease EXCEPT ![c] = x] /\ waiters' = waiters /\ thread' = thread
      /\ idle' = Front(idle) /\ busy' = busy \cup {Last(idle)} /\ idle # <<>> /\ pool = "up"
  BY DEF TakeIdle
<1> HIDE DEF x
<1>4. /\ lease' \in [Lease -> LeaseCall \cup {NoCall}]
      /\ \A d \in Lease : lease'[d] = IF d = c THEN x ELSE lease[d]
      /\ Queued' /\ Distinct' /\ Calls'
  BY <1>2, <1>3, Moves
<1>5. Typed'
  BY <1>1, <1>3, <1>4 DEF Typed, TypeOK
<1>6. waiters = <<>>
  BY <1>3 DEF Owed
<1>7. OneWarms'
  BY <1>2, <1>3, <1>4, <1>6 DEF OneWarms, Warming
<1>8. Owed'
  BY <1>2, <1>3, <1>4, <1>6 DEF Owed
<1> QED
  BY <1>4, <1>5, <1>7, <1>8

LEMMA TakeNewKeeps ==
  ASSUME TypeOK, Queued, Distinct, Calls, OneWarms, Owed, pool' = pool,
         NEW c \in Lease, NEW p \in Proc, lease[c].st \in {"idle", "warm"}, OthersWarm(c),
         TakeNew(c, p)
  PROVE  Typed' /\ Queued' /\ Distinct' /\ Calls' /\ OneWarms' /\ Owed'
<1>1. PICK w \in Worker : Starts(c, "adding", p, w)
  BY DEF TakeNew
<1> DEFINE x == In("adding", p, w)
<1>2. /\ thread' \in [Worker -> {"none", "live", "terminated"}]
      /\ lease' = [lease EXCEPT ![c] = x]
      /\ x \in LeaseCall /\ x.st = "adding" /\ x.worker \in Worker
  BY <1>1, StartsKeeps DEF LeaseState
<1>3. waiters' = waiters /\ idle' = idle /\ busy' = busy
  BY DEF TakeNew
<1> HIDE DEF x
<1>4. /\ lease' \in [Lease -> LeaseCall \cup {NoCall}]
      /\ \A d \in Lease : lease'[d] = IF d = c THEN x ELSE lease[d]
      /\ Queued' /\ Distinct' /\ Calls'
  BY <1>2, <1>3, Moves
<1>5. Typed'
  BY <1>2, <1>3, <1>4 DEF Typed, TypeOK
<1>7. OneWarms'
  BY <1>2, <1>3, <1>4 DEF OneWarms, Warming
<1>8. Owed'
  BY <1>2, <1>3, <1>4 DEF Owed
<1> QED
  BY <1>4, <1>5, <1>7, <1>8

LEMMA QueueKeeps ==
  ASSUME TypeOK, Queued, Distinct, Calls, OneWarms, Owed, pool' = pool,
         NEW c \in Lease, NEW p \in Proc, lease[c].st \in {"idle", "warm"}, OthersWarm(c),
         Queue(c, p)
  PROVE  Typed' /\ Queued' /\ Distinct' /\ Calls' /\ OneWarms' /\ Owed'
<1> DEFINE x == In("waiting", p, NoWorker)
<1>1. x \in LeaseCall /\ x.st = "waiting"
  BY CallOK DEF LeaseState
<1>2. /\ waiters' = Append(waiters, c) /\ lease' = [lease EXCEPT ![c] = x]
      /\ idle' = idle /\ busy' = busy /\ thread' = thread /\ idle = <<>> /\ pool = "up"
      /\ Total >= MaxWorkers
  BY DEF Queue
<1> HIDE DEF x
<1>3. lease \in [Lease -> LeaseCall \cup {NoCall}]
  BY DEF TypeOK
<1>4. /\ lease' \in [Lease -> LeaseCall \cup {NoCall}]
      /\ \A d \in Lease : lease'[d] = IF d = c THEN x ELSE lease[d]
  BY <1>1, <1>2, <1>3
<1>5. /\ Len(waiters) \in Nat /\ DOMAIN waiters = 1..Len(waiters)
      /\ waiters' \in Seq(Lease) /\ DOMAIN waiters' = 1..(Len(waiters) + 1) /\ waiters' # <<>>
      /\ \A i \in 1..Len(waiters) : waiters'[i] = waiters[i]
      /\ waiters'[Len(waiters) + 1] = c
  BY <1>2, WaitersListed, Appended
<1>6. \A i \in 1..Len(waiters) : waiters[i] \in Lease /\ waiters[i] # c
  BY WaitersListed DEF Queued
<1>7. \A i \in DOMAIN waiters' : i \in 1..Len(waiters) \/ i = Len(waiters) + 1
  BY <1>5
<1>8. Typed'
  BY <1>2, <1>4, <1>5 DEF Typed, TypeOK
<1>9. Queued'
  BY <1>1, <1>4, <1>5, <1>6, <1>7 DEF Queued
<1>10. Distinct'
  BY <1>5, <1>6, <1>7 DEF Distinct
<1>11. Calls'
  BY <1>1, <1>4 DEF Calls, Holds
<1>12. busy # {}
  <2>1. Cardinality(busy) >= 1
    BY <1>2, PoolAssumption, Empty, FS_Subset, FS_CardinalityType DEF Total, TypeOK
  <2> QED
    BY <2>1, FS_EmptySet
<1>13. \A d \in Lease : lease'[d].st \notin {"warming", "warm"}
  BY <1>1, <1>4, <1>12 DEF OthersWarm
<1>14. OneWarms'
  BY <1>13 DEF OneWarms, Warming
<1>15. ASSUME NEW d \in Lease, lease'[d].st = "waiting" PROVE \E i \in DOMAIN waiters' : waiters'[i] = d
  <2>1. CASE d = c
    <3>1. Len(waiters) + 1 \in DOMAIN waiters'
      BY <1>5
    <3> QED
      BY <1>5, <2>1, <3>1
  <2>2. CASE d # c
    <3>1. PICK i \in DOMAIN waiters : waiters[i] = d
      BY <1>2, <1>4, <1>15, <2>2 DEF Owed
    <3>2. i \in DOMAIN waiters' /\ waiters'[i] = d
      BY <1>5, <3>1
    <3> QED
      BY <3>2
  <2> QED
    BY <2>1, <2>2
<1>16. Owed'
  BY <1>2, <1>12, <1>15 DEF Owed
<1> QED
  BY <1>8, <1>9, <1>10, <1>11, <1>14, <1>16

LEMMA RefuseKeeps ==
  ASSUME TypeOK, Queued, Distinct, Calls, OneWarms, Owed, pool' = pool,
         NEW c \in Lease, lease[c].st \in {"idle", "warm"}, Refuse(c)
  PROVE  Typed' /\ Queued' /\ Distinct' /\ Calls' /\ OneWarms' /\ Owed'
<1>1. /\ NoCall \in LeaseCall \cup {NoCall} /\ NoCall.st = "idle"
      /\ lease' = [lease EXCEPT ![c] = NoCall]
      /\ waiters' = waiters /\ idle' = idle /\ busy' = busy /\ thread' = thread /\ pool = "shutdown"
  BY DEF NoCall, Refuse
<1>2. /\ lease' \in [Lease -> LeaseCall \cup {NoCall}]
      /\ \A d \in Lease : lease'[d] = IF d = c THEN NoCall ELSE lease[d]
      /\ Queued' /\ Distinct' /\ Calls'
  BY <1>1, Moves
<1>3. Typed'
  BY <1>1, <1>2 DEF Typed, TypeOK
<1>4. OneWarms'
  BY <1>1, <1>2 DEF OneWarms, Warming
<1>5. Owed'
  BY <1>1, <1>2 DEF Owed
<1> QED
  BY <1>2, <1>3, <1>4, <1>5

(* A warmup goes on, that of the only call that warms up.                  *)
LEMMA WarmKeeps ==
  ASSUME TypeOK, Queued, Distinct, Calls, Owed, waiters = <<>>, NEW c \in Lease, NEW p \in Proc, NEW n,
         lease[c].st # "waiting", Warm(c, p, n), waiters' = waiters,
         idle' \in Seq(Worker), busy' = busy,
         \A d \in Lease : lease[d].st \in {"warming", "warm"} => d = c,
         pool' = pool \/ \A d \in Lease : lease[d].st # "waiting"
  PROVE  Typed' /\ Queued' /\ Distinct' /\ Calls' /\ OneWarms' /\ Owed'
<1>1. PICK x \in LeaseCall : /\ lease' = [lease EXCEPT ![c] = x]
                             /\ x.st \in {"warming", "warm"} /\ (x.st = "warming" => x.worker \in Worker)
                             /\ thread' \in [Worker -> {"none", "live", "terminated"}]
  <2>1. CASE \E w \in Worker : Starts(c, "warming", p, w)
    BY <2>1, StartsKeeps DEF LeaseState
  <2>2. CASE lease' = [lease EXCEPT ![c] = In("warm", p, NoWorker)] /\ UNCHANGED thread
    <3>1. In("warm", p, NoWorker) \in LeaseCall /\ In("warm", p, NoWorker).st = "warm"
      BY CallOK DEF LeaseState
    <3>2. thread' \in [Worker -> {"none", "live", "terminated"}]
      BY <2>2 DEF TypeOK
    <3> QED
      BY <2>2, <3>1, <3>2
  <2> QED
    BY <2>1, <2>2 DEF Warm
<1>2. /\ lease' \in [Lease -> LeaseCall \cup {NoCall}]
      /\ \A d \in Lease : lease'[d] = IF d = c THEN x ELSE lease[d]
      /\ Queued' /\ Distinct' /\ Calls'
  BY <1>1, Moves
<1>3. Typed'
  BY <1>1, <1>2 DEF Typed, TypeOK
<1>4. OneWarms'
  BY <1>1, <1>2 DEF OneWarms, Warming
<1>5. Owed'
  BY <1>1, <1>2 DEF Owed
<1> QED
  BY <1>2, <1>3, <1>4, <1>5

LEMMA PoolLeaseKeeps ==
  ASSUME TypeOK, Queued, Distinct, Calls, OneWarms, Owed, pool' = pool,
         NEW c \in Lease, NEW p \in Proc, lease[c].st \in {"idle", "warm"}, OthersWarm(c),
         PoolLease(c, p)
  PROVE  Typed' /\ Queued' /\ Distinct' /\ Calls' /\ OneWarms' /\ Owed'
  BY TakeIdleKeeps, TakeNewKeeps, QueueKeeps, RefuseKeeps DEF PoolLease

(* A worker is given back, or several.                                     *)
LEMMA GiveBackKeeps ==
  ASSUME PoolInv, NEW s \in Seq(Worker), GiveBack(s), pool' = pool, thread' = thread
  PROVE  Typed' /\ Queued' /\ Distinct' /\ Calls' /\ OneWarms' /\ Owed' /\ Fresh'
<1>1. TypeOK /\ Queued /\ Distinct /\ Calls /\ OneWarms /\ Owed /\ Fresh
  BY DEF PoolInv
<1>2. PICK k \in Nat : Handed(s, k)
  BY <1>1, GivenBack
<1>3. Queued' /\ Distinct' /\ Calls' /\ OneWarms' /\ Owed'
  BY <1>1, <1>2, HandedKeeps
<1>4. Typed'
  BY <1>1, <1>2 DEF Typed, Handed, TypeOK
<1>5. ASSUME pool' = "none" PROVE waiters' = <<>> /\ \A c \in Lease : lease'[c].st = "idle"
  <2>1. waiters = <<>> /\ Len(waiters) = 0 /\ \A c \in Lease : lease[c].st = "idle"
    BY <1>1, <1>5, WaitersListed DEF Fresh
  <2>2. waiters' = <<>> /\ k <= 0
    BY <1>1, <1>2, <2>1, HandedWaiters DEF Handed
  <2>3. \A c \in Lease : lease'[c] = lease[c]
    BY <1>2, <2>2 DEF Handed
  <2> QED
    BY <2>1, <2>2, <2>3
<1> QED
  BY <1>3, <1>4, <1>5 DEF Fresh

LEMMA GoneOK ==
  ASSUME TypeOK, NEW P \in SUBSET Proc
  PROVE  Gone(P) \in [Release -> ReleaseCall]
<1>1. ASSUME NEW r \in Release, release[r].st = "releasing"
      PROVE  [release[r] EXCEPT !.gone = TRUE] \in ReleaseCall
  BY <1>1, ZenonT(60) DEF TypeOK, ReleaseCall
<1> QED
  BY <1>1 DEF Gone, TypeOK

LEMMA ReleasingOK ==
  ASSUME TypeOK, NEW r \in Release, release[r].st = "releasing"
  PROVE  /\ release[r].proc \in Proc /\ release[r].worker \in Worker /\ release[r].gone \in BOOLEAN
  BY DEF TypeOK, ReleaseCall

(* What is left of the type invariant when the pool's part is known.       *)
LEMMA TypeFrom ==
  ASSUME Typed', pool' \in {"none", "up", "shutdown"}, release' \in [Release -> ReleaseCall],
         leased' \in [Proc -> SUBSET Worker], ended' \in [Proc -> {"running", "exited", "killed"}],
         doubled' \in SUBSET Worker
  PROVE  TypeOK'
  BY DEF Typed, TypeOK

LEMMA NoCallOK == NoCall \in LeaseCall \cup {NoCall} /\ NoCall \in ReleaseCall /\ NoCall.st = "idle"
  BY DEF NoCall, ReleaseCall

LEMMA LeaseBeginKeeps ==
  ASSUME PoolInv, NEW c \in Lease, NEW p \in Proc, LeaseBegin(c, p)
  PROVE  PoolInv'
<1>1. TypeOK /\ Queued /\ Distinct /\ Calls /\ OneWarms /\ Owed /\ Fresh
  BY DEF PoolInv
<1>2. ASSUME pool = "none", pool' = "up", Warm(c, p, 0), UNCHANGED <<idle, busy, waiters>>
      PROVE  Typed' /\ Queued' /\ Distinct' /\ Calls' /\ OneWarms' /\ Owed'
  <2>1. waiters = <<>> /\ \A d \in Lease : lease[d].st = "idle"
    BY <1>1, <1>2 DEF Fresh
  <2>2. idle' \in Seq(Worker) /\ idle' = idle /\ busy' = busy /\ waiters' = waiters
    BY <1>2 DEF TypeOK, PoolInv
  <2> QED
    BY <1>1, <1>2, <2>1, <2>2, WarmKeeps
<1>3. ASSUME pool = "up", PoolLease(c, p), UNCHANGED pool
      PROVE  Typed' /\ Queued' /\ Distinct' /\ Calls' /\ OneWarms' /\ Owed'
  <2>1. lease[c].st = "idle" /\ OthersWarm(c)
    BY DEF LeaseBegin, OthersWarm, Warming
  <2> QED
    BY <1>1, <1>3, <2>1, PoolLeaseKeeps
<1>4. Typed' /\ Queued' /\ Distinct' /\ Calls' /\ OneWarms' /\ Owed' /\ pool' = "up"
  BY <1>2, <1>3 DEF LeaseBegin
<1>5. TypeOK'
  BY <1>1, <1>4, TypeFrom DEF LeaseBegin, TypeOK
<1> QED
  BY <1>4, <1>5 DEF PoolInv, Fresh

LEMMA WarmPushKeeps ==
  ASSUME PoolInv, NEW c \in Lease, WarmPush(c)
  PROVE  PoolInv'
<1>1. TypeOK /\ Queued /\ Distinct /\ Calls /\ OneWarms /\ Owed /\ Fresh
  BY DEF PoolInv
<1>2. lease[c].st = "warming" /\ lease[c].proc \in Proc /\ lease[c].worker \in Worker
  BY <1>1, Busied DEF WarmPush, Calls, Holds
<1>3. waiters = <<>> /\ \A d \in Lease : lease[d].st \in {"warming", "warm"} => d = c
  BY <1>1, <1>2 DEF OneWarms, Warming
<1>4. pool # "none" /\ (pool = "up" \/ pool = "shutdown")
  BY <1>1, <1>2 DEF Fresh, TypeOK
<1>5. idle' \in Seq(Worker) /\ busy' = busy /\ waiters' = waiters /\ Warm(c, lease[c].proc, Total + 1)
  BY <1>1, <1>2, WaitersListed, Appended DEF WarmPush
<1>6. Typed' /\ Queued' /\ Distinct' /\ Calls' /\ OneWarms' /\ Owed'
  BY <1>1, <1>2, <1>3, <1>5, WarmKeeps DEF WarmPush
<1>7. TypeOK'
  BY <1>1, <1>6, TypeFrom DEF WarmPush, TypeOK
<1> QED
  BY <1>4, <1>6, <1>7 DEF PoolInv, Fresh, WarmPush

LEMMA WarmEndKeeps ==
  ASSUME PoolInv, NEW c \in Lease, WarmEnd(c)
  PROVE  PoolInv'
<1>1. TypeOK /\ Queued /\ Distinct /\ Calls /\ OneWarms /\ Owed /\ Fresh
  BY DEF PoolInv
<1>2. lease[c].st = "warm" /\ lease[c].proc \in Proc /\ pool # "none" /\ pool' = pool
  BY <1>1, Busied DEF WarmEnd, Fresh
<1>3. OthersWarm(c)
  BY <1>1, <1>2 DEF OneWarms, OthersWarm
<1>4. Typed' /\ Queued' /\ Distinct' /\ Calls' /\ OneWarms' /\ Owed'
  BY <1>1, <1>2, <1>3, PoolLeaseKeeps DEF WarmEnd
<1>5. TypeOK'
  BY <1>1, <1>4, TypeFrom DEF WarmEnd, TypeOK
<1> QED
  BY <1>2, <1>4, <1>5 DEF PoolInv, Fresh

LEMMA AddKeeps ==
  ASSUME PoolInv, NEW c \in Lease, Add(c)
  PROVE  PoolInv'
<1>1. TypeOK /\ Queued /\ Distinct /\ Calls /\ OneWarms /\ Owed /\ Fresh
  BY DEF PoolInv
<1>2. /\ lease[c].st = "adding" /\ lease[c] \in LeaseCall /\ lease[c].worker \in Worker /\ pool # "none"
      /\ waiters' = waiters
  BY <1>1, Busied DEF Add, Calls, Holds, Fresh
<1> DEFINE x == [lease[c] EXCEPT !.st = "leased"]
<1>3. x \in LeaseCall /\ x.st = "leased" /\ x.worker \in Worker
  BY <1>2 DEF LeaseCall, LeaseState
<1>4. lease' = [lease EXCEPT ![c] = x]
  BY DEF Add
<1> HIDE DEF x
<1>5. /\ lease' \in [Lease -> LeaseCall \cup {NoCall}]
      /\ \A d \in Lease : lease'[d] = IF d = c THEN x ELSE lease[d]
      /\ Queued' /\ Distinct' /\ Calls'
  BY <1>1, <1>2, <1>3, <1>4, Moves
<1>6. Typed'
  BY <1>1, <1>2, <1>5 DEF Typed, TypeOK, Add
<1>7. OneWarms'
  BY <1>1, <1>2, <1>3, <1>5 DEF OneWarms, Warming
<1>8. Owed'
  BY <1>1, <1>2, <1>3, <1>5 DEF Owed, Add
<1>9. TypeOK'
  BY <1>1, <1>6, TypeFrom DEF Add, TypeOK
<1> QED
  BY <1>2, <1>5, <1>7, <1>8, <1>9 DEF PoolInv, Fresh, Add

LEMMA TrackKeeps ==
  ASSUME PoolInv, NEW c \in Lease, Track(c)
  PROVE  PoolInv'
<1>1. TypeOK /\ Queued /\ Distinct /\ Calls /\ OneWarms /\ Owed /\ Fresh
  BY DEF PoolInv
<1>2. /\ lease[c].st = "leased" /\ lease[c].proc \in Proc /\ lease[c].worker \in Worker /\ pool # "none"
      /\ waiters' = waiters /\ lease' = [lease EXCEPT ![c] = NoCall]
      /\ idle' = idle /\ busy' = busy /\ thread' = thread /\ pool' = pool
  BY <1>1, Busied DEF Track, Calls, Holds, Fresh
<1>3. /\ lease' \in [Lease -> LeaseCall \cup {NoCall}]
      /\ \A d \in Lease : lease'[d] = IF d = c THEN NoCall ELSE lease[d]
      /\ Queued' /\ Distinct' /\ Calls'
  BY <1>1, <1>2, NoCallOK, Moves
<1>4. Typed'
  BY <1>1, <1>2, <1>3 DEF Typed, TypeOK
<1>5. OneWarms'
  BY <1>1, <1>2, <1>3, NoCallOK DEF OneWarms, Warming
<1>6. Owed'
  BY <1>1, <1>2, <1>3, NoCallOK DEF Owed
<1>7. leased' \in [Proc -> SUBSET Worker]
  BY <1>1, <1>2 DEF Track, TypeOK
<1>8. TypeOK'
  BY <1>1, <1>4, <1>7, TypeFrom DEF Track, TypeOK
<1> QED
  BY <1>2, <1>3, <1>5, <1>6, <1>8 DEF PoolInv, Fresh

LEMMA ReleaseBeginKeeps ==
  ASSUME PoolInv, NEW r \in Release, NEW p \in Proc, NEW w \in Worker, ReleaseBegin(r, p, w)
  PROVE  PoolInv'
<1>1. TypeOK
  BY DEF PoolInv
<1>2. <<w>> \in Seq(Worker) /\ GiveBack(<<w>>) /\ pool' = pool /\ thread' = thread
  BY DEF ReleaseBegin
<1>3. Typed' /\ Queued' /\ Distinct' /\ Calls' /\ OneWarms' /\ Owed' /\ Fresh'
  BY <1>2, GiveBackKeeps
<1>4. [st |-> "releasing", proc |-> p, worker |-> w, gone |-> FALSE] \in ReleaseCall
  BY DEF ReleaseCall
<1>5. release' \in [Release -> ReleaseCall] /\ doubled' \in SUBSET Worker
  BY <1>1, <1>4 DEF ReleaseBegin, GivenTwice, TypeOK
<1>6. TypeOK'
  BY <1>1, <1>3, <1>5, TypeFrom DEF ReleaseBegin, TypeOK
<1> QED
  BY <1>3, <1>6 DEF PoolInv

LEMMA Same ==
  ASSUME PoolInv, UNCHANGED <<pool, poolVars, thread>>
  PROVE  Typed' /\ Queued' /\ Distinct' /\ Calls' /\ OneWarms' /\ Owed' /\ Fresh'
  BY DEF PoolInv, poolVars, Typed, TypeOK, Queued, Distinct, Calls, Holds, OneWarms, Warming, Owed, Fresh

LEMMA ReleaseEndKeeps ==
  ASSUME PoolInv, NEW r \in Release, ReleaseEnd(r)
  PROVE  PoolInv'
<1> DEFINE p == release[r].proc
           left == leased[p] \ {release[r].worker}
<1>1. TypeOK
  BY DEF PoolInv
<1>2. /\ Typed' /\ Queued' /\ Distinct' /\ Calls' /\ OneWarms' /\ Owed' /\ Fresh'
      /\ p \in Proc /\ left \in SUBSET Worker
  BY <1>1, Same, ReleasingOK DEF ReleaseEnd, TypeOK
<1> HIDE DEF p, left
<1>3. /\ leased' \in {leased, [leased EXCEPT ![p] = left], [leased EXCEPT ![p] = {}]}
      /\ release' \in {[release EXCEPT ![r] = NoCall], [Gone({p}) EXCEPT ![r] = NoCall]}
      /\ ended' = ended /\ doubled' = doubled /\ pool' = pool
  BY DEF ReleaseEnd, p, left
<1>4. leased' \in [Proc -> SUBSET Worker]
  BY <1>1, <1>2, <1>3 DEF TypeOK
<1>5. release \in [Release -> ReleaseCall] /\ Gone({p}) \in [Release -> ReleaseCall]
  BY <1>1, <1>2, GoneOK DEF TypeOK
<1>6. release' \in [Release -> ReleaseCall]
  BY <1>3, <1>5, NoCallOK
<1>7. TypeOK'
  BY <1>1, <1>2, <1>3, <1>4, <1>6, TypeFrom DEF TypeOK
<1> QED
  BY <1>2, <1>7 DEF PoolInv

LEMMA ForceExitKeeps ==
  ASSUME PoolInv, NEW p \in Proc, ForceExit(p)
  PROVE  PoolInv'
<1>1. TypeOK
  BY DEF PoolInv
<1>2. PICK s \in SetToSeqs(leased[p]) : GiveBack(s)
  BY DEF ForceExit
<1>3. leased[p] \in SUBSET Worker /\ IsFiniteSet(leased[p])
  BY <1>1, PoolAssumption, FS_Subset DEF TypeOK
<1>4. s \in Seq(Worker)
  <2>1. s \in Seq(leased[p])
    BY <1>3, OfASet
  <2> QED
    BY <1>3, <2>1
<1>5. Typed' /\ Queued' /\ Distinct' /\ Calls' /\ OneWarms' /\ Owed' /\ Fresh'
  BY <1>2, <1>4, GiveBackKeeps DEF ForceExit
<1>6. release' \in [Release -> ReleaseCall]
  BY <1>1, GoneOK DEF ForceExit
<1>7. leased' \in [Proc -> SUBSET Worker] /\ ended' \in [Proc -> {"running", "exited", "killed"}]
      /\ doubled' \in SUBSET Worker
  BY <1>1 DEF ForceExit, GivenTwice, TypeOK
<1>8. TypeOK'
  BY <1>1, <1>5, <1>6, <1>7, TypeFrom DEF ForceExit, TypeOK
<1> QED
  BY <1>5, <1>8 DEF PoolInv

LEMMA ExitKeeps ==
  ASSUME PoolInv, NEW p \in Proc, Exit(p)
  PROVE  PoolInv'
<1>1. TypeOK /\ Typed' /\ Queued' /\ Distinct' /\ Calls' /\ OneWarms' /\ Owed' /\ Fresh'
  BY Same DEF Exit, PoolInv
<1>2. TypeOK'
  BY <1>1, TypeFrom DEF Exit, TypeOK
<1> QED
  BY <1>1, <1>2 DEF PoolInv

LEMMA ReapKeeps ==
  ASSUME PoolInv, Reap
  PROVE  PoolInv'
<1>1. TypeOK /\ Queued /\ Distinct /\ Calls /\ OneWarms /\ Owed /\ Fresh
  BY DEF PoolInv
<1>2. PICK n \in 1..(Len(idle) - MinWorkers) :
        /\ idle' = SubSeq(idle, n + 1, Len(idle))
        /\ thread' = Terminated({idle[i] : i \in 1..n})
  BY DEF Reap
<1>3. n \in 0..Len(idle) /\ Len(idle) > MinWorkers /\ MinWorkers \in Nat /\ Len(idle) \in Nat
  BY <1>1, PoolAssumption, WaitersListed DEF Reap
<1>4. idle' \in Seq(Worker)
  BY <1>1, <1>2, <1>3, WaitersListed, Suffix
<1>5. thread' \in [Worker -> {"none", "live", "terminated"}]
  BY <1>1, <1>2 DEF Terminated, TypeOK
<1>6. waiters = <<>> /\ waiters' = waiters
  BY <1>1, <1>3, WaitersListed DEF Owed, Reap
<1>7. TypeOK'
  BY <1>1, <1>4, <1>5 DEF Reap, TypeOK
<1>8. Queued' /\ Distinct' /\ Calls' /\ Fresh' /\ OneWarms' /\ Owed'
  BY <1>1, <1>6 DEF Reap, Queued, Distinct, Calls, Holds, Fresh, OneWarms, Warming, Owed
<1> QED
  BY <1>7, <1>8 DEF PoolInv

LEMMA ShutdownKeeps ==
  ASSUME PoolInv, Shutdown
  PROVE  PoolInv'
<1>1. TypeOK /\ Queued /\ Distinct /\ Calls /\ OneWarms /\ Owed /\ Fresh
  BY DEF PoolInv
<1>2. Gone(Proc) \in [Release -> ReleaseCall]
  BY <1>1, GoneOK
<1>3. thread' \in [Worker -> {"none", "live", "terminated"}]
  BY <1>1 DEF Shutdown, Terminated, TypeOK
<1>4. TypeOK'
  BY <1>1, <1>2, <1>3, Empty DEF Shutdown, TypeOK
<1>5. Queued' /\ Distinct' /\ Calls' /\ Fresh' /\ OneWarms' /\ Owed'
  BY <1>1, Empty DEF Shutdown, Queued, Distinct, Calls, Holds, Fresh, OneWarms, Warming, Owed
<1> QED
  BY <1>4, <1>5 DEF PoolInv

-----------------------------------------------------------------------------
LEMMA InitHolds == Init => PoolInv
<1> SUFFICES ASSUME Init PROVE PoolInv
  OBVIOUS
<1>1. TypeOK
  BY Empty, NoCallOK DEF Init, TypeOK
<1>2. \A c \in Lease : lease[c] = NoCall /\ lease[c].st = "idle"
  BY NoCallOK DEF Init
<1> QED
  BY <1>1, <1>2, Empty DEF Init, PoolInv, Queued, Distinct, Calls, Holds, Fresh, OneWarms, Warming, Owed

LEMMA StepKeeps ==
  ASSUME PoolInv, [Next]_vars
  PROVE  PoolInv'
<1>1. CASE UNCHANGED vars
  <2>1. TypeOK /\ Typed' /\ Queued' /\ Distinct' /\ Calls' /\ OneWarms' /\ Owed' /\ Fresh'
    BY <1>1, Same DEF vars, PoolInv
  <2>2. TypeOK'
    BY <1>1, <2>1, TypeFrom DEF vars, TypeOK
  <2> QED
    BY <2>1, <2>2 DEF PoolInv
<1>2. CASE Next
  BY <1>2, LeaseBeginKeeps, WarmPushKeeps, WarmEndKeeps, AddKeeps, TrackKeeps, ReleaseBeginKeeps,
     ReleaseEndKeeps, ForceExitKeeps, ExitKeeps, ReapKeeps, ShutdownKeeps DEF Next, Continue
<1> QED
  BY <1>1, <1>2

LEMMA PoolInvariant == Spec => []PoolInv
  BY InitHolds, StepKeeps, PTL DEF Spec

(* The type invariant: what is leased, idle or waited for is a worker or a *)
(* call, and every map has its keys.                                       *)
THEOREM TypeCorrect == Spec => []TypeOK
  BY PoolInvariant, PTL DEF PoolInv

(* lease() and release() forget no waiter: while one waits nobody else     *)
(* finds an idle worker, and one is leased or on its way, whose return     *)
(* serves the queue.                                                       *)
THEOREM NoneForgotten == Spec => []WaitersAreOwed
<1>1. PoolInv => WaitersAreOwed
  <2> SUFFICES ASSUME PoolInv PROVE WaitersAreOwed
    OBVIOUS
  <2>1. waiters \in Seq(Lease) /\ Owed
    BY DEF PoolInv, TypeOK
  <2>2. \A c : c \in Range(waiters) <=> \E i \in 1..Len(waiters) : waiters[i] = c
    BY <2>1, Ranges
  <2>3. DOMAIN waiters = 1..Len(waiters)
    BY <2>1, Listed
  <2> QED
    BY <2>1, <2>2, <2>3 DEF Owed, WaitersAreOwed
<1> QED
  BY <1>1, PoolInvariant, PTL

-----------------------------------------------------------------------------
(* A worker that is handed over or put back was busy and then is not; the  *)
(* others stay where they are.                                             *)
LEMMA HandedPlaces ==
  ASSUME PoolInv, NEW s \in Seq(Worker), \A i, j \in 1..Len(s) : s[i] = s[j] => i = j,
         NEW k \in Nat, Handed(s, k), thread' = thread,
         NEW w \in Worker, Single(w), w \in Range(s) => w \in busy
  PROVE  /\ Single(w)'
         /\ w \in busy' <=> w \in busy /\ w \notin Range(s)
         /\ \A c \in Lease : Takes(c, w)' <=> Takes(c, w)
<1>1. TypeOK /\ Queued /\ Distinct
  BY DEF PoolInv
<1>2. /\ k <= Len(s) /\ Len(s) \in Nat /\ Len(idle) \in Nat /\ busy' = busy \ Range(s)
      /\ Len(idle') = Len(idle) + (Len(s) - k)
      /\ \A i \in 1..Len(idle) : idle'[i] = idle[i]
      /\ \A i \in 1..(Len(s) - k) : idle'[Len(idle) + i] = s[k + i]
  BY <1>1, Listed, WaitersListed DEF Handed
<1>3. \A c \in Lease : \/ lease'[c] = lease[c]
                       \/ \E i \in 1..k : /\ waiters[i] = c /\ i \in 1..Len(s)
                                          /\ lease'[c] = In("adding", lease[c].proc, s[i])
                                          /\ lease[c].st = "waiting"
  BY <1>1, HandedWaiters
<1>4. \A p, v : In("adding", p, v).st = "adding" /\ In("adding", p, v).worker = v
  BY DEF In
<1>5. \A c \in Lease : Takes(c, w)' <=> Takes(c, w)
  BY <1>3, <1>4 DEF Takes
<1>6. \A x : x \in Range(s) <=> \E i \in 1..Len(s) : s[i] = x
  BY Ranges
<1>7. w \in busy' <=> w \in busy /\ w \notin Range(s)
  BY <1>2
<1>8. \A j \in 1..Len(idle') : j \in 1..Len(idle) \/ (j - Len(idle) \in 1..(Len(s) - k)
                                                     /\ k + (j - Len(idle)) \in 1..Len(s)
                                                     /\ idle'[j] = s[k + (j - Len(idle))])
  <2>1. ASSUME NEW j \in 1..Len(idle'), j \notin 1..Len(idle)
        PROVE  /\ j - Len(idle) \in 1..(Len(s) - k) /\ k + (j - Len(idle)) \in 1..Len(s)
               /\ Len(idle) + (j - Len(idle)) = j
    BY <1>2, <2>1
  <2>2. \A i \in 1..(Len(s) - k) : \A j : j = Len(idle) + i => idle'[j] = s[k + i]
    BY <1>2
  <2> QED
    BY <2>1, <2>2
<1>9. \A j \in 1..Len(idle) : j \in 1..Len(idle')
  BY <1>2
<1>10. CASE w \notin Range(s)
  <2>1. \A c \in Lease : Carries(c, w)' <=> Carries(c, w)
    BY <1>3, <1>4, <1>6, <1>10 DEF Carries
  <2>2. \A j \in 1..Len(idle') : idle'[j] = w => j \in 1..Len(idle) /\ idle[j] = w
    BY <1>2, <1>6, <1>8, <1>10
  <2>3. InIdle(w)' <=> InIdle(w)
    BY <1>2, <1>9, <2>2 DEF InIdle
  <2>4. Carried(w)' <=> Carried(w)
    BY <2>1 DEF Carried
  <2> QED
    BY <1>5, <1>7, <1>10, <2>1, <2>2, <2>3, <2>4 DEF Single
<1>11. CASE w \in Range(s)
  <2>1. PICK i \in 1..Len(s) : s[i] = w
    BY <1>6, <1>11
  <2>2. w \in busy /\ ~InIdle(w) /\ ~Carried(w) /\ thread'[w] = "live" /\ w \notin busy'
    BY <1>7, <1>11 DEF Single
  <2>3. \A j \in 1..Len(s) : s[j] = w => j = i
    BY <2>1
  <2>4. \A j \in 1..Len(idle') : idle'[j] = w => k + (j - Len(idle)) = i /\ j - Len(idle) \in 1..(Len(s) - k)
    BY <1>2, <1>8, <2>2, <2>3 DEF InIdle
  <2>5. \A c \in Lease : Carries(c, w)' => \E j \in 1..k : waiters[j] = c /\ j = i
    BY <1>3, <1>4, <2>2, <2>3 DEF Carries, Carried
  <2>6. CASE i <= k
    <3>1. i \in 1..k
      BY <2>1, <2>6
    <3>2. i \in 1..Len(waiters)
      BY <1>1, <3>1, WaitersListed DEF Handed
    <3>3. \E c \in Lease : Carries(c, w)'
      <4>1. PICK c \in Lease : c = waiters[i]
        BY <1>1, <3>2, WaitersListed
      <4>2. lease'[waiters[i]] = In("adding", lease[waiters[i]].proc, s[i])
        BY <3>1 DEF Handed
      <4>3. lease'[c].st = "adding" /\ lease'[c].worker = w
        BY <1>4, <2>1, <4>1, <4>2
      <4> QED
        BY <4>3 DEF Carries
    <3>4. ~InIdle(w)'
      <4>1. ~\E j \in 1..Len(idle') : idle'[j] = w
        BY <1>2, <2>4, <2>6
      <4> QED
        BY <4>1 DEF InIdle
    <3>5. \A c, d \in Lease : Carries(c, w)' /\ Carries(d, w)' => c = d
      BY <2>5
    <3>6. \A a, b \in 1..Len(idle') : idle'[a] = w /\ idle'[b] = w => a = b
      BY <3>4 DEF InIdle
    <3>7. Carried(w)'
      BY <3>3 DEF Carried
    <3> QED
      BY <1>5, <1>7, <2>2, <3>4, <3>5, <3>6, <3>7 DEF Single
  <2>7. CASE ~(i <= k)
    <3>1. i - k \in 1..(Len(s) - k) /\ k + (i - k) = i /\ Len(idle) + (i - k) \in 1..Len(idle')
      BY <1>2, <2>1, <2>7
    <3>2. idle'[Len(idle) + (i - k)] = w
      BY <1>2, <2>1, <3>1
    <3>3. InIdle(w)'
      BY <3>1, <3>2 DEF InIdle
    <3>4. \A c \in Lease : ~Carries(c, w)'
      BY <2>5, <2>7
    <3>5. \A a, b \in 1..Len(idle') : idle'[a] = w /\ idle'[b] = w => a = b
      BY <1>2, <2>4
    <3>6. ~Carried(w)'
      BY <3>4 DEF Carried
    <3> QED
      BY <1>5, <1>7, <2>2, <3>3, <3>4, <3>5, <3>6 DEF Single
  <2> QED
    BY <2>6, <2>7
<1> QED
  BY <1>10, <1>11

(* Nobody takes or records the worker more than before.                    *)
LEMMA StaysExclusive ==
  ASSUME NEW w \in Worker, Exclusive(w), w \in busy => w \in busy',
         \A p \in Proc : Records(p, w)' => Records(p, w),
         \A c \in Lease : Takes(c, w)' => Takes(c, w)
  PROVE  Exclusive(w)'
  BY DEF Exclusive

(* The workers that p gives back are busy, unless it does so again.        *)
LEMMA GivenBackPlaces ==
  ASSUME PoolInv, PlaceInv, NEW p \in Proc, NEW s \in Seq(Worker),
         \A i, j \in 1..Len(s) : s[i] = s[j] => i = j, Range(s) \subseteq leased[p],
         GiveBack(s), pool' = pool, thread' = thread,
         doubled \subseteq doubled',
         \A v \in Range(s), r \in Release : Gives(r, p, v) => v \in doubled',
         \A q \in Proc, v \in Worker :
           Records(q, v)' => Records(q, v) /\ ~(q = p /\ v \in Range(s)),
         pool' # "shutdown", NEW w \in Worker \ doubled'
  PROVE  Single(w)' /\ Exclusive(w)'
<1>1. TypeOK /\ Queued /\ Distinct
  BY DEF PoolInv
<1>2. Single(w) /\ Exclusive(w)
  BY DEF PlaceInv
<1>3. PICK k \in Nat : Handed(s, k)
  BY <1>1, GivenBack
<1>4. w \in Range(s) => Records(p, w)
  BY DEF Records
<1>5. w \in Range(s) => w \in busy
  BY <1>2, <1>4 DEF Exclusive
<1>6. /\ Single(w)'
      /\ w \in busy' <=> w \in busy /\ w \notin Range(s)
      /\ \A c \in Lease : Takes(c, w)' <=> Takes(c, w)
  BY <1>2, <1>3, <1>5, HandedPlaces
<1>7. CASE w \in Range(s)
  <2>1. \A q \in Proc : ~Records(q, w)'
    BY <1>2, <1>4, <1>7 DEF Exclusive
  <2>2. \A c \in Lease : ~Takes(c, w)'
    BY <1>2, <1>4, <1>6, <1>7 DEF Exclusive
  <2> QED
    BY <1>6, <2>1, <2>2 DEF Exclusive
<1>8. CASE w \notin Range(s)
  BY <1>2, <1>6, <1>8, StaysExclusive
<1> QED
  BY <1>6, <1>7, <1>8

(* Dropping maps changes no release but for that.                          *)
LEMMA GoneKeeps ==
  ASSUME TypeOK, NEW P \in SUBSET Proc, NEW r \in Release
  PROVE  /\ Gone(P)[r].st = release[r].st
         /\ release[r].st = "releasing" =>
              /\ Gone(P)[r].proc = release[r].proc /\ Gone(P)[r].worker = release[r].worker
              /\ Gone(P)[r].gone <=> release[r].gone \/ release[r].proc \in P
<1>1. CASE release[r].st = "releasing"
  BY <1>1, ReleasingOK DEF Gone, TypeOK, ReleaseCall
<1>2. CASE release[r].st # "releasing"
  BY <1>2 DEF Gone
<1> QED
  BY <1>1, <1>2

LEMMA ReleaseBeginPlaces ==
  ASSUME PoolInv, PlaceInv, NEW r \in Release, NEW p \in Proc, NEW w \in Worker, ReleaseBegin(r, p, w)
  PROVE  PlaceInv'
<1>1. TypeOK
  BY DEF PoolInv
<1> DEFINE x == [st |-> "releasing", proc |-> p, worker |-> w, gone |-> FALSE]
<1>2. x.st = "releasing" /\ x.proc = p /\ x.worker = w /\ ~x.gone
  OBVIOUS
<1>3. release' = [release EXCEPT ![r] = x] /\ release[r].st = "idle" /\ leased' = leased
  BY DEF ReleaseBegin
<1> HIDE DEF x
<1>4. \A o \in Release : release'[o] = IF o = r THEN x ELSE release[o]
  BY <1>1, <1>3 DEF TypeOK
<1>5. GoneIsGone'
  BY <1>2, <1>3, <1>4 DEF GoneIsGone, PlaceInv
<1> DEFINE s == <<w>>
<1>6. s \in Seq(Worker) /\ Len(s) = 1 /\ Range(s) = {w} /\ \A i, j \in 1..Len(s) : s[i] = s[j] => i = j
  BY DEF Range
<1>7. GiveBack(s) /\ w \in leased[p] /\ pool' = pool /\ thread' = thread
  BY DEF ReleaseBegin
<1>8. doubled \subseteq doubled' /\ \A v \in {w}, o \in Release : Gives(o, p, v) => v \in doubled'
  BY DEF ReleaseBegin, GivenTwice, Releasing, Gives
<1>9. \A q \in Proc, v \in Worker, o \in Release : Gives(o, q, v) => Gives(o, q, v)'
  BY <1>3, <1>4 DEF Gives
<1>10. Gives(r, p, w)'
  BY <1>2, <1>4 DEF Gives
<1>11. \A q \in Proc, v \in Worker : Records(q, v)' => Records(q, v) /\ ~(q = p /\ v \in {w})
  BY <1>3, <1>9, <1>10 DEF Records
<1> HIDE DEF s
<1>12. pool' # "shutdown" => \A v \in Worker \ doubled' : Single(v)' /\ Exclusive(v)'
  BY <1>6, <1>7, <1>8, <1>11, GivenBackPlaces
<1> QED
  BY <1>5, <1>12 DEF PlaceInv

LEMMA ForceExitPlaces ==
  ASSUME PoolInv, PlaceInv, NEW p \in Proc, ForceExit(p)
  PROVE  PlaceInv'
<1>1. TypeOK
  BY DEF PoolInv
<1>2. PICK s \in SetToSeqs(leased[p]) : GiveBack(s)
  BY DEF ForceExit
<1>3. leased[p] \in SUBSET Worker /\ IsFiniteSet(leased[p])
  BY <1>1, PoolAssumption, FS_Subset DEF TypeOK
<1>4. s \in Seq(leased[p]) /\ Range(s) = leased[p] /\ \A i, j \in 1..Len(s) : s[i] = s[j] => i = j
  BY <1>3, OfASet
<1>5. s \in Seq(Worker)
  BY <1>3, <1>4
<1>6. /\ pool' = pool /\ thread' = thread /\ leased' = [leased EXCEPT ![p] = {}] /\ release' = Gone({p})
      /\ doubled \subseteq doubled'
  BY DEF ForceExit, GivenTwice
<1>7. \A v \in leased[p], o \in Release : Gives(o, p, v) => v \in doubled'
  BY <1>3 DEF ForceExit, GivenTwice, Releasing, Gives
<1>8. \A q \in Proc : leased'[q] = IF q = p THEN {} ELSE leased[q]
  BY <1>1, <1>6 DEF TypeOK
<1>9. \A o \in Release : /\ release'[o].st = release[o].st
                         /\ release[o].st = "releasing" =>
                              /\ release'[o].proc = release[o].proc /\ release'[o].worker = release[o].worker
                              /\ release'[o].gone <=> release[o].gone \/ release[o].proc \in {p}
  BY <1>1, <1>6, GoneKeeps
<1>10. \A q \in Proc, v \in Worker, o \in Release : Gives(o, q, v)' <=> Gives(o, q, v)
  BY <1>9 DEF Gives
<1>11. \A q \in Proc, v \in Worker : Records(q, v)' => Records(q, v) /\ ~(q = p /\ v \in Range(s))
  BY <1>8, <1>10 DEF Records
<1>12. pool' # "shutdown" => \A v \in Worker \ doubled' : Single(v)' /\ Exclusive(v)'
  BY <1>2, <1>4, <1>5, <1>6, <1>7, <1>11, GivenBackPlaces
<1>13. GoneIsGone'
  BY <1>1, <1>8, <1>9, ReleasingOK DEF GoneIsGone, PlaceInv
<1> QED
  BY <1>12, <1>13 DEF PlaceInv

(* A release ends: no record comes back.                                   *)
LEMMA ReleaseEndPlaces ==
  ASSUME PoolInv, PlaceInv, NEW r \in Release, ReleaseEnd(r)
  PROVE  PlaceInv'
<1> DEFINE p == release[r].proc
           w == release[r].worker
           left == leased[p] \ {w}
<1>1. TypeOK
  BY DEF PoolInv
<1>2. p \in Proc /\ w \in Worker /\ release[r].st = "releasing" /\ left \subseteq leased[p] /\ w \notin left
  BY <1>1, ReleasingOK DEF ReleaseEnd
<1>3. /\ \/ /\ leased' = [leased EXCEPT ![p] = left] /\ release' = [release EXCEPT ![r] = NoCall]
         \/ /\ leased' = [leased EXCEPT ![p] = {}] /\ release' = [Gone({p}) EXCEPT ![r] = NoCall]
         \/ /\ release[r].gone /\ leased' = leased /\ release' = [release EXCEPT ![r] = NoCall]
      /\ pool' = pool /\ idle' = idle /\ busy' = busy /\ waiters' = waiters /\ lease' = lease
      /\ thread' = thread /\ doubled' = doubled
  BY DEF ReleaseEnd, poolVars
<1>4. release[r].gone => w \notin leased[p]
  BY <1>2 DEF PlaceInv, GoneIsGone
<1> HIDE DEF p, w, left
<1>5. release \in [Release -> ReleaseCall] /\ Gone({p}) \in [Release -> ReleaseCall]
      /\ leased \in [Proc -> SUBSET Worker]
  BY <1>1, <1>2, GoneOK DEF TypeOK
<1>6. \A o \in Release : IF o = r THEN release'[o].st = "idle"
                         ELSE \/ release'[o] = release[o]
                              \/ release'[o] = Gone({p})[o] /\ leased'[p] = {}
  BY <1>2, <1>3, <1>5, NoCallOK
<1>7. \A q \in Proc : q # p => leased'[q] = leased[q]
  BY <1>3, <1>5
<1>8. leased'[p] \subseteq leased[p] /\ w \notin leased'[p]
  BY <1>2, <1>3, <1>4, <1>5
<1>9. \A q \in Proc, v \in Worker, o \in Release : o # r => (Gives(o, q, v)' <=> Gives(o, q, v))
  BY <1>1, <1>2, <1>6, GoneKeeps DEF Gives
<1>10. \A q \in Proc, v \in Worker : Gives(r, q, v) => q = p /\ v = w
  BY DEF Gives, p, w
<1>11. \A q \in Proc, v \in Worker : Records(q, v)' => Records(q, v)
  <2>1. ASSUME NEW q \in Proc, NEW v \in Worker, Records(q, v)' PROVE Records(q, v)
    <3>1. v \in leased'[q] /\ \A o \in Release : ~Gives(o, q, v)'
      BY <2>1 DEF Records
    <3>2. v \in leased[q] /\ ~(q = p /\ v = w)
      BY <1>7, <1>8, <3>1
    <3>3. \A o \in Release : ~Gives(o, q, v)
      BY <1>9, <1>10, <3>1, <3>2
    <3> QED
      BY <3>2, <3>3 DEF Records
  <2> QED
    BY <2>1
<1>12. \A v \in Worker : Single(v) => Single(v)'
  BY <1>3 DEF Single, InIdle, Carried, Carries
<1>13. \A v \in Worker, c \in Lease : Takes(c, v)' <=> Takes(c, v)
  BY <1>3 DEF Takes
<1>14. \A v \in Worker : Exclusive(v) => Exclusive(v)'
  BY <1>3, <1>11, <1>13, StaysExclusive
<1>15. ASSUME NEW o \in Release, release'[o].st = "releasing", release'[o].gone
       PROVE  release'[o].worker \notin leased'[release'[o].proc]
  <2>1. o # r
    BY <1>6, <1>15
  <2>2. /\ release[o].st = "releasing" /\ release[o].proc \in Proc
        /\ release'[o].proc = release[o].proc /\ release'[o].worker = release[o].worker
    BY <1>1, <1>2, <1>6, <1>15, <2>1, GoneKeeps, ReleasingOK
  <2>3. CASE release[o].gone
    <3>1. release[o].worker \notin leased[release[o].proc]
      BY <2>2, <2>3 DEF PlaceInv, GoneIsGone
    <3> QED
      BY <1>7, <1>8, <2>2, <3>1
  <2>4. CASE ~release[o].gone
    <3>1. release'[o] = Gone({p})[o] /\ leased'[p] = {}
      BY <1>6, <1>15, <2>1, <2>4
    <3>2. release[o].proc = p
      BY <1>1, <1>2, <1>15, <2>2, <2>4, <3>1, GoneKeeps
    <3> QED
      BY <2>2, <3>1, <3>2
  <2> QED
    BY <2>3, <2>4
<1> QED
  BY <1>3, <1>12, <1>14, <1>15 DEF PlaceInv, GoneIsGone

LEMMA InFields ==
  \A st, p, w : In(st, p, w).st = st /\ In(st, p, w).proc = p /\ In(st, p, w).worker = w
  BY DEF In

LEMMA CallChanges ==
  ASSUME TypeOK, NEW c \in Lease, NEW x, lease' = [lease EXCEPT ![c] = x]
  PROVE  \A d \in Lease : lease'[d] = IF d = c THEN x ELSE lease[d]
  BY DEF TypeOK

(* Records and what is gone change with releases alone.                    *)
LEMMA SameRecords ==
  ASSUME leased' = leased, release' = release
  PROVE  /\ GoneIsGone => GoneIsGone'
         /\ \A p \in Proc, w \in Worker : Records(p, w)' <=> Records(p, w)
  BY DEF GoneIsGone, Records, Gives

(* A call that has no worker goes on without one.                          *)
LEMMA EmptyHanded ==
  ASSUME NEW c \in Lease, NEW x, x.st \in {"idle", "waiting", "warm"},
         lease[c].st \in {"idle", "waiting", "warm"},
         \A d \in Lease : lease'[d] = IF d = c THEN x ELSE lease[d],
         idle' = idle, busy' = busy, thread' = thread, leased' = leased, release' = release,
         NEW w \in Worker, Single(w), Exclusive(w)
  PROVE  Single(w)' /\ Exclusive(w)'
<1>1. \A d \in Lease : (Carries(d, w)' <=> Carries(d, w)) /\ (Takes(d, w)' <=> Takes(d, w))
  BY DEF Carries, Takes
<1>2. Single(w)'
  BY <1>1 DEF Single, InIdle, Carried
<1>3. Exclusive(w)'
  BY <1>1, SameRecords, StaysExclusive
<1> QED
  BY <1>2, <1>3

(* A call that has no worker starts one that nobody knows.                 *)
LEMMA StartPlaces ==
  ASSUME TypeOK, NEW c \in Lease, NEW st \in {"warming", "adding"}, NEW p, NEW v \in Worker, Starts(c, st, p, v),
         lease[c].st \in {"idle", "waiting", "warm"},
         idle' = idle, busy' = busy, leased' = leased, release' = release,
         NEW w \in Worker, Single(w), Exclusive(w)
  PROVE  Single(w)' /\ Exclusive(w)'
<1>1. \A d \in Lease : lease'[d] = IF d = c THEN In(st, p, v) ELSE lease[d]
  BY CallChanges DEF Starts
<1>2. thread[v] = "none" /\ thread' = [thread EXCEPT ![v] = "live"]
  BY DEF Starts
<1>3. thread' \in [Worker -> {"none", "live", "terminated"}] /\ thread'[v] = "live" /\ (w # v => thread'[w] = thread[w])
  BY <1>2 DEF TypeOK
<1>4. \A d \in Lease : Takes(d, w)' <=> Takes(d, w)
  BY <1>1, InFields DEF Takes
<1>5. \A d \in Lease : Carries(d, w)' <=> IF d = c THEN w = v ELSE Carries(d, w)
  BY <1>1, InFields DEF Carries
<1>6. ~Carries(c, w)
  BY DEF Carries
<1>7. Exclusive(w)'
  BY <1>4, SameRecords, StaysExclusive
<1>8. InIdle(w)' <=> InIdle(w)
  BY DEF InIdle
<1>9. CASE w = v
  <2>1. ~InIdle(w) /\ w \notin busy /\ ~Carried(w)
    BY <1>2, <1>9 DEF Single
  <2>2. \A d \in Lease : Carries(d, w)' <=> d = c
    BY <1>5, <1>9, <2>1 DEF Carried
  <2>3. Carried(w)'
    BY <2>2 DEF Carried
  <2> QED
    BY <1>3, <1>7, <1>8, <1>9, <2>1, <2>2, <2>3 DEF Single
<1>10. CASE w # v
  <2>1. \A d \in Lease : Carries(d, w)' <=> Carries(d, w)
    BY <1>5, <1>6, <1>10
  <2>2. Carried(w)' <=> Carried(w)
    BY <2>1 DEF Carried
  <2> QED
    BY <1>3, <1>7, <1>8, <1>10, <2>1, <2>2 DEF Single
<1> QED
  BY <1>9, <1>10

(* The last of the idle workers is leased.                                 *)
LEMMA TakePlaces ==
  ASSUME TypeOK, NEW c \in Lease, NEW p, TakeIdle(c, p),
         lease[c].st \in {"idle", "waiting", "warm"}, leased' = leased, release' = release,
         NEW w \in Worker, Single(w), Exclusive(w)
  PROVE  Single(w)' /\ Exclusive(w)'
<1> DEFINE v == Last(idle)
<1>1. /\ Len(idle) \in Nat \ {0} /\ v = idle[Len(idle)] /\ v \in Worker
      /\ idle' = Front(idle) /\ Len(idle') = Len(idle) - 1
      /\ \A i \in 1..(Len(idle) - 1) : idle'[i] = idle[i]
  BY Fronted DEF TakeIdle, TypeOK
<1>2. \A d \in Lease : lease'[d] = IF d = c THEN In("leased", p, v) ELSE lease[d]
  BY CallChanges DEF TakeIdle
<1>3. busy' = busy \cup {v} /\ thread' = thread
  BY DEF TakeIdle
<1> HIDE DEF v
<1>4. \A d \in Lease : Carries(d, w)' <=> Carries(d, w)
  BY <1>2, InFields DEF Carries
<1>5. Carried(w)' <=> Carried(w)
  BY <1>4 DEF Carried
<1>6. \A d \in Lease : Takes(d, w)' <=> IF d = c THEN w = v ELSE Takes(d, w)
  BY <1>2, InFields DEF Takes
<1>7. ~Takes(c, w)
  BY DEF Takes
<1>8. \A i \in 1..Len(idle') : i \in 1..Len(idle) /\ i # Len(idle) /\ idle'[i] = idle[i]
  BY <1>1
<1>9. \A i \in 1..Len(idle) : i = Len(idle) \/ i \in 1..Len(idle')
  BY <1>1
<1>10. Len(idle) \in 1..Len(idle)
  BY <1>1
<1>11. CASE w = v
  <2>1. InIdle(w) /\ w \notin busy /\ ~Carried(w) /\ thread[w] = "live"
    BY <1>1, <1>10, <1>11 DEF Single, InIdle
  <2>2. ~InIdle(w)'
    BY <1>1, <1>8, <1>10, <1>11 DEF Single, InIdle
  <2>3. Single(w)'
    BY <1>3, <1>4, <1>5, <1>11, <2>1, <2>2 DEF Single, InIdle
  <2>4. \A d \in Lease : Takes(d, w)' <=> d = c
    BY <1>6, <1>11, <2>1 DEF Exclusive
  <2>5. \A q \in Proc : ~Records(q, w)'
    BY <2>1, SameRecords DEF Exclusive
  <2>6. w \in busy'
    BY <1>3, <1>11
  <2>7. Exclusive(w)'
    BY <2>4, <2>5, <2>6 DEF Exclusive
  <2> QED
    BY <2>3, <2>7
<1>12. CASE w # v
  <2>1. w \in busy' <=> w \in busy
    BY <1>3, <1>12
  <2>2. InIdle(w)' <=> InIdle(w)
    BY <1>1, <1>8, <1>9, <1>12 DEF InIdle
  <2>3. Single(w)'
    BY <1>3, <1>4, <1>5, <1>8, <2>1, <2>2 DEF Single
  <2>4. \A d \in Lease : Takes(d, w)' <=> Takes(d, w)
    BY <1>6, <1>7, <1>12
  <2>5. Exclusive(w)'
    BY <2>1, <2>4, SameRecords, StaysExclusive
  <2> QED
    BY <2>3, <2>5
<1> QED
  BY <1>11, <1>12

LEMMA PoolLeasePlaces ==
  ASSUME TypeOK, NEW c \in Lease, NEW p, PoolLease(c, p), pool # "shutdown",
         lease[c].st \in {"idle", "waiting", "warm"}, leased' = leased, release' = release,
         NEW w \in Worker, Single(w), Exclusive(w)
  PROVE  Single(w)' /\ Exclusive(w)'
<1>1. CASE TakeIdle(c, p)
  BY <1>1, TakePlaces
<1>2. CASE TakeNew(c, p)
  BY <1>2, StartPlaces DEF TakeNew
<1>3. CASE Queue(c, p)
  <2>1. \A d \in Lease : lease'[d] = IF d = c THEN In("waiting", p, NoWorker) ELSE lease[d]
    BY <1>3, CallChanges, ZenonT(60) DEF Queue
  <2> QED
    BY <1>3, <2>1, InFields, EmptyHanded DEF Queue
<1> QED
  BY <1>1, <1>2, <1>3 DEF PoolLease, Refuse

LEMMA WarmPlaces ==
  ASSUME TypeOK, NEW c \in Lease, NEW p, NEW n, Warm(c, p, n),
         lease[c].st \in {"idle", "waiting", "warm"},
         idle' = idle, busy' = busy, leased' = leased, release' = release,
         NEW w \in Worker, Single(w), Exclusive(w)
  PROVE  Single(w)' /\ Exclusive(w)'
<1>1. CASE \E v \in Worker : Starts(c, "warming", p, v)
  BY <1>1, StartPlaces
<1>2. CASE lease' = [lease EXCEPT ![c] = In("warm", p, NoWorker)] /\ UNCHANGED thread
  <2>1. \A d \in Lease : lease'[d] = IF d = c THEN In("warm", p, NoWorker) ELSE lease[d]
    BY <1>2, CallChanges
  <2> QED
    BY <1>2, <2>1, InFields, EmptyHanded
<1> QED
  BY <1>1, <1>2 DEF Warm

LEMMA LeaseBeginPlaces ==
  ASSUME PoolInv, PlaceInv, NEW c \in Lease, NEW p \in Proc, LeaseBegin(c, p)
  PROVE  PlaceInv'
<1>1. TypeOK /\ lease[c].st = "idle" /\ pool # "shutdown" /\ leased' = leased /\ release' = release
      /\ doubled' = doubled
  BY DEF LeaseBegin, PoolInv
<1>2. ASSUME NEW w \in Worker \ doubled PROVE Single(w)' /\ Exclusive(w)'
  <2>1. Single(w) /\ Exclusive(w)
    BY <1>1 DEF PlaceInv
  <2>2. CASE Warm(c, p, 0) /\ UNCHANGED <<idle, busy, waiters>>
    BY <1>1, <2>1, <2>2, WarmPlaces
  <2>3. CASE PoolLease(c, p)
    BY <1>1, <2>1, <2>3, PoolLeasePlaces
  <2> QED
    BY <2>2, <2>3 DEF LeaseBegin
<1> QED
  BY <1>1, <1>2, SameRecords DEF PlaceInv

LEMMA WarmEndPlaces ==
  ASSUME PoolInv, PlaceInv, NEW c \in Lease, WarmEnd(c)
  PROVE  PlaceInv'
<1>1. TypeOK /\ lease[c].st = "warm" /\ PoolLease(c, lease[c].proc) /\ pool' = pool
      /\ leased' = leased /\ release' = release /\ doubled' = doubled
  BY DEF WarmEnd, PoolInv
<1>2. ASSUME pool # "shutdown", NEW w \in Worker \ doubled PROVE Single(w)' /\ Exclusive(w)'
  <2>1. Single(w) /\ Exclusive(w)
    BY <1>2 DEF PlaceInv
  <2> QED
    BY <1>1, <1>2, <2>1, PoolLeasePlaces
<1> QED
  BY <1>1, <1>2, SameRecords DEF PlaceInv

(* A worker that was warmed up becomes idle, and maybe another is started. *)
LEMMA WarmPushPlaces ==
  ASSUME PoolInv, PlaceInv, NEW c \in Lease, WarmPush(c)
  PROVE  PlaceInv'
<1> DEFINE u == lease[c].worker
<1>1. TypeOK /\ lease[c].st = "warming" /\ u \in Worker
  BY DEF PoolInv, Calls, Holds, WarmPush
<1>2. /\ idle' = Append(idle, u) /\ busy' = busy /\ pool' = pool
      /\ leased' = leased /\ release' = release /\ doubled' = doubled
  BY DEF WarmPush
<1>3. /\ Len(idle) \in Nat /\ Len(idle') = Len(idle) + 1
      /\ \A i \in 1..Len(idle) : idle'[i] = idle[i]
      /\ idle'[Len(idle) + 1] = u
  BY <1>1, <1>2, WaitersListed, Appended
<1>4. Carries(c, u)
  BY <1>1 DEF Carries
<1>5. ASSUME NEW w \in Worker, Carries(c, w) PROVE w = u
  BY <1>5 DEF Carries
<1> HIDE DEF u
<1>6. /\ \A i \in 1..Len(idle') : i \in 1..Len(idle) \/ i = Len(idle) + 1
      /\ \A i \in 1..Len(idle) : i \in 1..Len(idle')
      /\ Len(idle) + 1 \in 1..Len(idle')
  BY <1>3
<1>7. ASSUME pool # "shutdown", NEW w \in Worker \ doubled PROVE Single(w)' /\ Exclusive(w)'
  <2>1. Single(w) /\ Exclusive(w)
    BY <1>7 DEF PlaceInv
  <2>2. PICK new \in SUBSET Worker :
           /\ \A v \in new : thread[v] = "none"
           /\ \A d \in Lease : Takes(d, w)' <=> Takes(d, w)
           /\ \A d \in Lease : Carries(d, w)' <=> IF d = c THEN w \in new ELSE Carries(d, w)
           /\ thread'[w] = "live" <=> thread[w] = "live" \/ w \in new
    <3>1. CASE \E v \in Worker : Starts(c, "warming", lease[c].proc, v)
      <4>1. PICK v \in Worker : Starts(c, "warming", lease[c].proc, v)
        BY <3>1
      <4>2. /\ thread[v] = "none" /\ thread' = [thread EXCEPT ![v] = "live"]
            /\ \A d \in Lease : lease'[d] = IF d = c THEN In("warming", lease[c].proc, v) ELSE lease[d]
        <5>1. lease' = [lease EXCEPT ![c] = In("warming", lease[c].proc, v)]
          BY <4>1 DEF Starts
        <5> QED
          BY <1>1, <4>1, <5>1, CallChanges DEF Starts
      <4>3. \A d \in Lease : Takes(d, w)' <=> Takes(d, w)
        BY <1>1, <4>2, InFields DEF Takes
      <4>4. \A d \in Lease : Carries(d, w)' <=> IF d = c THEN w \in {v} ELSE Carries(d, w)
        BY <4>2, InFields DEF Carries
      <4>5. thread'[w] = "live" <=> thread[w] = "live" \/ w \in {v}
        BY <1>1, <4>2 DEF TypeOK
      <4>6. \A x \in {v} : thread[x] = "none"
        BY <4>2
      <4> QED
        BY <4>3, <4>4, <4>5, <4>6
    <3>2. CASE lease' = [lease EXCEPT ![c] = In("warm", lease[c].proc, NoWorker)] /\ UNCHANGED thread
      <4>1. \A d \in Lease : lease'[d] = IF d = c THEN In("warm", lease[c].proc, NoWorker) ELSE lease[d]
        BY <1>1, <3>2, CallChanges
      <4>2. \A d \in Lease : Takes(d, w)' <=> Takes(d, w)
        BY <1>1, <4>1, InFields DEF Takes
      <4>3. \A d \in Lease : Carries(d, w)' <=> IF d = c THEN w \in {} ELSE Carries(d, w)
        BY <4>1, InFields DEF Carries
      <4>4. thread'[w] = "live" <=> thread[w] = "live" \/ w \in {}
        BY <3>2
      <4>5. {} \in SUBSET Worker /\ \A v \in {} : thread[v] = "none"
        OBVIOUS
      <4> QED
        BY <4>2, <4>3, <4>4, <4>5
    <3> QED
      BY <3>1, <3>2 DEF WarmPush, Warm
  <2>3. Exclusive(w)'
    BY <1>2, <2>1, <2>2, SameRecords, StaysExclusive
  <2>4. CASE w = u
    <3>1. ~InIdle(w) /\ w \notin busy /\ thread[w] = "live" /\ \A d \in Lease : Carries(d, w) => d = c
      BY <1>4, <2>1, <2>4 DEF Single, Carried
    <3>2. ~Carried(w)'
      BY <2>2, <3>1 DEF Carried
    <3>3. InIdle(w)'
      BY <1>3, <1>6, <2>4 DEF InIdle
    <3>4. \A i, j \in 1..Len(idle') : idle'[i] = w /\ idle'[j] = w => i = j
      BY <1>3, <1>6, <3>1 DEF InIdle
    <3>5. \A d, e \in Lease : Carries(d, w)' /\ Carries(e, w)' => d = e
      BY <3>2 DEF Carried
    <3> QED
      BY <1>2, <2>2, <2>3, <3>1, <3>2, <3>3, <3>4, <3>5 DEF Single
  <2>5. CASE w # u
    <3>1. ~Carries(c, w)
      BY <1>5, <2>5
    <3>2. InIdle(w)' <=> InIdle(w)
      BY <1>3, <1>6, <2>5 DEF InIdle
    <3>3. \A i, j \in 1..Len(idle') : idle'[i] = w /\ idle'[j] = w => i = j
      BY <1>3, <1>6, <2>1, <2>5 DEF Single
    <3>4. CASE w \in new
      <4>1. ~InIdle(w) /\ w \notin busy /\ \A d \in Lease : ~Carries(d, w)
        BY <2>1, <2>2, <3>4 DEF Single, Carried
      <4>2. \A d \in Lease : Carries(d, w)' <=> d = c
        BY <2>2, <3>4, <4>1
      <4>3. Carried(w)' /\ \A d, e \in Lease : Carries(d, w)' /\ Carries(e, w)' => d = e
        BY <4>2 DEF Carried
      <4> QED
        BY <1>2, <2>2, <2>3, <3>2, <3>3, <3>4, <4>1, <4>3 DEF Single
    <3>5. CASE w \notin new
      <4>1. \A d \in Lease : Carries(d, w)' <=> Carries(d, w)
        BY <2>2, <3>1, <3>5
      <4>2. Carried(w)' <=> Carried(w)
        BY <4>1 DEF Carried
      <4> QED
        BY <1>2, <2>1, <2>2, <2>3, <3>2, <3>3, <3>5, <4>1, <4>2 DEF Single
    <3> QED
      BY <3>4, <3>5
  <2> QED
    BY <2>4, <2>5
<1> QED
  BY <1>2, <1>7, SameRecords DEF PlaceInv

LEMMA AddPlaces ==
  ASSUME PoolInv, PlaceInv, NEW c \in Lease, Add(c)
  PROVE  PlaceInv'
<1> DEFINE u == lease[c].worker
<1>1. TypeOK /\ lease[c].st = "adding" /\ u \in Worker /\ lease[c] \in LeaseCall
  BY Busied DEF PoolInv, Calls, Holds, Add
<1>2. /\ busy' = busy \cup {u} /\ idle' = idle /\ pool' = pool /\ thread' = thread
      /\ leased' = leased /\ release' = release /\ doubled' = doubled
  BY DEF Add
<1>3. \A d \in Lease : lease'[d] = IF d = c THEN [lease[c] EXCEPT !.st = "leased"] ELSE lease[d]
  BY <1>1, CallChanges DEF Add
<1>4. [lease[c] EXCEPT !.st = "leased"].st = "leased" /\ [lease[c] EXCEPT !.st = "leased"].worker = u
  BY <1>1 DEF LeaseCall
<1>5. Carries(c, u) /\ \A w \in Worker : (Carries(c, w) <=> w = u) /\ ~Takes(c, w)
  BY <1>1 DEF Carries, Takes
<1> HIDE DEF u
<1>6. \A w \in Worker, d \in Lease : Takes(d, w)' <=> IF d = c THEN w = u ELSE Takes(d, w)
  BY <1>3, <1>4 DEF Takes
<1>7. \A w \in Worker, d \in Lease : Carries(d, w)' <=> d # c /\ Carries(d, w)
  BY <1>3, <1>4 DEF Carries
<1>8. ASSUME pool # "shutdown", NEW w \in Worker \ doubled PROVE Single(w)' /\ Exclusive(w)'
  <2>1. Single(w) /\ Exclusive(w)
    BY <1>8 DEF PlaceInv
  <2>2. InIdle(w)' <=> InIdle(w)
    BY <1>2 DEF InIdle
  <2>3. CASE w = u
    <3>1. ~InIdle(w) /\ w \notin busy /\ thread[w] = "live" /\ \A d \in Lease : Carries(d, w) => d = c
      BY <1>5, <2>1, <2>3 DEF Single, Carried
    <3>2. \A d \in Lease : ~Carries(d, w)'
      BY <1>7, <3>1
    <3>3. w \in busy'
      BY <1>2, <2>3
    <3>4. Single(w)'
      BY <1>2, <2>1, <2>2, <3>1, <3>2, <3>3 DEF Single, Carried
    <3>5. \A q \in Proc : ~Records(q, w)'
      BY <1>2, <2>1, <3>1, SameRecords DEF Exclusive
    <3>6. \A d \in Lease : Takes(d, w)' <=> d = c
      BY <1>6, <2>1, <2>3, <3>1 DEF Exclusive
    <3>7. Exclusive(w)'
      BY <3>3, <3>5, <3>6 DEF Exclusive
    <3> QED
      BY <3>4, <3>7
  <2>4. CASE w # u
    <3>1. \A d \in Lease : (Carries(d, w)' <=> Carries(d, w)) /\ (Takes(d, w)' <=> Takes(d, w))
      BY <1>5, <1>6, <1>7, <2>4
    <3>2. w \in busy' <=> w \in busy
      BY <1>2, <2>4
    <3>3. Single(w)'
      BY <1>2, <2>1, <2>2, <3>1, <3>2 DEF Single, Carried
    <3>4. Exclusive(w)'
      BY <1>2, <2>1, <3>1, <3>2, SameRecords, StaysExclusive
    <3> QED
      BY <3>3, <3>4
  <2> QED
    BY <2>3, <2>4
<1> QED
  BY <1>2, <1>8, SameRecords DEF PlaceInv

(* What a call takes becomes a record, which no release in progress hides. *)
LEMMA TrackPlaces ==
  ASSUME PoolInv, PlaceInv, NEW c \in Lease, Track(c)
  PROVE  PlaceInv'
<1> DEFINE u == lease[c].worker
           p == lease[c].proc
<1>1. TypeOK /\ lease[c].st = "leased" /\ u \in Worker /\ p \in Proc
  BY Busied DEF PoolInv, Calls, Holds, Track
<1>2. /\ busy' = busy /\ idle' = idle /\ pool' = pool /\ thread' = thread
      /\ leased' = [leased EXCEPT ![p] = leased[p] \cup {u}] /\ release' = release /\ doubled' = doubled
  BY DEF Track
<1>3. \A d \in Lease : lease'[d] = IF d = c THEN NoCall ELSE lease[d]
  BY <1>1, CallChanges DEF Track
<1>4. \A q \in Proc, r \in Release : ~Gives(r, q, u)
  BY DEF Track, Releasing, Gives
<1>5. Takes(c, u) /\ \A w \in Worker : (Takes(c, w) <=> w = u) /\ ~Carries(c, w)
  BY <1>1 DEF Carries, Takes
<1> HIDE DEF u, p
<1>6. \A w \in Worker, d \in Lease : /\ Takes(d, w)' <=> d # c /\ Takes(d, w)
                                     /\ Carries(d, w)' <=> Carries(d, w)
  BY <1>3, <1>5, NoCallOK DEF Takes, Carries
<1>7. \A q \in Proc : leased'[q] = IF q = p THEN leased[p] \cup {u} ELSE leased[q]
  BY <1>1, <1>2 DEF TypeOK
<1>8. \A q \in Proc, w \in Worker : Records(q, w)' <=> Records(q, w) \/ (q = p /\ w = u)
  BY <1>2, <1>4, <1>7 DEF Records, Gives
<1>9. ASSUME pool # "shutdown", NEW w \in Worker \ doubled PROVE Single(w)' /\ Exclusive(w)'
  <2>1. Single(w) /\ Exclusive(w)
    BY <1>9 DEF PlaceInv
  <2>2. Single(w)'
    BY <1>2, <1>6, <2>1 DEF Single, InIdle, Carried
  <2>3. CASE w = u
    <3>1. w \in busy /\ (\A q \in Proc : ~Records(q, w)) /\ (\A d \in Lease : Takes(d, w) => d = c)
      BY <1>5, <2>1, <2>3 DEF Exclusive
    <3> QED
      BY <1>2, <1>6, <1>8, <2>2, <3>1 DEF Exclusive
  <2>4. CASE w # u
    <3>1. \A d \in Lease : Takes(d, w)' <=> Takes(d, w)
      BY <1>5, <1>6, <2>4
    <3> QED
      BY <1>2, <1>8, <2>1, <2>2, <2>4, <3>1, StaysExclusive
  <2> QED
    BY <2>3, <2>4
<1>10. ASSUME NEW r \in Release, release'[r].st = "releasing", release'[r].gone
       PROVE  release'[r].worker \notin leased'[release'[r].proc]
  <2>1. release[r].worker \notin leased[release[r].proc] /\ release[r].proc \in Proc
    BY <1>1, <1>2, <1>10, ReleasingOK DEF PlaceInv, GoneIsGone
  <2>2. release[r].worker # u
    BY <1>2, <1>4, <1>10, <2>1 DEF Gives
  <2> QED
    BY <1>2, <1>7, <2>1, <2>2
<1> QED
  BY <1>2, <1>9, <1>10 DEF PlaceInv, GoneIsGone

LEMMA ReapPlaces ==
  ASSUME PoolInv, PlaceInv, Reap
  PROVE  PlaceInv'
<1>1. TypeOK
  BY DEF PoolInv
<1>2. PICK n \in 1..(Len(idle) - MinWorkers) :
        /\ idle' = SubSeq(idle, n + 1, Len(idle))
        /\ thread' = Terminated({idle[i] : i \in 1..n})
  BY DEF Reap
<1>3. n \in 0..Len(idle) /\ n \in Nat /\ n <= Len(idle) /\ Len(idle) \in Nat
  BY <1>1, PoolAssumption, WaitersListed DEF Reap
<1>4. Len(idle') = Len(idle) - n /\ \A i \in 1..(Len(idle) - n) : idle'[i] = idle[n + i]
  BY <1>1, <1>2, <1>3, WaitersListed, Suffix
<1>5. /\ pool' = pool /\ busy' = busy /\ lease' = lease
      /\ leased' = leased /\ release' = release /\ doubled' = doubled
  BY DEF Reap
<1>6. \A i \in 1..Len(idle') : n + i \in 1..Len(idle) /\ idle'[i] = idle[n + i] /\ \A j \in 1..n : j # n + i
  BY <1>3, <1>4
<1>7. \A j \in 1..Len(idle) : j \in 1..n \/ \E i \in 1..Len(idle') : j = n + i
  <2>1. ASSUME NEW j \in 1..Len(idle), j \notin 1..n PROVE j - n \in 1..Len(idle') /\ j = n + (j - n)
    BY <1>3, <1>4, <2>1
  <2> QED
    BY <2>1
<1>8. \A j \in 1..n : j \in 1..Len(idle)
  BY <1>3
<1>9. ASSUME pool # "shutdown", NEW w \in Worker \ doubled PROVE Single(w)' /\ Exclusive(w)'
  <2>1. Single(w) /\ Exclusive(w)
    BY <1>9 DEF PlaceInv
  <2>2. thread'[w] = IF \E i \in 1..n : idle[i] = w THEN "terminated" ELSE thread[w]
    BY <1>2 DEF Terminated
  <2>3. \A d \in Lease : (Takes(d, w)' <=> Takes(d, w)) /\ (Carries(d, w)' <=> Carries(d, w))
    BY <1>5 DEF Takes, Carries
  <2>4. Exclusive(w)'
    BY <1>5, <2>1, <2>3, SameRecords, StaysExclusive
  <2>5. Carried(w)' <=> Carried(w)
    BY <2>3 DEF Carried
  <2>6. \A i, j \in 1..Len(idle') : idle'[i] = w /\ idle'[j] = w => i = j
    <3>1. \A i, j \in 1..Len(idle') : idle'[i] = w /\ idle'[j] = w => n + i = n + j
      BY <1>6, <2>1 DEF Single
    <3> QED
      BY <1>3, <3>1
  <2>7. CASE \E i \in 1..n : idle[i] = w
    <3>1. PICK i \in 1..n : idle[i] = w
      BY <2>7
    <3>2. i \in 1..Len(idle) /\ InIdle(w)
      BY <1>8, <3>1 DEF InIdle
    <3>3. ~InIdle(w)'
      <4>1. \A j \in 1..Len(idle') : idle'[j] # w
        BY <1>6, <2>1, <3>1, <3>2 DEF Single
      <4> QED
        BY <4>1 DEF InIdle
    <3>4. thread'[w] # "live" /\ w \notin busy /\ ~Carried(w)
      BY <2>1, <2>2, <2>7, <3>2 DEF Single
    <3> QED
      BY <1>5, <2>1, <2>3, <2>4, <2>5, <2>6, <3>3, <3>4 DEF Single
  <2>8. CASE ~\E i \in 1..n : idle[i] = w
    <3>1. InIdle(w)' <=> InIdle(w)
      BY <1>6, <1>7, <2>8 DEF InIdle
    <3>2. thread'[w] = thread[w]
      BY <2>2, <2>8
    <3> QED
      BY <1>5, <2>1, <2>3, <2>4, <2>5, <2>6, <3>1, <3>2 DEF Single
  <2> QED
    BY <2>7, <2>8
<1> QED
  BY <1>5, <1>9, SameRecords DEF PlaceInv

LEMMA StillPlaces ==
  ASSUME PlaceInv, UNCHANGED <<pool, idle, busy, lease, thread, leased, release, doubled>>
  PROVE  PlaceInv'
  BY DEF PlaceInv, GoneIsGone, Single, InIdle, Carried, Carries, Exclusive, Records, Gives, Takes

LEMMA ShutdownPlaces ==
  ASSUME PoolInv, PlaceInv, Shutdown
  PROVE  PlaceInv'
<1>1. TypeOK
  BY DEF PoolInv
<1>2. release' = Gone(Proc) /\ leased' = [p \in Proc |-> {}] /\ pool' = "shutdown"
  BY DEF Shutdown
<1>3. \A r \in Release : release'[r].st = "releasing" => release'[r].proc \in Proc
  BY <1>1, <1>2, GoneKeeps, ReleasingOK
<1> QED
  BY <1>2, <1>3 DEF PlaceInv, GoneIsGone

LEMMA InitPlaces == Init => PlaceInv
<1> SUFFICES ASSUME Init PROVE PlaceInv
  OBVIOUS
<1>1. /\ \A r \in Release : release[r].st = "idle"
      /\ \A c \in Lease : lease[c].st = "idle"
  BY NoCallOK DEF Init
<1>2. Len(idle) = 0 /\ busy = {} /\ (\A w \in Worker : thread[w] = "none") /\ \A p \in Proc : leased[p] = {}
  BY Empty DEF Init
<1>3. ASSUME NEW w \in Worker PROVE Single(w) /\ Exclusive(w)
  <2>1. ~InIdle(w) /\ ~Carried(w)
    BY <1>1, <1>2 DEF InIdle, Carried, Carries
  <2>2. Single(w)
    BY <1>1, <1>2, <2>1 DEF Single, Carries
  <2> QED
    BY <1>1, <1>2, <2>2 DEF Exclusive, Records, Takes
<1> QED
  BY <1>1, <1>3 DEF PlaceInv, GoneIsGone

LEMMA StepPlaces ==
  ASSUME PoolInv, PlaceInv, [Next]_vars
  PROVE  PlaceInv'
<1>1. CASE UNCHANGED vars
  BY <1>1, StillPlaces DEF vars, poolVars
<1>2. ASSUME NEW p \in Proc, Exit(p) PROVE PlaceInv'
  BY <1>2, StillPlaces DEF Exit, poolVars
<1>3. CASE Next
  BY <1>2, <1>3, LeaseBeginPlaces, WarmPushPlaces, WarmEndPlaces, AddPlaces, TrackPlaces,
     ReleaseBeginPlaces, ReleaseEndPlaces, ForceExitPlaces, ReapPlaces, ShutdownPlaces DEF Next, Continue
<1> QED
  BY <1>1, <1>3

LEMMA PlaceInvariant == Spec => [](PoolInv /\ PlaceInv)
<1>1. Init => PoolInv /\ PlaceInv
  BY InitHolds, InitPlaces
<1>2. PoolInv /\ PlaceInv /\ [Next]_vars => (PoolInv /\ PlaceInv)'
  BY StepKeeps, StepPlaces
<1> QED
  BY <1>1, <1>2, PTL DEF Spec

(* INV-1, INV-5: through warmups, hand-overs, releases, forced exits and    *)
(* the reaper every live worker that nobody gave back twice is in exactly   *)
(* one place, and every other in none.                                      *)
THEOREM InOnePlace == Spec => []OnePlace
<1>1. ASSUME PoolInv, PlaceInv, pool = "up", NEW w \in Worker \ doubled
      PROVE  Cardinality(Places(w)) = IF thread[w] = "live" THEN 1 ELSE 0
  <2>1. Single(w) /\ DOMAIN idle = 1..Len(idle)
    BY <1>1, WaitersListed DEF PlaceInv, PoolInv
  <2>2. \A x : x \in Places(w) <=> \/ \E i \in 1..Len(idle) : idle[i] = w /\ x = <<"idle", i>>
                                   \/ w \in busy /\ x = <<"busy", w>>
                                   \/ \E c \in Lease : Carries(c, w) /\ x = <<"call", c>>
    BY <2>1 DEF Places, Carries
  <2>3. CASE thread[w] = "live"
    <3>1. PICK x : Places(w) = {x}
      <4>1. CASE InIdle(w)
        <5>1. PICK i \in 1..Len(idle) : idle[i] = w
          BY <4>1 DEF InIdle
        <5>2. \A x : x \in Places(w) <=> x = <<"idle", i>>
          BY <2>1, <2>2, <4>1, <5>1 DEF Single, Carried
        <5>3. Places(w) = {<<"idle", i>>}
          BY <5>2
        <5> QED
          BY <5>3
      <4>2. CASE w \in busy
        <5>1. \A x : x \in Places(w) <=> x = <<"busy", w>>
          BY <2>1, <2>2, <4>2 DEF Single, Carried, InIdle
        <5>2. Places(w) = {<<"busy", w>>}
          BY <5>1
        <5> QED
          BY <5>2
      <4>3. CASE Carried(w)
        <5>1. PICK c \in Lease : Carries(c, w)
          BY <4>3 DEF Carried
        <5>2. \A x : x \in Places(w) <=> x = <<"call", c>>
          BY <2>1, <2>2, <4>3, <5>1 DEF Single, InIdle
        <5>3. Places(w) = {<<"call", c>>}
          BY <5>2
        <5> QED
          BY <5>3
      <4> QED
        BY <2>1, <2>3, <4>1, <4>2, <4>3 DEF Single
    <3> QED
      BY <2>3, <3>1, FS_Singleton
  <2>4. CASE thread[w] # "live"
    <3>1. Places(w) = {}
      BY <2>1, <2>2, <2>4 DEF Single, InIdle, Carried
    <3> QED
      BY <2>4, <3>1, FS_EmptySet
  <2> QED
    BY <2>3, <2>4
<1>2. PoolInv /\ PlaceInv => OnePlace
  BY <1>1 DEF OnePlace
<1> QED
  BY <1>2, PlaceInvariant, PTL

(* INV-4: a worker that nobody gave back twice has at most one lessee, and  *)
(* as long as it has one no other lease finds it.                           *)
THEOREM LeasedToOne == Spec => []OneLessee
<1>1. ASSUME PoolInv, PlaceInv, pool = "up", NEW w \in Worker \ doubled
      PROVE  /\ Cardinality(Lessees(w)) <= 1
             /\ Lessees(w) # {} =>
                  w \in busy \/ \E c \in Lease : lease[c].st = "adding" /\ lease[c].worker = w
  <2>1. Single(w) /\ Exclusive(w)
    BY <1>1 DEF PlaceInv
  <2> DEFINE Adds(c) == lease[c].st = "adding" /\ lease[c].worker = w
  <2>2. \A p \in Proc : Releasing(p, w) = {} <=> \A r \in Release : ~Gives(r, p, w)
    BY DEF Releasing, Gives
  <2>3. \A x : x \in Lessees(w) <=> \/ \E p \in Proc : Records(p, w) /\ x = <<"proc", p>>
                                    \/ \E c \in Lease : (Adds(c) \/ Takes(c, w)) /\ x = <<"call", c>>
    BY <2>2 DEF Lessees, Records, Takes
  <2>4. \A c \in Lease : Adds(c) => Carries(c, w)
    BY DEF Carries
  <2>5. \A c \in Lease : Adds(c) => w \notin busy
    BY <2>1, <2>4 DEF Single, Carried
  <2>6. \A x, y : x \in Lessees(w) /\ y \in Lessees(w) => x = y
    <3>1. \A c, d \in Lease : Adds(c) /\ Adds(d) => c = d
      BY <2>1, <2>4 DEF Single
    <3>2. \A c \in Lease : Adds(c) => (\A d \in Lease : ~Takes(d, w)) /\ (\A p \in Proc : ~Records(p, w))
      BY <2>1, <2>5 DEF Exclusive
    <3> HIDE DEF Adds
    <3> QED
      BY <2>1, <2>3, <3>1, <3>2 DEF Exclusive
  <2>7. Cardinality(Lessees(w)) <= 1
    <3>1. CASE Lessees(w) = {}
      BY <3>1, FS_EmptySet
    <3>2. CASE Lessees(w) # {}
      <4>1. PICK x : x \in Lessees(w)
        BY <3>2
      <4>2. Lessees(w) = {x}
        BY <2>6, <4>1
      <4> QED
        BY <4>2, FS_Singleton
    <3> QED
      BY <3>1, <3>2
  <2>8. Lessees(w) # {} => w \in busy \/ \E c \in Lease : Adds(c)
    BY <2>1, <2>3 DEF Exclusive
  <2> QED
    BY <2>7, <2>8
<1>2. PoolInv /\ PlaceInv => OneLessee
  BY <1>1 DEF OneLessee
<1> QED
  BY <1>2, PlaceInvariant, PTL

-----------------------------------------------------------------------------
(* A step that ends no record and no call that takes a worker.             *)
LEMMA StaysKnown ==
  ASSUME KnownInv, pool' # "shutdown" => pool # "shutdown", doubled' = {} => doubled = {},
         leased' = leased, release' = release,
         \A w \in busy' : w \in Worker /\ (w \in busy \/ \E c \in Lease : Takes(c, w)'),
         \A w \in Worker, c \in Lease : Takes(c, w) => Takes(c, w)'
  PROVE  KnownInv'
<1>1. \A p \in Proc, w \in Worker : Records(p, w)' <=> Records(p, w)
  BY SameRecords
<1>2. \A w \in Worker : Known(w) => Known(w)'
  BY <1>1 DEF Known
<1> QED
  BY <1>2 DEF KnownInv, Known, Gives

LEMMA GivenBackTakes ==
  ASSUME PoolInv, NEW s \in Seq(Worker), GiveBack(s)
  PROVE  busy' = busy \ Range(s) /\ \A w \in Worker, c \in Lease : Takes(c, w)' <=> Takes(c, w)
<1>1. TypeOK /\ Queued /\ Distinct
  BY DEF PoolInv
<1>2. PICK k \in Nat : Handed(s, k)
  BY <1>1, GivenBack
<1>3. \A c \in Lease : \/ lease'[c] = lease[c]
                       \/ \E i \in 1..k : /\ lease'[c] = In("adding", lease[c].proc, s[i])
                                          /\ lease[c].st = "waiting"
  BY <1>1, <1>2, HandedWaiters
<1> QED
  BY <1>2, <1>3, InFields DEF Takes, Handed

LEMMA ReleaseBeginKnown ==
  ASSUME PoolInv, KnownInv, NEW r \in Release, NEW p \in Proc, NEW w \in Worker, ReleaseBegin(r, p, w)
  PROVE  KnownInv'
<1> SUFFICES ASSUME pool' # "shutdown", doubled' = {} PROVE KnownInv'
  BY DEF KnownInv
<1> DEFINE x == [st |-> "releasing", proc |-> p, worker |-> w, gone |-> FALSE]
<1>1. x.st = "releasing" /\ x.proc = p /\ x.worker = w /\ ~x.gone
  OBVIOUS
<1>2. /\ release' = [release EXCEPT ![r] = x] /\ release[r].st = "idle" /\ leased' = leased
      /\ w \in leased[p] /\ pool' = pool
  BY DEF ReleaseBegin
<1> HIDE DEF x
<1>3. \A o \in Release : release'[o] = IF o = r THEN x ELSE release[o]
  BY <1>2 DEF PoolInv, TypeOK
<1>4. doubled = {} /\ \A o \in Release : ~Gives(o, p, w)
  BY DEF ReleaseBegin, GivenTwice, Releasing, Gives
<1>5. pool # "shutdown"
  BY <1>2
<1> DEFINE s == <<w>>
<1>6. s \in Seq(Worker) /\ Range(s) = {w} /\ GiveBack(s)
  BY DEF ReleaseBegin, Range
<1> HIDE DEF s
<1>7. busy' = busy \ {w} /\ \A v \in Worker, c \in Lease : Takes(c, v)' <=> Takes(c, v)
  BY <1>6, GivenBackTakes
<1>8. \A q \in Proc, v \in Worker, o \in Release : Gives(o, q, v)' <=> IF o = r THEN q = p /\ v = w ELSE Gives(o, q, v)
  BY <1>1, <1>3 DEF Gives
<1>9. \A q \in Proc, v \in Worker : v # w /\ Records(q, v) => Records(q, v)'
  BY <1>2, <1>8 DEF Records
<1>10. \A v \in busy' : Known(v)'
  <2>1. \A v \in busy' : v \in Worker /\ v # w /\ Known(v)
    BY <1>4, <1>5, <1>7 DEF KnownInv, PoolInv, TypeOK
  <2> QED
    BY <1>7, <1>9, <2>1 DEF Known
<1>11. \A q \in Proc, v \in Worker, o, m \in Release : Gives(o, q, v)' /\ Gives(m, q, v)' => o = m
  BY <1>4, <1>5, <1>8 DEF KnownInv
<1>12. \A o \in Release : release'[o].st = "releasing" =>
         ~release'[o].gone /\ release'[o].worker \in leased'[release'[o].proc]
  BY <1>1, <1>2, <1>3, <1>4, <1>5 DEF KnownInv
<1> QED
  BY <1>10, <1>11, <1>12 DEF KnownInv

LEMMA ReleaseEndKnown ==
  ASSUME PoolInv, KnownInv, NEW r \in Release, ReleaseEnd(r)
  PROVE  KnownInv'
<1> SUFFICES ASSUME pool' # "shutdown", doubled' = {} PROVE KnownInv'
  BY DEF KnownInv
<1> DEFINE p == release[r].proc
           w == release[r].worker
           left == leased[p] \ {w}
<1>1. TypeOK /\ pool # "shutdown" /\ doubled = {}
  BY DEF PoolInv, ReleaseEnd
<1>2. p \in Proc /\ w \in Worker /\ release[r].st = "releasing" /\ ~release[r].gone
  BY <1>1, ReleasingOK DEF ReleaseEnd, KnownInv
<1>3. /\ leased' = [leased EXCEPT ![p] = left]
      /\ \/ release' = [release EXCEPT ![r] = NoCall]
         \/ left = {} /\ release' = [Gone({p}) EXCEPT ![r] = NoCall]
      /\ busy' = busy /\ lease' = lease
  BY <1>2 DEF ReleaseEnd, poolVars
<1>4. Gives(r, p, w)
  BY <1>2 DEF Gives
<1>5. \A q \in Proc, v \in Worker : Gives(r, q, v) => q = p /\ v = w
  BY DEF Gives
<1> HIDE DEF p, w
<1>6. \A q \in Proc : leased'[q] = IF q = p THEN left ELSE leased[q]
  BY <1>1, <1>3 DEF TypeOK
<1>7. ASSUME NEW o \in Release, o # r, release[o].st = "releasing"
      PROVE  /\ release[o].proc \in Proc /\ release[o].worker \in Worker /\ ~release[o].gone
             /\ release[o].worker \in leased'[release[o].proc]
  <2>1. release[o].proc \in Proc /\ release[o].worker \in Worker /\ ~release[o].gone
        /\ release[o].worker \in leased[release[o].proc]
    BY <1>1, <1>7, ReleasingOK DEF KnownInv
  <2>2. Gives(o, release[o].proc, release[o].worker)
    BY <1>7 DEF Gives
  <2>3. ~(release[o].proc = p /\ release[o].worker = w)
    BY <1>1, <1>2, <1>4, <1>7, <2>2 DEF KnownInv
  <2> QED
    BY <1>6, <2>1, <2>3
<1>8. ASSUME left = {}, NEW o \in Release, o # r, release[o].st = "releasing" PROVE release[o].proc # p
  BY <1>6, <1>7, <1>8
<1>9. \A o \in Release : IF o = r THEN release'[o].st = "idle"
                         ELSE release[o].st = "releasing" \/ release'[o].st = "releasing" => release'[o] = release[o]
  <2>1. release \in [Release -> ReleaseCall] /\ Gone({p}) \in [Release -> ReleaseCall]
    BY <1>1, <1>2, GoneOK DEF TypeOK
  <2>2. release'[r].st = "idle"
    BY <1>3, <2>1, NoCallOK
  <2>3. ASSUME NEW o \in Release, o # r PROVE release'[o] = release[o] \/ (left = {} /\ release'[o] = Gone({p})[o])
    BY <1>3, <2>1, <2>3
  <2>4. ASSUME NEW o \in Release, o # r, release[o].st = "releasing", left = {} PROVE Gone({p})[o] = release[o]
    <3>1. release[o].proc # p
      BY <1>8, <2>4
    <3> QED
      BY <3>1 DEF Gone
  <2>5. ASSUME NEW o \in Release, o # r, release[o].st # "releasing" PROVE Gone({p})[o] = release[o]
    BY <2>5 DEF Gone
  <2> QED
    BY <2>2, <2>3, <2>4, <2>5
<1> HIDE DEF left
<1>10. \A q \in Proc, v \in Worker, o \in Release : Gives(o, q, v)' <=> o # r /\ Gives(o, q, v)
  BY <1>9 DEF Gives
<1>11. ASSUME NEW q \in Proc, NEW v \in Worker, Records(q, v) PROVE Records(q, v)'
  <2>1. v \in leased[q] /\ ~(q = p /\ v = w)
    BY <1>4, <1>11 DEF Records
  <2>2. v \in leased'[q]
    BY <1>6, <2>1 DEF left
  <2> QED
    BY <1>10, <1>11, <2>2 DEF Records
<1>12. \A v \in busy' : Known(v)'
  <2>1. \A v \in busy : v \in Worker /\ Known(v)
    BY <1>1 DEF KnownInv, TypeOK
  <2>2. \A v \in Worker, c \in Lease : Takes(c, v)' <=> Takes(c, v)
    BY <1>3 DEF Takes
  <2> QED
    BY <1>3, <1>11, <2>1, <2>2 DEF Known
<1>13. \A q \in Proc, v \in Worker, o, m \in Release : Gives(o, q, v)' /\ Gives(m, q, v)' => o = m
  BY <1>1, <1>10 DEF KnownInv
<1>14. \A o \in Release : release'[o].st = "releasing" =>
         ~release'[o].gone /\ release'[o].worker \in leased'[release'[o].proc]
  BY <1>7, <1>9
<1> QED
  BY <1>12, <1>13, <1>14 DEF KnownInv

LEMMA ForceExitKnown ==
  ASSUME PoolInv, KnownInv, NEW p \in Proc, ForceExit(p)
  PROVE  KnownInv'
<1> SUFFICES ASSUME pool' # "shutdown", doubled' = {} PROVE KnownInv'
  BY DEF KnownInv
<1>1. TypeOK /\ pool # "shutdown" /\ doubled = {}
  BY DEF PoolInv, ForceExit, GivenTwice
<1>2. PICK s \in SetToSeqs(leased[p]) : GiveBack(s)
  BY DEF ForceExit
<1>3. leased[p] \in SUBSET Worker /\ IsFiniteSet(leased[p])
  BY <1>1, PoolAssumption, FS_Subset DEF TypeOK
<1>4. s \in Seq(Worker) /\ Range(s) = leased[p]
  <2>1. s \in Seq(leased[p]) /\ Range(s) = leased[p]
    BY <1>3, OfASet
  <2> QED
    BY <1>3, <2>1
<1>5. busy' = busy \ leased[p] /\ \A v \in Worker, c \in Lease : Takes(c, v)' <=> Takes(c, v)
  BY <1>2, <1>4, GivenBackTakes
<1>6. \A v \in leased[p], o \in Release : ~Gives(o, p, v)
  BY <1>3 DEF ForceExit, GivenTwice, Releasing, Gives
<1>7. ASSUME NEW o \in Release, release[o].st = "releasing" PROVE release[o].proc # p
  BY <1>1, <1>6, <1>7 DEF KnownInv, Gives
<1>8. \A o \in Release : release'[o] = release[o]
  BY <1>7 DEF ForceExit, Gone
<1>9. \A q \in Proc : leased'[q] = IF q = p THEN {} ELSE leased[q]
  BY <1>1 DEF ForceExit, TypeOK
<1>10. \A q \in Proc, v \in Worker, o \in Release : Gives(o, q, v)' <=> Gives(o, q, v)
  BY <1>8 DEF Gives
<1>11. \A q \in Proc, v \in Worker : q # p /\ Records(q, v) => Records(q, v)'
  BY <1>9, <1>10 DEF Records
<1>12. \A v \in busy' : Known(v)'
  <2>1. \A v \in busy' : v \in Worker /\ ~Records(p, v) /\ Known(v)
    BY <1>1, <1>5 DEF KnownInv, TypeOK, Records
  <2> QED
    BY <1>5, <1>11, <2>1 DEF Known
<1>13. \A o \in Release : release'[o].st = "releasing" =>
         ~release'[o].gone /\ release'[o].worker \in leased'[release'[o].proc]
  BY <1>1, <1>7, <1>8, <1>9, ReleasingOK DEF KnownInv
<1> QED
  BY <1>1, <1>10, <1>12, <1>13 DEF KnownInv

LEMMA TrackKnown ==
  ASSUME PoolInv, KnownInv, NEW c \in Lease, Track(c)
  PROVE  KnownInv'
<1> SUFFICES ASSUME pool' # "shutdown", doubled' = {} PROVE KnownInv'
  BY DEF KnownInv
<1> DEFINE u == lease[c].worker
           p == lease[c].proc
<1>1. TypeOK /\ lease[c].st = "leased" /\ u \in Worker /\ p \in Proc /\ pool # "shutdown" /\ doubled = {}
  BY Busied DEF PoolInv, Calls, Holds, Track
<1>2. busy' = busy /\ leased' = [leased EXCEPT ![p] = leased[p] \cup {u}] /\ release' = release
  BY DEF Track
<1>3. \A d \in Lease : lease'[d] = IF d = c THEN NoCall ELSE lease[d]
  BY <1>1, CallChanges, ZenonT(60) DEF Track
<1>4. \A q \in Proc, r \in Release : ~Gives(r, q, u)
  BY DEF Track, Releasing, Gives
<1>5. \A v \in Worker, d \in Lease : Takes(d, v) => Takes(d, v)' \/ v = u
  BY <1>3 DEF Takes
<1> HIDE DEF u, p
<1>6. \A q \in Proc : leased'[q] = IF q = p THEN leased[p] \cup {u} ELSE leased[q]
  BY <1>1, <1>2 DEF TypeOK
<1>7. \A q \in Proc, v \in Worker, r \in Release : Gives(r, q, v)' <=> Gives(r, q, v)
  BY <1>2 DEF Gives
<1>8. \A q \in Proc, v \in Worker : Records(q, v) => Records(q, v)'
  BY <1>6, <1>7 DEF Records
<1>11. \A v \in busy' : Known(v)'
  <2>1. \A v \in busy' : v \in Worker /\ Known(v)
    BY <1>1, <1>2 DEF KnownInv, TypeOK
  <2>2. \A v \in Worker : v = u => Known(v)'
    BY <1>1, <1>4, <1>6, <1>7 DEF Records, Known
  <2> QED
    BY <1>5, <1>8, <2>1, <2>2 DEF Known
<1>12. \A o \in Release : release'[o].st = "releasing" =>
         ~release'[o].gone /\ release'[o].worker \in leased'[release'[o].proc]
  BY <1>1, <1>2, <1>6, ReleasingOK DEF KnownInv
<1> QED
  BY <1>1, <1>7, <1>11, <1>12 DEF KnownInv

(* The steps of calls that do not end with a record.                       *)
LEMMA LeaseKnown ==
  ASSUME PoolInv, KnownInv, NEW c \in Lease,
         (\E p \in Proc : LeaseBegin(c, p)) \/ WarmPush(c) \/ WarmEnd(c) \/ Add(c)
  PROVE  KnownInv'
<1>1. TypeOK /\ leased' = leased /\ release' = release /\ doubled' = doubled
      /\ (pool' # "shutdown" => pool # "shutdown")
  BY DEF LeaseBegin, WarmPush, WarmEnd, Add, PoolInv
<1>2. lease[c].st # "leased"
  BY DEF LeaseBegin, WarmPush, WarmEnd, Add
<1>3. \A d \in Lease : d # c => lease'[d] = lease[d]
  <2>1. \E x : lease' = [lease EXCEPT ![c] = x]
    BY DEF LeaseBegin, WarmPush, WarmEnd, Add, Warm, PoolLease, TakeIdle, TakeNew, Queue, Refuse, Starts
  <2> QED
    BY <1>1, <2>1 DEF TypeOK
<1>4. \A w \in Worker, d \in Lease : Takes(d, w) => Takes(d, w)'
  BY <1>2, <1>3 DEF Takes
<1>5. ASSUME NEW w \in busy' PROVE w \in Worker /\ (w \in busy \/ \E d \in Lease : Takes(d, w)')
  <2>1. CASE busy' = busy
    BY <1>1, <1>5, <2>1 DEF TypeOK
  <2>2. CASE \E p : TakeIdle(c, p)
    <3>1. PICK p : TakeIdle(c, p)
      BY <2>2
    <3>2. Last(idle) \in Worker /\ busy' = busy \cup {Last(idle)}
      BY <1>1, <3>1, Fronted DEF TakeIdle, TypeOK
    <3>3. lease'[c] = In("leased", p, Last(idle))
      <4>1. lease' = [lease EXCEPT ![c] = In("leased", p, Last(idle))]
        BY <3>1 DEF TakeIdle
      <4> QED
        BY <1>1, <4>1 DEF TypeOK
    <3> QED
      BY <1>1, <1>5, <3>2, <3>3, InFields DEF Takes, TypeOK
  <2>3. CASE Add(c)
    <3>1. lease[c].worker \in Worker /\ lease[c] \in LeaseCall /\ busy' = busy \cup {lease[c].worker}
      BY <2>3, Busied DEF Add, PoolInv, Calls, Holds
    <3>2. lease'[c] = [lease[c] EXCEPT !.st = "leased"]
      <4>1. lease' = [lease EXCEPT ![c] = [lease[c] EXCEPT !.st = "leased"]]
        BY <2>3 DEF Add
      <4> QED
        BY <1>1, <4>1 DEF TypeOK
    <3>3. lease'[c].st = "leased" /\ lease'[c].worker = lease[c].worker
      BY <3>1, <3>2 DEF LeaseCall
    <3> QED
      BY <1>1, <1>5, <3>1, <3>3 DEF Takes, TypeOK
  <2> QED
    BY <2>1, <2>2, <2>3 DEF LeaseBegin, WarmPush, WarmEnd, PoolLease, TakeNew, Queue, Refuse
<1> QED
  BY <1>1, <1>4, <1>5, StaysKnown

LEMMA StillKnown ==
  ASSUME KnownInv, UNCHANGED <<pool, busy, lease, leased, release, doubled>>
  PROVE  KnownInv'
  BY DEF KnownInv, Known, Records, Gives, Takes

LEMMA StepKnown ==
  ASSUME PoolInv, KnownInv, [Next]_vars
  PROVE  KnownInv'
<1>1. CASE UNCHANGED vars
  BY <1>1, StillKnown DEF vars, poolVars
<1>2. ASSUME NEW p \in Proc, Exit(p) PROVE KnownInv'
  BY <1>2, StillKnown DEF Exit, poolVars
<1>3. ASSUME Reap PROVE KnownInv'
  BY <1>3, StillKnown DEF Reap
<1>4. ASSUME Shutdown PROVE KnownInv'
  BY <1>4 DEF Shutdown, KnownInv
<1>5. CASE Next
  BY <1>2, <1>3, <1>4, <1>5, LeaseKnown, TrackKnown, ReleaseBeginKnown, ReleaseEndKnown, ForceExitKnown
     DEF Next, Continue
<1> QED
  BY <1>1, <1>5

(* lease-worker.ts:15: as long as nobody gives a worker back twice, every   *)
(* busy worker is on the record of a process or in the hands of the call    *)
(* that is about to record it; so releaseProcessWorkers() finds them all.   *)
THEOREM BusyAreTracked == Spec => []Tracked
<1>1. Init => KnownInv
  BY NoCallOK DEF Init, KnownInv, Gives
<1>2. PoolInv /\ KnownInv /\ [Next]_vars => KnownInv'
  BY StepKnown
<1>3. PoolInv /\ KnownInv => Tracked
  <2> SUFFICES ASSUME PoolInv, KnownInv, pool = "up", doubled = {}, NEW w \in busy PROVE Lessees(w) # {}
    BY DEF Tracked
  <2>1. w \in Worker /\ Known(w)
    BY DEF KnownInv, PoolInv, TypeOK
  <2>2. CASE \E p \in Proc : Records(p, w)
    <3>1. PICK p \in Proc : Records(p, w)
      BY <2>2
    <3>2. Releasing(p, w) = {} /\ w \in leased[p]
      BY <3>1 DEF Records, Releasing, Gives
    <3>3. <<"proc", p>> \in Lessees(w)
      BY <3>2 DEF Lessees
    <3> QED
      BY <3>3
  <2>3. CASE \E c \in Lease : Takes(c, w)
    <3>1. PICK c \in Lease : Takes(c, w)
      BY <2>3
    <3>2. <<"call", c>> \in Lessees(w)
      BY <3>1 DEF Lessees, Takes
    <3> QED
      BY <3>2
  <2> QED
    BY <2>1, <2>2, <2>3 DEF Known
<1> QED
  BY <1>1, <1>2, <1>3, PoolInvariant, PTL DEF Spec

-----------------------------------------------------------------------------
(* Where a live worker is, given back twice or not, whether the pool is up  *)
(* or not: it is counted in the size of the pool, or some call carries it.  *)
Live == {w \in Worker : thread[w] = "live"}
InPool(w) == InIdle(w) \/ w \in busy \/ Carried(w)
SizeInv ==
  /\ \A w \in Live : InPool(w)
  /\ pool = "none" => Live = {}
  /\ SizeBounded

Most == IF MinWorkers < MaxWorkers THEN MaxWorkers ELSE MinWorkers

LEMMA LiveFinite ==
  /\ IsFiniteSet(Live) /\ Cardinality(Live) \in Nat
  /\ IsFiniteSet(Live)' /\ Cardinality(Live)' \in Nat
  /\ Cardinality(Lease) \in Nat /\ Most \in Nat /\ Most >= 1 /\ Most >= MinWorkers /\ Most >= MaxWorkers
  /\ SizeBounded <=> Cardinality(Live) <= Most + Cardinality(Lease) - 1
<1>1. Live \in SUBSET Worker /\ Live' \in SUBSET Worker
  BY DEF Live
<1>2. IsFiniteSet(Live) /\ IsFiniteSet(Live')
  BY <1>1, PoolAssumption, FS_Subset
<1>3. Cardinality(Live) \in Nat /\ Cardinality(Live') \in Nat /\ Cardinality(Lease) \in Nat
  BY <1>2, PoolAssumption, FS_CardinalityType
<1>4. Most \in Nat /\ Most >= 1 /\ Most >= MinWorkers /\ Most >= MaxWorkers
  BY PoolAssumption DEF Most
<1> QED
  BY <1>2, <1>3, <1>4 DEF SizeBounded, Live, Most

LEMMA ImageSize ==
  ASSUME NEW S, IsFiniteSet(S), NEW f
  PROVE  IsFiniteSet({f[x] : x \in S}) /\ Cardinality({f[x] : x \in S}) <= Cardinality(S)
<1> DEFINE T == {f[x] : x \in S}
           g == [x \in S |-> f[x]]
<1>1. g \in Surjection(S, T)
  BY DEF Surjection
<1> QED
  BY <1>1, FS_Surjection

(* So the live workers are no more than the pool counts, plus the calls    *)
(* that may carry one.                                                     *)
LEMMA LiveSize ==
  ASSUME TypeOK, \A w \in Live : InPool(w), NEW C \in SUBSET Lease,
         \A c \in Lease : lease[c].st \in {"warming", "adding"} => c \in C
  PROVE  /\ Total \in Nat /\ Cardinality(C) \in Nat
         /\ Cardinality(Live) <= Total + Cardinality(C)
<1> DEFINE f == [c \in Lease |-> lease[c].worker]
           I == {idle[i] : i \in 1..Len(idle)}
           K == {f[c] : c \in C}
<1>1. Len(idle) \in Nat /\ IsFiniteSet(1..Len(idle)) /\ Cardinality(1..Len(idle)) = Len(idle)
  <2>1. Len(idle) \in Nat
    BY WaitersListed
  <2>2. \A n \in Nat : IsFiniteSet(1..n) /\ Cardinality(1..n) = n
    BY FS_Interval
  <2> QED
    BY <2>1, <2>2
<1>2. IsFiniteSet(I) /\ Cardinality(I) <= Len(idle)
  BY <1>1, ImageSize
<1>3. IsFiniteSet(C) /\ Cardinality(C) \in Nat
  BY PoolAssumption, FS_Subset, FS_CardinalityType
<1>4. IsFiniteSet(K) /\ Cardinality(K) <= Cardinality(C)
  BY <1>3, ImageSize
<1>5. IsFiniteSet(busy) /\ Cardinality(busy) \in Nat
  BY PoolAssumption, FS_Subset, FS_CardinalityType DEF TypeOK
<1>6. Live \subseteq (I \cup busy) \cup K
  <2> SUFFICES ASSUME NEW w \in Live PROVE w \in I \/ w \in busy \/ w \in K
    OBVIOUS
  <2>1. InIdle(w) => w \in I
    BY DEF InIdle
  <2>2. Carried(w) => w \in K
    BY DEF Carried, Carries
  <2> QED
    BY <2>1, <2>2 DEF InPool
<1> HIDE DEF I, K
<1>7. /\ Cardinality(I) \in Nat /\ Cardinality(K) \in Nat
      /\ IsFiniteSet(I \cup busy) /\ Cardinality(I \cup busy) \in Nat
      /\ IsFiniteSet((I \cup busy) \cup K) /\ Cardinality((I \cup busy) \cup K) \in Nat
      /\ Cardinality(I \cap busy) \in Nat /\ Cardinality((I \cup busy) \cap K) \in Nat
  <2>1. IsFiniteSet(I \cup busy) /\ IsFiniteSet((I \cup busy) \cup K)
    BY <1>2, <1>4, <1>5, FS_Union
  <2>2. I \cap busy \in SUBSET busy /\ (I \cup busy) \cap K \in SUBSET K
    OBVIOUS
  <2>3. IsFiniteSet(I \cap busy) /\ IsFiniteSet((I \cup busy) \cap K)
    BY <1>4, <1>5, <2>2, FS_Subset
  <2> QED
    BY <1>2, <1>4, <2>1, <2>3, FS_CardinalityType
<1>8. Cardinality(I \cup busy) = Cardinality(I) + Cardinality(busy) - Cardinality(I \cap busy)
  BY <1>2, <1>5, FS_Union
<1>9. Cardinality((I \cup busy) \cup K)
        = Cardinality(I \cup busy) + Cardinality(K) - Cardinality((I \cup busy) \cap K)
  BY <1>4, <1>7, FS_Union
<1>10. Cardinality(Live) <= Cardinality((I \cup busy) \cup K)
  BY <1>6, <1>7, FS_Subset
<1>11. Cardinality(Live) \in Nat
  BY LiveFinite
<1> QED
  BY <1>1, <1>2, <1>3, <1>4, <1>5, <1>7, <1>8, <1>9, <1>10, <1>11 DEF Total

(* The steps that start a worker: the bound they leave.                    *)
LEMMA StartSize ==
  ASSUME TypeOK, NEW c \in Lease, NEW st \in {"warming", "adding"}, NEW p, NEW v \in Worker,
         Starts(c, st, p, v), NEW n \in Nat, Cardinality(Live) + 1 <= n
  PROVE  Cardinality(Live)' <= n /\ Live' = Live \cup {v} /\ lease'[c] = In(st, p, v)
<1>1. Live' = Live \cup {v} /\ v \notin Live
  BY DEF Starts, Live, TypeOK
<1>2. Cardinality(Live') = Cardinality(Live) + 1
  BY <1>1, LiveFinite, FS_AddElement
<1> QED
  BY <1>1, <1>2 DEF Starts, TypeOK

(* A step that starts no worker and loses none.                            *)
LEMMA StaysBounded ==
  ASSUME SizeInv, \A w \in Live' : w \in Live /\ InPool(w)', pool' = "none" => pool = "none"
  PROVE  SizeInv'
<1>1. Live' \in SUBSET Live
  OBVIOUS
<1>2. Cardinality(Live') <= Cardinality(Live)
  BY <1>1, LiveFinite, FS_Subset
<1>3. Cardinality(Live)' <= Most + Cardinality(Lease) - 1
  BY <1>2, LiveFinite DEF SizeInv
<1>4. SizeBounded'
  BY <1>3 DEF SizeBounded, Live, Most
<1> QED
  BY <1>1, <1>4 DEF SizeInv

LEMMA OthersCarry ==
  ASSUME NEW c \in Lease
  PROVE  Cardinality(Lease \ {c}) = Cardinality(Lease) - 1
  BY PoolAssumption, FS_RemoveElement

(* A lease that finds an idle worker, waits or is refused moves workers.   *)
LEMMA TakeIdleSize ==
  ASSUME TypeOK, \A w \in Live : InPool(w), NEW c \in Lease, NEW p, TakeIdle(c, p),
         lease[c].st \in {"idle", "warm"}
  PROVE  \A w \in Live' : w \in Live /\ InPool(w)'
<1>1. thread' = thread /\ idle # <<>> /\ busy' = busy \cup {Last(idle)} /\ idle' = Front(idle)
  BY DEF TakeIdle
<1>2. /\ Len(idle) \in Nat \ {0} /\ Last(idle) = idle[Len(idle)]
      /\ Len(idle') = Len(idle) - 1 /\ \A i \in 1..(Len(idle) - 1) : idle'[i] = idle[i]
  BY <1>1, Fronted DEF TypeOK
<1>3. \A d \in Lease : d # c => lease'[d] = lease[d]
  BY CallChanges DEF TakeIdle
<1> SUFFICES ASSUME NEW w \in Live' PROVE w \in Live /\ InPool(w)'
  OBVIOUS
<1>4. w \in Live /\ InPool(w)
  BY <1>1 DEF Live
<1>5. InIdle(w) => w \in busy' \/ InIdle(w)'
  <2> SUFFICES ASSUME NEW i \in 1..Len(idle), idle[i] = w PROVE w \in busy' \/ InIdle(w)'
    BY DEF InIdle
  <2>1. i = Len(idle) \/ i \in 1..(Len(idle) - 1)
    BY <1>2
  <2> QED
    BY <1>1, <1>2, <2>1 DEF InIdle
<1>6. Carried(w) => Carried(w)'
  BY <1>3 DEF Carried, Carries
<1> QED
  BY <1>1, <1>4, <1>5, <1>6 DEF InPool

LEMMA PutAside ==
  ASSUME TypeOK, \A w \in Live : InPool(w), NEW c \in Lease,
         lease[c].st \notin {"warming", "adding"},
         \A d \in Lease : d # c => lease'[d] = lease[d],
         idle' = idle, busy' = busy, thread' = thread
  PROVE  \A w \in Live' : w \in Live /\ InPool(w)'
  BY DEF Live, InPool, InIdle, Carried, Carries

LEMMA StartInPool ==
  ASSUME TypeOK, \A w \in Live : InPool(w), NEW c \in Lease, NEW st \in {"warming", "adding"},
         NEW p, NEW v \in Worker, Starts(c, st, p, v),
         lease[c].st \notin {"warming", "adding"}, idle' = idle, busy' = busy
  PROVE  \A w \in Live' : InPool(w)'
<1>1. \A d \in Lease : lease'[d] = IF d = c THEN In(st, p, v) ELSE lease[d]
  BY CallChanges DEF Starts
<1>2. Live' = Live \cup {v}
  BY DEF Starts, Live, TypeOK
<1>3. Carried(v)'
  BY <1>1, InFields DEF Carried, Carries
<1>4. \A w \in Worker : Carried(w) => Carried(w)'
  BY <1>1 DEF Carried, Carries
<1>5. \A w \in Live : w \in Worker
  BY DEF Live
<1> QED
  BY <1>2, <1>3, <1>4, <1>5 DEF InPool, InIdle

LEMMA TakeNewSize ==
  ASSUME TypeOK, SizeInv, NEW c \in Lease, NEW p, TakeNew(c, p), lease[c].st \in {"idle", "warm"}, pool' = pool
  PROVE  SizeInv'
<1>1. PICK v \in Worker : Starts(c, "adding", p, v)
  BY DEF TakeNew
<1>2. Total < MaxWorkers /\ idle' = idle /\ busy' = busy /\ pool = "up"
  BY DEF TakeNew
<1>3. \A w \in Live' : InPool(w)'
  BY <1>1, <1>2, StartInPool DEF SizeInv
<1>4. Total \in Nat /\ Cardinality(Live) <= Total + Cardinality(Lease \ {c})
  BY LiveSize DEF SizeInv
<1>5. Cardinality(Live) + 1 <= Most + Cardinality(Lease) - 1
  BY <1>2, <1>4, OthersCarry, LiveFinite, PoolAssumption
<1>6. Most + Cardinality(Lease) - 1 \in Nat
  BY LiveFinite
<1>7. Cardinality(Live)' <= Most + Cardinality(Lease) - 1
  BY <1>1, <1>5, <1>6, StartSize
<1>8. SizeBounded'
  BY <1>7 DEF SizeBounded, Live, Most
<1> QED
  BY <1>2, <1>3, <1>8 DEF SizeInv

LEMMA PoolLeaseSize ==
  ASSUME TypeOK, SizeInv, NEW c \in Lease, NEW p, PoolLease(c, p), lease[c].st \in {"idle", "warm"}, pool' = pool
  PROVE  SizeInv'
<1>1. CASE TakeIdle(c, p)
  BY <1>1, TakeIdleSize, StaysBounded DEF SizeInv
<1>2. CASE TakeNew(c, p)
  BY <1>2, TakeNewSize
<1>3. CASE Queue(c, p) \/ Refuse(c)
  <2>1. \A d \in Lease : d # c => lease'[d] = lease[d]
    BY <1>3, CallChanges DEF Queue, Refuse
  <2>2. \A w \in Live' : w \in Live /\ InPool(w)'
    BY <1>3, <2>1, PutAside DEF Queue, Refuse, SizeInv
  <2> QED
    BY <2>2, StaysBounded
<1> QED
  BY <1>1, <1>2, <1>3 DEF PoolLease

LEMMA LeaseBeginSize ==
  ASSUME PoolInv, SizeInv, NEW c \in Lease, NEW p \in Proc, LeaseBegin(c, p)
  PROVE  SizeInv'
<1>1. TypeOK /\ lease[c].st = "idle"
  BY DEF PoolInv, LeaseBegin
<1>2. CASE pool = "up" /\ PoolLease(c, p) /\ UNCHANGED pool
  BY <1>1, <1>2, PoolLeaseSize
<1>3. CASE pool = "none" /\ pool' = "up" /\ Warm(c, p, 0) /\ UNCHANGED <<idle, busy, waiters>>
  <2>1. Live = {} /\ Cardinality(Live) = 0
    BY <1>3, FS_EmptySet DEF SizeInv
  <2>2. CASE \E v \in Worker : Starts(c, "warming", p, v)
    <3>1. PICK v \in Worker : Starts(c, "warming", p, v)
      BY <2>2
    <3>2. \A w \in Live' : InPool(w)'
      BY <1>1, <1>3, <3>1, StartInPool DEF SizeInv
    <3>3. Cardinality(Lease) >= 1
      BY PoolAssumption, FS_EmptySet, LiveFinite
    <3>4. Most + Cardinality(Lease) - 1 \in Nat /\ Cardinality(Live) + 1 <= Most + Cardinality(Lease) - 1
      BY <2>1, <3>3, LiveFinite
    <3>5. Cardinality(Live)' <= Most + Cardinality(Lease) - 1
      BY <1>1, <3>1, <3>4, StartSize
    <3>6. SizeBounded'
      BY <3>5 DEF SizeBounded, Live, Most
    <3> QED
      BY <1>3, <3>2, <3>6 DEF SizeInv
  <2>3. CASE thread' = thread
    <3>1. \A w \in Live' : w \in Live /\ InPool(w)'
      BY <2>1, <2>3 DEF Live
    <3> QED
      BY <1>3, <3>1, StaysBounded
  <2> QED
    BY <1>3, <2>2, <2>3 DEF Warm
<1> QED
  BY <1>2, <1>3 DEF LeaseBegin

LEMMA WarmPushSize ==
  ASSUME PoolInv, SizeInv, NEW c \in Lease, WarmPush(c)
  PROVE  SizeInv'
<1> DEFINE u == lease[c].worker
           p == lease[c].proc
<1>1. /\ TypeOK /\ lease[c].st = "warming" /\ u \in Worker
      /\ pool' = pool /\ busy' = busy /\ idle' = Append(idle, u) /\ Warm(c, p, Total + 1)
  BY DEF PoolInv, WarmPush, Calls, Holds
<1>2. pool # "none"
  BY <1>1 DEF PoolInv, Fresh
<1>3. /\ Len(idle) \in Nat /\ Len(idle') = Len(idle) + 1 /\ idle'[Len(idle) + 1] = u
      /\ \A i \in 1..Len(idle) : idle'[i] = idle[i]
  BY <1>1, Appended DEF TypeOK
<1>4. \A w \in Worker : w = u => InIdle(w)'
  <2>1. Len(idle) + 1 \in 1..Len(idle')
    BY <1>3
  <2> QED
    BY <1>3, <2>1 DEF InIdle
<1>5. \A w \in Worker : InIdle(w) => InIdle(w)'
  <2> SUFFICES ASSUME NEW w \in Worker, NEW i \in 1..Len(idle), idle[i] = w PROVE InIdle(w)'
    BY DEF InIdle
  <2>1. i \in 1..Len(idle') /\ idle'[i] = w
    BY <1>3
  <2> QED
    BY <2>1 DEF InIdle
<1>6. \A w \in Worker : Carries(c, w) => w = u
  BY DEF Carries
<1>7. Live \subseteq Worker /\ Live' \subseteq Worker
  BY DEF Live
<1> HIDE DEF u, p
<1>8. ASSUME NEW w \in Live, \A d \in Lease : d # c => lease'[d] = lease[d] PROVE InPool(w)'
  <2>1. w \in Worker /\ (InIdle(w) \/ w \in busy \/ \E d \in Lease : Carries(d, w))
    BY <1>7 DEF SizeInv, InPool, Carried
  <2>2. ASSUME NEW d \in Lease, Carries(d, w) PROVE InIdle(w)' \/ Carried(w)'
    <3>1. CASE d = c
      <4>1. w = u
        BY <1>6, <2>1, <2>2, <3>1
      <4> QED
        BY <1>4, <2>1, <4>1
    <3>2. CASE d # c
      BY <1>8, <2>2, <3>2 DEF Carried, Carries
    <3> QED
      BY <3>1, <3>2
  <2> QED
    BY <1>1, <1>5, <2>1, <2>2 DEF InPool
<1>9. CASE Total + 1 < MinWorkers /\ \E v \in Worker : Starts(c, "warming", p, v)
  <2>1. PICK v \in Worker : Starts(c, "warming", p, v)
    BY <1>9
  <2>2. \A d \in Lease : lease'[d] = IF d = c THEN In("warming", p, v) ELSE lease[d]
    BY <1>1, <2>1, CallChanges DEF Starts
  <2>3. Carried(v)'
    BY <2>2, InFields DEF Carried, Carries
  <2>4. Total \in Nat /\ Cardinality(Live) <= Total + Cardinality(Lease)
    BY <1>1, LiveSize DEF SizeInv
  <2>5. Most + Cardinality(Lease) - 1 \in Nat /\ Cardinality(Live) + 1 <= Most + Cardinality(Lease) - 1
    BY <1>9, <2>4, LiveFinite, PoolAssumption
  <2>6. Cardinality(Live)' <= Most + Cardinality(Lease) - 1 /\ Live' = Live \cup {v}
    BY <1>1, <2>1, <2>5, StartSize
  <2>7. \A w \in Live' : InPool(w)'
    BY <1>8, <2>2, <2>3, <2>6 DEF InPool
  <2>8. SizeBounded'
    BY <2>6 DEF SizeBounded, Live, Most
  <2> QED
    BY <1>1, <1>2, <2>7, <2>8 DEF SizeInv
<1>10. CASE lease' = [lease EXCEPT ![c] = In("warm", p, NoWorker)] /\ thread' = thread
  <2>1. \A d \in Lease : d # c => lease'[d] = lease[d]
    BY <1>1, <1>10, CallChanges
  <2>2. \A w \in Live' : w \in Live /\ InPool(w)'
    BY <1>8, <1>10, <2>1 DEF Live
  <2> QED
    BY <1>1, <2>2, StaysBounded
<1> QED
  BY <1>1, <1>9, <1>10 DEF Warm

LEMMA AddSize ==
  ASSUME PoolInv, SizeInv, NEW c \in Lease, Add(c)
  PROVE  SizeInv'
<1>1. TypeOK /\ busy' = busy \cup {lease[c].worker} /\ idle' = idle /\ thread' = thread /\ pool' = pool
  BY DEF PoolInv, Add
<1>2. \A d \in Lease : d # c => lease'[d] = lease[d]
  BY <1>1, CallChanges DEF Add
<1>3. \A w \in Worker : Carried(w) => w \in busy' \/ Carried(w)'
  BY <1>1, <1>2 DEF Carried, Carries
<1>4. \A w \in Live' : w \in Live /\ InPool(w)'
  BY <1>1, <1>3 DEF Live, InPool, InIdle, SizeInv
<1> QED
  BY <1>1, <1>4, StaysBounded

LEMMA TrackSize ==
  ASSUME PoolInv, SizeInv, NEW c \in Lease, Track(c)
  PROVE  SizeInv'
<1>1. /\ TypeOK /\ lease[c].st = "leased" /\ busy' = busy /\ idle' = idle /\ thread' = thread /\ pool' = pool
      /\ lease' = [lease EXCEPT ![c] = NoCall]
  BY DEF PoolInv, Track
<1>2. \A d \in Lease : d # c => lease'[d] = lease[d]
  BY <1>1, CallChanges
<1>3. \A w \in Live' : w \in Live /\ InPool(w)'
  BY <1>1, <1>2, PutAside DEF SizeInv
<1> QED
  BY <1>1, <1>3, StaysBounded

(* What is given back is idle again or carried by a call that waited.      *)
LEMMA GivenBackSize ==
  ASSUME PoolInv, SizeInv, NEW s \in Seq(Worker), GiveBack(s), thread' = thread, pool' = pool
  PROVE  SizeInv'
<1>1. TypeOK /\ Queued /\ Distinct
  BY DEF PoolInv
<1>2. PICK k \in Nat : Handed(s, k)
  BY <1>1, GivenBack
<1>3. /\ k <= Len(s) /\ k <= Len(waiters) /\ Len(s) \in Nat /\ Len(idle) \in Nat
      /\ busy' = busy \ Range(s) /\ Len(idle') = Len(idle) + (Len(s) - k)
      /\ \A i \in 1..Len(idle) : idle'[i] = idle[i]
      /\ \A i \in 1..(Len(s) - k) : idle'[Len(idle) + i] = s[k + i]
      /\ \A i \in 1..k : lease'[waiters[i]] = In("adding", lease[waiters[i]].proc, s[i])
  BY <1>1, <1>2, Listed, WaitersListed DEF Handed
<1>4. \A c \in Lease : lease'[c] = lease[c] \/ lease[c].st = "waiting"
  BY <1>1, <1>2, HandedWaiters
<1>5. ASSUME NEW w \in Worker, InIdle(w) PROVE InIdle(w)'
  <2>1. PICK i \in 1..Len(idle) : idle[i] = w
    BY <1>5 DEF InIdle
  <2>2. i \in 1..Len(idle') /\ idle'[i] = w
    BY <1>3, <2>1
  <2> QED
    BY <2>2 DEF InIdle
<1>6. \A w \in Worker : Carried(w) => Carried(w)'
  BY <1>4 DEF Carried, Carries
<1>7. ASSUME NEW w \in Range(s) PROVE InIdle(w)' \/ Carried(w)'
  <2>1. PICK i \in 1..Len(s) : s[i] = w
    BY <1>7, Ranges
  <2>2. CASE i \in 1..k
    <3>1. waiters[i] \in Lease
      <4>1. i \in 1..Len(waiters)
        BY <1>1, <1>3, <2>2, WaitersListed
      <4> QED
        BY <1>1, <4>1, WaitersListed
    <3>2. lease'[waiters[i]].st = "adding" /\ lease'[waiters[i]].worker = w
      BY <1>3, <2>1, <2>2, InFields
    <3> QED
      BY <3>1, <3>2 DEF Carried, Carries
  <2>3. CASE i \notin 1..k
    <3>1. i - k \in 1..(Len(s) - k) /\ k + (i - k) = i
      BY <1>3, <2>1, <2>3
    <3>2. idle'[Len(idle) + (i - k)] = w
      BY <1>3, <2>1, <3>1
    <3>3. Len(idle) + (i - k) \in 1..Len(idle')
      BY <1>3, <3>1
    <3> QED
      BY <3>2, <3>3 DEF InIdle
  <2> QED
    BY <2>2, <2>3
<1>8. \A w \in Live' : w \in Live /\ w \in Worker
  BY DEF Live
<1>9. \A w \in Live' : w \in Live /\ InPool(w)'
  BY <1>3, <1>5, <1>6, <1>7, <1>8 DEF InPool, SizeInv
<1> QED
  BY <1>9, StaysBounded

LEMMA ForceExitSize ==
  ASSUME PoolInv, SizeInv, NEW p \in Proc, ForceExit(p)
  PROVE  SizeInv'
<1>1. thread' = thread /\ pool' = pool /\ \E s \in SetToSeqs(leased[p]) : GiveBack(s)
  BY DEF ForceExit
<1>2. leased[p] \in SUBSET Worker /\ IsFiniteSet(leased[p])
  BY PoolAssumption, FS_Subset DEF PoolInv, TypeOK
<1>3. PICK s \in SetToSeqs(leased[p]) : GiveBack(s)
  BY <1>1
<1>4. s \in Seq(Worker)
  <2>1. s \in Seq(leased[p])
    BY <1>2, OfASet
  <2> QED
    BY <1>2, <2>1
<1> QED
  BY <1>1, <1>3, <1>4, GivenBackSize

(* The reaper and the shutdown terminate what they drop.                   *)
LEMMA ReapSize ==
  ASSUME PoolInv, SizeInv, Reap
  PROVE  SizeInv'
<1>1. TypeOK /\ busy' = busy /\ lease' = lease /\ pool' = pool
  BY DEF PoolInv, Reap
<1>2. PICK n \in 1..(Len(idle) - MinWorkers) :
        idle' = SubSeq(idle, n + 1, Len(idle)) /\ thread' = Terminated({idle[i] : i \in 1..n})
  BY DEF Reap
<1>3. Len(idle) \in Nat /\ n \in Nat /\ n \in 0..Len(idle) /\ idle \in Seq(Worker)
  BY <1>1, PoolAssumption, WaitersListed
<1>4. Len(idle') = Len(idle) - n /\ \A i \in 1..(Len(idle) - n) : idle'[i] = idle[n + i]
  BY <1>2, <1>3, Suffix
<1>5. \A w \in Live' : w \in Live /\ w \in Worker /\ \A i \in 1..n : idle[i] # w
  BY <1>2 DEF Live, Terminated
<1>6. ASSUME NEW w \in Live', InIdle(w) PROVE InIdle(w)'
  <2>1. PICK i \in 1..Len(idle) : idle[i] = w
    BY <1>6 DEF InIdle
  <2>2. i - n \in 1..(Len(idle) - n) /\ n + (i - n) = i
    BY <1>3, <1>5, <2>1
  <2>3. i - n \in 1..Len(idle') /\ idle'[i - n] = w
    BY <1>4, <2>1, <2>2
  <2> QED
    BY <2>3 DEF InIdle
<1>7. \A w \in Live' : w \in Live /\ InPool(w)'
  BY <1>1, <1>5, <1>6 DEF InPool, Carried, Carries, SizeInv
<1> QED
  BY <1>1, <1>7, StaysBounded

LEMMA ShutdownSize ==
  ASSUME PoolInv, SizeInv, Shutdown
  PROVE  SizeInv'
<1>1. TypeOK /\ lease' = lease /\ pool' = "shutdown" /\ thread' = Terminated(busy \cup Range(idle))
  BY DEF PoolInv, Shutdown
<1>2. \A w \in Live' : w \in Live /\ w \notin busy /\ w \notin Range(idle)
  BY <1>1 DEF Live, Terminated
<1>3. \A w : InIdle(w) => w \in Range(idle)
  BY <1>1, Ranges DEF InIdle, TypeOK
<1>4. \A w \in Live' : w \in Live /\ InPool(w)'
  BY <1>1, <1>2, <1>3 DEF SizeInv, InPool, Carried, Carries
<1> QED
  BY <1>1, <1>4, StaysBounded

LEMMA StillSize ==
  ASSUME SizeInv, UNCHANGED <<pool, idle, busy, lease, thread>>
  PROVE  SizeInv'
<1>1. \A w \in Live' : w \in Live /\ InPool(w)'
  BY DEF Live, InPool, InIdle, Carried, Carries, SizeInv
<1> QED
  BY <1>1, StaysBounded

LEMMA StepSize ==
  ASSUME PoolInv, SizeInv, [Next]_vars
  PROVE  SizeInv'
<1>1. CASE UNCHANGED vars
  BY <1>1, StillSize DEF vars, poolVars
<1>2. ASSUME NEW p \in Proc, Exit(p) PROVE SizeInv'
  BY <1>2, StillSize DEF Exit, poolVars
<1>3. ASSUME NEW r \in Release, ReleaseEnd(r) PROVE SizeInv'
  BY <1>3, StillSize DEF ReleaseEnd, poolVars
<1>4. ASSUME NEW c \in Lease, WarmEnd(c) PROVE SizeInv'
  BY <1>4, PoolLeaseSize DEF WarmEnd, PoolInv
<1>5. ASSUME NEW r \in Release, NEW p \in Proc, NEW w \in Worker, ReleaseBegin(r, p, w) PROVE SizeInv'
  <2>1. <<w>> \in Seq(Worker) /\ GiveBack(<<w>>) /\ thread' = thread /\ pool' = pool
    BY <1>5 DEF ReleaseBegin
  <2> QED
    BY <2>1, GivenBackSize
<1>6. CASE Next
  BY <1>2, <1>3, <1>4, <1>5, <1>6, LeaseBeginSize, WarmPushSize, AddSize, TrackSize,
     ForceExitSize, ReapSize, ShutdownSize DEF Next, Continue
<1> QED
  BY <1>1, <1>6

(* INV-2 as far as it is true: leases that pass the test of the size        *)
(* together exceed max, or min if that is larger, but by less than there   *)
(* are leases in progress at once, for any number of processes and workers *)
(* and after any number of forced exits, double releases and reaps.         *)
THEOREM SizeStaysBounded == Spec => []SizeBounded
<1>1. Init => SizeInv
  <2> SUFFICES ASSUME Init PROVE SizeInv
    OBVIOUS
  <2>1. Live = {} /\ Cardinality(Live) = 0
    BY FS_EmptySet DEF Init, Live
  <2>2. SizeBounded
    BY <2>1, LiveFinite
  <2> QED
    BY <2>1, <2>2 DEF SizeInv
<1>2. PoolInv /\ SizeInv /\ [Next]_vars => SizeInv'
  BY StepSize
<1>3. SizeInv => SizeBounded
  BY DEF SizeInv
<1> QED
  BY <1>1, <1>2, <1>3, PoolInvariant, PTL DEF Spec
=============================================================================
