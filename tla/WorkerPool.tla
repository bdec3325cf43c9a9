----------------------------- MODULE WorkerPool -----------------------------
(***************************************************************************)
(* A pool of workers and the kernel's record of who leases them: lease(),  *)
(* release(), warmup(), reap() and shutdown() of WorkerPool, the lazily    *)
(* made pool of PoolManager, leaseWorker(), workerRelease() and            *)
(* releaseProcessWorkers().                                                *)
(*                                                                         *)
(* None of these waits for anything but a worker that is handed over, yet  *)
(* each await lets other calls in: the gateway starts all the requests of  *)
(* a chunk before it continues any of them.  What runs between two awaits  *)
(* is one action.  Timers run when no call can go on.                      *)
(*                                                                         *)
(* What is loaded into a leased worker and sent to it is left out, and so  *)
(* are leases that begin after Kernel.shutdown(), which make a new pool.   *)
(***************************************************************************)
EXTENDS SequencesExt

CONSTANTS
  Proc,       \* processes
  Worker,     \* bound: workers, each started once
  NoWorker,   \* what a call holds that has no worker yet
  Lease,      \* bound: calls of leaseWorker() in progress
  Release,    \* bound: calls of workerRelease() in progress
  MinWorkers, \* PoolConfig.min
  MaxWorkers, \* PoolConfig.max
  MaxDoubled  \* bound: workers that are given back twice, once each

ASSUME PoolAssumption ==
  /\ IsFiniteSet(Proc) /\ IsFiniteSet(Worker)
  /\ IsFiniteSet(Lease) /\ IsFiniteSet(Release)
  /\ NoWorker \notin Worker
  /\ MinWorkers \in Nat /\ MaxWorkers \in Nat \ {0} /\ MaxDoubled \in Nat

VARIABLES
  pool,      \* none: not leased from yet; up; shutdown
  idle,      \* pool.idle
  busy,      \* pool.busy
  waiters,   \* pool.waiters, the calls that will be resolved
  thread,    \* none: not started; live; terminated
  lease,     \* what each call of leaseWorker() is doing, for whom, with which worker
  release,   \* each call of workerRelease() that has given its worker back
  leased,    \* Kernel.leasedWorkers; an empty map is as good as none
  ended,     \* running; exited: by exit(); killed: by forceExit()
  doubled    \* history: workers that were given back twice

poolVars == <<idle, busy, waiters, lease>>
vars == <<pool, poolVars, thread, release, leased, ended, doubled>>

(* idle: no such call; warming: in warmup(), its worker is being started;  *)
(* warm: after it; adding: a worker is on its way to lease(); leased: it   *)
(* is busy and not recorded.                                               *)
LeaseState == {"idle", "warming", "warm", "waiting", "adding", "leased"}

LeaseCall == [st : LeaseState, proc : Proc, worker : Worker \cup {NoWorker}]
ReleaseCall == [st : {"idle"}] \cup [st : {"releasing"}, proc : Proc, worker : Worker, gone : BOOLEAN]

NoCall == [st |-> "idle"]
In(st, p, w) == [st |-> st, proc |-> p, worker |-> w]

TypeOK ==
  /\ pool \in {"none", "up", "shutdown"}
  /\ idle \in Seq(Worker) /\ busy \in SUBSET Worker
  /\ waiters \in Seq(Lease)
  /\ thread \in [Worker -> {"none", "live", "terminated"}]
  /\ lease \in [Lease -> LeaseCall \cup {NoCall}]
  /\ release \in [Release -> ReleaseCall]
  /\ leased \in [Proc -> SUBSET Worker]
  /\ ended \in [Proc -> {"running", "exited", "killed"}]
  /\ doubled \in SUBSET Worker

Init ==
  /\ pool = "none" /\ idle = <<>> /\ busy = {} /\ waiters = <<>>
  /\ thread = [w \in Worker |-> "none"]
  /\ lease = [c \in Lease |-> NoCall]
  /\ release = [r \in Release |-> NoCall]
  /\ leased = [p \in Proc |-> {}]
  /\ ended = [p \in Proc |-> "running"]
  /\ doubled = {}

-----------------------------------------------------------------------------
(* Helpers.                                                                *)

TotalIdle == Len(idle)              \* mutant: workers that are leased do not count
Total == Len(idle) + Cardinality(busy)

(* The calls of workerRelease() that hold worker w of process p.           *)
Releasing(p, w) ==
  {r \in Release : release[r].st = "releasing" /\ release[r].proc = p /\ release[r].worker = w}

(* Calls of workerRelease() keep the map they found when it is dropped.    *)
Gone(P) ==
  [r \in Release |-> IF release[r].st = "releasing" /\ release[r].proc \in P
                     THEN [release[r] EXCEPT !.gone = TRUE] ELSE release[r]]

(* spawn(), up to its await: the worker is nobody's yet.                   *)
Starts(c, st, p, w) ==
  /\ thread[w] = "none"
  /\ thread' = [thread EXCEPT ![w] = "live"]
  /\ lease' = [lease EXCEPT ![c] = In(st, p, w)]

GiveBackIdle(s) ==                  \* mutant: waiters are not served
  /\ busy' = busy \ Range(s)
  /\ idle' = idle \o s
  /\ UNCHANGED <<waiters, lease>>
GiveBackTwice(s) ==                 \* mutant: no return after a waiter was served
  /\ busy' = busy \ Range(s)
  /\ waiters' = SubSeq(waiters, 2, Len(waiters))
  /\ idle' = idle \o s
  /\ lease' = [c \in Lease |-> IF waiters # <<>> /\ s # <<>> /\ Head(waiters) = c
                              THEN In("adding", lease[c].proc, s[1]) ELSE lease[c]]
(* The workers of s are given back one after the other, to the waiters     *)
(* first.                                                                  *)
GiveBack(s) ==
  LET served == IF Len(s) < Len(waiters) THEN Len(s) ELSE Len(waiters)
  IN  /\ busy' = busy \ Range(s)
      /\ waiters' = SubSeq(waiters, served + 1, Len(waiters))
      /\ idle' = idle \o SubSeq(s, served + 1, Len(s))
      /\ lease' = [c \in Lease |->
                     IF \E i \in 1..served : waiters[i] = c
                     THEN In("adding", lease[c].proc, s[CHOOSE i \in 1..served : waiters[i] = c])
                     ELSE lease[c]]

-----------------------------------------------------------------------------
(* Leasing.                                                                *)

(* WorkerPool.lease(), up to its await; there is none with an idle worker. *)
TakeIdle(c, p) ==
  /\ pool = "up" /\ idle # <<>>
  /\ LET w == Last(idle)
     IN  busy' = busy \cup {w} /\ lease' = [lease EXCEPT ![c] = In("leased", p, w)]
  /\ idle' = Front(idle)
  /\ UNCHANGED <<waiters, thread>>

TakeNew(c, p) ==
  /\ pool = "up" /\ idle = <<>> /\ Total < MaxWorkers
  /\ \E w \in Worker : Starts(c, "adding", p, w)
  /\ UNCHANGED <<idle, busy, waiters>>

Queue(c, p) ==
  /\ pool = "up" /\ idle = <<>> /\ Total >= MaxWorkers
  /\ waiters' = Append(waiters, c)
  /\ lease' = [lease EXCEPT ![c] = In("waiting", p, NoWorker)]
  /\ UNCHANGED <<idle, busy, thread>>

Refuse(c) ==
  /\ pool = "shutdown"
  /\ lease' = [lease EXCEPT ![c] = NoCall]
  /\ UNCHANGED <<idle, busy, waiters, thread>>

PoolLease(c, p) == TakeIdle(c, p) \/ TakeNew(c, p) \/ Queue(c, p) \/ Refuse(c)

(* The test of warmup()'s loop.                                            *)
Warm(c, p, total) ==
  \/ total < MinWorkers /\ \E w \in Worker : Starts(c, "warming", p, w)
  \/ /\ total >= MinWorkers
     /\ lease' = [lease EXCEPT ![c] = In("warm", p, NoWorker)] /\ UNCHANGED thread

Warming == \E c \in Lease : lease[c].st \in {"warming", "warm"}

(* leaseWorker() and PoolManager.lease(): the first call makes the pool    *)
(* and warms it up, a second one meanwhile does not wait for that.  (All   *)
(* of a chunk begin before any goes on, and a warmup awaits no event: it   *)
(* is over when the next chunk comes.)  An accepted syscall, and one of a  *)
(* gateway client, begins though its process has ended.                    *)
LeaseBegin(c, p) ==
  /\ lease[c].st = "idle"
  /\ Warming => busy = {} /\ idle = <<>>
  /\ \/ /\ pool = "none"
        /\ pool' = "up"
        /\ Warm(c, p, 0)
        /\ UNCHANGED <<idle, busy, waiters>>
     \/ pool = "up" /\ PoolLease(c, p) /\ UNCHANGED pool
  /\ UNCHANGED <<release, leased, ended, doubled>>

(* The worker of a warmup is started.                                      *)
WarmPush(c) ==
  /\ lease[c].st = "warming"
  /\ idle' = Append(idle, lease[c].worker)
  /\ Warm(c, lease[c].proc, Total + 1)
  /\ UNCHANGED <<pool, busy, waiters, release, leased, ended, doubled>>

WarmEnd(c) ==
  /\ lease[c].st = "warm"
  /\ PoolLease(c, lease[c].proc)
  /\ UNCHANGED <<pool, release, leased, ended, doubled>>

(* lease() goes on with a worker that was started or handed over.          *)
Add(c) ==
  /\ lease[c].st = "adding"
  /\ busy' = busy \cup {lease[c].worker}
  /\ lease' = [lease EXCEPT ![c].st = "leased"]
  /\ UNCHANGED <<pool, idle, waiters, thread, release, leased, ended, doubled>>

(* leaseWorker() goes on, whether its process lives or not.  A release     *)
(* that gave this worker back has fewer awaits and is over by now.         *)
Track(c) ==
  LET p == lease[c].proc
      w == lease[c].worker
  IN  /\ lease[c].st = "leased"
      /\ \A q \in Proc : Releasing(q, w) = {}
      /\ leased' = [leased EXCEPT ![p] = @ \cup {w}]
      /\ lease' = [lease EXCEPT ![c] = NoCall]
      /\ UNCHANGED <<pool, idle, busy, waiters, thread, release, ended, doubled>>

-----------------------------------------------------------------------------
(* Releasing.                                                              *)

(* Workers of S were given back before.                                    *)
GivenTwice(S) ==
  /\ S \cap doubled = {} /\ Cardinality(S \cup doubled) <= MaxDoubled
  /\ doubled' = doubled \cup S

ReleaseAny(r, p, w) ==              \* mutant: the worker is looked up in the pool
  /\ release[r].st = "idle" /\ w \in busy
  /\ GiveBack(<<w>>)
  /\ release' = [release EXCEPT ![r] =
                   [st |-> "releasing", proc |-> p, worker |-> w, gone |-> FALSE]]
  /\ GivenTwice({v \in {w} : Releasing(p, v) # {}})
  /\ UNCHANGED <<pool, thread, leased, ended>>
(* workerRelease(), up to its await: the worker is back in the pool.       *)
ReleaseBegin(r, p, w) ==
  /\ release[r].st = "idle" /\ w \in leased[p]
  /\ GiveBack(<<w>>)
  /\ release' = [release EXCEPT ![r] =
                   [st |-> "releasing", proc |-> p, worker |-> w, gone |-> FALSE]]
  /\ GivenTwice({v \in {w} : Releasing(p, v) # {}})
  /\ UNCHANGED <<pool, thread, leased, ended>>

(* The map that was found before the await forgets the worker; if that     *)
(* leaves it empty, the process's map is dropped, be it that one or a newer *)
(* one.  One that is gone may hold other workers still.                    *)
ReleaseEnd(r) ==
  LET p == release[r].proc
      left == leased[p] \ {release[r].worker}
      others == [release EXCEPT ![r] = NoCall]
  IN  /\ release[r].st = "releasing"
      /\ \/ /\ ~release[r].gone /\ left # {}
            /\ leased' = [leased EXCEPT ![p] = left] /\ release' = others
         \/ /\ ~release[r].gone => left = {}
            /\ leased' = [leased EXCEPT ![p] = {}]
            /\ release' = [Gone({p}) EXCEPT ![r] = NoCall]
         \/ release[r].gone /\ release' = others /\ UNCHANGED leased
      /\ UNCHANGED <<pool, poolVars, thread, ended, doubled>>

(* forceExit(): releaseProcessWorkers() gives back every worker of the     *)
(* process, those that are being released too, and drops its map.          *)
ForceExit(p) ==
  /\ ended[p] = "running"
  /\ ended' = [ended EXCEPT ![p] = "killed"]
  /\ \E s \in SetToSeqs(leased[p]) : GiveBack(s)
  /\ GivenTwice({w \in leased[p] : Releasing(p, w) # {}})
  /\ leased' = [leased EXCEPT ![p] = {}] /\ release' = Gone({p})
  /\ UNCHANGED <<pool, thread>>

(* exit() does not look at the leases.                                     *)
Exit(p) ==
  /\ ended[p] = "running"
  /\ ended' = [ended EXCEPT ![p] = "exited"]
  /\ UNCHANGED <<pool, poolVars, thread, release, leased, doubled>>

-----------------------------------------------------------------------------
(* The reaper and the shutdown.                                            *)

(* No call can go on.                                                      *)
Quiet ==
  /\ \A c \in Lease : lease[c].st \in {"idle", "waiting"}
  /\ \A r \in Release : release[r].st = "idle"

Terminated(S) == [w \in Worker |-> IF w \in S THEN "terminated" ELSE thread[w]]

(* reap(): the oldest workers go, as many as are old enough.               *)
Reap ==
  /\ Quiet /\ pool = "up" /\ Len(idle) > MinWorkers
  /\ \E n \in 1..(Len(idle) - MinWorkers) :
       /\ idle' = SubSeq(idle, n + 1, Len(idle))
       /\ thread' = Terminated({idle[i] : i \in 1..n})
  /\ UNCHANGED <<pool, busy, waiters, lease, release, leased, ended, doubled>>

(* shutdown() of the pool, and leasedWorkers.clear(); who waits for a      *)
(* worker is forgotten.                                                    *)
Shutdown ==
  /\ pool = "up" /\ pool' = "shutdown"
  /\ thread' = Terminated(busy \cup Range(idle))
  /\ idle' = <<>> /\ busy' = {} /\ waiters' = <<>>
  /\ leased' = [p \in Proc |-> {}] /\ release' = Gone(Proc)
  /\ UNCHANGED <<lease, ended, doubled>>

-----------------------------------------------------------------------------
Continue(c) == WarmPush(c) \/ WarmEnd(c) \/ Add(c) \/ Track(c)

Next ==
  \/ \E c \in Lease : Continue(c) \/ \E p \in Proc : LeaseBegin(c, p)
  \/ \E r \in Release : ReleaseEnd(r) \/ \E p \in Proc, w \in Worker : ReleaseBegin(r, p, w)
  \/ \E p \in Proc : ForceExit(p) \/ Exit(p)
  \/ Reap
  \/ Shutdown

Spec == Init /\ [][Next]_vars

-----------------------------------------------------------------------------
(* Properties.                                                             *)

(* The places a worker is in: positions of idle, the busy set, the hands   *)
(* of calls it is on its way to.                                           *)
Places(w) ==
  {<<"idle", i>> : i \in {j \in DOMAIN idle : idle[j] = w}}
    \cup {<<"busy", w>> : x \in {y \in busy : y = w}}
    \cup {<<"call", c>> : c \in {d \in Lease : lease[d].st \in {"warming", "adding"}
                                              /\ lease[d].worker = w}}

(* Who believes to lease w: processes that have it recorded and are not    *)
(* giving it back, and calls it is on its way to or was added for.         *)
Lessees(w) ==
  {<<"proc", p>> : p \in {q \in Proc : w \in leased[q] /\ Releasing(q, w) = {}}}
    \cup {<<"call", c>> : c \in {d \in Lease : lease[d].st \in {"adding", "leased"}
                                              /\ lease[d].worker = w}}

(* INV-1, INV-5: a live worker is in one place and a terminated one in none, *)
(* through warmups, hand-overs, forced exits and the reaper: none is lost    *)
(* and none under lease is terminated.  A worker that was given back twice  *)
(* is an exception, and no excuse for another one.                          *)
OnePlace ==
  pool = "up" => \A w \in Worker \ doubled :
    Cardinality(Places(w)) = IF thread[w] = "live" THEN 1 ELSE 0

(* INV-4: a worker has one lessee, and while it has one it is not there for  *)
(* others, with the exception again of those that were given back twice.    *)
OneLessee ==
  pool = "up" => \A w \in Worker \ doubled :
    /\ Cardinality(Lessees(w)) <= 1
    /\ Lessees(w) # {} =>
         w \in busy \/ \E c \in Lease : lease[c].st = "adding" /\ lease[c].worker = w

(* lease-worker.ts:15: every busy worker has a process, dead or alive, or a  *)
(* call that knows of it, as long as nobody gives a worker back twice: then *)
(* the map of a new lease can be dropped.                                   *)
Tracked ==
  pool = "up" /\ doubled = {} => \A w \in busy : Lessees(w) # {}

(* No waiter is forgotten: it is in the queue, some worker is still to come *)
(* back or on its way, and none is idle.                                    *)
WaitersAreOwed ==
  /\ waiters # <<>> =>
       /\ busy # {} \/ \E c \in Lease : lease[c].st = "adding"
       /\ idle = <<>>
  /\ pool = "up" => \A c \in Lease :
       lease[c].st = "waiting" => c \in Range(waiters)

(* INV-2 is broken by leases that pass its test together.  What is true:    *)
(* the workers alive are more than max, or min if that is larger, by less   *)
(* than the leases in progress at once, however long this goes on.          *)
SizeBounded ==
  Cardinality({w \in Worker : thread[w] = "live"})
    <= (IF MinWorkers < MaxWorkers THEN MaxWorkers ELSE MinWorkers) + Cardinality(Lease) - 1
=============================================================================
