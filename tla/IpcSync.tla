------------------------------ MODULE IpcSync -------------------------------
(***************************************************************************)
(* AtomicMutex, AtomicCondVar and AtomicSemaphore of hal/ipc.ts: three     *)
(* words of a SharedArrayBuffer, read and written with Atomics by threads  *)
(* that really run in parallel.  One Atomics operation is one action; what *)
(* a call does between two of them is its own and is part of one of them.  *)
(*                                                                         *)
(* A word has a list of the threads asleep on it, first come first served, *)
(* as Atomics.wait() and Atomics.notify() keep it.                         *)
(*                                                                         *)
(* The objects are made before the threads use them: a constructor stores  *)
(* to its word, so one that runs later is not modelled.                    *)
(***************************************************************************)
EXTENDS Integers, Sequences, FiniteSets

CONSTANTS
  Thread,   \* workers and the main thread
  Main,     \* those that Atomics.wait() refuses
  NoThread, \* owner of a mutex that nobody holds
  Initial,  \* count the semaphore is made with
  Spins,    \* attempts of lock() before it sleeps
  MaxSeq,   \* bound: calls of signal() and broadcast()
  MaxCount  \* bound: the count of the semaphore

ASSUME IpcAssumption ==
  /\ IsFiniteSet(Thread) /\ Main \subseteq Thread /\ NoThread \notin Thread
  /\ Initial \in Nat /\ Spins \in Nat /\ MaxSeq \in Nat /\ MaxCount \in Nat

VARIABLES
  lockWord, \* 0: unlocked; 1: locked
  seqWord,  \* sequence number of the condition variable
  semWord,  \* count of the semaphore
  asleep,   \* the threads that sleep on each word
  pc,       \* what each thread does next
  spins,    \* local of lock()
  timed,    \* does the call in progress have a timeout?
  seen,     \* locals seq of wait() and current of the semaphore's loops
  holding,  \* threads whose last lock() returned
  owed      \* history: who waited when a signal() stored, until one of them goes on

sleepers == <<asleep, pc, spins, timed>>
vars == <<lockWord, seqWord, semWord, sleepers, seen, holding, owed>>

Word == {"lock", "seq", "sem"}

(* At the Atomics operation it is named for; idle: in no call.             *)
Location ==
  {"idle", "lock", "lockWait", "lockAsleep", "unlockNotify",
   "waitStore", "waitNotify", "waitWait", "waitAsleep", "signalNotify", "broadcastNotify",
   "load", "decrement", "semWait", "semAsleep", "tryLoad", "tryDecrement", "postNotify"}

TypeOK ==
  /\ lockWord \in {0, 1} /\ seqWord \in Nat /\ semWord \in Nat
  /\ asleep \in [Word -> Seq(Thread)]
  /\ pc \in [Thread -> Location]
  /\ spins \in [Thread -> 0..Spins]
  /\ timed \in [Thread -> BOOLEAN]
  /\ seen \in [Thread -> Nat]
  /\ holding \subseteq Thread
  /\ owed \in [Thread -> SUBSET Thread]

Init ==
  /\ lockWord = 0 /\ seqWord = 0 /\ semWord = Initial
  /\ asleep = [w \in Word |-> <<>>]
  /\ pc = [t \in Thread |-> "idle"]
  /\ spins = [t \in Thread |-> 0]
  /\ timed = [t \in Thread |-> FALSE]
  /\ seen = [t \in Thread |-> 0]
  /\ holding = {}
  /\ owed = [t \in Thread |-> {}]

-----------------------------------------------------------------------------
(* Steps of a thread                                                       *)

Goto(t, l) == pc' = [pc EXCEPT ![t] = l]

(* A call returns or throws; its locals are gone.                          *)
Done(t) ==
  /\ Goto(t, "idle")
  /\ spins' = [spins EXCEPT ![t] = 0]
  /\ timed' = [timed EXCEPT ![t] = FALSE]

(* Atomics.wait() with the value it found: the thread sleeps, unless it is *)
(* one that may not.                                                       *)
Sleep(t, w, l) ==
  /\ t \notin Main
  /\ asleep' = [asleep EXCEPT ![w] = Append(@, t)]
  /\ Goto(t, l)
  /\ UNCHANGED <<spins, timed>>

(* Where a thread goes on that slept on w: round its loop, or from wait()  *)
(* into the lock() that follows, which has no timeout.                     *)
Resumed(w) == IF w = "sem" THEN "load" ELSE "lock"

(* Atomics.notify() by t, which returns after it or goes on at l.          *)
Notify(t, w, woken, rest, l) ==
  /\ asleep' = [asleep EXCEPT ![w] = rest]
  /\ pc' = [u \in Thread |-> IF u \in woken THEN Resumed(w) ELSE IF u = t THEN l ELSE pc[u]]
  /\ spins' = [u \in Thread |-> IF u \in woken THEN 0 ELSE spins[u]]
  /\ timed' = [u \in Thread |-> IF u \in woken /\ w = "seq" THEN FALSE ELSE timed[u]]

NotifyAll(t, w, l) == Notify(t, w, {asleep[w][i] : i \in DOMAIN asleep[w]}, <<>>, l)

NotifyOne(t, w, l) ==
  IF asleep[w] = <<>> THEN Notify(t, w, {}, <<>>, l)
  ELSE Notify(t, w, {Head(asleep[w])}, Tail(asleep[w]), l)

(* It stops waiting for a notify() when its time is up.                    *)
Leave(t, w) ==
  \E i \in DOMAIN asleep[w] :
    /\ asleep[w][i] = t
    /\ asleep' = [asleep EXCEPT ![w] = SubSeq(@, 1, i - 1) \o SubSeq(@, i + 1, Len(@))]

(* What lock() starts with.                                                *)
Locking(t, limit) ==
  /\ Goto(t, "lock")
  /\ spins' = [spins EXCEPT ![t] = 0]
  /\ timed' = [timed EXCEPT ![t] = limit]

-----------------------------------------------------------------------------
(* AtomicMutex                                                             *)

(* lock() by a thread that does not hold the mutex: one that does would    *)
(* wait for itself.                                                        *)
Lock(t, limit) ==
  /\ pc[t] = "idle" /\ t \notin holding
  /\ Locking(t, limit)
  /\ UNCHANGED <<lockWord, seqWord, semWord, asleep, seen, holding>>

(* compareExchange(0, 1) that finds 0: lock() and CondVar.wait() return.   *)
Acquire(t) ==
  /\ pc[t] = "lock" /\ lockWord = 0
  /\ lockWord' = 1
  /\ holding' = holding \cup {t}
  /\ Done(t)
  /\ UNCHANGED <<seqWord, semWord, asleep, seen>>

(* One that finds 1: the time is up, or it spins, or it is to sleep.       *)
Busy(t) ==
  /\ pc[t] = "lock" /\ lockWord = 1
  /\ \/ timed[t] /\ Done(t)
     \/ /\ spins[t] < Spins
        /\ spins' = [spins EXCEPT ![t] = @ + 1]
        /\ UNCHANGED <<pc, timed>>
     \/ spins[t] = Spins /\ Goto(t, "lockWait") /\ UNCHANGED <<spins, timed>>
  /\ UNCHANGED <<lockWord, seqWord, semWord, asleep, seen, holding>>

LockWaitBlind(t) ==                  \* mutant: sleeps without comparing the word
  /\ pc[t] = "lockWait"
  /\ \/ Sleep(t, "lock", "lockAsleep")
     \/ t \in Main /\ Done(t) /\ UNCHANGED asleep
  /\ UNCHANGED <<lockWord, seqWord, semWord, seen, holding>>

(* Atomics.wait(1) of lock(), which the main thread leaves with an error.  *)
LockWait(t) ==
  /\ pc[t] = "lockWait"
  /\ \/ lockWord = 1 /\ Sleep(t, "lock", "lockAsleep")
     \/ lockWord # 1 /\ t \notin Main /\ Locking(t, timed[t]) /\ UNCHANGED asleep
     \/ t \in Main /\ Done(t) /\ UNCHANGED asleep
  /\ UNCHANGED <<lockWord, seqWord, semWord, seen, holding>>

TryLock(t) ==
  /\ pc[t] = "idle" /\ t \notin holding /\ lockWord = 0
  /\ lockWord' = 1
  /\ holding' = holding \cup {t}
  /\ UNCHANGED <<seqWord, semWord, sleepers, seen>>

(* store(0) of unlock() by a thread that holds the mutex, and notify(1).   *)
Unlock(t) ==
  /\ pc[t] = "idle" /\ t \in holding
  /\ lockWord' = 0
  /\ holding' = holding \ {t}
  /\ Goto(t, "unlockNotify")
  /\ UNCHANGED <<seqWord, semWord, asleep, spins, timed, seen>>

UnlockSilently(t) ==                 \* mutant: nobody is woken
  /\ pc[t] = "unlockNotify"
  /\ Notify(t, "lock", {}, asleep["lock"], "idle")
  /\ UNCHANGED <<lockWord, seqWord, semWord, seen, holding>>

UnlockNotify(t) ==
  /\ pc[t] = "unlockNotify"
  /\ NotifyOne(t, "lock", "idle")
  /\ UNCHANGED <<lockWord, seqWord, semWord, seen, holding>>

(* A sleep with a timeout ends: lock() throws, timedwait() locks.          *)
TimeOut(t) ==
  /\ timed[t]
  /\ \/ pc[t] = "lockAsleep" /\ Leave(t, "lock") /\ Done(t)
     \/ pc[t] = "waitAsleep" /\ Leave(t, "seq") /\ Locking(t, FALSE)
  /\ UNCHANGED <<lockWord, seqWord, semWord, seen, holding>>

-----------------------------------------------------------------------------
(* AtomicCondVar                                                           *)

(* wait() and timedwait() by a thread that holds the mutex.                *)
Wait(t, limit) ==
  /\ pc[t] = "idle" /\ t \in holding
  /\ seen' = [seen EXCEPT ![t] = seqWord]
  /\ timed' = [timed EXCEPT ![t] = limit]
  /\ Goto(t, "waitStore")
  /\ UNCHANGED <<lockWord, seqWord, semWord, asleep, spins, holding>>

(* The unlock() in it.                                                     *)
WaitStore(t) ==
  /\ pc[t] = "waitStore"
  /\ lockWord' = 0
  /\ holding' = holding \ {t}
  /\ Goto(t, "waitNotify")
  /\ UNCHANGED <<seqWord, semWord, asleep, spins, timed, seen>>

WaitNotify(t) ==
  /\ pc[t] = "waitNotify"
  /\ NotifyOne(t, "lock", "waitWait")
  /\ UNCHANGED <<lockWord, seqWord, semWord, seen, holding>>

WaitWaitLate(t) ==                   \* mutant: the sequence number is read after unlock()
  /\ pc[t] = "waitWait"
  /\ \/ Sleep(t, "seq", "waitAsleep")
     \/ t \in Main /\ Locking(t, FALSE) /\ UNCHANGED asleep
  /\ seen' = [seen EXCEPT ![t] = 0]
  /\ UNCHANGED <<lockWord, seqWord, semWord, holding>>

WaitWaitReturns(t) ==                \* mutant: lock() only after a sleep
  \/ /\ pc[t] = "waitWait" /\ seqWord = seen[t]
     /\ Sleep(t, "seq", "waitAsleep")
     /\ seen' = [seen EXCEPT ![t] = 0]
     /\ UNCHANGED <<lockWord, seqWord, semWord, holding>>
  \/ /\ pc[t] = "waitWait" /\ seqWord # seen[t]
     /\ Done(t) /\ holding' = holding \cup {t}
     /\ UNCHANGED <<lockWord, seqWord, semWord, asleep, seen>>

(* Atomics.wait(seq); finally { mutex.lock() }, on the main thread too.    *)
WaitWait(t) ==
  /\ pc[t] = "waitWait"
  /\ \/ seqWord = seen[t] /\ Sleep(t, "seq", "waitAsleep")
     \/ (seqWord # seen[t] \/ t \in Main) /\ Locking(t, FALSE) /\ UNCHANGED asleep
  /\ seen' = [seen EXCEPT ![t] = 0]
  /\ UNCHANGED <<lockWord, seqWord, semWord, holding>>

(* add(1) of signal() and broadcast().                                     *)
Add(t, l) ==
  /\ pc[t] = "idle" /\ seqWord < MaxSeq
  /\ seqWord' = seqWord + 1
  /\ Goto(t, l)
  /\ UNCHANGED <<lockWord, semWord, asleep, spins, timed, seen, holding>>

SignalNotify(t) ==
  /\ pc[t] = "signalNotify"
  /\ NotifyOne(t, "seq", "idle")
  /\ UNCHANGED <<lockWord, seqWord, semWord, seen, holding>>

BroadcastNotify(t) ==
  /\ pc[t] = "broadcastNotify"
  /\ NotifyAll(t, "seq", "idle")
  /\ UNCHANGED <<lockWord, seqWord, semWord, seen, holding>>

-----------------------------------------------------------------------------
(* AtomicSemaphore                                                         *)

SemCall(t, l) ==
  /\ pc[t] = "idle"
  /\ Goto(t, l)
  /\ UNCHANGED <<lockWord, seqWord, semWord, asleep, spins, timed, seen, holding>>

(* load() of wait() and of trywait(), which gives up when there is none.   *)
Load(t) ==
  /\ seen' = [seen EXCEPT ![t] = semWord]
  /\ \/ pc[t] = "load" /\ Goto(t, IF semWord > 0 THEN "decrement" ELSE "semWait")
     \/ pc[t] = "tryLoad" /\ Goto(t, IF semWord > 0 THEN "tryDecrement" ELSE "idle")
  /\ UNCHANGED <<lockWord, seqWord, semWord, asleep, spins, timed, holding>>

DecrementBlind(t) ==                 \* mutant: store for compareExchange
  /\ pc[t] \in {"decrement", "tryDecrement"}
  /\ semWord' = seen[t] - 1
  /\ seen' = [seen EXCEPT ![t] = 0]
  /\ Goto(t, "idle")
  /\ UNCHANGED <<lockWord, seqWord, asleep, spins, timed, holding>>

(* compareExchange(current, current - 1): done, or round the loop.         *)
Decrement(t) ==
  /\ pc[t] \in {"decrement", "tryDecrement"} /\ semWord = seen[t]
  /\ semWord' = seen[t] - 1
  /\ seen' = [seen EXCEPT ![t] = 0]
  /\ Goto(t, "idle")
  /\ UNCHANGED <<lockWord, seqWord, asleep, spins, timed, holding>>

Contended(t) ==
  /\ semWord # seen[t]
  /\ \/ pc[t] = "decrement" /\ Goto(t, "load")
     \/ pc[t] = "tryDecrement" /\ Goto(t, "tryLoad")
  /\ seen' = [seen EXCEPT ![t] = 0]
  /\ UNCHANGED <<lockWord, seqWord, semWord, asleep, spins, timed, holding>>

(* Atomics.wait(0).                                                        *)
SemWait(t) ==
  /\ pc[t] = "semWait"
  /\ \/ semWord = 0 /\ Sleep(t, "sem", "semAsleep")
     \/ /\ Goto(t, IF t \in Main THEN "idle" ELSE "load")
        /\ semWord # 0 \/ t \in Main
        /\ UNCHANGED <<asleep, spins, timed>>
  /\ UNCHANGED <<lockWord, seqWord, semWord, seen, holding>>

(* add(1) and notify(1) of post().                                         *)
Post(t) ==
  /\ pc[t] = "idle" /\ semWord < MaxCount
  /\ semWord' = semWord + 1
  /\ Goto(t, "postNotify")
  /\ UNCHANGED <<lockWord, seqWord, asleep, spins, timed, seen, holding>>

PostNotify(t) ==
  /\ pc[t] = "postNotify"
  /\ NotifyOne(t, "sem", "idle")
  /\ UNCHANGED <<lockWord, seqWord, semWord, seen, holding>>

-----------------------------------------------------------------------------
(* Who waits for the condition variable: from the moment wait() gives the  *)
(* mutex up until it goes on to lock().                                    *)
Waiters == {t \in Thread : pc[t] \in {"waitNotify", "waitWait", "waitAsleep"}}

(* signal() owes a wake-up to those who wait when it adds 1.               *)
Owe ==
  owed' = [s \in Thread |->
    IF pc[s] = "idle" /\ pc'[s] = "signalNotify" THEN Waiters
    ELSE IF owed[s] \subseteq Waiters' THEN owed[s] ELSE {}]

(* What a caller may begin; a mutex call of a thread is its own choice.    *)
Call(t) ==
  \/ \E limit \in BOOLEAN : Lock(t, limit) \/ Wait(t, limit)
  \/ TryLock(t) \/ Unlock(t)
  \/ Add(t, "signalNotify") \/ Add(t, "broadcastNotify")
  \/ SemCall(t, "load") \/ SemCall(t, "tryLoad") \/ Post(t)

(* The next step of a call that has begun and does not sleep.              *)
LockStep(t) == Acquire(t) \/ Busy(t) \/ LockWait(t) \/ UnlockNotify(t) \/ WaitNotify(t)

Continue(t) ==
  \/ LockStep(t) \/ WaitStore(t) \/ WaitWait(t) \/ SignalNotify(t) \/ BroadcastNotify(t)
  \/ Load(t) \/ Decrement(t) \/ Contended(t) \/ SemWait(t) \/ PostNotify(t)

Next ==
  /\ \E t \in Thread : Call(t) \/ Continue(t) \/ TimeOut(t)
  /\ Owe

(* The operating system runs a thread that is inside lock() or unlock().   *)
(* No caller has to begin a call, and no timeout has to end.               *)
Fairness == \A t \in Thread : WF_vars(LockStep(t) /\ Owe)

Spec == Init /\ [][Next]_vars /\ Fairness

-----------------------------------------------------------------------------
(* Safety.                                                                 *)

(* compareExchange lets one thread in at a time, and the word says so: no  *)
(* other store of 0 comes between a lock() that returned and its unlock(), *)
(* whatever wait(), timeouts and trylock() do around it.                   *)
Exclusive ==
  /\ \A t, u \in holding : t = u
  /\ holding # {} <=> lockWord = 1

(* A free mutex does not leave sleepers behind: the store is followed by a *)
(* notify, and who is woken or came in between tries before it sleeps or   *)
(* times out.                                                              *)
FreeLockIsOffered ==
  lockWord = 0 /\ asleep["lock"] # <<>> =>
    \E t \in Thread : pc[t] \in {"lock", "unlockNotify", "waitNotify"}

(* A signal() that somebody waits for ends one of these waits at least: if *)
(* its notify wakes none of them, one has yet to call Atomics.wait() and   *)
(* will not sleep.  It is not lost between unlock() and Atomics.wait(),    *)
(* and no thread that begins to wait after it takes it from those before.  *)
SignalDelivered ==
  \A t \in Thread : owed[t] # {} =>
    \/ pc[t] = "signalNotify"
    \/ \E u \in owed[t] : pc[u] \in {"waitNotify", "waitWait"} /\ seen[u] # seqWord

(* Every unit of a semaphore that threads sleep for has a thread that will *)
(* try to take it or a notify that will wake one.                          *)
UnitsAreOffered ==
  asleep["sem"] # <<>> =>
    semWord <= Cardinality({t \in Thread : pc[t] \in {"load", "decrement", "postNotify"}})

(* No wake-up is lost, of the mutex or of the semaphore.                   *)
NobodyIsForgotten == FreeLockIsOffered /\ UnitsAreOffered

Owner == IF holding = {} THEN NoThread ELSE CHOOSE t \in holding : TRUE

Promise == INSTANCE Synchronized WITH owner <- Owner, waiting <- Waiters, count <- semWord

(* The words and threads do what the interfaces promise.  In particular    *)
(* nobody gets the mutex before it is released, a thread waits from the    *)
(* step that gives its mutex up, and a count taken twice or below zero is  *)
(* no step of theirs.                                                      *)
ImplementsPromise == Promise!Spec

-----------------------------------------------------------------------------
(* Liveness, under Fairness.                                               *)

(* A mutex that is free while threads sleep for it is taken again, or they *)
(* gave up.                                                                *)
FreeLockIsTaken ==
  lockWord = 0 /\ asleep["lock"] # <<>> ~> lockWord = 1 \/ asleep["lock"] = <<>>
=============================================================================
