---------------------------- MODULE Synchronized ----------------------------
(***************************************************************************)
(* What Mutex, CondVar and Semaphore of hal/ipc.ts promise their callers:  *)
(* one owner at a time, a wait() that gives the mutex up and starts to     *)
(* wait in one step, and a count that goes down only when it is positive.  *)
(***************************************************************************)
EXTENDS Naturals

CONSTANTS
  Thread,  \* workers and the main thread
  NoThread, \* owner of a mutex that nobody holds
  Initial  \* count a semaphore is made with

VARIABLES
  owner,   \* who holds the mutex
  waiting, \* who waits for the condition variable
  count    \* of the semaphore

vars == <<owner, waiting, count>>

Init == owner = NoThread /\ waiting = {} /\ count = Initial

Acquire(t) ==
  /\ owner = NoThread /\ t \notin waiting
  /\ owner' = t
  /\ UNCHANGED <<waiting, count>>

Release(t) ==
  /\ owner = t
  /\ owner' = NoThread
  /\ UNCHANGED <<waiting, count>>

(* CondVar.wait(): there is no moment at which the mutex is free and a     *)
(* signal goes past the caller.                                            *)
Wait(t) ==
  /\ owner = t
  /\ owner' = NoThread
  /\ waiting' = waiting \cup {t}
  /\ UNCHANGED count

(* By a signal, a broadcast or a timeout.                                  *)
Wake(some) ==
  /\ waiting' = waiting \ some
  /\ UNCHANGED <<owner, count>>

Down ==
  /\ count > 0
  /\ count' = count - 1
  /\ UNCHANGED <<owner, waiting>>

Up ==
  /\ count' = count + 1
  /\ UNCHANGED <<owner, waiting>>

Next ==
  \/ \E t \in Thread : Acquire(t) \/ Release(t) \/ Wait(t)
  \/ \E some \in SUBSET waiting : Wake(some)
  \/ Down \/ Up

Spec == Init /\ [][Next]_vars
=============================================================================
