---------------------------- MODULE ProcessProofs ----------------------------
(***************************************************************************)
(* Proofs about ProcessLifecycle, for every set of processes, every set of *)
(* wait() calls and every bound; and about Gateway, whose clients are the  *)
(* virtual processes among them, for any clients, ids, limits and bounds.  *)
(***************************************************************************)
EXTENDS ProcessLifecycle, Gateway, FiniteSetTheorems, SequenceTheorems,
        WellFoundedInduction, TLAPS

-----------------------------------------------------------------------------
(* Lemmas about the helpers.                                               *)

(* The pids init hands out are fresh and pairwise distinct.                *)
LEMMA AdoptionFacts ==
  ASSUME TypeOK, NEW p \in Proc, NEW f \in Adoptions(Orphans(p))
  PROVE  /\ Cardinality(Orphans(p)) \in Nat
         /\ Orphans(p) # {} => initProcess \in Proc
         /\ \A q \in Orphans(p) :
              /\ q \in Proc /\ f[q] \in Nat
              /\ nextPid[initProcess] <= f[q]
              /\ f[q] < nextPid[initProcess] + Cardinality(Orphans(p))
         /\ \A q, r \in Orphans(p) : f[q] = f[r] => q = r
<1>1. Orphans(p) \subseteq Proc
  BY DEF Orphans, TypeOK
<1>2. Cardinality(Orphans(p)) \in Nat
  BY <1>1, FS_Subset, FS_CardinalityType, ProcAssumption
<1>3. Orphans(p) # {} => initProcess \in Proc
  BY DEF Orphans, TypeOK, ProcOrNone
<1>4. CASE Orphans(p) = {}
  BY <1>2, <1>4
<1>5. CASE Orphans(p) # {}
  <2>1. nextPid[initProcess] \in Nat
    BY <1>3, <1>5 DEF TypeOK
  <2>2. f \in [Orphans(p) -> nextPid[initProcess] ..
                 (nextPid[initProcess] + Cardinality(Orphans(p)) - 1)]
    BY <1>5 DEF Adoptions
  <2>3. \A q, r \in Orphans(p) : f[q] = f[r] => q = r
    BY <1>5 DEF Adoptions
  <2>4. \A q \in Orphans(p) :
          f[q] \in nextPid[initProcess] ..
                     (nextPid[initProcess] + Cardinality(Orphans(p)) - 1)
    BY <2>2
  <2>5. \A q \in Orphans(p) :
          /\ f[q] \in Nat /\ nextPid[initProcess] <= f[q]
          /\ f[q] < nextPid[initProcess] + Cardinality(Orphans(p))
    BY <2>1, <2>4, <1>2
  <2> QED
    BY <1>1, <1>2, <1>3, <2>3, <2>5
<1> QED
  BY <1>4, <1>5

LEMMA EndedType ==
  ASSUME NEW st \in WaitState, NEW q \in ProcOrNone, NEW code \in Status
  PROVE  Ended(st, q, code) \in Wait
BY DEF Ended, Wait, ProcOrNone

LEMMA WaiterType ==
  ASSUME NEW c \in ProcOrNone, NEW pid \in Nat, NEW q \in Proc,
         NEW timed \in BOOLEAN
  PROVE  Waiter(c, pid, q, timed) \in Wait
BY DEF Waiter, Wait, WaitState, ExitCode, Status, ProcOrNone

LEMMA BeginType ==
  ASSUME TypeOK, NEW p \in Proc, Begin(p)
  PROVE  accepted' \in [Proc -> Nat]
<1>1. accepted[p] \in Nat /\ accepted[p] > 0
  BY DEF TypeOK, Begin
<1>2. accepted[p] - 1 \in Nat
  BY <1>1
<1> QED
  BY <1>2 DEF TypeOK, Begin

LEMMA ReparentAndNotifyType ==
  ASSUME TypeOK, NEW p \in Proc, NEW code \in ExitCode,
         ReparentAndNotify(p, code)
  PROVE  /\ parent' \in [Proc -> ProcOrNone]
         /\ children' \in [Proc -> SUBSET (Nat \X Proc)]
         /\ nextPid' \in [Proc -> Nat]
         /\ wait' \in [Waits -> Wait]
         /\ processes' \in SUBSET Proc
<1>1. PICK pidOf \in Adoptions(Orphans(p)) :
        /\ children' =
             [c \in Proc |->
                {e \in children[c] \cup
                       (IF c = initProcess THEN Adopted(p, pidOf) ELSE {}) :
                   ~ \E w \in Reapers(p) : wait[w].caller = c /\ wait[w].pid = e[1]}]
  BY DEF ReparentAndNotify
<1>2. parent' \in [Proc -> ProcOrNone]
  BY DEF ReparentAndNotify, TypeOK
<1>3. children' \in [Proc -> SUBSET (Nat \X Proc)]
  <2>1. Adopted(p, pidOf) \subseteq Nat \X Proc
    BY AdoptionFacts DEF Adopted
  <2>2. \A c \in Proc : children[c] \subseteq Nat \X Proc
    BY DEF TypeOK
  <2>3. \A c \in Proc :
          {e \in children[c] \cup
                 (IF c = initProcess THEN Adopted(p, pidOf) ELSE {}) :
             ~ \E w \in Reapers(p) : wait[w].caller = c /\ wait[w].pid = e[1]}
            \in SUBSET (Nat \X Proc)
    BY <2>1, <2>2
  <2> QED
    BY <1>1, <2>3
<1>4. nextPid' \in [Proc -> Nat]
  <2>1. Cardinality(Orphans(p)) \in Nat
    BY AdoptionFacts
  <2> QED
    BY <2>1 DEF ReparentAndNotify, TypeOK
<1>5. wait' \in [Waits -> Wait]
  BY EndedType DEF ReparentAndNotify, TypeOK, WaitState, ProcOrNone, Status
<1>6. processes' \in SUBSET Proc
  BY DEF ReparentAndNotify, TypeOK
<1> QED
  BY <1>2, <1>3, <1>4, <1>5, <1>6

LEMMA ForceExitType ==
  ASSUME TypeOK, NEW p \in Proc, NEW code \in ExitCode, ForceExit(p, code)
  PROVE  /\ state' \in [Proc -> ProcessState]
         /\ exitCode' \in [Proc -> ExitCode]
         /\ liveWorkers' \in SUBSET Proc
         /\ parent' \in [Proc -> ProcOrNone]
         /\ children' \in [Proc -> SUBSET (Nat \X Proc)]
         /\ nextPid' \in [Proc -> Nat]
         /\ wait' \in [Waits -> Wait]
         /\ processes' \in SUBSET Proc
<1>1. CASE state[p] = "zombie"
  BY <1>1 DEF ForceExit, TypeOK
<1>2. CASE state[p] # "zombie"
  <2>1. ReparentAndNotify(p, code)
    BY <1>2 DEF ForceExit
  <2>2. /\ state' \in [Proc -> ProcessState]
        /\ exitCode' \in [Proc -> ExitCode]
        /\ liveWorkers' \in SUBSET Proc
    BY <1>2 DEF ForceExit, TerminateWorker, TypeOK, ProcessState
  <2> QED
    BY <2>1, <2>2, ReparentAndNotifyType
<1> QED
  BY <1>1, <1>2

-----------------------------------------------------------------------------
(* Every variable keeps its type, whatever the syscalls, timers, workers,  *)
(* gateway connections and the shutdown sequence do.                       *)
THEOREM TypeCorrect == Spec => []TypeOK
<1>1. Init => TypeOK
  <2> SUFFICES ASSUME Init PROVE TypeOK
    OBVIOUS
  <2>1. wait \in [Waits -> Wait]
    BY EndedType DEF Init, WaitState, ProcOrNone, ExitCode, Status
  <2>2. state \in [Proc -> ProcessState] /\ exitCode \in [Proc -> ExitCode]
    BY DEF Init, ProcessState, ExitCode
  <2> QED
    BY <2>1, <2>2, ProcAssumption DEF Init, TypeOK, ProcOrNone, Phase
<1>2. TypeOK /\ [Next]_vars => TypeOK'
  <2> SUFFICES ASSUME TypeOK, [Next]_vars PROVE TypeOK'
    OBVIOUS
  <2> USE DEF TypeOK
  <2>1. ASSUME NEW p \in Proc, Accept(p) PROVE TypeOK'
    BY <2>1 DEF Accept
  <2>2. ASSUME NEW p \in Proc, OtherSyscall(p) PROVE TypeOK'
    BY <2>2, BeginType DEF OtherSyscall
  <2>3. ASSUME NEW p \in Proc, NEW q \in Proc, Spawn(p, q) PROVE TypeOK'
    BY <2>3, BeginType DEF Spawn, ProcessState, ProcOrNone
  <2>4. ASSUME NEW p \in Proc, NEW q \in Proc, ProcCreate(p, q) PROVE TypeOK'
    BY <2>4, BeginType DEF ProcCreate, CreateVirtualProcess, Register, AssignPid,
       ProcessState, ProcOrNone
  <2>5. ASSUME NEW p \in Proc, ExitBegin(p) PROVE TypeOK'
    BY <2>5, BeginType DEF ExitBegin, ProcessState, ExitCode
  <2>6. ASSUME NEW p \in Proc, ExitEnd(p) PROVE TypeOK'
    <3>1. exitCode[p] \in ExitCode
      OBVIOUS
    <3>2. ReparentAndNotify(p, exitCode[p])
      BY <2>6 DEF ExitEnd
    <3>3. /\ parent' \in [Proc -> ProcOrNone]
          /\ children' \in [Proc -> SUBSET (Nat \X Proc)]
          /\ nextPid' \in [Proc -> Nat]
          /\ wait' \in [Waits -> Wait]
          /\ processes' \in SUBSET Proc
      BY <3>1, <3>2, ReparentAndNotifyType
    <3>4. exiting' \in [Proc -> Nat]
      <4>1. exiting[p] \in Nat /\ exiting[p] > 0 /\ exiting[p] - 1 \in Nat
        BY <2>6 DEF ExitEnd
      <4> QED
        BY <2>6, <4>1 DEF ExitEnd
    <3>5. liveWorkers' \in SUBSET Proc
      BY <2>6 DEF ExitEnd, TerminateWorker
    <3> QED
      BY <2>6, <3>3, <3>4, <3>5 DEF ExitEnd
  <2>7. ASSUME NEW p \in Proc, NEW e \in children[p], KillNow(p, e) PROVE TypeOK'
    <3>1. e[2] \in Proc /\ "killed" \in ExitCode
      BY DEF ExitCode
    <3>2. ASSUME ForceExit(e[2], "killed") PROVE
          /\ state' \in [Proc -> ProcessState]
          /\ exitCode' \in [Proc -> ExitCode]
          /\ liveWorkers' \in SUBSET Proc
          /\ parent' \in [Proc -> ProcOrNone]
          /\ children' \in [Proc -> SUBSET (Nat \X Proc)]
          /\ nextPid' \in [Proc -> Nat]
          /\ wait' \in [Waits -> Wait]
          /\ processes' \in SUBSET Proc
      BY <3>1, <3>2, ForceExitType
    <3> QED
      BY <2>7, <3>2, BeginType DEF KillNow
  <2>8. ASSUME NEW p \in Proc, NEW e \in children[p], KillTerm(p, e) PROVE TypeOK'
    <3>1. e[2] \in Proc
      OBVIOUS
    <3> QED
      BY <2>8, <3>1, BeginType DEF KillTerm
  <2>9. ASSUME NEW p \in Proc, NEW e \in children[p], 
             NEW w \in Waits, WaitZombie(p, e, w) PROVE TypeOK'
    BY <2>9, EndedType, BeginType DEF WaitZombie, WaitState, ProcOrNone, Status
  <2>10. ASSUME NEW p \in Proc, NEW e \in children[p], NEW w \in Waits, 
              NEW timed \in BOOLEAN, WaitRegister(p, e, w, timed) PROVE TypeOK'
    BY <2>10, WaiterType, BeginType DEF WaitRegister, ProcOrNone
  <2>11. ASSUME NEW p \in Proc, SpawnDetached(p) PROVE TypeOK'
    BY <2>11 DEF SpawnDetached, ProcessState, ProcOrNone
  <2>12. ASSUME NEW p \in Proc, SpawnReady(p) PROVE TypeOK'
    BY <2>12 DEF SpawnReady, Register, AssignPid, ProcessState, ProcOrNone
  <2>13. ASSUME NEW p \in Proc, SpawnFails(p) PROVE TypeOK'
    BY <2>13 DEF SpawnFails, ProcessState
  <2>14. ASSUME NEW p \in Proc, GatewayConnect(p) PROVE TypeOK'
    <3>1. initProcess \in Proc
      BY <2>14 DEF GatewayConnect, ProcOrNone
    <3> QED
      BY <2>14, <3>1 DEF GatewayConnect, CreateVirtualProcess, Register,
         AssignPid, ProcessState, ProcOrNone
  <2>15. ASSUME NEW p \in Proc, GatewayDisconnect(p) PROVE TypeOK'
    <3>1. p \in Proc /\ "exited" \in ExitCode
      BY DEF ExitCode
    <3>2. ASSUME ForceExit(p, "exited") PROVE
          /\ state' \in [Proc -> ProcessState]
          /\ exitCode' \in [Proc -> ExitCode]
          /\ liveWorkers' \in SUBSET Proc
          /\ parent' \in [Proc -> ProcOrNone]
          /\ children' \in [Proc -> SUBSET (Nat \X Proc)]
          /\ nextPid' \in [Proc -> Nat]
          /\ wait' \in [Waits -> Wait]
          /\ processes' \in SUBSET Proc
      BY <3>1, <3>2, ForceExitType
    <3> QED
      BY <2>15, <3>2 DEF GatewayDisconnect
  <2>16. ASSUME NEW p \in Proc, GraceExpires(p) PROVE TypeOK'
    <3>1. p \in Proc /\ "termed" \in ExitCode
      BY DEF ExitCode
    <3>2. ASSUME ForceExit(p, "termed") PROVE
          /\ state' \in [Proc -> ProcessState]
          /\ exitCode' \in [Proc -> ExitCode]
          /\ liveWorkers' \in SUBSET Proc
          /\ parent' \in [Proc -> ProcOrNone]
          /\ children' \in [Proc -> SUBSET (Nat \X Proc)]
          /\ nextPid' \in [Proc -> Nat]
          /\ wait' \in [Waits -> Wait]
          /\ processes' \in SUBSET Proc
      BY <3>1, <3>2, ForceExitType
    <3> QED
      BY <2>16, <3>2 DEF GraceExpires
  <2>17. ASSUME NEW p \in Proc, ExternalKill(p) PROVE TypeOK'
    <3>1. p \in Proc /\ "killed" \in ExitCode
      BY DEF ExitCode
    <3>2. ASSUME ForceExit(p, "killed") PROVE
          /\ state' \in [Proc -> ProcessState]
          /\ exitCode' \in [Proc -> ExitCode]
          /\ liveWorkers' \in SUBSET Proc
          /\ parent' \in [Proc -> ProcOrNone]
          /\ children' \in [Proc -> SUBSET (Nat \X Proc)]
          /\ nextPid' \in [Proc -> Nat]
          /\ wait' \in [Waits -> Wait]
          /\ processes' \in SUBSET Proc
      BY <3>1, <3>2, ForceExitType
    <3> QED
      BY <2>17, <3>2 DEF ExternalKill
  <2>18. ASSUME NEW p \in Proc, WorkerError(p) PROVE TypeOK'
    <3>1. p \in Proc /\ "crashed" \in ExitCode
      BY DEF ExitCode
    <3>2. ASSUME ForceExit(p, "crashed") PROVE
          /\ state' \in [Proc -> ProcessState]
          /\ exitCode' \in [Proc -> ExitCode]
          /\ liveWorkers' \in SUBSET Proc
          /\ parent' \in [Proc -> ProcOrNone]
          /\ children' \in [Proc -> SUBSET (Nat \X Proc)]
          /\ nextPid' \in [Proc -> Nat]
          /\ wait' \in [Waits -> Wait]
          /\ processes' \in SUBSET Proc
      BY <3>1, <3>2, ForceExitType
    <3> QED
      BY <2>18, <3>2 DEF WorkerError
  <2>19. ASSUME NEW p \in Proc, NEW w \in Waits, ExternalWait(p, w) PROVE TypeOK'
    <3>1. /\ Ended("done", p, "unknown") \in Wait
          /\ Ended("done", p, exitCode[p]) \in Wait
          /\ Waiter(NoProc, 0, p, FALSE) \in Wait
      BY EndedType, WaiterType DEF WaitState, ProcOrNone, Status, TypeOK
    <3> QED
      BY <2>19, <3>1 DEF ExternalWait
  <2>20. ASSUME NEW w \in Waits, WaitTimeout(w) PROVE TypeOK'
    BY <2>20, EndedType DEF WaitTimeout, WaitState, ProcOrNone, ExitCode, Status
  <2>21. ASSUME ShutdownBegin PROVE TypeOK'
    BY <2>21 DEF ShutdownBegin, Phase
  <2>22. ASSUME ShutdownKillStart PROVE TypeOK'
    BY <2>22 DEF ShutdownKillStart, Phase
  <2>23. ASSUME NEW p \in Proc, ShutdownKill(p) PROVE TypeOK'
    <3>1. p \in Proc /\ "killed" \in ExitCode
      BY DEF ExitCode
    <3>2. ASSUME ForceExit(p, "killed") PROVE
          /\ state' \in [Proc -> ProcessState]
          /\ exitCode' \in [Proc -> ExitCode]
          /\ liveWorkers' \in SUBSET Proc
          /\ parent' \in [Proc -> ProcOrNone]
          /\ children' \in [Proc -> SUBSET (Nat \X Proc)]
          /\ nextPid' \in [Proc -> Nat]
          /\ wait' \in [Waits -> Wait]
          /\ processes' \in SUBSET Proc
      BY <3>1, <3>2, ForceExitType
    <3> QED
      BY <2>23, <3>2 DEF ShutdownKill
  <2>24. ASSUME ShutdownKillEnd PROVE TypeOK'
    BY <2>24 DEF ShutdownKillEnd, Phase
  <2>25. ASSUME ShutdownClear PROVE TypeOK'
    BY <2>25, EndedType DEF ShutdownClear, Phase, WaitState, ExitCode,
       Status, ProcOrNone
  <2>26. CASE UNCHANGED vars
    BY <2>26 DEF vars
  <2> QED
    BY <2>1, <2>2, <2>3, <2>4, <2>5, <2>6, <2>7, <2>8, <2>9, <2>10, <2>11, <2>12, <2>13,
       <2>14, <2>15, <2>16, <2>17, <2>18, <2>19, <2>20, <2>21, <2>22, <2>23, <2>24, <2>25, <2>26
       DEF Next, ProcStep, KernelStep
<1> QED
  BY <1>1, <1>2, PTL DEF Spec

-----------------------------------------------------------------------------
(* What exit() and forceExit() leave of the rest of the table.             *)
LEMMA ReparentAndNotifyFacts ==
  ASSUME TypeOK, NEW p \in Proc, NEW code \in ExitCode,
         ReparentAndNotify(p, code)
  PROVE  /\ \A q \in Proc : parent'[q] # parent[q]
              => parent'[q] = initProcess /\ initProcess \in Proc
         /\ processes' \subseteq processes
         /\ \A w \in Waits : Pending(w)' =>
              Pending(w) /\ wait'[w] = wait[w] /\ wait[w].target # p
<1>1. \A q \in Proc : parent'[q] # parent[q]
        => parent'[q] = initProcess /\ initProcess \in Proc
  BY DEF ReparentAndNotify, Orphans, TypeOK, ProcOrNone
<1>2. processes' \subseteq processes
  BY DEF ReparentAndNotify
<1>3. ASSUME NEW w \in Waits, Pending(w)'
      PROVE  Pending(w) /\ wait'[w] = wait[w] /\ wait[w].target # p
  <2>1. wait'[w] = IF w \in Notified(p) THEN Ended("done", p, code) ELSE wait[w]
    BY DEF ReparentAndNotify
  <2>2. w \notin Notified(p)
    BY <1>3, <2>1 DEF Pending, Ended
  <2> QED
    BY <1>3, <2>1, <2>2 DEF Notified, Pending
<1> QED
  BY <1>1, <1>2, <1>3

(* The shared end of exit() and forceExit() keeps the table consistent.    *)
LEMMA FinishConsistent ==
  ASSUME TypeOK, TableConsistent, NEW p \in Proc, NEW code \in ExitCode,
         ReparentAndNotify(p, code), code # "none",
         state' = [state EXCEPT ![p] = "zombie"],
         exitCode' = [exitCode EXCEPT ![p] = code],
         Started(p), liveWorkers' \subseteq liveWorkers,
         clients' \subseteq clients,
         UNCHANGED <<virtual, initProcess>>,
         \A q \in Proc : accepted'[q] > 0 => accepted[q] > 0,
         \A q \in Proc : exiting'[q] > 0 => exiting[q] > 0 \/ q = p
  PROVE  TableConsistent'
<1>1. \A q \in Proc : Started(q) => Started(q)'
  BY DEF Started, TypeOK
<1>2. \A q \in Proc : state'[q] # "absent" => state[q] # "absent"
  BY DEF Started, TypeOK
<1>3. \A q \in Proc : \/ parent'[q] = parent[q]
                      \/ parent'[q] = initProcess /\ initProcess \in Proc
  BY ReparentAndNotifyFacts
<1>4. ASSUME NEW q \in Proc
      PROVE  /\ (\/ q \in processes' \cup clients' \cup liveWorkers'
                 \/ q = initProcess' \/ virtual'[q] \/ accepted'[q] > 0)
                  => Started(q)'
             /\ state'[q] # "absent" /\ parent'[q] # NoProc
                  => Started(parent[q])'
             /\ exiting'[q] > 0 => state'[q] = "zombie"
             /\ state'[q] = "zombie" => exitCode'[q] # "none"
  <2>1. (\/ q \in processes' \cup clients' \cup liveWorkers'
         \/ q = initProcess' \/ virtual'[q] \/ accepted'[q] > 0)
           => Started(q)'
    BY <1>1, ReparentAndNotifyFacts DEF TableConsistent
  <2>2. ASSUME state'[q] # "absent", parent'[q] # NoProc
        PROVE  Started(parent[q])'
    <3>1. CASE parent'[q] = initProcess /\ initProcess \in Proc
      <4>1. Started(initProcess)
        BY <3>1 DEF TableConsistent
      <4> QED
        BY <1>1, <3>1, <4>1 DEF Started
    <3>2. CASE parent'[q] = parent[q]
      <4>1. parent[q] \in Proc
        BY <2>2, <3>2 DEF TypeOK, ProcOrNone
      <4>2. Started(parent[q])
        BY <1>2, <2>2, <3>2 DEF TableConsistent
      <4> QED
        BY <1>1, <3>2, <4>1, <4>2 DEF Started
    <3> QED
      BY <1>3, <3>1, <3>2
  <2>3. exiting'[q] > 0 => state'[q] = "zombie"
    BY DEF TableConsistent, TypeOK
  <2>4. state'[q] = "zombie" => exitCode'[q] # "none"
    BY DEF TableConsistent, TypeOK
  <2> QED
    BY <2>1, <2>2, <2>3, <2>4
<1>5. ASSUME NEW w \in Waits, Pending(w)'
      PROVE  wait'[w].target \in Proc /\ Started(wait[w].target)'
  <2>1. Pending(w) /\ wait'[w] = wait[w]
    BY <1>5, ReparentAndNotifyFacts
  <2>2. wait[w].target \in Proc /\ Started(wait[w].target)
    BY <2>1 DEF TableConsistent
  <2> QED
    BY <1>1, <2>1, <2>2 DEF Started
<1> QED
  BY <1>4, <1>5 DEF TableConsistent

LEMMA ForceExitConsistent ==
  ASSUME TypeOK, TableConsistent, NEW p \in Proc, Started(p),
         NEW code \in ExitCode \ {"none"}, ForceExit(p, code),
         clients' \subseteq clients,
         UNCHANGED <<virtual, initProcess, exiting>>,
         \A q \in Proc : accepted'[q] > 0 => accepted[q] > 0
  PROVE  TableConsistent'
<1>1. CASE state[p] = "zombie"
  <2>1. UNCHANGED <<state, exitCode, parent, processes, liveWorkers, wait>>
    BY <1>1 DEF ForceExit
  <2>2. \A q \in Proc : Started(q)' <=> Started(q)
    BY <2>1 DEF Started
  <2>3. \A w \in Waits : Pending(w)' <=> Pending(w)
    BY <2>1 DEF Pending
  <2>4. \A q \in Proc : parent[q] = NoProc \/ parent[q] \in Proc
    BY DEF TypeOK, ProcOrNone
  <2> QED
    BY <1>1, <2>1, <2>2, <2>3, <2>4 DEF TableConsistent
<1>2. CASE state[p] # "zombie"
  <2>1. /\ state' = [state EXCEPT ![p] = "zombie"]
        /\ exitCode' = [exitCode EXCEPT ![p] = code]
        /\ ReparentAndNotify(p, code)
        /\ liveWorkers' \subseteq liveWorkers
    BY <1>2 DEF ForceExit, TerminateWorker
  <2> QED
    BY <2>1, FinishConsistent
<1> QED
  BY <1>1, <1>2

(* A syscall that begins had been accepted, from a started process.        *)
LEMMA BeginFacts ==
  ASSUME TypeOK, TableConsistent, NEW p \in Proc, Begin(p)
  PROVE  Started(p) /\ \A q \in Proc : accepted'[q] > 0 => accepted[q] > 0
<1>1. accepted[p] > 0 /\ accepted[p] \in Nat
  BY DEF Begin, TypeOK
<1>2. Started(p)
  BY <1>1 DEF TableConsistent
<1>3. accepted' = [accepted EXCEPT ![p] = @ - 1]
  BY DEF Begin
<1>4. \A q \in Proc : accepted'[q] > 0 => accepted[q] > 0
  BY <1>1, <1>3 DEF TypeOK
<1> QED
  BY <1>2, <1>4

(* A step that creates no process, changes no state and no parent, and only *)
(* adds calls and waiters of and for started processes.                    *)
LEMMA QuietConsistent ==
  ASSUME TypeOK, TableConsistent,
         UNCHANGED <<state, exitCode, parent, virtual, liveWorkers, clients,
                     exiting>>,
         processes' \subseteq processes,
         initProcess' = initProcess \/ initProcess' = NoProc,
         \A q \in Proc : accepted'[q] > 0 => accepted[q] > 0 \/ Started(q),
         \A w \in Waits : Pending(w)' =>
           \/ wait'[w].target \in processes
           \/ Pending(w) /\ wait'[w] = wait[w]
  PROVE  TableConsistent'
<1>1. \A q : Started(q)' <=> Started(q)
  BY DEF Started
<1>2. ASSUME NEW w \in Waits, Pending(w)'
      PROVE  wait'[w].target \in Proc /\ Started(wait'[w].target)
  BY <1>2 DEF TableConsistent, TypeOK
<1>3. \A q \in Proc :
        (\/ q \in processes' \cup clients' \cup liveWorkers'
         \/ q = initProcess' \/ virtual'[q] \/ accepted'[q] > 0) => Started(q)
  BY ProcAssumption DEF TableConsistent
<1>4. \A q \in Proc : state[q] # "absent" /\ parent[q] # NoProc
        => Started(parent[q])
  BY DEF TableConsistent
<1>5. \A q \in Proc : /\ exiting'[q] > 0 => state'[q] = "zombie"
                      /\ state'[q] = "zombie" => exitCode'[q] # "none"
  BY DEF TableConsistent
<1> QED
  BY <1>1, <1>2, <1>3, <1>4, <1>5 DEF TableConsistent

(* A step that creates, runs or drops the process q, which nothing refers  *)
(* to before.                                                              *)
LEMMA CreationConsistent ==
  ASSUME TypeOK, TableConsistent, NEW q \in Proc, ~Started(q),
         NEW new \in {"absent", "starting", "running"},
         state' = [state EXCEPT ![q] = new],
         NEW par \in ProcOrNone, par # NoProc => Started(par),
         parent' = [parent EXCEPT ![q] = par],
         UNCHANGED <<exitCode, wait, exiting>>,
         processes' \cup clients' \cup liveWorkers' \subseteq
           processes \cup clients \cup liveWorkers
             \cup (IF new = "running" THEN {q} ELSE {}),
         \/ initProcess' = initProcess
         \/ initProcess' = q /\ new = "running",
         \A r \in Proc : virtual'[r] =>
           virtual[r] \/ (r = q /\ new = "running"),
         \A r \in Proc : accepted'[r] > 0 => accepted[r] > 0
  PROVE  TableConsistent'
<1>1. \A r \in Proc : state'[r] = IF r = q THEN new ELSE state[r]
  BY DEF TypeOK
<1>2. \A r \in Proc : parent'[r] = IF r = q THEN par ELSE parent[r]
  BY DEF TypeOK
<1>3. \A r \in Proc : Started(r) => Started(r)'
  BY <1>1 DEF Started
<1>4. new = "running" => Started(q)'
  BY <1>1 DEF Started
<1>5. ASSUME NEW r \in Proc,
             \/ r \in processes' \cup clients' \cup liveWorkers'
             \/ r = initProcess' \/ virtual'[r] \/ accepted'[r] > 0
      PROVE  Started(r)'
  BY <1>3, <1>4, <1>5 DEF TableConsistent
<1>6. ASSUME NEW r \in Proc, state'[r] # "absent", parent'[r] # NoProc
      PROVE  Started(parent[r])'
  <2>1. CASE r = q
    BY <1>2, <1>3, <1>6, <2>1 DEF Started, ProcOrNone
  <2>2. CASE r # q
    <3>1. parent[r] \in Proc /\ Started(parent[r])
      BY <1>1, <1>2, <1>6, <2>2 DEF TableConsistent, TypeOK, ProcOrNone
    <3>2. Started(parent[r]) => state'[parent[r]] \in {"running", "zombie"}
      BY <1>3, <3>1 DEF Started
    <3> QED
      BY <1>2, <2>2, <3>1, <3>2 DEF Started
  <2> QED
    BY <2>1, <2>2
<1>7. ASSUME NEW r \in Proc
      PROVE  /\ exiting'[r] > 0 => state'[r] = "zombie"
             /\ state'[r] = "zombie" => exitCode'[r] # "none"
  BY <1>1 DEF TableConsistent, Started
<1>8. ASSUME NEW w \in Waits, Pending(w)'
      PROVE  wait'[w].target \in Proc /\ Started(wait[w].target)'
  <2>1. Pending(w) /\ wait[w].target \in Proc /\ Started(wait[w].target)
    BY <1>8 DEF Pending, TableConsistent
  <2> QED
    BY <1>3, <2>1 DEF Started
<1> QED
  BY <1>5, <1>6, <1>7, <1>8 DEF TableConsistent

(* Only started processes are referred to: by the table, connections,      *)
(* threads, parents, waiters or calls in flight; exit() runs on zombies    *)
(* only, and every zombie has an exit code.                                *)
THEOREM TableStaysConsistent == Spec => []TableConsistent
<1>1. Init => TableConsistent
  <2> SUFFICES ASSUME Init PROVE TableConsistent
    OBVIOUS
  <2>1. \A w \in Waits : ~Pending(w)
    BY DEF Init, Pending, Ended
  <2>2. \A p \in Proc : Started(p) <=> p = Kernel
    BY DEF Init, Started
  <2>3. \A p \in Proc : ~(accepted[p] > 0) /\ ~(exiting[p] > 0)
    BY DEF Init
  <2> QED
    BY <2>1, <2>2, <2>3, ProcAssumption DEF Init, TableConsistent
<1>2. TypeOK /\ TableConsistent /\ [Next]_vars => TableConsistent'
  <2> SUFFICES ASSUME TypeOK, TableConsistent, [Next]_vars
               PROVE  TableConsistent'
    OBVIOUS
  <2>1. ASSUME NEW p \in Proc, Accept(p) PROVE TableConsistent'
    <3>1. \A q \in Proc : accepted'[q] > 0 => accepted[q] > 0 \/ Started(q)
      BY <2>1 DEF Accept, TypeOK, TableConsistent
    <3> QED
      BY <2>1, <3>1, QuietConsistent DEF Accept, Pending
  <2>2. ASSUME NEW p \in Proc, OtherSyscall(p) PROVE TableConsistent'
    BY <2>2, BeginFacts, QuietConsistent DEF OtherSyscall, Pending
  <2>3. ASSUME NEW p \in Proc, NEW q \in Proc, Spawn(p, q)
        PROVE  TableConsistent'
    <3>1. ~Started(q) /\ "starting" \in {"absent", "starting", "running"}
      BY <2>3 DEF Spawn, Started
    <3>2. p \in ProcOrNone
      BY DEF ProcOrNone
    <3> QED
      BY <2>3, <3>1, <3>2, BeginFacts, CreationConsistent DEF Spawn
  <2>4. ASSUME NEW p \in Proc, NEW q \in Proc, ProcCreate(p, q)
        PROVE  TableConsistent'
    <3>1. ~Started(q) /\ "running" \in {"absent", "starting", "running"}
      BY <2>4 DEF ProcCreate, CreateVirtualProcess, Started
    <3>2. p \in ProcOrNone
      BY DEF ProcOrNone
    <3>3. \A r \in Proc : virtual'[r] => virtual[r] \/ r = q
      BY <2>4 DEF ProcCreate, CreateVirtualProcess, TypeOK
    <3> QED
      BY <2>4, <3>1, <3>2, <3>3, BeginFacts, CreationConsistent
         DEF ProcCreate, CreateVirtualProcess, Register
  <2>5. ASSUME NEW p \in Proc, ExitBegin(p) PROVE TableConsistent'
    <3>1. Started(p) /\ \A q \in Proc : accepted'[q] > 0 => accepted[q] > 0
      BY <2>5, BeginFacts DEF ExitBegin
    <3>2. /\ state' = [state EXCEPT ![p] = "zombie"]
          /\ exitCode' = [exitCode EXCEPT ![p] = "exited"]
          /\ exiting' = [exiting EXCEPT ![p] = @ + 1]
          /\ UNCHANGED <<parent, virtual, processes, initProcess, liveWorkers,
                         wait, clients>>
      BY <2>5 DEF ExitBegin
    <3>3. \A q \in Proc : Started(q) => Started(q)'
      BY <3>2 DEF Started, TypeOK
    <3>4. \A q \in Proc : state'[q] # "absent" => state[q] # "absent"
      BY <3>1, <3>2 DEF Started, TypeOK
    <3>5. \A q \in Proc : exiting'[q] > 0 => exiting[q] > 0 \/ q = p
      BY <3>2 DEF TypeOK
    <3>6. ASSUME NEW q \in Proc
          PROVE  /\ exiting'[q] > 0 => state'[q] = "zombie"
                 /\ state'[q] = "zombie" => exitCode'[q] # "none"
      BY <3>2, <3>5 DEF TableConsistent, TypeOK
    <3>7. ASSUME NEW q \in Proc, state'[q] # "absent", parent'[q] # NoProc
          PROVE  Started(parent[q])'
      <4>1. parent[q] \in Proc /\ Started(parent[q])
        BY <3>2, <3>4, <3>7 DEF TableConsistent, TypeOK, ProcOrNone
      <4>2. state'[parent[q]] \in {"running", "zombie"}
        BY <3>3, <4>1 DEF Started
      <4> QED
        BY <3>2, <4>2 DEF Started
    <3>8. ASSUME NEW w \in Waits, Pending(w)'
          PROVE  wait'[w].target \in Proc /\ Started(wait[w].target)'
      <4>1. wait[w].target \in Proc /\ Started(wait[w].target)
        BY <3>2, <3>8 DEF Pending, TableConsistent
      <4> QED
        BY <3>2, <3>3, <4>1 DEF Started
    <3>9. ASSUME NEW q \in Proc,
                 \/ q \in processes' \cup clients' \cup liveWorkers'
                 \/ q = initProcess' \/ virtual'[q] \/ accepted'[q] > 0
          PROVE  Started(q)'
      BY <3>1, <3>2, <3>3, <3>9 DEF TableConsistent
    <3> QED
      BY <3>6, <3>7, <3>8, <3>9 DEF TableConsistent
  <2>6. ASSUME NEW p \in Proc, ExitEnd(p) PROVE TableConsistent'
    <3>1. state[p] = "zombie" /\ Started(p) /\ exitCode[p] # "none"
      BY <2>6 DEF ExitEnd, TableConsistent, Started
    <3>2. /\ state' = [state EXCEPT ![p] = "zombie"]
          /\ exitCode' = [exitCode EXCEPT ![p] = exitCode[p]]
      BY <2>6, <3>1 DEF ExitEnd, TypeOK
    <3>3. exitCode[p] \in ExitCode
      BY DEF TypeOK
    <3>4. \A q \in Proc : exiting'[q] > 0 => exiting[q] > 0 \/ q = p
      BY <2>6 DEF ExitEnd, TypeOK
    <3>5. /\ ReparentAndNotify(p, exitCode[p])
          /\ liveWorkers' \subseteq liveWorkers
          /\ UNCHANGED <<virtual, initProcess, accepted, clients>>
      BY <2>6 DEF ExitEnd, TerminateWorker
    <3> QED
      BY <3>1, <3>2, <3>3, <3>4, <3>5, FinishConsistent
  <2>7. ASSUME NEW p \in Proc, NEW e \in children[p], KillNow(p, e)
        PROVE  TableConsistent'
    <3>1. e[2] \in Proc /\ Started(e[2])
      BY <2>7 DEF KillNow, MaySignal, TableConsistent, TypeOK
    <3> QED
      BY <2>7, <3>1, BeginFacts, ForceExitConsistent DEF KillNow, ExitCode
  <2>8. ASSUME NEW p \in Proc, NEW e \in children[p], KillTerm(p, e)
        PROVE  TableConsistent'
    BY <2>8, BeginFacts, QuietConsistent DEF KillTerm, Pending
  <2>9. ASSUME NEW p \in Proc, NEW e \in children[p], NEW w \in Waits,
               WaitZombie(p, e, w)
        PROVE  TableConsistent'
    <3>1. \A v \in Waits : Pending(v)' => Pending(v) /\ wait'[v] = wait[v]
      BY <2>9 DEF WaitZombie, Pending, Ended, TypeOK
    <3> QED
      BY <2>9, <3>1, BeginFacts, QuietConsistent DEF WaitZombie
  <2>10. ASSUME NEW p \in Proc, NEW e \in children[p], NEW w \in Waits,
                NEW timed \in BOOLEAN, WaitRegister(p, e, w, timed)
         PROVE  TableConsistent'
    <3>1. \A v \in Waits : Pending(v)' =>
            \/ wait'[v].target \in processes
            \/ Pending(v) /\ wait'[v] = wait[v]
      BY <2>10 DEF WaitRegister, MayWait, Pending, Waiter, TypeOK
    <3> QED
      BY <2>10, <3>1, BeginFacts, QuietConsistent DEF WaitRegister
  <2>11. ASSUME NEW q \in Proc, SpawnDetached(q) PROVE TableConsistent'
    <3>1. ~Started(q) /\ "starting" \in {"absent", "starting", "running"}
      BY <2>11 DEF SpawnDetached, Started
    <3>2. NoProc \in ProcOrNone
      BY DEF ProcOrNone
    <3> QED
      BY <2>11, <3>1, <3>2, CreationConsistent DEF SpawnDetached
  <2>12. ASSUME NEW q \in Proc, SpawnReady(q) PROVE TableConsistent'
    <3>1. ~Started(q) /\ "running" \in {"absent", "starting", "running"}
      BY <2>12 DEF SpawnReady, Started
    <3>2. /\ parent[q] \in ProcOrNone /\ parent' = [parent EXCEPT ![q] = parent[q]]
          /\ parent[q] # NoProc => Started(parent[q])
      BY <2>12 DEF SpawnReady, TypeOK, TableConsistent
    <3> QED
      BY <2>12, <3>1, <3>2, CreationConsistent DEF SpawnReady, Register
  <2>13. ASSUME NEW q \in Proc, SpawnFails(q) PROVE TableConsistent'
    <3>1. ~Started(q) /\ "absent" \in {"absent", "starting", "running"}
      BY <2>13 DEF SpawnFails, Started
    <3>2. /\ parent[q] \in ProcOrNone /\ parent' = [parent EXCEPT ![q] = parent[q]]
          /\ parent[q] # NoProc => Started(parent[q])
      BY <2>13 DEF SpawnFails, TypeOK, TableConsistent
    <3> QED
      BY <2>13, <3>1, <3>2, CreationConsistent DEF SpawnFails
  <2>14. ASSUME NEW q \in Proc, GatewayConnect(q) PROVE TableConsistent'
    <3>1. ~Started(q) /\ "running" \in {"absent", "starting", "running"}
      BY <2>14 DEF GatewayConnect, CreateVirtualProcess, Started
    <3>2. initProcess \in Proc /\ initProcess \in ProcOrNone /\ Started(initProcess)
      BY <2>14 DEF GatewayConnect, TypeOK, TableConsistent, ProcOrNone
    <3>3. \A r \in Proc : virtual'[r] => virtual[r] \/ r = q
      BY <2>14 DEF GatewayConnect, CreateVirtualProcess, TypeOK
    <3> QED
      BY <2>14, <3>1, <3>2, <3>3, CreationConsistent
         DEF GatewayConnect, CreateVirtualProcess, Register
  <2>15. ASSUME NEW q \in Proc, GatewayDisconnect(q) PROVE TableConsistent'
    <3>1. Started(q) /\ clients' \subseteq clients
      BY <2>15 DEF GatewayDisconnect, TableConsistent
    <3> QED
      BY <2>15, <3>1, ForceExitConsistent DEF GatewayDisconnect, ExitCode
  <2>16. ASSUME NEW q \in Proc, GraceExpires(q) PROVE TableConsistent'
    <3>1. CASE state[q] = "running"
      BY <2>16, <3>1, ForceExitConsistent DEF GraceExpires, ExitCode, Started
    <3>2. CASE state[q] # "running"
      BY <2>16, <3>2, QuietConsistent DEF GraceExpires, Pending
    <3> QED
      BY <3>1, <3>2
  <2>17. ASSUME NEW q \in Proc, ExternalKill(q) PROVE TableConsistent'
    <3>1. Started(q)
      BY <2>17 DEF ExternalKill, TableConsistent
    <3>2. CASE ForceExit(q, "killed")
      BY <2>17, <3>1, <3>2, ForceExitConsistent DEF ExternalKill, ExitCode
    <3>3. CASE UNCHANGED <<state, exitCode, parent, children, nextPid,
                           processes, liveWorkers, wait>>
      BY <2>17, <3>3, QuietConsistent DEF ExternalKill, Pending
    <3> QED
      BY <2>17, <3>2, <3>3 DEF ExternalKill
  <2>18. ASSUME NEW q \in Proc, WorkerError(q) PROVE TableConsistent'
    <3>1. Started(q)
      BY <2>18 DEF WorkerError, TableConsistent
    <3> QED
      BY <2>18, <3>1, ForceExitConsistent DEF WorkerError, ExitCode
  <2>19. ASSUME NEW q \in Proc, NEW w \in Waits, ExternalWait(q, w)
         PROVE  TableConsistent'
    <3>1. \A v \in Waits : Pending(v)' =>
            \/ wait'[v].target \in processes
            \/ Pending(v) /\ wait'[v] = wait[v]
      <4>1. \A v \in Waits : v # w => wait'[v] = wait[v]
        BY <2>19 DEF ExternalWait, TypeOK
      <4>2. wait'[w].st = "done" \/ wait'[w] = Waiter(NoProc, 0, q, FALSE)
        BY <2>19 DEF ExternalWait, Ended, TypeOK
      <4>3. Pending(w)' => wait'[w].target \in processes
        BY <2>19, <4>2 DEF ExternalWait, Pending, Waiter, Ended, TypeOK
      <4> QED
        BY <4>1, <4>3 DEF Pending
    <3> QED
      BY <2>19, <3>1, QuietConsistent DEF ExternalWait
  <2>20. ASSUME NEW w \in Waits, WaitTimeout(w) PROVE TableConsistent'
    <3>1. \A v \in Waits : Pending(v)' => Pending(v) /\ wait'[v] = wait[v]
      BY <2>20 DEF WaitTimeout, Pending, Ended, TypeOK
    <3> QED
      BY <2>20, <3>1, QuietConsistent DEF WaitTimeout
  <2>21. CASE ShutdownBegin \/ ShutdownKillStart \/ ShutdownKillEnd
    BY <2>21, QuietConsistent
       DEF ShutdownBegin, ShutdownKillStart, ShutdownKillEnd, Pending
  <2>22. ASSUME NEW p \in Proc, ShutdownKill(p) PROVE TableConsistent'
    <3>1. Started(p)
      BY <2>22 DEF ShutdownKill, TableConsistent
    <3> QED
      BY <2>22, <3>1, ForceExitConsistent DEF ShutdownKill, ExitCode
  <2>23. CASE ShutdownClear
    <3>1. \A v \in Waits : Pending(v)' => Pending(v) /\ wait'[v] = wait[v]
      BY <2>23 DEF ShutdownClear, Pending, Ended, TypeOK
    <3> QED
      BY <2>23, <3>1, QuietConsistent DEF ShutdownClear
  <2>24. CASE UNCHANGED vars
    BY <2>24, QuietConsistent DEF vars, Pending
  <2> QED
    BY <2>1, <2>2, <2>3, <2>4, <2>5, <2>6, <2>7, <2>8, <2>9, <2>10, <2>11,
       <2>12, <2>13, <2>14, <2>15, <2>16, <2>17, <2>18, <2>19, <2>20, <2>21,
       <2>22, <2>23, <2>24 DEF Next, ProcStep, KernelStep
<1> QED
  BY <1>1, <1>2, TypeCorrect, PTL DEF Spec

-----------------------------------------------------------------------------
(* Pids.                                                                   *)

(* A waiter that a step leaves as it was.                                  *)
Kept(w) == Pending(w) /\ wait'[w] = wait[w]

(* A waiter registered with a pid of its caller, or by the host.           *)
Fresh(w) ==
  wait'[w].caller # NoProc =>
    /\ wait'[w].caller \in Proc
    /\ <<wait'[w].pid, wait'[w].target>> \in children[wait'[w].caller]

(* delete(pid) in the namespace of c.                                      *)
Reap(c, pid) ==
  /\ children' = [children EXCEPT ![c] = {x \in @ : x[1] # pid}]
  /\ UNCHANGED nextPid

(* What a step may do to the namespaces and to the waiters: add a waiter,  *)
(* hand out a pid, reap, or end a process.                                 *)
LEMMA NamespaceSteps ==
  ASSUME TypeOK, [Next]_vars
  PROVE  \/ /\ UNCHANGED <<children, nextPid>>
            /\ \A w \in Waits : Pending(w)' => Kept(w) \/ Fresh(w)
         \/ /\ UNCHANGED wait
            /\ \E p, q \in Proc : AssignPid(p, q) /\ ~Started(q)
         \/ /\ \E c \in Proc, pid \in Nat : Reap(c, pid)
            /\ \A w \in Waits : Pending(w)' => Kept(w)
         \/ \E p \in Proc, code \in ExitCode : ReparentAndNotify(p, code)
<1> DEFINE Same  == UNCHANGED <<children, nextPid, wait>>
           Goal  == \/ /\ UNCHANGED <<children, nextPid>>
                       /\ \A w \in Waits : Pending(w)' => Kept(w) \/ Fresh(w)
                    \/ /\ UNCHANGED wait
                       /\ \E p, q \in Proc : AssignPid(p, q) /\ ~Started(q)
                    \/ /\ \E c \in Proc, pid \in Nat : Reap(c, pid)
                       /\ \A w \in Waits : Pending(w)' => Kept(w)
                    \/ \E p \in Proc, code \in ExitCode :
                         ReparentAndNotify(p, code)
<1>1. Same => Goal
  BY DEF Pending, Kept
<1>2. ASSUME NEW p \in Proc, NEW code \in ExitCode, ForceExit(p, code)
      PROVE  Goal
  BY <1>1, <1>2 DEF ForceExit
<1>3. ASSUME NEW p \in Proc, NEW q \in Proc, Spawn(p, q) PROVE Goal
  BY <1>1, <1>3 DEF Spawn
<1>4. ASSUME NEW p \in Proc, NEW q \in Proc, ProcCreate(p, q) PROVE Goal
  BY <1>4 DEF ProcCreate, CreateVirtualProcess, Started
<1>5. ASSUME NEW p \in Proc, ExitEnd(p) PROVE Goal
  BY <1>5 DEF ExitEnd, TypeOK
<1>6. ASSUME NEW p \in Proc, NEW e \in children[p], KillNow(p, e) PROVE Goal
  <2>1. e[2] \in Proc /\ "killed" \in ExitCode
    BY DEF TypeOK, ExitCode
  <2> QED
    BY <1>2, <1>6, <2>1 DEF KillNow
<1>7. ASSUME NEW p \in Proc, NEW e \in children[p], NEW w \in Waits,
             WaitZombie(p, e, w)
      PROVE  Goal
  <2>1. e[1] \in Nat
    BY DEF TypeOK
  <2>2. Reap(p, e[1])
    BY <1>7 DEF WaitZombie, Reap
  <2>3. \A v \in Waits : Pending(v)' => Kept(v)
    BY <1>7 DEF WaitZombie, Pending, Kept, Ended, TypeOK
  <2> QED
    BY <2>1, <2>2, <2>3
<1>8. ASSUME NEW p \in Proc, NEW e \in children[p], NEW w \in Waits,
             NEW timed \in BOOLEAN, WaitRegister(p, e, w, timed)
      PROVE  Goal
  <2>1. e = <<e[1], e[2]>>
    BY DEF TypeOK
  <2>2. wait'[w] = Waiter(p, e[1], e[2], timed)
    BY <1>8 DEF WaitRegister, TypeOK
  <2>3. Fresh(w)
    BY <2>1, <2>2 DEF Fresh, Waiter
  <2>4. \A v \in Waits : v # w => wait'[v] = wait[v]
    BY <1>8 DEF WaitRegister, TypeOK
  <2> QED
    BY <1>8, <2>3, <2>4 DEF WaitRegister, Kept, Pending
<1>9. ASSUME NEW q \in Proc, SpawnReady(q) PROVE Goal
  <2>1. CASE parent[q] = NoProc
    BY <1>1, <1>9, <2>1 DEF SpawnReady
  <2>2. CASE parent[q] # NoProc
    BY <1>9, <2>2 DEF SpawnReady, TypeOK, ProcOrNone, Started
  <2> QED
    BY <2>1, <2>2
<1>10. ASSUME NEW q \in Proc, GatewayConnect(q) PROVE Goal
  BY <1>10 DEF GatewayConnect, CreateVirtualProcess, TypeOK, ProcOrNone,
     Started
<1>11. ASSUME NEW q \in Proc, NEW w \in Waits, ExternalWait(q, w) PROVE Goal
  <2>1. wait'[w].caller = NoProc
    BY <1>11 DEF ExternalWait, Ended, Waiter, TypeOK
  <2>2. Fresh(w)
    BY <2>1 DEF Fresh
  <2>3. \A v \in Waits : v # w => wait'[v] = wait[v]
    BY <1>11 DEF ExternalWait, TypeOK
  <2> QED
    BY <1>11, <2>2, <2>3 DEF ExternalWait, Kept, Pending
<1>12. ASSUME NEW w \in Waits, WaitTimeout(w) PROVE Goal
  <2>1. \A v \in Waits : Pending(v)' => Kept(v)
    BY <1>12 DEF WaitTimeout, Pending, Kept, Ended, TypeOK
  <2> QED
    BY <1>12, <2>1 DEF WaitTimeout
<1>13. ASSUME ShutdownClear PROVE Goal
  <2>1. \A v \in Waits : Pending(v)' => Kept(v)
    BY <1>13 DEF ShutdownClear, Pending, Kept, Ended, TypeOK
  <2> QED
    BY <1>13, <2>1 DEF ShutdownClear
<1>14. ASSUME NEW q \in Proc,
              \/ GraceExpires(q) \/ ExternalKill(q) \/ WorkerError(q)
              \/ GatewayDisconnect(q) \/ ShutdownKill(q)
       PROVE  Goal
  <2>1. \/ ForceExit(q, "termed") \/ ForceExit(q, "killed")
        \/ ForceExit(q, "crashed") \/ ForceExit(q, "exited")
        \/ Same
    BY <1>14 DEF GraceExpires, ExternalKill, WorkerError, GatewayDisconnect,
       ShutdownKill
  <2>2. {"termed", "killed", "crashed", "exited"} \subseteq ExitCode
    BY DEF ExitCode
  <2> HIDE DEF Same, Goal
  <2> QED
    BY <1>1, <1>2, <2>1, <2>2
<1>15. ASSUME NEW p \in Proc,
              \/ Accept(p) \/ OtherSyscall(p) \/ ExitBegin(p)
              \/ SpawnDetached(p) \/ SpawnFails(p)
              \/ \E e \in children[p] : KillTerm(p, e)
       PROVE  Goal
  BY <1>1, <1>15 DEF Accept, OtherSyscall, ExitBegin, SpawnDetached,
     SpawnFails, KillTerm
<1>16. ASSUME \/ ShutdownBegin \/ ShutdownKillStart \/ ShutdownKillEnd
              \/ UNCHANGED vars
       PROVE  Goal
  BY <1>1, <1>16 DEF ShutdownBegin, ShutdownKillStart, ShutdownKillEnd, vars
<1> HIDE DEF Goal
<1>17. ASSUME NEW p \in Proc, ProcStep(p) PROVE Goal
  BY <1>3, <1>4, <1>5, <1>6, <1>7, <1>8, <1>15, <1>17 DEF ProcStep
<1>18. ASSUME NEW q \in Proc, KernelStep(q) PROVE Goal
  BY <1>9, <1>10, <1>11, <1>14, <1>15, <1>18 DEF KernelStep
<1>19. Goal
  BY <1>12, <1>13, <1>14, <1>16, <1>17, <1>18 DEF Next
<1> QED
  BY <1>19 DEF Goal

(* Namespaces stay maps, and their pids below nextPid, through spawns,     *)
(* adoptions by init and reaping, in whatever order the ends of processes, *)
(* the waiters of former parents and late spawns come.                     *)
THEOREM PidsStayUnique == Spec => []PidsUnique
<1>1. Init => PidsUnique
  BY DEF Init, PidsUnique
<1>2. TypeOK /\ PidsUnique /\ [Next]_vars => PidsUnique'
  <2> SUFFICES ASSUME TypeOK, PidsUnique, [Next]_vars PROVE PidsUnique'
    OBVIOUS
  <2>1. CASE UNCHANGED <<children, nextPid>>
    BY <2>1 DEF PidsUnique
  <2>2. ASSUME NEW p \in Proc, NEW q \in Proc, AssignPid(p, q)
        PROVE  PidsUnique'
    <3> SUFFICES ASSUME NEW c \in Proc, NEW e \in children'[c]
                 PROVE  /\ e[1] < nextPid'[c]
                        /\ \A f \in children'[c] : e[1] = f[1] => e = f
      BY DEF PidsUnique
    <3>1. /\ c # p => children'[c] = children[c] /\ nextPid'[c] = nextPid[c]
          /\ c = p => /\ children'[c] = children[c] \cup {<<nextPid[c], q>>}
                      /\ nextPid'[c] = nextPid[c] + 1
      BY <2>2 DEF AssignPid, TypeOK
    <3>2. \A f \in children[c] : f[1] < nextPid[c] /\ f[1] \in Nat
      BY DEF PidsUnique, TypeOK
    <3>3. nextPid[c] \in Nat
      BY DEF TypeOK
    <3> QED
      BY <3>1, <3>2, <3>3 DEF PidsUnique
  <2>3. ASSUME NEW c \in Proc, NEW pid \in Nat, Reap(c, pid) PROVE PidsUnique'
    <3>1. \A d \in Proc : children'[d] \subseteq children[d]
      BY <2>3 DEF Reap, TypeOK
    <3> QED
      BY <2>3, <3>1 DEF Reap, PidsUnique
  <2>4. ASSUME NEW p \in Proc, NEW code \in ExitCode,
               ReparentAndNotify(p, code)
        PROVE  PidsUnique'
    <3>1. PICK pidOf \in Adoptions(Orphans(p)) :
            children' =
              [c \in Proc |->
                 {e \in children[c] \cup
                    (IF c = initProcess THEN Adopted(p, pidOf) ELSE {}) :
                    ~ \E w \in Reapers(p) :
                        wait[w].caller = c /\ wait[w].pid = e[1]}]
      BY <2>4 DEF ReparentAndNotify
    <3> SUFFICES ASSUME NEW c \in Proc, NEW e \in children'[c],
                        NEW f \in children'[c]
                 PROVE  e[1] < nextPid'[c] /\ (e[1] = f[1] => e = f)
      BY DEF PidsUnique
    <3>2. \A x \in children'[c] :
            \/ x \in children[c]
            \/ c = initProcess /\ x \in Adopted(p, pidOf)
      BY <3>1
    <3>3. \A x \in Adopted(p, pidOf) :
            \E r \in Orphans(p) : x = <<pidOf[r], r>>
      BY DEF Adopted
    <3>4. nextPid'[c] = IF c = initProcess
                          THEN nextPid[c] + Cardinality(Orphans(p))
                          ELSE nextPid[c]
      BY <2>4 DEF ReparentAndNotify
    <3>5. nextPid[c] \in Nat /\ Cardinality(Orphans(p)) \in Nat
      BY AdoptionFacts DEF TypeOK
    <3>6. \A x \in children[c] : x[1] \in Nat /\ x[1] < nextPid[c]
      BY DEF PidsUnique, TypeOK
    <3>7. \A r, s \in Orphans(p) :
            /\ pidOf[r] \in Nat /\ nextPid[initProcess] <= pidOf[r]
            /\ pidOf[r] < nextPid[initProcess] + Cardinality(Orphans(p))
            /\ pidOf[r] = pidOf[s] => r = s
      BY AdoptionFacts
    <3>8. e[1] < nextPid'[c]
      BY <3>2, <3>3, <3>4, <3>5, <3>6, <3>7
    <3>9. ASSUME e[1] = f[1] PROVE e = f
      BY <3>2, <3>3, <3>5, <3>6, <3>7, <3>9 DEF PidsUnique
    <3> QED
      BY <3>8, <3>9
  <2> QED
    BY <2>1, <2>2, <2>3, <2>4, NamespaceSteps
<1> QED
  BY <1>1, <1>2, TypeCorrect, PTL DEF Spec

(* The pid a waiter deletes when it is called back names the process it    *)
(* waits for or nothing, even when the child was adopted, waited for by    *)
(* another call, or reaped meanwhile.                                      *)
THEOREM WaitersNeverReapSiblings == Spec => []WaitersReapTheirOwn
<1> DEFINE Own(w) ==
      /\ wait[w].pid < nextPid[wait[w].caller]
      /\ \A e \in children[wait[w].caller] :
           e[1] = wait[w].pid => e[2] = wait[w].target
<1>1. Init => WaitersReapTheirOwn
  BY DEF Init, WaitersReapTheirOwn, Pending, Ended
<1>2. TypeOK /\ PidsUnique /\ WaitersReapTheirOwn /\ [Next]_vars
        => WaitersReapTheirOwn'
  <2> SUFFICES ASSUME TypeOK, PidsUnique, WaitersReapTheirOwn, [Next]_vars,
                      NEW w \in Waits, Pending(w)', wait'[w].caller # NoProc
               PROVE  Own(w)'
    BY DEF WaitersReapTheirOwn
  <2>1. Kept(w) => /\ wait'[w] = wait[w] /\ Own(w)
                   /\ wait[w].caller \in Proc /\ wait[w].pid \in Nat
    BY DEF Kept, WaitersReapTheirOwn, TypeOK, Wait, ProcOrNone
  <2>2. CASE UNCHANGED <<children, nextPid>> /\ (Kept(w) \/ Fresh(w))
    <3>1. CASE Kept(w)
      BY <2>1, <2>2, <3>1
    <3>2. CASE Fresh(w)
      <4> DEFINE c   == wait'[w].caller
                 new == <<wait'[w].pid, wait'[w].target>>
      <4>1. c \in Proc /\ new \in children[c]
        BY <3>2 DEF Fresh
      <4>2. /\ new[1] < nextPid[c]
            /\ \A e \in children[c] : e[1] = new[1] => e[2] = new[2]
        BY <4>1 DEF PidsUnique
      <4> QED
        BY <2>2, <4>2
    <3> QED
      BY <2>2, <3>1, <3>2
  <2>3. ASSUME UNCHANGED wait, NEW p \in Proc, NEW q \in Proc, AssignPid(p, q)
        PROVE  Own(w)'
    <3>1. Kept(w)
      BY <2>3 DEF Kept, Pending
    <3> DEFINE c == wait[w].caller
    <3>2. /\ c \in Proc /\ nextPid[c] \in Nat /\ wait[w].pid \in Nat
          /\ wait'[w] = wait[w]
      BY <2>1, <3>1 DEF TypeOK
    <3>3. /\ c # p => children'[c] = children[c] /\ nextPid'[c] = nextPid[c]
          /\ c = p => /\ children'[c] = children[c] \cup {<<nextPid[c], q>>}
                      /\ nextPid'[c] = nextPid[c] + 1
      BY <2>3, <3>2 DEF AssignPid, TypeOK
    <3>4. wait[w].pid < nextPid'[c]
      BY <2>1, <3>1, <3>2, <3>3
    <3>5. \A e \in children'[c] : e[1] = wait[w].pid => e \in children[c]
      BY <2>1, <3>1, <3>2, <3>3
    <3> QED
      BY <2>1, <3>1, <3>2, <3>4, <3>5
  <2>4. ASSUME NEW d \in Proc, NEW pid \in Nat, Reap(d, pid), Kept(w)
        PROVE  Own(w)'
    <3>1. \A c \in Proc : children'[c] \subseteq children[c]
      BY <2>4 DEF Reap, TypeOK
    <3> QED
      BY <2>1, <2>4, <3>1 DEF Reap
  <2>5. ASSUME NEW p \in Proc, NEW code \in ExitCode,
               ReparentAndNotify(p, code)
        PROVE  Own(w)'
    <3>1. Kept(w)
      BY <2>5, ReparentAndNotifyFacts DEF Kept
    <3> DEFINE c == wait[w].caller
    <3>2. /\ c \in Proc /\ nextPid[c] \in Nat /\ wait[w].pid \in Nat
          /\ wait'[w] = wait[w]
      BY <2>1, <3>1 DEF TypeOK
    <3>3. /\ Cardinality(Orphans(p)) \in Nat
          /\ nextPid'[c] = IF c = initProcess
                             THEN nextPid[c] + Cardinality(Orphans(p))
                             ELSE nextPid[c]
      BY <2>5, <3>2, AdoptionFacts DEF ReparentAndNotify
    <3>4. wait[w].pid < nextPid'[c]
      BY <2>1, <3>1, <3>2, <3>3
    <3>5. PICK pidOf \in Adoptions(Orphans(p)) :
            \A e \in children'[c] :
              \/ e \in children[c]
              \/ c = initProcess /\ e \in Adopted(p, pidOf)
      BY <2>5, <3>2 DEF ReparentAndNotify
    <3>6. \A e \in Adopted(p, pidOf) :
            e[1] \in Nat /\ nextPid[initProcess] <= e[1]
      BY AdoptionFacts DEF Adopted
    <3>7. \A e \in children'[c] : e[1] = wait[w].pid => e \in children[c]
      BY <2>1, <3>1, <3>2, <3>5, <3>6
    <3> QED
      BY <2>1, <3>1, <3>2, <3>4, <3>7
  <2> QED
    BY <2>2, <2>3, <2>4, <2>5, NamespaceSteps
<1> QED
  BY <1>1, <1>2, TypeCorrect, PidsStayUnique, PTL DEF Spec

-----------------------------------------------------------------------------
(* Waiters.                                                                *)

(* What a call of wait() that returns in this step reports.                *)
Reports(w) ==
  LET q == wait'[w].target
  IN  /\ Pending(w) => q = wait[w].target
      /\ wait'[w].code # "none"
      /\ \/ state'[q] = "zombie" /\ wait'[w].code = exitCode'[q]
         \/ ~Pending(w) /\ q \notin processes /\ wait'[w].code = "unknown"

(* What a step may do to one call of wait().                               *)
WaitStep(w) ==
  \/ wait'[w] = wait[w]
  \/ /\ wait'[w].st = "pending"
     /\ wait'[w].target \in Proc
     /\ state[wait'[w].target] = "running"
     /\ UNCHANGED <<state, exiting>>
  \/ wait'[w].st \in {"timedout", "dropped"}
  \/ wait'[w].st = "done" /\ Reports(w)

LEMMA NotifyWaitStep ==
  ASSUME TypeOK, NEW p \in Proc, NEW code \in ExitCode \ {"none"},
         ReparentAndNotify(p, code), state'[p] = "zombie", exitCode'[p] = code,
         NEW w \in Waits
  PROVE  WaitStep(w)
<1>1. wait'[w] = IF w \in Notified(p) THEN Ended("done", p, code) ELSE wait[w]
  BY DEF ReparentAndNotify
<1>2. CASE w \in Notified(p)
  <2>1. wait[w].target = p
    BY <1>2 DEF Notified
  <2>2. /\ wait'[w].st = "done" /\ wait'[w].target = p
        /\ wait'[w].code = code
    BY <1>1, <1>2 DEF Ended
  <2> QED
    BY <2>1, <2>2 DEF WaitStep, Reports
<1> QED
  BY <1>1, <1>2 DEF WaitStep

LEMMA WaitSteps ==
  ASSUME TypeOK, TableConsistent, [Next]_vars, NEW w \in Waits
  PROVE  WaitStep(w)
<1>1. ASSUME NEW p \in Proc, NEW code \in ExitCode \ {"none"},
             ForceExit(p, code)
      PROVE  WaitStep(w)
  <2>1. CASE state[p] = "zombie"
    BY <1>1, <2>1 DEF ForceExit, WaitStep
  <2>2. CASE state[p] # "zombie"
    <3>1. state'[p] = "zombie" /\ exitCode'[p] = code
      BY <1>1, <2>2 DEF ForceExit, TypeOK
    <3> QED
      BY <1>1, <2>2, <3>1, NotifyWaitStep DEF ForceExit
  <2> QED
    BY <2>1, <2>2
<1>2. ASSUME NEW p \in Proc, ExitEnd(p) PROVE WaitStep(w)
  <2>1. exitCode[p] \in ExitCode \ {"none"} /\ state[p] = "zombie"
    BY <1>2 DEF ExitEnd, TableConsistent, TypeOK
  <2>2. state'[p] = "zombie" /\ exitCode'[p] = exitCode[p]
    BY <1>2, <2>1 DEF ExitEnd
  <2> QED
    BY <1>2, <2>1, <2>2, NotifyWaitStep DEF ExitEnd
<1>3. ASSUME NEW p \in Proc, NEW e \in children[p], NEW v \in Waits,
             WaitZombie(p, e, v)
      PROVE  WaitStep(w)
  <2>1. /\ e[2] \in Proc /\ exitCode[e[2]] # "none" /\ wait[v].st = "idle"
        /\ state'[e[2]] = "zombie" /\ exitCode'[e[2]] = exitCode[e[2]]
    BY <1>3 DEF WaitZombie, TypeOK, TableConsistent
  <2>2. wait'[w] = IF w = v THEN Ended("done", e[2], exitCode[e[2]]) ELSE wait[w]
    BY <1>3 DEF WaitZombie, TypeOK
  <2> QED
    BY <2>1, <2>2 DEF WaitStep, Reports, Pending, Ended
<1>4. ASSUME NEW p \in Proc, NEW e \in children[p], NEW v \in Waits,
             NEW timed \in BOOLEAN, WaitRegister(p, e, v, timed)
      PROVE  WaitStep(w)
  <2>1. e[2] \in Proc /\ state[e[2]] = "running"
    BY <1>4 DEF WaitRegister, MayWait, TypeOK, TableConsistent, Started
  <2>2. wait'[w] = IF w = v THEN Waiter(p, e[1], e[2], timed) ELSE wait[w]
    BY <1>4 DEF WaitRegister, TypeOK
  <2> QED
    BY <1>4, <2>1, <2>2 DEF WaitRegister, WaitStep, Waiter
<1>5. ASSUME NEW q \in Proc, NEW v \in Waits, ExternalWait(q, v)
      PROVE  WaitStep(w)
  <2>1. /\ q \in processes => state[q] = "running" \/ state[q] = "zombie"
        /\ state[q] = "zombie" => exitCode[q] # "none"
        /\ wait[v].st = "idle" /\ UNCHANGED <<state, exitCode, exiting>>
    BY <1>5 DEF ExternalWait, TableConsistent, Started
  <2>2. wait'[w] = IF w # v THEN wait[w]
                   ELSE IF q \notin processes THEN Ended("done", q, "unknown")
                   ELSE IF state[q] = "zombie" THEN Ended("done", q, exitCode[q])
                   ELSE Waiter(NoProc, 0, q, FALSE)
    BY <1>5 DEF ExternalWait, TypeOK
  <2>3. CASE w # v
    BY <2>2, <2>3 DEF WaitStep
  <2>4. CASE w = v /\ q \notin processes
    BY <2>1, <2>2, <2>4 DEF WaitStep, Reports, Pending, Ended
  <2>5. CASE w = v /\ q \in processes /\ state[q] = "zombie"
    BY <2>1, <2>2, <2>5 DEF WaitStep, Reports, Pending, Ended
  <2>6. CASE w = v /\ q \in processes /\ state[q] = "running"
    BY <2>1, <2>2, <2>6 DEF WaitStep, Waiter
  <2> QED
    BY <2>1, <2>3, <2>4, <2>5, <2>6
<1>6. ASSUME NEW v \in Waits, WaitTimeout(v) PROVE WaitStep(w)
  BY <1>6 DEF WaitTimeout, WaitStep, Ended, TypeOK
<1>7. ASSUME ShutdownClear PROVE WaitStep(w)
  BY <1>7 DEF ShutdownClear, WaitStep, Ended, TypeOK
<1>8. wait' = wait => WaitStep(w)
  BY DEF WaitStep
<1>9. ASSUME NEW p \in Proc, ProcStep(p) PROVE WaitStep(w)
  <2>1. ASSUME NEW e \in children[p], KillNow(p, e) PROVE WaitStep(w)
    BY <1>1, <2>1 DEF KillNow, ExitCode, TypeOK
  <2> QED
    BY <1>2, <1>3, <1>4, <1>8, <1>9, <2>1 DEF ProcStep, Accept, OtherSyscall,
       Spawn, ProcCreate, ExitBegin, KillTerm
<1>10. ASSUME NEW q \in Proc, KernelStep(q) PROVE WaitStep(w)
  <2>1. {"termed", "killed", "crashed", "exited"} \subseteq ExitCode \ {"none"}
    BY DEF ExitCode
  <2>2. CASE GraceExpires(q) \/ ExternalKill(q) \/ WorkerError(q)
               \/ GatewayDisconnect(q)
    BY <1>1, <1>8, <2>1, <2>2 DEF GraceExpires, ExternalKill, WorkerError,
       GatewayDisconnect
  <2> QED
    BY <1>5, <1>8, <1>10, <2>2 DEF KernelStep, SpawnDetached, SpawnReady,
       SpawnFails, GatewayConnect
<1>11. ASSUME NEW p \in Proc, ShutdownKill(p) PROVE WaitStep(w)
  BY <1>1, <1>11 DEF ShutdownKill, ExitCode
<1>12. CASE \/ ShutdownBegin \/ ShutdownKillStart \/ ShutdownKillEnd
            \/ UNCHANGED vars
  BY <1>8, <1>12 DEF ShutdownBegin, ShutdownKillStart, ShutdownKillEnd, vars
<1> QED
  BY <1>6, <1>7, <1>9, <1>10, <1>11, <1>12 DEF Next

(* Only an exit() of its own changes the code of a zombie.                 *)
LEMMA ZombieKeepsCode ==
  ASSUME TypeOK, [Next]_vars, NEW q \in Proc, state[q] = "zombie",
         exitCode'[q] # exitCode[q]
  PROVE  exiting'[q] > exiting[q]
<1>1. ASSUME NEW p \in Proc, NEW code \in ExitCode, ForceExit(p, code)
      PROVE  FALSE
  BY <1>1 DEF ForceExit, TypeOK
<1>2. ASSUME NEW p \in Proc, ProcStep(p) PROVE ExitBegin(p)
  <2>1. ASSUME NEW e \in children[p], KillNow(p, e) PROVE FALSE
    BY <1>1, <2>1 DEF KillNow, ExitCode, TypeOK
  <2> QED
    BY <1>2, <2>1 DEF ProcStep, Accept, OtherSyscall, Spawn, ProcCreate, ExitEnd,
       KillTerm, WaitZombie, WaitRegister
<1>3. ASSUME NEW p \in Proc, KernelStep(p) PROVE FALSE
  <2>1. {"termed", "killed", "crashed", "exited"} \subseteq ExitCode
    BY DEF ExitCode
  <2> QED
    BY <1>1, <1>3, <2>1 DEF KernelStep, SpawnDetached, SpawnReady, SpawnFails,
       GatewayConnect, GatewayDisconnect, GraceExpires, ExternalKill,
       WorkerError, ExternalWait
<1>4. ASSUME NEW p \in Proc, ShutdownKill(p) PROVE FALSE
  BY <1>1, <1>4 DEF ShutdownKill, ExitCode
<1>5. PICK p \in Proc : ExitBegin(p)
  BY <1>2, <1>3, <1>4 DEF Next, WaitTimeout, ShutdownBegin, ShutdownKillStart,
     ShutdownKillEnd, ShutdownClear, vars
<1> QED
  BY <1>5 DEF ExitBegin, TypeOK

(* The action of StatusReported.                                           *)
StatusStep ==
  /\ \A w \in Waits :
       wait[w].st # "done" /\ wait'[w].st = "done" => Reports(w)
  /\ \A q \in Proc : state[q] = "zombie" /\ exitCode'[q] # exitCode[q] =>
       exiting'[q] > exiting[q]

(* A wait() that returns reports the code that its own target, a zombie,   *)
(* has at that moment, whichever of exit(), forceExit() and the fast path  *)
(* resolves it; only the host is told nothing, of a process that is not in *)
(* the table.  And only an exit() of its own changes the code of a zombie. *)
THEOREM StatusIsReported == Spec => StatusReported
<1>1. TypeOK /\ TableConsistent /\ [Next]_vars => [StatusStep]_vars
  BY WaitSteps, ZombieKeepsCode DEF WaitStep, StatusStep
<1>2. [StatusStep]_vars <=>
      [/\ \A w \in Waits : wait[w].st # "done" /\ wait'[w].st = "done" =>
            LET q == wait'[w].target
            IN  /\ Pending(w) => q = wait[w].target
                /\ wait'[w].code # "none"
                /\ \/ state'[q] = "zombie" /\ wait'[w].code = exitCode'[q]
                   \/ /\ ~Pending(w) /\ q \notin processes
                      /\ wait'[w].code = "unknown"
       /\ \A q \in Proc : state[q] = "zombie" /\ exitCode'[q] # exitCode[q] =>
            exiting'[q] > exiting[q]]_vars
  BY DEF StatusStep, Reports
<1> QED
  BY <1>1, <1>2, TypeCorrect, TableStaysConsistent, PTL DEF Spec, StatusReported

(* What a step may do to one started process: nothing, begin its exit(),   *)
(* or finish it, which wakes its waiters.                                  *)
LifeStep(q) ==
  \/ state'[q] = state[q] /\ exiting'[q] = exiting[q]
  \/ state'[q] = "zombie" /\ exiting'[q] > 0
  \/ /\ state'[q] = "zombie"
     /\ \E code \in ExitCode : ReparentAndNotify(q, code)

LEMMA LifeSteps ==
  ASSUME TypeOK, TableConsistent, [Next]_vars, NEW q \in Proc, Started(q)
  PROVE  LifeStep(q)
<1>1. UNCHANGED <<state, exiting>> => LifeStep(q)
  BY DEF LifeStep
<1>2. ASSUME NEW p \in Proc, NEW code \in ExitCode, ForceExit(p, code),
             UNCHANGED exiting
      PROVE  LifeStep(q)
  <2>1. CASE state[p] = "zombie"
    BY <1>1, <1>2, <2>1 DEF ForceExit
  <2>2. CASE state[p] # "zombie"
    <3>1. state' = [state EXCEPT ![p] = "zombie"] /\ ReparentAndNotify(p, code)
      BY <1>2, <2>2 DEF ForceExit
    <3> QED
      BY <1>2, <3>1 DEF LifeStep, TypeOK
  <2> QED
    BY <2>1, <2>2
<1>3. ASSUME NEW p \in Proc, ExitBegin(p) PROVE LifeStep(q)
  <2>1. exiting[p] \in Nat /\ exiting'[p] = exiting[p] + 1
    BY <1>3 DEF ExitBegin, TypeOK
  <2>2. exiting'[p] > 0
    BY <2>1
  <2> QED
    BY <1>3, <2>2 DEF ExitBegin, LifeStep, TypeOK
<1>4. ASSUME NEW p \in Proc, ExitEnd(p) PROVE LifeStep(q)
  <2>1. /\ state[p] = "zombie" /\ state' = state
        /\ exitCode[p] \in ExitCode /\ ReparentAndNotify(p, exitCode[p])
    BY <1>4 DEF ExitEnd, TableConsistent, TypeOK
  <2>2. q # p => exiting'[q] = exiting[q]
    BY <1>4 DEF ExitEnd, TypeOK
  <2> QED
    BY <2>1, <2>2 DEF LifeStep
<1>5. ASSUME NEW p \in Proc, NEW new \in ProcessState, ~Started(p),
             state' = [state EXCEPT ![p] = new], UNCHANGED exiting
      PROVE  LifeStep(q)
  BY <1>5 DEF LifeStep, TypeOK
<1>6. ASSUME NEW p \in Proc, ProcStep(p) PROVE LifeStep(q)
  <2>1. ASSUME NEW e \in children[p], KillNow(p, e) PROVE LifeStep(q)
    BY <1>2, <2>1 DEF KillNow, ExitCode, TypeOK
  <2>2. ASSUME NEW r \in Proc, Spawn(p, r) \/ ProcCreate(p, r)
        PROVE  LifeStep(q)
    BY <1>5, <2>2 DEF Spawn, ProcCreate, CreateVirtualProcess, Started,
       ProcessState
  <2> QED
    BY <1>1, <1>3, <1>4, <1>6, <2>1, <2>2 DEF ProcStep, Accept, OtherSyscall,
       KillTerm, WaitZombie, WaitRegister
<1>7. ASSUME NEW p \in Proc, KernelStep(p) PROVE LifeStep(q)
  <2>1. {"termed", "killed", "crashed", "exited"} \subseteq ExitCode
    BY DEF ExitCode
  <2>2. CASE GraceExpires(p) \/ ExternalKill(p) \/ WorkerError(p)
               \/ GatewayDisconnect(p)
    BY <1>1, <1>2, <2>1, <2>2 DEF GraceExpires, ExternalKill, WorkerError,
       GatewayDisconnect
  <2>3. CASE SpawnDetached(p) \/ SpawnReady(p) \/ SpawnFails(p)
               \/ GatewayConnect(p)
    BY <1>5, <2>3 DEF SpawnDetached, SpawnReady, SpawnFails, GatewayConnect,
       CreateVirtualProcess, Started, ProcessState
  <2>4. CASE \E w \in Waits : ExternalWait(p, w)
    BY <1>1, <2>4 DEF ExternalWait
  <2> QED
    BY <1>7, <2>2, <2>3, <2>4 DEF KernelStep
<1>8. ASSUME NEW p \in Proc, ShutdownKill(p) PROVE LifeStep(q)
  BY <1>2, <1>8 DEF ShutdownKill, ExitCode
<1>9. CASE \/ ShutdownBegin \/ ShutdownKillStart \/ ShutdownKillEnd
           \/ ShutdownClear \/ UNCHANGED vars
           \/ \E w \in Waits : WaitTimeout(w)
  BY <1>1, <1>9 DEF ShutdownBegin, ShutdownKillStart, ShutdownKillEnd,
     ShutdownClear, WaitTimeout, vars
<1> QED
  BY <1>6, <1>7, <1>8, <1>9 DEF Next

(* No lost wake-up: as long as a wait() is pending, its target runs or is  *)
(* inside exit(), before notifyWaiters().                                  *)
THEOREM NoWakeupIsLost == Spec => []NoLostWaiter
<1>1. Init => NoLostWaiter
  BY DEF Init, NoLostWaiter, Pending, Ended
<1>2. TypeOK /\ TableConsistent /\ NoLostWaiter /\ [Next]_vars => NoLostWaiter'
  <2> SUFFICES ASSUME TypeOK, TableConsistent, NoLostWaiter, [Next]_vars,
                      NEW w \in Waits, Pending(w)'
               PROVE  \/ state'[wait'[w].target] = "running"
                      \/ exiting'[wait'[w].target] > 0
    BY DEF NoLostWaiter
  <2>1. WaitStep(w) /\ wait'[w].st = "pending"
    BY WaitSteps DEF Pending
  <2>2. CASE wait'[w] = wait[w]
    <3> DEFINE q == wait[w].target
    <3>1. /\ Pending(w) /\ q \in Proc /\ Started(q)
          /\ state[q] = "running" \/ exiting[q] > 0
      BY <2>1, <2>2 DEF Pending, TableConsistent, NoLostWaiter
    <3>2. LifeStep(q)
      BY <3>1, LifeSteps
    <3>3. ~ \E code \in ExitCode : ReparentAndNotify(q, code)
      BY <3>1, ReparentAndNotifyFacts
    <3> QED
      BY <2>2, <3>1, <3>2, <3>3 DEF LifeStep
  <2>3. CASE wait'[w] # wait[w]
    BY <2>1, <2>3 DEF WaitStep
  <2> QED
    BY <2>2, <2>3
<1> QED
  BY <1>1, <1>2, TypeCorrect, TableStaysConsistent, PTL DEF Spec

-----------------------------------------------------------------------------
(* Worker threads.                                                         *)

(* The end of p, with its worker terminated, suits every process.          *)
LEMMA EndMatchesWorkers ==
  ASSUME TypeOK, TableConsistent, WorkerMatchesState, NEW p \in Proc,
         Started(p), state' = [state EXCEPT ![p] = "zombie"],
         TerminateWorker(p), UNCHANGED <<virtual, worker>>,
         \A q \in Proc \ {p} : exiting'[q] = exiting[q]
  PROVE  WorkerMatchesState'
<1> SUFFICES ASSUME NEW q \in Proc, ~virtual[q], q # Kernel
             PROVE  /\ state'[q] = "running" => worker[q] = q /\ q \in liveWorkers'
                    /\ q \in liveWorkers' => state'[q] = "running" \/ exiting'[q] > 0
  BY DEF WorkerMatchesState
<1>1. CASE q = p
  BY <1>1 DEF TerminateWorker, TypeOK
<1>2. CASE q # p
  <2>1. state'[q] = state[q] /\ exiting'[q] = exiting[q]
    BY <1>2 DEF TypeOK
  <2>2. q \in liveWorkers' <=> q \in liveWorkers
    BY <1>2 DEF TerminateWorker
  <2> QED
    BY <2>1, <2>2 DEF WorkerMatchesState
<1> QED
  BY <1>1, <1>2

(* A process that owns a thread has it while it runs, and the thread ends  *)
(* with the process: exit() of a process killed meanwhile, errors of the   *)
(* worker, late spawns and virtual processes included.                     *)
THEOREM WorkersMatch == Spec => []WorkerMatchesState
<1>1. Init => WorkerMatchesState
  BY DEF Init, WorkerMatchesState
<1>2. TypeOK /\ TableConsistent /\ WorkerMatchesState /\ [Next]_vars
        => WorkerMatchesState'
  <2> SUFFICES ASSUME TypeOK, TableConsistent, WorkerMatchesState, [Next]_vars
               PROVE  WorkerMatchesState'
    OBVIOUS
  <2>1. ASSUME UNCHANGED <<state, virtual, worker, liveWorkers, exiting>>
        PROVE  WorkerMatchesState'
    BY <2>1 DEF WorkerMatchesState
  <2>2. ASSUME NEW p \in Proc, Started(p), NEW code \in ExitCode,
               ForceExit(p, code), UNCHANGED <<virtual, worker, exiting>>
        PROVE  WorkerMatchesState'
    BY <2>1, <2>2, EndMatchesWorkers DEF ForceExit
  <2>3. ASSUME NEW p \in Proc, ExitBegin(p) PROVE WorkerMatchesState'
    <3>1. \A q \in Proc : exiting'[q] > 0 <=> exiting[q] > 0 \/ q = p
      BY <2>3 DEF ExitBegin, TypeOK
    <3>2. \A q \in Proc : state'[q] = IF q = p THEN "zombie" ELSE state[q]
      BY <2>3 DEF ExitBegin, TypeOK
    <3>3. UNCHANGED <<virtual, worker, liveWorkers>>
      BY <2>3 DEF ExitBegin
    <3> QED
      BY <3>1, <3>2, <3>3 DEF WorkerMatchesState
  <2>4. ASSUME NEW p \in Proc, ExitEnd(p) PROVE WorkerMatchesState'
    <3>1. state[p] = "zombie" /\ Started(p)
      BY <2>4 DEF ExitEnd, TableConsistent, Started
    <3>2. state' = [state EXCEPT ![p] = "zombie"]
      BY <2>4, <3>1 DEF ExitEnd, TypeOK
    <3>3. /\ \A q \in Proc \ {p} : exiting'[q] = exiting[q]
          /\ TerminateWorker(p) /\ UNCHANGED <<virtual, worker>>
      BY <2>4 DEF ExitEnd, TypeOK
    <3> QED
      BY <3>1, <3>2, <3>3, EndMatchesWorkers
  <2>5. ASSUME NEW q \in Proc, NEW new \in {"absent", "starting"}, ~Started(q),
               state' = [state EXCEPT ![q] = new],
               UNCHANGED <<virtual, worker, liveWorkers, exiting>>
        PROVE  WorkerMatchesState'
    <3>1. \A r \in Proc : state'[r] = IF r = q THEN new ELSE state[r]
      BY <2>5 DEF TypeOK
    <3>2. q \notin liveWorkers
      BY <2>5 DEF TableConsistent
    <3> QED
      BY <2>5, <3>1, <3>2 DEF WorkerMatchesState
  <2>6. ASSUME NEW q \in Proc, SpawnReady(q) PROVE WorkerMatchesState'
    <3>1. \A r \in Proc \ {q} : state'[r] = state[r] /\ worker'[r] = worker[r]
      BY <2>6 DEF SpawnReady, TypeOK
    <3>2. state'[q] = "running" /\ worker'[q] = q
      BY <2>6 DEF SpawnReady, TypeOK
    <3>3. liveWorkers' = liveWorkers \cup {q} /\ UNCHANGED <<virtual, exiting>>
      BY <2>6 DEF SpawnReady
    <3> QED
      BY <3>1, <3>2, <3>3 DEF WorkerMatchesState
  <2>7. ASSUME NEW p, NEW q \in Proc, CreateVirtualProcess(p, q),
               UNCHANGED <<liveWorkers, exiting>>
        PROVE  WorkerMatchesState'
    <3>1. /\ \A r \in Proc \ {q} : /\ state'[r] = state[r]
                                   /\ worker'[r] = worker[r]
                                   /\ virtual'[r] = virtual[r]
          /\ virtual'[q]
      BY <2>7 DEF CreateVirtualProcess, TypeOK
    <3> QED
      BY <2>7, <3>1 DEF WorkerMatchesState
  <2>8. ASSUME NEW p \in Proc, ProcStep(p) PROVE WorkerMatchesState'
    <3>1. ASSUME NEW e \in children[p], KillNow(p, e) PROVE WorkerMatchesState'
      <4>1. e[2] \in Proc /\ Started(e[2])
        BY <3>1 DEF KillNow, MaySignal, TypeOK, TableConsistent
      <4> QED
        BY <2>2, <3>1, <4>1 DEF KillNow, ExitCode
    <3>2. ASSUME NEW q \in Proc, Spawn(p, q) PROVE WorkerMatchesState'
      BY <2>5, <3>2 DEF Spawn, Started
    <3>3. ASSUME NEW q \in Proc, ProcCreate(p, q) PROVE WorkerMatchesState'
      BY <2>7, <3>3 DEF ProcCreate
    <3> QED
      BY <2>1, <2>3, <2>4, <2>8, <3>1, <3>2, <3>3 DEF ProcStep, Accept,
         OtherSyscall, KillTerm, WaitZombie, WaitRegister
  <2>9. ASSUME NEW q \in Proc, KernelStep(q) PROVE WorkerMatchesState'
    <3>1. {"termed", "killed", "crashed", "exited"} \subseteq ExitCode
      BY DEF ExitCode
    <3>2. CASE GraceExpires(q)
      BY <2>1, <2>2, <3>1, <3>2 DEF GraceExpires, Started
    <3>3. CASE ExternalKill(q) \/ WorkerError(q) \/ GatewayDisconnect(q)
      <4>1. Started(q)
        BY <3>3 DEF ExternalKill, WorkerError, GatewayDisconnect, TableConsistent
      <4> QED
        BY <2>1, <2>2, <3>1, <3>3, <4>1 DEF ExternalKill, WorkerError,
           GatewayDisconnect
    <3>4. CASE SpawnDetached(q) \/ SpawnFails(q)
      BY <2>5, <3>4 DEF SpawnDetached, SpawnFails, Started
    <3>5. CASE GatewayConnect(q)
      BY <2>7, <3>5 DEF GatewayConnect
    <3>6. CASE \E w \in Waits : ExternalWait(q, w)
      BY <2>1, <3>6 DEF ExternalWait
    <3> QED
      BY <2>6, <2>9, <3>2, <3>3, <3>4, <3>5, <3>6 DEF KernelStep
  <2>10. ASSUME NEW p \in Proc, ShutdownKill(p) PROVE WorkerMatchesState'
    BY <2>2, <2>10 DEF ShutdownKill, ExitCode, Started, TableConsistent
  <2>11. CASE \/ ShutdownBegin \/ ShutdownKillStart \/ ShutdownKillEnd
              \/ ShutdownClear \/ UNCHANGED vars
              \/ \E w \in Waits : WaitTimeout(w)
    BY <2>1, <2>11 DEF ShutdownBegin, ShutdownKillStart, ShutdownKillEnd,
       ShutdownClear, WaitTimeout, vars
  <2> QED
    BY <2>8, <2>9, <2>10, <2>11 DEF Next
<1> QED
  BY <1>1, <1>2, TypeCorrect, TableStaysConsistent, PTL DEF Spec

-----------------------------------------------------------------------------
(* The kernel process.                                                     *)

(* A step that leaves the kernel process alone.                            *)
KernelUntouched ==
  /\ state'[Kernel] = state[Kernel]
  /\ worker'[Kernel] = worker[Kernel]
  /\ accepted'[Kernel] = accepted[Kernel]
  /\ exiting'[Kernel] = exiting[Kernel]
  /\ Kernel \notin (clients' \cup timers' \cup liveWorkers')

(* Nobody ever gets a pid for the kernel process.                          *)
LEMMA KernelHasNoPid ==
  ASSUME TypeOK, KernelIsolated, [Next]_vars
  PROVE  \A c \in Proc : \A e \in children'[c] : e[2] # Kernel
<1> SUFFICES ASSUME NEW c \in Proc, NEW e \in children'[c], e \notin children[c]
             PROVE  e[2] # Kernel
  BY DEF KernelIsolated
<1>1. ASSUME NEW p \in Proc, NEW q \in Proc, AssignPid(p, q), ~Started(q)
      PROVE  e[2] # Kernel
  <2>1. e[2] = q
    BY <1>1 DEF AssignPid, TypeOK
  <2> QED
    BY <1>1, <2>1 DEF KernelIsolated
<1>2. ASSUME NEW d \in Proc, NEW pid \in Nat, Reap(d, pid) PROVE FALSE
  BY <1>2 DEF Reap, TypeOK
<1>3. ASSUME NEW p \in Proc, NEW code \in ExitCode, ReparentAndNotify(p, code)
      PROVE  e[2] # Kernel
  <2>1. e[2] \in Orphans(p)
    BY <1>3 DEF ReparentAndNotify, Adopted
  <2> QED
    BY <2>1, ProcAssumption DEF Orphans, KernelIsolated
<1> QED
  BY <1>1, <1>2, <1>3, NamespaceSteps

(* No step but the kill loop of shutdown() touches the kernel process.     *)
LEMMA KernelSteps ==
  ASSUME TypeOK, TableConsistent, KernelIsolated, [Next]_vars
  PROVE  /\ \/ KernelUntouched
            \/ phase = "killing" /\ ShutdownKill(Kernel)
         /\ parent'[Kernel] = NoProc
<1>0. Kernel \in Proc /\ NoProc \notin Proc
  BY ProcAssumption
<1>a. ASSUME NEW p \in Proc, NEW code \in ExitCode, ReparentAndNotify(p, code)
      PROVE  parent'[Kernel] = NoProc
  <2>1. parent[Kernel] = NoProc /\ Kernel \notin Orphans(p)
    BY <1>0 DEF KernelIsolated, Orphans
  <2> QED
    BY <1>0, <1>a, <2>1 DEF ReparentAndNotify
<1>1. ASSUME NEW p \in Proc \ {Kernel}, NEW code \in ExitCode,
             ForceExit(p, code)
      PROVE  /\ state'[Kernel] = state[Kernel]
             /\ Kernel \notin liveWorkers'
             /\ parent'[Kernel] = NoProc
  <2>1. parent'[Kernel] = NoProc
    BY <1>1, <1>a DEF ForceExit, KernelIsolated
  <2>2. Kernel \notin liveWorkers'
    BY <1>1 DEF ForceExit, TerminateWorker, KernelIsolated
  <2>3. state'[Kernel] = state[Kernel]
    BY <1>0, <1>1 DEF ForceExit, TypeOK
  <2> QED
    BY <2>1, <2>2, <2>3
<1>2. ASSUME NEW p \in Proc, Begin(p) PROVE p # Kernel
  <2>1. accepted[Kernel] = 0 /\ accepted[p] > 0
    BY <1>2 DEF Begin, KernelIsolated
  <2> QED
    BY <2>1
<1>3. ASSUME NEW p \in Proc \ {Kernel}, Begin(p)
      PROVE  accepted'[Kernel] = accepted[Kernel]
  BY <1>0, <1>3 DEF Begin, TypeOK
<1> DEFINE Goal == KernelUntouched /\ parent'[Kernel] = NoProc
<1>4. ASSUME NEW p \in Proc, ProcStep(p) PROVE Goal
  <2>1. CASE Accept(p)
    <3>1. p # Kernel
      BY <1>0, <2>1 DEF Accept, KernelIsolated, TypeOK
    <3> QED
      BY <1>0, <2>1, <3>1 DEF Accept, KernelUntouched, KernelIsolated, TypeOK
  <2>2. CASE ExitEnd(p)
    <3>1. p # Kernel
      <4>1. exiting[Kernel] = 0 /\ exiting[p] > 0
        BY <2>2 DEF ExitEnd, KernelIsolated
      <4> QED
        BY <4>1
    <3>2. parent'[Kernel] = NoProc
      BY <1>a, <2>2 DEF ExitEnd, TypeOK
    <3>3. exiting'[Kernel] = exiting[Kernel]
      BY <1>0, <2>2, <3>1 DEF ExitEnd, TypeOK
    <3>4. Kernel \notin liveWorkers'
      BY <2>2 DEF ExitEnd, TerminateWorker, KernelIsolated
    <3> QED
      BY <2>2, <3>2, <3>3, <3>4 DEF ExitEnd, KernelUntouched, KernelIsolated
  <2>3. CASE OtherSyscall(p) \/ ExitBegin(p)
    BY <1>0, <1>2, <1>3, <2>3 DEF OtherSyscall, ExitBegin, KernelUntouched,
       KernelIsolated, TypeOK
  <2>4. ASSUME NEW q \in Proc, Spawn(p, q) PROVE Goal
    <3>1. q # Kernel
      BY <2>4 DEF Spawn, KernelIsolated, Started
    <3> QED
      BY <1>0, <1>2, <1>3, <2>4, <3>1 DEF Spawn, KernelUntouched, KernelIsolated,
         TypeOK
  <2>5. ASSUME NEW q \in Proc, ProcCreate(p, q) PROVE Goal
    <3>1. q # Kernel
      BY <2>5 DEF ProcCreate, CreateVirtualProcess, KernelIsolated, Started
    <3> QED
      BY <1>0, <1>2, <1>3, <2>5, <3>1 DEF ProcCreate, CreateVirtualProcess,
         KernelUntouched, KernelIsolated, TypeOK
  <2>6. ASSUME NEW e \in children[p], KillNow(p, e) PROVE Goal
    <3>1. e[2] \in Proc \ {Kernel} /\ "killed" \in ExitCode
      <4>1. e[2] \in Proc
        BY DEF TypeOK
      <4> QED
        BY <4>1 DEF KernelIsolated, ExitCode
    <3> QED
      BY <1>1, <1>2, <1>3, <2>6, <3>1 DEF KillNow, KernelUntouched,
         KernelIsolated
  <2>7. ASSUME NEW e \in children[p],
               \/ KillTerm(p, e)
               \/ \E w \in Waits :
                    \/ WaitZombie(p, e, w)
                    \/ \E timed \in BOOLEAN : WaitRegister(p, e, w, timed)
        PROVE  Goal
    <3>1. e[2] # Kernel
      BY DEF KernelIsolated
    <3> QED
      BY <1>2, <1>3, <2>7, <3>1 DEF KillTerm, WaitZombie, WaitRegister,
         KernelUntouched, KernelIsolated
  <2> QED
    BY <1>4, <2>1, <2>2, <2>3, <2>4, <2>5, <2>6, <2>7 DEF ProcStep
<1>5. ASSUME NEW q \in Proc, KernelStep(q) PROVE Goal
  <2>1. CASE SpawnDetached(q) \/ SpawnReady(q) \/ SpawnFails(q)
               \/ GatewayConnect(q)
    <3>1. q # Kernel
      BY <2>1 DEF SpawnDetached, SpawnReady, SpawnFails, GatewayConnect,
         CreateVirtualProcess, KernelIsolated, Started
    <3> QED
      BY <1>0, <2>1, <3>1 DEF SpawnDetached, SpawnReady, SpawnFails,
         GatewayConnect, CreateVirtualProcess, KernelUntouched, KernelIsolated, TypeOK
  <2>2. CASE GraceExpires(q) \/ ExternalKill(q) \/ WorkerError(q)
               \/ GatewayDisconnect(q)
    <3>1. q # Kernel
      BY <2>2 DEF GraceExpires, ExternalKill, WorkerError, GatewayDisconnect,
         KernelIsolated
    <3>2. {"termed", "killed", "crashed", "exited"} \subseteq ExitCode
      BY DEF ExitCode
    <3>3. \/ /\ state'[Kernel] = state[Kernel]
             /\ Kernel \notin liveWorkers'
             /\ parent'[Kernel] = NoProc
          \/ UNCHANGED <<state, liveWorkers, parent>>
      BY <1>1, <2>2, <3>1, <3>2 DEF GraceExpires, ExternalKill, WorkerError,
         GatewayDisconnect
    <3> QED
      BY <2>2, <3>1, <3>3 DEF GraceExpires, ExternalKill, WorkerError,
         GatewayDisconnect, KernelUntouched, KernelIsolated
  <2>3. CASE \E w \in Waits : ExternalWait(q, w)
    BY <2>3 DEF ExternalWait, KernelUntouched, KernelIsolated
  <2> QED
    BY <1>5, <2>1, <2>2, <2>3 DEF KernelStep
<1>6. ASSUME NEW p \in Proc \ {Kernel}, ShutdownKill(p) PROVE Goal
  BY <1>1, <1>6 DEF ShutdownKill, KernelUntouched, KernelIsolated, ExitCode
<1>7. ASSUME ShutdownKill(Kernel) PROVE parent'[Kernel] = NoProc
  BY <1>0, <1>7, <1>a DEF ShutdownKill, ForceExit, KernelIsolated, ExitCode
<1>8. ASSUME \/ ShutdownBegin \/ ShutdownKillStart \/ ShutdownKillEnd
             \/ ShutdownClear \/ UNCHANGED vars
             \/ \E w \in Waits : WaitTimeout(w)
      PROVE  Goal
  BY <1>8 DEF ShutdownBegin, ShutdownKillStart, ShutdownKillEnd,
     ShutdownClear, WaitTimeout, vars, KernelUntouched, KernelIsolated
<1> QED
  BY <1>4, <1>5, <1>6, <1>7, <1>8 DEF Next

(* The kernel process stays out of reach: it has no pid, worker, timer,    *)
(* connection or call in flight.                                           *)
THEOREM KernelStaysIsolated == Spec => []KernelIsolated
<1>1. Init => KernelIsolated
  BY ProcAssumption DEF Init, KernelIsolated, Started
<1>2. TypeOK /\ TableConsistent /\ KernelIsolated /\ [Next]_vars
        => KernelIsolated'
  <2> SUFFICES ASSUME TypeOK, TableConsistent, KernelIsolated, [Next]_vars
               PROVE  KernelIsolated'
    OBVIOUS
  <2>1. CASE KernelUntouched
    BY <2>1, KernelSteps, KernelHasNoPid
       DEF KernelUntouched, KernelIsolated, Started
  <2>2. CASE ShutdownKill(Kernel)
    <3>1. /\ state'[Kernel] = "zombie" /\ liveWorkers' \subseteq liveWorkers
          /\ UNCHANGED <<worker, accepted, exiting, clients, timers>>
      BY <2>2, ProcAssumption DEF ShutdownKill, ForceExit, TerminateWorker, TypeOK
    <3> QED
      BY <3>1, KernelSteps, KernelHasNoPid DEF KernelIsolated, Started
  <2> QED
    BY <2>1, <2>2, KernelSteps
<1> QED
  BY <1>1, <1>2, TypeCorrect, TableStaysConsistent, PTL DEF Spec

(* init dies in the kill loop of shutdown() only, so until then there is   *)
(* always a process to adopt orphans.                                      *)
THEOREM InitOutlives == Spec => []InitOutlivesSystem
<1>1. Init => InitOutlivesSystem
  BY ProcAssumption DEF Init, InitOutlivesSystem
<1>2. TypeOK /\ TableConsistent /\ KernelIsolated /\ InitOutlivesSystem
        /\ [Next]_vars => InitOutlivesSystem'
  <2> SUFFICES ASSUME TypeOK, TableConsistent, KernelIsolated,
                      InitOutlivesSystem, [Next]_vars, state'[Kernel] = "zombie"
               PROVE  phase' \in {"killing", "killed", "down"}
    BY DEF InitOutlivesSystem
  <2>1. phase \in {"killing", "killed", "down"}
          => phase' \in {"killing", "killed", "down"}
    <3>1. ASSUME NEW p \in Proc, ProcStep(p) PROVE phase' = phase
      BY <3>1 DEF ProcStep, Accept, OtherSyscall, Spawn, ProcCreate, ExitBegin,
         ExitEnd, KillNow, KillTerm, WaitZombie, WaitRegister
    <3>2. ASSUME NEW q \in Proc, KernelStep(q) PROVE phase' = phase
      BY <3>2 DEF KernelStep, SpawnDetached, SpawnReady, SpawnFails,
         GatewayConnect, GatewayDisconnect, GraceExpires, ExternalKill,
         WorkerError, ExternalWait
    <3>3. CASE UNCHANGED vars \/ \E w \in Waits : WaitTimeout(w)
      BY <3>3 DEF vars, WaitTimeout
    <3>4. CASE phase # "killing" /\ (\/ ShutdownBegin \/ ShutdownKillStart
                                     \/ ShutdownClear)
      BY <3>4 DEF ShutdownBegin, ShutdownKillStart, ShutdownClear
    <3>5. CASE phase = "killing" /\ (\/ \E p \in Proc : ShutdownKill(p)
                                     \/ ShutdownKillEnd)
      BY <3>5 DEF ShutdownKill, ShutdownKillEnd
    <3> QED
      BY <3>1, <3>2, <3>3, <3>4, <3>5 DEF Next
  <2>2. CASE KernelUntouched
    BY <2>1, <2>2 DEF KernelUntouched, InitOutlivesSystem
  <2>3. CASE phase = "killing"
    BY <2>1, <2>3
  <2> QED
    BY <2>2, <2>3, KernelSteps
<1> QED
  BY <1>1, <1>2, TypeCorrect, TableStaysConsistent, KernelStaysIsolated, PTL
     DEF Spec

-----------------------------------------------------------------------------
(* The namespace of a living parent.                                       *)
Listed(q) == \E e \in children[parent[q]] : e[2] = q

(* Steps that take no pid away and resurrect nobody.                       *)
LEMMA GrowingKeepsListed ==
  ASSUME TypeOK, LiveChildListed,
         \A r \in Proc : state[r] = "zombie" => state'[r] = "zombie",
         \A c \in Proc : children[c] \subseteq children'[c],
         \A r \in processes' : \/ r \in processes /\ parent'[r] = parent[r]
                               \/ parent'[r] # NoProc => Listed(r)'
  PROVE  LiveChildListed'
<1> SUFFICES ASSUME NEW q \in processes', parent'[q] # NoProc,
                    state'[parent'[q]] # "zombie"
             PROVE  \E e \in children'[parent'[q]] : e[2] = q
  BY DEF LiveChildListed
<1>1. CASE q \in processes /\ parent'[q] = parent[q]
  <2>1. parent[q] \in Proc
    BY <1>1 DEF TypeOK, ProcOrNone
  <2>2. \E e \in children[parent[q]] : e[2] = q
    BY <1>1, <2>1 DEF LiveChildListed
  <2> QED
    BY <1>1, <2>1, <2>2
<1>2. CASE Listed(q)'
  BY <1>2 DEF Listed
<1> QED
  BY <1>1, <1>2

(* The end of a process: orphans are listed by init under pids no waiter   *)
(* has, and what the waiters reap is the process that ended.               *)
LEMMA EndKeepsListed ==
  ASSUME TypeOK, WaitersReapTheirOwn, LiveChildListed, NEW p \in Proc,
         NEW code \in ExitCode, ReparentAndNotify(p, code),
         state' = [state EXCEPT ![p] = "zombie"]
  PROVE  LiveChildListed'
<1>1. PICK pidOf \in Adoptions(Orphans(p)) :
        children' =
          [c \in Proc |->
             {e \in children[c] \cup
                (IF c = initProcess THEN Adopted(p, pidOf) ELSE {}) :
                ~ \E w \in Reapers(p) :
                    wait[w].caller = c /\ wait[w].pid = e[1]}]
  BY DEF ReparentAndNotify
<1> SUFFICES ASSUME NEW q \in processes', parent'[q] # NoProc,
                    state'[parent'[q]] # "zombie"
             PROVE  \E e \in children'[parent'[q]] : e[2] = q
  BY DEF LiveChildListed
<1>2. /\ q \in processes /\ q \in Proc
      /\ parent'[q] = IF q \in Orphans(p) THEN initProcess ELSE parent[q]
      /\ Reapers(p) # {} => q # p
  BY DEF ReparentAndNotify, TypeOK
<1>3. CASE q \in Orphans(p)
  <2> DEFINE e == <<pidOf[q], q>>
  <2>1. /\ parent'[q] = initProcess /\ initProcess \in Proc
        /\ pidOf[q] \in Nat /\ nextPid[initProcess] <= pidOf[q]
    BY <1>2, <1>3, AdoptionFacts
  <2>2. e \in Adopted(p, pidOf)
    BY <1>3 DEF Adopted
  <2>3. ASSUME NEW w \in Reapers(p), wait[w].caller = initProcess,
               wait[w].pid = pidOf[q]
        PROVE  FALSE
    <3>1. w \in Waits /\ Pending(w) /\ wait[w].caller # NoProc
      BY DEF Reapers, Notified
    <3>2. wait[w].pid < nextPid[initProcess] /\ wait[w].pid \in Nat
      BY <2>3, <3>1 DEF WaitersReapTheirOwn, TypeOK, Wait
    <3>3. nextPid[initProcess] \in Nat
      BY <2>1 DEF TypeOK
    <3> QED
      BY <2>1, <2>3, <3>2, <3>3
  <2>4. e \in children'[initProcess]
    BY <1>1, <2>1, <2>2, <2>3
  <2> QED
    BY <2>1, <2>4
<1>4. CASE q \notin Orphans(p)
  <2>1. parent'[q] = parent[q] /\ parent[q] \in Proc
    BY <1>2, <1>4 DEF TypeOK, ProcOrNone
  <2>2. state[parent[q]] # "zombie"
    BY <2>1 DEF TypeOK
  <2>3. PICK e \in children[parent[q]] : e[2] = q
    BY <1>2, <2>1, <2>2 DEF LiveChildListed
  <2>4. ASSUME NEW w \in Reapers(p), wait[w].caller = parent[q],
               wait[w].pid = e[1]
        PROVE  FALSE
    <3>1. /\ w \in Waits /\ Pending(w) /\ wait[w].caller # NoProc
          /\ wait[w].target = p
      BY DEF Reapers, Notified
    <3>2. q = p
      BY <2>3, <2>4, <3>1 DEF WaitersReapTheirOwn
    <3> QED
      BY <1>2, <3>2
  <2>5. e \in children'[parent[q]]
    BY <1>1, <2>1, <2>3, <2>4
  <2> QED
    BY <2>1, <2>3, <2>5
<1> QED
  BY <1>3, <1>4

(* A registered child can be found in the namespace of its living parent,  *)
(* by wait() and by kill(): through spawns that finish late, adoptions by  *)
(* init, and the waiters of former parents.                                *)
THEOREM LiveChildrenStayListed == Spec => []LiveChildListed
<1>1. Init => LiveChildListed
  <2> SUFFICES ASSUME Init, NEW q \in processes PROVE parent[q] = NoProc
    BY DEF LiveChildListed
  <2>1. q \in Proc
    BY ProcAssumption DEF Init
  <2> QED
    BY <2>1 DEF Init
<1>2. TypeOK /\ TableConsistent /\ PidsUnique /\ WaitersReapTheirOwn
        /\ LiveChildListed /\ [Next]_vars => LiveChildListed'
  <2> SUFFICES ASSUME TypeOK, TableConsistent, PidsUnique, WaitersReapTheirOwn,
                      LiveChildListed, [Next]_vars
               PROVE  LiveChildListed'
    OBVIOUS
  <2>1. ASSUME UNCHANGED <<children, parent>>, processes' \subseteq processes,
               \A r \in Proc : state[r] = "zombie" => state'[r] = "zombie"
        PROVE  LiveChildListed'
    BY <2>1, GrowingKeepsListed
  <2>2. ASSUME NEW p \in Proc, NEW code \in ExitCode, ForceExit(p, code)
        PROVE  LiveChildListed'
    BY <2>1, <2>2, EndKeepsListed DEF ForceExit
  <2>3. ASSUME NEW p \in Proc, ExitEnd(p) PROVE LiveChildListed'
    <3>1. state[p] = "zombie" /\ exitCode[p] \in ExitCode
      BY <2>3 DEF ExitEnd, TableConsistent, TypeOK
    <3>2. state' = [state EXCEPT ![p] = "zombie"]
      BY <2>3, <3>1 DEF ExitEnd, TypeOK
    <3> QED
      BY <2>3, <3>1, <3>2, EndKeepsListed DEF ExitEnd
  <2>4. ASSUME NEW q \in Proc, ~Started(q), NEW new \in ProcessState,
               state' = [state EXCEPT ![q] = new], NEW par \in ProcOrNone,
               parent' = [parent EXCEPT ![q] = par],
               \/ UNCHANGED <<children, processes>>
               \/ par = NoProc /\ UNCHANGED children /\ Register(q)
               \/ par \in Proc /\ AssignPid(par, q) /\ Register(q)
        PROVE  LiveChildListed'
    <3>1. \A r \in Proc : state[r] = "zombie" => state'[r] = "zombie"
      BY <2>4 DEF Started, TypeOK
    <3>2. q \notin processes
      BY <2>4 DEF TableConsistent
    <3>3. \A r \in processes : parent'[r] = parent[r]
      BY <2>4, <3>2 DEF TypeOK
    <3>4. parent'[q] = par
      BY <2>4 DEF TypeOK
    <3>5. \A c \in Proc : children[c] \subseteq children'[c]
      BY <2>4 DEF AssignPid, TypeOK
    <3>6. par \in Proc /\ AssignPid(par, q)
            => <<nextPid[par], q>> \in children'[par]
      BY DEF AssignPid, TypeOK
    <3>7. \A r \in processes' : \/ r \in processes /\ parent'[r] = parent[r]
                                \/ parent'[r] # NoProc => Listed(r)'
      BY <2>4, <3>3, <3>4, <3>6 DEF Register, Listed
    <3> QED
      BY <3>1, <3>5, <3>7, GrowingKeepsListed
  <2>5. ASSUME NEW p \in Proc, NEW e \in children[p], NEW w \in Waits,
               WaitZombie(p, e, w)
        PROVE  LiveChildListed'
    <3> SUFFICES ASSUME NEW q \in processes', parent'[q] # NoProc,
                        state'[parent'[q]] # "zombie"
                 PROVE  \E f \in children'[parent'[q]] : f[2] = q
      BY DEF LiveChildListed
    <3>1. /\ q \in processes /\ q # e[2] /\ parent'[q] = parent[q]
          /\ parent[q] \in Proc /\ state[parent[q]] # "zombie"
      BY <2>5 DEF WaitZombie, TypeOK, ProcOrNone
    <3>2. PICK f \in children[parent[q]] : f[2] = q
      BY <3>1 DEF LiveChildListed
    <3>3. parent[q] = p => f[1] # e[1]
      BY <3>1, <3>2 DEF PidsUnique
    <3>4. f \in children'[parent[q]]
      BY <2>5, <3>1, <3>2, <3>3 DEF WaitZombie, TypeOK
    <3> QED
      BY <3>1, <3>2, <3>4
  <2>6. ASSUME NEW p \in Proc, ProcStep(p) PROVE LiveChildListed'
    <3>1. ASSUME NEW e \in children[p], KillNow(p, e) PROVE LiveChildListed'
      BY <2>2, <3>1 DEF KillNow, ExitCode, TypeOK
    <3>2. ASSUME NEW q \in Proc, Spawn(p, q) PROVE LiveChildListed'
      BY <2>4, <3>2 DEF Spawn, Started, ProcessState, ProcOrNone
    <3>3. ASSUME NEW q \in Proc, ProcCreate(p, q) PROVE LiveChildListed'
      BY <2>4, <3>3 DEF ProcCreate, CreateVirtualProcess, Started,
         ProcessState, ProcOrNone
    <3>4. CASE ExitBegin(p)
      BY <2>1, <3>4 DEF ExitBegin, TypeOK
    <3> QED
      BY <2>1, <2>3, <2>5, <2>6, <3>1, <3>2, <3>3, <3>4 DEF ProcStep, Accept,
         OtherSyscall, KillTerm, WaitRegister
  <2>7. ASSUME NEW q \in Proc, KernelStep(q) PROVE LiveChildListed'
    <3>1. {"termed", "killed", "crashed", "exited"} \subseteq ExitCode
      BY DEF ExitCode
    <3>2. CASE GraceExpires(q) \/ ExternalKill(q) \/ WorkerError(q)
                 \/ GatewayDisconnect(q)
      BY <2>1, <2>2, <3>1, <3>2 DEF GraceExpires, ExternalKill, WorkerError,
         GatewayDisconnect
    <3>3. CASE SpawnDetached(q)
      BY <2>4, <3>3 DEF SpawnDetached, Started, ProcessState, ProcOrNone
    <3>4. CASE SpawnReady(q) \/ SpawnFails(q)
      <4>1. parent' = [parent EXCEPT ![q] = parent[q]]
        BY <3>4 DEF SpawnReady, SpawnFails, TypeOK
      <4>2. parent[q] = NoProc \/ parent[q] \in Proc
        BY DEF TypeOK, ProcOrNone
      <4> QED
        BY <2>4, <3>4, <4>1, <4>2 DEF SpawnReady, SpawnFails, Started,
           ProcessState, ProcOrNone
    <3>5. CASE GatewayConnect(q)
      <4>1. initProcess \in Proc
        BY <3>5 DEF GatewayConnect, TypeOK, ProcOrNone
      <4> QED
        BY <2>4, <3>5, <4>1 DEF GatewayConnect, CreateVirtualProcess, Started,
           ProcessState, ProcOrNone
    <3>6. CASE \E w \in Waits : ExternalWait(q, w)
      BY <2>1, <3>6 DEF ExternalWait
    <3> QED
      BY <2>7, <3>2, <3>3, <3>4, <3>5, <3>6 DEF KernelStep
  <2>8. ASSUME NEW p \in Proc, ShutdownKill(p) PROVE LiveChildListed'
    BY <2>2, <2>8 DEF ShutdownKill, ExitCode
  <2>9. CASE \/ ShutdownBegin \/ ShutdownKillStart \/ ShutdownKillEnd
             \/ ShutdownClear \/ UNCHANGED vars
             \/ \E w \in Waits : WaitTimeout(w)
    BY <2>1, <2>9 DEF ShutdownBegin, ShutdownKillStart, ShutdownKillEnd,
       ShutdownClear, WaitTimeout, vars
  <2> QED
    BY <2>6, <2>7, <2>8, <2>9 DEF Next
<1> QED
  BY <1>1, <1>2, TypeCorrect, TableStaysConsistent, PidsStayUnique,
     WaitersNeverReapSiblings, PTL DEF Spec

-----------------------------------------------------------------------------
(* Leaving the table.                                                      *)
ReapStep ==
  \A q \in Proc :
    /\ q \in processes \ processes' => phase' = "down" \/ state'[q] = "zombie"
    /\ q \in processes' \ processes => state[q] \in {"absent", "starting"}

(* A process leaves the table as a zombie, or when shutdown clears the     *)
(* table, and never comes back.                                            *)
THEOREM ReapingIsForGood == Spec => ReapedForGood
<1>1. TypeOK /\ TableConsistent /\ [Next]_vars => [ReapStep]_vars
  <2> SUFFICES ASSUME TypeOK, TableConsistent, Next PROVE ReapStep
    BY DEF vars
  <2>1. processes' = processes => ReapStep
    BY DEF ReapStep
  <2>2. ASSUME NEW p \in Proc, NEW code \in ExitCode,
               ReparentAndNotify(p, code), state'[p] = "zombie"
        PROVE  ReapStep
    BY <2>2 DEF ReparentAndNotify, ReapStep
  <2>3. ASSUME NEW p \in Proc, NEW code \in ExitCode, ForceExit(p, code)
        PROVE  ReapStep
    BY <2>1, <2>2, <2>3 DEF ForceExit, TypeOK
  <2>4. ASSUME NEW q \in Proc, Register(q), state[q] \in {"absent", "starting"}
        PROVE  ReapStep
    BY <2>4 DEF Register, ReapStep
  <2>5. ASSUME NEW p \in Proc, ProcStep(p) PROVE ReapStep
    <3>1. ASSUME NEW e \in children[p], KillNow(p, e) PROVE ReapStep
      BY <2>3, <3>1 DEF KillNow, ExitCode, TypeOK
    <3>2. CASE ExitEnd(p)
      BY <2>2, <3>2 DEF ExitEnd, TableConsistent, TypeOK
    <3>3. ASSUME NEW q \in Proc, ProcCreate(p, q) PROVE ReapStep
      BY <2>4, <3>3 DEF ProcCreate, CreateVirtualProcess
    <3>4. ASSUME NEW e \in children[p], NEW w \in Waits, WaitZombie(p, e, w)
          PROVE  ReapStep
      BY <3>4 DEF WaitZombie, ReapStep
    <3> QED
      BY <2>1, <2>5, <3>1, <3>2, <3>3, <3>4 DEF ProcStep, Accept,
         OtherSyscall, Spawn, ExitBegin, KillTerm, WaitRegister
  <2>6. ASSUME NEW q \in Proc, KernelStep(q) PROVE ReapStep
    <3>1. {"termed", "killed", "crashed", "exited"} \subseteq ExitCode
      BY DEF ExitCode
    <3>2. CASE GraceExpires(q) \/ ExternalKill(q) \/ WorkerError(q)
                 \/ GatewayDisconnect(q)
      BY <2>1, <2>3, <3>1, <3>2 DEF GraceExpires, ExternalKill, WorkerError,
         GatewayDisconnect
    <3>3. CASE SpawnReady(q) \/ GatewayConnect(q)
      BY <2>4, <3>3 DEF SpawnReady, GatewayConnect, CreateVirtualProcess
    <3> QED
      BY <2>1, <2>6, <3>2, <3>3 DEF KernelStep, SpawnDetached, SpawnFails,
         ExternalWait
  <2>7. ASSUME NEW p \in Proc, ShutdownKill(p) PROVE ReapStep
    BY <2>3, <2>7 DEF ShutdownKill, ExitCode
  <2>8. CASE ShutdownClear
    BY <2>8 DEF ShutdownClear, ReapStep
  <2>9. CASE \/ ShutdownBegin \/ ShutdownKillStart \/ ShutdownKillEnd
             \/ \E w \in Waits : WaitTimeout(w)
    BY <2>1, <2>9 DEF ShutdownBegin, ShutdownKillStart, ShutdownKillEnd,
       WaitTimeout
  <2> QED
    BY <2>5, <2>6, <2>7, <2>8, <2>9 DEF Next
<1>2. [ReapStep]_vars <=>
      [\A q \in Proc :
         /\ q \in processes \ processes' => phase' = "down" \/ state'[q] = "zombie"
         /\ q \in processes' \ processes => state[q] \in {"absent", "starting"}]_vars
  BY DEF ReapStep
<1> QED
  BY <1>1, <1>2, TypeCorrect, TableStaysConsistent, PTL DEF Spec, ReapedForGood

-----------------------------------------------------------------------------
(* SIGTERM.  A grace timer is set for a process that has started, and what *)
(* has started does not start again: so the timer finds it running, and    *)
(* kills it, or finds it dead.                                             *)
ArmedAreStarted == \A q \in Proc : q \in timers => Started(q)

(* No timer goes before its target is dead, and no process rises again.    *)
TermsEndInDeath ==
  \A q \in Proc :
    /\ q \in timers /\ q \notin timers' => state'[q] = "zombie"
    /\ state[q] = "zombie" => state'[q] = "zombie"

(* Who sets a timer and who drops one.                                     *)
LEMMA TimerSteps ==
  ASSUME TypeOK, TableConsistent, [Next]_vars, NEW q \in Proc
  PROVE  /\ q \in timers' => q \in timers \/ Started(q)
         /\ q \in timers /\ q \notin timers' => GraceExpires(q)
<1> DEFINE Goal == /\ q \in timers' => q \in timers \/ Started(q)
                   /\ q \in timers /\ q \notin timers' => GraceExpires(q)
<1>1. timers' = timers => Goal
  OBVIOUS
<1>2. ASSUME NEW p \in Proc, ProcStep(p) PROVE Goal
  <2>1. ASSUME NEW e \in children[p], KillTerm(p, e) PROVE Goal
    BY <2>1 DEF KillTerm, MaySignal, TableConsistent
  <2> QED
    BY <1>1, <1>2, <2>1 DEF ProcStep, Accept, OtherSyscall, Spawn, ProcCreate,
       ExitBegin, ExitEnd, KillNow, WaitZombie, WaitRegister
<1>3. ASSUME NEW p \in Proc, KernelStep(p) PROVE Goal
  <2>1. CASE GraceExpires(p)
    BY <2>1 DEF GraceExpires
  <2>2. CASE ExternalKill(p)
    BY <2>2 DEF ExternalKill, TableConsistent
  <2> QED
    BY <1>1, <1>3, <2>1, <2>2 DEF KernelStep, SpawnDetached, SpawnReady,
       SpawnFails, GatewayConnect, GatewayDisconnect, WorkerError, ExternalWait
<1>4. ASSUME NEW p \in Proc, ShutdownKill(p) PROVE Goal
  BY <1>1, <1>4 DEF ShutdownKill
<1>5. CASE \/ ShutdownBegin \/ ShutdownKillStart \/ ShutdownKillEnd
           \/ ShutdownClear \/ UNCHANGED vars
           \/ \E w \in Waits : WaitTimeout(w)
  BY <1>1, <1>5 DEF ShutdownBegin, ShutdownKillStart, ShutdownKillEnd,
     ShutdownClear, WaitTimeout, vars
<1> QED
  BY <1>2, <1>3, <1>4, <1>5 DEF Next

LEMMA StartedForGood ==
  ASSUME TypeOK, TableConsistent, [Next]_vars, NEW q \in Proc
  PROVE  /\ Started(q) => Started(q)'
         /\ state[q] = "zombie" => state'[q] = "zombie"
BY LifeSteps DEF LifeStep, Started

(* SIGTERM is fatal, short of the fairness of timers: a grace timer is     *)
(* dropped as its target dies or because it is dead, whoever ends it, and  *)
(* the dead stay dead.                                                     *)
THEOREM TermIsNeverLost == Spec => [][TermsEndInDeath]_vars
<1>1. Init => ArmedAreStarted
  BY DEF Init, ArmedAreStarted
<1>2. TypeOK /\ TableConsistent /\ ArmedAreStarted /\ [Next]_vars => ArmedAreStarted'
  <2> SUFFICES ASSUME TypeOK, TableConsistent, ArmedAreStarted, [Next]_vars,
                      NEW q \in Proc, q \in timers'
               PROVE  Started(q)'
    BY DEF ArmedAreStarted
  <2>1. Started(q)
    BY TimerSteps DEF ArmedAreStarted
  <2> QED
    BY <2>1, StartedForGood
<1>3. TypeOK /\ TableConsistent /\ ArmedAreStarted /\ [Next]_vars => [TermsEndInDeath]_vars
  <2> SUFFICES ASSUME TypeOK, TableConsistent, ArmedAreStarted, [Next]_vars
               PROVE  TermsEndInDeath
    OBVIOUS
  <2> SUFFICES ASSUME NEW q \in Proc, q \in timers, q \notin timers'
               PROVE  state'[q] = "zombie"
    BY StartedForGood DEF TermsEndInDeath
  <2>1. GraceExpires(q) /\ Started(q)
    BY TimerSteps DEF ArmedAreStarted
  <2>2. CASE state[q] = "running"
    <3>1. ForceExit(q, "termed")
      BY <2>1, <2>2 DEF GraceExpires
    <3> QED
      BY <2>2, <3>1 DEF ForceExit, TypeOK
  <2>3. CASE state[q] = "zombie"
    BY <2>3, StartedForGood
  <2> QED
    BY <2>1, <2>2, <2>3 DEF Started
<1> QED
  BY <1>1, <1>2, <1>3, TypeCorrect, TableStaysConsistent, PTL DEF Spec

-----------------------------------------------------------------------------
(* Gateway.  That a client's requests are begun in order follows from what *)
(* is on the way to the handler; that its streams are all cancelled, from  *)
(* this, since a frame is then a new request, and from what each table of  *)
(* streams names.  What becomes of a request rests on who owns it: only    *)
(* the connection that read it can abort it, and does so as it closes.     *)

(* Types.  What is behind an id in a table of streams is left open.        *)
Message == [st : {"none", "sent", "running", "paused", "answered", "ignored", "refused", "dropped", "lost"},
            client : Client \cup {None}, id : Id \cup {None}, form : {"call", "bad", "nil"},
            items : Nat, aborted : BOOLEAN]
WireUnit == Request \X {"head", "body"}
GatewayTypes ==
  /\ listening \in BOOLEAN
  /\ conn \in [Client -> {"none", "open", "closed", "gone"}]
  /\ wire \in [Client -> Seq(WireUnit)] /\ buffer \in [Client -> Seq(WireUnit)]
  /\ request \in [Request -> Message]
  /\ streams = [c \in Client |-> [i \in Id |-> streams[c][i]]]
  /\ sent \in [Client -> Seq(Request)] /\ begun \in [Client -> Seq(Request)]
  /\ shared \subseteq Request

(* What a client has written and the handler has not begun is on its way,  *)
(* two units each, until the client has gone.                              *)
InOrder(c) ==
  /\ Len(begun[c]) <= Len(sent[c])
  /\ \A i \in DOMAIN begun[c] : begun[c][i] = sent[c][i]
  /\ Len(buffer[c]) < 2 /\ (c \notin Tcp => buffer[c] = <<>>)
OnTheWay(c) ==
  LET units == buffer[c] \o wire[c]
      left  == Len(sent[c]) - Len(begun[c])
  IN /\ Len(units) = 2 * left
     /\ \A i \in 1..left : units[2 * i - 1][1] = sent[c][Len(begun[c]) + i]
Delivers(c) == InOrder(c) /\ (conn[c] # "gone" => OnTheWay(c))
Delivering == \A c \in Client : Delivers(c)

(* A message is its client's, is written once, and waits until it is begun.*)
Mailed(c) ==
  /\ \A i \in DOMAIN sent[c] :
       request[sent[c][i]].client = c /\ request[sent[c][i]].st # "none"
  /\ \A i, j \in DOMAIN sent[c] : sent[c][i] = sent[c][j] => i = j
  /\ conn[c] # "gone" =>
       \A i \in DOMAIN sent[c] : i > Len(begun[c]) =>
         request[sent[c][i]].st = "sent" /\ request[sent[c][i]].id \in Id
Messages == \A c \in Client : Mailed(c)

(* A request that runs alone under its id is the one behind it.            *)
Together(q, r) ==
  Active(q) /\ Active(r) /\ request[q].client = request[r].client /\ request[q].id = request[r].id
Tabled ==
  /\ \A r \in Request : Active(r) => request[r].client \in Client /\ request[r].id \in Id
  /\ \A q, r \in Request : Together(q, r) /\ q # r => r \in shared
  /\ \A r \in Request : Active(r) /\ r \notin shared /\ conn[request[r].client] # "gone" =>
       streams[request[r].client][request[r].id] = r

GatewayInv == GatewayTypes /\ Delivering /\ Messages /\ Tabled /\ StreamsCancelled

-----------------------------------------------------------------------------
(* Frames.                                                                 *)
LEMMA Halves ==
  ASSUME NEW n \in Nat
  PROVE  n \div 2 \in Nat /\ 2 * (n \div 2) <= n /\ n < 2 * (n \div 2) + 2
OBVIOUS

LEMMA FramesAre ==
  ASSUME NEW units \in Seq(WireUnit)
  PROVE  LET k == Len(units) \div 2 IN
         /\ Frames(units) \in Seq(Request) /\ Len(Frames(units)) = k
         /\ \A i \in 1..k : Frames(units)[i] = units[2 * i - 1][1]
         /\ Rest(units) \in Seq(WireUnit) /\ Len(Rest(units)) = Len(units) - 2 * k
         /\ \A i \in 1..(Len(units) - 2 * k) : Rest(units)[i] = units[2 * k + i]
<1> DEFINE k == Len(units) \div 2
           m == 2 * k
<1>1. Len(units) \in Nat /\ k \in Nat /\ m \in Nat /\ m <= Len(units)
  BY Halves
<1> HIDE DEF k
<1>2. \A i \in 1..k : 2 * i - 1 \in 1..Len(units)
  BY <1>1
<1>3. \A i \in 1..k : units[2 * i - 1][1] \in Request
  BY <1>2 DEF WireUnit
<1>4. Frames(units) = [i \in 1..k |-> units[2 * i - 1][1]]
  BY DEF Frames, k
<1>5. Frames(units) \in [1..k -> Request]
  BY <1>3, <1>4
<1>6. Frames(units) \in Seq(Request) /\ Len(Frames(units)) = k
  BY <1>1, <1>5
<1>7. Rest(units) = SubSeq(units, m + 1, Len(units))
  BY DEF Rest, k
<1> HIDE DEF m
<1>8. /\ Rest(units) \in Seq(WireUnit)
      /\ Len(Rest(units)) = Len(units) - m
      /\ \A i \in 1..(Len(units) - m) : Rest(units)[i] = units[m + i]
  <2>1. m + 1 \in 1..Len(units) + 1
    BY <1>1
  <2>2. CASE m = Len(units)
    <3>1. Rest(units) = << >>
      BY <1>1, <1>7, <2>2
    <3> QED
      BY <1>1, <2>2, <3>1
  <2>3. CASE m # Len(units)
    <3>1. m + 1 \in 1..Len(units) /\ Len(units) \in 1..Len(units)
      BY <1>1, <2>3
    <3>2. \A i \in m + 1..Len(units) : units[i] \in WireUnit
      BY <1>1
    <3>3. /\ SubSeq(units, m + 1, Len(units)) \in Seq(WireUnit)
          /\ Len(SubSeq(units, m + 1, Len(units))) = Len(units) - (m + 1) + 1
          /\ \A i \in 1..(Len(units) - (m + 1) + 1) :
               SubSeq(units, m + 1, Len(units))[i] = units[m + 1 + i - 1]
      BY <1>1, <3>1, <3>2, SubSeqProperties
    <3>4. Len(units) - (m + 1) + 1 = Len(units) - m
      BY <1>1
    <3>5. ASSUME NEW i \in 1..(Len(units) - m) PROVE Rest(units)[i] = units[m + i]
      <4>1. m + 1 + i - 1 = m + i
        BY <1>1
      <4> QED
        BY <1>7, <3>3, <3>4, <4>1
    <3> QED
      BY <1>7, <3>3, <3>4, <3>5
  <2> QED
    BY <2>2, <2>3
<1>9. m = 2 * k
  BY DEF m
<1> QED
  BY <1>4, <1>5, <1>6, <1>8, <1>9 DEF k

(* What is on the way before and after a chunk.                            *)
LEMMA ChunkIs ==
  ASSUME NEW b \in Seq(WireUnit), NEW w \in Seq(WireUnit), NEW n \in 1..Len(w)
  PROVE  LET units == b \o SubSeq(w, 1, n)
             rest  == SubSeq(w, n + 1, Len(w))
         IN /\ units \in Seq(WireUnit) /\ Len(units) = Len(b) + n
            /\ rest \in Seq(WireUnit) /\ Len(rest) = Len(w) - n
            /\ \A i \in 1..(Len(b) + n) : units[i] = (b \o w)[i]
            /\ \A i \in 1..(Len(w) - n) : rest[i] = (b \o w)[Len(b) + n + i]
<1> DEFINE chunk == SubSeq(w, 1, n)
           rest  == SubSeq(w, n + 1, Len(w))
<1>1. Len(b) \in Nat /\ Len(w) \in Nat /\ n \in Nat /\ 1 <= n /\ n <= Len(w)
  OBVIOUS
<1>2. /\ chunk \in Seq(WireUnit) /\ Len(chunk) = n
      /\ \A i \in 1..n : chunk[i] = w[i]
  <2>1. \A i \in 1..n : w[i] \in WireUnit
    BY <1>1
  <2>2. chunk \in Seq(WireUnit) /\ Len(chunk) = n - 1 + 1
        /\ \A i \in 1..(n - 1 + 1) : chunk[i] = w[1 + i - 1]
    BY <1>1, <2>1, SubSeqProperties
  <2> QED
    BY <1>1, <2>2
<1>3. /\ rest \in Seq(WireUnit) /\ Len(rest) = Len(w) - n
      /\ \A i \in 1..(Len(w) - n) : rest[i] = w[n + i]
  <2>1. CASE n = Len(w)
    <3>1. rest = << >>
      BY <1>1, <2>1
    <3> QED
      BY <1>1, <2>1, <3>1
  <2>2. CASE n # Len(w)
    <3>1. \A i \in n + 1..Len(w) : w[i] \in WireUnit
      BY <1>1
    <3>2. rest \in Seq(WireUnit) /\ Len(rest) = Len(w) - (n + 1) + 1
          /\ \A i \in 1..(Len(w) - (n + 1) + 1) : rest[i] = w[n + 1 + i - 1]
      BY <1>1, <2>2, <3>1, SubSeqProperties
    <3>3. Len(w) - (n + 1) + 1 = Len(w) - n
      BY <1>1
    <3>4. ASSUME NEW i \in 1..(Len(w) - n) PROVE rest[i] = w[n + i]
      <4>1. n + 1 + i - 1 = n + i
        BY <1>1
      <4> QED
        BY <3>2, <3>3, <4>1
    <3> QED
      BY <3>2, <3>3, <3>4
  <2> QED
    BY <2>1, <2>2
<1> HIDE DEF chunk, rest
<1>4. /\ b \o chunk \in Seq(WireUnit) /\ Len(b \o chunk) = Len(b) + n
      /\ \A i \in 1..(Len(b) + n) : (b \o chunk)[i] = IF i <= Len(b) THEN b[i] ELSE chunk[i - Len(b)]
  BY <1>1, <1>2, ConcatProperties
<1>5. /\ Len(b \o w) = Len(b) + Len(w)
      /\ \A i \in 1..(Len(b) + Len(w)) : (b \o w)[i] = IF i <= Len(b) THEN b[i] ELSE w[i - Len(b)]
  BY <1>1, ConcatProperties
<1>6. \A i \in 1..(Len(b) + n) : (b \o chunk)[i] = (b \o w)[i]
  <2> TAKE i \in 1..(Len(b) + n)
  <2>1. i \in 1..(Len(b) + Len(w))
    BY <1>1
  <2>2. CASE i <= Len(b)
    BY <1>4, <1>5, <2>1, <2>2
  <2>3. CASE ~(i <= Len(b))
    <3>1. i - Len(b) \in 1..n
      BY <1>1, <2>3
    <3> QED
      BY <1>2, <1>4, <1>5, <2>1, <2>3, <3>1
  <2> QED
    BY <2>2, <2>3
<1>7. \A i \in 1..(Len(w) - n) : rest[i] = (b \o w)[Len(b) + n + i]
  <2> TAKE i \in 1..(Len(w) - n)
  <2>1. Len(b) + n + i \in 1..(Len(b) + Len(w)) /\ ~(Len(b) + n + i <= Len(b))
        /\ Len(b) + n + i - Len(b) = n + i
    BY <1>1
  <2> QED
    BY <1>3, <1>5, <2>1
<1> QED
  BY <1>3, <1>4, <1>6, <1>7 DEF chunk, rest

-----------------------------------------------------------------------------
(* What the steps do to messages.                                          *)
LEMMA ClosedIs ==
  ASSUME NEW c \in Client \cup {None}, NEW st \in {"answered", "ignored", "refused", "dropped", "lost"}
  PROVE  /\ Unsent \in Message /\ Closed(c, st) \in Message
         /\ Closed(c, st).st = st /\ Closed(c, st).client = c /\ ~Closed(c, st).aborted
BY DEF Closed, Unsent, Message

LEMMA DispatchedIs ==
  ASSUME request \in [Request -> Message], NEW frames
  PROVE  /\ Dispatched(frames) \in [Request -> Message]
         /\ \A r \in Request :
              LET d == Dispatched(frames)[r] IN
              /\ d.client = request[r].client /\ (d.aborted => request[r].aborted)
              /\ ~Contains(frames, r) => d = request[r]
              /\ Contains(frames, r) /\ request[r].form = "call" => d.st = "running" /\ d.id = request[r].id
              /\ Contains(frames, r) /\ request[r].form # "call" => d.st \in {"answered", "ignored"}
<1> DEFINE D(r) == IF ~Contains(frames, r) THEN request[r]
                   ELSE IF request[r].form = "call" THEN [request[r] EXCEPT !.st = "running"]
                   ELSE Closed(request[r].client,
                               IF request[r].form = "bad" THEN "answered" ELSE "ignored")
<1>1. Dispatched(frames) = [r \in Request |-> D(r)]
  BY DEF Dispatched
<1>2. ASSUME NEW r \in Request
      PROVE  /\ D(r) \in Message /\ D(r).client = request[r].client
             /\ D(r).aborted => request[r].aborted
             /\ ~Contains(frames, r) => D(r) = request[r]
             /\ Contains(frames, r) /\ request[r].form = "call" => D(r).st = "running" /\ D(r).id = request[r].id
             /\ Contains(frames, r) /\ request[r].form # "call" => D(r).st \in {"answered", "ignored"}
  <2>1. request[r] \in Message
    OBVIOUS
  <2> DEFINE fate == IF request[r].form = "bad" THEN "answered" ELSE "ignored"
  <2>2. Closed(request[r].client, fate) \in Message
        /\ Closed(request[r].client, fate).st = fate
        /\ Closed(request[r].client, fate).client = request[r].client
        /\ ~Closed(request[r].client, fate).aborted
    BY <2>1, ClosedIs DEF Message
  <2>3. LET e == [request[r] EXCEPT !.st = "running"] IN
        e \in Message /\ e.st = "running" /\ e.id = request[r].id /\ e.client = request[r].client
        /\ e.aborted = request[r].aborted
    BY <2>1 DEF Message
  <2>4. CASE ~Contains(frames, r)
    BY <2>1, <2>4
  <2>5. CASE Contains(frames, r) /\ request[r].form = "call"
    BY <2>3, <2>5
  <2>6. CASE Contains(frames, r) /\ request[r].form # "call"
    BY <2>2, <2>6
  <2> QED
    BY <2>4, <2>5, <2>6
<1> HIDE DEF D
<1> QED
  BY <1>1, <1>2

LEMMA SeveredIs ==
  ASSUME NEW c \in Client, NEW table, NEW reqs \in [Request -> Message]
  PROVE  /\ Severed(c, table, reqs) \in [Request -> Message]
         /\ \A r \in Request :
              LET s == Severed(c, table, reqs)[r] IN
              /\ s.client = reqs[r].client
              /\ \/ s.st = reqs[r].st /\ s.id = reqs[r].id /\ (reqs[r].aborted => s.aborted)
                 \/ s.st = "lost" /\ reqs[r].st = "sent" /\ s.client = c
              /\ (\E i \in Id : table[i] = r) => s.aborted
              /\ s.aborted => reqs[r].aborted \/ \E i \in Id : table[i] = r
<1> DEFINE S(r) == IF \E i \in Id : table[i] = r THEN [reqs[r] EXCEPT !.aborted = TRUE]
                   ELSE IF reqs[r].st = "sent" /\ reqs[r].client = c THEN Closed(c, "lost")
                   ELSE reqs[r]
<1>1. Severed(c, table, reqs) = [r \in Request |-> S(r)]
  BY DEF Severed
<1>2. ASSUME NEW r \in Request
      PROVE  /\ S(r) \in Message /\ S(r).client = reqs[r].client
             /\ \/ S(r).st = reqs[r].st /\ S(r).id = reqs[r].id /\ (reqs[r].aborted => S(r).aborted)
                \/ S(r).st = "lost" /\ reqs[r].st = "sent" /\ S(r).client = c
             /\ (\E i \in Id : table[i] = r) => S(r).aborted
             /\ S(r).aborted => reqs[r].aborted \/ \E i \in Id : table[i] = r
  <2>1. reqs[r] \in Message
    OBVIOUS
  <2>2. Closed(c, "lost") \in Message /\ Closed(c, "lost").st = "lost" /\ Closed(c, "lost").client = c
        /\ ~Closed(c, "lost").aborted
    BY ClosedIs
  <2>3. LET e == [reqs[r] EXCEPT !.aborted = TRUE] IN
        e \in Message /\ e.aborted /\ e.st = reqs[r].st /\ e.id = reqs[r].id /\ e.client = reqs[r].client
    BY <2>1 DEF Message
  <2>4. CASE \E i \in Id : table[i] = r
    BY <2>3, <2>4
  <2>5. CASE ~(\E i \in Id : table[i] = r) /\ reqs[r].st = "sent" /\ reqs[r].client = c
    BY <2>2, <2>5
  <2>6. CASE ~(\E i \in Id : table[i] = r) /\ ~(reqs[r].st = "sent" /\ reqs[r].client = c)
    BY <2>1, <2>6
  <2> QED
    BY <2>4, <2>5, <2>6
<1> HIDE DEF S
<1> QED
  BY <1>1, <1>2

-----------------------------------------------------------------------------
(* The kinds of steps.                                                     *)

(* Frames are the next that the client wrote.                              *)
NextOf(c, frames) ==
  /\ frames \in Seq(Request)
  /\ Len(begun[c]) + Len(frames) <= Len(sent[c])
  /\ \A i \in DOMAIN frames : frames[i] = sent[c][Len(begun[c]) + i]
Begins(c, frames) ==
  /\ conn[c] \in {"open", "closed"} /\ NextOf(c, frames)
  /\ begun' = [begun EXCEPT ![c] = @ \o frames]
  /\ shared' = shared \cup Sharing(c, frames)
  /\ UNCHANGED <<listening, sent>>
Remains(c, frames, b, w) ==
  LET left == Len(sent[c]) - (Len(begun[c]) + Len(frames))
  IN /\ b \in Seq(WireUnit) /\ w \in Seq(WireUnit)
     /\ Len(b) < 2 /\ (c \notin Tcp => b = <<>>)
     /\ Len(b \o w) = 2 * left
     /\ \A i \in 1..left : (b \o w)[2 * i - 1][1] = sent[c][Len(begun[c]) + Len(frames) + i]
Reads(c, frames) ==
  /\ Begins(c, frames) /\ UNCHANGED conn
  /\ request' = Dispatched(frames)
  /\ streams' = [streams EXCEPT ![c] = Streaming(c, frames)]
  /\ \E b, w \in Seq(WireUnit) :
       /\ Remains(c, frames, b, w)
       /\ buffer' = [buffer EXCEPT ![c] = b] /\ wire' = [wire EXCEPT ![c] = w]
ReadsLast(c, frames) ==
  Begins(c, frames) /\ Leave(c, Streaming(c, frames), Dispatched(frames))
Goes(c) ==
  /\ conn[c] \in {"open", "closed"} /\ Leave(c, streams[c], request)
  /\ UNCHANGED <<listening, gatewayHistory>>
Ends(r) ==
  /\ Active(r)
  /\ \E st \in {"answered", "refused", "dropped"} :
       Over(r, st) /\ (st = "dropped" => request[r].aborted \/ ~CanSend(r))
  /\ UNCHANGED <<listening, conn, wire, buffer, gatewayHistory>>
Yields(r) ==
  /\ Active(r)
  /\ \E st \in {"running", "paused"} :
       request' = [request EXCEPT ![r].items = @ + 1, ![r].st = st]
  /\ UNCHANGED <<listening, conn, wire, buffer, streams, gatewayHistory>>

LEMMA ChunkLengths ==
  ASSUME NEW x \in Nat, NEW y \in Nat, NEW l \in Nat, NEW n \in Nat, NEW k \in Nat,
         x < 2, x + y = 2 * l, 1 <= n, n <= y, 2 * k <= x + n, x + n < 2 * k + 2
  PROVE  /\ k <= l /\ x + n - 2 * k \in Nat /\ x + n - 2 * k < 2
         /\ x + n - 2 * k + (y - n) = 2 * (l - k)
OBVIOUS

LEMMA ArriveSteps ==
  ASSUME GatewayTypes, Delivering, NEW c \in Client, Arrive(c)
  PROVE  Goes(c) \/ \E frames \in Seq(Request) : Reads(c, frames) \/ ReadsLast(c, frames)
<1>1. PICK n \in IF c \in Tcp THEN 1..Len(wire[c]) ELSE {2} :
        LET units  == buffer[c] \o SubSeq(wire[c], 1, n)
            frames == Frames(units)
        IN IF c \in Tcp /\ Len(units) > MaxBuffer
           THEN Leave(c, streams[c], request) /\ UNCHANGED <<begun, shared>>
           ELSE /\ begun' = [begun EXCEPT ![c] = @ \o frames]
                /\ shared' = shared \cup Sharing(c, frames)
                /\ IF conn[c] = "closed"
                   THEN Leave(c, Streaming(c, frames), Dispatched(frames))
                   ELSE /\ request' = Dispatched(frames)
                        /\ streams' = [streams EXCEPT ![c] = Streaming(c, frames)]
                        /\ buffer' = [buffer EXCEPT ![c] = Rest(units)]
                        /\ wire' = [wire EXCEPT ![c] = SubSeq(@, n + 1, Len(@))]
                        /\ UNCHANGED conn
  BY DEF Arrive
<1> DEFINE b == buffer[c]
           w == wire[c]
           units == b \o SubSeq(w, 1, n)
           rest == SubSeq(w, n + 1, Len(w))
           k == Len(units) \div 2
           left == Len(sent[c]) - Len(begun[c])
           frames == Frames(units)
<1>2. /\ conn[c] \in {"open", "closed"} /\ w # <<>> /\ UNCHANGED <<listening, sent>>
      /\ b \in Seq(WireUnit) /\ w \in Seq(WireUnit)
      /\ Len(sent[c]) \in Nat /\ Len(begun[c]) \in Nat /\ Len(b) \in Nat /\ Len(w) \in Nat
  BY DEF Arrive, GatewayTypes
<1>3. InOrder(c) /\ OnTheWay(c)
  BY <1>2 DEF Delivering, Delivers
<1>4. left \in Nat /\ Len(b) < 2 /\ (c \notin Tcp => b = <<>>) /\ Len(b \o w) = 2 * left
      /\ \A i \in 1..left : (b \o w)[2 * i - 1][1] = sent[c][Len(begun[c]) + i]
  <2>1. Len(begun[c]) <= Len(sent[c]) /\ Len(b) < 2 /\ (c \notin Tcp => b = <<>>)
    BY <1>3 DEF InOrder
  <2>2. left \in Nat
    BY <1>2, <2>1
  <2>3. Len(b \o w) = 2 * left
        /\ \A i \in 1..left : (b \o w)[2 * i - 1][1] = sent[c][Len(begun[c]) + i]
    BY <1>3 DEF OnTheWay
  <2> QED
    BY <2>1, <2>2, <2>3
<1> HIDE DEF b, w, left
<1>5. Len(b) + Len(w) = 2 * left
  <2>1. Len(b \o w) = Len(b) + Len(w)
    BY <1>2, ConcatProperties
  <2> QED
    BY <1>4, <2>1
<1>6. n \in 1..Len(w)
  <2>1. CASE c \in Tcp
    BY <1>1, <2>1 DEF w
  <2>2. CASE c \notin Tcp
    <3>1. Len(b) = 0
      BY <1>4, <2>2
    <3>2. Len(w) # 0
      BY <1>2, EmptySeq
    <3>3. 2 \in 1..Len(w)
      <4>1. left \in Nat /\ Len(w) \in Nat /\ 0 + Len(w) = 2 * left
        BY <1>2, <1>4, <1>5, <3>1
      <4> QED
        BY <3>2, <4>1
    <3> QED
      BY <1>1, <2>2, <3>3
  <2> QED
    BY <2>1, <2>2
<1>7. /\ units \in Seq(WireUnit) /\ Len(units) = Len(b) + n
      /\ rest \in Seq(WireUnit) /\ Len(rest) = Len(w) - n
      /\ \A i \in 1..(Len(b) + n) : units[i] = (b \o w)[i]
      /\ \A i \in 1..(Len(w) - n) : rest[i] = (b \o w)[Len(b) + n + i]
  BY <1>2, <1>6, ChunkIs
<1>8. CASE c \in Tcp /\ Len(units) > MaxBuffer
  BY <1>1, <1>2, <1>8 DEF Goes, gatewayHistory, b, w
<1> HIDE DEF units, rest
<1>9. /\ frames \in Seq(Request) /\ Len(frames) = k
      /\ \A i \in 1..k : frames[i] = units[2 * i - 1][1]
      /\ Rest(units) \in Seq(WireUnit) /\ Len(Rest(units)) = Len(units) - 2 * k
      /\ \A i \in 1..(Len(units) - 2 * k) : Rest(units)[i] = units[2 * k + i]
  BY <1>7, FramesAre
<1>10. k \in Nat /\ 2 * k <= Len(units) /\ Len(units) < 2 * k + 2 /\ Len(units) \in Nat
  <2>1. Len(units) \in Nat
    BY <1>7
  <2> QED
    BY <2>1, Halves
<1> HIDE DEF k, frames
<1>11. n \in Nat /\ n <= Len(w) /\ 1 <= n /\ Len(w) - n \in Nat
  BY <1>2, <1>6
<1>12. /\ k <= left /\ Len(units) - 2 * k \in Nat /\ Len(units) - 2 * k < 2
       /\ Len(units) - 2 * k + (Len(w) - n) = 2 * (left - k)
  <2>1. Len(b) \in Nat /\ Len(w) \in Nat /\ left \in Nat /\ Len(b) < 2
    BY <1>2, <1>4
  <2>2. 2 * k <= Len(b) + n /\ Len(b) + n < 2 * k + 2 /\ Len(units) = Len(b) + n
    BY <1>7, <1>10
  <2> QED
    BY <1>5, <1>10, <1>11, <2>1, <2>2, ChunkLengths
<1>13. NextOf(c, frames)
  <2>1. ASSUME NEW i \in 1..k PROVE frames[i] = sent[c][Len(begun[c]) + i]
    <3>1. 2 * i - 1 \in 1..(Len(b) + n) /\ i \in 1..left
      <4>1. Len(units) = Len(b) + n /\ Len(units) \in Nat /\ 2 * k <= Len(units)
            /\ k \in Nat /\ left \in Nat /\ k <= left
        BY <1>4, <1>7, <1>10, <1>12
      <4> QED
        BY <4>1
    <3>2. frames[i] = units[2 * i - 1][1] /\ units[2 * i - 1] = (b \o w)[2 * i - 1]
      BY <1>7, <1>9, <3>1
    <3>3. (b \o w)[2 * i - 1][1] = sent[c][Len(begun[c]) + i]
      BY <1>4, <3>1
    <3> QED
      BY <3>2, <3>3
  <2>2. DOMAIN frames = 1..k
    BY <1>9
  <2>3. Len(begun[c]) + Len(frames) <= Len(sent[c])
    <3>1. Len(frames) = k /\ k \in Nat /\ left \in Nat /\ k <= left
      BY <1>4, <1>9, <1>10, <1>12
    <3>2. left = Len(sent[c]) - Len(begun[c]) /\ Len(sent[c]) \in Nat /\ Len(begun[c]) \in Nat
      BY <1>2 DEF left
    <3> QED
      BY <3>1, <3>2
  <2> QED
    BY <1>9, <2>1, <2>2, <2>3 DEF NextOf
<1>14. CASE ~(c \in Tcp /\ Len(units) > MaxBuffer) /\ conn[c] = "closed"
  <2>1. ReadsLast(c, frames)
    BY <1>1, <1>2, <1>13, <1>14 DEF ReadsLast, Begins, frames, units, k, b, w
  <2> QED
    BY <1>9, <2>1
<1>15. CASE ~(c \in Tcp /\ Len(units) > MaxBuffer) /\ conn[c] = "open"
  <2> DEFINE r == Rest(units)
             go == Len(sent[c]) - (Len(begun[c]) + Len(frames))
  <2>1. go = left - k /\ go \in Nat
    <3>1. Len(frames) = k /\ k \in Nat /\ left \in Nat /\ k <= left
      BY <1>4, <1>9, <1>10, <1>12
    <3>2. left = Len(sent[c]) - Len(begun[c]) /\ Len(sent[c]) \in Nat /\ Len(begun[c]) \in Nat
      BY <1>2 DEF left
    <3> QED
      BY <3>1, <3>2
  <2>2. r \in Seq(WireUnit) /\ rest \in Seq(WireUnit) /\ Len(r) = Len(units) - 2 * k
        /\ Len(r) \in Nat /\ Len(r) < 2 /\ Len(rest) = Len(w) - n
    BY <1>7, <1>9, <1>12
  <2> HIDE DEF r, go
  <2>3. c \notin Tcp => r = <<>>
    <3>1. ASSUME c \notin Tcp PROVE r = <<>>
      <4>1. n = 2 /\ Len(b) = 0
        BY <1>1, <1>2, <1>4, <3>1
      <4>2. Len(r) = 0
        <5>1. Len(r) = 2 - 2 * k /\ k \in Nat /\ Len(r) \in Nat /\ Len(r) < 2
          BY <1>7, <1>10, <2>2, <4>1
        <5> QED
          BY <5>1
      <4> QED
        BY <2>2, <4>2, EmptySeq
    <3> QED
      BY <3>1
  <2>4. /\ Len(r \o rest) = Len(r) + Len(rest)
        /\ \A i \in 1..(Len(r) + Len(rest)) : (r \o rest)[i] = IF i <= Len(r) THEN r[i] ELSE rest[i - Len(r)]
    BY <2>2, ConcatProperties
  <2>5. Len(r) + Len(rest) = 2 * go
    BY <1>12, <2>1, <2>2
  <2>6. ASSUME NEW i \in 1..(2 * go) PROVE (r \o rest)[i] = (b \o w)[2 * k + i]
    <3>1. i \in 1..(Len(r) + Len(rest)) /\ i \in Nat /\ 1 <= i
      BY <2>5, <2>1, <2>2, <1>11
    <3>2. CASE i <= Len(r)
      <4>1. i \in 1..(Len(units) - 2 * k) /\ 2 * k + i \in 1..(Len(b) + n)
        <5>1. Len(r) = Len(units) - 2 * k /\ Len(units) = Len(b) + n /\ i \in Nat /\ 1 <= i
              /\ k \in Nat /\ Len(units) \in Nat /\ i <= Len(r)
          BY <1>7, <1>10, <2>2, <3>1, <3>2
        <5> QED
          BY <5>1
      <4>2. r[i] = units[2 * k + i] /\ units[2 * k + i] = (b \o w)[2 * k + i]
        BY <1>7, <1>9, <4>1 DEF r
      <4>3. (r \o rest)[i] = r[i]
        BY <2>4, <3>1, <3>2
      <4> QED
        BY <4>2, <4>3
    <3>3. CASE ~(i <= Len(r))
      <4> DEFINE j == i - Len(r)
      <4>1. j \in 1..(Len(w) - n) /\ Len(b) + n + j = 2 * k + i
        <5>1. Len(r) = Len(units) - 2 * k /\ Len(units) = Len(b) + n /\ i \in Nat /\ ~(i <= Len(r))
              /\ Len(rest) = Len(w) - n /\ i <= Len(r) + Len(rest)
              /\ k \in Nat /\ Len(units) \in Nat /\ Len(b) \in Nat /\ n \in Nat /\ Len(r) \in Nat
              /\ Len(w) - n \in Nat
          BY <1>2, <1>7, <1>10, <1>11, <2>2, <3>1, <3>3
        <5> QED
          BY <5>1
      <4>2. rest[j] = (b \o w)[Len(b) + n + j]
        BY <1>7, <4>1
      <4>3. (r \o rest)[i] = rest[j]
        BY <2>4, <3>1, <3>3
      <4> QED
        BY <4>1, <4>2, <4>3
    <3> QED
      BY <3>2, <3>3
  <2>7. ASSUME NEW i \in 1..go
        PROVE  (r \o rest)[2 * i - 1][1] = sent[c][Len(begun[c]) + Len(frames) + i]
    <3>1. 2 * i - 1 \in 1..(2 * go) /\ k + i \in 1..left
          /\ 2 * k + (2 * i - 1) = 2 * (k + i) - 1
          /\ Len(begun[c]) + (k + i) = Len(begun[c]) + Len(frames) + i
      <4>1. k \in Nat /\ left \in Nat /\ go \in Nat /\ go = left - k /\ i \in Nat /\ 1 <= i /\ i <= go
        BY <1>4, <1>10, <2>1
      <4>2. 2 * i - 1 \in 1..(2 * go)
        BY <4>1
      <4>3. k + i \in 1..left /\ 2 * k + (2 * i - 1) = 2 * (k + i) - 1
        BY <4>1
      <4>4. Len(begun[c]) \in Nat /\ Len(frames) = k
        BY <1>2, <1>9
      <4>5. Len(begun[c]) + (k + i) = Len(begun[c]) + Len(frames) + i
        <5>1. \A x, y, z \in Nat : x + (y + z) = x + y + z
          OBVIOUS
        <5>2. Len(begun[c]) + (k + i) = Len(begun[c]) + k + i
          BY <4>1, <4>4, <5>1
        <5> QED
          BY <4>4, <5>2
      <4> QED
        BY <4>2, <4>3, <4>5
    <3>2. (r \o rest)[2 * i - 1] = (b \o w)[2 * k + (2 * i - 1)]
      BY <2>6, <3>1
    <3>3. (b \o w)[2 * (k + i) - 1][1] = sent[c][Len(begun[c]) + (k + i)]
      BY <1>4, <3>1
    <3> QED
      BY <3>1, <3>2, <3>3
  <2>8. Remains(c, frames, r, rest)
    BY <2>2, <2>3, <2>4, <2>5, <2>7 DEF Remains, go
  <2>9. /\ Begins(c, frames) /\ UNCHANGED conn
        /\ request' = Dispatched(frames)
        /\ streams' = [streams EXCEPT ![c] = Streaming(c, frames)]
        /\ buffer' = [buffer EXCEPT ![c] = r]
    BY <1>1, <1>2, <1>13, <1>15 DEF Begins, frames, units, k, b, w, r
  <2>10. wire' = [wire EXCEPT ![c] = rest]
    BY <1>1, <1>2, <1>15 DEF frames, units, rest, b, w, GatewayTypes
  <2>11. Reads(c, frames)
    BY <2>2, <2>8, <2>9, <2>10 DEF Reads
  <2> QED
    BY <1>9, <2>11
<1> QED
  BY <1>2, <1>8, <1>14, <1>15

LEMMA GatewaySteps ==
  ASSUME GatewayTypes, Delivering, GatewayNext
  PROVE  \/ \E c \in Client : \/ Connect(c) \/ ClientSends(c) \/ Goes(c)
                              \/ \E frames \in Seq(Request) : Reads(c, frames) \/ ReadsLast(c, frames)
         \/ \E r \in Request : Ends(r) \/ Yields(r)
         \/ Shutdown
<1>1. ASSUME NEW c \in Client, Arrive(c)
      PROVE  Goes(c) \/ \E frames \in Seq(Request) : Reads(c, frames) \/ ReadsLast(c, frames)
  BY <1>1, ArriveSteps
<1>2. ASSUME NEW c \in Client, EndOfClient(c) PROVE Goes(c)
  BY <1>2 DEF EndOfClient, Goes
<1>3. ASSUME NEW r \in Request, YieldItem(r) \/ YieldLast(r) \/ Stall(r) PROVE Ends(r) \/ Yields(r)
  <2>1. CASE YieldItem(r)
    BY <2>1 DEF YieldItem, Refused, Ends, Yields, Active
  <2>2. CASE YieldLast(r)
    BY <2>2 DEF YieldLast, Refused, Ends, Active
  <2>3. CASE Stall(r)
    BY <2>3 DEF Stall, Refused, Ends, Active
  <2> QED
    BY <1>3, <2>1, <2>2, <2>3
<1> QED
  BY <1>1, <1>2, <1>3 DEF GatewayNext

-----------------------------------------------------------------------------
(* Types.                                                                  *)
LEMMA TablesStay ==
  ASSUME GatewayTypes, NEW c \in Client, NEW table,
         DOMAIN table = Id, table = [i \in Id |-> table[i]],
         streams' = [streams EXCEPT ![c] = table]
  PROVE  /\ streams' = [d \in Client |-> [i \in Id |-> streams'[d][i]]]
         /\ streams'[c] = table /\ \A d \in Client : d # c => streams'[d] = streams[d]
<1>1. streams = [d \in Client |-> [i \in Id |-> streams[d][i]]]
  BY DEF GatewayTypes
<1>2. DOMAIN streams = Client
  BY <1>1
<1>3. streams' = [d \in Client |-> IF d = c THEN table ELSE streams[d]]
  BY <1>2
<1>4. ASSUME NEW d \in Client
      PROVE  (IF d = c THEN table ELSE streams[d]) = [i \in Id |-> streams'[d][i]]
  <2>1. CASE d = c
    <3>1. streams'[d] = table
      BY <1>3, <2>1
    <3> QED
      BY <2>1, <3>1
  <2>2. CASE d # c
    <3>1. streams'[d] = streams[d]
      BY <1>3, <2>2
    <3>2. streams[d] = [i \in Id |-> streams[d][i]]
      BY <1>1
    <3> QED
      BY <2>2, <3>1, <3>2
  <2> QED
    BY <2>1, <2>2
<1>5. streams'[c] = table /\ \A d \in Client : d # c => streams'[d] = streams[d]
  BY <1>3
<1> DEFINE old(d) == IF d = c THEN table ELSE streams[d]
           new(d) == [i \in Id |-> streams'[d][i]]
<1>6. streams' = [d \in Client |-> old(d)] /\ \A d \in Client : old(d) = new(d)
  BY <1>3, <1>4
<1> HIDE DEF old, new
<1>7. streams' = [d \in Client |-> new(d)]
  BY <1>6
<1> QED
  BY <1>5, <1>7 DEF new

LEMMA StreamingIs ==
  ASSUME NEW c \in Client, NEW frames
  PROVE  LET t == Streaming(c, frames) IN DOMAIN t = Id /\ t = [i \in Id |-> t[i]]
BY DEF Streaming

LEMMA LeaveIs ==
  ASSUME GatewayTypes, NEW c \in Client, NEW table, NEW reqs \in [Request -> Message],
         Leave(c, table, reqs)
  PROVE  /\ conn' = [conn EXCEPT ![c] = "gone"]
         /\ conn' \in [Client -> {"none", "open", "closed", "gone"}]
         /\ request' = Severed(c, table, reqs) /\ request' \in [Request -> Message]
         /\ streams' = [d \in Client |-> [i \in Id |-> streams'[d][i]]]
         /\ \A d \in Client : d # c => streams'[d] = streams[d]
         /\ \A i \in Id : streams'[c][i] = None
         /\ buffer' = [buffer EXCEPT ![c] = <<>>] /\ buffer' \in [Client -> Seq(WireUnit)]
         /\ wire' = [wire EXCEPT ![c] = <<>>] /\ wire' \in [Client -> Seq(WireUnit)]
<1> DEFINE empty == [i \in Id |-> None]
<1>1. streams' = [streams EXCEPT ![c] = empty] /\ request' = Severed(c, table, reqs)
      /\ conn' = [conn EXCEPT ![c] = "gone"]
      /\ buffer' = [buffer EXCEPT ![c] = <<>>] /\ wire' = [wire EXCEPT ![c] = <<>>]
  BY DEF Leave
<1>2. DOMAIN empty = Id /\ empty = [i \in Id |-> empty[i]]
  OBVIOUS
<1>3. /\ streams' = [d \in Client |-> [i \in Id |-> streams'[d][i]]]
      /\ \A d \in Client : d # c => streams'[d] = streams[d]
      /\ \A i \in Id : streams'[c][i] = None
  BY <1>1, <1>2, TablesStay
<1>4. <<>> \in Seq(WireUnit)
  OBVIOUS
<1>5. conn' \in [Client -> {"none", "open", "closed", "gone"}]
      /\ buffer' \in [Client -> Seq(WireUnit)] /\ wire' \in [Client -> Seq(WireUnit)]
  BY <1>1, <1>4 DEF GatewayTypes
<1>6. request' \in [Request -> Message]
  BY <1>1, SeveredIs
<1> QED
  BY <1>1, <1>3, <1>5, <1>6

LEMMA BeginsIs ==
  ASSUME GatewayTypes, Delivering, NEW c \in Client, NEW frames \in Seq(Request), Begins(c, frames)
  PROVE  /\ begun' \in [Client -> Seq(Request)] /\ shared' \subseteq Request
         /\ Len(begun'[c]) = Len(begun[c]) + Len(frames) /\ Len(begun'[c]) <= Len(sent[c])
         /\ \A i \in DOMAIN begun'[c] : begun'[c][i] = sent[c][i]
         /\ \A d \in Client : d # c => begun'[d] = begun[d]
<1>1. begun[c] \in Seq(Request) /\ Len(begun[c]) \in Nat /\ Len(frames) \in Nat
  BY DEF GatewayTypes
<1>2. begun[c] \o frames \in Seq(Request)
      /\ Len(begun[c] \o frames) = Len(begun[c]) + Len(frames)
      /\ \A i \in 1..(Len(begun[c]) + Len(frames)) :
           (begun[c] \o frames)[i] = IF i <= Len(begun[c]) THEN begun[c][i] ELSE frames[i - Len(begun[c])]
  BY <1>1, ConcatProperties
<1>3. begun' = [begun EXCEPT ![c] = begun[c] \o frames]
  BY DEF Begins, GatewayTypes
<1>4. begun' \in [Client -> Seq(Request)] /\ begun'[c] = begun[c] \o frames
      /\ \A d \in Client : d # c => begun'[d] = begun[d]
  BY <1>2, <1>3 DEF GatewayTypes
<1>5. Sharing(c, frames) \subseteq Request
  BY DEF Sharing, ActiveOf
<1>6. InOrder(c) /\ NextOf(c, frames)
  BY DEF Delivering, Delivers, Begins
<1>7. ASSUME NEW i \in 1..(Len(begun[c]) + Len(frames)) PROVE (begun[c] \o frames)[i] = sent[c][i]
  <2>1. CASE i <= Len(begun[c])
    <3>1. i \in DOMAIN begun[c]
      BY <1>1, <2>1
    <3> QED
      BY <1>2, <1>6, <2>1, <3>1 DEF InOrder
  <2>2. CASE ~(i <= Len(begun[c]))
    <3>1. i - Len(begun[c]) \in 1..Len(frames) /\ Len(begun[c]) + (i - Len(begun[c])) = i
      BY <1>1, <2>2
    <3>2. i - Len(begun[c]) \in DOMAIN frames
      BY <3>1
    <3>3. frames[i - Len(begun[c])] = sent[c][Len(begun[c]) + (i - Len(begun[c]))]
      BY <1>6, <3>2 DEF NextOf
    <3> QED
      BY <1>2, <2>2, <3>1, <3>3
  <2> QED
    BY <2>1, <2>2
<1>8. DOMAIN (begun[c] \o frames) = 1..(Len(begun[c]) + Len(frames))
  BY <1>2
<1>9. Len(begun[c]) + Len(frames) <= Len(sent[c])
  BY <1>6 DEF NextOf
<1>10. shared' \subseteq Request
  BY <1>5 DEF Begins, GatewayTypes
<1> QED
  BY <1>2, <1>4, <1>7, <1>8, <1>9, <1>10

(* A message that is written is new, and is two units.                     *)
UnitsOf(r) == << <<r, "head">>, <<r, "body">> >>
LEMMA UnitsAre ==
  ASSUME NEW r \in Request
  PROVE  UnitsOf(r) \in Seq(WireUnit) /\ Len(UnitsOf(r)) = 2 /\ UnitsOf(r)[1][1] = r
<1>1. <<r, "head">> \in WireUnit /\ <<r, "body">> \in WireUnit
  BY DEF WireUnit
<1> QED
  BY <1>1 DEF UnitsOf

Sends(c, r) ==
  /\ request[r].st = "none"
  /\ request' \in [Request -> Message]
  /\ request'[r].st = "sent" /\ request'[r].client = c /\ request'[r].id \in Id
  /\ ~request'[r].aborted
  /\ \A q \in Request : q # r => request'[q] = request[q]
  /\ wire' = [wire EXCEPT ![c] = wire[c] \o UnitsOf(r)] /\ wire' \in [Client -> Seq(WireUnit)]
  /\ sent' = [sent EXCEPT ![c] = Append(sent[c], r)] /\ sent' \in [Client -> Seq(Request)]
LEMMA SendIs ==
  ASSUME GatewayTypes, NEW c \in Client, ClientSends(c)
  PROVE  \E r \in Request : Sends(c, r)
<1>1. PICK r \in Request, i \in Id, form \in {"call", "bad", "nil"} :
        /\ request[r].st = "none"
        /\ request' = [request EXCEPT ![r] =
             [Unsent EXCEPT !.st = "sent", !.client = c, !.id = i, !.form = form]]
        /\ wire' = [wire EXCEPT ![c] = @ \o << <<r, "head">>, <<r, "body">> >>]
        /\ sent' = [sent EXCEPT ![c] = Append(@, r)]
  BY DEF ClientSends
<1> DEFINE m == [Unsent EXCEPT !.st = "sent", !.client = c, !.id = i, !.form = form]
<1>2. m \in Message /\ m.st = "sent" /\ m.client = c /\ m.id = i /\ ~m.aborted
  BY DEF Unsent, Message
<1> HIDE DEF m
<1>3. /\ request' \in [Request -> Message] /\ request'[r] = m
      /\ \A q \in Request : q # r => request'[q] = request[q]
  <2>1. request' = [request EXCEPT ![r] = m]
    BY <1>1 DEF m
  <2> QED
    BY <1>2, <2>1 DEF GatewayTypes
<1>5. wire[c] \o UnitsOf(r) \in Seq(WireUnit) /\ Append(sent[c], r) \in Seq(Request)
  <2>1. wire[c] \in Seq(WireUnit) /\ sent[c] \in Seq(Request)
    BY DEF GatewayTypes
  <2> QED
    BY UnitsAre, <2>1, ConcatProperties, AppendProperties
<1>6. wire' = [wire EXCEPT ![c] = wire[c] \o UnitsOf(r)] /\ sent' = [sent EXCEPT ![c] = Append(sent[c], r)]
  BY <1>1 DEF UnitsOf, GatewayTypes
<1>7. wire' \in [Client -> Seq(WireUnit)] /\ sent' \in [Client -> Seq(Request)]
  BY <1>5, <1>6 DEF GatewayTypes
<1> QED
  <2>1. /\ request'[r].st = "sent" /\ request'[r].client = c /\ request'[r].id \in Id
        /\ ~request'[r].aborted
    BY <1>2, <1>3
  <2> QED
    BY <1>1, <1>3, <1>6, <1>7, <2>1 DEF Sends

(* A request ends.                                                         *)
LEMMA EndIs ==
  ASSUME GatewayTypes, Tabled, NEW r \in Request, Ends(r)
  PROVE  LET c == request[r].client IN
         /\ c \in Client /\ request[r].id \in Id
         /\ request' \in [Request -> Message] /\ request'[r].client = c
         /\ ~request'[r].aborted
         /\ request'[r].st \in {"answered", "refused", "dropped"}
         /\ \A q \in Request : q # r => request'[q] = request[q]
         /\ streams' = [d \in Client |-> [i \in Id |-> streams'[d][i]]]
         /\ streams'[c][request[r].id] = None
         /\ \A d \in Client, i \in Id : <<d, i>> # <<c, request[r].id>> => streams'[d][i] = streams[d][i]
<1> DEFINE c == request[r].client
           j == request[r].id
           t == [streams[c] EXCEPT ![j] = None]
<1>1. Active(r) /\ c \in Client /\ j \in Id
  BY DEF Ends, Tabled
<1>2. PICK st \in {"answered", "refused", "dropped"} : Over(r, st)
  BY DEF Ends
<1>3. Closed(c, st) \in Message /\ Closed(c, st).st = st /\ Closed(c, st).client = c
      /\ ~Closed(c, st).aborted
  BY <1>1, ClosedIs
<1>4. request' = [request EXCEPT ![r] = Closed(c, st)]
  BY <1>2 DEF Over
<1>5. /\ request' \in [Request -> Message] /\ request'[r] = Closed(c, st)
      /\ \A q \in Request : q # r => request'[q] = request[q]
  BY <1>3, <1>4 DEF GatewayTypes
<1>6. streams' = [streams EXCEPT ![c] = t]
  BY <1>2 DEF Over
<1>7. streams[c] = [i \in Id |-> streams[c][i]]
  BY <1>1 DEF GatewayTypes
<1>8. DOMAIN t = Id /\ t = [i \in Id |-> t[i]] /\ t[j] = None
      /\ \A i \in Id : i # j => t[i] = streams[c][i]
  BY <1>1, <1>7
<1> HIDE DEF t
<1>9. /\ streams' = [d \in Client |-> [i \in Id |-> streams'[d][i]]]
      /\ streams'[c] = t /\ \A d \in Client : d # c => streams'[d] = streams[d]
  BY <1>1, <1>6, <1>8, TablesStay
<1>10. ASSUME NEW d \in Client, NEW i \in Id, <<d, i>> # <<c, j>> PROVE streams'[d][i] = streams[d][i]
  BY <1>8, <1>9, <1>10
<1> QED
  BY <1>1, <1>3, <1>5, <1>8, <1>9, <1>10

LEMMA YieldIs ==
  ASSUME GatewayTypes, NEW r \in Request, Yields(r)
  PROVE  /\ request' \in [Request -> Message] /\ Active(r) /\ request'[r].st \in {"running", "paused"}
         /\ request'[r].client = request[r].client /\ request'[r].id = request[r].id
         /\ request'[r].aborted = request[r].aborted
         /\ \A q \in Request : q # r => request'[q] = request[q]
<1>1. PICK st \in {"running", "paused"} :
        request' = [request EXCEPT ![r].items = @ + 1, ![r].st = st]
  BY DEF Yields
<1> DEFINE m == [request[r] EXCEPT !.items = @ + 1, !.st = st]
<1>2. request[r] \in Message
  BY DEF GatewayTypes
<1>3. m \in Message /\ m.st = st /\ m.client = request[r].client /\ m.id = request[r].id
      /\ m.aborted = request[r].aborted
  <2>1. request[r].items \in Nat
    BY <1>2 DEF Message
  <2>2. request[r].items + 1 \in Nat
    BY <2>1
  <2> DEFINE n == request[r].items + 1
  <2>3. m = [request[r] EXCEPT !.items = n, !.st = st]
    OBVIOUS
  <2> HIDE DEF n, m
  <2>4. n \in Nat
    BY <2>2 DEF n
  <2> QED
    BY <1>2, <2>3, <2>4 DEF Message
<1>4. request' = [request EXCEPT ![r] = m]
  BY <1>1
<1> HIDE DEF m
<1>5. request' \in [Request -> Message] /\ request'[r] = m
      /\ \A q \in Request : q # r => request'[q] = request[q]
  BY <1>3, <1>4 DEF GatewayTypes
<1> QED
  BY <1>3, <1>5 DEF Yields

LEMMA GatewayTypesInit == GatewayInit => GatewayTypes
<1> SUFFICES ASSUME GatewayInit PROVE GatewayTypes
  OBVIOUS
<1>1. Unsent \in Message
  BY DEF Unsent, Message
<1>2. request \in [Request -> Message]
  BY <1>1 DEF GatewayInit
<1>3. streams = [c \in Client |-> [i \in Id |-> streams[c][i]]]
  BY DEF GatewayInit
<1>4. /\ conn \in [Client -> {"none", "open", "closed", "gone"}]
      /\ wire \in [Client -> Seq(WireUnit)] /\ buffer \in [Client -> Seq(WireUnit)]
      /\ sent \in [Client -> Seq(Request)] /\ begun \in [Client -> Seq(Request)]
  BY DEF GatewayInit
<1> QED
  BY <1>2, <1>3, <1>4 DEF GatewayInit, GatewayTypes

LEMMA GatewayTypesStep ==
  ASSUME GatewayTypes, Delivering, Tabled, [GatewayNext]_gatewayVars
  PROVE  GatewayTypes'
<1>1. ASSUME NEW c \in Client, Connect(c) PROVE GatewayTypes'
  BY <1>1 DEF GatewayTypes, Connect, gatewayHistory
<1>2. ASSUME NEW c \in Client, ClientSends(c) PROVE GatewayTypes'
  <2>1. /\ request' \in [Request -> Message]
        /\ wire' \in [Client -> Seq(WireUnit)] /\ sent' \in [Client -> Seq(Request)]
    BY <1>2, SendIs DEF Sends
  <2>2. UNCHANGED <<listening, conn, buffer, streams, begun, shared>>
    BY <1>2 DEF ClientSends
  <2> QED
    BY <2>1, <2>2 DEF GatewayTypes
<1>3. ASSUME NEW c \in Client, Goes(c) PROVE GatewayTypes'
  <2>1. request \in [Request -> Message] /\ Leave(c, streams[c], request)
    BY <1>3 DEF Goes, GatewayTypes
  <2> QED
    BY <1>3, <2>1, LeaveIs DEF GatewayTypes, Goes, gatewayHistory
<1>4. ASSUME NEW c \in Client, NEW frames \in Seq(Request), Reads(c, frames) PROVE GatewayTypes'
  <2>1. Begins(c, frames) /\ request' = Dispatched(frames) /\ UNCHANGED conn
        /\ streams' = [streams EXCEPT ![c] = Streaming(c, frames)]
    BY <1>4 DEF Reads
  <2>2. begun' \in [Client -> Seq(Request)] /\ shared' \subseteq Request
    BY <2>1, BeginsIs
  <2>3. streams' = [d \in Client |-> [i \in Id |-> streams'[d][i]]]
    BY <2>1, StreamingIs, TablesStay
  <2>4. request' \in [Request -> Message]
    BY <2>1, DispatchedIs DEF GatewayTypes
  <2>5. wire' \in [Client -> Seq(WireUnit)] /\ buffer' \in [Client -> Seq(WireUnit)]
    BY <1>4 DEF Reads, GatewayTypes
  <2>6. UNCHANGED <<listening, sent>>
    BY <2>1 DEF Begins
  <2> QED
    BY <2>1, <2>2, <2>3, <2>4, <2>5, <2>6 DEF GatewayTypes
<1>5. ASSUME NEW c \in Client, NEW frames \in Seq(Request), ReadsLast(c, frames) PROVE GatewayTypes'
  <2>1. Begins(c, frames) /\ Leave(c, Streaming(c, frames), Dispatched(frames))
    BY <1>5 DEF ReadsLast
  <2>2. begun' \in [Client -> Seq(Request)] /\ shared' \subseteq Request
    BY <2>1, BeginsIs
  <2>3. Dispatched(frames) \in [Request -> Message]
    BY DispatchedIs DEF GatewayTypes
  <2>4. UNCHANGED <<listening, sent>>
    BY <2>1 DEF Begins
  <2> QED
    BY <2>1, <2>2, <2>3, <2>4, LeaveIs DEF GatewayTypes
<1>6. ASSUME NEW r \in Request, Ends(r) PROVE GatewayTypes'
  BY <1>6, EndIs DEF GatewayTypes, Ends, gatewayHistory
<1>7. ASSUME NEW r \in Request, Yields(r) PROVE GatewayTypes'
  <2>1. request' \in [Request -> Message]
    BY <1>7, YieldIs
  <2>2. UNCHANGED <<listening, conn, wire, buffer, streams, gatewayHistory>>
    BY <1>7 DEF Yields
  <2> QED
    BY <2>1, <2>2 DEF GatewayTypes, gatewayHistory
<1>8. CASE Shutdown
  BY <1>8 DEF GatewayTypes, Shutdown, gatewayHistory
<1>9. CASE UNCHANGED gatewayVars
  BY <1>9 DEF GatewayTypes, gatewayVars, gatewayHistory
<1> QED
  BY <1>1, <1>2, <1>3, <1>4, <1>5, <1>6, <1>7, <1>8, <1>9, GatewaySteps

-----------------------------------------------------------------------------
(* What is on the way.                                                     *)
LEMMA DeliveryAside ==
  ASSUME NEW c \in Client, Delivers(c), sent'[c] = sent[c], begun'[c] = begun[c],
         wire'[c] = wire[c], buffer'[c] = buffer[c], conn'[c] # "gone" => conn[c] # "gone"
  PROVE  Delivers(c)'
BY DEF Delivers, InOrder, OnTheWay

LEMMA DeliveryEnds ==
  ASSUME NEW c \in Client, conn'[c] = "gone", buffer'[c] = <<>>, sent'[c] = sent[c],
         Len(begun'[c]) <= Len(sent[c]), \A i \in DOMAIN begun'[c] : begun'[c][i] = sent[c][i]
  PROVE  Delivers(c)'
BY DEF Delivers, InOrder

LEMMA DeliverySent ==
  ASSUME GatewayTypes, NEW c \in Client, ClientSends(c), Delivers(c)
  PROVE  Delivers(c)'
<1> DEFINE b == buffer[c]
           w == wire[c]
           old == b \o w
           left == Len(sent[c]) - Len(begun[c])
<1>1. PICK r \in Request : Sends(c, r)
  BY SendIs
<1> DEFINE two == UnitsOf(r)
<1>2. /\ b \in Seq(WireUnit) /\ w \in Seq(WireUnit) /\ sent[c] \in Seq(Request) /\ begun[c] \in Seq(Request)
      /\ Len(sent[c]) \in Nat /\ Len(begun[c]) \in Nat /\ two \in Seq(WireUnit) /\ Len(two) = 2
  BY <1>1, UnitsAre DEF GatewayTypes
<1>3. two[1][1] = r
  BY UnitsAre
<1> HIDE DEF two
<1>4. /\ conn[c] # "gone" /\ conn' = conn /\ buffer'[c] = b /\ begun'[c] = begun[c]
      /\ wire'[c] = w \o two /\ sent'[c] = Append(sent[c], r)
  BY <1>1 DEF ClientSends, GatewayTypes, two, Sends
<1>5. /\ Len(sent'[c]) = Len(sent[c]) + 1 /\ sent'[c][Len(sent[c]) + 1] = r
      /\ \A i \in 1..Len(sent[c]) : sent'[c][i] = sent[c][i]
  BY <1>2, <1>4, AppendProperties
<1>6. InOrder(c) /\ OnTheWay(c)
  BY <1>4 DEF Delivers
<1>7. /\ Len(begun[c]) <= Len(sent[c]) /\ left \in Nat /\ old \in Seq(WireUnit)
  BY <1>2, <1>6, ConcatProperties DEF InOrder
<1>8. /\ Len(old) = 2 * left
      /\ \A i \in 1..left : old[2 * i - 1][1] = sent[c][Len(begun[c]) + i]
  BY <1>6 DEF OnTheWay
<1>9. b \o (w \o two) = old \o two
  <2>1. b \in Seq(WireUnit) /\ w \in Seq(WireUnit) /\ two \in Seq(WireUnit)
    BY <1>2
  <2> HIDE DEF b, w
  <2>2. (b \o w) \o two = b \o (w \o two)
    BY ONLY <2>1, ConcatAssociative
  <2> QED
    BY <2>2 DEF old
<1> HIDE DEF old
<1>10. /\ Len(old \o two) = 2 * left + 2
       /\ \A i \in 1..(2 * left + 2) : (old \o two)[i] = IF i <= 2 * left THEN old[i] ELSE two[i - 2 * left]
  <2>1. /\ Len(old \o two) = Len(old) + Len(two)
        /\ \A i \in 1..(Len(old) + Len(two)) :
             (old \o two)[i] = IF i <= Len(old) THEN old[i] ELSE two[i - Len(old)]
    <3>1. old \in Seq(WireUnit) /\ two \in Seq(WireUnit)
      BY <1>2, <1>7
    <3> QED
      BY ONLY <3>1, ConcatProperties
  <2> QED
    BY <1>2, <1>8, <2>1
<1> HIDE DEF left
<1>11. Len(begun[c]) + (left + 1) = Len(sent[c]) + 1
  BY <1>2 DEF left
<1>12. ASSUME NEW i \in 1..(left + 1) PROVE (old \o two)[2 * i - 1][1] = sent'[c][Len(begun[c]) + i]
  <2>1. CASE i = left + 1
    <3> DEFINE x == 2 * i - 1
    <3>1. x \in 1..(2 * left + 2) /\ ~(x <= 2 * left) /\ x - 2 * left = 1
      BY <1>7, <2>1
    <3> HIDE DEF x
    <3>2. (old \o two)[x] = two[1]
      BY <1>10, <3>1
    <3> QED
      BY <1>3, <1>5, <1>11, <2>1, <3>2 DEF x
  <2>2. CASE i # left + 1
    <3>1. i \in 1..left /\ 2 * i - 1 \in 1..(2 * left + 2) /\ 2 * i - 1 <= 2 * left
      BY <1>7, <2>2
    <3>2. Len(begun[c]) + i \in 1..Len(sent[c])
      BY <1>2, <1>7, <3>1 DEF left
    <3> QED
      BY <1>5, <1>8, <1>10, <3>1, <3>2
  <2> QED
    BY <2>1, <2>2
<1>13. Len(sent'[c]) - Len(begun'[c]) = left + 1 /\ Len(begun'[c]) <= Len(sent'[c])
  BY <1>2, <1>4, <1>5, <1>7 DEF left
<1>14. Len(old \o two) = 2 * (left + 1)
  BY <1>7, <1>10
<1>15. OnTheWay(c)'
  <2> DEFINE n == Len(sent'[c]) - Len(begun'[c])
             units == buffer'[c] \o wire'[c]
  <2>1. units = old \o two /\ n = left + 1
    BY <1>4, <1>9, <1>13
  <2> HIDE DEF n, units
  <2>2. Len(units) = 2 * n /\ \A i \in 1..n : units[2 * i - 1][1] = sent'[c][Len(begun'[c]) + i]
    BY <1>4, <1>12, <1>14, <2>1
  <2> QED
    BY <2>2 DEF OnTheWay, n, units
<1>16. InOrder(c)'
  <2>1. \A i \in DOMAIN begun[c] : i \in 1..Len(sent[c]) /\ begun[c][i] = sent[c][i]
    BY <1>2, <1>6, <1>7 DEF InOrder
  <2> QED
    BY <1>4, <1>5, <1>6, <1>13, <2>1 DEF InOrder
<1> QED
  BY <1>15, <1>16 DEF Delivers

LEMMA DeliveringStep ==
  ASSUME GatewayTypes, Delivering, Tabled, [GatewayNext]_gatewayVars
  PROVE  Delivering'
<1> SUFFICES ASSUME NEW d \in Client PROVE Delivers(d)'
  BY DEF Delivering
<1> USE DEF Delivering
<1>1. ASSUME NEW c \in Client, Connect(c) PROVE Delivers(d)'
  BY <1>1, DeliveryAside DEF Connect, gatewayHistory, GatewayTypes
<1>2. ASSUME NEW c \in Client, ClientSends(c) PROVE Delivers(d)'
  <2>1. CASE c = d
    BY <1>2, <2>1, DeliverySent
  <2>2. CASE c # d
    <3>1. sent'[d] = sent[d] /\ wire'[d] = wire[d]
      BY <1>2, <2>2, SendIs DEF Sends, GatewayTypes
    <3> QED
      BY <1>2, <3>1, DeliveryAside DEF ClientSends
  <2> QED
    BY <2>1, <2>2
<1>3. ASSUME NEW c \in Client, Goes(c) PROVE Delivers(d)'
  <2>1. request \in [Request -> Message] /\ Leave(c, streams[c], request)
        /\ UNCHANGED <<listening, sent, begun, shared>>
    BY <1>3 DEF Goes, GatewayTypes, gatewayHistory
  <2>2. /\ conn' = [conn EXCEPT ![c] = "gone"] /\ buffer' = [buffer EXCEPT ![c] = <<>>]
        /\ wire' = [wire EXCEPT ![c] = <<>>]
    BY <2>1, LeaveIs
  <2>3. CASE c = d
    <3>1. conn'[d] = "gone" /\ buffer'[d] = <<>>
      BY <2>2, <2>3 DEF GatewayTypes
    <3> QED
      BY <2>1, <3>1, DeliveryEnds DEF Delivers, InOrder
  <2>4. CASE c # d
    <3>1. conn'[d] = conn[d] /\ buffer'[d] = buffer[d] /\ wire'[d] = wire[d]
      BY <2>2, <2>4 DEF GatewayTypes
    <3> QED
      BY <2>1, <3>1, DeliveryAside
  <2> QED
    BY <2>3, <2>4
<1>4. ASSUME NEW c \in Client, NEW frames \in Seq(Request), Reads(c, frames) PROVE Delivers(d)'
  <2>1. Begins(c, frames) /\ UNCHANGED <<conn, sent>>
    BY <1>4 DEF Reads, Begins
  <2>2. /\ Len(begun'[c]) = Len(begun[c]) + Len(frames) /\ Len(begun'[c]) <= Len(sent[c])
        /\ \A i \in DOMAIN begun'[c] : begun'[c][i] = sent[c][i]
        /\ \A e \in Client : e # c => begun'[e] = begun[e]
    BY <2>1, BeginsIs
  <2>3. PICK b \in Seq(WireUnit), w \in Seq(WireUnit) :
          /\ Remains(c, frames, b, w)
          /\ buffer' = [buffer EXCEPT ![c] = b] /\ wire' = [wire EXCEPT ![c] = w]
    BY <1>4 DEF Reads
  <2>4. CASE c = d
    <3>1. buffer'[c] = b /\ wire'[c] = w
      BY <2>3 DEF GatewayTypes
    <3>2. InOrder(c)'
      BY <2>1, <2>2, <2>3, <3>1 DEF InOrder, Remains
    <3>3. OnTheWay(c)'
      BY <2>1, <2>2, <2>3, <3>1 DEF OnTheWay, Remains
    <3> QED
      BY <2>4, <3>2, <3>3 DEF Delivers
  <2>5. CASE c # d
    <3>1. buffer'[d] = buffer[d] /\ wire'[d] = wire[d]
      BY <2>3, <2>5 DEF GatewayTypes
    <3> QED
      BY <2>1, <2>2, <2>5, <3>1, DeliveryAside
  <2> QED
    BY <2>4, <2>5
<1>5. ASSUME NEW c \in Client, NEW frames \in Seq(Request), ReadsLast(c, frames) PROVE Delivers(d)'
  <2>1. Begins(c, frames) /\ UNCHANGED sent /\ Leave(c, Streaming(c, frames), Dispatched(frames))
    BY <1>5 DEF ReadsLast, Begins
  <2>2. /\ Len(begun'[c]) <= Len(sent[c])
        /\ \A i \in DOMAIN begun'[c] : begun'[c][i] = sent[c][i]
        /\ \A e \in Client : e # c => begun'[e] = begun[e]
    BY <2>1, BeginsIs
  <2>3. Dispatched(frames) \in [Request -> Message]
    BY DispatchedIs DEF GatewayTypes
  <2>4. /\ conn' = [conn EXCEPT ![c] = "gone"] /\ buffer' = [buffer EXCEPT ![c] = <<>>]
        /\ wire' = [wire EXCEPT ![c] = <<>>]
    BY <2>1, <2>3, LeaveIs
  <2>5. CASE c = d
    <3>1. conn'[d] = "gone" /\ buffer'[d] = <<>>
      BY <2>4, <2>5 DEF GatewayTypes
    <3> QED
      BY <2>1, <2>2, <2>5, <3>1, DeliveryEnds
  <2>6. CASE c # d
    <3>1. conn'[d] = conn[d] /\ buffer'[d] = buffer[d] /\ wire'[d] = wire[d]
      BY <2>4, <2>6 DEF GatewayTypes
    <3> QED
      BY <2>1, <2>2, <2>6, <3>1, DeliveryAside
  <2> QED
    BY <2>5, <2>6
<1>6. ASSUME NEW r \in Request, Ends(r) PROVE Delivers(d)'
  BY <1>6, DeliveryAside DEF Ends, gatewayHistory
<1>7. ASSUME NEW r \in Request, Yields(r) PROVE Delivers(d)'
  BY <1>7, DeliveryAside DEF Yields, gatewayHistory
<1>8. CASE Shutdown
  BY <1>8, DeliveryAside DEF Shutdown, gatewayHistory
<1>9. CASE UNCHANGED gatewayVars
  BY <1>9, DeliveryAside DEF gatewayVars, gatewayHistory
<1> QED
  BY <1>1, <1>2, <1>3, <1>4, <1>5, <1>6, <1>7, <1>8, <1>9, GatewaySteps

-----------------------------------------------------------------------------
(* Messages.                                                               *)
LEMMA FramesWaited ==
  ASSUME GatewayTypes, NEW c \in Client, NEW frames, Mailed(c), NextOf(c, frames), conn[c] # "gone"
  PROVE  /\ \A r \in Request : Contains(frames, r) =>
              request[r].st = "sent" /\ request[r].client = c /\ request[r].id \in Id
         /\ \A i \in DOMAIN sent[c] : i > Len(begun[c]) + Len(frames) => ~Contains(frames, sent[c][i])
         /\ \A i, j \in DOMAIN frames : frames[i] = frames[j] => i = j
<1> DEFINE n == Len(begun[c])
<1>1. /\ n \in Nat /\ Len(sent[c]) \in Nat /\ Len(frames) \in Nat
      /\ DOMAIN frames = 1..Len(frames) /\ DOMAIN sent[c] = 1..Len(sent[c])
  BY DEF GatewayTypes, NextOf
<1>2. /\ n + Len(frames) <= Len(sent[c])
      /\ \A i \in DOMAIN frames : frames[i] = sent[c][n + i]
  BY DEF NextOf
<1> HIDE DEF n
<1>3. \A i \in DOMAIN frames : n + i \in DOMAIN sent[c] /\ n + i > n /\ n + i <= n + Len(frames)
  BY <1>1, <1>2
<1>4. /\ \A i \in DOMAIN sent[c] : request[sent[c][i]].client = c
      /\ \A i, j \in DOMAIN sent[c] : sent[c][i] = sent[c][j] => i = j
      /\ \A i \in DOMAIN sent[c] : i > n =>
           request[sent[c][i]].st = "sent" /\ request[sent[c][i]].id \in Id
  BY DEF Mailed, n
<1>5. ASSUME NEW r \in Request, Contains(frames, r)
      PROVE  request[r].st = "sent" /\ request[r].client = c /\ request[r].id \in Id
  <2>1. PICK i \in DOMAIN frames : frames[i] = r
    BY <1>1, <1>5 DEF Contains
  <2> QED
    BY <1>2, <1>3, <1>4, <2>1
<1>6. ASSUME NEW i \in DOMAIN sent[c], i > n + Len(frames), Contains(frames, sent[c][i]) PROVE FALSE
  <2>1. PICK j \in DOMAIN frames : frames[j] = sent[c][i]
    BY <1>1, <1>6 DEF Contains
  <2>2. i = n + j
    BY <1>2, <1>3, <1>4, <2>1
  <2> QED
    BY <1>1, <1>3, <1>6, <2>2
<1>7. ASSUME NEW i \in DOMAIN frames, NEW j \in DOMAIN frames, frames[i] = frames[j] PROVE i = j
  <2>1. n + i = n + j
    BY <1>2, <1>3, <1>4, <1>7
  <2> QED
    BY <1>1, <2>1
<1> QED
  BY <1>5, <1>6, <1>7 DEF n

LEMMA MailAside ==
  ASSUME GatewayTypes, NEW c \in Client, Mailed(c), sent'[c] = sent[c],
         conn'[c] # "gone" => conn[c] # "gone" /\ begun'[c] = begun[c],
         \A r \in Request : request[r].client = c /\ request[r].st # "none" =>
           /\ request'[r].client = c /\ request'[r].st # "none"
           /\ conn'[c] # "gone" /\ request[r].st = "sent" /\ request[r].id \in Id =>
                request'[r].st = "sent" /\ request'[r].id \in Id
  PROVE  Mailed(c)'
<1>1. \A i \in DOMAIN sent[c] : sent[c][i] \in Request
  BY DEF GatewayTypes
<1> QED
  BY <1>1 DEF Mailed

LEMMA MailSent ==
  ASSUME GatewayTypes, NEW c \in Client, ClientSends(c), Mailed(c), Delivers(c)
  PROVE  Mailed(c)'
<1>1. PICK r \in Request : Sends(c, r)
  BY SendIs
<1> DEFINE n == Len(sent[c])
<1>2. sent[c] \in Seq(Request) /\ n \in Nat /\ Len(begun[c]) \in Nat /\ DOMAIN sent[c] = 1..n
  BY DEF GatewayTypes
<1>3. begun'[c] = begun[c] /\ conn[c] # "gone" /\ sent'[c] = Append(sent[c], r)
  BY <1>1 DEF ClientSends, GatewayTypes, Sends
<1>4. /\ sent'[c] \in Seq(Request) /\ Len(sent'[c]) = n + 1 /\ sent'[c][n + 1] = r
      /\ \A i \in 1..n : sent'[c][i] = sent[c][i]
  BY <1>2, <1>3, AppendProperties
<1>5. DOMAIN sent'[c] = 1..(n + 1)
  BY <1>4
<1> HIDE DEF n
<1>6. \A i \in 1..n : sent[c][i] \in Request /\ sent[c][i] # r
  <2>1. request[r].st = "none"
    BY <1>1 DEF Sends
  <2>2. \A i \in 1..n : sent[c][i] \in Request /\ request[sent[c][i]].st # "none"
    BY <1>2 DEF Mailed
  <2> QED
    BY <2>1, <2>2
<1>7. \A i \in 1..n :
        /\ request'[sent'[c][i]].client = c /\ request'[sent'[c][i]].st # "none"
        /\ i > Len(begun[c]) => request'[sent'[c][i]].st = "sent" /\ request'[sent'[c][i]].id \in Id
  <2>1. \A q \in Request : q # r => request'[q] = request[q]
    BY <1>1 DEF Sends
  <2>2. \A i \in 1..n :
          /\ request[sent[c][i]].client = c /\ request[sent[c][i]].st # "none"
          /\ i > Len(begun[c]) => request[sent[c][i]].st = "sent" /\ request[sent[c][i]].id \in Id
    BY <1>2, <1>3 DEF Mailed
  <2> QED
    BY <1>4, <1>6, <2>1, <2>2
<1>8. \A i \in 1..(n + 1) : i \in 1..n \/ i = n + 1
  BY <1>2
<1>9. \A i \in 1..(n + 1) :
        /\ request'[sent'[c][i]].client = c /\ request'[sent'[c][i]].st # "none"
        /\ i > Len(begun[c]) => request'[sent'[c][i]].st = "sent" /\ request'[sent'[c][i]].id \in Id
  BY <1>1, <1>4, <1>7, <1>8 DEF Sends
<1>10. ASSUME NEW i \in 1..(n + 1), NEW j \in 1..(n + 1), sent'[c][i] = sent'[c][j] PROVE i = j
  <2>1. \A x, y \in 1..n : sent[c][x] = sent[c][y] => x = y
    BY <1>2 DEF Mailed
  <2> QED
    BY <1>4, <1>6, <1>8, <1>10, <2>1
<1> QED
  BY <1>3, <1>5, <1>9, <1>10 DEF Mailed

LEMMA MailRead ==
  ASSUME GatewayTypes, NEW c \in Client, NEW frames \in Seq(Request), Begins(c, frames),
         Delivering, Mailed(c), request' = Dispatched(frames)
  PROVE  Mailed(c)'
<1>1. NextOf(c, frames) /\ conn[c] # "gone" /\ UNCHANGED sent
  BY DEF Begins
<1>2. Len(begun'[c]) = Len(begun[c]) + Len(frames)
  BY BeginsIs
<1>3. sent[c] \in Seq(Request) /\ Len(begun[c]) \in Nat /\ Len(frames) \in Nat
      /\ \A i \in DOMAIN sent[c] : sent[c][i] \in Request /\ i \in Nat
  BY DEF GatewayTypes
<1>4. \A r \in Request :
        /\ request'[r].client = request[r].client
        /\ ~Contains(frames, r) => request'[r] = request[r]
        /\ Contains(frames, r) => request'[r].st \in {"running", "answered", "ignored"}
  <2>1. request[c] = request[c] /\ request \in [Request -> Message]
    BY DEF GatewayTypes
  <2> QED
    BY <2>1, DispatchedIs
<1>5. \A i \in DOMAIN sent[c] : i > Len(begun[c]) + Len(frames) => ~Contains(frames, sent[c][i])
  BY <1>1, FramesWaited
<1>6. \A i \in DOMAIN sent[c] : i > Len(begun'[c]) =>
        request'[sent[c][i]].st = "sent" /\ request'[sent[c][i]].id \in Id
  <2> TAKE i \in DOMAIN sent[c]
  <2> HAVE i > Len(begun'[c])
  <2>1. i > Len(begun[c]) + Len(frames) /\ i > Len(begun[c])
    BY <1>2, <1>3
  <2> QED
    BY <1>1, <1>3, <1>4, <1>5, <2>1 DEF Mailed
<1>7. \A i \in DOMAIN sent[c] :
        request'[sent[c][i]].client = c /\ request'[sent[c][i]].st # "none"
  BY <1>3, <1>4 DEF Mailed
<1> QED
  BY <1>1, <1>6, <1>7 DEF Mailed

LEMMA MessagesStep ==
  ASSUME GatewayTypes, Delivering, Messages, Tabled, [GatewayNext]_gatewayVars
  PROVE  Messages'
<1> SUFFICES ASSUME NEW d \in Client PROVE Mailed(d)'
  BY DEF Messages
<1>0. Mailed(d) /\ request \in [Request -> Message]
  BY DEF Messages, GatewayTypes
<1>1. ASSUME NEW c \in Client, Connect(c) PROVE Mailed(d)'
  BY <1>0, <1>1, MailAside DEF Connect, gatewayHistory, GatewayTypes
<1>2. ASSUME NEW c \in Client, ClientSends(c) PROVE Mailed(d)'
  <2>1. CASE c = d
    BY <1>0, <1>2, <2>1, MailSent DEF Delivering
  <2>2. CASE c # d
    <3>1. PICK r \in Request : Sends(c, r)
      BY <1>2, SendIs
    <3>2. sent'[d] = sent[d] /\ UNCHANGED <<conn, begun>>
      BY <1>2, <2>2, <3>1 DEF ClientSends, GatewayTypes, Sends
    <3>3. request[r].st = "none" /\ \A q \in Request : q # r => request'[q] = request[q]
      BY <3>1 DEF Sends
    <3> QED
      BY <1>0, <3>2, <3>3, MailAside
  <2> QED
    BY <2>1, <2>2
<1>3. ASSUME NEW c \in Client, Goes(c) PROVE Mailed(d)'
  <2>1. Leave(c, streams[c], request) /\ UNCHANGED <<sent, begun>>
    BY <1>3 DEF Goes, gatewayHistory
  <2>2. conn' = [conn EXCEPT ![c] = "gone"] /\ request' = Severed(c, streams[c], request)
    BY <1>0, <2>1, LeaveIs
  <2>3. \A r \in Request :
          /\ request'[r].client = request[r].client
          /\ \/ request'[r].st = request[r].st /\ request'[r].id = request[r].id
             \/ request'[r].st = "lost" /\ request[r].st = "sent" /\ request'[r].client = c
    BY <1>0, <2>2, SeveredIs
  <2>4. conn'[d] # "gone" => conn[d] # "gone" /\ c # d
    BY <2>2 DEF GatewayTypes
  <2> QED
    BY <1>0, <2>1, <2>3, <2>4, MailAside
<1>4. ASSUME NEW c \in Client, NEW frames \in Seq(Request), Reads(c, frames) PROVE Mailed(d)'
  <2>1. Begins(c, frames) /\ UNCHANGED conn /\ request' = Dispatched(frames)
    BY <1>4 DEF Reads
  <2>2. CASE c = d
    BY <1>0, <2>1, <2>2, MailRead
  <2>3. CASE c # d
    <3>1. \A r \in Request : Contains(frames, r) => request[r].client = c
      BY <2>1, FramesWaited DEF Begins, Messages
    <3>2. \A r \in Request : ~Contains(frames, r) => request'[r] = request[r]
      BY <1>0, <2>1, DispatchedIs
    <3>3. begun'[d] = begun[d] /\ UNCHANGED sent
      BY <2>1, <2>3, BeginsIs DEF Begins
    <3> QED
      BY <1>0, <2>1, <2>3, <3>1, <3>2, <3>3, MailAside
  <2> QED
    BY <2>2, <2>3
<1>5. ASSUME NEW c \in Client, NEW frames \in Seq(Request), ReadsLast(c, frames) PROVE Mailed(d)'
  <2> DEFINE reqs == Dispatched(frames)
  <2>1. Begins(c, frames) /\ Leave(c, Streaming(c, frames), reqs)
    BY <1>5 DEF ReadsLast
  <2>2. reqs \in [Request -> Message]
        /\ \A r \in Request : /\ reqs[r].client = request[r].client
                              /\ ~Contains(frames, r) => reqs[r] = request[r]
                              /\ Contains(frames, r) => reqs[r].st \in {"running", "answered", "ignored"}
    BY <1>0, DispatchedIs
  <2> HIDE DEF reqs
  <2>3. conn' = [conn EXCEPT ![c] = "gone"] /\ request' = Severed(c, Streaming(c, frames), reqs)
    BY <2>1, <2>2, LeaveIs
  <2>4. \A r \in Request :
          /\ request'[r].client = reqs[r].client
          /\ \/ request'[r].st = reqs[r].st /\ request'[r].id = reqs[r].id
             \/ request'[r].st = "lost" /\ reqs[r].st = "sent" /\ request'[r].client = c
    BY <2>2, <2>3, SeveredIs
  <2>5. \A r \in Request : Contains(frames, r) => request[r].client = c
    BY <2>1, FramesWaited DEF Begins, Messages
  <2>6. sent' = sent /\ (c # d => begun'[d] = begun[d])
    BY <2>1, BeginsIs DEF Begins
  <2>7. conn'[d] # "gone" => conn[d] # "gone" /\ c # d
    BY <2>3 DEF GatewayTypes
  <2>8. ASSUME NEW r \in Request, request[r].client = d, request[r].st # "none"
        PROVE  /\ request'[r].client = d /\ request'[r].st # "none"
               /\ conn'[d] # "gone" /\ request[r].st = "sent" /\ request[r].id \in Id =>
                    request'[r].st = "sent" /\ request'[r].id \in Id
    <3>1. CASE Contains(frames, r)
      BY <2>2, <2>4, <2>5, <2>7, <2>8, <3>1
    <3>2. CASE ~Contains(frames, r)
      BY <2>2, <2>4, <2>7, <2>8, <3>2
    <3> QED
      BY <3>1, <3>2
  <2> QED
    BY <1>0, <2>6, <2>7, <2>8, MailAside
<1>6. ASSUME NEW r \in Request, Ends(r) PROVE Mailed(d)'
  <2>1. /\ request'[r].client = request[r].client
        /\ request'[r].st \in {"answered", "refused", "dropped"} /\ request[r].st # "sent"
        /\ \A q \in Request : q # r => request'[q] = request[q]
    BY <1>6, EndIs DEF Ends, Active
  <2> QED
    BY <1>0, <1>6, <2>1, MailAside DEF Ends, gatewayHistory
<1>7. ASSUME NEW r \in Request, Yields(r) PROVE Mailed(d)'
  <2>1. /\ request'[r].client = request[r].client
        /\ request'[r].st \in {"running", "paused"} /\ request[r].st # "sent"
        /\ \A q \in Request : q # r => request'[q] = request[q]
    BY <1>7, YieldIs DEF Active
  <2> QED
    BY <1>0, <1>7, <2>1, MailAside DEF Yields, gatewayHistory
<1>8. CASE Shutdown
  <2>1. conn'[d] # "gone" => conn[d] # "gone"
    BY <1>8 DEF Shutdown
  <2> QED
    BY <1>0, <1>8, <2>1, MailAside DEF Shutdown, gatewayHistory
<1>9. CASE UNCHANGED gatewayVars
  BY <1>0, <1>9, MailAside DEF gatewayVars, gatewayHistory
<1> QED
  BY <1>1, <1>2, <1>3, <1>4, <1>5, <1>6, <1>7, <1>8, <1>9, GatewaySteps

-----------------------------------------------------------------------------
(* The tables of streams.                                                  *)
Cancelling == Tabled /\ StreamsCancelled

LEMMA CancellingAside ==
  ASSUME GatewayTypes, Cancelling, UNCHANGED shared,
         \A r \in Request : Active(r)' =>
           /\ Active(r) /\ request'[r].client = request[r].client /\ request'[r].id = request[r].id
           /\ request[r].aborted => request'[r].aborted
           /\ r \notin shared => streams'[request[r].client][request[r].id] =
                                   streams[request[r].client][request[r].id],
         \A c \in Client : conn'[c] = "gone" <=> conn[c] = "gone"
  PROVE  Cancelling'
<1>1. \A r \in Request : Active(r) => request[r].client \in Client /\ request[r].id \in Id
  BY DEF Cancelling, Tabled
<1>2. ASSUME NEW q \in Request, NEW r \in Request, Together(q, r)', q # r PROVE r \in shared'
  <2>1. Together(q, r)
    BY <1>2 DEF Together
  <2> QED
    BY <1>2, <2>1 DEF Cancelling, Tabled
<1>3. ASSUME NEW r \in Request, Active(r)', r \notin shared', conn'[request'[r].client] # "gone"
      PROVE  streams'[request'[r].client][request'[r].id] = r
  BY <1>1, <1>3 DEF Cancelling, Tabled
<1>4. ASSUME NEW r \in Request, Active(r)', r \notin shared', conn'[request'[r].client] = "gone"
      PROVE  request'[r].aborted
  BY <1>1, <1>4 DEF Cancelling, StreamsCancelled
<1>5. Tabled'
  BY <1>1, <1>2, <1>3 DEF Tabled
<1>6. StreamsCancelled'
  BY <1>4 DEF StreamsCancelled
<1> QED
  BY <1>5, <1>6 DEF Cancelling

(* The table after frames that were read.                                  *)
LEMMA SingleMax == ASSUME NEW k \in Nat PROVE Max({k}) = k
BY DEF Max

LEMMA StreamingNext ==
  ASSUME NEW c \in Client, NEW frames \in Seq(Request), NEW r \in Request, NEW i \in Id,
         \A x, y \in DOMAIN frames : frames[x] = frames[y] => x = y,
         \A q \in Request : Contains(frames, q) /\ request[q].form = "call" /\ request[q].id = i => q = r
  PROVE  /\ Contains(frames, r) /\ request[r].form = "call" /\ request[r].id = i =>
              Streaming(c, frames)[i] = r
         /\ ~(Contains(frames, r) /\ request[r].form = "call" /\ request[r].id = i) =>
              Streaming(c, frames)[i] = streams[c][i]
<1> DEFINE named == {k \in DOMAIN frames : request[frames[k]].id = i /\ request[frames[k]].form = "call"}
<1>1. Streaming(c, frames)[i] = IF named = {} THEN streams[c][i] ELSE frames[Max(named)]
  BY DEF Streaming
<1>2. DOMAIN frames = 1..Len(frames) /\ \A k \in DOMAIN frames : frames[k] \in Request /\ k \in Nat
  OBVIOUS
<1>3. \A k \in named : frames[k] = r
  <2> TAKE k \in named
  <2>1. k \in DOMAIN frames /\ frames[k] \in Request /\ Contains(frames, frames[k])
    BY <1>2 DEF Contains
  <2> QED
    BY <2>1
<1>4. CASE Contains(frames, r) /\ request[r].form = "call" /\ request[r].id = i
  <2>1. PICK k \in DOMAIN frames : frames[k] = r
    BY <1>2, <1>4 DEF Contains
  <2>2. named = {k}
    BY <1>3, <1>4, <2>1
  <2> HIDE DEF named
  <2>3. Max(named) = k
    BY <1>2, <2>2, SingleMax
  <2>4. named # {}
    BY <2>2
  <2> QED
    BY <1>1, <1>4, <2>1, <2>3, <2>4
<1>5. CASE ~(Contains(frames, r) /\ request[r].form = "call" /\ request[r].id = i)
  <2>1. \A k \in named : FALSE
    <3> TAKE k \in named
    <3>1. k \in DOMAIN frames /\ Contains(frames, frames[k])
          /\ request[frames[k]].id = i /\ request[frames[k]].form = "call"
      BY <1>2 DEF Contains
    <3>2. frames[k] = r
      BY <1>3
    <3> QED
      BY <1>5, <3>1, <3>2
  <2>2. named = {}
    BY <2>1
  <2> QED
    BY <1>1, <1>5, <2>2
<1> QED
  BY <1>4, <1>5

LEMMA BeginsTable ==
  ASSUME GatewayTypes, Messages, Cancelling, NEW c \in Client, NEW frames \in Seq(Request),
         Begins(c, frames), NEW reqs, reqs = Dispatched(frames),
         NEW r \in Request, reqs[r].st \in {"running", "paused"}
  PROVE  /\ reqs[r].client \in Client /\ reqs[r].id \in Id
         /\ \A q \in Request :
              q # r /\ reqs[q].st \in {"running", "paused"} /\ reqs[q].client = reqs[r].client
                /\ reqs[q].id = reqs[r].id => r \in shared'
         /\ reqs[r].client = c /\ r \notin shared' => Streaming(c, frames)[reqs[r].id] = r
         /\ reqs[r].client # c => Active(r) /\ reqs[r] = request[r]
<1> DEFINE New(q) == Contains(frames, q) /\ request[q].form = "call"
           both == ActiveOf(c) \cup {q \in Request : New(q)}
<1>1. Mailed(c) /\ NextOf(c, frames) /\ conn[c] # "gone" /\ request \in [Request -> Message]
  BY DEF Messages, Begins, GatewayTypes
<1>2. /\ \A q \in Request : Contains(frames, q) =>
           request[q].st = "sent" /\ request[q].client = c /\ request[q].id \in Id
      /\ \A x, y \in DOMAIN frames : frames[x] = frames[y] => x = y
  BY <1>1, FramesWaited
<1>3. \A q \in Request : reqs[q].st \in {"running", "paused"} =>
        /\ reqs[q].client = request[q].client /\ reqs[q].id = request[q].id
        /\ New(q) \/ (Active(q) /\ ~Contains(frames, q) /\ reqs[q] = request[q])
  BY <1>1, DispatchedIs DEF Active
<1>4. reqs[r].client \in Client /\ reqs[r].id \in Id
  BY <1>2, <1>3 DEF Cancelling, Tabled
<1>5. \A q \in Request : (reqs[q].st \in {"running", "paused"} /\ request[q].client = c) => q \in both
  BY <1>3 DEF ActiveOf
<1>6. \A q, p \in both : q # p /\ request[q].id = request[p].id => p \in shared'
  <2>1. Sharing(c, frames) = {p \in both : \E q \in both \ {p} : request[q].id = request[p].id}
    BY DEF Sharing
  <2>2. Sharing(c, frames) \subseteq shared'
    BY DEF Begins
  <2> HIDE DEF both
  <2> QED
    BY <2>1, <2>2
<1>7. ASSUME NEW q \in Request, q # r, reqs[q].st \in {"running", "paused"},
             reqs[q].client = reqs[r].client, reqs[q].id = reqs[r].id
      PROVE  r \in shared'
  <2>1. request[q].client = request[r].client /\ request[q].id = request[r].id
    BY <1>3, <1>7
  <2>2. CASE request[r].client = c
    <3>1. q \in both /\ r \in both
      BY <1>5, <1>7, <2>1, <2>2
    <3> QED
      BY <1>6, <1>7, <2>1, <3>1
  <2>3. CASE request[r].client # c
    <3>1. Active(q) /\ Active(r)
      BY <1>2, <1>3, <1>7, <2>1, <2>3
    <3>2. r \in shared
      BY <1>7, <2>1, <3>1 DEF Cancelling, Tabled, Together
    <3> QED
      BY <3>2 DEF Begins
  <2> QED
    BY <2>2, <2>3
<1>8. ASSUME reqs[r].client = c, r \notin shared' PROVE Streaming(c, frames)[reqs[r].id] = r
  <2> DEFINE i == request[r].id
  <2>1. i \in Id /\ reqs[r].id = i /\ request[r].client = c /\ r \in both
    BY <1>3, <1>4, <1>5, <1>8
  <2>2. \A q \in Request : New(q) /\ request[q].id = i => q = r
    <3>1. \A q \in Request : New(q) => q \in both
      OBVIOUS
    <3> QED
      BY <1>6, <1>8, <2>1, <3>1
  <2>3. CASE New(r)
    BY <1>2, <2>1, <2>2, <2>3, StreamingNext
  <2>4. CASE ~New(r)
    <3>1. Streaming(c, frames)[i] = streams[c][i]
      BY <1>2, <2>1, <2>2, <2>4, StreamingNext
    <3>2. Active(r)
      BY <1>3, <2>4
    <3>3. r \notin shared
      BY <1>8 DEF Begins
    <3>4. streams[c][i] = r
      BY <1>1, <2>1, <3>2, <3>3 DEF Cancelling, Tabled
    <3> QED
      BY <2>1, <3>1, <3>4
  <2> QED
    BY <2>3, <2>4
<1>9. reqs[r].client # c => Active(r) /\ reqs[r] = request[r]
  BY <1>2, <1>3
<1> QED
  BY <1>4, <1>7, <1>8, <1>9

LEMMA CancellingReads ==
  ASSUME GatewayTypes, Messages, Cancelling, NEW c \in Client, NEW frames \in Seq(Request),
         Reads(c, frames)
  PROVE  Cancelling'
<1>1. /\ Begins(c, frames) /\ UNCHANGED conn /\ request' = Dispatched(frames)
      /\ streams' = [streams EXCEPT ![c] = Streaming(c, frames)]
  BY DEF Reads
<1>2. streams'[c] = Streaming(c, frames) /\ \A d \in Client : d # c => streams'[d] = streams[d]
  BY <1>1, StreamingIs, TablesStay
<1>3. \A r \in Request : Active(r)' =>
        /\ request'[r].client \in Client /\ request'[r].id \in Id
        /\ \A q \in Request :
             q # r /\ Active(q)' /\ request'[q].client = request'[r].client
               /\ request'[q].id = request'[r].id => r \in shared'
        /\ request'[r].client = c /\ r \notin shared' => Streaming(c, frames)[request'[r].id] = r
        /\ request'[r].client # c => Active(r) /\ request'[r] = request[r]
  BY <1>1, BeginsTable DEF Active
<1>4. conn[c] # "gone" /\ shared \subseteq shared'
  BY <1>1 DEF Begins
<1>5. ASSUME NEW r \in Request, Active(r)', r \notin shared', conn'[request'[r].client] # "gone"
      PROVE  streams'[request'[r].client][request'[r].id] = r
  <2>1. CASE request'[r].client = c
    BY <1>2, <1>3, <1>5, <2>1
  <2>2. CASE request'[r].client # c
    <3>1. Active(r) /\ request'[r] = request[r] /\ r \notin shared /\ request'[r].client \in Client
      BY <1>3, <1>4, <1>5, <2>2
    <3> QED
      BY <1>1, <1>2, <1>5, <2>2, <3>1 DEF Cancelling, Tabled
  <2> QED
    BY <2>1, <2>2
<1>6. ASSUME NEW r \in Request, Active(r)', r \notin shared', conn'[request'[r].client] = "gone"
      PROVE  request'[r].aborted
  <2>1. request'[r].client # c
    BY <1>1, <1>4, <1>6
  <2>2. Active(r) /\ request'[r] = request[r] /\ r \notin shared
    BY <1>3, <1>4, <1>6, <2>1
  <2> QED
    BY <1>1, <1>6, <2>2 DEF Cancelling, StreamsCancelled
<1>7. Tabled'
  BY <1>3, <1>5 DEF Tabled, Together
<1>8. StreamsCancelled'
  BY <1>6 DEF StreamsCancelled
<1> QED
  BY <1>7, <1>8 DEF Cancelling

(* A handler ends, whatever it has read before.                            *)
LEMMA CancellingLeaves ==
  ASSUME GatewayTypes, NEW c \in Client, NEW table, NEW reqs \in [Request -> Message],
         Leave(c, table, reqs),
         \A r \in Request : reqs[r].st \in {"running", "paused"} =>
           /\ reqs[r].client \in Client /\ reqs[r].id \in Id
           /\ \A q \in Request :
                q # r /\ reqs[q].st \in {"running", "paused"} /\ reqs[q].client = reqs[r].client
                  /\ reqs[q].id = reqs[r].id => r \in shared'
           /\ reqs[r].client = c /\ r \notin shared' => table[reqs[r].id] = r
           /\ reqs[r].client # c => Active(r) /\ reqs[r] = request[r],
         Cancelling, shared \subseteq shared'
  PROVE  Cancelling'
<1>1. /\ conn' = [conn EXCEPT ![c] = "gone"] /\ request' = Severed(c, table, reqs)
      /\ \A d \in Client : d # c => streams'[d] = streams[d]
  BY LeaveIs
<1>2. \A d \in Client : IF d = c THEN conn'[d] = "gone" ELSE conn'[d] = conn[d]
  BY <1>1 DEF GatewayTypes
<1>3. \A r \in Request : Active(r)' =>
        /\ reqs[r].st \in {"running", "paused"}
        /\ request'[r].client = reqs[r].client /\ request'[r].id = reqs[r].id
        /\ reqs[r].aborted => request'[r].aborted
        /\ (\E i \in Id : table[i] = r) => request'[r].aborted
  BY <1>1, SeveredIs DEF Active
<1>4. ASSUME NEW q \in Request, NEW r \in Request, Together(q, r)', q # r PROVE r \in shared'
  BY <1>3, <1>4 DEF Together
<1>5. ASSUME NEW r \in Request, Active(r)', r \notin shared', conn'[request'[r].client] # "gone"
      PROVE  streams'[request'[r].client][request'[r].id] = r
  <2>1. request'[r].client # c /\ request'[r].client \in Client
    BY <1>2, <1>3, <1>5
  <2>2. Active(r) /\ reqs[r] = request[r] /\ r \notin shared
    BY <1>3, <1>5, <2>1
  <2> QED
    BY <1>1, <1>2, <1>3, <1>5, <2>1, <2>2 DEF Cancelling, Tabled
<1>6. ASSUME NEW r \in Request, Active(r)', r \notin shared', conn'[request'[r].client] = "gone"
      PROVE  request'[r].aborted
  <2>1. CASE request'[r].client = c
    BY <1>3, <1>6, <2>1
  <2>2. CASE request'[r].client # c
    <3>1. Active(r) /\ reqs[r] = request[r] /\ r \notin shared /\ request'[r].client \in Client
      BY <1>3, <1>6, <2>2
    <3>2. conn[request[r].client] = "gone"
      BY <1>2, <1>3, <1>6, <2>2, <3>1
    <3> QED
      BY <1>3, <1>6, <3>1, <3>2 DEF Cancelling, StreamsCancelled
  <2> QED
    BY <2>1, <2>2
<1>7. Tabled'
  BY <1>3, <1>4, <1>5 DEF Tabled
<1>8. StreamsCancelled'
  BY <1>6 DEF StreamsCancelled
<1> QED
  BY <1>7, <1>8 DEF Cancelling

LEMMA CancellingStep ==
  ASSUME GatewayTypes, Delivering, Messages, Cancelling, [GatewayNext]_gatewayVars
  PROVE  Cancelling'
<1>0. request \in [Request -> Message] /\ Tabled
  BY DEF GatewayTypes, Cancelling
<1>1. ASSUME NEW c \in Client, Connect(c) PROVE Cancelling'
  <2>1. \A d \in Client : conn'[d] = "gone" <=> conn[d] = "gone"
    BY <1>1 DEF Connect, GatewayTypes
  <2>2. UNCHANGED <<request, streams, shared>>
    BY <1>1 DEF Connect, gatewayHistory
  <2> QED
    BY <2>1, <2>2, CancellingAside DEF Active
<1>2. ASSUME NEW c \in Client, ClientSends(c) PROVE Cancelling'
  <2>1. PICK r \in Request : Sends(c, r)
    BY <1>2, SendIs
  <2>2. request'[r].st = "sent" /\ \A q \in Request : q # r => request'[q] = request[q]
    BY <2>1 DEF Sends
  <2>3. UNCHANGED <<conn, streams, shared>>
    BY <1>2 DEF ClientSends
  <2> QED
    BY <2>2, <2>3, CancellingAside DEF Active
<1>3. ASSUME NEW c \in Client, Goes(c) PROVE Cancelling'
  <2>1. Leave(c, streams[c], request) /\ UNCHANGED shared /\ conn[c] # "gone"
    BY <1>3 DEF Goes, gatewayHistory
  <2>2. \A r \in Request : request[r].st \in {"running", "paused"} =>
          /\ request[r].client \in Client /\ request[r].id \in Id
          /\ \A q \in Request :
               q # r /\ request[q].st \in {"running", "paused"} /\ request[q].client = request[r].client
                 /\ request[q].id = request[r].id => r \in shared'
          /\ request[r].client = c /\ r \notin shared' => streams[c][request[r].id] = r
          /\ Active(r)
    BY <2>1 DEF Cancelling, Tabled, Together, Active
  <2> QED
    BY <1>0, <2>1, <2>2, CancellingLeaves
<1>4. ASSUME NEW c \in Client, NEW frames \in Seq(Request), Reads(c, frames) PROVE Cancelling'
  BY <1>4, CancellingReads
<1>5. ASSUME NEW c \in Client, NEW frames \in Seq(Request), ReadsLast(c, frames) PROVE Cancelling'
  <2> DEFINE reqs == Dispatched(frames)
  <2>1. Begins(c, frames) /\ Leave(c, Streaming(c, frames), reqs) /\ shared \subseteq shared'
    BY <1>5 DEF ReadsLast, Begins
  <2>2. reqs \in [Request -> Message]
    BY <1>0, DispatchedIs
  <2>3. \A r \in Request : reqs[r].st \in {"running", "paused"} =>
          /\ reqs[r].client \in Client /\ reqs[r].id \in Id
          /\ \A q \in Request :
               q # r /\ reqs[q].st \in {"running", "paused"} /\ reqs[q].client = reqs[r].client
                 /\ reqs[q].id = reqs[r].id => r \in shared'
          /\ reqs[r].client = c /\ r \notin shared' => Streaming(c, frames)[reqs[r].id] = r
          /\ reqs[r].client # c => Active(r) /\ reqs[r] = request[r]
    BY <2>1, BeginsTable
  <2> HIDE DEF reqs
  <2> QED
    BY <2>1, <2>2, <2>3, CancellingLeaves
<1>6. ASSUME NEW r \in Request, Ends(r) PROVE Cancelling'
  <2>1. /\ request[r].client \in Client /\ Active(r)
        /\ request'[r].st \in {"answered", "refused", "dropped"}
        /\ \A q \in Request : q # r => request'[q] = request[q]
        /\ \A d \in Client, i \in Id :
             <<d, i>> # <<request[r].client, request[r].id>> => streams'[d][i] = streams[d][i]
    BY <1>0, <1>6, EndIs DEF Ends
  <2>2. UNCHANGED <<conn, shared>>
    BY <1>6 DEF Ends, gatewayHistory
  <2>3. ASSUME NEW q \in Request, Active(q)'
        PROVE  /\ Active(q) /\ request'[q] = request[q]
               /\ q \notin shared => streams'[request[q].client][request[q].id] =
                                       streams[request[q].client][request[q].id]
    <3>1. q # r /\ Active(q) /\ request'[q] = request[q]
      BY <2>1, <2>3 DEF Active
    <3>2. request[q].client \in Client /\ request[q].id \in Id
      BY <1>0, <3>1 DEF Tabled
    <3>3. CASE request[q].client = request[r].client /\ request[q].id = request[r].id
      BY <1>0, <2>1, <3>1, <3>3 DEF Tabled, Together
    <3>4. CASE ~(request[q].client = request[r].client /\ request[q].id = request[r].id)
      BY <2>1, <3>1, <3>2, <3>4
    <3> QED
      BY <3>1, <3>3, <3>4
  <2> QED
    BY <2>2, <2>3, CancellingAside
<1>7. ASSUME NEW r \in Request, Yields(r) PROVE Cancelling'
  <2>1. /\ Active(r) /\ request'[r].client = request[r].client /\ request'[r].id = request[r].id
        /\ request'[r].aborted = request[r].aborted
        /\ \A q \in Request : q # r => request'[q] = request[q]
    BY <1>7, YieldIs
  <2>2. UNCHANGED <<conn, streams, shared>>
    BY <1>7 DEF Yields, gatewayHistory
  <2>3. ASSUME NEW q \in Request, Active(q)'
        PROVE  /\ Active(q) /\ request'[q].client = request[q].client /\ request'[q].id = request[q].id
               /\ request[q].aborted => request'[q].aborted
    BY <2>1, <2>3 DEF Active
  <2> QED
    BY <2>2, <2>3, CancellingAside
<1>8. CASE Shutdown
  <2>1. \A d \in Client : conn'[d] = "gone" <=> conn[d] = "gone"
    BY <1>8 DEF Shutdown
  <2>2. UNCHANGED <<request, streams, shared>>
    BY <1>8 DEF Shutdown, gatewayHistory
  <2> QED
    BY <2>1, <2>2, CancellingAside DEF Active
<1>9. CASE UNCHANGED gatewayVars
  BY <1>9, CancellingAside DEF gatewayVars, gatewayHistory, Active
<1> QED
  BY <1>0, <1>1, <1>2, <1>3, <1>4, <1>5, <1>6, <1>7, <1>8, <1>9, GatewaySteps

-----------------------------------------------------------------------------
(* The theorems.                                                           *)
LEMMA GatewayInvInit == GatewayInit => GatewayInv
<1> SUFFICES ASSUME GatewayInit PROVE GatewayInv
  OBVIOUS
<1>1. \A r \in Request : request[r].st = "none"
  BY DEF GatewayInit, Unsent
<1>2. Tabled /\ StreamsCancelled
  BY <1>1 DEF Tabled, StreamsCancelled, Together, Active
<1>3. ASSUME NEW c \in Client PROVE Delivers(c) /\ Mailed(c)
  <2>1. sent[c] = <<>> /\ begun[c] = <<>> /\ buffer[c] = <<>> /\ wire[c] = <<>>
    BY DEF GatewayInit
  <2>2. Len(<<>>) = 0 /\ DOMAIN <<>> = {} /\ <<>> \o <<>> = <<>>
    OBVIOUS
  <2> QED
    BY <2>1, <2>2 DEF Delivers, InOrder, OnTheWay, Mailed
<1> QED
  BY <1>2, <1>3, GatewayTypesInit DEF GatewayInv, Delivering, Messages

LEMMA GatewayInvStep == GatewayInv /\ [GatewayNext]_gatewayVars => GatewayInv'
BY GatewayTypesStep, DeliveringStep, MessagesStep, CancellingStep DEF GatewayInv, Cancelling

LEMMA GatewayInvAlways == GatewaySpec => []GatewayInv
<1> QED
  BY GatewayInvInit, GatewayInvStep, PTL DEF GatewaySpec

(* Whatever the chunks a client's bytes arrive in, its requests are begun  *)
(* in the order it wrote them, each once, and no whole frame is left in    *)
(* the buffer.                                                             *)
THEOREM RequestsBeginInOrder == GatewaySpec => []RequestsInOrder
<1>1. ASSUME GatewayInv, NEW c \in Client PROVE IsPrefix(begun[c], sent[c]) /\ Len(buffer[c]) < 2
  <2>1. InOrder(c) /\ begun[c] \in Seq(Request) /\ sent[c] \in Seq(Request)
    BY <1>1 DEF GatewayInv, Delivering, Delivers, GatewayTypes
  <2> DEFINE n == Len(begun[c])
  <2>2. n \in Nat /\ n <= Len(sent[c]) /\ Len(sent[c]) \in Nat /\ DOMAIN begun[c] = 1..n
    BY <2>1 DEF InOrder
  <2>3. SubSeq(begun[c], 1, n) = [i \in 1..n |-> begun[c][i]]
    BY <2>1, <2>2
  <2>4. SubSeq(sent[c], 1, n) = [i \in 1..n |-> sent[c][i]]
    BY <2>1, <2>2
  <2>5. \A i \in 1..n : begun[c][i] = sent[c][i]
    BY <2>1, <2>2 DEF InOrder
  <2>6. SubSeq(begun[c], 1, n) = SubSeq(sent[c], 1, n)
    BY <2>3, <2>4, <2>5
  <2> QED
    BY <2>1, <2>2, <2>6 DEF IsPrefix, InOrder
<1>2. GatewayInv => RequestsInOrder
  BY <1>1 DEF RequestsInOrder
<1> QED
  BY <1>2, GatewayInvAlways, PTL

(* INV-3 of the gateway: when a client has gone, every request of it that  *)
(* still runs has been cancelled, if it ran alone under its id.            *)
THEOREM StreamsAreCancelled == GatewaySpec => []StreamsCancelled
<1>1. GatewayInv => StreamsCancelled
  BY DEF GatewayInv
<1> QED
  BY <1>1, GatewayInvAlways, PTL

-----------------------------------------------------------------------------
(* What becomes of each request.                                           *)

(* A table of streams holds requests of its own client, and only those of  *)
(* a client that has gone are aborted.                                     *)
Owned ==
  \A c \in Client, i \in Id : streams[c][i] # None =>
    /\ streams[c][i] \in Request
    /\ request[streams[c][i]].client = c /\ request[streams[c][i]].st # "none"
AbortedAreGone ==
  \A r \in Request : request[r].aborted =>
    request[r].client \in Client /\ conn[request[r].client] = "gone"
Owning == Owned /\ AbortedAreGone

LEMMA OwningAside ==
  ASSUME Owning,
         \A r \in Request :
           /\ request[r].st # "none" =>
                request'[r].client = request[r].client /\ request'[r].st # "none"
           /\ request'[r].aborted => request[r].aborted /\ request'[r].client = request[r].client,
         \A c \in Client, i \in Id : streams'[c][i] = streams[c][i] \/ streams'[c][i] = None,
         \A c \in Client : conn[c] = "gone" => conn'[c] = "gone"
  PROVE  Owning'
BY DEF Owning, Owned, AbortedAreGone

(* The last frame of an id is there, if any is.                            *)
LEMMA MaxIs ==
  ASSUME NEW n \in Nat, NEW S, S \subseteq 1..n, S # {}
  PROVE  Max(S) \in S
<1> DEFINE R == {ss \in Nat \X Nat : ss[1] < ss[2]}
           T == {n - k : k \in S}
<1>1. IsWellFoundedOn(R, Nat)
  BY NatLessThanWellFounded DEF OpToRel
<1>2. T \subseteq Nat /\ T # {}
  <2>1. \A k \in S : n - k \in Nat
    OBVIOUS
  <2>2. PICK k \in S : TRUE
    OBVIOUS
  <2>3. n - k \in T
    OBVIOUS
  <2> QED
    BY <2>1, <2>3
<1> HIDE DEF T, R
<1>3. PICK x \in T : \A y \in T : ~ (<<y, x>> \in R)
  BY <1>1, <1>2, WFMin
<1>4. ASSUME NEW y \in T PROVE x <= y
  <2>1. x \in Nat /\ y \in Nat
    BY <1>2
  <2>2. ~(y < x)
    BY <1>3, <2>1 DEF R
  <2> QED
    BY <2>1, <2>2
<1>5. PICK m \in S : x = n - m
  BY DEF T
<1>6. \A k \in S : k <= m
  <2> TAKE k \in S
  <2>1. n - k \in T
    BY DEF T
  <2>2. n - m <= n - k
    BY <1>4, <1>5, <2>1
  <2> QED
    BY <2>2
<1>7. \E z \in S : \A y \in S : z >= y
  BY <1>6
<1> QED
  BY <1>7 DEF Max

LEMMA StreamingOwned ==
  ASSUME NEW c \in Client, NEW frames \in Seq(Request), NEW i \in Id
  PROVE  \/ Streaming(c, frames)[i] = streams[c][i]
         \/ Streaming(c, frames)[i] \in Request /\ Contains(frames, Streaming(c, frames)[i])
<1> DEFINE named == {k \in DOMAIN frames : request[frames[k]].id = i /\ request[frames[k]].form = "call"}
<1>1. Streaming(c, frames)[i] = IF named = {} THEN streams[c][i] ELSE frames[Max(named)]
  BY DEF Streaming
<1>2. DOMAIN frames = 1..Len(frames) /\ Len(frames) \in Nat
      /\ \A k \in DOMAIN frames : frames[k] \in Request
  OBVIOUS
<1>3. CASE named = {}
  BY <1>1, <1>3
<1>4. CASE named # {}
  <2>1. named \subseteq 1..Len(frames)
    BY <1>2
  <2>2. Max(named) \in named
    BY <1>2, <1>4, <2>1, MaxIs
  <2>3. Max(named) \in DOMAIN frames
    BY <2>2
  <2>4. frames[Max(named)] \in Request /\ Contains(frames, frames[Max(named)])
    BY <1>2, <2>3 DEF Contains
  <2> QED
    BY <1>1, <1>4, <2>4
<1> QED
  BY <1>3, <1>4

(* After frames have been read, and the handler has gone on or has ended.  *)
LEMMA BeginsOwned ==
  ASSUME GatewayTypes, Messages, Owning, NEW c \in Client, NEW frames \in Seq(Request),
         Begins(c, frames), NEW reqs, reqs = Dispatched(frames)
  PROVE  /\ reqs \in [Request -> Message]
         /\ \A r \in Request : /\ reqs[r].client = request[r].client
                               /\ request[r].st # "none" => reqs[r].st # "none"
                               /\ reqs[r].aborted => request[r].aborted
         /\ \A i \in Id : LET r == Streaming(c, frames)[i] IN
              r # None => r \in Request /\ request[r].client = c /\ request[r].st # "none"
<1>1. Mailed(c) /\ NextOf(c, frames) /\ conn[c] # "gone" /\ request \in [Request -> Message]
  BY DEF Messages, Begins, GatewayTypes
<1>2. \A q \in Request : Contains(frames, q) => request[q].st = "sent" /\ request[q].client = c
  BY <1>1, FramesWaited
<1>3. \A r \in Request : /\ reqs[r].client = request[r].client
                         /\ request[r].st # "none" => reqs[r].st # "none"
                         /\ reqs[r].aborted => request[r].aborted
  BY <1>1, DispatchedIs
<1>4. reqs \in [Request -> Message]
  BY <1>1, DispatchedIs
<1>5. ASSUME NEW i \in Id, Streaming(c, frames)[i] # None
      PROVE  LET r == Streaming(c, frames)[i] IN
             r \in Request /\ request[r].client = c /\ request[r].st # "none"
  <2>1. CASE Streaming(c, frames)[i] = streams[c][i]
    BY <1>5, <2>1 DEF Owning, Owned
  <2>2. CASE Streaming(c, frames)[i] \in Request /\ Contains(frames, Streaming(c, frames)[i])
    BY <1>2, <2>2
  <2> QED
    BY <2>1, <2>2, StreamingOwned
<1> QED
  BY <1>3, <1>4, <1>5

LEMMA LeaveOwned ==
  ASSUME GatewayTypes, Owning, NEW c \in Client, NEW table, NEW reqs \in [Request -> Message],
         Leave(c, table, reqs),
         \A r \in Request : /\ reqs[r].client = request[r].client
                            /\ request[r].st # "none" => reqs[r].st # "none"
                            /\ reqs[r].aborted => request[r].aborted,
         \A i \in Id : table[i] # None => table[i] \in Request /\ request[table[i]].client = c
  PROVE  Owning'
<1>1. /\ conn' = [conn EXCEPT ![c] = "gone"] /\ request' = Severed(c, table, reqs)
      /\ \A d \in Client : d # c => streams'[d] = streams[d]
      /\ \A i \in Id : streams'[c][i] = None
  BY LeaveIs
<1>2. conn'[c] = "gone" /\ \A d \in Client : conn[d] = "gone" => conn'[d] = "gone"
  BY <1>1 DEF GatewayTypes
<1>3. \A r \in Request :
        /\ request'[r].client = request[r].client
        /\ request[r].st # "none" => request'[r].st # "none"
        /\ request'[r].aborted => request[r].aborted \/ \E i \in Id : table[i] = r
  BY <1>1, SeveredIs
<1>4. Owned'
  BY <1>1, <1>3 DEF Owning, Owned
<1>5. ASSUME NEW r \in Request, request'[r].aborted
      PROVE  request'[r].client \in Client /\ conn'[request'[r].client] = "gone"
  <2>1. CASE request[r].aborted
    BY <1>2, <1>3, <2>1 DEF Owning, AbortedAreGone
  <2>2. CASE \E i \in Id : table[i] = r
    BY <1>2, <1>3, <2>2, GatewayAssumption
  <2> QED
    BY <1>3, <1>5, <2>1, <2>2
<1> QED
  BY <1>4, <1>5 DEF Owning, AbortedAreGone

LEMMA OwningStep ==
  ASSUME GatewayInv, Owning, [GatewayNext]_gatewayVars
  PROVE  Owning'
<1>0. /\ GatewayTypes /\ Delivering /\ Messages /\ Tabled
      /\ request \in [Request -> Message]
  BY DEF GatewayInv, GatewayTypes
<1>1. ASSUME NEW c \in Client, Connect(c) PROVE Owning'
  <2>1. \A d \in Client : conn[d] = "gone" => conn'[d] = "gone"
    BY <1>0, <1>1 DEF Connect, GatewayTypes
  <2>2. UNCHANGED <<request, streams>>
    BY <1>1 DEF Connect
  <2> QED
    BY <2>1, <2>2, OwningAside
<1>2. ASSUME NEW c \in Client, ClientSends(c) PROVE Owning'
  <2>1. PICK r \in Request : Sends(c, r)
    BY <1>0, <1>2, SendIs
  <2>2. /\ request[r].st = "none" /\ ~request'[r].aborted
        /\ \A q \in Request : q # r => request'[q] = request[q]
    BY <2>1 DEF Sends
  <2>3. UNCHANGED <<conn, streams>>
    BY <1>2 DEF ClientSends
  <2> QED
    BY <2>2, <2>3, OwningAside
<1>3. ASSUME NEW c \in Client, Goes(c) PROVE Owning'
  <2>1. Leave(c, streams[c], request)
    BY <1>3 DEF Goes
  <2>2. \A i \in Id : streams[c][i] # None =>
          streams[c][i] \in Request /\ request[streams[c][i]].client = c
    BY DEF Owning, Owned
  <2> QED
    BY <1>0, <2>1, <2>2, LeaveOwned
<1>4. ASSUME NEW c \in Client, NEW frames \in Seq(Request), Reads(c, frames) PROVE Owning'
  <2>1. /\ Begins(c, frames) /\ UNCHANGED conn /\ request' = Dispatched(frames)
        /\ streams' = [streams EXCEPT ![c] = Streaming(c, frames)]
    BY <1>4 DEF Reads
  <2>2. streams'[c] = Streaming(c, frames) /\ \A d \in Client : d # c => streams'[d] = streams[d]
    BY <1>0, <2>1, StreamingIs, TablesStay
  <2>3. \A r \in Request : /\ request'[r].client = request[r].client
                           /\ request[r].st # "none" => request'[r].st # "none"
                           /\ request'[r].aborted => request[r].aborted
    BY <1>0, <2>1, BeginsOwned
  <2>4. \A i \in Id : LET r == Streaming(c, frames)[i] IN
          r # None => r \in Request /\ request[r].client = c /\ request[r].st # "none"
    BY <1>0, <2>1, BeginsOwned
  <2>5. Owned'
    BY <2>2, <2>3, <2>4 DEF Owning, Owned
  <2>6. AbortedAreGone'
    BY <2>1, <2>3 DEF Owning, AbortedAreGone
  <2> QED
    BY <2>5, <2>6 DEF Owning
<1>5. ASSUME NEW c \in Client, NEW frames \in Seq(Request), ReadsLast(c, frames) PROVE Owning'
  <2>1. Begins(c, frames) /\ Leave(c, Streaming(c, frames), Dispatched(frames))
    BY <1>5 DEF ReadsLast
  <2> QED
    BY <1>0, <2>1, BeginsOwned, LeaveOwned
<1>6. ASSUME NEW r \in Request, Ends(r) PROVE Owning'
  <2>1. /\ request'[r].client = request[r].client /\ ~request'[r].aborted
        /\ request'[r].st # "none"
        /\ \A q \in Request : q # r => request'[q] = request[q]
        /\ streams'[request[r].client][request[r].id] = None
        /\ \A d \in Client, i \in Id :
             <<d, i>> # <<request[r].client, request[r].id>> => streams'[d][i] = streams[d][i]
    BY <1>0, <1>6, EndIs
  <2>2. \A d \in Client, i \in Id : streams'[d][i] = streams[d][i] \/ streams'[d][i] = None
    BY <2>1
  <2>3. UNCHANGED conn
    BY <1>6 DEF Ends
  <2> QED
    BY <2>1, <2>2, <2>3, OwningAside
<1>7. ASSUME NEW r \in Request, Yields(r) PROVE Owning'
  <2>1. /\ request'[r].client = request[r].client /\ request'[r].st # "none"
        /\ request'[r].aborted = request[r].aborted
        /\ \A q \in Request : q # r => request'[q] = request[q]
    BY <1>0, <1>7, YieldIs
  <2>2. UNCHANGED <<conn, streams>>
    BY <1>7 DEF Yields
  <2> QED
    BY <2>1, <2>2, OwningAside
<1>8. CASE Shutdown
  <2>1. \A d \in Client : conn[d] = "gone" => conn'[d] = "gone"
    BY <1>8 DEF Shutdown
  <2>2. UNCHANGED <<request, streams>>
    BY <1>8 DEF Shutdown
  <2> QED
    BY <2>1, <2>2, OwningAside
<1>9. CASE UNCHANGED gatewayVars
  BY <1>9, OwningAside DEF gatewayVars
<1> QED
  BY <1>0, <1>1, <1>2, <1>3, <1>4, <1>5, <1>6, <1>7, <1>8, <1>9, GatewaySteps

(* How a request can end, and that it stays so.                            *)
Fate == {"answered", "ignored", "refused", "dropped", "lost"}
FatesStay == \A r \in Request : request[r].st \in Fate => request'[r].st = request[r].st
(* A call is dropped without a response only when the gateway or the       *)
(* client has closed: never because another of its client had the same id. *)
DropsAreExcused ==
  \A r \in Request : request[r].st # "dropped" /\ request'[r].st = "dropped" =>
    conn[request[r].client] # "open"

LEMMA FatesStep ==
  ASSUME GatewayInv, Owning, [GatewayNext]_gatewayVars
  PROVE  FatesStay /\ DropsAreExcused
<1>0. /\ GatewayTypes /\ Delivering /\ Messages /\ Tabled
      /\ request \in [Request -> Message]
  BY DEF GatewayInv, GatewayTypes
<1> DEFINE Goal == FatesStay /\ DropsAreExcused
<1> USE DEF Fate
<1>1. ASSUME \A r \in Request : \/ request'[r].st = request[r].st
                                \/ request[r].st \notin Fate /\ request'[r].st # "dropped"
      PROVE  Goal
  BY <1>1 DEF FatesStay, DropsAreExcused
<1> HIDE DEF Goal
<1>2. ASSUME NEW c \in Client, ClientSends(c) PROVE Goal
  <2>1. PICK r \in Request : Sends(c, r)
    BY <1>0, <1>2, SendIs
  <2>2. /\ request[r].st = "none" /\ request'[r].st = "sent"
        /\ \A q \in Request : q # r => request'[q] = request[q]
    BY <2>1 DEF Sends
  <2> QED
    BY <1>1, <2>2
<1>3. ASSUME NEW c \in Client, Goes(c) PROVE Goal
  <2>1. request' = Severed(c, streams[c], request)
    BY <1>0, <1>3, LeaveIs DEF Goes
  <2>2. \A r \in Request : \/ request'[r].st = request[r].st
                           \/ request'[r].st = "lost" /\ request[r].st = "sent"
    BY <1>0, <2>1, SeveredIs
  <2> QED
    BY <1>1, <2>2
<1>4. ASSUME NEW c \in Client, NEW frames \in Seq(Request), Begins(c, frames), NEW r \in Request
      PROVE  \/ Dispatched(frames)[r].st = request[r].st
             \/ request[r].st = "sent" /\ Dispatched(frames)[r].st \in {"running", "answered", "ignored"}
  <2>1. Contains(frames, r) => request[r].st = "sent"
    BY <1>0, <1>4, FramesWaited DEF Messages, Begins
  <2> QED
    BY <1>0, <2>1, DispatchedIs
<1>5. ASSUME NEW c \in Client, NEW frames \in Seq(Request), Reads(c, frames) PROVE Goal
  <2>1. Begins(c, frames) /\ request' = Dispatched(frames)
    BY <1>5 DEF Reads
  <2> QED
    BY <1>1, <1>4, <2>1
<1>6. ASSUME NEW c \in Client, NEW frames \in Seq(Request), ReadsLast(c, frames) PROVE Goal
  <2> DEFINE reqs == Dispatched(frames)
  <2>1. Begins(c, frames) /\ Leave(c, Streaming(c, frames), reqs) /\ reqs \in [Request -> Message]
    BY <1>0, <1>6, DispatchedIs DEF ReadsLast
  <2>2. \A r \in Request : \/ reqs[r].st = request[r].st
                           \/ request[r].st = "sent" /\ reqs[r].st \in {"running", "answered", "ignored"}
    BY <1>4, <2>1
  <2> HIDE DEF reqs
  <2>3. request' = Severed(c, Streaming(c, frames), reqs)
    BY <1>0, <2>1, LeaveIs
  <2>4. \A r \in Request : \/ request'[r].st = reqs[r].st
                           \/ request'[r].st = "lost" /\ reqs[r].st = "sent"
    BY <2>1, <2>3, SeveredIs
  <2> QED
    BY <1>1, <2>2, <2>4
<1>7. ASSUME NEW r \in Request, Ends(r) PROVE Goal
  <2>1. PICK st \in {"answered", "refused", "dropped"} :
          /\ Over(r, st) /\ (st = "dropped" => request[r].aborted \/ ~CanSend(r))
    BY <1>7 DEF Ends
  <2>2. request'[r].st = st
    BY <1>0, <2>1 DEF Over, Closed, Unsent
  <2>3. Active(r) /\ \A q \in Request : q # r => request'[q] = request[q]
    BY <1>0, <1>7, EndIs DEF Ends
  <2>4. st = "dropped" => conn[request[r].client] # "open"
    BY <2>1 DEF Owning, AbortedAreGone, CanSend
  <2> QED
    BY <2>2, <2>3, <2>4 DEF Goal, FatesStay, DropsAreExcused, Active
<1>8. ASSUME NEW r \in Request, Yields(r) PROVE Goal
  <2>1. /\ Active(r) /\ request'[r].st \in {"running", "paused"}
        /\ \A q \in Request : q # r => request'[q] = request[q]
    BY <1>0, <1>8, YieldIs
  <2> QED
    BY <1>1, <2>1 DEF Active
<1>9. CASE (\E c \in Client : Connect(c)) \/ Shutdown \/ UNCHANGED gatewayVars
  <2>1. UNCHANGED request
    BY <1>9 DEF Connect, Shutdown, gatewayVars
  <2>2. \A r \in Request : request'[r].st = request[r].st
    BY <2>1
  <2> QED
    BY <1>1, <2>2 DEF Goal
<1> QED
  BY <1>0, <1>2, <1>3, <1>5, <1>6, <1>7, <1>8, <1>9, GatewaySteps DEF Goal

LEMMA OwningAlways == GatewaySpec => [](GatewayInv /\ Owning)
<1>1. GatewayInit => Owning
  BY DEF GatewayInit, Unsent, Owning, Owned, AbortedAreGone
<1> QED
  BY <1>1, GatewayInvInit, GatewayInvStep, OwningStep, PTL DEF GatewaySpec

(* A request that is over stays as it ended: it does not start again and  *)
(* gets no second terminal response.                                       *)
THEOREM NoSecondResponse == GatewaySpec => [][FatesStay]_gatewayVars
<1>1. GatewayInv /\ Owning /\ [GatewayNext]_gatewayVars => [FatesStay]_gatewayVars
  BY FatesStep
<1> QED
  BY <1>1, OwningAlways, PTL DEF GatewaySpec

(* While the connection of a client is open, none of its calls goes        *)
(* without a response, even if it ran beside others with the same id.      *)
THEOREM OpenClientsAreAnswered == GatewaySpec => [][DropsAreExcused]_gatewayVars
<1>1. GatewayInv /\ Owning /\ [GatewayNext]_gatewayVars => [DropsAreExcused]_gatewayVars
  BY FatesStep
<1> QED
  BY <1>1, OwningAlways, PTL DEF GatewaySpec
=============================================================================
