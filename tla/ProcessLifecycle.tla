-------------------------- MODULE ProcessLifecycle --------------------------
(***************************************************************************)
(* The process table of the kernel and the calls that change it: spawn,    *)
(* virtual processes, gateway clients, exit, kill, wait, worker errors and *)
(* the shutdown sequence (src/src/kernel/kernel/*.ts, process-table.ts,    *)
(* the lifecycle part of kernel.ts and of the gateway).                    *)
(*                                                                         *)
(* The kernel runs on one JavaScript thread, so what runs between two      *)
(* awaits is one action.  A syscall is accepted (onWorkerMessage, or the   *)
(* gateway's processMessage) in one step and its handler starts in a later *)
(* one, because dispatch() may await the revalidation of the caller's      *)
(* session in between.                                                     *)
(***************************************************************************)
EXTENDS Naturals, FiniteSets

CONSTANTS
  Proc,         \* process objects; a UUID is never reused
  Kernel,       \* the kernel process, registered first, hence init
  NoProc,       \* "no process": an empty parent, a null worker
  Roots,        \* bound: those a service, the host or the gateway may start
  Waits,        \* identities of calls of wait(), each used once
  MaxInFlight,  \* bound: syscalls of one process accepted and not begun, or in exit()
  MaxBusy,      \* bound: processes that have such syscalls at once
  Off           \* bound: the kinds of event that do not happen, of those below

ASSUME ProcAssumption ==
  /\ IsFiniteSet(Proc)
  /\ Kernel \in Proc
  /\ Roots \subseteq Proc
  /\ NoProc \notin Proc
  /\ MaxInFlight \in Nat \ {0}
  /\ MaxBusy \in Nat \ {0}
  /\ Off \subseteq {"shutdown", "sigterm", "worker error", "detached"}

ProcOrNone == Proc \cup {NoProc}

(* "absent" is a process object not created yet, or dropped by a spawn that *)
(* failed; the other three are the states the code uses.                   *)
ProcessState == {"absent", "starting", "running", "zombie"}

(* 0, 128 + SIGKILL, 128 + SIGTERM, the 1 of a worker error, and undefined. *)
ExitCode == {"none", "exited", "killed", "termed", "crashed"}

(* What wait() reports: "unknown" is the -1 the host gets for a process that *)
(* is no longer in the table.                                              *)
Status == ExitCode \cup {"unknown"}

WaitState == {"idle", "pending", "done", "timedout", "dropped"}

Phase == {"up", "terminating", "killing", "killed", "down"}

VARIABLES
  state,        \* proc.state
  exitCode,     \* proc.exitCode
  parent,       \* proc.parent
  virtual,      \* proc.virtual
  worker,       \* proc.worker, named by the process it was started for
  children,     \* proc.children: a set of <<pid, child>> pairs
  nextPid,      \* proc.nextPid
  processes,    \* ProcessTable.processes: the registered processes
  initProcess,  \* ProcessTable.initProcess
  liveWorkers,  \* worker threads started and not terminated
  wait,         \* the calls of wait(); the pending ones are kernel.waiters
  timers,       \* processes with an armed SIGTERM grace timer
  accepted,     \* accepted[p]: syscalls of p past the zombie check, not begun
  exiting,      \* exiting[p]: calls of exit(p) that await a handle's close
  clients,      \* gateway connections that are open, named by their process
  phase         \* how far Kernel.shutdown() is

vars == <<state, exitCode, parent, virtual, worker, children, nextPid,
          processes, initProcess, liveWorkers, wait, timers, accepted,
          exiting, clients, phase>>

Wait == [st : WaitState, caller : ProcOrNone, pid : Nat,
         target : ProcOrNone, timed : BOOLEAN, code : Status]

(* A call that is over: how it ended, the process it reports, if any, and  *)
(* the status it returned.                                                 *)
Ended(st, q, code) == [st |-> st, caller |-> NoProc, pid |-> 0,
                       target |-> q, timed |-> FALSE, code |-> code]

(* A waiter of c for the process q that c knows as pid; c is NoProc for the *)
(* host, whose waiter has no namespace to reap from.                       *)
Waiter(c, pid, q, timed) == [st |-> "pending", caller |-> c, pid |-> pid,
                             target |-> q, timed |-> timed, code |-> "none"]

TypeOK ==
  /\ state \in [Proc -> ProcessState]
  /\ exitCode \in [Proc -> ExitCode]
  /\ parent \in [Proc -> ProcOrNone]
  /\ virtual \in [Proc -> BOOLEAN]
  /\ worker \in [Proc -> ProcOrNone]
  /\ children \in [Proc -> SUBSET (Nat \X Proc)]
  /\ nextPid \in [Proc -> Nat]
  /\ processes \in SUBSET Proc
  /\ initProcess \in ProcOrNone
  /\ liveWorkers \in SUBSET Proc
  /\ wait \in [Waits -> Wait]
  /\ timers \in SUBSET Proc
  /\ accepted \in [Proc -> Nat]
  /\ exiting \in [Proc -> Nat]
  /\ clients \in SUBSET Proc
  /\ phase \in Phase

(* Kernel.init() has registered the kernel process, boot() has returned.   *)
Init ==
  /\ state = [p \in Proc |-> IF p = Kernel THEN "running" ELSE "absent"]
  /\ exitCode = [p \in Proc |-> "none"]
  /\ parent = [p \in Proc |-> NoProc]
  /\ virtual = [p \in Proc |-> FALSE]
  /\ worker = [p \in Proc |-> NoProc]
  /\ children = [p \in Proc |-> {}]
  /\ nextPid = [p \in Proc |-> 1]
  /\ processes = {Kernel}
  /\ initProcess = Kernel
  /\ liveWorkers = {}
  /\ wait = [w \in Waits |-> Ended("idle", NoProc, "none")]
  /\ timers = {}
  /\ accepted = [p \in Proc |-> 0]
  /\ exiting = [p \in Proc |-> 0]
  /\ clients = {}
  /\ phase = "up"

-----------------------------------------------------------------------------
(* Helpers shared by the handlers.                                         *)

(* Registered processes that reparentOrphans(dead) gives to init.          *)
Orphans(dead) ==
  IF initProcess = NoProc THEN {}
  ELSE {q \in processes : parent[q] = dead /\ q # initProcess}

(* The fresh pids init hands out, one per orphan, in some order: the order *)
(* of the table's Map decides it in the code and nothing depends on it.    *)
Adoptions(orphans) ==
  IF orphans = {} THEN {[q \in {} |-> 0]}
  ELSE {f \in [orphans -> nextPid[initProcess] ..
                          (nextPid[initProcess] + Cardinality(orphans) - 1)] :
          \A a, b \in orphans : f[a] = f[b] => a = b}

Pending(w) == wait[w].st = "pending"

(* Waiters that notifyWaiters(p) calls back; each one reaps p out of its   *)
(* caller's namespace (a waiter of the host has no caller and reaps none). *)
Notified(p) == {w \in Waits : Pending(w) /\ wait[w].target = p}

Reapers(p) == {w \in Notified(p) : wait[w].caller # NoProc}

(* What reparentOrphans(p) adds to init's namespace.                       *)
AdoptedUnlisted(p, pidOf) == {}     \* mutant: the children.set is forgotten
Adopted(p, pidOf) == {<<pidOf[q], q>> : q \in Orphans(p)}

(* reparentOrphans(p) followed by notifyWaiters(p), which is how exit()    *)
(* and forceExit() both end; code is proc.exitCode at that moment.         *)
ReparentAndNotify(p, code) ==
  \E pidOf \in Adoptions(Orphans(p)) :
    /\ parent' = [q \in Proc |-> IF q \in Orphans(p) THEN initProcess
                                                    ELSE parent[q]]
    /\ children' =
         [c \in Proc |->
            {e \in children[c] \cup
                   (IF c = initProcess THEN Adopted(p, pidOf) ELSE {}) :
               ~ \E w \in Reapers(p) : wait[w].caller = c /\ wait[w].pid = e[1]}]
    /\ nextPid' = [c \in Proc |->
                     IF c = initProcess
                       THEN nextPid[c] + Cardinality(Orphans(p)) ELSE nextPid[c]]
    /\ wait' = [w \in Waits |->
                  IF w \in Notified(p) THEN Ended("done", p, code)
                                        ELSE wait[w]]
    /\ processes' = IF Reapers(p) = {} THEN processes ELSE processes \ {p}

(* worker.terminate(), skipped for a virtual process.                      *)
TerminateAnyWorker(p) ==            \* mutant: the skip is forgotten
  liveWorkers' = liveWorkers \ {worker[p]}
TerminateWorker(p) ==
  liveWorkers' = IF virtual[p] THEN liveWorkers ELSE liveWorkers \ {p}

ForceExitNotifyFirst(p, code) ==    \* mutant: the code is stored last
  IF state[p] = "zombie"
    THEN UNCHANGED <<state, exitCode, parent, children, nextPid, processes,
                     liveWorkers, wait>>
    ELSE /\ state' = [state EXCEPT ![p] = "zombie"]
         /\ exitCode' = [exitCode EXCEPT ![p] = code]
         /\ TerminateWorker(p)
         /\ ReparentAndNotify(p, exitCode[p])

(* forceExit(p, code): one synchronous call, idempotent by its zombie guard *)
ForceExit(p, code) ==
  IF state[p] = "zombie"
    THEN UNCHANGED <<state, exitCode, parent, children, nextPid, processes,
                     liveWorkers, wait>>
    ELSE /\ state' = [state EXCEPT ![p] = "zombie"]
         /\ exitCode' = [exitCode EXCEPT ![p] = code]
         /\ TerminateWorker(p)
         /\ ReparentAndNotify(p, code)

(* ProcessTable.register: the first process registered becomes init.       *)
Register(q) ==
  /\ processes' = processes \cup {q}
  /\ initProcess' = IF initProcess = NoProc THEN q ELSE initProcess

AssignFreePid(p, q) ==              \* mutant: a pid freed by a reap is reused
  LET free == {n \in 1..nextPid[p] : \A e \in children[p] : e[1] # n}
      pid  == CHOOSE n \in free : \A m \in free : n <= m
  IN  /\ children' = [children EXCEPT ![p] = @ \cup {<<pid, q>>}]
      /\ nextPid' = [nextPid EXCEPT ![p] = @ + 1]
(* pid = parent.nextPid++; parent.children.set(pid, child)                  *)
AssignPid(p, q) ==
  /\ children' = [children EXCEPT ![p] = @ \cup {<<nextPid[p], q>>}]
  /\ nextPid' = [nextPid EXCEPT ![p] = @ + 1]

(* The handler of an accepted syscall of p starts now.                     *)
Begin(p) ==
  /\ accepted[p] > 0
  /\ accepted' = [accepted EXCEPT ![p] = @ - 1]

-----------------------------------------------------------------------------
(* Syscalls arriving.                                                      *)

(* The bounds: p may have another syscall in flight.                       *)
InFlight(p) == accepted[p] + exiting[p]
Room(p) ==
  /\ InFlight(p) < MaxInFlight
  /\ Cardinality({q \in Proc \ {p} : InFlight(q) > 0}) < MaxBusy

(* onWorkerMessage drops the calls of zombies and of strangers; the gateway *)
(* hands every message of an open connection to execute() unchecked.       *)
Accept(p) ==
  /\ Room(p)
  /\ \/ p \in clients
     \/ p \in processes /\ state[p] # "zombie" /\ worker[p] \in liveWorkers
  /\ accepted' = [accepted EXCEPT ![p] = @ + 1]
  /\ UNCHANGED <<state, exitCode, parent, virtual, worker, children, nextPid,
                 processes, initProcess, liveWorkers, wait, timers, exiting,
                 clients, phase>>

(* A call with no effect here: getpid, a pid that does not resolve (ESRCH), *)
(* a target that is not a child (ECHILD, EPERM), any other signal.         *)
OtherSyscall(p) ==
  /\ Begin(p)
  /\ UNCHANGED <<state, exitCode, parent, virtual, worker, children, nextPid,
                 processes, initProcess, liveWorkers, wait, timers, exiting,
                 clients, phase>>

-----------------------------------------------------------------------------
(* Creating processes.                                                     *)

(* spawn() up to its await of spawnWorker().                               *)
Spawn(p, q) ==
  /\ Begin(p)
  /\ state[q] = "absent"
  /\ state' = [state EXCEPT ![q] = "starting"]
  /\ parent' = [parent EXCEPT ![q] = p]
  /\ UNCHANGED <<exitCode, virtual, worker, children, nextPid, processes,
                 initProcess, liveWorkers, wait, timers, exiting, clients,
                 phase>>

(* A service handler or spawnExternal(): the same, without a parent.       *)
SpawnDetached(q) ==
  /\ "detached" \notin Off /\ phase # "down"
  /\ q \in Roots /\ state[q] = "absent"
  /\ state' = [state EXCEPT ![q] = "starting"]
  /\ parent' = [parent EXCEPT ![q] = NoProc]
  /\ UNCHANGED <<exitCode, virtual, worker, children, nextPid, processes,
                 initProcess, liveWorkers, wait, timers, accepted, exiting,
                 clients, phase>>

(* The worker is up: run, register and, if there is a parent, get a pid.   *)
(* Nothing looks at what became of the parent meanwhile.                   *)
SpawnReady(q) ==
  /\ state[q] = "starting"
  /\ worker' = [worker EXCEPT ![q] = q]
  /\ liveWorkers' = liveWorkers \cup {q}
  /\ state' = [state EXCEPT ![q] = "running"]
  /\ Register(q)
  /\ IF parent[q] = NoProc THEN UNCHANGED <<children, nextPid>>
                           ELSE AssignPid(parent[q], q)
  /\ UNCHANGED <<exitCode, parent, virtual, wait, timers, accepted, exiting,
                 clients, phase>>

(* spawnWorker() throws (no such entry, bundling failed).                  *)
SpawnFails(q) ==
  /\ state[q] = "starting"
  /\ state' = [state EXCEPT ![q] = "absent"]
  /\ UNCHANGED <<exitCode, parent, virtual, worker, children, nextPid,
                 processes, initProcess, liveWorkers, wait, timers, accepted,
                 exiting, clients, phase>>

(* createVirtualProcess(p), synchronous: q shares p's worker.              *)
CreateVirtualProcess(p, q) ==
  /\ state[q] = "absent"
  /\ state' = [state EXCEPT ![q] = "running"]
  /\ parent' = [parent EXCEPT ![q] = p]
  /\ virtual' = [virtual EXCEPT ![q] = TRUE]
  /\ worker' = [worker EXCEPT ![q] = worker[p]]
  /\ Register(q)
  /\ AssignPid(p, q)

ProcCreate(p, q) ==
  /\ Begin(p)
  /\ CreateVirtualProcess(p, q)
  /\ UNCHANGED <<exitCode, liveWorkers, wait, timers, exiting, clients, phase>>

(* The gateway gives each connection a virtual child of init.              *)
GatewayConnect(q) ==
  /\ q \in Roots /\ initProcess # NoProc
  /\ CreateVirtualProcess(initProcess, q)
  /\ clients' = clients \cup {q}
  /\ UNCHANGED <<exitCode, liveWorkers, wait, timers, accepted, exiting, phase>>

-----------------------------------------------------------------------------
(* Ending processes.                                                       *)

(* exit() up to its first await: no look at the state it overwrites.       *)
ExitBegin(p) ==
  /\ Begin(p)
  /\ exitCode' = [exitCode EXCEPT ![p] = "exited"]
  /\ state' = [state EXCEPT ![p] = "zombie"]
  /\ exiting' = [exiting EXCEPT ![p] = @ + 1]
  /\ UNCHANGED <<parent, virtual, worker, children, nextPid, processes,
                 initProcess, liveWorkers, wait, timers, clients, phase>>

(* The handles are closed: terminate the worker, reparent, notify.         *)
ExitEnd(p) ==
  /\ exiting[p] > 0
  /\ exiting' = [exiting EXCEPT ![p] = @ - 1]
  /\ TerminateWorker(p)
  /\ ReparentAndNotify(p, exitCode[p])
  /\ UNCHANGED <<state, exitCode, virtual, worker, initProcess, timers,
                 accepted, clients, phase>>

(* kill() resolves e = <<pid, target>> in the caller's namespace and checks *)
(* that the caller may signal it.                                          *)
MaySignal(c, e) ==
  /\ e \in children[c]
  /\ e[2] \in processes
  /\ parent[e[2]] = c \/ e[2] = c \/ c = initProcess

KillNow(c, e) ==
  /\ Begin(c)
  /\ MaySignal(c, e)
  /\ ForceExit(e[2], "killed")
  /\ UNCHANGED <<virtual, worker, initProcess, timers, exiting, clients, phase>>

KillTerm(c, e) ==
  /\ "sigterm" \notin Off
  /\ Begin(c)
  /\ MaySignal(c, e)
  /\ timers' = timers \cup {e[2]}
  /\ UNCHANGED <<state, exitCode, parent, virtual, worker, children, nextPid,
                 processes, initProcess, liveWorkers, wait, exiting, clients,
                 phase>>

GraceOnlyLogs(q) ==                 \* mutant: forceExit is forgotten
  /\ q \in timers
  /\ timers' = timers \ {q}
  /\ UNCHANGED <<state, exitCode, parent, virtual, worker, children, nextPid,
                 processes, initProcess, liveWorkers, wait, accepted, exiting,
                 clients, phase>>
(* The grace timer: only a process still running is killed.                *)
GraceExpires(q) ==
  /\ q \in timers
  /\ timers' = timers \ {q}
  /\ IF state[q] = "running"
       THEN ForceExit(q, "termed")
       ELSE UNCHANGED <<state, exitCode, parent, children, nextPid, processes,
                        liveWorkers, wait>>
  /\ UNCHANGED <<virtual, worker, initProcess, accepted, exiting, clients,
                 phase>>

(* The host's handle of a detached process: SIGKILL, or SIGTERM with a     *)
(* grace timer of its own.  The code arms that timer after the await of    *)
(* interruptProcess(), whose work on the handles is in HandleTable: the    *)
(* time it takes is part of the timer's here.                              *)
ExternalKill(q) ==
  /\ q \in processes /\ parent[q] = NoProc /\ worker[q] # NoProc
  /\ state[q] # "zombie"
  /\ \/ ForceExit(q, "killed") /\ UNCHANGED timers
     \/ /\ "sigterm" \notin Off
        /\ timers' = timers \cup {q}
        /\ UNCHANGED <<state, exitCode, parent, children, nextPid, processes,
                       liveWorkers, wait>>
  /\ UNCHANGED <<virtual, worker, initProcess, accepted, exiting, clients,
                 phase>>

(* worker.onerror of the worker started for q.                             *)
WorkerError(q) ==
  /\ "worker error" \notin Off /\ q \in liveWorkers
  /\ ForceExit(q, "crashed")
  /\ UNCHANGED <<virtual, worker, initProcess, timers, accepted, exiting,
                 clients, phase>>

(* The connection ends, its finally block forces the process out.          *)
GatewayDisconnect(q) ==
  /\ q \in clients
  /\ clients' = clients \ {q}
  /\ ForceExit(q, "exited")
  /\ UNCHANGED <<virtual, worker, initProcess, timers, accepted, exiting,
                 phase>>

-----------------------------------------------------------------------------
(* Waiting for processes.                                                  *)

(* wait() resolves e = <<pid, target>>; the target must still be a child.  *)
MayWait(c, e) ==
  /\ e \in children[c]
  /\ e[2] \in processes
  /\ parent[e[2]] = c

WaitReapsAny(c, e, w) ==            \* mutant: the zombie check is forgotten
  /\ Begin(c)
  /\ MayWait(c, e)
  /\ wait[w].st = "idle"
  /\ wait' = [wait EXCEPT ![w] = Ended("done", e[2], exitCode[e[2]])]
  /\ children' = [children EXCEPT ![c] = {x \in @ : x[1] # e[1]}]
  /\ processes' = processes \ {e[2]}
  /\ UNCHANGED <<state, exitCode, parent, virtual, worker, nextPid,
                 initProcess, liveWorkers, timers, exiting, clients, phase>>
(* The fast path: the child is a zombie, reap it and return its code.      *)
WaitZombie(c, e, w) ==
  /\ Begin(c)
  /\ MayWait(c, e)
  /\ wait[w].st = "idle"
  /\ state[e[2]] = "zombie"
  /\ wait' = [wait EXCEPT ![w] = Ended("done", e[2], exitCode[e[2]])]
  /\ children' = [children EXCEPT ![c] = {x \in @ : x[1] # e[1]}]
  /\ processes' = processes \ {e[2]}
  /\ UNCHANGED <<state, exitCode, parent, virtual, worker, nextPid,
                 initProcess, liveWorkers, timers, exiting, clients, phase>>

WaitRegisterAny(c, e, w, timed) ==  \* mutant: no fast path for a zombie
  /\ Begin(c)
  /\ MayWait(c, e)
  /\ wait[w].st = "idle"
  /\ wait' = [wait EXCEPT ![w] = Waiter(c, e[1], e[2], timed)]
  /\ UNCHANGED <<state, exitCode, parent, virtual, worker, children, nextPid,
                 processes, initProcess, liveWorkers, timers, exiting, clients,
                 phase>>
(* The slow path: register a waiter, with a timeout or without.            *)
WaitRegister(c, e, w, timed) ==
  /\ Begin(c)
  /\ MayWait(c, e)
  /\ wait[w].st = "idle"
  /\ state[e[2]] # "zombie"
  /\ wait' = [wait EXCEPT ![w] = Waiter(c, e[1], e[2], timed)]
  /\ UNCHANGED <<state, exitCode, parent, virtual, worker, children, nextPid,
                 processes, initProcess, liveWorkers, timers, exiting, clients,
                 phase>>

(* The host's wait(): a process that has left the table has no status, and *)
(* a waiter of the host does not reap.                                     *)
ExternalWait(q, w) ==
  /\ parent[q] = NoProc /\ worker[q] # NoProc
  /\ wait[w].st = "idle"
  /\ wait' = [wait EXCEPT ![w] =
                IF q \notin processes THEN Ended("done", q, "unknown")
                ELSE IF state[q] = "zombie" THEN Ended("done", q, exitCode[q])
                ELSE Waiter(NoProc, 0, q, FALSE)]
  /\ UNCHANGED <<state, exitCode, parent, virtual, worker, children, nextPid,
                 processes, initProcess, liveWorkers, timers, accepted,
                 exiting, clients, phase>>

(* The timeout fires first: cleanup() drops the waiter, the call rejects.  *)
WaitTimeout(w) ==
  /\ Pending(w) /\ wait[w].timed
  /\ wait' = [wait EXCEPT ![w] = Ended("timedout", NoProc, "none")]
  /\ UNCHANGED <<state, exitCode, parent, virtual, worker, children, nextPid,
                 processes, initProcess, liveWorkers, timers, accepted,
                 exiting, clients, phase>>

-----------------------------------------------------------------------------
(* Kernel.shutdown().                                                      *)

(* Phase 1 delivers SIGTERM and polls until nobody runs or time is up.     *)
ShutdownBegin ==
  /\ "shutdown" \notin Off /\ phase = "up"
  /\ phase' = "terminating"
  /\ UNCHANGED <<state, exitCode, parent, virtual, worker, children, nextPid,
                 processes, initProcess, liveWorkers, wait, timers, accepted,
                 exiting, clients>>

(* Phase 2 is one synchronous loop: no other action runs in "killing".     *)
ShutdownKillStart ==
  /\ phase = "terminating"
  /\ phase' = "killing"
  /\ UNCHANGED <<state, exitCode, parent, virtual, worker, children, nextPid,
                 processes, initProcess, liveWorkers, wait, timers, accepted,
                 exiting, clients>>

ShutdownKill(p) ==
  /\ p \in processes /\ state[p] \in {"running", "starting"}
  /\ ForceExit(p, "killed")
  /\ UNCHANGED <<virtual, worker, initProcess, timers, accepted, exiting,
                 clients, phase>>

ShutdownKillEnd ==
  /\ \A p \in processes : state[p] \notin {"running", "starting"}
  /\ phase' = "killed"
  /\ UNCHANGED <<state, exitCode, parent, virtual, worker, children, nextPid,
                 processes, initProcess, liveWorkers, wait, timers, accepted,
                 exiting, clients>>

(* The activation ports are closed: clear the tables.                      *)
ShutdownClear ==
  /\ phase = "killed"
  /\ phase' = "down"
  /\ processes' = {}
  /\ initProcess' = NoProc
  /\ wait' = [w \in Waits |->
                IF Pending(w) THEN Ended("dropped", NoProc, "none")
                              ELSE wait[w]]
  /\ UNCHANGED <<state, exitCode, parent, virtual, worker, children, nextPid,
                 liveWorkers, timers, accepted, exiting, clients>>

-----------------------------------------------------------------------------
ProcStep(p) ==
  \/ Accept(p)
  \/ OtherSyscall(p)
  \/ \E q \in Proc : Spawn(p, q) \/ ProcCreate(p, q)
  \/ ExitBegin(p)
  \/ ExitEnd(p)
  \/ \E e \in children[p] :
       \/ KillNow(p, e)
       \/ KillTerm(p, e)
       \/ \E w \in Waits : \/ WaitZombie(p, e, w)
                           \/ \E timed \in BOOLEAN : WaitRegister(p, e, w, timed)

KernelStep(q) ==
  \/ SpawnDetached(q)
  \/ SpawnReady(q)
  \/ SpawnFails(q)
  \/ GatewayConnect(q)
  \/ GatewayDisconnect(q)
  \/ GraceExpires(q)
  \/ ExternalKill(q)
  \/ WorkerError(q)
  \/ \E w \in Waits : ExternalWait(q, w)

Next ==
  \/ /\ phase # "killing"
     /\ \/ \E p \in Proc : ProcStep(p) \/ KernelStep(p)
        \/ \E w \in Waits : WaitTimeout(w)
        \/ ShutdownBegin
        \/ ShutdownKillStart
        \/ ShutdownClear
  \/ /\ phase = "killing"
     /\ (\E p \in Proc : ShutdownKill(p)) \/ ShutdownKillEnd

Spec == Init /\ [][Next]_vars

(* Timers fire, awaited closes settle and the synchronous kill loop ends;  *)
(* nothing is assumed of the processes.                                    *)
FairSpec ==
  /\ Spec
  /\ \A p \in Proc :
       /\ WF_vars(phase # "killing" /\ GraceExpires(p))
       /\ WF_vars(phase # "killing" /\ ExitEnd(p))
       /\ WF_vars(phase = "killing" /\ ShutdownKill(p))
  /\ WF_vars(phase = "killing" /\ ShutdownKillEnd)

-----------------------------------------------------------------------------
(* Every namespace is a map that spawn, adoption and reaping keep honest:  *)
(* a pid names one child, and no pid at or above nextPid is in use, so a   *)
(* pid handed out later can never be mistaken for one handed out before.   *)
PidsUnique ==
  \A p \in Proc : \A e \in children[p] :
    /\ e[1] < nextPid[p]
    /\ \A f \in children[p] : e[1] = f[1] => e = f

(* A registered child of a parent that is not a zombie is in that parent's *)
(* namespace, so that it can be waited for and signalled, through spawns   *)
(* that finish late, adoptions by init, and the waiters of former parents, *)
(* which delete from namespaces when they are called back.                 *)
LiveChildListed ==
  \A q \in processes :
    parent[q] # NoProc /\ state[parent[q]] # "zombie"
      => \E e \in children[parent[q]] : e[2] = q

(* The pid a waiter will delete when it is called back still names the     *)
(* process it waits for, or nothing: never a sibling.                      *)
WaitersReapTheirOwn ==
  \A w \in Waits : Pending(w) /\ wait[w].caller # NoProc =>
    /\ wait[w].pid < nextPid[wait[w].caller]
    /\ \A e \in children[wait[w].caller] :
         e[1] = wait[w].pid => e[2] = wait[w].target

(* No lost wake-up: somebody is still going to notify a registered waiter. *)
(* Its target has not died yet, or is inside exit(), before notifyWaiters. *)
NoLostWaiter ==
  \A w \in Waits : Pending(w) =>
    \/ state[wait[w].target] = "running"
    \/ exiting[wait[w].target] > 0

(* What a wait() that returns in this step reports is the status of its own *)
(* target, which is dead: the code it has at this moment, never one read   *)
(* before it died, and never the 0 that "?? 0" puts in place of a missing  *)
(* one.  Only the host, which asks for a process that has left the table,  *)
(* is told nothing.  And two waits for one process can be told different   *)
(* codes only if it called exit() itself in between: no kill, no timer and *)
(* no worker error changes the code of a zombie.                           *)
StatusReported ==
  [][/\ \A w \in Waits : wait[w].st # "done" /\ wait'[w].st = "done" =>
          LET q == wait'[w].target
          IN  /\ Pending(w) => q = wait[w].target
              /\ wait'[w].code # "none"
              /\ \/ state'[q] = "zombie" /\ wait'[w].code = exitCode'[q]
                 \/ /\ ~Pending(w) /\ q \notin processes
                    /\ wait'[w].code = "unknown"
     /\ \A q \in Proc : state[q] = "zombie" /\ exitCode'[q] # exitCode[q] =>
          exiting'[q] > exiting[q]]_vars

(* A process that owns a worker thread has it while it runs, and once its  *)
(* exit is over the thread is gone: neither a running process without a    *)
(* thread nor a thread nobody will terminate.                              *)
WorkerMatchesState ==
  \A p \in Proc : ~virtual[p] /\ p # Kernel =>
    /\ state[p] = "running" => worker[p] = p /\ p \in liveWorkers
    /\ p \in liveWorkers => state[p] = "running" \/ exiting[p] > 0

(* The kernel process dies in the kill loop of shutdown() and in no other  *)
(* way: no pid ever names it, no worker error or timer can reach it.       *)
InitOutlivesSystem ==
  state[Kernel] = "zombie" => phase \in {"killing", "killed", "down"}

(* What the proofs need beside: only started processes are registered or   *)
(* have calls, connections, workers or waiters; exit() runs on zombies, and *)
(* a zombie has a code; nothing ever refers to the kernel process.         *)
Started(p) == state[p] \in {"running", "zombie"}

TableConsistent ==
  /\ \A p \in Proc :
       /\ (\/ p \in processes \cup clients \cup liveWorkers
           \/ p = initProcess \/ virtual[p] \/ accepted[p] > 0) => Started(p)
       /\ state[p] # "absent" /\ parent[p] # NoProc => Started(parent[p])
       /\ exiting[p] > 0 => state[p] = "zombie"
       /\ state[p] = "zombie" => exitCode[p] # "none"
  /\ \A w \in Waits : Pending(w) =>
       wait[w].target \in Proc /\ Started(wait[w].target)

KernelIsolated ==
  /\ Started(Kernel)
  /\ worker[Kernel] = NoProc /\ parent[Kernel] = NoProc
  /\ Kernel \notin clients \cup timers \cup liveWorkers
  /\ accepted[Kernel] = 0 /\ exiting[Kernel] = 0
  /\ \A p \in Proc : \A e \in children[p] : e[2] # Kernel

(* A process leaves the table only as a zombie, by a wait, or when         *)
(* shutdown clears the table; and it never comes back.                     *)
ReapedForGood ==
  [][\A q \in Proc :
       /\ q \in processes \ processes' =>
            phase' = "down" \/ state'[q] = "zombie"
       /\ q \in processes' \ processes => state[q] \in {"absent", "starting"}]_vars

(* SIGTERM is followed by the death of its target, whatever the target,    *)
(* its parent or a concurrent shutdown do meanwhile.                       *)
TermIsFatal ==
  \A p \in Proc : (p \in timers) ~> (state[p] = "zombie")

(* A wait() whose target has started to exit does not hang.                *)
WaitOnZombieEnds ==
  \A w \in Waits :
    (Pending(w) /\ state[wait[w].target] = "zombie") ~> ~Pending(w)
=============================================================================
