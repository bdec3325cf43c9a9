---------------------------- MODULE HandleTable ----------------------------
(***************************************************************************)
(* The handles of the kernel: the global table Kernel.handles, the counts  *)
(* Kernel.handleRefs, and each process's own map of file descriptors, as   *)
(* allocHandle, closeHandle, unrefHandle, redirectHandle, restoreHandle,   *)
(* createPipe, acceptChannel, setupStdio and the set-up of services change *)
(* them, and as exit(), forceExit() and interruptProcess() tear them down. *)
(*                                                                         *)
(* The kernel is one event loop: a handler is atomic up to its next await. *)
(* Opening a file, socket, port or channel awaits, so do exit()'s loop     *)
(* over the descriptors and interruptProcess()'s closes.                   *)
(*                                                                         *)
(* A handle is named once (a UUID), so EEXIST cannot happen.  What a       *)
(* handle reads or writes is left out; process states are kept as far as   *)
(* they decide what runs (ProcessLifecycle has all of them).               *)
(***************************************************************************)
EXTENDS Integers, FiniteSets

CONSTANTS
  Proc,        \* processes
  Roots,       \* bound: those that may start without a parent
  Handle,      \* handle UUIDs, each used once
  NoHandle,    \* what a descriptor that is not open maps to
  MaxFd,       \* bound: the largest descriptor a process gets here
  Stdio,       \* how many descriptors are stdio (3 in the code)
  MaxHandles,  \* MAX_HANDLES: descriptors a process may have open
  Calls,       \* bound: the redirects and accepts that can happen
  MaxAwaits,   \* bound: opens, accepts, spawns, exits and interrupts in progress
  Off          \* bound: "late" calls, left out of an instance

Fd == 0..MaxFd
StdFds == 0..(Stdio - 1)
HandleOrNone == Handle \cup {NoHandle}

ASSUME HandleAssumption ==
  /\ Roots \subseteq Proc
  /\ IsFiniteSet(Proc) /\ IsFiniteSet(Calls)
  /\ NoHandle \notin Handle
  /\ MaxFd \in Nat /\ Stdio \in 1..MaxFd
  /\ MaxHandles \in Nat /\ Stdio <= MaxHandles
  /\ MaxAwaits \in Nat

VARIABLES
  state,        \* absent; setup: a service's stdio is being opened; starting:
                \* its worker is; running; zombie; failed: it never ran
  fds,          \* proc.handles: what each descriptor maps to
  nextFd,       \* proc.nextHandle
  open,         \* the ids in Kernel.handles
  refs,         \* Kernel.handleRefs; 0 when there is no entry
  resource,     \* what is behind a handle: unused, open, closed
  opening,      \* opening[p]: opens of p that are awaited
  exiting,      \* processes in exit()'s loop over the descriptors
  interrupting, \* processes in interruptProcess()
  closing,      \* closing[p]: handles interruptProcess(p) awaits the close of
  call,         \* redirects and accepts: how far, and at which descriptor
  saved,        \* saved[c]: the handle call c took out of a descriptor without
                \* giving up its count
  interrupted   \* history: handles that an interruptProcess has touched

vars == <<state, fds, nextFd, open, refs, resource, opening, exiting,
          interrupting, closing, call, saved, interrupted>>

table == <<open, refs, resource>>
ends  == <<exiting, interrupting, closing, interrupted>>

ProcessState == {"absent", "setup", "starting", "running", "zombie", "failed"}

Call == [st : {"unused", "redirected", "accepting", "over"},
         at : (Proc \X Fd) \cup {<<>>}]
NoCall == [st |-> "unused", at |-> <<>>]

TypeOK ==
  /\ state \in [Proc -> ProcessState]
  /\ fds \in [Proc \X Fd -> HandleOrNone]
  /\ nextFd \in [Proc -> Nat]
  /\ open \in SUBSET Handle
  /\ refs \in [Handle -> Nat]
  /\ resource \in [Handle -> {"unused", "open", "closed"}]
  /\ opening \in [Proc -> Nat]
  /\ exiting \in SUBSET Proc
  /\ interrupting \in SUBSET Proc
  /\ closing \in [Proc -> SUBSET Handle]
  /\ call \in [Calls -> Call]
  /\ saved \in [Calls -> HandleOrNone]
  /\ interrupted \in SUBSET Handle

Init ==
  /\ state = [p \in Proc |-> "absent"]
  /\ fds = [x \in Proc \X Fd |-> NoHandle]
  /\ nextFd = [p \in Proc |-> Stdio]
  /\ open = {}
  /\ refs = [h \in Handle |-> 0]
  /\ resource = [h \in Handle |-> "unused"]
  /\ opening = [p \in Proc |-> 0]
  /\ exiting = {}
  /\ interrupting = {}
  /\ closing = [p \in Proc |-> {}]
  /\ call = [c \in Calls |-> NoCall]
  /\ saved = [c \in Calls |-> NoHandle]
  /\ interrupted = {}

-----------------------------------------------------------------------------
(* Helpers shared by the handlers.                                         *)

Unused == {h \in Handle : resource[h] = "unused"}

(* The descriptors p has open, and those of them that map to h.            *)
OpenFds(p) == {f \in Fd : fds[<<p, f>>] # NoHandle}
Slots(p, h) == {x \in Proc \X Fd : x[1] = p /\ fds[x] = h}

(* What p's descriptors map to.                                            *)
Held(p) == {fds[<<p, f>>] : f \in OpenFds(p)}

(* handleRefs.get(h) ?? 1                                                  *)
Count(h) == IF refs[h] = 0 THEN 1 ELSE refs[h]

(* h enters the table with n counts for n descriptors mapped to it.        *)
Enter(h, n) ==
  /\ open' = open \cup {h}
  /\ refs' = [refs EXCEPT ![h] = n]
  /\ resource' = [resource EXCEPT ![h] = "open"]

(* refHandle, n[h] times for each h.                                       *)
Ref(n) == refs' = [h \in Handle |-> IF n[h] = 0 THEN refs[h] ELSE Count(h) + n[h]]

(* unrefHandle, n[h] times for each h: the last count takes h out of the   *)
(* table and closes what is behind it.                                     *)
Spent(n) == {h \in Handle : n[h] > 0 /\ Count(h) <= n[h]}
Unref(n) ==
  /\ open' = open \ Spent(n)
  /\ refs' = [h \in Handle |-> IF n[h] = 0 THEN refs[h]
                               ELSE IF h \in Spent(n) THEN 0 ELSE Count(h) - n[h]]
  /\ resource' = [h \in Handle |-> IF h \in Spent(n) \cap open THEN "closed"
                                                              ELSE resource[h]]

Once(h) == [g \in Handle |-> IF g = h THEN 1 ELSE 0]

(* allocHandle: one more descriptor, the limit permitting.                 *)
MayAlloc(p, n) == Cardinality(OpenFds(p)) + n <= MaxHandles
Alloc(p, h) ==
  /\ nextFd[p] \in Fd
  /\ MayAlloc(p, 1)
  /\ Enter(h, 1)
  /\ fds' = [fds EXCEPT ![<<p, nextFd[p]>>] = h]
  /\ nextFd' = [nextFd EXCEPT ![p] = @ + 1]

(* A syscall of p can run: those accepted before p's end also run after it. *)
Calling(p) == \/ state[p] = "running"
              \/ state[p] = "zombie" /\ "late" \notin Off

(* The bound: one more handler may be in an await.                         *)
Room ==
  Cardinality({x \in Proc \X (1..MaxAwaits) : x[2] <= opening[x[1]]})
    + Cardinality({c \in Calls : call[c].st = "accepting"})
    + Cardinality({p \in Proc : state[p] \in {"setup", "starting"}})
    + Cardinality(exiting) + Cardinality(interrupting) < MaxAwaits

-----------------------------------------------------------------------------
(* Opening, closing.                                                       *)

(* open, connect, createPort, openChannel, recvPort up to their await.     *)
OpenBegin(p) ==
  /\ Calling(p) /\ Room
  /\ opening' = [opening EXCEPT ![p] = @ + 1]
  /\ UNCHANGED <<state, fds, nextFd, table, ends, call, saved>>

(* The resource h has arrived.  With no room for a descriptor EMFILE is    *)
(* thrown: recvPort has closed its socket, the others leave it open.       *)
OpenEnd(p, h) ==
  /\ opening[p] > 0
  /\ opening' = [opening EXCEPT ![p] = @ - 1]
  /\ \/ Alloc(p, h)
     \/ /\ ~ MayAlloc(p, 1)
        /\ \E r \in {"open", "closed"} : resource' = [resource EXCEPT ![h] = r]
        /\ UNCHANGED <<fds, nextFd, open, refs>>
  /\ UNCHANGED <<state, ends, call, saved>>

OpenFails(p) ==
  /\ opening[p] > 0
  /\ opening' = [opening EXCEPT ![p] = @ - 1]
  /\ UNCHANGED <<state, fds, nextFd, table, ends, call, saved>>

(* createPipe(): room for both ends is checked first, then both are         *)
(* allocated.                                                              *)
CreatePipe(p, r, s) ==
  /\ Calling(p)
  /\ MayAlloc(p, 2)
  /\ nextFd[p] + 1 \in Fd
  /\ open' = open \cup {r, s}
  /\ refs' = [refs EXCEPT ![r] = 1, ![s] = 1]
  /\ resource' = [resource EXCEPT ![r] = "open", ![s] = "open"]
  /\ fds' = [fds EXCEPT ![<<p, nextFd[p]>>] = r, ![<<p, nextFd[p] + 1>>] = s]
  /\ nextFd' = [nextFd EXCEPT ![p] = @ + 2]
  /\ UNCHANGED <<state, opening, ends, call, saved>>

(* closeHandle(): the descriptor goes, then its count; the resource's own  *)
(* close is not awaited.                                                   *)
CloseHandle(p, f) ==
  /\ fds[<<p, f>>] # NoHandle
  /\ fds' = [fds EXCEPT ![<<p, f>>] = NoHandle]
  /\ Unref(Once(fds[<<p, f>>]))

Close(p, f) ==
  /\ Calling(p)
  /\ CloseHandle(p, f)
  /\ UNCHANGED <<state, nextFd, opening, ends, call, saved>>

-----------------------------------------------------------------------------
(* Redirecting.                                                            *)

RedirectUncounted(p, t, s, c) ==    \* mutant: refHandle is forgotten
  /\ Calling(p)
  /\ call[c].st = "unused"
  /\ fds[<<p, s>>] # NoHandle /\ fds[<<p, t>>] # NoHandle
  /\ fds' = [fds EXCEPT ![<<p, t>>] = fds[<<p, s>>]]
  /\ call' = [call EXCEPT ![c] = [st |-> "redirected", at |-> <<p, t>>]]
  /\ saved' = [saved EXCEPT ![c] = fds[<<p, t>>]]
  /\ UNCHANGED <<state, nextFd, table, opening, ends>>
(* redirectHandle(t, s): t maps to s's handle, which gains a count; what t *)
(* mapped to is handed to the caller with the count it had.                *)
Redirect(p, t, s, c) ==
  /\ Calling(p)
  /\ call[c].st = "unused"
  /\ fds[<<p, s>>] # NoHandle /\ fds[<<p, t>>] # NoHandle
  /\ fds' = [fds EXCEPT ![<<p, t>>] = fds[<<p, s>>]]
  /\ Ref(Once(fds[<<p, s>>]))
  /\ call' = [call EXCEPT ![c] = [st |-> "redirected", at |-> <<p, t>>]]
  /\ saved' = [saved EXCEPT ![c] = fds[<<p, t>>]]
  /\ UNCHANGED <<state, nextFd, open, resource, opening, ends>>

(* restoreHandle(t, saved): t maps to the saved handle again and what it   *)
(* mapped to loses a count, the last one without leaving the table.  The   *)
(* shell restores a saved id once, at its own descriptor; EBADF if the     *)
(* descriptor has been closed meanwhile.                                   *)
Restore(c) ==
  LET x == call[c].at  cur == fds[x]  IN
  /\ call[c].st = "redirected"
  /\ Calling(x[1])
  /\ cur # NoHandle
  /\ fds' = [fds EXCEPT ![x] = saved[c]]
  /\ refs' = [refs EXCEPT ![cur] = Count(cur) - 1]
  /\ call' = [call EXCEPT ![c] = [st |-> "over", at |-> <<>>]]
  /\ saved' = [saved EXCEPT ![c] = NoHandle]
  /\ UNCHANGED <<state, nextFd, open, resource, opening, ends>>

(* acceptChannel(): the socket is resolved, then the handshake is awaited. *)
AcceptBegin(p, f, c) ==
  /\ Calling(p) /\ Room
  /\ call[c].st = "unused"
  /\ fds[<<p, f>>] # NoHandle /\ fds[<<p, f>>] \in open
  /\ call' = [call EXCEPT ![c] = [st |-> "accepting", at |-> <<p, f>>]]
  /\ UNCHANGED <<state, fds, nextFd, table, opening, ends, saved>>

(* The channel h is up: the socket's descriptor goes, its count stays, and  *)
(* h gets a descriptor (EMFILE, with h left open, if there is no room).    *)
AcceptEnd(c, h) ==
  LET x == call[c].at  p == x[1]
      room == Cardinality(OpenFds(p) \ {x[2]}) < MaxHandles
  IN
  /\ call[c].st = "accepting"
  /\ nextFd[p] \in Fd
  /\ call' = [call EXCEPT ![c] = [st |-> "over", at |-> <<>>]]
  /\ saved' = [saved EXCEPT ![c] = fds[x]]
  /\ IF room
       THEN /\ Enter(h, 1)
            /\ fds' = [fds EXCEPT ![x] = NoHandle, ![<<p, nextFd[p]>>] = h]
            /\ nextFd' = [nextFd EXCEPT ![p] = @ + 1]
       ELSE /\ resource' = [resource EXCEPT ![h] = "open"]
            /\ fds' = [fds EXCEPT ![x] = NoHandle]
            /\ UNCHANGED <<nextFd, open, refs>>
  /\ UNCHANGED <<state, opening, ends>>

AcceptFails(c) ==
  /\ call[c].st = "accepting"
  /\ call' = [call EXCEPT ![c] = [st |-> "over", at |-> <<>>]]
  /\ UNCHANGED <<state, fds, nextFd, table, opening, ends, saved>>

-----------------------------------------------------------------------------
(* Processes come.                                                         *)

(* spawn(): setupStdio maps each stdio descriptor of the child to what     *)
(* some descriptor of the parent maps to, and counts it; the worker is     *)
(* awaited.  (A source that is not a number leaves the descriptor out.)    *)
Spawn(p, q) ==
  /\ Calling(p) /\ Room
  /\ state[q] = "absent"
  /\ \E from \in [StdFds -> {fds[<<p, f>>] : f \in Fd} \cup {NoHandle}] :
       /\ fds' = [x \in Proc \X Fd |->
                    IF x[1] = q /\ x[2] \in StdFds THEN from[x[2]] ELSE fds[x]]
       /\ Ref([h \in Handle |-> Cardinality({f \in StdFds : from[f] = h})])
  /\ state' = [state EXCEPT ![q] = "starting"]
  /\ UNCHANGED <<nextFd, open, resource, opening, ends, call, saved>>

(* spawnExternal(): setupInitStdio opens one console handle per descriptor. *)
SpawnExternal(q) ==
  /\ q \in Roots /\ state[q] = "absent" /\ Room
  /\ \E std \in [StdFds -> Unused] :
       /\ \A f, g \in StdFds : std[f] = std[g] => f = g
       /\ open' = open \cup {std[f] : f \in StdFds}
       /\ refs' = [h \in Handle |-> IF \E f \in StdFds : std[f] = h THEN 1 ELSE refs[h]]
       /\ resource' = [h \in Handle |-> IF \E f \in StdFds : std[f] = h THEN "open"
                                                                 ELSE resource[h]]
       /\ fds' = [x \in Proc \X Fd |->
                    IF x[1] = q /\ x[2] \in StdFds THEN std[x[2]] ELSE fds[x]]
  /\ state' = [state EXCEPT ![q] = "starting"]
  /\ UNCHANGED <<nextFd, opening, ends, call, saved>>

(* A service handler with a socket: one handle, counted once for each of   *)
(* its descriptors.                                                        *)
ServiceSocket(q, h) ==
  /\ q \in Roots /\ state[q] = "absent" /\ Room
  /\ Enter(h, Stdio)
  /\ fds' = [x \in Proc \X Fd |->
               IF x[1] = q /\ x[2] \in StdFds THEN h ELSE fds[x]]
  /\ state' = [state EXCEPT ![q] = "starting"]
  /\ UNCHANGED <<nextFd, opening, ends, call, saved>>

(* A service handler without: its descriptors are opened one at a time.    *)
ServiceSetup(q) ==
  /\ q \in Roots /\ state[q] = "absent" /\ Room
  /\ state' = [state EXCEPT ![q] = "setup"]
  /\ UNCHANGED <<fds, nextFd, table, opening, ends, call, saved>>

ServiceStdio(q, f, h) ==
  /\ state[q] = "setup"
  /\ OpenFds(q) = 0..(f - 1) /\ f \in StdFds
  /\ Enter(h, 1)
  /\ fds' = [fds EXCEPT ![<<q, f>>] = h]
  /\ state' = [state EXCEPT ![q] = IF f = Stdio - 1 THEN "starting" ELSE "setup"]
  /\ UNCHANGED <<nextFd, opening, ends, call, saved>>

SpawnReady(q) ==
  /\ state[q] = "starting"
  /\ state' = [state EXCEPT ![q] = "running"]
  /\ UNCHANGED <<fds, nextFd, table, opening, ends, call, saved>>

(* An open or the worker fails: what the descriptors count stays counted.  *)
SpawnFails(q) ==
  /\ state[q] \in {"setup", "starting"}
  /\ state' = [state EXCEPT ![q] = "failed"]
  /\ UNCHANGED <<fds, nextFd, table, opening, ends, call, saved>>

(* createVirtualProcess(): it has no descriptors.                          *)
CreateVirtualProcess(q) ==
  /\ q \in Roots \/ \E p \in Proc : Calling(p)
  /\ state[q] = "absent"
  /\ state' = [state EXCEPT ![q] = "running"]
  /\ UNCHANGED <<fds, nextFd, table, opening, ends, call, saved>>

-----------------------------------------------------------------------------
(* Processes go.                                                           *)

(* exit() up to its first await.                                           *)
ExitBegin(p) ==
  /\ Calling(p) /\ Room
  /\ state' = [state EXCEPT ![p] = "zombie"]
  /\ exiting' = exiting \cup {p}
  /\ UNCHANGED <<fds, nextFd, table, opening, interrupting, closing, call,
                 saved, interrupted>>

(* The loop is over the live Map: it takes descriptors allocated meanwhile. *)
ExitClose(p, f) ==
  /\ p \in exiting
  /\ CloseHandle(p, f)
  /\ UNCHANGED <<state, nextFd, opening, ends, call, saved>>

ExitEnd(p) ==
  /\ p \in exiting /\ OpenFds(p) = {}
  /\ exiting' = exiting \ {p}
  /\ UNCHANGED <<state, fds, nextFd, table, opening, interrupting, closing,
                 call, saved, interrupted>>

ForceExitUnrefOnce(p) ==            \* mutant: one unref per handle, not per fd
  /\ state[p] = "running"
  /\ state' = [state EXCEPT ![p] = "zombie"]
  /\ fds' = [x \in Proc \X Fd |-> IF x[1] = p THEN NoHandle ELSE fds[x]]
  /\ Unref([h \in Handle |-> IF h \in Held(p) THEN 1 ELSE 0])
  /\ UNCHANGED <<nextFd, opening, ends, call, saved>>
(* forceExit(): every descriptor's count is given up in one step.          *)
ForceExit(p) ==
  /\ state[p] = "running"
  /\ state' = [state EXCEPT ![p] = "zombie"]
  /\ fds' = [x \in Proc \X Fd |-> IF x[1] = p THEN NoHandle ELSE fds[x]]
  /\ Unref([h \in Handle |-> Cardinality(Slots(p, h))])
  /\ UNCHANGED <<nextFd, opening, ends, call, saved>>

(* interruptProcess(): SIGTERM from the host or from shutdown closes what  *)
(* p's descriptors map to, whoever else counts on it.                      *)
InterruptBegin(p) ==
  /\ state[p] = "running"
  /\ p \in Roots /\ p \notin interrupting /\ Room
  /\ interrupting' = interrupting \cup {p}
  /\ closing' = [closing EXCEPT ![p] = Held(p) \cap open]
  /\ interrupted' = interrupted \cup Held(p)
  /\ resource' = [h \in Handle |-> IF h \in Held(p) \cap open THEN "closed"
                                                             ELSE resource[h]]
  /\ UNCHANGED <<state, fds, nextFd, open, refs, opening, exiting, call, saved>>

(* One close has settled: out of the table, with all its counts.           *)
InterruptDrop(p, h) ==
  /\ h \in closing[p]
  /\ closing' = [closing EXCEPT ![p] = @ \ {h}]
  /\ open' = open \ {h}
  /\ refs' = [refs EXCEPT ![h] = 0]
  /\ UNCHANGED <<state, fds, nextFd, resource, opening, exiting, interrupting,
                 call, saved, interrupted>>

(* All have: the descriptors go, those opened meanwhile too, counts and all. *)
InterruptEnd(p) ==
  /\ p \in interrupting /\ closing[p] = {}
  /\ interrupting' = interrupting \ {p}
  /\ interrupted' = interrupted \cup Held(p)
  /\ fds' = [x \in Proc \X Fd |-> IF x[1] = p THEN NoHandle ELSE fds[x]]
  /\ UNCHANGED <<state, nextFd, table, opening, exiting, closing, call, saved>>

-----------------------------------------------------------------------------
Syscall(p) ==
  \/ OpenBegin(p)
  \/ OpenFails(p)
  \/ \E h \in Unused : OpenEnd(p, h)
  \/ \E r, s \in Unused : r # s /\ CreatePipe(p, r, s)
  \/ \E f \in Fd : Close(p, f)
  \/ \E t, s \in Fd, c \in Calls : Redirect(p, t, s, c)
  \/ \E f \in Fd, c \in Calls : AcceptBegin(p, f, c)
  \/ \E q \in Proc : Spawn(p, q)
  \/ ExitBegin(p)

OfCall(c) ==
  \/ Restore(c)
  \/ \E h \in Unused : AcceptEnd(c, h)
  \/ AcceptFails(c)

Starting(q) ==
  \/ SpawnExternal(q)
  \/ ServiceSetup(q)
  \/ \E h \in Unused : ServiceSocket(q, h) \/ \E f \in StdFds : ServiceStdio(q, f, h)
  \/ SpawnReady(q)
  \/ SpawnFails(q)
  \/ CreateVirtualProcess(q)

Ending(p) ==
  \/ \E f \in Fd : ExitClose(p, f)
  \/ ExitEnd(p)
  \/ ForceExit(p)
  \/ InterruptBegin(p)
  \/ \E h \in closing[p] : InterruptDrop(p, h)
  \/ InterruptEnd(p)

Next ==
  \/ \E p \in Proc : Syscall(p) \/ Starting(p) \/ Ending(p)
  \/ \E c \in Calls : OfCall(c)

Spec == Init /\ [][Next]_vars

-----------------------------------------------------------------------------
(* Properties.                                                             *)

MappedTo(h) == {x \in Proc \X Fd : fds[x] = h}
SavedAs(h) == {c \in Calls : saved[c] = h}

(* Every count belongs to somebody: a handle that no interruptProcess has   *)
(* touched is counted once for each descriptor, of any process dead or      *)
(* alive, that maps to it and once for each handle a redirect or an accept  *)
(* took out of a descriptor (kernel.ts:325 knows the descriptors only).     *)
Accounting ==
  \A h \in Handle \ interrupted :
    refs[h] = Cardinality(MappedTo(h)) + Cardinality(SavedAs(h))

(* No last close comes early: while a descriptor of any process maps to a   *)
(* handle, it is in the table and what is behind it is open, whatever the   *)
(* processes that share it do, unless an interruptProcess has touched it.   *)
FdsResolve ==
  \A x \in Proc \X Fd :
    fds[x] \in Handle \ interrupted => fds[x] \in open /\ resource[fds[x]] = "open"

(* What redirectHandle hands out can be restored: until it is, its handle   *)
(* stays in the table and open, even if every descriptor that maps to it    *)
(* is closed.                                                               *)
SavedResolve ==
  \A c \in Calls :
    saved[c] \in Handle \ interrupted
      => saved[c] \in open /\ resource[saved[c]] = "open"

(* So whoever holds a handle finds it, through a descriptor or a restore.   *)
HandlesResolve == FdsResolve /\ SavedResolve

(* INV-4 of allocHandle: no sequence of opens landing late, pipes, accepts  *)
(* and inherited stdio takes a process over MAX_HANDLES descriptors.        *)
FdLimit == \A p \in Proc : Cardinality(OpenFds(p)) <= MaxHandles

(* A descriptor number is used once in a process's life: one that has been  *)
(* closed never maps to anything again, so a late call by number, a restore *)
(* above all, fails instead of reaching a stranger's handle.                *)
FdNeverReused ==
  [][\A p \in Proc : \A f \in Fd :
       f \in Stdio..(nextFd[p] - 1) /\ fds[<<p, f>>] = NoHandle => fds'[<<p, f>>] = NoHandle]_vars

(* What the proofs need beside: a descriptor not allocated yet, a process   *)
(* not started yet and a handle not used yet are in nobody's hands, calls   *)
(* in progress belong to processes that ran, and a count keeps a handle     *)
(* open.                                                                    *)
Ran(p) == state[p] \in {"running", "zombie"}

Shape ==
  /\ \A p \in Proc : /\ nextFd[p] >= Stdio
                     /\ \A f \in Fd : (f >= nextFd[p]) => (fds[<<p, f>>] = NoHandle)
                     /\ state[p] = "absent" => OpenFds(p) = {}
                     /\ (opening[p] > 0) => Ran(p)
  /\ \A c \in Calls :
       /\ call[c].st \in {"redirected", "accepting"}
            => call[c].at \in Proc \X Fd /\ Ran(call[c].at[1])
       /\ call[c].st \in {"unused", "accepting"} => saved[c] = NoHandle

Fresh ==
  \A h \in Unused :
    /\ h \notin open \cup interrupted /\ refs[h] = 0
    /\ Cardinality(MappedTo(h)) = 0 /\ Cardinality(SavedAs(h)) = 0

ClosingTouched == \A p \in Proc : closing[p] \subseteq interrupted

CountedIsOpen ==
  \A h \in Handle \ interrupted :
    refs[h] > 0 => h \in open /\ resource[h] = "open"

Balance == Accounting /\ CountedIsOpen /\ Fresh /\ ClosingTouched

=============================================================================
