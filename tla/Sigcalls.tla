------------------------------ MODULE Sigcalls ------------------------------
(***************************************************************************)
(* Syscalls that a userspace process handles: the registry of names, the   *)
(* routing of a call to the handler's worker (routeToUserspace() of the    *)
(* dispatcher), the handler (rom/lib/process/sigcall.ts) and what becomes  *)
(* of its responses.  A response names the request only, and not the       *)
(* process it comes from: onWorkerMessage() returns before the case that   *)
(* calls handleSigcallResponse(), which nothing else calls.  So the queue  *)
(* of a pending call stays empty and is left out, and so is a cancel: the  *)
(* stream over the call looks at it between two responses only.            *)
(***************************************************************************)
CONSTANTS
  Proc,     \* processes
  Name,     \* names that are no syscall of the kernel
  Call,     \* bound: calls made
  None      \* no process

VARIABLES
  running,    \* processes whose state is running
  registry,   \* registry: who handles a name
  caller, name, target,   \* of a call: fixed as it is made, and as it is routed
  stage,      \* of a call: unused, dispatched, waiting (in pendingSigcalls), over
  inbox,      \* calls posted to the target's worker
  handling,   \* calls whose handler runs
  replies     \* calls with a terminal response on the way to the kernel

table == <<running, registry>>
calls == <<caller, name, target, stage>>
vars == <<table, calls, inbox, handling, replies>>

Init ==
  /\ running = Proc /\ registry = [n \in Name |-> None]
  /\ caller = [c \in Call |-> None] /\ target = [c \in Call |-> None]
  /\ name \in [Call -> Name]
  /\ stage = [c \in Call |-> "unused"]
  /\ inbox = {} /\ handling = {} /\ replies = {}

(* sigcall:register fails with EEXIST on a name that is taken, ...         *)
Register(p, n) ==
  /\ p \in running /\ registry[n] = None
  /\ registry' = [registry EXCEPT ![n] = p]
  /\ UNCHANGED <<running, calls, inbox, handling, replies>>

(* ... sigcall:unregister with EPERM on one that somebody else holds.      *)
Unregister(p, n) ==
  /\ p \in running /\ registry[n] = p
  /\ registry' = [registry EXCEPT ![n] = None]
  /\ UNCHANGED <<running, calls, inbox, handling, replies>>

Ask(c, p) ==
  /\ p \in running /\ stage[c] = "unused"
  /\ caller' = [caller EXCEPT ![c] = p]
  /\ stage' = [stage EXCEPT ![c] = "dispatched"]
  /\ UNCHANGED <<table, name, target, inbox, handling, replies>>

(* dispatch(): ENOSYS without a handler, ESRCH if it is not running.       *)
RouteFails(c) ==
  /\ stage[c] = "dispatched" /\ registry[name[c]] \notin running
  /\ stage' = [stage EXCEPT ![c] = "over"]
  /\ UNCHANGED <<table, caller, name, target, inbox, handling, replies>>

Route(c) ==
  /\ stage[c] = "dispatched" /\ registry[name[c]] \in running
  /\ target' = [target EXCEPT ![c] = registry[name[c]]]
  /\ stage' = [stage EXCEPT ![c] = "waiting"]
  /\ inbox' = inbox \cup {c}
  /\ UNCHANGED <<table, caller, name, handling, replies>>

(* handleSigcallRequest(): the handler starts, ...                         *)
Take(c) ==
  /\ c \in inbox
  /\ inbox' = inbox \ {c} /\ handling' = handling \cup {c}
  /\ UNCHANGED <<table, calls, replies>>

(* ... and ends with a terminal response: its own, EIO or ENOSYS.          *)
Respond(c) ==
  /\ c \in handling
  /\ handling' = handling \ {c} /\ replies' = replies \cup {c}
  /\ UNCHANGED <<table, calls, inbox>>

(* onWorkerMessage() finds no pid in the response and returns.             *)
OnResponse(c) ==
  /\ c \in replies
  /\ replies' = replies \ {c}
  /\ UNCHANGED <<table, calls, inbox, handling>>

(* A process ends.  Only forceExit() takes its names from the registry.    *)
End(p) ==
  /\ p \in running
  /\ running' = running \ {p}
  /\ inbox' = {c \in inbox : target[c] # p}
  /\ handling' = {c \in handling : target[c] # p}
  /\ UNCHANGED <<calls, replies>>

Exit(p) == End(p) /\ UNCHANGED registry
ForceExit(p) ==
  /\ End(p)
  /\ registry' = [n \in Name |-> IF registry[n] = p THEN None ELSE registry[n]]

Progress(c) == RouteFails(c) \/ Route(c) \/ Take(c) \/ Respond(c) \/ OnResponse(c)

Next ==
  \/ \E c \in Call : Progress(c) \/ \E p \in Proc : Ask(c, p)
  \/ \E p \in Proc : Exit(p) \/ ForceExit(p)
                     \/ \E n \in Name : Register(p, n) \/ Unregister(p, n)

(* A message posted to a worker that lives arrives and handlers come to an *)
(* end.                                                                    *)
Spec == Init /\ [][Next]_vars /\ \A c \in Call : WF_vars(Progress(c))

-----------------------------------------------------------------------------
(* A call whose caller and handler live is answered (dispatcher.ts, above  *)
(* handleSigcallResponse: it is called when a response is received).       *)
CallsAreAnswered ==
  \A c \in Call :
    stage[c] = "waiting" ~> \/ stage[c] = "over"
                            \/ caller[c] \notin running \/ target[c] \notin running
=============================================================================
