---------------------------- MODULE SyscallStream ----------------------------
(***************************************************************************)
(* One streaming syscall, from the kernel's handler to the loop of the     *)
(* process that called it: StreamController.wrap() and onPing() in the     *)
(* kernel, SyscallDispatcher.execute() around them, the two channels of    *)
(* the worker, and the client's syscall() with its queue and ping timer.   *)
(*                                                                         *)
(* Kernel and worker are two event loops; what one does between two awaits *)
(* is one action.  The kernel's send, its counting and its checks after    *)
(* the send run in one go (they are joined by microtasks only).            *)
(*                                                                         *)
(* Items are counted, not named: a worker's channels and the client's      *)
(* queue are first in, first out, and a terminal response comes last.      *)
(* Time is counted in ping intervals.  A message arrives in the interval   *)
(* it was posted in and the kernel's timers fire when they are due; the    *)
(* worker may be busy, and its ping late, for any time.                    *)
(***************************************************************************)
EXTENDS Integers, Sequences

CONSTANTS
  HighWater,  \* STREAM_HIGH_WATER
  LowWater,   \* STREAM_LOW_WATER
  StallTicks, \* STREAM_STALL_TIMEOUT / STREAM_PING_INTERVAL
  MaxItems    \* bound: items the syscall's handler yields

ASSUME StreamAssumption ==
  /\ HighWater \in Nat /\ LowWater \in Nat /\ LowWater < HighWater
  /\ StallTicks \in Nat \ {0}
  /\ MaxItems \in Nat

NoTimer == -1

Message == [type : {"request", "ping", "cancel"}, processed : 0..MaxItems]
Request == [type |-> "request", processed |-> 0]
Cancel == [type |-> "cancel", processed |-> 0]
PingOf(n) == [type |-> "ping", processed |-> n]

VARIABLES
  (* the kernel *)
  proc,        \* running; signalled: sent a SIGTERM; zombie
  pc,          \* where wrap() is: none, reading (awaits the handler), paused, over
  itemsSent, itemsAcked,
  aborted,     \* controller.abort.signal.aborted
  registered,  \* streamPingHandlers.has(id)
  age,         \* now - lastPingTime, up to StallTicks
  safety,      \* how long waitForResume()'s timer has run
  overruns,    \* history: pauses that timer has ended
  (* the channels *)
  inFlight,    \* items posted to the worker and not delivered
  up,          \* messages posted to the kernel
  endAt,       \* where the terminal response is: kernel, channel, queue,
               \* consumer, or dropped on arrival
  terminal,    \* what it is
  (* the client *)
  loop,        \* the caller's for await: start, body, waiting (in next()), left
  entry,       \* pending.has(id)
  queued,      \* items in stream.queue
  processed,   \* stream.processed
  pinging,     \* stream.pingTimer runs
  pingDue,     \* it has fired and its callback has not run
  silent       \* history: intervals since the last ping, up to StallTicks

kernelVars == <<proc, pc, itemsSent, itemsAcked, aborted, registered, age, safety, overruns>>
clientVars == <<loop, entry, queued, processed, pinging, pingDue, silent>>
vars == <<kernelVars, inFlight, up, endAt, terminal, clientVars>>

TypeOK ==
  /\ proc \in {"running", "signalled", "zombie"}
  /\ pc \in {"none", "reading", "paused", "over"}
  /\ itemsSent \in 0..MaxItems /\ itemsAcked \in 0..MaxItems
  /\ aborted \in BOOLEAN /\ registered \in BOOLEAN
  /\ age \in 0..StallTicks /\ silent \in 0..StallTicks
  /\ safety \in NoTimer..StallTicks
  /\ overruns \in Nat
  /\ inFlight \in 0..MaxItems /\ queued \in 0..MaxItems
  /\ up \in Seq(Message)
  /\ endAt \in {"kernel", "channel", "queue", "consumer", "dropped"}
  /\ terminal \in {"none", "done", "error", "ETIMEDOUT"}
  /\ loop \in {"start", "body", "waiting", "left"}
  /\ entry \in BOOLEAN /\ pinging \in BOOLEAN /\ pingDue \in BOOLEAN
  /\ processed \in 0..(MaxItems + 1)

Init ==
  /\ proc = "running" /\ pc = "none"
  /\ itemsSent = 0 /\ itemsAcked = 0
  /\ aborted = FALSE /\ registered = FALSE
  /\ age = 0 /\ safety = NoTimer /\ overruns = 0
  /\ inFlight = 0 /\ up = <<>>
  /\ endAt = "kernel" /\ terminal = "none"
  /\ loop = "start" /\ entry = FALSE
  /\ queued = 0 /\ processed = 0
  /\ pinging = FALSE /\ pingDue = FALSE /\ silent = 0

-----------------------------------------------------------------------------
(* The kernel.                                                             *)

Gap == itemsSent - itemsAcked
IsStalled == age = StallTicks

FullLate == Gap + 1 > HighWater     \* mutant: an item over the mark
(* The item just sent brings the gap to the high-water mark.               *)
Full == Gap + 1 >= HighWater

(* What the handler yields now is not wanted: wrap() returns, or execute() *)
(* breaks.                                                                 *)
Stopped == aborted \/ proc = "zombie"

(* The generators return: execute()'s finally forgets the stream.          *)
Over == pc' = "over" /\ registered' = FALSE /\ safety' = NoTimer

KeepsEnd == UNCHANGED <<terminal, endAt>>

OverUnlessStalled(op) ==            \* mutant: a stall is not reported
  Over /\ IF op = "ETIMEDOUT" THEN KeepsEnd ELSE terminal' = op /\ endAt' = "channel"
(* execute() yields op and returns.                                        *)
OverWith(op) == Over /\ terminal' = op /\ endAt' = "channel"

(* wrap() asks the handler for the next item.                              *)
ReadOn == pc' = "reading" /\ safety' = NoTimer /\ UNCHANGED registered

(* waitForResume().                                                        *)
Pause == pc' = "paused" /\ safety' = 0 /\ UNCHANGED registered

(* The handler yields an item: it is posted to the worker and counted,     *)
(* then wrap() stalls, pauses or reads on.                                 *)
SourceItem ==
  /\ pc = "reading" /\ ~Stopped /\ itemsSent < MaxItems
  /\ itemsSent' = itemsSent + 1
  /\ inFlight' = inFlight + 1
  /\ age' = IF itemsSent = 0 THEN 0 ELSE age
  /\ LET stalled == itemsSent > 0 /\ IsStalled
     IN  \/ stalled /\ OverWith("ETIMEDOUT")
         \/ ~stalled /\ Full /\ Pause /\ KeepsEnd
         \/ ~stalled /\ ~Full /\ ReadOn /\ KeepsEnd
  /\ UNCHANGED <<proc, itemsAcked, aborted, overruns, up, clientVars>>

(* The handler yields a terminal response.                                 *)
SourceTerminal ==
  /\ pc = "reading" /\ ~Stopped
  /\ \E op \in {"done", "error"} : OverWith(op)
  /\ UNCHANGED <<proc, itemsSent, itemsAcked, aborted, age, overruns, inFlight, up, clientVars>>

(* The handler throws; the error is posted whoever is there to hear it.    *)
SourceThrows ==
  /\ pc = "reading" /\ OverWith("error")
  /\ UNCHANGED <<proc, itemsSent, itemsAcked, aborted, age, overruns, inFlight, up, clientVars>>

(* The handler yields to a stream that is aborted or whose process is      *)
(* dead: the response is dropped and the stream ends without a terminal.   *)
Swallow ==
  /\ pc = "reading" /\ Stopped
  /\ Over /\ KeepsEnd
  /\ UNCHANGED <<proc, itemsSent, itemsAcked, aborted, age, overruns, inFlight, up, clientVars>>

(* The timer of waitForResume() fires and wrap() goes on.                  *)
SafetyTimeout ==
  /\ safety = StallTicks
  /\ \/ aborted /\ Over /\ KeepsEnd /\ UNCHANGED overruns
     \/ ~aborted /\ IsStalled /\ OverWith("ETIMEDOUT") /\ UNCHANGED overruns
     \/ ~aborted /\ ~IsStalled /\ ReadOn /\ KeepsEnd /\ overruns' = overruns + 1
  /\ UNCHANGED <<proc, itemsSent, itemsAcked, aborted, age, inFlight, up, clientVars>>

OnPingResuming(n) ==                \* mutant: only a ping that resumes counts as a sign of life
  IF registered
  THEN /\ itemsAcked' = n
       /\ IF pc = "paused" /\ itemsSent - n <= LowWater
          THEN pc' = "reading" /\ safety' = NoTimer /\ age' = 0
          ELSE UNCHANGED <<pc, safety, age>>
       /\ UNCHANGED <<aborted, registered>>
  ELSE UNCHANGED <<pc, itemsAcked, aborted, registered, age, safety>>
OnPingBelow(n) ==                   \* mutant: < for <= at the low-water mark
  IF registered
  THEN /\ itemsAcked' = n
       /\ age' = 0
       /\ IF pc = "paused" /\ itemsSent - n < LowWater
          THEN pc' = "reading" /\ safety' = NoTimer
          ELSE UNCHANGED <<pc, safety>>
       /\ UNCHANGED <<aborted, registered>>
  ELSE UNCHANGED <<pc, itemsAcked, aborted, registered, age, safety>>
(* onPing(), if it still has a handler.                                    *)
OnPing(n) ==
  IF registered
  THEN /\ itemsAcked' = n
       /\ age' = 0
       /\ IF pc = "paused" /\ itemsSent - n <= LowWater
          THEN pc' = "reading" /\ safety' = NoTimer
          ELSE UNCHANGED <<pc, safety>>
       /\ UNCHANGED <<aborted, registered>>
  ELSE UNCHANGED <<pc, itemsAcked, aborted, registered, age, safety>>

OnCancelClears ==                   \* mutant: onCancel()'s clearing of the timer without its resume
  /\ aborted' = (aborted \/ registered)
  /\ registered' = FALSE
  /\ safety' = NoTimer
  /\ UNCHANGED <<pc, itemsAcked, age>>
(* syscall:cancel: a paused stream is aborted and left to its timer.       *)
OnCancel ==
  /\ aborted' = (aborted \/ registered)
  /\ registered' = FALSE
  /\ UNCHANGED <<pc, itemsAcked, age, safety>>

OnRequest ==
  /\ pc' = "reading" /\ registered' = TRUE /\ age' = 0
  /\ UNCHANGED <<itemsAcked, aborted, safety>>

(* onWorkerMessage(): a zombie's messages are dropped.                     *)
Receive ==
  /\ up # <<>> /\ up' = Tail(up)
  /\ \/ /\ proc = "zombie"
        /\ UNCHANGED <<pc, itemsAcked, aborted, registered, age, safety>>
     \/ proc # "zombie" /\ Head(up).type = "request" /\ OnRequest
     \/ proc # "zombie" /\ Head(up).type = "cancel" /\ OnCancel
     \/ proc # "zombie" /\ Head(up).type = "ping" /\ OnPing(Head(up).processed)
  /\ UNCHANGED <<proc, itemsSent, overruns, inFlight, endAt, terminal, clientVars>>

(* kill(SIGTERM), or interruptProcess(), of the process.                   *)
Signal ==
  /\ proc # "zombie"
  /\ proc' = "signalled"
  /\ aborted' = (aborted \/ pc \in {"reading", "paused"})
  /\ registered' = FALSE
  /\ UNCHANGED <<pc, itemsSent, itemsAcked, age, safety, overruns, inFlight, up, endAt,
                 terminal, clientVars>>

(* exit(): the stream is not aborted.  What the worker posts before it is  *)
(* terminated is dropped, so the client stops here.                        *)
Exit ==
  /\ proc # "zombie" /\ proc' = "zombie"
  /\ UNCHANGED <<pc, itemsSent, itemsAcked, aborted, registered, age, safety, overruns,
                 inFlight, up, endAt, terminal, clientVars>>

(* forceExit(), at the latest when the SIGTERM's grace period expires.     *)
ForceExit ==
  /\ proc # "zombie" /\ proc' = "zombie"
  /\ aborted' = (aborted \/ pc \in {"reading", "paused"})
  /\ registered' = FALSE
  /\ UNCHANGED <<pc, itemsSent, itemsAcked, age, safety, overruns, inFlight, up, endAt,
                 terminal, clientVars>>

-----------------------------------------------------------------------------
(* The client, in the worker.                                              *)

(* syscall(): the entry and its timer, then the request.                   *)
Call ==
  /\ proc # "zombie" /\ loop = "start"
  /\ loop' = "body" /\ entry' = TRUE /\ pinging' = TRUE
  /\ up' = Append(up, Request)
  /\ UNCHANGED <<kernelVars, inFlight, endAt, terminal, queued, processed, pingDue, silent>>

(* handleResponse() of an item.                                            *)
DeliverItem ==
  /\ proc # "zombie" /\ inFlight > 0
  /\ inFlight' = inFlight - 1
  /\ \/ ~entry /\ UNCHANGED <<queued, processed, loop>>
     \/ /\ entry /\ loop = "waiting"
        /\ loop' = "body" /\ processed' = processed + 1 /\ UNCHANGED queued
     \/ /\ entry /\ loop # "waiting"
        /\ queued' = queued + 1 /\ UNCHANGED <<processed, loop>>
  /\ UNCHANGED <<kernelVars, up, endAt, terminal, entry, pinging, pingDue, silent>>

DeliverTerminalQueues ==            \* mutant: done is set and nobody is woken
  /\ proc # "zombie" /\ inFlight = 0 /\ endAt = "channel"
  /\ endAt' = (IF entry THEN "queue" ELSE "dropped")
  /\ pinging' = FALSE
  /\ UNCHANGED <<kernelVars, inFlight, up, terminal, loop, entry, queued, processed, pingDue, silent>>
(* handleResponse() of the terminal response: no ping is needed any more.  *)
DeliverTerminal ==
  /\ proc # "zombie" /\ inFlight = 0 /\ endAt = "channel"
  /\ \/ ~entry /\ endAt' = "dropped" /\ UNCHANGED <<processed, loop>>
     \/ /\ entry /\ loop = "waiting"
        /\ endAt' = "consumer" /\ loop' = "body" /\ processed' = processed + 1
     \/ /\ entry /\ loop # "waiting"
        /\ endAt' = "queue" /\ UNCHANGED <<processed, loop>>
  /\ pinging' = FALSE
  /\ UNCHANGED <<kernelVars, inFlight, up, terminal, entry, queued, pingDue, silent>>

NextItemUncounted ==                \* mutant: only items handed to a waiting next() count
  /\ queued > 0
  /\ queued' = queued - 1
  /\ UNCHANGED <<processed, loop, entry, pinging, endAt>>
(* next(): the head of the queue, the end of the stream, or a wait.        *)
NextItem ==
  /\ queued > 0
  /\ queued' = queued - 1 /\ processed' = processed + 1
  /\ UNCHANGED <<loop, entry, pinging, endAt>>

NextTerminal ==
  /\ queued = 0 /\ endAt = "queue"
  /\ endAt' = "consumer" /\ processed' = processed + 1
  /\ entry' = FALSE /\ pinging' = FALSE
  /\ UNCHANGED <<loop, queued>>

NextDone ==
  /\ queued = 0 /\ endAt = "consumer"
  /\ entry' = FALSE /\ pinging' = FALSE /\ loop' = "left"
  /\ UNCHANGED <<queued, processed, endAt>>

NextWaits ==
  /\ queued = 0 /\ endAt \notin {"queue", "consumer"}
  /\ loop' = "waiting"
  /\ UNCHANGED <<queued, processed, entry, pinging, endAt>>

AskNext ==
  /\ proc # "zombie" /\ loop = "body"
  /\ NextItem \/ NextTerminal \/ NextDone \/ NextWaits
  /\ UNCHANGED <<kernelVars, inFlight, up, terminal, pingDue, silent>>

(* return(): the caller breaks out of its loop.                            *)
Leave ==
  /\ proc # "zombie" /\ loop = "body" /\ processed > 0
  /\ loop' = "left" /\ entry' = FALSE /\ pinging' = FALSE
  /\ up' = Append(up, Cancel)
  /\ UNCHANGED <<kernelVars, inFlight, endAt, terminal, queued, processed, pingDue, silent>>

(* The callback of pingTimer; clearInterval() drops one that is due.       *)
Ping ==
  /\ proc # "zombie" /\ pinging /\ pingDue
  /\ pingDue' = FALSE
  /\ IF processed > 0
     THEN up' = Append(up, PingOf(processed)) /\ silent' = 0
     ELSE UNCHANGED <<up, silent>>
  /\ UNCHANGED <<kernelVars, inFlight, endAt, terminal, loop, entry, queued, processed, pinging>>

-----------------------------------------------------------------------------
(* A ping interval passes.                                                 *)

Older(t) == IF t < StallTicks THEN t + 1 ELSE t

Tick ==
  /\ up = <<>>
  /\ safety # StallTicks
  /\ age' = Older(age) /\ silent' = Older(silent)
  /\ safety' = IF safety = NoTimer THEN NoTimer ELSE safety + 1
  /\ pingDue' = pinging
  /\ UNCHANGED <<proc, pc, itemsSent, itemsAcked, aborted, registered, overruns, inFlight, up,
                 endAt, terminal, loop, entry, queued, processed, pinging>>

Source == SourceItem \/ SourceTerminal \/ SourceThrows \/ Swallow

Kernel == Source \/ SafetyTimeout \/ Receive \/ Signal \/ Exit \/ ForceExit

Client == Call \/ DeliverItem \/ DeliverTerminal \/ AskNext \/ Leave \/ Ping

Next == Kernel \/ Client \/ Tick

Spec == Init /\ [][Next]_vars

(* The event loops run and messages arrive.  Of the handler it is assumed  *)
(* that it yields or throws in the end, of a process that does not leave   *)
(* its loop that it asks for the next item, of a signalled one nothing:    *)
(* its grace timer ends it.                                                *)
Fairness ==
  /\ WF_vars(Source) /\ WF_vars(SafetyTimeout) /\ WF_vars(Receive)
  /\ WF_vars(proc = "signalled" /\ ForceExit)
  /\ WF_vars(DeliverItem) /\ WF_vars(DeliverTerminal)
  /\ WF_vars(AskNext) /\ WF_vars(Ping) /\ WF_vars(Tick)

FairSpec == Spec /\ Fairness

-----------------------------------------------------------------------------
(* Properties.                                                             *)

Posted(type) == \E i \in DOMAIN up : up[i].type = type

(* The items the caller has seen.                                          *)
Consumed == IF endAt = "consumer" THEN processed - 1 ELSE processed

(* No item is lost or counted twice on its way: what the kernel has sent    *)
(* is in the channel, in the client's queue or was handed to the caller,    *)
(* and no acknowledgement, stored or on its way, is ahead of what was       *)
(* (INV-1 of StreamController).                                             *)
Conservation ==
  /\ inFlight + queued + Consumed <= itemsSent
  /\ entry => inFlight + queued + Consumed = itemsSent
  /\ itemsAcked <= Consumed
  /\ \A i \in DOMAIN up : up[i].processed <= Consumed

(* No wake-up is lost in the client: a caller that waits in next() has an   *)
(* entry that a response will find, and nothing it waits for is queued.     *)
NoLostWakeup ==
  loop = "waiting" => entry /\ queued = 0 /\ endAt \in {"kernel", "channel"}

(* No resume is lost: a paused stream lacks more than LowWater               *)
(* acknowledgements and its safety timer runs; and as long as pings can      *)
(* reach it the client still sends them, or has sent a cancel.               *)
PausedIsOwed ==
  pc = "paused" =>
    /\ Gap > LowWater /\ safety >= 0
    /\ registered /\ proc # "zombie" => (entry /\ pinging) \/ Posted("cancel")

(* Memory is bounded: the gap passes the high-water mark by one item for     *)
(* each pause that the safety timer has ended, and never otherwise.          *)
GapBounded == Gap <= HighWater + overruns

(* A consumer that pings is not cut off: a stream whose process lives ends   *)
(* with ETIMEDOUT only when no ping was posted in the StallTicks before the  *)
(* current interval, whatever the handler's pace and wherever it is paused.  *)
StallOnlyWhenSilent ==
  [][terminal' = "ETIMEDOUT" /\ terminal = "none" /\ proc # "zombie"
       => silent = StallTicks \/ Posted("ping")]_vars

(* INV-3: an aborted stream sends no more items, whether it was cancelled,   *)
(* signalled or killed, at a pause, at the handler or on its way.            *)
AbortIsFinal == [][aborted => aborted' /\ itemsSent' = itemsSent /\ terminal' # "done"]_vars

(* A caller that waits for an item gets one, or the terminal response, or    *)
(* its process ends.                                                         *)
NextReturns == loop = "waiting" ~> loop # "waiting" \/ proc = "zombie"

(* The stream of a process that died or cancelled is torn down.              *)
StreamEnds == aborted \/ (proc = "zombie" /\ registered) ~> pc = "over"

(* What the proofs need beside.  The terminal response comes last and ends  *)
(* the pings; it is followed through the client by the caller's loop.       *)
Ends ==
  /\ endAt = "kernel" <=> terminal = "none"
  /\ endAt # "kernel" => pc = "over"
  /\ endAt \in {"queue", "consumer"} => inFlight = 0
  /\ endAt = "consumer" => queued = 0 /\ processed > 0
  /\ endAt = "dropped" => ~entry
  /\ pinging <=> entry /\ endAt \in {"kernel", "channel"}
  /\ loop \in {"start", "left"} => ~entry
  /\ loop = "body" => entry \/ endAt = "consumer"

(* The kernel's own record of the stream.                                   *)
Streaming ==
  /\ (safety >= 0) <=> (pc = "paused")
  /\ registered => pc \in {"reading", "paused"} /\ ~aborted
  /\ pc \in {"reading", "paused"} /\ ~Stopped => registered
  /\ aborted => pc # "none" /\ terminal # "done"
  /\ pc = "none" => itemsSent = 0 /\ overruns = 0

(* The request comes first, pings grow, and a client that has gone has      *)
(* posted its cancel.                                                       *)
Channel ==
  /\ loop = "start" => pc = "none" /\ up = <<>>
  /\ \A i \in DOMAIN up : up[i].type = "request" => i = 1 /\ pc = "none"
  /\ \A i \in DOMAIN up : up[i].type = "ping" => itemsAcked <= up[i].processed
  /\ \A i, j \in DOMAIN up :
       i < j /\ up[j].type = "ping" => up[i].processed <= up[j].processed
  /\ proc # "zombie" /\ (registered \/ Posted("request")) => entry \/ Posted("cancel")

(* While the stream is read the gap is an item lower than its bound.        *)
ReadingGap == pc \in {"none", "reading"} => Gap < HighWater + overruns

(* The kernel knows no more silence than there is.                          *)
Silence == registered /\ proc # "zombie" /\ ~Posted("ping") => age <= silent

IInv ==
  /\ TypeOK /\ Conservation /\ NoLostWakeup /\ PausedIsOwed /\ GapBounded
  /\ Ends /\ Streaming /\ Channel /\ ReadingGap /\ Silence
=============================================================================
