------------------------ MODULE SyscallStreamProofs ------------------------
(***************************************************************************)
(* Proofs about SyscallStream, for any water marks, stall timeout and      *)
(* number of items.                                                        *)
(***************************************************************************)
EXTENDS SyscallStream, TLAPS

(* The values a pause and its end give to the timer.                       *)
LEMMA TimerTypes ==
  /\ NoTimer \in NoTimer..StallTicks
  /\ 0 \in NoTimer..StallTicks
  BY StreamAssumption DEF NoTimer

(* The numbers of the state, as the arithmetic below needs them.           *)
LEMMA Numbers ==
  ASSUME IInv
  PROVE  /\ itemsSent \in 0..MaxItems /\ itemsAcked \in 0..MaxItems
         /\ inFlight \in 0..MaxItems /\ queued \in 0..MaxItems
         /\ processed \in 0..(MaxItems + 1) /\ overruns \in Nat
         /\ MaxItems \in Nat
         /\ \A i \in DOMAIN up : up[i].processed \in 0..MaxItems
<1>1. \A i \in DOMAIN up : up[i] \in Message
  BY DEF IInv, TypeOK
<1> QED
  BY <1>1, StreamAssumption DEF IInv, TypeOK, Message

(* How much may still arrive at the client.                                *)
LEMMA Bounds ==
  ASSUME IInv
  PROVE  /\ inFlight + queued <= itemsSent
         /\ inFlight + queued + processed <= itemsSent + 1
         /\ endAt \in {"kernel", "channel", "queue"} => inFlight + queued + processed <= itemsSent
         /\ queued > 0 => endAt # "consumer"
         /\ loop = "waiting" => queued = 0 /\ endAt \in {"kernel", "channel"}
  BY DEF IInv, TypeOK, Conservation, Consumed, Ends, NoLostWakeup

(* The handler yields an item. *)
LEMMA SourceItemStep == IInv /\ SourceItem => IInv'
<1>0. SUFFICES ASSUME IInv, SourceItem PROVE IInv'
  OBVIOUS
<1>1. TypeOK'
  <2>1. itemsSent' \in 0..MaxItems /\ inFlight' \in 0..MaxItems
    BY <1>0, Numbers, Bounds DEF SourceItem, Full, Stopped, IsStalled, ReadOn, Pause,
    Over, OverWith, KeepsEnd
  <2>2. safety' \in NoTimer..StallTicks /\ age' \in 0..StallTicks
    BY <1>0, StreamAssumption, TimerTypes DEF IInv, TypeOK, SourceItem, Full, Stopped,
    IsStalled, ReadOn, Pause, Over, OverWith, KeepsEnd
  <2>3. pc' \in {"none", "reading", "paused", "over"} /\ registered' \in BOOLEAN
    BY <1>0 DEF IInv, TypeOK, SourceItem, Full, Stopped, IsStalled, ReadOn, Pause, Over,
    OverWith, KeepsEnd
  <2>4. terminal' \in {"none", "done", "error", "ETIMEDOUT"}
    BY <1>0 DEF IInv, TypeOK, SourceItem, Full, Stopped, IsStalled, ReadOn, Pause, Over,
    OverWith, KeepsEnd
  <2>5. endAt' \in {"kernel", "channel", "queue", "consumer", "dropped"}
    BY <1>0 DEF IInv, TypeOK, SourceItem, Full, Stopped, IsStalled, ReadOn, Pause, Over,
    OverWith, KeepsEnd
  <2> QED
    BY <1>0, <2>1, <2>2, <2>3, <2>4, <2>5 DEF IInv, TypeOK, SourceItem, clientVars
<1>2. Conservation'
  BY <1>0, Numbers DEF IInv, Conservation, Consumed, Ends, NoLostWakeup, SourceItem,
  Full, Stopped, IsStalled, ReadOn, Pause, clientVars, Over, OverWith, KeepsEnd
<1>3. NoLostWakeup'
  BY <1>0 DEF IInv, TypeOK, NoLostWakeup, Ends, SourceItem, Full, Stopped, IsStalled,
  ReadOn, Pause, clientVars, Over, OverWith, KeepsEnd
<1>4. PausedIsOwed'
  BY <1>0, StreamAssumption DEF IInv, TypeOK, PausedIsOwed, Gap, Ends, Streaming,
  Stopped, Channel, Posted, NoTimer, SourceItem, Full, IsStalled, ReadOn, Pause,
  clientVars, Over, OverWith, KeepsEnd
<1>5. GapBounded'
  BY <1>0, StreamAssumption DEF IInv, TypeOK, GapBounded, Gap, ReadingGap, Streaming,
  Stopped, Channel, SourceItem, Full, IsStalled, ReadOn, Pause, clientVars, Over,
  OverWith, KeepsEnd
<1>6. Ends'
  BY <1>0 DEF IInv, TypeOK, Ends, NoLostWakeup, Streaming, Stopped, Conservation,
  Consumed, SourceItem, Full, IsStalled, ReadOn, Pause, clientVars, Over, OverWith,
  KeepsEnd
<1>7. Streaming'
  <2>1. CASE pc' = "over"
    BY <1>0, <2>1, StreamAssumption DEF IInv, TypeOK, Streaming, Stopped, Ends, NoTimer,
    SourceItem, Full, IsStalled, ReadOn, Pause, clientVars, Over, OverWith, KeepsEnd
  <2>2. CASE pc' = "paused"
    BY <1>0, <2>2, StreamAssumption DEF IInv, TypeOK, Streaming, Stopped, Ends, NoTimer,
    SourceItem, Full, IsStalled, ReadOn, Pause, clientVars, Over, OverWith, KeepsEnd
  <2>3. CASE pc' = "reading"
    BY <1>0, <2>3, StreamAssumption DEF IInv, TypeOK, Streaming, Stopped, Ends, NoTimer,
    SourceItem, Full, IsStalled, ReadOn, Pause, clientVars, Over, OverWith, KeepsEnd
  <2> QED
    BY <1>0, <2>1, <2>2, <2>3 DEF SourceItem, Over, OverWith, ReadOn, Pause
<1>8. Channel'
  BY <1>0 DEF IInv, TypeOK, Channel, Ends, Streaming, Stopped, Conservation, Consumed,
  Posted, SourceItem, Full, IsStalled, ReadOn, Pause, clientVars, Over, OverWith,
  KeepsEnd
<1>9. ReadingGap'
  <2>1. CASE pc' = "over"
    BY <1>0, <2>1, StreamAssumption DEF IInv, TypeOK, GapBounded, Gap, ReadingGap,
    Streaming, Stopped, Channel, SourceItem, Full, IsStalled, ReadOn, Pause, clientVars,
    Over, OverWith, KeepsEnd
  <2>2. CASE pc' = "paused"
    BY <1>0, <2>2, StreamAssumption DEF IInv, TypeOK, GapBounded, Gap, ReadingGap,
    Streaming, Stopped, Channel, SourceItem, Full, IsStalled, ReadOn, Pause, clientVars,
    Over, OverWith, KeepsEnd
  <2>3. CASE pc' = "reading"
    BY <1>0, <2>3, StreamAssumption DEF IInv, TypeOK, GapBounded, Gap, ReadingGap,
    Streaming, Stopped, Channel, SourceItem, Full, IsStalled, ReadOn, Pause, clientVars,
    Over, OverWith, KeepsEnd
  <2> QED
    BY <1>0, <2>1, <2>2, <2>3 DEF SourceItem, Over, OverWith, ReadOn, Pause
<1>10. Silence'
  BY <1>0, StreamAssumption DEF IInv, TypeOK, Silence, Streaming, Stopped, Channel,
  Posted, SourceItem, Full, IsStalled, ReadOn, Pause, clientVars, Over, OverWith,
  KeepsEnd
<1> QED
  BY <1>1, <1>2, <1>3, <1>4, <1>5, <1>6, <1>7, <1>8, <1>9, <1>10 DEF IInv

(* The handler yields its terminal response. *)
LEMMA SourceTerminalStep == IInv /\ SourceTerminal => IInv'
<1>0. SUFFICES ASSUME IInv, SourceTerminal PROVE IInv'
  OBVIOUS
<1>1. TypeOK'
  BY <1>0, StreamAssumption, TimerTypes DEF IInv, TypeOK, SourceTerminal, Stopped,
  clientVars, Over, OverWith, KeepsEnd
<1>2. Conservation'
  BY <1>0, Numbers DEF IInv, Conservation, Consumed, Ends, NoLostWakeup, SourceTerminal,
  Stopped, clientVars, Over, OverWith, KeepsEnd
<1>3. NoLostWakeup'
  BY <1>0 DEF IInv, TypeOK, NoLostWakeup, Ends, SourceTerminal, Stopped, clientVars,
  Over, OverWith, KeepsEnd
<1>4. PausedIsOwed'
  BY <1>0, StreamAssumption DEF IInv, TypeOK, PausedIsOwed, Gap, Ends, Streaming,
  Stopped, Channel, Posted, NoTimer, SourceTerminal, clientVars, Over, OverWith,
  KeepsEnd
<1>5. GapBounded'
  BY <1>0, StreamAssumption DEF IInv, TypeOK, GapBounded, Gap, ReadingGap, Streaming,
  Stopped, Channel, SourceTerminal, clientVars, Over, OverWith, KeepsEnd
<1>6. Ends'
  BY <1>0 DEF IInv, TypeOK, Ends, NoLostWakeup, Streaming, Stopped, Conservation,
  Consumed, SourceTerminal, clientVars, Over, OverWith, KeepsEnd
<1>7. Streaming'
  BY <1>0, StreamAssumption DEF IInv, TypeOK, Streaming, Stopped, Ends, NoTimer,
  SourceTerminal, clientVars, Over, OverWith, KeepsEnd
<1>8. Channel'
  BY <1>0 DEF IInv, TypeOK, Channel, Ends, Streaming, Stopped, Conservation, Consumed,
  Posted, SourceTerminal, clientVars, Over, OverWith, KeepsEnd
<1>9. ReadingGap'
  BY <1>0, StreamAssumption DEF IInv, TypeOK, GapBounded, Gap, ReadingGap, Streaming,
  Stopped, Channel, SourceTerminal, clientVars, Over, OverWith, KeepsEnd
<1>10. Silence'
  BY <1>0, StreamAssumption DEF IInv, TypeOK, Silence, Streaming, Stopped, Channel,
  Posted, SourceTerminal, clientVars, Over, OverWith, KeepsEnd
<1> QED
  BY <1>1, <1>2, <1>3, <1>4, <1>5, <1>6, <1>7, <1>8, <1>9, <1>10 DEF IInv

(* The handler throws. *)
LEMMA SourceThrowsStep == IInv /\ SourceThrows => IInv'
<1>0. SUFFICES ASSUME IInv, SourceThrows PROVE IInv'
  OBVIOUS
<1>1. TypeOK'
  BY <1>0, StreamAssumption, TimerTypes DEF IInv, TypeOK, SourceThrows, clientVars,
  Over, OverWith, KeepsEnd
<1>2. Conservation'
  BY <1>0, Numbers DEF IInv, Conservation, Consumed, Ends, NoLostWakeup, SourceThrows,
  clientVars, Over, OverWith, KeepsEnd
<1>3. NoLostWakeup'
  BY <1>0 DEF IInv, TypeOK, NoLostWakeup, Ends, SourceThrows, clientVars, Over,
  OverWith, KeepsEnd
<1>4. PausedIsOwed'
  BY <1>0, StreamAssumption DEF IInv, TypeOK, PausedIsOwed, Gap, Ends, Streaming,
  Stopped, Channel, Posted, NoTimer, SourceThrows, clientVars, Over, OverWith, KeepsEnd
<1>5. GapBounded'
  BY <1>0, StreamAssumption DEF IInv, TypeOK, GapBounded, Gap, ReadingGap, Streaming,
  Stopped, Channel, SourceThrows, clientVars, Over, OverWith, KeepsEnd
<1>6. Ends'
  BY <1>0 DEF IInv, TypeOK, Ends, NoLostWakeup, Streaming, Stopped, Conservation,
  Consumed, SourceThrows, clientVars, Over, OverWith, KeepsEnd
<1>7. Streaming'
  BY <1>0, StreamAssumption DEF IInv, TypeOK, Streaming, Stopped, Ends, NoTimer,
  SourceThrows, clientVars, Over, OverWith, KeepsEnd
<1>8. Channel'
  BY <1>0 DEF IInv, TypeOK, Channel, Ends, Streaming, Stopped, Conservation, Consumed,
  Posted, SourceThrows, clientVars, Over, OverWith, KeepsEnd
<1>9. ReadingGap'
  BY <1>0, StreamAssumption DEF IInv, TypeOK, GapBounded, Gap, ReadingGap, Streaming,
  Stopped, Channel, SourceThrows, clientVars, Over, OverWith, KeepsEnd
<1>10. Silence'
  BY <1>0, StreamAssumption DEF IInv, TypeOK, Silence, Streaming, Stopped, Channel,
  Posted, SourceThrows, clientVars, Over, OverWith, KeepsEnd
<1> QED
  BY <1>1, <1>2, <1>3, <1>4, <1>5, <1>6, <1>7, <1>8, <1>9, <1>10 DEF IInv

(* A response nobody wants. *)
LEMMA SwallowStep == IInv /\ Swallow => IInv'
<1>0. SUFFICES ASSUME IInv, Swallow PROVE IInv'
  OBVIOUS
<1>1. TypeOK'
  BY <1>0, StreamAssumption, TimerTypes, ZenonT(60) DEF IInv, TypeOK, Swallow, Stopped, clientVars,
  Over, OverWith, KeepsEnd
<1>2. Conservation'
  BY <1>0, Numbers DEF IInv, Conservation, Consumed, Ends, NoLostWakeup, Swallow,
  Stopped, clientVars, Over, OverWith, KeepsEnd
<1>3. NoLostWakeup'
  BY <1>0 DEF IInv, TypeOK, NoLostWakeup, Ends, Swallow, Stopped, clientVars, Over,
  OverWith, KeepsEnd
<1>4. PausedIsOwed'
  BY <1>0, StreamAssumption DEF IInv, TypeOK, PausedIsOwed, Gap, Ends, Streaming,
  Stopped, Channel, Posted, NoTimer, Swallow, clientVars, Over, OverWith, KeepsEnd
<1>5. GapBounded'
  BY <1>0, StreamAssumption DEF IInv, TypeOK, GapBounded, Gap, ReadingGap, Streaming,
  Stopped, Channel, Swallow, clientVars, Over, OverWith, KeepsEnd
<1>6. Ends'
  BY <1>0 DEF IInv, TypeOK, Ends, NoLostWakeup, Streaming, Stopped, Conservation,
  Consumed, Swallow, clientVars, Over, OverWith, KeepsEnd
<1>7. Streaming'
  BY <1>0, StreamAssumption DEF IInv, TypeOK, Streaming, Stopped, Ends, NoTimer,
  Swallow, clientVars, Over, OverWith, KeepsEnd
<1>8. Channel'
  BY <1>0 DEF IInv, TypeOK, Channel, Ends, Streaming, Stopped, Conservation, Consumed,
  Posted, Swallow, clientVars, Over, OverWith, KeepsEnd
<1>9. ReadingGap'
  BY <1>0, StreamAssumption DEF IInv, TypeOK, GapBounded, Gap, ReadingGap, Streaming,
  Stopped, Channel, Swallow, clientVars, Over, OverWith, KeepsEnd
<1>10. Silence'
  BY <1>0, StreamAssumption DEF IInv, TypeOK, Silence, Streaming, Stopped, Channel,
  Posted, Swallow, clientVars, Over, OverWith, KeepsEnd
<1> QED
  BY <1>1, <1>2, <1>3, <1>4, <1>5, <1>6, <1>7, <1>8, <1>9, <1>10 DEF IInv

(* The timer of a pause fires. *)
LEMMA SafetyTimeoutStep == IInv /\ SafetyTimeout => IInv'
<1>0. SUFFICES ASSUME IInv, SafetyTimeout PROVE IInv'
  OBVIOUS
<1>1. TypeOK'
  <2>1. overruns' \in Nat
    BY <1>0, Numbers, Bounds DEF SafetyTimeout, IsStalled, ReadOn, Over, OverWith,
    KeepsEnd
  <2>2. safety' \in NoTimer..StallTicks
    BY <1>0, StreamAssumption, TimerTypes DEF IInv, TypeOK, SafetyTimeout, IsStalled,
    ReadOn, Over, OverWith, KeepsEnd
  <2>3. pc' \in {"none", "reading", "paused", "over"} /\ registered' \in BOOLEAN
    BY <1>0 DEF IInv, TypeOK, SafetyTimeout, IsStalled, ReadOn, Over, OverWith, KeepsEnd
  <2>4. terminal' \in {"none", "done", "error", "ETIMEDOUT"}
    BY <1>0 DEF IInv, TypeOK, SafetyTimeout, IsStalled, ReadOn, Over, OverWith, KeepsEnd
  <2>5. endAt' \in {"kernel", "channel", "queue", "consumer", "dropped"}
    BY <1>0 DEF IInv, TypeOK, SafetyTimeout, IsStalled, ReadOn, Over, OverWith, KeepsEnd
  <2> QED
    BY <1>0, <2>1, <2>2, <2>3, <2>4, <2>5 DEF IInv, TypeOK, SafetyTimeout, clientVars
<1>2. Conservation'
  BY <1>0, Numbers, StreamAssumption DEF IInv, Conservation, Consumed, Ends,
  NoLostWakeup, Streaming, Stopped, SafetyTimeout, IsStalled, ReadOn, clientVars, Over,
  OverWith, KeepsEnd
<1>3. NoLostWakeup'
  BY <1>0 DEF IInv, TypeOK, NoLostWakeup, Ends, SafetyTimeout, IsStalled, ReadOn,
  clientVars, Over, OverWith, KeepsEnd
<1>4. PausedIsOwed'
  BY <1>0, StreamAssumption DEF IInv, TypeOK, PausedIsOwed, Gap, Ends, Streaming,
  Stopped, Channel, Posted, NoTimer, SafetyTimeout, IsStalled, ReadOn, clientVars, Over,
  OverWith, KeepsEnd
<1>5. GapBounded'
  BY <1>0, StreamAssumption DEF IInv, TypeOK, GapBounded, Gap, ReadingGap, Streaming,
  Stopped, Channel, SafetyTimeout, IsStalled, ReadOn, clientVars, Over, OverWith,
  KeepsEnd
<1>6. Ends'
  BY <1>0 DEF IInv, TypeOK, Ends, NoLostWakeup, Streaming, Stopped, Conservation,
  Consumed, SafetyTimeout, IsStalled, ReadOn, clientVars, Over, OverWith, KeepsEnd
<1>7. Streaming'
  BY <1>0, StreamAssumption DEF IInv, TypeOK, Streaming, Stopped, Ends, NoTimer,
  SafetyTimeout, IsStalled, ReadOn, clientVars, Over, OverWith, KeepsEnd
<1>8. Channel'
  BY <1>0 DEF IInv, TypeOK, Channel, Ends, Streaming, Stopped, Conservation, Consumed,
  Posted, SafetyTimeout, IsStalled, ReadOn, clientVars, Over, OverWith, KeepsEnd
<1>9. ReadingGap'
  BY <1>0, StreamAssumption DEF IInv, TypeOK, GapBounded, Gap, ReadingGap, Streaming,
  Stopped, Channel, SafetyTimeout, IsStalled, ReadOn, clientVars, Over, OverWith,
  KeepsEnd
<1>10. Silence'
  BY <1>0, StreamAssumption DEF IInv, TypeOK, Silence, Streaming, Stopped, Channel,
  Posted, SafetyTimeout, IsStalled, ReadOn, clientVars, Over, OverWith, KeepsEnd
<1> QED
  BY <1>1, <1>2, <1>3, <1>4, <1>5, <1>6, <1>7, <1>8, <1>9, <1>10 DEF IInv

(* A SIGTERM. *)
LEMMA SignalStep == IInv /\ Signal => IInv'
<1>0. SUFFICES ASSUME IInv, Signal PROVE IInv'
  OBVIOUS
<1>1. TypeOK'
  BY <1>0, StreamAssumption, TimerTypes, ZenonT(60) DEF IInv, TypeOK, Signal, clientVars
<1>2. Conservation'
  BY <1>0, Numbers DEF IInv, Conservation, Consumed, Ends, NoLostWakeup, Signal,
  clientVars
<1>3. NoLostWakeup'
  BY <1>0 DEF IInv, TypeOK, NoLostWakeup, Ends, Signal, clientVars
<1>4. PausedIsOwed'
  BY <1>0, StreamAssumption DEF IInv, TypeOK, PausedIsOwed, Gap, Ends, Streaming,
  Stopped, Channel, Posted, NoTimer, Signal, clientVars
<1>5. GapBounded'
  BY <1>0, StreamAssumption DEF IInv, TypeOK, GapBounded, Gap, ReadingGap, Streaming,
  Stopped, Channel, Signal, clientVars
<1>6. Ends'
  BY <1>0 DEF IInv, TypeOK, Ends, NoLostWakeup, Streaming, Stopped, Conservation,
  Consumed, Signal, clientVars
<1>7. Streaming'
  BY <1>0, StreamAssumption DEF IInv, TypeOK, Streaming, Stopped, Ends, NoTimer, Signal,
  clientVars
<1>8. Channel'
  BY <1>0 DEF IInv, TypeOK, Channel, Ends, Streaming, Stopped, Conservation, Consumed,
  Posted, Signal, clientVars
<1>9. ReadingGap'
  BY <1>0, StreamAssumption DEF IInv, TypeOK, GapBounded, Gap, ReadingGap, Streaming,
  Stopped, Channel, Signal, clientVars
<1>10. Silence'
  BY <1>0, StreamAssumption DEF IInv, TypeOK, Silence, Streaming, Stopped, Channel,
  Posted, Signal, clientVars
<1> QED
  BY <1>1, <1>2, <1>3, <1>4, <1>5, <1>6, <1>7, <1>8, <1>9, <1>10 DEF IInv

(* exit(). *)
LEMMA ExitStep == IInv /\ Exit => IInv'
<1>0. SUFFICES ASSUME IInv, Exit PROVE IInv'
  OBVIOUS
<1>1. TypeOK'
  BY <1>0, StreamAssumption, TimerTypes DEF IInv, TypeOK, Exit, clientVars
<1>2. Conservation'
  BY <1>0, Numbers DEF IInv, Conservation, Consumed, Ends, NoLostWakeup, Exit,
  clientVars
<1>3. NoLostWakeup'
  BY <1>0 DEF IInv, TypeOK, NoLostWakeup, Ends, Exit, clientVars
<1>4. PausedIsOwed'
  BY <1>0, StreamAssumption DEF IInv, TypeOK, PausedIsOwed, Gap, Ends, Streaming,
  Stopped, Channel, Posted, NoTimer, Exit, clientVars
<1>5. GapBounded'
  BY <1>0, StreamAssumption DEF IInv, TypeOK, GapBounded, Gap, ReadingGap, Streaming,
  Stopped, Channel, Exit, clientVars
<1>6. Ends'
  BY <1>0 DEF IInv, TypeOK, Ends, NoLostWakeup, Streaming, Stopped, Conservation,
  Consumed, Exit, clientVars
<1>7. Streaming'
  BY <1>0, StreamAssumption DEF IInv, TypeOK, Streaming, Stopped, Ends, NoTimer, Exit,
  clientVars
<1>8. Channel'
  BY <1>0 DEF IInv, TypeOK, Channel, Ends, Streaming, Stopped, Conservation, Consumed,
  Posted, Exit, clientVars
<1>9. ReadingGap'
  BY <1>0, StreamAssumption DEF IInv, TypeOK, GapBounded, Gap, ReadingGap, Streaming,
  Stopped, Channel, Exit, clientVars
<1>10. Silence'
  BY <1>0, StreamAssumption DEF IInv, TypeOK, Silence, Streaming, Stopped, Channel,
  Posted, Exit, clientVars
<1> QED
  BY <1>1, <1>2, <1>3, <1>4, <1>5, <1>6, <1>7, <1>8, <1>9, <1>10 DEF IInv

(* forceExit(). *)
LEMMA ForceExitStep == IInv /\ ForceExit => IInv'
<1>0. SUFFICES ASSUME IInv, ForceExit PROVE IInv'
  OBVIOUS
<1>1. TypeOK'
  BY <1>0, StreamAssumption, TimerTypes, ZenonT(60) DEF IInv, TypeOK, ForceExit, clientVars
<1>2. Conservation'
  BY <1>0, Numbers DEF IInv, Conservation, Consumed, Ends, NoLostWakeup, ForceExit,
  clientVars
<1>3. NoLostWakeup'
  BY <1>0 DEF IInv, TypeOK, NoLostWakeup, Ends, ForceExit, clientVars
<1>4. PausedIsOwed'
  BY <1>0, StreamAssumption DEF IInv, TypeOK, PausedIsOwed, Gap, Ends, Streaming,
  Stopped, Channel, Posted, NoTimer, ForceExit, clientVars
<1>5. GapBounded'
  BY <1>0, StreamAssumption DEF IInv, TypeOK, GapBounded, Gap, ReadingGap, Streaming,
  Stopped, Channel, ForceExit, clientVars
<1>6. Ends'
  BY <1>0 DEF IInv, TypeOK, Ends, NoLostWakeup, Streaming, Stopped, Conservation,
  Consumed, ForceExit, clientVars
<1>7. Streaming'
  BY <1>0, StreamAssumption DEF IInv, TypeOK, Streaming, Stopped, Ends, NoTimer,
  ForceExit, clientVars
<1>8. Channel'
  BY <1>0 DEF IInv, TypeOK, Channel, Ends, Streaming, Stopped, Conservation, Consumed,
  Posted, ForceExit, clientVars
<1>9. ReadingGap'
  BY <1>0, StreamAssumption DEF IInv, TypeOK, GapBounded, Gap, ReadingGap, Streaming,
  Stopped, Channel, ForceExit, clientVars
<1>10. Silence'
  BY <1>0, StreamAssumption DEF IInv, TypeOK, Silence, Streaming, Stopped, Channel,
  Posted, ForceExit, clientVars
<1> QED
  BY <1>1, <1>2, <1>3, <1>4, <1>5, <1>6, <1>7, <1>8, <1>9, <1>10 DEF IInv

(* An item arrives. *)
LEMMA DeliverItemStep == IInv /\ DeliverItem => IInv'
<1>0. SUFFICES ASSUME IInv, DeliverItem PROVE IInv'
  OBVIOUS
<1>1. TypeOK'
  <2>1. inFlight' \in 0..MaxItems /\ queued' \in 0..MaxItems /\ processed' \in 0..(MaxItems + 1)
    BY <1>0, Numbers, Bounds DEF DeliverItem
  <2> QED
    BY <1>0, <2>1 DEF IInv, TypeOK, DeliverItem, kernelVars
<1>2. Conservation'
  <2>1. CASE ~entry
    BY <1>0, <2>1, Numbers DEF IInv, Conservation, Consumed, Ends, NoLostWakeup,
    DeliverItem, kernelVars
  <2>2. CASE entry /\ loop = "waiting"
    BY <1>0, <2>2, Numbers DEF IInv, Conservation, Consumed, Ends, NoLostWakeup,
    DeliverItem, kernelVars
  <2>3. CASE entry /\ loop # "waiting"
    BY <1>0, <2>3, Numbers DEF IInv, Conservation, Consumed, Ends, NoLostWakeup,
    DeliverItem, kernelVars
  <2> QED
    BY <2>1, <2>2, <2>3
<1>3. NoLostWakeup'
  BY <1>0 DEF IInv, TypeOK, NoLostWakeup, Ends, DeliverItem, kernelVars
<1>4. PausedIsOwed'
  BY <1>0, StreamAssumption DEF IInv, TypeOK, PausedIsOwed, Gap, Ends, Streaming,
  Stopped, Channel, Posted, NoTimer, DeliverItem, kernelVars
<1>5. GapBounded'
  BY <1>0, StreamAssumption DEF IInv, TypeOK, GapBounded, Gap, ReadingGap, Streaming,
  Stopped, Channel, DeliverItem, kernelVars
<1>6. Ends'
  BY <1>0 DEF IInv, TypeOK, Ends, NoLostWakeup, Streaming, Stopped, Conservation,
  Consumed, DeliverItem, kernelVars
<1>7. Streaming'
  BY <1>0, StreamAssumption DEF IInv, TypeOK, Streaming, Stopped, Ends, NoTimer,
  DeliverItem, kernelVars
<1>8. Channel'
  BY <1>0 DEF IInv, TypeOK, Channel, Ends, Streaming, Stopped, Conservation, Consumed,
  Posted, DeliverItem, kernelVars
<1>9. ReadingGap'
  BY <1>0, StreamAssumption DEF IInv, TypeOK, GapBounded, Gap, ReadingGap, Streaming,
  Stopped, Channel, DeliverItem, kernelVars
<1>10. Silence'
  BY <1>0, StreamAssumption DEF IInv, TypeOK, Silence, Streaming, Stopped, Channel,
  Posted, DeliverItem, kernelVars
<1> QED
  BY <1>1, <1>2, <1>3, <1>4, <1>5, <1>6, <1>7, <1>8, <1>9, <1>10 DEF IInv

(* The terminal response arrives. *)
LEMMA DeliverTerminalStep == IInv /\ DeliverTerminal => IInv'
<1>0. SUFFICES ASSUME IInv, DeliverTerminal PROVE IInv'
  OBVIOUS
<1>1. TypeOK'
  <2>1. processed' \in 0..(MaxItems + 1)
    BY <1>0, Numbers, Bounds DEF DeliverTerminal
  <2> QED
    BY <1>0, <2>1, ZenonT(60) DEF IInv, TypeOK, DeliverTerminal, kernelVars
<1>2. Conservation'
  BY <1>0, Numbers DEF IInv, Conservation, Consumed, Ends, NoLostWakeup,
  DeliverTerminal, kernelVars
<1>3. NoLostWakeup'
  BY <1>0 DEF IInv, TypeOK, NoLostWakeup, Ends, DeliverTerminal, kernelVars
<1>4. PausedIsOwed'
  BY <1>0, StreamAssumption DEF IInv, TypeOK, PausedIsOwed, Gap, Ends, Streaming,
  Stopped, Channel, Posted, NoTimer, DeliverTerminal, kernelVars
<1>5. GapBounded'
  BY <1>0, StreamAssumption DEF IInv, TypeOK, GapBounded, Gap, ReadingGap, Streaming,
  Stopped, Channel, DeliverTerminal, kernelVars
<1>6. Ends'
  BY <1>0 DEF IInv, TypeOK, Ends, NoLostWakeup, Streaming, Stopped, Conservation,
  Consumed, DeliverTerminal, kernelVars
<1>7. Streaming'
  BY <1>0, StreamAssumption DEF IInv, TypeOK, Streaming, Stopped, Ends, NoTimer,
  DeliverTerminal, kernelVars
<1>8. Channel'
  BY <1>0 DEF IInv, TypeOK, Channel, Ends, Streaming, Stopped, Conservation, Consumed,
  Posted, DeliverTerminal, kernelVars
<1>9. ReadingGap'
  BY <1>0, StreamAssumption DEF IInv, TypeOK, GapBounded, Gap, ReadingGap, Streaming,
  Stopped, Channel, DeliverTerminal, kernelVars
<1>10. Silence'
  BY <1>0, StreamAssumption DEF IInv, TypeOK, Silence, Streaming, Stopped, Channel,
  Posted, DeliverTerminal, kernelVars
<1> QED
  BY <1>1, <1>2, <1>3, <1>4, <1>5, <1>6, <1>7, <1>8, <1>9, <1>10 DEF IInv

(* The caller asks for the next item. *)
LEMMA AskNextStep == IInv /\ AskNext => IInv'
<1>0. SUFFICES ASSUME IInv, AskNext PROVE IInv'
  OBVIOUS
<1>1. TypeOK'
  <2>1. queued' \in 0..MaxItems /\ processed' \in 0..(MaxItems + 1)
    BY <1>0, Numbers, Bounds DEF AskNext, NextItem, NextTerminal, NextDone, NextWaits
  <2>2. loop' \in {"start", "body", "waiting", "left"} /\ entry' \in BOOLEAN /\ pinging' \in BOOLEAN
    BY <1>0 DEF IInv, TypeOK, AskNext, NextItem, NextTerminal, NextDone, NextWaits
  <2>3. endAt' \in {"kernel", "channel", "queue", "consumer", "dropped"}
    BY <1>0 DEF IInv, TypeOK, AskNext, NextItem, NextTerminal, NextDone, NextWaits
  <2> QED
    BY <1>0, <2>1, <2>2, <2>3 DEF IInv, TypeOK, AskNext, kernelVars
<1>2. Conservation'
  <2>1. CASE NextItem
    BY <1>0, <2>1, Numbers DEF IInv, Conservation, Consumed, Ends, NoLostWakeup,
    AskNext, NextItem, NextTerminal, NextDone, NextWaits, kernelVars
  <2>2. CASE NextTerminal
    BY <1>0, <2>2, Numbers DEF IInv, Conservation, Consumed, Ends, NoLostWakeup,
    AskNext, NextItem, NextTerminal, NextDone, NextWaits, kernelVars
  <2>3. CASE NextDone
    BY <1>0, <2>3, Numbers DEF IInv, Conservation, Consumed, Ends, NoLostWakeup,
    AskNext, NextItem, NextTerminal, NextDone, NextWaits, kernelVars
  <2>4. CASE NextWaits
    BY <1>0, <2>4, Numbers DEF IInv, Conservation, Consumed, Ends, NoLostWakeup,
    AskNext, NextItem, NextTerminal, NextDone, NextWaits, kernelVars
  <2> QED
    BY <1>0, <2>1, <2>2, <2>3, <2>4 DEF AskNext
<1>3. NoLostWakeup'
  BY <1>0 DEF IInv, TypeOK, NoLostWakeup, Ends, AskNext, NextItem, NextTerminal,
  NextDone, NextWaits, kernelVars
<1>4. PausedIsOwed'
  BY <1>0, StreamAssumption DEF IInv, TypeOK, PausedIsOwed, Gap, Ends, Streaming,
  Stopped, Channel, Posted, NoTimer, AskNext, NextItem, NextTerminal, NextDone,
  NextWaits, kernelVars
<1>5. GapBounded'
  BY <1>0, StreamAssumption DEF IInv, TypeOK, GapBounded, Gap, ReadingGap, Streaming,
  Stopped, Channel, AskNext, NextItem, NextTerminal, NextDone, NextWaits, kernelVars
<1>6. Ends'
  BY <1>0 DEF IInv, TypeOK, Ends, NoLostWakeup, Streaming, Stopped, Conservation,
  Consumed, AskNext, NextItem, NextTerminal, NextDone, NextWaits, kernelVars
<1>7. Streaming'
  BY <1>0, StreamAssumption DEF IInv, TypeOK, Streaming, Stopped, Ends, NoTimer,
  AskNext, NextItem, NextTerminal, NextDone, NextWaits, kernelVars
<1>8. Channel'
  BY <1>0 DEF IInv, TypeOK, Channel, Ends, Streaming, Stopped, Conservation, Consumed,
  Posted, AskNext, NextItem, NextTerminal, NextDone, NextWaits, kernelVars
<1>9. ReadingGap'
  BY <1>0, StreamAssumption DEF IInv, TypeOK, GapBounded, Gap, ReadingGap, Streaming,
  Stopped, Channel, AskNext, NextItem, NextTerminal, NextDone, NextWaits, kernelVars
<1>10. Silence'
  BY <1>0, StreamAssumption DEF IInv, TypeOK, Silence, Streaming, Stopped, Channel,
  Posted, AskNext, NextItem, NextTerminal, NextDone, NextWaits, kernelVars
<1> QED
  BY <1>1, <1>2, <1>3, <1>4, <1>5, <1>6, <1>7, <1>8, <1>9, <1>10 DEF IInv

(* Time passes. *)
LEMMA TickStep == IInv /\ Tick => IInv'
<1>0. SUFFICES ASSUME IInv, Tick PROVE IInv'
  OBVIOUS
<1>1. TypeOK'
  BY <1>0, StreamAssumption, TimerTypes DEF IInv, TypeOK, NoTimer, Tick, Older
<1>2. Conservation'
  BY <1>0, Numbers DEF IInv, Conservation, Consumed, Ends, NoLostWakeup, Tick, Older
<1>3. NoLostWakeup'
  BY <1>0 DEF IInv, TypeOK, NoLostWakeup, Ends, Tick, Older
<1>4. PausedIsOwed'
  BY <1>0, StreamAssumption DEF IInv, TypeOK, PausedIsOwed, Gap, Ends, Streaming,
  Stopped, Channel, Posted, NoTimer, Tick, Older
<1>5. GapBounded'
  BY <1>0, StreamAssumption DEF IInv, TypeOK, GapBounded, Gap, ReadingGap, Streaming,
  Stopped, Channel, Tick, Older
<1>6. Ends'
  BY <1>0 DEF IInv, TypeOK, Ends, NoLostWakeup, Streaming, Stopped, Conservation,
  Consumed, Tick, Older
<1>7. Streaming'
  BY <1>0, StreamAssumption DEF IInv, TypeOK, Streaming, Stopped, Ends, NoTimer, Tick,
  Older
<1>8. Channel'
  BY <1>0 DEF IInv, TypeOK, Channel, Ends, Streaming, Stopped, Conservation, Consumed,
  Posted, Tick, Older
<1>9. ReadingGap'
  BY <1>0, StreamAssumption DEF IInv, TypeOK, GapBounded, Gap, ReadingGap, Streaming,
  Stopped, Channel, Tick, Older
<1>10. Silence'
  BY <1>0, StreamAssumption DEF IInv, TypeOK, Silence, Streaming, Stopped, Channel,
  Posted, Tick, Older
<1> QED
  BY <1>1, <1>2, <1>3, <1>4, <1>5, <1>6, <1>7, <1>8, <1>9, <1>10 DEF IInv


-----------------------------------------------------------------------------
(* The actions that post to the kernel or take a message from it.          *)

(* A post at the end of up leaves the messages before it where they were.  *)
LEMMA Posting ==
  ASSUME IInv, NEW m \in Message, up' = Append(up, m)
  PROVE  /\ up' \in Seq(Message) /\ Len(up') = Len(up) + 1 /\ Len(up) \in Nat
         /\ DOMAIN up = 1..Len(up) /\ DOMAIN up' = 1..(Len(up) + 1)
         /\ \A i \in 1..Len(up) : up'[i] = up[i]
         /\ up'[Len(up) + 1] = m
  BY DEF IInv, TypeOK

(* The rest after a message has been taken.                                *)
LEMMA Taking ==
  ASSUME IInv, up # <<>>, up' = Tail(up)
  PROVE  /\ up' \in Seq(Message) /\ Len(up') = Len(up) - 1 /\ Len(up) \in Nat \ {0}
         /\ DOMAIN up = 1..Len(up) /\ DOMAIN up' = 1..(Len(up) - 1)
         /\ \A i \in 1..(Len(up) - 1) : up'[i] = up[i + 1]
         /\ Head(up) = up[1] /\ Head(up) \in Message
  BY DEF IInv, TypeOK

(* The caller posts its request.                                           *)
LEMMA CallStep == IInv /\ Call => IInv'
<1>0. SUFFICES ASSUME IInv, Call PROVE IInv'
  OBVIOUS
<1>a. Request \in Message /\ Request.type = "request" /\ Request.processed = 0
  BY StreamAssumption DEF Request, Message
<1>b. up = <<>> /\ pc = "none" /\ itemsSent = 0 /\ ~entry /\ endAt = "kernel"
  BY <1>0 DEF IInv, Channel, Streaming, Ends, Call
<1>c. /\ up' \in Seq(Message) /\ DOMAIN up' = {1} /\ up'[1] = Request
  BY <1>0, <1>a, <1>b DEF Call
<1>1. TypeOK'
  BY <1>0, <1>c DEF IInv, TypeOK, Call, kernelVars
<1>2. Conservation'
  BY <1>0, <1>a, <1>b, <1>c, Numbers DEF IInv, Conservation, Consumed, Call, kernelVars
<1>3. NoLostWakeup' /\ PausedIsOwed' /\ GapBounded' /\ ReadingGap'
  BY <1>0, <1>b DEF IInv, NoLostWakeup, PausedIsOwed, GapBounded, ReadingGap, Gap, Call, kernelVars
<1>4. Ends'
  BY <1>0, <1>b DEF IInv, Ends, Call, kernelVars
<1>5. Streaming'
  BY <1>0 DEF IInv, Streaming, Stopped, Call, kernelVars
<1>6. Channel'
  BY <1>0, <1>a, <1>b, <1>c DEF IInv, Channel, Posted, Call, kernelVars
<1>7. Silence'
  BY <1>0, <1>b DEF IInv, Silence, Streaming, Call, kernelVars
<1> QED
  BY <1>1, <1>2, <1>3, <1>4, <1>5, <1>6, <1>7 DEF IInv

(* The caller leaves and posts its cancel.                                 *)
LEMMA LeaveStep == IInv /\ Leave => IInv'
<1>0. SUFFICES ASSUME IInv, Leave PROVE IInv'
  OBVIOUS
<1>a. Cancel \in Message /\ Cancel.type = "cancel" /\ Cancel.processed = 0
  BY StreamAssumption DEF Cancel, Message
<1>b. /\ up' \in Seq(Message) /\ Len(up) \in Nat
      /\ DOMAIN up = 1..Len(up) /\ DOMAIN up' = 1..(Len(up) + 1)
      /\ \A i \in 1..Len(up) : up'[i] = up[i]
      /\ up'[Len(up) + 1] = Cancel
  BY <1>0, <1>a, Posting DEF Leave
<1>1. TypeOK'
  BY <1>0, <1>b, ZenonT(60) DEF IInv, TypeOK, Leave, kernelVars
<1>2. Conservation'
  <2>1. (\A i \in DOMAIN up : up[i].processed <= Consumed)'
    BY <1>0, <1>a, <1>b, Numbers DEF IInv, Conservation, Consumed, Leave
  <2> QED
    BY <1>0, <2>1 DEF IInv, Conservation, Consumed, Leave, kernelVars
<1>3. NoLostWakeup' /\ GapBounded' /\ ReadingGap'
  BY <1>0 DEF IInv, NoLostWakeup, GapBounded, ReadingGap, Gap, Leave, kernelVars
<1>c. Posted("cancel")'
  BY <1>a, <1>b DEF Posted
<1>4. PausedIsOwed'
  BY <1>0, <1>c DEF IInv, PausedIsOwed, Gap, Leave, kernelVars
<1>5. Ends'
  BY <1>0 DEF IInv, Ends, Leave, kernelVars
<1>6. Streaming'
  BY <1>0 DEF IInv, Streaming, Stopped, Leave, kernelVars
<1>7. Channel'
  BY <1>0, <1>a, <1>b, <1>c DEF IInv, Channel, Leave, kernelVars
<1>8. Silence'
  BY <1>0, <1>a, <1>b DEF IInv, Silence, Posted, Leave, kernelVars
<1> QED
  BY <1>1, <1>2, <1>3, <1>4, <1>5, <1>6, <1>7, <1>8 DEF IInv

(* The client's timer posts a ping, or there is nothing to acknowledge.    *)
LEMMA PingStep == IInv /\ Ping => IInv'
<1>0. SUFFICES ASSUME IInv, Ping PROVE IInv'
  OBVIOUS
<1>1. CASE processed = 0
  <2>0. UNCHANGED <<kernelVars, inFlight, up, endAt, terminal, loop, entry, queued, processed,
                   pinging, silent>>
    BY <1>0, <1>1, Numbers DEF Ping
  <2>a. pingDue' \in BOOLEAN
    BY <1>0 DEF Ping
  <2>1. TypeOK'
    BY <1>0, <2>0, <2>a DEF IInv, TypeOK, kernelVars
  <2>2. Conservation' /\ NoLostWakeup' /\ PausedIsOwed' /\ GapBounded' /\ ReadingGap'
    BY <1>0, <2>0 DEF IInv, Conservation, Consumed, NoLostWakeup, PausedIsOwed, Posted,
                      GapBounded, ReadingGap, Gap, kernelVars
  <2>3. Ends' /\ Streaming' /\ Channel' /\ Silence'
    BY <1>0, <2>0 DEF IInv, Ends, Streaming, Stopped, Channel, Silence, Posted, kernelVars
  <2> QED
    BY <2>1, <2>2, <2>3 DEF IInv
<1>2. CASE processed > 0
  <2>a. entry /\ endAt \in {"kernel", "channel"} /\ Consumed = processed
    BY <1>0 DEF IInv, Ends, Ping, Consumed
  <2>b. PingOf(processed) \in Message
    BY <1>0, <2>a, Numbers DEF IInv, Conservation, PingOf, Message
  <2>c. PingOf(processed).type = "ping" /\ PingOf(processed).processed = processed
    BY DEF PingOf
  <2>d. /\ up' = Append(up, PingOf(processed)) /\ silent' = 0 /\ pingDue' \in BOOLEAN
        /\ UNCHANGED <<kernelVars, inFlight, endAt, terminal, loop, entry, queued,
                       processed, pinging>>
    BY <1>0, <1>2 DEF Ping
  <2>e. /\ up' \in Seq(Message) /\ Len(up) \in Nat
        /\ DOMAIN up = 1..Len(up) /\ DOMAIN up' = 1..(Len(up) + 1)
        /\ \A i \in 1..Len(up) : up'[i] = up[i]
        /\ up'[Len(up) + 1] = PingOf(processed)
    BY <1>0, <2>b, <2>d, Posting
  <2>f. \A type \in {"request", "cancel"} : Posted(type)' <=> Posted(type)
    BY <2>c, <2>e DEF Posted
  <2>g. Posted("ping")'
    BY <2>c, <2>e DEF Posted
  <2>1. TypeOK'
    BY <1>0, <2>d, <2>e, StreamAssumption DEF IInv, TypeOK, kernelVars
  <2>2. Conservation'
    BY <1>0, <2>a, <2>c, <2>d, <2>e, Numbers DEF IInv, Conservation, Consumed, kernelVars
  <2>3. NoLostWakeup' /\ GapBounded' /\ ReadingGap'
    BY <1>0, <2>d DEF IInv, NoLostWakeup, GapBounded, ReadingGap, Gap, kernelVars
  <2>4. PausedIsOwed'
    BY <1>0, <2>d, <2>f DEF IInv, PausedIsOwed, Gap, kernelVars
  <2>5. Ends' /\ Streaming'
    BY <1>0, <2>d DEF IInv, Ends, Streaming, Stopped, kernelVars
  <2>6. Channel'
    <3>1. (loop = "start")' => (pc = "none" /\ up = <<>>)'
      BY <1>0, <2>a, <2>d DEF IInv, Ends
    <3>2. (\A i \in DOMAIN up : up[i].type = "request" => i = 1 /\ pc = "none")'
      BY <1>0, <2>c, <2>d, <2>e DEF IInv, Channel, kernelVars
    <3>3. (\A i \in DOMAIN up : up[i].type = "ping" => itemsAcked <= up[i].processed)'
      BY <1>0, <2>a, <2>c, <2>d, <2>e DEF IInv, Channel, Conservation, kernelVars
    <3>4. (\A i, j \in DOMAIN up :
             i < j /\ up[j].type = "ping" => up[i].processed <= up[j].processed)'
      BY <1>0, <2>a, <2>c, <2>e DEF IInv, Channel, Conservation
    <3>5. (proc # "zombie" /\ (registered \/ Posted("request")) => entry \/ Posted("cancel"))'
      BY <1>0, <2>a, <2>d DEF IInv, Channel
    <3> QED
      BY <3>1, <3>2, <3>3, <3>4, <3>5 DEF Channel
  <2>7. Silence'
    BY <2>g DEF Silence
  <2> QED
    BY <2>1, <2>2, <2>3, <2>4, <2>5, <2>6, <2>7 DEF IInv
<1> QED
  BY <1>0, <1>1, <1>2, Numbers

(* The kernel takes a message: the request starts the stream, a cancel ends *)
(* it, a ping counts as far as somebody listens.                            *)
LEMMA ReceiveStep == IInv /\ Receive => IInv'
<1>0. SUFFICES ASSUME IInv, Receive PROVE IInv'
  OBVIOUS
<1>a. /\ up' \in Seq(Message) /\ Len(up) \in Nat \ {0}
      /\ DOMAIN up = 1..Len(up) /\ DOMAIN up' = 1..(Len(up) - 1)
      /\ \A i \in 1..(Len(up) - 1) : up'[i] = up[i + 1]
      /\ Head(up) = up[1] /\ Head(up) \in Message
  BY <1>0, Taking DEF Receive
<1>b. Head(up).processed \in 0..MaxItems
  BY <1>a DEF Message
<1>c. /\ (\A i \in DOMAIN up : up[i].type = "request" => i = 1 /\ pc = "none")
      /\ \A i \in DOMAIN up' : up'[i].type # "request"
  BY <1>0, <1>a DEF IInv, Channel
<1>d. ~Posted("request")'
  BY <1>c DEF Posted
<1>e. UNCHANGED <<proc, itemsSent, overruns, inFlight, endAt, terminal, clientVars>>
  BY <1>0 DEF Receive
<1>f. ASSUME NEW type \in {"ping", "cancel"}, Head(up).type # type
      PROVE  Posted(type)' <=> Posted(type)
  <2>1. ASSUME NEW i \in DOMAIN up, up[i].type = type  PROVE  Posted(type)'
    <3>1. i - 1 \in DOMAIN up' /\ up'[i - 1] = up[i]
      BY <1>a, <1>f, <2>1
    <3> QED
      BY <2>1, <3>1 DEF Posted
  <2>2. ASSUME NEW i \in DOMAIN up', up'[i].type = type  PROVE  Posted(type)
    <3>1. i + 1 \in DOMAIN up /\ up'[i] = up[i + 1]
      BY <1>a
    <3> QED
      BY <2>2, <3>1 DEF Posted
  <2> QED
    BY <2>1, <2>2 DEF Posted
<1>g. (\A i \in DOMAIN up : up[i].processed <= Consumed)'
  BY <1>0, <1>a, <1>e DEF IInv, Conservation, Consumed, clientVars
<1>h. (\A i, j \in DOMAIN up :
         i < j /\ up[j].type = "ping" => up[i].processed <= up[j].processed)'
  <2>1. ASSUME NEW i \in DOMAIN up', NEW j \in DOMAIN up', i < j, up'[j].type = "ping"
        PROVE  up'[i].processed <= up'[j].processed
    <3>1. /\ i + 1 \in DOMAIN up /\ up'[i] = up[i + 1]
          /\ j + 1 \in DOMAIN up /\ up'[j] = up[j + 1] /\ i + 1 < j + 1
      BY <1>a, <2>1
    <3> QED
      BY <1>0, <2>1, <3>1 DEF IInv, Channel
  <2> QED
    BY <2>1
<1>k. \A i \in DOMAIN up' : up'[i].type = "ping" => itemsAcked <= up'[i].processed
  BY <1>0, <1>a DEF IInv, Channel
<1>i. loop # "start"
  BY <1>0 DEF IInv, Channel, Receive
<1>j. NoLostWakeup'
  BY <1>0, <1>e DEF IInv, NoLostWakeup, clientVars
<1>1. CASE proc = "zombie"
  <2>0. UNCHANGED <<pc, itemsAcked, aborted, registered, age, safety>>
    BY <1>0, <1>1 DEF Receive
  <2>1. TypeOK'
    BY <1>0, <1>a, <1>e, <2>0 DEF IInv, TypeOK, clientVars
  <2>2. Conservation'
    BY <1>0, <1>e, <1>g, <2>0 DEF IInv, Conservation, Consumed, clientVars
  <2>3. PausedIsOwed' /\ GapBounded' /\ ReadingGap' /\ Silence'
    BY <1>0, <1>1, <1>e, <2>0 DEF IInv, PausedIsOwed, GapBounded, ReadingGap, Silence, Gap, clientVars
  <2>4. Streaming' /\ Ends'
    BY <1>0, <1>e, <2>0 DEF IInv, Streaming, Stopped, Ends, clientVars
  <2>5. Channel'
    BY <1>1, <1>c, <1>e, <1>h, <1>i, <1>k, <2>0 DEF Channel, clientVars
  <2> QED
    BY <1>j, <2>1, <2>2, <2>3, <2>4, <2>5 DEF IInv
<1>2. CASE proc # "zombie" /\ Head(up).type = "request"
  <2>0. OnRequest /\ pc = "none"
    BY <1>0, <1>2, <1>a, <1>c DEF Receive
  <2>1. TypeOK'
    BY <1>0, <1>a, <1>e, <2>0, StreamAssumption DEF IInv, TypeOK, OnRequest, clientVars
  <2>2. Conservation'
    BY <1>0, <1>e, <1>g, <2>0 DEF IInv, Conservation, Consumed, OnRequest, clientVars
  <2>3. PausedIsOwed' /\ GapBounded' /\ ReadingGap'
    BY <1>0, <1>e, <2>0 DEF IInv, PausedIsOwed, GapBounded, ReadingGap, Gap, OnRequest, clientVars
  <2>4. Silence'
    BY <1>0, <1>e, <2>0, StreamAssumption DEF IInv, TypeOK, Silence, OnRequest, clientVars
  <2>5. Streaming' /\ Ends'
    BY <1>0, <1>e, <2>0 DEF IInv, Streaming, Stopped, Ends, OnRequest, clientVars
  <2>6. Posted("request") /\ (Posted("cancel")' <=> Posted("cancel"))
    BY <1>2, <1>a, <1>f, SMTT(30) DEF Posted
  <2>7. Channel'
    <3>1. itemsAcked' = itemsAcked
      BY <2>0 DEF OnRequest
    <3>2. entry \/ Posted("cancel")
      BY <1>0, <1>2, <2>6 DEF IInv, Channel
    <3> QED
      BY <1>c, <1>d, <1>e, <1>h, <1>i, <1>k, <2>6, <3>1, <3>2 DEF Channel, clientVars
  <2> QED
    BY <1>j, <2>1, <2>2, <2>3, <2>4, <2>5, <2>7 DEF IInv
<1>3. CASE proc # "zombie" /\ Head(up).type = "cancel"
  <2>0. OnCancel
    BY <1>0, <1>3, <1>a DEF Receive
  <2>1. TypeOK'
    <3>1. aborted' \in BOOLEAN /\ registered' \in BOOLEAN
      BY <1>0, <2>0 DEF IInv, TypeOK, OnCancel
    <3>2. UNCHANGED <<pc, itemsAcked, age, safety>>
      BY <2>0 DEF OnCancel
    <3> QED
      BY <1>0, <1>a, <1>e, <3>1, <3>2 DEF IInv, TypeOK, clientVars
  <2>2. Conservation'
    BY <1>0, <1>e, <1>g, <2>0 DEF IInv, Conservation, Consumed, OnCancel, clientVars
  <2>3. PausedIsOwed' /\ GapBounded' /\ ReadingGap' /\ Silence'
    BY <1>0, <1>e, <2>0 DEF IInv, PausedIsOwed, GapBounded, ReadingGap, Silence, Gap, OnCancel,
                            clientVars
  <2>4. Streaming' /\ Ends'
    BY <1>0, <1>e, <2>0 DEF IInv, Streaming, Stopped, Ends, OnCancel, clientVars
  <2>5. Channel'
    BY <1>c, <1>d, <1>e, <1>h, <1>i, <1>k, <2>0 DEF Channel, OnCancel, clientVars
  <2> QED
    BY <1>j, <2>1, <2>2, <2>3, <2>4, <2>5 DEF IInv
<1>4. CASE proc # "zombie" /\ Head(up).type = "ping"
  <2> DEFINE n == Head(up).processed
  <2>0. OnPing(n)
    BY <1>0, <1>4, <1>a DEF Receive
  <2>a. itemsAcked <= n /\ n <= Consumed
    BY <1>0, <1>4, <1>a DEF IInv, Channel, Conservation
  <2>b. n \in 0..MaxItems
    BY <1>b
  <2>c. Posted("cancel")' <=> Posted("cancel")
    BY <1>4, <1>f
  <2>d. \A i \in DOMAIN up' : up'[i].type = "ping" => n <= up'[i].processed
    BY <1>0, <1>a DEF IInv, Channel
  <2> HIDE DEF n
  <2>1. TypeOK'
    <3>1. safety' \in NoTimer..StallTicks /\ age' \in 0..StallTicks
      BY <1>0, <2>0, TimerTypes, StreamAssumption DEF IInv, TypeOK, OnPing
    <3>2. pc' \in {"none", "reading", "paused", "over"} /\ itemsAcked' \in 0..MaxItems
      BY <1>0, <2>0, <2>b DEF IInv, TypeOK, OnPing
    <3>3. aborted' \in BOOLEAN /\ registered' \in BOOLEAN
      BY <1>0, <2>0 DEF IInv, TypeOK, OnPing
    <3> QED
      BY <1>0, <1>a, <1>e, <3>1, <3>2, <3>3 DEF IInv, TypeOK, clientVars
  <2>2. Conservation'
    BY <1>0, <1>e, <1>g, <2>0, <2>a DEF IInv, Conservation, Consumed, OnPing, clientVars
  <2>3. PausedIsOwed'
    BY <1>0, <1>e, <2>0, <2>b, <2>c, Numbers, StreamAssumption
    DEF IInv, PausedIsOwed, Gap, OnPing, clientVars
  <2>4. GapBounded' /\ ReadingGap'
    BY <1>0, <1>e, <2>0, <2>a, <2>b, Numbers, StreamAssumption
    DEF IInv, GapBounded, ReadingGap, Gap, OnPing, clientVars
  <2>5. Streaming' /\ Ends'
    BY <1>0, <1>e, <2>0 DEF IInv, Streaming, Stopped, Ends, NoTimer, OnPing, clientVars
  <2>6. Silence'
    <3>1. registered' => age' = 0
      BY <2>0 DEF OnPing
    <3> QED
      BY <1>0, <1>e, <3>1, StreamAssumption DEF IInv, TypeOK, Silence, clientVars
  <2>7. Channel'
    <3>1. registered' <=> registered
      BY <2>0 DEF OnPing
    <3>2. itemsAcked' = n \/ itemsAcked' = itemsAcked
      BY <2>0 DEF OnPing
    <3>3. proc # "zombie" /\ registered => entry \/ Posted("cancel")
      BY <1>0 DEF IInv, Channel
    <3> QED
      BY <1>c, <1>d, <1>e, <1>h, <1>i, <1>k, <2>c, <2>d, <3>1, <3>2, <3>3 DEF Channel, clientVars
  <2> QED
    BY <1>j, <2>1, <2>2, <2>3, <2>4, <2>5, <2>6, <2>7 DEF IInv
<1> QED
  BY <1>0, <1>1, <1>2, <1>3, <1>4 DEF Receive

-----------------------------------------------------------------------------
(* The theorems.                                                           *)

LEMMA InitIInv == Init => IInv
<1>0. SUFFICES ASSUME Init PROVE IInv
  OBVIOUS
<1>1. TypeOK
  <2>1. 0 \in 0..MaxItems /\ 0 \in 0..StallTicks /\ 0 \in 0..(MaxItems + 1) /\ 0 \in Nat
    BY StreamAssumption
  <2>2. <<>> \in Seq(Message)
    OBVIOUS
  <2> QED
    BY <1>0, <2>1, <2>2, TimerTypes DEF Init, TypeOK
<1>2. Conservation /\ NoLostWakeup /\ PausedIsOwed /\ GapBounded /\ ReadingGap
  BY <1>0, StreamAssumption DEF Init, Conservation, Consumed, NoLostWakeup, PausedIsOwed, GapBounded,
                                ReadingGap, Gap
<1>3. Ends /\ Streaming /\ Channel /\ Silence
  BY <1>0 DEF Init, Ends, Streaming, Stopped, Channel, Posted, Silence, NoTimer
<1> QED
  BY <1>1, <1>2, <1>3 DEF IInv

LEMMA Stutter == IInv /\ UNCHANGED vars => IInv'
<1>0. SUFFICES ASSUME IInv, UNCHANGED vars PROVE IInv'
  OBVIOUS
<1>1. TypeOK' /\ Conservation' /\ NoLostWakeup' /\ PausedIsOwed' /\ GapBounded' /\ ReadingGap'
  BY <1>0 DEF IInv, TypeOK, Conservation, Consumed, NoLostWakeup, PausedIsOwed, Posted, GapBounded,
              ReadingGap, Gap, vars, kernelVars, clientVars
<1>2. Ends' /\ Streaming' /\ Channel' /\ Silence'
  BY <1>0 DEF IInv, Ends, Streaming, Stopped, Channel, Posted, Silence, vars, kernelVars, clientVars
<1> QED
  BY <1>1, <1>2 DEF IInv

LEMMA NextStep == IInv /\ [Next]_vars => IInv'
  BY SourceItemStep, SourceTerminalStep, SourceThrowsStep, SwallowStep, SafetyTimeoutStep,
     ReceiveStep, SignalStep, ExitStep, ForceExitStep, CallStep, DeliverItemStep,
     DeliverTerminalStep, AskNextStep, LeaveStep, PingStep, TickStep, Stutter
  DEF Next, Kernel, Source, Client

(* The inductive invariant of a stream: its types, the conservation of its *)
(* items, and who still owes what to whom.                                 *)
THEOREM StreamInductive == Spec => []IInv
  BY InitIInv, NextStep, PTL DEF Spec

(* Every variable of the stream keeps its type: no queue or channel goes   *)
(* below zero, and no timer past its timeout.                              *)
THEOREM StreamTypes == Spec => []TypeOK
<1>1. IInv => TypeOK
  BY DEF IInv
<1> QED
  BY StreamInductive, <1>1, PTL

(* INV-1 of StreamController, and what it rests on: the client of          *)
(* rom/lib/process/syscall.ts never acknowledges an item it has not read,  *)
(* and the kernel's count is what is on its way or read.                   *)
THEOREM ItemsAreConserved == Spec => []Conservation
<1>1. IInv => Conservation
  BY DEF IInv
<1> QED
  BY StreamInductive, <1>1, PTL

(* handleResponse() and next() never leave a response in the queue and a   *)
(* caller waiting.                                                         *)
THEOREM WakeupsAreKept == Spec => []NoLostWakeup
<1>1. IInv => NoLostWakeup
  BY DEF IInv
<1> QED
  BY StreamInductive, <1>1, PTL

(* A stream that waitForResume() holds is behind by more than the low-water *)
(* mark, has its timer, and a client that will be heard or has left.        *)
THEOREM PausesAreOwed == Spec => []PausedIsOwed
<1>1. IInv => PausedIsOwed
  BY DEF IInv
<1> QED
  BY StreamInductive, <1>1, PTL

(* What wrap() sends ahead of the acknowledgements is bounded by the        *)
(* high-water mark and the pauses its safety timer has ended.               *)
THEOREM GapIsBounded == Spec => []GapBounded
<1>1. IInv => GapBounded
  BY DEF IInv
<1> QED
  BY StreamInductive, <1>1, PTL

(* isStalled() of a live process's stream is never true of a client whose   *)
(* last ping is younger than the stall timeout.                             *)
THEOREM OnlyTheSilentStall == Spec => StallOnlyWhenSilent
<1> DEFINE P == terminal' = "ETIMEDOUT" /\ terminal = "none" /\ proc # "zombie"
                  => silent = StallTicks \/ Posted("ping")
<1>1. ASSUME IInv, Next, terminal' = "ETIMEDOUT", terminal = "none", proc # "zombie"
      PROVE  silent = StallTicks \/ Posted("ping")
  <2>1. ASSUME IsStalled, ~Stopped, pc \in {"reading", "paused"}
        PROVE  silent = StallTicks \/ Posted("ping")
    <3>1. registered
      BY <1>1, <2>1 DEF IInv, Streaming
    <3> QED
      BY <1>1, <2>1, <3>1, StreamAssumption DEF IInv, TypeOK, Silence, IsStalled
  <2>2. CASE SourceItem
    BY <1>1, <2>1, <2>2 DEF SourceItem, KeepsEnd
  <2>3. CASE SafetyTimeout
    <3>1. pc = "paused"
      BY <1>1, <2>3, StreamAssumption DEF IInv, Streaming, SafetyTimeout
    <3> QED
      BY <1>1, <2>1, <2>3, <3>1 DEF SafetyTimeout, KeepsEnd, Stopped
  <2>4. CASE SourceTerminal \/ SourceThrows \/ Swallow
    BY <1>1, <2>4 DEF SourceTerminal, SourceThrows, Swallow, OverWith, KeepsEnd
  <2>5. CASE Receive \/ Signal \/ Exit \/ ForceExit \/ Client \/ Tick
    BY <1>1, <2>5 DEF Receive, Signal, Exit, ForceExit, Client, Call, DeliverItem, DeliverTerminal,
                      AskNext, Leave, Ping, Tick
  <2> QED
    BY <1>1, <2>2, <2>3, <2>4, <2>5 DEF Next, Kernel, Source
<1>2. IInv /\ [Next]_vars => [P]_vars
  BY <1>1
<1> QED
  BY StreamInductive, <1>2, PTL DEF Spec, StallOnlyWhenSilent

(* INV-3 of StreamController: wrap() sends nothing once its signal is       *)
(* aborted, and the signal stays aborted.                                   *)
THEOREM AbortsAreFinal == Spec => AbortIsFinal
<1> DEFINE P == aborted => aborted' /\ itemsSent' = itemsSent /\ terminal' # "done"
<1>1. ASSUME IInv, Next, aborted  PROVE aborted' /\ itemsSent' = itemsSent /\ terminal' # "done"
  <2>0. terminal # "done" /\ pc # "none"
    BY <1>1 DEF IInv, Streaming
  <2>1. CASE Source \/ SafetyTimeout
    BY <1>1, <2>0, <2>1 DEF Source, SourceItem, SourceTerminal, SourceThrows, Swallow, SafetyTimeout,
                            Stopped, OverWith, KeepsEnd
  <2>2. CASE Receive
    <3>1. up[1].type # "request" /\ Head(up) = up[1]
      BY <1>1, <2>0, <2>2, Taking DEF IInv, Channel, Receive
    <3> QED
      BY <1>1, <2>0, <2>2, <3>1 DEF Receive, OnCancel, OnPing
  <2>3. CASE Signal \/ Exit \/ ForceExit
    BY <1>1, <2>0, <2>3 DEF Signal, Exit, ForceExit
  <2>4. CASE Client \/ Tick
    BY <1>1, <2>0, <2>4 DEF Client, Call, DeliverItem, DeliverTerminal, AskNext, Leave, Ping, Tick,
                            kernelVars
  <2> QED
    BY <1>1, <2>1, <2>2, <2>3, <2>4 DEF Next, Kernel
<1>2. IInv /\ [Next]_vars => [P]_vars
  BY <1>1
<1> QED
  BY StreamInductive, <1>2, PTL DEF Spec, AbortIsFinal

=============================================================================
