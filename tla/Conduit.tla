------------------------------- MODULE Conduit -------------------------------
(***************************************************************************)
(* What a pipe promises its readers, whatever it is built of: messages     *)
(* leave in the order in which they came, each once, to one reader; no     *)
(* more than Capacity wait inside; a reader is asleep only while nothing   *)
(* is there and the writer is; readers are served in the order they came.  *)
(* Messages are numbered as they come in, so that the contents of the pipe *)
(* are those numbered left + 1 to entered.                                 *)
(***************************************************************************)
EXTENDS Integers, Sequences

CONSTANTS Reader, Capacity

NoMessage == 0
End == -1

VARIABLES
  entered,   \* messages that have come in
  left,      \* messages that have gone out, or were thrown away
  line,      \* readers asleep, the first to come first
  answer,    \* what each reader has been given and has not picked up
  writerGone, readerGone

vars == <<entered, left, line, answer, writerGone, readerGone>>

Init ==
  /\ entered = 0 /\ left = 0
  /\ line = <<>>
  /\ answer = [r \in Reader |-> NoMessage]
  /\ writerGone = FALSE /\ readerGone = FALSE

Empty == entered = left
Give(r, a) == answer' = [answer EXCEPT ![r] = a]

(* A message comes in and stays.                                           *)
Put ==
  /\ ~writerGone /\ ~readerGone /\ line = <<>> /\ entered - left < Capacity
  /\ entered' = entered + 1
  /\ UNCHANGED <<left, line, answer, writerGone, readerGone>>

(* A message comes in and goes to the first reader in line.                *)
Pass ==
  /\ ~writerGone /\ ~readerGone /\ line # <<>> /\ Empty
  /\ entered' = entered + 1 /\ left' = left + 1
  /\ Give(Head(line), entered + 1)
  /\ line' = Tail(line)
  /\ UNCHANGED <<writerGone, readerGone>>

(* A reader asks and gets the oldest message, ...                          *)
Take(r) ==
  /\ answer[r] = NoMessage /\ ~Empty
  /\ left' = left + 1
  /\ Give(r, left + 1)
  /\ UNCHANGED <<entered, line, writerGone, readerGone>>

(* ... or the end, ...                                                     *)
Finish(r) ==
  /\ answer[r] = NoMessage /\ Empty /\ writerGone
  /\ Give(r, End)
  /\ UNCHANGED <<entered, left, line, writerGone, readerGone>>

(* ... or it gets in line.                                                 *)
Queue(r) ==
  /\ answer[r] = NoMessage /\ Empty /\ ~writerGone
  /\ line' = Append(line, r)
  /\ UNCHANGED <<entered, left, answer, writerGone, readerGone>>

(* The reader picks up what it was given.                                  *)
PickUp(r) ==
  /\ answer[r] # NoMessage
  /\ Give(r, NoMessage)
  /\ UNCHANGED <<entered, left, line, writerGone, readerGone>>

(* Whoever is in line when an end closes is told so.                       *)
DismissAll ==
  /\ answer' = [r \in Reader |-> IF \E i \in DOMAIN line : line[i] = r THEN End ELSE answer[r]]
  /\ line' = <<>>

CloseWriter ==
  /\ ~writerGone /\ writerGone' = TRUE
  /\ DismissAll
  /\ UNCHANGED <<entered, left, readerGone>>

CloseReader ==
  /\ ~readerGone /\ readerGone' = TRUE
  /\ DismissAll
  /\ left' = entered
  /\ UNCHANGED <<entered, writerGone>>

Next ==
  \/ Put \/ Pass \/ CloseWriter \/ CloseReader
  \/ \E r \in Reader : Take(r) \/ Finish(r) \/ Queue(r) \/ PickUp(r)

Spec == Init /\ [][Next]_vars
=============================================================================
