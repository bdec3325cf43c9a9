------------------------------ MODULE OpenFiles ------------------------------
(***************************************************************************)
(* The contents of one file of the VFS under several open handles.         *)
(*                                                                         *)
(* A handle is an EntityHandleImpl inside a FileHandleAdapter.  It copies  *)
(* the file's blob when it is opened, reads and writes the copy, and puts  *)
(* it back as a whole when it is closed; then it writes the length into    *)
(* the file's row.  The row is in the EMS database, where another task may *)
(* have a transaction open; the blob is in hal.storage, which with SQLite  *)
(* is a second connection on the same file.  What a write() call writes is *)
(* one unit, named by the number of the call; Gap is a zero that fills up. *)
(***************************************************************************)
EXTENDS Integers, Sequences, SequencesExt

CONSTANTS
  Handle,        \* calls of file:open and file:append, each with its handle
  NoTransaction, \* none is open
  MaxWrites,     \* bound: write calls
  MaxLength      \* bound: length of a copy

Gap == 0

(* The size of a row that is not there.                                    *)
NoRow == -1

ASSUME FileAssumption ==
  NoTransaction \notin Nat \cup {NoRow} /\ MaxWrites \in Nat /\ MaxLength \in Nat

VARIABLES
  blob,      \* hal.storage: the contents, a sequence of units
  size,      \* detail row: size, or NoRow when the row has expired
  undoSize,  \* size when the open transaction began, or NoTransaction
  handle,    \* what each call holds
  writes,    \* write calls so far
  (* history *)
  seen,      \* the contents when each handle copied them
  mine,      \* the units that each handle wrote
  over,      \* the positions where each handle wrote
  excused,   \* units that were overwritten knowingly or in ignorance
  parted     \* a size was written for older contents, or taken back

fileHistory == <<seen, mine, over, excused, parted>>
fileVars == <<blob, size, undoSize, handle, writes, fileHistory>>

(* st: none, open, closing (its contents are stored, its size is not yet), *)
(* failed (the storage was locked, or the row had gone) or closed.         *)
Unopened == [st |-> "none", content |-> <<>>, position |-> 0, dirty |-> FALSE,
             write |-> FALSE, append |-> FALSE, truncate |-> FALSE]

FilesInit ==
  /\ blob = <<>> /\ size = 0 /\ undoSize = NoTransaction /\ writes = 0
  /\ handle = [h \in Handle |-> Unopened]
  /\ seen = [h \in Handle |-> <<>>] /\ mine = [h \in Handle |-> {}]
  /\ over = [h \in Handle |-> {}] /\ excused = {} /\ parted = FALSE

-----------------------------------------------------------------------------
(* open() of EntityModel: the copy.  Only a handle that may write          *)
(* truncates, and only its copy.  One that may not read never receives.    *)
Open(h) ==
  /\ handle[h].st = "none" /\ size # NoRow
  /\ \E write, append, truncate \in BOOLEAN :
       LET copy == IF truncate THEN <<>> ELSE blob
       IN /\ truncate => write
          /\ handle' = [handle EXCEPT ![h] =
               [st |-> "open", content |-> copy, position |-> IF append THEN Len(copy) ELSE 0,
                dirty |-> FALSE,
                write |-> write, append |-> append, truncate |-> truncate]]
  /\ seen' = [seen EXCEPT ![h] = blob]
  /\ UNCHANGED <<blob, size, undoSize, writes, mine, over, excused, parted>>

(* The copy after a unit is written at a position, its end moved there.    *)
Written(content, p, unit) ==
  [i \in 1..(IF p < Len(content) THEN Len(content) ELSE p + 1) |->
     IF i = p + 1 THEN unit ELSE IF i <= Len(content) THEN content[i] ELSE Gap]

(* send: write() on a handle that is neither closed nor read-only.         *)
Write(h) ==
  LET c == handle[h].content
      p == IF handle[h].append THEN Len(c) ELSE handle[h].position
  IN /\ handle[h].st = "open" /\ handle[h].write
     /\ writes < MaxWrites /\ p < MaxLength
     /\ writes' = writes + 1
     /\ handle' = [handle EXCEPT ![h].content = Written(c, p, writes'),
                                 ![h].position = p + 1, ![h].dirty = TRUE]
     /\ mine' = [mine EXCEPT ![h] = @ \cup {writes'}]
     /\ over' = [over EXCEPT ![h] = @ \cup {p + 1}]
     /\ excused' = IF p < Len(c) /\ c[p + 1] \in mine[h] THEN excused \cup {c[p + 1]} ELSE excused
     /\ UNCHANGED <<blob, size, undoSize, seen, parted>>

Seek(h) ==
  /\ handle[h].st = "open"
  /\ \E p \in 0..MaxLength : handle' = [handle EXCEPT ![h].position = p]
  /\ UNCHANGED <<blob, size, undoSize, writes, fileHistory>>

(* recv, one chunk of it: there is a next one until none is left or the    *)
(* handle is closed.  Between two others who share the handle write, seek, *)
(* close it or receive; that a recv begins or is over changes nothing.     *)
Recv(h) ==
  /\ handle[h].st = "open" /\ handle[h].position < Len(handle[h].content)
  /\ handle' = [handle EXCEPT ![h].position = @ + 1]
  /\ UNCHANGED <<blob, size, undoSize, writes, fileHistory>>

-----------------------------------------------------------------------------
(* Closing.                                                                *)

Flushing == {h \in Handle : handle[h].st = "closing"}
Drop(h, st) == handle' = [handle EXCEPT ![h] = [Unopened EXCEPT !.st = st]]

(* close() of the adapter, then of the handle, up to the first await: the  *)
(* adapter takes no more calls, and contents that were written to are      *)
(* stored.  A copy that was cut at open but not written to is dropped.     *)
(* The put fails if it meets a transaction; whoever closes only logs it.   *)
Stored(h) ==
  /\ blob' = handle[h].content
  /\ handle' = [handle EXCEPT ![h].st = "closing"]
  /\ parted' = (Flushing # {})
  /\ excused' = IF over[h] = {} THEN excused
                ELSE excused \cup {blob[i] : i \in {j \in DOMAIN blob :
                       \/ ~Contains(seen[h], blob[j]) \/ handle[h].truncate
                       \/ j \in over[h]}}
CloseAll(h) ==                             \* mutant: clean copies too
  /\ handle[h].st = "open"
  /\ Stored(h)
  /\ UNCHANGED <<size, undoSize, writes, seen, mine, over>>
Close(h) ==
  /\ handle[h].st = "open"
  /\ \/ /\ ~handle[h].dirty
        /\ Drop(h, "closed")
        /\ UNCHANGED <<blob, parted, excused>>
     \/ handle[h].dirty /\ Stored(h)
     \/ /\ handle[h].dirty /\ undoSize # NoTransaction
        /\ Drop(h, "failed")
        /\ UNCHANGED <<blob, parted, excused>>
  /\ UNCHANGED <<size, undoSize, writes, seen, mine, over>>

(* updateIds: the size is written alone, into whichever transaction is     *)
(* open; the handle is closed when that is done.  If the row has gone, it  *)
(* throws (ENOENT), or has looked before and updates none: the contents    *)
(* are stored all the same.                                                *)
UpdateSizeGrows(h) ==                      \* mutant: the size never shrinks
  /\ handle[h].st = "closing"
  /\ IF size = NoRow THEN UNCHANGED size /\ \E st \in {"failed", "closed"} : Drop(h, st)
     ELSE /\ size' = IF Len(handle[h].content) > size THEN Len(handle[h].content) ELSE size
          /\ Drop(h, "closed")
  /\ UNCHANGED <<blob, undoSize, writes, fileHistory>>
UpdateSize(h) ==
  /\ handle[h].st = "closing"
  /\ IF size = NoRow THEN UNCHANGED size /\ \E st \in {"failed", "closed"} : Drop(h, st)
     ELSE size' = Len(handle[h].content) /\ Drop(h, "closed")
  /\ UNCHANGED <<blob, undoSize, writes, fileHistory>>

-----------------------------------------------------------------------------
(* The ems:expire of another task deletes the row, in whichever            *)
(* transaction is open, and leaves the blob; the handles are not told.     *)
Expire ==
  /\ size # NoRow /\ size' = NoRow
  /\ UNCHANGED <<blob, undoSize, handle, writes, fileHistory>>

(* The transaction of another task's update.                               *)
OtherBegin ==
  /\ undoSize = NoTransaction /\ undoSize' = size
  /\ UNCHANGED <<blob, size, handle, writes, fileHistory>>
OtherCommit ==
  /\ undoSize # NoTransaction /\ undoSize' = NoTransaction
  /\ UNCHANGED <<blob, size, handle, writes, fileHistory>>
OtherRollback ==
  /\ undoSize # NoTransaction /\ undoSize' = NoTransaction /\ size' = undoSize
  /\ parted' = (parted \/ size # undoSize)
  /\ UNCHANGED <<blob, handle, writes, seen, mine, over, excused>>

FilesNext ==
  \/ \E h \in Handle : \/ Open(h) \/ Write(h) \/ Seek(h) \/ Recv(h)
                       \/ Close(h) \/ UpdateSize(h)
  \/ Expire \/ OtherBegin \/ OtherCommit \/ OtherRollback

FilesSpec == FilesInit /\ [][FilesNext]_fileVars

-----------------------------------------------------------------------------
(* Properties.                                                             *)

(* The last to close wins, and wins no more than that: what was written    *)
(* and closed without an error is in the file until someone who also wrote *)
(* puts back a copy that was taken before, was cut, or has something else  *)
(* in its place.  Readers, seeks and closes that fail on the storage lose  *)
(* nothing.                                                                *)
StoredUntilOverwritten ==
  \A h \in Handle : handle[h].st \in {"closing", "closed"} =>
    \A w \in mine[h] : Contains(blob, w) \/ w \in excused

(* models/file.ts: size is the byte length of the contents, whenever no    *)
(* close is under way and the row is there, save after closes that         *)
(* overlapped or a rollback that took a size, or an expiry, back.          *)
SizeTellsLength ==
  Flushing = {} /\ ~parted /\ size # NoRow => size = Len(blob)
=============================================================================
