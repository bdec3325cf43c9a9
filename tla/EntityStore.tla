----------------------------- MODULE EntityStore -----------------------------
(***************************************************************************)
(* The entities of the file system: their rows in the database, the        *)
(* PathCache that mirrors them, and the child keys that the VFS keeps      *)
(* beside them in hal.storage.                                             *)
(*                                                                         *)
(* A task is a syscall (file:open with create, file:mkdir, file:setstat,   *)
(* file:unlink or one of EMS).  It works in steps: between two of them it  *)
(* awaits the database or the storage, and others run.  There is one       *)
(* connection, so that a transaction begun by one task holds for the       *)
(* statements of all.  An entity is a row of `entities` (its place: parent and pathname) *)
(* and a row of a detail table (live or trashed).  Rows of `entities` are  *)
(* never deleted.                                                          *)
(***************************************************************************)
EXTENDS Integers, FiniteSets

CONSTANTS
  Task,        \* syscalls that may be in progress at the same time
  Entity,      \* ids that entropy.uuid() may give out
  Root,        \* ROOT_ID
  Name,        \* pathnames
  None,        \* null
  MaxJobs,     \* bound: syscalls started
  MaxCrashes   \* bound: crashes of the system

VARIABLES
  rows,       \* table entities: the place of each id, or None
  detail,     \* detail tables: none, live or trashed
  undo,       \* the open transaction: who began it on what, or None
  (* PathCache *)
  byId, childIndex, childrenOf,
  index,      \* hal.storage: child:<parent>:<name>
  job,        \* what each task is doing
  jobs, crashes,
  (* history *)
  born,       \* ids given out
  undone,     \* ids with a change that a rollback or a crash took back
  reverted,   \* ids brought back by ems:revert
  drifted,    \* ids whose updates overlapped, or moved and renamed at once
  hidden      \* ids whose key in childIndex another id took or deleted

table == <<rows, detail, undo>>
cache == <<byId, childIndex, childrenOf>>
history == <<born, undone, reverted, drifted, hidden>>
vars == <<table, cache, index, job, jobs, crashes, history>>

Place == [parent : Entity \cup {Root}, name : Name]
Field == {"parent", "name"}

State == {"none", "live", "trashed"}
Transaction == [task : Task, rows : [Entity -> Place \cup {None}], detail : [Entity -> State]]

(* None is no id, no place and no transaction.                             *)
ASSUME StoreAssumption ==
  /\ Root \notin Entity /\ None \notin Entity \cup {Root} \cup Place \cup Transaction
  /\ MaxJobs \in Nat /\ MaxCrashes \in Nat

Idle == [op |-> "none", pc |-> "idle", id |-> None, to |-> None, old |-> None,
         was |-> "none", fields |-> {}, vfs |-> FALSE]
Steps == {"idle", "parent", "insert", "entity", "unindex", "select", "trash",
          "begin", "row", "commit", "rollback", "restore", "cache", "index", "purge"}
Work == [op : {"none", "create", "unlink", "update", "revert", "expire"}, pc : Steps,
         id : Entity \cup {None}, to : Place \cup {None}, old : Place \cup {None},
         was : State, fields : SUBSET Field, vfs : BOOLEAN]

TypeOK ==
  /\ rows \in [Entity -> Place \cup {None}]
  /\ detail \in [Entity -> State]
  /\ undo \in Transaction \cup {None}
  /\ byId \in [Entity -> Place \cup {None}]
  /\ childIndex \in [Place -> Entity \cup {None}]
  /\ childrenOf \in [Entity \cup {Root} -> SUBSET Entity]
  /\ index \in [Place -> Entity \cup {None}]
  /\ job \in [Task -> Work]
  /\ jobs \in 0..MaxJobs /\ crashes \in 0..MaxCrashes
  /\ born \subseteq Entity /\ undone \subseteq Entity /\ reverted \subseteq Entity
  /\ drifted \subseteq Entity /\ hidden \subseteq Entity

Init ==
  /\ rows = [e \in Entity |-> None] /\ detail = [e \in Entity |-> "none"] /\ undo = None
  /\ byId = [e \in Entity |-> None] /\ childIndex = [l \in Place |-> None]
  /\ childrenOf = [p \in Entity \cup {Root} |-> {}]
  /\ index = [l \in Place |-> None]
  /\ job = [t \in Task |-> Idle] /\ jobs = 0 /\ crashes = 0
  /\ born = {} /\ undone = {} /\ reverted = {} /\ drifted = {} /\ hidden = {}

-----------------------------------------------------------------------------
(* Reading.                                                                *)

(* findChild: the cache first, then the storage.                           *)
Lookup(l) == IF childIndex[l] # None THEN childIndex[l] ELSE index[l]

(* resolvePath: what can be reached from the root in k names.              *)
Resolved[k \in 0..Cardinality(Entity)] ==
  IF k = 0 THEN {Root}
  ELSE Resolved[k - 1] \cup
       ({Lookup(l) : l \in {m \in Place : m.parent \in Resolved[k - 1]}} \ {None})
Reachable == Resolved[Cardinality(Entity)]

(* getEntity: cached, and not trashed.                                     *)
Found(e) == e = Root \/ (byId[e] # None /\ rows[e] # None /\ detail[e] = "live")

(* A select sees an entity that has both rows.                             *)
Joined(e) == rows[e] # None /\ detail[e] # "none"

-----------------------------------------------------------------------------
(* PathCache.  Loses(l, e): the id, other than e, that loses the key l.    *)

Loses(l, e) == {childIndex[l]} \ {None, e}

AddEntry(e, l) ==
  /\ byId' = [byId EXCEPT ![e] = l]
  /\ childIndex' = [childIndex EXCEPT ![l] = e]
  /\ childrenOf' = [childrenOf EXCEPT ![l.parent] = @ \cup {e}]
  /\ hidden' = hidden \cup Loses(l, e)

UpdateEntryName(e, to, changed) ==      \* mutant: moves are forgotten
  LET from == byId[e]
      new  == IF "name" \in changed THEN [from EXCEPT !.name = to.name] ELSE from
  IN IF from = None \/ new = from
     THEN UNCHANGED <<cache, hidden>>
     ELSE /\ byId' = [byId EXCEPT ![e] = new]
          /\ childIndex' = [childIndex EXCEPT ![from] = None, ![new] = e]
          /\ hidden' = hidden \cup Loses(from, e) \cup Loses(new, e)
          /\ UNCHANGED childrenOf
(* A new name is set and a new parent with it ignored.                     *)
UpdateEntry(e, to, changed) ==
  LET from == byId[e]
      new  == IF "name" \in changed /\ to.name # from.name
              THEN [from EXCEPT !.name = to.name]
              ELSE IF "parent" \in changed THEN [from EXCEPT !.parent = to.parent] ELSE from
  IN IF from = None \/ new = from
     THEN UNCHANGED <<cache, hidden>>
     ELSE /\ byId' = [byId EXCEPT ![e] = new]
          /\ childIndex' = [childIndex EXCEPT ![from] = None, ![new] = e]
          /\ childrenOf' = [p \in DOMAIN childrenOf |->
                              IF new.parent = from.parent THEN childrenOf[p]
                              ELSE IF p = from.parent THEN childrenOf[p] \ {e}
                              ELSE IF p = new.parent THEN childrenOf[p] \cup {e}
                              ELSE childrenOf[p]]
          /\ hidden' = hidden \cup Loses(from, e) \cup Loses(new, e)

RemoveEntryKeepsKey(e) ==               \* mutant: the key stays behind
  /\ UNCHANGED <<childIndex, hidden>>
  /\ byId' = [byId EXCEPT ![e] = None]
  /\ childrenOf' = [p \in DOMAIN childrenOf |-> IF p = e THEN {} ELSE childrenOf[p] \ {e}]
RemoveEntry(e) ==
  IF byId[e] = None THEN UNCHANGED <<cache, hidden>>
  ELSE /\ byId' = [byId EXCEPT ![e] = None]
       /\ childIndex' = [childIndex EXCEPT ![byId[e]] = None]
       /\ childrenOf' = [p \in DOMAIN childrenOf |->
                           IF p = e THEN {} ELSE IF p = byId[e].parent THEN childrenOf[p] \ {e}
                           ELSE childrenOf[p]]
       /\ hidden' = hidden \cup Loses(byId[e], e)

(* loadFromDatabase: every row, those of trashed entities included.        *)
LoadFrom(table0) ==
  /\ byId' = table0
  /\ childIndex' = [l \in Place |-> IF \E e \in Entity : table0[e] = l
                                    THEN CHOOSE e \in Entity : table0[e] = l ELSE None]
  /\ childrenOf' = [p \in Entity \cup {Root} |->
                      {e \in Entity : table0[e] # None /\ table0[e].parent = p}]

-----------------------------------------------------------------------------
(* Tasks.                                                                  *)

Do(t, j) == job' = [job EXCEPT ![t] = j]
At(t, op, pc) == job[t].op = op /\ job[t].pc = pc
Go(t, pc) == Do(t, [job[t] EXCEPT !.pc = pc])
Finish(t) == Do(t, Idle)

Start(t, j) ==
  /\ job[t] = Idle /\ jobs < MaxJobs
  /\ jobs' = jobs + 1
  /\ Do(t, j)
  /\ UNCHANGED <<table, cache, index, crashes, history>>

Create(t, l, vfs) ==
  [Idle EXCEPT !.op = "create", !.pc = IF vfs THEN "parent" ELSE "insert", !.to = l, !.vfs = vfs]
(* A new name, a new parent or both; what is not given is the root's.      *)
Change ==
  {c \in [to : Place, fields : SUBSET Field] :
     /\ c.fields # {}
     /\ "parent" \notin c.fields => c.to.parent = Root
     /\ "name" \notin c.fields => c.to.name = CHOOSE n \in Name : TRUE}
On(op, pc, e) == [Idle EXCEPT !.op = op, !.pc = pc, !.id = e, !.vfs = pc = "entity"]

(* Syscalls by path: the name is resolved first.                           *)
VfsCreate(t) ==
  \E l \in Place : l.parent \in Reachable /\ Lookup(l) = None /\ Start(t, Create(t, l, TRUE))
VfsUnlink(t) == \E e \in Entity \cap Reachable : Start(t, On("unlink", "entity", e))
VfsSetstat(t) ==
  \E e \in Entity \cap Reachable, c \in Change :
    Start(t, [On("update", "entity", e) EXCEPT !.to = c.to, !.fields = c.fields])

(* Syscalls by id.                                                         *)
EmsCreate(t) == \E l \in Place : Start(t, Create(t, l, FALSE))
EmsUpdate(t) ==
  \E e \in born, c \in Change :
    Start(t, [On("update", "select", e) EXCEPT !.to = c.to, !.fields = c.fields])
EmsOther(t) ==
  \E e \in born, op \in {"unlink", "revert", "expire"} : Start(t, On(op, "select", e))

-----------------------------------------------------------------------------
(* Creating.                                                               *)

(* With SQLite, hal.storage is a second connection to the database's file: *)
(* it cannot be written to while a transaction is open, and the call fails.*)
StorageLocked(t) == undo # None /\ Finish(t) /\ UNCHANGED index

(* createFile and mkdir: the parent must be there, and an empty blob be    *)
(* put for a file.                                                         *)
CheckParent(t) ==
  /\ At(t, "create", "parent")
  /\ \/ IF Found(job[t].to.parent) THEN Go(t, "insert") ELSE Finish(t)
     \/ StorageLocked(t)
  /\ UNCHANGED <<table, cache, index, jobs, crashes, history>>

(* The constraints of table entities: UNIQUE(parent, pathname), and the    *)
(* parent has a row.                                                       *)
Allowed(l, e) ==
  /\ l.parent = Root \/ rows[l.parent] # None
  /\ \A d \in Entity : rows[d] = l => d = e

(* SqlCreate: both rows in one transaction, nested in whichever is open.   *)
Insert(t) ==
  /\ At(t, "create", "insert")
  /\ \E e \in Entity \ born :
       IF Allowed(job[t].to, e)
       THEN /\ rows' = [rows EXCEPT ![e] = job[t].to]
            /\ detail' = [detail EXCEPT ![e] = "live"]
            /\ born' = born \cup {e}
            /\ Do(t, [job[t] EXCEPT !.pc = "cache", !.id = e])
       ELSE /\ Finish(t) /\ UNCHANGED <<rows, detail, born>>
  /\ UNCHANGED <<undo, cache, index, jobs, crashes, undone, reverted, drifted, hidden>>

(* PathCacheSync.handleCreate.                                             *)
CacheCreate(t) ==
  /\ At(t, "create", "cache")
  /\ AddEntry(job[t].id, job[t].to)
  /\ IF job[t].vfs THEN Go(t, "index") ELSE Finish(t)
  /\ UNCHANGED <<table, index, jobs, crashes, born, undone, reverted, drifted>>

AddChildIndex(t) ==
  /\ At(t, "create", "index")
  /\ \/ index' = [index EXCEPT ![job[t].to] = job[t].id] /\ Finish(t)
     \/ StorageLocked(t)
  /\ UNCHANGED <<table, cache, jobs, crashes, history>>

-----------------------------------------------------------------------------
(* Deleting.                                                               *)

(* unlink and setstat: the entity must be there.  unlink keeps its place.  *)
CheckEntity(t) ==
  /\ job[t].pc = "entity"
  /\ IF ~Found(job[t].id) THEN Finish(t)
     ELSE IF job[t].op = "unlink"
          THEN Do(t, [job[t] EXCEPT !.pc = "unindex", !.old = byId[job[t].id]])
          ELSE Go(t, "select")
  /\ UNCHANGED <<table, cache, index, jobs, crashes, history>>

RemoveChildIndex(t) ==
  /\ At(t, "unlink", "unindex")
  /\ \/ index' = [index EXCEPT ![job[t].old] = None] /\ Go(t, "select")
     \/ StorageLocked(t)
  /\ UNCHANGED <<table, cache, jobs, crashes, history>>

(* deleteAll reads a live entity, expireAll any, revertAll a trashed one.  *)
(* A record keeps its trashed_at, which SqlDelete writes back on expiry.   *)
SelectToDelete(t) ==
  /\ job[t].pc = "select" /\ job[t].op \in {"unlink", "expire", "revert"}
  /\ LET e == job[t].id
         seen == /\ Joined(e)
                 /\ job[t].op = "unlink" => detail[e] = "live"
                 /\ job[t].op = "revert" => detail[e] = "trashed"
                 /\ job[t].vfs => byId[e] # None
     IN IF ~seen THEN Finish(t)
        ELSE Do(t, [job[t] EXCEPT !.pc = IF job[t].op = "revert" THEN "restore" ELSE "trash",
                                  !.was = IF job[t].op = "expire" THEN detail[e] ELSE "trashed"])
  /\ UNCHANGED <<table, cache, index, jobs, crashes, history>>

(* SqlDelete.                                                              *)
Trash(t) ==
  /\ job[t].pc = "trash"
  /\ detail' = [detail EXCEPT ![job[t].id] = IF @ = "none" THEN @ ELSE job[t].was]
  /\ Go(t, "cache")
  /\ UNCHANGED <<rows, undo, cache, index, jobs, crashes, history>>

(* PathCacheSync.handleDelete.                                             *)
CacheDelete(t) ==
  /\ job[t].pc = "cache" /\ job[t].op \in {"unlink", "expire"}
  /\ RemoveEntry(job[t].id)
  /\ IF job[t].op = "expire" THEN Go(t, "purge") ELSE Finish(t)
  /\ UNCHANGED <<table, index, jobs, crashes, born, undone, reverted, drifted>>

(* expireAll: DELETE FROM the detail table.                                *)
Purge(t) ==
  /\ At(t, "expire", "purge")
  /\ detail' = [detail EXCEPT ![job[t].id] = "none"]
  /\ Finish(t)
  /\ UNCHANGED <<rows, undo, cache, index, jobs, crashes, history>>

(* revertAll: an update of the detail row only; no entry is added again.   *)
Restore(t) ==
  /\ At(t, "revert", "restore")
  /\ detail' = [detail EXCEPT ![job[t].id] = IF @ = "none" THEN @ ELSE "live"]
  /\ reverted' = reverted \cup {job[t].id}
  /\ Finish(t)
  /\ UNCHANGED <<rows, undo, cache, index, jobs, crashes, born, undone, drifted, hidden>>

-----------------------------------------------------------------------------
(* Renaming and moving.                                                    *)

(* Another task has read e to update it, or created it, and has not told   *)
(* the cache yet.                                                          *)
Overlaps(t, e) ==
  \E u \in Task \ {t} : /\ job[u].op \in {"create", "update"} /\ job[u].id = e
                        /\ job[u].pc \in {"begin", "row", "commit", "rollback", "cache"}

(* updateAll: the record to change, trashed or not.                        *)
SelectToUpdate(t) ==
  /\ At(t, "update", "select")
  /\ IF Joined(job[t].id) /\ (job[t].vfs => byId[job[t].id] # None)
     THEN Do(t, [job[t] EXCEPT !.pc = "begin", !.old = rows[job[t].id]])
     ELSE Finish(t)
  /\ UNCHANGED <<table, cache, index, jobs, crashes, history>>

(* SqlUpdate: BEGIN fails inside another transaction, and the update is    *)
(* given up.                                                               *)
Begin(t) ==
  /\ At(t, "update", "begin")
  /\ IF undo = None
     THEN undo' = [task |-> t, rows |-> rows, detail |-> detail] /\ Go(t, "row")
     ELSE UNCHANGED undo /\ Finish(t)
  /\ UNCHANGED <<rows, detail, cache, index, jobs, crashes, history>>

(* UPDATE entities: the columns that the caller gave.                      *)
UpdateRow(t) ==
  /\ At(t, "update", "row")
  /\ LET e == job[t].id
         new == [parent |-> IF "parent" \in job[t].fields THEN job[t].to.parent ELSE rows[e].parent,
                 name |-> IF "name" \in job[t].fields THEN job[t].to.name ELSE rows[e].name]
     IN IF rows[e] = None THEN UNCHANGED rows /\ Go(t, "commit")
        ELSE IF Allowed(new, e)
        THEN rows' = [rows EXCEPT ![e] = new] /\ Go(t, "commit")
        ELSE UNCHANGED rows /\ Go(t, "rollback")
  /\ UNCHANGED <<detail, undo, cache, index, jobs, crashes, history>>

(* UPDATE of the detail row (updated_at), and COMMIT.                      *)
Commit(t) ==
  /\ At(t, "update", "commit")
  /\ undo' = None
  /\ Go(t, "cache")
  /\ drifted' = IF Overlaps(t, job[t].id) THEN drifted \cup {job[t].id} ELSE drifted
  /\ UNCHANGED <<rows, detail, cache, index, jobs, crashes, born, undone, reverted, hidden>>

(* What the end of a transaction that fails takes back.                    *)
TakeBack ==
  /\ rows' = undo.rows /\ detail' = undo.detail /\ undo' = None
  /\ undone' = undone \cup {e \in Entity : rows[e] # undo.rows[e] \/ detail[e] # undo.detail[e]}

(* ROLLBACK, and the update fails.  The statements of others since BEGIN   *)
(* go with it.                                                             *)
Rollback(t) ==
  /\ At(t, "update", "rollback")
  /\ TakeBack /\ Finish(t)
  /\ UNCHANGED <<cache, index, jobs, crashes, born, reverted, drifted, hidden>>

(* PathCacheSync.handleUpdate: compares with the record as it was read.    *)
CacheUpdate(t) ==
  /\ At(t, "update", "cache")
  /\ LET changed == {f \in job[t].fields : job[t].to[f] # job[t].old[f]}
     IN /\ UpdateEntry(job[t].id, job[t].to, changed)
        /\ drifted' = IF changed = Field THEN drifted \cup {job[t].id} ELSE drifted
  /\ Finish(t)
  /\ UNCHANGED <<table, index, jobs, crashes, born, undone, reverted>>

-----------------------------------------------------------------------------
(* The system dies; when it is back the cache is loaded from the database. *)
Crash ==
  /\ crashes < MaxCrashes
  /\ crashes' = crashes + 1
  /\ job' = [t \in Task |-> Idle]
  /\ IF undo = None THEN UNCHANGED <<table, undone>> ELSE TakeBack
  /\ LoadFrom(rows')
  /\ reverted' = {} /\ drifted' = {} /\ hidden' = {}
  /\ UNCHANGED <<index, jobs, born>>

Step(t) ==
  \/ CheckParent(t) \/ Insert(t) \/ CacheCreate(t) \/ AddChildIndex(t)
  \/ CheckEntity(t) \/ RemoveChildIndex(t)
  \/ SelectToDelete(t) \/ Trash(t) \/ CacheDelete(t) \/ Purge(t) \/ Restore(t)
  \/ SelectToUpdate(t) \/ Begin(t) \/ UpdateRow(t) \/ Commit(t) \/ Rollback(t) \/ CacheUpdate(t)

Next ==
  \/ \E t \in Task :
       \/ VfsCreate(t) \/ VfsUnlink(t) \/ VfsSetstat(t)
       \/ EmsCreate(t) \/ EmsUpdate(t) \/ EmsOther(t)
       \/ Step(t)
  \/ Crash

Spec == Init /\ [][Next]_vars

-----------------------------------------------------------------------------
(* Properties.                                                             *)

(* No step of the cache leaves a key or a child pointing at an entry that  *)
(* is elsewhere, and an entry is missed by its key only when another took  *)
(* or deleted that key.                                                    *)
CacheSound ==
  /\ \A l \in Place : childIndex[l] # None => byId[childIndex[l]] = l
  /\ \A p \in Entity \cup {Root}, e \in Entity :
       e \in childrenOf[p] => byId[e] # None /\ byId[e].parent = p
  /\ \A e \in Entity : byId[e] # None /\ e \notin hidden => childIndex[byId[e]] = e
  /\ \A e \in Entity : byId[e] # None /\ (byId[e].parent = Root \/ byId[byId[e].parent] # None)
       => e \in childrenOf[byId[e].parent]

(* No task is working on e.                                                *)
Quiet(e) == \A t \in Task : job[t].id # e

(* The cache agrees with the table on every entity that no task works on,  *)
(* save for what is known to part them: updates of one entity that         *)
(* overlap, a move and rename in one, a revert, and what another task's    *)
(* rollback took back.                                                     *)
CacheFollowsTable ==
  \A e \in Entity : Quiet(e) /\ e \notin undone =>
    /\ byId[e] # None /\ e \notin drifted => byId[e] = rows[e]
    /\ detail[e] = "live" /\ e \notin reverted => byId[e] # None

(* A rollback never takes back a rename or move that another task has      *)
(* committed.                                                              *)
RenamesSurvive ==
  \A t \in Task : job[t].op = "update" /\ job[t].pc = "rollback" =>
    /\ undo # None /\ undo.task = t
    /\ \A e \in Entity : undo.rows[e] # None => undo.rows[e] = rows[e]
=============================================================================
