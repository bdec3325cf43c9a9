---------------------------- MODULE StorageProofs ----------------------------
(***************************************************************************)
(* Proofs about the two components that keep files: EntityStore, the rows  *)
(* and the cache of the EMS, for any tasks, ids, names and bounds, and     *)
(* OpenFiles, the contents of a file, for any handles and bounds.          *)
(***************************************************************************)
EXTENDS EntityStore, OpenFiles, SequenceTheorems, TLAPS

-----------------------------------------------------------------------------
(* EntityStore.                                                            *)

(* What a task works on is there as soon as a step needs it.               *)
JobOK(j) ==
  /\ j \in Work
  /\ j.op = "create" => j.to \in Place
  /\ j.op = "create" /\ j.pc \in {"cache", "index"} => j.id \in Entity
  /\ j.op \in {"unlink", "update", "revert", "expire"} => j.id \in Entity
  /\ j.op = "update" => j.to \in Place
  /\ j.op = "unlink" /\ j.pc = "unindex" => j.old \in Place
  /\ j.pc = "trash" => j.op \in {"unlink", "expire"}
Jobs == \A t \in Task : JobOK(job[t])

(* A task in a transaction owns it, and until it has written, the table    *)
(* holds every row that a rollback would bring back.                       *)
InTransaction(j) == j.op = "update" /\ j.pc \in {"row", "commit", "rollback"}
Undoing ==
  \A t \in Task : InTransaction(job[t]) =>
    /\ undo # None /\ undo.task = t
    /\ job[t].pc # "commit" => \A e \in Entity : undo.rows[e] # None => undo.rows[e] = rows[e]

(* What is in the table or the cache, or may come back, was created.       *)
Known ==
  /\ \A e \in Entity : rows[e] # None \/ byId[e] # None => e \in born
  /\ undo # None => \A e \in Entity : undo.rows[e] # None => e \in born

(* No two entities have one place.                                         *)
Unique(f) == \A d, e \in Entity : f[d] # None /\ f[d] = f[e] => d = e
PlacesUnique == Unique(rows) /\ (undo # None => Unique(undo.rows))

(* An entity that has been created and not told to the cache yet.          *)
Untold(j) == j.op = "create" /\ j.pc = "cache"
Awaited(e) == \E t \in Task : Untold(job[t]) /\ job[t].id = e
Telling ==
  \A t \in Task : Untold(job[t]) =>
    /\ job[t].id \in born /\ byId[job[t].id] = None
    /\ \A u \in Task : Untold(job[u]) /\ job[u].id = job[t].id => u = t

(* The parts of CacheSound.  The last one also speaks of parents that the  *)
(* cache does not know yet.                                                *)
Keys == \A l \in Place : childIndex[l] # None => byId[childIndex[l]] = l
Children ==
  \A p \in Entity \cup {Root}, e \in Entity :
    e \in childrenOf[p] => byId[e] # None /\ byId[e].parent = p
Missed == \A e \in Entity : byId[e] # None /\ e \notin hidden => childIndex[byId[e]] = e
Present(p) == p = Root \/ byId[p] # None \/ p \notin born \/ Awaited(p)
Family ==
  \A e \in Entity, p \in Entity \cup {Root} :
    byId[e] # None /\ byId[e].parent = p /\ Present(p) => e \in childrenOf[p]

-----------------------------------------------------------------------------
(* Jobs.                                                                   *)

LEMMA IdleOK == JobOK(Idle)
  BY DEF JobOK, Idle, Work, Steps, State

LEMMA CreateOK ==
  ASSUME NEW t \in Task, NEW l \in Place, NEW vfs \in BOOLEAN
  PROVE  JobOK(Create(t, l, vfs)) /\ Create(t, l, vfs).pc \in {"parent", "insert"}
  BY DEF JobOK, Create, Idle, Work, Steps, State

LEMMA OnOK ==
  ASSUME NEW e \in Entity, NEW op \in {"unlink", "update", "revert", "expire"},
         NEW pc \in {"entity", "select"}, NEW to \in Place \cup {None},
         NEW fields \in SUBSET Field, op = "update" => to \in Place
  PROVE  JobOK([On(op, pc, e) EXCEPT !.to = to, !.fields = fields])
  BY DEF JobOK, On, Idle, Work, Steps, State

LEMMA JobsDo ==
  ASSUME Jobs, NEW t \in Task, NEW j, JobOK(j), job \in [Task -> Work], Do(t, j)
  PROVE  Jobs' /\ job' \in [Task -> Work]
  BY DEF Jobs, Do, JobOK

LEMMA GoOK ==
  ASSUME NEW j, JobOK(j), NEW pc \in Steps,
         j.op = "create" /\ pc \in {"cache", "index"} => j.id \in Entity,
         ~(j.op = "unlink" /\ pc = "unindex"), pc # "trash"
  PROVE  JobOK([j EXCEPT !.pc = pc])
  BY DEF JobOK, Work

LEMMA FoundEntity ==
  ASSUME TypeOK, NEW e \in Entity, Found(e) PROVE byId[e] \in Place
  BY StoreAssumption DEF Found, TypeOK

LEMMA StepJobs ==
  ASSUME TypeOK, Jobs, NEW t \in Task, Step(t)
  PROVE  Jobs' /\ job' \in [Task -> Work]
<1> DEFINE j == job[t]
<1>0. JobOK(j) /\ job \in [Task -> Work]
  BY DEF Jobs, TypeOK
<1>1. SUFFICES ASSUME TRUE PROVE \E k : JobOK(k) /\ Do(t, k)
  BY <1>0, JobsDo
<1>2. \A pc \in Steps : /\ j.op = "create" /\ pc \in {"cache", "index"} => j.id \in Entity
                        /\ ~(j.op = "unlink" /\ pc = "unindex") /\ pc # "trash"
                        => JobOK([j EXCEPT !.pc = pc])
  BY <1>0, GoOK
<1>3. CASE Finish(t)
  BY <1>3, IdleOK DEF Finish
<1>4. CASE CheckParent(t)
  <2>1. JobOK([j EXCEPT !.pc = "insert"])
    BY <1>2 DEF Steps
  <2> QED
    BY <1>3, <1>4, <2>1 DEF CheckParent, StorageLocked, Go
<1>5. CASE Insert(t)
  <2>1. ASSUME NEW e \in Entity PROVE JobOK([j EXCEPT !.pc = "cache", !.id = e])
    BY <1>0, <1>5 DEF JobOK, Work, Steps, Insert, At
  <2> QED
    BY <1>3, <1>5, <2>1 DEF Insert
<1>6. CASE CacheCreate(t)
  <2>1. JobOK([j EXCEPT !.pc = "index"])
    BY <1>0, <1>2, <1>6 DEF Steps, CacheCreate, At, JobOK
  <2> QED
    BY <1>3, <1>6, <2>1 DEF CacheCreate, Go
<1>7. CASE CheckEntity(t)
  <2>1. JobOK([j EXCEPT !.pc = "select"])
    BY <1>2 DEF Steps
  <2>2. ASSUME j.op = "unlink", Found(j.id) PROVE JobOK([j EXCEPT !.pc = "unindex", !.old = byId[j.id]])
    <3>1. j.id \in Entity /\ byId[j.id] \in Place
      BY <1>0, <2>2, FoundEntity DEF JobOK
    <3> QED
      BY <1>0, <2>2, <3>1 DEF JobOK, Work, Steps
  <2> QED
    BY <1>3, <1>7, <2>1, <2>2 DEF CheckEntity, Go
<1>8. CASE RemoveChildIndex(t)
  <2>1. JobOK([j EXCEPT !.pc = "select"])
    BY <1>2 DEF Steps
  <2> QED
    BY <1>3, <1>8, <2>1 DEF RemoveChildIndex, StorageLocked, Go
<1>9. CASE SelectToDelete(t)
  <2>1. ASSUME NEW pc \in {"restore", "trash"}, NEW was \in State,
               pc = "trash" => j.op \in {"unlink", "expire"}
        PROVE  JobOK([j EXCEPT !.pc = pc, !.was = was])
    BY <1>0, <2>1 DEF JobOK, Work, Steps
  <2>2. detail[j.id] \in State /\ "trashed" \in State
    BY <1>0, <1>9 DEF TypeOK, JobOK, SelectToDelete, State
  <2> QED
    BY <1>3, <1>9, <2>1, <2>2 DEF SelectToDelete
<1>10. CASE Trash(t)
  <2>1. j.op # "create"
    BY <1>0, <1>10 DEF JobOK, Trash
  <2> QED
    BY <1>10, <2>1, <1>2 DEF Trash, Go, Steps
<1>11. CASE CacheDelete(t)
  <2>1. JobOK([j EXCEPT !.pc = "purge"])
    BY <1>2 DEF Steps
  <2> QED
    BY <1>3, <1>11, <2>1 DEF CacheDelete, Go
<1>12. CASE SelectToUpdate(t)
  <2>1. ASSUME NEW old \in Place \cup {None}, j.op = "update"
        PROVE  JobOK([j EXCEPT !.pc = "begin", !.old = old])
    BY <1>0, <2>1 DEF JobOK, Work, Steps
  <2>2. rows[j.id] \in Place \cup {None} /\ j.op = "update"
    BY <1>0, <1>12 DEF TypeOK, JobOK, SelectToUpdate, At
  <2> QED
    BY <1>3, <1>12, <2>1, <2>2 DEF SelectToUpdate
<1>13. CASE Begin(t)
  <2>1. JobOK([j EXCEPT !.pc = "row"])
    BY <1>2 DEF Steps
  <2> QED
    BY <1>3, <1>13, <2>1 DEF Begin, Go
<1>14. CASE UpdateRow(t)
  <2>1. JobOK([j EXCEPT !.pc = "commit"]) /\ JobOK([j EXCEPT !.pc = "rollback"])
    BY <1>2 DEF Steps
  <2> QED
    BY <1>14, <2>1 DEF UpdateRow, Go
<1>15. CASE Commit(t)
  <2>1. JobOK([j EXCEPT !.pc = "cache"])
    BY <1>2, <1>15 DEF Steps, Commit, At
  <2> QED
    BY <1>15, <2>1 DEF Commit, Go
<1> QED
  BY <1>3, <1>4, <1>5, <1>6, <1>7, <1>8, <1>9, <1>10, <1>11, <1>12, <1>13, <1>14, <1>15
  DEF Step, AddChildIndex, StorageLocked, Purge, Restore, Rollback, CacheUpdate

LEMMA StartJobs ==
  ASSUME TypeOK, Jobs, NEW t \in Task,
         VfsCreate(t) \/ VfsUnlink(t) \/ VfsSetstat(t) \/ EmsCreate(t) \/ EmsUpdate(t) \/ EmsOther(t)
  PROVE  /\ Jobs' /\ job' \in [Task -> Work]
         /\ \E j : JobOK(j) /\ j.pc \in {"parent", "insert", "entity", "select"} /\ Start(t, j)
<1>1. SUFFICES ASSUME TRUE PROVE \E j : JobOK(j) /\ j.pc \in {"parent", "insert", "entity", "select"} /\ Start(t, j)
  BY JobsDo DEF Start, TypeOK
<1>2. CASE VfsCreate(t) \/ EmsCreate(t)
  BY <1>2, CreateOK DEF VfsCreate, EmsCreate
<1>3. CASE VfsUnlink(t) \/ EmsOther(t)
  <2>1. PICK e \in Entity, op \in {"unlink", "revert", "expire"}, pc \in {"entity", "select"} :
          Start(t, On(op, pc, e))
    BY <1>3 DEF VfsUnlink, EmsOther, TypeOK
  <2>2. JobOK(On(op, pc, e)) /\ On(op, pc, e).pc = pc
    BY DEF JobOK, On, Idle, Work, Steps, State
  <2> QED
    BY <2>1, <2>2
<1>4. CASE VfsSetstat(t) \/ EmsUpdate(t)
  <2>1. PICK e \in Entity, c \in Change, pc \in {"entity", "select"} :
          Start(t, [On("update", pc, e) EXCEPT !.to = c.to, !.fields = c.fields])
    BY <1>4 DEF VfsSetstat, EmsUpdate, TypeOK
  <2>2. c.to \in Place /\ c.fields \in SUBSET Field
    BY DEF Change
  <2>3. JobOK([On("update", pc, e) EXCEPT !.to = c.to, !.fields = c.fields])
    BY <2>2, OnOK
  <2>4. [On("update", pc, e) EXCEPT !.to = c.to, !.fields = c.fields].pc = pc
    BY DEF On, Idle
  <2> QED
    BY <2>1, <2>3, <2>4
<1> QED
  BY <1>2, <1>3, <1>4

LEMMA JobsStep ==
  ASSUME TypeOK, Jobs, [Next]_vars
  PROVE  Jobs' /\ job' \in [Task -> Work]
<1>1. CASE Crash
  <2>1. \A t \in Task : job'[t] = Idle
    BY <1>1 DEF Crash
  <2>2. job' = [t \in Task |-> Idle] /\ Idle \in Work
    BY <1>1, IdleOK DEF Crash, JobOK
  <2> QED
    BY <2>1, <2>2, IdleOK DEF Jobs
<1>2. CASE UNCHANGED vars
  BY <1>2 DEF vars, Jobs, TypeOK
<1> QED
  BY <1>1, <1>2, StepJobs, StartJobs DEF Next

-----------------------------------------------------------------------------
(* Types.                                                                  *)

CacheTypes ==
  /\ byId \in [Entity -> Place \cup {None}]
  /\ childIndex \in [Place -> Entity \cup {None}]
  /\ childrenOf \in [Entity \cup {Root} -> SUBSET Entity]
  /\ hidden \subseteq Entity

LEMMA PlaceParts ==
  ASSUME NEW l \in Place PROVE l.parent \in Entity \cup {Root} /\ l.name \in Name
  BY DEF Place

LEMMA AddTypes ==
  ASSUME CacheTypes, NEW e \in Entity, NEW l \in Place, AddEntry(e, l)
  PROVE  CacheTypes'
<1>1. Loses(l, e) \subseteq Entity
  BY DEF Loses, CacheTypes
<1> QED
  BY <1>1, PlaceParts DEF AddEntry, CacheTypes

LEMMA RemoveTypes ==
  ASSUME CacheTypes, NEW e \in Entity, RemoveEntry(e)
  PROVE  CacheTypes'
<1>1. CASE byId[e] = None
  BY <1>1 DEF RemoveEntry, CacheTypes, cache
<1>2. CASE byId[e] # None
  <2>1. byId[e] \in Place
    BY <1>2 DEF CacheTypes
  <2>2. Loses(byId[e], e) \subseteq Entity
    BY <2>1 DEF Loses, CacheTypes
  <2>3. childrenOf' \in [Entity \cup {Root} -> SUBSET Entity]
    <3>1. DOMAIN childrenOf = Entity \cup {Root}
      BY DEF CacheTypes
    <3>2. \A p \in Entity \cup {Root} : childrenOf[p] \in SUBSET Entity
      BY DEF CacheTypes
    <3>3. childrenOf' = [p \in Entity \cup {Root} |->
                          IF p = e THEN {} ELSE IF p = byId[e].parent THEN childrenOf[p] \ {e}
                          ELSE childrenOf[p]]
      BY <1>2, <3>1 DEF RemoveEntry
    <3> QED
      BY <3>2, <3>3
  <2>4. byId' \in [Entity -> Place \cup {None}] /\ hidden' \subseteq Entity
    BY <1>2, <2>2 DEF RemoveEntry, CacheTypes
  <2>5. childIndex' \in [Place -> Entity \cup {None}]
    BY <1>2 DEF RemoveEntry, CacheTypes
  <2> QED
    BY <2>3, <2>4, <2>5 DEF CacheTypes
<1> QED
  BY <1>1, <1>2

(* updateEntry() moves an entry to another place or leaves the cache alone.*)
LEMMA UpdateIs ==
  ASSUME CacheTypes, NEW e \in Entity, NEW to \in Place, NEW changed, UpdateEntry(e, to, changed)
  PROVE  \/ UNCHANGED <<cache, hidden>>
         \/ \E new \in Place :
              /\ byId[e] \in Place /\ byId[e] # None /\ new # byId[e]
              /\ byId' = [byId EXCEPT ![e] = new]
              /\ childIndex' = [childIndex EXCEPT ![byId[e]] = None, ![new] = e]
              /\ childrenOf' = [p \in Entity \cup {Root} |->
                                  IF new.parent = byId[e].parent THEN childrenOf[p]
                                  ELSE IF p = byId[e].parent THEN childrenOf[p] \ {e}
                                  ELSE IF p = new.parent THEN childrenOf[p] \cup {e}
                                  ELSE childrenOf[p]]
              /\ hidden' = hidden \cup Loses(byId[e], e) \cup Loses(new, e)
<1> DEFINE from == byId[e]
           new == IF "name" \in changed /\ to.name # from.name
                  THEN [from EXCEPT !.name = to.name]
                  ELSE IF "parent" \in changed THEN [from EXCEPT !.parent = to.parent] ELSE from
<1>1. CASE from = None \/ new = from
  BY <1>1 DEF UpdateEntry
<1>2. CASE ~(from = None \/ new = from)
  <2>1. from \in Place
    BY <1>2 DEF CacheTypes
  <2>2. new \in Place
    BY <2>1, PlaceParts DEF Place
  <2>3. DOMAIN childrenOf = Entity \cup {Root}
    BY DEF CacheTypes
  <2> HIDE DEF new
  <2>4. /\ byId' = [byId EXCEPT ![e] = new]
        /\ childIndex' = [childIndex EXCEPT ![from] = None, ![new] = e]
        /\ childrenOf' = [p \in DOMAIN childrenOf |->
                            IF new.parent = from.parent THEN childrenOf[p]
                            ELSE IF p = from.parent THEN childrenOf[p] \ {e}
                            ELSE IF p = new.parent THEN childrenOf[p] \cup {e}
                            ELSE childrenOf[p]]
        /\ hidden' = hidden \cup Loses(from, e) \cup Loses(new, e)
    BY <1>2 DEF UpdateEntry, new
  <2> QED
    BY <1>2, <2>1, <2>2, <2>3, <2>4
<1> QED
  BY <1>1, <1>2

LEMMA UpdateTypes ==
  ASSUME CacheTypes, NEW e \in Entity, NEW to \in Place, NEW changed, UpdateEntry(e, to, changed)
  PROVE  CacheTypes'
<1>1. CASE UNCHANGED <<cache, hidden>>
  BY <1>1 DEF CacheTypes, cache
<1>2. ASSUME NEW new \in Place,
             /\ byId[e] \in Place /\ byId[e] # None /\ new # byId[e]
             /\ byId' = [byId EXCEPT ![e] = new]
             /\ childIndex' = [childIndex EXCEPT ![byId[e]] = None, ![new] = e]
             /\ childrenOf' = [p \in Entity \cup {Root} |->
                                 IF new.parent = byId[e].parent THEN childrenOf[p]
                                 ELSE IF p = byId[e].parent THEN childrenOf[p] \ {e}
                                 ELSE IF p = new.parent THEN childrenOf[p] \cup {e}
                                 ELSE childrenOf[p]]
             /\ hidden' = hidden \cup Loses(byId[e], e) \cup Loses(new, e)
      PROVE  CacheTypes'
  <2>1. Loses(byId[e], e) \subseteq Entity /\ Loses(new, e) \subseteq Entity
    BY <1>2 DEF Loses, CacheTypes
  <2>2. childrenOf' \in [Entity \cup {Root} -> SUBSET Entity]
    BY <1>2 DEF CacheTypes
  <2>3. byId' \in [Entity -> Place \cup {None}] /\ hidden' \subseteq Entity
    BY <1>2, <2>1 DEF CacheTypes
  <2>4. childIndex' \in [Place -> Entity \cup {None}]
    BY <1>2 DEF CacheTypes
  <2> QED
    BY <2>2, <2>3, <2>4 DEF CacheTypes
<1> QED
  BY <1>1, <1>2, UpdateIs

LEMMA LoadTypes ==
  ASSUME NEW table0 \in [Entity -> Place \cup {None}], LoadFrom(table0), hidden' = {}
  PROVE  CacheTypes'
<1>1. childIndex' \in [Place -> Entity \cup {None}]
  <2>1. \A l \in Place : (\E e \in Entity : table0[e] = l) => (CHOOSE e \in Entity : table0[e] = l) \in Entity
    OBVIOUS
  <2> QED
    BY <2>1 DEF LoadFrom
<1> QED
  BY <1>1 DEF LoadFrom, CacheTypes

LEMMA TypesInit == Init => TypeOK /\ Jobs
<1> SUFFICES ASSUME Init PROVE TypeOK /\ Jobs
  OBVIOUS
<1>1. job \in [Task -> Work] /\ Jobs
  BY IdleOK DEF Init, Jobs, JobOK
<1>2. jobs \in 0..MaxJobs /\ crashes \in 0..MaxCrashes
  BY StoreAssumption DEF Init
<1> QED
  BY <1>1, <1>2 DEF Init, TypeOK, State

LEMMA TypesStep == TypeOK /\ Jobs /\ Undoing /\ [Next]_vars => TypeOK' /\ Jobs'
<1> SUFFICES ASSUME TypeOK, Jobs, Undoing, [Next]_vars PROVE TypeOK'
  BY JobsStep
<1>a. job' \in [Task -> Work]
  BY JobsStep
<1>b. CacheTypes
  BY DEF TypeOK, CacheTypes
<1>c. \A t \in Task : JobOK(job[t])
  BY DEF Jobs
<1>1. ASSUME NEW t \in Task, NEW j, Start(t, j) PROVE TypeOK'
  <2>1. jobs' \in 0..MaxJobs
    BY <1>1, StoreAssumption DEF Start, TypeOK
  <2> QED
    BY <1>a, <1>1, <2>1 DEF Start, TypeOK, table, cache, history
<1>2. ASSUME NEW t \in Task, CheckParent(t) \/ CheckEntity(t) \/ SelectToDelete(t) \/ SelectToUpdate(t)
      PROVE  TypeOK'
  BY <1>a, <1>2 DEF CheckParent, CheckEntity, SelectToDelete, SelectToUpdate, TypeOK, table, cache, history
<1>3. ASSUME NEW t \in Task, Insert(t) PROVE TypeOK'
  <2>1. job[t].to \in Place
    BY <1>3, <1>c DEF Insert, At, JobOK
  <2> QED
    BY <1>a, <1>3, <2>1 DEF Insert, TypeOK, cache, State
<1>4. ASSUME CacheTypes', UNCHANGED <<table, index, jobs, crashes, born, undone, reverted>>,
             drifted' \subseteq Entity
      PROVE  TypeOK'
  BY <1>a, <1>4 DEF TypeOK, CacheTypes, table
<1>5. ASSUME NEW t \in Task, CacheCreate(t) PROVE TypeOK'
  <2>1. job[t].to \in Place /\ job[t].id \in Entity
    BY <1>5, <1>c DEF CacheCreate, At, JobOK
  <2>2. CacheTypes'
    BY <1>b, <1>5, <2>1, AddTypes DEF CacheCreate
  <2> QED
    BY <1>4, <1>5, <2>2 DEF CacheCreate, TypeOK
<1>6. ASSUME NEW t \in Task, CacheDelete(t) PROVE TypeOK'
  <2>1. job[t].id \in Entity
    BY <1>6, <1>c DEF CacheDelete, JobOK
  <2>2. CacheTypes'
    BY <1>b, <1>6, <2>1, RemoveTypes DEF CacheDelete
  <2> QED
    BY <1>4, <1>6, <2>2 DEF CacheDelete, TypeOK
<1>7. ASSUME NEW t \in Task, CacheUpdate(t) PROVE TypeOK'
  <2>1. job[t].id \in Entity /\ job[t].to \in Place
    BY <1>7, <1>c DEF CacheUpdate, At, JobOK
  <2>2. CacheTypes'
    BY <1>b, <1>7, <2>1, UpdateTypes DEF CacheUpdate
  <2>3. drifted' \subseteq Entity
    BY <1>7, <2>1 DEF CacheUpdate, TypeOK
  <2> QED
    BY <1>4, <1>7, <2>2, <2>3 DEF CacheUpdate
<1>8. ASSUME NEW t \in Task, AddChildIndex(t) \/ RemoveChildIndex(t) PROVE TypeOK'
  <2>1. AddChildIndex(t) => job[t].to \in Place /\ job[t].id \in Entity
    BY <1>c DEF AddChildIndex, At, JobOK
  <2>2. index' \in [Place -> Entity \cup {None}]
    BY <1>8, <2>1 DEF AddChildIndex, RemoveChildIndex, StorageLocked, TypeOK
  <2> QED
    BY <1>a, <1>8, <2>2 DEF AddChildIndex, RemoveChildIndex, TypeOK, table, cache, history
<1>9. ASSUME NEW t \in Task, Trash(t) \/ Purge(t) \/ Restore(t) PROVE TypeOK'
  <2>1. job[t].was \in State /\ "none" \in State /\ "live" \in State
    BY <1>c DEF JobOK, Work, State
  <2>2. detail' \in [Entity -> State]
    BY <1>9, <2>1 DEF Trash, Purge, Restore, TypeOK
  <2>3. reverted' \subseteq Entity
    <3>1. Restore(t) => job[t].id \in Entity
      BY <1>c DEF Restore, At, JobOK
    <3> QED
      BY <1>9, <3>1 DEF Trash, Purge, Restore, TypeOK, history
  <2>4. UNCHANGED <<rows, undo, cache, index, jobs, crashes, born, undone, drifted, hidden>>
    BY <1>9 DEF Trash, Purge, Restore, history
  <2> QED
    BY <1>a, <2>2, <2>3, <2>4 DEF TypeOK, cache
<1>10. ASSUME NEW t \in Task, Begin(t) PROVE TypeOK'
  <2>1. [task |-> t, rows |-> rows, detail |-> detail] \in Transaction
    BY DEF TypeOK, Transaction
  <2> QED
    BY <1>a, <1>10, <2>1 DEF Begin, TypeOK, cache, history
<1>11. ASSUME NEW t \in Task, UpdateRow(t) PROVE TypeOK'
  <2> DEFINE e == job[t].id
             new == [parent |-> IF "parent" \in job[t].fields THEN job[t].to.parent ELSE rows[e].parent,
                     name |-> IF "name" \in job[t].fields THEN job[t].to.name ELSE rows[e].name]
  <2>1. e \in Entity /\ job[t].to \in Place
    BY <1>11, <1>c DEF UpdateRow, At, JobOK
  <2>2. rows[e] # None => rows[e] \in Place
    BY <2>1 DEF TypeOK
  <2>3. rows[e] # None => new \in Place
    BY <2>1, <2>2, PlaceParts DEF Place
  <2>4. UNCHANGED rows \/ (rows[e] # None /\ rows' = [rows EXCEPT ![e] = new])
    BY <1>11 DEF UpdateRow
  <2> HIDE DEF new
  <2>5. rows' \in [Entity -> Place \cup {None}]
    BY <2>1, <2>2, <2>3, <2>4 DEF TypeOK
  <2> QED
    BY <1>a, <1>11, <2>5 DEF UpdateRow, TypeOK, cache, history
<1>12. ASSUME NEW t \in Task, Commit(t) PROVE TypeOK'
  <2>1. job[t].id \in Entity
    BY <1>12, <1>c DEF Commit, At, JobOK
  <2> QED
    BY <1>a, <1>12, <2>1 DEF Commit, TypeOK, cache
<1>13. CASE UNCHANGED vars
  BY <1>13 DEF vars, TypeOK, table, cache, history
<1>14. ASSUME TakeBack, undo # None
       PROVE  /\ rows' \in [Entity -> Place \cup {None}] /\ detail' \in [Entity -> State]
              /\ undo' \in Transaction \cup {None} /\ undone' \subseteq Entity
  <2>1. undo \in Transaction
    BY <1>14 DEF TypeOK
  <2>2. undo.rows \in [Entity -> Place \cup {None}] /\ undo.detail \in [Entity -> State]
    BY <2>1 DEF Transaction
  <2> QED
    BY <1>14, <2>2 DEF TakeBack, TypeOK
<1>15. ASSUME NEW t \in Task, Rollback(t) PROVE TypeOK'
  <2>1. undo # None
    BY <1>15 DEF Rollback, At, Undoing, InTransaction
  <2> QED
    BY <1>a, <1>14, <1>15, <2>1 DEF Rollback, TypeOK, cache
<1>16. CASE Crash
  <2>1. /\ rows' \in [Entity -> Place \cup {None}] /\ detail' \in [Entity -> State]
        /\ undo' \in Transaction \cup {None} /\ undone' \subseteq Entity
    BY <1>14, <1>16 DEF Crash, TypeOK, table
  <2>2. crashes' \in 0..MaxCrashes
    BY <1>16, StoreAssumption DEF Crash, TypeOK
  <2>3. CacheTypes'
    BY <1>16, <2>1, LoadTypes DEF Crash
  <2> QED
    BY <1>a, <1>16, <2>1, <2>2, <2>3 DEF Crash, TypeOK, CacheTypes
<1> QED
  BY <1>1, <1>2, <1>3, <1>5, <1>6, <1>7, <1>8, <1>9, <1>10, <1>11, <1>12, <1>13, <1>15, <1>16, StartJobs
  DEF Next, Step

-----------------------------------------------------------------------------
(* Transactions.                                                           *)

LEMMA JobIs ==
  ASSUME job \in [Task -> Work], NEW t \in Task, NEW j, Do(t, j)
  PROVE  \A u \in Task : job'[u] = IF u = t THEN j ELSE job[u]
  BY DEF Do

LEMMA JobGone ==
  ASSUME job \in [Task -> Work], NEW t \in Task, Finish(t)
  PROVE  \A u \in Task : job'[u] = IF u = t THEN Idle ELSE job[u]
  BY DEF Do, Finish

LEMMA JobGoes ==
  ASSUME job \in [Task -> Work], NEW t \in Task, NEW pc, Go(t, pc)
  PROVE  /\ \A u \in Task : u # t => job'[u] = job[u]
         /\ job'[t].op = job[t].op /\ job'[t].pc = pc /\ job'[t].id = job[t].id
  BY DEF Do, Go, Work

LEMMA UndoOutside ==
  ASSUME Undoing, NEW t \in Task, undo' = undo, ~InTransaction(job'[t]),
         \A u \in Task : u # t => job'[u] = job[u],
         undo # None => \A e \in Entity : undo.rows[e] # None => rows'[e] = rows[e]
  PROVE  Undoing'
  BY DEF Undoing, InTransaction

LEMMA UndoingStep == TypeOK /\ Jobs /\ Undoing /\ Known /\ [Next]_vars => Undoing'
<1> SUFFICES ASSUME TypeOK, Jobs, Undoing, Known, [Next]_vars PROVE Undoing'
  OBVIOUS
<1>0. job \in [Task -> Work] /\ ~InTransaction(Idle)
  BY DEF TypeOK, InTransaction, Idle
<1>1. CASE UNCHANGED vars
  BY <1>1 DEF vars, table, Undoing, InTransaction
<1>2. CASE Crash
  BY <1>0, <1>2 DEF Crash, Undoing
<1>3. ASSUME NEW t \in Task, NEW j, Start(t, j), j.pc \in {"parent", "insert", "entity", "select"}
      PROVE  Undoing'
  <2>1. \A u \in Task : job'[u] = IF u = t THEN j ELSE job[u]
    BY <1>0, <1>3, JobIs DEF Start
  <2> QED
    BY <1>3, <2>1, UndoOutside DEF Start, InTransaction, table
<1>4. ASSUME NEW t \in Task, Finish(t), UNCHANGED <<rows, undo>> PROVE Undoing'
  BY <1>0, <1>4, JobGone, UndoOutside
<1>5. ASSUME NEW t \in Task, NEW pc \in Steps \ {"row", "commit", "rollback"}, Go(t, pc), UNCHANGED <<rows, undo>>
      PROVE  Undoing'
  BY <1>0, <1>5, JobGoes, UndoOutside DEF InTransaction
<1>6. ASSUME NEW t \in Task, CheckParent(t) PROVE Undoing'
  BY <1>4, <1>5, <1>6 DEF CheckParent, StorageLocked, table, Steps
<1>7. ASSUME NEW t \in Task, Insert(t) PROVE Undoing'
  <2>1. CASE Finish(t) /\ UNCHANGED rows
    BY <1>4, <1>7, <2>1 DEF Insert
  <2>2. ASSUME NEW e \in Entity \ born, rows' = [rows EXCEPT ![e] = job[t].to],
               Do(t, [job[t] EXCEPT !.pc = "cache", !.id = e])
        PROVE  Undoing'
    <3>1. /\ \A u \in Task : u # t => job'[u] = job[u]
          /\ job'[t].pc = "cache"
      BY <1>0, <2>2 DEF Do, Work
    <3>2. undo # None => \A d \in Entity : undo.rows[d] # None => rows'[d] = rows[d]
      BY <2>2 DEF Known, TypeOK
    <3> QED
      BY <1>7, <3>1, <3>2, UndoOutside DEF Insert, InTransaction
  <2> QED
    BY <1>7, <2>1, <2>2 DEF Insert
<1>8. ASSUME NEW t \in Task, CacheCreate(t) \/ AddChildIndex(t) \/ RemoveChildIndex(t) PROVE Undoing'
  BY <1>4, <1>5, <1>8 DEF CacheCreate, AddChildIndex, RemoveChildIndex, StorageLocked, table, Steps
<1>9. ASSUME NEW t \in Task, CheckEntity(t) PROVE Undoing'
  <2>1. ASSUME Do(t, [job[t] EXCEPT !.pc = "unindex", !.old = byId[job[t].id]]) PROVE Undoing'
    <3>1. /\ \A u \in Task : u # t => job'[u] = job[u]
          /\ job'[t].pc = "unindex"
      BY <1>0, <2>1 DEF Do, Work
    <3> QED
      BY <1>9, <3>1, UndoOutside DEF CheckEntity, InTransaction, table
  <2> QED
    BY <1>4, <1>5, <1>9, <2>1 DEF CheckEntity, table, Steps
<1>10. ASSUME NEW t \in Task, SelectToDelete(t) PROVE Undoing'
  <2>1. ASSUME NEW pc \in {"restore", "trash"}, NEW was, Do(t, [job[t] EXCEPT !.pc = pc, !.was = was])
        PROVE  Undoing'
    <3>1. /\ \A u \in Task : u # t => job'[u] = job[u]
          /\ job'[t].pc = pc
      BY <1>0, <2>1 DEF Do, Work
    <3> QED
      BY <1>10, <3>1, UndoOutside DEF SelectToDelete, InTransaction, table
  <2> QED
    BY <1>4, <1>10, <2>1 DEF SelectToDelete, table
<1>11. ASSUME NEW t \in Task, Trash(t) \/ CacheDelete(t) \/ Purge(t) \/ Restore(t) \/ CacheUpdate(t)
       PROVE  Undoing'
  BY <1>4, <1>5, <1>11 DEF Trash, CacheDelete, Purge, Restore, CacheUpdate, table, Steps
<1>12. ASSUME NEW t \in Task, SelectToUpdate(t) PROVE Undoing'
  <2>1. ASSUME Do(t, [job[t] EXCEPT !.pc = "begin", !.old = rows[job[t].id]]) PROVE Undoing'
    <3>1. /\ \A u \in Task : u # t => job'[u] = job[u]
          /\ job'[t].pc = "begin"
      BY <1>0, <2>1 DEF Do, Work
    <3> QED
      BY <1>12, <3>1, UndoOutside DEF SelectToUpdate, InTransaction, table
  <2> QED
    BY <1>4, <1>12, <2>1 DEF SelectToUpdate, table
<1>13. ASSUME NEW t \in Task, Begin(t) PROVE Undoing'
  <2>1. CASE UNCHANGED undo /\ Finish(t)
    BY <1>4, <1>13, <2>1 DEF Begin
  <2>2. CASE undo = None /\ undo' = [task |-> t, rows |-> rows, detail |-> detail] /\ Go(t, "row")
    <3>1. \A u \in Task : ~InTransaction(job[u])
      BY <2>2 DEF Undoing
    <3>2. \A u \in Task : u # t => ~InTransaction(job'[u])
      BY <1>0, <2>2, <3>1, JobGoes
    <3>3. undo' \in Transaction
      BY <2>2 DEF TypeOK, Transaction
    <3>4. undo' # None
      BY <3>3, StoreAssumption
    <3>5. undo'.task = t /\ undo'.rows = rows /\ rows' = rows
      BY <1>13, <2>2 DEF Begin
    <3> QED
      BY <3>2, <3>4, <3>5 DEF Undoing
  <2> QED
    BY <1>13, <2>1, <2>2 DEF Begin
<1>14. ASSUME NEW t \in Task, UpdateRow(t) PROVE Undoing'
  <2>1. InTransaction(job[t]) /\ job[t].pc = "row" /\ undo' = undo
    BY <1>14 DEF UpdateRow, At, InTransaction
  <2>2. \A u \in Task : u # t => ~InTransaction(job[u])
    BY <2>1 DEF Undoing
  <2>3. CASE Go(t, "commit")
    <3>1. (\A u \in Task : u # t => ~InTransaction(job'[u])) /\ job'[t].pc = "commit"
      BY <1>0, <2>2, <2>3, JobGoes
    <3> QED
      BY <2>1, <3>1 DEF Undoing
  <2>4. CASE UNCHANGED rows /\ Go(t, "rollback")
    <3>1. (\A u \in Task : u # t => ~InTransaction(job'[u])) /\ job'[t].pc = "rollback"
      BY <1>0, <2>2, <2>4, JobGoes
    <3> QED
      BY <2>1, <2>4, <3>1 DEF Undoing
  <2> QED
    BY <1>14, <2>3, <2>4 DEF UpdateRow
<1>15. ASSUME NEW t \in Task, Commit(t) \/ Rollback(t) PROVE Undoing'
  <2>1. InTransaction(job[t])
    BY <1>15 DEF Commit, Rollback, At, InTransaction
  <2>2. \A u \in Task : u # t => ~InTransaction(job[u])
    BY <2>1 DEF Undoing
  <2>3. \A u \in Task : ~InTransaction(job'[u])
    BY <1>0, <1>15, <2>2, JobGoes, JobGone DEF Commit, Rollback, InTransaction
  <2> QED
    BY <2>3 DEF Undoing
<1>16. ASSUME NEW t \in Task,
              VfsCreate(t) \/ VfsUnlink(t) \/ VfsSetstat(t) \/ EmsCreate(t) \/ EmsUpdate(t) \/ EmsOther(t)
       PROVE  Undoing'
  BY <1>3, <1>16, StartJobs
<1> QED
  BY <1>1, <1>2, <1>6, <1>7, <1>8, <1>9, <1>10, <1>11, <1>12, <1>13, <1>14, <1>15, <1>16 DEF Next, Step

-----------------------------------------------------------------------------
(* The table.                                                              *)

TableSame == rows' = rows /\ born' = born /\ undo' \in {undo, None}
TableNew == \E e \in Entity \ born, l \in Place :
  Allowed(l, e) /\ rows' = [rows EXCEPT ![e] = l] /\ born' = born \cup {e} /\ undo' = undo
TableMoved == \E e \in Entity, l \in Place :
  rows[e] # None /\ Allowed(l, e) /\ rows' = [rows EXCEPT ![e] = l] /\ born' = born /\ undo' = undo
TableKept == rows' = rows /\ born' = born /\ undo'.rows = rows
TableBack == undo # None /\ rows' = undo.rows /\ born' = born /\ undo' = None

LEMMA TableEffects ==
  ASSUME TypeOK, Jobs, Undoing, [Next]_vars
  PROVE  TableSame \/ TableNew \/ TableMoved \/ TableKept \/ TableBack
<1>1. CASE UNCHANGED vars
  BY <1>1 DEF vars, table, history, TableSame
<1>2. CASE Crash
  BY <1>2 DEF Crash, table, TakeBack, TableSame, TableBack
<1>3. ASSUME NEW t \in Task, NEW j, Start(t, j) PROVE TableSame
  BY <1>3 DEF Start, table, history, TableSame
<1>4. ASSUME NEW t \in Task, Step(t), UNCHANGED <<rows, undo, born>> PROVE TableSame
  BY <1>4 DEF TableSame
<1>5. ASSUME NEW t \in Task, Insert(t) PROVE TableSame \/ TableNew
  <2>1. job[t].to \in Place
    BY <1>5 DEF Insert, At, Jobs, JobOK
  <2> QED
    BY <1>5, <2>1 DEF Insert, TableSame, TableNew
<1>6. ASSUME NEW t \in Task, Begin(t) PROVE TableSame \/ TableKept
  BY <1>6 DEF Begin, TableSame, TableKept, history
<1>7. ASSUME NEW t \in Task, UpdateRow(t) PROVE TableSame \/ TableMoved
  <2> DEFINE e == job[t].id
             new == [parent |-> IF "parent" \in job[t].fields THEN job[t].to.parent ELSE rows[e].parent,
                     name |-> IF "name" \in job[t].fields THEN job[t].to.name ELSE rows[e].name]
  <2>1. e \in Entity /\ job[t].to \in Place
    BY <1>7 DEF UpdateRow, At, Jobs, JobOK
  <2>2. rows[e] # None => rows[e] \in Place
    BY <2>1 DEF TypeOK
  <2>3. rows[e] # None => new \in Place
    BY <2>1, <2>2, PlaceParts DEF Place
  <2>4. \/ UNCHANGED rows
        \/ rows[e] # None /\ Allowed(new, e) /\ rows' = [rows EXCEPT ![e] = new]
    BY <1>7 DEF UpdateRow
  <2>5. UNCHANGED <<undo, born>>
    BY <1>7 DEF UpdateRow, history
  <2> HIDE DEF new
  <2> QED
    BY <2>1, <2>3, <2>4, <2>5 DEF TableSame, TableMoved
<1>8. ASSUME NEW t \in Task, Commit(t) PROVE TableSame
  BY <1>8 DEF Commit, TableSame
<1>9. ASSUME NEW t \in Task, Rollback(t) PROVE TableBack
  BY <1>9 DEF Rollback, TakeBack, TableBack, At, Undoing, InTransaction
<1>10. ASSUME NEW t \in Task, \/ CheckParent(t) \/ CacheCreate(t) \/ AddChildIndex(t)
                              \/ CheckEntity(t) \/ RemoveChildIndex(t)
                              \/ SelectToDelete(t) \/ Trash(t) \/ CacheDelete(t) \/ Purge(t)
                              \/ Restore(t) \/ SelectToUpdate(t) \/ CacheUpdate(t)
       PROVE  TableSame
  BY <1>10 DEF CheckParent, CacheCreate, AddChildIndex, CheckEntity, RemoveChildIndex,
     SelectToDelete, Trash, CacheDelete, Purge, Restore, SelectToUpdate, CacheUpdate,
     table, history, TableSame
<1> QED
  BY <1>1, <1>2, <1>3, <1>5, <1>6, <1>7, <1>8, <1>9, <1>10, StartJobs DEF Next, Step

LEMMA UniqueStep ==
  ASSUME TypeOK, Jobs, Undoing, PlacesUnique, [Next]_vars PROVE PlacesUnique'
<1>0. Unique(rows) /\ (undo # None => Unique(undo.rows))
  BY DEF PlacesUnique
<1>1. CASE TableSame
  BY <1>0, <1>1 DEF TableSame, PlacesUnique, Unique
<1>2. ASSUME NEW e \in Entity, NEW l \in Place, Allowed(l, e), rows' = [rows EXCEPT ![e] = l], undo' = undo
      PROVE  PlacesUnique'
  <2>1. \A d \in Entity : rows'[d] = IF d = e THEN l ELSE rows[d]
    BY <1>2 DEF TypeOK
  <2>2. Unique(rows')
    BY <1>0, <1>2, <2>1 DEF Unique, Allowed
  <2> QED
    BY <1>0, <1>2, <2>2 DEF PlacesUnique, Unique
<1>3. CASE TableKept \/ TableBack
  BY <1>0, <1>3 DEF TableKept, TableBack, PlacesUnique, Unique
<1> QED
  BY <1>1, <1>2, <1>3, TableEffects DEF TableNew, TableMoved

LEMMA KnownRows ==
  ASSUME TypeOK, Jobs, Undoing, Known, [Next]_vars
  PROVE  /\ \A e \in Entity : rows'[e] # None => e \in born'
         /\ undo' # None => \A e \in Entity : undo'.rows[e] # None => e \in born'
         /\ born \subseteq born'
<1>0. /\ \A e \in Entity : rows[e] # None => e \in born
      /\ undo # None => \A e \in Entity : undo.rows[e] # None => e \in born
  BY DEF Known
<1>1. CASE TableSame \/ TableKept \/ TableBack
  BY <1>0, <1>1 DEF TableSame, TableKept, TableBack
<1>2. CASE TableNew \/ TableMoved
  BY <1>0, <1>2 DEF TableNew, TableMoved, TypeOK
<1> QED
  BY <1>1, <1>2, TableEffects

-----------------------------------------------------------------------------
(* The cache.                                                              *)

(* What the invariants of the cache need to know of a step.                *)
LEMMA UntoldStays ==
  ASSUME TypeOK, Jobs, NEW t \in Task, NEW j, Do(t, j), ~Untold(j)
  PROVE  \A u \in Task : Untold(job'[u]) => u # t /\ job'[u] = job[u]
  BY JobIs DEF TypeOK

Silent ==
  /\ UNCHANGED <<cache, hidden, born>>
  /\ \A u \in Task : Untold(job'[u]) => job'[u] = job[u]

LEMMA CacheEffects ==
  ASSUME TypeOK, Jobs, [Next]_vars
  PROVE  \/ Silent \/ Crash
         \/ \E t \in Task : \/ Insert(t) /\ ~Silent
                            \/ CacheCreate(t) \/ CacheDelete(t) \/ CacheUpdate(t)
<1>0. ~Untold(Idle)
  BY DEF Untold, Idle
<1>1. CASE UNCHANGED vars
  BY <1>1 DEF vars, history, Silent
<1>2. ASSUME NEW t \in Task, NEW j, Start(t, j), j.pc \in {"parent", "insert", "entity", "select"}
      PROVE  Silent
  BY <1>2, UntoldStays DEF Start, history, Silent, Untold
<1>3. ASSUME NEW t \in Task, NEW pc \in Steps, Go(t, pc), pc # "cache" \/ job[t].op # "create",
             UNCHANGED <<cache, hidden, born>>
      PROVE  Silent
  <2>1. ~Untold([job[t] EXCEPT !.pc = pc])
    BY <1>3 DEF Untold, TypeOK, Work
  <2> QED
    BY <1>3, <2>1, UntoldStays DEF Go, Silent
<1>4. ASSUME NEW t \in Task, Finish(t), UNCHANGED <<cache, hidden, born>> PROVE Silent
  BY <1>0, <1>4, UntoldStays DEF Finish, Silent
<1>5. ASSUME NEW t \in Task, CheckParent(t) \/ AddChildIndex(t) \/ RemoveChildIndex(t) PROVE Silent
  BY <1>3, <1>4, <1>5 DEF CheckParent, AddChildIndex, RemoveChildIndex, StorageLocked, history, Steps
<1>6. ASSUME NEW t \in Task, CheckEntity(t) PROVE Silent
  <2>1. ASSUME Do(t, [job[t] EXCEPT !.pc = "unindex", !.old = byId[job[t].id]]) PROVE Silent
    <3>1. ~Untold([job[t] EXCEPT !.pc = "unindex", !.old = byId[job[t].id]])
      BY DEF Untold, TypeOK, Work
    <3> QED
      BY <1>6, <2>1, <3>1, UntoldStays DEF CheckEntity, Silent, history
  <2> QED
    BY <1>3, <1>4, <1>6, <2>1 DEF CheckEntity, history, Steps
<1>7. ASSUME NEW t \in Task, SelectToDelete(t) PROVE Silent
  <2>1. ASSUME NEW pc \in {"restore", "trash"}, NEW was, Do(t, [job[t] EXCEPT !.pc = pc, !.was = was])
        PROVE  Silent
    <3>1. ~Untold([job[t] EXCEPT !.pc = pc, !.was = was])
      BY DEF Untold, TypeOK, Work
    <3> QED
      BY <1>7, <2>1, <3>1, UntoldStays DEF SelectToDelete, Silent, history
  <2> QED
    BY <1>4, <1>7, <2>1 DEF SelectToDelete, history
<1>8. ASSUME NEW t \in Task, Trash(t) \/ Commit(t) \/ Rollback(t) PROVE Silent
  <2>1. Trash(t) \/ Commit(t) => job[t].op # "create"
    BY DEF Trash, Commit, At, Jobs, JobOK
  <2> QED
    BY <1>3, <1>4, <1>8, <2>1 DEF Trash, Commit, Rollback, history, Steps
<1>9. ASSUME NEW t \in Task, Purge(t) \/ Restore(t) \/ Begin(t) \/ UpdateRow(t) PROVE Silent
  BY <1>3, <1>4, <1>9 DEF Purge, Restore, Begin, UpdateRow, history, Steps
<1>10. ASSUME NEW t \in Task, SelectToUpdate(t) PROVE Silent
  <2>1. ASSUME Do(t, [job[t] EXCEPT !.pc = "begin", !.old = rows[job[t].id]]) PROVE Silent
    <3>1. ~Untold([job[t] EXCEPT !.pc = "begin", !.old = rows[job[t].id]])
      BY DEF Untold, TypeOK, Work
    <3> QED
      BY <1>10, <2>1, <3>1, UntoldStays DEF SelectToUpdate, Silent, history
  <2> QED
    BY <1>4, <1>10, <2>1 DEF SelectToUpdate, history
<1>11. ASSUME NEW t \in Task,
              VfsCreate(t) \/ VfsUnlink(t) \/ VfsSetstat(t) \/ EmsCreate(t) \/ EmsUpdate(t) \/ EmsOther(t)
       PROVE  Silent
  BY <1>2, <1>11, StartJobs
<1> QED
  BY <1>1, <1>5, <1>6, <1>7, <1>8, <1>9, <1>10, <1>11 DEF Next, Step

Sound == Keys /\ Children /\ Missed

LEMMA NoneIsNothing == \A l \in Place \cup Entity : l # None
  BY StoreAssumption

LEMMA AddKeeps ==
  ASSUME CacheTypes, Sound, NEW e \in Entity, NEW l \in Place, byId[e] = None, AddEntry(e, l)
  PROVE  Sound' /\ \A p, d : d \in Entity /\ p \in Entity \cup {Root} =>
                     (d \in childrenOf'[p] <=> d \in childrenOf[p] \/ (d = e /\ p = l.parent))
<1>1. \A d \in Entity : byId'[d] = IF d = e THEN l ELSE byId[d]
  BY DEF AddEntry, CacheTypes
<1>2. \A k \in Place : childIndex'[k] = IF k = l THEN e ELSE childIndex[k]
  BY DEF AddEntry, CacheTypes
<1>3. l.parent \in Entity \cup {Root}
  BY PlaceParts
<1>4. \A p \in Entity \cup {Root} :
        childrenOf'[p] = IF p = l.parent THEN childrenOf[p] \cup {e} ELSE childrenOf[p]
  BY <1>3 DEF AddEntry, CacheTypes
<1>5. Keys'
  <2> SUFFICES ASSUME NEW k \in Place, childIndex'[k] # None PROVE byId'[childIndex'[k]] = k
    BY DEF Keys
  <2>1. CASE k = l
    BY <2>1, <1>1, <1>2
  <2>2. CASE k # l
    <3>1. childIndex[k] \in Entity /\ byId[childIndex[k]] = k
      BY <2>2, <1>2 DEF Sound, Keys, CacheTypes
    <3> QED
      BY <3>1, <2>2, <1>1, <1>2, NoneIsNothing
  <2> QED
    BY <2>1, <2>2
<1>6. Children'
  <2> SUFFICES ASSUME NEW p \in Entity \cup {Root}, NEW d \in Entity, d \in childrenOf'[p]
               PROVE  byId'[d] # None /\ byId'[d].parent = p
    BY DEF Children
  <2>1. d \in childrenOf[p] => byId[d] # None /\ byId[d].parent = p
    BY DEF Sound, Children
  <2>2. CASE d = e
    <3>1. p = l.parent
      BY <2>1, <2>2, <1>4
    <3> QED
      BY <2>2, <3>1, <1>1, NoneIsNothing
  <2>3. CASE d # e
    BY <2>1, <2>3, <1>1, <1>4
  <2> QED
    BY <2>2, <2>3
<1>7. Missed'
  <2> SUFFICES ASSUME NEW d \in Entity, byId'[d] # None, d \notin hidden'
               PROVE  childIndex'[byId'[d]] = d
    BY DEF Missed
  <2>1. CASE d = e
    BY <2>1, <1>1, <1>2
  <2>2. CASE d # e
    <3>1. byId[d] \in Place /\ childIndex[byId[d]] = d
      BY <2>2, <1>1 DEF Sound, Missed, CacheTypes, AddEntry
    <3>2. byId[d] # l
      BY <2>2, <3>1, NoneIsNothing DEF AddEntry, Loses
    <3> QED
      BY <2>2, <3>1, <3>2, <1>1, <1>2
  <2> QED
    BY <2>1, <2>2
<1> QED
  BY <1>4, <1>5, <1>6, <1>7 DEF Sound

LEMMA RemoveKeeps ==
  ASSUME CacheTypes, Sound, NEW e \in Entity, byId[e] # None, RemoveEntry(e)
  PROVE  /\ Sound'
         /\ \A d \in Entity : byId'[d] = IF d = e THEN None ELSE byId[d]
         /\ \A p, d : d \in Entity /\ d # e /\ p \in Entity \cup {Root} /\ p # e =>
              (d \in childrenOf'[p] <=> d \in childrenOf[p])
<1>0. byId[e] \in Place /\ byId[e].parent \in Entity \cup {Root}
  BY PlaceParts DEF CacheTypes
<1>1. \A d \in Entity : byId'[d] = IF d = e THEN None ELSE byId[d]
  BY DEF RemoveEntry, CacheTypes
<1>2. \A k \in Place : childIndex'[k] = IF k = byId[e] THEN None ELSE childIndex[k]
  BY DEF RemoveEntry, CacheTypes
<1>3. \A p \in Entity \cup {Root} :
        childrenOf'[p] = IF p = e THEN {} ELSE IF p = byId[e].parent THEN childrenOf[p] \ {e}
                         ELSE childrenOf[p]
  <2>1. DOMAIN childrenOf = Entity \cup {Root}
    BY DEF CacheTypes
  <2> QED
    BY <2>1 DEF RemoveEntry
<1>4. Keys'
  <2> SUFFICES ASSUME NEW k \in Place, childIndex'[k] # None PROVE byId'[childIndex'[k]] = k
    BY DEF Keys
  <2>1. k # byId[e] /\ childIndex'[k] = childIndex[k]
    BY <1>2
  <2>2. childIndex[k] \in Entity /\ byId[childIndex[k]] = k
    BY <2>1 DEF Sound, Keys, CacheTypes
  <2> QED
    BY <2>1, <2>2, <1>1
<1>5. Children'
  <2> SUFFICES ASSUME NEW p \in Entity \cup {Root}, NEW d \in Entity, d \in childrenOf'[p]
               PROVE  byId'[d] # None /\ byId'[d].parent = p
    BY DEF Children
  <2>1. d \in childrenOf[p] /\ (p = byId[e].parent => d # e)
    BY <1>3
  <2>2. byId[d] # None /\ byId[d].parent = p
    BY <2>1 DEF Sound, Children
  <2> QED
    BY <2>1, <2>2, <1>1
<1>6. Missed'
  <2> SUFFICES ASSUME NEW d \in Entity, byId'[d] # None, d \notin hidden'
               PROVE  childIndex'[byId'[d]] = d
    BY DEF Missed
  <2>1. d # e /\ byId'[d] = byId[d]
    BY <1>1
  <2>2. byId[d] \in Place /\ childIndex[byId[d]] = d
    BY <2>1 DEF Sound, Missed, CacheTypes, RemoveEntry
  <2>3. byId[d] # byId[e]
    BY <2>1, <2>2, NoneIsNothing DEF RemoveEntry, Loses
  <2> QED
    BY <2>1, <2>2, <2>3, <1>2
<1> QED
  BY <1>1, <1>3, <1>4, <1>5, <1>6 DEF Sound

LEMMA MoveKeeps ==
  ASSUME CacheTypes, Sound, NEW e \in Entity, NEW new \in Place,
         byId[e] \in Place, byId[e] # None, new # byId[e],
         byId' = [byId EXCEPT ![e] = new],
         childIndex' = [childIndex EXCEPT ![byId[e]] = None, ![new] = e],
         childrenOf' = [p \in Entity \cup {Root} |->
                          IF new.parent = byId[e].parent THEN childrenOf[p]
                          ELSE IF p = byId[e].parent THEN childrenOf[p] \ {e}
                          ELSE IF p = new.parent THEN childrenOf[p] \cup {e}
                          ELSE childrenOf[p]],
         hidden' = hidden \cup Loses(byId[e], e) \cup Loses(new, e)
  PROVE  /\ Sound'
         /\ \A d \in Entity : byId'[d] = IF d = e THEN new ELSE byId[d]
         /\ \A p, d : d \in Entity /\ p \in Entity \cup {Root} =>
              /\ d # e => (d \in childrenOf'[p] <=> d \in childrenOf[p])
              /\ d = e /\ new.parent # byId[e].parent /\ p = new.parent => d \in childrenOf'[p]
              /\ new.parent = byId[e].parent => childrenOf'[p] = childrenOf[p]
<1>0. /\ byId[e].parent \in Entity \cup {Root} /\ new.parent \in Entity \cup {Root}
      /\ e # None
  BY PlaceParts, NoneIsNothing
<1>1. \A d \in Entity : byId'[d] = IF d = e THEN new ELSE byId[d]
  BY DEF CacheTypes
<1>2. \A k \in Place : childIndex'[k] = IF k = new THEN e ELSE IF k = byId[e] THEN None ELSE childIndex[k]
  BY DEF CacheTypes
<1>3. \A p \in Entity \cup {Root} :
        childrenOf'[p] = IF new.parent = byId[e].parent THEN childrenOf[p]
                         ELSE IF p = byId[e].parent THEN childrenOf[p] \ {e}
                         ELSE IF p = new.parent THEN childrenOf[p] \cup {e}
                         ELSE childrenOf[p]
  OBVIOUS
<1>4. Keys'
  <2> SUFFICES ASSUME NEW k \in Place, childIndex'[k] # None PROVE byId'[childIndex'[k]] = k
    BY DEF Keys
  <2>1. CASE k = new
    BY <2>1, <1>1, <1>2
  <2>2. CASE k # new
    <3>1. k # byId[e] /\ childIndex'[k] = childIndex[k]
      BY <2>2, <1>2
    <3>2. childIndex[k] \in Entity /\ byId[childIndex[k]] = k
      BY <3>1 DEF Sound, Keys, CacheTypes
    <3> QED
      BY <3>1, <3>2, <1>1
  <2> QED
    BY <2>1, <2>2
<1>5. Children'
  <2> SUFFICES ASSUME NEW p \in Entity \cup {Root}, NEW d \in Entity, d \in childrenOf'[p]
               PROVE  byId'[d] # None /\ byId'[d].parent = p
    BY DEF Children
  <2>1. CASE d = e
    <3>1. d \in childrenOf[p] => p = byId[e].parent
      BY <2>1 DEF Sound, Children
    <3>2. p = new.parent
      BY <2>1, <3>1, <1>3
    <3> QED
      BY <2>1, <3>2, <1>1, NoneIsNothing
  <2>2. CASE d # e
    <3>1. d \in childrenOf[p]
      BY <2>2, <1>3
    <3>2. byId[d] # None /\ byId[d].parent = p
      BY <3>1 DEF Sound, Children
    <3> QED
      BY <2>2, <3>2, <1>1
  <2> QED
    BY <2>1, <2>2
<1>6. Missed'
  <2> SUFFICES ASSUME NEW d \in Entity, byId'[d] # None, d \notin hidden'
               PROVE  childIndex'[byId'[d]] = d
    BY DEF Missed
  <2>1. CASE d = e
    BY <2>1, <1>1, <1>2
  <2>2. CASE d # e
    <3>1. byId'[d] = byId[d] /\ d \notin hidden
      BY <2>2, <1>1
    <3>2. byId[d] \in Place /\ childIndex[byId[d]] = d
      BY <3>1 DEF Sound, Missed, CacheTypes
    <3>3. byId[d] # byId[e] /\ byId[d] # new
      BY <2>2, <3>2, NoneIsNothing DEF Loses
    <3> QED
      BY <3>1, <3>2, <3>3, <1>2
  <2> QED
    BY <2>1, <2>2
<1> QED
  BY <1>1, <1>3, <1>4, <1>5, <1>6 DEF Sound

LEMMA LoadKeeps ==
  ASSUME NEW table0 \in [Entity -> Place \cup {None}], Unique(table0), LoadFrom(table0)
  PROVE  Sound' /\ Family'
<1>1. byId' = table0
  BY DEF LoadFrom
<1>2. \A l \in Place : childIndex'[l] = IF \E e \in Entity : table0[e] = l
                                        THEN CHOOSE e \in Entity : table0[e] = l ELSE None
  BY DEF LoadFrom
<1>3. \A p \in Entity \cup {Root} :
        childrenOf'[p] = {e \in Entity : table0[e] # None /\ table0[e].parent = p}
  BY DEF LoadFrom
<1>4. ASSUME NEW e \in Entity, table0[e] # None
      PROVE  table0[e] \in Place /\ childIndex'[table0[e]] = e
  <2>1. table0[e] \in Place
    BY <1>4
  <2>2. \A d \in Entity : table0[d] = table0[e] => d = e
    BY <1>4 DEF Unique
  <2>3. (CHOOSE d \in Entity : table0[d] = table0[e]) = e
    BY <2>2
  <2> QED
    BY <2>1, <2>3, <1>2
<1>5. Keys'
  <2> SUFFICES ASSUME NEW l \in Place, childIndex'[l] # None PROVE table0[childIndex'[l]] = l
    BY <1>1 DEF Keys
  <2>1. PICK e \in Entity : table0[e] = l
    BY <1>2
  <2>2. childIndex'[l] = e
    BY <2>1, <1>4, NoneIsNothing
  <2> QED
    BY <2>1, <2>2
<1>6. Children'
  BY <1>1, <1>3 DEF Children
<1>7. Missed'
  BY <1>1, <1>4 DEF Missed
<1>8. Family'
  BY <1>1, <1>3 DEF Family
<1> QED
  BY <1>5, <1>6, <1>7, <1>8 DEF Sound

CacheInv == Telling /\ Sound /\ Family
StoreInv == TypeOK /\ Jobs /\ Undoing /\ Known /\ PlacesUnique /\ CacheInv

LEMMA InsertKeeps ==
  ASSUME StoreInv, NEW t \in Task, Insert(t), ~Silent
  PROVE  CacheInv' /\ UNCHANGED byId
<1> USE DEF StoreInv, CacheInv
<1>0. UNCHANGED <<cache, hidden>>
  BY DEF Insert
<1>1. PICK e \in Entity \ born : /\ born' = born \cup {e}
                                 /\ Do(t, [job[t] EXCEPT !.pc = "cache", !.id = e])
  <2>1. ASSUME Finish(t), UNCHANGED born PROVE Silent
    <3>1. ~Untold(Idle)
      BY DEF Untold, Idle
    <3> QED
      BY <1>0, <2>1, <3>1, UntoldStays DEF Finish, Silent
  <2> QED
    BY <2>1 DEF Insert
<1>2. /\ \A u \in Task : u # t => job'[u] = job[u]
      /\ Untold(job'[t]) /\ job'[t].id = e
  BY <1>1 DEF Do, TypeOK, Work, Insert, At, Untold
<1>3. ~Untold(job[t])
  BY DEF Untold, Insert, At
<1>4. byId[e] = None /\ byId' = byId /\ childrenOf' = childrenOf /\ childIndex' = childIndex /\ hidden' = hidden
  BY <1>0 DEF cache, Known
<1>5. Telling'
  <2>1. \A u \in Task : u # t /\ Untold(job'[u]) => job'[u].id \in born /\ job'[u].id # e
    BY <1>1, <1>2 DEF Telling
  <2> QED
    BY <1>1, <1>2, <1>4, <2>1 DEF Telling
<1>6. \A p : Present(p)' => Present(p)
  BY <1>1, <1>2, <1>4 DEF Present, Awaited
<1>7. Family'
  BY <1>4, <1>6 DEF Family
<1> QED
  BY <1>4, <1>5, <1>7 DEF Sound, Keys, Children, Missed

LEMMA TellKeeps ==
  ASSUME StoreInv, NEW t \in Task, CacheCreate(t)
  PROVE  CacheInv' /\ \A e \in Entity : byId'[e] # None => e \in born
<1> USE DEF StoreInv, CacheInv
<1> DEFINE e == job[t].id
           l == job[t].to
<1>0. CacheTypes
  BY DEF TypeOK, CacheTypes
<1>1. Untold(job[t]) /\ e \in Entity /\ l \in Place /\ AddEntry(e, l) /\ born' = born
  BY DEF CacheCreate, At, Untold, Jobs, JobOK
<1>2. byId[e] = None /\ e \in born
  BY <1>1 DEF Telling
<1>3. Sound' /\ \A p, d : d \in Entity /\ p \in Entity \cup {Root} =>
                  (d \in childrenOf'[p] <=> d \in childrenOf[p] \/ (d = e /\ p = l.parent))
  BY <1>0, <1>1, <1>2, AddKeeps
<1>4. \A d \in Entity : byId'[d] = IF d = e THEN l ELSE byId[d]
  BY <1>0, <1>1 DEF AddEntry, CacheTypes
<1>5. \A u \in Task : Untold(job'[u]) => u # t /\ job'[u] = job[u]
  <2>1. ~Untold(Idle) /\ ~Untold([job[t] EXCEPT !.pc = "index"])
    BY DEF Untold, Idle, TypeOK, Work
  <2> QED
    BY <2>1, UntoldStays DEF CacheCreate, Go, Finish
<1>6. \A u \in Task : Untold(job'[u]) => job'[u].id # e
  BY <1>1, <1>5 DEF Telling
<1>7. Telling'
  <2>1. \A u \in Task : Untold(job'[u]) => job'[u].id \in Entity
    BY <1>5 DEF Jobs, JobOK, Untold
  <2> QED
    BY <1>1, <1>4, <1>5, <1>6, <2>1 DEF Telling
<1>8. \A p \in Entity \cup {Root} : Present(p)' => Present(p)
  <2> SUFFICES ASSUME NEW p \in Entity \cup {Root}, Present(p)' PROVE Present(p)
    OBVIOUS
  <2>1. CASE p = e
    BY <2>1, <1>1 DEF Present, Awaited
  <2>2. CASE Awaited(p)'
    BY <2>2, <1>5 DEF Present, Awaited
  <2>3. CASE p # e /\ ~Awaited(p)'
    BY <2>3, <1>1, <1>4 DEF Present
  <2> QED
    BY <2>1, <2>2, <2>3
<1>9. Family'
  BY <1>3, <1>4, <1>8 DEF Family
<1> QED
  BY <1>2, <1>3, <1>4, <1>7, <1>9 DEF Known

LEMMA ForgetKeeps ==
  ASSUME StoreInv, NEW t \in Task, CacheDelete(t)
  PROVE  CacheInv' /\ \A e \in Entity : byId'[e] # None => e \in born
<1> USE DEF StoreInv, CacheInv
<1> DEFINE e == job[t].id
<1>0. CacheTypes
  BY DEF TypeOK, CacheTypes
<1>1. e \in Entity /\ RemoveEntry(e) /\ born' = born
  BY DEF CacheDelete, Jobs, JobOK
<1>2. \A u \in Task : Untold(job'[u]) => job'[u] = job[u]
  <2>1. ~Untold(Idle) /\ ~Untold([job[t] EXCEPT !.pc = "purge"])
    BY DEF Untold, Idle, TypeOK, Work
  <2> QED
    BY <2>1, UntoldStays DEF CacheDelete, Go, Finish
<1>3. CASE byId[e] = None
  <2>1. UNCHANGED <<byId, childIndex, childrenOf, hidden, born>>
    BY <1>1, <1>3 DEF RemoveEntry, cache
  <2>2. Telling'
    BY <1>2, <2>1 DEF Telling
  <2>3. \A p : Present(p)' => Present(p)
    BY <1>2, <2>1 DEF Present, Awaited
  <2>4. Family'
    BY <2>1, <2>3 DEF Family
  <2> QED
    BY <2>1, <2>2, <2>4 DEF Sound, Keys, Children, Missed, Known
<1>4. CASE byId[e] # None
  <2>1. /\ Sound'
        /\ \A d \in Entity : byId'[d] = IF d = e THEN None ELSE byId[d]
        /\ \A p, d : d \in Entity /\ d # e /\ p \in Entity \cup {Root} /\ p # e =>
             (d \in childrenOf'[p] <=> d \in childrenOf[p])
    BY <1>0, <1>1, <1>4, RemoveKeeps
  <2>2. Telling'
    <3>1. \A u \in Task : Untold(job'[u]) => job'[u].id \in Entity
      BY <1>2 DEF Jobs, JobOK, Untold
    <3> QED
      BY <1>1, <1>2, <2>1, <3>1 DEF Telling
  <2>3. ~Awaited(e) /\ e \in born /\ e # Root
    BY <1>1, <1>4, StoreAssumption DEF Awaited, Telling, Known
  <2>4. \A p \in Entity \cup {Root} : Present(p)' => Present(p) /\ p # e
    <3> SUFFICES ASSUME NEW p \in Entity \cup {Root}, Present(p)' PROVE Present(p) /\ p # e
      OBVIOUS
    <3>1. Awaited(p)' => Awaited(p)
      BY <1>2 DEF Awaited
    <3>2. CASE p = e
      BY <3>1, <3>2, <2>1, <2>3, <1>1 DEF Present
    <3>3. CASE p # e
      BY <3>1, <3>3, <2>1, <1>1 DEF Present
    <3> QED
      BY <3>2, <3>3
  <2>5. Family'
    BY <2>1, <2>4 DEF Family
  <2> QED
    BY <2>1, <2>2, <2>5 DEF Known
<1> QED
  BY <1>3, <1>4

LEMMA RefreshKeeps ==
  ASSUME StoreInv, NEW t \in Task, CacheUpdate(t)
  PROVE  CacheInv' /\ \A e \in Entity : byId'[e] # None => e \in born
<1> USE DEF StoreInv, CacheInv
<1> DEFINE e == job[t].id
<1>0. CacheTypes
  BY DEF TypeOK, CacheTypes
<1>1. e \in Entity /\ job[t].to \in Place /\ born' = born
  BY DEF CacheUpdate, At, Jobs, JobOK
<1>2. \A u \in Task : Untold(job'[u]) => job'[u] = job[u]
  <2>1. ~Untold(Idle)
    BY DEF Untold, Idle
  <2> QED
    BY <2>1, UntoldStays DEF CacheUpdate, Finish
<1>a. PICK changed : UpdateEntry(e, job[t].to, changed)
  BY DEF CacheUpdate
<1>3. CASE UNCHANGED <<cache, hidden>>
  <2>1. UNCHANGED <<byId, childIndex, childrenOf, hidden, born>>
    BY <1>1, <1>3 DEF cache
  <2>2. Telling'
    BY <1>2, <2>1 DEF Telling
  <2>3. \A p : Present(p)' => Present(p)
    BY <1>2, <2>1 DEF Present, Awaited
  <2>4. Family'
    BY <2>1, <2>3 DEF Family
  <2> QED
    BY <2>1, <2>2, <2>4 DEF Sound, Keys, Children, Missed, Known
<1>4. ASSUME NEW new \in Place,
             /\ byId[e] \in Place /\ byId[e] # None /\ new # byId[e]
             /\ byId' = [byId EXCEPT ![e] = new]
             /\ childIndex' = [childIndex EXCEPT ![byId[e]] = None, ![new] = e]
             /\ childrenOf' = [p \in Entity \cup {Root} |->
                                 IF new.parent = byId[e].parent THEN childrenOf[p]
                                 ELSE IF p = byId[e].parent THEN childrenOf[p] \ {e}
                                 ELSE IF p = new.parent THEN childrenOf[p] \cup {e}
                                 ELSE childrenOf[p]]
             /\ hidden' = hidden \cup Loses(byId[e], e) \cup Loses(new, e)
      PROVE  CacheInv' /\ \A d \in Entity : byId'[d] # None => d \in born
  <2>1. /\ Sound'
        /\ \A d \in Entity : byId'[d] = IF d = e THEN new ELSE byId[d]
        /\ \A p, d : d \in Entity /\ p \in Entity \cup {Root} =>
             /\ d # e => (d \in childrenOf'[p] <=> d \in childrenOf[p])
             /\ d = e /\ new.parent # byId[e].parent /\ p = new.parent => d \in childrenOf'[p]
             /\ new.parent = byId[e].parent => childrenOf'[p] = childrenOf[p]
    <3> HIDE DEF e
    <3> QED
      BY <1>0, <1>1, <1>4, MoveKeeps
  <2>2. Telling'
    <3>1. \A u \in Task : Untold(job'[u]) => job'[u].id \in Entity
      BY <1>2 DEF Jobs, JobOK, Untold
    <3> QED
      BY <1>1, <1>2, <1>4, <2>1, <3>1 DEF Telling
  <2>3. \A p \in Entity \cup {Root} : Present(p)' => Present(p)
    <3> SUFFICES ASSUME NEW p \in Entity \cup {Root}, Present(p)' PROVE Present(p)
      OBVIOUS
    <3>1. Awaited(p)' => Awaited(p)
      BY <1>2 DEF Awaited
    <3> QED
      BY <3>1, <2>1, <1>1, <1>4 DEF Present
  <2>4. Family'
    <3> SUFFICES ASSUME NEW d \in Entity, NEW p \in Entity \cup {Root},
                        byId'[d] # None, byId'[d].parent = p, Present(p)'
                 PROVE  d \in childrenOf'[p]
      BY DEF Family
    <3>1. CASE d # e
      BY <3>1, <2>1, <2>3 DEF Family
    <3>2. CASE d = e /\ new.parent # byId[e].parent
      BY <3>2, <2>1
    <3>3. CASE d = e /\ new.parent = byId[e].parent
      BY <3>3, <2>1, <2>3, <1>4 DEF Family
    <3> QED
      BY <3>1, <3>2, <3>3
  <2> QED
    BY <2>1, <2>2, <2>4, <1>1, <1>4 DEF Known
<1> QED
  BY <1>0, <1>1, <1>a, <1>3, <1>4, UpdateIs

LEMMA CacheStep ==
  ASSUME StoreInv, [Next]_vars, TypeOK', PlacesUnique', \A e \in Entity : rows'[e] # None => e \in born'
  PROVE  CacheInv' /\ \A e \in Entity : byId'[e] # None => e \in born'
<1> USE DEF StoreInv, CacheInv
<1>0. born \subseteq born'
  BY KnownRows
<1>1. CASE Silent
  <2>1. UNCHANGED <<byId, childIndex, childrenOf, hidden, born>>
    BY <1>1 DEF Silent, cache
  <2>2. Telling'
    BY <1>1, <2>1 DEF Telling, Silent
  <2>3. \A p : Present(p)' => Present(p)
    BY <1>1, <2>1 DEF Present, Awaited, Silent
  <2>4. Family'
    BY <2>1, <2>3 DEF Family
  <2> QED
    BY <2>1, <2>2, <2>4 DEF Sound, Keys, Children, Missed, Known
<1>2. CASE Crash
  <2>1. Telling'
    BY <1>2 DEF Crash, Telling, Untold, Idle
  <2>2. rows' \in [Entity -> Place \cup {None}] /\ Unique(rows') /\ LoadFrom(rows')
    BY <1>2 DEF Crash, TypeOK, PlacesUnique, Unique
  <2>3. Sound' /\ Family'
    BY <2>2, LoadKeeps
  <2>4. byId' = rows'
    BY <2>2 DEF LoadFrom
  <2> QED
    BY <2>1, <2>3, <2>4
<1>3. ASSUME NEW t \in Task, Insert(t), ~Silent PROVE CacheInv' /\ \A e \in Entity : byId'[e] # None => e \in born
  BY <1>3, InsertKeeps DEF Known
<1> QED
  BY <1>0, <1>1, <1>2, <1>3, TellKeeps, ForgetKeeps, RefreshKeeps, CacheEffects

LEMMA StoreInit == Init => StoreInv
<1> SUFFICES ASSUME Init PROVE StoreInv
  OBVIOUS
<1>1. \A t \in Task : ~InTransaction(job[t]) /\ ~Untold(job[t])
  BY DEF Init, InTransaction, Untold, Idle
<1>2. Undoing /\ Telling
  BY <1>1 DEF Undoing, Telling
<1>3. Known /\ PlacesUnique /\ Sound /\ Family
  BY DEF Init, Known, PlacesUnique, Unique, Sound, Keys, Children, Missed, Family
<1> QED
  BY <1>2, <1>3, TypesInit DEF StoreInv, CacheInv

LEMMA StoreStep == StoreInv /\ [Next]_vars => StoreInv'
<1> SUFFICES ASSUME StoreInv, [Next]_vars PROVE StoreInv'
  OBVIOUS
<1>1. TypeOK /\ Jobs /\ Undoing /\ Known /\ PlacesUnique
  BY DEF StoreInv
<1>2. TypeOK' /\ Jobs' /\ Undoing' /\ PlacesUnique'
  BY <1>1, TypesStep, UndoingStep, UniqueStep
<1>3. /\ \A e \in Entity : rows'[e] # None => e \in born'
      /\ undo' # None => \A e \in Entity : undo'.rows[e] # None => e \in born'
  BY <1>1, KnownRows
<1>4. CacheInv' /\ \A e \in Entity : byId'[e] # None => e \in born'
  BY <1>2, <1>3, CacheStep
<1> QED
  BY <1>2, <1>3, <1>4 DEF StoreInv, Known

LEMMA StoreAlways == Spec => []StoreInv
  BY StoreInit, StoreStep, PTL DEF Spec

(* Every variable keeps its type.                                          *)
THEOREM TypeCorrect == Spec => []TypeOK
<1>1. StoreInv => TypeOK
  BY DEF StoreInv
<1> QED
  BY <1>1, StoreAlways, PTL

(* No step of the cache, whatever the order in which the tasks tell it,    *)
(* leaves a key or a child that points astray.                             *)
THEOREM CacheStaysSound == Spec => []CacheSound
<1>1. ASSUME StoreInv PROVE CacheSound
  <2>1. Sound /\ Family /\ CacheTypes
    BY <1>1 DEF StoreInv, CacheInv, TypeOK, CacheTypes
  <2>2. \A e \in Entity : byId[e] # None => byId[e] \in Place /\ byId[e].parent \in Entity \cup {Root}
    BY <2>1, PlaceParts DEF CacheTypes
  <2>3. \A e \in Entity : byId[e] # None /\ (byId[e].parent = Root \/ byId[byId[e].parent] # None)
          => e \in childrenOf[byId[e].parent]
    BY <2>1, <2>2 DEF Family, Present
  <2> QED
    BY <2>1, <2>3 DEF CacheSound, Sound, Keys, Children, Missed
<1> QED
  BY <1>1, StoreAlways, PTL

(* A rollback takes back no rename or move of another task.                *)
THEOREM RenamesAreKept == Spec => []RenamesSurvive
<1>1. ASSUME StoreInv PROVE RenamesSurvive
  BY <1>1 DEF StoreInv, Undoing, InTransaction, RenamesSurvive
<1> QED
  BY <1>1, StoreAlways, PTL

-----------------------------------------------------------------------------
(* The cache and the table: the place of an entity is the one in its row,  *)
(* if nobody has written it in a transaction that is still open, and the   *)
(* one that the writer read otherwise.                                     *)

(* What a task is about to do to e: it has read the row, written it,       *)
(* committed it and not told the cache, or created e.                      *)
Reads(j, e) == j.op = "update" /\ j.id = e /\ j.pc \in {"begin", "row", "rollback"}
Writes(j, e) == j.op = "update" /\ j.id = e /\ j.pc = "commit"
Tells(j, e) == j.op = "update" /\ j.id = e /\ j.pc = "cache"
Creates(j, e) == Untold(j) /\ j.id = e
Marks(j, e) == Writes(j, e) \/ Tells(j, e) \/ Creates(j, e)

(* The place that an update gives to what it has read.                     *)
Applied(j) ==
  [parent |-> IF "parent" \in j.fields THEN j.to.parent ELSE j.old.parent,
   name |-> IF "name" \in j.fields THEN j.to.name ELSE j.old.name]

NoWriter(e) == \A t \in Task : ~Writes(job[t], e)
Holds(e, l) ==
  /\ NoWriter(e) => rows[e] = l
  /\ \A t \in Task : Writes(job[t], e) => job[t].old = l

Reading(e) ==
  \A t \in Task : Reads(job[t], e) => job[t].old \in Place /\ (NoWriter(e) => rows[e] = job[t].old)
Writing(e) ==
  \A t \in Task : Writes(job[t], e) => job[t].old \in Place /\ rows[e] = Applied(job[t])
Retelling(e) ==
  \A t \in Task : Tells(job[t], e) =>
    /\ job[t].old \in Place /\ Holds(e, Applied(job[t]))
    /\ byId[e] # None => byId[e] = job[t].old
    /\ \A u \in Task : (Tells(job[u], e) => u = t) /\ ~Creates(job[u], e)
Creating(e) == \A t \in Task : Creates(job[t], e) => Holds(e, job[t].to)
Told(e) == byId[e] # None /\ (\A t \in Task : ~Tells(job[t], e)) => Holds(e, byId[e])
Follows(e) == Reading(e) /\ Writing(e) /\ Retelling(e) /\ Creating(e) /\ Told(e)

FollowInv == \A e \in Entity \ (undone \cup drifted) : Follows(e)

(* No task takes up or ends an update of e, or begins to read it.          *)
Aside(e) ==
  \A u \in Task : \/ job'[u] = job[u]
                  \/ /\ ~Marks(job'[u], e) /\ ~Marks(job[u], e)
                     /\ Reads(job'[u], e) => Reads(job[u], e) /\ job'[u].old = job[u].old

LEMMA FollowsAside ==
  ASSUME NEW e \in Entity, Follows(e), Aside(e), rows'[e] = rows[e], byId'[e] \in {byId[e], None}
  PROVE  Follows(e)'
<1>1. NoWriter(e)' <=> NoWriter(e)
  BY DEF NoWriter, Aside, Marks
<1>2. \A l : Holds(e, l) => /\ NoWriter(e)' => rows'[e] = l
                           /\ \A t \in Task : Writes(job'[t], e) => job'[t].old = l
  BY <1>1 DEF Holds, Aside, Marks
<1>3. Reading(e)'
  BY <1>1 DEF Follows, Reading, Aside
<1>4. Writing(e)'
  BY DEF Follows, Writing, Aside, Marks
<1>5. \A u \in Task : (Tells(job'[u], e) <=> Tells(job[u], e)) /\ (Creates(job'[u], e) <=> Creates(job[u], e))
  BY DEF Aside, Marks
<1>6. Retelling(e)'
  <2> SUFFICES ASSUME NEW t \in Task, Tells(job'[t], e)
               PROVE  /\ job'[t].old \in Place /\ Holds(e, Applied(job[t]))'
                      /\ byId'[e] # None => byId'[e] = job'[t].old
                      /\ \A u \in Task : (Tells(job'[u], e) => u = t) /\ ~Creates(job'[u], e)
    BY DEF Retelling
  <2>1. job'[t] = job[t] /\ Tells(job[t], e)
    BY DEF Aside, Marks
  <2>2. /\ job[t].old \in Place /\ Holds(e, Applied(job[t]))
        /\ byId[e] # None => byId[e] = job[t].old
        /\ \A u \in Task : (Tells(job[u], e) => u = t) /\ ~Creates(job[u], e)
    BY <2>1 DEF Follows, Retelling
  <2> QED
    BY <1>2, <1>5, <2>1, <2>2 DEF Holds
<1>7. Creating(e)'
  <2> SUFFICES ASSUME NEW t \in Task, Creates(job'[t], e) PROVE Holds(e, job[t].to)'
    BY DEF Creating
  <2>1. job'[t] = job[t] /\ Creates(job[t], e)
    BY DEF Aside, Marks
  <2> QED
    BY <1>2, <2>1 DEF Follows, Creating, Holds
<1>8. Told(e)'
  <2>1. byId'[e] # None => byId[e] # None /\ byId'[e] = byId[e]
    OBVIOUS
  <2> QED
    BY <1>2, <1>5, <2>1 DEF Follows, Told, Holds
<1> QED
  BY <1>3, <1>4, <1>6, <1>7, <1>8 DEF Follows

LEMMA DoAside ==
  ASSUME TypeOK, NEW e, NEW t \in Task, NEW j, Do(t, j), ~Marks(j, e), ~Marks(job[t], e),
         Reads(j, e) => Reads(job[t], e) /\ j.old = job[t].old
  PROVE  Aside(e)
  BY JobIs DEF TypeOK, Aside

LEMMA NothingIdle == \A e : ~Marks(Idle, e) /\ ~Reads(Idle, e)
  BY DEF Marks, Writes, Tells, Creates, Untold, Reads, Idle

LEMMA FinishAside ==
  ASSUME TypeOK, NEW e, NEW t \in Task, Finish(t), ~Marks(job[t], e)
  PROVE  Aside(e)
  BY NothingIdle, DoAside DEF Finish

LEMMA GoAside ==
  ASSUME TypeOK, NEW e, NEW t \in Task, NEW pc \in Steps, Go(t, pc), ~Marks(job[t], e),
         pc = "cache" => job[t].op \notin {"create", "update"}, pc # "commit",
         pc \in {"begin", "row", "rollback"} => Reads(job[t], e) \/ job[t].id # e
  PROVE  Aside(e)
<1> DEFINE j == [job[t] EXCEPT !.pc = pc]
<1>1. j.pc = pc /\ j.op = job[t].op /\ j.id = job[t].id /\ j.old = job[t].old
  BY DEF TypeOK, Work
<1> HIDE DEF j
<1>2. ~Marks(j, e) /\ (Reads(j, e) => Reads(job[t], e))
  BY <1>1 DEF Marks, Writes, Tells, Creates, Untold, Reads
<1>3. Do(t, j)
  BY DEF Go, j
<1> QED
  BY <1>1, <1>2, <1>3, DoAside

(* A task that works on another entity.                                    *)
LEMMA OtherAside ==
  ASSUME TypeOK, NEW e, NEW t \in Task, NEW j, Do(t, j), j.id # e, job[t].id # e
  PROVE  Aside(e)
<1>1. ~Marks(j, e) /\ ~Marks(job[t], e) /\ ~Reads(j, e)
  BY DEF Marks, Writes, Tells, Creates, Reads
<1> QED
  BY <1>1, DoAside

LEMMA OneTransaction ==
  ASSUME Undoing
  PROVE  \A t, u \in Task : InTransaction(job[t]) /\ InTransaction(job[u]) => t = u
  BY DEF Undoing

(* A task that reads, or has changed and not told, works on what has a row.*)
LEMMA NothingOfNew ==
  ASSUME StoreInv, NEW e \in Entity \ born, Follows(e)
  PROVE  \A t \in Task : ~Marks(job[t], e) /\ ~Reads(job[t], e)
<1>1. rows[e] = None /\ byId[e] = None
  BY DEF StoreInv, Known
<1>2. \A t \in Task : ~Creates(job[t], e)
  BY DEF StoreInv, CacheInv, Telling, Creates
<1>3. ASSUME NEW t \in Task, Writes(job[t], e) PROVE FALSE
  <2>1. job[t].op = "update" /\ job[t].old \in Place /\ rows[e] = Applied(job[t])
    BY <1>3 DEF Follows, Writing, Writes
  <2>2. job[t].to \in Place
    BY <2>1 DEF StoreInv, Jobs, JobOK
  <2>3. Applied(job[t]) \in Place
    BY <2>1, <2>2, PlaceParts DEF Applied, Place
  <2> QED
    BY <1>1, <2>1, <2>3, NoneIsNothing
<1>4. NoWriter(e)
  BY <1>3 DEF NoWriter
<1>5. ASSUME NEW t \in Task, Reads(job[t], e) PROVE FALSE
  <2>1. rows[e] \in Place
    BY <1>4, <1>5 DEF Follows, Reading
  <2> QED
    BY <1>1, <2>1, NoneIsNothing
<1>6. ASSUME NEW t \in Task, Tells(job[t], e) PROVE FALSE
  <2>1. job[t].op = "update" /\ job[t].old \in Place /\ rows[e] = Applied(job[t])
    BY <1>4, <1>6 DEF Follows, Retelling, Tells, Holds
  <2>2. job[t].to \in Place
    BY <2>1 DEF StoreInv, Jobs, JobOK
  <2>3. Applied(job[t]) \in Place
    BY <2>1, <2>2, PlaceParts DEF Applied, Place
  <2> QED
    BY <1>1, <2>1, <2>3, NoneIsNothing
<1> QED
  BY <1>2, <1>3, <1>5, <1>6 DEF Marks

LEMMA InsertFollows ==
  ASSUME StoreInv, NEW t \in Task, Insert(t), NEW e \in Entity, Follows(e)
  PROVE  Follows(e)'
<1>1. TypeOK /\ job[t].pc = "insert" /\ byId' = byId
  BY DEF StoreInv, Insert, At, cache
<1>2. ~Marks(job[t], e)
  BY <1>1 DEF Marks, Writes, Tells, Creates, Untold
<1>3. CASE Finish(t) /\ rows' = rows
  BY <1>1, <1>2, <1>3, FinishAside, FollowsAside
<1>4. ASSUME NEW d \in Entity \ born, rows' = [rows EXCEPT ![d] = job[t].to],
             Do(t, [job[t] EXCEPT !.pc = "cache", !.id = d])
      PROVE  Follows(e)'
  <2> DEFINE j == [job[t] EXCEPT !.pc = "cache", !.id = d]
  <2>1. j.op = "create" /\ j.pc = "cache" /\ j.id = d /\ j.to = job[t].to
    BY <1>1 DEF TypeOK, Work, Insert, At
  <2> HIDE DEF j
  <2>2. Do(t, j) /\ \A u \in Task : job'[u] = IF u = t THEN j ELSE job[u]
    BY <1>1, <1>4, JobIs DEF j, TypeOK
  <2>3. CASE e # d
    <3>1. Aside(e)
      BY <1>1, <1>2, <2>1, <2>2, <2>3, DoAside DEF Marks, Writes, Tells, Creates, Reads
    <3> QED
      BY <1>1, <1>4, <2>3, <3>1, FollowsAside DEF TypeOK
  <2>4. CASE e = d
    <3>1. \A u \in Task : ~Marks(job[u], e) /\ ~Reads(job[u], e)
      BY <1>4, <2>4, NothingOfNew
    <3>2. \A u \in Task : /\ ~Writes(job'[u], e) /\ ~Tells(job'[u], e) /\ ~Reads(job'[u], e)
                          /\ Creates(job'[u], e) => u = t
      BY <2>1, <2>2, <3>1 DEF Marks, Writes, Tells, Reads
    <3>3. rows'[e] = job[t].to /\ job'[t].to = job[t].to /\ byId'[e] = None
      BY <1>1, <1>4, <2>1, <2>2, <2>4 DEF StoreInv, Known, TypeOK
    <3> QED
      BY <3>2, <3>3 DEF Follows, Reading, Writing, Retelling, Creating, Told, Holds
  <2> QED
    BY <2>3, <2>4
<1> QED
  BY <1>3, <1>4 DEF Insert

LEMMA CacheCreateFollows ==
  ASSUME StoreInv, NEW t \in Task, CacheCreate(t), NEW e \in Entity, Follows(e)
  PROVE  Follows(e)'
<1> DEFINE d == job[t].id
           l == job[t].to
<1>1. TypeOK /\ Untold(job[t]) /\ d \in Entity /\ l \in Place /\ rows' = rows
  BY DEF StoreInv, CacheCreate, At, Untold, Jobs, JobOK, table
<1>2. \A x \in Entity : byId'[x] = IF x = d THEN l ELSE byId[x]
  BY <1>1 DEF CacheCreate, AddEntry, TypeOK
<1>3. PICK j : Do(t, j) /\ (\A x : ~Marks(j, x) /\ ~Reads(j, x))
  <2> DEFINE k == [job[t] EXCEPT !.pc = "index"]
  <2>1. k.pc = "index"
    BY <1>1 DEF TypeOK, Work
  <2> HIDE DEF k
  <2>2. \A x : ~Marks(k, x) /\ ~Reads(k, x)
    BY <2>1 DEF Marks, Writes, Tells, Creates, Untold, Reads
  <2> QED
    BY <2>2, NothingIdle DEF CacheCreate, Go, Finish, k
<1>4. \A u \in Task : job'[u] = IF u = t THEN j ELSE job[u]
  BY <1>1, <1>3, JobIs DEF TypeOK
<1>5. CASE e # d
  <2>1. ~Marks(job[t], e)
    BY <1>1, <1>5 DEF Marks, Writes, Tells, Creates
  <2> QED
    BY <1>1, <1>2, <1>3, <1>5, <2>1, DoAside, FollowsAside
<1>6. CASE e = d
  <2>1. Creates(job[t], e) /\ ~Writes(job[t], e) /\ ~Reads(job[t], e)
    BY <1>1, <1>6 DEF Creates, Untold, Writes, Reads
  <2>2. \A u \in Task : ~Tells(job[u], e) /\ (Creates(job[u], e) => u = t)
    BY <2>1 DEF Follows, Retelling, StoreInv, CacheInv, Telling, Creates
  <2>3. Holds(e, l)
    BY <2>1 DEF Follows, Creating
  <2>4. \A u \in Task : /\ ~Tells(job'[u], e) /\ ~Creates(job'[u], e)
                        /\ Writes(job'[u], e) <=> Writes(job[u], e)
                        /\ Reads(job'[u], e) => Reads(job[u], e)
                        /\ u # t => job'[u] = job[u]
    BY <1>3, <1>4, <2>1, <2>2 DEF Marks
  <2>5. NoWriter(e)' <=> NoWriter(e)
    BY <2>4 DEF NoWriter
  <2>6. Reading(e)'
    BY <1>1, <2>1, <2>4, <2>5 DEF Follows, Reading
  <2>7. Writing(e)'
    BY <1>1, <2>1, <2>4 DEF Follows, Writing
  <2>8. Told(e)'
    BY <1>1, <1>2, <1>6, <2>1, <2>3, <2>4, <2>5 DEF Told, Holds
  <2> QED
    BY <2>4, <2>6, <2>7, <2>8 DEF Follows, Retelling, Creating
<1> QED
  BY <1>5, <1>6

LEMMA CacheDeleteFollows ==
  ASSUME StoreInv, NEW t \in Task, CacheDelete(t), NEW e \in Entity, Follows(e)
  PROVE  Follows(e)'
<1>1. /\ TypeOK /\ job[t].op \in {"unlink", "expire"} /\ job[t].id \in Entity
      /\ RemoveEntry(job[t].id) /\ rows' = rows
  BY DEF StoreInv, CacheDelete, Jobs, JobOK, table
<1>2. byId'[e] \in {byId[e], None}
  BY <1>1 DEF RemoveEntry, TypeOK, cache
<1>3. ~Marks(job[t], e)
  BY <1>1 DEF Marks, Writes, Tells, Creates, Untold
<1>4. Aside(e)
  BY <1>1, <1>3, GoAside, FinishAside DEF CacheDelete, Steps
<1> QED
  BY <1>1, <1>2, <1>4, FollowsAside

LEMMA SelectFollows ==
  ASSUME StoreInv, NEW t \in Task, SelectToUpdate(t), NEW e \in Entity, Follows(e)
  PROVE  Follows(e)'
<1> DEFINE d == job[t].id
           j == [job[t] EXCEPT !.pc = "begin", !.old = rows[d]]
<1>1. TypeOK /\ job[t].op = "update" /\ job[t].pc = "select" /\ d \in Entity /\ rows' = rows /\ byId' = byId
  BY DEF StoreInv, SelectToUpdate, At, Jobs, JobOK, table, cache
<1>2. ~Marks(job[t], e) /\ ~Reads(job[t], e)
  BY <1>1 DEF Marks, Writes, Tells, Creates, Untold, Reads
<1>3. CASE Finish(t)
  BY <1>1, <1>2, <1>3, FinishAside, FollowsAside
<1>4. CASE Joined(d) /\ Do(t, j)
  <2>1. j.op = "update" /\ j.pc = "begin" /\ j.id = d /\ j.old = rows[d]
    BY <1>1 DEF TypeOK, Work
  <2>2. ~Marks(j, e)
    BY <2>1 DEF Marks, Writes, Tells, Creates, Untold
  <2>3. rows[d] \in Place
    BY <1>1, <1>4 DEF Joined, TypeOK
  <2> HIDE DEF j
  <2>4. \A u \in Task : job'[u] = IF u = t THEN j ELSE job[u]
    BY <1>1, <1>4, JobIs DEF TypeOK
  <2>5. CASE e # d
    BY <1>1, <1>2, <1>4, <2>1, <2>2, <2>5, DoAside, FollowsAside DEF Reads
  <2>6. CASE e = d
    <3>1. NoWriter(e)' <=> NoWriter(e)
      BY <1>2, <2>2, <2>4 DEF NoWriter, Marks
    <3>2. \A x : Holds(e, x) => /\ NoWriter(e)' => rows'[e] = x
                               /\ \A u \in Task : Writes(job'[u], e) => job'[u].old = x
      BY <1>1, <1>2, <2>2, <2>4, <3>1 DEF Holds, Marks
    <3>3. Reading(e)'
      BY <1>1, <2>1, <2>3, <2>4, <2>6, <3>1 DEF Follows, Reading
    <3>4. Writing(e)'
      BY <1>1, <2>2, <2>4 DEF Follows, Writing, Marks
    <3>5. \A u \in Task : /\ Tells(job'[u], e) <=> Tells(job[u], e)
                          /\ Creates(job'[u], e) <=> Creates(job[u], e)
                          /\ Tells(job'[u], e) \/ Creates(job'[u], e) => job'[u] = job[u]
      BY <1>2, <2>2, <2>4 DEF Marks
    <3>6. Retelling(e)'
      BY <1>1, <3>2, <3>5 DEF Follows, Retelling, Holds
    <3>7. Creating(e)'
      BY <3>2, <3>5 DEF Follows, Creating, Holds
    <3>8. Told(e)'
      BY <1>1, <3>2, <3>5 DEF Follows, Told, Holds
    <3> QED
      BY <3>3, <3>4, <3>6, <3>7, <3>8 DEF Follows
  <2> QED
    BY <2>5, <2>6
<1> QED
  BY <1>3, <1>4 DEF SelectToUpdate

LEMMA UpdateRowFollows ==
  ASSUME StoreInv, NEW t \in Task, UpdateRow(t), NEW e \in Entity, Follows(e)
  PROVE  Follows(e)'
<1> DEFINE d == job[t].id
           new == [parent |-> IF "parent" \in job[t].fields THEN job[t].to.parent ELSE rows[d].parent,
                   name |-> IF "name" \in job[t].fields THEN job[t].to.name ELSE rows[d].name]
           j == [job[t] EXCEPT !.pc = "commit"]
<1>1. /\ TypeOK /\ job[t].op = "update" /\ job[t].pc = "row" /\ d \in Entity /\ byId' = byId
      /\ InTransaction(job[t])
  BY DEF StoreInv, UpdateRow, At, Jobs, JobOK, cache, InTransaction
<1>2. ~Marks(job[t], e) /\ (d = e <=> Reads(job[t], e))
  BY <1>1 DEF Marks, Writes, Tells, Creates, Untold, Reads
<1>3. NoWriter(e)
  <2>1. ~Writes(job[t], e)
    BY <1>1 DEF Writes
  <2> QED
    BY <1>1, OneTransaction DEF StoreInv, NoWriter, Writes, InTransaction
<1>4. CASE UNCHANGED rows /\ Go(t, "rollback")
  <2>1. Aside(e)
    BY <1>1, <1>2, <1>4, GoAside DEF Steps
  <2> QED
    BY <1>1, <1>4, <2>1, FollowsAside
<1>5. CASE /\ Go(t, "commit")
           /\ \/ rows[d] = None /\ rows' = rows
              \/ rows[d] # None /\ rows' = [rows EXCEPT ![d] = new]
  <2>1. /\ j.op = "update" /\ j.pc = "commit" /\ j.id = d
        /\ j.old = job[t].old /\ j.fields = job[t].fields /\ j.to = job[t].to
    BY <1>1 DEF TypeOK, Work
  <2> HIDE DEF j, new
  <2>2. \A u \in Task : job'[u] = IF u = t THEN j ELSE job[u]
    BY <1>1, <1>5, JobIs DEF Go, TypeOK, j
  <2>3. CASE e # d
    <3>1. Aside(e)
      BY <1>1, <1>2, <1>5, <2>1, <2>3, OtherAside DEF Go, j
    <3> QED
      BY <1>1, <1>5, <2>3, <3>1, FollowsAside DEF TypeOK
  <2>4. CASE e = d
    <3>1. rows[e] = job[t].old /\ job[t].old \in Place
      BY <1>2, <1>3, <2>4 DEF Follows, Reading
    <3>2. rows'[e] = new /\ new = Applied(j)
      BY <1>1, <1>5, <2>1, <2>4, <3>1, NoneIsNothing DEF TypeOK, Applied, new
    <3>3. \A u \in Task : Writes(job'[u], e) <=> u = t
      BY <1>3, <2>1, <2>2, <2>4 DEF NoWriter, Writes
    <3>4. ~NoWriter(e)'
      BY <3>3 DEF NoWriter
    <3>5. \A x : Holds(e, x) => \A u \in Task : Writes(job'[u], e) => job'[u].old = x
      BY <1>3, <2>1, <2>2, <3>1, <3>3 DEF Holds
    <3>6. \A u \in Task : /\ Tells(job'[u], e) <=> Tells(job[u], e)
                          /\ Creates(job'[u], e) <=> Creates(job[u], e)
                          /\ Tells(job'[u], e) \/ Creates(job'[u], e) => job'[u] = job[u]
      BY <1>2, <2>1, <2>2 DEF Marks, Tells, Creates, Untold
    <3>7. Reading(e)'
      <4>1. \A u \in Task : Reads(job'[u], e) => job'[u] = job[u]
        BY <2>1, <2>2 DEF Reads
      <4> QED
        BY <3>4, <4>1 DEF Follows, Reading
    <3>8. Writing(e)'
      BY <2>1, <2>2, <3>1, <3>2, <3>3 DEF Writing
    <3>9. Retelling(e)'
      BY <1>1, <3>4, <3>5, <3>6 DEF Follows, Retelling, Holds
    <3>10. Creating(e)'
      BY <3>4, <3>5, <3>6 DEF Follows, Creating, Holds
    <3>11. Told(e)'
      BY <1>1, <3>4, <3>5, <3>6 DEF Follows, Told, Holds
    <3> QED
      BY <3>7, <3>8, <3>9, <3>10, <3>11 DEF Follows
  <2> QED
    BY <2>3, <2>4
<1>6. CASE rows[d] = None
  BY <1>5, <1>6 DEF UpdateRow
<1>7. CASE rows[d] # None /\ Allowed(new, d)
  BY <1>5, <1>7 DEF UpdateRow
<1>8. CASE rows[d] # None /\ ~Allowed(new, d)
  BY <1>4, <1>8 DEF UpdateRow
<1> QED
  BY <1>6, <1>7, <1>8

LEMMA CommitFollows ==
  ASSUME StoreInv, NEW t \in Task, Commit(t), NEW e \in Entity, Follows(e), e \notin drifted'
  PROVE  Follows(e)'
<1> DEFINE d == job[t].id
           j == [job[t] EXCEPT !.pc = "cache"]
<1>1. /\ TypeOK /\ job[t].op = "update" /\ job[t].pc = "commit" /\ d \in Entity
      /\ rows' = rows /\ byId' = byId
  BY DEF StoreInv, Commit, At, Jobs, JobOK, cache
<1>2. /\ j.op = "update" /\ j.pc = "cache" /\ j.id = d
      /\ j.old = job[t].old /\ j.fields = job[t].fields /\ j.to = job[t].to
  BY <1>1 DEF TypeOK, Work
<1> HIDE DEF j
<1>3. Do(t, j) /\ \A u \in Task : job'[u] = IF u = t THEN j ELSE job[u]
  BY <1>1, JobIs DEF Commit, Go, TypeOK, j
<1>4. CASE e # d
  <2>1. Aside(e)
    BY <1>1, <1>2, <1>3, <1>4, OtherAside
  <2> QED
    BY <1>1, <2>1, FollowsAside
<1>5. CASE e = d
  <2>1. \A u \in Task : u # t => ~Reads(job[u], e) /\ ~Marks(job[u], e)
    <3>1. ~Overlaps(t, e)
      BY <1>5 DEF Commit
    <3> QED
      BY <3>1 DEF Overlaps, Reads, Marks, Writes, Tells, Creates, Untold
  <2>2. Writes(job[t], e) /\ ~Tells(job[t], e) /\ Tells(j, e) /\ ~Writes(j, e) /\ ~Creates(j, e) /\ ~Reads(j, e)
    BY <1>1, <1>2, <1>5 DEF Writes, Tells, Creates, Untold, Reads
  <2>3. job[t].old \in Place /\ rows[e] = Applied(job[t])
    BY <2>2 DEF Follows, Writing
  <2>4. byId[e] # None => byId[e] = job[t].old
    BY <2>1, <2>2 DEF Follows, Told, Marks, Holds
  <2>5. \A u \in Task : /\ ~Writes(job'[u], e) /\ ~Creates(job'[u], e) /\ ~Reads(job'[u], e)
                        /\ Tells(job'[u], e) <=> u = t
    BY <1>3, <2>1, <2>2 DEF Marks
  <2>6. Applied(j) = Applied(job[t])
    BY <1>2 DEF Applied
  <2>7. Retelling(e)'
    BY <1>1, <1>2, <1>3, <2>3, <2>4, <2>5, <2>6 DEF Retelling, Holds
  <2> QED
    BY <2>5, <2>7 DEF Follows, Reading, Writing, Creating, Told
<1> QED
  BY <1>4, <1>5

LEMMA RollbackFollows ==
  ASSUME StoreInv, NEW t \in Task, Rollback(t), NEW e \in Entity, Follows(e), e \notin undone'
  PROVE  Follows(e)'
<1>1. TypeOK /\ job[t].pc = "rollback" /\ byId' = byId /\ rows'[e] = rows[e]
  BY DEF StoreInv, Rollback, At, TakeBack, cache
<1>2. ~Marks(job[t], e)
  BY <1>1 DEF Marks, Writes, Tells, Creates, Untold
<1>3. Aside(e)
  BY <1>1, <1>2, FinishAside DEF Rollback
<1> QED
  BY <1>1, <1>3, FollowsAside

(* updateEntry() does to the entry what the update did to the row, unless  *)
(* both of its fields change.                                              *)
LEMMA EntryFollows ==
  ASSUME NEW j, NEW d \in Entity, j.old \in Place, j.to \in Place, TypeOK,
         byId[d] = j.old, NEW changed, changed = {f \in j.fields : j.to[f] # j.old[f]},
         changed # Field, j.fields \subseteq Field, UpdateEntry(d, j.to, changed)
  PROVE  byId'[d] = Applied(j)
<1>1. /\ "name" \in changed <=> "name" \in j.fields /\ j.to.name # j.old.name
      /\ "parent" \in changed <=> "parent" \in j.fields /\ j.to.parent # j.old.parent
  OBVIOUS
<1>2. ~("name" \in changed /\ "parent" \in changed)
  <2>1. changed \subseteq Field
    OBVIOUS
  <2> QED
    BY <2>1 DEF Field
<1>3. j.old = [parent |-> j.old.parent, name |-> j.old.name]
  BY DEF Place
<1> DEFINE new == IF "name" \in changed /\ j.to.name # j.old.name
                  THEN [j.old EXCEPT !.name = j.to.name]
                  ELSE IF "parent" \in changed THEN [j.old EXCEPT !.parent = j.to.parent] ELSE j.old
<1>4. new = Applied(j)
  <2>1. CASE "name" \in changed
    BY <1>1, <1>2, <1>3, <2>1 DEF Applied
  <2>2. CASE "parent" \in changed
    BY <1>1, <1>2, <1>3, <2>2 DEF Applied
  <2>3. CASE "name" \notin changed /\ "parent" \notin changed
    BY <1>1, <1>3, <2>3 DEF Applied
  <2> QED
    BY <2>1, <2>2, <2>3
<1>5. IF byId[d] = None \/ new = byId[d] THEN byId' = byId ELSE byId' = [byId EXCEPT ![d] = new]
  BY DEF UpdateEntry, cache
<1>6. byId[d] # None
  BY NoneIsNothing
<1> HIDE DEF new
<1> QED
  BY <1>4, <1>5, <1>6 DEF TypeOK

LEMMA EntryElsewhere ==
  ASSUME TypeOK, NEW d \in Entity, NEW to \in Place, NEW changed, UpdateEntry(d, to, changed)
  PROVE  /\ \A e \in Entity : e # d => byId'[e] = byId[e]
         /\ byId[d] = None => byId' = byId
<1>1. CacheTypes
  BY DEF TypeOK, CacheTypes
<1> QED
  BY <1>1, UpdateIs DEF TypeOK, cache

LEMMA CacheUpdateFollows ==
  ASSUME StoreInv, NEW t \in Task, CacheUpdate(t), NEW e \in Entity, Follows(e), e \notin drifted'
  PROVE  Follows(e)'
<1> DEFINE d == job[t].id
           changed == {f \in job[t].fields : job[t].to[f] # job[t].old[f]}
<1>1. /\ TypeOK /\ job[t].op = "update" /\ job[t].pc = "cache" /\ d \in Entity /\ job[t].to \in Place
      /\ rows' = rows /\ job[t].fields \subseteq Field
  BY DEF StoreInv, CacheUpdate, At, Jobs, JobOK, table, Work
<1>2. UpdateEntry(d, job[t].to, changed) /\ (changed = Field => d \in drifted') /\ Finish(t)
  BY DEF CacheUpdate
<1> HIDE DEF changed
<1>3. \A u \in Task : job'[u] = IF u = t THEN Idle ELSE job[u]
  BY <1>1, <1>2, JobGone DEF TypeOK
<1>4. CASE e # d
  <2>1. Aside(e)
    <3>1. ~Marks(job[t], e)
      BY <1>1, <1>4 DEF Marks, Writes, Tells, Creates
    <3> QED
      BY <1>1, <1>2, <3>1, FinishAside
  <2>2. byId'[e] = byId[e]
    BY <1>1, <1>2, <1>4, EntryElsewhere
  <2> QED
    BY <1>1, <2>1, <2>2, FollowsAside
<1>5. CASE e = d
  <2>1. Tells(job[t], e) /\ ~Writes(job[t], e) /\ ~Creates(job[t], e)
    BY <1>1, <1>5 DEF Tells, Writes, Creates, Untold
  <2>2. /\ job[t].old \in Place /\ Holds(e, Applied(job[t]))
        /\ byId[e] # None => byId[e] = job[t].old
        /\ \A u \in Task : (Tells(job[u], e) => u = t) /\ ~Creates(job[u], e)
    BY <2>1 DEF Follows, Retelling
  <2>3. byId'[e] # None => byId'[e] = Applied(job[t])
    <3>1. CASE byId[e] = None
      BY <1>1, <1>2, <1>5, <3>1, EntryElsewhere
    <3>2. CASE byId[e] # None
      BY <1>1, <1>2, <1>5, <2>2, <3>2, EntryFollows DEF changed
    <3> QED
      BY <3>1, <3>2
  <2>4. \A u \in Task : /\ ~Tells(job'[u], e) /\ ~Creates(job'[u], e)
                        /\ Writes(job'[u], e) <=> Writes(job[u], e)
                        /\ Writes(job'[u], e) \/ Reads(job'[u], e) => job'[u] = job[u]
    BY <1>3, <2>1, <2>2, NothingIdle DEF Marks
  <2>5. NoWriter(e)' <=> NoWriter(e)
    BY <2>4 DEF NoWriter
  <2>6. Reading(e)'
    BY <1>1, <2>4, <2>5 DEF Follows, Reading
  <2>7. Writing(e)'
    BY <1>1, <2>4 DEF Follows, Writing
  <2>8. Told(e)'
    BY <1>1, <2>2, <2>3, <2>4, <2>5 DEF Told, Holds
  <2> QED
    BY <2>4, <2>6, <2>7, <2>8 DEF Follows, Retelling, Creating
<1> QED
  BY <1>4, <1>5

(* The steps that touch neither the table nor the cache.                   *)
LEMMA OtherFollows ==
  ASSUME StoreInv, NEW t \in Task, NEW e \in Entity, Follows(e),
         \/ CheckParent(t) \/ AddChildIndex(t) \/ CheckEntity(t) \/ RemoveChildIndex(t)
         \/ SelectToDelete(t) \/ Trash(t) \/ Purge(t) \/ Restore(t) \/ Begin(t)
  PROVE  Follows(e)'
<1>1. TypeOK /\ rows' = rows /\ byId' = byId
  BY DEF StoreInv, CheckParent, AddChildIndex, CheckEntity, RemoveChildIndex, SelectToDelete, Trash,
     Purge, Restore, Begin, table, cache
<1>2. ~Marks(job[t], e)
  BY DEF StoreInv, Jobs, JobOK, CheckParent, AddChildIndex, CheckEntity, RemoveChildIndex, SelectToDelete, Trash,
     Purge, Restore, Begin, At, Marks, Writes, Tells, Creates, Untold
<1>3. CASE CheckParent(t) \/ AddChildIndex(t) \/ RemoveChildIndex(t) \/ Purge(t) \/ Restore(t)
  BY <1>1, <1>2, <1>3, GoAside, FinishAside, FollowsAside
     DEF CheckParent, AddChildIndex, RemoveChildIndex, Purge, Restore, StorageLocked, Steps
<1>4. CASE CheckEntity(t)
  <2>1. ASSUME Do(t, [job[t] EXCEPT !.pc = "unindex", !.old = byId[job[t].id]]) PROVE Aside(e)
    <3> DEFINE j == [job[t] EXCEPT !.pc = "unindex", !.old = byId[job[t].id]]
    <3>1. j.pc = "unindex"
      BY <1>1 DEF TypeOK, Work
    <3> HIDE DEF j
    <3>2. ~Marks(j, e) /\ ~Reads(j, e)
      BY <3>1 DEF Marks, Writes, Tells, Creates, Untold, Reads
    <3>3. Do(t, j)
      BY <2>1 DEF j
    <3> QED
      BY <1>1, <1>2, <3>2, <3>3, DoAside
  <2>2. Aside(e)
    BY <1>1, <1>2, <1>4, <2>1, GoAside, FinishAside DEF CheckEntity, Steps
  <2> QED
    BY <1>1, <2>2, FollowsAside
<1>5. CASE SelectToDelete(t)
  <2>1. ASSUME NEW pc \in {"restore", "trash"}, NEW was, Do(t, [job[t] EXCEPT !.pc = pc, !.was = was])
        PROVE  Aside(e)
    <3> DEFINE j == [job[t] EXCEPT !.pc = pc, !.was = was]
    <3>1. j.pc = pc
      BY <1>1 DEF TypeOK, Work
    <3> HIDE DEF j
    <3>2. ~Marks(j, e) /\ ~Reads(j, e)
      BY <3>1 DEF Marks, Writes, Tells, Creates, Untold, Reads
    <3>3. Do(t, j)
      BY <2>1 DEF j
    <3> QED
      BY <1>1, <1>2, <3>2, <3>3, DoAside
  <2>2. Aside(e)
    BY <1>1, <1>2, <1>5, <2>1, FinishAside DEF SelectToDelete
  <2> QED
    BY <1>1, <2>2, FollowsAside
<1>6. CASE Trash(t)
  <2>1. job[t].op \notin {"create", "update"}
    BY <1>6 DEF Trash, StoreInv, Jobs, JobOK
  <2> QED
    BY <1>1, <1>2, <1>6, <2>1, GoAside, FollowsAside DEF Trash, Steps
<1>7. CASE Begin(t)
  <2>1. Reads(job[t], e) \/ job[t].id # e
    BY <1>7 DEF Begin, At, Reads
  <2> QED
    BY <1>1, <1>2, <1>7, <2>1, GoAside, FinishAside, FollowsAside DEF Begin, Steps
<1> QED
  BY <1>3, <1>4, <1>5, <1>6, <1>7

LEMMA StartFollows ==
  ASSUME StoreInv, NEW t \in Task, NEW j, j.pc \in {"parent", "insert", "entity", "select"}, Start(t, j),
         NEW e \in Entity, Follows(e)
  PROVE  Follows(e)'
<1>1. TypeOK /\ rows' = rows /\ byId' = byId /\ Do(t, j) /\ job[t] = Idle
  BY DEF StoreInv, Start, table, cache
<1>2. ~Marks(j, e) /\ ~Reads(j, e) /\ ~Marks(job[t], e)
  BY <1>1, NothingIdle DEF Marks, Writes, Tells, Creates, Untold, Reads
<1> QED
  BY <1>1, <1>2, DoAside, FollowsAside

LEMMA FollowStep ==
  ASSUME StoreInv, FollowInv, [Next]_vars
  PROVE  FollowInv'
<1> SUFFICES ASSUME NEW e \in Entity, e \notin undone', e \notin drifted' PROVE Follows(e)'
  BY DEF FollowInv
<1>1. CASE Crash
  <2>1. \A u \in Task : job'[u] = Idle
    BY <1>1 DEF Crash
  <2>2. byId'[e] = rows'[e]
    BY <1>1 DEF Crash, LoadFrom
  <2>3. \A u \in Task : ~Marks(job'[u], e) /\ ~Reads(job'[u], e)
    BY <2>1, NothingIdle
  <2> QED
    BY <2>2, <2>3 DEF Follows, Reading, Writing, Retelling, Creating, Told, Holds, Marks
<1>2. CASE ~Crash
  <2>1. undone \subseteq undone' /\ drifted \subseteq drifted'
    <3>1. CASE UNCHANGED vars
      BY <3>1 DEF vars, history
    <3>2. ASSUME NEW t \in Task, Step(t) PROVE undone \subseteq undone' /\ drifted \subseteq drifted'
      BY <3>2 DEF Step, CheckParent, Insert, CacheCreate, AddChildIndex, CheckEntity, RemoveChildIndex,
         SelectToDelete, Trash, CacheDelete, Purge, Restore, SelectToUpdate, Begin, UpdateRow, Commit,
         Rollback, TakeBack, CacheUpdate, history
    <3>3. ASSUME NEW t \in Task, NEW j, Start(t, j) PROVE undone \subseteq undone' /\ drifted \subseteq drifted'
      BY <3>3 DEF Start, history
    <3> QED
      BY <1>2, <3>1, <3>2, <3>3, StartJobs DEF Next, StoreInv
  <2>2. Follows(e)
    BY <2>1 DEF FollowInv
  <2>3. CASE UNCHANGED vars
    <3>1. Aside(e) /\ rows'[e] = rows[e] /\ byId'[e] = byId[e]
      BY <2>3 DEF vars, table, cache, Aside
    <3> QED
      BY <2>2, <3>1, FollowsAside
  <2>4. ASSUME NEW t \in Task, Step(t) PROVE Follows(e)'
    BY <2>2, <2>4, InsertFollows, CacheCreateFollows, CacheDeleteFollows, SelectFollows, UpdateRowFollows,
       CommitFollows, RollbackFollows, CacheUpdateFollows, OtherFollows DEF Step
  <2>5. ASSUME NEW t \in Task,
               VfsCreate(t) \/ VfsUnlink(t) \/ VfsSetstat(t) \/ EmsCreate(t) \/ EmsUpdate(t) \/ EmsOther(t)
        PROVE  Follows(e)'
    BY <2>2, <2>5, StartJobs, StartFollows DEF StoreInv
  <2> QED
    BY <1>2, <2>3, <2>4, <2>5 DEF Next
<1> QED
  BY <1>1, <1>2

-----------------------------------------------------------------------------
(* What is live has an entry, or a task will see to it: one that created   *)
(* it, or one that is purging it.                                          *)
Expires(j, e) == j.op = "expire" /\ j.id = e /\ j.pc \in {"cache", "purge"}
Forgets(j, e) == j.op = "unlink" /\ j.id = e /\ j.pc = "cache"
Expiring(e) == \E t \in Task : Expires(job[t], e)
Cached(e) ==
  /\ detail[e] = "live" => byId[e] # None \/ (\E t \in Task : Creates(job[t], e)) \/ Expiring(e)
  /\ \A t \in Task : Forgets(job[t], e) => detail[e] # "live" \/ Expiring(e)

DeletingOK(j) ==
  /\ j.op \in {"unlink", "expire"} /\ j.pc \in {"trash", "cache", "purge"} => j.id \in born
  /\ j.op = "unlink" /\ j.pc = "trash" => j.was = "trashed"
Deletings == \A t \in Task : DeletingOK(job[t])

(* A detail row has a row in entities, also after a rollback.              *)
Detailed ==
  /\ \A e \in Entity : detail[e] # "none" => rows[e] # None
  /\ undo # None => \A e \in Entity : undo.detail[e] # "none" => undo.rows[e] # None

CachedInv ==
  /\ Deletings /\ Detailed
  /\ \A e \in Entity \ (undone \cup reverted) : Cached(e)

LEMMA CachedKeeps ==
  ASSUME NEW e \in Entity, Cached(e), detail'[e] = detail[e], byId[e] # None => byId'[e] # None,
         \A u \in Task : /\ Creates(job[u], e) => Creates(job'[u], e) \/ byId'[e] # None
                         /\ Expires(job[u], e) => Expires(job'[u], e)
                         /\ Forgets(job'[u], e) => Forgets(job[u], e)
  PROVE  Cached(e)'
<1>1. Expiring(e) => Expiring(e)'
  BY DEF Expiring
<1>2. (\E t \in Task : Creates(job[t], e)) => byId'[e] # None \/ \E t \in Task : Creates(job'[t], e)
  OBVIOUS
<1> QED
  BY <1>1, <1>2 DEF Cached

LEMMA CachedSettled ==
  ASSUME NEW e \in Entity, detail'[e] # "live" \/ \E t \in Task : Expires(job'[t], e)
  PROVE  Cached(e)'
  BY DEF Cached, Expiring

(* A step that takes up or ends no creation and no deletion of e.          *)
Works(j, e) == Creates(j, e) \/ Expires(j, e) \/ Forgets(j, e)
LEMMA CachedAside ==
  ASSUME TypeOK, NEW e \in Entity, Cached(e), detail'[e] = detail[e], byId[e] # None => byId'[e] # None,
         NEW t \in Task, NEW j, Do(t, j), ~Works(job[t], e), ~Works(j, e)
  PROVE  Cached(e)'
<1>1. \A u \in Task : job'[u] = IF u = t THEN j ELSE job[u]
  BY JobIs DEF TypeOK
<1> QED
  BY <1>1, CachedKeeps DEF Works

LEMMA IdleWorks == \A e : ~Works(Idle, e)
  BY DEF Works, Creates, Untold, Expires, Forgets, Idle

LEMMA DeletingsDo ==
  ASSUME TypeOK, Deletings, born \subseteq born', NEW t \in Task, NEW j, Do(t, j), DeletingOK(j)
  PROVE  Deletings'
<1>1. \A u \in Task : job'[u] = IF u = t THEN j ELSE job[u]
  BY JobIs DEF TypeOK
<1> QED
  BY <1>1 DEF Deletings, DeletingOK

LEMMA DeletingsStep ==
  ASSUME StoreInv, Deletings, [Next]_vars
  PROVE  Deletings'
<1>1. TypeOK /\ Jobs /\ born \subseteq born'
  BY KnownRows DEF StoreInv
<1>2. CASE UNCHANGED vars
  BY <1>2 DEF vars, history, Deletings, DeletingOK
<1>3. CASE Crash
  BY <1>3 DEF Crash, Deletings, DeletingOK, Idle
<1>4. DeletingOK(Idle)
  BY DEF DeletingOK, Idle
<1>5. ASSUME NEW t \in Task, Finish(t) PROVE Deletings'
  BY <1>1, <1>4, <1>5, DeletingsDo DEF Finish
<1>6. ASSUME NEW t \in Task, NEW pc \in Steps, Go(t, pc), pc # "trash",
             pc \in {"cache", "purge"} => job[t].op \notin {"unlink", "expire"} \/ job[t].pc \in {"trash", "cache", "purge"}
      PROVE  Deletings'
  <2> DEFINE j == [job[t] EXCEPT !.pc = pc]
  <2>1. j.pc = pc /\ j.op = job[t].op /\ j.id = job[t].id
    BY <1>1 DEF TypeOK, Work
  <2> HIDE DEF j
  <2>2. DeletingOK(j)
    BY <1>1, <1>6, <2>1 DEF Deletings, DeletingOK
  <2>3. Do(t, j)
    BY <1>6 DEF Go, j
  <2> QED
    BY <1>1, <2>2, <2>3, DeletingsDo
<1>7. ASSUME NEW t \in Task, NEW j, Do(t, j), j.pc \notin {"trash", "cache", "purge"} \/ j.op \in {"create", "update"}
      PROVE  Deletings'
  <2>1. DeletingOK(j)
    BY <1>7 DEF DeletingOK
  <2> QED
    BY <1>1, <1>7, <2>1, DeletingsDo
<1>8. ASSUME NEW t \in Task, SelectToDelete(t) PROVE Deletings'
  <2> DEFINE j == [job[t] EXCEPT !.pc = IF job[t].op = "revert" THEN "restore" ELSE "trash",
                                 !.was = IF job[t].op = "expire" THEN detail[job[t].id] ELSE "trashed"]
  <2>1. Finish(t) \/ (Joined(job[t].id) /\ Do(t, j))
    BY <1>8 DEF SelectToDelete
  <2>2. /\ j.op = job[t].op /\ j.id = job[t].id
        /\ j.was = IF job[t].op = "expire" THEN detail[job[t].id] ELSE "trashed"
    BY <1>1 DEF TypeOK, Work
  <2>3. job[t].id \in Entity
    BY <1>1, <1>8 DEF SelectToDelete, Jobs, JobOK
  <2>4. Joined(job[t].id) => DeletingOK(j)
    <3> HIDE DEF j
    <3>1. Joined(job[t].id) => job[t].id \in born
      BY <2>3 DEF Joined, StoreInv, Known
    <3> QED
      BY <1>1, <2>2, <3>1 DEF DeletingOK
  <2> HIDE DEF j
  <2> QED
    BY <1>1, <1>5, <2>1, <2>4, DeletingsDo
<1>9. ASSUME NEW t \in Task, CheckEntity(t) PROVE Deletings'
  <2>1. [job[t] EXCEPT !.pc = "unindex", !.old = byId[job[t].id]].pc = "unindex"
    BY <1>1 DEF TypeOK, Work
  <2> QED
    BY <1>5, <1>6, <1>7, <1>9, <2>1 DEF CheckEntity, Steps
<1>10. ASSUME NEW t \in Task, SelectToUpdate(t) PROVE Deletings'
  <2>1. [job[t] EXCEPT !.pc = "begin", !.old = rows[job[t].id]].pc = "begin"
    BY <1>1 DEF TypeOK, Work
  <2> QED
    BY <1>5, <1>7, <1>10, <2>1 DEF SelectToUpdate
<1>11. ASSUME NEW t \in Task, Insert(t) PROVE Deletings'
  <2>1. \A e : [job[t] EXCEPT !.pc = "cache", !.id = e].op = "create"
    BY <1>1, <1>11 DEF TypeOK, Work, Insert, At
  <2> QED
    BY <1>5, <1>7, <1>11, <2>1 DEF Insert
<1>12. ASSUME NEW t \in Task, \/ CheckParent(t) \/ CacheCreate(t) \/ AddChildIndex(t) \/ RemoveChildIndex(t)
                              \/ Trash(t) \/ CacheDelete(t) \/ Purge(t) \/ Restore(t)
       PROVE  Deletings'
  BY <1>5, <1>6, <1>12 DEF CheckParent, CacheCreate, AddChildIndex, RemoveChildIndex, Trash, CacheDelete,
     Purge, Restore, StorageLocked, Steps
<1>13. ASSUME NEW t \in Task, Begin(t) \/ UpdateRow(t) \/ Commit(t) \/ Rollback(t) \/ CacheUpdate(t)
       PROVE  Deletings'
  BY <1>5, <1>6, <1>13 DEF Begin, UpdateRow, Commit, Rollback, CacheUpdate, At, Steps
<1>14. ASSUME NEW t \in Task,
              VfsCreate(t) \/ VfsUnlink(t) \/ VfsSetstat(t) \/ EmsCreate(t) \/ EmsUpdate(t) \/ EmsOther(t)
       PROVE  Deletings'
  BY <1>1, <1>7, <1>14, StartJobs DEF Start
<1> QED
  BY <1>2, <1>3, <1>8, <1>9, <1>10, <1>11, <1>12, <1>13, <1>14 DEF Next, Step

LEMMA DetailedStep ==
  ASSUME StoreInv, Detailed, [Next]_vars
  PROVE  Detailed'
<1>1. TypeOK /\ Jobs /\ Undoing
  BY DEF StoreInv
<1>2. CASE UNCHANGED table
  BY <1>2 DEF table, Detailed
<1>3. CASE Crash
  BY <1>2, <1>3 DEF Crash, TakeBack, Detailed
<1>4. ASSUME NEW t \in Task, Insert(t) PROVE Detailed'
  <2>1. CASE UNCHANGED <<rows, detail, undo>>
    BY <2>1 DEF Detailed
  <2>2. ASSUME NEW e \in Entity, rows' = [rows EXCEPT ![e] = job[t].to], detail' = [detail EXCEPT ![e] = "live"],
               undo' = undo
        PROVE  Detailed'
    <3>1. job[t].to # None
      BY <1>1, <1>4, NoneIsNothing DEF Insert, At, Jobs, JobOK
    <3>2. \A d \in Entity : /\ rows'[d] = IF d = e THEN job[t].to ELSE rows[d]
                            /\ detail'[d] = IF d = e THEN "live" ELSE detail[d]
      BY <1>1, <2>2 DEF TypeOK
    <3> QED
      BY <2>2, <3>1, <3>2 DEF Detailed
  <2> QED
    BY <1>4, <2>1, <2>2 DEF Insert
<1>5. ASSUME NEW t \in Task, Trash(t) \/ Purge(t) \/ Restore(t) PROVE Detailed'
  <2>1. \A e \in Entity : detail'[e] # "none" => detail[e] # "none"
    BY <1>1, <1>5 DEF Trash, Purge, Restore, TypeOK
  <2> QED
    BY <1>5, <2>1 DEF Trash, Purge, Restore, Detailed
<1>6. ASSUME NEW t \in Task, Begin(t) \/ Commit(t) \/ Rollback(t) PROVE Detailed'
  <2>1. CASE Begin(t)
    BY <2>1 DEF Begin, Detailed
  <2>2. CASE Commit(t)
    BY <2>2 DEF Commit, Detailed
  <2>3. CASE Rollback(t)
    BY <1>1, <2>3 DEF Rollback, TakeBack, Detailed, At, Undoing, InTransaction
  <2> QED
    BY <1>6, <2>1, <2>2, <2>3
<1>7. ASSUME NEW t \in Task, UpdateRow(t) PROVE Detailed'
  <2>1. TableSame \/ TableMoved
    <3>1. TableSame \/ TableNew \/ TableMoved \/ TableKept \/ TableBack
      BY <1>1, TableEffects
    <3>2. born' = born /\ undo' = undo
      BY <1>7 DEF UpdateRow, history
    <3>3. undo # None
      BY <1>1, <1>7 DEF UpdateRow, At, Undoing, InTransaction
    <3> QED
      BY <3>1, <3>2, <3>3 DEF TableSame, TableNew, TableMoved, TableKept, TableBack
  <2>2. \A e \in Entity : rows[e] # None => rows'[e] # None
    BY <1>1, <2>1, NoneIsNothing DEF TableSame, TableMoved, TypeOK
  <2>3. detail' = detail /\ undo' = undo
    BY <1>7 DEF UpdateRow
  <2> QED
    BY <2>2, <2>3 DEF Detailed
<1>8. ASSUME NEW t \in Task, \/ CheckParent(t) \/ CacheCreate(t) \/ AddChildIndex(t) \/ CheckEntity(t)
                             \/ RemoveChildIndex(t) \/ SelectToDelete(t) \/ CacheDelete(t)
                             \/ SelectToUpdate(t) \/ CacheUpdate(t)
      PROVE  UNCHANGED table
  BY <1>8 DEF CheckParent, CacheCreate, AddChildIndex, CheckEntity, RemoveChildIndex, SelectToDelete,
     CacheDelete, SelectToUpdate, CacheUpdate
<1>9. ASSUME NEW t \in Task,
             VfsCreate(t) \/ VfsUnlink(t) \/ VfsSetstat(t) \/ EmsCreate(t) \/ EmsUpdate(t) \/ EmsOther(t)
      PROVE  UNCHANGED table
  BY <1>1, <1>9, StartJobs DEF Start
<1>10. CASE UNCHANGED vars
  BY <1>2, <1>10 DEF vars
<1> QED
  BY <1>2, <1>3, <1>4, <1>5, <1>6, <1>7, <1>8, <1>9, <1>10 DEF Next, Step

LEMMA GoWorks ==
  ASSUME TypeOK, NEW t \in Task, NEW pc \in Steps, Go(t, pc)
  PROVE  \E j : Do(t, j) /\ j.pc = pc /\ j.op = job[t].op /\ j.id = job[t].id
<1> DEFINE j == [job[t] EXCEPT !.pc = pc]
<1>1. j.pc = pc /\ j.op = job[t].op /\ j.id = job[t].id
  BY DEF TypeOK, Work
<1>2. Do(t, j)
  BY DEF Go
<1> HIDE DEF j
<1> QED
  BY <1>1, <1>2

LEMMA InsertCached ==
  ASSUME StoreInv, Deletings, NEW t \in Task, Insert(t), NEW e \in Entity, Cached(e)
  PROVE  Cached(e)'
<1>1. TypeOK /\ job[t].pc = "insert" /\ byId' = byId /\ ~Works(job[t], e)
  BY DEF StoreInv, Insert, At, cache, Works, Creates, Untold, Expires, Forgets
<1>2. CASE Finish(t) /\ detail' = detail
  BY <1>1, <1>2, IdleWorks, CachedAside DEF Finish
<1>3. ASSUME NEW d \in Entity \ born, detail' = [detail EXCEPT ![d] = "live"],
             Do(t, [job[t] EXCEPT !.pc = "cache", !.id = d])
      PROVE  Cached(e)'
  <2> DEFINE j == [job[t] EXCEPT !.pc = "cache", !.id = d]
  <2>1. j.op = "create" /\ j.pc = "cache" /\ j.id = d
    BY <1>1 DEF TypeOK, Work, Insert, At
  <2> HIDE DEF j
  <2>2. Do(t, j) /\ \A u \in Task : job'[u] = IF u = t THEN j ELSE job[u]
    BY <1>1, <1>3, JobIs DEF j, TypeOK
  <2>3. CASE e # d
    <3>1. ~Works(j, e) /\ detail'[e] = detail[e]
      BY <1>1, <1>3, <2>1, <2>3 DEF Works, Creates, Expires, Forgets, TypeOK
    <3> QED
      BY <1>1, <2>2, <3>1, CachedAside
  <2>4. CASE e = d
    <3>1. \A u \in Task : ~Forgets(job'[u], e)
      BY <1>3, <2>1, <2>2, <2>4 DEF Deletings, DeletingOK, Forgets
    <3>2. Creates(job'[t], e)
      BY <2>1, <2>2, <2>4 DEF Creates, Untold
    <3> QED
      BY <3>1, <3>2 DEF Cached
  <2> QED
    BY <2>3, <2>4
<1> QED
  BY <1>2, <1>3 DEF Insert

LEMMA CreateCached ==
  ASSUME StoreInv, NEW t \in Task, CacheCreate(t), NEW e \in Entity, Cached(e)
  PROVE  Cached(e)'
<1>1. /\ TypeOK /\ job[t].op = "create" /\ job[t].id \in Entity /\ job[t].to \in Place
      /\ detail' = detail
  BY DEF StoreInv, CacheCreate, At, Jobs, JobOK, table
<1>2. \A x \in Entity : byId'[x] = IF x = job[t].id THEN job[t].to ELSE byId[x]
  BY <1>1 DEF CacheCreate, AddEntry, TypeOK
<1>3. PICK j : Do(t, j) /\ ~Works(j, e)
  BY <1>1, GoWorks, IdleWorks DEF CacheCreate, Finish, Works, Creates, Untold, Expires, Forgets, Steps
<1>4. \A u \in Task : job'[u] = IF u = t THEN j ELSE job[u]
  BY <1>1, <1>3, JobIs DEF TypeOK
<1>5. \A u \in Task : /\ Creates(job[u], e) => Creates(job'[u], e) \/ byId'[e] # None
                      /\ Expires(job[u], e) => Expires(job'[u], e)
                      /\ Forgets(job'[u], e) => Forgets(job[u], e)
  <2>1. Creates(job[t], e) => byId'[e] # None
    BY <1>1, <1>2, NoneIsNothing DEF Creates
  <2>2. ~Expires(job[t], e)
    BY <1>1 DEF Expires
  <2> QED
    BY <1>3, <1>4, <2>1, <2>2 DEF Works
<1>6. byId[e] # None => byId'[e] # None
  BY <1>1, <1>2, NoneIsNothing
<1> QED
  BY <1>1, <1>5, <1>6, CachedKeeps

LEMMA DeleteCached ==
  ASSUME StoreInv, NEW t \in Task, CacheDelete(t), NEW e \in Entity, Cached(e)
  PROVE  Cached(e)'
<1>1. /\ TypeOK /\ job[t].op \in {"unlink", "expire"} /\ job[t].pc = "cache" /\ job[t].id \in Entity
      /\ detail' = detail /\ RemoveEntry(job[t].id)
  BY DEF StoreInv, CacheDelete, Jobs, JobOK, table
<1>2. PICK j : /\ Do(t, j) /\ ~Creates(j, e) /\ ~Forgets(j, e)
               /\ job[t].op = "expire" => j.pc = "purge" /\ j.op = "expire" /\ j.id = job[t].id
  BY <1>1, GoWorks, IdleWorks DEF CacheDelete, Finish, Works, Creates, Untold, Forgets, Steps
<1>3. \A u \in Task : job'[u] = IF u = t THEN j ELSE job[u]
  BY <1>1, <1>2, JobIs DEF TypeOK
<1>4. \A u \in Task : Expires(job[u], e) => Expires(job'[u], e)
  BY <1>2, <1>3 DEF Expires
<1>5. CASE e # job[t].id
  <2>1. byId'[e] = byId[e]
    BY <1>1, <1>5 DEF RemoveEntry, TypeOK, cache
  <2>2. ~Creates(job[t], e)
    BY <1>5 DEF Creates
  <2>3. \A u \in Task : /\ Creates(job[u], e) => Creates(job'[u], e) \/ byId'[e] # None
                        /\ Expires(job[u], e) => Expires(job'[u], e)
                        /\ Forgets(job'[u], e) => Forgets(job[u], e)
    BY <1>2, <1>3, <1>4, <2>2
  <2> QED
    BY <1>1, <2>1, <2>3, CachedKeeps
<1>6. CASE e = job[t].id /\ job[t].op = "expire"
  <2>1. Expires(job'[t], e)
    BY <1>2, <1>3, <1>6 DEF Expires
  <2> QED
    BY <2>1, CachedSettled
<1>7. CASE e = job[t].id /\ job[t].op = "unlink"
  <2>1. detail[e] # "live" \/ \E u \in Task : Expires(job[u], e)
    BY <1>1, <1>7 DEF Cached, Forgets, Expiring
  <2> QED
    BY <1>1, <1>4, <2>1, CachedSettled
<1> QED
  BY <1>1, <1>5, <1>6, <1>7

LEMMA TrashCached ==
  ASSUME StoreInv, Deletings, NEW t \in Task, Trash(t) \/ Purge(t), NEW e \in Entity, Cached(e)
  PROVE  Cached(e)'
<1>1. TypeOK /\ job[t].op \in {"unlink", "expire"} /\ job[t].id \in Entity /\ byId' = byId
      /\ (Trash(t) => job[t].pc = "trash") /\ (Purge(t) => job[t].op = "expire" /\ job[t].pc = "purge")
  BY DEF StoreInv, Trash, Purge, At, Jobs, JobOK, cache
<1>2. PICK j : /\ Do(t, j)
               /\ Trash(t) => j.pc = "cache" /\ j.op = job[t].op /\ j.id = job[t].id
               /\ Purge(t) => ~Works(j, e)
  <2>1. CASE Trash(t)
    <3>1. ~Purge(t)
      BY <1>1, <2>1
    <3> QED
      BY <1>1, <2>1, <3>1, GoWorks DEF Trash, Steps
  <2>2. CASE Purge(t)
    <3>1. ~Trash(t)
      BY <1>1, <2>2
    <3> QED
      BY <2>2, <3>1, IdleWorks DEF Purge, Finish
  <2> QED
    BY <2>1, <2>2
<1>3. \A u \in Task : job'[u] = IF u = t THEN j ELSE job[u]
  BY <1>1, <1>2, JobIs DEF TypeOK
<1>4. CASE e # job[t].id
  <2>1. ~Works(job[t], e) /\ ~Works(j, e)
    BY <1>2, <1>4 DEF Works, Creates, Expires, Forgets
  <2>2. detail'[e] = detail[e]
    BY <1>1, <1>4 DEF Trash, Purge, TypeOK
  <2> QED
    BY <1>1, <1>2, <2>1, <2>2, CachedAside
<1>5. CASE e = job[t].id /\ Trash(t) /\ job[t].op = "expire"
  <2>1. Expires(job'[t], e)
    BY <1>2, <1>3, <1>5 DEF Expires
  <2> QED
    BY <2>1, CachedSettled
<1>6. CASE e = job[t].id /\ (Purge(t) \/ job[t].op = "unlink")
  <2>1. detail'[e] # "live"
    BY <1>1, <1>6 DEF Trash, Purge, TypeOK, Deletings, DeletingOK
  <2> QED
    BY <2>1, CachedSettled
<1> QED
  BY <1>1, <1>4, <1>5, <1>6

LEMMA RestoreCached ==
  ASSUME StoreInv, NEW t \in Task, Restore(t), NEW e \in Entity, Cached(e), e \notin reverted'
  PROVE  Cached(e)'
<1>1. TypeOK /\ byId' = byId /\ detail'[e] = detail[e] /\ ~Works(job[t], e) /\ Do(t, Idle)
  BY DEF StoreInv, Restore, At, cache, Works, Creates, Untold, Expires, Forgets, TypeOK, Finish
<1> QED
  BY <1>1, IdleWorks, CachedAside

LEMMA RollbackCached ==
  ASSUME StoreInv, NEW t \in Task, Rollback(t), NEW e \in Entity, Cached(e), e \notin undone'
  PROVE  Cached(e)'
<1>1. TypeOK /\ byId' = byId /\ detail'[e] = detail[e] /\ ~Works(job[t], e) /\ Do(t, Idle)
  BY DEF StoreInv, Rollback, TakeBack, At, cache, Works, Creates, Untold, Expires, Forgets, Finish
<1> QED
  BY <1>1, IdleWorks, CachedAside

LEMMA UpdateCached ==
  ASSUME StoreInv, NEW t \in Task, CacheUpdate(t), NEW e \in Entity, Cached(e)
  PROVE  Cached(e)'
<1>1. /\ TypeOK /\ job[t].op = "update" /\ job[t].id \in Entity /\ job[t].to \in Place
      /\ detail' = detail /\ Do(t, Idle)
  BY DEF StoreInv, CacheUpdate, At, Jobs, JobOK, table, Finish
<1>2. ~Works(job[t], e)
  BY <1>1 DEF Works, Creates, Untold, Expires, Forgets
<1>3. byId[e] # None => byId'[e] # None
  <2>1. PICK changed : UpdateEntry(job[t].id, job[t].to, changed)
    BY DEF CacheUpdate
  <2>2. CacheTypes
    BY <1>1 DEF TypeOK, CacheTypes
  <2>3. \/ byId' = byId
        \/ \E new \in Place : byId' = [byId EXCEPT ![job[t].id] = new]
    BY <1>1, <2>1, <2>2, UpdateIs DEF cache
  <2> QED
    BY <1>1, <2>3, NoneIsNothing DEF TypeOK
<1> QED
  BY <1>1, <1>2, <1>3, IdleWorks, CachedAside

(* The other steps take up no creation and no deletion.                    *)
LEMMA OtherCached ==
  ASSUME StoreInv, NEW t \in Task, NEW e \in Entity, Cached(e),
         \/ CheckParent(t) \/ AddChildIndex(t) \/ CheckEntity(t) \/ RemoveChildIndex(t)
         \/ SelectToDelete(t) \/ SelectToUpdate(t) \/ Begin(t) \/ UpdateRow(t) \/ Commit(t)
  PROVE  Cached(e)'
<1>1. TypeOK /\ detail' = detail /\ byId' = byId
  BY DEF StoreInv, CheckParent, AddChildIndex, CheckEntity, RemoveChildIndex, SelectToDelete,
     SelectToUpdate, Begin, UpdateRow, Commit, table, cache
<1>2. ~Works(job[t], e)
  BY DEF StoreInv, Jobs, JobOK, CheckParent, AddChildIndex, CheckEntity, RemoveChildIndex, SelectToDelete,
     SelectToUpdate, Begin, UpdateRow, Commit, At, Works, Creates, Untold, Expires, Forgets
<1>3. ASSUME NEW j, j.pc \notin {"cache", "purge"} \/ j.op = "update" PROVE ~Works(j, e)
  BY <1>3 DEF Works, Creates, Untold, Expires, Forgets
<1>4. ASSUME NEW pc \in Steps, Go(t, pc), pc \notin {"cache", "purge"} \/ job[t].op = "update"
      PROVE  \E j : Do(t, j) /\ ~Works(j, e)
  BY <1>1, <1>3, <1>4, GoWorks
<1>5. ASSUME Finish(t) PROVE \E j : Do(t, j) /\ ~Works(j, e)
  BY <1>5, IdleWorks DEF Finish
<1>6. CASE CheckParent(t) \/ AddChildIndex(t) \/ RemoveChildIndex(t) \/ Begin(t) \/ UpdateRow(t) \/ Commit(t)
  <2>1. \E j : Do(t, j) /\ ~Works(j, e)
    BY <1>4, <1>5, <1>6 DEF CheckParent, AddChildIndex, RemoveChildIndex, Begin, UpdateRow, Commit, StorageLocked,
       At, Steps
  <2> QED
    BY <1>1, <1>2, <2>1, CachedAside
<1>7. CASE CheckEntity(t)
  <2>1. [job[t] EXCEPT !.pc = "unindex", !.old = byId[job[t].id]].pc = "unindex"
    BY <1>1 DEF TypeOK, Work
  <2>2. \E j : Do(t, j) /\ ~Works(j, e)
    BY <1>3, <1>4, <1>5, <1>7, <2>1 DEF CheckEntity, Steps
  <2> QED
    BY <1>1, <1>2, <2>2, CachedAside
<1>8. CASE SelectToDelete(t)
  <2>1. \A pc, was : [job[t] EXCEPT !.pc = pc, !.was = was].pc = pc
    BY <1>1 DEF TypeOK, Work
  <2>2. Finish(t) \/ \E pc \in {"restore", "trash"} : \E was : Do(t, [job[t] EXCEPT !.pc = pc, !.was = was])
    BY <1>8 DEF SelectToDelete
  <2>3. ASSUME NEW pc \in {"restore", "trash"}, NEW was, Do(t, [job[t] EXCEPT !.pc = pc, !.was = was])
        PROVE  \E j : Do(t, j) /\ ~Works(j, e)
    BY <1>3, <2>1, <2>3
  <2>4. \E j : Do(t, j) /\ ~Works(j, e)
    BY <1>5, <2>2, <2>3
  <2> QED
    BY <1>1, <1>2, <2>4, CachedAside
<1>9. CASE SelectToUpdate(t)
  <2>1. [job[t] EXCEPT !.pc = "begin", !.old = rows[job[t].id]].pc = "begin"
    BY <1>1 DEF TypeOK, Work
  <2>2. \E j : Do(t, j) /\ ~Works(j, e)
    BY <1>3, <1>5, <1>9, <2>1 DEF SelectToUpdate
  <2> QED
    BY <1>1, <1>2, <2>2, CachedAside
<1> QED
  BY <1>6, <1>7, <1>8, <1>9

LEMMA CachedStep ==
  ASSUME StoreInv, CachedInv, [Next]_vars
  PROVE  CachedInv'
<1>1. Deletings' /\ Detailed' /\ Deletings
  BY DeletingsStep, DetailedStep DEF CachedInv
<1> SUFFICES ASSUME NEW e \in Entity, e \notin undone', e \notin reverted' PROVE Cached(e)'
  BY <1>1 DEF CachedInv
<1>2. CASE Crash
  <2>1. \A u \in Task : job'[u] = Idle
    BY <1>2 DEF Crash
  <2>2. byId'[e] = rows'[e]
    BY <1>2 DEF Crash, LoadFrom
  <2>3. \A u \in Task : ~Works(job'[u], e)
    BY <2>1, IdleWorks
  <2>4. detail'[e] = "live" => byId'[e] # None
    BY <1>1, <2>2 DEF Detailed
  <2> QED
    BY <2>3, <2>4 DEF Cached, Works
<1>3. CASE ~Crash
  <2>1. undone \subseteq undone' /\ reverted \subseteq reverted'
    <3>1. CASE UNCHANGED vars
      BY <3>1 DEF vars, history
    <3>2. ASSUME NEW t \in Task, Step(t) PROVE undone \subseteq undone' /\ reverted \subseteq reverted'
      BY <3>2 DEF Step, CheckParent, Insert, CacheCreate, AddChildIndex, CheckEntity, RemoveChildIndex,
         SelectToDelete, Trash, CacheDelete, Purge, Restore, SelectToUpdate, Begin, UpdateRow, Commit,
         Rollback, TakeBack, CacheUpdate, history
    <3>3. ASSUME NEW t \in Task, NEW j, Start(t, j) PROVE undone \subseteq undone' /\ reverted \subseteq reverted'
      BY <3>3 DEF Start, history
    <3> QED
      BY <1>3, <3>1, <3>2, <3>3, StartJobs DEF Next, StoreInv
  <2>2. Cached(e)
    BY <2>1 DEF CachedInv
  <2>3. CASE UNCHANGED vars
    BY <2>2, <2>3, CachedKeeps DEF vars, table, cache
  <2>4. ASSUME NEW t \in Task, Step(t) PROVE Cached(e)'
    BY <1>1, <2>2, <2>4, InsertCached, CreateCached, DeleteCached, TrashCached, RestoreCached, RollbackCached,
       UpdateCached, OtherCached DEF Step
  <2>5. ASSUME NEW t \in Task, NEW j, j.pc \in {"parent", "insert", "entity", "select"}, Start(t, j)
        PROVE  Cached(e)'
    <3>1. TypeOK /\ Do(t, j) /\ job[t] = Idle /\ detail' = detail /\ byId' = byId
      BY <2>5 DEF Start, table, cache, StoreInv
    <3>2. ~Works(j, e) /\ ~Works(job[t], e)
      BY <2>5, <3>1, IdleWorks DEF Works, Creates, Untold, Expires, Forgets
    <3> QED
      BY <2>2, <3>1, <3>2, CachedAside
  <2> QED
    BY <1>3, <2>3, <2>4, <2>5, StartJobs DEF Next, StoreInv
<1> QED
  BY <1>2, <1>3

(* Between the tasks that work on an entity the cache has it where its row *)
(* is, and has every live one, whatever renames, moves, deletions, failed  *)
(* transactions and crashes came before; the exceptions are those that     *)
(* CacheFollowsTable names.                                                *)
THEOREM CacheKeepsUp == Spec => []CacheFollowsTable
<1>1. Init => FollowInv /\ CachedInv
  <2> SUFFICES ASSUME Init PROVE FollowInv /\ CachedInv
    OBVIOUS
  <2>1. \A t \in Task, e \in Entity : ~Marks(job[t], e) /\ ~Reads(job[t], e) /\ ~Works(job[t], e)
    BY NothingIdle, IdleWorks DEF Init
  <2>2. \A e \in Entity : byId[e] = None /\ detail[e] = "none" /\ undo = None
    BY DEF Init
  <2>3. \A e \in Entity : Follows(e) /\ Cached(e)
    BY <2>1, <2>2 DEF Follows, Reading, Writing, Retelling, Creating, Told, Marks, Cached, Works
  <2>4. Deletings
    BY DEF Init, Deletings, DeletingOK, Idle
  <2> QED
    BY <2>3, <2>4 DEF FollowInv, CachedInv, Detailed, Init
<1>2. StoreInv /\ FollowInv /\ CachedInv /\ [Next]_vars => FollowInv' /\ CachedInv'
  BY FollowStep, CachedStep
<1>3. FollowInv /\ CachedInv => CacheFollowsTable
  <2> SUFFICES ASSUME FollowInv, CachedInv, NEW e \in Entity, Quiet(e), e \notin undone
               PROVE  /\ byId[e] # None /\ e \notin drifted => byId[e] = rows[e]
                      /\ detail[e] = "live" /\ e \notin reverted => byId[e] # None
    BY DEF CacheFollowsTable
  <2>1. \A t \in Task : ~Marks(job[t], e) /\ ~Works(job[t], e)
    BY DEF Quiet, Marks, Writes, Tells, Creates, Works, Expires, Forgets
  <2>2. byId[e] # None /\ e \notin drifted => byId[e] = rows[e]
    BY <2>1 DEF FollowInv, Follows, Told, Holds, NoWriter, Marks
  <2>3. detail[e] = "live" /\ e \notin reverted => byId[e] # None
    BY <2>1 DEF CachedInv, Cached, Expiring, Works
  <2> QED
    BY <2>2, <2>3
<1> QED
  BY <1>1, <1>2, <1>3, StoreAlways, PTL DEF Spec

-----------------------------------------------------------------------------
(* OpenFiles.  The order of the parts matters: what is stored can be found *)
(* again since a unit never changes its place, and a handle that writes    *)
(* knows of each of its units where it is.                                 *)

(* Types.  A unit is the number of the call that wrote it, or a gap.       *)
Unit == 0..writes
FileHandle == [st : {"none", "open", "closing", "failed", "closed"}, content : Seq(Unit),
               position : Nat, dirty : BOOLEAN, write : BOOLEAN, append : BOOLEAN,
               truncate : BOOLEAN]
FileTypes ==
  /\ blob \in Seq(Unit) /\ writes \in Nat
  /\ size \in Nat \cup {NoRow} /\ undoSize \in Nat \cup {NoRow, NoTransaction}
  /\ handle \in [Handle -> FileHandle]
  /\ seen \in [Handle -> Seq(Unit)]
  /\ mine \in [Handle -> SUBSET (1..writes)]
  /\ over \in [Handle -> SUBSET Nat]
  /\ excused \subseteq Unit /\ parted \in BOOLEAN

(* A unit is at the same position wherever it is.                          *)
Copies == {blob} \cup {handle[h].content : h \in Handle} \cup {seen[h] : h \in Handle}
Placed ==
  \A s, t \in Copies : \A i \in DOMAIN s, j \in DOMAIN t : s[i] = t[j] /\ s[i] # Gap => i = j

(* What a handle that writes has of the contents that it copied, and of    *)
(* what it has written itself.                                             *)
Unchanged(h) ==
  ~handle[h].truncate =>
    /\ Len(seen[h]) <= Len(handle[h].content)
    /\ \A i \in DOMAIN seen[h] : i \in over[h] \/ handle[h].content[i] = seen[h][i]
Own(h) == \A w \in mine[h] : Contains(handle[h].content, w) \/ w \in excused
Working ==
  \A h \in Handle :
    /\ handle[h].st = "open" => Own(h) /\ (handle[h].write => Unchanged(h))
    /\ handle[h].st = "open" /\ handle[h].dirty => handle[h].write /\ over[h] # {}
    /\ handle[h].st = "open" /\ ~handle[h].dirty => mine[h] = {}
    /\ handle[h].st = "none" => mine[h] = {} /\ over[h] = {}

(* While a close is under way the size is that of what it has stored.      *)
OneFlushes ==
  ~parted => \A h \in Flushing : handle[h].content = blob /\ \A g \in Flushing : g = h

FileInv == FileTypes /\ Placed /\ Working /\ StoredUntilOverwritten /\ SizeTellsLength /\ OneFlushes

-----------------------------------------------------------------------------
(* A copy with a unit written into it.                                     *)
IsWritten(d, c, p, u) ==
  /\ Len(d) \in Nat /\ DOMAIN d = 1..Len(d) /\ Len(c) <= Len(d)
  /\ p + 1 \in DOMAIN d /\ d[p + 1] = u
  /\ \A i \in DOMAIN c : i # p + 1 => d[i] = c[i]
  /\ \A i \in DOMAIN d : i \in DOMAIN c \/ i = p + 1 \/ d[i] = Gap
LEMMA WrittenIs ==
  ASSUME NEW T, NEW c \in Seq(T), NEW p \in Nat, NEW u \in T, Gap \in T
  PROVE  Written(c, p, u) \in Seq(T) /\ IsWritten(Written(c, p, u), c, p, u)
<1> DEFINE n == IF p < Len(c) THEN Len(c) ELSE p + 1
           W == Written(c, p, u)
<1>1. n \in Nat /\ Len(c) \in Nat /\ Len(c) <= n /\ p + 1 \in 1..n /\ DOMAIN c = 1..Len(c)
  OBVIOUS
<1>2. W = [i \in 1..n |-> IF i = p + 1 THEN u ELSE IF i <= Len(c) THEN c[i] ELSE Gap]
  BY DEF Written
<1>3. \A i \in 1..n : (IF i = p + 1 THEN u ELSE IF i <= Len(c) THEN c[i] ELSE Gap) \in T
  BY <1>1
<1>4. W \in [1..n -> T]
  BY <1>2, <1>3
<1> HIDE DEF n, W
<1>5. W \in Seq(T) /\ Len(W) = n /\ DOMAIN W = 1..n
  BY <1>1, <1>4
<1>6. \A i \in 1..n : W[i] = IF i = p + 1 THEN u ELSE IF i <= Len(c) THEN c[i] ELSE Gap
  BY <1>2
<1>7. \A i \in DOMAIN c : i \in 1..n /\ i <= Len(c)
  BY <1>1
<1>8. \A i \in 1..n : i <= Len(c) => i \in DOMAIN c
  BY <1>1
<1>9. /\ W \in Seq(T) /\ Len(W) \in Nat /\ DOMAIN W = 1..Len(W) /\ Len(c) <= Len(W)
      /\ p + 1 \in DOMAIN W /\ W[p + 1] = u
      /\ \A i \in DOMAIN c : i # p + 1 => W[i] = c[i]
      /\ \A i \in DOMAIN W : i \in DOMAIN c \/ i = p + 1 \/ W[i] = Gap
  BY <1>1, <1>5, <1>6, <1>7, <1>8
<1> QED
  BY <1>9 DEF W, IsWritten

(* The values of the state, each apart.                                    *)
LEMMA HandleParts ==
  ASSUME FileTypes, NEW h \in Handle
  PROVE  /\ handle[h] \in FileHandle
         /\ handle[h].content \in Seq(Unit) /\ handle[h].position \in Nat
         /\ Len(handle[h].content) \in Nat
         /\ DOMAIN handle[h].content = 1..Len(handle[h].content)
         /\ seen[h] \in Seq(Unit) /\ Len(seen[h]) \in Nat /\ DOMAIN seen[h] = 1..Len(seen[h])
         /\ mine[h] \subseteq 1..writes /\ over[h] \subseteq Nat
         /\ DOMAIN blob = 1..Len(blob) /\ Len(blob) \in Nat
<1>1. handle[h] \in FileHandle /\ seen[h] \in Seq(Unit) /\ blob \in Seq(Unit)
  BY DEF FileTypes
<1>2. handle[h].content \in Seq(Unit) /\ handle[h].position \in Nat
  BY <1>1 DEF FileHandle
<1> QED
  BY <1>1, <1>2 DEF FileTypes

(* What Write() does, step by step.                                        *)
LEMMA WriteIs ==
  ASSUME FileTypes, NEW h \in Handle, Write(h)
  PROVE  \E p \in Nat :
           LET c == handle[h].content
               d == Written(c, p, writes')
           IN /\ handle[h].st = "open" /\ handle[h].write
              /\ writes' = writes + 1 /\ writes' \in Unit' /\ Unit \subseteq Unit'
              /\ handle' = [handle EXCEPT ![h].content = d, ![h].position = p + 1, ![h].dirty = TRUE]
              /\ mine' = [mine EXCEPT ![h] = @ \cup {writes'}]
              /\ over' = [over EXCEPT ![h] = @ \cup {p + 1}]
              /\ excused' = IF p < Len(c) /\ c[p + 1] \in mine[h] THEN excused \cup {c[p + 1]} ELSE excused
              /\ UNCHANGED <<blob, size, undoSize, seen, parted>>
              /\ d \in Seq(Unit') /\ IsWritten(d, c, p, writes')
<1> DEFINE c == handle[h].content
           p == IF handle[h].append THEN Len(c) ELSE handle[h].position
           d == Written(c, p, writes')
<1>1. p \in Nat /\ c \in Seq(Unit)
  BY HandleParts
<1>2. writes' = writes + 1 /\ writes \in Nat
  BY DEF Write, FileTypes
<1>3. writes' \in Unit' /\ Unit \subseteq Unit' /\ Gap \in Unit'
  BY <1>2 DEF Unit, Gap
<1>6. c \in Seq(Unit')
  BY <1>1, <1>3, SeqMonotonic
<1>4. /\ handle[h].st = "open" /\ handle[h].write
      /\ handle' = [handle EXCEPT ![h].content = d, ![h].position = p + 1, ![h].dirty = TRUE]
      /\ mine' = [mine EXCEPT ![h] = @ \cup {writes'}]
      /\ over' = [over EXCEPT ![h] = @ \cup {p + 1}]
      /\ excused' = IF p < Len(c) /\ c[p + 1] \in mine[h] THEN excused \cup {c[p + 1]} ELSE excused
      /\ UNCHANGED <<blob, size, undoSize, seen, parted>>
  BY DEF Write
<1> HIDE DEF p
<1>5. d \in Seq(Unit') /\ IsWritten(d, c, p, writes')
  BY <1>1, <1>3, <1>6, WrittenIs
<1> QED
  BY <1>1, <1>2, <1>3, <1>4, <1>5

(* The handles that there may be, and what the steps make of one.          *)
LEMMA HandleTypes ==
  ASSUME NEW r \in FileHandle
  PROVE  /\ \A p \in Nat : [r EXCEPT !.position = p] \in FileHandle
         /\ [r EXCEPT !.st = "closing"] \in FileHandle
         /\ \A p \in Nat, d \in Seq(Unit) :
              [r EXCEPT !.content = d, !.position = p, !.dirty = TRUE] \in FileHandle
  BY DEF FileHandle
LEMMA UnopenedTypes ==
  /\ Unopened \in FileHandle
  /\ [Unopened EXCEPT !.st = "closed"] \in FileHandle
  /\ [Unopened EXCEPT !.st = "failed"] \in FileHandle
<1>1. <<>> \in Seq(Unit)
  OBVIOUS
<1> QED
  BY <1>1 DEF FileHandle, Unopened

LEMMA FileTypesInit == FilesInit => FileTypes
<1>1. \A S : <<>> \in Seq(S)
  OBVIOUS
<1>2. SUFFICES ASSUME FilesInit PROVE FileTypes
  OBVIOUS
<1>3. /\ blob \in Seq(Unit) /\ seen \in [Handle -> Seq(Unit)]
      /\ handle \in [Handle -> FileHandle]
  BY <1>1, <1>2, UnopenedTypes DEF FilesInit
<1> QED
  BY <1>2, <1>3 DEF FilesInit, FileTypes
LEMMA FileTypesStep ==
  ASSUME FileTypes, [FilesNext]_fileVars
  PROVE  FileTypes'
<1>1. ASSUME NEW h \in Handle, Open(h) PROVE FileTypes'
  <2>1. PICK write \in BOOLEAN, append \in BOOLEAN, truncate \in BOOLEAN :
          handle' = [handle EXCEPT ![h] =
            [st |-> "open", content |-> IF truncate THEN <<>> ELSE blob,
             position |-> IF append THEN Len(IF truncate THEN <<>> ELSE blob) ELSE 0,
             dirty |-> FALSE, write |-> write, append |-> append,
             truncate |-> truncate]]
    BY <1>1 DEF Open
  <2> DEFINE copy == IF truncate THEN <<>> ELSE blob
  <2>2. copy \in Seq(Unit) /\ Len(copy) \in Nat /\ blob \in Seq(Unit)
    BY DEF FileTypes
  <2> HIDE DEF copy
  <2>3. [st |-> "open", content |-> copy, position |-> IF append THEN Len(copy) ELSE 0,
         dirty |-> FALSE, write |-> write, append |-> append,
         truncate |-> truncate] \in FileHandle
    BY <2>2 DEF FileHandle
  <2>4. handle' \in [Handle -> FileHandle]
    BY <2>1, <2>3 DEF FileTypes, copy
  <2>5. UNCHANGED <<blob, size, undoSize, writes, mine, over, excused, parted>>
        /\ seen' = [seen EXCEPT ![h] = blob]
    BY <1>1 DEF Open
  <2> QED
    BY <2>2, <2>4, <2>5 DEF FileTypes, FileHandle, Unit
<1>2. ASSUME NEW h \in Handle, Write(h) PROVE FileTypes'
  <2> DEFINE c == handle[h].content
  <2>1. PICK p \in Nat :
          /\ writes' = writes + 1 /\ writes' \in Unit' /\ Unit \subseteq Unit'
          /\ handle' = [handle EXCEPT ![h].content = Written(c, p, writes'),
                                      ![h].position = p + 1, ![h].dirty = TRUE]
          /\ mine' = [mine EXCEPT ![h] = @ \cup {writes'}]
          /\ over' = [over EXCEPT ![h] = @ \cup {p + 1}]
          /\ excused' = IF p < Len(c) /\ c[p + 1] \in mine[h] THEN excused \cup {c[p + 1]} ELSE excused
          /\ UNCHANGED <<blob, size, undoSize, seen, parted>>
          /\ Written(c, p, writes') \in Seq(Unit')
    BY <1>2, WriteIs
  <2>2. Seq(Unit) \subseteq Seq(Unit') /\ writes \in Nat
    BY <2>1, SeqMonotonic DEF FileTypes
  <2>3. FileHandle \subseteq FileHandle'
    BY <2>2 DEF FileHandle
  <2>4. handle[h] \in FileHandle'
    BY <2>3, HandleParts
  <2>5. [handle[h] EXCEPT !.content = Written(c, p, writes'), !.position = p + 1, !.dirty = TRUE]
          \in FileHandle'
    <3>1. \A r \in FileHandle', q \in Nat, d \in Seq(Unit') :
            [r EXCEPT !.content = d, !.position = q, !.dirty = TRUE] \in FileHandle'
      BY DEF FileHandle
    <3>2. p + 1 \in Nat
      OBVIOUS
    <3> QED
      BY <2>1, <2>4, <3>1, <3>2
  <2>6. handle' \in [Handle -> FileHandle']
    BY <2>1, <2>3, <2>5 DEF FileTypes
  <2>7. mine' \in [Handle -> SUBSET (1..writes')] /\ over' \in [Handle -> SUBSET Nat]
    BY <2>1, <2>2 DEF FileTypes
  <2>8. excused' \subseteq Unit'
    <3>1. p < Len(c) => c[p + 1] \in Unit
      BY HandleParts
    <3> QED
      BY <2>1, <3>1 DEF FileTypes
  <2>9. blob' \in Seq(Unit') /\ seen' \in [Handle -> Seq(Unit')]
    BY <2>1, <2>2 DEF FileTypes
  <2> QED
    BY <2>1, <2>2, <2>6, <2>7, <2>8, <2>9 DEF FileTypes
<1>3. ASSUME NEW h \in Handle, Seek(h) \/ Recv(h) PROVE FileTypes'
  <2>1. handle[h] \in FileHandle /\ handle[h].position \in Nat /\ handle[h].position + 1 \in Nat
    BY HandleParts
  <2>2. \E p \in Nat : handle' = [handle EXCEPT ![h].position = p]
    <3>1. \A p \in 0..MaxLength : p \in Nat
      BY FileAssumption
    <3>2. CASE Seek(h)
      BY <3>1, <3>2 DEF Seek
    <3>3. CASE Recv(h)
      BY <2>1, <3>3 DEF Recv
    <3> QED
      BY <1>3, <3>2, <3>3
  <2>3. handle' \in [Handle -> FileHandle]
    BY <2>1, <2>2, HandleTypes DEF FileTypes
  <2>4. UNCHANGED <<blob, size, undoSize, writes, fileHistory>>
    BY <1>3 DEF Seek, Recv
  <2> QED
    BY <2>3, <2>4 DEF FileTypes, fileHistory, FileHandle, Unit
<1>4. ASSUME NEW h \in Handle, Close(h) PROVE FileTypes'
  <2>1. handle[h] \in FileHandle
    BY HandleParts
  <2>2. /\ [Unopened EXCEPT !.st = "closed"] \in FileHandle
        /\ [Unopened EXCEPT !.st = "failed"] \in FileHandle
        /\ [handle[h] EXCEPT !.st = "closing"] \in FileHandle
    BY <2>1, HandleTypes, UnopenedTypes
  <2>3. handle' \in [Handle -> FileHandle]
    BY <1>4, <2>2 DEF Close, Stored, Drop, FileTypes
  <2>4. blob' \in Seq(Unit) /\ parted' \in BOOLEAN
    BY <1>4, HandleParts DEF Close, Stored, FileTypes
  <2>5. excused' \subseteq Unit
    <3>1. \A j \in DOMAIN blob : blob[j] \in Unit
      BY DEF FileTypes
    <3> QED
      BY <1>4, <3>1 DEF Close, Stored, FileTypes
  <2>6. UNCHANGED <<size, undoSize, writes, seen, mine, over>>
    BY <1>4 DEF Close
  <2> QED
    BY <2>3, <2>4, <2>5, <2>6 DEF FileTypes, FileHandle, Unit
<1>5. ASSUME NEW h \in Handle, UpdateSize(h) PROVE FileTypes'
  <2>1. /\ [Unopened EXCEPT !.st = "closed"] \in FileHandle
        /\ [Unopened EXCEPT !.st = "failed"] \in FileHandle
    BY UnopenedTypes
  <2>2. Len(handle[h].content) \in Nat
    BY HandleParts
  <2>3. handle' \in [Handle -> FileHandle]
    BY <1>5, <2>1 DEF UpdateSize, Drop, FileTypes
  <2>4. size' \in Nat \cup {NoRow}
    BY <1>5, <2>2 DEF UpdateSize, FileTypes
  <2>5. UNCHANGED <<blob, undoSize, writes, fileHistory>>
    BY <1>5 DEF UpdateSize
  <2> QED
    BY <2>3, <2>4, <2>5 DEF FileTypes, FileHandle, Unit, fileHistory
<1>6. CASE Expire \/ OtherBegin \/ OtherCommit \/ OtherRollback
  BY <1>6 DEF Expire, OtherBegin, OtherCommit, OtherRollback, FileTypes, FileHandle, Unit, fileHistory
<1>7. CASE UNCHANGED fileVars
  BY <1>7 DEF fileVars, fileHistory, FileTypes, FileHandle, Unit
<1> QED
  BY <1>1, <1>2, <1>3, <1>4, <1>5, <1>6, <1>7 DEF FilesNext

(* Every copy is one that there was, or empty, but for the one a write     *)
(* changes.                                                                *)
LEMMA CopyTypes ==
  ASSUME FileTypes, NEW s \in Copies
  PROVE  s \in Seq(Unit) /\ \A i \in DOMAIN s : s[i] \in Unit
<1>1. s \in Seq(Unit)
  BY HandleParts DEF Copies, FileTypes
<1> QED
  BY <1>1

(* A seek and a stream that reads move the position and nothing else.      *)
LEMMA MovesOnly ==
  ASSUME FileTypes, NEW h \in Handle, Seek(h) \/ Recv(h), NEW g \in Handle
  PROVE  /\ handle'[g].st = handle[g].st /\ handle'[g].content = handle[g].content
         /\ handle'[g].dirty = handle[g].dirty /\ handle'[g].write = handle[g].write
         /\ handle'[g].truncate = handle[g].truncate
<1>1. handle[g] \in FileHandle /\ handle[h] \in FileHandle
  BY HandleParts
<1>2. PICK p : handle' = [handle EXCEPT ![h].position = p]
  BY DEF Seek, Recv
<1> QED
  BY <1>1, <1>2 DEF FileTypes, FileHandle

LEMMA CopiesStay ==
  ASSUME FileTypes, [FilesNext]_fileVars, \A h \in Handle : ~Write(h)
  PROVE  Copies' \subseteq Copies \cup {<<>>}
<1>1. blob' \in Copies
  BY DEF FilesNext, Open, Seek, Recv, Close, Stored, UpdateSize, Expire, OtherBegin,
         OtherCommit, OtherRollback, fileVars, fileHistory, Copies
<1>2. ASSUME NEW g \in Handle PROVE seen'[g] \in Copies
  BY DEF FilesNext, Open, Seek, Recv, Close, Stored, UpdateSize, Expire, OtherBegin,
         OtherCommit, OtherRollback, fileVars, fileHistory, Copies, FileTypes
<1>3. ASSUME NEW g \in Handle PROVE handle'[g].content \in Copies \cup {<<>>}
  <2>1. blob \in Copies /\ handle[g].content \in Copies
    BY DEF Copies
  <2>2. handle[g] \in FileHandle
    BY HandleParts
  <2>3. ASSUME NEW h \in Handle, Open(h) PROVE handle'[g].content \in {handle[g].content, blob, <<>>}
    BY <2>3 DEF Open, FileTypes
  <2>4. ASSUME NEW h \in Handle, Seek(h) \/ Recv(h)
        PROVE  handle'[g].content = handle[g].content
    BY <2>4, MovesOnly
  <2>5. ASSUME NEW h \in Handle, Close(h) \/ UpdateSize(h)
        PROVE  handle'[g].content \in {handle[g].content, <<>>}
    <3>1. CASE \E st \in {"closed", "failed"} : Drop(h, st)
      BY <3>1 DEF Drop, Unopened, FileTypes
    <3>2. CASE Stored(h)
      BY <2>2, <3>2, HandleParts DEF Stored, FileTypes, FileHandle
    <3> QED
      BY <2>5, <3>1, <3>2 DEF Close, UpdateSize
  <2>6. CASE Expire \/ OtherBegin \/ OtherCommit \/ OtherRollback \/ UNCHANGED fileVars
    BY <2>1, <2>6 DEF Expire, OtherBegin, OtherCommit, OtherRollback, fileVars
  <2> QED
    BY <2>1, <2>3, <2>4, <2>5, <2>6 DEF FilesNext
<1> QED
  BY <1>1, <1>2, <1>3 DEF Copies

LEMMA PlacedStep ==
  ASSUME FileTypes, Placed, [FilesNext]_fileVars
  PROVE  Placed'
<1>1. CASE \A h \in Handle : ~Write(h)
  <2>1. Copies' \subseteq Copies \cup {<<>>}
    BY <1>1, CopiesStay
  <2>2. DOMAIN <<>> = {}
    OBVIOUS
  <2> QED
    BY <2>1, <2>2 DEF Placed
<1>2. ASSUME NEW h \in Handle, Write(h) PROVE Placed'
  <2> DEFINE c == handle[h].content
  <2>1. PICK p \in Nat :
          /\ writes' = writes + 1
          /\ handle' = [handle EXCEPT ![h].content = Written(c, p, writes'),
                                      ![h].position = p + 1, ![h].dirty = TRUE]
          /\ UNCHANGED <<blob, seen>>
          /\ IsWritten(Written(c, p, writes'), c, p, writes')
    BY <1>2, WriteIs
  <2> DEFINE d == Written(c, p, writes')
  <2>2. c \in Copies /\ writes \in Nat
    BY DEF Copies, FileTypes
  <2>3. Copies' \subseteq Copies \cup {d}
    <3>1. \A g \in Handle : handle'[g].content \in {handle[g].content, d}
      BY <2>1, HandleParts DEF FileTypes, FileHandle
    <3> QED
      BY <2>1, <3>1 DEF Copies
  <2> HIDE DEF d
  <2>4. ASSUME NEW s \in Copies', NEW i \in DOMAIN s, s[i] # Gap
        PROVE  \/ s[i] = writes + 1 /\ i = p + 1
               \/ s[i] \in Unit /\ \E x \in Copies : i \in DOMAIN x /\ x[i] = s[i]
    <3>1. CASE s \in Copies
      BY <3>1, CopyTypes
    <3>2. CASE s = d
      <4>1. \/ i \in DOMAIN c /\ d[i] = c[i]
            \/ i = p + 1 /\ d[i] = writes + 1
        BY <2>1, <2>4, <3>2 DEF IsWritten, d
      <4>2. i \in DOMAIN c => c[i] \in Unit
        BY <2>2, CopyTypes
      <4> QED
        BY <2>2, <3>2, <4>1, <4>2
    <3> QED
      BY <2>3, <3>1, <3>2
  <2>5. writes + 1 \notin Unit
    BY <2>2 DEF Unit
  <2>6. SUFFICES ASSUME NEW s \in Copies', NEW t \in Copies', NEW i \in DOMAIN s, NEW j \in DOMAIN t,
                        s[i] = t[j], s[i] # Gap
                 PROVE  i = j
    BY DEF Placed, Gap
  <2>7. CASE s[i] = writes + 1
    BY <2>4, <2>5, <2>6, <2>7
  <2>8. CASE s[i] # writes + 1
    <3>1. /\ \E x \in Copies : i \in DOMAIN x /\ x[i] = s[i]
          /\ \E x \in Copies : j \in DOMAIN x /\ x[j] = s[i]
      BY <2>4, <2>6, <2>8
    <3> QED
      BY <2>6, <3>1 DEF Placed
  <2> QED
    BY <2>7, <2>8
<1> QED
  BY <1>1, <1>2

(* At most one close is under way while the size is not out of step.       *)
LEMMA SizeStep ==
  ASSUME FileTypes, OneFlushes, SizeTellsLength, [FilesNext]_fileVars
  PROVE  OneFlushes' /\ SizeTellsLength'
<1>1. ASSUME NEW h \in Handle, Open(h) \/ Write(h) \/ Seek(h) \/ Recv(h),
             handle[h].st # "closing"
      PROVE  OneFlushes' /\ SizeTellsLength'
  <2>1. UNCHANGED <<blob, size, parted>>
    BY <1>1 DEF Open, Write, Seek, Recv, fileHistory
  <2>2. /\ handle'[h].st # "closing"
        /\ \A g \in Handle : g # h => handle'[g] = handle[g]
    BY <1>1, HandleParts DEF Open, Write, Seek, Recv, FileTypes, FileHandle
  <2>3. Flushing' = Flushing /\ \A g \in Flushing : handle'[g] = handle[g]
    BY <1>1, <2>2 DEF Flushing
  <2> QED
    BY <2>1, <2>3 DEF OneFlushes, SizeTellsLength
<1>3. ASSUME NEW h \in Handle, Close(h) PROVE OneFlushes' /\ SizeTellsLength'
  <2>1. handle[h] \in FileHandle /\ handle[h].st = "open"
    BY <1>3, HandleParts DEF Close
  <2>2. size' = size
    BY <1>3 DEF Close
  <2>3. CASE Stored(h)
    <3>1. /\ handle'[h].st = "closing" /\ handle'[h].content = handle[h].content
          /\ \A g \in Handle : g # h => handle'[g] = handle[g]
          /\ blob' = handle[h].content /\ parted' = (Flushing # {})
      BY <2>1, <2>3 DEF Stored, FileTypes, FileHandle
    <3>2. Flushing' = Flushing \cup {h}
      BY <3>1 DEF Flushing
    <3> QED
      BY <3>1, <3>2 DEF OneFlushes, SizeTellsLength
  <2>4. CASE UNCHANGED <<blob, parted>> /\ \E st \in {"closed", "failed"} : Drop(h, st)
    <3>1. handle'[h].st # "closing" /\ \A g \in Handle : g # h => handle'[g] = handle[g]
      BY <2>4 DEF Drop, Unopened, FileTypes
    <3>2. Flushing' = Flushing /\ \A g \in Flushing : handle'[g] = handle[g]
      BY <2>1, <3>1 DEF Flushing
    <3> QED
      BY <2>2, <2>4, <3>2 DEF OneFlushes, SizeTellsLength
  <2> QED
    BY <1>3, <2>3, <2>4 DEF Close
<1>4. ASSUME NEW h \in Handle, UpdateSize(h) PROVE OneFlushes' /\ SizeTellsLength'
  <2>1. /\ handle[h].st = "closing" /\ UNCHANGED <<blob, parted>>
        /\ size' = Len(handle[h].content) \/ size' = NoRow
        /\ handle'[h].st # "closing" /\ \A g \in Handle : g # h => handle'[g] = handle[g]
    BY <1>4 DEF UpdateSize, Drop, Unopened, FileTypes, fileHistory
  <2>2. Flushing' = Flushing \ {h} /\ h \in Flushing /\ \A g \in Flushing' : handle'[g] = handle[g]
    BY <2>1 DEF Flushing
  <2> QED
    BY <2>1, <2>2 DEF OneFlushes, SizeTellsLength
<1>5. CASE Expire \/ OtherBegin \/ OtherCommit \/ UNCHANGED fileVars
  BY <1>5 DEF Expire, OtherBegin, OtherCommit, fileVars, fileHistory, OneFlushes, SizeTellsLength, Flushing
<1>6. CASE OtherRollback
  <2>1. UNCHANGED <<blob, handle>> /\ (~parted' => ~parted /\ size' = size)
    BY <1>6 DEF OtherRollback
  <2> QED
    BY <2>1 DEF OneFlushes, SizeTellsLength, Flushing
<1>7. \A h \in Handle : Open(h) \/ Write(h) \/ Seek(h) \/ Recv(h) => handle[h].st # "closing"
  BY DEF Open, Write, Seek, Recv
<1> QED
  BY <1>1, <1>3, <1>4, <1>5, <1>6, <1>7 DEF FilesNext

-----------------------------------------------------------------------------
(* Working, for one handle.                                                *)
WorksOn(h) ==
  /\ handle[h].st = "open" => Own(h) /\ (handle[h].write => Unchanged(h))
  /\ handle[h].st = "open" /\ handle[h].dirty => handle[h].write /\ over[h] # {}
  /\ handle[h].st = "open" /\ ~handle[h].dirty => mine[h] = {}
  /\ handle[h].st = "none" => mine[h] = {} /\ over[h] = {}

(* A step at one handle leaves what the others have.                       *)
LEMMA WorksAside ==
  ASSUME NEW g \in Handle, WorksOn(g), excused \subseteq excused',
         handle'[g].st = handle[g].st, handle'[g].content = handle[g].content,
         handle'[g].dirty = handle[g].dirty, handle'[g].write = handle[g].write,
         handle'[g].truncate = handle[g].truncate,
         seen'[g] = seen[g], mine'[g] = mine[g], over'[g] = over[g]
  PROVE  WorksOn(g)'
  BY DEF WorksOn, Own, Unchanged

LEMMA WriteWorks ==
  ASSUME FileTypes, NEW h \in Handle, WorksOn(h), Write(h)
  PROVE  WorksOn(h)'
<1> DEFINE c == handle[h].content
<1>1. PICK p \in Nat :
        /\ handle[h].st = "open" /\ handle[h].write
        /\ writes' = writes + 1
        /\ handle' = [handle EXCEPT ![h].content = Written(c, p, writes'),
                                    ![h].position = p + 1, ![h].dirty = TRUE]
        /\ mine' = [mine EXCEPT ![h] = @ \cup {writes'}]
        /\ over' = [over EXCEPT ![h] = @ \cup {p + 1}]
        /\ excused' = IF p < Len(c) /\ c[p + 1] \in mine[h] THEN excused \cup {c[p + 1]} ELSE excused
        /\ UNCHANGED <<blob, size, undoSize, seen, parted>>
        /\ IsWritten(Written(c, p, writes'), c, p, writes')
  BY WriteIs
<1> DEFINE d == Written(c, p, writes')
<1> HIDE DEF d
<1>2. /\ handle'[h].content = d /\ handle'[h].st = "open" /\ handle'[h].dirty /\ handle'[h].write
      /\ handle'[h].truncate = handle[h].truncate
  BY <1>1, HandleParts DEF FileTypes, FileHandle, d
<1>3. /\ mine'[h] = mine[h] \cup {writes'} /\ over'[h] = over[h] \cup {p + 1}
      /\ seen'[h] = seen[h] /\ excused \subseteq excused'
  BY <1>1 DEF FileTypes
<1>4. /\ Len(c) \in Nat /\ DOMAIN c = 1..Len(c) /\ Len(seen[h]) \in Nat /\ DOMAIN seen[h] = 1..Len(seen[h])
      /\ Len(d) \in Nat /\ DOMAIN d = 1..Len(d) /\ Len(c) <= Len(d)
      /\ p + 1 \in DOMAIN d /\ d[p + 1] = writes'
      /\ \A i \in DOMAIN c : i # p + 1 => d[i] = c[i]
  BY <1>1, HandleParts DEF IsWritten, d
<1>5. Own(h)'
  <2>1. SUFFICES ASSUME NEW w \in mine'[h] PROVE Contains(handle'[h].content, w) \/ w \in excused'
    BY DEF Own
  <2>2. CASE w = writes'
    BY <1>2, <1>4, <2>2 DEF Contains
  <2>3. CASE w \in mine[h] /\ w \notin excused
    <3>1. PICK i \in 1..Len(c) : c[i] = w
      BY <1>1, <2>3 DEF WorksOn, Own, Contains
    <3>2. CASE i = p + 1
      BY <1>1, <1>4, <2>3, <3>1, <3>2
    <3>3. CASE i # p + 1
      <4>1. i \in 1..Len(d) /\ d[i] = w
        BY <1>4, <3>1, <3>3
      <4> QED
        BY <1>2, <4>1 DEF Contains
    <3> QED
      BY <3>2, <3>3
  <2>4. CASE w \in excused
    BY <1>3, <2>4
  <2> QED
    BY <1>3, <2>1, <2>2, <2>3, <2>4
<1>6. Unchanged(h)'
  <2>1. SUFFICES ASSUME ~handle[h].truncate
                 PROVE  /\ Len(seen[h]) <= Len(d)
                        /\ \A i \in DOMAIN seen[h] : i \in over'[h] \/ d[i] = seen[h][i]
    BY <1>2, <1>3 DEF Unchanged
  <2>2. /\ Len(seen[h]) <= Len(c)
        /\ \A i \in DOMAIN seen[h] : i \in over[h] \/ c[i] = seen[h][i]
    BY <1>1, <2>1 DEF WorksOn, Unchanged
  <2>3. \A i \in DOMAIN seen[h] : i \in DOMAIN c
    BY <1>4, <2>2
  <2> QED
    BY <1>3, <1>4, <2>2, <2>3
<1> QED
  BY <1>2, <1>3, <1>5, <1>6 DEF WorksOn

LEMMA WorkingStep ==
  ASSUME FileTypes, Working, [FilesNext]_fileVars
  PROVE  Working'
<1>0. SUFFICES ASSUME NEW g \in Handle PROVE WorksOn(g)'
  BY DEF Working, WorksOn
<1>00. WorksOn(g) /\ handle[g] \in FileHandle
  BY HandleParts DEF Working, WorksOn
<1>1. ASSUME NEW h \in Handle, Open(h) PROVE WorksOn(g)'
  <2>1. CASE g = h
    <3>1. PICK write \in BOOLEAN, append \in BOOLEAN, truncate \in BOOLEAN :
            handle' = [handle EXCEPT ![h] =
              [st |-> "open", content |-> IF truncate THEN <<>> ELSE blob,
               position |-> IF append THEN Len(IF truncate THEN <<>> ELSE blob) ELSE 0,
               dirty |-> FALSE, write |-> write, append |-> append,
               truncate |-> truncate]]
      BY <1>1 DEF Open
    <3>2. mine'[h] = {} /\ seen'[h] = blob
      BY <1>1, <1>00, <2>1 DEF Open, WorksOn, FileTypes
    <3>3. /\ handle'[h].st = "open" /\ handle'[h].dirty = FALSE /\ handle'[h].write = write
          /\ handle'[h].truncate = truncate
          /\ handle'[h].content = IF truncate THEN <<>> ELSE blob
      BY <3>1 DEF FileTypes
    <3>4. write => Unchanged(h)'
      BY <3>2, <3>3, HandleParts DEF Unchanged
    <3> QED
      BY <2>1, <3>2, <3>3, <3>4 DEF WorksOn, Own
  <2>2. CASE g # h
    <3>1. handle'[g] = handle[g] /\ seen'[g] = seen[g] /\ UNCHANGED <<mine, over, excused>>
      BY <1>1, <2>2 DEF Open, FileTypes
    <3> QED
      BY <1>00, <3>1, WorksAside
  <2> QED
    BY <2>1, <2>2
<1>2. ASSUME NEW h \in Handle, Write(h) PROVE WorksOn(g)'
  <2>1. CASE g = h
    BY <1>2, <1>00, <2>1, WriteWorks
  <2>2. CASE g # h
    <3>1. /\ handle'[g] = handle[g] /\ UNCHANGED seen /\ mine'[g] = mine[g] /\ over'[g] = over[g]
          /\ excused \subseteq excused'
      BY <1>2, <2>2 DEF Write, FileTypes
    <3> QED
      BY <1>00, <3>1, WorksAside
  <2> QED
    BY <2>1, <2>2
<1>3. ASSUME NEW h \in Handle, Seek(h) \/ Recv(h) PROVE WorksOn(g)'
  <2>1. UNCHANGED <<seen, mine, over, excused>>
    BY <1>3 DEF Seek, Recv, fileHistory
  <2> QED
    BY <1>00, <1>3, <2>1, MovesOnly, WorksAside
<1>4. ASSUME NEW h \in Handle, Close(h) \/ UpdateSize(h) PROVE WorksOn(g)'
  <2>1. UNCHANGED <<seen, mine, over>> /\ excused \subseteq excused'
    BY <1>4 DEF Close, Stored, UpdateSize, fileHistory
  <2>2. CASE g = h
    <3>1. handle'[h].st \in {"closing", "closed", "failed"}
      BY <1>4, <1>00, <2>2 DEF Close, UpdateSize, Stored, Drop, Unopened, FileTypes, FileHandle
    <3> QED
      BY <2>2, <3>1 DEF WorksOn
  <2>3. CASE g # h
    <3>1. handle'[g] = handle[g]
      BY <1>4, <2>3 DEF Close, UpdateSize, Stored, Drop, FileTypes
    <3> QED
      BY <1>00, <2>1, <3>1, WorksAside
  <2> QED
    BY <2>2, <2>3
<1>5. CASE Expire \/ OtherBegin \/ OtherCommit \/ OtherRollback \/ UNCHANGED fileVars
  <2>1. UNCHANGED <<handle, seen, mine, over, excused>>
    BY <1>5 DEF Expire, OtherBegin, OtherCommit, OtherRollback, fileVars, fileHistory
  <2> QED
    BY <1>00, <2>1, WorksAside
<1> QED
  BY <1>1, <1>2, <1>3, <1>4, <1>5 DEF FilesNext

(* Whoever stores a copy excuses all that it does not contain.             *)
LEMMA StoringExcuses ==
  ASSUME FileTypes, Placed, NEW h \in Handle, WorksOn(h), handle[h].st = "open", handle[h].dirty,
         Stored(h), NEW w \in Unit, w # Gap, Contains(blob, w)
  PROVE  Contains(blob', w) \/ w \in excused'
<1>1. PICK j \in DOMAIN blob : blob[j] = w
  BY HandleParts DEF Contains
<1>2. /\ over[h] # {} /\ handle[h].write /\ Unchanged(h)
  BY DEF WorksOn
<1>3. \/ w \in excused'
      \/ Contains(seen[h], w) /\ ~handle[h].truncate /\ j \notin over[h]
  BY <1>1, <1>2 DEF Stored
<1>4. ASSUME Contains(seen[h], w), ~handle[h].truncate, j \notin over[h]
      PROVE  Contains(blob', w)
  <2>1. PICK i \in DOMAIN seen[h] : seen[h][i] = w
    BY <1>4, HandleParts DEF Contains
  <2>2. i = j
    BY <1>1, <2>1 DEF Placed, Copies
  <2>3. i \in 1..Len(handle[h].content) /\ handle[h].content[i] = w
    BY <1>2, <1>4, <2>1, <2>2, HandleParts DEF Unchanged
  <2> QED
    BY <2>3 DEF Stored, Contains
<1> QED
  BY <1>3, <1>4

LEMMA StoredStep ==
  ASSUME FileTypes, Placed, Working, StoredUntilOverwritten, [FilesNext]_fileVars
  PROVE  StoredUntilOverwritten'
<1>0. SUFFICES ASSUME NEW g \in Handle, handle'[g].st \in {"closing", "closed"}, NEW w \in mine'[g]
               PROVE  Contains(blob', w) \/ w \in excused'
  BY DEF StoredUntilOverwritten
<1>00. handle[g] \in FileHandle /\ mine[g] \subseteq 1..writes /\ writes \in Nat
  BY HandleParts DEF FileTypes
<1>1. ASSUME NEW h \in Handle, Open(h) \/ Write(h) \/ Seek(h) \/ Recv(h)
      PROVE  Contains(blob', w) \/ w \in excused'
  <2>1. blob' = blob /\ excused \subseteq excused'
    BY <1>1 DEF Open, Write, Seek, Recv, fileHistory
  <2>2. mine'[g] = mine[g] /\ handle[g].st \in {"closing", "closed"}
    <3>1. CASE Open(h)
      BY <1>0, <3>1 DEF Open, FileTypes
    <3>2. CASE Write(h)
      BY <1>0, <1>00, <3>2 DEF Write, FileTypes, FileHandle
    <3>3. CASE Seek(h) \/ Recv(h)
      BY <1>0, <3>3, MovesOnly DEF Seek, Recv, fileHistory
    <3> QED
      BY <1>1, <3>1, <3>2, <3>3
  <2> QED
    BY <1>0, <2>1, <2>2 DEF StoredUntilOverwritten
<1>2. ASSUME NEW h \in Handle, Close(h) PROVE Contains(blob', w) \/ w \in excused'
  <2>1. mine' = mine /\ handle[h].st = "open" /\ WorksOn(h)
    BY <1>2 DEF Close, Working, WorksOn
  <2>2. CASE handle[h].dirty /\ Stored(h)
    <3>1. w \in Unit /\ w # Gap
      BY <1>0, <1>00, <2>1 DEF Unit, Gap
    <3>2. excused \subseteq excused'
      BY <2>2 DEF Stored
    <3>3. CASE g = h
      BY <1>0, <2>1, <2>2, <3>2, <3>3 DEF WorksOn, Own, Stored
    <3>4. CASE g # h
      <4>1. handle'[g] = handle[g]
        BY <2>2, <3>4 DEF Stored, FileTypes
      <4>2. Contains(blob, w) \/ w \in excused
        BY <1>0, <2>1, <4>1 DEF StoredUntilOverwritten
      <4> QED
        BY <2>1, <2>2, <3>1, <3>2, <4>2, StoringExcuses
    <3> QED
      BY <3>3, <3>4
  <2>3. CASE UNCHANGED <<blob, excused>> /\ \/ Drop(h, "closed") /\ ~handle[h].dirty
                                            \/ Drop(h, "failed")
    <3>1. CASE g = h
      BY <1>0, <2>1, <2>3, <3>1 DEF Drop, Unopened, WorksOn, FileTypes
    <3>2. CASE g # h
      BY <1>0, <2>1, <2>3, <3>2 DEF Drop, FileTypes, StoredUntilOverwritten
    <3> QED
      BY <3>1, <3>2
  <2> QED
    BY <1>2, <2>2, <2>3 DEF Close
<1>3. ASSUME NEW h \in Handle, UpdateSize(h) PROVE Contains(blob', w) \/ w \in excused'
  <2>1. UNCHANGED <<blob, mine, excused>> /\ handle[h].st = "closing"
    BY <1>3 DEF UpdateSize, fileHistory
  <2>2. handle[g].st \in {"closing", "closed"}
    BY <1>0, <1>3, <2>1 DEF UpdateSize, Drop, FileTypes
  <2> QED
    BY <1>0, <2>1, <2>2 DEF StoredUntilOverwritten
<1>4. CASE Expire \/ OtherBegin \/ OtherCommit \/ OtherRollback \/ UNCHANGED fileVars
  <2>1. UNCHANGED <<blob, handle, mine, excused>>
    BY <1>4 DEF Expire, OtherBegin, OtherCommit, OtherRollback, fileVars, fileHistory
  <2> QED
    BY <1>0, <2>1 DEF StoredUntilOverwritten
<1> QED
  BY <1>1, <1>2, <1>3, <1>4 DEF FilesNext

LEMMA FileInvInit == FilesInit => FileInv
<1>1. SUFFICES ASSUME FilesInit PROVE FileInv
  OBVIOUS
<1>2. /\ \A h \in Handle : /\ handle[h].st = "none" /\ handle[h].content = <<>>
                           /\ mine[h] = {} /\ over[h] = {} /\ seen[h] = <<>>
      /\ blob = <<>> /\ size = 0
  BY <1>1 DEF FilesInit, Unopened
<1>3. Placed
  <2>1. \A s \in Copies : DOMAIN s = {}
    BY <1>2 DEF Copies
  <2> QED
    BY <2>1 DEF Placed
<1>4. Flushing = {} /\ Len(<<>>) = 0
  BY <1>2 DEF Flushing
<1> QED
  BY <1>1, <1>2, <1>3, <1>4, FileTypesInit
     DEF FileInv, Working, StoredUntilOverwritten, SizeTellsLength, OneFlushes

LEMMA FileInvStep == FileInv /\ [FilesNext]_fileVars => FileInv'
  BY FileTypesStep, PlacedStep, WorkingStep, StoredStep, SizeStep DEF FileInv

LEMMA FileInvAlways == FilesSpec => []FileInv
  BY FileInvInit, FileInvStep, PTL DEF FilesSpec

(* What a process has written to a file and closed without an error stays  *)
(* in it until another writer puts back a copy that was taken before, was  *)
(* cut, or has something else in its place (EntityHandleImpl.flush()).     *)
THEOREM StoredContentsStay == FilesSpec => []StoredUntilOverwritten
<1>1. FileInv => StoredUntilOverwritten
  BY DEF FileInv
<1> QED
  BY <1>1, FileInvAlways, PTL

(* The row's size is the length of the contents, between closes, save      *)
(* after closes that overlapped or a rollback that took a size back.       *)
THEOREM SizeIsTheLength == FilesSpec => []SizeTellsLength
<1>1. FileInv => SizeTellsLength
  BY DEF FileInv
<1> QED
  BY <1>1, FileInvAlways, PTL
=============================================================================
