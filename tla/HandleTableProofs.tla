------------------------- MODULE HandleTableProofs -------------------------
(***************************************************************************)
(* What HandleTable keeps for any number of processes, handles, stdio      *)
(* descriptors and calls, and for any MAX_HANDLES.                         *)
(*                                                                         *)
(* Shape says who may be touched at all, Balance (Fresh, Accounting and    *)
(* CountedIsOpen together) says that counts follow descriptors; each is    *)
(* shown inductive with one step per action.  Counting is done once, in    *)
(* lemmas about a map whose value changes at one place, at all places of   *)
(* one process, or at the stdio places of a new one.                       *)
(***************************************************************************)
EXTENDS HandleTable, FiniteSetTheorems, TLAPS

Places == Proc \X Fd

-----------------------------------------------------------------------------
(* Counting.                                                               *)

LEMMA PlacesFinite == IsFiniteSet(Places) /\ IsFiniteSet(Calls) /\ IsFiniteSet(Fd)
<1>1. IsFiniteSet(Fd)
  BY FS_Interval, HandleAssumption DEF Fd
<1>2. IsFiniteSet(Proc \X Fd)
  BY <1>1, FS_Product, HandleAssumption
<1> QED
  BY <1>1, <1>2, HandleAssumption DEF Places

(* Two sets that differ in one element at most.                            *)
LEMMA SetMoved ==
  ASSUME NEW S, IsFiniteSet(S), NEW T, NEW x, T \ {x} = S \ {x}
  PROVE  /\ IsFiniteSet(T)
         /\ Cardinality(T) = Cardinality(S) + (IF x \in T THEN 1 ELSE 0)
                                            - (IF x \in S THEN 1 ELSE 0)
<1>0. Cardinality(S) \in Nat
  BY FS_CardinalityType
<1>1. CASE x \in S <=> x \in T
  <2>1. T = S
    BY <1>1
  <2> QED
    BY <1>0, <1>1, <2>1
<1>2. CASE x \in T /\ x \notin S
  <2>1. T = S \cup {x}
    BY <1>2
  <2>2. IsFiniteSet(T) /\ Cardinality(T) = Cardinality(S) + 1
    BY <1>2, <2>1, FS_AddElement
  <2> QED
    BY <1>0, <1>2, <2>2
<1>3. CASE x \notin T /\ x \in S
  <2>1. T = S \ {x}
    BY <1>3
  <2>2. IsFiniteSet(T) /\ Cardinality(T) = Cardinality(S) - 1
    BY <1>3, <2>1, FS_RemoveElement
  <2> QED
    BY <1>0, <1>3, <2>2
<1> QED
  BY <1>1, <1>2, <1>3

(* Adding a set of places that did not hold h, removing one that did.      *)
LEMMA AddPlaces ==
  ASSUME NEW S, IsFiniteSet(S), NEW T, IsFiniteSet(T), S \cap T = {}
  PROVE  Cardinality(S \cup T) = Cardinality(S) + Cardinality(T)
<1>1. Cardinality(S \cap T) = 0
  BY FS_EmptySet
<1>2. Cardinality(S) \in Nat /\ Cardinality(T) \in Nat
  BY FS_CardinalityType
<1>3. Cardinality(S \cup T) =
        Cardinality(S) + Cardinality(T) - Cardinality(S \cap T)
  BY FS_Union
<1> QED
  BY <1>1, <1>2, <1>3

LEMMA RemovePlaces ==
  ASSUME NEW S, IsFiniteSet(S), NEW T, T \subseteq S
  PROVE  Cardinality(S \ T) = Cardinality(S) - Cardinality(T)
<1>1. S \cap T = T
  OBVIOUS
<1> QED
  BY <1>1, FS_Difference

(* The places of one process that hold h are as many as its descriptors    *)
(* that do.                                                                *)
LEMMA PlacesOfOne ==
  ASSUME NEW q, NEW A, IsFiniteSet(A)
  PROVE  IsFiniteSet({q} \X A) /\ Cardinality({q} \X A) = Cardinality(A)
<1>1. IsFiniteSet({q}) /\ Cardinality({q}) = 1
  BY FS_Singleton
<1>2. Cardinality(A) \in Nat
  BY FS_CardinalityType
<1> QED
  BY <1>1, <1>2, FS_Product

-----------------------------------------------------------------------------
(* Types and shape.                                                        *)

LEMMA BoundsFacts ==
  /\ Fd \subseteq Nat /\ 0 \in Fd /\ StdFds \subseteq Fd
  /\ \A f \in StdFds : f < Stdio
  /\ Stdio \in Nat \ {0} /\ NoHandle \notin Handle
<1>1. MaxFd \in Nat /\ Stdio \in Nat /\ 1 <= Stdio /\ Stdio <= MaxFd
  BY HandleAssumption
<1>2. NoHandle \notin Handle
  BY HandleAssumption
<1> QED
  BY <1>1, <1>2 DEF Fd, StdFds

LEMMA PlaceIsPair ==
  ASSUME NEW z \in Proc \X Fd
  PROVE  \E f \in Fd : z = <<z[1], f>>
<1>1. PICK q \in Proc, f \in Fd : z = <<q, f>>
  OBVIOUS
<1> QED
  BY <1>1

LEMMA HeldType ==
  ASSUME TypeOK, NEW p \in Proc
  PROVE  Held(p) \subseteq Handle /\ OpenFds(p) \subseteq Fd
<1>1. OpenFds(p) \subseteq Fd
  BY DEF OpenFds
<1>2. ASSUME NEW f \in OpenFds(p) PROVE fds[<<p, f>>] \in Handle
  <2>1. <<p, f>> \in Proc \X Fd
    BY <1>1
  <2>2. fds[<<p, f>>] \in HandleOrNone
    BY <2>1 DEF TypeOK
  <2> QED
    BY <2>2 DEF OpenFds, HandleOrNone
<1> QED
  BY <1>1, <1>2 DEF Held

LEMMA EnterType ==
  ASSUME TypeOK, NEW h \in Handle, NEW n \in Nat, Enter(h, n)
  PROVE  /\ open' \in SUBSET Handle /\ refs' \in [Handle -> Nat]
         /\ resource' \in [Handle -> {"unused", "open", "closed"}]
BY DEF TypeOK, Enter

LEMMA RefType ==
  ASSUME TypeOK, NEW n \in [Handle -> Nat], Ref(n)
  PROVE  refs' \in [Handle -> Nat]
BY DEF TypeOK, Ref, Count

LEMMA UnrefType ==
  ASSUME TypeOK, NEW n \in [Handle -> Nat], Unref(n)
  PROVE  /\ open' \in SUBSET Handle /\ refs' \in [Handle -> Nat]
         /\ resource' \in [Handle -> {"unused", "open", "closed"}]
<1>1. \A h \in Handle : n[h] # 0 /\ h \notin Spent(n) => Count(h) - n[h] \in Nat
  BY DEF TypeOK, Count, Spent
<1>2. refs' \in [Handle -> Nat]
  BY <1>1 DEF TypeOK, Unref
<1> QED
  BY <1>2 DEF TypeOK, Unref

LEMMA OnceType == \A h : Once(h) \in [Handle -> Nat]
BY DEF Once

LEMMA SlotsFacts ==
  ASSUME NEW p
  PROVE  /\ \A h : IsFiniteSet(Slots(p, h))
         /\ [h \in Handle |-> Cardinality(Slots(p, h))] \in [Handle -> Nat]
<1>1. ASSUME NEW h PROVE IsFiniteSet(Slots(p, h))
  <2>1. Slots(p, h) \in SUBSET Places
    BY DEF Slots, Places
  <2> QED
    BY <2>1, PlacesFinite, FS_Subset
<1> QED
  BY <1>1, FS_CardinalityType

LEMMA InheritedFacts ==
  ASSUME NEW from
  PROVE  /\ \A h : IsFiniteSet({f \in StdFds : from[f] = h})
         /\ [h \in Handle |-> Cardinality({f \in StdFds : from[f] = h})]
              \in [Handle -> Nat]
<1>1. IsFiniteSet(StdFds)
  BY FS_Subset, PlacesFinite, BoundsFacts
<1>2. ASSUME NEW h PROVE IsFiniteSet({f \in StdFds : from[f] = h})
  BY <1>1, FS_Subset
<1> QED
  BY <1>2, FS_CardinalityType

LEMMA InitShape == Init => TypeOK /\ Shape
<1> SUFFICES ASSUME Init PROVE TypeOK /\ Shape
  OBVIOUS
<1>1. TypeOK
  BY BoundsFacts DEF Init, TypeOK, ProcessState, HandleOrNone, Call, NoCall
<1>2. Shape
  BY BoundsFacts DEF Init, Shape, OpenFds, NoCall
<1> QED
  BY <1>1, <1>2

LEMMA TypeStep == TypeOK /\ Shape /\ [Next]_vars => TypeOK'
<1> SUFFICES ASSUME TypeOK, Shape, [Next]_vars PROVE TypeOK'
  OBVIOUS
<1> USE BoundsFacts
<1>1. ASSUME NEW p \in Proc, Syscall(p) PROVE TypeOK'
  <2>1. CASE OpenBegin(p)
    BY <2>1 DEF OpenBegin, TypeOK, table, ends
  <2>2. CASE OpenFails(p)
    BY <2>2 DEF OpenFails, TypeOK, table, ends
  <2>3. ASSUME NEW h \in Unused, OpenEnd(p, h) PROVE TypeOK'
    <3>1. h \in Handle
      BY DEF Unused
    <3>2. opening' \in [Proc -> Nat]
      BY <2>3 DEF OpenEnd, TypeOK
    <3>3. CASE Alloc(p, h)
      <4>1. nextFd' \in [Proc -> Nat] /\ fds' \in [Proc \X Fd -> HandleOrNone]
        BY <3>1, <3>3 DEF Alloc, TypeOK, HandleOrNone
      <4> QED
        BY <2>3, <3>1, <3>2, <3>3, <4>1, EnterType DEF OpenEnd, Alloc, TypeOK, ends
    <3>4. CASE /\ \E r \in {"open", "closed"} : resource' = [resource EXCEPT ![h] = r]
               /\ UNCHANGED <<fds, nextFd, open, refs>>
      BY <2>3, <3>2, <3>4 DEF OpenEnd, TypeOK, ends
    <3> QED
      BY <2>3, <3>3, <3>4 DEF OpenEnd
  <2>4. ASSUME NEW r \in Unused, NEW s \in Unused, CreatePipe(p, r, s) PROVE TypeOK'
    <3>1. r \in Handle /\ s \in Handle /\ nextFd[p] \in Nat
      BY DEF Unused, TypeOK
    <3>2. nextFd' \in [Proc -> Nat]
      BY <2>4, <3>1 DEF CreatePipe, TypeOK
    <3>3. fds' \in [Proc \X Fd -> HandleOrNone]
      BY <2>4, <3>1 DEF CreatePipe, TypeOK, HandleOrNone
    <3>4. /\ open' \in SUBSET Handle /\ refs' \in [Handle -> Nat]
          /\ resource' \in [Handle -> {"unused", "open", "closed"}]
      BY <2>4, <3>1 DEF CreatePipe, TypeOK
    <3> QED
      BY <2>4, <3>2, <3>3, <3>4 DEF CreatePipe, TypeOK, ends
  <2>5. ASSUME NEW f \in Fd, Close(p, f) PROVE TypeOK'
    <3>1. Unref(Once(fds[<<p, f>>]))
      BY <2>5 DEF Close, CloseHandle
    <3> QED
      BY <2>5, <3>1, OnceType, UnrefType
         DEF Close, CloseHandle, TypeOK, ends, HandleOrNone
  <2>6. ASSUME NEW t \in Fd, NEW s \in Fd, NEW c \in Calls, Redirect(p, t, s, c)
        PROVE  TypeOK'
    <3>1. refs' \in [Handle -> Nat]
      BY <2>6, OnceType, RefType DEF Redirect
    <3>2. call' \in [Calls -> Call]
      BY <2>6 DEF Redirect, TypeOK, Call
    <3> QED
      BY <2>6, <3>1, <3>2 DEF Redirect, TypeOK, ends
  <2>7. ASSUME NEW f \in Fd, NEW c \in Calls, AcceptBegin(p, f, c) PROVE TypeOK'
    <3>1. call' \in [Calls -> Call]
      BY <2>7 DEF AcceptBegin, TypeOK, Call
    <3> QED
      BY <2>7, <3>1 DEF AcceptBegin, TypeOK, table, ends
  <2>8. ASSUME NEW q \in Proc, Spawn(p, q) PROVE TypeOK'
    <3>1. PICK from \in [StdFds -> {fds[<<p, f>>] : f \in Fd} \cup {NoHandle}] :
            /\ fds' = [x \in Proc \X Fd |->
                         IF x[1] = q /\ x[2] \in StdFds THEN from[x[2]] ELSE fds[x]]
            /\ Ref([h \in Handle |-> Cardinality({f \in StdFds : from[f] = h})])
      BY <2>8 DEF Spawn
    <3>2. {fds[<<p, f>>] : f \in Fd} \cup {NoHandle} \subseteq HandleOrNone
      <4>1. ASSUME NEW f \in Fd PROVE fds[<<p, f>>] \in HandleOrNone
        <5>1. <<p, f>> \in Proc \X Fd
          OBVIOUS
        <5> QED
          BY <5>1 DEF TypeOK
      <4> QED
        BY <4>1 DEF HandleOrNone
    <3>3. \A x \in Proc \X Fd :
            (IF x[1] = q /\ x[2] \in StdFds THEN from[x[2]] ELSE fds[x]) \in HandleOrNone
      BY <3>2 DEF TypeOK
    <3>4. fds' \in [Proc \X Fd -> HandleOrNone]
      BY <3>1, <3>3
    <3>5. refs' \in [Handle -> Nat]
      BY <3>1, InheritedFacts, RefType
    <3>6. state' \in [Proc -> ProcessState]
      BY <2>8 DEF Spawn, TypeOK, ProcessState
    <3> QED
      BY <2>8, <3>4, <3>5, <3>6 DEF Spawn, TypeOK, ends
  <2>9. CASE ExitBegin(p)
    BY <2>9 DEF ExitBegin, TypeOK, table, ProcessState
  <2> QED
    BY <1>1, <2>1, <2>2, <2>3, <2>4, <2>5, <2>6, <2>7, <2>8, <2>9 DEF Syscall
<1>2. ASSUME NEW q \in Proc, Starting(q) PROVE TypeOK'
  <2>0. ASSUME NEW h \in Handle
        PROVE  [x \in Proc \X Fd |-> IF x[1] = q /\ x[2] \in StdFds THEN h ELSE fds[x]]
                 \in [Proc \X Fd -> HandleOrNone]
    BY DEF TypeOK, HandleOrNone
  <2>1. CASE SpawnExternal(q)
    <3>1. PICK std \in [StdFds -> Unused] :
       /\ open' = open \cup {std[f] : f \in StdFds}
       /\ refs' = [h \in Handle |-> IF \E f \in StdFds : std[f] = h THEN 1 ELSE refs[h]]
       /\ resource' = [h \in Handle |-> IF \E f \in StdFds : std[f] = h THEN "open"
                                                                 ELSE resource[h]]
       /\ fds' = [x \in Proc \X Fd |->
                    IF x[1] = q /\ x[2] \in StdFds THEN std[x[2]] ELSE fds[x]]
      BY <2>1 DEF SpawnExternal
    <3>2. \A f \in StdFds : std[f] \in Handle
      BY DEF Unused
    <3>3. \A x \in Proc \X Fd :
            (IF x[1] = q /\ x[2] \in StdFds THEN std[x[2]] ELSE fds[x]) \in HandleOrNone
      BY <3>2 DEF TypeOK, HandleOrNone
    <3>4. fds' \in [Proc \X Fd -> HandleOrNone]
      BY <3>1, <3>3
    <3>5. /\ open' \in SUBSET Handle /\ refs' \in [Handle -> Nat]
          /\ resource' \in [Handle -> {"unused", "open", "closed"}]
      BY <3>1, <3>2 DEF TypeOK
    <3>6. state' \in [Proc -> ProcessState]
      BY <2>1 DEF SpawnExternal, TypeOK, ProcessState
    <3> QED
      BY <2>1, <3>4, <3>5, <3>6 DEF SpawnExternal, TypeOK, ends
  <2>2. CASE ServiceSetup(q)
    BY <2>2 DEF ServiceSetup, TypeOK, table, ends, ProcessState
  <2>3. ASSUME NEW h \in Unused, ServiceSocket(q, h) PROVE TypeOK'
    <3>1. h \in Handle
      BY DEF Unused
    <3>2. fds' \in [Proc \X Fd -> HandleOrNone]
      BY <2>3, <2>0, <3>1 DEF ServiceSocket
    <3>3. state' \in [Proc -> ProcessState]
      BY <2>3 DEF ServiceSocket, TypeOK, ProcessState
    <3> QED
      BY <2>3, <3>1, <3>2, <3>3, EnterType DEF ServiceSocket, TypeOK, ends
  <2>4. ASSUME NEW h \in Unused, NEW f \in StdFds, ServiceStdio(q, f, h) PROVE TypeOK'
    <3>1. h \in Handle
      BY DEF Unused
    <3>2. fds' \in [Proc \X Fd -> HandleOrNone]
      BY <2>4, <3>1 DEF ServiceStdio, TypeOK, HandleOrNone
    <3>3. state' \in [Proc -> ProcessState]
      BY <2>4 DEF ServiceStdio, TypeOK, ProcessState
    <3> QED
      BY <2>4, <3>1, <3>2, <3>3, EnterType DEF ServiceStdio, TypeOK, ends
  <2>5. CASE SpawnReady(q)
    BY <2>5 DEF SpawnReady, TypeOK, table, ends, ProcessState
  <2>6. CASE SpawnFails(q)
    BY <2>6 DEF SpawnFails, TypeOK, table, ends, ProcessState
  <2>7. CASE CreateVirtualProcess(q)
    BY <2>7 DEF CreateVirtualProcess, TypeOK, table, ends, ProcessState
  <2> QED
    BY <1>2, <2>1, <2>2, <2>3, <2>4, <2>5, <2>6, <2>7 DEF Starting
<1>3. ASSUME NEW p \in Proc, Ending(p) PROVE TypeOK'
  <2>0. [x \in Proc \X Fd |-> IF x[1] = p THEN NoHandle ELSE fds[x]]
          \in [Proc \X Fd -> HandleOrNone]
    BY DEF TypeOK, HandleOrNone
  <2>1. ASSUME NEW f \in Fd, ExitClose(p, f) PROVE TypeOK'
    <3>1. Unref(Once(fds[<<p, f>>]))
      BY <2>1 DEF ExitClose, CloseHandle
    <3> QED
      BY <2>1, <3>1, OnceType, UnrefType
         DEF ExitClose, CloseHandle, TypeOK, ends, HandleOrNone
  <2>2. CASE ExitEnd(p)
    BY <2>2 DEF ExitEnd, TypeOK, table
  <2>3. CASE ForceExit(p)
    <3>1. /\ open' \in SUBSET Handle /\ refs' \in [Handle -> Nat]
          /\ resource' \in [Handle -> {"unused", "open", "closed"}]
      BY <2>3, SlotsFacts, UnrefType DEF ForceExit
    <3>2. state' \in [Proc -> ProcessState]
      BY <2>3 DEF ForceExit, TypeOK, ProcessState
    <3> QED
      BY <2>3, <2>0, <3>1, <3>2 DEF ForceExit, TypeOK, ends
  <2>4. CASE InterruptBegin(p)
    BY <2>4, HeldType DEF InterruptBegin, TypeOK
  <2>5. ASSUME NEW h \in closing[p], InterruptDrop(p, h) PROVE TypeOK'
    BY <2>5 DEF InterruptDrop, TypeOK
  <2>6. CASE InterruptEnd(p)
    BY <2>6, <2>0, HeldType DEF InterruptEnd, TypeOK, table
  <2> QED
    BY <1>3, <2>1, <2>2, <2>3, <2>4, <2>5, <2>6 DEF Ending
<1>4. ASSUME NEW c \in Calls, OfCall(c) PROVE TypeOK'
  <2>0. [call EXCEPT ![c] = [st |-> "over", at |-> <<>>]] \in [Calls -> Call]
    BY DEF TypeOK, Call
  <2>1. CASE Restore(c)
    <3> DEFINE x == call[c].at
    <3>1. x \in Proc \X Fd
      BY <2>1 DEF Restore, Shape
    <3>2. fds[x] \in Handle
      BY <2>1, <3>1 DEF Restore, TypeOK, HandleOrNone
    <3>3. refs' = [refs EXCEPT ![fds[x]] = Count(fds[x]) - 1]
      BY <2>1 DEF Restore
    <3>4. Count(fds[x]) - 1 \in Nat
      BY <3>2 DEF Count, TypeOK
    <3>5. refs' \in [Handle -> Nat]
      BY <3>3, <3>4 DEF TypeOK
    <3>6. /\ fds' \in [Proc \X Fd -> HandleOrNone]
          /\ saved' \in [Calls -> HandleOrNone]
      BY <2>1 DEF Restore, TypeOK, HandleOrNone
    <3> QED
      BY <2>0, <2>1, <3>5, <3>6 DEF Restore, TypeOK, ends
  <2>2. ASSUME NEW h \in Unused, AcceptEnd(c, h) PROVE TypeOK'
    <3> DEFINE x == call[c].at
    <3>1. x \in Proc \X Fd
      BY <2>2 DEF AcceptEnd, Shape
    <3>2. x[1] \in Proc /\ nextFd[x[1]] \in Fd /\ h \in Handle
      BY <2>2, <3>1 DEF AcceptEnd, Unused
    <3>3. saved' \in [Calls -> HandleOrNone]
      BY <2>2, <3>1 DEF AcceptEnd, TypeOK
    <3>4. /\ fds' \in [Proc \X Fd -> HandleOrNone]
          /\ nextFd' \in [Proc -> Nat]
          /\ open' \in SUBSET Handle /\ refs' \in [Handle -> Nat]
          /\ resource' \in [Handle -> {"unused", "open", "closed"}]
      <4> DEFINE p == x[1]
      <4>1. CASE /\ Enter(h, 1)
                 /\ fds' = [fds EXCEPT ![x] = NoHandle, ![<<p, nextFd[p]>>] = h]
                 /\ nextFd' = [nextFd EXCEPT ![p] = @ + 1]
        <5>1. nextFd' \in [Proc -> Nat]
          BY <4>1, <3>2 DEF TypeOK
        <5>2. fds' \in [Proc \X Fd -> HandleOrNone]
          BY <4>1, <3>2 DEF TypeOK, HandleOrNone
        <5> QED
          BY <4>1, <5>1, <5>2, <3>2, EnterType
      <4>2. CASE /\ resource' = [resource EXCEPT ![h] = "open"]
                 /\ fds' = [fds EXCEPT ![x] = NoHandle]
                 /\ UNCHANGED <<nextFd, open, refs>>
        BY <4>2, <3>2 DEF TypeOK, HandleOrNone
      <4> QED
        BY <2>2, <4>1, <4>2 DEF AcceptEnd
    <3> QED
      BY <2>0, <2>2, <3>3, <3>4 DEF AcceptEnd, TypeOK, ends
  <2>3. CASE AcceptFails(c)
    BY <2>0, <2>3 DEF AcceptFails, TypeOK, table, ends
  <2> QED
    BY <1>4, <2>1, <2>2, <2>3 DEF OfCall
<1>5. CASE UNCHANGED vars
  BY <1>5 DEF vars, TypeOK
<1> QED
  BY <1>1, <1>2, <1>3, <1>4, <1>5 DEF Next

LEMMA ShapeStep == TypeOK /\ Shape /\ [Next]_vars => Shape'
<1> SUFFICES ASSUME TypeOK, Shape, [Next]_vars PROVE Shape'
  OBVIOUS
<1> USE BoundsFacts
<1>1. ASSUME NEW p \in Proc, Syscall(p) PROVE Shape'
  <2>1. CASE OpenBegin(p)
    BY <2>1 DEF OpenBegin, Calling, Shape, Ran, OpenFds, TypeOK
  <2>2. CASE OpenFails(p)
    BY <2>2 DEF OpenFails, Shape, Ran, OpenFds, TypeOK
  <2>3. ASSUME NEW h \in Unused, OpenEnd(p, h) PROVE Shape'
    <3>1. Ran(p) /\ UNCHANGED <<state, call, saved>>
      BY <2>3 DEF OpenEnd, Shape
    <3>2. opening' = [opening EXCEPT ![p] = @ - 1] /\ opening[p] > 0
      BY <2>3 DEF OpenEnd
    <3>3. CASE Alloc(p, h)
      <4>1. /\ nextFd[p] \in Fd
            /\ fds' = [fds EXCEPT ![<<p, nextFd[p]>>] = h]
            /\ nextFd' = [nextFd EXCEPT ![p] = @ + 1]
        BY <3>3 DEF Alloc
      <4>2. \A q \in Proc : \A f \in Fd :
              fds'[<<q, f>>] = fds[<<q, f>>] \/ (q = p /\ f = nextFd[p])
        BY <4>1 DEF TypeOK
      <4> QED
        BY <3>1, <3>2, <4>1, <4>2 DEF Shape, Ran, OpenFds, TypeOK
    <3>4. CASE UNCHANGED <<fds, nextFd>>
      BY <3>1, <3>2, <3>4 DEF Shape, Ran, OpenFds, TypeOK
    <3> QED
      BY <2>3, <3>3, <3>4 DEF OpenEnd
  <2>4. ASSUME NEW r \in Unused, NEW s \in Unused, CreatePipe(p, r, s) PROVE Shape'
    <3>1. /\ Ran(p) /\ UNCHANGED <<state, call, saved, opening>>
          /\ nextFd[p] + 1 \in Fd /\ nextFd[p] \in Fd
          /\ fds' = [fds EXCEPT ![<<p, nextFd[p]>>] = r, ![<<p, nextFd[p] + 1>>] = s]
          /\ nextFd' = [nextFd EXCEPT ![p] = @ + 2]
      BY <2>4, HandleAssumption DEF CreatePipe, Calling, Ran, TypeOK, Fd
    <3>2. \A q \in Proc : \A f \in Fd :
            \/ fds'[<<q, f>>] = fds[<<q, f>>]
            \/ q = p /\ (f = nextFd[p] \/ f = nextFd[p] + 1)
      BY <3>1 DEF TypeOK
    <3> QED
      BY <3>1, <3>2 DEF Shape, Ran, OpenFds, TypeOK
  <2>5. ASSUME NEW f \in Fd, Close(p, f) PROVE Shape'
    <3>1. /\ UNCHANGED <<state, nextFd, opening, call, saved>>
          /\ fds' = [fds EXCEPT ![<<p, f>>] = NoHandle]
      BY <2>5 DEF Close, CloseHandle
    <3>2. \A q \in Proc : \A g \in Fd :
            fds'[<<q, g>>] = fds[<<q, g>>] \/ fds'[<<q, g>>] = NoHandle
      BY <3>1 DEF TypeOK
    <3> QED
      BY <3>1, <3>2 DEF Shape, Ran, OpenFds
  <2>6. ASSUME NEW t \in Fd, NEW s \in Fd, NEW c \in Calls, Redirect(p, t, s, c)
        PROVE  Shape'
    <3>1. /\ UNCHANGED <<state, nextFd, opening>>
          /\ fds[<<p, t>>] # NoHandle
          /\ fds' = [fds EXCEPT ![<<p, t>>] = fds[<<p, s>>]]
          /\ call' = [call EXCEPT ![c] = [st |-> "redirected", at |-> <<p, t>>]]
          /\ saved' = [saved EXCEPT ![c] = fds[<<p, t>>]]
          /\ Ran(p)
      BY <2>6 DEF Redirect, Calling, Ran
    <3>2. \A q \in Proc : \A g \in Fd :
            fds'[<<q, g>>] = fds[<<q, g>>] \/ (fds[<<q, g>>] # NoHandle)
      BY <3>1 DEF TypeOK
    <3>3. \A d \in Calls : d # c => call'[d] = call[d] /\ saved'[d] = saved[d]
      BY <3>1 DEF TypeOK
    <3>4. call'[c] = [st |-> "redirected", at |-> <<p, t>>]
      BY <3>1 DEF TypeOK
    <3>5. <<p, t>> \in Proc \X Fd /\ <<p, t>>[1] = p
      OBVIOUS
    <3> QED
      BY <3>1, <3>2, <3>3, <3>4, <3>5 DEF Shape, Ran, OpenFds
  <2>7. ASSUME NEW f \in Fd, NEW c \in Calls, AcceptBegin(p, f, c) PROVE Shape'
    <3>1. /\ UNCHANGED <<state, fds, nextFd, opening, saved>>
          /\ call' = [call EXCEPT ![c] = [st |-> "accepting", at |-> <<p, f>>]]
          /\ saved[c] = NoHandle /\ Ran(p)
      BY <2>7 DEF AcceptBegin, Calling, Ran, Shape
    <3>2. \A d \in Calls : d # c => call'[d] = call[d]
      BY <3>1 DEF TypeOK
    <3>3. call'[c] = [st |-> "accepting", at |-> <<p, f>>]
      BY <3>1 DEF TypeOK
    <3>4. <<p, f>> \in Proc \X Fd /\ <<p, f>>[1] = p
      OBVIOUS
    <3> QED
      BY <3>1, <3>2, <3>3, <3>4 DEF Shape, Ran, OpenFds
  <2>8. ASSUME NEW q \in Proc, Spawn(p, q) PROVE Shape'
    <3>1. PICK from :
            fds' = [x \in Proc \X Fd |->
                      IF x[1] = q /\ x[2] \in StdFds THEN from[x[2]] ELSE fds[x]]
      BY <2>8 DEF Spawn
    <3>2. \A o \in Proc : \A g \in Fd :
            fds'[<<o, g>>] = fds[<<o, g>>] \/ (o = q /\ g < Stdio)
      BY <3>1
    <3>3. /\ UNCHANGED <<nextFd, opening, call, saved>>
          /\ state[q] = "absent" /\ state' = [state EXCEPT ![q] = "starting"]
      BY <2>8 DEF Spawn
    <3>4. \A o \in Proc :
            /\ Ran(o) => Ran(o)'
            /\ state'[o] = "absent" => state[o] = "absent" /\ o # q
      BY <3>3 DEF Ran, TypeOK
    <3>5. \A o \in Proc : o # q => OpenFds(o)' = OpenFds(o)
      BY <3>2 DEF OpenFds
    <3>6. \A o \in Proc : nextFd[o] >= Stdio /\ nextFd[o] \in Nat
      BY DEF Shape, TypeOK
    <3>7. ASSUME NEW o \in Proc
          PROVE  /\ nextFd'[o] >= Stdio
                 /\ \A f \in Fd : (f >= nextFd'[o]) => (fds'[<<o, f>>] = NoHandle)
                 /\ state'[o] = "absent" => OpenFds(o)' = {}
                 /\ (opening'[o] > 0) => Ran(o)'
      BY <3>2, <3>3, <3>4, <3>5, <3>6 DEF Shape
    <3> HIDE DEF Ran
    <3> QED
      BY <3>3, <3>4, <3>7 DEF Shape
  <2>9. CASE ExitBegin(p)
    BY <2>9 DEF ExitBegin, Calling, Shape, Ran, OpenFds, TypeOK
  <2> QED
    BY <1>1, <2>1, <2>2, <2>3, <2>4, <2>5, <2>6, <2>7, <2>8, <2>9 DEF Syscall
<1>2. ASSUME NEW q \in Proc, Starting(q) PROVE Shape'
  <2>0. ASSUME \A o \in Proc : \A g \in Fd :
                 fds'[<<o, g>>] = fds[<<o, g>>] \/ (o = q /\ g < Stdio),
               UNCHANGED <<nextFd, opening, call, saved>>,
               NEW to \in {"setup", "starting", "running", "failed"},
               ~ Ran(q), state' = [state EXCEPT ![q] = to]
        PROVE  Shape'
    <3>1. \A o \in Proc :
            /\ state[o] \in {"running", "zombie"} => state'[o] \in {"running", "zombie"}
            /\ state'[o] = "absent" => state[o] = "absent" /\ o # q
      BY <2>0 DEF TypeOK, Ran
    <3>2. /\ nextFd' = nextFd /\ opening' = opening
          /\ call' = call /\ saved' = saved
      BY <2>0
    <3>3. ASSUME NEW o \in Proc
          PROVE  /\ nextFd'[o] >= Stdio
                 /\ \A f \in Fd : (f >= nextFd'[o]) => (fds'[<<o, f>>] = NoHandle)
                 /\ state'[o] = "absent" => OpenFds(o)' = {}
                 /\ (opening'[o] > 0) => Ran(o)'
      <4>1. nextFd'[o] >= Stdio /\ nextFd'[o] \in Nat
        BY <3>2 DEF Shape, TypeOK
      <4>2. ASSUME NEW f \in Fd, f >= nextFd'[o] PROVE fds'[<<o, f>>] = NoHandle
        <5>1. ~ (f < Stdio)
          BY <4>1, <4>2
        <5>2. fds'[<<o, f>>] = fds[<<o, f>>]
          BY <2>0, <5>1
        <5> QED
          BY <4>2, <5>2, <3>2 DEF Shape
      <4>3. ASSUME state'[o] = "absent" PROVE OpenFds(o)' = {}
        <5>1. OpenFds(o) = {} /\ o # q
          BY <3>1, <4>3 DEF Shape
        <5>2. \A f \in Fd : fds'[<<o, f>>] = fds[<<o, f>>]
          BY <2>0, <5>1
        <5> QED
          BY <5>1, <5>2 DEF OpenFds
      <4>4. (opening'[o] > 0) => Ran(o)'
        BY <3>1, <3>2 DEF Shape, Ran
      <4> QED
        BY <4>1, <4>2, <4>3, <4>4
    <3>4. ASSUME NEW c \in Calls, call[c].st \in {"redirected", "accepting"}
          PROVE  call[c].at \in Proc \X Fd /\ Ran(call[c].at[1])'
      <4>1. call[c].at \in Proc \X Fd /\ Ran(call[c].at[1])
        BY <3>4 DEF Shape
      <4>2. call[c].at[1] \in Proc
        BY <4>1
      <4> QED
        BY <3>1, <3>2, <4>1, <4>2 DEF Ran
    <3>5. \A c \in Calls : call[c].st \in {"unused", "accepting"} => saved[c] = NoHandle
      BY DEF Shape
    <3> QED
      BY <3>2, <3>3, <3>4, <3>5 DEF Shape, Ran
  <2>1. CASE SpawnExternal(q)
    <3>1. PICK std :
            fds' = [x \in Proc \X Fd |->
                      IF x[1] = q /\ x[2] \in StdFds THEN std[x[2]] ELSE fds[x]]
      BY <2>1 DEF SpawnExternal
    <3>2. \A o \in Proc : \A g \in Fd :
            fds'[<<o, g>>] = fds[<<o, g>>] \/ (o = q /\ g < Stdio)
      BY <3>1
    <3> QED
      BY <2>0, <2>1, <3>2 DEF SpawnExternal, Ran
  <2>2. CASE ServiceSetup(q)
    BY <2>0, <2>2 DEF ServiceSetup, Ran
  <2>3. ASSUME NEW h \in Unused, ServiceSocket(q, h) PROVE Shape'
    <3>1. \A o \in Proc : \A g \in Fd :
            fds'[<<o, g>>] = fds[<<o, g>>] \/ (o = q /\ g < Stdio)
      BY <2>3 DEF ServiceSocket
    <3> QED
      BY <2>0, <2>3, <3>1 DEF ServiceSocket, Ran
  <2>4. ASSUME NEW h \in Unused, NEW f \in StdFds, ServiceStdio(q, f, h) PROVE Shape'
    <3>1. \A o \in Proc : \A g \in Fd :
            fds'[<<o, g>>] = fds[<<o, g>>] \/ (o = q /\ g < Stdio)
      BY <2>4 DEF ServiceStdio, TypeOK
    <3>2. \E to \in {"setup", "starting"} : state' = [state EXCEPT ![q] = to]
      BY <2>4 DEF ServiceStdio
    <3> QED
      BY <2>0, <2>4, <3>1, <3>2 DEF ServiceStdio, Ran
  <2>5. CASE SpawnReady(q)
    BY <2>0, <2>5 DEF SpawnReady, Ran
  <2>6. CASE SpawnFails(q)
    <3>1. ~ Ran(q)
      BY <2>6 DEF SpawnFails, Ran
    <3> QED
      BY <2>0, <2>6, <3>1 DEF SpawnFails
  <2>7. CASE CreateVirtualProcess(q)
    <3>1. state[q] = "absent" /\ state' = [state EXCEPT ![q] = "running"]
      BY <2>7 DEF CreateVirtualProcess
    <3>2. UNCHANGED <<nextFd, opening, call, saved>>
      BY <2>7 DEF CreateVirtualProcess
    <3>3. \A o \in Proc : \A g \in Fd :
            fds'[<<o, g>>] = fds[<<o, g>>] \/ (o = q /\ g < Stdio)
      BY <2>7 DEF CreateVirtualProcess
    <3>4. ~ Ran(q)
      BY <3>1 DEF Ran
    <3> QED
      BY <2>0, <3>1, <3>2, <3>3, <3>4
  <2> QED
    BY <1>2, <2>1, <2>2, <2>3, <2>4, <2>5, <2>6, <2>7 DEF Starting
<1>3. ASSUME NEW p \in Proc, Ending(p) PROVE Shape'
  <2>0. ASSUME \A o \in Proc : \A g \in Fd :
                 fds'[<<o, g>>] = fds[<<o, g>>] \/ fds'[<<o, g>>] = NoHandle,
               UNCHANGED <<nextFd, opening, call, saved>>,
               \/ UNCHANGED state
               \/ Ran(p) /\ state' = [state EXCEPT ![p] = "zombie"]
        PROVE  Shape'
    <3>1. \A o \in Proc :
            /\ state[o] \in {"running", "zombie"} => state'[o] \in {"running", "zombie"}
            /\ state'[o] = "absent" => state[o] = "absent"
      <4>1. CASE UNCHANGED state
        BY <4>1
      <4>2. CASE Ran(p) /\ state' = [state EXCEPT ![p] = "zombie"]
        BY <4>2 DEF TypeOK
      <4> QED
        BY <2>0, <4>1, <4>2
    <3>2. \A o \in Proc : OpenFds(o)' \subseteq OpenFds(o)
      BY <2>0 DEF OpenFds
    <3>3. /\ nextFd' = nextFd /\ opening' = opening
          /\ call' = call /\ saved' = saved
      BY <2>0
    <3>4. ASSUME NEW o \in Proc
          PROVE  /\ nextFd'[o] >= Stdio
                 /\ \A f \in Fd : (f >= nextFd'[o]) => (fds'[<<o, f>>] = NoHandle)
                 /\ state'[o] = "absent" => OpenFds(o)' = {}
                 /\ (opening'[o] > 0) => Ran(o)'
      <4>1. \A f \in Fd : (f >= nextFd'[o]) => (fds'[<<o, f>>] = NoHandle)
        BY <2>0, <3>3 DEF Shape
      <4>2. state'[o] = "absent" => OpenFds(o)' = {}
        <5>1. CASE state'[o] = "absent"
          <6>1. OpenFds(o) = {}
            BY <3>1, <5>1 DEF Shape
          <6>2. OpenFds(o)' \subseteq OpenFds(o)
            BY <3>2
          <6> QED
            BY <6>1, <6>2
        <5> QED
          BY <5>1
      <4>3. nextFd'[o] >= Stdio /\ ((opening'[o] > 0) => Ran(o)')
        BY <3>1, <3>3 DEF Shape, Ran
      <4> QED
        BY <4>1, <4>2, <4>3
    <3>5. ASSUME NEW c \in Calls, call[c].st \in {"redirected", "accepting"}
          PROVE  call[c].at \in Proc \X Fd /\ Ran(call[c].at[1])'
      <4>1. call[c].at \in Proc \X Fd /\ Ran(call[c].at[1])
        BY <3>5 DEF Shape
      <4>2. call[c].at[1] \in Proc
        BY <4>1
      <4>3. Ran(call[c].at[1])'
        BY <3>1, <3>3, <4>1, <4>2 DEF Ran
      <4> QED
        BY <4>1, <4>3
    <3>6. \A c \in Calls : call[c].st \in {"unused", "accepting"} => saved[c] = NoHandle
      BY DEF Shape
    <3> QED
      BY <3>3, <3>4, <3>5, <3>6 DEF Shape, Ran
  <2>1. ASSUME NEW f \in Fd, ExitClose(p, f) PROVE Shape'
    <3>1. \A o \in Proc : \A g \in Fd :
            fds'[<<o, g>>] = fds[<<o, g>>] \/ fds'[<<o, g>>] = NoHandle
      BY <2>1 DEF ExitClose, CloseHandle, TypeOK
    <3> QED
      BY <2>0, <2>1, <3>1 DEF ExitClose
  <2>2. CASE ExitEnd(p)
    BY <2>0, <2>2 DEF ExitEnd
  <2>3. CASE ForceExit(p)
    <3>1. \A o \in Proc : \A g \in Fd :
            fds'[<<o, g>>] = fds[<<o, g>>] \/ fds'[<<o, g>>] = NoHandle
      BY <2>3 DEF ForceExit
    <3> QED
      BY <2>0, <2>3, <3>1 DEF ForceExit, Ran
  <2>4. CASE InterruptBegin(p)
    BY <2>0, <2>4 DEF InterruptBegin
  <2>5. ASSUME NEW h \in closing[p], InterruptDrop(p, h) PROVE Shape'
    BY <2>0, <2>5 DEF InterruptDrop
  <2>6. CASE InterruptEnd(p)
    <3>1. \A o \in Proc : \A g \in Fd :
            fds'[<<o, g>>] = fds[<<o, g>>] \/ fds'[<<o, g>>] = NoHandle
      BY <2>6 DEF InterruptEnd
    <3> QED
      BY <2>0, <2>6, <3>1 DEF InterruptEnd
  <2> QED
    BY <1>3, <2>1, <2>2, <2>3, <2>4, <2>5, <2>6 DEF Ending
<1>4. ASSUME NEW c \in Calls, OfCall(c) PROVE Shape'
  <2>0. ASSUME call' = [call EXCEPT ![c] = [st |-> "over", at |-> <<>>]],
               \A d \in Calls : d # c => saved'[d] = saved[d],
               UNCHANGED <<state, opening>>,
               \A p \in Proc : nextFd'[p] \in Nat /\ nextFd'[p] >= nextFd[p],
               \A p \in Proc : \A g \in Fd :
                 \/ fds'[<<p, g>>] = fds[<<p, g>>] \/ fds'[<<p, g>>] = NoHandle
                 \/ fds[<<p, g>>] # NoHandle
                 \/ Ran(p) /\ g < nextFd'[p]
        PROVE  Shape'
    <3>1. \A d \in Calls : d # c => call'[d] = call[d]
      BY <2>0 DEF TypeOK
    <3>2. call'[c].st = "over"
      BY <2>0 DEF TypeOK
    <3>3. ASSUME NEW p \in Proc
          PROVE  /\ nextFd'[p] >= Stdio
                 /\ \A f \in Fd : (f >= nextFd'[p]) => (fds'[<<p, f>>] = NoHandle)
                 /\ state'[p] = "absent" => OpenFds(p)' = {}
      <4>1. nextFd[p] \in Nat /\ nextFd[p] >= Stdio
        BY DEF TypeOK, Shape
      <4>2. ASSUME NEW f \in Fd, f >= nextFd'[p] PROVE fds'[<<p, f>>] = NoHandle
        <5>1. f >= nextFd[p] /\ ~ (f < nextFd'[p]) /\ f \in Nat
          BY <2>0, <4>1, <4>2
        <5>2. fds[<<p, f>>] = NoHandle
          BY <5>1 DEF Shape
        <5> QED
          BY <2>0, <5>1, <5>2
      <4>3. state'[p] = "absent" => OpenFds(p)' = {}
        BY <2>0 DEF Shape, Ran, OpenFds
      <4> QED
        BY <2>0, <4>1, <4>2, <4>3
    <3> QED
      BY <2>0, <3>1, <3>2, <3>3 DEF Shape, Ran
  <2>1. CASE Restore(c)
    <3>1. call[c].at \in Proc \X Fd
      BY <2>1 DEF Restore, Shape
    <3>2. \A d \in Calls : d # c => saved'[d] = saved[d]
      BY <2>1 DEF Restore, TypeOK
    <3>3. \A p \in Proc : \A g \in Fd :
            fds'[<<p, g>>] = fds[<<p, g>>] \/ fds[<<p, g>>] # NoHandle
      BY <2>1 DEF Restore, TypeOK
    <3>4. \A p \in Proc : nextFd'[p] \in Nat /\ nextFd'[p] >= nextFd[p]
      BY <2>1 DEF Restore, TypeOK
    <3> QED
      BY <2>0, <2>1, <3>2, <3>3, <3>4 DEF Restore
  <2>2. ASSUME NEW h \in Unused, AcceptEnd(c, h) PROVE Shape'
    <3> DEFINE x == call[c].at
               p == x[1]
    <3>1. x \in Proc \X Fd /\ Ran(p) /\ p \in Proc
      BY <2>2 DEF AcceptEnd, Shape
    <3>2. \A d \in Calls : d # c => saved'[d] = saved[d]
      BY <2>2 DEF AcceptEnd, TypeOK
    <3>3. nextFd[p] \in Fd
      BY <2>2 DEF AcceptEnd
    <3>4. \/ /\ fds' = [fds EXCEPT ![x] = NoHandle, ![<<p, nextFd[p]>>] = h]
             /\ nextFd' = [nextFd EXCEPT ![p] = @ + 1]
          \/ /\ fds' = [fds EXCEPT ![x] = NoHandle]
             /\ UNCHANGED nextFd
      BY <2>2 DEF AcceptEnd
    <3> HIDE DEF x, p
    <3>5. \A q \in Proc : nextFd'[q] \in Nat /\ nextFd'[q] >= nextFd[q]
      BY <3>1, <3>4 DEF TypeOK
    <3>6. ASSUME NEW q \in Proc, NEW g \in Fd
          PROVE  \/ fds'[<<q, g>>] = fds[<<q, g>>] \/ fds'[<<q, g>>] = NoHandle
                 \/ Ran(q) /\ g < nextFd'[q]
      <4>1. CASE /\ fds' = [fds EXCEPT ![x] = NoHandle, ![<<p, nextFd[p]>>] = h]
                 /\ nextFd' = [nextFd EXCEPT ![p] = @ + 1]
        <5>1. \/ fds'[<<q, g>>] = fds[<<q, g>>] \/ fds'[<<q, g>>] = NoHandle
              \/ q = p /\ g = nextFd[p]
          BY <4>1, <3>1, <3>3 DEF TypeOK
        <5> QED
          BY <5>1, <4>1, <3>1, <3>3 DEF TypeOK
      <4>2. CASE fds' = [fds EXCEPT ![x] = NoHandle]
        BY <4>2, <3>1 DEF TypeOK
      <4> QED
        BY <3>4, <4>1, <4>2
    <3>7. /\ call' = [call EXCEPT ![c] = [st |-> "over", at |-> <<>>]]
          /\ UNCHANGED <<state, opening>>
      BY <2>2 DEF AcceptEnd
    <3> QED
      BY <2>0, <3>2, <3>5, <3>6, <3>7
  <2>3. CASE AcceptFails(c)
    <3>1. \A p \in Proc : nextFd'[p] \in Nat /\ nextFd'[p] >= nextFd[p]
      BY <2>3 DEF AcceptFails, TypeOK
    <3> QED
      BY <2>0, <2>3, <3>1 DEF AcceptFails
  <2> QED
    BY <1>4, <2>1, <2>2, <2>3 DEF OfCall
<1>5. CASE UNCHANGED vars
  BY <1>5 DEF vars, Shape, Ran, OpenFds
<1> QED
  BY <1>1, <1>2, <1>3, <1>4, <1>5 DEF Next

-----------------------------------------------------------------------------
(* Counts.                                                                 *)

(* What Balance says of one handle.                                        *)
Good(h) ==
  /\ resource[h] = "unused"
       => /\ h \notin open \cup interrupted /\ refs[h] = 0
          /\ Cardinality(MappedTo(h)) = 0 /\ Cardinality(SavedAs(h)) = 0
  /\ h \notin interrupted
       => /\ refs[h] = Cardinality(MappedTo(h)) + Cardinality(SavedAs(h))
          /\ refs[h] > 0 => h \in open /\ resource[h] = "open"

LEMMA BalanceIsGood == Balance <=> (\A h \in Handle : Good(h)) /\ ClosingTouched
BY DEF Balance, Accounting, CountedIsOpen, Fresh, Unused, Good

LEMMA CountTypes ==
  ASSUME NEW h
  PROVE  /\ IsFiniteSet(MappedTo(h)) /\ Cardinality(MappedTo(h)) \in Nat
         /\ IsFiniteSet(SavedAs(h)) /\ Cardinality(SavedAs(h)) \in Nat
         /\ MappedTo(h) # {} => Cardinality(MappedTo(h)) >= 1
         /\ SavedAs(h) # {} => Cardinality(SavedAs(h)) >= 1
<1>1. MappedTo(h) \in SUBSET Places /\ SavedAs(h) \in SUBSET Calls
  BY DEF MappedTo, SavedAs, Places
<1>2. IsFiniteSet(MappedTo(h)) /\ IsFiniteSet(SavedAs(h))
  BY <1>1, FS_Subset, PlacesFinite
<1>3. Cardinality(MappedTo(h)) \in Nat /\ Cardinality(SavedAs(h)) \in Nat
  BY <1>2, FS_CardinalityType
<1>4. /\ Cardinality(MappedTo(h)) = 0 <=> MappedTo(h) = {}
      /\ Cardinality(SavedAs(h)) = 0 <=> SavedAs(h) = {}
  BY <1>2, FS_EmptySet
<1> QED
  BY <1>2, <1>3, <1>4

(* One descriptor changes; two do, one after the other; one saved handle.   *)
SetFd(x, v) == fds' = [fds EXCEPT ![x] = v]
SetTwoFds(x, u, y, v) == fds' = [fds EXCEPT ![x] = u, ![y] = v]
SetSaved(c, v) == saved' = [saved EXCEPT ![c] = v]

LEMMA Moved ==
  ASSUME TypeOK, NEW x \in Proc \X Fd, NEW v, NEW h, SetFd(x, v)
  PROVE  Cardinality(MappedTo(h))' =
           Cardinality(MappedTo(h)) + (IF h = v THEN 1 ELSE 0)
                                    - (IF h = fds[x] THEN 1 ELSE 0)
<1> DEFINE T == MappedTo(h)'
<1>1. \A y \in Proc \X Fd : fds'[y] = IF y = x THEN v ELSE fds[y]
  BY DEF SetFd, TypeOK
<1>2. T \ {x} = MappedTo(h) \ {x}
  BY <1>1 DEF MappedTo
<1>3. (x \in T <=> h = v) /\ (x \in MappedTo(h) <=> h = fds[x])
  BY <1>1 DEF MappedTo
<1> HIDE DEF T
<1>4. Cardinality(T) = Cardinality(MappedTo(h)) + (IF x \in T THEN 1 ELSE 0)
                                    - (IF x \in MappedTo(h) THEN 1 ELSE 0)
  BY <1>2, CountTypes, SetMoved
<1>5. Cardinality(MappedTo(h))' = Cardinality(T)
  BY DEF T
<1> QED
  BY <1>3, <1>4, <1>5

LEMMA SavedMoved ==
  ASSUME TypeOK, NEW c \in Calls, NEW v, NEW h, SetSaved(c, v)
  PROVE  Cardinality(SavedAs(h))' =
           Cardinality(SavedAs(h)) + (IF h = v THEN 1 ELSE 0)
                                   - (IF h = saved[c] THEN 1 ELSE 0)
<1> DEFINE T == SavedAs(h)'
<1>1. \A d \in Calls : saved'[d] = IF d = c THEN v ELSE saved[d]
  BY DEF SetSaved, TypeOK
<1>2. T \ {c} = SavedAs(h) \ {c}
  BY <1>1 DEF SavedAs
<1>3. (c \in T <=> h = v) /\ (c \in SavedAs(h) <=> h = saved[c])
  BY <1>1 DEF SavedAs
<1> HIDE DEF T
<1>4. Cardinality(T) = Cardinality(SavedAs(h)) + (IF c \in T THEN 1 ELSE 0)
                                    - (IF c \in SavedAs(h) THEN 1 ELSE 0)
  BY <1>2, CountTypes, SetMoved
<1>5. Cardinality(SavedAs(h))' = Cardinality(T)
  BY DEF T
<1> QED
  BY <1>3, <1>4, <1>5

LEMMA Kept ==
  ASSUME NEW h
  PROVE  /\ UNCHANGED fds => Cardinality(MappedTo(h))' = Cardinality(MappedTo(h))
         /\ UNCHANGED saved => Cardinality(SavedAs(h))' = Cardinality(SavedAs(h))
BY DEF MappedTo, SavedAs

LEMMA MovedTwice ==
  ASSUME TypeOK, NEW x \in Proc \X Fd, NEW y \in Proc \X Fd, x # y,
         NEW u, NEW v, NEW h, SetTwoFds(x, u, y, v)
  PROVE  Cardinality(MappedTo(h))' =
           Cardinality(MappedTo(h))
             + (IF h = u THEN 1 ELSE 0) - (IF h = fds[x] THEN 1 ELSE 0)
             + (IF h = v THEN 1 ELSE 0) - (IF h = fds[y] THEN 1 ELSE 0)
<1> DEFINE S == MappedTo(h)
           M == {z \in Proc \X Fd : (IF z = x THEN u ELSE fds[z]) = h}
           T == MappedTo(h)'
<1>1. \A z \in Proc \X Fd :
        fds'[z] = IF z = y THEN v ELSE IF z = x THEN u ELSE fds[z]
  BY DEF SetTwoFds, TypeOK
<1>2. M \ {x} = S \ {x} /\ (x \in M <=> h = u) /\ (x \in S <=> h = fds[x])
  BY DEF MappedTo
<1>3. T \ {y} = M \ {y} /\ (y \in T <=> h = v) /\ (y \in M <=> h = fds[y])
  BY <1>1 DEF MappedTo
<1>4. IsFiniteSet(S) /\ Cardinality(S) \in Nat
  BY CountTypes
<1>5. Cardinality(MappedTo(h))' = Cardinality(T)
  OBVIOUS
<1> HIDE DEF S, M, T
<1>6. /\ IsFiniteSet(M)
      /\ Cardinality(M) = Cardinality(S) + (IF x \in M THEN 1 ELSE 0)
                                         - (IF x \in S THEN 1 ELSE 0)
  BY <1>2, <1>4, SetMoved
<1>7. Cardinality(T) = Cardinality(M) + (IF y \in T THEN 1 ELSE 0)
                                      - (IF y \in M THEN 1 ELSE 0)
  BY <1>3, <1>6, SetMoved
<1>8. S = MappedTo(h)
  BY DEF S
<1> QED
  BY <1>2, <1>3, <1>4, <1>5, <1>6, <1>7, <1>8

(* All descriptors of a process go.                                        *)
LEMMA Cleared ==
  ASSUME TypeOK, NEW p \in Proc, NEW h \in Handle,
         fds' = [x \in Proc \X Fd |-> IF x[1] = p THEN NoHandle ELSE fds[x]]
  PROVE  /\ Cardinality(MappedTo(h))' =
              Cardinality(MappedTo(h)) - Cardinality(Slots(p, h))
         /\ Cardinality(Slots(p, h)) \in Nat
         /\ Cardinality(Slots(p, h)) <= Cardinality(MappedTo(h))
<1>1. Slots(p, h) \subseteq MappedTo(h)
  BY DEF Slots, MappedTo
<1>2. MappedTo(h)' = MappedTo(h) \ Slots(p, h)
  BY BoundsFacts DEF Slots, MappedTo
<1>3. IsFiniteSet(MappedTo(h))
  BY CountTypes
<1>4. Cardinality(MappedTo(h) \ Slots(p, h)) =
        Cardinality(MappedTo(h)) - Cardinality(Slots(p, h))
  BY <1>1, <1>3, RemovePlaces
<1>5. /\ Cardinality(Slots(p, h)) <= Cardinality(MappedTo(h))
      /\ Cardinality(Slots(p, h)) \in Nat
  BY <1>1, <1>3, FS_Subset, FS_CardinalityType
<1> QED
  BY <1>2, <1>4, <1>5

(* The stdio descriptors of a process that has none yet are filled.        *)
LEMMA Filled ==
  ASSUME TypeOK, NEW q \in Proc, OpenFds(q) = {}, NEW from, NEW h \in Handle,
         fds' = [x \in Proc \X Fd |->
                   IF x[1] = q /\ x[2] \in StdFds THEN from[x[2]] ELSE fds[x]]
  PROVE  Cardinality(MappedTo(h))' =
           Cardinality(MappedTo(h)) + Cardinality({f \in StdFds : from[f] = h})
<1> DEFINE A == {f \in StdFds : from[f] = h}
<1>1. IsFiniteSet(A)
  BY InheritedFacts
<1>2. \A f \in Fd : fds[<<q, f>>] = NoHandle
  BY DEF OpenFds
<1>3. MappedTo(h)' = MappedTo(h) \cup ({q} \X A)
  <2>1. ASSUME NEW x \in Proc \X Fd
        PROVE  x \in MappedTo(h)' <=> x \in MappedTo(h) \cup ({q} \X A)
    <3>1. PICK o \in Proc, g \in Fd : x = <<o, g>>
      OBVIOUS
    <3>2. x \in MappedTo(h)' <=>
            (IF o = q /\ g \in StdFds THEN from[g] ELSE fds[x]) = h
      BY <3>1 DEF MappedTo
    <3>3. x \in {q} \X A <=> o = q /\ g \in StdFds /\ from[g] = h
      BY <3>1
    <3>4. o = q => x \notin MappedTo(h)
      BY <1>2, <3>1, BoundsFacts DEF MappedTo
    <3>5. x \in MappedTo(h) <=> fds[x] = h
      BY DEF MappedTo
    <3> QED
      BY <3>2, <3>3, <3>4, <3>5
  <2>2. {q} \X A \subseteq Proc \X Fd
    BY BoundsFacts
  <2>3. MappedTo(h) \subseteq Proc \X Fd /\ MappedTo(h)' \subseteq Proc \X Fd
    BY DEF MappedTo
  <2> QED
    BY <2>1, <2>2, <2>3
<1>4. MappedTo(h) \cap ({q} \X A) = {}
  <2>1. ASSUME NEW x \in {q} \X A PROVE fds[x] = NoHandle
    <3>1. PICK g \in A : x = <<q, g>>
      OBVIOUS
    <3> QED
      BY <1>2, <3>1, BoundsFacts
  <2> QED
    BY <2>1, BoundsFacts DEF MappedTo
<1>5. IsFiniteSet({q} \X A) /\ Cardinality({q} \X A) = Cardinality(A)
  BY <1>1, PlacesOfOne
<1>6. Cardinality(MappedTo(h) \cup ({q} \X A)) =
        Cardinality(MappedTo(h)) + Cardinality({q} \X A)
  BY <1>4, <1>5, CountTypes, AddPlaces
<1> QED
  BY <1>3, <1>5, <1>6

(* unrefHandle and refHandle, seen from one handle.                        *)
LEMMA UnrefOne ==
  ASSUME TypeOK, NEW n \in [Handle -> Nat], Unref(n), NEW h \in Handle
  PROVE  /\ resource'[h] = "unused" => resource[h] = "unused"
         /\ open' \subseteq open
         /\ n[h] <= refs[h] =>
              /\ refs'[h] = refs[h] - n[h]
              /\ refs'[h] > 0 => /\ h \in open => h \in open'
                                 /\ resource'[h] = resource[h]
<1>1. h \in Spent(n) <=> n[h] > 0 /\ Count(h) <= n[h]
  BY DEF Spent
<1>2. refs'[h] = IF n[h] = 0 THEN refs[h]
                 ELSE IF h \in Spent(n) THEN 0 ELSE Count(h) - n[h]
  BY DEF Unref
<1>3. resource'[h] = IF h \in Spent(n) \cap open THEN "closed" ELSE resource[h]
  BY DEF Unref
<1>4. open' = open \ Spent(n)
  BY DEF Unref
<1>5. refs[h] \in Nat /\ n[h] \in Nat
  BY DEF TypeOK
<1>6. ASSUME n[h] <= refs[h]
      PROVE  /\ refs'[h] = refs[h] - n[h]
             /\ refs'[h] > 0 => h \notin Spent(n)
  BY <1>1, <1>2, <1>5, <1>6 DEF Count
<1> QED
  BY <1>3, <1>4, <1>6

LEMMA RefOne ==
  ASSUME TypeOK, NEW n \in [Handle -> Nat], Ref(n), NEW h \in Handle,
         n[h] = 0 \/ refs[h] > 0
  PROVE  refs'[h] = refs[h] + n[h]
BY DEF TypeOK, Ref, Count

LEMMA OnceIs == \A g : \A h \in Handle : Once(g)[h] = IF h = g THEN 1 ELSE 0
BY DEF Once

LEMMA EnterOne ==
  ASSUME TypeOK, NEW g \in Handle, NEW n \in Nat, Enter(g, n), NEW h \in Handle
  PROVE  /\ h = g => refs'[h] = n /\ h \in open' /\ resource'[h] = "open"
         /\ h # g => /\ refs'[h] = refs[h] /\ resource'[h] = resource[h]
                     /\ h \in open' <=> h \in open
BY DEF TypeOK, Enter

-----------------------------------------------------------------------------
(* The balance, one handle at a time.                                      *)

(* Whoever holds a good handle finds it in the table and open.             *)
LEMMA HolderFinds ==
  ASSUME TypeOK, NEW h \in Handle, Good(h),
         \/ \E x \in Proc \X Fd : fds[x] = h
         \/ \E c \in Calls : saved[c] = h
  PROVE  /\ resource[h] # "unused"
         /\ h \notin interrupted => refs[h] >= 1 /\ h \in open /\ resource[h] = "open"
<1>1. MappedTo(h) # {} \/ SavedAs(h) # {}
  BY DEF MappedTo, SavedAs
<1>2. Cardinality(MappedTo(h)) + Cardinality(SavedAs(h)) >= 1
  BY <1>1, CountTypes
<1>3. Cardinality(MappedTo(h)) \in Nat /\ Cardinality(SavedAs(h)) \in Nat
  BY CountTypes
<1> QED
  BY <1>2, <1>3 DEF Good

(* A step that changes the count of h and its holders by the same d.       *)
LEMMA GoodIf ==
  ASSUME TypeOK, TypeOK', NEW h \in Handle, Good(h), NEW d \in Int,
         Cardinality(MappedTo(h))' + Cardinality(SavedAs(h))'
           = Cardinality(MappedTo(h)) + Cardinality(SavedAs(h)) + d,
         resource'[h] = "unused"
           => resource[h] = "unused" /\ d = 0 /\ h \notin open' \cup interrupted',
         h \notin interrupted'
           => /\ h \notin interrupted /\ refs'[h] = refs[h] + d
              /\ refs'[h] > 0 => h \in open' /\ resource'[h] = "open"
  PROVE  Good(h)'
<1>1. /\ Cardinality(MappedTo(h)) \in Nat /\ Cardinality(SavedAs(h)) \in Nat
      /\ Cardinality(MappedTo(h))' \in Nat /\ Cardinality(SavedAs(h))' \in Nat
  <2>1. Cardinality(MappedTo(h)) \in Nat /\ Cardinality(SavedAs(h)) \in Nat
    BY CountTypes
  <2>2. MappedTo(h)' \in SUBSET Places /\ SavedAs(h)' \in SUBSET Calls
    BY DEF MappedTo, SavedAs, Places
  <2>3. IsFiniteSet(MappedTo(h)') /\ IsFiniteSet(SavedAs(h)')
    BY <2>2, FS_Subset, PlacesFinite
  <2>4. Cardinality(MappedTo(h)') \in Nat /\ Cardinality(SavedAs(h)') \in Nat
    BY <2>3, FS_CardinalityType
  <2>5. /\ Cardinality(MappedTo(h))' = Cardinality(MappedTo(h)')
        /\ Cardinality(SavedAs(h))' = Cardinality(SavedAs(h)')
    OBVIOUS
  <2> QED
    BY <2>1, <2>4, <2>5
<1>2. refs[h] \in Nat /\ refs'[h] \in Nat
  BY DEF TypeOK
<1>3. ASSUME resource'[h] = "unused"
      PROVE  /\ h \notin open' \cup interrupted' /\ refs'[h] = 0
             /\ Cardinality(MappedTo(h))' = 0 /\ Cardinality(SavedAs(h))' = 0
  <2>1. /\ refs[h] = 0 /\ Cardinality(MappedTo(h)) = 0 /\ Cardinality(SavedAs(h)) = 0
        /\ d = 0 /\ h \notin open' \cup interrupted'
    BY <1>3 DEF Good
  <2> QED
    BY <1>1, <1>2, <2>1
<1>4. ASSUME h \notin interrupted'
      PROVE  /\ refs'[h] = Cardinality(MappedTo(h))' + Cardinality(SavedAs(h))'
             /\ refs'[h] > 0 => h \in open' /\ resource'[h] = "open"
  <2>1. refs[h] = Cardinality(MappedTo(h)) + Cardinality(SavedAs(h))
    BY <1>4 DEF Good
  <2> QED
    BY <1>1, <1>2, <1>4, <2>1
<1> QED
  BY <1>3, <1>4 DEF Good

(* unrefHandle as often as descriptors of h go.                            *)
LEMMA GoodUnref ==
  ASSUME TypeOK, TypeOK', NEW h \in Handle, Good(h),
         NEW n \in [Handle -> Nat], Unref(n), UNCHANGED <<interrupted, saved>>,
         n[h] <= Cardinality(MappedTo(h)),
         Cardinality(MappedTo(h))' = Cardinality(MappedTo(h)) - n[h]
  PROVE  Good(h)'
<1> DEFINE d == 0 - n[h]
<1>0. n[h] \in Nat /\ refs[h] \in Nat
  BY DEF TypeOK
<1>1. d \in Int
  BY <1>0
<1>2. Cardinality(SavedAs(h))' = Cardinality(SavedAs(h))
  BY Kept
<1>3. Cardinality(MappedTo(h)) \in Nat /\ Cardinality(SavedAs(h)) \in Nat
  BY CountTypes
<1>4. Cardinality(MappedTo(h))' + Cardinality(SavedAs(h))'
        = Cardinality(MappedTo(h)) + Cardinality(SavedAs(h)) + d
  BY <1>0, <1>2, <1>3
<1>5. ASSUME resource'[h] = "unused"
      PROVE  resource[h] = "unused" /\ d = 0 /\ h \notin open' \cup interrupted'
  <2>1. resource[h] = "unused" /\ open' \subseteq open
    BY <1>5, UnrefOne
  <2>2. Cardinality(MappedTo(h)) = 0 /\ h \notin open \cup interrupted
    BY <2>1 DEF Good
  <2> QED
    BY <1>0, <2>1, <2>2
<1>6. ASSUME h \notin interrupted'
      PROVE  /\ h \notin interrupted /\ refs'[h] = refs[h] + d
             /\ refs'[h] > 0 => h \in open' /\ resource'[h] = "open"
  <2>1. h \notin interrupted
    BY <1>6
  <2>2. refs[h] = Cardinality(MappedTo(h)) + Cardinality(SavedAs(h))
    BY <2>1 DEF Good
  <2>3. n[h] <= refs[h]
    BY <1>0, <1>3, <2>2
  <2>4. /\ refs'[h] = refs[h] - n[h]
        /\ refs'[h] > 0 => /\ h \in open => h \in open'
                           /\ resource'[h] = resource[h]
    BY <2>3, UnrefOne
  <2>5. refs'[h] > 0 => refs[h] > 0
    BY <1>0, <2>4
  <2>6. refs[h] > 0 => h \in open /\ resource[h] = "open"
    BY <2>1 DEF Good
  <2> QED
    BY <1>0, <2>1, <2>4, <2>5, <2>6
<1> HIDE DEF d
<1> QED
  BY <1>1, <1>4, <1>5, <1>6, GoodIf

(* A step that changes neither h's count nor who holds it.                 *)
LEMMA GoodSame ==
  ASSUME TypeOK, TypeOK', NEW h \in Handle, Good(h),
         Cardinality(MappedTo(h))' = Cardinality(MappedTo(h)),
         Cardinality(SavedAs(h))' = Cardinality(SavedAs(h)),
         h \in interrupted' <=> h \in interrupted,
         h \in open' <=> h \in open, refs'[h] = refs[h],
         resource'[h] = resource[h]
  PROVE  Good(h)'
BY DEF Good

(* What a process's descriptors map to was used.                           *)
LEMMA HeldFinds ==
  ASSUME TypeOK, NEW h \in Handle, Good(h), NEW p \in Proc, h \in Held(p)
  PROVE  resource[h] # "unused"
<1>1. PICK f \in Fd : fds[<<p, f>>] = h
  BY DEF Held, OpenFds
<1>2. <<p, f>> \in Proc \X Fd
  OBVIOUS
<1> QED
  BY <1>1, <1>2, HolderFinds

(* An unused handle g enters the table with one descriptor, till then free. *)
LEMMA AllocGood ==
  ASSUME TypeOK, TypeOK', NEW h \in Handle, Good(h), NEW g \in Handle, Good(g),
         resource[g] = "unused", Enter(g, 1), UNCHANGED <<saved, interrupted>>,
         NEW x \in Proc \X Fd, fds[x] = NoHandle, fds' = [fds EXCEPT ![x] = g]
  PROVE  Good(h)'
<1> DEFINE d == IF h = g THEN 1 ELSE 0
<1>0. SetFd(x, g)
  BY DEF SetFd
<1>1. Cardinality(MappedTo(h))' + Cardinality(SavedAs(h))'
        = Cardinality(MappedTo(h)) + Cardinality(SavedAs(h)) + d
  <2>1. Cardinality(MappedTo(h))' =
          Cardinality(MappedTo(h)) + (IF h = g THEN 1 ELSE 0)
                                   - (IF h = fds[x] THEN 1 ELSE 0)
    BY <1>0, Moved
  <2>2. Cardinality(SavedAs(h))' = Cardinality(SavedAs(h)) /\ h # fds[x]
    BY Kept, BoundsFacts
  <2>3. Cardinality(MappedTo(h)) \in Nat /\ Cardinality(SavedAs(h)) \in Nat
    BY CountTypes
  <2> QED
    BY <2>1, <2>2, <2>3
<1>2. /\ h = g => refs'[h] = 1 /\ h \in open' /\ resource'[h] = "open"
      /\ h # g => /\ refs'[h] = refs[h] /\ resource'[h] = resource[h]
                  /\ h \in open' <=> h \in open
  BY EnterOne
<1>3. refs[g] = 0 /\ refs[h] \in Nat
  BY DEF Good, TypeOK
<1>4. resource'[h] = "unused"
       => resource[h] = "unused" /\ d = 0 /\ h \notin open' \cup interrupted'
  BY <1>2 DEF Good
<1>5. h \notin interrupted'
       => /\ h \notin interrupted /\ refs'[h] = refs[h] + d
          /\ refs'[h] > 0 => h \in open' /\ resource'[h] = "open"
  BY <1>2, <1>3 DEF Good
<1> QED
  BY <1>1, <1>4, <1>5, GoodIf

(* closeHandle.                                                            *)
LEMMA CloseGood ==
  ASSUME TypeOK, TypeOK', NEW h \in Handle, Good(h), NEW p \in Proc, NEW f \in Fd,
         CloseHandle(p, f), UNCHANGED <<interrupted, saved>>
  PROVE  Good(h)'
<1> DEFINE x == <<p, f>>
           g == fds[x]
           n == Once(g)
<1>1. /\ x \in Proc \X Fd /\ SetFd(x, NoHandle) /\ Unref(n)
      /\ n \in [Handle -> Nat] /\ n[h] = IF h = g THEN 1 ELSE 0
  BY OnceType, OnceIs DEF CloseHandle, SetFd
<1>2. Cardinality(MappedTo(h)) \in Nat /\ (h = g => Cardinality(MappedTo(h)) >= 1)
  <2>1. h = g => MappedTo(h) # {}
    BY <1>1 DEF MappedTo
  <2> QED
    BY <2>1, CountTypes
<1> HIDE DEF x, g, n
<1>3. Cardinality(MappedTo(h))' =
        Cardinality(MappedTo(h)) + (IF h = NoHandle THEN 1 ELSE 0)
                                 - (IF h = fds[x] THEN 1 ELSE 0)
  BY <1>1, Moved
<1>4. h # NoHandle /\ g = fds[x]
  BY BoundsFacts DEF g
<1>5. /\ Cardinality(MappedTo(h))' = Cardinality(MappedTo(h)) - n[h]
      /\ n[h] <= Cardinality(MappedTo(h))
  BY <1>1, <1>2, <1>3, <1>4
<1> QED
  BY <1>1, <1>5, GoodUnref

LEMMA SyscallGood ==
  ASSUME TypeOK, TypeOK', Shape, NEW h \in Handle, \A g \in Handle : Good(g),
         NEW p \in Proc, Syscall(p)
  PROVE  Good(h)'
<1> USE BoundsFacts
<1>g. Good(h)
  OBVIOUS
<1>1. CASE OpenBegin(p)
  BY <1>1, <1>g, Kept, GoodSame DEF OpenBegin, table, ends
<1>2. CASE OpenFails(p)
  BY <1>2, <1>g, Kept, GoodSame DEF OpenFails, table, ends
<1>3. ASSUME NEW g \in Unused, OpenEnd(p, g) PROVE Good(h)'
  <2>0. g \in Handle /\ resource[g] = "unused" /\ UNCHANGED <<saved, interrupted>>
    BY <1>3 DEF Unused, OpenEnd, ends
  <2>g. Good(g)
    BY <2>0
  <2>1. CASE Alloc(p, g)
    <3>1. nextFd[p] \in Fd /\ nextFd[p] \in Nat
      BY <2>1 DEF Alloc, TypeOK
    <3>2. /\ <<p, nextFd[p]>> \in Proc \X Fd /\ fds[<<p, nextFd[p]>>] = NoHandle
          /\ fds' = [fds EXCEPT ![<<p, nextFd[p]>>] = g] /\ Enter(g, 1)
      BY <2>1, <3>1 DEF Alloc, Shape
    <3> QED
      BY <1>g, <2>0, <2>g, <3>2, AllocGood
  <2>2. CASE /\ \E r \in {"open", "closed"} : resource' = [resource EXCEPT ![g] = r]
             /\ UNCHANGED <<fds, nextFd, open, refs>>
    <3>1. resource'[h] = resource[h] \/ (h = g /\ resource'[h] # "unused")
      BY <2>2, <2>0 DEF TypeOK
    <3>2. /\ Cardinality(MappedTo(h))' = Cardinality(MappedTo(h))
          /\ Cardinality(SavedAs(h))' = Cardinality(SavedAs(h))
      BY <2>0, <2>2, Kept
    <3>3. CASE resource'[h] = resource[h]
      BY <2>0, <2>2, <3>2, <3>3, <1>g, GoodSame
    <3>4. CASE h = g /\ resource'[h] # "unused"
      <4>1. /\ refs[h] = 0 /\ Cardinality(MappedTo(h)) = 0
            /\ Cardinality(SavedAs(h)) = 0
        BY <2>0, <2>g, <3>4 DEF Good
      <4> QED
        BY <2>2, <3>2, <3>4, <4>1 DEF Good
    <3> QED
      BY <3>1, <3>3, <3>4
  <2> QED
    BY <1>3, <2>1, <2>2 DEF OpenEnd
<1>4. ASSUME NEW r \in Unused, NEW s \in Unused, r # s, CreatePipe(p, r, s)
      PROVE  Good(h)'
  <2> DEFINE x == <<p, nextFd[p]>>
             y == <<p, nextFd[p] + 1>>
             d == IF h = r \/ h = s THEN 1 ELSE 0
  <2>1. /\ r \in Handle /\ s \in Handle /\ UNCHANGED <<saved, interrupted>>
        /\ resource[r] = "unused" /\ resource[s] = "unused"
    BY <1>4 DEF Unused, CreatePipe, ends
  <2>2. nextFd[p] \in Nat /\ nextFd[p] \in Fd /\ nextFd[p] + 1 \in Fd
    BY <1>4, HandleAssumption DEF CreatePipe, TypeOK, Fd
  <2>3. x \in Proc \X Fd /\ y \in Proc \X Fd /\ x # y
    BY <2>2
  <2>4. fds[x] # h /\ fds[y] # h
    BY <2>2 DEF Shape
  <2>5. SetTwoFds(x, r, y, s)
    BY <1>4 DEF CreatePipe, SetTwoFds
  <2>6. Cardinality(MappedTo(h))' + Cardinality(SavedAs(h))'
          = Cardinality(MappedTo(h)) + Cardinality(SavedAs(h)) + d
    <3> HIDE DEF x, y
    <3>1. Cardinality(MappedTo(h))' =
           Cardinality(MappedTo(h))
             + (IF h = r THEN 1 ELSE 0) - (IF h = fds[x] THEN 1 ELSE 0)
             + (IF h = s THEN 1 ELSE 0) - (IF h = fds[y] THEN 1 ELSE 0)
      BY <2>3, <2>5, MovedTwice
    <3>2. Cardinality(SavedAs(h))' = Cardinality(SavedAs(h))
      BY <2>1, Kept
    <3>3. Cardinality(MappedTo(h)) \in Nat /\ Cardinality(SavedAs(h)) \in Nat
      BY CountTypes
    <3> QED
      BY <1>4, <2>4, <3>1, <3>2, <3>3
  <2>7. /\ h \in {r, s} => refs'[h] = 1 /\ h \in open' /\ resource'[h] = "open"
        /\ h \notin {r, s} => /\ refs'[h] = refs[h] /\ resource'[h] = resource[h]
                              /\ h \in open' <=> h \in open
    BY <1>4, <2>1 DEF CreatePipe, TypeOK
  <2>8. refs[h] \in Nat /\ (h \in {r, s} => refs[h] = 0 /\ h \notin interrupted)
    BY <2>1, <1>g DEF Good, TypeOK
  <2>d. d = IF h \in {r, s} THEN 1 ELSE 0
    OBVIOUS
  <2> HIDE DEF x, y, d
  <2>9. resource'[h] = "unused"
         => resource[h] = "unused" /\ d = 0 /\ h \notin open' \cup interrupted'
    BY <2>1, <2>7, <2>d, <1>g DEF Good
  <2>10. h \notin interrupted'
         => /\ h \notin interrupted /\ refs'[h] = refs[h] + d
            /\ refs'[h] > 0 => h \in open' /\ resource'[h] = "open"
    BY <2>1, <2>7, <2>8, <2>d, <1>g DEF Good
  <2>11. d \in Int
    BY <2>d
  <2> QED
    BY <1>g, <2>6, <2>9, <2>10, <2>11, GoodIf
<1>5. ASSUME NEW f \in Fd, Close(p, f) PROVE Good(h)'
  BY <1>5, <1>g, CloseGood DEF Close, ends
<1>6. ASSUME NEW t \in Fd, NEW s \in Fd, NEW c \in Calls, Redirect(p, t, s, c)
      PROVE  Good(h)'
  <2> DEFINE x == <<p, t>>
             g == fds[<<p, s>>]
             d == IF h = g THEN 1 ELSE 0
  <2>1. /\ x \in Proc \X Fd /\ <<p, s>> \in Proc \X Fd
        /\ SetFd(x, g) /\ SetSaved(c, fds[x])
        /\ Ref(Once(g)) /\ UNCHANGED <<open, resource, interrupted>>
        /\ saved[c] = NoHandle
    BY <1>6 DEF Redirect, ends, Shape, SetFd, SetSaved
  <2>2. h = g => /\ resource[h] # "unused"
                 /\ h \notin interrupted
                      => refs[h] >= 1 /\ h \in open /\ resource[h] = "open"
    BY <1>g, <2>1, HolderFinds
  <2>3. Cardinality(MappedTo(h))' + Cardinality(SavedAs(h))'
          = Cardinality(MappedTo(h)) + Cardinality(SavedAs(h)) + d
    <3> HIDE DEF x, g
    <3>1. Cardinality(MappedTo(h))' =
            Cardinality(MappedTo(h)) + (IF h = g THEN 1 ELSE 0)
                                     - (IF h = fds[x] THEN 1 ELSE 0)
      BY <2>1, Moved
    <3>2. Cardinality(SavedAs(h))' =
            Cardinality(SavedAs(h)) + (IF h = fds[x] THEN 1 ELSE 0)
                                    - (IF h = saved[c] THEN 1 ELSE 0)
      BY <2>1, SavedMoved
    <3>3. Cardinality(MappedTo(h)) \in Nat /\ Cardinality(SavedAs(h)) \in Nat
      BY CountTypes
    <3> QED
      BY <2>1, <3>1, <3>2, <3>3
  <2>4. ASSUME h \notin interrupted PROVE refs'[h] = refs[h] + d
    <3>1. Once(g)[h] = d
      BY OnceIs
    <3>2. refs[h] \in Nat /\ (d = 0 \/ refs[h] > 0)
      BY <2>2, <2>4 DEF TypeOK
    <3> HIDE DEF d, g
    <3> QED
      BY <2>1, <3>1, <3>2, OnceType, RefOne
  <2>5. h \notin interrupted'
         => /\ h \notin interrupted /\ refs'[h] = refs[h] + d
            /\ refs'[h] > 0 => h \in open' /\ resource'[h] = "open"
    <3>1. refs[h] \in Nat
      BY DEF TypeOK
    <3> QED
      BY <2>1, <2>2, <2>4, <3>1, <1>g DEF Good
  <2>6. resource'[h] = "unused"
         => resource[h] = "unused" /\ d = 0 /\ h \notin open' \cup interrupted'
    BY <2>1, <2>2, <1>g DEF Good
  <2> QED
    BY <1>g, <2>3, <2>5, <2>6, GoodIf
<1>7. ASSUME NEW f \in Fd, NEW c \in Calls, AcceptBegin(p, f, c) PROVE Good(h)'
  BY <1>7, <1>g, Kept, GoodSame DEF AcceptBegin, table, ends
<1>8. ASSUME NEW q \in Proc, Spawn(p, q) PROVE Good(h)'
  <2>1. PICK from \in [StdFds -> {fds[<<p, f>>] : f \in Fd} \cup {NoHandle}] :
          /\ fds' = [x \in Proc \X Fd |->
                       IF x[1] = q /\ x[2] \in StdFds THEN from[x[2]] ELSE fds[x]]
          /\ Ref([g \in Handle |-> Cardinality({f \in StdFds : from[f] = g})])
    BY <1>8 DEF Spawn
  <2> DEFINE A == {f \in StdFds : from[f] = h}
             d == Cardinality(A)
             n == [g \in Handle |-> Cardinality({f \in StdFds : from[f] = g})]
  <2>2. n \in [Handle -> Nat] /\ IsFiniteSet(A) /\ d \in Nat /\ n[h] = d
    BY InheritedFacts, FS_CardinalityType
  <2>3. d # 0 => /\ resource[h] # "unused"
                 /\ h \notin interrupted
                      => refs[h] >= 1 /\ h \in open /\ resource[h] = "open"
    <3>1. CASE d # 0
      <4>1. A # {}
        BY <3>1, FS_EmptySet
      <4>2. PICK f \in Fd : fds[<<p, f>>] = h
        BY <4>1
      <4>3. <<p, f>> \in Proc \X Fd
        OBVIOUS
      <4> QED
        BY <1>g, <4>2, <4>3, HolderFinds
    <3> QED
      BY <3>1
  <2>4. /\ UNCHANGED <<open, resource, interrupted, saved>> /\ OpenFds(q) = {}
    BY <1>8 DEF Spawn, ends, Shape
  <2>5. Cardinality(MappedTo(h))' = Cardinality(MappedTo(h)) + d
    BY <2>1, <2>4, Filled
  <2>6. ASSUME h \notin interrupted PROVE refs'[h] = refs[h] + d
    <3>1. refs[h] \in Nat /\ (d = 0 \/ refs[h] > 0)
      BY <2>2, <2>3, <2>6 DEF TypeOK
    <3>2. Ref(n)
      BY <2>1
    <3> HIDE DEF d, n
    <3> QED
      BY <2>2, <3>1, <3>2, RefOne
  <2> HIDE DEF d, A
  <2>7. Cardinality(MappedTo(h))' + Cardinality(SavedAs(h))'
          = Cardinality(MappedTo(h)) + Cardinality(SavedAs(h)) + d
    <3>1. Cardinality(SavedAs(h))' = Cardinality(SavedAs(h))
      BY <2>4, Kept
    <3>2. Cardinality(MappedTo(h)) \in Nat /\ Cardinality(SavedAs(h)) \in Nat
      BY CountTypes
    <3> QED
      BY <2>2, <2>5, <3>1, <3>2
  <2>8. h \notin interrupted'
         => /\ h \notin interrupted /\ refs'[h] = refs[h] + d
            /\ refs'[h] > 0 => h \in open' /\ resource'[h] = "open"
    <3>1. refs[h] \in Nat
      BY DEF TypeOK
    <3> QED
      BY <2>2, <2>3, <2>4, <2>6, <3>1, <1>g DEF Good
  <2>9. resource'[h] = "unused"
         => resource[h] = "unused" /\ d = 0 /\ h \notin open' \cup interrupted'
    BY <2>3, <2>4, <1>g DEF Good
  <2> QED
    BY <1>g, <2>2, <2>7, <2>8, <2>9, GoodIf
<1>9. CASE ExitBegin(p)
  BY <1>9, <1>g, Kept, GoodSame DEF ExitBegin, table
<1> QED
  BY <1>1, <1>2, <1>3, <1>4, <1>5, <1>6, <1>7, <1>8, <1>9 DEF Syscall

LEMMA StartingGood ==
  ASSUME TypeOK, TypeOK', Shape, NEW h \in Handle, \A g \in Handle : Good(g),
         NEW q \in Proc, Starting(q)
  PROVE  Good(h)'
<1> USE BoundsFacts
<1>g. Good(h)
  OBVIOUS
<1>1. CASE SpawnExternal(q)
  <2>1. PICK std \in [StdFds -> Unused] :
       /\ \A f, g \in StdFds : std[f] = std[g] => f = g
       /\ open' = open \cup {std[f] : f \in StdFds}
       /\ refs' = [g \in Handle |-> IF \E f \in StdFds : std[f] = g THEN 1 ELSE refs[g]]
       /\ resource' = [g \in Handle |-> IF \E f \in StdFds : std[f] = g THEN "open"
                                                                 ELSE resource[g]]
       /\ fds' = [x \in Proc \X Fd |->
                    IF x[1] = q /\ x[2] \in StdFds THEN std[x[2]] ELSE fds[x]]
    BY <1>1 DEF SpawnExternal
  <2> DEFINE A == {f \in StdFds : std[f] = h}
             d == IF \E f \in StdFds : std[f] = h THEN 1 ELSE 0
  <2>2. UNCHANGED <<saved, interrupted>> /\ OpenFds(q) = {}
    BY <1>1 DEF SpawnExternal, ends, Shape
  <2>3. Cardinality(MappedTo(h))' = Cardinality(MappedTo(h)) + Cardinality(A)
    BY <2>1, <2>2, Filled
  <2>4. Cardinality(A) = d
    <3>1. CASE \E f \in StdFds : std[f] = h
      <4>1. PICK f \in StdFds : std[f] = h
        BY <3>1
      <4>2. A = {f}
        BY <2>1, <4>1
      <4> QED
        BY <3>1, <4>2, FS_Singleton
    <3>2. CASE ~ \E f \in StdFds : std[f] = h
      <4>1. A = {}
        BY <3>2
      <4> QED
        BY <3>2, <4>1, FS_EmptySet
    <3> QED
      BY <3>1, <3>2
  <2>5. d = 1 => resource[h] = "unused"
    BY DEF Unused
  <2>6. /\ d = 1 => refs'[h] = 1 /\ h \in open' /\ resource'[h] = "open"
        /\ d = 0 => /\ refs'[h] = refs[h] /\ resource'[h] = resource[h]
                    /\ h \in open' <=> h \in open
    BY <2>1
  <2>7. (d = 0 \/ d = 1) /\ refs[h] \in Nat
    BY DEF TypeOK
  <2> HIDE DEF d, A
  <2>8. Cardinality(MappedTo(h))' + Cardinality(SavedAs(h))'
          = Cardinality(MappedTo(h)) + Cardinality(SavedAs(h)) + d
    <3>1. Cardinality(SavedAs(h))' = Cardinality(SavedAs(h))
      BY <2>2, Kept
    <3>2. Cardinality(MappedTo(h)) \in Nat /\ Cardinality(SavedAs(h)) \in Nat
      BY CountTypes
    <3> QED
      BY <2>3, <2>4, <2>7, <3>1, <3>2
  <2>9. resource'[h] = "unused"
         => resource[h] = "unused" /\ d = 0 /\ h \notin open' \cup interrupted'
    BY <2>2, <2>6, <2>7, <1>g DEF Good
  <2>10. h \notin interrupted'
         => /\ h \notin interrupted /\ refs'[h] = refs[h] + d
            /\ refs'[h] > 0 => h \in open' /\ resource'[h] = "open"
    BY <2>2, <2>5, <2>6, <2>7, <1>g DEF Good
  <2> QED
    BY <1>g, <2>7, <2>8, <2>9, <2>10, GoodIf
<1>2. CASE ServiceSetup(q)
  BY <1>2, <1>g, Kept, GoodSame DEF ServiceSetup, table, ends
<1>3. ASSUME NEW g \in Unused, ServiceSocket(q, g) PROVE Good(h)'
  <2> DEFINE from == [f \in StdFds |-> g]
             A == {f \in StdFds : from[f] = h}
             d == IF h = g THEN Stdio ELSE 0
  <2>1. /\ g \in Handle /\ resource[g] = "unused" /\ Enter(g, Stdio)
        /\ UNCHANGED <<saved, interrupted>> /\ OpenFds(q) = {}
    BY <1>3 DEF ServiceSocket, ends, Shape, Unused
  <2>2. fds' = [x \in Proc \X Fd |->
                  IF x[1] = q /\ x[2] \in StdFds THEN from[x[2]] ELSE fds[x]]
    BY <1>3 DEF ServiceSocket
  <2>3. Cardinality(MappedTo(h))' = Cardinality(MappedTo(h)) + Cardinality(A)
    <3> HIDE DEF from
    <3> QED
      BY <2>1, <2>2, Filled
  <2>4. Cardinality(A) = d
    <3>1. CASE h = g
      <4>1. A = 0..(Stdio - 1)
        BY <3>1 DEF StdFds
      <4>2. Cardinality(0..(Stdio - 1)) = Stdio
        BY FS_Interval
      <4> QED
        BY <3>1, <4>1, <4>2
    <3>2. CASE h # g
      <4>1. A = {}
        BY <3>2
      <4> QED
        BY <3>2, <4>1, FS_EmptySet
    <3> QED
      BY <3>1, <3>2
  <2>5. Good(g) /\ refs[h] \in Nat /\ d \in Nat
    BY <2>1 DEF TypeOK
  <2>6. /\ h = g => refs'[h] = Stdio /\ h \in open' /\ resource'[h] = "open"
        /\ h # g => /\ refs'[h] = refs[h] /\ resource'[h] = resource[h]
                    /\ h \in open' <=> h \in open
    BY <2>1, EnterOne
  <2>7. Cardinality(MappedTo(h))' + Cardinality(SavedAs(h))'
          = Cardinality(MappedTo(h)) + Cardinality(SavedAs(h)) + d
    <3> HIDE DEF d, A
    <3>1. Cardinality(SavedAs(h))' = Cardinality(SavedAs(h))
      BY <2>1, Kept
    <3>2. Cardinality(MappedTo(h)) \in Nat /\ Cardinality(SavedAs(h)) \in Nat
      BY CountTypes
    <3> QED
      BY <2>3, <2>4, <2>5, <3>1, <3>2
  <2>8. resource'[h] = "unused"
         => resource[h] = "unused" /\ d = 0 /\ h \notin open' \cup interrupted'
    BY <2>1, <2>6, <1>g DEF Good
  <2>9. h \notin interrupted'
         => /\ h \notin interrupted /\ refs'[h] = refs[h] + d
            /\ refs'[h] > 0 => h \in open' /\ resource'[h] = "open"
    BY <2>1, <2>5, <2>6, <1>g DEF Good
  <2> HIDE DEF d, A, from
  <2> QED
    BY <1>g, <2>5, <2>7, <2>8, <2>9, GoodIf
<1>4. ASSUME NEW g \in Unused, NEW f \in StdFds, ServiceStdio(q, f, g)
      PROVE  Good(h)'
  <2>1. /\ g \in Handle /\ resource[g] = "unused" /\ <<q, f>> \in Proc \X Fd
        /\ fds' = [fds EXCEPT ![<<q, f>>] = g] /\ Enter(g, 1)
        /\ UNCHANGED <<saved, interrupted>>
    BY <1>4 DEF ServiceStdio, ends, Unused
  <2>2. fds[<<q, f>>] = NoHandle
    <3>1. OpenFds(q) = 0..(f - 1) /\ f \in Fd /\ f \in Nat
      BY <1>4 DEF ServiceStdio
    <3>2. f \notin OpenFds(q)
      BY <3>1
    <3> QED
      BY <3>1, <3>2 DEF OpenFds
  <2> QED
    BY <1>g, <2>1, <2>2, AllocGood
<1>5. CASE SpawnReady(q)
  BY <1>5, <1>g, Kept, GoodSame DEF SpawnReady, table, ends
<1>6. CASE SpawnFails(q)
  BY <1>6, <1>g, Kept, GoodSame DEF SpawnFails, table, ends
<1>7. CASE CreateVirtualProcess(q)
  BY <1>7, <1>g, Kept, GoodSame DEF CreateVirtualProcess, table, ends
<1> QED
  BY <1>1, <1>2, <1>3, <1>4, <1>5, <1>6, <1>7 DEF Starting

LEMMA EndingGood ==
  ASSUME TypeOK, TypeOK', ClosingTouched, NEW h \in Handle,
         \A g \in Handle : Good(g), NEW p \in Proc, Ending(p)
  PROVE  Good(h)'
<1>g. Good(h)
  OBVIOUS
<1>1. ASSUME NEW f \in Fd, ExitClose(p, f) PROVE Good(h)'
  BY <1>1, <1>g, CloseGood DEF ExitClose, ends
<1>2. CASE ExitEnd(p)
  BY <1>2, <1>g, Kept, GoodSame DEF ExitEnd, table
<1>3. CASE ForceExit(p)
  <2> DEFINE n == [g \in Handle |-> Cardinality(Slots(p, g))]
  <2>1. n \in [Handle -> Nat] /\ n[h] = Cardinality(Slots(p, h))
    BY SlotsFacts
  <2>2. Unref(n) /\ UNCHANGED <<interrupted, saved>>
    BY <1>3 DEF ForceExit, ends
  <2>3. /\ Cardinality(MappedTo(h))' =
              Cardinality(MappedTo(h)) - Cardinality(Slots(p, h))
        /\ Cardinality(Slots(p, h)) <= Cardinality(MappedTo(h))
    BY <1>3, Cleared DEF ForceExit
  <2> HIDE DEF n
  <2> QED
    BY <1>g, <2>1, <2>2, <2>3, GoodUnref
<1>4. CASE InterruptBegin(p)
  <2>1. /\ UNCHANGED <<fds, saved, open, refs>>
        /\ interrupted' = interrupted \cup Held(p)
        /\ resource'[h] = IF h \in Held(p) \cap open THEN "closed" ELSE resource[h]
    BY <1>4 DEF InterruptBegin
  <2>2. /\ Cardinality(MappedTo(h))' = Cardinality(MappedTo(h))
        /\ Cardinality(SavedAs(h))' = Cardinality(SavedAs(h))
    BY <2>1, Kept
  <2>3. CASE h \in Held(p)
    <3>1. resource[h] # "unused"
      BY <1>g, <2>3, HeldFinds
    <3> QED
      BY <2>1, <2>3, <3>1 DEF Good
  <2>4. CASE h \notin Held(p)
    BY <1>g, <2>1, <2>2, <2>4, GoodSame
  <2> QED
    BY <2>3, <2>4
<1>5. ASSUME NEW g \in closing[p], InterruptDrop(p, g) PROVE Good(h)'
  <2>1. g \in interrupted /\ g \in Handle
    BY DEF ClosingTouched, TypeOK
  <2>2. UNCHANGED <<fds, saved, resource, interrupted>>
    BY <1>5 DEF InterruptDrop
  <2>3. CASE h = g
    BY <1>g, <2>1, <2>2, <2>3 DEF Good
  <2>4. CASE h # g
    <3>1. refs'[h] = refs[h] /\ (h \in open' <=> h \in open)
      BY <1>5, <2>4 DEF InterruptDrop, TypeOK
    <3> QED
      BY <1>g, <2>2, <3>1, Kept, GoodSame
  <2> QED
    BY <2>3, <2>4
<1>6. CASE InterruptEnd(p)
  <2>1. /\ UNCHANGED <<saved, open, refs, resource>>
        /\ interrupted' = interrupted \cup Held(p)
        /\ fds' = [x \in Proc \X Fd |-> IF x[1] = p THEN NoHandle ELSE fds[x]]
    BY <1>6 DEF InterruptEnd, table
  <2>2. CASE h \in Held(p)
    <3>1. resource[h] # "unused"
      BY <1>g, <2>2, HeldFinds
    <3> QED
      BY <2>1, <2>2, <3>1 DEF Good
  <2>3. CASE h \notin Held(p)
    <3>1. MappedTo(h)' = MappedTo(h)
      <4>1. ASSUME NEW x \in Proc \X Fd PROVE fds'[x] = h <=> fds[x] = h
        <5>1. PICK o \in Proc, f \in Fd : x = <<o, f>>
          OBVIOUS
        <5>2. o = p => fds[x] # h
          BY <2>3, <5>1, BoundsFacts DEF Held, OpenFds
        <5> QED
          BY <2>1, <5>1, <5>2, BoundsFacts
      <4> QED
        BY <4>1 DEF MappedTo
    <3> QED
      BY <1>g, <2>1, <2>3, <3>1, Kept, GoodSame
  <2> QED
    BY <2>2, <2>3
<1> QED
  BY <1>1, <1>2, <1>3, <1>4, <1>5, <1>6 DEF Ending

LEMMA CallGood ==
  ASSUME TypeOK, TypeOK', Shape, NEW h \in Handle, \A g \in Handle : Good(g),
         NEW c \in Calls, OfCall(c)
  PROVE  Good(h)'
<1> USE BoundsFacts
<1>g. Good(h) /\ refs[h] \in Nat
  BY DEF TypeOK
<1>n. /\ Cardinality(MappedTo(h)) \in Nat /\ Cardinality(SavedAs(h)) \in Nat
      /\ h # NoHandle
  BY CountTypes
<1> DEFINE x == call[c].at
<1>1. CASE Restore(c)
  <2> DEFINE cur == fds[x]
             d == IF h = cur THEN -1 ELSE 0
  <2>1. /\ x \in Proc \X Fd /\ cur # NoHandle
        /\ SetFd(x, saved[c]) /\ SetSaved(c, NoHandle)
        /\ refs' = [refs EXCEPT ![cur] = Count(cur) - 1]
        /\ UNCHANGED <<open, resource, interrupted>>
    BY <1>1 DEF Restore, ends, Shape, SetFd, SetSaved
  <2>2. Cardinality(MappedTo(h))' =
          Cardinality(MappedTo(h)) + (IF h = saved[c] THEN 1 ELSE 0)
                                   - (IF h = fds[x] THEN 1 ELSE 0)
    <3> HIDE DEF x
    <3> QED
      BY <2>1, Moved
  <2>3. Cardinality(SavedAs(h))' =
          Cardinality(SavedAs(h)) + (IF h = NoHandle THEN 1 ELSE 0)
                                  - (IF h = saved[c] THEN 1 ELSE 0)
    BY <2>1, SavedMoved
  <2>4. Cardinality(MappedTo(h))' + Cardinality(SavedAs(h))'
          = Cardinality(MappedTo(h)) + Cardinality(SavedAs(h)) + d
    <3> HIDE DEF x
    <3> QED
      BY <1>n, <2>2, <2>3
  <2>5. h = cur => /\ resource[h] # "unused"
                   /\ h \notin interrupted
                        => refs[h] >= 1 /\ h \in open /\ resource[h] = "open"
    <3> HIDE DEF x
    <3> QED
      BY <1>g, <2>1, HolderFinds
  <2>6. h # cur => refs'[h] = refs[h]
    BY <2>1 DEF TypeOK
  <2>7. h = cur /\ refs[h] >= 1 => refs'[h] = refs[h] - 1
    BY <1>g, <2>1 DEF TypeOK, Count
  <2> HIDE DEF x, cur
  <2>8. h \notin interrupted'
         => /\ h \notin interrupted /\ refs'[h] = refs[h] + d
            /\ refs'[h] > 0 => h \in open' /\ resource'[h] = "open"
    BY <1>g, <2>1, <2>5, <2>6, <2>7 DEF Good
  <2>9. resource'[h] = "unused"
         => resource[h] = "unused" /\ d = 0 /\ h \notin open' \cup interrupted'
    BY <1>g, <2>1, <2>5 DEF Good
  <2> QED
    BY <1>g, <2>4, <2>8, <2>9, GoodIf
<1>2. ASSUME NEW g \in Unused, AcceptEnd(c, g) PROVE Good(h)'
  <2> DEFINE p == x[1]
             y == <<p, nextFd[p]>>
             d == IF h = g THEN 1 ELSE 0
  <2>1. /\ x \in Proc \X Fd /\ p \in Proc /\ nextFd[p] \in Fd
        /\ saved[c] = NoHandle /\ SetSaved(c, fds[x])
        /\ g \in Handle /\ resource[g] = "unused" /\ UNCHANGED interrupted
    BY <1>2 DEF AcceptEnd, ends, Shape, Unused, SetSaved
  <2>2. Good(g) /\ Cardinality(SavedAs(h))' =
          Cardinality(SavedAs(h)) + (IF h = fds[x] THEN 1 ELSE 0)
                                  - (IF h = NoHandle THEN 1 ELSE 0)
    BY <2>1, SavedMoved
  <2>3. y \in Proc \X Fd /\ fds[y] = NoHandle
    BY <2>1 DEF Shape, TypeOK
  <2>4. CASE /\ Enter(g, 1)
             /\ fds' = [fds EXCEPT ![x] = NoHandle, ![y] = g]
    <3> HIDE DEF x, y
    <3>1. CASE x = y
      <4>1. fds[x] = NoHandle /\ fds' = [fds EXCEPT ![x] = g]
        BY <2>3, <2>4, <3>1 DEF TypeOK
      <4>2. UNCHANGED saved
        BY <2>1, <4>1 DEF SetSaved, TypeOK
      <4> QED
        BY <1>g, <2>1, <2>2, <2>4, <4>1, <4>2, AllocGood
    <3>2. CASE x # y
      <4>0. SetTwoFds(x, NoHandle, y, g)
        BY <2>4 DEF SetTwoFds
      <4>1. Cardinality(MappedTo(h))' =
             Cardinality(MappedTo(h))
               + (IF h = NoHandle THEN 1 ELSE 0) - (IF h = fds[x] THEN 1 ELSE 0)
               + (IF h = g THEN 1 ELSE 0) - (IF h = fds[y] THEN 1 ELSE 0)
        BY <2>1, <2>3, <3>2, <4>0, MovedTwice
      <4>2. Cardinality(MappedTo(h))' + Cardinality(SavedAs(h))'
              = Cardinality(MappedTo(h)) + Cardinality(SavedAs(h)) + d
        BY <1>n, <2>2, <2>3, <4>1
      <4>3. /\ h = g => refs'[h] = 1 /\ h \in open' /\ resource'[h] = "open"
            /\ h # g => /\ refs'[h] = refs[h] /\ resource'[h] = resource[h]
                        /\ h \in open' <=> h \in open
        BY <2>1, <2>4, EnterOne
      <4>4. refs[g] = 0
        BY <2>1, <2>2 DEF Good
      <4>5. resource'[h] = "unused"
             => resource[h] = "unused" /\ d = 0 /\ h \notin open' \cup interrupted'
        BY <1>g, <2>1, <4>3 DEF Good
      <4>6. h \notin interrupted'
             => /\ h \notin interrupted /\ refs'[h] = refs[h] + d
                /\ refs'[h] > 0 => h \in open' /\ resource'[h] = "open"
        BY <1>g, <2>1, <4>3, <4>4 DEF Good
      <4> QED
        BY <1>g, <4>2, <4>5, <4>6, GoodIf
    <3> QED
      BY <3>1, <3>2
  <2>5. CASE /\ resource' = [resource EXCEPT ![g] = "open"]
             /\ fds' = [fds EXCEPT ![x] = NoHandle]
             /\ UNCHANGED <<nextFd, open, refs>>
    <3> HIDE DEF x
    <3>0. SetFd(x, NoHandle)
      BY <2>5 DEF SetFd
    <3>1. Cardinality(MappedTo(h))' =
            Cardinality(MappedTo(h)) + (IF h = NoHandle THEN 1 ELSE 0)
                                     - (IF h = fds[x] THEN 1 ELSE 0)
      BY <2>1, <3>0, Moved
    <3>2. Cardinality(MappedTo(h))' + Cardinality(SavedAs(h))'
            = Cardinality(MappedTo(h)) + Cardinality(SavedAs(h)) + 0
      BY <1>n, <2>2, <3>1
    <3>3. /\ h = g => refs[h] = 0 /\ resource'[h] = "open"
          /\ h # g => resource'[h] = resource[h]
      BY <2>1, <2>2, <2>5 DEF Good, TypeOK
    <3>4. resource'[h] = "unused"
           => resource[h] = "unused" /\ 0 = 0 /\ h \notin open' \cup interrupted'
      BY <1>g, <2>1, <2>5, <3>3 DEF Good
    <3>5. h \notin interrupted'
           => /\ h \notin interrupted /\ refs'[h] = refs[h] + 0
              /\ refs'[h] > 0 => h \in open' /\ resource'[h] = "open"
      BY <1>g, <2>1, <2>5, <3>3 DEF Good
    <3> QED
      BY <1>g, <3>2, <3>4, <3>5, GoodIf
  <2> QED
    BY <1>2, <2>4, <2>5 DEF AcceptEnd
<1>3. CASE AcceptFails(c)
  BY <1>3, <1>g, Kept, GoodSame DEF AcceptFails, table, ends
<1> QED
  BY <1>1, <1>2, <1>3 DEF OfCall

-----------------------------------------------------------------------------
(* The inductive invariant and what follows from it.                       *)

IInv == TypeOK /\ Shape /\ Balance

LEMMA InitIInv == Init => IInv
<1> SUFFICES ASSUME Init PROVE IInv
  OBVIOUS
<1>1. TypeOK /\ Shape
  BY InitShape
<1>2. ASSUME NEW h \in Handle PROVE Good(h)
  <2>1. MappedTo(h) = {} /\ SavedAs(h) = {}
    BY BoundsFacts DEF Init, MappedTo, SavedAs
  <2>2. Cardinality(MappedTo(h)) = 0 /\ Cardinality(SavedAs(h)) = 0
    BY <2>1, FS_EmptySet
  <2> QED
    BY <2>2 DEF Init, Good
<1>3. ClosingTouched
  BY DEF Init, ClosingTouched
<1> QED
  BY <1>1, <1>2, <1>3, BalanceIsGood DEF IInv

(* What an interruptProcess still has to close, it has touched.            *)
LEMMA ClosingStep == TypeOK /\ ClosingTouched /\ [Next]_vars => ClosingTouched'
<1> SUFFICES ASSUME TypeOK, ClosingTouched, [Next]_vars PROVE ClosingTouched'
  OBVIOUS
<1>0. ASSUME \A q \in Proc : closing'[q] \subseteq closing[q] \cup interrupted',
             interrupted \subseteq interrupted'
      PROVE  ClosingTouched'
  BY <1>0 DEF ClosingTouched
<1>1. ASSUME NEW p \in Proc, Syscall(p) PROVE ClosingTouched'
  <2>1. UNCHANGED <<closing, interrupted>>
    BY <1>1 DEF Syscall, OpenBegin, OpenFails, OpenEnd, CreatePipe, Close,
                Redirect, AcceptBegin, Spawn, ExitBegin, ends
  <2> QED
    BY <1>0, <2>1
<1>2. ASSUME NEW p \in Proc, Starting(p) PROVE ClosingTouched'
  <2>1. UNCHANGED <<closing, interrupted>>
    BY <1>2 DEF Starting, SpawnExternal, ServiceSetup, ServiceSocket,
                ServiceStdio, SpawnReady, SpawnFails, CreateVirtualProcess, ends
  <2> QED
    BY <1>0, <2>1
<1>3. ASSUME NEW p \in Proc, Ending(p) PROVE ClosingTouched'
  <2>1. CASE (\E f \in Fd : ExitClose(p, f)) \/ ExitEnd(p) \/ ForceExit(p)
    <3>1. UNCHANGED <<closing, interrupted>>
      BY <2>1 DEF ExitClose, ExitEnd, ForceExit, ends
    <3> QED
      BY <1>0, <3>1
  <2>2. CASE InterruptBegin(p)
    <3>1. \A q \in Proc : closing'[q] \subseteq closing[q] \cup Held(p)
      BY <2>2 DEF InterruptBegin, TypeOK
    <3>2. interrupted' = interrupted \cup Held(p)
      BY <2>2 DEF InterruptBegin
    <3> QED
      BY <1>0, <3>1, <3>2
  <2>3. ASSUME NEW h \in closing[p], InterruptDrop(p, h) PROVE ClosingTouched'
    <3>1. (\A q \in Proc : closing'[q] \subseteq closing[q]) /\ UNCHANGED interrupted
      BY <2>3 DEF InterruptDrop, TypeOK
    <3> QED
      BY <1>0, <3>1
  <2>4. CASE InterruptEnd(p)
    <3>1. UNCHANGED closing /\ interrupted \subseteq interrupted'
      BY <2>4 DEF InterruptEnd
    <3> QED
      BY <1>0, <3>1
  <2> QED
    BY <1>3, <2>1, <2>2, <2>3, <2>4 DEF Ending
<1>4. ASSUME NEW c \in Calls, OfCall(c) PROVE ClosingTouched'
  <2>1. UNCHANGED <<closing, interrupted>>
    BY <1>4 DEF OfCall, Restore, AcceptEnd, AcceptFails, ends
  <2> QED
    BY <1>0, <2>1
<1>5. CASE UNCHANGED vars
  BY <1>0, <1>5 DEF vars
<1> QED
  BY <1>1, <1>2, <1>3, <1>4, <1>5 DEF Next

LEMMA IInvStep == IInv /\ [Next]_vars => IInv'
<1> SUFFICES ASSUME IInv, [Next]_vars PROVE IInv'
  OBVIOUS
<1>1. TypeOK /\ Shape /\ ClosingTouched /\ \A g \in Handle : Good(g)
  BY BalanceIsGood DEF IInv
<1>2. TypeOK' /\ Shape' /\ ClosingTouched'
  BY <1>1, TypeStep, ShapeStep, ClosingStep
<1>3. ASSUME NEW h \in Handle PROVE Good(h)'
  <2>1. ASSUME NEW p \in Proc, Syscall(p) PROVE Good(h)'
    BY <1>1, <1>2, <2>1, SyscallGood
  <2>2. ASSUME NEW p \in Proc, Starting(p) PROVE Good(h)'
    BY <1>1, <1>2, <2>2, StartingGood
  <2>3. ASSUME NEW p \in Proc, Ending(p) PROVE Good(h)'
    BY <1>1, <1>2, <2>3, EndingGood
  <2>4. ASSUME NEW c \in Calls, OfCall(c) PROVE Good(h)'
    BY <1>1, <1>2, <2>4, CallGood
  <2>5. CASE UNCHANGED vars
    BY <1>1, <1>2, <2>5, Kept, GoodSame DEF vars
  <2> QED
    BY <2>1, <2>2, <2>3, <2>4, <2>5 DEF Next
<1>4. Balance'
  BY <1>2, <1>3 DEF Balance, Accounting, CountedIsOpen, Fresh, Unused, Good
<1> QED
  BY <1>2, <1>4 DEF IInv

(* The inductive invariant: who may be touched, and that counts follow      *)
(* descriptors.                                                            *)
THEOREM Inductive == Spec => []IInv
<1> QED
  BY InitIInv, IInvStep, PTL DEF Spec

(* Descriptors, counts, resources and calls in progress keep their types,   *)
(* counts above all: none of the handlers takes one below zero.            *)
THEOREM HandleTypes == Spec => []TypeOK
<1>1. IInv => TypeOK
  BY DEF IInv
<1> QED
  BY <1>1, Inductive, PTL

(* Every count is a descriptor's or a saved handle's, in every order of     *)
(* redirects, restores, late opens, accepts, spawns and exits, as long as   *)
(* no interruptProcess has touched the handle.                              *)
THEOREM CountsBalance == Spec => []Accounting
<1>1. IInv => Accounting
  BY DEF IInv, Balance
<1> QED
  BY <1>1, Inductive, PTL

(* A descriptor finds its handle in the table and open, whatever others     *)
(* that share the handle have closed.                                       *)
THEOREM DescriptorsResolve == Spec => []FdsResolve
<1>1. IInv => FdsResolve
  <2> SUFFICES ASSUME IInv, NEW x \in Proc \X Fd, fds[x] \in Handle \ interrupted
               PROVE  fds[x] \in open /\ resource[fds[x]] = "open"
    BY DEF FdsResolve
  <2>1. TypeOK /\ Good(fds[x])
    BY BalanceIsGood DEF IInv
  <2> QED
    BY <2>1, HolderFinds
<1> QED
  BY <1>1, Inductive, PTL

(* A handle taken out of a descriptor by a redirect can be put back: its    *)
(* count keeps it in the table and open.                                    *)
THEOREM SavedHandlesResolve == Spec => []SavedResolve
<1>1. IInv => SavedResolve
  <2> SUFFICES ASSUME IInv, NEW c \in Calls, saved[c] \in Handle \ interrupted
               PROVE  saved[c] \in open /\ resource[saved[c]] = "open"
    BY DEF SavedResolve
  <2>1. TypeOK /\ Good(saved[c])
    BY BalanceIsGood DEF IInv
  <2> QED
    BY <2>1, HolderFinds
<1> QED
  BY <1>1, Inductive, PTL

(* Whoever holds a handle, in a descriptor or for a restore, finds it.      *)
THEOREM HeldHandlesResolve == Spec => []HandlesResolve
BY DescriptorsResolve, SavedHandlesResolve, PTL DEF HandlesResolve

-----------------------------------------------------------------------------
(* Descriptors: never reused, never too many.                              *)

(* A descriptor that a step opens is beyond those given out, or stdio.     *)
LEMMA FdsStep ==
  ASSUME IInv, [Next]_vars, NEW o \in Proc, NEW g \in Fd,
         fds'[<<o, g>>] # NoHandle, fds[<<o, g>>] = NoHandle
  PROVE  g >= nextFd[o] \/ g < Stdio
<1> USE BoundsFacts
<1>0. TypeOK /\ Shape /\ <<o, g>> \in Proc \X Fd /\ nextFd[o] \in Nat /\ g \in Nat
  BY DEF IInv, TypeOK
<1>1. ASSUME NEW p \in Proc, Syscall(p) PROVE g >= nextFd[o] \/ g < Stdio
  <2>1. ASSUME UNCHANGED fds PROVE FALSE
    BY <2>1
  <2>2. ASSUME NEW h \in Unused, OpenEnd(p, h) PROVE g >= nextFd[o]
    <3>1. fds' = [fds EXCEPT ![<<p, nextFd[p]>>] = h]
      BY <2>1, <2>2 DEF OpenEnd, Alloc
    <3>2. <<o, g>> = <<p, nextFd[p]>>
      BY <1>0, <3>1 DEF TypeOK
    <3> QED
      BY <1>0, <3>2
  <2>3. ASSUME NEW r \in Unused, NEW s \in Unused, CreatePipe(p, r, s)
        PROVE  g >= nextFd[o]
    <3>1. fds' = [fds EXCEPT ![<<p, nextFd[p]>>] = r, ![<<p, nextFd[p] + 1>>] = s]
      BY <2>3 DEF CreatePipe
    <3>2. <<o, g>> = <<p, nextFd[p]>> \/ <<o, g>> = <<p, nextFd[p] + 1>>
      BY <1>0, <3>1 DEF TypeOK
    <3> QED
      BY <1>0, <3>2
  <2>4. ASSUME NEW f \in Fd, Close(p, f) PROVE FALSE
    BY <1>0, <2>4 DEF Close, CloseHandle, TypeOK
  <2>5. ASSUME NEW t \in Fd, NEW s \in Fd, NEW c \in Calls, Redirect(p, t, s, c)
        PROVE  FALSE
    BY <1>0, <2>5 DEF Redirect, TypeOK
  <2>6. ASSUME NEW q \in Proc, Spawn(p, q) PROVE g < Stdio
    <3>1. PICK from :
            fds' = [x \in Proc \X Fd |->
                      IF x[1] = q /\ x[2] \in StdFds THEN from[x[2]] ELSE fds[x]]
      BY <2>6 DEF Spawn
    <3> QED
      BY <1>0, <3>1
  <2>7. OpenBegin(p) \/ OpenFails(p) \/ ExitBegin(p) => UNCHANGED fds
    BY DEF OpenBegin, OpenFails, ExitBegin
  <2>8. (\E f \in Fd, c \in Calls : AcceptBegin(p, f, c)) => UNCHANGED fds
    BY DEF AcceptBegin
  <2> QED
    BY <1>1, <2>1, <2>2, <2>3, <2>4, <2>5, <2>6, <2>7, <2>8 DEF Syscall
<1>2. ASSUME NEW q \in Proc, Starting(q) PROVE g < Stdio
  <2>1. CASE SpawnExternal(q)
    <3>1. PICK std :
            fds' = [x \in Proc \X Fd |->
                      IF x[1] = q /\ x[2] \in StdFds THEN std[x[2]] ELSE fds[x]]
      BY <2>1 DEF SpawnExternal
    <3> QED
      BY <1>0, <3>1
  <2>2. ASSUME NEW h \in Unused, ServiceSocket(q, h) PROVE g < Stdio
    BY <1>0, <2>2 DEF ServiceSocket
  <2>3. ASSUME NEW h \in Unused, NEW f \in StdFds, ServiceStdio(q, f, h)
        PROVE  g < Stdio
    BY <1>0, <2>3 DEF ServiceStdio, TypeOK
  <2>4. ServiceSetup(q) \/ SpawnReady(q) \/ SpawnFails(q) \/ CreateVirtualProcess(q)
          => UNCHANGED fds
    BY DEF ServiceSetup, SpawnReady, SpawnFails, CreateVirtualProcess
  <2> QED
    BY <1>2, <2>1, <2>2, <2>3, <2>4 DEF Starting
<1>3. ASSUME NEW p \in Proc, Ending(p) PROVE FALSE
  <2>1. ASSUME NEW f \in Fd, ExitClose(p, f) PROVE FALSE
    BY <1>0, <2>1 DEF ExitClose, CloseHandle, TypeOK
  <2>2. ForceExit(p) \/ InterruptEnd(p)
          => fds' = [x \in Proc \X Fd |-> IF x[1] = p THEN NoHandle ELSE fds[x]]
    BY DEF ForceExit, InterruptEnd
  <2>3. ExitEnd(p) \/ InterruptBegin(p) => UNCHANGED fds
    BY DEF ExitEnd, InterruptBegin
  <2>4. ASSUME NEW h \in closing[p], InterruptDrop(p, h) PROVE FALSE
    BY <2>4 DEF InterruptDrop
  <2> QED
    BY <1>0, <1>3, <2>1, <2>2, <2>3, <2>4 DEF Ending
<1>4. ASSUME NEW c \in Calls, OfCall(c) PROVE g >= nextFd[o]
  <2>1. CASE Restore(c)
    BY <1>0, <2>1 DEF Restore, TypeOK
  <2>2. ASSUME NEW h \in Unused, AcceptEnd(c, h) PROVE g >= nextFd[o]
    <3> DEFINE x == call[c].at
               y == <<x[1], nextFd[x[1]]>>
    <3>1. \/ fds' = [fds EXCEPT ![x] = NoHandle, ![y] = h]
          \/ fds' = [fds EXCEPT ![x] = NoHandle]
      BY <2>2 DEF AcceptEnd
    <3>2. <<o, g>> = y
      <4> HIDE DEF x, y
      <4> QED
        BY <1>0, <3>1 DEF TypeOK
    <3> QED
      BY <1>0, <3>2
  <2>3. AcceptFails(c) => UNCHANGED fds
    BY DEF AcceptFails
  <2> QED
    BY <1>4, <2>1, <2>2, <2>3 DEF OfCall
<1>5. CASE UNCHANGED vars
  BY <1>5 DEF vars
<1> QED
  BY <1>1, <1>2, <1>3, <1>4, <1>5 DEF Next

(* A descriptor number that was given out and closed stays closed.         *)
THEOREM DescriptorsAreNotReused == Spec => FdNeverReused
<1>1. IInv /\ [Next]_vars =>
        [\A p \in Proc : \A f \in Fd :
           f \in Stdio..(nextFd[p] - 1) /\ fds[<<p, f>>] = NoHandle
             => fds'[<<p, f>>] = NoHandle]_vars
  <2> SUFFICES ASSUME IInv, [Next]_vars, NEW p \in Proc, NEW f \in Fd,
                      f \in Stdio..(nextFd[p] - 1), fds[<<p, f>>] = NoHandle
               PROVE  fds'[<<p, f>>] = NoHandle
    OBVIOUS
  <2>1. nextFd[p] \in Nat /\ Stdio \in Nat /\ f \in Nat
    BY BoundsFacts DEF IInv, TypeOK
  <2>2. ~ (f >= nextFd[p] \/ f < Stdio)
    BY <2>1
  <2> QED
    BY <2>2, FdsStep
<1> QED
  BY <1>1, Inductive, PTL DEF Spec, FdNeverReused

LEMMA FewerFds ==
  ASSUME NEW S, S \subseteq Fd, NEW T, T \subseteq S
  PROVE  /\ IsFiniteSet(S) /\ Cardinality(S) \in Nat /\ Cardinality(T) \in Nat
         /\ Cardinality(T) <= Cardinality(S)
<1>1. IsFiniteSet(S)
  BY PlacesFinite, FS_Subset
<1> QED
  BY <1>1, FS_Subset, FS_CardinalityType

LEMMA OneMoreFd ==
  ASSUME NEW S, S \subseteq Fd, NEW f, NEW T, T \subseteq S \cup {f}
  PROVE  Cardinality(T) \in Nat /\ Cardinality(T) <= Cardinality(S) + 1
<1>1. IsFiniteSet(S) /\ Cardinality(S) \in Nat
  BY FewerFds
<1>2. /\ IsFiniteSet(S \cup {f})
      /\ Cardinality(S \cup {f}) <= Cardinality(S) + 1
  <2>1. CASE f \in S
    <3>1. S \cup {f} = S
      BY <2>1
    <3> QED
      BY <1>1, <3>1
  <2>2. CASE f \notin S
    <3>1. IsFiniteSet(S \cup {f}) /\ Cardinality(S \cup {f}) = Cardinality(S) + 1
      BY <1>1, <2>2, FS_AddElement
    <3> QED
      BY <1>1, <3>1
  <2> QED
    BY <2>1, <2>2
<1>3. /\ Cardinality(T) \in Nat /\ Cardinality(S \cup {f}) \in Nat
      /\ Cardinality(T) <= Cardinality(S \cup {f})
  BY <1>2, FS_Subset, FS_CardinalityType
<1> QED
  BY <1>1, <1>2, <1>3

LEMMA FdLimitStep == IInv /\ FdLimit /\ [Next]_vars => FdLimit'
<1> SUFFICES ASSUME IInv, FdLimit, [Next]_vars, NEW o \in Proc
             PROVE  Cardinality(OpenFds(o)') <= MaxHandles
  BY DEF FdLimit
<1> USE BoundsFacts
<1>0. /\ TypeOK /\ Shape /\ OpenFds(o) \subseteq Fd /\ MaxHandles \in Nat
      /\ Cardinality(OpenFds(o)) \in Nat /\ Cardinality(OpenFds(o)) <= MaxHandles
  BY HandleAssumption, FewerFds DEF IInv, OpenFds, FdLimit
<1>a. ASSUME OpenFds(o)' \subseteq OpenFds(o)
      PROVE  Cardinality(OpenFds(o)') <= MaxHandles
  <2> DEFINE T == OpenFds(o)'
  <2>1. T \subseteq OpenFds(o)
    BY <1>a
  <2> HIDE DEF T
  <2>2. Cardinality(T) \in Nat /\ Cardinality(T) <= Cardinality(OpenFds(o))
    BY <1>0, <2>1, FewerFds
  <2>3. Cardinality(T) <= MaxHandles
    BY <1>0, <2>2
  <2> QED
    BY <2>3 DEF T
<1>b. ASSUME NEW S, S \subseteq Fd, NEW f, OpenFds(o)' \subseteq S \cup {f},
             Cardinality(S) < MaxHandles
      PROVE  Cardinality(OpenFds(o)') <= MaxHandles
  <2> DEFINE T == OpenFds(o)'
  <2>1. T \subseteq S \cup {f}
    BY <1>b
  <2> HIDE DEF T
  <2>2. Cardinality(T) \in Nat /\ Cardinality(T) <= Cardinality(S) + 1
    BY <1>b, <2>1, OneMoreFd
  <2>3. Cardinality(S) \in Nat
    BY <1>b, FewerFds
  <2>4. Cardinality(T) <= MaxHandles
    BY <1>0, <1>b, <2>2, <2>3
  <2> QED
    BY <2>4 DEF T
<1>c. ASSUME OpenFds(o)' \subseteq StdFds
      PROVE  Cardinality(OpenFds(o)') <= MaxHandles
  <2> DEFINE T == OpenFds(o)'
  <2>1. T \subseteq StdFds
    BY <1>c
  <2> HIDE DEF T
  <2>2. Cardinality(StdFds) = Stdio /\ Stdio <= MaxHandles
    BY FS_Interval, HandleAssumption DEF StdFds
  <2>3. Cardinality(T) \in Nat /\ Cardinality(T) <= Cardinality(StdFds)
    BY <2>1, FewerFds
  <2>4. Cardinality(T) <= MaxHandles
    BY <1>0, <2>2, <2>3
  <2> QED
    BY <2>4 DEF T
<1>1. ASSUME NEW p \in Proc, Syscall(p) PROVE Cardinality(OpenFds(o)') <= MaxHandles
  <2>1. UNCHANGED fds => OpenFds(o)' \subseteq OpenFds(o)
    BY DEF OpenFds
  <2>2. ASSUME NEW h \in Unused, OpenEnd(p, h)
        PROVE  Cardinality(OpenFds(o)') <= MaxHandles
    <3>1. CASE Alloc(p, h)
      <4>1. /\ Cardinality(OpenFds(p)) + 1 <= MaxHandles
            /\ fds' = [fds EXCEPT ![<<p, nextFd[p]>>] = h]
        BY <3>1 DEF Alloc, MayAlloc
      <4>2. CASE o = p
        <5>1. OpenFds(o)' \subseteq OpenFds(o) \cup {nextFd[p]}
          BY <1>0, <4>1, <4>2 DEF OpenFds, TypeOK
        <5>2. Cardinality(OpenFds(o)) < MaxHandles
          BY <1>0, <4>1, <4>2
        <5> QED
          BY <1>0, <5>1, <5>2, <1>b
      <4>3. CASE o # p
        <5>1. OpenFds(o)' \subseteq OpenFds(o)
          BY <1>0, <4>1, <4>3 DEF OpenFds, TypeOK
        <5> QED
          BY <5>1, <1>a
      <4> QED
        BY <4>2, <4>3
    <3>2. CASE UNCHANGED fds
      BY <2>1, <3>2, <1>a
    <3> QED
      BY <2>2, <3>1, <3>2 DEF OpenEnd
  <2>3. ASSUME NEW r \in Unused, NEW s \in Unused, CreatePipe(p, r, s)
        PROVE  Cardinality(OpenFds(o)') <= MaxHandles
    <3> DEFINE a == nextFd[p]
               b == nextFd[p] + 1
    <3>1. /\ Cardinality(OpenFds(p)) + 2 <= MaxHandles
          /\ fds' = [fds EXCEPT ![<<p, a>>] = r, ![<<p, b>>] = s]
      BY <2>3 DEF CreatePipe, MayAlloc
    <3>2. a \in Fd
      BY <2>3, <1>0, HandleAssumption DEF CreatePipe, TypeOK, Fd
    <3> HIDE DEF a, b
    <3>3. CASE o = p
      <4>1. OpenFds(o)' \subseteq (OpenFds(o) \cup {a}) \cup {b}
        BY <1>0, <3>1, <3>3 DEF OpenFds, TypeOK
      <4>2. OpenFds(o) \cup {a} \subseteq Fd
        BY <1>0, <3>2
      <4>3. /\ Cardinality(OpenFds(o) \cup {a}) \in Nat
            /\ Cardinality(OpenFds(o) \cup {a}) <= Cardinality(OpenFds(o)) + 1
        BY <1>0, OneMoreFd
      <4>4. Cardinality(OpenFds(o) \cup {a}) < MaxHandles
        BY <1>0, <3>1, <3>3, <4>3
      <4> QED
        BY <4>1, <4>2, <4>4, <1>b
    <3>4. CASE o # p
      <4>1. OpenFds(o)' \subseteq OpenFds(o)
        BY <1>0, <3>1, <3>4 DEF OpenFds, TypeOK
      <4> QED
        BY <4>1, <1>a
    <3> QED
      BY <3>3, <3>4
  <2>4. ASSUME NEW f \in Fd, Close(p, f) PROVE OpenFds(o)' \subseteq OpenFds(o)
    BY <1>0, <2>4 DEF Close, CloseHandle, TypeOK, OpenFds
  <2>5. ASSUME NEW t \in Fd, NEW s \in Fd, NEW c \in Calls, Redirect(p, t, s, c)
        PROVE  OpenFds(o)' \subseteq OpenFds(o)
    BY <1>0, <2>5 DEF Redirect, TypeOK, OpenFds
  <2>6. ASSUME NEW q \in Proc, Spawn(p, q) PROVE Cardinality(OpenFds(o)') <= MaxHandles
    <3>1. PICK from :
            fds' = [x \in Proc \X Fd |->
                      IF x[1] = q /\ x[2] \in StdFds THEN from[x[2]] ELSE fds[x]]
      BY <2>6 DEF Spawn
    <3>2. OpenFds(q) = {}
      BY <1>0, <2>6 DEF Spawn, Shape
    <3> QED
      BY <3>1, <3>2, <1>a, <1>c DEF OpenFds
  <2>7. OpenBegin(p) \/ OpenFails(p) \/ ExitBegin(p) => UNCHANGED fds
    BY DEF OpenBegin, OpenFails, ExitBegin
  <2>8. (\E f \in Fd, c \in Calls : AcceptBegin(p, f, c)) => UNCHANGED fds
    BY DEF AcceptBegin
  <2> QED
    BY <1>1, <1>a, <2>1, <2>2, <2>3, <2>4, <2>5, <2>6, <2>7, <2>8 DEF Syscall
<1>2. ASSUME NEW q \in Proc, Starting(q) PROVE Cardinality(OpenFds(o)') <= MaxHandles
  <2>1. CASE SpawnExternal(q)
    <3>1. PICK std :
            fds' = [x \in Proc \X Fd |->
                      IF x[1] = q /\ x[2] \in StdFds THEN std[x[2]] ELSE fds[x]]
      BY <2>1 DEF SpawnExternal
    <3>2. OpenFds(q) = {}
      BY <1>0, <2>1 DEF SpawnExternal, Shape
    <3> QED
      BY <3>1, <3>2, <1>a, <1>c DEF OpenFds
  <2>2. ASSUME NEW h \in Unused, ServiceSocket(q, h)
        PROVE  Cardinality(OpenFds(o)') <= MaxHandles
    <3>1. OpenFds(q) = {}
      BY <1>0, <2>2 DEF ServiceSocket, Shape
    <3> QED
      BY <2>2, <3>1, <1>a, <1>c DEF OpenFds, ServiceSocket
  <2>3. ASSUME NEW h \in Unused, NEW f \in StdFds, ServiceStdio(q, f, h)
        PROVE  Cardinality(OpenFds(o)') <= MaxHandles
    <3>1. OpenFds(q) = 0..(f - 1) /\ fds' = [fds EXCEPT ![<<q, f>>] = h]
      BY <2>3 DEF ServiceStdio
    <3>2. 0..(f - 1) \subseteq StdFds
      BY DEF StdFds
    <3>3. CASE o = q
      <4>1. OpenFds(o)' \subseteq OpenFds(o) \cup {f}
        BY <1>0, <3>1, <3>3 DEF OpenFds, TypeOK
      <4> QED
        BY <3>1, <3>2, <3>3, <4>1, <1>c
    <3>4. CASE o # q
      <4>1. OpenFds(o)' \subseteq OpenFds(o)
        BY <1>0, <3>1, <3>4 DEF OpenFds, TypeOK
      <4> QED
        BY <4>1, <1>a
    <3> QED
      BY <3>3, <3>4
  <2>4. ASSUME ServiceSetup(q) \/ SpawnReady(q) \/ SpawnFails(q) \/ CreateVirtualProcess(q)
        PROVE  OpenFds(o)' \subseteq OpenFds(o)
    BY <2>4 DEF ServiceSetup, SpawnReady, SpawnFails, CreateVirtualProcess, OpenFds
  <2> QED
    BY <1>2, <1>a, <2>1, <2>2, <2>3, <2>4 DEF Starting
<1>3. ASSUME NEW p \in Proc, Ending(p) PROVE OpenFds(o)' \subseteq OpenFds(o)
  <2>1. ASSUME NEW f \in Fd, ExitClose(p, f) PROVE OpenFds(o)' \subseteq OpenFds(o)
    BY <1>0, <2>1 DEF ExitClose, CloseHandle, TypeOK, OpenFds
  <2>2. ForceExit(p) \/ InterruptEnd(p) => OpenFds(o)' \subseteq OpenFds(o)
    BY DEF ForceExit, InterruptEnd, OpenFds
  <2>3. ExitEnd(p) \/ InterruptBegin(p) => OpenFds(o)' \subseteq OpenFds(o)
    BY DEF ExitEnd, InterruptBegin, OpenFds
  <2>4. ASSUME NEW h \in closing[p], InterruptDrop(p, h)
        PROVE  OpenFds(o)' \subseteq OpenFds(o)
    BY <2>4 DEF InterruptDrop, OpenFds
  <2> QED
    BY <1>3, <2>1, <2>2, <2>3, <2>4 DEF Ending
<1>4. ASSUME NEW c \in Calls, OfCall(c) PROVE Cardinality(OpenFds(o)') <= MaxHandles
  <2> DEFINE x == call[c].at
             p == x[1]
  <2>1. CASE Restore(c)
    <3>1. fds[x] # NoHandle /\ fds' = [fds EXCEPT ![x] = saved[c]]
      BY <2>1 DEF Restore
    <3> HIDE DEF x
    <3>2. OpenFds(o)' \subseteq OpenFds(o)
      BY <1>0, <3>1 DEF OpenFds, TypeOK
    <3> QED
      BY <3>2, <1>a
  <2>2. ASSUME NEW h \in Unused, AcceptEnd(c, h)
        PROVE  Cardinality(OpenFds(o)') <= MaxHandles
    <3>1. x \in Proc \X Fd
      BY <1>0, <2>2 DEF AcceptEnd, Shape
    <3>2. PICK f \in Fd : x = <<p, f>>
      BY <3>1, PlaceIsPair
    <3>3. CASE /\ Cardinality(OpenFds(p) \ {f}) < MaxHandles
               /\ fds' = [fds EXCEPT ![x] = NoHandle, ![<<p, nextFd[p]>>] = h]
      <4> HIDE DEF x, p
      <4>1. CASE o = p
        <5>1. OpenFds(o)' \subseteq (OpenFds(o) \ {f}) \cup {nextFd[p]}
          BY <1>0, <3>2, <3>3, <4>1 DEF OpenFds, TypeOK
        <5> QED
          BY <1>0, <3>3, <4>1, <5>1, <1>b
      <4>2. CASE o # p
        <5>1. OpenFds(o)' \subseteq OpenFds(o)
          BY <1>0, <3>2, <3>3, <4>2 DEF OpenFds, TypeOK
        <5> QED
          BY <5>1, <1>a
      <4> QED
        BY <4>1, <4>2
    <3>4. CASE fds' = [fds EXCEPT ![x] = NoHandle]
      <4> HIDE DEF x, p
      <4>1. OpenFds(o)' \subseteq OpenFds(o)
        BY <1>0, <3>4 DEF OpenFds, TypeOK
      <4> QED
        BY <4>1, <1>a
    <3>5. x[2] = f
      BY <3>2
    <3> QED
      BY <2>2, <3>3, <3>4, <3>5 DEF AcceptEnd
  <2>3. ASSUME AcceptFails(c) PROVE OpenFds(o)' \subseteq OpenFds(o)
    BY <2>3 DEF AcceptFails, OpenFds
  <2> QED
    BY <1>4, <1>a, <2>1, <2>2, <2>3 DEF OfCall
<1>5. CASE UNCHANGED vars
  <2>1. OpenFds(o)' \subseteq OpenFds(o)
    BY <1>5 DEF vars, OpenFds
  <2> QED
    BY <2>1, <1>a
<1> QED
  BY <1>a, <1>1, <1>2, <1>3, <1>4, <1>5 DEF Next

(* No process has more than MAX_HANDLES descriptors, whatever opens, pipes, *)
(* accepts and inherited stdio come together.                              *)
THEOREM DescriptorsAreBounded == Spec => []FdLimit
<1>1. Init => FdLimit
  <2> SUFFICES ASSUME Init, NEW p \in Proc PROVE Cardinality(OpenFds(p)) <= MaxHandles
    BY DEF FdLimit
  <2>1. OpenFds(p) = {}
    BY DEF Init, OpenFds
  <2> QED
    BY <2>1, FS_EmptySet, HandleAssumption
<1> QED
  BY <1>1, FdLimitStep, Inductive, PTL DEF Spec

=============
