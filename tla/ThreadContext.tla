--------------------------- MODULE ThreadContext ---------------------------
(***************************************************************************)
(* One thread's context: the store in the thread-local cell, the guards    *)
(* that will change it when they are dropped, and the snapshots and forked *)
(* stores the program keeps aside (dcontext/src/lib.rs, attach.rs).        *)
(*                                                                         *)
(* A guard is a ScopeGuard, an AttachGuard, or the pair of both that       *)
(* attach_snapshot_with_scope returns.  Dropping a tuple drops its fields  *)
(* in order, so a pair kept as one value restores the previous store and   *)
(* then pops a scope of it; a pair taken apart by "let (attach, scope)" is *)
(* two guards, the scope the newer one.                                    *)
(*                                                                         *)
(* Guards are dropped in any order; "nested" tells whether it was always   *)
(* the newest one.  Re-entrant use of the cell from user code is in        *)
(* CellAccess.                                                             *)
(***************************************************************************)
EXTENDS Snapshots

CONSTANTS
  CachedKeys,  \* the keys registered with .cached()
  LocalKeys,   \* the keys registered with .local_only()
  ValidVals,   \* per key, the values of its registered type
  Boxes,       \* where the program keeps a snapshot or a store
  Empty,       \* the box holds neither
  Inbound,     \* the snapshots that bytes from elsewhere decode to (inputs)
  Pushed,      \* the names that are pushed at each depth (inputs)
  MaxGuards,   \* how many guards may be outstanding (bounds the model) ..
  MaxStray,    \* .. once one was dropped that was not the newest ..
  MaxValued,   \* .. and while some value is set
  MaxDepth     \* how deep a store may be pushed (bounds the model: guards
               \* dropped on other stores leave scopes that nothing pops)

ASSUME ThreadContextAssumption ==
  /\ CachedKeys \subseteq Keys
  /\ LocalKeys \subseteq Keys
  /\ ValidVals \in [Keys -> SUBSET Vals]
  /\ Inbound \subseteq Snapshot
  /\ MaxGuards \in Nat
  /\ MaxStray \in Nat
  /\ MaxValued \in Nat
  /\ Pushed \in [1 .. MaxDepth -> SUBSET Names]
  /\ MaxDepth \in Nat

VARIABLES
  cell,    \* the store in the cell; "home" marks the thread's first one
  guards,  \* the outstanding guards, oldest first
  box,     \* the snapshots and stores kept aside
  nested   \* history: every guard dropped so far was the newest one

vars == <<cell, guards, box, nested>>

Cell == [home : BOOLEAN, store : Store]

Kept == [kind : {"store"}, store : Store]

Guard == [kind : {"scope"}, expected : Nat]
           \cup [kind : {"attach"}, prev : Cell]
           \cup [kind : {"pair"}, prev : Cell, expected : Nat]

-----------------------------------------------------------------------------

Init ==
  /\ cell = [home |-> TRUE, store |-> NewStore]
  /\ guards = <<>>
  /\ box = [b \in Boxes |-> Empty]
  /\ nested = TRUE

Outstanding == {guards[i] : i \in DOMAIN guards}

Boxed(kind) == {box[b] : b \in {c \in Boxes : box[c] # Empty /\ box[c].kind = kind}}

\* Every store there is.
Stores ==
  {cell.store}
    \cup {g.prev.store : g \in {h \in Outstanding : h.kind # "scope"}}
    \cup {kept.store : kept \in Boxed("store")}

\* Some value is set somewhere.
Valued ==
  \/ \E s \in Stores : CollectValues(s) # EmptyValues
  \/ \E snap \in Boxed("snapshot") : snap.values # EmptyValues

\* The bounds: guards are few while there are values, and values are not set
\* where guards are many or strayed.
FewGuards == nested /\ Len(guards) <= MaxValued

Room(new) ==
  Len(guards) + new <= IF Valued THEN MaxValued
                       ELSE IF nested THEN MaxGuards ELSE MaxStray

OnStore(store) == cell' = [cell EXCEPT !.store = store]

\* attach_store: the cell's store moves into the guard.
Attached(store) == [home |-> FALSE, store |-> store]

SetVariable(k, v) ==
  /\ FewGuards
  /\ OnStore(SetValue(cell.store, k, v))
  /\ UNCHANGED <<guards, box>>

Clear ==
  /\ OnStore(NewStore)
  /\ UNCHANGED <<guards, box>>

\* Bug: the guard remembers the depth before the push.
PushRemembersOuter(name) ==
  /\ Room(1) /\ cell.store.cur.depth < MaxDepth
  /\ name \in Pushed[cell.store.cur.depth]
  /\ OnStore(PushScope(cell.store, name, CachedKeys))
  /\ guards' = Append(guards, [kind     |-> "scope",
                               expected |-> cell.store.cur.depth])
  /\ UNCHANGED box

Push(name) ==
  /\ Room(1) /\ cell.store.cur.depth < MaxDepth
  /\ name \in Pushed[cell.store.cur.depth]
  /\ OnStore(PushScope(cell.store, name, CachedKeys))
  /\ guards' = Append(guards, [kind     |-> "scope",
                               expected |-> cell'.store.cur.depth])
  /\ UNCHANGED box

\* capture() and fork(), their result kept in a box.
Capture(b) ==
  /\ box' = [box EXCEPT ![b] = CaptureOf(cell.store, LocalKeys)]
  /\ UNCHANGED <<cell, guards>>

Fork(b) ==
  /\ box' = [box EXCEPT ![b] = [kind  |-> "store",
                                store |-> ForkChild(cell.store)]]
  /\ UNCHANGED <<cell, guards>>

AttachAsRoot(store) ==
  /\ Room(1)
  /\ cell' = Attached(store)
  /\ guards' = Append(guards, [kind |-> "attach", prev |-> cell])

\* attach_snapshot: snapshots are Clone, the box may keep its own.
AttachSnapshot(b) ==
  /\ box[b] # Empty /\ box[b].kind = "snapshot"
  /\ AttachAsRoot(StoreFromSnapshot(box[b], LocalKeys, ValidVals))
  /\ UNCHANGED box

\* attach_from_bytes; bytes that do not decode change nothing.
AttachFromBytes(snap) ==
  /\ AttachAsRoot(StoreFromSnapshot(snap, LocalKeys, ValidVals))
  /\ UNCHANGED box

\* attach_store: a store is moved out of its box.
AttachStore(b) ==
  /\ box[b] # Empty /\ box[b].kind = "store"
  /\ AttachAsRoot(box[b].store)
  /\ box' = [box EXCEPT ![b] = Empty]

\* attach_snapshot_with_scope, its result taken apart or kept as a pair.
AttachSnapshotWithScope(b, name, apart) ==
  LET pushed == PushScope(StoreFromSnapshot(box[b], LocalKeys, ValidVals), name, CachedKeys)
      scope  == [kind |-> "scope", expected |-> pushed.cur.depth]
      attach == [kind |-> "attach", prev |-> cell]
  IN  /\ Room(IF apart THEN 2 ELSE 1) /\ name \in Pushed[1]
      /\ box[b] # Empty /\ box[b].kind = "snapshot"
      /\ cell' = Attached(pushed)
      /\ guards' = guards \o
           IF apart THEN <<attach, scope>>
           ELSE << [kind |-> "pair", prev |-> cell, expected |-> scope.expected] >>
      /\ UNCHANGED box

\* merge_with: the source is consumed.
MergeWith(b) ==
  /\ box[b] # Empty /\ box[b].kind = "store"
  /\ OnStore(MergeValues(cell.store, CollectValues(box[b].store)))
  /\ box' = [box EXCEPT ![b] = Empty]
  /\ UNCHANGED guards

Popped(c, expected) == [c EXCEPT !.store = PopScope(@, expected)]

\* Bug: what is attached at the time of the drop stays.
DroppedKeepsAttached(c, guard) ==
  IF guard.kind = "scope" THEN Popped(c, guard.expected)
  ELSE IF guard.kind = "attach" THEN [guard.prev EXCEPT !.home = FALSE]
  ELSE Popped(guard.prev, guard.expected)

\* The cell once a guard is dropped: leave_scope, or the previous store back.
Dropped(c, guard) ==
  CASE guard.kind = "scope"  -> Popped(c, guard.expected)
    [] guard.kind = "attach" -> guard.prev
    [] guard.kind = "pair"   -> Popped(guard.prev, guard.expected)

Drop(i) ==
  /\ cell' = Dropped(cell, guards[i])
  /\ guards' = RemoveAt(guards, i)
  /\ nested' = (nested /\ i = Len(guards))
  /\ UNCHANGED box

Operate ==
  \/ \E k \in Keys, v \in Vals : SetVariable(k, v)
  \/ Clear
  \/ \E name \in Names : Push(name)
  \/ \E b \in Boxes : Capture(b)
  \/ \E b \in Boxes : Fork(b)
  \/ \E b \in Boxes : AttachSnapshot(b)
  \/ \E snap \in Inbound : FewGuards /\ AttachFromBytes(snap)
  \/ \E b \in Boxes : AttachStore(b)
  \/ \E b \in Boxes, name \in Names, apart \in BOOLEAN :
       AttachSnapshotWithScope(b, name, apart)
  \/ \E b \in Boxes : MergeWith(b)

Next ==
  \/ Operate /\ UNCHANGED nested
  \/ \E i \in 1 .. Len(guards) : Drop(i)

Spec == Init /\ [][Next]_vars

-----------------------------------------------------------------------------
(* Safety *)

\* The type invariant.
TypeOK ==
  /\ cell \in Cell
  /\ guards \in Seq(Guard)
  /\ box \in [Boxes -> Snapshot \cup Kept \cup {Empty}]
  /\ nested \in BOOLEAN

\* A scope guard may be dropped on a store it was not made for: it may then
\* pop foreign scopes, but it leaves no store with a chain and a depth counter
\* that disagree (pop_scope's "recovers from out-of-order guard drops").
StoresWellLinked == \A s \in Stores : WellLinked(s)

\* Dropping every outstanding guard, newest first.
DropAll == FoldRight(LAMBDA g, c : Dropped(c, g), guards, cell)

\* In nested blocks the thread always finds back to its own first store, at
\* its root, whatever was attached, pushed, cleared and merged in between.
NestedGuardsReturnHome ==
  nested => DropAll.home /\ DropAll.store.cur.depth = 1

\* In nested blocks a ScopeGuard is dropped on a store that is no deeper than
\* the scope it was made for: it never pops a scope of another guard.
NestedDropPopsOneScope ==
  nested /\ guards # <<>> /\ Last(guards).kind = "scope"
    => Last(guards).expected >= cell.store.cur.depth

\* A thread, or a task, that continues from a fork sees exactly the values and
\* the scope chain it would have seen here, local-only values included: true
\* of a store that was not itself forked.
FirstForkIsTransparent ==
  cell.store.frozen = <<>> =>
    /\ \A k \in Keys :
         GetValue(ForkChild(cell.store), k) = GetValue(cell.store, k)
    /\ ScopeChain(ForkChild(cell.store)) = ScopeChain(cell.store)

\* A capture attached elsewhere shows the same values, but for the local-only
\* and the ill-typed ones, and the same scope chain, now and after the next
\* named scope, with the length limit applied twice on the way.
HopIsTransparent ==
  LET here  == cell.store
      there == StoreFromSnapshot(CaptureOf(here, LocalKeys), LocalKeys, ValidVals)
  IN  /\ \A k \in Keys :
           GetValue(there, k) =
             IF k \notin LocalKeys /\ GetValue(here, k) \in ValidVals[k]
             THEN GetValue(here, k) ELSE NoVal
      /\ ScopeChain(there) = ScopeChain(here)
      /\ here.cur.depth <= MaxScopeDepth =>
           \A name \in Names :
             ScopeChain(PushScope(there, name, CachedKeys))
               = ScopeChain(PushScope(here, name, CachedKeys))

-----------------------------------------------------------------------------
(* What the repository says of the same code, and the code does not do *)

\* lib.rs:171-172, "Creates a child store with a frozen parent.  Value lookups
\* fall through": also for the fork of a fork.
ForkIsTransparent ==
  \A k \in Keys : GetValue(ForkChild(cell.store), k) = GetValue(cell.store, k)

\* lib.rs:217, "a combined guard that pops the scope and restores the previous
\* context on drop".
CombinedGuardRestoresPrevious ==
  nested /\ guards # <<>> /\ Last(guards).kind = "pair"
    => Dropped(cell, Last(guards)) = Last(guards).prev

=============================================================================
