--------------------------- MODULE ScopedContext ---------------------------
(***************************************************************************)
(* One context store and the ScopeGuards handed out for it: push_scope,    *)
(* the drop of a guard, and the writes in between (dcontext/src/scope.rs,  *)
(* store.rs and the public functions of lib.rs).                           *)
(*                                                                         *)
(* A ScopeGuard only remembers a depth.  Which scope it was created for is *)
(* not in the code; the model keeps it as the history field "before", the  *)
(* store at the moment of the push, until that scope is popped.            *)
(*                                                                         *)
(* The guards are dropped in any order, as guards kept in a Vec, a struct  *)
(* or an Option may be.  Guards held in nested blocks are dropped newest   *)
(* first; "nested" tells whether they always were.                         *)
(***************************************************************************)
EXTENDS ContextStore

CONSTANTS
  CachedKeys,    \* the keys registered with .cached()
  MaxGuards,     \* how many guards may be outstanding (bounds the model)
  NoGuard,       \* the slot is free
  NoStore,       \* the guard's scope has already been popped
  RemoteChains,  \* the chains an attached snapshot may carry
  Parents        \* the stores a fork may start from

Slots == 1 .. MaxGuards  \* places to keep a guard, filled in this order

Guard == [expected : Nat, before : Store \cup {NoStore}]

ASSUME ScopedContextAssumption ==
  /\ CachedKeys \subseteq Keys
  /\ MaxGuards \in Nat
  /\ NoGuard \notin Guard
  /\ NoStore \notin Store
  /\ RemoteChains \subseteq Seq(Names)
  /\ Parents \subseteq Store

VARIABLES
  store,   \* the ContextStore in the thread-local cell
  guards,  \* the outstanding ScopeGuards
  nested   \* history: every guard dropped so far was the newest one

vars == <<store, guards, nested>>

Held(g) == guards[g] # NoGuard

\* The scope guard g was created for is still on the stack.
Live(g) == Held(g) /\ guards[g].before # NoStore

-----------------------------------------------------------------------------

\* The three ways a store comes to be: a thread's first one, an attached
\* snapshot, and a fork.
Init ==
  /\ store \in {NewStore}
          \cup {FromValuesWithChain(v, r) : v \in Values, r \in RemoteChains}
          \cup {ForkChild(p) : p \in Parents}
  /\ guards = [g \in Slots |-> NoGuard]
  /\ nested = TRUE

\* push_scope(name): the guard remembers the depth the push returned.
Push(g, name) ==
  /\ ~Held(g)
  /\ \A h \in Slots : h < g => Held(h)
  /\ store' = PushScope(store, name, CachedKeys)
  /\ guards' = [guards EXCEPT ![g] = [expected |-> store'.cur.depth,
                                      before   |-> store]]
  /\ UNCHANGED nested

\* The history field forgets the scopes that are popped.
Orphan(g, depth) ==
  IF Held(g) /\ guards[g].expected >= depth
  THEN [guards[g] EXCEPT !.before = NoStore]
  ELSE guards[g]

IsNewest(g) == \A h \in Slots : h > g => ~Held(h)

\* Drop for ScopeGuard: leave_scope(expected_depth).
DropGuard(g) ==
  /\ Held(g)
  /\ store' = PopScope(store, guards[g].expected)
  /\ guards' = [h \in Slots |-> IF h = g
                                THEN NoGuard
                                ELSE Orphan(h, guards[g].expected)]
  /\ nested' = (nested /\ IsNewest(g))

\* set_context_variable, and update_context_variable once its callback is done.
SetVariable(k, v) ==
  /\ store' = SetValue(store, k, v)
  /\ UNCHANGED <<guards, nested>>

\* merge_with(source), "values" being what the source flattens to.
Merge(values) ==
  /\ store' = MergeValues(store, values)
  /\ UNCHANGED <<guards, nested>>

\* clear(): a new store; the guards stay with their owners.
Clear ==
  /\ store' = NewStore
  /\ guards' = [g \in Slots |-> Orphan(g, 0)]
  /\ UNCHANGED nested

Write ==
  \/ \E k \in Keys, v \in Vals : SetVariable(k, v)
  \/ \E values \in Values : Merge(values)

Next ==
  \/ \E g \in Slots, name \in Names : Push(g, name)
  \/ \E g \in Slots : DropGuard(g)
  \/ Write
  \/ Clear

Spec == Init /\ [][Next]_vars

-----------------------------------------------------------------------------
(* Safety *)

\* The type invariant: the fields of the store and of the guards keep their
\* types (ContextStore and ScopeGuard), whatever order the guards drop in.
TypeOK ==
  /\ store \in Store
  /\ guards \in [Slots -> Guard \cup {NoGuard}]
  /\ nested \in BOOLEAN

\* The depth counter and the linked list agree: one node per real scope, the
\* i-th at depth i, however many dead scopes are counted on top (push_scope
\* and pop_scope switch between "count only" and "link" at MAX_SCOPE_DEPTH).
ChainMatchesDepth == WellLinked(store)

\* No scope is left without a guard to pop it, none has two, and no guard
\* outlives its scope unnoticed: the live guards are exactly those of the
\* scopes 2 .. depth.  In particular, once every guard is dropped, in any
\* order, the store is back at its root.
OneGuardPerScope ==
  /\ \A g \in Slots : Live(g) => guards[g].expected \in 2 .. store.cur.depth
  /\ \A d \in 2 .. store.cur.depth :
       \E g \in Slots : Live(g) /\ guards[g].expected = d
  /\ \A g, h \in Slots :
       Live(g) /\ Live(h) /\ guards[g].expected = guards[h].expected => g = h

\* Rollback: whatever was set, merged, pushed and popped since a real scope
\* was pushed, dropping its guard now would bring back exactly the store of
\* the moment of the push: values, name, depth and remote prefix.
GuardRestoresContext ==
  \A g \in Slots :
    Live(g) /\ guards[g].expected <= MaxScopeDepth + 1
      => PopScope(store, guards[g].expected) = guards[g].before

\* In nested blocks a guard newer than a live one is itself live, and deeper:
\* a guard can only lose its scope to clear(), together with all older ones.
NewerGuardsAreDeeper ==
  nested => \A g, h \in Slots : g < h /\ Held(h) =>
    /\ Held(g)
    /\ Live(g) => Live(h) /\ guards[g].expected < guards[h].expected

\* A cached key that has a value is found in the active scope, unless that is
\* the root of a forked store (push_scope copies, fork_child does not).
CachedReadsAreLocal ==
  store.cur.depth > 1 \/ store.frozen = <<>> =>
    \A k \in CachedKeys :
      GetValue(store, k) # NoVal => store.cur.values[k] # NoVal

\* The snapshot's flattened map and the lookup of a single key walk the same
\* scopes in opposite ways (collect_values and get_value) and must agree.
CollectAgreesWithLookup ==
  \A k \in Keys : CollectValues(store)[k] = GetValue(store, k)

\* However long the chain is, the limit drops the oldest names: the innermost
\* real scopes end the visible chain, in order (scope_chain's drain).
NewestScopesVisible ==
  LET chain == ScopeChain(store)
      names == NamesOf(Append(store.chain, store.cur))
      shown == IF MaxChainLen = 0 THEN Len(names)
               ELSE Min({Len(names), MaxChainLen})
  IN  /\ Len(chain) >= shown
      /\ \A i \in 0 .. shown - 1 :
            chain[Len(chain) - i] = names[Len(names) - i]

\* PopScope, which names the scope that a pop ends at, computes what the loop of
\* pop_scope computes, for every depth that a guard may hold.
PopMatchesLoop ==
  \A d \in 0 .. store.cur.depth + 1 : PopScope(store, d) = PopLoop(store, d)

-----------------------------------------------------------------------------
(* Action properties *)

\* A guard whose scope is gone does nothing when it is dropped (the "already
\* popped" case of pop_scope).  True of guards in nested blocks only.
StaleGuardIsInert ==
  [][\A g \in Slots :
       Held(g) /\ ~Live(g) /\ DropGuard(g) /\ nested' => store' = store]_vars

-----------------------------------------------------------------------------
(* Refinement: the sparse scopes, the cached copies and the forked parent   *)
(* together implement a stack of complete pictures.                         *)

PictureAt(i) ==
  LET s == Unwind(store, i)
  IN  [view |-> [k \in Keys |-> GetValue(s, k)], trail |-> FullChain(s)]

Pictures == [i \in 1 .. Len(store.chain) + 1 |-> PictureAt(i)]

Abs == INSTANCE ScopeStack WITH stack <- Pictures

\* Every push, drop, write and clear is a step of ScopeStack or changes none
\* of its pictures (a dead scope, a guard with nothing left to pop).
ImplementsScopeStack == Abs!Spec

=============================================================================
