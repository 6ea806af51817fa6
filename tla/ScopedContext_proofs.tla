----------------------- MODULE ScopedContext_proofs -----------------------
(***************************************************************************)
(* The safety of ScopedContext, for any number of guards dropped in any    *)
(* order, any keys, values and names, and any depth limit.                 *)
(*                                                                         *)
(* The inductive invariant adds two facts to the invariants that are       *)
(* checked: no guard names the root scope, and, in place of the rollback   *)
(* itself, the node that the rollback will bring back.                     *)
(***************************************************************************)
EXTENDS ScopedContext, ContextStore_proofs

GuardsAboveRoot == \A g \in Slots : Held(g) => guards[g].expected >= 2

\* The store of a guard's push is still in the chain, node for node.
PushedStoreIsLinked ==
  \A g \in Slots :
    Live(g) /\ guards[g].expected <= MaxScopeDepth + 1
      => guards[g].before = Rewound(store, guards[g].expected - 1)

IInv ==
  /\ TypeOK
  /\ ChainMatchesDepth
  /\ OneGuardPerScope
  /\ GuardsAboveRoot
  /\ PushedStoreIsLinked

-----------------------------------------------------------------------------
(* Facts about the history field *)

\* A held guard is a ScopeGuard: it has an expected depth.
LEMMA HeldGuard ==
  ASSUME TypeOK, NEW g \in Slots, Held(g)
  PROVE  guards[g] \in Guard /\ guards[g].expected \in Nat
  BY DEF TypeOK, Held, Guard

\* When scopes are popped, the guards of the deeper ones lose their scope and
\* nothing else of a guard changes.
LEMMA OrphanProperties ==
  ASSUME TypeOK, NEW h \in Slots, NEW d \in Nat
  PROVE  /\ Orphan(h, d) \in Guard \cup {NoGuard}
         /\ Orphan(h, d) # NoGuard <=> Held(h)
         /\ Held(h) => Orphan(h, d).expected = guards[h].expected
         /\ Held(h) /\ Orphan(h, d).before # NoStore
              <=> Live(h) /\ guards[h].expected < d
         /\ Held(h) /\ Orphan(h, d).before # NoStore
              => Orphan(h, d) = guards[h]
<1>1. CASE ~Held(h)
  BY <1>1 DEF Orphan, Live, TypeOK, Held
<1>2. CASE Held(h)
  <2>1. guards[h] \in Guard /\ guards[h].expected \in Nat
    BY <1>2, HeldGuard
  <2>2. CASE guards[h].expected >= d
    <3> DEFINE o == [guards[h] EXCEPT !.before = NoStore]
    <3>1. Orphan(h, d) = o
      BY <1>2, <2>2 DEF Orphan
    <3>2. o \in Guard /\ o.expected = guards[h].expected /\ o.before = NoStore
      BY <2>1 DEF Guard
    <3> HIDE DEF o
    <3>3. o # NoGuard
      BY <3>2, ScopedContextAssumption
    <3> QED BY <1>2, <2>1, <2>2, <3>1, <3>2, <3>3
  <2>3. CASE ~ (guards[h].expected >= d)
    <3>1. Orphan(h, d) = guards[h]
      BY <2>3 DEF Orphan
    <3> QED BY <1>2, <2>1, <2>3, <3>1 DEF Live, Held
  <2> QED BY <2>2, <2>3
<1> QED BY <1>1, <1>2

-----------------------------------------------------------------------------

\* A fresh, an attached and a forked store satisfy the inductive invariant.
LEMMA InitIInv == Init => IInv
<1> SUFFICES ASSUME Init  PROVE IInv
  OBVIOUS
<1>1. store \in Store /\ store.cur.depth = 1 /\ store.chain = <<>>
  <2>1. CASE store = NewStore
    BY <2>1, NewStoreType DEF NewStore, RootScope
  <2>2. CASE \E v \in Values, r \in RemoteChains :
               store = FromValuesWithChain(v, r)
    <3>1. PICK v \in Values, r \in RemoteChains :
                 store = FromValuesWithChain(v, r)
      BY <2>2
    <3>2. r \in Seq(Names)
      BY ScopedContextAssumption
    <3>3. store \in Store
      BY <3>1, <3>2, FromValuesType
    <3> QED BY <3>1, <3>3 DEF FromValuesWithChain, RootScope
  <2>3. CASE \E p \in Parents : store = ForkChild(p)
    <3>1. PICK p \in Parents : store = ForkChild(p)
      BY <2>3
    <3>2. p \in Store
      BY ScopedContextAssumption
    <3>3. store \in Store
      BY <3>1, <3>2, ForkChildType
    <3> QED BY <3>1, <3>3 DEF ForkChild, RootScope
  <2> QED BY <2>1, <2>2, <2>3 DEF Init
<1>2. \A g \in Slots : ~Held(g)
  BY DEF Init, Held
<1>3. TypeOK
  BY <1>1 DEF TypeOK, Init
<1>4. ChainMatchesDepth
  <2>1. Min({store.cur.depth - 1, MaxScopeDepth}) = 0
    <3>1. 0 \in Int /\ MaxScopeDepth \in Int /\ 0 <= MaxScopeDepth
      BY ContextStoreAssumption
    <3>2. Min({0, MaxScopeDepth}) = 0
      BY <3>1, MinOfTwo
    <3>3. store.cur.depth - 1 = 0
      BY <1>1
    <3> QED BY <3>2, <3>3
  <2> QED BY <1>1, <2>1 DEF ChainMatchesDepth, WellLinked
<1>5. OneGuardPerScope
  BY <1>1, <1>2 DEF OneGuardPerScope, Live
<1>6. GuardsAboveRoot /\ PushedStoreIsLinked
  BY <1>2 DEF GuardsAboveRoot, PushedStoreIsLinked, Live
<1> QED BY <1>3, <1>4, <1>5, <1>6 DEF IInv

-----------------------------------------------------------------------------
(* One lemma per action *)

\* The typing facts about the store that every step below starts from.
LEMMA DepthType ==
  ASSUME IInv
  PROVE  /\ store \in Store /\ WellLinked(store)
         /\ store.cur.depth \in Nat /\ store.cur.depth >= 1
         /\ MaxScopeDepth \in Nat
         /\ store.chain \in Seq(Scope) /\ Len(store.chain) \in Nat
         /\ Len(store.chain) = IF store.cur.depth - 1 <= MaxScopeDepth
                               THEN store.cur.depth - 1 ELSE MaxScopeDepth
<1>1. store \in Store /\ WellLinked(store)
  BY DEF IInv, TypeOK, ChainMatchesDepth
<1>2. store.cur.depth \in Nat /\ store.chain \in Seq(Scope)
  BY <1>1 DEF Store, Scope
<1>3. MaxScopeDepth \in Nat
  BY ContextStoreAssumption
<1>4. store.cur.depth - 1 \in Int /\ MaxScopeDepth \in Int
  BY <1>2, <1>3
<1>5. Min({store.cur.depth - 1, MaxScopeDepth}) =
        IF store.cur.depth - 1 <= MaxScopeDepth
        THEN store.cur.depth - 1 ELSE MaxScopeDepth
  BY <1>4, MinOfTwo
<1> QED BY <1>1, <1>2, <1>3, <1>5 DEF WellLinked

\* push_scope preserves the inductive invariant: the new guard is the one of
\* the new scope, and the older guards keep their nodes.
LEMMA PushIInv ==
  ASSUME IInv, NEW g \in Slots, NEW name \in Names, Push(g, name)
  PROVE  IInv'
<1> DEFINE new == [expected |-> store'.cur.depth, before |-> store]
<1>1. /\ store \in Store /\ WellLinked(store) /\ store.cur.depth \in Nat
      /\ store.cur.depth >= 1 /\ MaxScopeDepth \in Nat /\ Len(store.chain) \in Nat
  BY DepthType
<1>2. store' = PushScope(store, name, CachedKeys)
  BY DEF Push
<1>3. /\ store' \in Store
      /\ WellLinked(store')
      /\ store'.cur.depth = store.cur.depth + 1
      /\ store'.frozen = store.frozen
      /\ Len(store.chain) <= Len(store'.chain)
      /\ \A i \in 1 .. Len(store.chain) : store'.chain[i] = store.chain[i]
      /\ store.cur.depth + 1 <= MaxScopeDepth + 1
           => Rewound(store', store.cur.depth) = store
  BY <1>1, <1>2, PushScopeProperties
<1>4. /\ guards \in [Slots -> Guard \cup {NoGuard}]
      /\ guards' = [guards EXCEPT ![g] = new]
      /\ ~Held(g)
  BY DEF IInv, TypeOK, Push
<1>5. new \in Guard /\ new # NoGuard /\ new.before # NoStore
  <2>1. store'.cur.depth \in Nat
    BY <1>1, <1>3
  <2>2. new \in Guard
    BY <1>1, <2>1 DEF Guard
  <2> QED BY <1>1, <2>2, ScopedContextAssumption
<1>6. /\ guards'[g] = new /\ Held(g)' /\ Live(g)' /\ ~Live(g)
      /\ \A h \in Slots \ {g} : /\ guards'[h] = guards[h]
                                /\ Held(h)' <=> Held(h)
                                /\ Live(h)' <=> Live(h)
  BY <1>4, <1>5 DEF Held, Live
<1>7. new.expected = store.cur.depth + 1 /\ new.before = store
  BY <1>3
<1> HIDE DEF new
<1>8. TypeOK'
  <2>1. nested' \in BOOLEAN
    BY DEF IInv, TypeOK, Push
  <2> QED BY <1>3, <1>4, <1>5, <2>1 DEF TypeOK
<1>9. ChainMatchesDepth'
  BY <1>3 DEF ChainMatchesDepth
<1>10. OneGuardPerScope'
  <2>1. \A h \in Slots : Live(h) => guards[h].expected \in 2 .. store.cur.depth
    BY DEF IInv, OneGuardPerScope
  <2>2. \A h \in Slots : Live(h)' => guards'[h].expected \in 2 .. store'.cur.depth
    BY <1>1, <1>3, <1>6, <1>7, <2>1
  <2>3. ASSUME NEW d \in 2 .. store'.cur.depth
        PROVE  \E h \in Slots : Live(h)' /\ guards'[h].expected = d
    <3>1. CASE d = store'.cur.depth
      BY <1>3, <1>6, <1>7, <3>1
    <3>2. CASE d # store'.cur.depth
      <4>1. d \in 2 .. store.cur.depth
        BY <1>1, <1>3, <3>2
      <4>2. PICK h \in Slots : Live(h) /\ guards[h].expected = d
        BY <4>1 DEF IInv, OneGuardPerScope
      <4>3. h # g
        BY <1>6, <4>2
      <4> QED BY <1>6, <4>2, <4>3
    <3> QED BY <3>1, <3>2
  <2>4. ASSUME NEW h \in Slots, NEW j \in Slots, Live(h)', Live(j)',
               guards'[h].expected = guards'[j].expected
        PROVE  h = j
    <3>1. CASE h # g /\ j # g
      BY <1>6, <2>4, <3>1 DEF IInv, OneGuardPerScope
    <3>2. ASSUME NEW k \in Slots, k # g, Live(k)'
          PROVE  guards'[k].expected # new.expected
      BY <1>1, <1>6, <1>7, <2>1, <3>2
    <3> QED BY <1>6, <2>4, <3>1, <3>2
  <2> QED BY <2>2, <2>3, <2>4 DEF OneGuardPerScope
<1>11. GuardsAboveRoot'
  BY <1>1, <1>6, <1>7 DEF IInv, GuardsAboveRoot
<1>12. PushedStoreIsLinked'
  <2> SUFFICES ASSUME NEW h \in Slots, Live(h)',
                      guards'[h].expected <= MaxScopeDepth + 1
               PROVE  guards'[h].before = Rewound(store', guards'[h].expected - 1)
    BY DEF PushedStoreIsLinked
  <2>1. CASE h = g
    <3>1. guards'[h].expected - 1 = store.cur.depth
      BY <1>1, <1>6, <1>7, <2>1
    <3> QED BY <1>3, <1>6, <1>7, <2>1, <3>1
  <2>2. CASE h # g
    <3> DEFINE e == guards[h].expected
    <3>1. Live(h) /\ guards'[h] = guards[h]
      BY <1>6, <2>2
    <3>2. e \in 2 .. store.cur.depth
      BY <3>1 DEF IInv, OneGuardPerScope
    <3>3. guards[h].before = Rewound(store, e - 1)
      BY <3>1 DEF IInv, PushedStoreIsLinked
    <3>4. Len(store.chain) = IF store.cur.depth - 1 <= MaxScopeDepth
                             THEN store.cur.depth - 1 ELSE MaxScopeDepth
      BY DepthType
    <3>5. e - 1 \in 1 .. Len(store.chain)
      BY <1>1, <3>1, <3>2, <3>4
    <3>6. /\ e - 1 <= Len(store'.chain)
          /\ \A i \in 1 .. e - 1 : store'.chain[i] = store.chain[i]
      <4>1. Len(store'.chain) \in Nat
        BY <1>3 DEF Store
      <4> QED BY <1>1, <1>3, <3>2, <3>5, <4>1
    <3>7. Rewound(store', e - 1) = Rewound(store, e - 1)
      BY <1>1, <1>3, <3>5, <3>6, RewoundDependsOnPrefix
    <3> QED BY <3>1, <3>3, <3>7
  <2> QED BY <2>1, <2>2
<1> QED BY <1>8, <1>9, <1>10, <1>11, <1>12 DEF IInv

\* Dropping a guard, in any order, preserves the inductive invariant: the
\* scopes above it go together with their guards.
LEMMA DropIInv ==
  ASSUME IInv, NEW g \in Slots, DropGuard(g)
  PROVE  IInv'
<1> DEFINE d == guards[g].expected
<1>1. /\ store \in Store /\ WellLinked(store) /\ store.cur.depth \in Nat
      /\ store.cur.depth >= 1 /\ MaxScopeDepth \in Nat /\ Len(store.chain) \in Nat
  BY DepthType
<1>2. TypeOK /\ Held(g) /\ d \in Nat /\ d >= 2
  BY HeldGuard DEF DropGuard, IInv, GuardsAboveRoot
<1>3. store' = PopScope(store, d)
  BY DEF DropGuard
<1> HIDE DEF d
<1>4. /\ store' \in Store
      /\ WellLinked(store')
      /\ store.cur.depth < d => store' = store
      /\ store.cur.depth >= d => store'.cur.depth = d - 1
      /\ store'.frozen = store.frozen
      /\ Len(store'.chain) <= Len(store.chain)
      /\ \A i \in 1 .. Len(store'.chain) : store'.chain[i] = store.chain[i]
  BY <1>1, <1>2, <1>3, PopScopeProperties
<1>5. guards' = [h \in Slots |-> IF h = g THEN NoGuard ELSE Orphan(h, d)]
  BY DEF DropGuard, d
<1>6. /\ ~Held(g)' /\ ~Live(g)'
      /\ \A h \in Slots \ {g} :
           /\ guards'[h] = Orphan(h, d)
           /\ Held(h)' <=> Held(h)
           /\ Held(h) => guards'[h].expected = guards[h].expected
           /\ Live(h)' <=> Live(h) /\ guards[h].expected < d
           /\ Live(h)' => guards'[h] = guards[h]
  <2>1. guards'[g] = NoGuard /\ \A h \in Slots \ {g} : guards'[h] = Orphan(h, d)
    BY <1>5
  <2>2. ~Held(g)' /\ ~Live(g)'
    BY <2>1 DEF Held, Live
  <2>3. ASSUME NEW h \in Slots \ {g}
        PROVE  /\ Held(h)' <=> Held(h)
               /\ Held(h) => guards'[h].expected = guards[h].expected
               /\ Live(h)' <=> Live(h) /\ guards[h].expected < d
               /\ Live(h)' => guards'[h] = guards[h]
    BY <1>2, <2>1, OrphanProperties DEF Held, Live
  <2> QED BY <2>1, <2>2, <2>3
<1>7. TypeOK'
  <2>1. \A h \in Slots : Orphan(h, d) \in Guard \cup {NoGuard}
    BY <1>2, OrphanProperties
  <2>2. nested' \in BOOLEAN
    BY DEF DropGuard
  <2> QED BY <1>4, <1>5, <2>1, <2>2 DEF TypeOK
<1>8. ChainMatchesDepth'
  BY <1>4 DEF ChainMatchesDepth
<1>9. store'.cur.depth \in Nat
  BY <1>4 DEF Store, Scope
<1>10. store'.cur.depth = IF store.cur.depth < d THEN store.cur.depth ELSE d - 1
  BY <1>1, <1>2, <1>4
<1>11. \A h \in Slots : Live(h) => guards[h].expected \in 2 .. store.cur.depth
  BY DEF IInv, OneGuardPerScope
<1>12. OneGuardPerScope'
  <2>1. \A h \in Slots : Live(h)' => guards'[h].expected \in 2 .. store'.cur.depth
    BY <1>1, <1>2, <1>6, <1>10, <1>11
  <2>2. ASSUME NEW e \in 2 .. store'.cur.depth
        PROVE  \E h \in Slots : Live(h)' /\ guards'[h].expected = e
    <3>1. e \in 2 .. store.cur.depth /\ e < d
      BY <1>1, <1>2, <1>9, <1>10
    <3>2. PICK h \in Slots : Live(h) /\ guards[h].expected = e
      BY <3>1 DEF IInv, OneGuardPerScope
    <3>3. h # g
      BY <3>1, <3>2 DEF d
    <3> QED BY <1>6, <3>1, <3>2, <3>3
  <2>3. \A h, j \in Slots :
          Live(h)' /\ Live(j)' /\ guards'[h].expected = guards'[j].expected
            => h = j
    BY <1>6 DEF IInv, OneGuardPerScope
  <2> QED BY <2>1, <2>2, <2>3 DEF OneGuardPerScope
<1>13. GuardsAboveRoot'
  BY <1>6 DEF IInv, GuardsAboveRoot
<1>14. PushedStoreIsLinked'
  <2> SUFFICES ASSUME NEW h \in Slots, Live(h)',
                      guards'[h].expected <= MaxScopeDepth + 1
               PROVE  guards'[h].before = Rewound(store', guards'[h].expected - 1)
    BY DEF PushedStoreIsLinked
  <2> DEFINE e == guards[h].expected
  <2>1. Live(h) /\ guards'[h] = guards[h] /\ e < d
    BY <1>6
  <2>2. e \in 2 .. store'.cur.depth
    BY <1>1, <1>2, <1>10, <1>11, <2>1
  <2>3. guards[h].before = Rewound(store, e - 1)
    BY <2>1 DEF IInv, PushedStoreIsLinked
  <2>4. Len(store'.chain) \in Nat
    BY <1>4 DEF Store
  <2>5. Len(store'.chain) = IF store'.cur.depth - 1 <= MaxScopeDepth
                            THEN store'.cur.depth - 1 ELSE MaxScopeDepth
    <3>1. store'.cur.depth - 1 \in Int /\ MaxScopeDepth \in Int
      BY <1>1, <1>9
    <3> QED BY <1>4, <3>1, MinOfTwo DEF WellLinked
  <2>6. e - 1 \in 1 .. Len(store'.chain) /\ e - 1 \in 1 .. Len(store.chain)
    <3>1. e <= MaxScopeDepth + 1
      BY <2>1
    <3> HIDE DEF e
    <3>2. e - 1 \in 1 .. Len(store'.chain)
      BY <1>1, <1>9, <2>2, <2>4, <2>5, <3>1
    <3> QED BY <1>1, <1>4, <2>4, <3>2
  <2>7. \A i \in 1 .. e - 1 : store'.chain[i] = store.chain[i]
    BY <1>1, <1>4, <2>2, <2>4, <2>6
  <2>8. e - 1 <= Len(store'.chain)
    BY <2>4, <2>6
  <2> HIDE DEF e
  <2>9. Rewound(store', e - 1) = Rewound(store, e - 1)
    BY <1>1, <1>4, <2>6, <2>7, <2>8, RewoundDependsOnPrefix
  <2> QED BY <2>1, <2>3, <2>9 DEF e
<1> QED BY <1>7, <1>8, <1>12, <1>13, <1>14 DEF IInv

\* Values may come and go: the depth and the chain do not change.
LEMMA WriteIInv ==
  ASSUME IInv, store' \in Store, store'.cur.depth = store.cur.depth,
         store'.chain = store.chain, store'.frozen = store.frozen,
         UNCHANGED <<guards, nested>>
  PROVE  IInv'
<1>1. TypeOK'
  BY DEF IInv, TypeOK
<1>2. ChainMatchesDepth'
  BY DEF IInv, ChainMatchesDepth, WellLinked
<1>3. \A g \in Slots : (Held(g)' <=> Held(g)) /\ (Live(g)' <=> Live(g))
  BY DEF Held, Live
<1>4. OneGuardPerScope'
  BY <1>3 DEF IInv, OneGuardPerScope
<1>5. GuardsAboveRoot'
  BY <1>3 DEF IInv, GuardsAboveRoot
<1>6. PushedStoreIsLinked'
  BY <1>3 DEF IInv, PushedStoreIsLinked, Rewound
<1> QED BY <1>1, <1>2, <1>4, <1>5, <1>6 DEF IInv

\* clear() preserves the inductive invariant: every guard loses its scope.
LEMMA ClearIInv ==
  ASSUME IInv, Clear
  PROVE  IInv'
<1>1. /\ store' = NewStore /\ guards' = [g \in Slots |-> Orphan(g, 0)]
      /\ UNCHANGED nested
  BY DEF Clear
<1>2. TypeOK /\ \A g \in Slots : Held(g) => guards[g].expected \in Nat
  BY HeldGuard DEF IInv
<1>3. \A g \in Slots : /\ guards'[g] \in Guard \cup {NoGuard}
                       /\ Held(g)' <=> Held(g)
                       /\ Held(g) => guards'[g].expected = guards[g].expected
                       /\ ~Live(g)'
  <2> TAKE g \in Slots
  <2>1. guards'[g] = Orphan(g, 0)
    BY <1>1
  <2> QED BY <1>2, <2>1, OrphanProperties DEF Held, Live
<1>4. store' \in Store /\ store'.cur.depth = 1 /\ store'.chain = <<>>
  BY <1>1, NewStoreType DEF NewStore, RootScope
<1>5. TypeOK'
  BY <1>1, <1>3, <1>4 DEF IInv, TypeOK
<1>6. ChainMatchesDepth'
  <2>1. 0 \in Int /\ MaxScopeDepth \in Int /\ 0 <= MaxScopeDepth
    BY ContextStoreAssumption
  <2>2. Min({0, MaxScopeDepth}) = 0
    BY <2>1, MinOfTwo
  <2>3. store'.cur.depth - 1 = 0
    BY <1>4
  <2>4. Min({store'.cur.depth - 1, MaxScopeDepth}) = 0
    BY <2>2, <2>3
  <2> QED BY <1>4, <2>4 DEF ChainMatchesDepth, WellLinked
<1>7. OneGuardPerScope'
  BY <1>3, <1>4 DEF OneGuardPerScope
<1>8. GuardsAboveRoot'
  BY <1>3 DEF IInv, GuardsAboveRoot
<1>9. PushedStoreIsLinked'
  BY <1>3 DEF PushedStoreIsLinked
<1> QED BY <1>5, <1>6, <1>7, <1>8, <1>9 DEF IInv

\* Every step of the specification preserves the inductive invariant.
LEMMA NextIInv == IInv /\ [Next]_vars => IInv'
<1> SUFFICES ASSUME IInv, [Next]_vars  PROVE IInv'
  OBVIOUS
<1>1. store \in Store /\ store.cur \in Scope /\ store.cur.values \in Values
  BY DEF IInv, TypeOK, Store, Scope
<1>2. ASSUME NEW k \in Keys, NEW v \in Vals, SetVariable(k, v)
      PROVE  IInv'
  <2>1. store' = SetValue(store, k, v) /\ UNCHANGED <<guards, nested>>
    BY <1>2 DEF SetVariable
  <2>2. SetValue(store, k, v) \in Store
    BY <1>1, SetValueType
  <2>3. /\ store'.cur.depth = store.cur.depth
        /\ store'.chain = store.chain /\ store'.frozen = store.frozen
    BY <1>1, <2>1 DEF SetValue, Store, Scope
  <2> QED BY <2>1, <2>2, <2>3, WriteIInv
<1>3. ASSUME NEW values \in Values, Merge(values)
      PROVE  IInv'
  <2>1. store' = MergeValues(store, values) /\ UNCHANGED <<guards, nested>>
    BY <1>3 DEF Merge
  <2>2. MergeValues(store, values) \in Store
    BY <1>1, MergeValuesType
  <2>3. /\ store'.cur.depth = store.cur.depth
        /\ store'.chain = store.chain /\ store'.frozen = store.frozen
    BY <1>1, <2>1 DEF MergeValues, Store, Scope
  <2> QED BY <2>1, <2>2, <2>3, WriteIInv
<1>4. CASE UNCHANGED vars
  BY <1>1, <1>4, WriteIInv DEF vars
<1> QED
  BY <1>2, <1>3, <1>4, PushIInv, DropIInv, ClearIInv DEF Next, Write

-----------------------------------------------------------------------------
(* Theorems *)

\* The inductive invariant says where the store of each push is kept; popping
\* finds it there.
LEMMA IInvRolledBack == IInv => GuardRestoresContext
<1> SUFFICES ASSUME IInv, NEW g \in Slots, Live(g),
                    guards[g].expected <= MaxScopeDepth + 1
             PROVE  PopScope(store, guards[g].expected) = guards[g].before
  BY DEF GuardRestoresContext
<1> DEFINE e == guards[g].expected
<1>1. /\ store \in Store /\ WellLinked(store) /\ store.cur.depth \in Nat
      /\ MaxScopeDepth \in Nat
  BY DepthType
<1>2. e \in 2 .. store.cur.depth
  BY DEF IInv, OneGuardPerScope
<1>3. guards[g].before = Rewound(store, e - 1)
  BY DEF IInv, PushedStoreIsLinked
<1>4. ~ (store.cur.depth < e) /\ ~ (e > MaxScopeDepth + 1) /\ e \in Nat /\ e >= 2
  BY <1>1, <1>2
<1> HIDE DEF e
<1>5. PopScope(store, e) = Rewound(store, e - 1)
  BY <1>1, <1>4, PopScopeResult
<1> QED BY <1>3, <1>5 DEF e

\* The inductive invariant holds of every behaviour, whatever order the guards
\* are dropped in.
THEOREM SpecIInv == Spec => []IInv
  BY InitIInv, NextIInv, PTL DEF Spec

\* Type correctness of the store and the guards (store.rs, scope.rs).
THEOREM SpecTypeOK == Spec => []TypeOK
<1>1. IInv => TypeOK
  BY DEF IInv
<1> QED BY <1>1, SpecIInv, PTL

\* The depth counter and the chain agree, on both sides of MAX_SCOPE_DEPTH.
THEOREM SpecChainMatchesDepth == Spec => []ChainMatchesDepth
<1>1. IInv => ChainMatchesDepth
  BY DEF IInv
<1> QED BY <1>1, SpecIInv, PTL

\* Each scope above the root has exactly one guard that will pop it.
THEOREM SpecOneGuardPerScope == Spec => []OneGuardPerScope
<1>1. IInv => OneGuardPerScope
  BY DEF IInv
<1> QED BY <1>1, SpecIInv, PTL

\* Dropping the guard of a real scope brings back the store of its push.
THEOREM SpecGuardRestoresContext == Spec => []GuardRestoresContext
  BY IInvRolledBack, SpecIInv, PTL

-----------------------------------------------------------------------------
(* Guards in nested blocks *)

\* In nested blocks every step keeps the newer guards deeper.
LEMMA NewerGuardsStep ==
  ASSUME IInv, NewerGuardsAreDeeper, [Next]_vars
  PROVE  NewerGuardsAreDeeper'
<1> SUFFICES ASSUME nested'  PROVE NewerGuardsAreDeeper'
  BY DEF NewerGuardsAreDeeper
<1>0. nested
  BY DEF Next, Push, DropGuard, Write, SetVariable, Merge, Clear, vars
<1>1. TypeOK /\ store.cur.depth \in Nat
  BY DepthType DEF IInv
<1>2. \A g \in Slots : g \in Nat
  BY DEF Slots
<1>3. \A g \in Slots : Held(g) => guards[g].expected \in Nat
  BY <1>1, HeldGuard
<1>4. ASSUME NEW g \in Slots, NEW name \in Names, Push(g, name)
      PROVE  NewerGuardsAreDeeper'
  <2> DEFINE new == [expected |-> store'.cur.depth, before |-> store]
  <2>1. store' = PushScope(store, name, CachedKeys) /\ guards' = [guards EXCEPT ![g] = new]
    BY <1>4 DEF Push
  <2>2. store'.cur.depth = store.cur.depth + 1
    BY <2>1, DepthType, PushScopeProperties
  <2>3. guards'[g] = new /\ \A h \in Slots \ {g} : guards'[h] = guards[h]
    BY <1>1, <2>1 DEF TypeOK
  <2>4. IInv'
    BY <1>4, PushIInv
  <2>5. Held(g)' /\ Live(g)' /\ guards'[g].expected = store.cur.depth + 1
    <3>1. new \in Guard
      <4>1. store \in Store /\ store'.cur.depth \in Nat
        BY <2>2, DepthType
      <4> QED BY <4>1 DEF Guard
    <3>2. new # NoGuard /\ new.before # NoStore
      BY <3>1, DepthType, ScopedContextAssumption
    <3> QED BY <2>2, <2>3, <3>2 DEF Held, Live
  <2>6. \A h \in Slots \ {g} : (Held(h)' <=> Held(h)) /\ (Live(h)' <=> Live(h))
    BY <2>3 DEF Held, Live
  <2>7. ~Held(g) /\ (\A h \in Slots : h < g => Held(h))
        /\ \A h \in Slots : g < h => ~Held(h)
    BY <1>0, <1>4 DEF Push, NewerGuardsAreDeeper
  <2>8. \A h \in Slots : Live(h) => guards[h].expected <= store.cur.depth
    BY <1>1 DEF IInv, OneGuardPerScope
  <2> SUFFICES ASSUME NEW h \in Slots, NEW j \in Slots, h < j, Held(j)'
               PROVE  /\ Held(h)'
                      /\ Live(h)' => Live(j)'
                           /\ guards'[h].expected < guards'[j].expected
    BY DEF NewerGuardsAreDeeper
  <2>9. CASE j = g
    <3>1. h # g /\ Held(h) /\ guards'[h] = guards[h]
      BY <1>2, <2>3, <2>7, <2>9
    <3>2. Held(h)' /\ (Live(h)' <=> Live(h))
      BY <2>6, <3>1
    <3>3. Live(h) => guards[h].expected < store.cur.depth + 1
      BY <1>1, <1>3, <2>8, <3>1
    <3> QED BY <2>5, <2>9, <3>1, <3>2, <3>3
  <2>10. CASE j # g
    <3>1. Held(j) /\ h # g
      BY <1>2, <2>6, <2>7, <2>10
    <3> QED BY <1>0, <2>3, <2>6, <2>10, <3>1 DEF NewerGuardsAreDeeper
  <2> QED BY <2>9, <2>10
<1>5. ASSUME NEW g \in Slots, DropGuard(g)
      PROVE  NewerGuardsAreDeeper'
  <2> DEFINE d == guards[g].expected
  <2>1. Held(g) /\ d \in Nat
    BY <1>3, <1>5 DEF DropGuard
  <2>2. guards' = [h \in Slots |-> IF h = g THEN NoGuard ELSE Orphan(h, d)]
    BY <1>5 DEF DropGuard
  <2>3. \A h \in Slots : g < h => ~Held(h)
    BY <1>2, <1>5 DEF DropGuard, IsNewest
  <2> HIDE DEF d
  <2>4. ASSUME NEW h \in Slots \ {g}
        PROVE  /\ Held(h)' <=> Held(h)
               /\ Held(h) => guards'[h].expected = guards[h].expected
               /\ Live(h)' <=> Live(h) /\ guards[h].expected < d
    <3>1. guards'[h] = Orphan(h, d)
      BY <2>2
    <3> QED BY <1>1, <2>1, <3>1, OrphanProperties DEF Held, Live
  <2>5. ~Held(g)' /\ ~Live(g)'
    BY <2>2 DEF Held, Live
  <2>6. ASSUME NEW h \in Slots \ {g}, Live(h)
        PROVE  guards[h].expected < d
    <3>1. Held(h)
      BY <2>6 DEF Live
    <3>2. h < g
      BY <1>2, <2>3, <3>1
    <3> QED BY <1>0, <2>1, <2>6, <3>2 DEF NewerGuardsAreDeeper, d
  <2> SUFFICES ASSUME NEW h \in Slots, NEW j \in Slots, h < j, Held(j)'
               PROVE  /\ Held(h)'
                      /\ Live(h)' => Live(j)'
                           /\ guards'[h].expected < guards'[j].expected
    BY DEF NewerGuardsAreDeeper
  <2>7. j # g /\ Held(j) /\ h # g
    BY <1>2, <2>3, <2>4, <2>5
  <2>8. Held(h)
    BY <1>0, <2>7 DEF NewerGuardsAreDeeper
  <2>9. Live(h) => Live(j) /\ guards[h].expected < guards[j].expected
    BY <1>0, <2>7 DEF NewerGuardsAreDeeper
  <2> QED BY <2>4, <2>6, <2>7, <2>8, <2>9
<1>6. CASE Clear
  <2>1. guards' = [h \in Slots |-> Orphan(h, 0)]
    BY <1>6 DEF Clear
  <2>2. ASSUME NEW h \in Slots
        PROVE  (Held(h)' <=> Held(h)) /\ ~Live(h)'
    <3>1. guards'[h] = Orphan(h, 0)
      BY <2>1
    <3> QED BY <1>1, <1>3, <3>1, OrphanProperties DEF Held, Live
  <2> QED BY <1>0, <2>2 DEF NewerGuardsAreDeeper
<1>7. CASE UNCHANGED guards
  <2>1. \A h \in Slots : (Held(h)' <=> Held(h)) /\ (Live(h)' <=> Live(h))
    BY <1>7 DEF Held, Live
  <2> QED BY <1>0, <1>7, <2>1 DEF NewerGuardsAreDeeper
<1>8. Write \/ UNCHANGED vars => UNCHANGED guards
  BY DEF Write, SetVariable, Merge, vars
<1> QED BY <1>4, <1>5, <1>6, <1>7, <1>8 DEF Next

\* What holds of guards in nested blocks, over the inductive invariant.
LEMMA NestedInvariant == Spec => [](IInv /\ NewerGuardsAreDeeper)
<1>1. Init => NewerGuardsAreDeeper
  BY DEF Init, NewerGuardsAreDeeper, Held, Live
<1>2. IInv /\ NewerGuardsAreDeeper /\ [Next]_vars => NewerGuardsAreDeeper'
  BY NewerGuardsStep
<1> QED BY InitIInv, NextIInv, <1>1, <1>2, PTL DEF Spec

\* In nested blocks, when the newest guard has lost its scope so has every
\* other: the store is at its root, and the drop finds nothing to pop.
LEMMA StaleGuardStep ==
  ASSUME IInv, NewerGuardsAreDeeper,
         NEW g \in Slots, Held(g), ~Live(g), DropGuard(g), nested'
  PROVE  store' = store
<1>1. /\ store \in Store /\ WellLinked(store)
      /\ store.cur.depth \in Nat /\ store.cur.depth >= 1
  BY DepthType
<1>2. guards[g].expected \in Nat /\ guards[g].expected >= 2
  BY HeldGuard DEF IInv, GuardsAboveRoot
<1>3. nested /\ \A h \in Slots : h > g => ~Held(h)
  BY DEF DropGuard, IsNewest
<1>4. \A h \in Slots : ~Live(h)
  <2> TAKE h \in Slots
  <2>1. h \in Int /\ g \in Int
    BY DEF Slots
  <2> QED BY <1>3, <2>1 DEF NewerGuardsAreDeeper, Live
<1>5. store.cur.depth = 1
  BY <1>1, <1>4 DEF IInv, OneGuardPerScope
<1>6. store.cur.depth < guards[g].expected
  BY <1>2, <1>5
<1> QED BY <1>1, <1>2, <1>6, PopScopeProperties DEF DropGuard

\* A guard left over from before a clear() never pops a scope of another
\* guard, as long as guards are held in nested blocks (scope.rs, pop_scope).
THEOREM SpecStaleGuardIsInert == Spec => StaleGuardIsInert
<1>1. IInv /\ NewerGuardsAreDeeper /\ [Next]_vars
        => [\A g \in Slots :
              Held(g) /\ ~Live(g) /\ DropGuard(g) /\ nested' => store' = store]_vars
  BY StaleGuardStep
<1>2. Spec => [][Next]_vars
  BY DEF Spec
<1> QED BY <1>1, <1>2, NestedInvariant, PTL DEF StaleGuardIsInert

\* In nested blocks the newer guard is the deeper one.
THEOREM SpecNewerGuardsAreDeeper == Spec => []NewerGuardsAreDeeper
  BY NestedInvariant, PTL

-----------------------------------------------------------------------------
(* What a step does to the store *)

\* Only the depth counter changes, above the root: dead scopes come and go.
Counted(s, t) ==
  /\ t.chain = s.chain /\ t.frozen = s.frozen
  /\ t.cur.name = s.cur.name /\ t.cur.remote = s.cur.remote
  /\ t.cur.base = s.cur.base /\ t.cur.values = s.cur.values
  /\ s.cur.depth > 1 /\ t.cur.depth > 1

\* Only values of the active scope change, and none of them is lost.
Written(s, t) ==
  /\ t.chain = s.chain /\ t.frozen = s.frozen
  /\ t.cur.name = s.cur.name /\ t.cur.remote = s.cur.remote
  /\ t.cur.base = s.cur.base /\ t.cur.depth = s.cur.depth
  /\ \A k \in Keys : t.cur.values[k] = NoVal => s.cur.values[k] = NoVal

\* The scope that is pushed has a node of its own.
Linked(s, name, t) ==
  /\ s.cur.depth + 1 <= MaxScopeDepth + 1
  /\ t = PushScope(s, name, CachedKeys)

\* Every step leaves one of five kinds of store.
StoreStep(s, t) ==
  \/ \E name \in Names : Linked(s, name, t)
  \/ \E i \in 1 .. Len(s.chain) : t = Rewound(s, i)
  \/ Counted(s, t)
  \/ Written(s, t)
  \/ t = NewStore

\* push_scope makes a node, or counts.
LEMMA PushStep ==
  ASSUME NEW s \in Store, WellLinked(s), NEW name \in Names
  PROVE  StoreStep(s, PushScope(s, name, CachedKeys))
<1> DEFINE t == PushScope(s, name, CachedKeys)
<1>1. /\ s.cur \in Scope /\ s.cur.depth \in Nat /\ MaxScopeDepth \in Nat
      /\ MaxScopeDepth # 0
  BY ContextStoreAssumption DEF Store, Scope
<1>2. CASE s.cur.depth + 1 <= MaxScopeDepth + 1
  BY <1>2 DEF Linked, StoreStep
<1>3. CASE ~ (s.cur.depth + 1 <= MaxScopeDepth + 1)
  <2>1. s.cur.depth + 1 > MaxScopeDepth + 1 /\ s.cur.depth > 1
    BY <1>1, <1>3
  <2>2. t = [s EXCEPT !.cur.depth = s.cur.depth + 1]
    BY <2>1 DEF PushScope
  <2>3. Counted(s, t)
    BY <1>1, <2>1, <2>2 DEF Counted, Store, Scope
  <2> QED
    BY <2>3 DEF StoreStep
<1> QED
  BY <1>2, <1>3

\* pop_scope changes nothing, counts, or goes back to a node.
LEMMA PopStep ==
  ASSUME NEW s \in Store, WellLinked(s), NEW e \in Nat, e >= 2
  PROVE  StoreStep(s, PopScope(s, e))
<1> DEFINE t == PopScope(s, e)
<1>1. /\ s.cur \in Scope /\ s.cur.depth \in Nat /\ MaxScopeDepth \in Nat
      /\ MaxScopeDepth # 0
  BY ContextStoreAssumption DEF Store, Scope
<1>2. CASE s.cur.depth < e
  <2>1. t = s
    BY <1>2, PopScopeResult
  <2>2. Written(s, t)
    BY <2>1 DEF Written
  <2> QED
    BY <2>2 DEF StoreStep
<1>3. CASE ~ (s.cur.depth < e) /\ e > MaxScopeDepth + 1
  <2>1. t = [s EXCEPT !.cur.depth = e - 1]
    BY <1>3, PopScopeResult
  <2>2. e - 1 > 1 /\ s.cur.depth > 1
    BY <1>1, <1>3
  <2>3. Counted(s, t)
    BY <1>1, <2>1, <2>2 DEF Counted, Store, Scope
  <2> QED
    BY <2>3 DEF StoreStep
<1>4. CASE ~ (s.cur.depth < e) /\ ~ (e > MaxScopeDepth + 1)
  <2>1. t = Rewound(s, e - 1)
    BY <1>4, PopScopeResult
  <2>2. Len(s.chain) = IF s.cur.depth - 1 <= MaxScopeDepth
                       THEN s.cur.depth - 1 ELSE MaxScopeDepth
    <3>1. s.cur.depth - 1 \in Int /\ MaxScopeDepth \in Int
      BY <1>1
    <3> QED BY <3>1, MinOfTwo DEF WellLinked
  <2>3. e - 1 \in 1 .. Len(s.chain)
    BY <1>1, <1>4, <2>2
  <2> QED
    BY <2>1, <2>3 DEF StoreStep
<1> QED
  BY <1>2, <1>3, <1>4

\* Every step of the specification leaves a store of one of the kinds.
LEMMA NextStoreStep ==
  ASSUME IInv, [Next]_vars
  PROVE  store \in Store /\ WellLinked(store) /\ store' \in Store
           /\ StoreStep(store, store')
<1>1. store \in Store /\ WellLinked(store)
  BY DepthType
<1>2. store' \in Store
  BY NextIInv DEF IInv, TypeOK
<1>3. store.cur \in Scope /\ store.cur.values \in Values /\ NoVal \notin Vals
  BY <1>1, ContextStoreAssumption DEF Store, Scope
<1>4. ASSUME NEW g \in Slots, NEW name \in Names, Push(g, name)
      PROVE  StoreStep(store, store')
  BY <1>1, <1>4, PushStep DEF Push
<1>5. ASSUME NEW g \in Slots, DropGuard(g)
      PROVE  StoreStep(store, store')
  <2>1. guards[g].expected \in Nat /\ guards[g].expected >= 2
    BY <1>5, HeldGuard DEF IInv, GuardsAboveRoot, DropGuard
  <2> QED
    BY <1>1, <1>5, <2>1, PopStep DEF DropGuard
<1>6. ASSUME NEW k \in Keys, NEW v \in Vals, SetVariable(k, v)
      PROVE  StoreStep(store, store')
  <2>1. store' = SetValue(store, k, v)
    BY <1>6 DEF SetVariable
  <2>2. store'.cur = [store.cur EXCEPT !.values = [store.cur.values EXCEPT ![k] = v]]
        /\ store'.chain = store.chain /\ store'.frozen = store.frozen
    BY <1>1, <1>3, <2>1 DEF SetValue, Store
  <2>3. store'.cur.values = [store.cur.values EXCEPT ![k] = v]
    BY <1>3, <2>2 DEF Scope
  <2>4. \A h \in Keys : store'.cur.values[h] = NoVal => store.cur.values[h] = NoVal
    BY <1>3, <2>3 DEF Values
  <2>5. Written(store, store')
    BY <1>3, <2>2, <2>4 DEF Written, Scope
  <2> QED
    BY <2>5 DEF StoreStep
<1>7. ASSUME NEW values \in Values, Merge(values)
      PROVE  StoreStep(store, store')
  <2>1. store' = MergeValues(store, values)
    BY <1>7 DEF Merge
  <2>2. store'.cur = [store.cur EXCEPT !.values = Overlay(values, store.cur.values)]
        /\ store'.chain = store.chain /\ store'.frozen = store.frozen
    BY <1>1, <1>3, <2>1 DEF MergeValues, Store
  <2>3. store'.cur.values = Overlay(values, store.cur.values)
    BY <1>3, <2>2 DEF Scope
  <2>4. \A h \in Keys : store'.cur.values[h] = NoVal => store.cur.values[h] = NoVal
    BY <2>3 DEF Overlay
  <2>5. Written(store, store')
    BY <1>3, <2>2, <2>4 DEF Written, Scope
  <2> QED
    BY <2>5 DEF StoreStep
<1>8. Clear => StoreStep(store, store')
  BY DEF Clear, StoreStep
<1>9. UNCHANGED vars => StoreStep(store, store')
  BY DEF vars, StoreStep, Written
<1> QED
  BY <1>1, <1>2, <1>4, <1>5, <1>6, <1>7, <1>8, <1>9 DEF Next, Write

-----------------------------------------------------------------------------
(* Reads *)

\* Flattening the store and looking each key up give the same values
\* (collect_values and get_value of store.rs).
THEOREM SpecCollectAgreesWithLookup == Spec => []CollectAgreesWithLookup
<1>1. TypeOK => CollectAgreesWithLookup
  BY CollectValuesIsGetValue DEF TypeOK, CollectAgreesWithLookup
<1> QED BY <1>1, SpecTypeOK, PTL

\* The root scope of the store has no name.
RootHasNoName == RootUnnamed(store)

\* No step names the root scope.
LEMMA SpecRootHasNoName == Spec => [](IInv /\ RootHasNoName)
<1>1. Init => RootHasNoName
  BY RootUnnamedInit DEF Init, RootHasNoName
<1>2. IInv /\ RootHasNoName /\ [Next]_vars => RootHasNoName'
  <2> SUFFICES ASSUME IInv, RootUnnamed(store), [Next]_vars
               PROVE  RootUnnamed(store')
    BY DEF RootHasNoName
  <2>1. /\ store \in Store /\ WellLinked(store) /\ store' \in Store
        /\ StoreStep(store, store')
    BY NextStoreStep
  <2>2. CASE \E name \in Names : Linked(store, name, store')
    BY <2>1, <2>2, RootUnnamedPush DEF Linked
  <2>3. CASE \E i \in 1 .. Len(store.chain) : store' = Rewound(store, i)
    BY <2>1, <2>3, RootUnnamedRewound
  <2>4. CASE Counted(store, store')
    BY <2>1, <2>4 DEF Counted, RootUnnamed
  <2>5. CASE Written(store, store')
    BY <2>1, <2>5 DEF Written, RootUnnamed
  <2>6. CASE store' = NewStore
    BY <2>6, RootUnnamedInit
  <2> QED
    BY <2>1, <2>2, <2>3, <2>4, <2>5, <2>6 DEF StoreStep
<1> QED BY InitIInv, NextIInv, <1>1, <1>2, PTL DEF Spec

\* The limit on the chain drops the oldest names: the names of the local scopes
\* are the end of the chain before the limit, and the limit keeps the end.
LEMMA LimitKeepsNewest ==
  ASSUME TypeOK, ChainMatchesDepth, RootHasNoName
  PROVE  NewestScopesVisible
<1> DEFINE fz == NamesOf(store.frozen)
           r == store.cur.remote
           names == NamesOf(Append(store.chain, store.cur))
           full == FullChain(store)
           m == Len(names)
           n == Len(full)
           chain == ScopeChain(store)
           shown == IF MaxChainLen = 0 THEN m ELSE Min({m, MaxChainLen})
<1>1. store \in Store /\ WellLinked(store) /\ RootUnnamed(store)
  BY DEF TypeOK, ChainMatchesDepth, RootHasNoName
<1>2. NamesAbove(store.cur.base, Append(store.chain, store.cur)) = names
  BY <1>1, LocalNamesAllShown
<1>3. names \in Seq(Names) /\ fz \in Seq(Names) /\ full \in Seq(Names)
  BY <1>1, <1>2, FullChainType
<1>4. r \in Seq(Names)
  BY <1>1 DEF Store, Scope
<1>5. full = (r \o fz) \o names
  BY <1>2 DEF FullChain
<1>6. MaxChainLen \in Nat
  BY ContextStoreAssumption
<1>7. chain = IF MaxChainLen > 0 /\ n > MaxChainLen
              THEN SubSeq(full, n - MaxChainLen + 1, n) ELSE full
  BY DEF ScopeChain
<1> HIDE DEF names, fz, r, full, chain
<1>8. m \in Nat /\ n \in Nat /\ m <= n
  BY <1>3, <1>4, <1>5
<1>9. \A i \in 0 .. m - 1 : full[n - i] = names[m - i]
  <2> DEFINE p == r \o fz
  <2>1. p \in Seq(Names)
    BY <1>3, <1>4
  <2> HIDE DEF p
  <2>2. full = p \o names
    BY <1>5 DEF p
  <2>3. n = Len(p) + m
    BY <1>3, <2>1, <2>2
  <2> TAKE i \in 0 .. m - 1
  <2>4. m - i \in 1 .. m /\ n - i = Len(p) + (m - i)
    BY <1>8, <2>1, <2>3
  <2> QED
    BY <1>3, <2>1, <2>2, <2>4
<1>10. shown \in Nat /\ shown <= m /\ (MaxChainLen > 0 => shown <= MaxChainLen)
  <2>1. Min({m, MaxChainLen}) = IF m <= MaxChainLen THEN m ELSE MaxChainLen
    <3> HIDE DEF m
    <3>1. m \in Int /\ MaxChainLen \in Int
      BY <1>6, <1>8
    <3> QED BY <3>1, MinOfTwo
  <2> HIDE DEF m
  <2> QED
    BY <1>6, <1>8, <2>1
<1>11. /\ Len(chain) >= shown
       /\ \A i \in 0 .. shown - 1 : chain[Len(chain) - i] = names[Len(names) - i]
  <2>1. CASE MaxChainLen > 0 /\ n > MaxChainLen
    <3> DEFINE a == n - MaxChainLen + 1
    <3>1. a \in 1 .. n /\ n - a + 1 = MaxChainLen /\ a \in Int /\ n \in Int
      BY <1>6, <1>8, <2>1
    <3>2. \A i \in a .. n : full[i] \in Names
      BY <1>3, <1>6, <1>8, <2>1
    <3>3. chain = SubSeq(full, a, n)
      BY <1>7, <2>1
    <3> HIDE DEF a, n
    <3>4. /\ Len(SubSeq(full, a, n)) = MaxChainLen
          /\ \A i \in 1 .. MaxChainLen : SubSeq(full, a, n)[i] = full[a + i - 1]
      BY <1>6, <3>1, <3>2, SubSeqProperties
    <3>5. Len(chain) = MaxChainLen
      BY <3>3, <3>4
    <3>6. ASSUME NEW i \in 0 .. shown - 1
          PROVE  chain[MaxChainLen - i] = names[m - i]
      <4>1. MaxChainLen - i \in 1 .. MaxChainLen /\ i \in 0 .. m - 1
        BY <1>6, <1>8, <1>10, <2>1
      <4>2. a + (MaxChainLen - i) - 1 = n - i
        BY <1>6, <1>8, <3>1
      <4>3. chain[MaxChainLen - i] = full[n - i]
        BY <3>3, <3>4, <4>1, <4>2
      <4> QED
        BY <1>9, <4>1, <4>3
    <3>7. Len(chain) >= shown
      <4> HIDE DEF shown
      <4> QED BY <1>10, <2>1, <3>5
    <3> HIDE DEF shown
    <3> QED
      BY <3>5, <3>6, <3>7
  <2>2. CASE ~ (MaxChainLen > 0 /\ n > MaxChainLen)
    <3>1. chain = full
      BY <1>7, <2>2
    <3>2. Len(chain) = n
      BY <3>1
    <3>3. Len(chain) >= shown
      <4> HIDE DEF shown, m, n
      <4> QED BY <1>8, <1>10, <3>2
    <3>4. ASSUME NEW i \in 0 .. shown - 1
          PROVE  chain[Len(chain) - i] = names[Len(names) - i]
      <4>1. i \in 0 .. m - 1
        <5> HIDE DEF shown, m
        <5> QED BY <1>8, <1>10
      <4>2. full[n - i] = names[m - i]
        BY <1>9, <4>1
      <4> QED
        BY <3>1, <4>2
    <3> QED
      BY <3>3, <3>4
  <2> QED
    BY <2>1, <2>2
<1> QED
  BY <1>11 DEF NewestScopesVisible, names, chain

\* However long the chain, the innermost scopes stay visible, in order
\* (scope_chain's drain, and the base that hides the local root).
THEOREM SpecNewestScopesVisible == Spec => []NewestScopesVisible
<1>1. IInv => TypeOK /\ ChainMatchesDepth
  BY DEF IInv
<1> QED BY <1>1, LimitKeepsNewest, SpecRootHasNoName, PTL

\* Whatever the store has become, and whatever depth a guard asks for, the scope
\* that PopScope names is where the loop of pop_scope ends.
THEOREM SpecPopMatchesLoop == Spec => []PopMatchesLoop
<1>1. IInv /\ RootHasNoName => PopMatchesLoop
  <2> SUFFICES ASSUME IInv, RootHasNoName  PROVE PopMatchesLoop
    OBVIOUS
  <2>1. SoundStore(store)
    BY DEF IInv, TypeOK, ChainMatchesDepth, RootHasNoName, SoundStore
  <2>2. ASSUME NEW d \in 0 .. store.cur.depth + 1
        PROVE  PopScope(store, d) = PopLoop(store, d)
    <3>1. d \in Nat
      BY <2>1, SoundDepth
    <3> QED BY <2>1, <3>1, PopLoopResult
  <2> QED BY <2>2 DEF PopMatchesLoop
<1> QED BY <1>1, SpecRootHasNoName, PTL

-----------------------------------------------------------------------------
(* The cached copies *)

\* A cached key that is read from a scope is found in it.
CachedLocal(s) ==
  s.cur.depth > 1 \/ s.frozen = <<>> =>
    \A k \in CachedKeys : GetValue(s, k) # NoVal => s.cur.values[k] # NoVal

\* Every scope on the stack has its copies, not only the active one: it is what
\* a pop brings back.
CachedCopies ==
  \A i \in 1 .. Len(store.chain) + 1 : CachedLocal(Unwind(store, i))

\* A root scope on its own has all that can be read.
LEMMA CachedCopiesInit == Init => CachedCopies
<1> SUFFICES ASSUME Init  PROVE CachedCopies
  OBVIOUS
<1>1. store \in Store /\ store.cur.depth \in Nat
  BY InitIInv, DepthType
<1>2. store.cur.depth = 1 /\ store.chain = <<>>
  BY DEF Init, NewStore, FromValuesWithChain, ForkChild, RootScope
<1>3. CachedLocal(store)
  <2> SUFFICES ASSUME store.frozen = <<>>, NEW k \in CachedKeys,
                      store.cur.values[k] = NoVal
               PROVE  GetValue(store, k) = NoVal
    BY <1>2 DEF CachedLocal
  <2>1. Under(store) = <<>>
    BY <1>2 DEF Under
  <2> QED
    BY <1>1, <2>1, GetValueCases, LookInEmpty
<1>4. \A i \in 1 .. Len(store.chain) + 1 : Unwind(store, i) = store
  <2>1. Len(store.chain) = 0
    BY <1>2
  <2>2. \A i \in 1 .. Len(store.chain) + 1 : i = Len(store.chain) + 1
    BY <2>1
  <2> QED
    BY <1>1, <2>2, UnwindTop
<1> QED
  BY <1>3, <1>4 DEF CachedCopies

\* A write keeps what the active scope has, and a lookup that finds nothing in
\* it finds what it found before.
LEMMA CachedLocalWritten ==
  ASSUME NEW s \in Store, NEW t \in Store, Written(s, t), CachedLocal(s)
  PROVE  CachedLocal(t)
<1> SUFFICES ASSUME t.cur.depth > 1 \/ t.frozen = <<>>, NEW k \in CachedKeys,
                    t.cur.values[k] = NoVal
             PROVE  GetValue(t, k) = NoVal
  BY DEF CachedLocal
<1>1. k \in Keys
  BY ScopedContextAssumption
<1>2. s.cur.values[k] = NoVal /\ Under(t) = Under(s)
  BY <1>1 DEF Written, Under
<1>3. GetValue(s, k) = NoVal
  BY <1>2 DEF CachedLocal, Written
<1> QED
  BY <1>2, <1>3, GetValueCases

\* Every step leaves every scope with its copies.
LEMMA CachedCopiesStep ==
  ASSUME NEW s \in Store, WellLinked(s), NEW t \in Store, StoreStep(s, t),
         \A i \in 1 .. Len(s.chain) + 1 : CachedLocal(Unwind(s, i))
  PROVE  \A i \in 1 .. Len(t.chain) + 1 : CachedLocal(Unwind(t, i))
<1>1. Len(s.chain) \in Nat /\ Len(t.chain) \in Nat
  BY DEF Store
<1>2. CachedLocal(s)
  <2>1. Len(s.chain) + 1 \in 1 .. Len(s.chain) + 1
    BY <1>1
  <2> QED
    BY <2>1, UnwindTop
<1> TAKE i \in 1 .. Len(t.chain) + 1
<1>3. ASSUME NEW name \in Names, Linked(s, name, t)
      PROVE  CachedLocal(Unwind(t, i))
  <2>1. /\ s.cur.depth + 1 <= MaxScopeDepth + 1
        /\ t = PushScope(s, name, CachedKeys)
    BY <1>3 DEF Linked
  <2>2. /\ Len(t.chain) = Len(s.chain) + 1
        /\ \A j \in 1 .. Len(s.chain) + 1 : Unwind(t, j) = Unwind(s, j)
    BY <2>1, UnwindPushed
  <2>3. CASE i = Len(t.chain) + 1
    <3>1. \A k \in CachedKeys : t.cur.values[k] = GetValue(t, k)
      BY <2>1, PushedReads, ScopedContextAssumption
    <3> QED
      BY <2>3, <3>1, UnwindTop DEF CachedLocal
  <2>4. CASE i # Len(t.chain) + 1
    <3>1. i \in 1 .. Len(s.chain) + 1
      BY <1>1, <2>2, <2>4
    <3> QED
      BY <2>2, <3>1
  <2> QED
    BY <2>3, <2>4
<1>4. ASSUME NEW j \in 1 .. Len(s.chain), t = Rewound(s, j)
      PROVE  CachedLocal(Unwind(t, i))
  <2>1. Len(t.chain) = j - 1
    BY <1>4, RewoundType
  <2>2. i \in 1 .. j /\ i \in 1 .. Len(s.chain) + 1
    BY <1>1, <2>1
  <2>3. Unwind(t, i) = Unwind(s, i)
    BY <1>4, <2>2, UnwindRewound
  <2> QED
    BY <2>2, <2>3
<1>5. ASSUME t.chain = s.chain, t.frozen = s.frozen, CachedLocal(t)
      PROVE  CachedLocal(Unwind(t, i))
  <2>1. CASE i = Len(t.chain) + 1
    BY <1>5, <2>1, UnwindTop
  <2>2. CASE i # Len(t.chain) + 1
    <3>1. i \in 1 .. Len(s.chain) /\ i \in 1 .. Len(s.chain) + 1
      BY <1>1, <1>5, <2>2
    <3> QED
      BY <1>5, <3>1, UnwindSame
  <2> QED
    BY <2>1, <2>2
<1>6. CASE Counted(s, t)
  <2>1. \A k : GetValue(t, k) = GetValue(s, k)
    BY <1>6, CountedReads DEF Counted
  <2>2. CachedLocal(t)
    BY <1>2, <1>6, <2>1 DEF Counted, CachedLocal
  <2> QED
    BY <1>5, <1>6, <2>2 DEF Counted
<1>7. CASE Written(s, t)
  <2>1. CachedLocal(t)
    BY <1>2, <1>7, CachedLocalWritten
  <2> QED
    BY <1>5, <1>7, <2>1 DEF Written
<1>8. CASE t = NewStore
  <2>1. t.chain = <<>>
    BY <1>8 DEF NewStore
  <2>2. i = Len(t.chain) + 1
    BY <2>1
  <2>3. \A k \in CachedKeys : GetValue(t, k) = NoVal
    BY <1>8, NewStoreReads, ScopedContextAssumption
  <2> QED
    BY <2>2, <2>3, UnwindTop DEF CachedLocal
<1> QED
  BY <1>3, <1>4, <1>6, <1>7, <1>8 DEF StoreStep

\* A cached key never needs a walk: its value, if any, is in the active scope,
\* also after any pop (push_scope's copies, pop_scope's saved values).
THEOREM SpecCachedReadsAreLocal == Spec => []CachedReadsAreLocal
<1>1. IInv /\ CachedCopies /\ [Next]_vars => CachedCopies'
  <2> SUFFICES ASSUME IInv, CachedCopies, [Next]_vars
               PROVE  CachedCopies'
    OBVIOUS
  <2>1. /\ store \in Store /\ WellLinked(store) /\ store' \in Store
        /\ StoreStep(store, store')
    BY NextStoreStep
  <2> QED
    BY <2>1, CachedCopiesStep DEF CachedCopies
<1>2. IInv /\ CachedCopies => CachedReadsAreLocal
  <2> SUFFICES ASSUME IInv, CachedCopies  PROVE CachedReadsAreLocal
    OBVIOUS
  <2>1. store \in Store /\ Len(store.chain) \in Nat
    BY DepthType
  <2>2. Len(store.chain) + 1 \in 1 .. Len(store.chain) + 1
    BY <2>1
  <2>3. CachedLocal(store)
    BY <2>1, <2>2, UnwindTop DEF CachedCopies
  <2> QED
    BY <2>3 DEF CachedLocal, CachedReadsAreLocal
<1> QED BY InitIInv, NextIInv, CachedCopiesInit, <1>1, <1>2, PTL DEF Spec

-----------------------------------------------------------------------------
(* Refinement *)

\* What the caller sees of a store.
PictureOf(s) ==
  [view |-> [k \in Keys |-> GetValue(s, k)], trail |-> FullChain(s)]

\* The picture of each of its scopes.
PicturesOf(s) == [i \in 1 .. Len(s.chain) + 1 |-> PictureOf(Unwind(s, i))]

\* A store has a picture for each node of the chain and one for itself.
LEMMA PicturesProperties ==
  ASSUME NEW s \in Store
  PROVE  /\ PictureOf(s) \in Abs!Picture
         /\ PicturesOf(s) \in Seq(Abs!Picture)
         /\ Len(PicturesOf(s)) = Len(s.chain) + 1
         /\ PicturesOf(s)[Len(s.chain) + 1] = PictureOf(s)
<1>1. Len(s.chain) \in Nat
  BY DEF Store
<1>2. ASSUME NEW t \in Store  PROVE PictureOf(t) \in Abs!Picture
  <2>1. [k \in Keys |-> GetValue(t, k)] \in [Keys -> Vals \cup {NoVal}]
    BY GetValueType
  <2>2. FullChain(t) \in Seq(Names)
    BY FullChainType
  <2> QED
    BY <2>1, <2>2 DEF PictureOf, Abs!Picture
<1>3. \A i \in 1 .. Len(s.chain) + 1 : PictureOf(Unwind(s, i)) \in Abs!Picture
  BY <1>2, UnwindType
<1>4. Len(s.chain) + 1 \in 1 .. Len(s.chain) + 1 /\ Len(s.chain) + 1 \in Nat
  BY <1>1
<1>5. PicturesOf(s) \in Seq(Abs!Picture) /\ Len(PicturesOf(s)) = Len(s.chain) + 1
  BY <1>3, <1>4 DEF PicturesOf
<1>6. PicturesOf(s)[Len(s.chain) + 1] = PictureOf(s)
  BY <1>4, UnwindTop DEF PicturesOf
<1> QED
  BY <1>2, <1>5, <1>6

\* A real push lays a picture on the others: the one under it, with one more
\* name.
LEMMA PushedPictures ==
  ASSUME NEW s \in Store, WellLinked(s), NEW name \in Names, NEW t,
         Linked(s, name, t)
  PROVE  PicturesOf(t) = Append(PicturesOf(s),
           [PictureOf(s) EXCEPT !.trail = Append(FullChain(s), name)])
<1> DEFINE n == Len(s.chain) + 1
           new == [PictureOf(s) EXCEPT !.trail = Append(FullChain(s), name)]
           p == PicturesOf(s)
<1>1. s.cur.depth + 1 <= MaxScopeDepth + 1 /\ t = PushScope(s, name, CachedKeys)
  BY DEF Linked
<1>2. t \in Store
  BY <1>1, PushScopeReal
<1>3. /\ Len(t.chain) = n
      /\ \A i \in 1 .. n : Unwind(t, i) = Unwind(s, i)
  BY <1>1, UnwindPushed
<1>4. n \in Nat
  BY DEF Store
<1>5. PictureOf(t) = new
  <2>1. [k \in Keys |-> GetValue(t, k)] = [k \in Keys |-> GetValue(s, k)]
    BY <1>1, PushedReads
  <2>2. FullChain(t) = Append(FullChain(s), name)
    BY <1>1, PushedReads
  <2> DEFINE v == [k \in Keys |-> GetValue(s, k)]
  <2>3. PictureOf(s) = [view |-> v, trail |-> FullChain(s)]
    BY DEF PictureOf
  <2>4. PictureOf(t) = [view |-> v, trail |-> Append(FullChain(s), name)]
    BY <2>1, <2>2 DEF PictureOf
  <2> HIDE DEF v
  <2>5. new = [[view |-> v, trail |-> FullChain(s)] EXCEPT
                 !.trail = Append(FullChain(s), name)]
    BY <2>3
  <2>6. new = [view |-> v, trail |-> Append(FullChain(s), name)]
    <3> DEFINE a == FullChain(s)
               b == Append(FullChain(s), name)
    <3> HIDE DEF a, b, new
    <3> QED BY <2>5 DEF a, b
  <2> HIDE DEF new
  <2> QED
    BY <2>4, <2>6
<1>6. /\ PicturesOf(t) \in Seq(Abs!Picture) /\ Len(PicturesOf(t)) = n + 1
      /\ \A i \in 1 .. n + 1 : PicturesOf(t)[i] = PictureOf(Unwind(t, i))
  BY <1>2, <1>3, PicturesProperties DEF PicturesOf
<1>7. Unwind(t, n + 1) = t
  BY <1>2, <1>3, UnwindTop
<1>8. p \in Seq(Abs!Picture) /\ Len(p) = n
      /\ \A i \in 1 .. n : p[i] = PictureOf(Unwind(s, i))
  BY PicturesProperties DEF PicturesOf
<1> HIDE DEF n, new, p
<1>9. /\ Append(p, new) \in Seq(Abs!Picture) /\ Len(Append(p, new)) = n + 1
      /\ \A i \in 1 .. n + 1 :
           Append(p, new)[i] = IF i = n + 1 THEN new ELSE p[i]
  <2>1. new \in Abs!Picture
    BY <1>2, <1>5, PicturesProperties
  <2> QED
    BY <1>4, <1>8, <2>1
<1>10. \A i \in 1 .. n + 1 :
         PictureOf(Unwind(t, i)) = IF i = n + 1 THEN new ELSE p[i]
  <2> TAKE i \in 1 .. n + 1
  <2>1. CASE i = n + 1
    BY <1>5, <1>7, <2>1
  <2>2. CASE i # n + 1
    <3>1. i \in 1 .. n
      BY <1>4, <2>2
    <3> QED
      BY <1>3, <1>4, <1>8, <2>2, <3>1
  <2> QED
    BY <2>1, <2>2
<1>11. PicturesOf(t) = Append(p, new)
  <2>1. \A i \in 1 .. n + 1 : PicturesOf(t)[i] = Append(p, new)[i]
    BY <1>6, <1>9, <1>10
  <2> QED
    BY <1>6, <1>9, <2>1, SeqEqual
<1> QED
  BY <1>11 DEF p, new

\* Where only the active scope changes, only the last picture does.
LEMMA TopPictureChanges ==
  ASSUME NEW s \in Store, NEW t \in Store, t.chain = s.chain, t.frozen = s.frozen
  PROVE  PicturesOf(t) = [PicturesOf(s) EXCEPT ![Len(s.chain) + 1] = PictureOf(t)]
<1> DEFINE n == Len(s.chain)
           p == PicturesOf(s)
<1>1. n \in Nat
  BY DEF Store
<1>2. p = [i \in 1 .. n + 1 |-> PictureOf(Unwind(s, i))]
  BY DEF PicturesOf
<1>3. PicturesOf(t) = [i \in 1 .. n + 1 |-> PictureOf(Unwind(t, i))]
  BY DEF PicturesOf
<1>4. Unwind(t, n + 1) = t
  BY UnwindTop
<1>5. \A i \in 1 .. n : Unwind(t, i) = Unwind(s, i)
  BY UnwindSame
<1> HIDE DEF n, p
<1>6. \A i \in 1 .. n + 1 : i # n + 1 => i \in 1 .. n
  BY <1>1
<1>7. [p EXCEPT ![n + 1] = PictureOf(t)]
        = [i \in 1 .. n + 1 |-> IF i = n + 1 THEN PictureOf(t)
                                ELSE PictureOf(Unwind(s, i))]
  BY <1>2
<1>8. \A i \in 1 .. n + 1 :
        PictureOf(Unwind(t, i)) = IF i = n + 1 THEN PictureOf(t)
                                  ELSE PictureOf(Unwind(s, i))
  BY <1>4, <1>5, <1>6
<1> QED
  BY <1>3, <1>7, <1>8 DEF n, p

\* Going back to a node discards the pictures above it.
LEMMA RewoundPictures ==
  ASSUME NEW s \in Store, NEW i \in 1 .. Len(s.chain)
  PROVE  PicturesOf(Rewound(s, i)) = SubSeq(PicturesOf(s), 1, i)
<1> DEFINE t == Rewound(s, i)
           p == PicturesOf(s)
           n == Len(s.chain)
<1>1. n \in Nat /\ i \in 1 .. n
  BY DEF Store
<1>2. t \in Store /\ Len(t.chain) = i - 1
  BY RewoundType
<1>3. \A j \in 1 .. i : Unwind(t, j) = Unwind(s, j)
  BY UnwindRewound
<1>4. PicturesOf(t) = [j \in 1 .. i |-> PictureOf(Unwind(t, j))]
  <2>1. Len(t.chain) + 1 = i
    BY <1>1, <1>2
  <2> HIDE DEF t
  <2> QED BY <2>1 DEF PicturesOf
<1>5. /\ p \in Seq(Abs!Picture)
      /\ Len(p) = n + 1
      /\ \A j \in 1 .. n + 1 : p[j] = PictureOf(Unwind(s, j))
  BY PicturesProperties DEF PicturesOf
<1> HIDE DEF t, p, n
<1>6. PicturesOf(t) \in Seq(Abs!Picture) /\ Len(PicturesOf(t)) = i
  <2>1. Len(t.chain) + 1 = i
    BY <1>1, <1>2
  <2> QED BY <1>2, <2>1, PicturesProperties
<1>7. \A j \in 1 .. i : j \in 1 .. n + 1 /\ PicturesOf(t)[j] = p[j]
  BY <1>1, <1>3, <1>4, <1>5
<1>8. /\ SubSeq(p, 1, i) \in Seq(Abs!Picture)
      /\ Len(SubSeq(p, 1, i)) = i
      /\ \A j \in 1 .. i : SubSeq(p, 1, i)[j] = p[j]
  <2>1. \A j \in 1 .. i : p[j] \in Abs!Picture
    BY <1>1, <1>5
  <2>2. 1 \in Int /\ i \in Int /\ i >= 1
    BY <1>1
  <2> QED BY <2>1, <2>2, SubSeqProperties
<1>9. PicturesOf(t) = SubSeq(p, 1, i)
  BY <1>6, <1>7, <1>8, SeqEqual
<1> QED
  BY <1>9 DEF t, p

\* Each kind of step is a step of ScopeStack, or changes no picture.
LEMMA StoreStepImplements ==
  ASSUME store \in Store, WellLinked(store), store' \in Store,
         StoreStep(store, store')
  PROVE  [Abs!Next]_Pictures
<1> DEFINE n == Len(store.chain) + 1
<1>1. Pictures = PicturesOf(store) /\ Pictures' = PicturesOf(store')
  BY DEF Pictures, PicturesOf, PictureAt, PictureOf
<1>2. n \in Nat /\ n >= 1
  BY DEF Store
<1>3. /\ Len(Pictures) = n /\ Pictures[n] = PictureOf(store)
      /\ Pictures \in Seq(Abs!Picture)
  BY <1>1, PicturesProperties
<1>4. ASSUME NEW name \in Names, Linked(store, name, store')
      PROVE  Abs!Enter
  <2>1. Pictures' = Append(Pictures,
          [PictureOf(store) EXCEPT !.trail = Append(FullChain(store), name)])
    BY <1>1, <1>4, PushedPictures
  <2>2. Abs!Top = PictureOf(store) /\ PictureOf(store).trail = FullChain(store)
    BY <1>3 DEF Abs!Top, PictureOf
  <2> QED
    BY <2>1, <2>2 DEF Abs!Enter
<1>5. ASSUME NEW i \in 1 .. Len(store.chain), store' = Rewound(store, i)
      PROVE  Abs!Leave
  <2>1. Pictures' = SubSeq(Pictures, 1, i)
    BY <1>1, <1>5, RewoundPictures
  <2>2. i \in 1 .. Len(Pictures) - 1
    BY <1>2, <1>3
  <2> QED
    BY <2>1, <2>2 DEF Abs!Leave
<1>6. ASSUME store'.chain = store.chain, store'.frozen = store.frozen
      PROVE  Pictures' = [Pictures EXCEPT ![n] = PictureOf(store')]
  BY <1>1, <1>6, TopPictureChanges
<1>7. CASE Counted(store, store')
  <2>1. [k \in Keys |-> GetValue(store', k)] = [k \in Keys |-> GetValue(store, k)]
    BY <1>7, CountedReads DEF Counted
  <2>2. FullChain(store') = FullChain(store)
    BY <1>7, FullChainAgree DEF Counted
  <2>3. PictureOf(store') = Pictures[n]
    BY <1>3, <2>1, <2>2 DEF PictureOf
  <2>4. Pictures' = [Pictures EXCEPT ![n] = PictureOf(store')]
    BY <1>6, <1>7 DEF Counted
  <2>5. UNCHANGED Pictures
    BY <1>2, <1>3, <2>3, <2>4
  <2> QED
    BY <2>5
<1>8. CASE Written(store, store')
  <2> DEFINE view == [k \in Keys |-> GetValue(store', k)]
  <2>1. view \in [Keys -> Vals \cup {NoVal}]
    BY GetValueType
  <2>2. FullChain(store') = FullChain(store)
    BY <1>8, FullChainAgree DEF Written
  <2>3. PictureOf(store') = [Pictures[n] EXCEPT !.view = view]
    BY <1>3, <2>2 DEF PictureOf
  <2>4. Pictures' = [Pictures EXCEPT ![n] = PictureOf(store')]
    BY <1>6, <1>8 DEF Written
  <2> HIDE DEF view
  <2>5. Pictures' = [Pictures EXCEPT ![Len(Pictures)].view = view]
    BY <1>3, <2>3, <2>4
  <2>6. Abs!Write
    BY <2>1, <2>5 DEF Abs!Write
  <2> QED
    BY <2>6 DEF Abs!Next
<1>9. CASE store' = NewStore
  <2>1. Len(store'.chain) + 1 = 1
    BY <1>9 DEF NewStore
  <2>2. /\ Len(PicturesOf(store')) = 1
        /\ PicturesOf(store')[1] = PictureOf(store')
        /\ PicturesOf(store') \in Seq(Abs!Picture)
    BY <2>1, PicturesProperties
  <2>3. PictureOf(store') = [view |-> [k \in Keys |-> NoVal], trail |-> <<>>]
    BY <1>9, NewStoreReads DEF PictureOf
  <2>4. PicturesOf(store') = << PictureOf(store') >>
    BY <2>2
  <2>5. Abs!Clear
    BY <1>1, <2>3, <2>4 DEF Abs!Clear
  <2> QED
    BY <2>5 DEF Abs!Next
<1>10. (\E name \in Names : Linked(store, name, store')) => [Abs!Next]_Pictures
  BY <1>4 DEF Abs!Next
<1>11. (\E i \in 1 .. Len(store.chain) : store' = Rewound(store, i))
         => [Abs!Next]_Pictures
  BY <1>5 DEF Abs!Next
<1> QED
  BY <1>7, <1>8, <1>9, <1>10, <1>11 DEF StoreStep

\* The sparse scopes, the cached copies, the dead scopes and the forked parent
\* implement a stack of complete pictures (the contract of store.rs).
THEOREM SpecImplementsScopeStack == Spec => ImplementsScopeStack
<1>1. Init => Abs!Init
  <2> SUFFICES ASSUME Init  PROVE Abs!Init
    OBVIOUS
  <2>1. store \in Store
    BY InitIInv, DepthType
  <2>2. Len(store.chain) + 1 = 1
    BY DEF Init, NewStore, FromValuesWithChain, ForkChild
  <2>3. Pictures = PicturesOf(store)
    BY DEF Pictures, PicturesOf, PictureAt, PictureOf
  <2>4. Len(Pictures) = 1 /\ Pictures \in Seq(Abs!Picture)
    BY <2>1, <2>2, <2>3, PicturesProperties
  <2> QED
    BY <2>4 DEF Abs!Init
<1>2. IInv /\ [Next]_vars => [Abs!Next]_Pictures
  BY NextStoreStep, StoreStepImplements
<1> QED BY InitIInv, NextIInv, <1>1, <1>2, PTL
    DEF Spec, ImplementsScopeStack, Abs!Spec

=============================================================================
