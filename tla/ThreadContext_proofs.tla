------------------------ MODULE ThreadContext_proofs ------------------------
(***************************************************************************)
(* The safety of ThreadContext, for any number of guards, boxes, keys,     *)
(* values and names, any limits on depth and chain, and guards dropped in  *)
(* any order.                                                              *)
(*                                                                         *)
(* The inductive invariant is about every store there is, not only the one *)
(* in the cell: the drop of a guard brings others back.                    *)
(***************************************************************************)
EXTENDS ThreadContext, ContextStore_proofs

-----------------------------------------------------------------------------
(* The inductive invariant *)

GoodCells == [home : BOOLEAN, store : SoundStores]

GoodGuards == [kind : {"scope"}, expected : Depths]
                \cup [kind : {"attach"}, prev : GoodCells]
                \cup [kind : {"pair"}, prev : GoodCells, expected : Depths]

GoodBoxes == Snapshot \cup [kind : {"store"}, store : SoundStores] \cup {Empty}

\* Every store in the cell, in a guard and in a box is sound, and no guard
\* names the root scope.
IInv ==
  /\ cell \in GoodCells
  /\ guards \in Seq(GoodGuards)
  /\ box \in [Boxes -> GoodBoxes]
  /\ nested \in BOOLEAN

\* The other store that a cell is given, and the one it is moved into.
LEMMA CellProperties ==
  ASSUME NEW c \in GoodCells
  PROVE  /\ SoundStore(c.store) /\ c.home \in BOOLEAN
         /\ \A s \in SoundStores : /\ [c EXCEPT !.store = s] \in GoodCells
                                   /\ [c EXCEPT !.store = s].home = c.home
                                   /\ [c EXCEPT !.store = s].store = s
                                   /\ Attached(s) \in GoodCells
                                   /\ Attached(s).store = s
  BY DEF GoodCells, SoundStores, Attached

\* Popping scopes of a cell's store leaves it where it is.
LEMMA PoppedProperties ==
  ASSUME NEW c \in GoodCells, NEW e \in Depths
  PROVE  /\ Popped(c, e) \in GoodCells
         /\ Popped(c, e).home = c.home
         /\ Popped(c, e).store = PopScope(c.store, e)
<1>1. SoundStore(c.store) /\ e \in Nat /\ e >= 2
  BY CellProperties DEF Depths
<1>2. PopScope(c.store, e) \in SoundStores
  BY <1>1, SoundPop, SoundIsStore
<1>3. Popped(c, e) = [c EXCEPT !.store = PopScope(c.store, e)]
  BY DEF Popped
<1> QED
  BY <1>2, <1>3, CellProperties

\* The drop of a guard, by its kind.
LEMMA DroppedProperties ==
  ASSUME NEW c \in GoodCells, NEW g \in GoodGuards
  PROVE  /\ Dropped(c, g) \in GoodCells
         /\ g.kind = "scope" =>
              g.expected \in Depths /\ Dropped(c, g) = Popped(c, g.expected)
         /\ g.kind = "attach" => g.prev \in GoodCells /\ Dropped(c, g) = g.prev
         /\ g.kind = "pair" =>
              /\ g.prev \in GoodCells /\ g.expected \in Depths
              /\ Dropped(c, g) = Popped(g.prev, g.expected)
         /\ g.kind \in {"scope", "attach", "pair"}
<1>1. CASE g \in [kind : {"scope"}, expected : Depths]
  <2>1. g.kind = "scope" /\ g.expected \in Depths
    BY <1>1
  <2>2. Dropped(c, g) = Popped(c, g.expected)
    BY <2>1 DEF Dropped
  <2> QED
    BY <2>1, <2>2, PoppedProperties
<1>2. CASE g \in [kind : {"attach"}, prev : GoodCells]
  <2>1. g.kind = "attach" /\ g.prev \in GoodCells
    BY <1>2
  <2>2. Dropped(c, g) = g.prev
    BY <2>1 DEF Dropped
  <2> QED
    BY <2>1, <2>2
<1>3. CASE g \in [kind : {"pair"}, prev : GoodCells, expected : Depths]
  <2>1. g.kind = "pair" /\ g.prev \in GoodCells /\ g.expected \in Depths
    BY <1>3
  <2>2. Dropped(c, g) = Popped(g.prev, g.expected)
    BY <2>1 DEF Dropped
  <2> QED
    BY <2>1, <2>2, PoppedProperties
<1> QED
  BY <1>1, <1>2, <1>3 DEF GoodGuards

\* What is in a box.
LEMMA BoxProperties ==
  ASSUME NEW x \in GoodBoxes, x # Empty
  PROVE  /\ x.kind = "snapshot" => x \in Snapshot
         /\ x.kind = "store" => x.store \in SoundStores /\ SoundStore(x.store)
  BY DEF GoodBoxes, Snapshot, SoundStores

\* The thread starts sound.
LEMMA InitIInv == Init => IInv
<1> SUFFICES ASSUME Init  PROVE IInv
  OBVIOUS
<1>1. NewStore \in SoundStores
  BY SoundNew, SoundIsStore
<1>2. cell \in GoodCells
  BY <1>1 DEF Init, GoodCells
<1>3. guards \in Seq(GoodGuards)
  BY DEF Init
<1>4. box \in [Boxes -> GoodBoxes] /\ nested \in BOOLEAN
  BY DEF Init, GoodBoxes
<1> QED
  BY <1>2, <1>3, <1>4 DEF IInv

\* The guards that remain when one is taken out of the list.
LEMMA RemoveAtProperties ==
  ASSUME NEW S, NEW q \in Seq(S), NEW i \in 1 .. Len(q)
  PROVE  /\ RemoveAt(q, i) \in Seq(S)
         /\ i = Len(q) => /\ Len(RemoveAt(q, i)) = Len(q) - 1
                          /\ \A j \in 1 .. Len(q) - 1 : RemoveAt(q, i)[j] = q[j]
                          /\ q = Append(RemoveAt(q, i), q[Len(q)])
<1> DEFINE n == Len(q)
           a == SubSeq(q, 1, i - 1)
           b == SubSeq(q, i + 1, n)
<1>1. n \in Nat /\ i \in Int /\ i >= 1 /\ i <= n
  OBVIOUS
<1>2. a \in Seq(S) /\ Len(a) = i - 1 /\ \A j \in 1 .. i - 1 : a[j] = q[j]
  <2>1. 1 \in Int /\ i - 1 \in Int /\ \A j \in 1 .. i - 1 : q[j] \in S
    BY <1>1
  <2> QED
    BY <1>1, <2>1, SubSeqProperties
<1>3. b \in Seq(S) /\ (i = n => Len(b) = 0)
  <2>1. i + 1 \in Int /\ n \in Int /\ \A j \in i + 1 .. n : q[j] \in S
    BY <1>1
  <2> QED
    BY <1>1, <2>1, SubSeqProperties
<1>4. RemoveAt(q, i) = a \o b
  BY DEF RemoveAt
<1> HIDE DEF a, b
<1>5. RemoveAt(q, i) \in Seq(S)
  BY <1>2, <1>3, <1>4
<1>6. ASSUME i = n
      PROVE  /\ Len(RemoveAt(q, i)) = n - 1
             /\ \A j \in 1 .. n - 1 : RemoveAt(q, i)[j] = q[j]
             /\ q = Append(RemoveAt(q, i), q[n])
  <2>1. Len(b) = 0
    BY <1>3, <1>6
  <2>2. b = <<>>
    BY <1>3, <2>1, EmptySeq
  <2>3. a \o b = a
    BY <1>2, <2>2
  <2>4. /\ Len(RemoveAt(q, i)) = n - 1
        /\ \A j \in 1 .. n - 1 : RemoveAt(q, i)[j] = q[j]
    BY <1>2, <1>4, <1>6, <2>3
  <2> DEFINE r == Append(a, q[n])
  <2>5. q[n] \in S
    BY <1>1
  <2>6. r \in Seq(S) /\ Len(r) = n /\ \A j \in 1 .. n : r[j] = q[j]
    BY <1>1, <1>2, <1>6, <2>5
  <2> HIDE DEF r
  <2>7. q = r
    BY <2>6, SeqEqual
  <2> QED
    BY <1>4, <2>3, <2>4, <2>7 DEF r
<1> QED
  BY <1>5, <1>6

\* An operation on the store in the cell keeps everything good.
LEMMA OnStoreIInv ==
  ASSUME IInv, NEW s \in SoundStores, OnStore(s),
         guards' \in Seq(GoodGuards), box' \in [Boxes -> GoodBoxes],
         nested' \in BOOLEAN
  PROVE  IInv'
  BY CellProperties DEF IInv, OnStore

\* A store attached as the root keeps everything good: the guard has the cell
\* that there was.
LEMMA AttachIInv ==
  ASSUME IInv, NEW s \in SoundStores, AttachAsRoot(s),
         box' \in [Boxes -> GoodBoxes], nested' \in BOOLEAN
  PROVE  IInv'
<1>1. cell' = Attached(s) /\ guards' = Append(guards, [kind |-> "attach", prev |-> cell])
  BY DEF AttachAsRoot
<1>2. cell \in GoodCells /\ guards \in Seq(GoodGuards)
  BY DEF IInv
<1>3. cell' \in GoodCells
  BY <1>1, <1>2, CellProperties
<1>4. [kind |-> "attach", prev |-> cell] \in GoodGuards
  BY <1>2 DEF GoodGuards
<1>5. guards' \in Seq(GoodGuards)
  BY <1>1, <1>2, <1>4
<1> QED
  BY <1>3, <1>5 DEF IInv

\* What attach_snapshot_with_scope makes of a snapshot: a root and one scope.
LEMMA PushedSnapshot ==
  ASSUME NEW snap \in Snapshot, NEW name \in Names
  PROVE  /\ PushScope(StoreFromSnapshot(snap, LocalKeys, ValidVals), name, CachedKeys)
              \in SoundStores
         /\ PushScope(StoreFromSnapshot(snap, LocalKeys, ValidVals), name, CachedKeys)
              .cur.depth = 2
<1> DEFINE s == StoreFromSnapshot(snap, LocalKeys, ValidVals)
<1>1. SoundStore(s) /\ s.cur.depth = 1
  BY StoreFromSnapshotProperties
<1> HIDE DEF s
<1>2. /\ SoundStore(PushScope(s, name, CachedKeys))
      /\ PushScope(s, name, CachedKeys).cur.depth = 2
  BY <1>1, SoundPush
<1> QED
  BY <1>2, SoundIsStore DEF s

\* Every step of the specification preserves the inductive invariant.
LEMMA NextIInv == IInv /\ [Next]_vars => IInv'
<1> SUFFICES ASSUME IInv, [Next]_vars  PROVE IInv'
  OBVIOUS
<1>1. /\ cell \in GoodCells /\ guards \in Seq(GoodGuards)
      /\ box \in [Boxes -> GoodBoxes] /\ nested \in BOOLEAN
      /\ SoundStore(cell.store) /\ cell.store \in Store
  BY CellProperties DEF IInv, SoundStore
<1>2. \A b \in Boxes : box[b] \in GoodBoxes
  BY <1>1
<1>3. \A b \in Boxes, x \in GoodBoxes : [box EXCEPT ![b] = x] \in [Boxes -> GoodBoxes]
  BY <1>1
<1>4. ASSUME NEW k \in Keys, NEW v \in Vals, SetVariable(k, v), UNCHANGED nested
      PROVE  IInv'
  <2>1. SetValue(cell.store, k, v) \in SoundStores
    BY <1>1, SoundSetValue, SoundIsStore
  <2> QED
    BY <1>1, <1>4, <2>1, OnStoreIInv DEF SetVariable
<1>5. ASSUME Clear, UNCHANGED nested  PROVE IInv'
  <2>1. NewStore \in SoundStores
    BY SoundNew, SoundIsStore
  <2> QED
    BY <1>1, <1>5, <2>1, OnStoreIInv DEF Clear
<1>6. ASSUME NEW name \in Names, Push(name), UNCHANGED nested
      PROVE  IInv'
  <2> DEFINE s == PushScope(cell.store, name, CachedKeys)
  <2>1. s \in SoundStores /\ s.cur.depth = cell.store.cur.depth + 1
    BY <1>1, SoundPush, SoundIsStore
  <2>2. OnStore(s) /\ UNCHANGED box
        /\ guards' = Append(guards, [kind |-> "scope", expected |-> cell'.store.cur.depth])
    BY <1>6 DEF Push
  <2> HIDE DEF s
  <2>3. cell'.store = s
    BY <1>1, <2>1, <2>2, CellProperties DEF OnStore
  <2>4. cell'.store.cur.depth \in Depths
    BY <1>1, <2>1, <2>3, SoundDepth DEF Depths
  <2>5. guards' \in Seq(GoodGuards)
    <3>1. [kind |-> "scope", expected |-> cell'.store.cur.depth] \in GoodGuards
      BY <2>4 DEF GoodGuards
    <3> QED BY <1>1, <2>2, <3>1
  <2> QED
    BY <1>1, <1>6, <2>1, <2>2, <2>5, OnStoreIInv
<1>7. ASSUME NEW b \in Boxes, Capture(b), UNCHANGED nested
      PROVE  IInv'
  <2>1. CaptureOf(cell.store, LocalKeys) \in GoodBoxes
    BY <1>1, CaptureType DEF GoodBoxes
  <2>2. box' \in [Boxes -> GoodBoxes]
    BY <1>3, <1>7, <2>1 DEF Capture
  <2> QED
    BY <1>1, <1>7, <2>2 DEF Capture, IInv
<1>8. ASSUME NEW b \in Boxes, Fork(b), UNCHANGED nested
      PROVE  IInv'
  <2>1. ForkChild(cell.store) \in SoundStores
    BY <1>1, SoundFork, SoundIsStore
  <2>2. [kind |-> "store", store |-> ForkChild(cell.store)] \in GoodBoxes
    BY <2>1 DEF GoodBoxes
  <2>3. box' \in [Boxes -> GoodBoxes]
    BY <1>3, <1>8, <2>2 DEF Fork
  <2> QED
    BY <1>1, <1>8, <2>3 DEF Fork, IInv
<1>9. ASSUME NEW b \in Boxes, AttachSnapshot(b), UNCHANGED nested
      PROVE  IInv'
  <2>1. box[b] \in Snapshot
    BY <1>2, <1>9, BoxProperties DEF AttachSnapshot
  <2>2. StoreFromSnapshot(box[b], LocalKeys, ValidVals) \in SoundStores
    BY <2>1, StoreFromSnapshotProperties, SoundIsStore
  <2> QED
    BY <1>1, <1>9, <2>2, AttachIInv DEF AttachSnapshot
<1>10. ASSUME NEW snap \in Inbound, AttachFromBytes(snap), UNCHANGED nested
       PROVE  IInv'
  <2>1. snap \in Snapshot
    BY ThreadContextAssumption
  <2>2. StoreFromSnapshot(snap, LocalKeys, ValidVals) \in SoundStores
    BY <2>1, StoreFromSnapshotProperties, SoundIsStore
  <2> QED
    BY <1>1, <1>10, <2>2, AttachIInv DEF AttachFromBytes
<1>11. ASSUME NEW b \in Boxes, AttachStore(b), UNCHANGED nested
       PROVE  IInv'
  <2>1. box[b].store \in SoundStores
    BY <1>2, <1>11, BoxProperties DEF AttachStore
  <2>2. Empty \in GoodBoxes
    BY DEF GoodBoxes
  <2>3. box' \in [Boxes -> GoodBoxes]
    BY <1>3, <1>11, <2>2 DEF AttachStore
  <2> QED
    BY <1>1, <1>11, <2>1, <2>3, AttachIInv DEF AttachStore
<1>12. ASSUME NEW b \in Boxes, NEW name \in Names, NEW apart \in BOOLEAN,
              AttachSnapshotWithScope(b, name, apart), UNCHANGED nested
       PROVE  IInv'
  <2> DEFINE pushed == PushScope(StoreFromSnapshot(box[b], LocalKeys, ValidVals),
                                 name, CachedKeys)
             scope  == [kind |-> "scope", expected |-> pushed.cur.depth]
             attach == [kind |-> "attach", prev |-> cell]
             pair   == [kind |-> "pair", prev |-> cell, expected |-> scope.expected]
             new    == IF apart THEN <<attach, scope>> ELSE <<pair>>
  <2>1. box[b] \in Snapshot
    BY <1>2, <1>12, BoxProperties DEF AttachSnapshotWithScope
  <2>2. pushed \in SoundStores /\ pushed.cur.depth = 2
    BY <2>1, PushedSnapshot
  <2>3. cell' = Attached(pushed) /\ guards' = guards \o new /\ UNCHANGED box
    BY <1>12 DEF AttachSnapshotWithScope
  <2> HIDE DEF pushed
  <2>4. cell' \in GoodCells
    BY <1>1, <2>2, <2>3, CellProperties
  <2>5. scope \in GoodGuards /\ attach \in GoodGuards /\ pair \in GoodGuards
    BY <1>1, <2>2 DEF GoodGuards, Depths
  <2> HIDE DEF scope, attach, pair
  <2>6. new \in Seq(GoodGuards)
    BY <2>5
  <2> HIDE DEF new
  <2>7. guards' \in Seq(GoodGuards)
    BY <1>1, <2>3, <2>6
  <2> QED
    BY <1>1, <1>12, <2>3, <2>4, <2>7 DEF IInv
<1>13. ASSUME NEW b \in Boxes, MergeWith(b), UNCHANGED nested
       PROVE  IInv'
  <2>1. box[b].store \in Store
    BY <1>2, <1>13, BoxProperties DEF MergeWith, SoundStore
  <2>2. MergeValues(cell.store, CollectValues(box[b].store)) \in SoundStores
    BY <1>1, <2>1, CollectValuesType, SoundMerge, SoundIsStore
  <2>3. Empty \in GoodBoxes
    BY DEF GoodBoxes
  <2>4. box' \in [Boxes -> GoodBoxes]
    BY <1>3, <1>13, <2>3 DEF MergeWith
  <2> QED
    BY <1>1, <1>13, <2>2, <2>4, OnStoreIInv DEF MergeWith
<1>14. ASSUME NEW i \in 1 .. Len(guards), Drop(i)  PROVE IInv'
  <2>1. guards[i] \in GoodGuards
    BY <1>1
  <2>2. cell' \in GoodCells
    BY <1>1, <1>14, <2>1, DroppedProperties DEF Drop
  <2>3. guards' \in Seq(GoodGuards)
    BY <1>1, <1>14, RemoveAtProperties DEF Drop
  <2>4. nested' \in BOOLEAN
    BY <1>14 DEF Drop
  <2> QED
    BY <1>1, <1>14, <2>2, <2>3, <2>4 DEF Drop, IInv
<1>15. CASE UNCHANGED vars
  BY <1>1, <1>15 DEF vars, IInv
<1> QED
  BY <1>4, <1>5, <1>6, <1>7, <1>8, <1>9, <1>10, <1>11, <1>12, <1>13, <1>14, <1>15
  DEF Next, Operate

\* The inductive invariant holds of every behaviour.
THEOREM SpecIInv == Spec => []IInv
  BY InitIInv, NextIInv, PTL DEF Spec

-----------------------------------------------------------------------------
(* Theorems *)

\* Good cells, guards and boxes have their types.
LEMMA GoodTypes ==
  GoodCells \subseteq Cell /\ GoodGuards \subseteq Guard
    /\ GoodBoxes \subseteq Snapshot \cup Kept \cup {Empty}
<1>1. SoundStores \subseteq Store /\ Depths \subseteq Nat
  BY DEF SoundStores, Depths
<1>2. GoodCells \subseteq Cell
  BY <1>1 DEF GoodCells, Cell
<1> QED
  BY <1>1, <1>2 DEF GoodGuards, Guard, GoodBoxes, Kept

\* Type correctness of the cell, the guards and the boxes (lib.rs, attach.rs).
THEOREM SpecTypeOK == Spec => []TypeOK
<1>1. IInv => TypeOK
  <2> SUFFICES ASSUME IInv  PROVE TypeOK
    OBVIOUS
  <2>1. cell \in Cell
    BY GoodTypes DEF IInv
  <2>2. guards \in Seq(Guard)
    <3>1. guards \in Seq(GoodGuards)
      BY DEF IInv
    <3>2. \A i \in 1 .. Len(guards) : guards[i] \in Guard
      BY <3>1, GoodTypes
    <3>3. Len(guards) \in Nat /\ guards = [i \in 1 .. Len(guards) |-> guards[i]]
      BY <3>1
    <3> QED
      BY <3>2, <3>3
  <2>3. box \in [Boxes -> Snapshot \cup Kept \cup {Empty}]
    BY GoodTypes DEF IInv
  <2> QED
    BY <2>1, <2>2, <2>3 DEF IInv, TypeOK
<1> QED BY <1>1, SpecIInv, PTL

\* Guards dropped on stores they were not made for leave no store with a chain
\* and a depth counter that disagree (pop_scope, restore_context).
THEOREM SpecStoresWellLinked == Spec => []StoresWellLinked
<1>1. IInv => StoresWellLinked
  <2> SUFFICES ASSUME IInv, NEW s \in Stores  PROVE WellLinked(s)
    BY DEF StoresWellLinked
  <2>1. CASE s = cell.store
    BY <2>1, CellProperties DEF IInv, SoundStore
  <2>2. ASSUME NEW i \in DOMAIN guards, guards[i].kind # "scope",
               s = guards[i].prev.store
        PROVE  WellLinked(s)
    <3>1. guards[i] \in GoodGuards /\ cell \in GoodCells
      BY DEF IInv
    <3>2. guards[i].prev \in GoodCells
      BY <2>2, <3>1, DroppedProperties
    <3> QED
      BY <2>2, <3>2, CellProperties DEF SoundStore
  <2>3. ASSUME NEW b \in Boxes, box[b] # Empty, box[b].kind = "store",
               s = box[b].store
        PROVE  WellLinked(s)
    <3>1. box[b] \in GoodBoxes
      BY DEF IInv
    <3> QED
      BY <2>3, <3>1, BoxProperties DEF SoundStore
  <2> QED
    BY <2>1, <2>2, <2>3 DEF Stores, Outstanding, Boxed
<1> QED BY <1>1, SpecIInv, PTL

\* A fork of a store that is not itself forked reads the same.
LEMMA ForkReads ==
  ASSUME NEW s, SoundStore(s), s.frozen = <<>>
  PROVE  /\ \A k \in Keys : GetValue(ForkChild(s), k) = GetValue(s, k)
         /\ FullChain(ForkChild(s)) = FullChain(s)
<1> DEFINE q == Append(s.chain, s.cur)
           r == s.cur.remote
           b == s.cur.base
           c == RootScope(EmptyValues, r, b)
           t == ForkChild(s)
<1>1. /\ s \in Store /\ WellLinked(s) /\ RootUnnamed(s)
      /\ s.chain \in Seq(Scope) /\ s.cur \in Scope
  BY DEF SoundStore, Store
<1>2. t \in Store /\ t.cur = c /\ t.chain = <<>> /\ t.frozen = q
  BY <1>1, ForkChildType DEF ForkChild
<1>3. /\ c.name = NoName /\ c.remote = r /\ c.base = b
      /\ \A k \in Keys : c.values[k] = NoVal
  BY DEF RootScope, EmptyValues
<1>4. q \in Seq(Scope) /\ r \in Seq(Names) /\ b \in Int
  BY <1>1 DEF Scope
<1>5. c \in Scope
  BY <1>2 DEF Store
<1>6. Path(s) = q
  BY <1>4 DEF Path
<1> HIDE DEF t, c
<1>7. Under(t) = q
  BY <1>2, <1>4 DEF Under
<1>8. ASSUME NEW k \in Keys  PROVE GetValue(t, k) = GetValue(s, k)
  <2>1. GetValue(t, k) = LookIn(q, k)
    BY <1>2, <1>3, <1>7, GetValueCases
  <2>2. GetValue(s, k) = LookIn(q, k)
    BY <1>6 DEF GetValue, LookIn
  <2> QED
    BY <2>1, <2>2
<1>9. NamesAbove(b, q) = NamesOf(q)
  BY <1>1, LocalNamesAllShown
<1>10. FullChain(s) = r \o NamesOf(<<>>) \o NamesAbove(b, q)
  BY DEF FullChain
<1> HIDE DEF q, r, b
<1>11. FullChain(t) = r \o NamesOf(q) \o NamesAbove(b, Append(<<>>, c))
  BY <1>2, <1>3 DEF FullChain
<1>12. NamesOf(<<>>) = <<>> /\ NamesAbove(b, Append(<<>>, c)) = <<>>
  <2>1. <<>> \in Seq(Scope) /\ -1 \in Int /\ ~Shown(b, c)
    BY <1>3 DEF Shown
  <2>2. NamesAbove(b, Append(<<>>, c)) = <<>>
    BY <1>4, <1>5, <2>1, NamesAppend, NamesEmpty
  <2> QED
    BY <2>1, <2>2, NamesEmpty DEF NamesOf
<1>13. NamesOf(q) \in Seq(Names)
  BY <1>4, <1>9, NamesType
<1>14. FullChain(t) = FullChain(s)
  <2> DEFINE p == NamesOf(q)
  <2> HIDE DEF p
  <2>1. p \in Seq(Names)
    BY <1>13 DEF p
  <2>2. r \o p \o <<>> = r \o <<>> \o p
    BY <1>4, <2>1
  <2> QED
    BY <1>9, <1>10, <1>11, <1>12, <2>2 DEF p
<1> QED
  BY <1>8, <1>14 DEF t

\* The child of a first fork sees the values and the scope chain of its parent
\* (fork_child's frozen parent).
THEOREM SpecFirstForkIsTransparent == Spec => []FirstForkIsTransparent
<1>1. IInv => FirstForkIsTransparent
  <2> SUFFICES ASSUME IInv, cell.store.frozen = <<>>
               PROVE  /\ \A k \in Keys :
                           GetValue(ForkChild(cell.store), k) = GetValue(cell.store, k)
                      /\ ScopeChain(ForkChild(cell.store)) = ScopeChain(cell.store)
    BY DEF FirstForkIsTransparent
  <2>1. SoundStore(cell.store)
    BY CellProperties DEF IInv
  <2>2. FullChain(ForkChild(cell.store)) = FullChain(cell.store)
    BY <2>1, ForkReads
  <2>3. ScopeChain(ForkChild(cell.store)) = ScopeChain(cell.store)
    BY <2>2 DEF ScopeChain
  <2> QED
    BY <2>1, <2>3, ForkReads
<1> QED BY <1>1, SpecIInv, PTL

\* A snapshot carries the whole context but for what must not travel, and the
\* scope chain the length limit leaves (snapshot.rs, from_values_with_chain).
THEOREM SpecHopIsTransparent == Spec => []HopIsTransparent
<1>1. IInv => HopIsTransparent
  <2> SUFFICES ASSUME IInv  PROVE HopIsTransparent
    OBVIOUS
  <2>1. SoundStore(cell.store)
    BY CellProperties DEF IInv
  <2> DEFINE here == cell.store
             there == StoreFromSnapshot(CaptureOf(here, LocalKeys), LocalKeys, ValidVals)
  <2>2. /\ \A k \in Keys :
             GetValue(there, k) = IF k \notin LocalKeys /\ GetValue(here, k) \in ValidVals[k]
                                  THEN GetValue(here, k) ELSE NoVal
        /\ ScopeChain(there) = ScopeChain(here)
        /\ here.cur.depth <= MaxScopeDepth =>
             \A name \in Names : ScopeChain(PushScope(there, name, CachedKeys))
                                  = ScopeChain(PushScope(here, name, CachedKeys))
    <3> HIDE DEF here
    <3>1. SoundStore(here)
      BY <2>1 DEF here
    <3> QED
      BY <3>1, HopReads
  <2> QED
    BY <2>2 DEF HopIsTransparent
<1> QED BY <1>1, SpecIInv, PTL

-----------------------------------------------------------------------------
(* Dropping all guards *)

\* Dropping the guards of the list on a cell, the last one first.
DropsAll(q, c) == FoldRight(LAMBDA g, d : Dropped(d, g), q, c)

\* The cells on the way: f[i] is what the first i guards are still to be
\* dropped on.
DropsDown(f, q, c) ==
  /\ f \in [0 .. Len(q) -> GoodCells]
  /\ f[Len(q)] = c
  /\ \A i \in 1 .. Len(q) : f[i - 1] = Dropped(f[i], q[i])

\* The fold satisfies its recursion equation: a function that does exists.
LEMMA DropsSets ==
  ASSUME NEW q \in Seq(GoodGuards), NEW c \in GoodCells
  PROVE  \E f :
           /\ \A s \in SUBSET (1 .. Len(q)) :
                f[s] = IF s = {} THEN c ELSE Dropped(f[s \ {Min(s)}], q[Min(s)])
           /\ DropsAll(q, c) = f[1 .. Len(q)]
<1> DEFINE n == Len(q)
           step == [p \in (1 .. n) \X GoodCells |-> Dropped(p[2], q[p[1]])]
           Body(f) == [s \in SUBSET DOMAIN q |->
                         IF s = {} THEN c ELSE Dropped(f[s \ {Min(s)}], q[Min(s)])]
           f0 == CHOOSE f : f = Body(f)
<1>1. n \in Nat /\ DOMAIN q = 1 .. n /\ \A i \in 1 .. n : q[i] \in GoodGuards
  OBVIOUS
<1>2. step \in [(1 .. n) \X GoodCells -> GoodCells]
  <2> SUFFICES ASSUME NEW p \in (1 .. n) \X GoodCells
               PROVE  Dropped(p[2], q[p[1]]) \in GoodCells
    OBVIOUS
  <2>1. p[2] \in GoodCells /\ q[p[1]] \in GoodGuards
    BY <1>1
  <2> QED
    BY <2>1, DroppedProperties
<1> HIDE DEF step, n
<1>3. PICK g \in [SUBSET (1 .. n) -> GoodCells] : FoldsRight(g, n, c, step)
  BY <1>1, <1>2, RecursionOverSubsets
<1>4. ASSUME NEW s \in SUBSET (1 .. n), s # {}
      PROVE  step[<<Min(s), g[s \ {Min(s)}]>>] = Dropped(g[s \ {Min(s)}], q[Min(s)])
  <2>1. Min(s) \in s
    BY <1>1, <1>4, MinOfIndices
  <2>2. s \ {Min(s)} \in SUBSET (1 .. n)
    OBVIOUS
  <2>3. g[s \ {Min(s)}] \in GoodCells
    BY <2>2
  <2>4. <<Min(s), g[s \ {Min(s)}]>> \in (1 .. n) \X GoodCells
    BY <2>1, <2>3
  <2> QED
    BY <2>4 DEF step
<1>5. g = Body(g)
  <2>1. DOMAIN g = SUBSET DOMAIN q
    BY <1>1
  <2>2. \A s \in SUBSET DOMAIN q :
          g[s] = IF s = {} THEN c ELSE Dropped(g[s \ {Min(s)}], q[Min(s)])
    BY <1>1, <1>3, <1>4 DEF FoldsRight
  <2> QED
    BY <2>1, <2>2
<1>6. DropsAll(q, c) = f0[DOMAIN q]
  BY DEF DropsAll, FoldRight, MapThenFoldSet
<1> HIDE DEF Body
<1>7. f0 = Body(f0)
  BY <1>5
<1> HIDE DEF f0
<1>8. \A s \in SUBSET (1 .. n) :
        f0[s] = IF s = {} THEN c ELSE Dropped(f0[s \ {Min(s)}], q[Min(s)])
  BY <1>1, <1>7 DEF Body
<1> QED
  BY <1>1, <1>6, <1>8 DEF n

\* The fold goes through these cells.
LEMMA DropsRecursion ==
  ASSUME NEW q \in Seq(GoodGuards), NEW c \in GoodCells
  PROVE  \E f : DropsDown(f, q, c) /\ DropsAll(q, c) = f[0]
<1> DEFINE n == Len(q)
           step == [p \in (1 .. n) \X GoodCells |-> Dropped(p[2], q[p[1]])]
<1>1. n \in Nat /\ \A i \in 1 .. n : q[i] \in GoodGuards
  OBVIOUS
<1>2. step \in [(1 .. n) \X GoodCells -> GoodCells]
  <2> SUFFICES ASSUME NEW p \in (1 .. n) \X GoodCells
               PROVE  Dropped(p[2], q[p[1]]) \in GoodCells
    OBVIOUS
  <2>1. p[2] \in GoodCells /\ q[p[1]] \in GoodGuards
    BY <1>1
  <2> QED
    BY <2>1, DroppedProperties
<1>3. PICK g :
        /\ \A s \in SUBSET (1 .. n) :
             g[s] = IF s = {} THEN c ELSE Dropped(g[s \ {Min(s)}], q[Min(s)])
        /\ DropsAll(q, c) = g[1 .. n]
  BY DropsSets
<1> HIDE DEF step, n
<1>4. TakesLeastLast(g, n, GoodCells, c, step)
  <2>1. ASSUME NEW s \in SUBSET (1 .. n), s # {}, g[s \ {Min(s)}] \in GoodCells
        PROVE  g[s] = step[<<Min(s), g[s \ {Min(s)}]>>]
    <3>1. Min(s) \in 1 .. n
      BY <1>1, <2>1, MinOfIndices
    <3>2. <<Min(s), g[s \ {Min(s)}]>> \in (1 .. n) \X GoodCells
      BY <2>1, <3>1
    <3> QED
      BY <1>3, <2>1, <3>2 DEF step
  <2> QED
    BY <1>3, <2>1 DEF TakesLeastLast
<1>5. PICK f \in [0 .. n -> GoodCells] : FoldsDown(f, n, c, step) /\ f[0] = g[1 .. n]
  <2>1. FoldsDownTo(g[1 .. n], n, GoodCells, c, step)
    BY <1>1, <1>2, <1>4, FoldsDownSets
  <2> QED
    BY <2>1 DEF FoldsDownTo
<1>6. \A i \in 1 .. n : f[i - 1] = Dropped(f[i], q[i])
  <2> SUFFICES ASSUME NEW i \in 1 .. n  PROVE f[i - 1] = Dropped(f[i], q[i])
    OBVIOUS
  <2>1. f[i] \in GoodCells /\ <<i, f[i]>> \in (1 .. n) \X GoodCells
    BY <1>1
  <2> QED
    BY <1>5, <2>1 DEF FoldsDown, step
<1>7. DropsDown(f, q, c)
  BY <1>5, <1>6 DEF DropsDown, FoldsDown, n
<1> QED
  BY <1>3, <1>5, <1>7

\* The newest guard is dropped first.
LEMMA DropsAppend ==
  ASSUME NEW q \in Seq(GoodGuards), NEW g \in GoodGuards, NEW c \in GoodCells
  PROVE  DropsAll(Append(q, g), c) = DropsAll(q, Dropped(c, g))
<1> DEFINE n == Len(q)
           p == Append(q, g)
           d == Dropped(c, g)
<1>1. /\ n \in Nat /\ p \in Seq(GoodGuards) /\ Len(p) = n + 1
      /\ p[n + 1] = g /\ \A i \in 1 .. n : p[i] = q[i]
  OBVIOUS
<1>2. d \in GoodCells
  BY DroppedProperties
<1> HIDE DEF p, d
<1>3. PICK f : DropsDown(f, p, c) /\ DropsAll(p, c) = f[0]
  BY <1>1, DropsRecursion
<1>4. PICK h : DropsDown(h, q, d) /\ DropsAll(q, d) = h[0]
  BY <1>2, DropsRecursion
<1>5. f[n] = d
  <2>1. n + 1 \in 1 .. n + 1 /\ (n + 1) - 1 = n
    BY <1>1
  <2>2. f[n] = Dropped(f[n + 1], p[n + 1]) /\ f[n + 1] = c
    BY <1>1, <1>3, <2>1 DEF DropsDown
  <2> QED
    BY <1>1, <2>2 DEF d
<1> DEFINE T == {i \in 0 .. n : f[i] = h[i]}
<1>6. n \in T
  BY <1>1, <1>4, <1>5 DEF DropsDown
<1>7. ASSUME NEW i \in 1 .. n, i \in T  PROVE i - 1 \in T
  <2>1. i - 1 \in 0 .. n /\ f[i] = h[i] /\ i \in 1 .. n + 1
    BY <1>1, <1>7
  <2>2. f[i - 1] = Dropped(f[i], p[i]) /\ h[i - 1] = Dropped(h[i], q[i])
    BY <1>1, <1>3, <1>4, <2>1 DEF DropsDown
  <2> QED
    BY <1>1, <2>1, <2>2
<1> HIDE DEF T
<1>8. 0 \in 0 .. n /\ \A i \in 0 .. n : i \in T
  BY <1>1, <1>6, <1>7, DownwardInduction
<1>9. f[0] = h[0]
  BY <1>8 DEF T
<1> QED
  BY <1>3, <1>4, <1>9 DEF p, d

\* The same place, and no deeper.
Below(d, c) ==
  d.home = c.home /\ d.store.cur.depth <= c.store.cur.depth

\* Dropping a guard on a cell that is no deeper leaves one that is no deeper.
LEMMA DroppedBelow ==
  ASSUME NEW c \in GoodCells, NEW d \in GoodCells, NEW g \in GoodGuards,
         Below(d, c)
  PROVE  Below(Dropped(d, g), Dropped(c, g))
<1>1. /\ SoundStore(c.store) /\ SoundStore(d.store)
      /\ c.store.cur.depth \in Nat /\ d.store.cur.depth \in Nat
  BY CellProperties, SoundDepth
<1>2. CASE g.kind = "scope"
  <2> DEFINE e == g.expected
             x == c.store.cur.depth
             y == d.store.cur.depth
  <2>1. e \in Depths /\ Dropped(c, g) = Popped(c, e) /\ Dropped(d, g) = Popped(d, e)
    BY <1>2, DroppedProperties
  <2>2. e \in Nat /\ e >= 2
    BY <2>1 DEF Depths
  <2>3. /\ Popped(c, e).home = c.home /\ Popped(d, e).home = d.home
        /\ Popped(c, e).store = PopScope(c.store, e)
        /\ Popped(d, e).store = PopScope(d.store, e)
    BY <2>1, PoppedProperties
  <2>4. /\ PopScope(c.store, e).cur.depth = IF x < e THEN x ELSE e - 1
        /\ PopScope(d.store, e).cur.depth = IF y < e THEN y ELSE e - 1
    BY <1>1, <2>2, SoundPop
  <2> HIDE DEF e, x, y
  <2>5. (IF y < e THEN y ELSE e - 1) <= (IF x < e THEN x ELSE e - 1)
    BY <1>1, <2>2 DEF Below, x, y
  <2> QED
    BY <2>1, <2>3, <2>4, <2>5 DEF Below
<1>3. CASE g.kind # "scope"
  <2>1. Dropped(c, g) = Dropped(d, g) /\ Dropped(c, g) \in GoodCells
    BY <1>3, DroppedProperties
  <2>2. Dropped(c, g).store.cur.depth \in Nat
    BY <2>1, CellProperties, SoundDepth
  <2> QED
    BY <2>1, <2>2 DEF Below
<1> QED
  BY <1>2, <1>3

\* The same of all guards, one after the other.
LEMMA DropsBelow ==
  ASSUME NEW q \in Seq(GoodGuards), NEW c \in GoodCells, NEW d \in GoodCells,
         Below(d, c)
  PROVE  /\ Below(DropsAll(q, d), DropsAll(q, c))
         /\ DropsAll(q, d) \in GoodCells
<1> DEFINE n == Len(q)
<1>1. n \in Nat /\ \A i \in 1 .. n : q[i] \in GoodGuards
  OBVIOUS
<1>2. PICK f : DropsDown(f, q, c) /\ DropsAll(q, c) = f[0]
  BY DropsRecursion
<1>3. PICK h : DropsDown(h, q, d) /\ DropsAll(q, d) = h[0]
  BY DropsRecursion
<1> DEFINE T == {i \in 0 .. n : Below(h[i], f[i])}
<1>4. n \in T
  BY <1>1, <1>2, <1>3 DEF DropsDown
<1>5. ASSUME NEW i \in 1 .. n, i \in T  PROVE i - 1 \in T
  <2>1. i - 1 \in 0 .. n /\ i \in 0 .. n /\ Below(h[i], f[i])
    BY <1>1, <1>5
  <2>2. /\ f[i - 1] = Dropped(f[i], q[i]) /\ h[i - 1] = Dropped(h[i], q[i])
        /\ f[i] \in GoodCells /\ h[i] \in GoodCells
    BY <1>1, <1>2, <1>3, <2>1 DEF DropsDown
  <2>3. Below(Dropped(h[i], q[i]), Dropped(f[i], q[i]))
    BY <1>1, <2>1, <2>2, DroppedBelow
  <2> QED
    BY <2>1, <2>2, <2>3
<1> HIDE DEF T
<1>6. 0 \in 0 .. n /\ \A i \in 0 .. n : i \in T
  BY <1>1, <1>4, <1>5, DownwardInduction
<1>7. Below(h[0], f[0])
  BY <1>6 DEF T
<1>8. h[0] \in GoodCells
  BY <1>3, <1>6 DEF DropsDown
<1> QED
  BY <1>2, <1>3, <1>7, <1>8

-----------------------------------------------------------------------------
(* Guards in nested blocks *)

\* The depth of the store that the drop of a guard is meant to bring back.
Resumes(g) ==
  IF g.kind = "scope" THEN g.expected - 1 ELSE g.prev.store.cur.depth

\* The guard that an operation on cell c adds when it leaves cell d.
Adds(g, c, d) ==
  /\ g \in GoodGuards
  /\ Resumes(g) = c.store.cur.depth
  /\ Below(Dropped(d, g), c)
  /\ g.kind = "scope" => g.expected >= d.store.cur.depth

\* push_scope's guard.
LEMMA PushAdds ==
  ASSUME NEW c \in GoodCells, NEW name \in Names, NEW d \in GoodCells,
         d = [c EXCEPT !.store = PushScope(c.store, name, CachedKeys)]
  PROVE  Adds([kind |-> "scope", expected |-> d.store.cur.depth], c, d)
<1> DEFINE g == [kind |-> "scope", expected |-> d.store.cur.depth]
           s == PushScope(c.store, name, CachedKeys)
           x == c.store.cur.depth
<1>1. /\ SoundStore(c.store) /\ x \in Nat /\ x >= 1
  BY CellProperties, SoundDepth
<1>2. SoundStore(s) /\ s.cur.depth = x + 1
  BY <1>1, SoundPush
<1>3. PopScope(s, x + 1) = c.store
  BY <1>1, PopAfterPush
<1> HIDE DEF s
<1>4. d.store = s /\ d.home = c.home
  BY <1>2, SoundIsStore, CellProperties DEF s
<1>5. g.expected = x + 1 /\ g.kind = "scope" /\ x + 1 \in Depths /\ g \in GoodGuards
  BY <1>1, <1>2, <1>4 DEF GoodGuards, Depths
<1> HIDE DEF g
<1>6. Dropped(d, g) = Popped(d, x + 1)
  BY <1>5, DroppedProperties
<1>7. Dropped(d, g).home = c.home /\ Dropped(d, g).store = c.store
  BY <1>3, <1>4, <1>5, <1>6, PoppedProperties
<1>8. Below(Dropped(d, g), c)
  BY <1>1, <1>7 DEF Below
<1>9. Resumes(g) = x
  BY <1>1, <1>5 DEF Resumes
<1>10. g.expected >= d.store.cur.depth
  BY <1>1, <1>2, <1>4, <1>5
<1> QED
  BY <1>5, <1>8, <1>9, <1>10 DEF Adds, g

\* attach_store's guard.
LEMMA AttachAdds ==
  ASSUME NEW c \in GoodCells, NEW d \in GoodCells
  PROVE  Adds([kind |-> "attach", prev |-> c], c, d)
<1> DEFINE g == [kind |-> "attach", prev |-> c]
<1>1. g \in GoodGuards /\ g.kind = "attach" /\ g.prev = c
  BY DEF GoodGuards
<1> HIDE DEF g
<1>2. Dropped(d, g) = c
  BY <1>1, DroppedProperties
<1>3. c.store.cur.depth \in Nat
  BY CellProperties, SoundDepth
<1> QED
  BY <1>1, <1>2, <1>3 DEF Adds, Resumes, Below, g

\* The pair that attach_snapshot_with_scope returns.
LEMMA PairAdds ==
  ASSUME NEW c \in GoodCells, NEW d \in GoodCells, NEW e \in Depths
  PROVE  Adds([kind |-> "pair", prev |-> c, expected |-> e], c, d)
<1> DEFINE g == [kind |-> "pair", prev |-> c, expected |-> e]
           x == c.store.cur.depth
<1>1. g \in GoodGuards /\ g.kind = "pair" /\ g.prev = c /\ g.expected = e
  BY DEF GoodGuards
<1> HIDE DEF g
<1>2. Dropped(d, g) = Popped(c, e)
  BY <1>1, DroppedProperties
<1>3. SoundStore(c.store) /\ x \in Nat /\ e \in Nat /\ e >= 2
  BY CellProperties, SoundDepth DEF Depths
<1>4. PopScope(c.store, e).cur.depth = IF x < e THEN x ELSE e - 1
  BY <1>3, SoundPop
<1>5. PopScope(c.store, e).cur.depth <= x
  <2> HIDE DEF x
  <2> QED BY <1>3, <1>4
<1>6. Below(Dropped(d, g), c)
  BY <1>2, <1>5, PoppedProperties DEF Below
<1> QED
  BY <1>1, <1>6 DEF Adds, Resumes, g

\* A list with two elements at its end.
LEMMA ConcatTwo ==
  ASSUME NEW S, NEW q \in Seq(S), NEW a \in S, NEW b \in S
  PROVE  q \o <<a, b>> = Append(Append(q, a), b)
<1> DEFINE n == Len(q)
           u == q \o <<a, b>>
           p == Append(q, a)
           v == Append(p, b)
<1>1. n \in Nat
  OBVIOUS
<1>2. /\ u \in Seq(S) /\ Len(u) = n + 2
      /\ u[n + 1] = a /\ u[n + 2] = b
      /\ \A i \in 1 .. n : u[i] = q[i]
  OBVIOUS
<1>3. /\ p \in Seq(S) /\ Len(p) = n + 1 /\ p[n + 1] = a
      /\ \A i \in 1 .. n : p[i] = q[i]
  OBVIOUS
<1> HIDE DEF p
<1>4. v \in Seq(S) /\ Len(v) = n + 2 /\ v[n + 2] = b
  BY <1>3
<1>5. \A i \in 1 .. Len(p) : v[i] = p[i]
  BY <1>3
<1> HIDE DEF n, u, v
<1>6. v[n + 1] = a /\ \A i \in 1 .. n : v[i] = q[i]
  BY <1>1, <1>3, <1>5
<1>7. \A i \in 1 .. n + 2 : i \in 1 .. n \/ i = n + 1 \/ i = n + 2
  BY <1>1
<1>8. \A i \in 1 .. Len(u) : u[i] = v[i]
  BY <1>2, <1>4, <1>6, <1>7
<1>9. u = v
  BY <1>2, <1>4, <1>8, SeqEqual
<1> QED
  BY <1>9 DEF u, v, p

\* The four kinds of step of a program that drops its newest guard only.
NestedStep ==
  \/ guards' = guards /\ Below(cell', cell)
  \/ \E g \in GoodGuards : Adds(g, cell, cell') /\ guards' = Append(guards, g)
  \/ \E g \in GoodGuards : \E h \in GoodGuards : \E d \in GoodCells :
       /\ Adds(g, cell, d) /\ Adds(h, d, cell')
       /\ guards' = Append(Append(guards, g), h)
  \/ \E g \in GoodGuards : guards = Append(guards', g) /\ cell' = Dropped(cell, g)

\* An operation that writes to, or clears, the store in the cell.
LEMMA StoreStepNested ==
  ASSUME IInv, NEW s \in SoundStores, OnStore(s), UNCHANGED guards,
         s.cur.depth <= cell.store.cur.depth
  PROVE  NestedStep
  BY CellProperties DEF IInv, OnStore, Below, NestedStep

\* An operation that attaches a store.
LEMMA AttachStepNested ==
  ASSUME IInv, IInv', NEW s, AttachAsRoot(s)
  PROVE  NestedStep
<1> DEFINE g == [kind |-> "attach", prev |-> cell]
<1>1. cell \in GoodCells /\ cell' \in GoodCells
  BY DEF IInv
<1>2. Adds(g, cell, cell')
  BY <1>1, AttachAdds
<1>3. guards' = Append(guards, g)
  BY DEF AttachAsRoot
<1> HIDE DEF g
<1> QED
  BY <1>2, <1>3 DEF NestedStep, Adds

\* Another store attached in the place of the first.
LEMMA StoreReplaced ==
  ASSUME NEW s \in SoundStores, NEW t \in SoundStores
  PROVE  [Attached(s) EXCEPT !.store = t] = Attached(t)
<1> DEFINE r == [Attached(s) EXCEPT !.store = t]
<1>1. Attached(s) \in GoodCells /\ Attached(t) \in GoodCells
  BY DEF Attached, GoodCells
<1>2. Attached(s).home = Attached(t).home /\ Attached(t).store = t
  BY DEF Attached
<1>3. r \in GoodCells /\ r.store = t /\ r.home = Attached(s).home
  BY <1>1 DEF GoodCells
<1> QED
  BY <1>1, <1>2, <1>3 DEF GoodCells

\* As long as guards are dropped newest first, every step is of these kinds.
LEMMA NextNestedStep ==
  ASSUME IInv, [Next]_vars, nested'
  PROVE  NestedStep
<1>1. /\ cell \in GoodCells /\ guards \in Seq(GoodGuards)
      /\ box \in [Boxes -> GoodBoxes]
      /\ SoundStore(cell.store) /\ cell.store \in Store
      /\ cell.store.cur.depth \in Nat /\ cell.store.cur.depth >= 1
  BY CellProperties, SoundDepth DEF IInv, SoundStore
<1>2. IInv' /\ cell' \in GoodCells /\ guards' \in Seq(GoodGuards)
  BY NextIInv DEF IInv
<1>3. \A b \in Boxes : box[b] \in GoodBoxes
  BY <1>1
<1>4. ASSUME NEW k \in Keys, NEW v \in Vals, SetVariable(k, v)
      PROVE  NestedStep
  <2> DEFINE s == SetValue(cell.store, k, v)
  <2>1. s \in SoundStores /\ s.cur.depth = cell.store.cur.depth
    BY <1>1, SoundSetValue, SoundIsStore
  <2>2. OnStore(s) /\ UNCHANGED guards
    BY <1>4 DEF SetVariable
  <2> HIDE DEF s
  <2> QED
    BY <1>1, <2>1, <2>2, StoreStepNested
<1>5. ASSUME Clear  PROVE NestedStep
  <2>1. NewStore \in SoundStores /\ NewStore.cur.depth = 1
    BY SoundNew, SoundIsStore
  <2> QED
    BY <1>1, <1>5, <2>1, StoreStepNested DEF Clear
<1>6. ASSUME NEW name \in Names, Push(name)  PROVE NestedStep
  <2> DEFINE g == [kind |-> "scope", expected |-> cell'.store.cur.depth]
  <2>1. cell' = [cell EXCEPT !.store = PushScope(cell.store, name, CachedKeys)]
    BY <1>6 DEF Push, OnStore
  <2>2. Adds(g, cell, cell')
    BY <1>1, <1>2, <2>1, PushAdds
  <2>3. guards' = Append(guards, g)
    BY <1>6 DEF Push
  <2> HIDE DEF g
  <2> QED
    BY <2>2, <2>3 DEF NestedStep, Adds
<1>7. ASSUME UNCHANGED <<cell, guards>>  PROVE NestedStep
  BY <1>1, <1>7 DEF NestedStep, Below
<1>8. ASSUME NEW b \in Boxes, NEW name \in Names, NEW apart \in BOOLEAN,
             AttachSnapshotWithScope(b, name, apart)
      PROVE  NestedStep
  <2> DEFINE s      == StoreFromSnapshot(box[b], LocalKeys, ValidVals)
             pushed == PushScope(s, name, CachedKeys)
             d      == Attached(s)
             scope  == [kind |-> "scope", expected |-> pushed.cur.depth]
             attach == [kind |-> "attach", prev |-> cell]
             pair   == [kind |-> "pair", prev |-> cell, expected |-> pushed.cur.depth]
  <2>1. box[b] \in Snapshot
    BY <1>3, <1>8, BoxProperties DEF AttachSnapshotWithScope
  <2>2. s \in SoundStores /\ pushed \in SoundStores /\ pushed.cur.depth = 2
    BY <2>1, PushedSnapshot, StoreFromSnapshotProperties, SoundIsStore
  <2>3. /\ cell' = Attached(pushed)
        /\ guards' = guards \o IF apart THEN <<attach, scope>> ELSE <<pair>>
    BY <1>8 DEF AttachSnapshotWithScope
  <2>4. d \in GoodCells /\ d.store = s /\ cell' = [d EXCEPT !.store = pushed]
    <3>1. d \in GoodCells /\ d.store = s
      BY <1>1, <2>2, CellProperties
    <3>2. cell' = [d EXCEPT !.store = pushed]
      <4> HIDE DEF s, pushed
      <4> QED BY <2>2, <2>3, StoreReplaced
    <3> QED
      BY <3>1, <3>2
  <2>5. CASE apart
    <3>1. cell'.store = pushed
      BY <1>1, <2>2, <2>3, CellProperties
    <3>2. Adds([kind |-> "scope", expected |-> cell'.store.cur.depth], d, cell')
      <4> HIDE DEF s, d
      <4> QED BY <1>2, <2>4, PushAdds
    <3>3. Adds(scope, d, cell')
      BY <3>1, <3>2
    <3>4. Adds(attach, cell, d)
      BY <1>1, <2>4, AttachAdds
    <3>5. guards' = guards \o <<attach, scope>>
      BY <2>3, <2>5
    <3> HIDE DEF attach, scope, d
    <3>6. attach \in GoodGuards /\ scope \in GoodGuards
      BY <3>3, <3>4 DEF Adds
    <3>7. guards' = Append(Append(guards, attach), scope)
      BY <1>1, <3>5, <3>6, ConcatTwo
    <3> QED
      BY <2>4, <3>3, <3>4, <3>6, <3>7 DEF NestedStep
  <2>6. CASE ~apart
    <3>1. pushed.cur.depth \in Depths
      BY <2>2 DEF Depths
    <3>2. Adds(pair, cell, cell')
      <4> HIDE DEF pushed
      <4> QED BY <1>1, <1>2, <3>1, PairAdds
    <3>3. guards' = guards \o <<pair>>
      BY <2>3, <2>6
    <3> HIDE DEF pair
    <3>4. pair \in GoodGuards
      BY <3>2 DEF Adds
    <3>5. guards' = Append(guards, pair)
      BY <1>1, <3>3, <3>4, AppendIsConcat
    <3> QED
      BY <3>2, <3>4, <3>5 DEF NestedStep
  <2> QED
    BY <2>5, <2>6
<1>9. ASSUME NEW b \in Boxes, MergeWith(b)  PROVE NestedStep
  <2> DEFINE s == MergeValues(cell.store, CollectValues(box[b].store))
  <2>1. box[b].store \in Store
    BY <1>3, <1>9, BoxProperties DEF MergeWith, SoundStore
  <2>2. s \in SoundStores /\ s.cur.depth = cell.store.cur.depth
    BY <1>1, <2>1, CollectValuesType, SoundMerge, SoundIsStore
  <2>3. OnStore(s) /\ UNCHANGED guards
    BY <1>9 DEF MergeWith
  <2> HIDE DEF s
  <2> QED
    BY <1>1, <2>2, <2>3, StoreStepNested
<1>10. ASSUME NEW i \in 1 .. Len(guards), Drop(i)  PROVE NestedStep
  <2>1. i = Len(guards) /\ guards' = RemoveAt(guards, i) /\ cell' = Dropped(cell, guards[i])
    BY <1>10 DEF Drop
  <2>2. guards = Append(guards', guards[i])
    BY <1>1, <2>1, RemoveAtProperties
  <2>3. guards[i] \in GoodGuards
    BY <1>1
  <2> QED
    BY <2>1, <2>2, <2>3 DEF NestedStep
<1>11. \A b \in Boxes : AttachSnapshot(b) \/ AttachStore(b) => NestedStep
  BY <1>2, AttachStepNested DEF AttachSnapshot, AttachStore
<1>12. \A snap : AttachFromBytes(snap) => NestedStep
  BY <1>2, AttachStepNested DEF AttachFromBytes
<1>13. \A b \in Boxes : Capture(b) \/ Fork(b) => NestedStep
  BY <1>7 DEF Capture, Fork
<1>14. UNCHANGED vars => NestedStep
  BY <1>7 DEF vars
<1> QED
  BY <1>4, <1>5, <1>6, <1>8, <1>9, <1>10, <1>11, <1>12, <1>13, <1>14
  DEF Next, Operate

-----------------------------------------------------------------------------
(* Nested blocks return to the thread's own store *)

\* The thread's first store, at its root.
AtHome(c) == c.home /\ c.store.cur.depth = 1

\* What is no deeper than the root is at the root.
LEMMA AtHomeBelow ==
  ASSUME NEW c \in GoodCells, NEW d \in GoodCells, Below(d, c), AtHome(c)
  PROVE  AtHome(d)
<1>1. d.store.cur.depth \in Nat /\ d.store.cur.depth >= 1
  BY CellProperties, SoundDepth
<1> QED
  BY <1>1 DEF Below, AtHome

\* A guard added on top changes nothing in what dropping them all leads to, or
\* leads to something less deep.
LEMMA AddedBelow ==
  ASSUME NEW q \in Seq(GoodGuards), NEW g \in GoodGuards,
         NEW c \in GoodCells, NEW d \in GoodCells, Adds(g, c, d)
  PROVE  Below(DropsAll(Append(q, g), d), DropsAll(q, c))
<1>1. DropsAll(Append(q, g), d) = DropsAll(q, Dropped(d, g))
  BY DropsAppend
<1>2. Dropped(d, g) \in GoodCells /\ Below(Dropped(d, g), c)
  BY DroppedProperties DEF Adds
<1> QED
  BY <1>1, <1>2, DropsBelow

\* What a program that drops its newest guard only would find is kept.
LEMMA NestedStepReturns ==
  ASSUME IInv, IInv', NestedStep, AtHome(DropsAll(guards, cell))
  PROVE  AtHome(DropsAll(guards', cell'))
<1>1. /\ cell \in GoodCells /\ guards \in Seq(GoodGuards)
      /\ cell' \in GoodCells /\ guards' \in Seq(GoodGuards)
  BY DEF IInv
<1>2. DropsAll(guards, cell) \in GoodCells /\ DropsAll(guards', cell') \in GoodCells
  <2>1. Below(cell, cell) /\ Below(cell', cell')
    BY <1>1, CellProperties, SoundDepth DEF Below
  <2> QED
    BY <1>1, <2>1, DropsBelow
<1>3. ASSUME guards' = guards, Below(cell', cell)
      PROVE  Below(DropsAll(guards', cell'), DropsAll(guards, cell))
  BY <1>1, <1>3, DropsBelow
<1>4. ASSUME NEW g \in GoodGuards, Adds(g, cell, cell'), guards' = Append(guards, g)
      PROVE  Below(DropsAll(guards', cell'), DropsAll(guards, cell))
  BY <1>1, <1>4, AddedBelow
<1>5. ASSUME NEW g \in GoodGuards, NEW h \in GoodGuards, NEW d \in GoodCells,
             Adds(g, cell, d), Adds(h, d, cell'),
             guards' = Append(Append(guards, g), h)
      PROVE  AtHome(DropsAll(guards', cell'))
  <2> DEFINE q == Append(guards, g)
  <2>1. q \in Seq(GoodGuards)
    BY <1>1
  <2>2. Below(DropsAll(q, d), DropsAll(guards, cell))
    BY <1>1, <1>5, AddedBelow
  <2>3. Below(DropsAll(guards', cell'), DropsAll(q, d))
    <3>1. guards' = Append(q, h)
      BY <1>5
    <3> HIDE DEF q
    <3> QED
      BY <1>1, <1>5, <2>1, <3>1, AddedBelow
  <2>4. DropsAll(q, d) \in GoodCells
    <3>1. Below(d, d)
      BY <1>5, CellProperties, SoundDepth DEF Below
    <3> HIDE DEF q
    <3> QED
      BY <2>1, <3>1, DropsBelow
  <2> HIDE DEF q
  <2> QED
    BY <1>2, <2>2, <2>3, <2>4, AtHomeBelow
<1>6. ASSUME NEW g \in GoodGuards, guards = Append(guards', g),
             cell' = Dropped(cell, g)
      PROVE  DropsAll(guards', cell') = DropsAll(guards, cell)
  BY <1>1, <1>6, DropsAppend
<1> QED
  BY <1>2, <1>3, <1>4, <1>5, <1>6, AtHomeBelow DEF NestedStep

\* In nested blocks the thread finds back to its own first store, at its root,
\* whatever was attached, pushed, cleared and merged in between: attach.rs and
\* lib.rs, for any number of guards, stores and names.
THEOREM SpecNestedGuardsReturnHome == Spec => []NestedGuardsReturnHome
<1> DEFINE Inv == IInv /\ (nested => AtHome(DropsAll(guards, cell)))
<1>1. Init => Inv
  <2> SUFFICES ASSUME Init  PROVE Inv
    OBVIOUS
  <2>1. IInv /\ cell \in GoodCells /\ guards = <<>> /\ guards \in Seq(GoodGuards)
    BY InitIInv DEF IInv, Init
  <2>2. AtHome(cell)
    BY SoundNew DEF Init, AtHome
  <2>3. PICK f : DropsDown(f, guards, cell) /\ DropsAll(guards, cell) = f[0]
    BY <2>1, DropsRecursion
  <2>4. f[0] = cell
    BY <2>1, <2>3 DEF DropsDown
  <2> QED
    BY <2>1, <2>2, <2>3, <2>4
<1>2. Inv /\ [Next]_vars => Inv'
  <2> SUFFICES ASSUME Inv, [Next]_vars  PROVE Inv'
    OBVIOUS
  <2>1. IInv'
    BY NextIInv
  <2>2. nested' => nested
    BY DEF Next, Drop, vars
  <2>3. ASSUME nested'  PROVE AtHome(DropsAll(guards', cell'))
    BY <2>1, <2>2, <2>3, NextNestedStep, NestedStepReturns
  <2>4. (nested => AtHome(DropsAll(guards, cell)))'
    BY <2>3
  <2> QED
    BY <2>1, <2>4
<1>3. Inv => NestedGuardsReturnHome
  BY DEF NestedGuardsReturnHome, DropAll, DropsAll, AtHome
<1> QED
  BY <1>1, <1>2, <1>3, PTL DEF Spec

-----------------------------------------------------------------------------
(* Nested blocks pop their own scope only *)

\* Every scope guard was made at least as deep as the store that the guard
\* above it brings back, the newest one at least as deep as the store at hand.
StackedOn(q, x) ==
  /\ \A i \in 1 .. Len(q) - 1 :
       q[i].kind = "scope" => q[i].expected >= Resumes(q[i + 1])
  /\ Len(q) > 0 /\ q[Len(q)].kind = "scope" => q[Len(q)].expected >= x

\* What a guard of the model is made of, as numbers.
LEMMA GuardNumbers ==
  ASSUME NEW g \in GoodGuards
  PROVE  /\ Resumes(g) \in Nat
         /\ g.kind = "scope" => g.expected \in Nat /\ Resumes(g) = g.expected - 1
<1>1. CASE g.kind = "scope"
  <2>1. g.expected \in Depths
    BY <1>1 DEF GoodGuards
  <2> QED
    BY <1>1, <2>1 DEF Depths, Resumes
<1>2. CASE g.kind # "scope"
  <2>1. g.prev \in GoodCells
    BY <1>2 DEF GoodGuards
  <2>2. g.prev.store.cur.depth \in Nat
    BY <2>1, CellProperties, SoundDepth
  <2> QED
    BY <1>2, <2>2 DEF Resumes
<1> QED
  BY <1>1, <1>2

\* Dropping a guard leaves a store no deeper than the one it brings back.
LEMMA DroppedResumes ==
  ASSUME NEW c \in GoodCells, NEW g \in GoodGuards
  PROVE  Dropped(c, g).store.cur.depth <= Resumes(g)
<1>1. CASE g.kind = "scope"
  <2> DEFINE e == g.expected
             x == c.store.cur.depth
  <2>1. e \in Depths /\ Dropped(c, g) = Popped(c, e)
    BY <1>1, DroppedProperties
  <2>2. e \in Nat /\ e >= 2 /\ x \in Nat /\ SoundStore(c.store)
    BY <2>1, CellProperties, SoundDepth DEF Depths
  <2>3. Popped(c, e).store = PopScope(c.store, e)
    BY <2>1, PoppedProperties
  <2>4. PopScope(c.store, e).cur.depth = IF x < e THEN x ELSE e - 1
    BY <2>2, SoundPop
  <2>5. Resumes(g) = e - 1
    BY <1>1 DEF Resumes
  <2> HIDE DEF e, x
  <2>6. (IF x < e THEN x ELSE e - 1) <= e - 1
    BY <2>2
  <2> QED
    BY <2>1, <2>3, <2>4, <2>5, <2>6
<1>2. CASE g.kind = "attach"
  <2>1. Dropped(c, g) = g.prev /\ Resumes(g) = g.prev.store.cur.depth
    BY <1>2, DroppedProperties DEF Resumes
  <2> QED
    BY <2>1, GuardNumbers
<1>3. CASE g.kind = "pair"
  <2> DEFINE e == g.expected
             p == g.prev
             x == p.store.cur.depth
  <2>1. e \in Depths /\ p \in GoodCells /\ Dropped(c, g) = Popped(p, e)
    BY <1>3, DroppedProperties DEF GoodGuards
  <2> HIDE DEF e, p
  <2>2. e \in Nat /\ e >= 2 /\ x \in Nat /\ SoundStore(p.store)
    BY <2>1, CellProperties, SoundDepth DEF Depths
  <2>3. Popped(p, e).store = PopScope(p.store, e)
    BY <2>1, PoppedProperties
  <2>4. PopScope(p.store, e).cur.depth = IF x < e THEN x ELSE e - 1
    BY <2>2, SoundPop
  <2>5. Resumes(g) = x
    BY <1>3 DEF Resumes, p
  <2> HIDE DEF x
  <2>6. (IF x < e THEN x ELSE e - 1) <= x
    BY <2>2
  <2> QED
    BY <2>1, <2>3, <2>4, <2>5, <2>6
<1> QED
  BY <1>1, <1>2, <1>3 DEF GoodGuards

\* A store that is no deeper disturbs nothing.
LEMMA StackedBelow ==
  ASSUME NEW q \in Seq(GoodGuards), NEW x \in Nat, NEW y \in Nat, y <= x,
         StackedOn(q, x)
  PROVE  StackedOn(q, y)
<1> DEFINE n == Len(q)
<1>1. ASSUME n > 0, q[n].kind = "scope"  PROVE q[n].expected >= y
  <2>1. q[n] \in GoodGuards
    BY <1>1
  <2>2. q[n].expected \in Nat /\ q[n].expected >= x
    BY <1>1, <2>1, GuardNumbers DEF StackedOn
  <2> QED
    BY <2>2
<1> QED
  BY <1>1 DEF StackedOn

\* A guard on top of what it will bring back.
LEMMA StackedAppend ==
  ASSUME NEW q \in Seq(GoodGuards), NEW g \in GoodGuards, NEW x \in Nat,
         StackedOn(q, Resumes(g)), g.kind = "scope" => g.expected >= x
  PROVE  StackedOn(Append(q, g), x)
<1> DEFINE n == Len(q)
           p == Append(q, g)
<1>1. /\ n \in Nat /\ Len(p) = n + 1 /\ p[n + 1] = g
      /\ \A i \in 1 .. n : p[i] = q[i]
  OBVIOUS
<1> HIDE DEF p
<1>2. ASSUME NEW i \in 1 .. n, p[i].kind = "scope"
      PROVE  p[i].expected >= Resumes(p[i + 1])
  <2>1. CASE i = n
    <3>1. n > 0 /\ p[i] = q[n] /\ p[i + 1] = g
      BY <1>1, <2>1
    <3> QED
      BY <1>2, <3>1 DEF StackedOn
  <2>2. CASE i # n
    <3>1. i \in 1 .. n - 1 /\ i + 1 \in 1 .. n
      BY <1>1, <2>2
    <3>2. p[i] = q[i] /\ p[i + 1] = q[i + 1]
      BY <1>1, <3>1
    <3> QED
      BY <1>2, <3>1, <3>2 DEF StackedOn
  <2> QED
    BY <2>1, <2>2
<1>3. Len(p) - 1 = n
  BY <1>1
<1>4. p[Len(p)] = g
  BY <1>1
<1> QED
  BY <1>2, <1>3, <1>4 DEF StackedOn, p

\* What is below the newest guard is stacked on what that guard brings back.
LEMMA StackedPrefix ==
  ASSUME NEW q \in Seq(GoodGuards), NEW g \in GoodGuards, NEW x \in Nat,
         StackedOn(Append(q, g), x)
  PROVE  StackedOn(q, Resumes(g))
<1> DEFINE n == Len(q)
           p == Append(q, g)
<1>1. /\ n \in Nat /\ Len(p) = n + 1 /\ p[n + 1] = g
      /\ \A i \in 1 .. n : p[i] = q[i]
  OBVIOUS
<1> HIDE DEF p
<1>2. Len(p) - 1 = n
  BY <1>1
<1>3. \A i \in 1 .. n : p[i].kind = "scope" => p[i].expected >= Resumes(p[i + 1])
  BY <1>2 DEF StackedOn, p
<1>4. ASSUME NEW i \in 1 .. n - 1, q[i].kind = "scope"
      PROVE  q[i].expected >= Resumes(q[i + 1])
  <2>1. i \in 1 .. n /\ i + 1 \in 1 .. n
    BY <1>1
  <2> QED
    BY <1>1, <1>3, <1>4, <2>1
<1>5. ASSUME n > 0, q[n].kind = "scope"  PROVE q[n].expected >= Resumes(g)
  <2>1. n \in 1 .. n
    BY <1>1, <1>5
  <2> QED
    BY <1>1, <1>3, <1>5, <2>1
<1> QED
  BY <1>4, <1>5 DEF StackedOn

\* Guards stay stacked as long as the newest one only is dropped.
LEMMA NestedStepStacked ==
  ASSUME IInv, IInv', NestedStep, StackedOn(guards, cell.store.cur.depth)
  PROVE  StackedOn(guards', cell'.store.cur.depth)
<1> DEFINE x == cell.store.cur.depth
           y == cell'.store.cur.depth
<1>1. /\ cell \in GoodCells /\ guards \in Seq(GoodGuards)
      /\ cell' \in GoodCells /\ guards' \in Seq(GoodGuards)
  BY DEF IInv
<1>2. x \in Nat /\ y \in Nat
  BY <1>1, CellProperties, SoundDepth
<1>3. ASSUME guards' = guards, Below(cell', cell)
      PROVE  StackedOn(guards', y)
  <2>1. y <= x /\ StackedOn(guards, x)
    BY <1>3 DEF Below
  <2> HIDE DEF x, y
  <2> QED
    BY <1>1, <1>2, <1>3, <2>1, StackedBelow
<1>4. ASSUME NEW g \in GoodGuards, Adds(g, cell, cell'), guards' = Append(guards, g)
      PROVE  StackedOn(guards', y)
  <2>1. Resumes(g) = x /\ (g.kind = "scope" => g.expected >= y) /\ StackedOn(guards, x)
    BY <1>4 DEF Adds
  <2> HIDE DEF x, y
  <2> QED
    BY <1>1, <1>2, <1>4, <2>1, StackedAppend
<1>5. ASSUME NEW g \in GoodGuards, NEW h \in GoodGuards, NEW d \in GoodCells,
             Adds(g, cell, d), Adds(h, d, cell'),
             guards' = Append(Append(guards, g), h)
      PROVE  StackedOn(guards', y)
  <2> DEFINE z == d.store.cur.depth
             q == Append(guards, g)
  <2>1. /\ Resumes(g) = x /\ (g.kind = "scope" => g.expected >= z)
        /\ Resumes(h) = z /\ (h.kind = "scope" => h.expected >= y)
        /\ StackedOn(guards, x)
    BY <1>5 DEF Adds
  <2>2. z \in Nat /\ q \in Seq(GoodGuards) /\ guards' = Append(q, h)
    BY <1>1, <1>5, CellProperties, SoundDepth
  <2> HIDE DEF x, y, z
  <2>3. StackedOn(q, z)
    BY <1>1, <2>1, <2>2, StackedAppend
  <2> HIDE DEF q
  <2> QED
    BY <1>2, <2>1, <2>2, <2>3, StackedAppend
<1>6. ASSUME NEW g \in GoodGuards, guards = Append(guards', g),
             cell' = Dropped(cell, g)
      PROVE  StackedOn(guards', y)
  <2>1. y <= Resumes(g) /\ Resumes(g) \in Nat
    BY <1>1, <1>6, DroppedResumes, GuardNumbers
  <2> HIDE DEF y
  <2>2. StackedOn(guards', Resumes(g))
    BY <1>1, <1>2, <1>6, StackedPrefix
  <2> QED
    BY <1>1, <1>2, <2>1, <2>2, StackedBelow
<1> QED
  BY <1>3, <1>4, <1>5, <1>6 DEF NestedStep

\* In nested blocks a ScopeGuard is dropped on a store that is no deeper than
\* the scope it was made for, and pops no scope of another guard: leave_scope
\* in lib.rs and pop_scope in store.rs.
THEOREM SpecNestedDropPopsOneScope == Spec => []NestedDropPopsOneScope
<1> DEFINE Inv == IInv /\ (nested => StackedOn(guards, cell.store.cur.depth))
<1>1. Init => Inv
  <2> SUFFICES ASSUME Init  PROVE Inv
    OBVIOUS
  <2>1. IInv
    BY InitIInv
  <2>2. Len(guards) = 0
    BY DEF Init
  <2>3. StackedOn(guards, cell.store.cur.depth)
    BY <2>2 DEF StackedOn
  <2> QED
    BY <2>1, <2>3
<1>2. Inv /\ [Next]_vars => Inv'
  <2> SUFFICES ASSUME Inv, [Next]_vars  PROVE Inv'
    OBVIOUS
  <2>1. IInv'
    BY NextIInv
  <2>2. nested' => nested
    BY DEF Next, Drop, vars
  <2>3. ASSUME nested'  PROVE StackedOn(guards', cell'.store.cur.depth)
    BY <2>1, <2>2, <2>3, NextNestedStep, NestedStepStacked
  <2>4. (nested => StackedOn(guards, cell.store.cur.depth))'
    BY <2>3
  <2> QED
    BY <2>1, <2>4
<1>3. Inv => NestedDropPopsOneScope
  <2> SUFFICES ASSUME Inv, nested, guards # <<>>, Last(guards).kind = "scope"
               PROVE  Last(guards).expected >= cell.store.cur.depth
    BY DEF NestedDropPopsOneScope
  <2>1. guards \in Seq(GoodGuards)
    BY DEF IInv
  <2>2. Len(guards) > 0 /\ Last(guards) = guards[Len(guards)]
    BY <2>1 DEF Last
  <2> QED
    BY <2>2 DEF StackedOn
<1> QED
  BY <1>1, <1>2, <1>3, PTL DEF Spec

=============================================================================
