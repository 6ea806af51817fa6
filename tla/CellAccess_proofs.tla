------------------------- MODULE CellAccess_proofs -------------------------
(***************************************************************************)
(* The safety of CellAccess, for call stacks of any depth, panics caught   *)
(* at any level, and any keys, values and names.                           *)
(*                                                                         *)
(* What the cell is after each frame on the stack has returned is a fold   *)
(* over the stack.  The inductive invariant is about all its intermediate  *)
(* results: a step changes the top of the stack, and whatever it leaves    *)
(* there has the scopes of what was there before, those it cleared         *)
(* included, so everything that the frames below will find has too.        *)
(***************************************************************************)
EXTENDS CellAccess, ContextStore_proofs, FiniteSetTheorems

-----------------------------------------------------------------------------
(* Cells and frames *)

GoodCells == [home : BOOLEAN, store : SoundStores, cleared : Int]

Cells == GoodCells \cup {Busy}

GoodFrames == [kind : {"window"}, back : GoodCells]
                \cup [kind : {"update"}, key : Keys]
                \cup [kind : {"scope"}, expected : Depths]
                \cup [kind : {"noop"}]
                \cup [kind : {"attach"}, prev : Cells]

\* A busy cell holds no store.
LEMMA BusyApart == Busy \notin GoodCells
<1>1. GoodCells \subseteq Cell
  BY DEF GoodCells, SoundStores, Cell
<1> QED
  BY <1>1, CellAccessAssumption

\* What is in a cell, and the same cell with another store.
LEMMA CellProperties ==
  ASSUME NEW c \in Cells, c # Busy
  PROVE  /\ c \in GoodCells /\ SoundStore(c.store) /\ c.home \in BOOLEAN
         /\ c.store.cur.depth \in Nat /\ c.store.cur.depth >= 1
         /\ c.cleared \in Int
         /\ \A s \in SoundStores : /\ [c EXCEPT !.store = s] \in GoodCells
                                   /\ [c EXCEPT !.store = s] # Busy
                                   /\ [c EXCEPT !.store = s].home = c.home
                                   /\ [c EXCEPT !.store = s].store = s
                                   /\ [c EXCEPT !.store = s].cleared = c.cleared
<1>1. c \in GoodCells
  BY DEF Cells
<1>2. SoundStore(c.store) /\ c.home \in BOOLEAN /\ c.cleared \in Int
  BY <1>1 DEF GoodCells, SoundStores
<1>3. c.store.cur.depth \in Nat /\ c.store.cur.depth >= 1
  BY <1>2, SoundDepth
<1>4. ASSUME NEW s \in SoundStores
      PROVE  /\ [c EXCEPT !.store = s] \in GoodCells
             /\ [c EXCEPT !.store = s].home = c.home
             /\ [c EXCEPT !.store = s].store = s
             /\ [c EXCEPT !.store = s].cleared = c.cleared
  BY <1>1 DEF GoodCells
<1> QED
  BY <1>1, <1>2, <1>3, <1>4, BusyApart

\* A frame, by its kind.
LEMMA FrameKinds ==
  ASSUME NEW f \in GoodFrames
  PROVE  /\ f.kind \in {"window", "update", "scope", "noop", "attach"}
         /\ f.kind = "window" => f.back \in GoodCells
         /\ f.kind = "update" => f.key \in Keys
         /\ f.kind = "scope" => /\ f.expected \in Depths
                                /\ f.expected \in Nat /\ f.expected >= 2
         /\ f.kind = "attach" => f.prev \in Cells
  BY DEF GoodFrames, Depths

\* A scope guard dropped on a store: the same cell, its store popped.
LEMMA ScopeDropped ==
  ASSUME NEW c \in Cells, c # Busy, NEW e \in Nat, e >= 2
  PROVE  /\ Left(c, e) \in GoodCells /\ Left(c, e) # Busy
         /\ Left(c, e).home = c.home
         /\ Left(c, e).store.cur.depth = IF c.store.cur.depth < e
                                         THEN c.store.cur.depth ELSE e - 1
         /\ Left(c, e).cleared = IF c.store.cur.depth = 1
                                 THEN c.cleared - 1 ELSE c.cleared
<1> DEFINE s == PopScope(c.store, e)
           n == IF c.store.cur.depth = 1 THEN c.cleared - 1 ELSE c.cleared
<1>1. SoundStore(c.store) /\ c \in GoodCells /\ c.cleared \in Int
  BY CellProperties
<1>2. s \in SoundStores
  BY <1>1, SoundPop, SoundIsStore
<1>3. s.cur.depth = IF c.store.cur.depth < e THEN c.store.cur.depth ELSE e - 1
  BY <1>1, SoundPop
<1>4. n \in Int
  BY <1>1
<1>5. Left(c, e) = [c EXCEPT !.store = s, !.cleared = n]
  BY <1>1 DEF Left, GoodCells
<1> HIDE DEF s, n
<1>6. /\ Left(c, e) \in GoodCells /\ Left(c, e).home = c.home
      /\ Left(c, e).store = s /\ Left(c, e).cleared = n
  BY <1>1, <1>2, <1>4, <1>5 DEF GoodCells
<1>7. Left(c, e) # Busy
  BY <1>6, BusyApart
<1> QED
  BY <1>3, <1>6, <1>7 DEF n

\* How each kind of frame leaves the cell.
LEMMA PastProperties ==
  ASSUME NEW c \in Cells, NEW f \in GoodFrames, NEW b \in BOOLEAN
  PROVE  /\ Past(c, f, b) \in Cells
         /\ f.kind = "window" => Past(c, f, b) = IF b THEN c ELSE f.back
         /\ f.kind \in {"update", "noop"} => Past(c, f, b) = c
         /\ f.kind = "scope" /\ c = Busy => Past(c, f, b) = Busy
         /\ f.kind = "scope" /\ c # Busy =>
              /\ Past(c, f, b) # Busy /\ Past(c, f, b).home = c.home
              /\ Past(c, f, b).store.cur.depth =
                   IF c.store.cur.depth < f.expected
                   THEN c.store.cur.depth ELSE f.expected - 1
              /\ Past(c, f, b).cleared =
                   IF c.store.cur.depth = 1 THEN c.cleared - 1 ELSE c.cleared
         /\ f.kind = "attach" => Past(c, f, b) = f.prev
<1> DEFINE d == Past(c, f, b)
<1>1. CASE f.kind = "window"
  <2>1. Dropped(c, f) = c
    BY <1>1 DEF Dropped
  <2>2. d = IF b THEN c ELSE f.back
    BY <1>1, <2>1 DEF Past
  <2>3. f.back \in Cells
    BY <1>1, FrameKinds DEF Cells
  <2> HIDE DEF d
  <2>4. d \in Cells
    BY <2>2, <2>3
  <2> QED
    BY <1>1, <2>2, <2>4 DEF d
<1>2. CASE f.kind \in {"update", "noop"}
  <2>1. Dropped(c, f) = c
    BY <1>2 DEF Dropped
  <2>2. d = c
    BY <1>2, <2>1 DEF Past
  <2> QED
    BY <1>2, <2>2
<1>3. CASE f.kind = "scope" /\ c = Busy
  <2>1. Dropped(c, f) = Busy
    BY <1>3 DEF Dropped
  <2>2. d = Busy
    BY <1>3, <2>1 DEF Past
  <2> QED
    BY <1>3, <2>2 DEF Cells
<1>4. CASE f.kind = "scope" /\ c # Busy
  <2> DEFINE e == f.expected
  <2>1. e \in Nat /\ e >= 2
    BY <1>4, FrameKinds
  <2>2. d = Left(c, e)
    BY <1>4 DEF Past, Dropped
  <2> HIDE DEF d, e
  <2>3. /\ d \in GoodCells /\ d # Busy /\ d.home = c.home
        /\ d.store.cur.depth = IF c.store.cur.depth < e
                               THEN c.store.cur.depth ELSE e - 1
        /\ d.cleared = IF c.store.cur.depth = 1 THEN c.cleared - 1 ELSE c.cleared
    BY <1>4, <2>1, <2>2, ScopeDropped
  <2> QED
    BY <1>4, <2>3 DEF d, e, Cells
<1>5. CASE f.kind = "attach"
  <2>1. Dropped(c, f) = f.prev
    BY <1>5 DEF Dropped
  <2>2. d = f.prev
    BY <1>5, <2>1 DEF Past
  <2> QED
    BY <1>5, <2>2, FrameKinds
<1> QED
  BY <1>1, <1>2, <1>3, <1>4, <1>5, FrameKinds

-----------------------------------------------------------------------------
(* Unwinding the stack *)

\* h[i] is the cell that is left once the frames above the i-th are gone.
UnwindsDown(h, q, c, b) ==
  /\ h \in [0 .. Len(q) -> Cells]
  /\ h[Len(q)] = c
  /\ \A i \in 1 .. Len(q) : h[i - 1] = Past(h[i], q[i], b)

\* A function that unwinds the frames of every subset of a stack, the least last.
UnwindsSets(f, q, c, b) ==
  \A s \in SUBSET (1 .. Len(q)) :
    f[s] = IF s = {} THEN c ELSE Past(f[s \ {Min(s)}], q[Min(s)], b)

\* The fold satisfies its recursion equation: a function that does exists.
LEMMA UnwoundSets ==
  ASSUME NEW q \in Seq(GoodFrames), NEW c \in Cells, NEW b \in BOOLEAN
  PROVE  \E f : UnwindsSets(f, q, c, b) /\ Unwound(q, c, b) = f[1 .. Len(q)]
<1> DEFINE n == Len(q)
           step == [p \in (1 .. n) \X Cells |-> Past(p[2], q[p[1]], b)]
           Body(f) == [s \in SUBSET DOMAIN q |->
                         IF s = {} THEN c ELSE Past(f[s \ {Min(s)}], q[Min(s)], b)]
           f0 == CHOOSE f : f = Body(f)
<1>1. n \in Nat /\ DOMAIN q = 1 .. n /\ \A i \in 1 .. n : q[i] \in GoodFrames
  OBVIOUS
<1>2. step \in [(1 .. n) \X Cells -> Cells]
  <2> SUFFICES ASSUME NEW p \in (1 .. n) \X Cells
               PROVE  Past(p[2], q[p[1]], b) \in Cells
    OBVIOUS
  <2>1. p[2] \in Cells /\ q[p[1]] \in GoodFrames
    BY <1>1
  <2> QED
    BY <2>1, PastProperties
<1> HIDE DEF step, n
<1>3. PICK g \in [SUBSET (1 .. n) -> Cells] : FoldsRight(g, n, c, step)
  BY <1>1, <1>2, RecursionOverSubsets
<1>4. ASSUME NEW s \in SUBSET (1 .. n), s # {}
      PROVE  step[<<Min(s), g[s \ {Min(s)}]>>] = Past(g[s \ {Min(s)}], q[Min(s)], b)
  <2>1. Min(s) \in s
    BY <1>1, <1>4, MinOfIndices
  <2>2. s \ {Min(s)} \in SUBSET (1 .. n)
    OBVIOUS
  <2>3. g[s \ {Min(s)}] \in Cells
    BY <2>2
  <2>4. <<Min(s), g[s \ {Min(s)}]>> \in (1 .. n) \X Cells
    BY <2>1, <2>3
  <2> QED
    BY <2>4 DEF step
<1>5. g = Body(g)
  <2>1. DOMAIN g = SUBSET DOMAIN q
    BY <1>1
  <2>2. \A s \in SUBSET DOMAIN q :
          g[s] = IF s = {} THEN c ELSE Past(g[s \ {Min(s)}], q[Min(s)], b)
    BY <1>1, <1>3, <1>4 DEF FoldsRight
  <2> QED
    BY <2>1, <2>2
<1>6. Unwound(q, c, b) = f0[DOMAIN q]
  BY DEF Unwound, FoldRight, MapThenFoldSet
<1> HIDE DEF Body
<1>7. f0 = Body(f0)
  BY <1>5
<1> HIDE DEF f0
<1>8. \A s \in SUBSET (1 .. n) :
        f0[s] = IF s = {} THEN c ELSE Past(f0[s \ {Min(s)}], q[Min(s)], b)
  BY <1>1, <1>7 DEF Body
<1>9. UnwindsSets(f0, q, c, b)
  BY <1>8 DEF UnwindsSets, n
<1> QED
  BY <1>1, <1>6, <1>9 DEF n

\* The fold goes through the cells on the way.
LEMMA UnwoundRecursion ==
  ASSUME NEW q \in Seq(GoodFrames), NEW c \in Cells, NEW b \in BOOLEAN
  PROVE  \E f : UnwindsDown(f, q, c, b) /\ Unwound(q, c, b) = f[0]
<1> DEFINE n == Len(q)
           step == [p \in (1 .. n) \X Cells |-> Past(p[2], q[p[1]], b)]
<1>1. n \in Nat /\ \A i \in 1 .. n : q[i] \in GoodFrames
  OBVIOUS
<1>2. step \in [(1 .. n) \X Cells -> Cells]
  <2> SUFFICES ASSUME NEW p \in (1 .. n) \X Cells
               PROVE  Past(p[2], q[p[1]], b) \in Cells
    OBVIOUS
  <2>1. p[2] \in Cells /\ q[p[1]] \in GoodFrames
    BY <1>1
  <2> QED
    BY <2>1, PastProperties
<1>0. PICK g : UnwindsSets(g, q, c, b) /\ Unwound(q, c, b) = g[1 .. Len(q)]
  BY UnwoundSets
<1>3. /\ \A s \in SUBSET (1 .. n) :
           g[s] = IF s = {} THEN c ELSE Past(g[s \ {Min(s)}], q[Min(s)], b)
      /\ Unwound(q, c, b) = g[1 .. n]
  BY <1>0 DEF UnwindsSets
<1> HIDE DEF step, n
<1>4. TakesLeastLast(g, n, Cells, c, step)
  <2>1. ASSUME NEW s \in SUBSET (1 .. n), s # {}, g[s \ {Min(s)}] \in Cells
        PROVE  g[s] = step[<<Min(s), g[s \ {Min(s)}]>>]
    <3>1. Min(s) \in 1 .. n
      BY <1>1, <2>1, MinOfIndices
    <3>2. <<Min(s), g[s \ {Min(s)}]>> \in (1 .. n) \X Cells
      BY <2>1, <3>1
    <3> QED
      BY <1>3, <2>1, <3>2 DEF step
  <2> QED
    BY <1>3, <2>1 DEF TakesLeastLast
<1>5. PICK f \in [0 .. n -> Cells] : FoldsDown(f, n, c, step) /\ f[0] = g[1 .. n]
  <2>1. FoldsDownTo(g[1 .. n], n, Cells, c, step)
    BY <1>1, <1>2, <1>4, FoldsDownSets
  <2> QED
    BY <2>1 DEF FoldsDownTo
<1>6. \A i \in 1 .. n : f[i - 1] = Past(f[i], q[i], b)
  <2> SUFFICES ASSUME NEW i \in 1 .. n  PROVE f[i - 1] = Past(f[i], q[i], b)
    OBVIOUS
  <2>1. f[i] \in Cells /\ <<i, f[i]>> \in (1 .. n) \X Cells
    BY <1>1
  <2> QED
    BY <1>5, <2>1 DEF FoldsDown, step
<1>7. UnwindsDown(f, q, c, b)
  BY <1>5, <1>6 DEF UnwindsDown, FoldsDown, n
<1> QED
  BY <1>3, <1>5, <1>7

\* The cells on the way are determined by the stack and the cell at its top.
LEMMA UnwindsOnce ==
  ASSUME NEW q \in Seq(GoodFrames), NEW c \in Cells, NEW b \in BOOLEAN,
         NEW f, NEW h, UnwindsDown(f, q, c, b), UnwindsDown(h, q, c, b)
  PROVE  \A i \in 0 .. Len(q) : f[i] = h[i]
<1> DEFINE n == Len(q)
           T == {i \in 0 .. n : f[i] = h[i]}
<1>1. n \in Nat
  OBVIOUS
<1>2. n \in T
  BY <1>1 DEF UnwindsDown
<1>3. ASSUME NEW i \in 1 .. n, i \in T  PROVE i - 1 \in T
  BY <1>1, <1>3 DEF UnwindsDown
<1> HIDE DEF T
<1>4. \A i \in 0 .. n : i \in T
  BY <1>1, <1>2, <1>3, DownwardInduction
<1> QED
  BY <1>4 DEF T

\* So they end in what the fold computes.
LEMMA UnwoundIs ==
  ASSUME NEW q \in Seq(GoodFrames), NEW c \in Cells, NEW b \in BOOLEAN,
         NEW h, UnwindsDown(h, q, c, b)
  PROVE  Unwound(q, c, b) = h[0]
<1>1. PICK f : UnwindsDown(f, q, c, b) /\ Unwound(q, c, b) = f[0]
  BY UnwoundRecursion
<1>2. 0 \in 0 .. Len(q)
  OBVIOUS
<1>3. \A i \in 0 .. Len(q) : f[i] = h[i]
  BY <1>1, UnwindsOnce
<1> QED
  BY <1>1, <1>2, <1>3

-----------------------------------------------------------------------------
(* What a step may do to the cells that the frames will find *)

\* The scopes of a store, and those that it had when it was cleared.
ScopeCount(c) == c.store.cur.depth + c.cleared

\* The same store's place and scopes, cleared or not, or no store at all.
Below(d, c) ==
  d # Busy => /\ c # Busy /\ d.home = c.home
              /\ d.store.cur.depth \in {c.store.cur.depth, 1}
              /\ ScopeCount(d) = ScopeCount(c)

\* No store is lost, or only one that is not the thread's first.
Kept(d, c, strays) == d = Busy => c = Busy \/ (strays /\ ~c.home)

\* The store a scope guard finds is at its own scope, or was cleared.
Fits(f, c) ==
  f.kind = "scope" /\ c # Busy => c.store.cur.depth \in {f.expected, 1}

\* A cell has the scopes of itself.
LEMMA BelowItself ==
  ASSUME NEW c \in Cells
  PROVE  Below(c, c) /\ Kept(c, c, FALSE)
  BY DEF Below, Kept

\* A scope guard that returns takes one scope off, in the store or of those
\* that were cleared.
LEMMA PastScope ==
  ASSUME NEW c \in Cells, c # Busy, NEW f \in GoodFrames, NEW b \in BOOLEAN,
         f.kind = "scope", Fits(f, c)
  PROVE  LET x == Past(c, f, b)
         IN  /\ x # Busy /\ x.home = c.home
             /\ x.store.cur.depth = IF c.store.cur.depth = 1
                                    THEN 1 ELSE f.expected - 1
             /\ ScopeCount(x) = ScopeCount(c) - 1
<1> DEFINE x == Past(c, f, b)
           m == c.store.cur.depth
           e == f.expected
<1>1. m \in Nat /\ e \in Nat /\ e >= 2 /\ c.cleared \in Int /\ m \in {e, 1}
  BY CellProperties, FrameKinds DEF Fits
<1>2. ScopeCount(c) = m + c.cleared
  BY DEF ScopeCount
<1>3. /\ x # Busy /\ x.home = c.home
      /\ x.store.cur.depth = IF m < e THEN m ELSE e - 1
      /\ x.cleared = IF m = 1 THEN c.cleared - 1 ELSE c.cleared
  BY PastProperties
<1> HIDE DEF x, m, e
<1>4. x.store.cur.depth = IF m = 1 THEN 1 ELSE e - 1
  BY <1>1, <1>3
<1>5. ScopeCount(x) = ScopeCount(c) - 1
  BY <1>1, <1>2, <1>3, <1>4 DEF ScopeCount
<1> QED
  BY <1>3, <1>4, <1>5 DEF x, m, e

\* A frame that returns leaves cells with the same scopes so.
LEMMA PastBelow ==
  ASSUME NEW c \in Cells, NEW d \in Cells, NEW f \in GoodFrames, NEW b \in BOOLEAN,
         Below(d, c), Fits(f, c)
  PROVE  Below(Past(d, f, b), Past(c, f, b)) /\ Fits(f, d)
<1> DEFINE x == Past(c, f, b)
           y == Past(d, f, b)
<1>1. x \in Cells
  BY PastProperties
<1>2. ASSUME f.kind \in {"window", "update", "noop", "attach"}  PROVE Below(y, x)
  <2>1. (x = c /\ y = d) \/ x = y
    BY <1>2, PastProperties
  <2> HIDE DEF x, y
  <2> QED
    BY <1>1, <2>1, BelowItself
<1>3. ASSUME f.kind = "scope", d = Busy  PROVE Below(y, x)
  <2>1. y = Busy
    BY <1>3, PastProperties
  <2> QED
    BY <2>1 DEF Below
<1>4. Fits(f, d)
  BY DEF Fits, Below
<1>5. ASSUME f.kind = "scope", d # Busy  PROVE Below(y, x)
  <2>1. /\ c # Busy /\ d.home = c.home
        /\ d.store.cur.depth \in {c.store.cur.depth, 1}
        /\ ScopeCount(d) = ScopeCount(c)
    BY <1>5 DEF Below
  <2>2. /\ x # Busy /\ x.home = c.home
        /\ x.store.cur.depth = IF c.store.cur.depth = 1 THEN 1 ELSE f.expected - 1
        /\ ScopeCount(x) = ScopeCount(c) - 1
    BY <1>5, <2>1, PastScope
  <2>3. /\ y # Busy /\ y.home = d.home
        /\ y.store.cur.depth = IF d.store.cur.depth = 1 THEN 1 ELSE f.expected - 1
        /\ ScopeCount(y) = ScopeCount(d) - 1
    BY <1>4, <1>5, PastScope
  <2> HIDE DEF x, y
  <2> QED
    BY <2>1, <2>2, <2>3 DEF Below
<1> QED
  BY <1>2, <1>3, <1>4, <1>5, FrameKinds

\* A frame that returns loses no store that was there.
LEMMA PastKept ==
  ASSUME NEW c \in Cells, NEW d \in Cells, NEW f \in GoodFrames, NEW b \in BOOLEAN,
         NEW strays \in BOOLEAN, Kept(d, c, strays)
  PROVE  Kept(Past(d, f, b), Past(c, f, b), strays)
<1> DEFINE x == Past(c, f, b)
           y == Past(d, f, b)
<1>1. CASE f.kind \in {"window", "update", "noop", "attach"}
  <2>1. (x = c /\ y = d) \/ x = y
    BY <1>1, PastProperties
  <2> HIDE DEF x, y
  <2>2. Kept(y, x, strays)
    BY <2>1 DEF Kept
  <2> QED
    BY <2>2 DEF x, y
<1>2. CASE f.kind = "scope"
  <2>1. /\ c = Busy => x = Busy
        /\ c # Busy => x.home = c.home
        /\ d # Busy => y # Busy
    BY <1>2, PastProperties
  <2> HIDE DEF x, y
  <2>2. Kept(y, x, strays)
    BY <2>1 DEF Kept
  <2> QED
    BY <2>2 DEF x, y
<1> QED
  BY <1>1, <1>2, FrameKinds

\* So do all the frames of a stack, one after the other.
LEMMA UnwindsBelow ==
  ASSUME NEW q \in Seq(GoodFrames), NEW c, NEW d, NEW f, NEW h, NEW b \in BOOLEAN,
         UnwindsDown(h, q, c, b), UnwindsDown(f, q, d, b), Below(d, c),
         \A i \in 1 .. Len(q) : Fits(q[i], h[i])
  PROVE  \A i \in 0 .. Len(q) : Below(f[i], h[i])
<1> DEFINE n == Len(q)
           T == {i \in 0 .. n : Below(f[i], h[i])}
<1>1. n \in Nat /\ \A i \in 1 .. n : q[i] \in GoodFrames
  OBVIOUS
<1>2. n \in T
  BY <1>1 DEF UnwindsDown
<1>3. ASSUME NEW i \in 1 .. n, i \in T  PROVE i - 1 \in T
  <2>1. i - 1 \in 0 .. n /\ i \in 0 .. n /\ Below(f[i], h[i]) /\ q[i] \in GoodFrames
    BY <1>1, <1>3
  <2>2. /\ f[i] \in Cells /\ h[i] \in Cells
        /\ f[i - 1] = Past(f[i], q[i], b) /\ h[i - 1] = Past(h[i], q[i], b)
    BY <1>1, <2>1 DEF UnwindsDown
  <2>3. Fits(q[i], h[i])
    BY <1>3
  <2>4. Below(Past(f[i], q[i], b), Past(h[i], q[i], b))
    BY <2>1, <2>2, <2>3, PastBelow
  <2> QED
    BY <2>1, <2>2, <2>4
<1> HIDE DEF T
<1>4. \A i \in 0 .. n : i \in T
  BY <1>1, <1>2, <1>3, DownwardInduction
<1> QED
  BY <1>4 DEF T

\* And they lose no store either.
LEMMA UnwindsKept ==
  ASSUME NEW q \in Seq(GoodFrames), NEW c, NEW d, NEW f, NEW h, NEW b \in BOOLEAN,
         NEW strays \in BOOLEAN,
         UnwindsDown(h, q, c, b), UnwindsDown(f, q, d, b), Kept(d, c, strays)
  PROVE  \A i \in 0 .. Len(q) : Kept(f[i], h[i], strays)
<1> DEFINE n == Len(q)
           T == {i \in 0 .. n : Kept(f[i], h[i], strays)}
<1>1. n \in Nat /\ \A i \in 1 .. n : q[i] \in GoodFrames
  OBVIOUS
<1>2. n \in T
  BY <1>1 DEF UnwindsDown
<1>3. ASSUME NEW i \in 1 .. n, i \in T  PROVE i - 1 \in T
  <2>1. i - 1 \in 0 .. n /\ i \in 0 .. n /\ Kept(f[i], h[i], strays)
        /\ q[i] \in GoodFrames
    BY <1>1, <1>3
  <2>2. /\ f[i] \in Cells /\ h[i] \in Cells
        /\ f[i - 1] = Past(f[i], q[i], b) /\ h[i - 1] = Past(h[i], q[i], b)
    BY <1>1, <2>1 DEF UnwindsDown
  <2>3. Kept(Past(f[i], q[i], b), Past(h[i], q[i], b), strays)
    BY <2>1, <2>2, PastKept
  <2> QED
    BY <2>1, <2>2, <2>3
<1> HIDE DEF T
<1>4. \A i \in 0 .. n : i \in T
  BY <1>1, <1>2, <1>3, DownwardInduction
<1> QED
  BY <1>4 DEF T

-----------------------------------------------------------------------------
(* The blocks open in a store *)

\* The frame that attached the store in use when i frames are on the stack.
Base(q, i) ==
  LET bases == {j \in 1 .. i : q[j].kind = "attach"}
  IN  IF bases = {} THEN 0 ELSE Max(bases)

\* The scopes entered since.
Entered(q, i) == {j \in Base(q, i) + 1 .. i : q[j].kind = "scope"}

Open(q, i) == 1 + Cardinality(Entered(q, i))

\* There are finitely many, above the base.
LEMMA OpenType ==
  ASSUME NEW q, NEW i \in Nat
  PROVE  /\ Base(q, i) \in 0 .. i
         /\ IsFiniteSet(Entered(q, i))
         /\ Entered(q, i) \in SUBSET (1 .. i)
         /\ Cardinality(Entered(q, i)) \in Nat
         /\ Open(q, i) \in Nat /\ Open(q, i) >= 1
<1> DEFINE bases == {j \in 1 .. i : q[j].kind = "attach"}
<1>1. Base(q, i) \in 0 .. i
  <2>1. CASE bases = {}
    BY <2>1 DEF Base
  <2>2. CASE bases # {}
    <3>1. bases \in SUBSET (0 .. i)
      OBVIOUS
    <3>2. Max(bases) \in bases
      BY <2>2, <3>1, MaxOfBounded
    <3> QED
      BY <2>2, <3>1, <3>2 DEF Base
  <2> QED
    BY <2>1, <2>2
<1>2. Entered(q, i) \in SUBSET (1 .. i)
  BY <1>1 DEF Entered
<1>3. IsFiniteSet(1 .. i)
  BY FS_Interval
<1>4. IsFiniteSet(Entered(q, i))
  BY <1>2, <1>3, FS_Subset
<1>5. Cardinality(Entered(q, i)) \in Nat
  BY <1>4, FS_CardinalityType
<1> QED
  BY <1>1, <1>2, <1>4, <1>5 DEF Open

\* Only the frames up to the i-th count.
LEMMA OpenAgree ==
  ASSUME NEW p, NEW q, NEW i \in Nat, \A j \in 1 .. i : p[j] = q[j]
  PROVE  Base(p, i) = Base(q, i) /\ Open(p, i) = Open(q, i)
<1>1. {j \in 1 .. i : p[j].kind = "attach"} = {j \in 1 .. i : q[j].kind = "attach"}
  OBVIOUS
<1>2. Base(p, i) = Base(q, i)
  BY <1>1 DEF Base
<1>3. Entered(p, i) = Entered(q, i)
  BY <1>2, OpenType DEF Entered
<1> QED
  BY <1>2, <1>3 DEF Open

\* One frame more: an attached store has no scope yet, a scope is one more.
LEMMA OpenNext ==
  ASSUME NEW q, NEW n \in Nat
  PROVE  /\ q[n + 1].kind = "scope" => Open(q, n + 1) = Open(q, n) + 1
         /\ q[n + 1].kind \notin {"scope", "attach"} => Open(q, n + 1) = Open(q, n)
<1> DEFINE bases(i) == {j \in 1 .. i : q[j].kind = "attach"}
<1>1. q[n + 1].kind # "attach" => Base(q, n + 1) = Base(q, n)
  <2>1. q[n + 1].kind # "attach" => bases(n + 1) = bases(n)
    OBVIOUS
  <2> QED
    BY <2>1 DEF Base
<1>2. /\ Base(q, n) \in 0 .. n /\ IsFiniteSet(Entered(q, n))
      /\ Cardinality(Entered(q, n)) \in Nat
      /\ Entered(q, n) \in SUBSET (1 .. n)
  BY OpenType
<1>3. ASSUME q[n + 1].kind = "scope"  PROVE Open(q, n + 1) = Open(q, n) + 1
  <2>1. Base(q, n + 1) = Base(q, n)
    BY <1>1, <1>3
  <2>2. Entered(q, n + 1) = Entered(q, n) \cup {n + 1} /\ n + 1 \notin Entered(q, n)
    BY <1>2, <1>3, <2>1 DEF Entered
  <2>3. Cardinality(Entered(q, n + 1)) = Cardinality(Entered(q, n)) + 1
    BY <1>2, <2>2, FS_AddElement
  <2> QED
    BY <1>2, <2>3 DEF Open
<1>4. ASSUME q[n + 1].kind \notin {"scope", "attach"}
      PROVE  Open(q, n + 1) = Open(q, n)
  <2>1. Base(q, n + 1) = Base(q, n)
    BY <1>1, <1>4
  <2>2. Entered(q, n + 1) = Entered(q, n)
    BY <1>2, <1>4, <2>1 DEF Entered
  <2> QED
    BY <2>2 DEF Open
<1> QED
  BY <1>3, <1>4

\* A store that was just attached has none.
LEMMA OpenAttach ==
  ASSUME NEW q, NEW n \in Nat, q[n + 1].kind = "attach"
  PROVE  Open(q, n + 1) = 1
<1> DEFINE bases == {j \in 1 .. n + 1 : q[j].kind = "attach"}
<1>1. n + 1 \in Nat /\ n + 1 \in bases /\ bases \in SUBSET (0 .. n + 1)
  OBVIOUS
<1> HIDE DEF bases
<1>2. /\ Max(bases) \in bases
      /\ \A j \in bases : j <= Max(bases)
  <2>1. bases # {}
    BY <1>1
  <2> QED
    BY <1>1, <2>1, MaxOfBounded
<1>3. Max(bases) = n + 1
  <2> DEFINE m == Max(bases)
  <2>1. m \in 0 .. n + 1 /\ n + 1 <= m
    BY <1>1, <1>2
  <2> HIDE DEF m
  <2>2. m = n + 1
    BY <2>1
  <2> QED
    BY <2>2 DEF m
<1>4. Base(q, n + 1) = n + 1
  BY <1>1, <1>3 DEF Base, bases
<1>5. Entered(q, n + 1) = {}
  BY <1>4 DEF Entered
<1>6. Cardinality(Entered(q, n + 1)) = 0
  BY <1>5, FS_EmptySet
<1> QED
  BY <1>6 DEF Open

-----------------------------------------------------------------------------
(* The inductive invariant *)

\* The thread's first store, at its root.
AtHome(c) == c # Busy /\ c.home /\ c.store.cur.depth = 1

\* What holds of all the cells that the frames of a stack will find:
\*   the store of a window is out of the cell while its user code runs;
\*   the last one is the thread's own, unless a panic dropped it;
\*   if none was dropped, only a window makes the cell busy;
\*   a scope guard finds its own scope on top, or a store that was cleared;
\*   a store has the scopes of the blocks open in it, but those it cleared.
Standing(h, q, drops) ==
  /\ \A i \in 1 .. Len(q) : q[i].kind = "window" => h[i] = Busy
  /\ TRUE \notin drops => AtHome(h[0])
  /\ drops = {} => \A i \in 0 .. Len(q) :
       h[i] = Busy => \E j \in 1 .. i : q[j].kind = "window"
  /\ \A i \in 1 .. Len(q) : Fits(q[i], h[i])
  /\ \A i \in 0 .. Len(q) : h[i] # Busy => ScopeCount(h[i]) = Open(q, i)

\* The same as a statement about a stack and the cell at its top.
Good(q, c, drops) == \E h : UnwindsDown(h, q, c, FALSE) /\ Standing(h, q, drops)

IInv ==
  /\ cell \in Cells
  /\ frames \in Seq(GoodFrames)
  /\ lost \subseteq BOOLEAN
  /\ Good(frames, cell, lost)

\* A cell at the top that has no more to offer disturbs nothing.
LEMMA GoodBelow ==
  ASSUME NEW q \in Seq(GoodFrames), NEW c \in Cells, NEW d \in Cells,
         NEW drops \in SUBSET BOOLEAN, NEW more \in SUBSET BOOLEAN,
         drops \subseteq more, Good(q, c, drops), Below(d, c),
         TRUE \notin more => Kept(d, c, TRUE),
         more = {} => Kept(d, c, FALSE)
  PROVE  Good(q, d, more)
<1> DEFINE n == Len(q)
<1>1. n \in Nat
  OBVIOUS
<1>2. PICK h : UnwindsDown(h, q, c, FALSE) /\ Standing(h, q, drops)
  BY DEF Good
<1>3. PICK f : UnwindsDown(f, q, d, FALSE)
  BY UnwoundRecursion
<1>4. \A i \in 0 .. n : f[i] \in Cells /\ h[i] \in Cells
  BY <1>2, <1>3 DEF UnwindsDown
<1>5. \A i \in 0 .. n : Below(f[i], h[i])
  <2>1. \A i \in 1 .. n : Fits(q[i], h[i])
    BY <1>2 DEF Standing
  <2> QED
    BY <1>2, <1>3, <2>1, UnwindsBelow
<1>6. \A i \in 1 .. n : q[i].kind = "window" => f[i] = Busy
  BY <1>1, <1>2, <1>5 DEF Standing, Below
<1>7. ASSUME TRUE \notin more  PROVE AtHome(f[0])
  <2>1. Kept(f[0], h[0], TRUE) /\ Below(f[0], h[0]) /\ f[0] \in Cells
    <3>1. Kept(d, c, TRUE)
      BY <1>7
    <3>2. \A i \in 0 .. n : Kept(f[i], h[i], TRUE)
      BY <1>2, <1>3, <3>1, UnwindsKept
    <3>3. 0 \in 0 .. n
      BY <1>1
    <3> QED
      BY <1>4, <1>5, <3>2, <3>3, Zenon
  <2>2. AtHome(h[0])
    BY <1>2, <1>7 DEF Standing
  <2> QED
    BY <2>1, <2>2 DEF Kept, Below, AtHome
<1>8. ASSUME more = {}, NEW i \in 0 .. n, f[i] = Busy
      PROVE  \E j \in 1 .. i : q[j].kind = "window"
  <2>1. Kept(f[i], h[i], FALSE)
    BY <1>2, <1>3, <1>8, UnwindsKept
  <2>2. h[i] = Busy /\ drops = {}
    BY <1>8, <2>1 DEF Kept
  <2> QED
    BY <1>2, <1>8, <2>2 DEF Standing
<1>9. ASSUME NEW i \in 0 .. n, f[i] # Busy
      PROVE  ScopeCount(f[i]) = Open(q, i)
  <2>1. h[i] # Busy /\ ScopeCount(f[i]) = ScopeCount(h[i])
    BY <1>5, <1>9 DEF Below
  <2> QED
    BY <1>2, <2>1 DEF Standing
<1>10. ASSUME NEW i \in 1 .. n  PROVE Fits(q[i], f[i])
  <2>1. Below(f[i], h[i]) /\ Fits(q[i], h[i])
    BY <1>1, <1>2, <1>5 DEF Standing
  <2> QED
    BY <2>1 DEF Below, Fits
<1>11. Standing(f, q, more)
  BY <1>6, <1>7, <1>8, <1>9, <1>10 DEF Standing
<1> QED
  BY <1>3, <1>11 DEF Good

\* The frame f is put on the stack: cell c is left as d.
Opens(f, c, d) ==
  /\ f \in GoodFrames /\ d \in Cells
  /\ Below(Past(d, f, FALSE), c)
  /\ Kept(Past(d, f, FALSE), c, FALSE)
  /\ f.kind = "window" => d = Busy
  /\ f.kind = "scope" => d # Busy /\ d.store.cur.depth = f.expected
  /\ f.kind = "attach" => d # Busy /\ ScopeCount(d) = 1

\* One frame more.
LEMMA GoodAppend ==
  ASSUME NEW q \in Seq(GoodFrames), NEW c \in Cells, NEW d \in Cells,
         NEW drops \in SUBSET BOOLEAN, Good(q, c, drops), NEW f, Opens(f, c, d)
  PROVE  Good(Append(q, f), d, drops)
<1> DEFINE n == Len(q)
           p == Append(q, f)
           e == Past(d, f, FALSE)
<1>1. f \in GoodFrames /\ e \in Cells
  BY PastProperties DEF Opens
<1>2. /\ n \in Nat /\ p \in Seq(GoodFrames) /\ Len(p) = n + 1 /\ p[n + 1] = f
      /\ \A i \in 1 .. n : p[i] = q[i]
  BY <1>1
<1>3. Good(q, e, drops)
  <2>1. Below(e, c) /\ Kept(e, c, FALSE) /\ Kept(e, c, TRUE)
    BY DEF Opens, Kept
  <2> HIDE DEF e
  <2> QED
    BY <1>1, <2>1, GoodBelow
<1> HIDE DEF p, n, e
<1>4. PICK h : UnwindsDown(h, q, e, FALSE) /\ Standing(h, q, drops)
  BY <1>3 DEF Good
<1> DEFINE g == [i \in 0 .. n + 1 |-> IF i = n + 1 THEN d ELSE h[i]]
<1>5. /\ g[n + 1] = d
      /\ \A i \in 0 .. n : g[i] = h[i] /\ h[i] \in Cells
      /\ g \in [0 .. n + 1 -> Cells]
      /\ h[n] = e
  <2>1. h \in [0 .. n -> Cells] /\ h[n] = e
    BY <1>4 DEF UnwindsDown, n
  <2> QED
    BY <1>2, <2>1
<1> HIDE DEF g
<1>6. ASSUME NEW i \in 1 .. n + 1  PROVE g[i - 1] = Past(g[i], p[i], FALSE)
  <2>1. CASE i = n + 1
    <3>1. i - 1 = n /\ n \in 0 .. n
      BY <1>2, <2>1
    <3> QED
      BY <1>2, <1>5, <2>1, <3>1 DEF e
  <2>2. CASE i # n + 1
    <3>1. i \in 1 .. n /\ i \in 0 .. n /\ i - 1 \in 0 .. n
      BY <1>2, <2>2
    <3>2. h[i - 1] = Past(h[i], q[i], FALSE)
      BY <1>4, <3>1 DEF UnwindsDown, n
    <3> QED
      BY <1>2, <1>5, <3>1, <3>2
  <2> QED
    BY <2>1, <2>2
<1>7. UnwindsDown(g, p, d, FALSE)
  BY <1>2, <1>5, <1>6 DEF UnwindsDown
<1>8. ASSUME NEW i \in 1 .. n + 1, p[i].kind = "window"  PROVE g[i] = Busy
  <2>1. CASE i = n + 1
    BY <1>2, <1>5, <1>8, <2>1 DEF Opens
  <2>2. CASE i # n + 1
    <3>1. i \in 1 .. n /\ i \in 0 .. n
      BY <1>2, <2>2
    <3> QED
      BY <1>2, <1>4, <1>5, <1>8, <3>1 DEF Standing, n
  <2> QED
    BY <2>1, <2>2
<1>9. ASSUME TRUE \notin drops  PROVE AtHome(g[0])
  <2>1. g[0] = h[0]
    BY <1>2, <1>5
  <2> QED
    BY <1>4, <1>9, <2>1 DEF Standing
<1>10. ASSUME drops = {}, NEW i \in 0 .. n + 1, g[i] = Busy
       PROVE  \E j \in 1 .. i : p[j].kind = "window"
  <2>1. ASSUME NEW m \in 0 .. n, h[m] = Busy
        PROVE  \E j \in 1 .. m : p[j].kind = "window"
    <3>1. PICK j \in 1 .. m : q[j].kind = "window"
      BY <1>4, <1>10, <2>1 DEF Standing, n
    <3>2. j \in 1 .. n
      BY <1>2
    <3> QED
      BY <1>2, <3>1, <3>2
  <2>2. CASE i = n + 1
    <3>1. CASE f.kind = "window"
      <4>1. i \in 1 .. i
        BY <1>2, <2>2
      <4> QED
        BY <1>2, <2>2, <3>1, <4>1
    <3>2. CASE f.kind # "window"
      <4>1. d = Busy
        BY <1>5, <1>10, <2>2
      <4>2. f.kind \in {"update", "noop"}
        BY <1>1, <3>2, <4>1, FrameKinds DEF Opens
      <4>3. e = Busy
        BY <1>1, <4>1, <4>2, PastProperties DEF e
      <4>4. n \in 0 .. n /\ 1 .. n \subseteq 1 .. i
        BY <1>2, <2>2
      <4>5. \E j \in 1 .. n : p[j].kind = "window"
        BY <1>5, <2>1, <4>3, <4>4
      <4> QED
        BY <4>4, <4>5
    <3> QED
      BY <3>1, <3>2
  <2>3. CASE i # n + 1
    <3>1. i \in 0 .. n
      BY <1>2, <2>3
    <3>2. h[i] = Busy
      BY <1>5, <1>10, <3>1
    <3> QED
      BY <2>1, <3>1, <3>2
  <2> QED
    BY <2>2, <2>3
<1>11. ASSUME NEW i \in 0 .. n + 1, g[i] # Busy
       PROVE  ScopeCount(g[i]) = Open(p, i)
  <2>1. ASSUME NEW m \in 0 .. n, h[m] # Busy
        PROVE  ScopeCount(h[m]) = Open(p, m)
    <3>1. \A j \in 1 .. m : p[j] = q[j]
      BY <1>2
    <3>2. m \in Nat
      BY <1>2
    <3>3. Open(p, m) = Open(q, m)
      BY <3>1, <3>2, OpenAgree
    <3> QED
      BY <1>4, <2>1, <3>3 DEF Standing, n
  <2>2. CASE i = n + 1
    <3>1. g[i] = d /\ d # Busy /\ d.store.cur.depth \in Nat /\ d.cleared \in Int
      BY <1>5, <1>11, <2>2, CellProperties
    <3>2. Open(p, n) \in Nat
      BY <1>2, OpenType
    <3>3. e # Busy => ScopeCount(e) = Open(p, n)
      <4>1. n \in 0 .. n
        BY <1>2
      <4> QED
        BY <1>5, <2>1, <4>1
    <3>4. CASE f.kind = "scope"
      <4>1. Fits(f, d)
        BY <3>4 DEF Opens, Fits
      <4>2. e # Busy /\ ScopeCount(e) = ScopeCount(d) - 1
        BY <1>1, <3>1, <3>4, <4>1, PastScope DEF e
      <4>3. Open(p, n + 1) = Open(p, n) + 1
        BY <1>2, <3>4, OpenNext
      <4>4. ScopeCount(d) \in Int
        BY <3>1 DEF ScopeCount
      <4>5. ScopeCount(d) = Open(p, n + 1)
        BY <3>2, <3>3, <4>2, <4>3, <4>4
      <4> QED
        BY <2>2, <3>1, <4>5
    <3>5. CASE f.kind = "attach"
      <4>1. ScopeCount(d) = 1
        BY <3>5 DEF Opens
      <4>2. Open(p, n + 1) = 1
        BY <1>2, <3>5, OpenAttach
      <4> QED
        BY <2>2, <3>1, <4>1, <4>2
    <3>6. CASE f.kind \in {"update", "noop"}
      <4>1. e = d
        BY <1>1, <3>6, PastProperties DEF e
      <4>2. Open(p, n + 1) = Open(p, n)
        BY <1>2, <3>6, OpenNext
      <4> QED
        BY <2>2, <3>1, <3>3, <4>1, <4>2
    <3>7. f.kind # "window"
      BY <3>1 DEF Opens
    <3> QED
      BY <1>1, <3>4, <3>5, <3>6, <3>7, FrameKinds
  <2>3. CASE i # n + 1
    <3>1. i \in 0 .. n
      BY <1>2, <2>3
    <3>2. g[i] = h[i]
      BY <1>5, <3>1
    <3> QED
      BY <1>11, <2>1, <3>1, <3>2
  <2> QED
    BY <2>2, <2>3
<1>12. ASSUME NEW i \in 1 .. n + 1  PROVE Fits(p[i], g[i])
  <2>1. CASE i = n + 1
    BY <1>2, <1>5, <2>1 DEF Opens, Fits
  <2>2. CASE i # n + 1
    <3>1. i \in 1 .. n /\ i \in 0 .. n
      BY <1>2, <2>2
    <3> QED
      BY <1>2, <1>4, <1>5, <3>1 DEF Standing, n
  <2> QED
    BY <2>1, <2>2
<1>13. Standing(g, p, drops)
  BY <1>2, <1>8, <1>9, <1>10, <1>11, <1>12 DEF Standing
<1> QED
  BY <1>7, <1>13 DEF Good, p

\* The lower frames of a stack, and what the upper ones leave them.
LEMMA GoodPrefix ==
  ASSUME NEW q \in Seq(GoodFrames), NEW c, NEW drops \in SUBSET BOOLEAN,
         NEW h, UnwindsDown(h, q, c, FALSE), Standing(h, q, drops),
         NEW m \in 0 .. Len(q)
  PROVE  /\ SubSeq(q, 1, m) \in Seq(GoodFrames)
         /\ Good(SubSeq(q, 1, m), h[m], drops)
<1> DEFINE n == Len(q)
           p == SubSeq(q, 1, m)
           g == [i \in 0 .. m |-> h[i]]
<1>1. n \in Nat /\ m \in Nat /\ m <= n /\ \A i \in 1 .. n : q[i] \in GoodFrames
  OBVIOUS
<1>2. /\ p \in Seq(GoodFrames) /\ Len(p) = m
      /\ \A i \in 1 .. m : p[i] = q[i]
  <2>1. 1 \in Int /\ m \in Int /\ \A i \in 1 .. m : q[i] \in GoodFrames
    BY <1>1
  <2>2. /\ p \in Seq(GoodFrames)
        /\ Len(p) = IF 1 <= m THEN m - 1 + 1 ELSE 0
        /\ \A i \in 1 .. m - 1 + 1 : p[i] = q[1 + i - 1]
    BY <2>1, SubSeqProperties
  <2>3. m - 1 + 1 = m /\ \A i \in 1 .. m : 1 + i - 1 = i
    BY <1>1
  <2> HIDE DEF p
  <2> QED
    BY <1>1, <2>2, <2>3
<1> HIDE DEF p
<1>3. /\ g \in [0 .. m -> Cells] /\ \A i \in 0 .. m : g[i] = h[i]
      /\ \A i \in 0 .. m : i \in 0 .. n
  BY <1>1 DEF UnwindsDown
<1> HIDE DEF g
<1>4. UnwindsDown(g, p, h[m], FALSE)
  <2>1. ASSUME NEW i \in 1 .. m  PROVE g[i - 1] = Past(g[i], p[i], FALSE)
    <3>1. i \in 1 .. n /\ i \in 0 .. m /\ i - 1 \in 0 .. m
      BY <1>1
    <3>2. h[i - 1] = Past(h[i], q[i], FALSE)
      BY <3>1 DEF UnwindsDown
    <3> QED
      BY <1>2, <1>3, <3>1, <3>2
  <2>2. m \in 0 .. m
    BY <1>1
  <2>3. g[m] = h[m]
    BY <1>3, <2>2
  <2> QED
    BY <1>2, <1>3, <2>1, <2>3 DEF UnwindsDown
<1>5. \A i \in 1 .. m : p[i].kind = "window" => g[i] = Busy
  BY <1>1, <1>2, <1>3 DEF Standing
<1>6. TRUE \notin drops => AtHome(g[0])
  BY <1>1, <1>3 DEF Standing
<1>7. ASSUME drops = {}, NEW i \in 0 .. m, g[i] = Busy
      PROVE  \E j \in 1 .. i : p[j].kind = "window"
  <2>1. i \in 0 .. n /\ h[i] = Busy
    BY <1>3, <1>7
  <2>2. PICK j \in 1 .. i : q[j].kind = "window"
    BY <1>7, <2>1 DEF Standing
  <2>3. j \in 1 .. m
    BY <1>1
  <2> QED
    BY <1>2, <2>2, <2>3
<1>8. ASSUME NEW i \in 0 .. m, g[i] # Busy
      PROVE  ScopeCount(g[i]) = Open(p, i)
  <2>1. i \in Nat /\ \A j \in 1 .. i : p[j] = q[j]
    BY <1>1, <1>2
  <2>2. Open(p, i) = Open(q, i)
    BY <2>1, OpenAgree
  <2> QED
    BY <1>3, <1>8, <2>2 DEF Standing
<1>9. \A i \in 1 .. m : Fits(p[i], g[i])
  BY <1>1, <1>2, <1>3 DEF Standing
<1>10. Standing(g, p, drops)
  BY <1>2, <1>5, <1>6, <1>7, <1>8, <1>9 DEF Standing
<1> QED
  BY <1>2, <1>4, <1>10 DEF Good, p

\* The innermost frame returns.
LEMMA GoodLeave ==
  ASSUME NEW q \in Seq(GoodFrames), NEW c \in Cells, NEW drops \in SUBSET BOOLEAN,
         Good(q, c, drops), q # <<>>
  PROVE  /\ Last(q) \in GoodFrames
         /\ Front(q) \in Seq(GoodFrames)
         /\ Good(Front(q), Past(c, Last(q), FALSE), drops)
<1> DEFINE n == Len(q)
<1>1. n \in Nat /\ n \in 1 .. n /\ n - 1 \in 0 .. n /\ q[n] \in GoodFrames
  OBVIOUS
<1>2. PICK h : UnwindsDown(h, q, c, FALSE) /\ Standing(h, q, drops)
  BY DEF Good
<1>3. h[n - 1] = Past(c, q[n], FALSE)
  BY <1>1, <1>2 DEF UnwindsDown
<1>4. /\ SubSeq(q, 1, n - 1) \in Seq(GoodFrames)
      /\ Good(SubSeq(q, 1, n - 1), h[n - 1], drops)
  BY <1>1, <1>2, GoodPrefix
<1> QED
  BY <1>1, <1>3, <1>4 DEF Front, Last

\* A window ends with the store put back, and unwinds with the cell as it is.
LEMMA PastOfWindow ==
  ASSUME NEW c \in Cells, NEW f \in GoodFrames, NEW b \in BOOLEAN, f.kind = "window"
  PROVE  Past(c, f, b) = IF b THEN c ELSE f.back
BY PastProperties

\* A panic differs from returning in the windows only.
LEMMA PastUnlessWindow ==
  ASSUME NEW c, NEW f, f.kind # "window"
  PROVE  Past(c, f, TRUE) = Past(c, f, FALSE)
  BY DEF Past

\* The frames above "stay" are unwound by a panic.
LEMMA GoodPanic ==
  ASSUME NEW q \in Seq(GoodFrames), NEW c \in Cells, NEW drops \in SUBSET BOOLEAN,
         Good(q, c, drops), NEW stay \in 0 .. Len(q), stay < Len(q),
         NEW gone, gone = SubSeq(q, stay + 1, Len(q)),
         NEW homes, homes = {gone[i].back.home :
                               i \in {j \in DOMAIN gone : gone[j].kind = "window"}}
  PROVE  /\ SubSeq(q, 1, stay) \in Seq(GoodFrames)
         /\ Unwound(gone, c, TRUE) \in Cells
         /\ drops \cup homes \subseteq BOOLEAN
         /\ Good(SubSeq(q, 1, stay), Unwound(gone, c, TRUE), drops \cup homes)
<1> DEFINE n == Len(q)
           k == n - stay
<1>1. /\ n \in Nat /\ stay \in Nat /\ k \in Nat /\ k >= 1 /\ stay + k = n
      /\ \A i \in 1 .. n : q[i] \in GoodFrames
  OBVIOUS
<1>2. /\ gone \in Seq(GoodFrames) /\ Len(gone) = k
      /\ \A i \in 1 .. k : gone[i] = q[stay + i]
  <2>1. stay + 1 \in Int /\ n \in Int /\ \A i \in stay + 1 .. n : q[i] \in GoodFrames
    BY <1>1
  <2>2. /\ gone \in Seq(GoodFrames)
        /\ Len(gone) = IF stay + 1 <= n THEN n - (stay + 1) + 1 ELSE 0
        /\ \A i \in 1 .. n - (stay + 1) + 1 : gone[i] = q[stay + 1 + i - 1]
    BY <2>1, SubSeqProperties
  <2>3. /\ n - (stay + 1) + 1 = k /\ stay + 1 <= n
        /\ \A i \in 1 .. k : stay + 1 + i - 1 = stay + i
    BY <1>1
  <2> QED
    BY <2>2, <2>3
<1> HIDE DEF k, n
<1>3. DOMAIN gone = 1 .. k /\ \A i \in 1 .. k : gone[i] \in GoodFrames
  BY <1>2
<1>4. \A i \in 1 .. k : gone[i].kind = "window" =>
        /\ gone[i].back \in GoodCells /\ gone[i].back.home \in homes
        /\ gone[i].back.home \in BOOLEAN
  BY <1>3, FrameKinds DEF GoodCells
<1>5. homes \subseteq BOOLEAN
  BY <1>3, <1>4
<1>6. PICK h : UnwindsDown(h, q, c, FALSE) /\ Standing(h, q, drops)
  BY DEF Good
<1>7. PICK f : UnwindsDown(f, gone, c, TRUE) /\ Unwound(gone, c, TRUE) = f[0]
  BY <1>2, UnwoundRecursion
<1>8. \A i \in 0 .. k : f[i] \in Cells /\ h[stay + i] \in Cells
  <2>1. \A i \in 0 .. k : stay + i \in 0 .. n
    BY <1>1
  <2> QED
    BY <1>2, <1>6, <1>7, <2>1 DEF UnwindsDown, n
<1> DEFINE Less(i) == /\ Below(f[i], h[stay + i])
                      /\ TRUE \notin homes => Kept(f[i], h[stay + i], TRUE)
                      /\ homes = {} => Kept(f[i], h[stay + i], FALSE)
           T == {i \in 0 .. k : Less(i)}
<1>9. k \in T
  <2>1. f[k] = c /\ h[stay + k] = c
    BY <1>1, <1>2, <1>6, <1>7 DEF UnwindsDown, n
  <2>2. Below(c, c) /\ Kept(c, c, TRUE) /\ Kept(c, c, FALSE)
    BY BelowItself DEF Kept
  <2>3. Less(k)
    BY <2>1, <2>2, Zenon
  <2>4. k \in 0 .. k
    BY <1>1
  <2> HIDE DEF Less
  <2> QED
    BY <2>3, <2>4
<1>10. ASSUME NEW i \in 1 .. k, i \in T  PROVE i - 1 \in T
  <2> DEFINE g == gone[i]
             x == f[i]
             y == h[stay + i]
  <2>1. /\ i - 1 \in 0 .. k /\ i \in 0 .. k /\ stay + i \in 1 .. n
        /\ stay + (i - 1) = (stay + i) - 1
    BY <1>1
  <2>2. g \in GoodFrames /\ g = q[stay + i] /\ x \in Cells /\ y \in Cells
    BY <1>2, <1>3, <1>8, <2>1
  <2>3. f[i - 1] = Past(x, g, TRUE) /\ h[stay + (i - 1)] = Past(y, g, FALSE)
    <3>1. f[i - 1] = Past(x, g, TRUE)
      BY <1>2, <1>7 DEF UnwindsDown
    <3>2. h[(stay + i) - 1] = Past(h[stay + i], q[stay + i], FALSE)
      BY <1>6, <2>1 DEF UnwindsDown, n
    <3> QED
      BY <2>1, <2>2, <3>1, <3>2
  <2>4. /\ Below(x, y)
        /\ TRUE \notin homes => Kept(x, y, TRUE)
        /\ homes = {} => Kept(x, y, FALSE)
    BY <1>10
  <2>5. g.kind = "window" => y = Busy
    BY <1>6, <2>1, <2>2 DEF Standing, n
  <2>6. Fits(g, y)
    BY <1>6, <2>1, <2>2 DEF Standing, n
  <2>7. g.kind = "window" => /\ g.back \in GoodCells /\ g.back.home \in homes
                             /\ g.back.home \in BOOLEAN
    BY <1>4
  <2> DEFINE u == Past(x, g, TRUE)
             v == Past(y, g, FALSE)
  <2> HIDE DEF g, x, y
  <2>8. /\ Below(u, v)
        /\ TRUE \notin homes => Kept(u, v, TRUE)
        /\ homes = {} => Kept(u, v, FALSE)
    <3>1. CASE g.kind = "window"
      <4>1. x = Busy
        BY <2>4, <2>5, <3>1 DEF Below
      <4>2. u = Busy /\ v = g.back
        <5>1. u = x
          BY <2>2, <3>1, PastOfWindow
        <5>2. v = g.back
          BY <2>2, <3>1, PastOfWindow
        <5> QED
          BY <4>1, <5>1, <5>2
      <4> HIDE DEF u, v
      <4>3. Below(u, v)
        BY <4>2 DEF Below
      <4>4. TRUE \notin homes => Kept(u, v, TRUE)
        BY <2>7, <3>1, <4>2 DEF Kept
      <4>5. homes # {}
        BY <2>7, <3>1
      <4> QED
        BY <4>3, <4>4, <4>5
    <3>2. CASE g.kind # "window"
      <4>1. u = Past(x, g, FALSE)
        BY <3>2, PastUnlessWindow
      <4>2. Below(Past(x, g, FALSE), v)
        BY <2>2, <2>4, <2>6, PastBelow
      <4>3. TRUE \notin homes => Kept(Past(x, g, FALSE), v, TRUE)
        BY <2>2, <2>4, PastKept
      <4>4. homes = {} => Kept(Past(x, g, FALSE), v, FALSE)
        BY <2>2, <2>4, PastKept
      <4> HIDE DEF u, v
      <4> QED
        BY <4>1, <4>2, <4>3, <4>4
    <3> QED
      BY <3>1, <3>2
  <2> HIDE DEF u, v
  <2>9. f[i - 1] = u /\ h[stay + (i - 1)] = v
    BY <2>3 DEF u, v
  <2>10. Less(i - 1)
    BY <2>8, <2>9
  <2> QED
    BY <2>1, <2>10
<1> HIDE DEF T
<1>11. \A i \in 0 .. k : i \in T
  BY <1>1, <1>9, <1>10, DownwardInduction
<1>12. /\ Below(f[0], h[stay])
       /\ TRUE \notin homes => Kept(f[0], h[stay], TRUE)
       /\ homes = {} => Kept(f[0], h[stay], FALSE)
  <2>1. 0 \in 0 .. k /\ stay + 0 = stay
    BY <1>1
  <2>2. Less(0)
    BY <1>11, <2>1 DEF T
  <2> QED
    BY <2>1, <2>2
<1>13. f[0] \in Cells /\ h[stay] \in Cells
  <2>1. 0 \in 0 .. k /\ stay + 0 = stay
    BY <1>1
  <2> QED
    BY <1>8, <2>1
<1> HIDE DEF Less
<1> DEFINE p    == SubSeq(q, 1, stay)
           more == drops \cup homes
<1>14. p \in Seq(GoodFrames) /\ Good(p, h[stay], drops)
  BY <1>6, GoodPrefix
<1>15. more \in SUBSET BOOLEAN /\ drops \subseteq more
  BY <1>5
<1>16. /\ TRUE \notin more => Kept(f[0], h[stay], TRUE)
       /\ more = {} => Kept(f[0], h[stay], FALSE)
  BY <1>12
<1> HIDE DEF p, more
<1>17. Good(p, f[0], more)
  BY <1>12, <1>13, <1>14, <1>15, <1>16, GoodBelow
<1> QED
  BY <1>7, <1>13, <1>14, <1>15, <1>17 DEF p, more

-----------------------------------------------------------------------------
(* The steps *)

\* The next state keeps the invariant, once no other store is lost.
Fine ==
  /\ cell' \in Cells
  /\ frames' \in Seq(GoodFrames)
  /\ Good(frames', cell', lost)

\* The thread starts with its own store.
LEMMA InitIInv == Init => IInv
<1> SUFFICES ASSUME Init  PROVE IInv
  OBVIOUS
<1>1. SoundStore(NewStore) /\ NewStore \in SoundStores /\ NewStore.cur.depth = 1
  BY SoundNew, SoundIsStore
<1>2. cell \in GoodCells /\ cell # Busy /\ AtHome(cell) /\ ScopeCount(cell) = 1
  <2>1. /\ cell \in GoodCells /\ cell.home /\ cell.store = NewStore
        /\ cell.cleared = 0
    BY <1>1 DEF Init, GoodCells
  <2> QED
    BY <1>1, <2>1, BusyApart DEF AtHome, ScopeCount
<1>3. /\ frames = <<>> /\ frames \in Seq(GoodFrames) /\ Len(frames) = 0
      /\ lost = {} /\ cell \in Cells
  BY <1>2 DEF Init, Cells
<1> DEFINE h == [i \in 0 .. 0 |-> cell]
<1>4. h \in [0 .. 0 -> Cells] /\ h[0] = cell /\ \A i \in 0 .. 0 : h[i] = cell
  BY <1>3
<1> HIDE DEF h
<1>5. UnwindsDown(h, frames, cell, FALSE)
  BY <1>3, <1>4 DEF UnwindsDown
<1>6. Open(frames, 0) = 1
  <2>1. Entered(frames, 0) = {}
    BY OpenType
  <2> QED
    BY <2>1, FS_EmptySet DEF Open
<1>7. \A i \in 0 .. 0 : h[i] # Busy /\ ScopeCount(h[i]) = Open(frames, i)
  BY <1>2, <1>4, <1>6
<1>8. Standing(h, frames, lost)
  BY <1>2, <1>3, <1>4, <1>7 DEF Standing
<1>9. Good(frames, cell, lost)
  BY <1>5, <1>8 DEF Good
<1> QED
  BY <1>3, <1>9 DEF IInv

\* d is the store in the cell after an operation: its scopes are still there, or
\* were cleared.
Changed(d) == d \in GoodCells /\ d # Busy /\ Below(d, cell)

\* An operation that leaves the scopes alone.
LEMMA WithStoreChanged ==
  ASSUME cell \in Cells, cell # Busy,
         NEW s \in SoundStores, s.cur.depth = cell.store.cur.depth
  PROVE  Changed(WithStore(s))
<1>1. /\ WithStore(s) \in GoodCells /\ WithStore(s) # Busy
      /\ WithStore(s).home = cell.home /\ WithStore(s).store = s
      /\ WithStore(s).cleared = cell.cleared
  BY CellProperties DEF WithStore
<1> QED
  BY <1>1 DEF Changed, Below, ScopeCount

\* The operation that clears them.
LEMMA ClearedChanged ==
  ASSUME cell \in Cells, cell # Busy
  PROVE  Changed(Cleared)
<1> DEFINE x == cell.store.cur.depth
           n == cell.cleared + x - 1
<1>1. cell \in GoodCells /\ x \in Nat /\ cell.cleared \in Int
  BY CellProperties
<1>2. NewStore \in SoundStores /\ NewStore.cur.depth = 1
  BY SoundNew, SoundIsStore
<1>3. Cleared = [cell EXCEPT !.store = NewStore, !.cleared = n]
  BY <1>1 DEF Cleared, GoodCells
<1>4. n \in Int
  BY <1>1
<1> HIDE DEF n
<1>5. /\ Cleared \in GoodCells /\ Cleared.home = cell.home
      /\ Cleared.store = NewStore /\ Cleared.cleared = n
  BY <1>1, <1>2, <1>3, <1>4 DEF GoodCells
<1>6. 1 + n = x + cell.cleared
  BY <1>1 DEF n
<1>7. ScopeCount(Cleared) = ScopeCount(cell)
  BY <1>2, <1>5, <1>6 DEF ScopeCount
<1> QED
  BY <1>2, <1>5, <1>7, BusyApart DEF Changed, Below

\* The store in the cell is exchanged for the changed one.
LEMMA StoreFine ==
  ASSUME cell \in Cells, cell # Busy, lost \subseteq BOOLEAN,
         NEW stack \in Seq(GoodFrames), Good(stack, cell, lost),
         NEW d, Changed(d), cell' = d, frames' = stack
  PROVE  Fine
<1>1. d \in Cells /\ Below(d, cell) /\ Kept(d, cell, TRUE) /\ Kept(d, cell, FALSE)
  BY DEF Changed, Kept, Cells
<1>2. Good(stack, d, lost)
  BY <1>1, GoodBelow
<1> QED
  BY <1>1, <1>2 DEF Fine

\* The store is taken out of the cell, to be put back changed.
LEMMA WindowFine ==
  ASSUME cell \in Cells, cell # Busy, lost \subseteq BOOLEAN,
         NEW stack \in Seq(GoodFrames), Good(stack, cell, lost),
         NEW d, Changed(d), Window(d, stack)
  PROVE  Fine
<1> DEFINE f == [kind |-> "window", back |-> d]
<1>1. cell' = Busy /\ frames' = Append(stack, f)
  BY DEF Window
<1>2. f \in GoodFrames /\ f.kind = "window" /\ f.back = d
  BY DEF GoodFrames, Changed
<1> HIDE DEF f
<1>3. Busy \in Cells
  BY DEF Cells
<1>4. Past(Busy, f, FALSE) = d
  BY <1>2, <1>3, PastProperties
<1>5. Opens(f, cell, Busy)
  BY <1>2, <1>3, <1>4 DEF Opens, Changed, Kept
<1>6. Good(Append(stack, f), Busy, lost)
  BY <1>3, <1>5, GoodAppend
<1>7. Append(stack, f) \in Seq(GoodFrames)
  BY <1>2
<1> QED
  BY <1>1, <1>3, <1>6, <1>7 DEF Fine

\* What is overwritten may be dropped in a window, or not.
LEMMA OverwriteFine ==
  ASSUME cell \in Cells, cell # Busy, lost \subseteq BOOLEAN,
         NEW stack \in Seq(GoodFrames), Good(stack, cell, lost),
         NEW d, Changed(d), NEW overwritten, Overwrite(d, overwritten, stack)
  PROVE  Fine
<1>1. Window(d, stack) => Fine
  BY WindowFine
<1>2. cell' = d /\ frames' = stack => Fine
  BY StoreFine
<1> QED
  BY <1>1, <1>2 DEF Overwrite

\* A set_context_variable, on a busy cell too.
LEMMA SetFine ==
  ASSUME cell \in Cells, lost \subseteq BOOLEAN,
         NEW stack \in Seq(GoodFrames), Good(stack, cell, lost),
         NEW k \in Keys, NEW v \in Vals, Set(k, v, stack)
  PROVE  Fine
<1>1. CASE cell = Busy
  BY <1>1 DEF Set, Fine
<1>2. CASE cell # Busy
  <2> DEFINE s == SetValue(cell.store, k, v)
             overwritten == cell.store.cur.values[k] # NoVal
  <2>1. SoundStore(cell.store)
    BY <1>2, CellProperties
  <2>2. s \in SoundStores /\ s.cur.depth = cell.store.cur.depth
    BY <2>1, SoundSetValue, SoundIsStore
  <2>3. Overwrite(WithStore(s), overwritten, stack)
    BY <1>2 DEF Set
  <2> HIDE DEF s, overwritten
  <2>4. Changed(WithStore(s))
    BY <1>2, <2>2, WithStoreChanged
  <2> QED
    BY <1>2, <2>3, <2>4, OverwriteFine
<1> QED
  BY <1>1, <1>2

\* A call or a block that leaves the cell as d.
LEMMA OpensFine ==
  ASSUME IInv, NEW f, Opens(f, cell, cell'), frames' = Append(frames, f)
  PROVE  Fine
<1>1. f \in GoodFrames /\ cell' \in Cells
  BY DEF Opens
<1>2. /\ cell \in Cells /\ frames \in Seq(GoodFrames) /\ lost \subseteq BOOLEAN
      /\ Good(frames, cell, lost)
  BY DEF IInv
<1>3. Good(Append(frames, f), cell', lost)
  BY <1>1, <1>2, GoodAppend
<1> QED
  BY <1>1, <1>2, <1>3 DEF Fine

\* A block that holds a ScopeGuard.
LEMMA EnterScopeFine ==
  ASSUME IInv, NEW name \in Names, EnterScope(name)
  PROVE  Fine
<1>1. cell \in Cells
  BY DEF IInv
<1>2. CASE cell = Busy
  <2> DEFINE f == [kind |-> "noop"]
  <2>1. cell' = cell /\ frames' = Append(frames, f)
    BY <1>2 DEF EnterScope, Call
  <2>2. f \in GoodFrames /\ f.kind = "noop"
    BY DEF GoodFrames
  <2> HIDE DEF f
  <2>3. Past(cell, f, FALSE) = cell
    BY <1>1, <2>2, PastProperties
  <2>4. Opens(f, cell, cell')
    BY <1>1, <2>1, <2>2, <2>3, BelowItself DEF Opens
  <2> QED
    BY <2>1, <2>4, OpensFine
<1>3. CASE cell # Busy
  <2> DEFINE s == PushScope(cell.store, name, CachedKeys)
             d == [cell EXCEPT !.store = s]
             x == cell.store.cur.depth
             f == [kind |-> "scope", expected |-> cell'.store.cur.depth]
  <2>1. SoundStore(cell.store) /\ x \in Nat /\ x >= 1 /\ cell.cleared \in Int
    BY <1>1, <1>3, CellProperties
  <2>2. s \in SoundStores /\ s.cur.depth = x + 1
    BY <2>1, SoundPush, SoundIsStore
  <2>3. cell' = d /\ frames' = Append(frames, f)
    BY <1>3 DEF EnterScope, Call, WithStore
  <2> HIDE DEF s
  <2>4. /\ d \in GoodCells /\ d # Busy /\ d.home = cell.home /\ d.store = s
        /\ d.cleared = cell.cleared
    BY <1>1, <1>3, <2>2, CellProperties
  <2> HIDE DEF d
  <2>5. f.kind = "scope" /\ f.expected = x + 1 /\ f \in GoodFrames
    BY <2>1, <2>2, <2>3, <2>4 DEF GoodFrames, Depths
  <2> HIDE DEF f
  <2>6. d \in Cells /\ d.store.cur.depth = x + 1
    BY <2>2, <2>4 DEF Cells
  <2> DEFINE e == Past(d, f, FALSE)
  <2>7. /\ e # Busy /\ e.home = d.home
        /\ e.store.cur.depth = IF d.store.cur.depth = 1
                               THEN 1 ELSE f.expected - 1
        /\ ScopeCount(e) = ScopeCount(d) - 1
    BY <2>4, <2>5, <2>6, PastScope DEF Fits
  <2> HIDE DEF e
  <2>8. e.store.cur.depth = x /\ ScopeCount(e) = ScopeCount(cell)
    <3>1. ScopeCount(d) = x + 1 + cell.cleared /\ ScopeCount(cell) = x + cell.cleared
      BY <2>4, <2>6 DEF ScopeCount
    <3> HIDE DEF x
    <3> QED BY <2>1, <2>5, <2>6, <2>7, <3>1
  <2>9. Below(e, cell) /\ Kept(e, cell, FALSE)
    BY <1>3, <2>1, <2>4, <2>7, <2>8 DEF Below, Kept
  <2>10. Opens(f, cell, d)
    BY <2>4, <2>5, <2>6, <2>9 DEF Opens, e
  <2>11. Opens(f, cell, cell')
    BY <2>3, <2>10
  <2> QED
    BY <2>3, <2>11, OpensFine DEF f
<1> QED
  BY <1>2, <1>3

\* A block that holds an AttachGuard.
LEMMA EnterAttachFine ==
  ASSUME IInv, NEW s \in SoundStores, s.cur.depth = 1, EnterAttach(s)
  PROVE  Fine
<1> DEFINE d == [home |-> FALSE, store |-> s, cleared |-> 0]
           f == [kind |-> "attach", prev |-> cell]
<1>1. cell \in Cells
  BY DEF IInv
<1>2. cell' = d /\ frames' = Append(frames, f)
  BY DEF EnterAttach, Call
<1>3. d \in GoodCells /\ ScopeCount(d) = 1
  BY DEF GoodCells, ScopeCount
<1> HIDE DEF d
<1>4. d \in Cells /\ d # Busy
  BY <1>3, BusyApart DEF Cells
<1>5. f \in GoodFrames /\ f.kind = "attach" /\ f.prev = cell
  BY <1>1 DEF GoodFrames
<1> HIDE DEF f
<1>6. Past(d, f, FALSE) = cell
  BY <1>4, <1>5, PastProperties
<1>7. Opens(f, cell, d)
  BY <1>1, <1>3, <1>4, <1>5, <1>6, BelowItself DEF Opens
<1>8. Opens(f, cell, cell')
  BY <1>2, <1>7
<1> QED
  BY <1>2, <1>8, OpensFine

\* What holds once the innermost frame is gone.
LEMMA LeaveFine ==
  ASSUME IInv, frames # <<>>
  PROVE  /\ Last(frames) \in GoodFrames
         /\ Past(cell, Last(frames), FALSE) \in Cells
         /\ Front(frames) \in Seq(GoodFrames)
         /\ Good(Front(frames), Past(cell, Last(frames), FALSE), lost)
<1>1. /\ cell \in Cells /\ frames \in Seq(GoodFrames) /\ lost \in SUBSET BOOLEAN
      /\ Good(frames, cell, lost)
  BY DEF IInv
<1> QED
  BY <1>1, GoodLeave, PastProperties

\* A step without a panic.
LEMMA CalmIInv ==
  ASSUME IInv, Calm
  PROVE  IInv'
<1>1. /\ cell \in Cells /\ frames \in Seq(GoodFrames) /\ lost \subseteq BOOLEAN
      /\ Good(frames, cell, lost)
  BY DEF IInv
<1>2. cell # Busy => /\ SoundStore(cell.store) /\ cell.store \in SoundStores
                     /\ cell.store \in Store /\ Changed(cell)
  <2> SUFFICES ASSUME cell # Busy
               PROVE  /\ SoundStore(cell.store) /\ cell.store \in SoundStores
                      /\ cell.store \in Store /\ Changed(cell)
    OBVIOUS
  <2>1. SoundStore(cell.store) /\ cell \in GoodCells
    BY <1>1, CellProperties
  <2> QED
    BY <1>1, <2>1, SoundIsStore, BelowItself DEF SoundStore, Changed
<1>3. NewStore \in SoundStores /\ NewStore.cur.depth = 1
  BY SoundNew, SoundIsStore
<1>4. ASSUME NEW k \in Keys, GetVariable(k)  PROVE Fine
  <2>1. cell # Busy /\ Window(cell, frames)
    BY <1>4 DEF GetVariable
  <2> QED
    BY <1>1, <1>2, <2>1, WindowFine
<1>5. ASSUME NEW k \in Keys, NEW v \in Vals, SetVariable(k, v)  PROVE Fine
  BY <1>1, <1>5, SetFine DEF SetVariable
<1>6. ASSUME NEW values \in Values, Merge(values)  PROVE Fine
  <2> DEFINE s == MergeValues(cell.store, values)
             overwritten == \E k \in Keys : values[k] # NoVal
                                              /\ cell.store.cur.values[k] # NoVal
  <2>1. cell # Busy /\ Overwrite(WithStore(s), overwritten, frames)
    BY <1>6 DEF Merge
  <2>2. s \in SoundStores /\ s.cur.depth = cell.store.cur.depth
    BY <1>2, <2>1, SoundMerge, SoundIsStore
  <2> HIDE DEF s, overwritten
  <2>3. Changed(WithStore(s))
    BY <1>1, <2>1, <2>2, WithStoreChanged
  <2> QED
    BY <1>1, <2>1, <2>3, OverwriteFine
<1>7. ASSUME Clear  PROVE Fine
  <2> DEFINE overwritten == CollectValues(cell.store) # EmptyValues
  <2>1. cell # Busy /\ Overwrite(Cleared, overwritten, frames)
    BY <1>7 DEF Clear
  <2>2. Changed(Cleared)
    BY <1>1, <2>1, ClearedChanged
  <2> HIDE DEF overwritten
  <2> QED
    BY <1>1, <2>1, <2>2, OverwriteFine
<1>8. ASSUME FinishWindow  PROVE Fine
  <2>1. /\ frames # <<>> /\ Last(frames).kind = "window"
        /\ cell' = Last(frames).back /\ frames' = Front(frames)
    BY <1>8 DEF FinishWindow
  <2>2. Last(frames) \in GoodFrames
    BY <2>1, LeaveFine
  <2>3. cell' = Past(cell, Last(frames), FALSE)
    BY <1>1, <2>1, <2>2, PastProperties
  <2> QED
    BY <2>1, <2>3, LeaveFine DEF Fine
<1>9. ASSUME NEW k \in Keys, BeginUpdate(k)  PROVE Fine
  <2> DEFINE f == [kind |-> "update", key |-> k]
             stack == Append(frames, f)
  <2>1. f \in GoodFrames /\ f.kind = "update"
    BY DEF GoodFrames
  <2>2. \/ cell # Busy /\ Window(cell, stack)
        \/ frames' = stack /\ cell' = cell
    BY <1>9 DEF BeginUpdate
  <2> HIDE DEF f
  <2>3. Past(cell, f, FALSE) = cell
    BY <1>1, <2>1, PastProperties
  <2>4. Opens(f, cell, cell)
    BY <1>1, <2>1, <2>3, BelowItself DEF Opens
  <2>5. stack \in Seq(GoodFrames) /\ Good(stack, cell, lost)
    BY <1>1, <2>1, <2>4, GoodAppend
  <2> HIDE DEF stack
  <2>6. cell # Busy /\ Window(cell, stack) => Fine
    BY <1>1, <1>2, <2>5, WindowFine
  <2>7. frames' = stack /\ cell' = cell => Fine
    BY <1>1, <2>5 DEF Fine
  <2> QED
    BY <2>2, <2>6, <2>7
<1>10. ASSUME NEW v \in Vals, FinishUpdate(v)  PROVE Fine
  <2>1. /\ frames # <<>> /\ Last(frames).kind = "update"
        /\ Set(Last(frames).key, v, Front(frames))
    BY <1>10 DEF FinishUpdate
  <2>2. /\ Last(frames) \in GoodFrames /\ Front(frames) \in Seq(GoodFrames)
        /\ Good(Front(frames), Past(cell, Last(frames), FALSE), lost)
    BY <2>1, LeaveFine
  <2>3. Past(cell, Last(frames), FALSE) = cell /\ Last(frames).key \in Keys
    BY <1>1, <2>1, <2>2, PastProperties, FrameKinds
  <2>4. Good(Front(frames), cell, lost)
    BY <2>2, <2>3
  <2> QED
    BY <1>1, <2>1, <2>2, <2>3, <2>4, SetFine
<1>11. ASSUME NEW name \in Names, EnterScope(name)  PROVE Fine
  BY <1>11, EnterScopeFine
<1>12. ASSUME EnterAttach(NewStore)  PROVE Fine
  BY <1>3, <1>12, EnterAttachFine
<1>13. ASSUME cell # Busy, EnterAttach(ForkChild(cell.store))  PROVE Fine
  <2> DEFINE s == ForkChild(cell.store)
  <2>1. s \in SoundStores
    BY <1>2, <1>13, SoundFork, SoundIsStore
  <2>2. s.cur.depth = 1
    BY DEF ForkChild, RootScope
  <2> HIDE DEF s
  <2>3. EnterAttach(s)
    BY <1>13 DEF s
  <2> QED
    BY <2>1, <2>2, <2>3, EnterAttachFine
<1>14. ASSUME LeaveBlock  PROVE Fine
  <2>1. /\ frames # <<>> /\ Last(frames).kind # "window"
        /\ cell' = Dropped(cell, Last(frames)) /\ frames' = Front(frames)
    BY <1>14 DEF LeaveBlock
  <2>2. cell' = Past(cell, Last(frames), FALSE)
    BY <2>1 DEF Past
  <2> QED
    BY <2>1, <2>2, LeaveFine DEF Fine
<1>15. Fine
  BY <1>4, <1>5, <1>6, <1>7, <1>8, <1>9, <1>10, <1>11, <1>12, <1>13, <1>14 DEF Calm
<1>16. lost' = lost
  BY DEF Calm, GetVariable, SetVariable, Merge, Clear, FinishWindow, BeginUpdate,
         FinishUpdate, EnterScope, EnterAttach, LeaveBlock
<1> QED
  BY <1>1, <1>15, <1>16 DEF Fine, IInv

\* Every step.
LEMMA NextIInv == IInv /\ [Next]_vars => IInv'
<1> SUFFICES ASSUME IInv, [Next]_vars  PROVE IInv'
  OBVIOUS
<1>1. ASSUME NEW stay \in 0 .. Len(frames), Panic(stay)  PROVE IInv'
  <2> DEFINE gone == SubSeq(frames, stay + 1, Len(frames))
             homes == {gone[i].back.home :
                         i \in {j \in DOMAIN gone : gone[j].kind = "window"}}
  <2>1. /\ stay < Len(frames) /\ cell' = Unwound(gone, cell, TRUE)
        /\ frames' = SubSeq(frames, 1, stay) /\ lost' = lost \cup homes
    BY <1>1 DEF Panic
  <2>2. /\ cell \in Cells /\ frames \in Seq(GoodFrames)
        /\ lost \in SUBSET BOOLEAN /\ Good(frames, cell, lost)
    BY DEF IInv
  <2>3. /\ SubSeq(frames, 1, stay) \in Seq(GoodFrames)
        /\ Unwound(gone, cell, TRUE) \in Cells
        /\ lost \cup homes \subseteq BOOLEAN
        /\ Good(SubSeq(frames, 1, stay), Unwound(gone, cell, TRUE), lost \cup homes)
    BY <2>1, <2>2, GoodPanic
  <2> HIDE DEF gone, homes
  <2> QED
    BY <2>1, <2>3 DEF IInv
<1>2. Calm => IInv'
  BY CalmIInv
<1>3. UNCHANGED vars => IInv'
  BY DEF vars, IInv
<1> QED
  BY <1>1, <1>2, <1>3 DEF Next

\* The inductive invariant holds of every behaviour.
THEOREM SpecIInv == Spec => []IInv
  BY InitIInv, NextIInv, PTL DEF Spec

-----------------------------------------------------------------------------
(* Theorems *)

\* Type correctness of the cell and the call stack (try_apply, the guards).
THEOREM SpecTypeOK == Spec => []TypeOK
<1>1. IInv => TypeOK
  <2> SUFFICES ASSUME IInv  PROVE TypeOK
    OBVIOUS
  <2>1. GoodCells \subseteq Cell /\ Depths \subseteq Nat
    BY DEF GoodCells, SoundStores, Cell, Depths
  <2>2. cell \in Cell \cup {Busy}
    BY <2>1 DEF IInv, Cells
  <2>3. GoodFrames \subseteq Frame
    BY <2>1 DEF GoodFrames, Frame, Cells
  <2>4. frames \in Seq(Frame)
    <3>1. frames \in Seq(GoodFrames)
      BY DEF IInv
    <3>2. \A i \in 1 .. Len(frames) : frames[i] \in Frame
      BY <2>3, <3>1
    <3>3. Len(frames) \in Nat /\ frames = [i \in 1 .. Len(frames) |-> frames[i]]
      BY <3>1
    <3> QED
      BY <3>2, <3>3
  <2> QED
    BY <2>2, <2>4 DEF IInv, TypeOK
<1> QED
  BY <1>1, SpecIInv, PTL

\* However operations, blocks, attached stores and caught panics nest, the
\* thread gets its own store back, at its root, unless a panic unwound an
\* operation that had just taken that very store: try_apply's take and set,
\* ScopeGuard's and AttachGuard's drop.
THEOREM SpecHomeComesBack == Spec => []HomeComesBack
<1>1. IInv => HomeComesBack
  <2> SUFFICES ASSUME IInv, TRUE \notin lost
               PROVE  /\ Returned # Busy /\ Returned.home
                      /\ Returned.store.cur.depth = 1
    BY DEF HomeComesBack
  <2>1. cell \in Cells /\ frames \in Seq(GoodFrames)
    BY DEF IInv
  <2>2. PICK h : UnwindsDown(h, frames, cell, FALSE) /\ Standing(h, frames, lost)
    BY DEF IInv, Good
  <2>3. Unwound(frames, cell, FALSE) = h[0]
    BY <2>1, <2>2, UnwoundIs
  <2>4. AtHome(h[0])
    BY <2>2 DEF Standing
  <2> QED
    BY <2>3, <2>4 DEF Returned, AtHome
<1> QED
  BY <1>1, SpecIInv, PTL

\* As long as no panic unwound a window, code that no operation is waiting for
\* finds a context: the early return of try_apply on an empty cell is not taken.
THEOREM SpecContextOutsideWindows == Spec => []ContextOutsideWindows
<1>1. IInv => ContextOutsideWindows
  <2> SUFFICES ASSUME IInv, lost = {}, cell = Busy
               PROVE  \E i \in DOMAIN frames : frames[i].kind = "window"
    BY DEF ContextOutsideWindows
  <2>1. frames \in Seq(GoodFrames)
    BY DEF IInv
  <2>2. /\ Len(frames) \in 0 .. Len(frames)
        /\ DOMAIN frames = 1 .. Len(frames)
    BY <2>1
  <2>3. PICK h : UnwindsDown(h, frames, cell, FALSE) /\ Standing(h, frames, lost)
    BY DEF IInv, Good
  <2>4. h[Len(frames)] = Busy
    BY <2>3 DEF UnwindsDown
  <2> QED
    BY <2>2, <2>3, <2>4 DEF Standing
<1> QED
  BY <1>1, SpecIInv, PTL

\* However operations re-enter and panics unwind them, the store in use has
\* exactly one scope for every block open in it whose scope no clear() removed:
\* try_apply, push_scope and leave_scope neither lose nor leave one over.
THEOREM SpecDepthCountsOpenBlocks == Spec => []DepthCountsOpenBlocks
<1>1. IInv => DepthCountsOpenBlocks
  <2> SUFFICES ASSUME IInv  PROVE DepthCountsOpenBlocks
    OBVIOUS
  <2>1. frames \in Seq(GoodFrames)
    BY DEF IInv
  <2>2. /\ Len(frames) \in 0 .. Len(frames)
        /\ DOMAIN frames = 1 .. Len(frames)
    BY <2>1
  <2>3. PICK h : UnwindsDown(h, frames, cell, FALSE) /\ Standing(h, frames, lost)
    BY DEF IInv, Good
  <2>4. h[Len(frames)] = cell
    BY <2>3 DEF UnwindsDown
  <2>5. cell # Busy => ScopeCount(cell) = Open(frames, Len(frames))
    BY <2>2, <2>3, <2>4 DEF Standing
  <2> QED
    BY <2>2, <2>5 DEF DepthCountsOpenBlocks, ScopeCount, Open, Entered, Base
<1> QED
  BY <1>1, SpecIInv, PTL

=============================================================================
