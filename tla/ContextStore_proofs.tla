------------------------ MODULE ContextStore_proofs ------------------------
(***************************************************************************)
(* Lemmas about the operators of ContextStore, for every value of its      *)
(* constants: what each method returns, and what pop_scope computes on a   *)
(* store whose chain and depth counter agree.                              *)
(***************************************************************************)
EXTENDS Snapshots, SequenceTheorems, WellFoundedInduction, TLAPS

-----------------------------------------------------------------------------
(* Maxima and minima *)

\* A non-empty set of naturals has a least element.
LEMMA NatSetHasLeast ==
  ASSUME NEW T \in SUBSET Nat, T # {}
  PROVE  \E x \in T : \A y \in T : x <= y
<1> DEFINE R == OpToRel(<, Nat)
<1>1. \A x, y \in Nat : y < x => <<y, x>> \in R
  BY DEF OpToRel
<1>2. IsWellFoundedOn(R, Nat)
  BY NatLessThanWellFounded
<1> HIDE DEF R
<1>3. PICK x \in T : \A y \in T : <<y, x>> \notin R
  BY <1>2, WFMin, Zenon
<1>4. \A y \in T : x <= y
  <2> SUFFICES ASSUME NEW y \in T  PROVE x <= y
    OBVIOUS
  <2>1. x \in Nat /\ y \in Nat
    OBVIOUS
  <2>2. ~ (y < x)
    BY <1>1, <1>3, <2>1
  <2> QED BY <2>1, <2>2
<1> QED BY <1>4

\* Max of a non-empty, bounded set of naturals is its greatest element.
LEMMA MaxOfBounded ==
  ASSUME NEW n \in Nat, NEW S \in SUBSET (0 .. n), S # {}
  PROVE  Max(S) \in S /\ \A y \in S : y <= Max(S)
<1> DEFINE T == {n - x : x \in S}
<1>1. T \in SUBSET Nat /\ T # {}
  <2>1. PICK z \in S : TRUE
    OBVIOUS
  <2>2. n - z \in T
    BY <2>1
  <2>3. \A x \in S : n - x \in Nat
    OBVIOUS
  <2> QED BY <2>2, <2>3
<1>2. PICK t \in T : \A u \in T : t <= u
  BY <1>1, NatSetHasLeast, Zenon
<1>3. PICK x \in S : t = n - x
  BY <1>2
<1>4. \A y \in S : x >= y
  <2> TAKE y \in S
  <2>1. n - y \in T
    OBVIOUS
  <2>2. n - x <= n - y
    BY <1>2, <1>3, <2>1
  <2>3. x \in Int /\ y \in Int
    OBVIOUS
  <2> HIDE DEF T
  <2> QED BY <2>2, <2>3
<1> QED BY <1>3, <1>4 DEF Max

\* The smaller of two integers, as the depth of a chain is bounded.
LEMMA MinOfTwo ==
  ASSUME NEW a \in Int, NEW b \in Int
  PROVE  Min({a, b}) = IF a <= b THEN a ELSE b
  BY DEF Min

\* The deepest node of a chain that is complete from the root.
LEMMA MaxOfInterval ==
  ASSUME NEW n \in Nat, n >= 1
  PROVE  Max(1 .. n) = n
  BY DEF Max

\* A number below all others of a set is the least of the set with it.
LEMMA MinIsLeast ==
  ASSUME NEW S \in SUBSET Int, NEW x \in S, \A y \in S : x <= y
  PROVE  Min(S) = x
<1>1. Min(S) \in S /\ \A y \in S : Min(S) <= y
  BY DEF Min
<1>2. Min(S) \in Int /\ x \in Int /\ Min(S) <= x /\ x <= Min(S)
  BY <1>1
<1> QED
  BY <1>2

\* Min of a non-empty set of indices is its least element.
LEMMA MinOfIndices ==
  ASSUME NEW n \in Nat, NEW S \in SUBSET (1 .. n), S # {}
  PROVE  Min(S) \in S /\ \A y \in S : Min(S) <= y
<1>1. PICK x \in S : \A y \in S : x <= y
  BY NatSetHasLeast
<1> QED
  BY <1>1 DEF Min

-----------------------------------------------------------------------------
(* Induction *)

\* A set that has 0, and the successor of each natural it has, has them all.
LEMMA SetInduction ==
  ASSUME NEW T, 0 \in T, \A n \in Nat : n \in T => n + 1 \in T
  PROVE  \A n \in Nat : n \in T
<1> DEFINE rest == {n \in Nat : n \notin T}
<1> SUFFICES ASSUME rest # {}  PROVE FALSE
  OBVIOUS
<1>1. PICK x \in rest : \A y \in rest : x <= y
  BY NatSetHasLeast
<1>2. x \in Nat /\ x \notin T /\ x # 0
  OBVIOUS
<1>3. x - 1 \in Nat /\ ~ (x <= x - 1)
  BY <1>2
<1>4. x - 1 \in T
  BY <1>1, <1>3
<1> QED
  BY <1>2, <1>3, <1>4

\* The same downwards from n, as FoldRight goes through a sequence.
LEMMA DownwardInduction ==
  ASSUME NEW n \in Nat, NEW T, n \in T, \A i \in 1 .. n : i \in T => i - 1 \in T
  PROVE  \A i \in 0 .. n : i \in T
<1> DEFINE U == {m \in Nat : m > n \/ n - m \in T}
<1>1. 0 \in U
  OBVIOUS
<1>2. ASSUME NEW m \in Nat, m \in U  PROVE m + 1 \in U
  <2>1. CASE m + 1 > n
    BY <2>1
  <2>2. CASE m + 1 <= n
    <3>1. n - m \in 1 .. n /\ n - m \in T
      BY <1>2, <2>2
    <3>2. (n - m) - 1 \in T /\ (n - m) - 1 = n - (m + 1)
      BY <3>1
    <3> QED
      BY <3>2
  <2> QED
    BY <2>1, <2>2
<1> HIDE DEF U
<1>3. \A m \in Nat : m \in U
  BY <1>1, <1>2, SetInduction
<1> SUFFICES ASSUME NEW i \in 0 .. n  PROVE i \in T
  OBVIOUS
<1>4. n - i \in Nat /\ n - (n - i) = i /\ ~ (n - i > n)
  OBVIOUS
<1> QED
  BY <1>3, <1>4 DEF U

-----------------------------------------------------------------------------
(* Recursion *)

\* f is defined over the indices up to n, each value from the one before.
RecursesUp(f, n, base, step) ==
  f[0] = base /\ \A i \in 1 .. n : f[i] = step[<<i, f[i - 1]>>]

\* A function can be defined by recursion over the indices of a sequence.
LEMMA RecursionOverIndices ==
  ASSUME NEW n \in Nat, NEW D, NEW base \in D, NEW step \in [(1 .. n) \X D -> D]
  PROVE  \E f \in [0 .. n -> D] : RecursesUp(f, n, base, step)
<1> DEFINE Defines(f, m) == RecursesUp(f, m, base, step)
    T == {m \in Nat : m > n \/ \E f \in [0 .. m -> D] : Defines(f, m)}
<1>1. 0 \in T
  <2>1. [i \in 0 .. 0 |-> base] \in [0 .. 0 -> D]
    OBVIOUS
  <2>2. Defines([i \in 0 .. 0 |-> base], 0)
    BY DEF RecursesUp
  <2> HIDE DEF Defines
  <2> QED
    BY <2>1, <2>2
<1>2. ASSUME NEW m \in Nat, m \in T  PROVE m + 1 \in T
  <2>1. CASE m + 1 > n
    BY <2>1
  <2>2. CASE m + 1 <= n
    <3>1. PICK f \in [0 .. m -> D] : Defines(f, m)
      BY <1>2, <2>2
    <3> DEFINE g == [i \in 0 .. m + 1 |->
                       IF i = m + 1 THEN step[<<m + 1, f[m]>>] ELSE f[i]]
    <3>2. <<m + 1, f[m]>> \in (1 .. n) \X D
      BY <2>2
    <3>3. g \in [0 .. m + 1 -> D]
      BY <3>2
    <3>4. \A i \in 1 .. m : g[i] = f[i] /\ g[i - 1] = f[i - 1]
      OBVIOUS
    <3>5. /\ g[0] = f[0]
          /\ g[m + 1] = step[<<m + 1, f[m]>>]
          /\ g[m] = f[m]
      OBVIOUS
    <3> HIDE DEF g
    <3>6. ASSUME NEW i \in 1 .. m + 1  PROVE g[i] = step[<<i, g[i - 1]>>]
      <4>1. CASE i = m + 1
        <5>1. i - 1 = m
          BY <4>1
        <5> QED
          BY <3>5, <4>1, <5>1
      <4>2. CASE i # m + 1
        <5>1. i \in 1 .. m
          BY <4>2
        <5> QED
          BY <3>1, <3>4, <5>1 DEF RecursesUp
      <4> QED
        BY <4>1, <4>2
    <3>7. Defines(g, m + 1)
      BY <3>1, <3>5, <3>6 DEF RecursesUp
    <3> HIDE DEF Defines
    <3> QED
      BY <3>3, <3>7
  <2> QED
    BY <2>1, <2>2
<1> HIDE DEF T
<1>3. n \in T
  BY <1>1, <1>2, SetInduction
<1> QED
  BY <1>3 DEF T

\* f is the function over the sets of indices up to n that FoldRight defines: the
\* least index of a set is taken last.
FoldsRight(f, n, base, step) ==
  \A s \in SUBSET (1 .. n) :
    f[s] = IF s = {} THEN base ELSE step[<<Min(s), f[s \ {Min(s)}]>>]

\* A function can be defined as FoldRight defines its own: over the sets of
\* indices of a sequence, by taking the least element away.
LEMMA RecursionOverSubsets ==
  ASSUME NEW n \in Nat, NEW D, NEW base \in D, NEW step \in [(1 .. n) \X D -> D]
  PROVE  \E f \in [SUBSET (1 .. n) -> D] : FoldsRight(f, n, base, step)
<1> DEFINE Defines(f, m) ==
      \A s \in SUBSET (m + 1 .. n) :
        f[s] = IF s = {} THEN base ELSE step[<<Min(s), f[s \ {Min(s)}]>>]
    T == {m \in 0 .. n : \E f \in [SUBSET (m + 1 .. n) -> D] : Defines(f, m)}
<1>1. n \in T
  <2> DEFINE f == [s \in SUBSET (n + 1 .. n) |-> base]
  <2>1. f \in [SUBSET (n + 1 .. n) -> D]
    OBVIOUS
  <2>2. n + 1 .. n = {}
    OBVIOUS
  <2>3. Defines(f, n)
    BY <2>2
  <2> HIDE DEF Defines, f
  <2> QED
    BY <2>1, <2>3
<1>2. ASSUME NEW i \in 1 .. n, i \in T  PROVE i - 1 \in T
  <2>1. PICK f \in [SUBSET (i + 1 .. n) -> D] : Defines(f, i)
    BY <1>2
  <2> DEFINE g == [s \in SUBSET (i .. n) |->
                     IF i \in s THEN step[<<i, f[s \ {i}]>>] ELSE f[s]]
  <2>2. \A s \in SUBSET (i .. n) : s \ {i} \in SUBSET (i + 1 .. n)
    OBVIOUS
  <2>3. \A s \in SUBSET (i .. n) : i \notin s => s \in SUBSET (i + 1 .. n)
    OBVIOUS
  <2>4. g \in [SUBSET (i .. n) -> D]
    <3> SUFFICES ASSUME NEW s \in SUBSET (i .. n)
                 PROVE  (IF i \in s THEN step[<<i, f[s \ {i}]>>] ELSE f[s]) \in D
      OBVIOUS
    <3>1. CASE i \in s
      <4>1. f[s \ {i}] \in D
        BY <2>2
      <4>2. <<i, f[s \ {i}]>> \in (1 .. n) \X D
        BY <4>1
      <4> QED
        BY <3>1, <4>2
    <3>2. CASE i \notin s
      BY <2>3, <3>2
    <3> QED
      BY <3>1, <3>2
  <2>5. ASSUME NEW s \in SUBSET (i .. n)
        PROVE  g[s] = IF s = {} THEN base ELSE step[<<Min(s), g[s \ {Min(s)}]>>]
    <3>1. CASE i \in s
      <4>1. Min(s) = i
        <5>1. s \in SUBSET Int /\ \A y \in s : i <= y
          OBVIOUS
        <5> QED
          BY <3>1, <5>1, MinIsLeast
      <4>2. s \ {i} \in SUBSET (i .. n) /\ i \notin s \ {i}
        OBVIOUS
      <4>3. g[s \ {i}] = f[s \ {i}]
        BY <4>2
      <4> QED
        BY <3>1, <4>1, <4>3
    <3>2. CASE i \notin s
      <4>1. s \in SUBSET (i + 1 .. n)
        BY <2>3, <3>2
      <4>2. /\ g[s] = f[s]
            /\ f[s] = IF s = {} THEN base ELSE step[<<Min(s), f[s \ {Min(s)}]>>]
        BY <2>1, <3>2, <4>1
      <4>3. s \ {Min(s)} \in SUBSET (i .. n) /\ i \notin s \ {Min(s)}
        BY <3>2
      <4>4. g[s \ {Min(s)}] = f[s \ {Min(s)}]
        BY <4>3
      <4> QED
        BY <4>2, <4>4
    <3> QED
      BY <3>1, <3>2
  <2>6. (i - 1) + 1 = i /\ i - 1 \in 0 .. n
    OBVIOUS
  <2> HIDE DEF g
  <2>7. Defines(g, i - 1)
    BY <2>5, <2>6
  <2> HIDE DEF Defines
  <2> QED
    BY <2>4, <2>6, <2>7
<1> HIDE DEF T
<1>3. 0 \in T
  BY <1>1, <1>2, DownwardInduction
<1>4. PICK f \in [SUBSET (0 + 1 .. n) -> D] : Defines(f, 0)
  BY <1>3 DEF T
<1>5. 0 + 1 = 1
  OBVIOUS
<1> QED
  BY <1>4, <1>5 DEF FoldsRight

\* f holds the intermediate results of a fold from the last index to the first.
FoldsDown(f, n, base, step) ==
  f[n] = base /\ \A i \in 1 .. n : f[i - 1] = step[<<i, f[i]>>]

\* A fold from the last index to the first ends in r.
FoldsDownTo(r, n, D, base, step) ==
  \E f \in [0 .. n -> D] : FoldsDown(f, n, base, step) /\ f[0] = r

\* g takes the least index last wherever its result for the others is in D.
TakesLeastLast(g, n, D, base, step) ==
  /\ g[{}] = base
  /\ \A s \in SUBSET (1 .. n) :
       s # {} /\ g[s \ {Min(s)}] \in D => g[s] = step[<<Min(s), g[s \ {Min(s)}]>>]

\* What FoldRight computes, one index after the other: its function is taken
\* over the sets of the indices above i.
LEMMA FoldsDownSets ==
  ASSUME NEW n \in Nat, NEW D, NEW base \in D, NEW step \in [(1 .. n) \X D -> D],
         NEW g, TakesLeastLast(g, n, D, base, step)
  PROVE  FoldsDownTo(g[1 .. n], n, D, base, step)
<1> DEFINE f == [i \in 0 .. n |-> g[i + 1 .. n]]
<1>1. f[n] = base
  <2>1. n + 1 .. n = {} /\ n \in 0 .. n
    OBVIOUS
  <2> QED
    BY <2>1 DEF TakesLeastLast
<1>2. ASSUME NEW i \in 1 .. n, f[i] \in D
      PROVE  f[i - 1] = step[<<i, f[i]>>]
  <2>1. (i - 1) + 1 = i /\ i - 1 \in 0 .. n /\ i \in 0 .. n
    OBVIOUS
  <2>2. /\ i .. n \in SUBSET (1 .. n) /\ i .. n # {}
        /\ Min(i .. n) = i /\ (i .. n) \ {i} = i + 1 .. n
    <3>1. i \in i .. n /\ i .. n \in SUBSET Int /\ \A y \in i .. n : i <= y
      OBVIOUS
    <3>2. Min(i .. n) = i
      BY <3>1, MinIsLeast
    <3>3. i .. n \in SUBSET (1 .. n) /\ (i .. n) \ {i} = i + 1 .. n
      OBVIOUS
    <3> QED
      BY <3>1, <3>2, <3>3
  <2>3. f[i] = g[i + 1 .. n] /\ f[i - 1] = g[i .. n]
    BY <2>1
  <2>4. g[i .. n] = step[<<i, g[i + 1 .. n]>>]
    BY <1>2, <2>2, <2>3 DEF TakesLeastLast
  <2> QED
    BY <2>3, <2>4
<1>3. f[0] = g[1 .. n]
  <2>1. 0 + 1 .. n = 1 .. n /\ 0 \in 0 .. n
    OBVIOUS
  <2> QED
    BY <2>1
<1>4. DOMAIN f = 0 .. n /\ f = [i \in 0 .. n |-> f[i]]
  OBVIOUS
<1> HIDE DEF f
<1> DEFINE T == {i \in 0 .. n : f[i] \in D}
<1>5. n \in T
  BY <1>1
<1>6. ASSUME NEW i \in 1 .. n, i \in T  PROVE i - 1 \in T
  <2>1. i - 1 \in 0 .. n /\ f[i] \in D
    BY <1>6
  <2>2. <<i, f[i]>> \in (1 .. n) \X D
    BY <2>1
  <2> QED
    BY <1>2, <2>1, <2>2
<1> HIDE DEF T
<1>7. \A i \in 0 .. n : i \in T
  BY <1>5, <1>6, DownwardInduction
<1>8. f \in [0 .. n -> D]
  BY <1>4, <1>7 DEF T
<1>9. \A i \in 1 .. n : f[i - 1] = step[<<i, f[i]>>]
  <2> SUFFICES ASSUME NEW i \in 1 .. n  PROVE f[i - 1] = step[<<i, f[i]>>]
    OBVIOUS
  <2>1. f[i] \in D
    BY <1>8
  <2> QED
    BY <1>2, <2>1
<1> QED
  BY <1>1, <1>3, <1>8, <1>9 DEF FoldsDown, FoldsDownTo

-----------------------------------------------------------------------------
(* Types *)

\* A map with no entry is a map of values.
LEMMA EmptyValuesType == EmptyValues \in Values
  BY DEF EmptyValues, Values

\* The root scope that the constructors build has the type of a scope.
LEMMA RootScopeType ==
  ASSUME NEW v \in Values, NEW r \in Seq(Names), NEW b \in {0, 1}
  PROVE  RootScope(v, r, b) \in Scope
  BY DEF RootScope, Scope

\* ContextStore::new returns a store.
LEMMA NewStoreType == NewStore \in Store
<1>1. RootScope(EmptyValues, <<>>, 0) \in Scope
  <2>1. <<>> \in Seq(Names)
    OBVIOUS
  <2> QED BY <2>1, RootScopeType, EmptyValuesType
<1> QED BY <1>1 DEF NewStore, Store

\* from_values_with_chain returns a store.
LEMMA FromValuesType ==
  ASSUME NEW v \in Values, NEW r \in Seq(Names)
  PROVE  FromValuesWithChain(v, r) \in Store
<1>1. RootScope(v, r, 1) \in Scope
  BY RootScopeType
<1> QED BY <1>1 DEF FromValuesWithChain, Store

\* fork_child returns a store, whatever store it is called on.
LEMMA ForkChildType ==
  ASSUME NEW s \in Store
  PROVE  ForkChild(s) \in Store
<1>1. s.cur.remote \in Seq(Names) /\ s.cur.base \in {0, 1}
  BY DEF Store, Scope
<1>2. RootScope(EmptyValues, s.cur.remote, s.cur.base) \in Scope
  BY <1>1, RootScopeType, EmptyValuesType
<1>3. Append(s.chain, s.cur) \in Seq(Scope)
  BY DEF Store
<1> QED BY <1>2, <1>3 DEF ForkChild, Store

\* What a lookup walks is a sequence of scopes.
LEMMA PathType ==
  ASSUME NEW s \in Store
  PROVE  Path(s) \in Seq(Scope)
<1>1. s.frozen \in Seq(Scope) /\ Append(s.chain, s.cur) \in Seq(Scope)
  BY DEF Store
<1> QED BY <1>1, ConcatProperties DEF Path

\* set_value leaves a store.
LEMMA SetValueType ==
  ASSUME NEW s \in Store, NEW k \in Keys, NEW v \in Vals
  PROVE  SetValue(s, k, v) \in Store
<1>1. s.cur \in Scope /\ s.cur.values \in Values
  BY DEF Store, Scope
<1>2. [s.cur.values EXCEPT ![k] = v] \in Values
  BY <1>1 DEF Values
<1>3. [s.cur EXCEPT !.values = [s.cur.values EXCEPT ![k] = v]] \in Scope
  BY <1>1, <1>2 DEF Scope
<1> QED BY <1>3 DEF SetValue, Store

\* merge_with leaves a store.
LEMMA MergeValuesType ==
  ASSUME NEW s \in Store, NEW v \in Values
  PROVE  MergeValues(s, v) \in Store
<1>1. s.cur \in Scope /\ s.cur.values \in Values
  BY DEF Store, Scope
<1>2. Overlay(v, s.cur.values) \in Values
  BY <1>1 DEF Overlay, Values
<1>3. [s.cur EXCEPT !.values = Overlay(v, s.cur.values)] \in Scope
  BY <1>1, <1>2 DEF Scope
<1> QED BY <1>3 DEF MergeValues, Store

-----------------------------------------------------------------------------
(* Lookups and flattened values *)

\* Appending to the end of a concatenation.
LEMMA AppendToConcat ==
  ASSUME NEW S, NEW p \in Seq(S), NEW q \in Seq(S), NEW x \in S
  PROVE  p \o Append(q, x) = Append(p \o q, x)
<1>1. p \o q \in Seq(S) /\ <<x>> \in Seq(S)
  OBVIOUS
<1>2. Append(q, x) = q \o <<x>> /\ Append(p \o q, x) = (p \o q) \o <<x>>
  BY <1>1, AppendIsConcat
<1>3. p \o (q \o <<x>>) = (p \o q) \o <<x>>
  BY <1>1, ConcatAssociative
<1> QED
  BY <1>2, <1>3

\* What get_value finds on a path: the innermost scope that has the key decides.
LookIn(path, k) ==
  LET hits == {i \in DOMAIN path : path[i].values[k] # NoVal}
  IN  IF hits = {} THEN NoVal ELSE path[Max(hits)].values[k]

\* Nothing is found where there is no scope.
LEMMA LookInEmpty == ASSUME NEW k  PROVE LookIn(<<>>, k) = NoVal
  BY DEF LookIn

\* The last scope of the path decides if it has the key, else those before it.
LEMMA LookInAppend ==
  ASSUME NEW q \in Seq(Scope), NEW x \in Scope, NEW k
  PROVE  LookIn(Append(q, x), k) =
           IF x.values[k] # NoVal THEN x.values[k] ELSE LookIn(q, k)
<1> DEFINE n == Len(q)
           p == Append(q, x)
           hits == {i \in DOMAIN p : p[i].values[k] # NoVal}
           below == {i \in DOMAIN q : q[i].values[k] # NoVal}
<1>1. /\ n \in Nat /\ DOMAIN q = 1 .. n /\ DOMAIN p = 1 .. n + 1
      /\ p[n + 1] = x /\ \A i \in 1 .. n : p[i] = q[i]
  OBVIOUS
<1>2. below = hits \ {n + 1}
  BY <1>1
<1>3. hits \in SUBSET (0 .. n + 1) /\ n + 1 \in Nat
  BY <1>1
<1>4. (n + 1 \in hits) <=> x.values[k] # NoVal
  BY <1>1
<1>5. below \in SUBSET (1 .. n)
  BY <1>1
<1>6. /\ LookIn(p, k) = IF hits = {} THEN NoVal ELSE p[Max(hits)].values[k]
      /\ LookIn(q, k) = IF below = {} THEN NoVal ELSE q[Max(below)].values[k]
  BY DEF LookIn
<1> HIDE DEF hits, below, p, n
<1>7. CASE n + 1 \in hits
  <2>1. Max(hits) \in hits /\ \A y \in hits : y <= Max(hits)
    BY <1>3, <1>7, MaxOfBounded
  <2>2. Max(hits) \in 0 .. n + 1 /\ n + 1 <= Max(hits)
    BY <1>3, <1>7, <2>1
  <2>3. Max(hits) = n + 1
    BY <1>1, <2>2
  <2> QED
    BY <1>1, <1>4, <1>6, <1>7, <2>3 DEF p
<1>8. CASE n + 1 \notin hits
  <2>1. below = hits
    BY <1>2, <1>8
  <2>2. CASE hits = {}
    BY <1>4, <1>6, <1>8, <2>1, <2>2 DEF p
  <2>3. CASE hits # {}
    <3>1. Max(hits) \in hits
      BY <1>3, <2>3, MaxOfBounded
    <3>2. p[Max(hits)] = q[Max(hits)]
      BY <1>1, <1>5, <2>1, <3>1
    <3> QED
      BY <1>4, <1>6, <1>8, <2>1, <2>3, <3>2 DEF p
  <2> QED
    BY <2>2, <2>3
<1> QED
  BY <1>7, <1>8

\* What is found is a value of the key, or nothing.
LEMMA LookInType ==
  ASSUME NEW path \in Seq(Scope), NEW k \in Keys
  PROVE  LookIn(path, k) \in Vals \cup {NoVal}
<1> DEFINE hits == {i \in DOMAIN path : path[i].values[k] # NoVal}
<1>1. Len(path) \in Nat /\ DOMAIN path = 1 .. Len(path)
  OBVIOUS
<1>2. CASE hits = {}
  BY <1>2 DEF LookIn
<1>3. CASE hits # {}
  <2>1. hits \in SUBSET (0 .. Len(path))
    BY <1>1
  <2>2. Max(hits) \in hits
    <3> HIDE DEF hits
    <3> QED BY <1>1, <1>3, <2>1, MaxOfBounded
  <2>3. path[Max(hits)] \in Scope
    BY <1>1, <2>2
  <2>4. path[Max(hits)].values[k] \in Vals \cup {NoVal}
    <3> HIDE DEF hits
    <3> QED BY <2>3 DEF Scope, Values
  <2> QED
    BY <1>3, <2>4 DEF LookIn
<1> QED
  BY <1>2, <1>3

\* The fold of collect_values.
Collected(path) ==
  FoldRight(LAMBDA scope, found : Overlay(found, scope.values), path, EmptyValues)

\* The fold satisfies its recursion equation: a function that does exists.
LEMMA CollectedRecursion ==
  ASSUME NEW path \in Seq(Scope)
  PROVE  \E f :
           /\ \A s \in SUBSET (1 .. Len(path)) :
                f[s] = IF s = {} THEN EmptyValues
                       ELSE Overlay(f[s \ {Min(s)}], path[Min(s)].values)
           /\ Collected(path) = f[1 .. Len(path)]
<1> DEFINE n == Len(path)
           step == [p \in (1 .. n) \X Values |-> Overlay(p[2], path[p[1]].values)]
           Body(f) == [s \in SUBSET DOMAIN path |->
                         IF s = {} THEN EmptyValues
                         ELSE Overlay(f[s \ {Min(s)}], path[Min(s)].values)]
           f0 == CHOOSE f : f = Body(f)
<1>1. n \in Nat /\ DOMAIN path = 1 .. n
  OBVIOUS
<1>2. EmptyValues \in Values
  BY EmptyValuesType
<1>3. step \in [(1 .. n) \X Values -> Values]
  <2> SUFFICES ASSUME NEW p \in (1 .. n) \X Values
               PROVE  Overlay(p[2], path[p[1]].values) \in Values
    OBVIOUS
  <2>1. p[2] \in Values /\ path[p[1]] \in Scope
    BY <1>1
  <2> QED
    BY <2>1 DEF Overlay, Values, Scope
<1> HIDE DEF step, n
<1>4. PICK g \in [SUBSET (1 .. n) -> Values] : FoldsRight(g, n, EmptyValues, step)
  BY <1>1, <1>2, <1>3, RecursionOverSubsets
<1>5. ASSUME NEW s \in SUBSET (1 .. n), s # {}
      PROVE  step[<<Min(s), g[s \ {Min(s)}]>>]
               = Overlay(g[s \ {Min(s)}], path[Min(s)].values)
  <2>1. Min(s) \in s
    BY <1>1, <1>5, MinOfIndices
  <2>2. s \ {Min(s)} \in SUBSET (1 .. n)
    OBVIOUS
  <2>3. g[s \ {Min(s)}] \in Values
    BY <2>2
  <2>4. <<Min(s), g[s \ {Min(s)}]>> \in (1 .. n) \X Values
    BY <2>1, <2>3
  <2> QED
    BY <2>4 DEF step
<1>6. g = Body(g)
  <2>1. DOMAIN g = SUBSET DOMAIN path
    BY <1>1
  <2>2. \A s \in SUBSET DOMAIN path :
          g[s] = IF s = {} THEN EmptyValues
                 ELSE Overlay(g[s \ {Min(s)}], path[Min(s)].values)
    BY <1>1, <1>4, <1>5 DEF FoldsRight
  <2> QED
    BY <2>1, <2>2
<1>7. Collected(path) = f0[DOMAIN path]
  BY DEF Collected, FoldRight, MapThenFoldSet
<1> HIDE DEF Body
<1>8. f0 = Body(f0)
  BY <1>6
<1> HIDE DEF f0
<1>9. \A s \in SUBSET (1 .. n) :
        f0[s] = IF s = {} THEN EmptyValues
                ELSE Overlay(f0[s \ {Min(s)}], path[Min(s)].values)
  BY <1>1, <1>8 DEF Body
<1> QED
  BY <1>1, <1>7, <1>9 DEF n

\* collect_values flattens a path to what a lookup of each key finds on it.
LEMMA CollectedIsLookIn ==
  ASSUME NEW path \in Seq(Scope)
  PROVE  Collected(path) = [k \in Keys |-> LookIn(path, k)]
<1> DEFINE n == Len(path)
           Hits(i, k) == {h \in i + 1 .. n : path[h].values[k] # NoVal}
           Found(i, k) == IF Hits(i, k) = {} THEN NoVal
                          ELSE path[Max(Hits(i, k))].values[k]
<1>1. n \in Nat /\ DOMAIN path = 1 .. n /\ \A i \in 1 .. n : path[i] \in Scope
  OBVIOUS
<1>2. PICK f :
        /\ \A s \in SUBSET (1 .. n) :
             f[s] = IF s = {} THEN EmptyValues
                    ELSE Overlay(f[s \ {Min(s)}], path[Min(s)].values)
        /\ Collected(path) = f[1 .. n]
  BY CollectedRecursion
<1> DEFINE T == {i \in 0 .. n : f[i + 1 .. n] = [k \in Keys |-> Found(i, k)]}
<1>3. n \in T
  <2>1. n + 1 .. n = {}
    BY <1>1
  <2>2. \A k : Found(n, k) = NoVal
    BY <2>1
  <2>3. f[{}] = EmptyValues
    BY <1>2
  <2> HIDE DEF Found
  <2> QED
    BY <1>1, <2>1, <2>2, <2>3 DEF EmptyValues
<1>4. ASSUME NEW i \in 1 .. n, i \in T  PROVE i - 1 \in T
  <2>1. (i - 1) + 1 = i /\ i - 1 \in 0 .. n /\ i \in 0 .. n
    BY <1>1
  <2>2. /\ i .. n \in SUBSET (1 .. n) /\ i .. n # {}
        /\ Min(i .. n) = i /\ (i .. n) \ {i} = i + 1 .. n
    <3>1. i \in i .. n /\ i .. n \in SUBSET Int /\ \A y \in i .. n : i <= y
      BY <1>1
    <3>2. Min(i .. n) = i
      BY <3>1, MinIsLeast
    <3>3. i .. n \in SUBSET (1 .. n) /\ (i .. n) \ {i} = i + 1 .. n
      BY <1>1
    <3> QED
      BY <3>1, <3>2, <3>3
  <2>3. f[i .. n] = Overlay(f[i + 1 .. n], path[i].values)
    BY <1>2, <2>2
  <2>4. f[i + 1 .. n] = [k \in Keys |-> Found(i, k)]
    BY <1>4
  <2>5. ASSUME NEW k \in Keys
        PROVE  Found(i - 1, k) = IF Found(i, k) # NoVal THEN Found(i, k)
                                 ELSE path[i].values[k]
    <3>1. Hits(i - 1, k) = Hits(i, k) \cup
            (IF path[i].values[k] # NoVal THEN {i} ELSE {})
      BY <1>1, <2>1
    <3>2. Hits(i, k) \in SUBSET (0 .. n)
      BY <1>1
    <3>3. \A h \in Hits(i, k) : h > i
      BY <1>1
    <3>4. CASE Hits(i, k) = {}
      <4>1. CASE path[i].values[k] = NoVal
        BY <3>1, <3>4, <4>1
      <4>2. CASE path[i].values[k] # NoVal
        <5>1. Hits(i - 1, k) = {i}
          BY <3>1, <3>4, <4>2
        <5>2. Max({i}) = i
          BY DEF Max
        <5> QED
          BY <3>4, <5>1, <5>2
      <4> QED
        BY <4>1, <4>2
    <3>5. CASE Hits(i, k) # {}
      <4>1. Max(Hits(i, k)) \in Hits(i, k) /\ \A y \in Hits(i, k) : y <= Max(Hits(i, k))
        <5> HIDE DEF Hits
        <5> QED
          BY <1>1, <3>2, <3>5, MaxOfBounded
      <4>2. Hits(i - 1, k) \in SUBSET (0 .. n) /\ Hits(i - 1, k) # {}
        BY <1>1, <3>1, <3>5
      <4>3. Max(Hits(i - 1, k)) \in Hits(i - 1, k)
              /\ \A y \in Hits(i - 1, k) : y <= Max(Hits(i - 1, k))
        <5> HIDE DEF Hits
        <5> QED
          BY <1>1, <4>2, MaxOfBounded
      <4>4. Max(Hits(i - 1, k)) = Max(Hits(i, k))
        <5> DEFINE a == Max(Hits(i, k))
                   b == Max(Hits(i - 1, k))
        <5>1. a \in Hits(i - 1, k) /\ a \in 0 .. n /\ a > i
          BY <3>1, <3>2, <3>3, <4>1
        <5>2. a <= b /\ b \in 0 .. n
          BY <4>2, <4>3, <5>1
        <5>3. b # i
          BY <5>1, <5>2
        <5>4. b \in Hits(i, k)
          <6> HIDE DEF Hits, a, b
          <6> QED BY <3>1, <4>3, <5>3 DEF b
        <5>5. b <= a
          BY <4>1, <5>4
        <5> HIDE DEF a, b
        <5>6. a = b
          BY <5>1, <5>2, <5>5
        <5> QED
          BY <5>6 DEF a, b
      <4>5. path[Max(Hits(i, k))].values[k] # NoVal
        BY <4>1
      <4> HIDE DEF Hits
      <4> QED
        BY <3>5, <4>2, <4>4, <4>5
    <3> QED
      BY <3>4, <3>5
  <2> HIDE DEF Found
  <2>6. f[i .. n] = [k \in Keys |-> Found(i - 1, k)]
    BY <2>3, <2>4, <2>5 DEF Overlay
  <2> QED
    BY <2>1, <2>6
<1> HIDE DEF T
<1>5. 0 \in T
  BY <1>1, <1>3, <1>4, DownwardInduction
<1>6. Collected(path) = [k \in Keys |-> Found(0, k)]
  BY <1>2, <1>5 DEF T
<1>7. \A k : Found(0, k) = LookIn(path, k)
  <2>1. 0 + 1 .. n = 1 .. n
    OBVIOUS
  <2> QED
    BY <1>1, <2>1 DEF LookIn
<1> HIDE DEF Found
<1> QED
  BY <1>6, <1>7

\* A lookup finds a value, or nothing.
LEMMA GetValueType ==
  ASSUME NEW s \in Store, NEW k \in Keys
  PROVE  GetValue(s, k) \in Vals \cup {NoVal}
<1>1. GetValue(s, k) = LookIn(Path(s), k)
  BY DEF GetValue, LookIn
<1> QED
  BY <1>1, PathType, LookInType

\* Looking a key up, and flattening, walk the same scopes and agree.
LEMMA CollectValuesIsGetValue ==
  ASSUME NEW s \in Store
  PROVE  CollectValues(s) = [k \in Keys |-> GetValue(s, k)]
<1>1. Path(s) \in Seq(Scope)
  BY PathType
<1>2. CollectValues(s) = Collected(Path(s))
  BY DEF CollectValues, Collected
<1>3. \A k : GetValue(s, k) = LookIn(Path(s), k)
  BY DEF GetValue, LookIn
<1> QED
  BY <1>1, <1>2, <1>3, CollectedIsLookIn

\* The flattened map of a store is a map of values.
LEMMA CollectValuesType ==
  ASSUME NEW s \in Store
  PROVE  CollectValues(s) \in Values
  BY CollectValuesIsGetValue, GetValueType DEF Values

\* The scopes under the active one.
Under(s) == s.frozen \o s.chain

\* The active scope decides if it has the key, else the scopes under it.
LEMMA GetValueCases ==
  ASSUME NEW s \in Store, NEW k
  PROVE  /\ Under(s) \in Seq(Scope)
         /\ GetValue(s, k) = IF s.cur.values[k] # NoVal THEN s.cur.values[k]
                             ELSE LookIn(Under(s), k)
<1>1. s.frozen \in Seq(Scope) /\ s.chain \in Seq(Scope) /\ s.cur \in Scope
  BY DEF Store
<1>2. Under(s) \in Seq(Scope)
  BY <1>1 DEF Under
<1>3. Path(s) = Append(Under(s), s.cur)
  <2> DEFINE p == s.frozen
             q == s.chain
             x == s.cur
  <2> HIDE DEF p, q, x
  <2>1. p \in Seq(Scope) /\ q \in Seq(Scope) /\ x \in Scope
    BY <1>1 DEF p, q, x
  <2>2. p \o Append(q, x) = Append(p \o q, x)
    BY <2>1, AppendToConcat
  <2> QED
    BY <2>2 DEF Path, Under, p, q, x
<1>4. GetValue(s, k) = LookIn(Path(s), k)
  BY DEF GetValue, LookIn
<1> QED
  BY <1>1, <1>2, <1>3, <1>4, LookInAppend

-----------------------------------------------------------------------------
(* Names *)

\* A scope whose name scope_chain shows above "base".
Shown(base, scope) == scope.name # NoName /\ scope.depth > base

\* The names up to each scope of the list.
NamesUpTo(f, base, q) ==
  /\ f \in [0 .. Len(q) -> Seq(Names)]
  /\ f[0] = <<>>
  /\ \A i \in 1 .. Len(q) :
       f[i] = IF Shown(base, q[i]) THEN Append(f[i - 1], q[i].name) ELSE f[i - 1]

\* The recursive function of NamesAbove satisfies its equation.
LEMMA NamesRecursion ==
  ASSUME NEW q \in Seq(Scope), NEW base \in Int
  PROVE  \E f : NamesUpTo(f, base, q) /\ NamesAbove(base, q) = f[Len(q)]
<1> DEFINE n == Len(q)
           step == [p \in (1 .. n) \X Seq(Names) |->
                      IF Shown(base, q[p[1]]) THEN Append(p[2], q[p[1]].name)
                      ELSE p[2]]
           Body(f) == [i \in 0 .. n |->
                         IF i = 0 THEN <<>>
                         ELSE IF q[i].name # NoName /\ q[i].depth > base
                         THEN Append(f[i - 1], q[i].name)
                         ELSE f[i - 1]]
           f0 == CHOOSE f : f = Body(f)
<1>1. n \in Nat /\ \A i \in 1 .. n : q[i] \in Scope
  OBVIOUS
<1>2. <<>> \in Seq(Names)
  OBVIOUS
<1>3. step \in [(1 .. n) \X Seq(Names) -> Seq(Names)]
  <2> SUFFICES ASSUME NEW p \in (1 .. n) \X Seq(Names)
               PROVE  (IF Shown(base, q[p[1]]) THEN Append(p[2], q[p[1]].name)
                       ELSE p[2]) \in Seq(Names)
    OBVIOUS
  <2>1. p[2] \in Seq(Names) /\ q[p[1]] \in Scope
    BY <1>1
  <2>2. q[p[1]].name \in Names \cup {NoName}
    BY <2>1 DEF Scope
  <2> QED
    BY <2>1, <2>2 DEF Shown
<1> HIDE DEF step, n
<1>4. PICK g \in [0 .. n -> Seq(Names)] : RecursesUp(g, n, <<>>, step)
  BY <1>1, <1>2, <1>3, RecursionOverIndices
<1>5. /\ g[0] = <<>>
      /\ \A i \in 1 .. n : g[i] = IF Shown(base, q[i])
                                  THEN Append(g[i - 1], q[i].name) ELSE g[i - 1]
  <2>1. ASSUME NEW i \in 1 .. n
        PROVE  g[i] = IF Shown(base, q[i])
                      THEN Append(g[i - 1], q[i].name) ELSE g[i - 1]
    <3>1. i - 1 \in 0 .. n
      BY <1>1
    <3>2. <<i, g[i - 1]>> \in (1 .. n) \X Seq(Names)
      BY <3>1
    <3>3. g[i] = step[<<i, g[i - 1]>>]
      BY <1>4 DEF RecursesUp
    <3> QED
      BY <3>2, <3>3 DEF step
  <2> QED
    BY <1>4, <2>1 DEF RecursesUp
<1>6. g = Body(g)
  <2>1. \A i \in 0 .. n : i # 0 => i \in 1 .. n
    BY <1>1
  <2>2. \A i \in 0 .. n : g[i] = Body(g)[i]
    BY <1>5, <2>1 DEF Shown
  <2> QED
    BY <2>2
<1>7. NamesAbove(base, q) = f0[n]
  BY DEF NamesAbove, n
<1> HIDE DEF Body
<1>8. f0 = Body(f0)
  BY <1>6
<1> HIDE DEF f0
<1>9. /\ DOMAIN f0 = 0 .. n
      /\ f0 = [i \in 0 .. n |-> f0[i]]
      /\ f0[0] = <<>>
      /\ \A i \in 1 .. n : f0[i] = IF Shown(base, q[i])
                                   THEN Append(f0[i - 1], q[i].name) ELSE f0[i - 1]
  <2>1. f0 = [i \in 0 .. n |->
                IF i = 0 THEN <<>>
                ELSE IF q[i].name # NoName /\ q[i].depth > base
                THEN Append(f0[i - 1], q[i].name)
                ELSE f0[i - 1]]
    BY <1>8 DEF Body
  <2>2. 0 \in 0 .. n /\ \A i \in 1 .. n : i \in 0 .. n /\ i # 0
    BY <1>1
  <2> QED
    BY <2>1, <2>2 DEF Shown
<1>10. \A i \in 0 .. n : f0[i] = g[i]
  <2> DEFINE T == {i \in Nat : i \in 0 .. n => f0[i] = g[i]}
  <2>1. 0 \in T
    BY <1>5, <1>9
  <2>2. ASSUME NEW m \in Nat, m \in T  PROVE m + 1 \in T
    <3> SUFFICES ASSUME m + 1 \in 0 .. n  PROVE f0[m + 1] = g[m + 1]
      OBVIOUS
    <3>1. m \in 0 .. n /\ m + 1 \in 1 .. n /\ (m + 1) - 1 = m
      BY <1>1
    <3>2. f0[m] = g[m]
      BY <2>2, <3>1
    <3> QED
      BY <1>5, <1>9, <3>1, <3>2
  <2> HIDE DEF T
  <2>3. \A i \in Nat : i \in T
    BY <2>1, <2>2, SetInduction
  <2> QED
    BY <1>1, <2>3 DEF T
<1>11. f0 \in [0 .. n -> Seq(Names)]
  BY <1>9, <1>10
<1>12. NamesUpTo(f0, base, q)
  BY <1>9, <1>11 DEF NamesUpTo, n
<1> QED
  BY <1>7, <1>12 DEF n

\* The names of a list of scopes are a sequence of names.
LEMMA NamesType ==
  ASSUME NEW q \in Seq(Scope), NEW base \in Int
  PROVE  NamesAbove(base, q) \in Seq(Names)
<1>1. PICK f : NamesUpTo(f, base, q) /\ NamesAbove(base, q) = f[Len(q)]
  BY NamesRecursion
<1>2. Len(q) \in 0 .. Len(q)
  OBVIOUS
<1> QED
  BY <1>1, <1>2 DEF NamesUpTo

\* No scope, no names.
LEMMA NamesEmpty ==
  ASSUME NEW base \in Int
  PROVE  NamesAbove(base, <<>>) = <<>>
<1>1. <<>> \in Seq(Scope) /\ Len(<<>>) = 0
  OBVIOUS
<1> DEFINE q == <<>>
<1> HIDE DEF q
<1>2. PICK f : NamesUpTo(f, base, q) /\ NamesAbove(base, q) = f[Len(q)]
  BY <1>1, NamesRecursion DEF q
<1> QED
  BY <1>1, <1>2 DEF NamesUpTo, q

\* One more scope adds its name at the end, if it is shown.
LEMMA NamesAppend ==
  ASSUME NEW q \in Seq(Scope), NEW x \in Scope, NEW base \in Int
  PROVE  NamesAbove(base, Append(q, x)) =
           IF Shown(base, x) THEN Append(NamesAbove(base, q), x.name)
           ELSE NamesAbove(base, q)
<1> DEFINE n == Len(q)
           p == Append(q, x)
<1>1. /\ n \in Nat /\ p \in Seq(Scope) /\ Len(p) = n + 1
      /\ p[n + 1] = x /\ \A i \in 1 .. n : p[i] = q[i]
  OBVIOUS
<1> HIDE DEF p
<1>2. PICK f : NamesUpTo(f, base, q) /\ NamesAbove(base, q) = f[n]
  BY NamesRecursion
<1>3. PICK g : NamesUpTo(g, base, p) /\ NamesAbove(base, p) = g[n + 1]
  BY <1>1, NamesRecursion
<1> HIDE DEF n
<1> DEFINE T == {i \in Nat : i \in 0 .. n => f[i] = g[i]}
<1>4. 0 \in T
  BY <1>2, <1>3 DEF NamesUpTo
<1>5. ASSUME NEW m \in Nat, m \in T  PROVE m + 1 \in T
  <2> SUFFICES ASSUME m + 1 \in 0 .. n  PROVE f[m + 1] = g[m + 1]
    OBVIOUS
  <2>1. /\ m \in 0 .. n /\ m + 1 \in 1 .. n /\ m + 1 \in 1 .. n + 1
        /\ (m + 1) - 1 = m
    BY <1>1
  <2>2. f[m] = g[m]
    BY <1>5, <2>1
  <2>3. f[m + 1] = IF Shown(base, q[m + 1]) THEN Append(f[m], q[m + 1].name) ELSE f[m]
    BY <1>2, <2>1 DEF NamesUpTo, n
  <2>4. g[m + 1] = IF Shown(base, p[m + 1]) THEN Append(g[m], p[m + 1].name) ELSE g[m]
    BY <1>1, <1>3, <2>1 DEF NamesUpTo
  <2> QED
    BY <1>1, <2>1, <2>2, <2>3, <2>4
<1> HIDE DEF T
<1>6. n \in T
  BY <1>1, <1>4, <1>5, SetInduction
<1>7. f[n] = g[n]
  BY <1>1, <1>6 DEF T
<1>8. g[n + 1] = IF Shown(base, x) THEN Append(g[n], x.name) ELSE g[n]
  <2>1. n + 1 \in 1 .. n + 1 /\ (n + 1) - 1 = n
    BY <1>1
  <2> QED
    BY <1>1, <1>3, <2>1 DEF NamesUpTo
<1> QED
  BY <1>2, <1>3, <1>7, <1>8 DEF p

\* Which scopes are shown, and under which names, is all that counts.
LEMMA NamesAgree ==
  ASSUME NEW p \in Seq(Scope), NEW q \in Seq(Scope), Len(p) = Len(q),
         NEW a \in Int, NEW b \in Int,
         \A i \in 1 .. Len(p) : /\ Shown(a, p[i]) <=> Shown(b, q[i])
                                /\ p[i].name = q[i].name
  PROVE  NamesAbove(a, p) = NamesAbove(b, q)
<1> DEFINE n == Len(p)
<1>1. n \in Nat /\ Len(q) = n
  OBVIOUS
<1>2. PICK f : NamesUpTo(f, a, p) /\ NamesAbove(a, p) = f[Len(p)]
  BY NamesRecursion
<1>3. PICK g : NamesUpTo(g, b, q) /\ NamesAbove(b, q) = g[Len(q)]
  BY NamesRecursion
<1> DEFINE T == {i \in Nat : i \in 0 .. n => f[i] = g[i]}
<1>4. 0 \in T
  BY <1>2, <1>3 DEF NamesUpTo
<1>5. ASSUME NEW m \in Nat, m \in T  PROVE m + 1 \in T
  <2> SUFFICES ASSUME m + 1 \in 0 .. n  PROVE f[m + 1] = g[m + 1]
    OBVIOUS
  <2>1. /\ m \in 0 .. n /\ m + 1 \in 1 .. n /\ (m + 1) - 1 = m
    BY <1>1
  <2>2. f[m] = g[m]
    BY <1>5, <2>1
  <2>3. f[m + 1] = IF Shown(a, p[m + 1]) THEN Append(f[m], p[m + 1].name) ELSE f[m]
    BY <1>2, <2>1 DEF NamesUpTo
  <2>4. g[m + 1] = IF Shown(b, q[m + 1]) THEN Append(g[m], q[m + 1].name) ELSE g[m]
    BY <1>1, <1>3, <2>1 DEF NamesUpTo
  <2> QED
    BY <2>1, <2>2, <2>3, <2>4
<1> HIDE DEF T
<1>6. n \in T
  BY <1>1, <1>4, <1>5, SetInduction
<1> QED
  BY <1>1, <1>2, <1>3, <1>6 DEF T

-----------------------------------------------------------------------------
(* Nodes of the chain *)

\* Making a node of the chain active again leaves a store whose chain is that
\* node's own prefix.
LEMMA RewoundType ==
  ASSUME NEW s \in Store, NEW i \in 1 .. Len(s.chain)
  PROVE  /\ Rewound(s, i) \in Store
         /\ Len(Rewound(s, i).chain) = i - 1
         /\ \A j \in 1 .. i - 1 : Rewound(s, i).chain[j] = s.chain[j]
<1>1. s.chain \in Seq(Scope) /\ s.frozen \in Seq(Scope)
  BY DEF Store
<1>2. s.chain[i] \in Scope
  BY <1>1
<1>3. i \in Int /\ i >= 1 /\ i <= Len(s.chain) /\ Len(s.chain) \in Nat
  BY <1>1
<1>4. \A j \in 1 .. i - 1 : s.chain[j] \in Scope
  BY <1>1, <1>3
<1>5. /\ SubSeq(s.chain, 1, i - 1) \in Seq(Scope)
      /\ Len(SubSeq(s.chain, 1, i - 1)) = i - 1
      /\ \A j \in 1 .. i - 1 : SubSeq(s.chain, 1, i - 1)[j] = s.chain[j]
  <2>1. 1 \in Int /\ i - 1 \in Int
    BY <1>3
  <2> QED BY <1>3, <1>4, <2>1, SubSeqProperties
<1> QED BY <1>1, <1>2, <1>5 DEF Rewound, Store

\* Only the nodes up to the i-th decide what it is to go back to it.
LEMMA RewoundDependsOnPrefix ==
  ASSUME NEW s \in Store, NEW t \in Store, NEW i \in 1 .. Len(s.chain),
         i <= Len(t.chain), \A j \in 1 .. i : t.chain[j] = s.chain[j],
         t.frozen = s.frozen
  PROVE  Rewound(t, i) = Rewound(s, i)
<1>1. s.chain \in Seq(Scope) /\ t.chain \in Seq(Scope)
  BY DEF Store
<1>2. Len(s.chain) \in Nat /\ Len(t.chain) \in Nat
  BY <1>1
<1>3. i \in 1 .. Len(t.chain)
  BY <1>2
<1>4. Rewound(s, i).chain \in Seq(Scope) /\ Rewound(t, i).chain \in Seq(Scope)
  BY <1>3, RewoundType DEF Store
<1>5. Rewound(t, i).chain = Rewound(s, i).chain
  <2>1. /\ Len(Rewound(s, i).chain) = i - 1
        /\ \A j \in 1 .. i - 1 : Rewound(s, i).chain[j] = s.chain[j]
    BY RewoundType
  <2>2. /\ Len(Rewound(t, i).chain) = i - 1
        /\ \A j \in 1 .. i - 1 : Rewound(t, i).chain[j] = t.chain[j]
    BY <1>3, RewoundType
  <2>3. \A j \in 1 .. i - 1 : j \in 1 .. i
    BY <1>2
  <2>4. \A j \in 1 .. i - 1 : Rewound(t, i).chain[j] = Rewound(s, i).chain[j]
    BY <2>1, <2>2, <2>3
  <2> QED BY <1>4, <2>1, <2>2, <2>4, SeqEqual
<1>6. SubSeq(t.chain, 1, i - 1) = SubSeq(s.chain, 1, i - 1)
  BY <1>5 DEF Rewound
<1>7. t.chain[i] = s.chain[i]
  BY <1>2
<1> QED BY <1>6, <1>7 DEF Rewound

\* Above the last node of the chain is the store itself.
LEMMA UnwindTop ==
  ASSUME NEW s \in Store
  PROVE  Unwind(s, Len(s.chain) + 1) = s
<1>1. Len(s.chain) \in Nat
  BY DEF Store
<1> QED
  BY <1>1 DEF Unwind

\* At a node of the chain, the store is the one of that node's push.
LEMMA UnwindNode ==
  ASSUME NEW s \in Store, NEW i \in 1 .. Len(s.chain)
  PROVE  Unwind(s, i) = Rewound(s, i)
<1>1. Len(s.chain) \in Nat
  BY DEF Store
<1> QED
  BY <1>1 DEF Unwind

\* Each scope of a store, made active again, gives a store.
LEMMA UnwindType ==
  ASSUME NEW s \in Store, NEW i \in 1 .. Len(s.chain) + 1
  PROVE  /\ Unwind(s, i) \in Store
         /\ Unwind(s, i).frozen = s.frozen
<1>1. Len(s.chain) \in Nat
  BY DEF Store
<1>2. CASE i = Len(s.chain) + 1
  BY <1>2, UnwindTop
<1>3. CASE i # Len(s.chain) + 1
  <2>1. i \in 1 .. Len(s.chain)
    BY <1>1, <1>3
  <2>2. Unwind(s, i) = Rewound(s, i) /\ Rewound(s, i) \in Store
    BY <2>1, UnwindNode, RewoundType
  <2> QED
    BY <2>2 DEF Rewound
<1> QED
  BY <1>2, <1>3

\* What is on top of the chain does not matter to the nodes in it.
LEMMA UnwindSame ==
  ASSUME NEW s \in Store, NEW t \in Store, t.chain = s.chain,
         t.frozen = s.frozen, NEW i \in 1 .. Len(s.chain)
  PROVE  Unwind(t, i) = Unwind(s, i)
<1>1. i \in 1 .. Len(t.chain)
  OBVIOUS
<1>2. Unwind(t, i) = Rewound(t, i) /\ Unwind(s, i) = Rewound(s, i)
  BY <1>1, UnwindNode
<1>3. Rewound(t, i) = Rewound(s, i)
  BY DEF Rewound
<1> QED
  BY <1>2, <1>3

\* Going back to a node and then to one below it is going back to that one.
LEMMA UnwindRewound ==
  ASSUME NEW s \in Store, NEW i \in 1 .. Len(s.chain), NEW j \in 1 .. i
  PROVE  Unwind(Rewound(s, i), j) = Unwind(s, j)
<1> DEFINE t == Rewound(s, i)
<1>1. Len(s.chain) \in Nat
  BY DEF Store
<1>2. /\ t \in Store /\ Len(t.chain) = i - 1 /\ t.frozen = s.frozen
      /\ \A h \in 1 .. i - 1 : t.chain[h] = s.chain[h]
  <2>1. t.frozen = s.frozen
    BY DEF Rewound
  <2> HIDE DEF t
  <2> QED BY <2>1, RewoundType DEF t
<1> HIDE DEF t
<1>3. CASE j = i
  <2>1. Unwind(t, j) = t
    BY <1>1, <1>2, <1>3 DEF Unwind
  <2> QED
    BY <1>3, <2>1, UnwindNode DEF t
<1>4. CASE j # i
  <2>1. j \in 1 .. Len(s.chain) /\ j \in 1 .. Len(t.chain) /\ j <= Len(t.chain)
    BY <1>1, <1>2, <1>4
  <2>2. \A h \in 1 .. j : t.chain[h] = s.chain[h]
    BY <1>1, <1>2, <1>4
  <2>3. Rewound(t, j) = Rewound(s, j)
    BY <1>2, <2>1, <2>2, RewoundDependsOnPrefix
  <2> QED
    BY <1>2, <2>1, <2>3, UnwindNode DEF t
<1> QED
  BY <1>3, <1>4 DEF t

-----------------------------------------------------------------------------
(* push_scope *)

\* A real push links the active scope and makes one a level deeper; a dead
\* one only counts.  Either way the type is kept.
LEMMA PushScopeReal ==
  ASSUME NEW s \in Store, NEW name \in Names, NEW cached,
         s.cur.depth + 1 <= MaxScopeDepth + 1
  PROVE  /\ PushScope(s, name, cached) \in Store
         /\ PushScope(s, name, cached).cur.depth = s.cur.depth + 1
         /\ PushScope(s, name, cached).chain = Append(s.chain, s.cur)
         /\ PushScope(s, name, cached).frozen = s.frozen
<1> DEFINE copied == [k \in Keys |-> IF k \in cached
                                     THEN GetValue(s, k)
                                     ELSE NoVal]
           new == [name |-> name, values |-> copied, depth |-> s.cur.depth + 1,
                   remote |-> s.cur.remote, base |-> s.cur.base]
<1>1. MaxScopeDepth \in Nat
  BY ContextStoreAssumption
<1>2. s.cur \in Scope /\ s.chain \in Seq(Scope) /\ s.frozen \in Seq(Scope)
  BY DEF Store
<1>3. s.cur.depth \in Nat
  BY <1>2 DEF Scope
<1>4. ~ (s.cur.depth + 1 > MaxScopeDepth + 1)
  BY <1>1, <1>3
<1>5. copied \in Values
  BY GetValueType DEF Values
<1>6. PushScope(s, name, cached) =
        [cur |-> new, chain |-> Append(s.chain, s.cur), frozen |-> s.frozen]
  BY <1>4 DEF PushScope
<1>7. new \in Scope
  <2> HIDE DEF copied
  <2> QED BY <1>2, <1>3, <1>5 DEF Scope
<1> HIDE DEF new
<1>8. Append(s.chain, s.cur) \in Seq(Scope)
  BY <1>2
<1>9. PushScope(s, name, cached) \in Store
  BY <1>2, <1>6, <1>7, <1>8 DEF Store
<1>10. new.depth = s.cur.depth + 1
  BY DEF new
<1> QED BY <1>6, <1>9, <1>10

\* A dead push changes nothing but the depth counter.
LEMMA PushScopeDead ==
  ASSUME NEW s \in Store, NEW name \in Names, NEW cached,
         s.cur.depth + 1 > MaxScopeDepth + 1
  PROVE  /\ PushScope(s, name, cached) \in Store
         /\ PushScope(s, name, cached).cur.depth = s.cur.depth + 1
         /\ PushScope(s, name, cached).chain = s.chain
         /\ PushScope(s, name, cached).frozen = s.frozen
<1>1. s.cur \in Scope /\ s.cur.depth \in Nat
  BY DEF Store, Scope
<1>2. [s.cur EXCEPT !.depth = s.cur.depth + 1] \in Scope
  BY <1>1 DEF Scope
<1>3. PushScope(s, name, cached) =
        [s EXCEPT !.cur = [s.cur EXCEPT !.depth = s.cur.depth + 1]]
  BY DEF PushScope
<1>4. [s.cur EXCEPT !.depth = s.cur.depth + 1].depth = s.cur.depth + 1
  BY <1>1 DEF Scope
<1> QED BY <1>2, <1>3, <1>4 DEF Store

\* Dead or real, a push keeps every node, and the link between chain and
\* counter; a real one freezes the store it was made on.
LEMMA PushScopeProperties ==
  ASSUME NEW s \in Store, WellLinked(s), NEW name \in Names, NEW cached
  PROVE  /\ PushScope(s, name, cached) \in Store
         /\ WellLinked(PushScope(s, name, cached))
         /\ PushScope(s, name, cached).cur.depth = s.cur.depth + 1
         /\ PushScope(s, name, cached).frozen = s.frozen
         /\ Len(s.chain) <= Len(PushScope(s, name, cached).chain)
         /\ \A i \in 1 .. Len(s.chain) :
              PushScope(s, name, cached).chain[i] = s.chain[i]
         /\ s.cur.depth + 1 <= MaxScopeDepth + 1
              => Rewound(PushScope(s, name, cached), s.cur.depth) = s
<1> DEFINE t == PushScope(s, name, cached)
<1>1. s.chain \in Seq(Scope) /\ s.cur \in Scope
  BY DEF Store
<1>2. Len(s.chain) \in Nat /\ DOMAIN s.chain = 1 .. Len(s.chain)
  BY <1>1
<1>3. s.cur.depth \in Nat /\ MaxScopeDepth \in Nat
  BY <1>1, ContextStoreAssumption DEF Scope
<1>4. Len(s.chain) = IF s.cur.depth - 1 <= MaxScopeDepth
                     THEN s.cur.depth - 1 ELSE MaxScopeDepth
  <2>1. s.cur.depth - 1 \in Int /\ MaxScopeDepth \in Int
    BY <1>3
  <2> QED BY <2>1, MinOfTwo DEF WellLinked
<1>5. s.cur.depth >= 1 /\ \A i \in 1 .. Len(s.chain) : s.chain[i].depth = i
  BY <1>2 DEF WellLinked
<1>6. Min({s.cur.depth, MaxScopeDepth}) =
        IF s.cur.depth <= MaxScopeDepth THEN s.cur.depth ELSE MaxScopeDepth
  BY <1>3, MinOfTwo
<1>7. CASE s.cur.depth + 1 <= MaxScopeDepth + 1
  <2>1. /\ t \in Store
        /\ t.cur.depth = s.cur.depth + 1
        /\ t.chain = Append(s.chain, s.cur)
        /\ t.frozen = s.frozen
    BY <1>7, PushScopeReal
  <2> HIDE DEF t
  <2>2. Len(s.chain) = s.cur.depth - 1
    BY <1>3, <1>4, <1>7
  <2>3. /\ Len(t.chain) = s.cur.depth
        /\ \A i \in 1 .. Len(s.chain) : t.chain[i] = s.chain[i]
        /\ t.chain[s.cur.depth] = s.cur
    BY <1>1, <1>2, <1>3, <2>1, <2>2
  <2>4. \A i \in 1 .. Len(t.chain) : t.chain[i].depth = i
    <3> TAKE i \in 1 .. Len(t.chain)
    <3>1. CASE i = s.cur.depth
      BY <2>3, <3>1
    <3>2. CASE i # s.cur.depth
      <4>1. i \in 1 .. Len(s.chain)
        BY <1>2, <1>3, <2>2, <2>3, <3>2
      <4> QED BY <1>5, <2>3, <4>1
    <3> QED BY <3>1, <3>2
  <2>5. DOMAIN t.chain = 1 .. Len(t.chain)
    BY <2>1 DEF Store
  <2>6. Min({t.cur.depth - 1, MaxScopeDepth}) = Len(t.chain)
    <3>1. t.cur.depth - 1 = s.cur.depth
      BY <1>3, <2>1
    <3>2. Min({t.cur.depth - 1, MaxScopeDepth}) = Min({s.cur.depth, MaxScopeDepth})
      BY <3>1
    <3>3. s.cur.depth <= MaxScopeDepth
      BY <1>3, <1>7
    <3> QED BY <1>6, <2>3, <3>2, <3>3
  <2>7. WellLinked(t)
    BY <1>3, <2>1, <2>4, <2>5, <2>6 DEF WellLinked
  <2>8. Rewound(t, s.cur.depth) = s
    <3>1. SubSeq(t.chain, 1, s.cur.depth - 1) = s.chain
      <4> DEFINE u == SubSeq(t.chain, 1, s.cur.depth - 1)
      <4>1. \A i \in 1 .. s.cur.depth - 1 : t.chain[i] \in Scope
        BY <1>1, <1>2, <2>2, <2>3
      <4>2. 1 \in Int /\ s.cur.depth - 1 \in Int
        BY <1>3
      <4>3. /\ u \in Seq(Scope)
            /\ Len(u) = IF 1 <= s.cur.depth - 1 THEN s.cur.depth - 1 - 1 + 1 ELSE 0
            /\ \A i \in 1 .. s.cur.depth - 1 - 1 + 1 : u[i] = t.chain[1 + i - 1]
        BY <4>1, <4>2, SubSeqProperties
      <4> HIDE DEF u
      <4>4. Len(u) = Len(s.chain)
        BY <1>3, <1>5, <2>2, <4>3
      <4>5. \A i \in 1 .. Len(u) : u[i] = s.chain[i]
        <5> TAKE i \in 1 .. Len(u)
        <5>1. i \in 1 .. s.cur.depth - 1 - 1 + 1 /\ 1 + i - 1 = i
          BY <1>2, <1>3, <2>2, <4>4
        <5>2. i \in 1 .. Len(s.chain)
          BY <4>4
        <5> QED BY <2>3, <4>3, <5>1, <5>2
      <4>6. u = s.chain
        BY <1>1, <4>3, <4>4, <4>5, SeqEqual
      <4> QED BY <4>6 DEF u
    <3>2. s = [cur |-> s.cur, chain |-> s.chain, frozen |-> s.frozen]
      BY DEF Store
    <3> QED BY <2>1, <2>3, <3>1, <3>2 DEF Rewound
  <2>9. Len(s.chain) <= Len(t.chain)
    BY <1>3, <2>2, <2>3
  <2> QED BY <2>1, <2>3, <2>7, <2>8, <2>9 DEF t
<1>8. CASE ~ (s.cur.depth + 1 <= MaxScopeDepth + 1)
  <2>1. s.cur.depth + 1 > MaxScopeDepth + 1
    BY <1>3, <1>8
  <2>2. /\ t \in Store
        /\ t.cur.depth = s.cur.depth + 1
        /\ t.chain = s.chain
        /\ t.frozen = s.frozen
    BY <2>1, PushScopeDead
  <2> HIDE DEF t
  <2>3. Min({t.cur.depth - 1, MaxScopeDepth}) = Len(t.chain)
    <3>1. t.cur.depth - 1 = s.cur.depth
      BY <1>3, <2>2
    <3>2. Min({t.cur.depth - 1, MaxScopeDepth}) = Min({s.cur.depth, MaxScopeDepth})
      BY <3>1
    <3>3. Min({s.cur.depth, MaxScopeDepth}) = MaxScopeDepth
      BY <1>3, <1>6, <2>1
    <3>4. Len(s.chain) = MaxScopeDepth
      BY <1>3, <1>4, <2>1
    <3> QED BY <2>2, <3>2, <3>3, <3>4
  <2>4. WellLinked(t)
    BY <1>2, <1>3, <1>5, <2>2, <2>3 DEF WellLinked
  <2> QED BY <1>2, <1>8, <2>2, <2>4 DEF t
<1> QED BY <1>7, <1>8

\* After a real push the scopes below the new one are those there were.
LEMMA UnwindPushed ==
  ASSUME NEW s \in Store, WellLinked(s), NEW name \in Names, NEW cached,
         s.cur.depth + 1 <= MaxScopeDepth + 1
  PROVE  /\ Len(PushScope(s, name, cached).chain) = Len(s.chain) + 1
         /\ \A i \in 1 .. Len(s.chain) + 1 :
              Unwind(PushScope(s, name, cached), i) = Unwind(s, i)
<1> DEFINE t == PushScope(s, name, cached)
<1>1. /\ s.chain \in Seq(Scope) /\ s.cur \in Scope /\ Len(s.chain) \in Nat
      /\ s.cur.depth \in Nat /\ MaxScopeDepth \in Nat
  BY ContextStoreAssumption DEF Store, Scope
<1>2. Len(s.chain) = s.cur.depth - 1
  <2>1. s.cur.depth - 1 \in Int /\ s.cur.depth - 1 <= MaxScopeDepth
    BY <1>1
  <2> QED
    BY <1>1, <2>1, MinOfTwo DEF WellLinked
<1>3. /\ t \in Store /\ t.frozen = s.frozen
      /\ \A i \in 1 .. Len(s.chain) : t.chain[i] = s.chain[i]
      /\ Rewound(t, s.cur.depth) = s
  BY PushScopeProperties
<1>4. t.chain = Append(s.chain, s.cur)
  BY PushScopeReal
<1> HIDE DEF t
<1>5. Len(t.chain) = Len(s.chain) + 1
  BY <1>1, <1>4
<1>6. ASSUME NEW i \in 1 .. Len(s.chain) + 1
      PROVE  Unwind(t, i) = Unwind(s, i)
  <2>0. i \in 1 .. Len(t.chain)
    BY <1>5
  <2>1. Unwind(t, i) = Rewound(t, i)
    BY <1>3, <2>0, UnwindNode
  <2>2. CASE i = Len(s.chain) + 1
    <3>1. i = s.cur.depth
      BY <1>1, <1>2, <2>2
    <3> QED
      BY <1>3, <2>1, <2>2, <3>1, UnwindTop
  <2>3. CASE i # Len(s.chain) + 1
    <3>1. i \in 1 .. Len(s.chain) /\ i <= Len(t.chain)
      BY <1>1, <1>5, <2>3
    <3>2. \A j \in 1 .. i : t.chain[j] = s.chain[j]
      BY <1>1, <1>3, <3>1
    <3>3. Rewound(t, i) = Rewound(s, i)
      BY <1>3, <3>1, <3>2, RewoundDependsOnPrefix
    <3> QED
      BY <2>1, <3>1, <3>3, UnwindNode
  <2> QED
    BY <2>2, <2>3
<1> QED
  BY <1>5, <1>6 DEF t

-----------------------------------------------------------------------------
(* pop_scope *)

\* What the loop of pop_scope comes to when chain and counter agree: nothing,
\* a smaller counter, or exactly the store of that depth's push.
LEMMA PopScopeResult ==
  ASSUME NEW s \in Store, WellLinked(s), NEW e \in Nat, e >= 2
  PROVE  PopScope(s, e) =
           IF s.cur.depth < e THEN s
           ELSE IF e > MaxScopeDepth + 1 THEN [s EXCEPT !.cur.depth = e - 1]
           ELSE Rewound(s, e - 1)
<1>1. s.chain \in Seq(Scope) /\ s.cur \in Scope
  BY DEF Store
<1>2. Len(s.chain) \in Nat /\ DOMAIN s.chain = 1 .. Len(s.chain)
  BY <1>1
<1>3. s.cur.depth \in Nat /\ MaxScopeDepth \in Nat
  BY <1>1, ContextStoreAssumption DEF Scope
<1>4. CASE s.cur.depth >= e /\ e <= MaxScopeDepth + 1
  <2> DEFINE below == {i \in DOMAIN s.chain : s.chain[i].depth < e}
  <2>1. Min({s.cur.depth - 1, MaxScopeDepth}) >= e - 1
    <3>1. s.cur.depth - 1 \in Int /\ MaxScopeDepth \in Int
      BY <1>3
    <3> QED BY <1>3, <1>4, <3>1, MinOfTwo
  <2>2. e - 1 <= Len(s.chain)
    BY <1>2, <1>3, <2>1 DEF WellLinked
  <2>3. \A i \in 1 .. Len(s.chain) : s.chain[i].depth = i
    BY <1>2 DEF WellLinked
  <2>4. below = 1 .. (e - 1)
    BY <1>2, <2>2, <2>3
  <2>5. below # {} /\ Max(below) = e - 1
    <3>1. 1 \in 1 .. (e - 1)
      OBVIOUS
    <3>2. e - 1 \in Nat /\ e - 1 >= 1
      OBVIOUS
    <3> HIDE DEF below
    <3> QED BY <2>4, <3>1, <3>2, MaxOfInterval
  <2>6. PopScope(s, e) = Unwind(s, IF below = {} THEN 1 ELSE Max(below))
    <3>1. ~ (s.cur.depth < e \/ e <= 1)
      BY <1>3, <1>4
    <3>2. ~ (e > MaxScopeDepth + 1)
      BY <1>3, <1>4
    <3> QED BY <3>1, <3>2 DEF PopScope
  <2> HIDE DEF below
  <2>7. PopScope(s, e) = Unwind(s, e - 1)
    BY <2>5, <2>6
  <2>8. ~ (e - 1 > Len(s.chain))
    BY <1>2, <2>2
  <2>9. Unwind(s, e - 1) = Rewound(s, e - 1)
    BY <2>8 DEF Unwind
  <2>10. ~ (s.cur.depth < e) /\ ~ (e > MaxScopeDepth + 1)
    BY <1>3, <1>4
  <2> QED BY <2>7, <2>9, <2>10
<1>5. CASE s.cur.depth < e
  BY <1>5 DEF PopScope
<1>6. CASE s.cur.depth >= e /\ e > MaxScopeDepth + 1
  BY <1>3, <1>6 DEF PopScope
<1> QED BY <1>3, <1>4, <1>5, <1>6

\* A pop keeps the type and the link between chain and counter; it stops one
\* below the depth it was given, or does nothing.
LEMMA PopScopeProperties ==
  ASSUME NEW s \in Store, WellLinked(s), NEW e \in Nat, e >= 2
  PROVE  /\ PopScope(s, e) \in Store
         /\ WellLinked(PopScope(s, e))
         /\ s.cur.depth < e => PopScope(s, e) = s
         /\ s.cur.depth >= e => PopScope(s, e).cur.depth = e - 1
         /\ PopScope(s, e).frozen = s.frozen
         /\ Len(PopScope(s, e).chain) <= Len(s.chain)
         /\ \A i \in 1 .. Len(PopScope(s, e).chain) :
              PopScope(s, e).chain[i] = s.chain[i]
<1>1. s.chain \in Seq(Scope) /\ s.cur \in Scope
  BY DEF Store
<1>2. Len(s.chain) \in Nat /\ DOMAIN s.chain = 1 .. Len(s.chain)
  BY <1>1
<1>3. s.cur.depth \in Nat /\ MaxScopeDepth \in Nat
  BY <1>1, ContextStoreAssumption DEF Scope
<1>4. Len(s.chain) = IF s.cur.depth - 1 <= MaxScopeDepth
                     THEN s.cur.depth - 1 ELSE MaxScopeDepth
  <2>1. s.cur.depth - 1 \in Int /\ MaxScopeDepth \in Int
    BY <1>3
  <2> QED BY <2>1, MinOfTwo DEF WellLinked
<1>5. CASE s.cur.depth < e
  <2>1. PopScope(s, e) = s
    BY <1>5, PopScopeResult
  <2> QED BY <1>2, <1>3, <1>5, <2>1
<1>6. CASE s.cur.depth >= e /\ e > MaxScopeDepth + 1
  <2> DEFINE c == [s.cur EXCEPT !.depth = e - 1]
             t == [s EXCEPT !.cur = c]
  <2>1. PopScope(s, e) = t
    BY <1>3, <1>6, PopScopeResult
  <2>2. c \in Scope /\ c.depth = e - 1
    <3>1. e - 1 \in Nat
      OBVIOUS
    <3> QED BY <1>1, <3>1 DEF Scope
  <2> HIDE DEF c
  <2>3. t \in Store /\ t.cur = c /\ t.chain = s.chain /\ t.frozen = s.frozen
    BY <2>2 DEF Store
  <2> HIDE DEF t
  <2>4. Len(s.chain) = MaxScopeDepth
    BY <1>3, <1>4, <1>6
  <2>5. Min({t.cur.depth - 1, MaxScopeDepth}) = MaxScopeDepth
    <3>1. t.cur.depth - 1 \in Int /\ t.cur.depth - 1 >= MaxScopeDepth
      BY <1>3, <1>6, <2>2, <2>3
    <3> QED BY <1>3, <3>1, MinOfTwo
  <2>6. WellLinked(t)
    BY <2>2, <2>3, <2>4, <2>5 DEF WellLinked
  <2> QED BY <1>2, <1>3, <1>6, <2>1, <2>2, <2>3, <2>6
<1>7. CASE s.cur.depth >= e /\ e <= MaxScopeDepth + 1
  <2> DEFINE t == Rewound(s, e - 1)
  <2>1. PopScope(s, e) = t
    BY <1>3, <1>7, PopScopeResult
  <2>2. e - 1 \in 1 .. Len(s.chain)
    BY <1>3, <1>4, <1>7
  <2>3. /\ t \in Store
        /\ Len(t.chain) = e - 2
        /\ \A j \in 1 .. e - 2 : t.chain[j] = s.chain[j]
    BY <2>2, RewoundType
  <2>4. t.cur = s.chain[e - 1] /\ t.frozen = s.frozen
    BY DEF Rewound
  <2>5. \A i \in 1 .. Len(s.chain) : s.chain[i].depth = i
    BY <1>2 DEF WellLinked
  <2>6. t.cur.depth = e - 1
    BY <2>2, <2>4, <2>5
  <2> HIDE DEF t
  <2>7. Min({t.cur.depth - 1, MaxScopeDepth}) = e - 2
    <3>1. t.cur.depth - 1 \in Int /\ t.cur.depth - 1 = e - 2 /\ e - 2 <= MaxScopeDepth
      BY <1>3, <1>7, <2>6
    <3> QED BY <1>3, <3>1, MinOfTwo
  <2>8. DOMAIN t.chain = 1 .. (e - 2)
    <3>1. t.chain \in Seq(Scope)
      BY <2>3 DEF Store
    <3> QED BY <2>3, <3>1
  <2>9. WellLinked(t)
    BY <1>2, <2>2, <2>3, <2>5, <2>6, <2>7, <2>8 DEF WellLinked
  <2> QED BY <1>2, <1>3, <1>7, <2>1, <2>2, <2>3, <2>4, <2>6, <2>9
<1> QED BY <1>3, <1>5, <1>6, <1>7

-----------------------------------------------------------------------------
(* What the operations leave to be read *)

\* The scope chain before the limit is a sequence of names.
LEMMA FullChainType ==
  ASSUME NEW s \in Store
  PROVE  /\ FullChain(s) \in Seq(Names)
         /\ NamesOf(s.frozen) \in Seq(Names)
         /\ NamesAbove(s.cur.base, Append(s.chain, s.cur)) \in Seq(Names)
<1> DEFINE r == s.cur.remote
           b == s.cur.base
           fz == s.frozen
           q == Append(s.chain, s.cur)
<1>1. r \in Seq(Names) /\ b \in Int /\ fz \in Seq(Scope) /\ q \in Seq(Scope)
  BY DEF Store, Scope
<1> HIDE DEF r, b, fz, q
<1>2. NamesOf(fz) \in Seq(Names) /\ NamesAbove(b, q) \in Seq(Names)
  <2>1. -1 \in Int
    OBVIOUS
  <2>2. NamesAbove(-1, fz) \in Seq(Names)
    BY <1>1, <2>1, NamesType
  <2>3. NamesAbove(b, q) \in Seq(Names)
    BY <1>1, NamesType
  <2> QED
    BY <2>2, <2>3 DEF NamesOf
<1>3. r \o NamesOf(fz) \o NamesAbove(b, q) \in Seq(Names)
  BY <1>1, <1>2
<1> QED
  BY <1>2, <1>3 DEF FullChain, r, b, fz, q

\* The limit that scope_chain applies.
Limited(full) ==
  IF MaxChainLen > 0 /\ Len(full) > MaxChainLen
  THEN SubSeq(full, Len(full) - MaxChainLen + 1, Len(full))
  ELSE full

\* The limited chain is the end of the full one, and no longer than the limit.
LEMMA LimitedProperties ==
  ASSUME NEW full \in Seq(Names)
  PROVE  /\ Limited(full) \in Seq(Names)
         /\ Len(Limited(full)) =
              IF MaxChainLen > 0 /\ Len(full) > MaxChainLen
              THEN MaxChainLen ELSE Len(full)
         /\ \A i \in 1 .. Len(Limited(full)) :
              Limited(full)[i] = full[Len(full) - Len(Limited(full)) + i]
<1> DEFINE n == Len(full)
<1>1. MaxChainLen \in Nat /\ n \in Nat
  BY ContextStoreAssumption
<1>2. CASE MaxChainLen > 0 /\ n > MaxChainLen
  <2> DEFINE a == n - MaxChainLen + 1
  <2>1. a \in 1 .. n /\ n - a + 1 = MaxChainLen /\ a \in Int /\ n \in Int
    BY <1>1, <1>2
  <2>2. \A i \in a .. n : full[i] \in Names
    BY <1>1, <1>2
  <2>3. Limited(full) = SubSeq(full, a, n)
    BY <1>2 DEF Limited
  <2> HIDE DEF a, n
  <2>4. /\ SubSeq(full, a, n) \in Seq(Names)
        /\ Len(SubSeq(full, a, n)) = MaxChainLen
        /\ \A i \in 1 .. MaxChainLen : SubSeq(full, a, n)[i] = full[a + i - 1]
    BY <1>1, <2>1, <2>2, SubSeqProperties
  <2>5. \A i \in 1 .. MaxChainLen : a + i - 1 = n - MaxChainLen + i
    BY <1>1, <2>1
  <2> QED
    BY <1>2, <2>3, <2>4, <2>5 DEF n
<1>3. CASE ~ (MaxChainLen > 0 /\ n > MaxChainLen)
  <2>1. Limited(full) = full
    BY <1>3 DEF Limited
  <2>2. \A i \in 1 .. n : n - n + i = i
    BY <1>1
  <2> QED
    BY <1>3, <2>1, <2>2
<1> QED
  BY <1>2, <1>3

\* scope_chain returns names: the full chain, limited.
LEMMA ScopeChainType ==
  ASSUME NEW s \in Store
  PROVE  /\ ScopeChain(s) = Limited(FullChain(s))
         /\ ScopeChain(s) \in Seq(Names)
<1>1. ScopeChain(s) = Limited(FullChain(s))
  BY DEF ScopeChain, Limited
<1> QED
  BY <1>1, FullChainType, LimitedProperties

\* A new store has no value and no names.
LEMMA NewStoreReads ==
  /\ \A k \in Keys : GetValue(NewStore, k) = NoVal
  /\ FullChain(NewStore) = <<>>
<1> DEFINE c == RootScope(EmptyValues, <<>>, 0)
<1>1. /\ NewStore \in Store /\ NewStore.cur = c
      /\ NewStore.chain = <<>> /\ NewStore.frozen = <<>>
  BY NewStoreType DEF NewStore
<1>2. /\ c \in Scope /\ c.name = NoName /\ c.remote = <<>> /\ c.base = 0
      /\ \A k \in Keys : c.values[k] = NoVal
  <2>1. c.values = EmptyValues
    BY DEF RootScope
  <2>2. c \in Scope
    BY <1>1 DEF Store
  <2> QED
    BY <2>1, <2>2 DEF RootScope, EmptyValues
<1> HIDE DEF c
<1>3. ASSUME NEW k \in Keys  PROVE GetValue(NewStore, k) = NoVal
  <2>1. Under(NewStore) = <<>>
    BY <1>1 DEF Under
  <2> QED
    BY <1>1, <1>2, <2>1, GetValueCases, LookInEmpty
<1>4. NamesAbove(0, Append(<<>>, c)) = <<>> /\ NamesOf(<<>>) = <<>>
  <2>1. <<>> \in Seq(Scope) /\ -1 \in Int /\ 0 \in Int /\ ~Shown(0, c)
    BY <1>2 DEF Shown
  <2> QED
    BY <1>2, <2>1, NamesAppend, NamesEmpty DEF NamesOf
<1>5. FullChain(NewStore) = <<>>
  BY <1>1, <1>2, <1>4 DEF FullChain
<1> QED
  BY <1>3, <1>5

\* The scope chain does not depend on the values, nor on the depth of a scope
\* that is above the root.
LEMMA FullChainAgree ==
  ASSUME NEW s \in Store, NEW t \in Store,
         t.chain = s.chain, t.frozen = s.frozen,
         t.cur.name = s.cur.name, t.cur.remote = s.cur.remote,
         t.cur.base = s.cur.base,
         t.cur.depth = s.cur.depth \/ (t.cur.depth > 1 /\ s.cur.depth > 1)
  PROVE  FullChain(t) = FullChain(s)
<1> DEFINE q == s.chain
           x == s.cur
           y == t.cur
           b == s.cur.base
<1>1. /\ q \in Seq(Scope) /\ x \in Scope /\ y \in Scope /\ b \in {0, 1} /\ b \in Int
      /\ x.depth \in Nat /\ y.depth \in Nat /\ y.name = x.name
      /\ y.depth = x.depth \/ (y.depth > 1 /\ x.depth > 1)
  BY DEF Store, Scope
<1> HIDE DEF q, x, y, b
<1>2. Shown(b, x) <=> Shown(b, y)
  BY <1>1 DEF Shown
<1>3. NamesAbove(b, Append(q, y)) = NamesAbove(b, Append(q, x))
  BY <1>1, <1>2, NamesAppend
<1> QED
  BY <1>3 DEF FullChain, q, x, y, b

\* A store that differs in the values of its active scope only shows the same
\* chain; what it has there, or what is under it, is read.
LEMMA CountedReads ==
  ASSUME NEW s \in Store, NEW t \in Store,
         t.chain = s.chain, t.frozen = s.frozen,
         t.cur.values = s.cur.values, NEW k
  PROVE  GetValue(t, k) = GetValue(s, k)
<1>1. Under(t) = Under(s)
  BY DEF Under
<1> QED
  BY <1>1, GetValueCases

\* A real push: the new scope reads what the one under it does, a cached key
\* in itself; its name ends the chain.
LEMMA PushedReads ==
  ASSUME NEW s \in Store, WellLinked(s), NEW name \in Names, NEW cached,
         s.cur.depth + 1 <= MaxScopeDepth + 1
  PROVE  /\ \A k \in Keys : GetValue(PushScope(s, name, cached), k) = GetValue(s, k)
         /\ \A k \in Keys \cap cached :
              PushScope(s, name, cached).cur.values[k] = GetValue(s, k)
         /\ FullChain(PushScope(s, name, cached)) = Append(FullChain(s), name)
<1> DEFINE t == PushScope(s, name, cached)
<1>1. /\ s.cur \in Scope /\ s.cur.depth \in Nat /\ s.cur.depth >= 1
      /\ MaxScopeDepth \in Nat
      /\ NoName \notin Names
  BY ContextStoreAssumption DEF Store, Scope, WellLinked
<1>2. ~ (s.cur.depth + 1 > MaxScopeDepth + 1)
  BY <1>1
<1>3. /\ t.cur.name = name /\ t.cur.remote = s.cur.remote
      /\ t.cur.base = s.cur.base /\ t.cur.depth = s.cur.depth + 1
      /\ t.cur.values = [k \in Keys |-> IF k \in cached THEN GetValue(s, k)
                                        ELSE NoVal]
  BY <1>2 DEF PushScope
<1>4. /\ t \in Store /\ t.chain = Append(s.chain, s.cur) /\ t.frozen = s.frozen
  BY PushScopeReal
<1> HIDE DEF t
<1>5. \A k : GetValue(s, k) = LookIn(Path(s), k)
  BY DEF GetValue, LookIn
<1>6. Under(t) = Path(s)
  BY <1>4 DEF Under, Path
<1>7. ASSUME NEW k \in Keys  PROVE GetValue(t, k) = GetValue(s, k)
  <2>1. GetValue(t, k) = IF t.cur.values[k] # NoVal THEN t.cur.values[k]
                         ELSE GetValue(s, k)
    BY <1>4, <1>5, <1>6, GetValueCases
  <2> QED
    BY <1>3, <2>1
<1>8. ASSUME NEW k \in Keys \cap cached  PROVE t.cur.values[k] = GetValue(s, k)
  BY <1>1, <1>3
<1>9. FullChain(t) = Append(FullChain(s), name)
  <2> DEFINE r == s.cur.remote
             b == s.cur.base
             fz == NamesOf(s.frozen)
             q == Append(s.chain, s.cur)
             y == t.cur
  <2>1. /\ q \in Seq(Scope) /\ y \in Scope /\ b \in {0, 1} /\ b \in Int
        /\ r \in Seq(Names)
    BY <1>4 DEF Store, Scope
  <2>2. y.name = name /\ y.depth > 1
    BY <1>1, <1>3
  <2>3. /\ FullChain(t) = r \o fz \o NamesAbove(b, Append(q, y))
        /\ FullChain(s) = r \o fz \o NamesAbove(b, q)
    BY <1>3, <1>4 DEF FullChain
  <2>4. fz \in Seq(Names)
    BY FullChainType
  <2> HIDE DEF r, b, fz, q, y
  <2>5. Shown(b, y)
    BY <1>1, <2>1, <2>2 DEF Shown, Scope
  <2>6. NamesAbove(b, Append(q, y)) = Append(NamesAbove(b, q), name)
    BY <2>1, <2>2, <2>5, NamesAppend
  <2>7. NamesAbove(b, q) \in Seq(Names) /\ r \o fz \in Seq(Names)
    BY <2>1, <2>4, NamesType
  <2> QED
    BY <2>3, <2>6, <2>7, AppendToConcat
<1> QED
  BY <1>7, <1>8, <1>9 DEF t

-----------------------------------------------------------------------------
(* The root scope has no name *)

\* Only the scopes that were pushed are named.
RootUnnamed(s) ==
  /\ s.cur.depth = 1 => s.cur.name = NoName
  /\ \A i \in DOMAIN s.chain : s.chain[i].depth = 1 => s.chain[i].name = NoName

\* The constructors leave the root scope without a name.
LEMMA RootUnnamedInit ==
  /\ RootUnnamed(NewStore)
  /\ \A v, r : RootUnnamed(FromValuesWithChain(v, r))
  /\ \A s : RootUnnamed(ForkChild(s))
  BY DEF RootUnnamed, NewStore, FromValuesWithChain, ForkChild, RootScope

\* push_scope names no scope but the one it makes, which is not the root.
LEMMA RootUnnamedPush ==
  ASSUME NEW s \in Store, WellLinked(s), RootUnnamed(s), NEW name \in Names, NEW cached
  PROVE  RootUnnamed(PushScope(s, name, cached))
<1> DEFINE t == PushScope(s, name, cached)
<1>1. /\ s.cur \in Scope /\ s.cur.depth \in Nat /\ s.cur.depth >= 1
      /\ s.chain \in Seq(Scope) /\ MaxScopeDepth \in Nat
  BY ContextStoreAssumption DEF Store, Scope, WellLinked
<1>2. t.cur.depth # 1
  BY <1>1, PushScopeProperties
<1>3. CASE s.cur.depth + 1 <= MaxScopeDepth + 1
  <2>1. t.chain = Append(s.chain, s.cur)
    BY <1>3, PushScopeReal
  <2> HIDE DEF t
  <2>2. \A i \in DOMAIN t.chain : i \in DOMAIN s.chain \/ i = Len(s.chain) + 1
    BY <1>1, <2>1
  <2>3. /\ t.chain[Len(s.chain) + 1] = s.cur
        /\ \A i \in DOMAIN s.chain : t.chain[i] = s.chain[i]
    BY <1>1, <2>1
  <2> QED
    BY <1>2, <2>2, <2>3 DEF RootUnnamed, t
<1>4. CASE ~ (s.cur.depth + 1 <= MaxScopeDepth + 1)
  <2>1. s.cur.depth + 1 > MaxScopeDepth + 1
    BY <1>1, <1>4
  <2>2. t.chain = s.chain
    BY <2>1, PushScopeDead
  <2> QED
    BY <1>2, <2>2 DEF RootUnnamed
<1> QED
  BY <1>3, <1>4

\* Going back to a node of the chain brings no name to the root.
LEMMA RootUnnamedRewound ==
  ASSUME NEW s \in Store, RootUnnamed(s), NEW i \in 1 .. Len(s.chain)
  PROVE  RootUnnamed(Rewound(s, i))
<1> DEFINE t == Rewound(s, i)
<1>1. s.chain \in Seq(Scope) /\ Len(s.chain) \in Nat
  BY DEF Store
<1>2. t.cur = s.chain[i] /\ i \in DOMAIN s.chain
  BY <1>1 DEF Rewound
<1>3. /\ t \in Store /\ Len(t.chain) = i - 1
      /\ \A j \in 1 .. i - 1 : t.chain[j] = s.chain[j]
  BY RewoundType
<1> HIDE DEF t
<1>4. DOMAIN t.chain = 1 .. i - 1
  BY <1>3 DEF Store
<1>5. \A j \in 1 .. i - 1 : j \in DOMAIN s.chain
  BY <1>1
<1> QED
  BY <1>2, <1>3, <1>4, <1>5 DEF RootUnnamed, t

\* pop_scope brings no name to the root.
LEMMA RootUnnamedPop ==
  ASSUME NEW s \in Store, WellLinked(s), RootUnnamed(s), NEW e \in Nat, e >= 2
  PROVE  RootUnnamed(PopScope(s, e))
<1>1. /\ s.cur \in Scope /\ s.cur.depth \in Nat /\ MaxScopeDepth \in Nat
      /\ MaxScopeDepth # 0 /\ s.chain \in Seq(Scope)
  BY ContextStoreAssumption DEF Store, Scope
<1>2. CASE s.cur.depth < e
  BY <1>2, PopScopeResult
<1>3. CASE ~ (s.cur.depth < e) /\ e > MaxScopeDepth + 1
  <2>1. PopScope(s, e) = [s EXCEPT !.cur.depth = e - 1]
    BY <1>3, PopScopeResult
  <2>2. /\ PopScope(s, e).cur.depth = e - 1
        /\ PopScope(s, e).chain = s.chain
    BY <1>1, <2>1 DEF Store, Scope
  <2>3. e - 1 # 1
    BY <1>1, <1>3
  <2> QED
    BY <2>2, <2>3 DEF RootUnnamed
<1>4. CASE ~ (s.cur.depth < e) /\ ~ (e > MaxScopeDepth + 1)
  <2>1. PopScope(s, e) = Rewound(s, e - 1)
    BY <1>4, PopScopeResult
  <2>2. Len(s.chain) = IF s.cur.depth - 1 <= MaxScopeDepth
                       THEN s.cur.depth - 1 ELSE MaxScopeDepth
    <3>1. s.cur.depth - 1 \in Int /\ MaxScopeDepth \in Int
      BY <1>1
    <3> QED BY <3>1, MinOfTwo DEF WellLinked
  <2>3. e - 1 \in 1 .. Len(s.chain)
    BY <1>1, <1>4, <2>2
  <2> QED
    BY <2>1, <2>3, RootUnnamedRewound
<1> QED
  BY <1>2, <1>3, <1>4

\* Above the root every local name is shown, whatever the remote base is.
LEMMA LocalNamesAllShown ==
  ASSUME NEW s \in Store, WellLinked(s), RootUnnamed(s)
  PROVE  NamesAbove(s.cur.base, Append(s.chain, s.cur))
           = NamesOf(Append(s.chain, s.cur))
<1> DEFINE b == s.cur.base
           q == Append(s.chain, s.cur)
<1>1. /\ s.cur \in Scope /\ s.cur.depth \in Nat /\ s.cur.depth >= 1
      /\ s.chain \in Seq(Scope) /\ DOMAIN s.chain = 1 .. Len(s.chain)
      /\ Len(s.chain) \in Nat
      /\ \A i \in 1 .. Len(s.chain) : s.chain[i].depth = i
      /\ b \in {0, 1}
  <2>1. s.cur \in Scope /\ s.chain \in Seq(Scope)
    BY DEF Store
  <2>2. s.cur.depth \in Nat /\ b \in {0, 1}
    BY <2>1 DEF Scope
  <2>3. DOMAIN s.chain = 1 .. Len(s.chain) /\ Len(s.chain) \in Nat
    BY <2>1
  <2> QED
    BY <2>1, <2>2, <2>3 DEF WellLinked
<1>2. /\ q \in Seq(Scope) /\ Len(q) = Len(s.chain) + 1
      /\ q[Len(s.chain) + 1] = s.cur
      /\ \A i \in 1 .. Len(s.chain) : q[i] = s.chain[i]
  BY <1>1
<1>3. ASSUME NEW i \in 1 .. Len(q)
      PROVE  Shown(b, q[i]) <=> Shown(-1, q[i])
  <2>1. q[i].depth \in Nat /\ q[i].depth >= 1
    <3>1. CASE i = Len(s.chain) + 1
      BY <1>1, <1>2, <3>1
    <3>2. CASE i # Len(s.chain) + 1
      <4>1. i \in 1 .. Len(s.chain)
        BY <1>1, <1>2, <3>2
      <4> QED BY <1>1, <1>2, <4>1
    <3> QED BY <3>1, <3>2
  <2>2. q[i].depth = 1 => q[i].name = NoName
    <3>1. CASE i = Len(s.chain) + 1
      BY <1>2, <3>1 DEF RootUnnamed
    <3>2. CASE i # Len(s.chain) + 1
      <4>1. i \in 1 .. Len(s.chain)
        BY <1>1, <1>2, <3>2
      <4> QED BY <1>1, <1>2, <4>1 DEF RootUnnamed
    <3> QED BY <3>1, <3>2
  <2> HIDE DEF q, b
  <2> QED
    BY <1>1, <2>1, <2>2 DEF Shown
<1> HIDE DEF q, b
<1>4. b \in Int /\ -1 \in Int
  BY <1>1
<1>5. NamesAbove(b, q) = NamesAbove(-1, q)
  BY <1>2, <1>3, <1>4, NamesAgree
<1> QED
  BY <1>5 DEF NamesOf, q, b

-----------------------------------------------------------------------------
(* SoundStore stores *)

\* What every store that a program can hold satisfies.
SoundStore(s) == s \in Store /\ WellLinked(s) /\ RootUnnamed(s)

SoundStores == {s \in Store : SoundStore(s)}

Depths == Nat \ {0, 1}  \* what a scope guard may expect: never the root

\* A sound store is in the set of them.
LEMMA SoundIsStore == ASSUME NEW s, SoundStore(s)  PROVE s \in SoundStores
  BY DEF SoundStore, SoundStores

\* A store at its root with nothing pushed has a chain to match.
LEMMA RootWellLinked ==
  ASSUME NEW s, s.chain = <<>>, s.cur.depth = 1
  PROVE  WellLinked(s)
<1>1. MaxScopeDepth \in Int /\ 0 \in Int /\ 0 <= MaxScopeDepth
  BY ContextStoreAssumption
<1>2. Min({0, MaxScopeDepth}) = 0
  BY <1>1, MinOfTwo
<1>3. s.cur.depth - 1 = 0
  OBVIOUS
<1>4. Min({s.cur.depth - 1, MaxScopeDepth}) = 0
  BY <1>2, <1>3
<1> QED
  BY <1>4 DEF WellLinked

\* The depth of a store is a number, at least 1.
LEMMA SoundDepth ==
  ASSUME NEW s, SoundStore(s)
  PROVE  s.cur \in Scope /\ s.cur.depth \in Nat /\ s.cur.depth >= 1
  BY DEF SoundStore, Store, Scope, WellLinked

\* The constructors make sound stores, at depth 1.
LEMMA SoundNew == SoundStore(NewStore) /\ NewStore.cur.depth = 1
<1>1. NewStore.chain = <<>> /\ NewStore.cur.depth = 1
  BY DEF NewStore, RootScope
<1> QED
  BY <1>1, NewStoreType, RootWellLinked, RootUnnamedInit DEF SoundStore

\* from_values_with_chain makes a sound store, at depth 1.
LEMMA SoundFromValues ==
  ASSUME NEW v \in Values, NEW r \in Seq(Names)
  PROVE  /\ SoundStore(FromValuesWithChain(v, r))
         /\ FromValuesWithChain(v, r).cur.depth = 1
<1> DEFINE t == FromValuesWithChain(v, r)
<1>1. t.chain = <<>> /\ t.cur.depth = 1
  BY DEF FromValuesWithChain, RootScope
<1>2. t \in Store /\ RootUnnamed(t)
  BY FromValuesType, RootUnnamedInit
<1> HIDE DEF t
<1>3. SoundStore(t)
  BY <1>1, <1>2, RootWellLinked DEF SoundStore
<1> QED
  BY <1>1, <1>3 DEF t

\* A fork is a sound store, whatever it is a fork of.
LEMMA SoundFork ==
  ASSUME NEW s \in Store
  PROVE  SoundStore(ForkChild(s))
<1> DEFINE t == ForkChild(s)
<1>1. t.chain = <<>> /\ t.cur.depth = 1
  BY DEF ForkChild, RootScope
<1>2. t \in Store /\ RootUnnamed(t)
  BY ForkChildType, RootUnnamedInit
<1> HIDE DEF t
<1>3. SoundStore(t)
  BY <1>1, <1>2, RootWellLinked DEF SoundStore
<1> QED
  BY <1>3 DEF t

\* Writing values changes nothing else.
LEMMA SoundWrite ==
  ASSUME NEW s, SoundStore(s), NEW t \in Store,
         t.chain = s.chain, t.cur.depth = s.cur.depth, t.cur.name = s.cur.name
  PROVE  SoundStore(t)
  BY DEF SoundStore, WellLinked, RootUnnamed

\* set_value leaves a sound store, as deep as it was.
LEMMA SoundSetValue ==
  ASSUME NEW s, SoundStore(s), NEW k \in Keys, NEW v \in Vals
  PROVE  /\ SoundStore(SetValue(s, k, v))
         /\ SetValue(s, k, v).cur.depth = s.cur.depth
<1> DEFINE t == SetValue(s, k, v)
<1>1. s \in Store /\ s.cur \in Scope
  BY DEF SoundStore, Store
<1>2. t \in Store
  BY <1>1, SetValueType
<1>3. /\ t.chain = s.chain /\ t.cur.depth = s.cur.depth
      /\ t.cur.name = s.cur.name
  BY <1>1 DEF SetValue, Store, Scope
<1> HIDE DEF t
<1>4. SoundStore(t)
  BY <1>2, <1>3, SoundWrite
<1> QED
  BY <1>3, <1>4 DEF t

\* merge_with leaves a sound store, as deep as it was.
LEMMA SoundMerge ==
  ASSUME NEW s, SoundStore(s), NEW v \in Values
  PROVE  /\ SoundStore(MergeValues(s, v))
         /\ MergeValues(s, v).cur.depth = s.cur.depth
<1> DEFINE t == MergeValues(s, v)
<1>1. s \in Store /\ s.cur \in Scope
  BY DEF SoundStore, Store
<1>2. t \in Store
  BY <1>1, MergeValuesType
<1>3. /\ t.chain = s.chain /\ t.cur.depth = s.cur.depth
      /\ t.cur.name = s.cur.name
  BY <1>1 DEF MergeValues, Store, Scope
<1> HIDE DEF t
<1>4. SoundStore(t)
  BY <1>2, <1>3, SoundWrite
<1> QED
  BY <1>3, <1>4 DEF t

\* A push is one deeper.
LEMMA SoundPush ==
  ASSUME NEW s, SoundStore(s), NEW name \in Names, NEW cached
  PROVE  /\ SoundStore(PushScope(s, name, cached))
         /\ PushScope(s, name, cached).cur.depth = s.cur.depth + 1
  BY PushScopeProperties, RootUnnamedPush DEF SoundStore

\* A pop never goes up, and stops below the depth it was given.
LEMMA SoundPop ==
  ASSUME NEW s, SoundStore(s), NEW e \in Nat, e >= 2
  PROVE  /\ SoundStore(PopScope(s, e))
         /\ PopScope(s, e).cur.depth =
              IF s.cur.depth < e THEN s.cur.depth ELSE e - 1
<1>1. s.cur.depth \in Nat /\ s \in Store /\ WellLinked(s) /\ RootUnnamed(s)
  BY SoundDepth DEF SoundStore
<1>2. RootUnnamed(PopScope(s, e))
  BY <1>1, RootUnnamedPop
<1>3. /\ PopScope(s, e) \in Store /\ WellLinked(PopScope(s, e))
      /\ s.cur.depth < e => PopScope(s, e) = s
      /\ s.cur.depth >= e => PopScope(s, e).cur.depth = e - 1
  BY <1>1, PopScopeProperties
<1>4. SoundStore(PopScope(s, e))
  BY <1>2, <1>3 DEF SoundStore
<1>5. CASE s.cur.depth < e
  BY <1>3, <1>4, <1>5
<1>6. CASE ~ (s.cur.depth < e)
  <2>1. s.cur.depth >= e
    BY <1>1, <1>6
  <2> QED
    BY <1>3, <1>4, <1>6, <2>1
<1> QED
  BY <1>5, <1>6

\* The pop of what was just pushed takes it back, a dead scope or a real one.
LEMMA PopAfterPush ==
  ASSUME NEW s, SoundStore(s), NEW name \in Names, NEW cached
  PROVE  PopScope(PushScope(s, name, cached), s.cur.depth + 1) = s
<1> DEFINE t == PushScope(s, name, cached)
           d == s.cur.depth
<1>1. /\ s \in Store /\ s.cur \in Scope /\ d \in Nat /\ d >= 1
      /\ MaxScopeDepth \in Nat
  BY SoundDepth, ContextStoreAssumption DEF SoundStore
<1>2. SoundStore(t) /\ t.cur.depth = d + 1
  BY SoundPush
<1>3. d + 1 \in Nat /\ d + 1 >= 2 /\ ~ (t.cur.depth < d + 1)
      /\ (d + 1) - 1 = d
  BY <1>1, <1>2
<1>4. CASE d + 1 > MaxScopeDepth + 1
  <2>1. t = [s EXCEPT !.cur.depth = d + 1]
    BY <1>4 DEF PushScope
  <2>2. PopScope(t, d + 1) = [t EXCEPT !.cur.depth = d]
    <3> HIDE DEF t, d
    <3> QED BY <1>2, <1>3, <1>4, PopScopeResult DEF SoundStore
  <2>3. [s.cur EXCEPT !.depth = d] = s.cur
    BY <1>1 DEF Scope
  <2>4. [s EXCEPT !.cur = s.cur] = s
    BY <1>1 DEF Store
  <2>5. [t EXCEPT !.cur.depth = d] = [s EXCEPT !.cur = [s.cur EXCEPT !.depth = d]]
    BY <1>1, <2>1 DEF Store, Scope
  <2> QED
    BY <2>2, <2>3, <2>4, <2>5
<1>5. CASE ~ (d + 1 > MaxScopeDepth + 1)
  <2>1. d + 1 <= MaxScopeDepth + 1
    BY <1>1, <1>5
  <2>2. Rewound(t, d) = s
    BY <1>1, <2>1, PushScopeProperties DEF SoundStore
  <2>3. PopScope(t, d + 1) = Rewound(t, d)
    <3> HIDE DEF t, d
    <3> QED BY <1>2, <1>3, <1>5, PopScopeResult DEF SoundStore
  <2> QED
    BY <2>2, <2>3
<1> QED
  BY <1>4, <1>5

-----------------------------------------------------------------------------
(* The loop of pop_scope *)

\* A sound store at depth j of its own: counted down, or rolled back.
AtDepth(s, j) ==
  IF j > Len(s.chain) THEN [s EXCEPT !.cur.depth = j] ELSE Rewound(s, j)

\* What the loop has reached after some turns.
AfterTurns(s, e, turns) ==
  AtDepth(s, IF s.cur.depth - turns >= e - 1 THEN s.cur.depth - turns ELSE e - 1)

\* A rolled back store is at the depth of its node.
LEMMA AtDepthProperties ==
  ASSUME NEW s, SoundStore(s), NEW j \in 1 .. s.cur.depth
  PROVE  /\ AtDepth(s, j).cur.depth = j
         /\ j = s.cur.depth => AtDepth(s, j) = s
<1> DEFINE n == Len(s.chain)
           d == s.cur.depth
           q == s.chain
<1>1. /\ s \in Store /\ s.cur \in Scope /\ q \in Seq(Scope) /\ n \in Nat
      /\ MaxScopeDepth \in Nat /\ d \in Nat
  BY SoundDepth, ContextStoreAssumption DEF SoundStore, Store
<1>2. n = Min({d - 1, MaxScopeDepth})
  BY DEF SoundStore, WellLinked
<1>3. d - 1 \in Int /\ MaxScopeDepth \in Int
  BY <1>1
<1>4. n <= d - 1
  <2> HIDE DEF n, d
  <2> QED BY <1>1, <1>2, <1>3, MinOfTwo
<1>5. CASE j > n
  <2>1. AtDepth(s, j) = [s EXCEPT !.cur.depth = j]
    BY <1>5 DEF AtDepth
  <2>2. [s EXCEPT !.cur.depth = j].cur.depth = j
    BY <1>1 DEF Store, Scope
  <2>3. ASSUME j = d
        PROVE  [s EXCEPT !.cur.depth = j] = s
    <3>1. [s EXCEPT !.cur.depth = j] = [s EXCEPT !.cur = [s.cur EXCEPT !.depth = j]]
      BY <1>1 DEF Store, Scope
    <3>2. [s.cur EXCEPT !.depth = j] = s.cur
      BY <1>1, <2>3 DEF Scope
    <3>3. [s EXCEPT !.cur = s.cur] = s
      BY <1>1 DEF Store
    <3> QED BY <3>1, <3>2, <3>3
  <2> QED BY <2>1, <2>2, <2>3
<1>6. CASE ~ (j > n)
  <2>1. j \in 1 .. n
    BY <1>1, <1>6
  <2>2. q[j].depth = j
    BY <1>1, <2>1 DEF SoundStore, WellLinked
  <2>3. AtDepth(s, j) = Rewound(s, j) /\ Rewound(s, j).cur = q[j]
    BY <1>6 DEF AtDepth, Rewound
  <2>4. j # d
    BY <1>1, <1>4, <2>1
  <2> QED BY <2>2, <2>3, <2>4
<1> QED BY <1>5, <1>6

\* A turn goes up by one as long as the store is deep enough, and ends there.
LEMMA TurnGoesUp ==
  ASSUME NEW s, SoundStore(s), NEW e \in Nat, e >= 2, NEW j \in 1 .. s.cur.depth
  PROVE  /\ j >= e => PopTurn(AtDepth(s, j), e) = AtDepth(s, j - 1)
         /\ j < e => PopTurn(AtDepth(s, j), e) = AtDepth(s, j)
<1> DEFINE n == Len(s.chain)
           d == s.cur.depth
           q == s.chain
           t == AtDepth(s, j)
<1>1. /\ s \in Store /\ s.cur \in Scope /\ q \in Seq(Scope) /\ n \in Nat
      /\ MaxScopeDepth \in Nat /\ MaxScopeDepth >= 1 /\ d \in Nat /\ j \in Nat
  BY SoundDepth, ContextStoreAssumption DEF SoundStore, Store
<1>2. t.cur.depth = j
  BY AtDepthProperties
<1>3. ASSUME j < e
      PROVE  PopTurn(t, e) = t
  BY <1>2, <1>3 DEF PopTurn
<1>4. ASSUME j >= e
      PROVE  PopTurn(t, e) = AtDepth(s, j - 1)
  <2>1. n = IF d - 1 <= MaxScopeDepth THEN d - 1 ELSE MaxScopeDepth
    <3>1. n = Min({d - 1, MaxScopeDepth})
      BY DEF SoundStore, WellLinked
    <3>2. d - 1 \in Int /\ MaxScopeDepth \in Int
      BY <1>1
    <3> HIDE DEF n, d
    <3> QED BY <3>1, <3>2, MinOfTwo
  <2>2. ~ (j < e) /\ ~ (j <= 1) /\ j <= d
    BY <1>1, <1>4
  <2>3. CASE j > MaxScopeDepth + 1
    <3>1. j > n /\ j - 1 > n
      <4> HIDE DEF n, d
      <4> QED BY <1>1, <2>1, <2>3
    <3>2. t = [s EXCEPT !.cur.depth = j] /\ AtDepth(s, j - 1) = [s EXCEPT !.cur.depth = j - 1]
      BY <3>1 DEF AtDepth
    <3>3. PopTurn(t, e) = [t EXCEPT !.cur.depth = @ - 1]
      BY <1>2, <2>2, <2>3 DEF PopTurn
    <3>4. [[s EXCEPT !.cur.depth = j] EXCEPT !.cur.depth = @ - 1]
            = [s EXCEPT !.cur.depth = j - 1]
      BY <1>1 DEF Store, Scope
    <3> QED BY <3>2, <3>3, <3>4
  <2>4. CASE ~ (j > MaxScopeDepth + 1)
    <3>1. j - 1 \in 1 .. n /\ j <= n + 1 /\ ~ (j - 1 > n)
      <4> HIDE DEF n, d
      <4> QED BY <1>1, <2>1, <2>2, <2>4
    <3> DEFINE p == t.chain
               m == j - 1
    <3>2. /\ t \in Store /\ t.frozen = s.frozen /\ Len(p) = m
          /\ \A i \in 1 .. m : p[i] = q[i]
      <4>1. CASE j > n
        <5>1. t = [s EXCEPT !.cur.depth = j]
          BY <4>1 DEF AtDepth
        <5>2. /\ [s EXCEPT !.cur.depth = j] \in Store
              /\ [s EXCEPT !.cur.depth = j].chain = q
              /\ [s EXCEPT !.cur.depth = j].frozen = s.frozen
          BY <1>1 DEF Store, Scope
        <5>3. n = m
          BY <1>1, <3>1, <4>1
        <5> HIDE DEF t
        <5> QED BY <5>1, <5>2, <5>3
      <4>2. CASE ~ (j > n)
        <5>1. j \in 1 .. n /\ t = Rewound(s, j)
          BY <1>1, <4>2 DEF AtDepth
        <5>2. /\ Rewound(s, j) \in Store /\ Len(Rewound(s, j).chain) = j - 1
              /\ \A i \in 1 .. j - 1 : Rewound(s, j).chain[i] = q[i]
          BY <1>1, <5>1, RewoundType
        <5>3. Rewound(s, j).frozen = s.frozen
          BY DEF Rewound
        <5> HIDE DEF t
        <5> QED BY <5>1, <5>2, <5>3
      <4> QED BY <4>1, <4>2
    <3>3. p \in Seq(Scope)
      BY <3>2 DEF Store
    <3>4. AtDepth(s, m) = Rewound(s, m)
      BY <3>1 DEF AtDepth
    <3>5. PopTurn(t, e) = [cur |-> Last(p), chain |-> Front(p), frozen |-> t.frozen]
      <4>1. p # <<>>
        <5> HIDE DEF p
        <5> QED BY <3>1, <3>2
      <4> QED BY <1>2, <2>2, <2>4, <4>1 DEF PopTurn
    <3> HIDE DEF t, p, q, n, m
    <3>6. Last(p) = q[m] /\ Front(p) = SubSeq(q, 1, m - 1)
      <4>1. m \in Nat /\ m >= 1 /\ m <= Len(q) /\ m \in 1 .. m
        BY <1>1, <3>1 DEF m, n, q
      <4>2. Last(p) = q[m] /\ Front(p) = SubSeq(p, 1, m - 1)
        BY <3>2, <4>1 DEF Last, Front
      <4>3. /\ 1 \in Int /\ m - 1 \in Int
            /\ \A i \in 1 .. m - 1 : p[i] \in Scope /\ q[i] \in Scope /\ p[i] = q[i]
        BY <1>1, <3>2, <3>3, <4>1
      <4> DEFINE x == SubSeq(p, 1, m - 1)
                 y == SubSeq(q, 1, m - 1)
      <4>4. /\ x \in Seq(Scope) /\ Len(x) = IF 1 <= m - 1 THEN m - 1 - 1 + 1 ELSE 0
            /\ \A i \in 1 .. m - 1 - 1 + 1 : x[i] = p[1 + i - 1]
        BY <4>3, SubSeqProperties
      <4>5. /\ y \in Seq(Scope) /\ Len(y) = IF 1 <= m - 1 THEN m - 1 - 1 + 1 ELSE 0
            /\ \A i \in 1 .. m - 1 - 1 + 1 : y[i] = q[1 + i - 1]
        BY <4>3, SubSeqProperties
      <4> HIDE DEF x, y
      <4>6. Len(x) = m - 1 /\ Len(y) = m - 1 /\ m - 1 - 1 + 1 = m - 1
        BY <4>1, <4>4, <4>5
      <4>7. \A i \in 1 .. m - 1 : x[i] = y[i]
        <5> TAKE i \in 1 .. m - 1
        <5>1. 1 + i - 1 = i
          BY <4>1
        <5> QED BY <4>3, <4>4, <4>5, <4>6, <5>1
      <4>8. x = y
        BY <4>4, <4>5, <4>6, <4>7, SeqEqual
      <4> QED BY <4>2, <4>8 DEF x, y
    <3>7. t.frozen = s.frozen
      BY <3>2
    <3>8. Rewound(s, m) = [cur |-> q[m], chain |-> SubSeq(q, 1, m - 1),
                           frozen |-> s.frozen]
      BY DEF Rewound, q
    <3> QED BY <3>4, <3>5, <3>6, <3>7, <3>8 DEF m
  <2> QED BY <2>3, <2>4
<1> QED BY <1>3, <1>4 DEF t

\* The loop of pop_scope, turn by turn: every turn leaves what AfterTurns says.
LEMMA PopLoopResult ==
  ASSUME NEW s, SoundStore(s), NEW e \in Nat
  PROVE  PopLoop(s, e) = PopScope(s, e)
<1> DEFINE d == s.cur.depth
           body(f) == [turns \in 0 .. d |->
                         IF turns = 0 THEN s ELSE PopTurn(f[turns - 1], e)]
           after == CHOOSE f : f = body(f)
           h == [turns \in 0 .. d |-> AfterTurns(s, e, turns)]
<1>1. /\ s \in Store /\ WellLinked(s) /\ d \in Nat /\ d >= 1
      /\ MaxScopeDepth \in Nat /\ MaxScopeDepth >= 1 /\ Len(s.chain) \in Nat
  BY SoundDepth, ContextStoreAssumption DEF SoundStore, Store
<1>2. CASE d < e \/ e <= 1
  BY <1>2 DEF PopLoop, PopScope
<1>3. CASE ~ (d < e \/ e <= 1)
  <2>1. PopLoop(s, e) = after[d]
    BY <1>3 DEF PopLoop
  <2>2. h[0] = s
    <3>1. d - 0 = d /\ d >= e - 1 /\ d \in 1 .. d /\ 0 \in 0 .. d
      BY <1>1, <1>3
    <3>2. AfterTurns(s, e, 0) = AtDepth(s, d)
      BY <3>1 DEF AfterTurns
    <3>3. AtDepth(s, d) = s
      BY <3>1, AtDepthProperties
    <3> QED BY <3>1, <3>2, <3>3
  <2>3. ASSUME NEW n \in 1 .. d
        PROVE  h[n] = PopTurn(h[n - 1], e)
    <3> DEFINE j == IF d - (n - 1) >= e - 1 THEN d - (n - 1) ELSE e - 1
               i == IF d - n >= e - 1 THEN d - n ELSE e - 1
    <3>1. n \in 0 .. d /\ n - 1 \in 0 .. d
      BY <1>1
    <3>2. h[n - 1] = AtDepth(s, j) /\ h[n] = AtDepth(s, i)
      BY <3>1 DEF AfterTurns
    <3>3. j \in 1 .. d /\ j \in Int /\ (j >= e => i = j - 1) /\ (j < e => i = j)
      <4>1. n \in Int /\ 1 <= n /\ n <= d /\ e \in Int /\ 2 <= e /\ e <= d /\ d \in Int
        BY <1>1, <1>3
      <4> HIDE DEF d, h
      <4>2. CASE d - (n - 1) >= e
        <5>1. j = d - (n - 1) /\ i = d - n
          BY <4>1, <4>2
        <5> HIDE DEF i, j
        <5> QED BY <4>1, <4>2, <5>1
      <4>3. CASE ~ (d - (n - 1) >= e)
        <5>1. j = e - 1 /\ i = e - 1
          BY <4>1, <4>3
        <5> HIDE DEF i, j
        <5> QED BY <4>1, <4>3, <5>1
      <4> QED BY <4>2, <4>3
    <3> HIDE DEF i, j, h, d
    <3>4. /\ j >= e => PopTurn(AtDepth(s, j), e) = AtDepth(s, j - 1)
          /\ j < e => PopTurn(AtDepth(s, j), e) = AtDepth(s, j)
      BY <1>3, <3>3, TurnGoesUp DEF d
    <3>5. j >= e \/ j < e
      BY <3>3
    <3> QED BY <3>2, <3>3, <3>4, <3>5
  <2>4. h = body(h)
    <3>1. \A n \in 0 .. d : n # 0 => n \in 1 .. d
      BY <1>1
    <3>2. ASSUME NEW n \in 0 .. d
          PROVE  h[n] = IF n = 0 THEN s ELSE PopTurn(h[n - 1], e)
      <4> HIDE DEF h, d
      <4> QED BY <2>2, <2>3, <3>1
    <3> QED BY <3>2
  <2>5. after = body(after)
    <3> HIDE DEF h, body
    <3> QED BY <2>4
  <2> DEFINE T == {n \in Nat : n <= d => after[n] = h[n]}
  <2>6. 0 \in T
    <3>1. 0 \in 0 .. d
      BY <1>1
    <3>2. body(after)[0] = s
      BY <3>1
    <3> HIDE DEF after, h, body
    <3> QED BY <2>2, <2>5, <3>2
  <2>7. ASSUME NEW n \in Nat, n \in T  PROVE n + 1 \in T
    <3>1. n + 1 \in Nat
      OBVIOUS
    <3>2. ASSUME n + 1 <= d  PROVE after[n + 1] = h[n + 1]
      <4>1. n <= d /\ n + 1 \in 1 .. d /\ n + 1 \in 0 .. d /\ n + 1 # 0 /\ n + 1 - 1 = n
        BY <1>1, <3>2
      <4>2. after[n] = h[n]
        BY <2>7, <4>1
      <4>3. body(after)[n + 1] = PopTurn(after[n], e)
        BY <4>1
      <4>4. after[n + 1] = PopTurn(after[n], e)
        <5> HIDE DEF after, body
        <5> QED BY <2>5, <4>3
      <4>5. h[n + 1] = PopTurn(h[n], e)
        <5> HIDE DEF h
        <5> QED BY <2>3, <4>1
      <4> QED BY <4>2, <4>4, <4>5
    <3> QED BY <3>1, <3>2
  <2>8. after[d] = h[d]
    <3>1. \A n \in Nat : n \in T
      <4> HIDE DEF T
      <4> QED BY <2>6, <2>7, SetInduction
    <3>2. d \in Nat /\ d <= d
      BY <1>1
    <3>3. d \in T
      <4> HIDE DEF T
      <4> QED BY <3>1, <3>2
    <3> HIDE DEF after, h, d
    <3> QED BY <3>2, <3>3
  <2>9. h[d] = AtDepth(s, e - 1)
    <3>1. d \in 0 .. d /\ d - d = 0 /\ ~ (0 >= e - 1)
      BY <1>1, <1>3
    <3> QED BY <3>1 DEF AfterTurns
  <2>10. AtDepth(s, e - 1) = PopScope(s, e)
    <3>1. PopScope(s, e) = IF e > MaxScopeDepth + 1 THEN [s EXCEPT !.cur.depth = e - 1]
                           ELSE Rewound(s, e - 1)
      <4>1. e >= 2
        BY <1>3
      <4> QED BY <1>1, <1>3, <4>1, PopScopeResult
    <3>2. Len(s.chain) = IF d - 1 <= MaxScopeDepth THEN d - 1 ELSE MaxScopeDepth
      <4>1. d - 1 \in Int /\ MaxScopeDepth \in Int
        BY <1>1
      <4>2. Len(s.chain) = Min({d - 1, MaxScopeDepth})
        BY <1>1 DEF WellLinked
      <4> HIDE DEF d
      <4> QED BY <4>1, <4>2, MinOfTwo
    <3>3. e - 1 > Len(s.chain) <=> e > MaxScopeDepth + 1
      <4> HIDE DEF d
      <4> QED BY <1>1, <1>3, <3>2
    <3> QED BY <3>1, <3>3 DEF AtDepth
  <2> QED
    <3> HIDE DEF after, h
    <3> QED BY <2>1, <2>8, <2>9, <2>10
<1> QED BY <1>2, <1>3

-----------------------------------------------------------------------------
(* Snapshots *)

\* A chain that was limited once is not shortened again.
LEMMA LimitedTwice ==
  ASSUME NEW full \in Seq(Names)
  PROVE  Limited(Limited(full)) = Limited(full)
<1>1. MaxChainLen \in Nat /\ Len(full) \in Nat
  BY ContextStoreAssumption
<1>2. ~ (MaxChainLen > 0 /\ Len(Limited(full)) > MaxChainLen)
  BY <1>1, LimitedProperties
<1> DEFINE p == Limited(full)
<1> HIDE DEF p
<1>3. Limited(p) = p
  BY <1>2 DEF Limited, p
<1> QED
  BY <1>3 DEF p

\* What the limit has dropped would not be shown after one more name either.
LEMMA LimitedAppend ==
  ASSUME NEW full \in Seq(Names), NEW name \in Names
  PROVE  Limited(Append(Limited(full), name)) = Limited(Append(full, name))
<1> DEFINE n == Len(full)
           lim == Limited(full)
           m == Len(lim)
           p == Append(lim, name)
           q == Append(full, name)
<1>1. MaxChainLen \in Nat /\ n \in Nat
  BY ContextStoreAssumption
<1>2. /\ lim \in Seq(Names)
      /\ m = IF MaxChainLen > 0 /\ n > MaxChainLen THEN MaxChainLen ELSE n
      /\ \A i \in 1 .. m : lim[i] = full[n - m + i]
  BY LimitedProperties
<1> HIDE DEF lim
<1>3. /\ p \in Seq(Names) /\ Len(p) = m + 1 /\ p[m + 1] = name
      /\ \A i \in 1 .. m : p[i] = lim[i]
  BY <1>2
<1>4. /\ q \in Seq(Names) /\ Len(q) = n + 1 /\ q[n + 1] = name
      /\ \A i \in 1 .. n : q[i] = full[i]
  BY <1>1
<1> HIDE DEF p, q, n
<1>5. m \in Nat /\ m <= n /\ Limited(p) \in Seq(Names) /\ Limited(q) \in Seq(Names)
  BY <1>1, <1>2, <1>3, <1>4, LimitedProperties
<1> HIDE DEF m
<1>6. \A i \in 1 .. m + 1 : p[i] = q[n - m + i]
  <2> TAKE i \in 1 .. m + 1
  <2>1. CASE i = m + 1
    <3>1. n - m + i = n + 1
      BY <1>1, <1>5, <2>1
    <3> QED
      BY <1>3, <1>4, <2>1, <3>1
  <2>2. CASE i # m + 1
    <3>1. i \in 1 .. m /\ n - m + i \in 1 .. n
      BY <1>1, <1>5, <2>2
    <3> QED
      BY <1>2, <1>3, <1>4, <3>1
  <2> QED
    BY <2>1, <2>2
<1> DEFINE l == Len(Limited(q))
<1>7. /\ l \in Nat /\ Len(Limited(p)) = l /\ l <= m + 1
      /\ l = IF MaxChainLen > 0 /\ n + 1 > MaxChainLen THEN MaxChainLen ELSE n + 1
  <2>1. l = IF MaxChainLen > 0 /\ n + 1 > MaxChainLen THEN MaxChainLen ELSE n + 1
    BY <1>4, LimitedProperties
  <2>2. Len(Limited(p)) =
          IF MaxChainLen > 0 /\ m + 1 > MaxChainLen THEN MaxChainLen ELSE m + 1
    BY <1>3, LimitedProperties
  <2> HIDE DEF l
  <2> QED
    BY <1>1, <1>2, <1>5, <2>1, <2>2
<1>8. \A i \in 1 .. l : Limited(q)[i] = q[(n + 1) - l + i]
  <2>1. \A i \in 1 .. l : Limited(q)[i] = q[Len(q) - l + i]
    BY <1>4, LimitedProperties
  <2> HIDE DEF l
  <2> QED
    BY <1>4, <2>1
<1>9. \A i \in 1 .. l : Limited(p)[i] = p[(m + 1) - l + i]
  <2> HIDE DEF l
  <2>1. \A i \in 1 .. l : Limited(p)[i] = p[Len(p) - l + i]
    <3>1. \A i \in 1 .. Len(Limited(p)) :
            Limited(p)[i] = p[Len(p) - Len(Limited(p)) + i]
      BY <1>3, LimitedProperties
    <3> QED
      BY <1>7, <3>1
  <2> QED
    BY <1>3, <2>1
<1> HIDE DEF l
<1>10. \A i \in 1 .. l : Limited(p)[i] = Limited(q)[i]
  <2> TAKE i \in 1 .. l
  <2>1. (m + 1) - l + i \in 1 .. m + 1
    BY <1>5, <1>7
  <2>2. n - m + ((m + 1) - l + i) = (n + 1) - l + i
    BY <1>1, <1>5, <1>7
  <2> QED
    BY <1>6, <1>8, <1>9, <2>1, <2>2
<1>11. Limited(p) = Limited(q)
  BY <1>5, <1>7, <1>10, SeqEqual DEF l
<1> QED
  BY <1>11 DEF p, q, lim

\* capture() makes a snapshot.
LEMMA CaptureType ==
  ASSUME NEW s \in Store, NEW local
  PROVE  CaptureOf(s, local) \in Snapshot
<1>1. ScopeChain(s) = Limited(FullChain(s)) /\ ScopeChain(s) \in Seq(Names)
  BY ScopeChainType
<1>2. CollectValues(s) \in Values
  BY CollectValuesType
<1>3. [k \in Keys |-> IF k \in local THEN NoVal ELSE CollectValues(s)[k]]
        \in Values
  BY <1>2 DEF Values
<1> QED
  BY <1>1, <1>2, <1>3 DEF CaptureOf, Snapshot

\* An attached snapshot is a sound store at its root, with the snapshot's chain
\* and its valid values that are not local-only.
LEMMA StoreFromSnapshotProperties ==
  ASSUME NEW snap \in Snapshot, NEW local, NEW valid
  PROVE  /\ SoundStore(StoreFromSnapshot(snap, local, valid))
         /\ StoreFromSnapshot(snap, local, valid).cur.depth = 1
         /\ \A k \in Keys : GetValue(StoreFromSnapshot(snap, local, valid), k) =
              IF snap.values[k] \in valid[k] /\ k \notin local
              THEN snap.values[k] ELSE NoVal
         /\ FullChain(StoreFromSnapshot(snap, local, valid)) = snap.chain
<1> DEFINE v == [k \in Keys |-> IF snap.values[k] \in valid[k] /\ k \notin local
                                THEN snap.values[k] ELSE NoVal]
           r == snap.chain
           c == RootScope(v, r, 1)
           t == FromValuesWithChain(v, r)
<1>1. snap.values \in Values /\ r \in Seq(Names)
  BY DEF Snapshot
<1>2. v \in Values
  BY <1>1 DEF Values
<1>3. StoreFromSnapshot(snap, local, valid) = t
  BY DEF StoreFromSnapshot
<1>4. /\ t.cur = c /\ t.chain = <<>> /\ t.frozen = <<>>
      /\ c.name = NoName /\ c.values = v /\ c.remote = r /\ c.base = 1
  BY DEF FromValuesWithChain, RootScope
<1>5. \A k \in Keys : v[k] = IF snap.values[k] \in valid[k] /\ k \notin local
                             THEN snap.values[k] ELSE NoVal
  OBVIOUS
<1> HIDE DEF v, r, c
<1>6. SoundStore(t) /\ t.cur.depth = 1
  BY <1>1, <1>2, SoundFromValues
<1> HIDE DEF t
<1>7. t \in Store /\ c \in Scope
  BY <1>4, <1>6 DEF SoundStore, Store
<1>8. ASSUME NEW k \in Keys  PROVE GetValue(t, k) = v[k]
  <2>1. Under(t) = <<>>
    BY <1>4 DEF Under
  <2>2. GetValue(t, k) = IF v[k] # NoVal THEN v[k] ELSE NoVal
    BY <1>4, <1>7, <2>1, GetValueCases, LookInEmpty
  <2> QED
    BY <2>2
<1>9. FullChain(t) = r
  <2>1. <<>> \in Seq(Scope) /\ 1 \in Int /\ -1 \in Int /\ ~Shown(1, c)
    BY <1>4 DEF Shown
  <2>2. NamesAbove(1, Append(<<>>, c)) = <<>>
    BY <1>7, <2>1, NamesAppend, NamesEmpty
  <2>3. NamesOf(<<>>) = <<>>
    BY <2>1, NamesEmpty DEF NamesOf
  <2>4. FullChain(t) = r \o <<>> \o <<>>
    BY <1>4, <2>2, <2>3 DEF FullChain
  <2> QED
    BY <1>1, <2>4
<1> QED
  BY <1>3, <1>5, <1>6, <1>8, <1>9 DEF r

\* A capture attached as a root reads as the store it was captured from.
LEMMA HopReads ==
  ASSUME NEW s, SoundStore(s), NEW local, NEW valid, NEW cached
  PROVE  LET there == StoreFromSnapshot(CaptureOf(s, local), local, valid)
         IN  /\ \A k \in Keys :
                  GetValue(there, k) =
                    IF k \notin local /\ GetValue(s, k) \in valid[k]
                    THEN GetValue(s, k) ELSE NoVal
             /\ ScopeChain(there) = ScopeChain(s)
             /\ s.cur.depth <= MaxScopeDepth =>
                  \A name \in Names :
                    ScopeChain(PushScope(there, name, cached))
                      = ScopeChain(PushScope(s, name, cached))
<1> DEFINE snap == CaptureOf(s, local)
           there == StoreFromSnapshot(snap, local, valid)
<1>1. s \in Store /\ WellLinked(s)
  BY DEF SoundStore
<1>2. /\ snap \in Snapshot /\ snap.chain = Limited(FullChain(s))
      /\ FullChain(s) \in Seq(Names)
  BY <1>1, CaptureType, ScopeChainType, FullChainType DEF CaptureOf
<1>3. \A k \in Keys : snap.values[k] = IF k \in local THEN NoVal ELSE GetValue(s, k)
  <2>1. \A k \in Keys : CollectValues(s)[k] = GetValue(s, k)
    BY <1>1, CollectValuesIsGetValue
  <2> QED
    BY <2>1 DEF CaptureOf
<1> HIDE DEF snap
<1>4. /\ SoundStore(there) /\ there.cur.depth = 1
      /\ \A k \in Keys : GetValue(there, k) =
           IF snap.values[k] \in valid[k] /\ k \notin local
           THEN snap.values[k] ELSE NoVal
      /\ FullChain(there) = snap.chain
  BY <1>2, StoreFromSnapshotProperties
<1> HIDE DEF there
<1>5. \A k \in Keys :
        GetValue(there, k) = IF k \notin local /\ GetValue(s, k) \in valid[k]
                             THEN GetValue(s, k) ELSE NoVal
  BY <1>3, <1>4
<1>6. there \in Store /\ WellLinked(there)
  BY <1>4 DEF SoundStore
<1>7. /\ ScopeChain(s) = Limited(FullChain(s))
      /\ ScopeChain(there) = Limited(FullChain(there))
  BY <1>1, <1>6, ScopeChainType
<1>8. ScopeChain(there) = ScopeChain(s)
  BY <1>2, <1>4, <1>7, LimitedTwice
<1>9. ASSUME s.cur.depth <= MaxScopeDepth, NEW name \in Names
      PROVE  ScopeChain(PushScope(there, name, cached)) = ScopeChain(PushScope(s, name, cached))
  <2>1. /\ s.cur.depth + 1 <= MaxScopeDepth + 1
        /\ there.cur.depth + 1 <= MaxScopeDepth + 1
    BY <1>4, <1>9, SoundDepth, ContextStoreAssumption
  <2>2. /\ FullChain(PushScope(s, name, cached)) = Append(FullChain(s), name)
        /\ FullChain(PushScope(there, name, cached)) = Append(FullChain(there), name)
    BY <1>1, <1>6, <2>1, PushedReads
  <2>3. /\ PushScope(s, name, cached) \in Store /\ PushScope(there, name, cached) \in Store
    BY <1>1, <1>6, <2>1, PushScopeReal
  <2>4. /\ ScopeChain(PushScope(s, name, cached)) = Limited(Append(FullChain(s), name))
        /\ ScopeChain(PushScope(there, name, cached))
             = Limited(Append(Limited(FullChain(s)), name))
    BY <1>2, <1>4, <2>2, <2>3, ScopeChainType
  <2> QED
    BY <1>2, <2>4, LimitedAppend
<1> QED
  BY <1>5, <1>8, <1>9 DEF there, snap

=============================================================================
