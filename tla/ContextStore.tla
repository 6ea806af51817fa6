---------------------------- MODULE ContextStore ----------------------------
(***************************************************************************)
(* The data type behind every dcontext operation: ContextStore             *)
(* (dcontext/src/store.rs) and the frozen ScopeNodes it is linked to       *)
(* (dcontext/src/scope.rs).  There are no variables here: each operator is *)
(* one method, mapping the store it is called on to the store it leaves.   *)
(*                                                                         *)
(* A scope is the record of the fields a ScopeNode saves.  The linked list *)
(* Option<Arc<ScopeNode>> is a sequence of scopes, outermost first: nodes  *)
(* are immutable once built, so sharing a tail through an Arc and copying  *)
(* it cannot be told apart.  A store is its active scope ("cur"), the      *)
(* scopes it was pushed on ("chain") and, for a forked store, the scopes   *)
(* of the store it was forked from ("frozen").                             *)
(*                                                                         *)
(* The field scope_barrier is not modelled: every constructor sets it to   *)
(* None and the other statements only copy it, so the branches that test   *)
(* it always take their "no barrier" side.                                 *)
(***************************************************************************)
EXTENDS ContextKeys, Integers, Sequences, FiniteSets, FiniteSetsExt, SequencesExt

CONSTANTS
  Vals,           \* the values a key may be set to
  NoVal,          \* "the key is absent from the map"
  Names,          \* the scope names
  NoName,         \* "the scope has no name": the root scope of a store
  MaxScopeDepth,  \* MAX_SCOPE_DEPTH: the number of real scopes above the root
  MaxChainLen     \* MAX_SCOPE_CHAIN_LEN: 0 is "no limit"

ASSUME ContextStoreAssumption ==
  /\ NoVal \notin Vals
  /\ NoName \notin Names
  /\ MaxScopeDepth \in Nat \ {0}
  /\ MaxChainLen \in Nat

-----------------------------------------------------------------------------
(* Shapes *)

Values == [Keys -> Vals \cup {NoVal}]

Scope == [name   : Names \cup {NoName},
          values : Values,
          depth  : Nat,
          remote : Seq(Names),
          base   : {0, 1}]

Store == [cur : Scope, chain : Seq(Scope), frozen : Seq(Scope)]

\* The depth counter and the linked list agree: one node per real scope, the
\* i-th at depth i; the dead scopes are only counted.
WellLinked(s) ==
  /\ s.cur.depth >= 1
  /\ Len(s.chain) = Min({s.cur.depth - 1, MaxScopeDepth})
  /\ \A i \in DOMAIN s.chain : s.chain[i].depth = i

EmptyValues == [k \in Keys |-> NoVal]

\* The map "under" with every entry that "over" has laid on top of it.
Overlay(over, under) ==
  [k \in Keys |-> IF over[k] # NoVal THEN over[k] ELSE under[k]]

-----------------------------------------------------------------------------
(* Constructors *)

\* Bug: the remote chain is installed one scope too deep.
RootScopeBaseTooDeep(values, remote, base) ==
  [name |-> NoName, values |-> values, depth |-> 1,
   remote |-> remote, base |-> base + 1]

RootScope(values, remote, base) ==
  [name |-> NoName, values |-> values, depth |-> 1,
   remote |-> remote, base |-> base]

NewStore ==
  [cur |-> RootScope(EmptyValues, <<>>, 0), chain |-> <<>>, frozen |-> <<>>]

\* The store a snapshot becomes when it is attached.
FromValuesWithChain(values, remote) ==
  [cur |-> RootScope(values, remote, 1), chain |-> <<>>, frozen |-> <<>>]

\* Bug: the node of the active scope is not linked to its chain.
ForkChildUnchained(s) ==
  [cur    |-> RootScope(EmptyValues, s.cur.remote, s.cur.base),
   chain  |-> <<>>,
   frozen |-> <<s.cur>>]

\* Bug: the remote chain of the child is installed one scope too deep.
ForkChildBaseTooDeep(s) ==
  [cur    |-> RootScope(EmptyValues, s.cur.remote, s.cur.base + 1),
   chain  |-> <<>>,
   frozen |-> Append(s.chain, s.cur)]

\* The active scope is frozen on top of its own chain; the child starts with
\* an empty root and keeps the remote prefix.  What the parent itself had
\* inherited through "frozen" is not linked to the new node.
ForkChild(s) ==
  [cur    |-> RootScope(EmptyValues, s.cur.remote, s.cur.base),
   chain  |-> <<>>,
   frozen |-> Append(s.chain, s.cur)]

-----------------------------------------------------------------------------
(* Reads *)

\* Every scope a lookup may reach, the last one to be looked at first.
Path(s) == s.frozen \o Append(s.chain, s.cur)

\* The innermost scope of the path that has the key decides.
GetValue(s, k) ==
  LET path == Path(s)
      hits == {i \in DOMAIN path : path[i].values[k] # NoVal}
  IN  IF hits = {} THEN NoVal ELSE path[Max(hits)].values[k]

\* Bug: insert instead of entry().or_insert_with(), so outer scopes win.
CollectOuterWins(s) ==
  FoldRight(LAMBDA scope, found : Overlay(scope.values, found),
            Path(s), EmptyValues)

\* The flattened map of a snapshot: innermost scope first, and an outer scope
\* only fills in the keys still missing (entry(k).or_insert_with(..)).
CollectValues(s) ==
  FoldRight(LAMBDA scope, found : Overlay(found, scope.values),
            Path(s), EmptyValues)

\* The names of the scopes deeper than "base", outermost first.
NamesAbove(base, scopes) ==
  LET upTo[i \in 0 .. Len(scopes)] ==
        IF i = 0 THEN <<>>
        ELSE IF scopes[i].name # NoName /\ scopes[i].depth > base
        THEN Append(upTo[i - 1], scopes[i].name)
        ELSE upTo[i - 1]
  IN  upTo[Len(scopes)]

NamesOf(scopes) == NamesAbove(-1, scopes)

\* The chain before the length limit: the remote prefix, the names of the
\* forked-from scopes, the names of the local scopes above the remote base.
FullChain(s) ==
  s.cur.remote \o NamesOf(s.frozen)
    \o NamesAbove(s.cur.base, Append(s.chain, s.cur))

\* Bug: the limit drops the newest entries.
ScopeChainKeepsOldest(s) ==
  LET full == FullChain(s)
  IN  IF MaxChainLen > 0 /\ Len(full) > MaxChainLen
      THEN SubSeq(full, 1, MaxChainLen)
      ELSE full

\* Over the limit, the oldest entries are drained.
ScopeChain(s) ==
  LET full == FullChain(s)
  IN  IF MaxChainLen > 0 /\ Len(full) > MaxChainLen
      THEN SubSeq(full, Len(full) - MaxChainLen + 1, Len(full))
      ELSE full

-----------------------------------------------------------------------------
(* Writes *)

SetValue(s, k, v) == [s EXCEPT !.cur.values[k] = v]

\* merge_with: one set_value per entry of the source's flattened values.
MergeValues(s, values) == [s EXCEPT !.cur.values = Overlay(values, @)]

\* Bugs: the limit is one scope too early; no cached copies; the forked parent
\* is lost.
PushScopeLimitTooLow(s, name, cached) ==
  IF s.cur.depth + 1 > MaxScopeDepth
  THEN [s EXCEPT !.cur.depth = @ + 1]
  ELSE [cur    |-> [s.cur EXCEPT !.name = name, !.values = EmptyValues,
                                 !.depth = @ + 1],
        chain  |-> Append(s.chain, s.cur),
        frozen |-> s.frozen]

PushScopeUncached(s, name, cached) ==
  IF s.cur.depth + 1 > MaxScopeDepth + 1
  THEN [s EXCEPT !.cur.depth = @ + 1]
  ELSE [cur    |-> [s.cur EXCEPT !.name = name, !.values = EmptyValues,
                                 !.depth = @ + 1],
        chain  |-> Append(s.chain, s.cur),
        frozen |-> s.frozen]

PushScopeUnlinked(s, name, cached) ==
  IF s.cur.depth + 1 > MaxScopeDepth + 1
  THEN [s EXCEPT !.cur.depth = @ + 1]
  ELSE [cur    |-> [s.cur EXCEPT !.name = name, !.values = EmptyValues,
                                 !.depth = @ + 1],
        chain  |-> Append(s.chain, s.cur),
        frozen |-> <<>>]

\* Beyond the limit a push is a "dead" scope: it only bumps the depth of the
\* active scope.  Otherwise the active scope is frozen onto the chain and the
\* new one starts with the effective values of the keys registered as cached.
PushScope(s, name, cached) ==
  IF s.cur.depth + 1 > MaxScopeDepth + 1
  THEN [s EXCEPT !.cur.depth = @ + 1]
  ELSE [cur    |-> [name   |-> name,
                    values |-> [k \in Keys |-> IF k \in cached
                                               THEN GetValue(s, k)
                                               ELSE NoVal],
                    depth  |-> s.cur.depth + 1,
                    remote |-> s.cur.remote,
                    base   |-> s.cur.base],
        chain  |-> Append(s.chain, s.cur),
        frozen |-> s.frozen]

\* Bug: the values of the popped scope are kept.
RewoundKeepsValues(s, i) ==
  [cur    |-> [s.chain[i] EXCEPT !.values = s.cur.values],
   chain  |-> SubSeq(s.chain, 1, i - 1),
   frozen |-> s.frozen]

\* The store with the i-th node of its chain active again, as on its push.
Rewound(s, i) ==
  [cur    |-> s.chain[i],
   chain  |-> SubSeq(s.chain, 1, i - 1),
   frozen |-> s.frozen]

\* The store with its i-th scope (1 is the root) active.
Unwind(s, i) == IF i > Len(s.chain) THEN s ELSE Rewound(s, i)

\* Bugs: one scope is popped, however deep the store is; one too many is popped;
\* the limit is one off; the depths are not compared.
PopScopeOnce(s, expected) ==
  IF s.cur.depth < expected \/ expected <= 1
  THEN s
  ELSE IF s.cur.depth > MaxScopeDepth + 1
  THEN [s EXCEPT !.cur.depth = @ - 1]
  ELSE Unwind(s, Len(s.chain))

PopScopeOneTooMany(s, expected) ==
  IF s.cur.depth < expected \/ expected <= 1
  THEN s
  ELSE IF expected > MaxScopeDepth + 2
  THEN [s EXCEPT !.cur.depth = expected - 2]
  ELSE LET below == {i \in DOMAIN s.chain : s.chain[i].depth < expected - 1}
       IN  Unwind(s, IF below = {} THEN 1 ELSE Max(below))

PopScopeLimitTooLow(s, expected) ==
  IF s.cur.depth < expected \/ expected <= 1
  THEN s
  ELSE IF expected > MaxScopeDepth
  THEN [s EXCEPT !.cur.depth = expected - 1]
  ELSE LET below == {i \in DOMAIN s.chain : s.chain[i].depth < expected}
       IN  Unwind(s, IF below = {} THEN 1 ELSE Max(below))

PopScopeUnchecked(s, expected) ==
  IF expected <= 1
  THEN s
  ELSE IF expected > MaxScopeDepth + 1
  THEN [s EXCEPT !.cur.depth = expected - 1]
  ELSE LET below == {i \in DOMAIN s.chain : s.chain[i].depth < expected}
       IN  Unwind(s, IF below = {} THEN 1 ELSE Max(below))

\* Pop every scope at "expected" or deeper.  Dead scopes are only counted
\* down; real ones are popped until the first node below "expected", or until
\* the chain has no node left.
PopScope(s, expected) ==
  IF s.cur.depth < expected \/ expected <= 1
  THEN s
  ELSE IF expected > MaxScopeDepth + 1
  THEN [s EXCEPT !.cur.depth = expected - 1]
  ELSE LET below == {i \in DOMAIN s.chain : s.chain[i].depth < expected}
       IN  Unwind(s, IF below = {} THEN 1 ELSE Max(below))

\* The while loop of pop_scope, one turn: a dead scope is counted down, a real
\* one gives way to the node it was pushed on.
PopTurn(s, expected) ==
  IF s.cur.depth < expected \/ s.cur.depth <= 1
  THEN s
  ELSE IF s.cur.depth > MaxScopeDepth + 1
  THEN [s EXCEPT !.cur.depth = @ - 1]
  ELSE IF s.chain = <<>>
  THEN s
  ELSE [cur |-> Last(s.chain), chain |-> Front(s.chain), frozen |-> s.frozen]

\* pop_scope as it is written, the reference for PopScope.  Each turn goes up, so
\* the loop has ended after as many as the store is deep.
PopLoop(s, expected) ==
  LET after[turns \in 0 .. s.cur.depth] ==
        IF turns = 0 THEN s ELSE PopTurn(after[turns - 1], expected)
  IN  IF s.cur.depth < expected \/ expected <= 1 THEN s ELSE after[s.cur.depth]

=============================================================================
