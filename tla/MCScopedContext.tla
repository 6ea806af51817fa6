-------------------------- MODULE MCScopedContext --------------------------
(***************************************************************************)
(* ScopedContext for TLC: the values of its constants.                     *)
(***************************************************************************)
EXTENDS ScopedContext

CONSTANTS cachedKey, plainKey, v1, v2, n1, n2

\* No value is treated specially by the code.
Symmetry == Permutations(Vals)

\* Snapshots arrive with no chain, or with one remote scope.
MCRemoteChains == {<<>>, <<n2>>}

\* Forks start inside a named scope that shadows, or does not shadow, a value
\* of its root.
MCParents ==
  UNION {LET root == FromValuesWithChain([k \in Keys |-> v], <<n2>>)
         IN  { PushScope(root, n1, CachedKeys),
               SetValue(PushScope(NewStore, n1, CachedKeys), plainKey, v) } : v \in Vals}

=============================================================================
