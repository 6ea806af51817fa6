-------------------------- MODULE MCThreadContext --------------------------
(***************************************************************************)
(* ThreadContext for TLC: a cached key that is propagated and a plain key  *)
(* that is local-only; the second value is of the wrong type for the first *)
(* key.                                                                    *)
(***************************************************************************)
EXTENDS ThreadContext

CONSTANTS cachedKey, localKey, v1, v2, n1, n2

MCValidVals == [k \in Keys |-> IF k = cachedKey THEN {v1} ELSE Vals]

MCInbound ==
  {[kind   |-> "snapshot",
    values |-> [k \in Keys |-> IF k = cachedKey THEN v1 ELSE NoVal],
    chain  |-> <<n2, n1>>]}

\* One name at each depth, the next scope having the other one.
MCPushed == [d \in 1 .. MaxDepth |-> {IF d % 2 = 1 THEN n1 ELSE n2}]

=============================================================================
