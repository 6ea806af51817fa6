----------------------------- MODULE Snapshots -----------------------------
(***************************************************************************)
(* ContextSnapshot (dcontext/src/snapshot.rs): how a store is captured and *)
(* how a captured context becomes a store again.  Of the registry, they    *)
(* are given what they ask it: which keys are "local" only, and which      *)
(* values of a key are "valid", of the type that it was registered with.   *)
(***************************************************************************)
EXTENDS ContextStore

Snapshot == [kind : {"snapshot"}, values : Values, chain : Seq(Names)]

\* Bug: local-only keys are not filtered.
CaptureOfAll(s, local) ==
  [kind |-> "snapshot", values |-> CollectValues(s), chain |-> ScopeChain(s)]

\* The flattened values without the local-only ones, and the visible chain.
CaptureOf(s, local) ==
  LET collected == CollectValues(s)
  IN  [kind   |-> "snapshot",
       values |-> [k \in Keys |-> IF k \in local THEN NoVal
                                  ELSE collected[k]],
       chain  |-> ScopeChain(s)]

\* Bug: local-only keys are filtered, the types of the values are not checked.
StoreFromSnapshotUnchecked(snap, local, valid) ==
  FromValuesWithChain(
    [k \in Keys |-> IF k \notin local THEN snap.values[k] ELSE NoVal],
    snap.chain)

\* Values that are not of their key's type, and local-only ones, are dropped.
StoreFromSnapshot(snap, local, valid) ==
  FromValuesWithChain(
    [k \in Keys |-> IF snap.values[k] \in valid[k] /\ k \notin local
                    THEN snap.values[k] ELSE NoVal],
    snap.chain)

=============================================================================
