------------------------------ MODULE MCActors ------------------------------
(***************************************************************************)
(* Actors for TLC: two nodes, set up alike or in the middle of an upgrade; *)
(* a key that is propagated, and one that is local-only on one node.       *)
(***************************************************************************)
EXTENDS Actors, TLC

CONSTANTS a, b, k1, k2, old, new, json, a1, b1

\* Registries as the program builds them.
Fresh == Registered(EmptyMap, k1, old, DefaultOptions)

WithLocal(map) ==
  Registered(map, k2, old, [DefaultOptions EXCEPT !.local_only = TRUE])

WithCodec(map) ==
  Registered(map, k2, old, [DefaultOptions EXCEPT !.codec = json,
                                                  !.cached = TRUE])

Upgraded ==
  Migrated(Registered(EmptyMap, k1, new, [DefaultOptions EXCEPT !.version = 2]),
           k1, 1, old, new)

\* The same registry on both nodes; the second one upgraded, and knowing the
\* first one's local-only key as an ordinary one; the second one knowing only
\* the key with a codec.
MCDeployments ==
  {[registry |-> a :> WithLocal(Fresh) @@ b :> WithLocal(Fresh),
    policy   |-> a :> "Reject" @@ b :> "Reject",
    header   |-> a :> TRUE @@ b :> TRUE],
   [registry |-> a :> WithLocal(Fresh) @@ b :> WithCodec(Upgraded),
    policy   |-> a :> "LogAndContinue" @@ b :> "Reject",
    header   |-> a :> TRUE @@ b :> TRUE],
   [registry |-> a :> WithCodec(Fresh) @@ b :> WithCodec(EmptyMap),
    policy   |-> a :> "Reject" @@ b :> "LogAndContinue",
    header   |-> a :> TRUE @@ b :> FALSE]}

MCNodeOf == [w \in Threads |-> IF w = b1 THEN b ELSE a]

MCData == Code \cup {Outside}

MCSettable ==
  a :> {<<k1, old>>, <<k2, new>>} @@ b :> {<<k1, new>>, <<k2, old>>}

\* No message is treated specially.
Symmetry == Permutations(Tasks)

\* The new type is laid out like the old one.
MCReadsAs == {<<[codec |-> Bincode, type |-> new], [codec |-> Bincode, type |-> old]>>}

MCUnwritable == {[type |-> old, data |-> b1]}

OutsideEntry == [key |-> k1, version |-> 1,
                 bytes |-> [format |-> [codec |-> Bincode, type |-> old],
                            data   |-> Outside]]

\* Bytes of the first layout, which had no scope chain; bytes that say version
\* 1 but have one (what make_wire_bytes_v builds); of a version to come.
MCForeign ==
  {[version |-> 1, entries |-> {OutsideEntry}, chain |-> NoChain],
   [version |-> 1, entries |-> {OutsideEntry}, chain |-> <<>>],
   [version |-> 3, entries |-> {}, chain |-> <<>>]}

=============================================================================
