-------------------------------- MODULE Wire --------------------------------
(***************************************************************************)
(* The wire format of a snapshot (dcontext/src/wire.rs, config.rs and      *)
(* serialize/deserialize of snapshot.rs).  Each operator takes the         *)
(* registry of the process that runs it.                                   *)
(*                                                                         *)
(* Bytes are abstracted to what decides whether, and as what, they can be  *)
(* read again: the codec and the type that wrote them, and the data.       *)
(* Entries are a set: they come out of a HashMap, one per key.             *)
(***************************************************************************)
EXTENDS Registry, Snapshots

CONSTANTS
  Unwritable,      \* the values whose encoder returns an error
  ReadsAs,         \* <<w, r>>: a reader of format r accepts what w has written
  MaxContextSize,  \* MAX_CONTEXT_SIZE: 0 is "no limit"
  NoChain,         \* there is no scope_chain field (the layout before it)
  Failed           \* an Err

WireVersion == 2

Format == [codec : Codecs \cup {Bincode}, type : Types]

Bytes == [format : Format, data : Data]

Entry == [key : Keys, version : Versions, bytes : Bytes]

WireContext == [version : Nat, entries : SUBSET Entry,
                chain   : Seq(Names) \cup {NoChain}]

ASSUME WireAssumption ==
  /\ Vals = Value
  /\ Unwritable \subseteq Value
  /\ ReadsAs \subseteq Format \X Format
  /\ MaxContextSize \in Nat
  /\ NoChain \notin Seq(Names)
  /\ Failed \notin WireContext \cup Snapshot

-----------------------------------------------------------------------------
(* Encoding *)

\* A custom codec checks the type of the value; without one, any value writes
\* itself, whatever type its key was registered with.
CanWrite(map, k, v) ==
  /\ v \notin Unwritable
  /\ CodecOf(map, k) = Bincode \/ IsValidValue(map, k, v)

WireEntry(map, k, v) ==
  [key     |-> k,
   version |-> KeyVersion(map, k),
   bytes   |-> [format |-> [codec |-> CodecOf(map, k), type |-> v.type],
                data   |-> v.data]]

\* Every entry and every name of the chain counts as one.
Size(wire) == Cardinality(wire.entries) + Len(wire.chain)

\* Bug: the limit itself is too large.
FitsStrictly(size) == MaxContextSize = 0 \/ size < MaxContextSize

\* check_size
Fits(size) == MaxContextSize = 0 \/ size <= MaxContextSize

\* serialize_from: one entry that fails fails all.
Serialize(map, snap) ==
  LET set  == {k \in Keys : snap.values[k] # NoVal}
      wire == [version |-> WireVersion,
               entries |-> {WireEntry(map, k, snap.values[k]) : k \in set},
               chain   |-> snap.chain]
  IN  IF (\A k \in set : CanWrite(map, k, snap.values[k])) /\ Fits(Size(wire))
      THEN wire ELSE Failed

-----------------------------------------------------------------------------
(* Decoding *)

\* A decoder takes the bytes of its own format, and others that happen to be
\* laid out alike.
CanRead(decoder, bytes) ==
  LET format == [codec |-> decoder.codec, type |-> decoder.reads]
  IN  bytes.format = format \/ <<bytes.format, format>> \in ReadsAs

\* A key that is not registered here, or has no decoder at all, is skipped.
Skipped(map, entry) ==
  \/ ~IsRegistered(map, entry.key)
  \/ \A v \in Versions : map[entry.key].decoders[v] = NoDecoder

CanDecode(map, entry) ==
  LET decoder == map[entry.key].decoders[entry.version]
  IN  decoder # NoDecoder /\ CanRead(decoder, entry.bytes)

\* Bug: the migration is not applied.
DecodedUnmigrated(map, entry) ==
  [type |-> map[entry.key].decoders[entry.version].reads,
   data |-> entry.bytes.data]

Decoded(map, entry) ==
  [type |-> map[entry.key].decoders[entry.version].gives,
   data |-> entry.bytes.data]

\* deserialize_wire: the envelope must be complete, version 1 or not.
Readable(wire) == wire.chain # NoChain /\ wire.version \in {1, 2}

\* deserialize_to_snapshot: one entry that fails fails all, skipped ones apart.
Deserialize(map, wire) ==
  LET taken == {e \in wire.entries : ~Skipped(map, e)}
      of(k) == {e \in taken : e.key = k}
  IN  IF ~Readable(wire) \/ \E e \in taken : ~CanDecode(map, e)
      THEN Failed
      ELSE [kind   |-> "snapshot",
            values |-> [k \in Keys |-> IF of(k) = {} THEN NoVal
                                       ELSE Decoded(map, CHOOSE e \in of(k) : TRUE)],
            chain  |-> wire.chain]

=============================================================================
