---------------------------- MODULE Wire_proofs ----------------------------
(***************************************************************************)
(* Facts of the wire format, for every registry that is sound in the sense *)
(* of Registry!Sound: RegistryAccess_proofs shows that every registry a    *)
(* process can build is.                                                   *)
(***************************************************************************)
EXTENDS Wire, TLAPS

(* The snapshot that the readable entries of a wire context stand for. *)
Taken(map, wire) == {e \in wire.entries : ~Skipped(map, e)}

UnderKey(map, wire, k) == {e \in Taken(map, wire) : e.key = k}

ValueUnder(map, wire, k) ==
  IF UnderKey(map, wire, k) = {} THEN NoVal
  ELSE Decoded(map, CHOOSE e \in UnderKey(map, wire, k) : TRUE)

-----------------------------------------------------------------------------

(* deserialize_to_snapshot either fails, or returns a snapshot with the chain
   of the wire and, of each key, the value of the entry under it. *)
LEMMA DeserializeCases ==
  ASSUME NEW map, NEW wire
  PROVE  \/ Deserialize(map, wire) = Failed
         \/ /\ Readable(wire)
            /\ \A e \in Taken(map, wire) : CanDecode(map, e)
            /\ Deserialize(map, wire) =
                 [kind   |-> "snapshot",
                  values |-> [k \in Keys |-> ValueUnder(map, wire, k)],
                  chain  |-> wire.chain]
BY DEF Deserialize, Taken, UnderKey, ValueUnder

(* What is returned under a key is what the key's own decoder made of an entry
   that could be decoded. *)
LEMMA ValueComesFromAnEntry ==
  ASSUME NEW map, NEW wire, NEW k \in Keys,
         \A e \in Taken(map, wire) : CanDecode(map, e),
         ValueUnder(map, wire, k) # NoVal
  PROVE  \E e \in Taken(map, wire) :
           /\ e.key = k
           /\ CanDecode(map, e)
           /\ ValueUnder(map, wire, k) = Decoded(map, e)
<1> DEFINE e0 == CHOOSE e \in UnderKey(map, wire, k) : TRUE
<1>1. UnderKey(map, wire, k) # {}
  BY DEF ValueUnder
<1>2. e0 \in UnderKey(map, wire, k)
  BY <1>1
<1>3. ValueUnder(map, wire, k) = Decoded(map, e0)
  BY <1>1 DEF ValueUnder
<1>4. e0 \in Taken(map, wire) /\ e0.key = k
  BY <1>2 DEF UnderKey
<1> QED
  BY <1>3, <1>4

(* Whatever bytes arrive, from whatever version of whatever program: if they
   deserialize at all, every value that comes out is of the type its key has
   here, and no key that is local-only here gets one (wire.rs). *)
THEOREM DeserializedIsValid ==
  ASSUME NEW map \in RegistryMap, Sound(map), NEW wire \in WireContext,
         Deserialize(map, wire) # Failed,
         NEW k \in Keys, Deserialize(map, wire).values[k] # NoVal
  PROVE  /\ IsValidValue(map, k, Deserialize(map, wire).values[k])
         /\ k \notin LocalKeysOf(map)
<1> DEFINE v == Deserialize(map, wire).values[k]
<1>1. /\ \A e \in Taken(map, wire) : CanDecode(map, e)
      /\ v = ValueUnder(map, wire, k)
  BY DeserializeCases
<1>2. PICK e \in Taken(map, wire) :
        e.key = k /\ CanDecode(map, e) /\ v = Decoded(map, e)
  BY <1>1, ValueComesFromAnEntry
<1>3. e \in wire.entries /\ ~Skipped(map, e)
  BY <1>2 DEF Taken
<1>4. e.version \in Versions
  <2>1. e \in Entry
    BY <1>3 DEF WireContext
  <2> QED
    BY <2>1 DEF Entry
<1>5. IsRegistered(map, k)
  BY <1>2, <1>3 DEF Skipped
<1>6. map[k].decoders[e.version] # NoDecoder
  BY <1>2 DEF CanDecode
<1>7. map[k].decoders[e.version].gives = map[k].type
  BY <1>4, <1>5, <1>6 DEF Sound
<1>8. ~map[k].local_only
  BY <1>4, <1>5, <1>6 DEF Sound
<1>9. v.type = map[k].type
  BY <1>2, <1>7 DEF Decoded
<1> QED
  BY <1>5, <1>8, <1>9 DEF IsValidValue, LocalKeysOf

(* The entry that is written for a key is read back as the value it was written
   from, under the registry it was written with: the key's own decoder takes
   the bytes of its own codec and type. *)
LEMMA EntryRoundTrip ==
  ASSUME NEW map \in RegistryMap, Sound(map), NEW k \in Keys,
         k \notin LocalKeysOf(map), NEW v \in Value, IsValidValue(map, k, v)
  PROVE  /\ ~Skipped(map, WireEntry(map, k, v))
         /\ CanDecode(map, WireEntry(map, k, v))
         /\ Decoded(map, WireEntry(map, k, v)) = v
<1> DEFINE e == WireEntry(map, k, v)
           r == map[k]
<1>1. IsRegistered(map, k) /\ r.type = v.type /\ ~r.local_only
  BY DEF IsValidValue, LocalKeysOf
<1>2. r \in Registration
  BY <1>1 DEF RegistryMap, IsRegistered
<1>3. r.version \in Versions
  BY <1>2 DEF Registration
<1>4. /\ e.key = k
      /\ e.version = r.version
      /\ e.bytes.format = [codec |-> r.codec, type |-> v.type]
      /\ e.bytes.data = v.data
  BY <1>1 DEF WireEntry, KeyVersion, CodecOf
<1>5. r.decoders[r.version] =
        [reads |-> r.type, codec |-> r.codec, gives |-> r.type]
  BY <1>1 DEF Sound
<1>6. r.decoders[r.version] # NoDecoder
  <2>1. r.decoders \in [Versions -> Decoder \cup {NoDecoder}]
    BY <1>2 DEF Registration
  <2>2. r.type \in Types /\ r.codec \in Codecs \cup {Bincode}
    BY <1>2 DEF Registration
  <2>3. [reads |-> r.type, codec |-> r.codec, gives |-> r.type] \in Decoder
    BY <2>2 DEF Decoder
  <2> QED
    BY <1>5, <2>3, RegistryAssumption
<1>7. ~Skipped(map, e)
  BY <1>1, <1>3, <1>4, <1>6 DEF Skipped
<1>8. CanDecode(map, e)
  BY <1>1, <1>4, <1>5, <1>6 DEF CanDecode, CanRead
<1>9. Decoded(map, e) = v
  <2>1. Decoded(map, e) = [type |-> v.type, data |-> v.data]
    BY <1>1, <1>4, <1>5 DEF Decoded
  <2> QED
    BY <2>1 DEF Value
<1> QED
  BY <1>7, <1>8, <1>9

(* A snapshot that could be serialized, and that holds values of the right
   types, deserializes under the same registry, whatever the size limit: the
   keys registered here have the values they had, an unregistered key is lost,
   and the scope chain is the same (snapshot.rs, serialize and deserialize). *)
THEOREM SnapshotRoundTrip ==
  ASSUME NEW map \in RegistryMap, Sound(map),
         NEW values \in Values, NEW chain \in Seq(Names), NEW snap,
         snap.values = values, snap.chain = chain,
         \A k \in LocalKeysOf(map) : values[k] = NoVal,
         \A k \in Keys : values[k] # NoVal /\ IsRegistered(map, k)
                           => IsValidValue(map, k, values[k]),
         Serialize(map, snap) # Failed
  PROVE  Deserialize(map, Serialize(map, snap)) =
           [kind   |-> "snapshot",
            values |-> [k \in Keys |-> IF IsRegistered(map, k) THEN values[k]
                                       ELSE NoVal],
            chain  |-> chain]
<1> DEFINE set  == {k \in Keys : values[k] # NoVal}
           wire == Serialize(map, snap)
<1>1. wire = [version |-> WireVersion,
              entries |-> {WireEntry(map, k, values[k]) : k \in set},
              chain   |-> chain]
  BY DEF Serialize
<1>2. Readable(wire)
  BY <1>1, WireAssumption DEF Readable, WireVersion
<1>3. ASSUME NEW k \in set, ~IsRegistered(map, k)
      PROVE  Skipped(map, WireEntry(map, k, values[k]))
  BY <1>3 DEF Skipped, WireEntry
<1>4. ASSUME NEW k \in set, IsRegistered(map, k)
      PROVE  /\ ~Skipped(map, WireEntry(map, k, values[k]))
             /\ CanDecode(map, WireEntry(map, k, values[k]))
             /\ Decoded(map, WireEntry(map, k, values[k])) = values[k]
  <2>1. values[k] \in Value
    BY WireAssumption DEF Values
  <2>2. k \notin LocalKeysOf(map)
    OBVIOUS
  <2>3. IsValidValue(map, k, values[k])
    BY <1>4
  <2> QED
    BY <2>1, <2>2, <2>3, EntryRoundTrip
<1>5. \A e \in Taken(map, wire) :
        \E k \in set : IsRegistered(map, k) /\ e = WireEntry(map, k, values[k])
  BY <1>1, <1>3 DEF Taken
<1>6. \A e \in Taken(map, wire) : CanDecode(map, e)
  BY <1>4, <1>5
<1>7. ASSUME NEW k \in Keys
      PROVE  ValueUnder(map, wire, k) =
               IF IsRegistered(map, k) THEN values[k] ELSE NoVal
  <2>1. \A e \in UnderKey(map, wire, k) :
          /\ k \in set
          /\ IsRegistered(map, k)
          /\ e = WireEntry(map, k, values[k])
    BY <1>5 DEF UnderKey, WireEntry
  <2>2. CASE k \in set /\ IsRegistered(map, k)
    <3>1. WireEntry(map, k, values[k]) \in wire.entries
      BY <1>1, <2>2
    <3>2. WireEntry(map, k, values[k]).key = k
      BY DEF WireEntry
    <3>3. WireEntry(map, k, values[k]) \in UnderKey(map, wire, k)
      BY <1>4, <2>2, <3>1, <3>2 DEF UnderKey, Taken
    <3>4. (CHOOSE e \in UnderKey(map, wire, k) : TRUE)
            = WireEntry(map, k, values[k])
      BY <2>1, <3>3
    <3> QED
      BY <1>4, <2>2, <3>3, <3>4 DEF ValueUnder
  <2>3. CASE ~(k \in set /\ IsRegistered(map, k))
    <3>1. UnderKey(map, wire, k) = {}
      BY <2>1, <2>3
    <3>2. k \notin set => values[k] = NoVal
      OBVIOUS
    <3> QED
      BY <2>3, <3>1, <3>2 DEF ValueUnder
  <2> QED
    BY <2>2, <2>3
<1>8. Deserialize(map, wire) =
        [kind   |-> "snapshot",
         values |-> [k \in Keys |-> ValueUnder(map, wire, k)],
         chain  |-> wire.chain]
  BY <1>2, <1>6 DEF Deserialize, Taken, UnderKey, ValueUnder
<1>9. [k \in Keys |-> ValueUnder(map, wire, k)] =
        [k \in Keys |-> IF IsRegistered(map, k) THEN values[k] ELSE NoVal]
  BY <1>7
<1>10. wire.chain = chain
  BY <1>1
<1> HIDE DEF set
<1> QED
  BY <1>8, <1>9, <1>10

=============================================================================
