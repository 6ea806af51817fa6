--------------------------- MODULE Actors_proofs ---------------------------
(***************************************************************************)
(* The safety of Actors, for any nodes, registries, threads and messages.  *)
(* The inductive invariant has four parts: the types; who polls what; what *)
(* the headers of a message are, at each point of its life, in terms of    *)
(* what its sender saw; and which code the values of each context come     *)
(* from.  At the end, Actors implements Requests.                          *)
(***************************************************************************)
EXTENDS Actors, ContextStore_proofs, Wire_proofs, FiniteSetTheorems

(* The values that a store shows are all of these codes. *)
Follows(s, codes) ==
  \A k \in Keys : GetValue(s, k) # NoVal => GetValue(s, k).data \in codes

(* The context that a sender with this registry captures when it sees this. *)
CarriedOf(map, seen) ==
  [kind   |-> "snapshot",
   values |-> [k \in Keys |-> IF k \in LocalKeysOf(map) THEN NoVal
                              ELSE seen.values[k]],
   chain  |-> seen.chain]

(* The header that a sender makes of it for another node. *)
SentBytes(map, seen) ==
  LET bytes == Serialize(map, CarriedOf(map, seen))
  IN  IF bytes = Failed THEN NoHeader ELSE bytes

(* The snapshot that a node makes of a header. *)
Unpacked(map, bytes) ==
  LET snap == IF bytes = NoHeader THEN Failed ELSE Deserialize(map, bytes)
  IN  IF snap = Failed THEN NoHeader ELSE snap

-----------------------------------------------------------------------------

(* The types, every store sound. *)
Typed ==
  /\ deployed \in Deployments
  /\ cell \in [Threads -> SoundStores]
  /\ polled \in [Threads -> Tasks \cup {NoTask}]
  /\ prev \in [Threads -> SoundStores \cup {NoStore}]
  /\ phase \in [Tasks -> {"unborn", "sent", "delivered", "running",
                          "suspended", "done", "rejected"}]
  /\ host \in [Tasks -> Nodes]
  /\ wire \in [Tasks -> WireContext \cup {NoHeader}]
  /\ snapshot \in [Tasks -> Snapshot \cup {NoHeader}]
  /\ held \in [Tasks -> SoundStores \cup {NoStore}]
  /\ sent \in [Tasks -> Sight \cup {NoHeader}]
  /\ past \in [Code -> SUBSET (Code \cup {Outside})]
  /\ mixed \subseteq Code

(* A running handler is polled by one thread, which has its store; no other
   handler is. *)
PollOK(w) ==
  polled[w] # NoTask =>
    /\ phase[polled[w]] = "running"
    /\ held[polled[w]] = NoStore
    /\ IsWrapped(polled[w]) => prev[w] # NoStore

Polls ==
  /\ \A w \in Threads : PollOK(w)
  /\ \A v, w \in Threads : polled[v] = polled[w] /\ polled[v] # NoTask => v = w
  /\ \A t \in Tasks : phase[t] = "running" => \E w \in Threads : polled[w] = t

(* A handler has a store of its own while it waits, if it was given a context. *)
HandlerOK(ph, snap, hld) ==
  hld # NoStore <=> ph \in {"delivered", "suspended"} /\ snap # NoHeader

(* Nothing is known of a message before it is sent and after it is handled. *)
BlankOK(ph, bytes, snap, seen) ==
  ph \in {"unborn", "done"} => bytes = NoHeader /\ snap = NoHeader /\ seen = NoHeader

(* A message in a process has its snapshot, and no bytes. *)
LocalOK(d, ph, n, bytes, snap, seen) ==
  ph \notin {"unborn", "done"} /\ seen # NoHeader /\ seen.node = n =>
    bytes = NoHeader /\ snap = CarriedOf(d.registry[n], seen)

Dropped(d, ph, n) == ph # "sent" /\ ~d.header[n]

(* A message between processes has the bytes that its sender made of what it saw,
   unless the transport has dropped them. *)
BytesOK(d, ph, n, bytes, seen) ==
  ph \notin {"unborn", "done"} /\ seen # NoHeader /\ seen.node # n =>
    /\ bytes = SentBytes(d.registry[seen.node], seen) \/ Dropped(d, ph, n)
    /\ SentBytes(d.registry[seen.node], seen) = NoHeader
         => d.policy[seen.node] # "Reject"

(* One from outside has bytes of another process, unless they were dropped. *)
OutsideOK(d, ph, n, bytes, seen) ==
  ph \notin {"unborn", "done"} /\ seen = NoHeader =>
    /\ bytes # NoHeader \/ Dropped(d, ph, n)
    /\ bytes # NoHeader => \A e \in bytes.entries : e.bytes.data = Outside

(* Where it arrives, its snapshot is what its bytes decode to. *)
SnapshotOK(d, ph, n, bytes, snap, seen) ==
  ph \notin {"unborn", "done"} /\ (seen = NoHeader \/ seen.node # n) =>
    /\ ph = "sent" => snap = NoHeader
    /\ ph # "sent" => /\ snap = Unpacked(d.registry[n], bytes)
                      /\ ~d.header[n] => bytes = NoHeader

(* A strict node runs no handler whose bytes it could not decode. *)
StrictOK(d, ph, n, bytes, snap) ==
  ph \in {"delivered", "running", "suspended"} /\ snap = NoHeader /\ bytes # NoHeader
    => d.policy[n] # "Reject"

(* The handler starts in the scope of the hop, in the snapshot. *)
HeldOK(d, ph, n, snap, hld) ==
  ph = "delivered" /\ snap # NoHeader => hld = Wrapped(d.registry[n], n, snap)

MailOK(d, ph, n, bytes, snap, seen, hld) ==
  /\ HandlerOK(ph, snap, hld)
  /\ BlankOK(ph, bytes, snap, seen)
  /\ LocalOK(d, ph, n, bytes, snap, seen)
  /\ BytesOK(d, ph, n, bytes, seen)
  /\ OutsideOK(d, ph, n, bytes, seen)
  /\ SnapshotOK(d, ph, n, bytes, snap, seen)
  /\ StrictOK(d, ph, n, bytes, snap)
  /\ HeldOK(d, ph, n, snap, hld)

Mail ==
  \A t \in Tasks : MailOK(deployed, phase[t], host[t], wire[t], snapshot[t], sent[t], held[t])

(* What is on its way, or waits, follows these codes. *)
BytesFollow(bytes, codes) ==
  bytes # NoHeader => \A e \in bytes.entries : e.bytes.data \in codes

SnapshotFollows(snap, codes) ==
  snap # NoHeader =>
    \A k \in Keys : snap.values[k] # NoVal => snap.values[k].data \in codes

TaskFollows(t, ph, bytes, snap, hld, codes) ==
  /\ BytesFollow(bytes, codes)
  /\ SnapshotFollows(snap, codes)
  /\ ph \in {"delivered", "suspended"} /\ snap # NoHeader
       => Follows(hld, codes \cup {t})

(* The context of a thread, and of the handler that it polls, follow theirs. *)
ThreadFollows(w) ==
  /\ polled[w] = NoTask /\ w \notin mixed => Follows(cell[w], past[w] \cup {w})
  /\ polled[w] # NoTask /\ IsWrapped(polled[w]) =>
       /\ w \notin mixed => Follows(prev[w], past[w] \cup {w})
       /\ polled[w] \notin mixed =>
            Follows(cell[w], past[polled[w]] \cup {polled[w]})
  /\ polled[w] # NoTask /\ ~IsWrapped(polled[w]) =>
       w \in mixed /\ polled[w] \in mixed

Causal ==
  /\ \A t \in Tasks \ mixed :
       TaskFollows(t, phase[t], wire[t], snapshot[t], held[t], past[t])
  /\ \A w \in Threads : ThreadFollows(w)

IInv == Typed /\ Polls /\ Mail /\ Causal

-----------------------------------------------------------------------------
(* Encoding and decoding *)

(* The bytes of a snapshot, if all of it can be written. *)
BytesOf(map, snap) ==
  [version |-> WireVersion,
   entries |-> {WireEntry(map, k, snap.values[k]) :
                  k \in {k \in Keys : snap.values[k] # NoVal}},
   chain   |-> snap.chain]

(* What serialize returns, unless it fails, is a wire context. *)
LEMMA SerializeType ==
  ASSUME NEW map \in RegistryMap, NEW snap \in Snapshot
  PROVE  /\ BytesOf(map, snap) \in WireContext
         /\ Serialize(map, snap) # Failed => Serialize(map, snap) = BytesOf(map, snap)
         /\ Serialize(map, snap) = Failed =>
              \/ \E k \in Keys : /\ snap.values[k] # NoVal
                                 /\ ~CanWrite(map, k, snap.values[k])
              \/ ~Fits(Size(BytesOf(map, snap)))
<1> DEFINE set == {k \in Keys : snap.values[k] # NoVal}
           entries == {WireEntry(map, k, snap.values[k]) : k \in set}
           bytes == BytesOf(map, snap)
<1>1. bytes = [version |-> WireVersion, entries |-> entries, chain |-> snap.chain]
  BY DEF BytesOf
<1>2. snap.values \in Values /\ snap.chain \in Seq(Names)
  BY DEF Snapshot
<1>3. ASSUME NEW k \in set  PROVE WireEntry(map, k, snap.values[k]) \in Entry
  <2> DEFINE v == snap.values[k]
  <2>1. v \in Value
    BY <1>2, <1>3, WireAssumption DEF Values
  <2>2. v.type \in Types /\ v.data \in Data
    BY <2>1 DEF Value
  <2>3. CodecOf(map, k) \in Codecs \cup {Bincode} /\ KeyVersion(map, k) \in Versions
    BY <1>3, RegistryAssumption
    DEF CodecOf, KeyVersion, RegistryMap, Registration, IsRegistered
  <2> QED
    BY <1>3, <2>2, <2>3 DEF WireEntry, Entry, Bytes, Format
<1>4. entries \subseteq Entry
  BY <1>3
<1>5. WireVersion \in Nat
  BY DEF WireVersion
<1>6. Serialize(map, snap) =
        IF (\A k \in set : CanWrite(map, k, snap.values[k])) /\ Fits(Size(bytes))
        THEN bytes ELSE Failed
  BY DEF Serialize, BytesOf
<1> HIDE DEF entries, bytes
<1>7. bytes \in WireContext
  BY <1>1, <1>2, <1>4, <1>5 DEF WireContext
<1>8. bytes # Failed
  BY <1>7, WireAssumption
<1>9. CASE (\A k \in set : CanWrite(map, k, snap.values[k])) /\ Fits(Size(bytes))
  BY <1>6, <1>7, <1>8, <1>9 DEF bytes
<1>10. CASE ~ ((\A k \in set : CanWrite(map, k, snap.values[k])) /\ Fits(Size(bytes)))
  BY <1>6, <1>7, <1>10 DEF bytes
<1> QED
  BY <1>9, <1>10

(* What a decoder returns is a value. *)
LEMMA DecodedType ==
  ASSUME NEW map \in RegistryMap, NEW wired \in WireContext,
         NEW e \in Taken(map, wired), CanDecode(map, e)
  PROVE  /\ e \in Entry /\ e \in wired.entries
         /\ IsRegistered(map, e.key)
         /\ Decoded(map, e) \in Value
         /\ Decoded(map, e).data = e.bytes.data
<1>1. e \in wired.entries /\ ~Skipped(map, e)
  BY DEF Taken
<1>2. e \in Entry
  BY <1>1 DEF WireContext
<1>3. e.key \in Keys /\ e.version \in Versions /\ e.bytes.data \in Data
  BY <1>2 DEF Entry, Bytes
<1>4. IsRegistered(map, e.key)
  BY <1>1 DEF Skipped
<1>5. map[e.key].decoders[e.version] \in Decoder
  BY <1>3, <1>4 DEF RegistryMap, IsRegistered, Registration, CanDecode
<1>6. map[e.key].decoders[e.version].gives \in Types
  BY <1>5 DEF Decoder
<1> QED
  BY <1>1, <1>2, <1>3, <1>4, <1>6 DEF Decoded, Value

(* What deserialize returns, unless it fails, is a snapshot, with the chain of
   the bytes and with the data that one of their entries has under the key. *)
LEMMA DeserializeType ==
  ASSUME NEW map \in RegistryMap, NEW wired \in WireContext,
         Deserialize(map, wired) # Failed
  PROVE  /\ Deserialize(map, wired) \in Snapshot
         /\ \A k \in Keys : Deserialize(map, wired).values[k] # NoVal =>
              \E e \in wired.entries :
                Deserialize(map, wired).values[k].data = e.bytes.data
<1> DEFINE snap == Deserialize(map, wired)
<1>1. /\ Readable(wired)
      /\ \A e \in Taken(map, wired) : CanDecode(map, e)
      /\ snap = [kind   |-> "snapshot",
                 values |-> [k \in Keys |-> ValueUnder(map, wired, k)],
                 chain  |-> wired.chain]
  BY DeserializeCases
<1>2. ASSUME NEW k \in Keys, ValueUnder(map, wired, k) # NoVal
      PROVE  /\ ValueUnder(map, wired, k) \in Value
             /\ \E e \in wired.entries : ValueUnder(map, wired, k).data = e.bytes.data
  <2>1. PICK e \in Taken(map, wired) :
          e.key = k /\ CanDecode(map, e) /\ ValueUnder(map, wired, k) = Decoded(map, e)
    BY <1>1, <1>2, ValueComesFromAnEntry
  <2> QED
    BY <2>1, DecodedType
<1>3. wired.chain \in Seq(Names)
  BY <1>1 DEF Readable, WireContext
<1>4. [k \in Keys |-> ValueUnder(map, wired, k)] \in Values
  BY <1>2, WireAssumption DEF Values
<1> HIDE DEF snap
<1>5. snap \in Snapshot
  BY <1>1, <1>3, <1>4 DEF Snapshot
<1>6. \A k \in Keys : snap.values[k] = ValueUnder(map, wired, k)
  BY <1>1
<1> QED
  BY <1>2, <1>5, <1>6 DEF snap

(* A node makes a snapshot of a header, or nothing. *)
LEMMA UnpackedType ==
  ASSUME NEW map \in RegistryMap, NEW bytes \in WireContext \cup {NoHeader}
  PROVE  /\ Unpacked(map, bytes) \in Snapshot \cup {NoHeader}
         /\ Unpacked(map, bytes) # NoHeader =>
              /\ bytes \in WireContext
              /\ Deserialize(map, bytes) # Failed
              /\ Unpacked(map, bytes) = Deserialize(map, bytes)
         /\ bytes # NoHeader /\ Unpacked(map, bytes) = NoHeader
              => Deserialize(map, bytes) = Failed
<1>1. CASE bytes = NoHeader
  BY <1>1 DEF Unpacked
<1>2. CASE bytes # NoHeader
  <2>1. bytes \in WireContext
    BY <1>2
  <2>2. CASE Deserialize(map, bytes) = Failed
    BY <1>2, <2>2 DEF Unpacked
  <2>3. CASE Deserialize(map, bytes) # Failed
    <3>1. Deserialize(map, bytes) \in Snapshot
      BY <2>1, <2>3, DeserializeType
    <3>2. Deserialize(map, bytes) # NoHeader
      BY <3>1, ActorsAssumption
    <3>3. Unpacked(map, bytes) = Deserialize(map, bytes)
      BY <1>2, <2>3 DEF Unpacked
    <3> QED
      BY <2>1, <2>3, <3>1, <3>2, <3>3
  <2> QED
    BY <2>2, <2>3
<1> QED
  BY <1>1, <1>2

(* bytes_to_snapshot is this, with the node's registry. *)
LEMMA UnpackedIs ==
  ASSUME NEW n, NEW bytes
  PROVE  BytesToSnapshot(n, bytes) = Unpacked(deployed.registry[n], bytes)
  BY DEF BytesToSnapshot, Unpacked, Map

-----------------------------------------------------------------------------
(* From the sender to the handler *)

(* What a sender takes along is a snapshot. *)
LEMMA CarriedType ==
  ASSUME NEW map, NEW seen \in Sight
  PROVE  /\ CarriedOf(map, seen) \in Snapshot
         /\ CarriedOf(map, seen) # NoHeader
         /\ seen # NoHeader
<1>1. seen.values \in Values /\ seen.chain \in Seq(Names)
  BY DEF Sight
<1>2. [k \in Keys |-> IF k \in LocalKeysOf(map) THEN NoVal ELSE seen.values[k]]
        \in Values
  BY <1>1 DEF Values
<1>3. CarriedOf(map, seen) \in Snapshot
  BY <1>1, <1>2 DEF CarriedOf, Snapshot
<1> QED
  BY <1>3, ActorsAssumption

(* A thread shows a sight, and what is captured is what it takes along of it:
   flattening the store and looking its keys up agree. *)
LEMMA CaptureIsCarried ==
  ASSUME NEW w \in Threads, cell[w] \in Store, NodeOf[w] \in Nodes
  PROVE  /\ Seen(w) \in Sight
         /\ Seen(w).node = NodeOf[w]
         /\ Capture(w) = CarriedOf(deployed.registry[NodeOf[w]], Seen(w))
<1> DEFINE s == cell[w]
           n == NodeOf[w]
           map == deployed.registry[n]
<1>1. /\ CollectValues(s) = [k \in Keys |-> GetValue(s, k)]
      /\ ScopeChain(s) \in Seq(Names)
      /\ \A k \in Keys : GetValue(s, k) \in Vals \cup {NoVal}
  BY CollectValuesIsGetValue, ScopeChainType, GetValueType
<1>2. Seen(w) = [values |-> [k \in Keys |-> GetValue(s, k)],
                 chain  |-> ScopeChain(s), node |-> n]
  BY DEF Seen
<1>3. Capture(w) =
        [kind   |-> "snapshot",
         values |-> [k \in Keys |-> IF k \in LocalKeysOf(map) THEN NoVal
                                    ELSE CollectValues(s)[k]],
         chain  |-> ScopeChain(s)]
  BY DEF Capture, Captured, CaptureOf, Map
<1> HIDE DEF s, n, map
<1>4. [k \in Keys |-> GetValue(s, k)] \in Values
  BY <1>1 DEF Values
<1>5. Seen(w) \in Sight
  BY <1>1, <1>2, <1>4 DEF Sight, n
<1>6. \A k \in Keys : CollectValues(s)[k] = Seen(w).values[k]
  <2>1. Seen(w).values = [k \in Keys |-> GetValue(s, k)]
    BY <1>2
  <2> QED
    BY <1>1, <2>1
<1>7. Capture(w) = CarriedOf(map, Seen(w))
  BY <1>2, <1>3, <1>6 DEF CarriedOf
<1> QED
  BY <1>2, <1>5, <1>7 DEF n, map

(* The bytes that are sent are what serialize makes of the carried snapshot. *)
LEMMA SentBytesType ==
  ASSUME NEW map \in RegistryMap, NEW seen \in Sight
  PROVE  /\ SentBytes(map, seen) \in WireContext \cup {NoHeader}
         /\ SentBytes(map, seen) # NoHeader =>
              /\ Serialize(map, CarriedOf(map, seen)) # Failed
              /\ SentBytes(map, seen) = Serialize(map, CarriedOf(map, seen))
         /\ SentBytes(map, seen) = NoHeader =>
              Serialize(map, CarriedOf(map, seen)) = Failed
<1> DEFINE snap == CarriedOf(map, seen)
<1>1. snap \in Snapshot
  BY CarriedType
<1> HIDE DEF snap
<1>2. CASE Serialize(map, snap) = Failed
  BY <1>2 DEF SentBytes, snap
<1>3. CASE Serialize(map, snap) # Failed
  <2>1. Serialize(map, snap) = BytesOf(map, snap) /\ BytesOf(map, snap) \in WireContext
    BY <1>1, <1>3, SerializeType
  <2>2. Serialize(map, snap) # NoHeader
    BY <2>1, ActorsAssumption
  <2>3. SentBytes(map, seen) = Serialize(map, snap)
    BY <1>3 DEF SentBytes, snap
  <2> QED
    BY <1>3, <2>1, <2>2, <2>3 DEF snap
<1> QED
  BY <1>2, <1>3

(* The keys that a sender takes along. *)
KeysOf(map, seen) == {k \in Keys \ LocalKeysOf(map) : seen.values[k] # NoVal}

EntriesOf(map, seen) == {WireEntry(map, k, seen.values[k]) : k \in KeysOf(map, seen)}

(* What is serialized has one entry for each of them. *)
LEMMA SerializedEntries ==
  ASSUME NEW map \in RegistryMap, NEW seen \in Sight
  PROVE  /\ {k \in Keys : CarriedOf(map, seen).values[k] # NoVal} = KeysOf(map, seen)
         /\ \A k \in KeysOf(map, seen) :
              CarriedOf(map, seen).values[k] = seen.values[k]
         /\ {WireEntry(map, k, CarriedOf(map, seen).values[k]) :
               k \in {k \in Keys : CarriedOf(map, seen).values[k] # NoVal}}
              = EntriesOf(map, seen)
         /\ CarriedOf(map, seen).chain = seen.chain
<1> DEFINE snap == CarriedOf(map, seen)
<1>1. /\ \A k \in Keys : snap.values[k] = IF k \in LocalKeysOf(map) THEN NoVal
                                          ELSE seen.values[k]
      /\ snap.chain = seen.chain
  BY DEF CarriedOf
<1> HIDE DEF snap
<1>2. {k \in Keys : snap.values[k] # NoVal} = KeysOf(map, seen)
  BY <1>1 DEF KeysOf
<1>3. \A k \in KeysOf(map, seen) : snap.values[k] = seen.values[k]
  BY <1>1 DEF KeysOf
<1>4. {WireEntry(map, k, snap.values[k]) : k \in {k \in Keys : snap.values[k] # NoVal}}
        = EntriesOf(map, seen)
  BY <1>2, <1>3 DEF EntriesOf
<1> QED
  BY <1>1, <1>2, <1>3, <1>4 DEF snap

(* There are as many entries as keys. *)
LEMMA EntriesCount ==
  ASSUME NEW map, NEW seen
  PROVE  Cardinality(EntriesOf(map, seen)) = Cardinality(KeysOf(map, seen))
<1> DEFINE S == KeysOf(map, seen)
           T == EntriesOf(map, seen)
           f == [k \in S |-> WireEntry(map, k, seen.values[k])]
<1>1. IsFiniteSet(S)
  <2>1. S \in SUBSET Keys
    BY DEF KeysOf
  <2> QED
    BY <2>1, FS_Subset, ActorsAssumption
<1>2. f \in [S -> T]
  BY DEF EntriesOf
<1>3. \A k \in S : f[k].key = k
  BY DEF WireEntry
<1>4. \A x, y \in S : f[x] = f[y] => x = y
  BY <1>3
<1>5. \A e \in T : \E k \in S : f[k] = e
  BY DEF EntriesOf
<1> HIDE DEF S, T, f
<1>6. DOMAIN f = S
  BY <1>2
<1>7. f \in Bijection(S, T)
  BY <1>2, <1>4, <1>5, <1>6 DEF Bijection, Injection, Surjection, IsInjective
<1>8. ExistsBijection(S, T)
  BY <1>7 DEF ExistsBijection
<1> QED
  BY <1>1, <1>8, FS_Bijection DEF S, T

(* Why a sender sends no bytes: what it takes along is too large, or one of the
   values cannot be written. *)
LEMMA WhyNotWritten ==
  ASSUME NEW map \in RegistryMap, NEW seen \in Sight,
         Serialize(map, CarriedOf(map, seen)) = Failed
  PROVE  \/ /\ MaxContextSize > 0
            /\ Cardinality(KeysOf(map, seen)) + Len(seen.chain) > MaxContextSize
         \/ \E k \in KeysOf(map, seen) : ~CanWrite(map, k, seen.values[k])
<1> DEFINE snap == CarriedOf(map, seen)
           bytes == BytesOf(map, snap)
<1>1. snap \in Snapshot
  BY CarriedType
<1>2. bytes.entries = EntriesOf(map, seen) /\ bytes.chain = seen.chain
  BY SerializedEntries DEF BytesOf
<1>3. ASSUME NEW k \in Keys, snap.values[k] # NoVal
      PROVE  k \in KeysOf(map, seen) /\ snap.values[k] = seen.values[k]
  BY <1>3, SerializedEntries
<1> HIDE DEF snap
<1>4. \/ \E k \in Keys : snap.values[k] # NoVal /\ ~CanWrite(map, k, snap.values[k])
      \/ ~Fits(Size(bytes))
  BY <1>1, SerializeType DEF snap
<1>5. CASE \E k \in Keys : snap.values[k] # NoVal /\ ~CanWrite(map, k, snap.values[k])
  BY <1>3, <1>5
<1>6. CASE ~Fits(Size(bytes))
  <2> DEFINE c == Cardinality(KeysOf(map, seen))
             l == Len(seen.chain)
  <2>1. Size(bytes) = c + l
    BY <1>2, EntriesCount DEF Size
  <2>2. c \in Nat /\ l \in Nat /\ MaxContextSize \in Nat
    <3>1. KeysOf(map, seen) \in SUBSET Keys
      BY DEF KeysOf
    <3>2. IsFiniteSet(KeysOf(map, seen))
      BY <3>1, FS_Subset, ActorsAssumption
    <3>3. seen.chain \in Seq(Names)
      BY DEF Sight
    <3> QED
      BY <3>2, <3>3, FS_CardinalityType, WireAssumption
  <2> HIDE DEF c, l
  <2>3. ~Fits(c + l)
    BY <1>6, <2>1
  <2>4. MaxContextSize > 0 /\ c + l > MaxContextSize
    BY <2>2, <2>3 DEF Fits
  <2> QED
    BY <2>4 DEF c, l
<1> QED
  BY <1>4, <1>5, <1>6

(* The bytes that a sender sends. *)
LEMMA WrittenIs ==
  ASSUME NEW map \in RegistryMap, NEW seen \in Sight,
         Serialize(map, CarriedOf(map, seen)) # Failed
  PROVE  LET bytes == Serialize(map, CarriedOf(map, seen))
         IN  /\ bytes \in WireContext
             /\ bytes.entries = EntriesOf(map, seen)
             /\ bytes.chain = seen.chain
             /\ Readable(bytes)
<1> DEFINE snap == CarriedOf(map, seen)
           bytes == Serialize(map, snap)
<1>1. snap \in Snapshot
  BY CarriedType
<1>2. /\ BytesOf(map, snap).entries = EntriesOf(map, seen)
      /\ BytesOf(map, snap).chain = seen.chain
      /\ BytesOf(map, snap).version = 2
  BY SerializedEntries DEF BytesOf, WireVersion
<1> HIDE DEF snap
<1>3. bytes \in WireContext /\ bytes = BytesOf(map, snap)
  BY <1>1, SerializeType DEF snap
<1>4. seen.chain # NoChain
  BY WireAssumption DEF Sight
<1> HIDE DEF bytes
<1>5. Readable(bytes)
  BY <1>2, <1>3, <1>4 DEF Readable
<1> QED
  BY <1>2, <1>3, <1>5 DEF bytes, snap

(* A key of a registry is skipped if it is unknown or local-only, and no other. *)
LEMMA SkippedIs ==
  ASSUME NEW map \in RegistryMap, Sound(map), NEW e, e.key \in Keys
  PROVE  Skipped(map, e) <=> ~IsRegistered(map, e.key) \/ e.key \in LocalKeysOf(map)
<1> DEFINE k == e.key
           r == map[k]
<1>1. CASE ~IsRegistered(map, k)
  BY <1>1 DEF Skipped
<1>2. CASE IsRegistered(map, k) /\ r.local_only
  <2>1. \A v \in Versions : r.decoders[v] = NoDecoder
    BY <1>2 DEF Sound
  <2> QED
    BY <1>2, <2>1 DEF Skipped, LocalKeysOf
<1>3. CASE IsRegistered(map, k) /\ ~r.local_only
  <2>1. r \in Registration
    BY <1>3 DEF RegistryMap, IsRegistered
  <2>2. /\ r.version \in Versions
        /\ r.type \in Types /\ r.codec \in Codecs \cup {Bincode}
    BY <2>1 DEF Registration
  <2>3. [reads |-> r.type, codec |-> r.codec, gives |-> r.type] \in Decoder
    BY <2>2 DEF Decoder
  <2>4. r.decoders[r.version] = [reads |-> r.type, codec |-> r.codec, gives |-> r.type]
    BY <1>3 DEF Sound
  <2>5. r.decoders[r.version] # NoDecoder
    BY <2>3, <2>4, RegistryAssumption
  <2> QED
    BY <1>3, <2>2, <2>5 DEF Skipped, LocalKeysOf
<1> QED
  BY <1>1, <1>2, <1>3

(* Why a node cannot read what a sender has sent: one of the values that it
   knows the key of was written in a form that it does not decode. *)
LEMMA WhyNotRead ==
  ASSUME NEW from \in RegistryMap, NEW to \in RegistryMap, Sound(to),
         NEW seen \in Sight,
         Serialize(from, CarriedOf(from, seen)) # Failed,
         Deserialize(to, Serialize(from, CarriedOf(from, seen))) = Failed
  PROVE  \E k \in KeysOf(from, seen) :
           /\ IsRegistered(to, k) /\ k \notin LocalKeysOf(to)
           /\ ~CanDecode(to, WireEntry(from, k, seen.values[k]))
<1> DEFINE bytes == Serialize(from, CarriedOf(from, seen))
<1>1. /\ bytes \in WireContext /\ Readable(bytes)
      /\ bytes.entries = EntriesOf(from, seen)
  BY WrittenIs
<1> HIDE DEF bytes
<1>2. PICK e \in Taken(to, bytes) : ~CanDecode(to, e)
  <2> SUFFICES ASSUME \A e \in Taken(to, bytes) : CanDecode(to, e)
               PROVE  FALSE
    OBVIOUS
  <2>1. Deserialize(to, bytes) =
          [kind   |-> "snapshot",
           values |-> [k \in Keys |-> ValueUnder(to, bytes, k)],
           chain  |-> bytes.chain]
    BY <1>1 DEF Deserialize, Taken, UnderKey, ValueUnder
  <2>2. \A k \in Keys : ValueUnder(to, bytes, k) \in Vals \cup {NoVal}
    <3> TAKE k \in Keys
    <3>1. CASE ValueUnder(to, bytes, k) # NoVal
      <4>1. PICK e \in Taken(to, bytes) :
              e.key = k /\ CanDecode(to, e) /\ ValueUnder(to, bytes, k) = Decoded(to, e)
        BY <3>1, ValueComesFromAnEntry
      <4> QED
        BY <1>1, <4>1, DecodedType, WireAssumption
    <3> QED
      BY <3>1
  <2>3. bytes.chain \in Seq(Names)
    BY <1>1 DEF Readable, WireContext
  <2>4. [k \in Keys |-> ValueUnder(to, bytes, k)] \in Values
    BY <2>2 DEF Values
  <2>5. Deserialize(to, bytes) \in Snapshot
    BY <2>1, <2>3, <2>4 DEF Snapshot
  <2> QED
    BY <2>5, WireAssumption DEF bytes
<1>3. e \in EntriesOf(from, seen) /\ ~Skipped(to, e)
  BY <1>1, <1>2 DEF Taken
<1>4. PICK k \in KeysOf(from, seen) : e = WireEntry(from, k, seen.values[k])
  BY <1>3 DEF EntriesOf
<1>5. e.key = k /\ k \in Keys
  BY <1>4 DEF WireEntry, KeysOf
<1>6. IsRegistered(to, k) /\ k \notin LocalKeysOf(to)
  BY <1>3, <1>5, SkippedIs
<1> QED
  BY <1>2, <1>4, <1>6

(* What gets from one node to another over the wire: of every key that both
   propagate, the data, as the type that the key has there. *)
LEMMA TransferReads ==
  ASSUME NEW from \in RegistryMap, NEW to \in RegistryMap, Sound(to),
         NEW seen \in Sight,
         Serialize(from, CarriedOf(from, seen)) # Failed,
         Deserialize(to, Serialize(from, CarriedOf(from, seen))) # Failed
  PROVE  LET snap == Deserialize(to, Serialize(from, CarriedOf(from, seen)))
         IN  /\ snap.chain = seen.chain
             /\ \A k \in Keys : snap.values[k] =
                  IF seen.values[k] = NoVal \/ k \in LocalKeysOf(from) \cup LocalKeysOf(to)
                     \/ ~IsRegistered(to, k)
                  THEN NoVal
                  ELSE [seen.values[k] EXCEPT !.type = to[k].type]
<1> DEFINE bytes == Serialize(from, CarriedOf(from, seen))
           snap == Deserialize(to, bytes)
<1>1. /\ bytes \in WireContext /\ bytes.chain = seen.chain
      /\ bytes.entries = EntriesOf(from, seen)
  BY WrittenIs
<1> HIDE DEF bytes
<1>2. /\ \A e \in Taken(to, bytes) : CanDecode(to, e)
      /\ snap = [kind   |-> "snapshot",
                 values |-> [k \in Keys |-> ValueUnder(to, bytes, k)],
                 chain  |-> bytes.chain]
  BY DeserializeCases DEF bytes
<1>3. snap.chain = seen.chain /\ \A k \in Keys : snap.values[k] = ValueUnder(to, bytes, k)
  BY <1>1, <1>2
<1> HIDE DEF snap
<1>4. ASSUME NEW k \in Keys
      PROVE  snap.values[k] =
               IF seen.values[k] = NoVal \/ k \in LocalKeysOf(from) \cup LocalKeysOf(to)
                  \/ ~IsRegistered(to, k)
               THEN NoVal
               ELSE [seen.values[k] EXCEPT !.type = to[k].type]
  <2> DEFINE e == WireEntry(from, k, seen.values[k])
             mine == UnderKey(to, bytes, k)
             there == ~IsRegistered(to, k) \/ k \in LocalKeysOf(to)
  <2>1. e.key = k /\ e.bytes.data = seen.values[k].data
    BY DEF WireEntry
  <2>2. Skipped(to, e) <=> there
    <3> HIDE DEF e
    <3> QED
      BY <2>1, SkippedIs
  <2>3. \A x \in mine : k \in KeysOf(from, seen) /\ x = e /\ ~Skipped(to, x)
    BY <1>1 DEF UnderKey, Taken, EntriesOf, WireEntry
  <2>4. CASE k \in KeysOf(from, seen) /\ ~there
    <3>1. e \in Taken(to, bytes)
      BY <1>1, <2>2, <2>4 DEF Taken, EntriesOf
    <3>2. e \in mine
      BY <2>1, <3>1 DEF UnderKey
    <3>3. (CHOOSE x \in mine : TRUE) = e
      BY <2>3, <3>2
    <3>4. snap.values[k] = Decoded(to, e)
      BY <1>3, <3>2, <3>3 DEF ValueUnder
    <3>5. CanDecode(to, e) /\ e \in Entry
      BY <1>1, <1>2, <3>1, DecodedType
    <3>6. to[k].decoders[e.version].gives = to[k].type
      <4> HIDE DEF e
      <4>1. e.version \in Versions /\ to[k].decoders[e.version] # NoDecoder
        BY <2>1, <3>5 DEF Entry, CanDecode
      <4> QED
        BY <2>4, <4>1 DEF Sound
    <3>7. Decoded(to, e) = [type |-> to[k].type, data |-> seen.values[k].data]
      <4> HIDE DEF e
      <4> QED
        BY <2>1, <3>6 DEF Decoded
    <3>8. seen.values[k] \in Value /\ seen.values[k] # NoVal
      BY <2>4, WireAssumption DEF Sight, Values, KeysOf
    <3>9. [seen.values[k] EXCEPT !.type = to[k].type]
            = [type |-> to[k].type, data |-> seen.values[k].data]
      BY <3>8 DEF Value
    <3>10. k \notin LocalKeysOf(from) \cup LocalKeysOf(to) /\ IsRegistered(to, k)
      BY <2>4 DEF KeysOf
    <3> QED
      BY <3>4, <3>7, <3>8, <3>9, <3>10
  <2>5. CASE ~ (k \in KeysOf(from, seen) /\ ~there)
    <3>1. mine = {}
      BY <2>2, <2>3, <2>5
    <3>2. snap.values[k] = NoVal
      BY <1>3, <3>1 DEF ValueUnder
    <3>3. \/ seen.values[k] = NoVal
          \/ k \in LocalKeysOf(from) \cup LocalKeysOf(to)
          \/ ~IsRegistered(to, k)
      BY <2>5 DEF KeysOf
    <3> QED
      BY <3>2, <3>3
  <2> QED
    BY <2>4, <2>5
<1> QED
  BY <1>3, <1>4 DEF snap, bytes

(* The newest entries of a chain are what the limit of scope_chain leaves. *)
LEMMA NewestIsLimited ==
  ASSUME NEW chain \in Seq(Names)
  PROVE  NewestOf(chain) = Limited(chain)
<1>1. Len(chain) \in Nat /\ MaxChainLen \in Nat
  BY ContextStoreAssumption
<1> QED
  BY <1>1 DEF NewestOf, Limited

(* The store of a wrapped handler is sound; it shows the valid values of the
   snapshot that are not local-only, and its chain with the hop at the end. *)
LEMMA WrappedReads ==
  ASSUME NEW map, NEW n \in Nodes, NEW snap \in Snapshot
  PROVE  /\ SoundStore(Wrapped(map, n, snap))
         /\ \A k \in Keys : GetValue(Wrapped(map, n, snap), k) =
              IF snap.values[k] \in Valid(map)[k] /\ k \notin LocalKeysOf(map)
              THEN snap.values[k] ELSE NoVal
         /\ ScopeChain(Wrapped(map, n, snap)) = NewestOf(Append(snap.chain, n))
<1> DEFINE local == LocalKeysOf(map)
           valid == Valid(map)
           cached == CachedKeysOf(map)
           s == StoreFromSnapshot(snap, local, valid)
           p == PushScope(s, n, cached)
           there == StoreFromSnapshot(CaptureOf(p, local), local, valid)
<1>1. Wrapped(map, n, snap) = there
  BY DEF Wrapped, Restored, Captured, Pushed
<1>2. n \in Names /\ snap.chain \in Seq(Names) /\ snap.values \in Values
  BY ActorsAssumption DEF Snapshot
<1> HIDE DEF local, valid, cached
<1>3. /\ SoundStore(s) /\ s.cur.depth = 1
      /\ \A k \in Keys : GetValue(s, k) =
           IF snap.values[k] \in valid[k] /\ k \notin local
           THEN snap.values[k] ELSE NoVal
      /\ FullChain(s) = snap.chain
  BY StoreFromSnapshotProperties
<1> HIDE DEF s
<1>4. s \in Store /\ WellLinked(s) /\ s.cur.depth + 1 <= MaxScopeDepth + 1
  BY <1>3, ContextStoreAssumption DEF SoundStore
<1>5. /\ \A k \in Keys : GetValue(p, k) = GetValue(s, k)
      /\ FullChain(p) = Append(snap.chain, n)
  BY <1>2, <1>3, <1>4, PushedReads
<1>6. SoundStore(p)
  BY <1>2, <1>3, SoundPush
<1> HIDE DEF p
<1>7. p \in Store
  BY <1>6 DEF SoundStore
<1>8. /\ \A k \in Keys : GetValue(there, k) =
           IF k \notin local /\ GetValue(p, k) \in valid[k] THEN GetValue(p, k) ELSE NoVal
      /\ ScopeChain(there) = ScopeChain(p)
  BY <1>6, HopReads
<1>9. CaptureOf(p, local) \in Snapshot
  BY <1>7, CaptureType
<1>10. SoundStore(there)
  <2> DEFINE again == CaptureOf(p, local)
  <2> HIDE DEF again
  <2> QED
    BY <1>9, StoreFromSnapshotProperties DEF again
<1>11. ScopeChain(p) = NewestOf(Append(snap.chain, n))
  BY <1>2, <1>5, <1>7, ScopeChainType, FullChainType, NewestIsLimited
<1> HIDE DEF there
<1>12. \A k \in Keys : GetValue(there, k) =
         IF snap.values[k] \in valid[k] /\ k \notin local THEN snap.values[k] ELSE NoVal
  <2> TAKE k \in Keys
  <2>1. GetValue(there, k) = IF k \notin local /\ GetValue(s, k) \in valid[k]
                             THEN GetValue(s, k) ELSE NoVal
    BY <1>5, <1>8
  <2>2. GetValue(s, k) = IF snap.values[k] \in valid[k] /\ k \notin local
                         THEN snap.values[k] ELSE NoVal
    BY <1>3
  <2> QED
    BY <2>1, <2>2
<1> QED
  BY <1>1, <1>8, <1>10, <1>11, <1>12 DEF local, valid

-----------------------------------------------------------------------------
(* Types *)

(* The registries of a deployment are registries, and sound. *)
LEMMA Deployed ==
  ASSUME NEW d \in Deployments, NEW n \in Nodes
  PROVE  d.registry[n] \in RegistryMap /\ Sound(d.registry[n])
<1>1. d \in Deployment
  BY ActorsAssumption
<1> QED
  BY <1>1, ActorsAssumption DEF Deployment

(* The code that runs on a thread has a name of its own. *)
LEMMA RunningType ==
  ASSUME Typed, NEW w \in Threads
  PROVE  /\ Running(w) \in Code /\ Running(w) \in Data
         /\ polled[w] = NoTask \/ polled[w] \in Tasks
         /\ NodeOf[w] \in Nodes
<1>1. polled[w] \in Tasks \cup {NoTask}
  BY DEF Typed
<1> QED
  BY <1>1, ActorsAssumption DEF Running, Code

(* The three ways a message comes to be sent: to an actor of the same process
   with the snapshot, to another process with its bytes, or without them. *)
LEMMA SendLocalIs ==
  ASSUME Typed, NEW w \in Threads, NEW t, SendLocal(w, t)
  PROVE  /\ Seen(w) \in Sight /\ Seen(w).node = NodeOf[w]
         /\ Sent(w, t, NodeOf[w], NoHeader,
                 CarriedOf(deployed.registry[NodeOf[w]], Seen(w)))
<1>1. cell[w] \in Store /\ NodeOf[w] \in Nodes
  BY RunningType DEF Typed, SoundStores
<1> QED
  BY <1>1, CaptureIsCarried DEF SendLocal

(* The bytes that go to another process are SentBytes; a sender that rejects what
   it cannot serialize sends nothing without bytes. *)
LEMMA SendRemoteIs ==
  ASSUME Typed, NEW w \in Threads, NEW t, NEW n, SendRemote(w, t, n)
  PROVE  /\ Seen(w) \in Sight /\ Seen(w).node = NodeOf[w] /\ n # NodeOf[w]
         /\ Sent(w, t, n, SentBytes(deployed.registry[NodeOf[w]], Seen(w)), NoHeader)
         /\ SentBytes(deployed.registry[NodeOf[w]], Seen(w)) = NoHeader
              => deployed.policy[NodeOf[w]] # "Reject"
<1> DEFINE map == deployed.registry[NodeOf[w]]
           bytes == Serialize(map, Capture(w))
<1>1. cell[w] \in Store /\ NodeOf[w] \in Nodes /\ deployed \in Deployments
  BY RunningType DEF Typed, SoundStores
<1>2. /\ Seen(w) \in Sight /\ Seen(w).node = NodeOf[w]
      /\ Capture(w) = CarriedOf(map, Seen(w))
  BY <1>1, CaptureIsCarried
<1>3. map \in RegistryMap
  BY <1>1, Deployed
<1>4. /\ n # NodeOf[w]
      /\ bytes = Failed => deployed.policy[NodeOf[w]] = "LogAndContinue"
      /\ Sent(w, t, n, IF bytes = Failed THEN NoHeader ELSE bytes, NoHeader)
  BY DEF SendRemote, Map
<1>5. (IF bytes = Failed THEN NoHeader ELSE bytes) = SentBytes(map, Seen(w))
  BY <1>2 DEF SentBytes
<1>6. SentBytes(map, Seen(w)) = NoHeader => bytes = Failed
  BY <1>2, <1>3, SentBytesType
<1> QED
  BY <1>2, <1>4, <1>5, <1>6

(* A message that is sent keeps the types. *)
LEMMA SentTyped ==
  ASSUME Typed, NEW w \in Threads, NEW t \in Tasks, NEW n \in Nodes,
         NEW bytes \in WireContext \cup {NoHeader},
         NEW snap \in Snapshot \cup {NoHeader},
         Seen(w) \in Sight, Sent(w, t, n, bytes, snap)
  PROVE  Typed'
<1> DEFINE c == Running(w)
           sight == Seen(w)
<1>1. c \in Code /\ t \in Code
  BY RunningType DEF Code
<1>2. /\ phase' = [phase EXCEPT ![t] = "sent"]
      /\ host' = [host EXCEPT ![t] = n]
      /\ wire' = [wire EXCEPT ![t] = bytes]
      /\ snapshot' = [snapshot EXCEPT ![t] = snap]
      /\ sent' = [sent EXCEPT ![t] = sight]
      /\ past' = [past EXCEPT ![t] = past[c] \cup {c}]
      /\ mixed' = IF c \in mixed THEN mixed \cup {t} ELSE mixed
      /\ UNCHANGED <<deployed, cell, polled, prev, held>>
  BY DEF Sent
<1>3. sight \in Sight
  OBVIOUS
<1> HIDE DEF c, sight
<1>4. past[c] \cup {c} \in SUBSET (Code \cup {Outside})
  BY <1>1 DEF Typed
<1>5. mixed' \subseteq Code
  BY <1>1, <1>2 DEF Typed
<1> QED
  BY <1>2, <1>3, <1>4, <1>5 DEF Typed

(* What is delivered has the types of its headers. *)
LEMMA DeliverTyped ==
  ASSUME Typed, NEW t \in Tasks, Deliver(t)
  PROVE  /\ Typed'
         /\ Received(t) \in WireContext \cup {NoHeader}
         /\ Normalized(t) \in Snapshot \cup {NoHeader}
<1>1. /\ wire[t] \in WireContext \cup {NoHeader} /\ host[t] \in Nodes
      /\ snapshot[t] \in Snapshot \cup {NoHeader}
      /\ deployed \in Deployments
  BY DEF Typed
<1>2. Received(t) \in WireContext \cup {NoHeader}
  BY <1>1 DEF Received
<1>3. Normalized(t) \in Snapshot \cup {NoHeader}
  <2>1. deployed.registry[host[t]] \in RegistryMap
    BY <1>1, Deployed
  <2>2. Unpacked(deployed.registry[host[t]], Received(t)) \in Snapshot \cup {NoHeader}
    BY <1>2, <2>1, UnpackedType
  <2> QED
    BY <1>1, <2>2, UnpackedIs DEF Normalized
<1>4. Normalized(t) # NoHeader =>
        Wrapped(Map(host[t]), host[t], Normalized(t)) \in SoundStores
  BY <1>1, <1>3, WrappedReads, SoundIsStore
<1> DEFINE r == Received(t)
           m == Normalized(t)
<1>5. /\ snapshot' = [snapshot EXCEPT ![t] = m]
      /\ wire' = [wire EXCEPT ![t] = r]
      /\ UNCHANGED <<deployed, cell, polled, prev, host, sent, past, mixed>>
  BY DEF Deliver
<1>6. \/ phase' = [phase EXCEPT ![t] = "rejected"] /\ held' = held
      \/ /\ phase' = [phase EXCEPT ![t] = "delivered"]
         /\ held' = [held EXCEPT ![t] = IF m = NoHeader THEN NoStore
                       ELSE Wrapped(Map(host[t]), host[t], m)]
  BY DEF Deliver
<1> HIDE DEF r, m
<1>7. wire' \in [Tasks -> WireContext \cup {NoHeader}]
  BY <1>2, <1>5 DEF Typed, r
<1>8. snapshot' \in [Tasks -> Snapshot \cup {NoHeader}]
  BY <1>3, <1>5 DEF Typed, m
<1>9. held' \in [Tasks -> SoundStores \cup {NoStore}]
  BY <1>4, <1>6 DEF Typed, m
<1>10. phase' \in [Tasks -> {"unborn", "sent", "delivered", "running",
                             "suspended", "done", "rejected"}]
  BY <1>6 DEF Typed
<1> QED
  BY <1>2, <1>3, <1>5, <1>7, <1>8, <1>9, <1>10 DEF Typed

(* Every step keeps the types. *)
LEMMA NextTyped == IInv /\ Next => Typed'
<1> SUFFICES ASSUME IInv, Next  PROVE Typed'
  OBVIOUS
<1>0. Typed /\ Polls
  BY DEF IInv
<1>1. ASSUME NEW w \in Threads, NEW k \in Keys, NEW type \in Types,
             SetVariable(w, k, type)
      PROVE  Typed'
  <2> DEFINE v == [type |-> type, data |-> Running(w)]
             c == SetValue(cell[w], k, v)
  <2>1. v \in Vals
    BY <1>0, RunningType, WireAssumption DEF Value
  <2>2. SoundStore(cell[w])
    BY <1>0 DEF Typed, SoundStores
  <2> HIDE DEF v
  <2>3. c \in SoundStores
    BY <2>1, <2>2, SoundSetValue, SoundIsStore
  <2>4. /\ cell' = [cell EXCEPT ![w] = c]
        /\ UNCHANGED <<deployed, polled, prev, phase, host, wire, snapshot, held,
                       sent, past, mixed>>
    BY <1>1 DEF SetVariable, v
  <2> HIDE DEF c
  <2> QED
    BY <1>0, <2>3, <2>4 DEF Typed
<1>2. ASSUME NEW w \in Threads, NEW t \in Tasks, SendLocal(w, t)
      PROVE  Typed'
  <2>1. /\ Seen(w) \in Sight
        /\ Sent(w, t, NodeOf[w], NoHeader,
                CarriedOf(deployed.registry[NodeOf[w]], Seen(w)))
    BY <1>0, <1>2, SendLocalIs
  <2>2. CarriedOf(deployed.registry[NodeOf[w]], Seen(w)) \in Snapshot
    BY <2>1, CarriedType
  <2> QED
    BY <1>0, <2>1, <2>2, SentTyped, RunningType
<1>3. ASSUME NEW w \in Threads, NEW t \in Tasks, NEW n \in Nodes, SendRemote(w, t, n)
      PROVE  Typed'
  <2>1. /\ Seen(w) \in Sight
        /\ Sent(w, t, n, SentBytes(deployed.registry[NodeOf[w]], Seen(w)), NoHeader)
    BY <1>0, <1>3, SendRemoteIs
  <2>2. deployed.registry[NodeOf[w]] \in RegistryMap
    BY <1>0, Deployed, RunningType DEF Typed
  <2>3. SentBytes(deployed.registry[NodeOf[w]], Seen(w)) \in WireContext \cup {NoHeader}
    BY <2>1, <2>2, SentBytesType
  <2> QED
    BY <1>0, <2>1, <2>3, SentTyped
<1>4. ASSUME NEW w \in Threads, NEW t \in Tasks, Poll(w, t)
      PROVE  Typed'
  <2>1. /\ polled' = [polled EXCEPT ![w] = t]
        /\ phase' = [phase EXCEPT ![t] = "running"]
        /\ UNCHANGED <<deployed, host, wire, snapshot, sent, past>>
        /\ phase[t] \in {"delivered", "suspended"}
    BY <1>4 DEF Poll
  <2>2. CASE IsWrapped(t)
    <3>1. /\ prev' = [prev EXCEPT ![w] = cell[w]]
          /\ cell' = [cell EXCEPT ![w] = held[t]]
          /\ held' = [held EXCEPT ![t] = NoStore]
          /\ mixed' = mixed
      BY <1>4, <2>2 DEF Poll
    <3>2. held[t] \in SoundStores
      <4>1. held[t] # NoStore
        BY <2>1, <2>2 DEF IInv, Mail, MailOK, HandlerOK, IsWrapped
      <4> QED
        BY <1>0, <4>1 DEF Typed
    <3> QED
      BY <1>0, <2>1, <3>1, <3>2 DEF Typed
  <2>3. CASE ~IsWrapped(t)
    <3>1. /\ mixed' = mixed \cup {w, t}
          /\ UNCHANGED <<prev, cell, held>>
      BY <1>4, <2>3 DEF Poll
    <3> QED
      BY <1>0, <2>1, <3>1 DEF Typed, Code
  <2> QED
    BY <2>2, <2>3
<1>5. ASSUME NEW w \in Threads, NEW done \in BOOLEAN, Return(w, done)
      PROVE  Typed'
  <2> DEFINE t == polled[w]
  <2>1. /\ t # NoTask
        /\ polled' = [polled EXCEPT ![w] = NoTask]
        /\ phase' = [phase EXCEPT ![t] = IF done THEN "done" ELSE "suspended"]
        /\ UNCHANGED <<deployed, host, mixed>>
    BY <1>5 DEF Return
  <2>2. t \in Tasks /\ t \in Code
    BY <1>0, <2>1, RunningType DEF Code
  <2>3. /\ wire' \in [Tasks -> WireContext \cup {NoHeader}]
        /\ snapshot' \in [Tasks -> Snapshot \cup {NoHeader}]
        /\ sent' \in [Tasks -> Sight \cup {NoHeader}]
        /\ past' \in [Code -> SUBSET (Code \cup {Outside})]
    BY <1>0, <1>5, <2>2 DEF Return, Forget, Typed
  <2>4. /\ held' \in [Tasks -> SoundStores \cup {NoStore}]
        /\ prev' \in [Threads -> SoundStores \cup {NoStore}]
        /\ cell' \in [Threads -> SoundStores]
    <3>1. CASE IsWrapped(t)
      <4>1. /\ held' = [held EXCEPT ![t] = IF done THEN NoStore ELSE cell[w]]
            /\ cell' = [cell EXCEPT ![w] = prev[w]]
            /\ prev' = [prev EXCEPT ![w] = NoStore]
        BY <1>5, <3>1 DEF Return
      <4>2. prev[w] \in SoundStores
        <5>1. prev[w] # NoStore
          BY <1>0, <2>1, <3>1 DEF Polls, PollOK
        <5> QED
          BY <1>0, <5>1 DEF Typed
      <4> QED
        BY <1>0, <4>1, <4>2 DEF Typed
    <3>2. CASE ~IsWrapped(t)
      BY <1>0, <1>5, <3>2 DEF Return, Typed
    <3> QED
      BY <3>1, <3>2
  <2> QED
    BY <1>0, <2>1, <2>2, <2>3, <2>4 DEF Typed
<1>6. ASSUME NEW t \in Tasks, NEW n \in Nodes, NEW bytes \in Foreign, Arrive(t, n, bytes)
      PROVE  Typed'
  <2>1. bytes \in WireContext /\ t \in Code
    BY ActorsAssumption DEF Code
  <2> QED
    BY <1>0, <1>6, <2>1 DEF Typed, Arrive
<1>7. ASSUME NEW t \in Tasks, Deliver(t)  PROVE Typed'
  BY <1>0, <1>7, DeliverTyped
<1> QED
  BY <1>1, <1>2, <1>3, <1>4, <1>5, <1>6, <1>7, Zenon DEF Next

-----------------------------------------------------------------------------
(* Polls *)

(* A message that is not polled may move on to where it is not either. *)
LEMMA UnpolledPolls ==
  ASSUME Typed, Polls, NEW t \in Tasks, phase[t] # "running",
         NEW p, p # "running", phase' = [phase EXCEPT ![t] = p],
         polled' = polled, prev' = prev,
         \A u \in Tasks \ {t} : held'[u] = held[u] /\ snapshot'[u] = snapshot[u]
  PROVE  Polls'
<1>1. /\ polled \in [Threads -> Tasks \cup {NoTask}]
      /\ DOMAIN phase = Tasks
  BY DEF Typed
<1>2. /\ \A u \in Tasks : phase'[u] = IF u = t THEN p ELSE phase[u]
  BY <1>1
<1>3. ASSUME NEW w \in Threads  PROVE PollOK(w)'
  <2>1. polled[w] # NoTask => polled[w] \in Tasks \ {t}
    BY <1>1 DEF Polls, PollOK
  <2> QED
    BY <1>2, <2>1 DEF Polls, PollOK, IsWrapped
<1>4. \A v, w \in Threads :
        polled'[v] = polled'[w] /\ polled'[v] # NoTask => v = w
  BY DEF Polls
<1>5. \A u \in Tasks : phase'[u] = "running" => \E w \in Threads : polled'[w] = u
  BY <1>2 DEF Polls
<1> QED
  BY <1>3, <1>4, <1>5 DEF Polls

(* Every step keeps who polls what. *)
LEMMA NextPolls == IInv /\ Next => Polls'
<1> SUFFICES ASSUME IInv, Next  PROVE Polls'
  OBVIOUS
<1>0. Typed /\ Polls
  BY DEF IInv
<1>1. ASSUME NEW w \in Threads, NEW k \in Keys, NEW type \in Types,
             SetVariable(w, k, type)
      PROVE  Polls'
  <2>1. UNCHANGED <<polled, prev, phase, held, snapshot>>
    BY <1>1 DEF SetVariable
  <2> QED
    BY <1>0, <2>1 DEF Polls, PollOK, IsWrapped
<1>2. ASSUME NEW w \in Threads, NEW t \in Tasks, NEW n, NEW bytes, NEW snap,
             Sent(w, t, n, bytes, snap)
      PROVE  Polls'
  <2>1. /\ phase[t] = "unborn" /\ phase' = [phase EXCEPT ![t] = "sent"]
        /\ polled' = polled /\ prev' = prev /\ held' = held
        /\ snapshot' = [snapshot EXCEPT ![t] = snap]
    BY <1>2 DEF Sent
  <2>2. \A u \in Tasks \ {t} : held'[u] = held[u] /\ snapshot'[u] = snapshot[u]
    BY <1>0, <2>1 DEF Typed
  <2> QED
    BY <1>0, <2>1, <2>2, UnpolledPolls
<1>3. ASSUME NEW w \in Threads, NEW t \in Tasks, SendLocal(w, t)
      PROVE  Polls'
  BY <1>2, <1>3 DEF SendLocal
<1>4. ASSUME NEW w \in Threads, NEW t \in Tasks, NEW n \in Nodes, SendRemote(w, t, n)
      PROVE  Polls'
  BY <1>0, <1>2, <1>4, SendRemoteIs
<1>5. ASSUME NEW w \in Threads, NEW t \in Tasks, Poll(w, t)
      PROVE  Polls'
  <2>1. /\ polled[w] = NoTask
        /\ phase[t] \in {"delivered", "suspended"}
        /\ polled' = [polled EXCEPT ![w] = t]
        /\ phase' = [phase EXCEPT ![t] = "running"]
        /\ snapshot' = snapshot
    BY <1>5 DEF Poll
  <2>2. /\ polled \in [Threads -> Tasks \cup {NoTask}]
        /\ phase \in [Tasks -> {"unborn", "sent", "delivered", "running",
                                "suspended", "done", "rejected"}]
        /\ cell \in [Threads -> SoundStores] /\ DOMAIN prev = Threads
        /\ DOMAIN held = Tasks
    BY <1>0 DEF Typed
  <2>3. \A v \in Threads : polled'[v] = IF v = w THEN t ELSE polled[v]
    BY <2>1, <2>2
  <2>4. \A u \in Tasks : phase'[u] = IF u = t THEN "running" ELSE phase[u]
    BY <2>1, <2>2
  <2>5. \A v \in Threads : polled[v] # t
    BY <1>0, <2>1, ActorsAssumption DEF Polls, PollOK
  <2>6. t # NoTask
    BY ActorsAssumption
  <2>7. /\ \A u \in Tasks \ {t} : held'[u] = held[u]
        /\ \A v \in Threads \ {w} : prev'[v] = prev[v]
        /\ IsWrapped(t) => prev'[w] # NoStore
        /\ held'[t] = NoStore
    <3>1. CASE IsWrapped(t)
      <4>1. /\ prev' = [prev EXCEPT ![w] = cell[w]]
            /\ held' = [held EXCEPT ![t] = NoStore]
        BY <1>5, <3>1 DEF Poll
      <4>2. cell[w] # NoStore
        BY <2>2, ActorsAssumption DEF SoundStores
      <4> QED
        BY <2>2, <4>1, <4>2
    <3>2. CASE ~IsWrapped(t)
      <4>1. prev' = prev /\ held' = held
        BY <1>5, <3>2 DEF Poll
      <4>2. held[t] = NoStore
        BY <2>1, <3>2 DEF IInv, Mail, MailOK, HandlerOK, IsWrapped
      <4> QED
        BY <3>2, <4>1, <4>2
    <3> QED
      BY <3>1, <3>2
  <2>8. ASSUME NEW v \in Threads  PROVE PollOK(v)'
    <3>1. CASE v = w
      BY <2>1, <2>3, <2>4, <2>6, <2>7, <3>1 DEF PollOK, IsWrapped
    <3>2. CASE v # w
      <4>1. polled'[v] = polled[v] /\ (polled[v] # NoTask => polled[v] \in Tasks \ {t})
        BY <2>2, <2>3, <2>5, <3>2
      <4>2. PollOK(v)
        BY <1>0 DEF Polls
      <4> QED
        BY <2>1, <2>4, <2>7, <3>2, <4>1, <4>2 DEF PollOK, IsWrapped
    <3> QED
      BY <3>1, <3>2
  <2>9. \A u, v \in Threads :
          polled'[u] = polled'[v] /\ polled'[u] # NoTask => u = v
    BY <1>0, <2>3, <2>5 DEF Polls
  <2>10. \A u \in Tasks : phase'[u] = "running" => \E v \in Threads : polled'[v] = u
    <3> SUFFICES ASSUME NEW u \in Tasks, phase'[u] = "running"
                 PROVE  \E v \in Threads : polled'[v] = u
      OBVIOUS
    <3>1. CASE u = t
      BY <2>3, <3>1
    <3>2. CASE u # t
      <4>1. PICK v \in Threads : polled[v] = u
        BY <1>0, <2>4, <3>2 DEF Polls
      <4>2. v # w
        BY <2>1, <4>1, ActorsAssumption
      <4> QED
        BY <2>3, <4>1, <4>2
    <3> QED
      BY <3>1, <3>2
  <2> QED
    BY <2>8, <2>9, <2>10 DEF Polls
<1>6. ASSUME NEW w \in Threads, NEW done \in BOOLEAN, Return(w, done)
      PROVE  Polls'
  <2> DEFINE t == polled[w]
             p == IF done THEN "done" ELSE "suspended"
  <2>1. /\ t # NoTask
        /\ polled' = [polled EXCEPT ![w] = NoTask]
        /\ phase' = [phase EXCEPT ![t] = p]
        /\ p # "running"
    BY <1>6 DEF Return
  <2>2. /\ polled \in [Threads -> Tasks \cup {NoTask}]
        /\ DOMAIN phase = Tasks /\ DOMAIN prev = Threads /\ DOMAIN held = Tasks
        /\ DOMAIN snapshot = Tasks
    BY <1>0 DEF Typed
  <2>3. t \in Tasks
    BY <2>1, <2>2
  <2>4. \A v \in Threads : polled'[v] = IF v = w THEN NoTask ELSE polled[v]
    BY <2>1, <2>2
  <2>5. \A u \in Tasks : phase'[u] = IF u = t THEN p ELSE phase[u]
    BY <2>1, <2>2
  <2>6. \A v \in Threads \ {w} : polled[v] # t
    BY <1>0, <2>1 DEF Polls
  <2>7. /\ \A u \in Tasks \ {t} : held'[u] = held[u] /\ snapshot'[u] = snapshot[u]
        /\ \A v \in Threads \ {w} : prev'[v] = prev[v]
    BY <1>6, <2>2 DEF Return, Forget
  <2> HIDE DEF p
  <2>8. ASSUME NEW v \in Threads  PROVE PollOK(v)'
    <3>1. CASE v = w
      BY <2>4, <3>1 DEF PollOK
    <3>2. CASE v # w
      <4>1. polled'[v] = polled[v] /\ (polled[v] # NoTask => polled[v] \in Tasks \ {t})
        BY <2>2, <2>4, <2>6, <3>2
      <4>2. PollOK(v)
        BY <1>0 DEF Polls
      <4> QED
        BY <2>5, <2>7, <3>2, <4>1, <4>2 DEF PollOK, IsWrapped
    <3> QED
      BY <3>1, <3>2
  <2>9. \A u, v \in Threads :
          polled'[u] = polled'[v] /\ polled'[u] # NoTask => u = v
    BY <1>0, <2>4 DEF Polls
  <2>10. \A u \in Tasks : phase'[u] = "running" => \E v \in Threads : polled'[v] = u
    BY <1>0, <2>1, <2>4, <2>5 DEF Polls
  <2> QED
    BY <2>8, <2>9, <2>10 DEF Polls
<1>7. ASSUME NEW t \in Tasks, NEW n \in Nodes, NEW bytes \in Foreign, Arrive(t, n, bytes)
      PROVE  Polls'
  <2>1. /\ phase[t] = "unborn" /\ phase' = [phase EXCEPT ![t] = "sent"]
        /\ polled' = polled /\ prev' = prev /\ held' = held /\ snapshot' = snapshot
    BY <1>7 DEF Arrive
  <2> QED
    BY <1>0, <2>1, UnpolledPolls
<1>8. ASSUME NEW t \in Tasks, Deliver(t)  PROVE Polls'
  <2> DEFINE p == phase'[t]
  <2>1. /\ phase[t] = "sent" /\ polled' = polled /\ prev' = prev
        /\ snapshot' = [snapshot EXCEPT ![t] = Normalized(t)]
    BY <1>8 DEF Deliver
  <2>2. DOMAIN phase = Tasks /\ DOMAIN held = Tasks /\ DOMAIN snapshot = Tasks
    BY <1>0 DEF Typed
  <2>3. phase' = [phase EXCEPT ![t] = p] /\ p # "running"
    BY <1>8, <2>2 DEF Deliver
  <2>4. \A u \in Tasks \ {t} : held'[u] = held[u] /\ snapshot'[u] = snapshot[u]
    BY <1>8, <2>1, <2>2 DEF Deliver
  <2> HIDE DEF p
  <2> QED
    BY <1>0, <2>1, <2>3, <2>4, UnpolledPolls
<1> QED
  BY <1>1, <1>3, <1>4, <1>5, <1>6, <1>7, <1>8, Zenon DEF Next

-----------------------------------------------------------------------------
(* The headers of a message *)

(* A message that is sent in a process has its snapshot. *)
LEMMA LocalMail ==
  ASSUME NEW d, NEW n, NEW seen \in Sight, seen.node = n
  PROVE  MailOK(d, "sent", n, NoHeader, CarriedOf(d.registry[n], seen), seen, NoStore)
<1>1. seen # NoHeader /\ CarriedOf(d.registry[n], seen) # NoHeader
  BY CarriedType
<1> QED
  BY <1>1 DEF MailOK, HandlerOK, BlankOK, LocalOK, BytesOK, OutsideOK, SnapshotOK,
              StrictOK, HeldOK

(* One that is sent to another process has its bytes. *)
LEMMA RemoteMail ==
  ASSUME NEW d, NEW n, NEW seen \in Sight, seen.node # n, NEW bytes,
         bytes = SentBytes(d.registry[seen.node], seen),
         bytes = NoHeader => d.policy[seen.node] # "Reject"
  PROVE  MailOK(d, "sent", n, bytes, NoHeader, seen, NoStore)
<1>1. seen # NoHeader
  BY CarriedType
<1> QED
  BY <1>1 DEF MailOK, HandlerOK, BlankOK, LocalOK, BytesOK, OutsideOK, SnapshotOK,
              StrictOK, HeldOK

(* One that arrives from outside has bytes, and nobody saw what its sender did. *)
LEMMA OutsideMail ==
  ASSUME NEW d, NEW n, NEW bytes, bytes # NoHeader,
         \A e \in bytes.entries : e.bytes.data = Outside
  PROVE  MailOK(d, "sent", n, bytes, NoHeader, NoHeader, NoStore)
  BY DEF MailOK, HandlerOK, BlankOK, LocalOK, BytesOK, OutsideOK, SnapshotOK,
         StrictOK, HeldOK

(* The headers that the interceptor and the handler find: those of the message,
   without the bytes that were dropped, with the snapshot that the bytes decode to
   if there was none. *)
LEMMA DeliveredMail ==
  ASSUME NEW d, NEW n, NEW bytes, NEW snap, NEW seen,
         MailOK(d, "sent", n, bytes, snap, seen, NoStore),
         seen = NoHeader \/ seen \in Sight,
         NEW r, r = IF (seen = NoHeader \/ seen.node # n) /\ ~d.header[n]
                    THEN NoHeader ELSE bytes,
         NEW m, m = IF snap # NoHeader THEN snap ELSE Unpacked(d.registry[n], r),
         NEW p, p \in {"delivered", "rejected"},
         p = "rejected" <=> m = NoHeader /\ r # NoHeader /\ d.policy[n] = "Reject",
         NEW h, h = IF p = "rejected" \/ m = NoHeader THEN NoStore
                    ELSE Wrapped(d.registry[n], n, m),
         m = NoHeader \/ Wrapped(d.registry[n], n, m) # NoStore
  PROVE  MailOK(d, p, n, r, m, seen, h)
<1> DEFINE away == seen = NoHeader \/ seen.node # n
<1>1. CASE away
  <2>1. snap = NoHeader /\ m = Unpacked(d.registry[n], r)
    BY <1>1 DEF MailOK, SnapshotOK
  <2>2. HandlerOK(p, m, h) /\ BlankOK(p, r, m, seen) /\ LocalOK(d, p, n, r, m, seen)
    BY <1>1 DEF HandlerOK, BlankOK, LocalOK
  <2>3. BytesOK(d, p, n, r, seen)
    BY <1>1 DEF MailOK, BytesOK, Dropped
  <2>4. OutsideOK(d, p, n, r, seen)
    BY <1>1 DEF MailOK, OutsideOK, Dropped
  <2>5. SnapshotOK(d, p, n, r, m, seen)
    BY <1>1, <2>1 DEF SnapshotOK
  <2>6. StrictOK(d, p, n, r, m) /\ HeldOK(d, p, n, m, h)
    BY DEF StrictOK, HeldOK
  <2> QED
    BY <2>2, <2>3, <2>4, <2>5, <2>6 DEF MailOK
<1>2. CASE ~away
  <2>1. bytes = NoHeader /\ snap = CarriedOf(d.registry[n], seen) /\ seen \in Sight
    BY <1>2 DEF MailOK, LocalOK
  <2>2. snap # NoHeader
    BY <2>1, CarriedType
  <2>3. m = snap /\ r = NoHeader /\ p = "delivered"
    BY <1>2, <2>1, <2>2
  <2> QED
    BY <1>2, <2>1, <2>2, <2>3
    DEF MailOK, HandlerOK, BlankOK, LocalOK, BytesOK, OutsideOK, SnapshotOK,
        StrictOK, HeldOK
<1> QED
  BY <1>1, <1>2

(* The headers stay while the handler is polled. *)
LEMMA PolledMail ==
  ASSUME NEW d, NEW p \in {"delivered", "suspended"}, NEW n, NEW bytes, NEW snap,
         NEW seen, NEW h, MailOK(d, p, n, bytes, snap, seen, h)
  PROVE  MailOK(d, "running", n, bytes, snap, seen, NoStore)
  BY DEF MailOK, HandlerOK, BlankOK, LocalOK, BytesOK, OutsideOK, SnapshotOK,
         StrictOK, HeldOK, Dropped

(* They stay while it waits. *)
LEMMA SuspendedMail ==
  ASSUME NEW d, NEW n, NEW bytes, NEW snap, NEW seen, NEW h, NEW g,
         MailOK(d, "running", n, bytes, snap, seen, h),
         g # NoStore <=> snap # NoHeader
  PROVE  MailOK(d, "suspended", n, bytes, snap, seen, g)
  BY DEF MailOK, HandlerOK, BlankOK, LocalOK, BytesOK, OutsideOK, SnapshotOK,
         StrictOK, HeldOK, Dropped

(* A message that was handled has none. *)
LEMMA DoneMail ==
  ASSUME NEW d, NEW n
  PROVE  MailOK(d, "done", n, NoHeader, NoHeader, NoHeader, NoStore)
  BY DEF MailOK, HandlerOK, BlankOK, LocalOK, BytesOK, OutsideOK, SnapshotOK,
         StrictOK, HeldOK

(* What a step does to one message is all that it does. *)
LEMMA OneMail ==
  ASSUME Mail, NEW t \in Tasks, deployed' = deployed,
         \A u \in Tasks \ {t} :
           /\ phase'[u] = phase[u] /\ host'[u] = host[u] /\ wire'[u] = wire[u]
           /\ snapshot'[u] = snapshot[u] /\ sent'[u] = sent[u] /\ held'[u] = held[u],
         MailOK(deployed, phase'[t], host'[t], wire'[t], snapshot'[t], sent'[t], held'[t])
  PROVE  Mail'
<1> SUFFICES ASSUME NEW u \in Tasks
             PROVE  MailOK(deployed', phase'[u], host'[u], wire'[u], snapshot'[u],
                           sent'[u], held'[u])
  BY DEF Mail
<1>1. CASE u = t
  BY <1>1
<1>2. CASE u # t
  BY <1>2 DEF Mail
<1> QED
  BY <1>1, <1>2

(* Every step keeps what the headers are. *)
LEMMA NextMail == IInv /\ Next => Mail'
<1> SUFFICES ASSUME IInv, Next  PROVE Mail'
  OBVIOUS
<1>0. /\ Typed /\ Polls /\ Mail
      /\ deployed \in Deployments
      /\ DOMAIN phase = Tasks /\ DOMAIN host = Tasks /\ DOMAIN wire = Tasks
      /\ DOMAIN snapshot = Tasks /\ DOMAIN sent = Tasks /\ DOMAIN held = Tasks
  BY DEF IInv, Typed
<1>a. ASSUME NEW t \in Tasks
      PROVE  MailOK(deployed, phase[t], host[t], wire[t], snapshot[t], sent[t], held[t])
  BY <1>0 DEF Mail
<1>1. ASSUME NEW w \in Threads, NEW k \in Keys, NEW type \in Types,
             SetVariable(w, k, type)
      PROVE  Mail'
  <2>1. UNCHANGED <<deployed, phase, host, wire, snapshot, sent, held>>
    BY <1>1 DEF SetVariable
  <2> QED
    BY <1>0, <2>1 DEF Mail
<1>2. ASSUME NEW w \in Threads, NEW t \in Tasks, NEW n, NEW bytes, NEW snap,
             Sent(w, t, n, bytes, snap),
             MailOK(deployed, "sent", n, bytes, snap, Seen(w), NoStore)
      PROVE  Mail'
  <2> DEFINE seen == Seen(w)
  <2>1. /\ phase' = [phase EXCEPT ![t] = "sent"]
        /\ host' = [host EXCEPT ![t] = n]
        /\ wire' = [wire EXCEPT ![t] = bytes]
        /\ snapshot' = [snapshot EXCEPT ![t] = snap]
        /\ sent' = [sent EXCEPT ![t] = seen]
        /\ UNCHANGED <<deployed, held>>
        /\ phase[t] = "unborn"
    BY <1>2 DEF Sent
  <2>2. MailOK(deployed, "sent", n, bytes, snap, seen, NoStore)
    BY <1>2
  <2> HIDE DEF seen
  <2>3. held[t] = NoStore
    BY <1>a, <2>1 DEF MailOK, HandlerOK
  <2>4. /\ phase'[t] = "sent" /\ host'[t] = n /\ wire'[t] = bytes
        /\ snapshot'[t] = snap /\ sent'[t] = seen /\ held'[t] = NoStore
    BY <1>0, <2>1, <2>3
  <2>5. MailOK(deployed, phase'[t], host'[t], wire'[t], snapshot'[t], sent'[t], held'[t])
    BY <2>2, <2>4
  <2>6. \A u \in Tasks \ {t} :
          /\ phase'[u] = phase[u] /\ host'[u] = host[u] /\ wire'[u] = wire[u]
          /\ snapshot'[u] = snapshot[u] /\ sent'[u] = sent[u] /\ held'[u] = held[u]
    BY <1>0, <2>1
  <2> QED
    BY <1>0, <2>1, <2>5, <2>6, OneMail
<1>3. ASSUME NEW w \in Threads, NEW t \in Tasks, SendLocal(w, t)
      PROVE  Mail'
  <2>1. /\ Seen(w) \in Sight /\ Seen(w).node = NodeOf[w]
        /\ Sent(w, t, NodeOf[w], NoHeader,
                CarriedOf(deployed.registry[NodeOf[w]], Seen(w)))
    BY <1>0, <1>3, SendLocalIs
  <2>2. MailOK(deployed, "sent", NodeOf[w], NoHeader,
               CarriedOf(deployed.registry[NodeOf[w]], Seen(w)), Seen(w), NoStore)
    BY <2>1, LocalMail
  <2> QED
    BY <1>2, <2>1, <2>2
<1>4. ASSUME NEW w \in Threads, NEW t \in Tasks, NEW n \in Nodes, SendRemote(w, t, n)
      PROVE  Mail'
  <2> DEFINE seen == Seen(w)
             bytes == SentBytes(deployed.registry[seen.node], seen)
  <2>1. /\ seen \in Sight /\ seen.node = NodeOf[w] /\ n # NodeOf[w]
        /\ Sent(w, t, n, bytes, NoHeader)
        /\ bytes = NoHeader => deployed.policy[NodeOf[w]] # "Reject"
    BY <1>0, <1>4, SendRemoteIs
  <2>2. MailOK(deployed, "sent", n, bytes, NoHeader, seen, NoStore)
    <3> HIDE DEF seen
    <3>1. seen.node # n /\ (bytes = NoHeader => deployed.policy[seen.node] # "Reject")
      BY <2>1
    <3> QED
      BY <2>1, <3>1, RemoteMail
  <2> QED
    BY <1>2, <2>1, <2>2
<1>5. ASSUME NEW w \in Threads, NEW t \in Tasks, Poll(w, t)
      PROVE  Mail'
  <2>1. /\ phase[t] \in {"delivered", "suspended"}
        /\ phase' = [phase EXCEPT ![t] = "running"]
        /\ UNCHANGED <<deployed, host, wire, snapshot, sent>>
    BY <1>5 DEF Poll
  <2>2. held' = [held EXCEPT ![t] = NoStore]
    <3>1. CASE IsWrapped(t)
      BY <1>5, <3>1 DEF Poll
    <3>2. CASE ~IsWrapped(t)
      <4>1. held' = held
        BY <1>5, <3>2 DEF Poll
      <4>2. held[t] = NoStore
        BY <1>a, <3>2 DEF MailOK, HandlerOK, IsWrapped
      <4> QED
        BY <1>0, <4>1, <4>2 DEF Typed
    <3> QED
      BY <3>1, <3>2
  <2>3. MailOK(deployed, "running", host[t], wire[t], snapshot[t], sent[t], NoStore)
    BY <1>a, <2>1, PolledMail
  <2>4. MailOK(deployed, phase'[t], host'[t], wire'[t], snapshot'[t], sent'[t], held'[t])
    BY <1>0, <2>1, <2>2, <2>3
  <2>5. \A u \in Tasks \ {t} :
          /\ phase'[u] = phase[u] /\ host'[u] = host[u] /\ wire'[u] = wire[u]
          /\ snapshot'[u] = snapshot[u] /\ sent'[u] = sent[u] /\ held'[u] = held[u]
    BY <1>0, <2>1, <2>2
  <2> QED
    BY <1>0, <2>1, <2>4, <2>5, OneMail
<1>6. ASSUME NEW w \in Threads, NEW done \in BOOLEAN, Return(w, done)
      PROVE  Mail'
  <2> DEFINE t == polled[w]
  <2>1. /\ t # NoTask
        /\ phase' = [phase EXCEPT ![t] = IF done THEN "done" ELSE "suspended"]
        /\ UNCHANGED <<deployed, host>>
        /\ Forget(t, done)
    BY <1>6 DEF Return
  <2>2. t \in Tasks /\ phase[t] = "running" /\ held[t] = NoStore
    BY <1>0, <2>1, RunningType DEF Polls, PollOK
  <2>3. \A u \in Tasks \ {t} :
          /\ phase'[u] = phase[u] /\ host'[u] = host[u] /\ wire'[u] = wire[u]
          /\ snapshot'[u] = snapshot[u] /\ sent'[u] = sent[u] /\ held'[u] = held[u]
    BY <1>0, <1>6, <2>1 DEF Return, Forget
  <2>4. held'[t] = IF done \/ ~IsWrapped(t) THEN NoStore ELSE cell[w]
    BY <1>0, <1>6, <2>2 DEF Return
  <2>5. MailOK(deployed, phase'[t], host'[t], wire'[t], snapshot'[t], sent'[t], held'[t])
    <3>1. CASE done
      <4>1. /\ phase'[t] = "done" /\ wire'[t] = NoHeader /\ snapshot'[t] = NoHeader
            /\ sent'[t] = NoHeader /\ held'[t] = NoStore
        BY <1>0, <2>1, <2>2, <2>4, <3>1 DEF Forget
      <4> HIDE DEF t
      <4> QED
        BY <4>1, DoneMail
    <3>2. CASE ~done
      <4>1. /\ phase'[t] = "suspended" /\ wire'[t] = wire[t]
            /\ snapshot'[t] = snapshot[t] /\ sent'[t] = sent[t]
            /\ host'[t] = host[t]
        BY <1>0, <2>1, <2>2, <3>2 DEF Forget
      <4>2. cell[w] # NoStore
        BY <1>0, ActorsAssumption DEF Typed, SoundStores
      <4>3. held'[t] # NoStore <=> snapshot[t] # NoHeader
        BY <2>4, <3>2, <4>2 DEF IsWrapped
      <4>4. MailOK(deployed, "running", host[t], wire[t], snapshot[t], sent[t], held[t])
        BY <1>a, <2>2
      <4> HIDE DEF t
      <4> QED
        BY <4>1, <4>3, <4>4, SuspendedMail
    <3> QED
      BY <3>1, <3>2
  <2> HIDE DEF t
  <2> QED
    BY <1>0, <2>1, <2>2, <2>3, <2>5, OneMail
<1>7. ASSUME NEW t \in Tasks, NEW n \in Nodes, NEW bytes \in Foreign, Arrive(t, n, bytes)
      PROVE  Mail'
  <2>1. /\ phase[t] = "unborn"
        /\ phase' = [phase EXCEPT ![t] = "sent"]
        /\ host' = [host EXCEPT ![t] = n]
        /\ wire' = [wire EXCEPT ![t] = bytes]
        /\ UNCHANGED <<deployed, snapshot, held, sent>>
    BY <1>7 DEF Arrive
  <2>2. held[t] = NoStore /\ snapshot[t] = NoHeader /\ sent[t] = NoHeader
    BY <1>a, <2>1 DEF MailOK, HandlerOK, BlankOK
  <2>3. bytes # NoHeader /\ \A e \in bytes.entries : e.bytes.data = Outside
    BY ActorsAssumption
  <2>4. MailOK(deployed, "sent", n, bytes, NoHeader, NoHeader, NoStore)
    BY <2>3, OutsideMail
  <2>5. MailOK(deployed, phase'[t], host'[t], wire'[t], snapshot'[t], sent'[t], held'[t])
    BY <1>0, <2>1, <2>2, <2>4
  <2>6. \A u \in Tasks \ {t} :
          /\ phase'[u] = phase[u] /\ host'[u] = host[u] /\ wire'[u] = wire[u]
          /\ snapshot'[u] = snapshot[u] /\ sent'[u] = sent[u] /\ held'[u] = held[u]
    BY <1>0, <2>1
  <2> QED
    BY <1>0, <2>1, <2>5, <2>6, OneMail
<1>8. ASSUME NEW t \in Tasks, Deliver(t)  PROVE Mail'
  <2> DEFINE n == host[t]
             r == Received(t)
             m == Normalized(t)
             p == phase'[t]
             h == held'[t]
             seen == sent[t]
             bytes == wire[t]
             snap == snapshot[t]
  <2>1. /\ phase[t] = "sent" /\ host' = host /\ sent' = sent /\ deployed' = deployed
        /\ snapshot' = [snapshot EXCEPT ![t] = m]
        /\ wire' = [wire EXCEPT ![t] = r]
    BY <1>8 DEF Deliver
  <2>2. held[t] = NoStore
    BY <1>a, <2>1 DEF MailOK, HandlerOK
  <2>3. /\ p \in {"delivered", "rejected"}
        /\ p = "rejected" <=> m = NoHeader /\ r # NoHeader /\ deployed.policy[n] = "Reject"
    BY <1>0, <1>8 DEF Deliver, Undecodable
  <2>4. h = IF p = "rejected" \/ m = NoHeader THEN NoStore
            ELSE Wrapped(deployed.registry[n], n, m)
    <3>1. CASE Undecodable(t) /\ deployed.policy[n] = "Reject"
      BY <1>0, <1>8, <2>2, <3>1 DEF Deliver
    <3>2. CASE ~ (Undecodable(t) /\ deployed.policy[n] = "Reject")
      <4>1. /\ phase' = [phase EXCEPT ![t] = "delivered"]
            /\ held' = [held EXCEPT ![t] =
                 IF m = NoHeader THEN NoStore ELSE Wrapped(deployed.registry[n], n, m)]
        BY <1>8, <3>2 DEF Deliver, Map
      <4> HIDE DEF n, m
      <4> QED
        BY <1>0, <4>1
    <3> QED
      BY <3>1, <3>2
  <2>5. r = IF (seen = NoHeader \/ seen.node # n) /\ ~deployed.header[n]
            THEN NoHeader ELSE bytes
    BY DEF Received, Remote
  <2>6. m = IF snap # NoHeader THEN snap ELSE Unpacked(deployed.registry[n], r)
    BY UnpackedIs DEF Normalized
  <2>7. seen = NoHeader \/ seen \in Sight
    BY <1>0 DEF Typed
  <2>8. m = NoHeader \/ Wrapped(deployed.registry[n], n, m) # NoStore
    <3>1. m \in Snapshot \cup {NoHeader} /\ n \in Nodes
      BY <1>0, <1>8, DeliverTyped DEF Typed
    <3> HIDE DEF m, n
    <3>2. ASSUME m # NoHeader  PROVE Wrapped(deployed.registry[n], n, m) # NoStore
      <4>1. SoundStore(Wrapped(deployed.registry[n], n, m))
        BY <3>1, <3>2, WrappedReads
      <4> QED
        BY <4>1, ActorsAssumption DEF SoundStore
    <3> QED
      BY <3>2
  <2>9. MailOK(deployed, "sent", n, bytes, snap, seen, NoStore)
    BY <1>a, <2>1, <2>2
  <2>10. /\ host'[t] = n /\ wire'[t] = r /\ snapshot'[t] = m /\ sent'[t] = seen
    BY <1>0, <2>1
  <2>11. \A u \in Tasks \ {t} :
          /\ phase'[u] = phase[u] /\ host'[u] = host[u] /\ wire'[u] = wire[u]
          /\ snapshot'[u] = snapshot[u] /\ sent'[u] = sent[u] /\ held'[u] = held[u]
    BY <1>0, <1>8, <2>1 DEF Deliver
  <2> HIDE DEF n, r, m, p, h, seen, bytes, snap
  <2>12. MailOK(deployed, p, n, r, m, seen, h)
    BY <2>3, <2>4, <2>5, <2>6, <2>7, <2>8, <2>9, DeliveredMail
  <2>13. MailOK(deployed, phase'[t], host'[t], wire'[t], snapshot'[t], sent'[t], held'[t])
    BY <2>10, <2>12 DEF p, h
  <2> QED
    BY <1>0, <2>1, <2>11, <2>13, OneMail
<1> QED
  BY <1>1, <1>3, <1>4, <1>5, <1>6, <1>7, <1>8, Zenon DEF Next

-----------------------------------------------------------------------------
(* Where the values of a context come from *)

(* A value that is set is seen, and hides no other key. *)
LEMMA SetValueReads ==
  ASSUME NEW s \in Store, NEW k \in Keys, NEW v \in Vals, NEW j \in Keys
  PROVE  GetValue(SetValue(s, k, v), j) = IF j = k THEN v ELSE GetValue(s, j)
<1> DEFINE t == SetValue(s, k, v)
<1>1. s.cur \in Scope /\ s.cur.values \in Values /\ v # NoVal
  BY ContextStoreAssumption DEF Store, Scope
<1>2. t \in Store
  BY SetValueType
<1>3. t.chain = s.chain /\ t.frozen = s.frozen
  BY DEF SetValue, Store
<1>4. t.cur.values = [s.cur.values EXCEPT ![k] = v]
  BY <1>1 DEF SetValue, Store, Scope
<1>5. t.cur.values[j] = IF j = k THEN v ELSE s.cur.values[j]
  BY <1>1, <1>4 DEF Values
<1> HIDE DEF t
<1>6. Under(t) = Under(s)
  BY <1>3 DEF Under
<1>7. GetValue(t, j) = IF t.cur.values[j] # NoVal THEN t.cur.values[j]
                       ELSE LookIn(Under(s), j)
  BY <1>2, <1>6, GetValueCases
<1>8. GetValue(s, j) = IF s.cur.values[j] # NoVal THEN s.cur.values[j]
                       ELSE LookIn(Under(s), j)
  BY GetValueCases
<1> QED
  BY <1>1, <1>5, <1>7, <1>8 DEF t

(* Code that sets a value of its own follows what it did and itself. *)
LEMMA SetFollows ==
  ASSUME NEW s \in Store, NEW k \in Keys, NEW v \in Vals, NEW codes,
         Follows(s, codes), v.data \in codes
  PROVE  Follows(SetValue(s, k, v), codes)
  BY SetValueReads DEF Follows

(* What a sender takes along, and the bytes of it, follow what the sender does. *)
LEMMA CarriedFollows ==
  ASSUME NEW map \in RegistryMap, NEW seen \in Sight, NEW codes,
         \A k \in Keys : seen.values[k] # NoVal => seen.values[k].data \in codes
  PROVE  /\ SnapshotFollows(CarriedOf(map, seen), codes)
         /\ BytesFollow(SentBytes(map, seen), codes)
<1>1. \A k \in Keys : CarriedOf(map, seen).values[k] # NoVal =>
                        CarriedOf(map, seen).values[k] = seen.values[k]
  BY DEF CarriedOf
<1>2. SnapshotFollows(CarriedOf(map, seen), codes)
  BY <1>1 DEF SnapshotFollows
<1>3. ASSUME SentBytes(map, seen) # NoHeader, NEW e \in SentBytes(map, seen).entries
      PROVE  e.bytes.data \in codes
  <2>1. e \in EntriesOf(map, seen)
    BY <1>3, SentBytesType, WrittenIs
  <2>2. PICK k \in KeysOf(map, seen) : e = WireEntry(map, k, seen.values[k])
    BY <2>1 DEF EntriesOf
  <2>3. k \in Keys /\ seen.values[k] # NoVal /\ e.bytes.data = seen.values[k].data
    BY <2>2 DEF KeysOf, WireEntry
  <2> QED
    BY <2>3
<1> QED
  BY <1>2, <1>3 DEF BytesFollow

(* A snapshot that is decoded follows what its bytes do. *)
LEMMA UnpackedFollows ==
  ASSUME NEW map \in RegistryMap, NEW bytes \in WireContext \cup {NoHeader}, NEW codes,
         BytesFollow(bytes, codes)
  PROVE  SnapshotFollows(Unpacked(map, bytes), codes)
<1> SUFFICES ASSUME Unpacked(map, bytes) # NoHeader, NEW k \in Keys,
                    Unpacked(map, bytes).values[k] # NoVal
             PROVE  Unpacked(map, bytes).values[k].data \in codes
  BY DEF SnapshotFollows
<1>1. /\ bytes \in WireContext /\ Deserialize(map, bytes) # Failed
      /\ Unpacked(map, bytes) = Deserialize(map, bytes)
  BY UnpackedType
<1>2. bytes # NoHeader
  BY <1>1, ActorsAssumption
<1>3. PICK e \in bytes.entries : Deserialize(map, bytes).values[k].data = e.bytes.data
  BY <1>1, DeserializeType
<1> QED
  BY <1>1, <1>2, <1>3 DEF BytesFollow

(* A handler starts with values of its snapshot only. *)
LEMMA WrappedFollows ==
  ASSUME NEW map, NEW n \in Nodes, NEW snap \in Snapshot, NEW codes, NEW t,
         snap # NoHeader, SnapshotFollows(snap, codes)
  PROVE  Follows(Wrapped(map, n, snap), codes \cup {t})
<1>1. \A k \in Keys : GetValue(Wrapped(map, n, snap), k) # NoVal =>
                        GetValue(Wrapped(map, n, snap), k) = snap.values[k]
  BY WrappedReads
<1> QED
  BY <1>1 DEF Follows, SnapshotFollows

(* Code that is not mixed up runs in a context that follows it. *)
LEMMA RunningFollows ==
  ASSUME Causal, NEW w \in Threads, Running(w) \notin mixed
  PROVE  Follows(cell[w], past[Running(w)] \cup {Running(w)})
<1>1. ThreadFollows(w)
  BY DEF Causal
<1>2. CASE polled[w] = NoTask
  BY <1>1, <1>2 DEF Running, ThreadFollows
<1>3. CASE polled[w] # NoTask
  BY <1>1, <1>3 DEF Running, ThreadFollows
<1> QED
  BY <1>2, <1>3

(* What happens to a message that is not polled disturbs no thread. *)
LEMMA UnpolledFollows ==
  ASSUME Typed, Polls, Causal, NEW t \in Tasks, phase[t] # "running",
         polled' = polled, cell' = cell, prev' = prev,
         mixed' = mixed \/ mixed' = mixed \cup {t},
         \A c \in Code \ {t} : past'[c] = past[c],
         \A u \in Tasks \ {t} :
           /\ phase'[u] = phase[u] /\ wire'[u] = wire[u]
           /\ snapshot'[u] = snapshot[u] /\ held'[u] = held[u],
         t \notin mixed' =>
           TaskFollows(t, phase'[t], wire'[t], snapshot'[t], held'[t], past'[t])
  PROVE  Causal'
<1>1. ASSUME NEW u \in Tasks \ mixed'
      PROVE  TaskFollows(u, phase'[u], wire'[u], snapshot'[u], held'[u], past'[u])
  <2>1. CASE u = t
    BY <1>1, <2>1
  <2>2. CASE u # t
    <3>1. u \in Code \ {t} /\ u \in Tasks \ {t} /\ u \notin mixed
      BY <1>1, <2>2 DEF Code
    <3> QED
      BY <3>1 DEF Causal
  <2> QED
    BY <2>1, <2>2
<1>2. ASSUME NEW w \in Threads  PROVE ThreadFollows(w)'
  <2>1. ThreadFollows(w)
    BY DEF Causal
  <2>2. w \in Code \ {t} /\ (w \in mixed' <=> w \in mixed)
    BY ActorsAssumption DEF Code
  <2>3. CASE polled[w] = NoTask
    BY <2>1, <2>2, <2>3 DEF ThreadFollows
  <2>4. CASE polled[w] # NoTask
    <3> DEFINE u == polled[w]
    <3>1. u \in Tasks \ {t}
      BY <2>4 DEF Typed, Polls, PollOK
    <3>2. u \in Code \ {t} /\ (u \in mixed' <=> u \in mixed)
      BY <3>1 DEF Code
    <3>3. /\ past'[u] = past[u] /\ past'[w] = past[w] /\ snapshot'[u] = snapshot[u]
      BY <2>2, <3>1, <3>2
    <3>4. polled'[w] = u /\ cell'[w] = cell[w] /\ prev'[w] = prev[w]
      OBVIOUS
    <3> QED
      BY <2>1, <2>2, <2>4, <3>2, <3>3, <3>4 DEF ThreadFollows, IsWrapped
  <2> QED
    BY <2>3, <2>4
<1> QED
  BY <1>1, <1>2 DEF Causal

(* What a thread shows follows the code that runs there. *)
LEMMA SeenFollows ==
  ASSUME Typed, Causal, NEW w \in Threads, Running(w) \notin mixed,
         NEW map \in RegistryMap, Seen(w) \in Sight
  PROVE  /\ SnapshotFollows(CarriedOf(map, Seen(w)), past[Running(w)] \cup {Running(w)})
         /\ BytesFollow(SentBytes(map, Seen(w)), past[Running(w)] \cup {Running(w)})
<1> DEFINE codes == past[Running(w)] \cup {Running(w)}
           seen == Seen(w)
<1>1. Follows(cell[w], codes)
  BY RunningFollows
<1>2. \A k \in Keys : seen.values[k] = GetValue(cell[w], k)
  BY DEF Seen
<1> HIDE DEF seen, codes
<1>3. \A k \in Keys : seen.values[k] # NoVal => seen.values[k].data \in codes
  BY <1>1, <1>2 DEF Follows
<1>4. seen \in Sight
  BY DEF seen
<1>5. SnapshotFollows(CarriedOf(map, seen), codes) /\ BytesFollow(SentBytes(map, seen), codes)
  BY <1>3, <1>4, CarriedFollows
<1> QED
  BY <1>5 DEF seen, codes

(* No header follows anything. *)
LEMMA NothingFollows ==
  ASSUME NEW codes
  PROVE  BytesFollow(NoHeader, codes) /\ SnapshotFollows(NoHeader, codes)
BY DEF BytesFollow, SnapshotFollows

(* A message that is sent follows its sender. *)
LEMMA SentFollows ==
  ASSUME IInv, NEW w \in Threads, NEW t \in Tasks, NEW n, NEW bytes, NEW snap,
         Sent(w, t, n, bytes, snap),
         Running(w) \notin mixed =>
           /\ BytesFollow(bytes, past[Running(w)] \cup {Running(w)})
           /\ SnapshotFollows(snap, past[Running(w)] \cup {Running(w)})
  PROVE  Causal'
<1> DEFINE c == Running(w)
           codes == past[c] \cup {c}
<1>1. /\ Typed /\ Polls /\ Causal
      /\ DOMAIN phase = Tasks /\ DOMAIN wire = Tasks /\ DOMAIN snapshot = Tasks
      /\ DOMAIN past = Code
  BY DEF IInv, Typed
<1>2. /\ phase[t] = "unborn"
      /\ phase' = [phase EXCEPT ![t] = "sent"]
      /\ wire' = [wire EXCEPT ![t] = bytes]
      /\ snapshot' = [snapshot EXCEPT ![t] = snap]
      /\ past' = [past EXCEPT ![t] = codes]
      /\ mixed' = IF c \in mixed THEN mixed \cup {t} ELSE mixed
      /\ UNCHANGED <<cell, polled, prev, held>>
  BY DEF Sent
<1>3. c \notin mixed => BytesFollow(bytes, codes) /\ SnapshotFollows(snap, codes)
  OBVIOUS
<1> HIDE DEF c, codes
<1>4. t \in Code
  BY DEF Code
<1>5. /\ phase'[t] = "sent" /\ wire'[t] = bytes /\ snapshot'[t] = snap /\ past'[t] = codes
  BY <1>1, <1>2, <1>4
<1>6. t \notin mixed' =>
        TaskFollows(t, phase'[t], wire'[t], snapshot'[t], held'[t], past'[t])
  BY <1>2, <1>3, <1>5 DEF TaskFollows
<1>7. /\ \A u \in Tasks \ {t} :
           /\ phase'[u] = phase[u] /\ wire'[u] = wire[u]
           /\ snapshot'[u] = snapshot[u] /\ held'[u] = held[u]
      /\ \A x \in Code \ {t} : past'[x] = past[x]
  BY <1>1, <1>2
<1>8. mixed' = mixed \/ mixed' = mixed \cup {t}
  BY <1>2
<1> QED
  BY <1>1, <1>2, <1>6, <1>7, <1>8, UnpolledFollows

(* What a step does elsewhere does not disturb a thread, nor does code that is mixed up. *)
LEMMA ThreadUndisturbed ==
  ASSUME NEW v \in Threads, ThreadFollows(v), mixed \subseteq mixed',
         polled'[v] = polled[v], prev'[v] = prev[v], cell'[v] = cell[v],
         past' = past, snapshot' = snapshot
  PROVE  ThreadFollows(v)'
<1>1. PICK t, before, now, codes :
        t = polled[v] /\ before = prev[v] /\ now = cell[v] /\ codes = past
  OBVIOUS
<1>2. polled'[v] = t /\ prev'[v] = before /\ cell'[v] = now /\ past' = codes
  BY <1>1
<1>3. IsWrapped(t)' <=> IsWrapped(t)
  BY DEF IsWrapped
<1>4. /\ t = NoTask /\ v \notin mixed' => Follows(now, codes[v] \cup {v})
      /\ t # NoTask /\ IsWrapped(t) =>
           /\ v \notin mixed' => Follows(before, codes[v] \cup {v})
           /\ t \notin mixed' => Follows(now, codes[t] \cup {t})
      /\ t # NoTask /\ ~IsWrapped(t) => v \in mixed' /\ t \in mixed'
  BY <1>1 DEF ThreadFollows
<1>5. /\ t = NoTask /\ v \notin mixed' => Follows(now, codes[v] \cup {v})'
      /\ t # NoTask /\ IsWrapped(t)' =>
           /\ v \notin mixed' => Follows(before, codes[v] \cup {v})'
           /\ t \notin mixed' => Follows(now, codes[t] \cup {t})'
      /\ t # NoTask /\ ~IsWrapped(t)' => v \in mixed' /\ t \in mixed'
  BY <1>3, <1>4
<1> QED
  BY <1>2, <1>5 DEF ThreadFollows

(* Setting a value disturbs only the context that it is set in. *)
LEMMA SetVariableFollows ==
  ASSUME IInv, NEW w \in Threads, NEW k \in Keys, NEW type \in Types,
         SetVariable(w, k, type)
  PROVE  Causal'
<1> DEFINE c == Running(w)
           v == [type |-> type, data |-> c]
           s == cell[w]
<1>1. Typed /\ Causal
  BY DEF IInv
<1>2. /\ cell' = [cell EXCEPT ![w] = SetValue(s, k, v)]
      /\ UNCHANGED <<polled, prev, phase, wire, snapshot, held, past, mixed>>
  BY DEF SetVariable
<1>3. s \in Store /\ v \in Vals /\ v.data = c
  BY <1>1, RunningType, WireAssumption DEF Typed, SoundStores, Value
<1>4. c \notin mixed => Follows(s, past[c] \cup {c})
  BY <1>1, RunningFollows
<1> HIDE DEF v, s
<1>5. c \notin mixed => Follows(SetValue(s, k, v), past[c] \cup {c})
  <2> DEFINE codes == past[c] \cup {c}
  <2>1. v.data \in codes
    BY <1>3
  <2>2. c \notin mixed => Follows(s, codes)
    BY <1>4
  <2> HIDE DEF codes
  <2>3. c \notin mixed => Follows(SetValue(s, k, v), codes)
    BY <1>3, <2>1, <2>2, SetFollows
  <2> QED
    BY <2>3 DEF codes
<1>6. \A u \in Threads : cell'[u] = IF u = w THEN SetValue(s, k, v) ELSE cell[u]
  BY <1>1, <1>2 DEF Typed
<1>7. ASSUME NEW u \in Threads  PROVE ThreadFollows(u)'
  <2>1. ThreadFollows(u)
    BY <1>1 DEF Causal
  <2>2. CASE u # w
    BY <1>2, <1>6, <2>1, <2>2, ThreadUndisturbed
  <2>3. CASE u = w
    <3>1. cell'[w] = SetValue(s, k, v)
      BY <1>6
    <3> HIDE DEF c
    <3>2. CASE polled[w] = NoTask
      <4>1. c = w
        BY <3>2 DEF c, Running
      <4> QED
        BY <1>2, <1>5, <2>3, <3>1, <3>2, <4>1 DEF ThreadFollows
    <3>3. CASE polled[w] # NoTask
      <4>1. c = polled[w]
        BY <3>3 DEF c, Running
      <4> QED
        BY <1>2, <1>5, <2>1, <2>3, <3>1, <3>3, <4>1 DEF ThreadFollows, IsWrapped
    <3> QED
      BY <3>2, <3>3
  <2> QED
    BY <2>2, <2>3
<1>8. \A t \in Tasks \ mixed' :
        TaskFollows(t, phase'[t], wire'[t], snapshot'[t], held'[t], past'[t])
  BY <1>1, <1>2 DEF Causal
<1> QED
  BY <1>7, <1>8 DEF Causal

(* A handler that is polled brings its own context, or is mixed up from then on
   with the thread. *)
LEMMA PollFollows ==
  ASSUME IInv, NEW w \in Threads, NEW t \in Tasks, Poll(w, t)
  PROVE  Causal'
<1>1. Typed /\ Polls /\ Causal
  BY DEF IInv
<1>2. /\ polled[w] = NoTask
      /\ phase[t] \in {"delivered", "suspended"}
      /\ polled' = [polled EXCEPT ![w] = t]
      /\ phase' = [phase EXCEPT ![t] = "running"]
      /\ UNCHANGED <<wire, snapshot, past>>
  BY DEF Poll
<1>3. /\ \A v \in Threads : polled'[v] = IF v = w THEN t ELSE polled[v]
      /\ \A u \in Tasks : phase'[u] = IF u = t THEN "running" ELSE phase[u]
  BY <1>1, <1>2 DEF Typed
<1>4. t # NoTask
  BY ActorsAssumption
<1>5. CASE IsWrapped(t)
  <2>1. /\ prev' = [prev EXCEPT ![w] = cell[w]]
        /\ cell' = [cell EXCEPT ![w] = held[t]]
        /\ held' = [held EXCEPT ![t] = NoStore]
        /\ mixed' = mixed
    BY <1>5 DEF Poll
  <2>2. /\ \A v \in Threads : prev'[v] = IF v = w THEN cell[w] ELSE prev[v]
        /\ \A v \in Threads : cell'[v] = IF v = w THEN held[t] ELSE cell[v]
        /\ \A u \in Tasks \ {t} : held'[u] = held[u]
    BY <1>1, <2>1 DEF Typed
  <2>3. ASSUME NEW u \in Tasks \ mixed'
        PROVE  TaskFollows(u, phase'[u], wire'[u], snapshot'[u], held'[u], past'[u])
    <3>1. TaskFollows(u, phase[u], wire[u], snapshot[u], held[u], past[u])
      BY <1>1, <2>1, <2>3 DEF Causal
    <3>2. CASE u = t
      BY <1>2, <1>3, <3>1, <3>2 DEF TaskFollows
    <3>3. CASE u # t
      BY <1>2, <1>3, <2>2, <3>1, <3>3
    <3> QED
      BY <3>2, <3>3
  <2>4. ASSUME NEW v \in Threads  PROVE ThreadFollows(v)'
    <3>1. ThreadFollows(v)
      BY <1>1 DEF Causal
    <3>2. CASE v = w
      <4>1. w \notin mixed => Follows(cell[w], past[w] \cup {w})
        BY <1>2, <3>1, <3>2 DEF ThreadFollows
      <4>2. t \notin mixed => Follows(held[t], past[t] \cup {t})
        <5>1. t \notin mixed =>
                TaskFollows(t, phase[t], wire[t], snapshot[t], held[t], past[t])
          BY <1>1 DEF Causal
        <5> QED
          BY <1>2, <1>5, <5>1 DEF TaskFollows, IsWrapped
      <4>3. /\ polled'[v] = t /\ prev'[v] = cell[w] /\ cell'[v] = held[t]
        BY <1>3, <2>2, <3>2
      <4>4. v \notin mixed' => Follows(prev'[v], past'[v] \cup {v})
        BY <1>2, <2>1, <3>2, <4>1, <4>3
      <4>5. t \notin mixed' => Follows(cell'[v], past'[t] \cup {t})
        BY <1>2, <2>1, <4>2, <4>3
      <4>6. snapshot'[t] # NoHeader
        BY <1>2, <1>5 DEF IsWrapped
      <4> QED
        BY <1>4, <4>3, <4>4, <4>5, <4>6 DEF ThreadFollows, IsWrapped
    <3>3. CASE v # w
      <4>1. polled'[v] = polled[v] /\ prev'[v] = prev[v] /\ cell'[v] = cell[v]
        BY <1>3, <2>2, <3>3
      <4> QED
        BY <1>2, <2>1, <3>1, <4>1, ThreadUndisturbed
    <3> QED
      BY <3>2, <3>3
  <2> QED
    BY <2>3, <2>4 DEF Causal
<1>6. CASE ~IsWrapped(t)
  <2>1. mixed' = mixed \cup {w, t} /\ prev' = prev /\ cell' = cell /\ held' = held
    BY <1>6 DEF Poll
  <2>2. ASSUME NEW u \in Tasks \ mixed'
        PROVE  TaskFollows(u, phase'[u], wire'[u], snapshot'[u], held'[u], past'[u])
    <3>1. TaskFollows(u, phase[u], wire[u], snapshot[u], held[u], past[u])
      BY <1>1, <2>1, <2>2 DEF Causal
    <3>2. phase'[u] = phase[u]
      BY <1>3, <2>1, <2>2
    <3> QED
      BY <1>2, <2>1, <3>1, <3>2
  <2>3. ASSUME NEW v \in Threads  PROVE ThreadFollows(v)'
    <3>1. ThreadFollows(v)
      BY <1>1 DEF Causal
    <3>2. CASE v = w
      <4>1. polled'[v] = t /\ w \in mixed' /\ t \in mixed' /\ ~IsWrapped(t)'
        BY <1>2, <1>3, <1>6, <2>1, <3>2 DEF IsWrapped
      <4> QED
        BY <1>4, <3>2, <4>1 DEF ThreadFollows
    <3>3. CASE v # w
      <4>1. polled'[v] = polled[v] /\ prev'[v] = prev[v] /\ cell'[v] = cell[v]
        BY <1>3, <2>1, <3>3
      <4> QED
        BY <1>2, <2>1, <3>1, <4>1, ThreadUndisturbed
    <3> QED
      BY <3>2, <3>3
  <2> QED
    BY <2>2, <2>3 DEF Causal
<1> QED
  BY <1>5, <1>6

(* A poll that returns puts each context back where it belongs. *)
LEMMA ReturnFollows ==
  ASSUME IInv, NEW w \in Threads, NEW done \in BOOLEAN, Return(w, done)
  PROVE  Causal'
<1> DEFINE t == polled[w]
           p == IF done THEN "done" ELSE "suspended"
<1>1. Typed /\ Polls /\ Causal
  BY DEF IInv
<1>2. /\ t # NoTask
      /\ polled' = [polled EXCEPT ![w] = NoTask]
      /\ phase' = [phase EXCEPT ![t] = p]
      /\ mixed' = mixed
      /\ Forget(t, done)
  BY DEF Return
<1>3. t \in Tasks /\ t \in Code /\ \A v \in Threads : v # t
  BY <1>1, <1>2, RunningType, ActorsAssumption DEF Code
<1>4. /\ \A v \in Threads : polled'[v] = IF v = w THEN NoTask ELSE polled[v]
      /\ \A u \in Tasks : phase'[u] = IF u = t THEN p ELSE phase[u]
  BY <1>1, <1>2 DEF Typed
<1>5. \A v \in Threads \ {w} : polled[v] # t
  BY <1>1, <1>2 DEF Polls
<1>6. /\ \A u \in Tasks \ {t} : wire'[u] = wire[u] /\ snapshot'[u] = snapshot[u]
      /\ \A c \in Code \ {t} : past'[c] = past[c]
      /\ done => wire'[t] = NoHeader /\ snapshot'[t] = NoHeader
      /\ ~done => wire'[t] = wire[t] /\ snapshot'[t] = snapshot[t] /\ past'[t] = past[t]
  BY <1>1, <1>2, <1>3 DEF Forget, Typed
<1>7. /\ \A u \in Tasks \ {t} : held'[u] = held[u]
      /\ \A v \in Threads \ {w} : cell'[v] = cell[v] /\ prev'[v] = prev[v]
      /\ IsWrapped(t) => /\ cell'[w] = prev[w]
                         /\ ~done => held'[t] = cell[w]
      /\ ~IsWrapped(t) => cell'[w] = cell[w]
  BY <1>1, <1>3 DEF Return, Typed
<1>8. ThreadFollows(w)
  BY <1>1 DEF Causal
<1> HIDE DEF p
<1>9. ASSUME NEW u \in Tasks \ mixed'
      PROVE  TaskFollows(u, phase'[u], wire'[u], snapshot'[u], held'[u], past'[u])
  <2>1. TaskFollows(u, phase[u], wire[u], snapshot[u], held[u], past[u])
    BY <1>1, <1>2, <1>9 DEF Causal
  <2>2. CASE u # t
    <3>1. u \in Tasks \ {t} /\ u \in Code \ {t}
      BY <2>2 DEF Code
    <3>2. /\ phase'[u] = phase[u] /\ wire'[u] = wire[u] /\ snapshot'[u] = snapshot[u]
          /\ held'[u] = held[u] /\ past'[u] = past[u]
      BY <1>4, <1>6, <1>7, <3>1
    <3> QED
      BY <2>1, <3>2
  <2>3. CASE u = t /\ done
    <3>1. wire'[u] = NoHeader /\ snapshot'[u] = NoHeader
      BY <1>6, <2>3
    <3> QED
      BY <3>1, NothingFollows DEF TaskFollows
  <2>4. CASE u = t /\ ~done
    <3>1. /\ wire'[u] = wire[u] /\ snapshot'[u] = snapshot[u] /\ past'[u] = past[u]
      BY <1>6, <2>4
    <3>2. snapshot'[u] # NoHeader => Follows(held'[u], past'[u] \cup {u})
      BY <1>2, <1>7, <1>8, <1>9, <2>4, <3>1 DEF ThreadFollows, IsWrapped
    <3> QED
      BY <2>1, <3>1, <3>2 DEF TaskFollows
  <2> QED
    BY <2>2, <2>3, <2>4
<1>10. ASSUME NEW v \in Threads  PROVE ThreadFollows(v)'
  <2>1. v \in Code \ {t}
    BY <1>3 DEF Code
  <2>2. past'[v] = past[v]
    BY <1>6, <2>1
  <2>3. CASE v = w
    <3>1. polled'[v] = NoTask
      BY <1>4, <2>3
    <3>2. w \notin mixed => Follows(cell'[w], past[w] \cup {w})
      BY <1>2, <1>7, <1>8 DEF ThreadFollows
    <3> QED
      BY <1>2, <2>2, <2>3, <3>1, <3>2 DEF ThreadFollows
  <2>4. CASE v # w
    <3> DEFINE u == polled[v]
    <3>1. polled'[v] = u /\ cell'[v] = cell[v] /\ prev'[v] = prev[v] /\ u # t
      BY <1>4, <1>5, <1>7, <2>4
    <3>2. u # NoTask => snapshot'[u] = snapshot[u] /\ past'[u] = past[u]
      <4>1. u # NoTask => u \in Tasks \ {t} /\ u \in Code \ {t}
        BY <1>1, <3>1, RunningType DEF Code
      <4> QED
        BY <1>6, <4>1
    <3>3. ThreadFollows(v)
      BY <1>1 DEF Causal
    <3> QED
      BY <1>2, <2>2, <3>1, <3>2, <3>3 DEF ThreadFollows, IsWrapped
  <2> QED
    BY <2>3, <2>4
<1> QED
  BY <1>9, <1>10 DEF Causal

(* What is delivered follows what was sent. *)
LEMMA DeliverFollows ==
  ASSUME IInv, NEW t \in Tasks, Deliver(t)
  PROVE  Causal'
<1> DEFINE r == Received(t)
           m == Normalized(t)
           codes == past[t]
           n == host[t]
           map == Map(n)
<1>1. /\ Typed /\ Polls /\ Causal
      /\ DOMAIN phase = Tasks /\ DOMAIN wire = Tasks /\ DOMAIN snapshot = Tasks
      /\ DOMAIN held = Tasks /\ n \in Nodes /\ deployed \in Deployments
  BY DEF IInv, Typed
<1>2. /\ phase[t] = "sent"
      /\ snapshot' = [snapshot EXCEPT ![t] = m]
      /\ wire' = [wire EXCEPT ![t] = r]
      /\ UNCHANGED <<cell, polled, prev, past, mixed>>
  BY DEF Deliver
<1>3. r \in WireContext \cup {NoHeader} /\ m \in Snapshot \cup {NoHeader}
  BY <1>1, DeliverTyped
<1>4. map \in RegistryMap
  BY <1>1, Deployed DEF Map
<1>5. \A u \in Tasks \ {t} :
        /\ phase'[u] = phase[u] /\ wire'[u] = wire[u]
        /\ snapshot'[u] = snapshot[u] /\ held'[u] = held[u]
  BY <1>1, <1>2 DEF Deliver
<1>6. m # NoHeader => held'[t] = Wrapped(map, n, m)
  BY <1>1 DEF Deliver, Undecodable
<1>7. m = IF snapshot[t] # NoHeader THEN snapshot[t] ELSE Unpacked(map, r)
  BY UnpackedIs DEF Normalized, Map
<1>8. r = NoHeader \/ r = wire[t]
  BY DEF Received
<1>9. wire'[t] = r /\ snapshot'[t] = m /\ past'[t] = codes
  BY <1>1, <1>2
<1>10. ASSUME t \notin mixed
       PROVE  TaskFollows(t, phase[t], wire[t], snapshot[t], held[t], codes)
  BY <1>1, <1>10 DEF Causal
<1> HIDE DEF r, m, codes, n, map
<1>11. ASSUME t \notin mixed'
       PROVE  TaskFollows(t, phase'[t], wire'[t], snapshot'[t], held'[t], past'[t])
  <2>1. BytesFollow(wire[t], codes) /\ SnapshotFollows(snapshot[t], codes)
    BY <1>2, <1>10, <1>11 DEF TaskFollows
  <2>2. BytesFollow(r, codes)
    BY <1>8, <2>1, NothingFollows
  <2>3. SnapshotFollows(m, codes)
    BY <1>3, <1>4, <1>7, <2>1, <2>2, UnpackedFollows
  <2>4. m # NoHeader => Follows(Wrapped(map, n, m), codes \cup {t})
    BY <1>1, <1>3, <2>3, WrappedFollows
  <2> QED
    BY <1>6, <1>9, <2>2, <2>3, <2>4 DEF TaskFollows
<1>12. phase[t] # "running" /\ (mixed' = mixed) /\ \A c \in Code \ {t} : past'[c] = past[c]
  BY <1>2
<1> QED
  BY <1>1, <1>2, <1>5, <1>11, <1>12, UnpolledFollows

(* Every step keeps where the values come from. *)
LEMMA NextCausal == IInv /\ Next => Causal'
<1> SUFFICES ASSUME IInv, Next  PROVE Causal'
  OBVIOUS
<1>0. Typed /\ Polls /\ Mail /\ Causal
  BY DEF IInv
<1>1. ASSUME NEW w \in Threads, NEW k \in Keys, NEW type \in Types,
             SetVariable(w, k, type)
      PROVE  Causal'
  BY <1>1, SetVariableFollows
<1>2. ASSUME NEW w \in Threads, NEW t \in Tasks, SendLocal(w, t)
      PROVE  Causal'
  <2> DEFINE map == deployed.registry[NodeOf[w]]
  <2>1. /\ Seen(w) \in Sight
        /\ Sent(w, t, NodeOf[w], NoHeader, CarriedOf(map, Seen(w)))
    BY <1>0, <1>2, SendLocalIs
  <2>2. map \in RegistryMap
    BY <1>0, Deployed, RunningType DEF Typed
  <2>3. Running(w) \notin mixed =>
          SnapshotFollows(CarriedOf(map, Seen(w)), past[Running(w)] \cup {Running(w)})
    BY <1>0, <2>1, <2>2, SeenFollows
  <2> HIDE DEF map
  <2> QED
    BY <2>1, <2>3, NothingFollows, SentFollows
<1>3. ASSUME NEW w \in Threads, NEW t \in Tasks, NEW n \in Nodes, SendRemote(w, t, n)
      PROVE  Causal'
  <2> DEFINE map == deployed.registry[NodeOf[w]]
  <2>1. Seen(w) \in Sight /\ Sent(w, t, n, SentBytes(map, Seen(w)), NoHeader)
    BY <1>0, <1>3, SendRemoteIs
  <2>2. map \in RegistryMap
    BY <1>0, Deployed, RunningType DEF Typed
  <2>3. Running(w) \notin mixed =>
          BytesFollow(SentBytes(map, Seen(w)), past[Running(w)] \cup {Running(w)})
    BY <1>0, <2>1, <2>2, SeenFollows
  <2> HIDE DEF map
  <2> QED
    BY <2>1, <2>3, NothingFollows, SentFollows
<1>4. ASSUME NEW w \in Threads, NEW t \in Tasks, Poll(w, t)
      PROVE  Causal'
  BY <1>4, PollFollows
<1>5. ASSUME NEW w \in Threads, NEW done \in BOOLEAN, Return(w, done)
      PROVE  Causal'
  BY <1>5, ReturnFollows
<1>6. ASSUME NEW t \in Tasks, NEW n \in Nodes, NEW bytes \in Foreign, Arrive(t, n, bytes)
      PROVE  Causal'
  <2>1. /\ phase[t] = "unborn"
        /\ phase' = [phase EXCEPT ![t] = "sent"]
        /\ wire' = [wire EXCEPT ![t] = bytes]
        /\ past' = [past EXCEPT ![t] = {Outside}]
        /\ UNCHANGED <<cell, polled, prev, snapshot, held, mixed>>
    BY <1>6 DEF Arrive
  <2>2. snapshot[t] = NoHeader
    BY <1>0, <2>1 DEF Mail, MailOK, BlankOK
  <2>3. BytesFollow(bytes, {Outside})
    BY ActorsAssumption DEF BytesFollow
  <2>4. /\ phase'[t] = "sent" /\ wire'[t] = bytes /\ snapshot'[t] = NoHeader
        /\ past'[t] = {Outside}
    BY <1>0, <2>1, <2>2 DEF Typed, Code
  <2>5. TaskFollows(t, phase'[t], wire'[t], snapshot'[t], held'[t], past'[t])
    BY <2>3, <2>4, NothingFollows DEF TaskFollows
  <2>6. /\ \A u \in Tasks \ {t} :
             /\ phase'[u] = phase[u] /\ wire'[u] = wire[u]
             /\ snapshot'[u] = snapshot[u] /\ held'[u] = held[u]
        /\ \A x \in Code \ {t} : past'[x] = past[x]
    BY <1>0, <2>1 DEF Typed
  <2> QED
    BY <1>0, <2>1, <2>5, <2>6, UnpolledFollows
<1>7. ASSUME NEW t \in Tasks, Deliver(t)  PROVE Causal'
  BY <1>7, DeliverFollows
<1> QED
  BY <1>1, <1>2, <1>3, <1>4, <1>5, <1>6, <1>7, Zenon DEF Next

-----------------------------------------------------------------------------
(* The invariant *)

(* The program starts in it: empty stores, no message. *)
LEMMA InitIInv == Init => IInv
<1> SUFFICES ASSUME Init  PROVE IInv
  OBVIOUS
<1>1. /\ deployed \in Deployments
      /\ cell = [w \in Threads |-> NewStore]
      /\ polled = [w \in Threads |-> NoTask]
      /\ prev = [w \in Threads |-> NoStore]
      /\ phase = [t \in Tasks |-> "unborn"]
      /\ host = [t \in Tasks |-> CHOOSE n \in Nodes : TRUE]
      /\ wire = [t \in Tasks |-> NoHeader]
      /\ snapshot = [t \in Tasks |-> NoHeader]
      /\ held = [t \in Tasks |-> NoStore]
      /\ sent = [t \in Tasks |-> NoHeader]
      /\ past = [c \in Code |-> {}]
      /\ mixed = {}
  BY DEF Init
<1>2. NewStore \in SoundStores
  BY SoundNew, SoundIsStore
<1>3. (CHOOSE n \in Nodes : TRUE) \in Nodes
  BY ActorsAssumption
<1>4. Typed
  BY <1>1, <1>2, <1>3 DEF Typed
<1>5. Polls
  BY <1>1 DEF Polls, PollOK
<1>6. Mail
  <2> SUFFICES ASSUME NEW t \in Tasks
               PROVE  MailOK(deployed, phase[t], host[t], wire[t], snapshot[t],
                             sent[t], held[t])
    BY DEF Mail
  <2>1. /\ phase[t] = "unborn" /\ wire[t] = NoHeader /\ snapshot[t] = NoHeader
        /\ sent[t] = NoHeader /\ held[t] = NoStore
    BY <1>1
  <2> QED
    BY <2>1 DEF MailOK, HandlerOK, BlankOK, LocalOK, BytesOK, OutsideOK, SnapshotOK,
                StrictOK, HeldOK
<1>7. Causal
  <2>1. ASSUME NEW t \in Tasks
        PROVE  TaskFollows(t, phase[t], wire[t], snapshot[t], held[t], past[t])
    BY <1>1, NothingFollows DEF TaskFollows
  <2>2. ASSUME NEW w \in Threads  PROVE ThreadFollows(w)
    <3>1. polled[w] = NoTask /\ cell[w] = NewStore
      BY <1>1
    <3>2. Follows(NewStore, past[w] \cup {w})
      BY NewStoreReads DEF Follows
    <3> QED
      BY <3>1, <3>2 DEF ThreadFollows
  <2> QED
    BY <2>1, <2>2 DEF Causal
<1> QED
  BY <1>4, <1>5, <1>6, <1>7 DEF IInv

(* Every step keeps it. *)
LEMMA NextIInv == IInv /\ [Next]_vars => IInv'
<1> SUFFICES ASSUME IInv, [Next]_vars  PROVE IInv'
  OBVIOUS
<1>1. CASE Next
  BY <1>1, NextTyped, NextPolls, NextMail, NextCausal DEF IInv
<1>2. CASE UNCHANGED vars
  <2>1. UNCHANGED <<deployed, cell, polled, prev, phase, host, wire, snapshot, held,
                    sent, past, mixed>>
    BY <1>2 DEF vars
  <2>2. Typed' /\ Polls' /\ Mail'
    BY <2>1 DEF IInv, Typed, Polls, PollOK, IsWrapped, Mail
  <2>3. Causal'
    BY <2>1 DEF IInv, Causal, ThreadFollows, IsWrapped
  <2> QED
    BY <2>2, <2>3 DEF IInv
<1> QED
  BY <1>1, <1>2

(* The invariant of all that follows: what is polled is running; the headers of a
   message are what its sender saw, as far as they got; and values follow the code
   that wrote them. *)
THEOREM SpecIInv == Spec => []IInv
<1>1. Init => IInv
  BY InitIInv
<1>2. IInv /\ [Next]_vars => IInv'
  BY NextIInv
<1> QED
  BY <1>1, <1>2, PTL DEF Spec

(* The variables keep their types, whatever the nodes do. *)
THEOREM SpecTypeOK == Spec => []TypeOK
<1>1. IInv => TypeOK
  <2>1. SoundStores \subseteq Store
    BY DEF SoundStores
  <2> QED
    BY <2>1 DEF IInv, Typed, TypeOK
<1> QED
  BY <1>1, SpecIInv, PTL

-----------------------------------------------------------------------------
(* What handlers are given *)

(* The parts of the invariant that are about one message. *)
LEMMA MailOf ==
  ASSUME IInv, NEW t \in Tasks
  PROVE  /\ MailOK(deployed, phase[t], host[t], wire[t], snapshot[t], sent[t], held[t])
         /\ deployed \in Deployments /\ host[t] \in Nodes
         /\ Map(host[t]) \in RegistryMap /\ Sound(Map(host[t]))
         /\ wire[t] \in WireContext \cup {NoHeader}
         /\ snapshot[t] \in Snapshot \cup {NoHeader}
         /\ sent[t] # NoHeader => /\ sent[t] \in Sight /\ sent[t].node \in Nodes
                                  /\ Map(sent[t].node) \in RegistryMap
                                  /\ Sound(Map(sent[t].node))
<1>1. /\ deployed \in Deployments /\ host[t] \in Nodes
      /\ wire[t] \in WireContext \cup {NoHeader}
      /\ snapshot[t] \in Snapshot \cup {NoHeader}
      /\ sent[t] \in Sight \cup {NoHeader}
  BY DEF IInv, Typed
<1>2. sent[t] # NoHeader => sent[t] \in Sight /\ sent[t].node \in Nodes
  BY <1>1 DEF Sight
<1>3. MailOK(deployed, phase[t], host[t], wire[t], snapshot[t], sent[t], held[t])
  BY DEF IInv, Mail
<1> QED
  BY <1>1, <1>2, <1>3, Deployed DEF Map

(* The snapshot of a message from another node is what its bytes decode to. *)
LEMMA ArrivedSnapshot ==
  ASSUME IInv, NEW t \in Tasks, Remote(t), snapshot[t] # NoHeader
  PROVE  /\ wire[t] \in WireContext
         /\ Deserialize(Map(host[t]), wire[t]) # Failed
         /\ snapshot[t] = Deserialize(Map(host[t]), wire[t])
<1>1. phase[t] \notin {"unborn", "done", "sent"}
  BY MailOf DEF MailOK, BlankOK, SnapshotOK, Remote
<1>2. snapshot[t] = Unpacked(Map(host[t]), wire[t])
  BY <1>1, MailOf DEF MailOK, SnapshotOK, Remote, Map
<1> QED
  BY <1>2, MailOf, UnpackedType

(* The bytes of a message that another node has sent are those of its sight. *)
LEMMA ArrivedBytes ==
  ASSUME IInv, NEW t \in Tasks, wire[t] # NoHeader, sent[t] # NoHeader
  PROVE  /\ sent[t].node # host[t]
         /\ Serialize(Map(sent[t].node), CarriedOf(Map(sent[t].node), sent[t])) # Failed
         /\ wire[t] = Serialize(Map(sent[t].node), CarriedOf(Map(sent[t].node), sent[t]))
<1>1. phase[t] \notin {"unborn", "done"}
  BY MailOf DEF MailOK, BlankOK
<1>2. sent[t].node # host[t]
  BY <1>1, MailOf DEF MailOK, LocalOK
<1>3. wire[t] = SentBytes(Map(sent[t].node), sent[t])
  <2>1. wire[t] = SentBytes(Map(sent[t].node), sent[t]) \/ Dropped(deployed, phase[t], host[t])
    BY <1>1, <1>2, MailOf DEF MailOK, BytesOK, Map
  <2>2. ~Dropped(deployed, phase[t], host[t])
    BY <1>1, <1>2, MailOf DEF MailOK, SnapshotOK, Dropped
  <2> QED
    BY <2>1, <2>2
<1> QED
  BY <1>2, <1>3, MailOf, SentBytesType

(* No bytes carry a key that their sender keeps to itself: capture leaves it out
   before anything is serialized. *)
THEOREM SpecLocalOnlyStaysHome == Spec => []LocalOnlyStaysHome
<1>1. IInv => LocalOnlyStaysHome
  <2> SUFFICES ASSUME IInv, NEW t \in Tasks, wire[t] # NoHeader, sent[t] # NoHeader,
                      NEW e \in wire[t].entries
               PROVE  e.key \notin LocalKeysOf(Map(sent[t].node))
    BY DEF LocalOnlyStaysHome
  <2> DEFINE map == Map(sent[t].node)
             seen == sent[t]
  <2>1. map \in RegistryMap /\ seen \in Sight
    BY MailOf
  <2>2. /\ Serialize(map, CarriedOf(map, seen)) # Failed
        /\ wire[t] = Serialize(map, CarriedOf(map, seen))
    BY ArrivedBytes
  <2> HIDE DEF map, seen
  <2>3. e \in EntriesOf(map, seen)
    BY <2>1, <2>2, WrittenIs
  <2>4. e.key \in KeysOf(map, seen)
    BY <2>3 DEF EntriesOf, WireEntry
  <2> QED
    BY <2>4 DEF KeysOf, map
<1> QED
  BY <1>1, SpecIInv, PTL

(* A context that was decoded is attached as a whole, whatever version of whatever
   program wrote it: every value is of the type that its key has here, and no key
   that is local-only here has one. *)
THEOREM SpecDecodedIsAttachable == Spec => []DecodedIsAttachable
<1>1. IInv => DecodedIsAttachable
  <2> SUFFICES ASSUME IInv, NEW t \in Tasks, snapshot[t] # NoHeader, Remote(t),
                      NEW k \in Keys, snapshot[t].values[k] # NoVal
               PROVE  /\ IsValidValue(Map(host[t]), k, snapshot[t].values[k])
                      /\ k \notin LocalKeysOf(Map(host[t]))
    BY DEF DecodedIsAttachable
  <2>1. /\ wire[t] \in WireContext
        /\ Deserialize(Map(host[t]), wire[t]) # Failed
        /\ snapshot[t] = Deserialize(Map(host[t]), wire[t])
    BY ArrivedSnapshot
  <2>2. Map(host[t]) \in RegistryMap /\ Sound(Map(host[t]))
    BY MailOf
  <2> QED
    BY <2>1, <2>2, DeserializedIsValid
<1> QED
  BY <1>1, SpecIInv, PTL

(* A handler without a context, on a node that rebuilds the header, either lost it
   on a node that does not reject what it cannot decode, or never got it from a
   sender that does not. *)
THEOREM SpecStrictNodesKeepContext == Spec => []StrictNodesKeepContext
<1>1. IInv => StrictNodesKeepContext
  <2> SUFFICES ASSUME IInv, NEW t \in Tasks,
                      phase[t] \in {"delivered", "running", "suspended"}, ~IsWrapped(t),
                      Strict(host[t]), Remote(t) => deployed.header[host[t]]
               PROVE  sent[t] # NoHeader /\ ~Strict(sent[t].node)
    BY DEF StrictNodesKeepContext
  <2> DEFINE ph == phase[t]
             n == host[t]
             seen == sent[t]
  <2>1. MailOK(deployed, ph, n, wire[t], snapshot[t], seen, held[t])
    BY MailOf
  <2>2. snapshot[t] = NoHeader
    BY DEF IsWrapped
  <2>3. wire[t] = NoHeader
    BY <2>1, <2>2 DEF MailOK, StrictOK, Strict
  <2>4. CASE seen = NoHeader
    BY <2>1, <2>3, <2>4 DEF MailOK, OutsideOK, Dropped, Remote
  <2>5. CASE seen # NoHeader /\ seen.node = n
    <3>1. snapshot[t] = CarriedOf(deployed.registry[n], seen) /\ seen \in Sight
      BY <2>1, <2>5, MailOf DEF MailOK, LocalOK
    <3> QED
      BY <2>2, <3>1, CarriedType
  <2>6. CASE seen # NoHeader /\ seen.node # n
    <3>1. SentBytes(deployed.registry[seen.node], seen) = NoHeader
      BY <2>1, <2>3, <2>6 DEF MailOK, BytesOK, Dropped, Remote
    <3>2. deployed.policy[seen.node] # "Reject"
      BY <2>1, <2>6, <3>1 DEF MailOK, BytesOK
    <3> QED
      BY <2>6, <3>2 DEF Strict
  <2> QED
    BY <2>4, <2>5, <2>6
<1> QED
  BY <1>1, SpecIInv, PTL

(* A context that a sender had, and that is not there when the message arrives at a
   node that rebuilds its header, was too large, or had a value that could not be
   written or not be read: nothing else loses one. *)
THEOREM SpecContextLostForAReason == Spec => []ContextLostForAReason
<1>1. IInv => ContextLostForAReason
  <2> SUFFICES ASSUME IInv, NEW t \in Tasks, phase[t] \in {"delivered", "rejected"},
                      ~IsWrapped(t), sent[t] # NoHeader,
                      Remote(t) => deployed.header[host[t]]
               PROVE  Remote(t) /\ Reason(sent[t].node, host[t], sent[t])
    BY DEF ContextLostForAReason
  <2> DEFINE ph == phase[t]
             n == host[t]
             seen == sent[t]
             from == Map(seen.node)
             to == Map(n)
  <2>1. MailOK(deployed, ph, n, wire[t], snapshot[t], seen, held[t])
    BY MailOf
  <2>2. /\ snapshot[t] = NoHeader /\ seen \in Sight
        /\ from \in RegistryMap /\ to \in RegistryMap /\ Sound(to)
        /\ wire[t] \in WireContext \cup {NoHeader}
    BY MailOf DEF IsWrapped
  <2>3. seen.node # n
    <3> SUFFICES ASSUME seen.node = n  PROVE FALSE
      OBVIOUS
    <3>1. snapshot[t] = CarriedOf(deployed.registry[n], seen)
      BY <2>1 DEF MailOK, LocalOK
    <3> QED
      BY <2>2, <3>1, CarriedType
  <2>4. Remote(t)
    BY <2>3 DEF Remote
  <2>5. wire[t] = SentBytes(from, seen)
    BY <2>1, <2>3, <2>4 DEF MailOK, BytesOK, Dropped, Map
  <2>6. Unpacked(to, wire[t]) = NoHeader
    BY <2>1, <2>2, <2>3 DEF MailOK, SnapshotOK, Map
  <2>7. Reason(seen.node, n, seen) <=>
          \/ /\ MaxContextSize > 0
             /\ Cardinality(KeysOf(from, seen)) + Len(seen.chain) > MaxContextSize
          \/ \E k \in KeysOf(from, seen) :
               \/ ~CanWrite(from, k, seen.values[k])
               \/ /\ IsRegistered(to, k) /\ k \notin LocalKeysOf(to)
                  /\ ~CanDecode(to, WireEntry(from, k, seen.values[k]))
    BY DEF Reason, KeysOf
  <2> HIDE DEF ph, n, seen, from, to
  <2>8. CASE wire[t] = NoHeader
    <3>1. Serialize(from, CarriedOf(from, seen)) = Failed
      BY <2>2, <2>5, <2>8, SentBytesType
    <3>2. \/ /\ MaxContextSize > 0
             /\ Cardinality(KeysOf(from, seen)) + Len(seen.chain) > MaxContextSize
          \/ \E k \in KeysOf(from, seen) : ~CanWrite(from, k, seen.values[k])
      BY <2>2, <3>1, WhyNotWritten
    <3>3. Reason(seen.node, n, seen)
      BY <2>7, <3>2
    <3> QED
      BY <2>4, <3>3 DEF n, seen
  <2>9. CASE wire[t] # NoHeader
    <3>1. /\ Serialize(from, CarriedOf(from, seen)) # Failed
          /\ wire[t] = Serialize(from, CarriedOf(from, seen))
      BY <2>2, <2>5, <2>9, SentBytesType
    <3>2. Deserialize(to, wire[t]) = Failed
      BY <2>2, <2>6, <2>9, UnpackedType
    <3>3. \E k \in KeysOf(from, seen) :
            /\ IsRegistered(to, k) /\ k \notin LocalKeysOf(to)
            /\ ~CanDecode(to, WireEntry(from, k, seen.values[k]))
      BY <2>2, <3>1, <3>2, WhyNotRead
    <3>4. Reason(seen.node, n, seen)
      BY <2>7, <3>3
    <3> QED
      BY <2>4, <3>4 DEF n, seen
  <2> QED
    BY <2>8, <2>9
<1> QED
  BY <1>1, SpecIInv, PTL

(* What extract_context gives a handler is what it was wrapped in but for the scope
   of the hop, or nothing if it was not wrapped: decoding the bytes once more, of a
   message whose bytes could not be decoded, yields nothing again. *)
THEOREM SpecExtractAgreesWithHandler == Spec => []ExtractAgreesWithHandler
<1>1. IInv => ExtractAgreesWithHandler
  <2> SUFFICES ASSUME IInv, NEW t \in Tasks, phase[t] = "delivered"
               PROVE  /\ IsWrapped(t) <=> ExtractContext(t) # NoHeader
                      /\ IsWrapped(t) /\ ExtractContext(t) # NoHeader
                           => held[t] = Wrapped(Map(host[t]), host[t], ExtractContext(t))
    BY DEF ExtractAgreesWithHandler
  <2>1. MailOK(deployed, "delivered", host[t], wire[t], snapshot[t], sent[t], held[t])
    BY MailOf
  <2>2. CASE snapshot[t] # NoHeader
    <3>1. ExtractContext(t) = snapshot[t] /\ IsWrapped(t)
      BY <2>2 DEF ExtractContext, IsWrapped
    <3>2. held[t] = Wrapped(Map(host[t]), host[t], snapshot[t])
      BY <2>1, <2>2 DEF MailOK, HeldOK, Map
    <3> QED
      BY <2>2, <3>1, <3>2
  <2>3. CASE snapshot[t] = NoHeader
    <3>1. sent[t] = NoHeader \/ sent[t].node # host[t]
      <4> SUFFICES ASSUME sent[t] # NoHeader, sent[t].node = host[t]  PROVE FALSE
        OBVIOUS
      <4>1. snapshot[t] = CarriedOf(deployed.registry[host[t]], sent[t]) /\ sent[t] \in Sight
        BY <2>1, MailOf DEF MailOK, LocalOK
      <4> QED
        BY <2>3, <4>1, CarriedType
    <3>2. Unpacked(deployed.registry[host[t]], wire[t]) = NoHeader
      BY <2>1, <2>3, <3>1 DEF MailOK, SnapshotOK
    <3>3. ExtractContext(t) = NoHeader
      BY <2>3, <3>2, UnpackedIs DEF ExtractContext
    <3> QED
      BY <2>3, <3>3 DEF IsWrapped
  <2> QED
    BY <2>2, <2>3
<1> QED
  BY <1>1, SpecIInv, PTL

(* A value is an element of the set of a key's valid ones if it is valid. *)
LEMMA ValidIs ==
  ASSUME NEW map, NEW k \in Keys, NEW v \in Vals \cup {NoVal}
  PROVE  v \in Valid(map)[k] <=> v # NoVal /\ IsValidValue(map, k, v)
<1>1. NoVal \notin Value /\ Vals = Value
  BY WireAssumption, ContextStoreAssumption
<1> QED
  BY <1>1 DEF Valid

(* A handler starts with what its sender saw: the headers tell. *)
LEMMA HandlersStart == IInv => HandlersGetSendersContext
<1> SUFFICES ASSUME IInv, NEW t \in Tasks, phase[t] = "delivered", IsWrapped(t),
                    sent[t] # NoHeader
             PROVE  /\ \A k \in Keys : GetValue(held[t], k) =
                         Propagated(sent[t].node, host[t], k, sent[t].values[k])
                    /\ ScopeChain(held[t]) = NewestOf(Append(sent[t].chain, host[t]))
  BY DEF HandlersGetSendersContext
<1> DEFINE n == host[t]
           seen == sent[t]
           from == Map(seen.node)
           to == Map(n)
           snap == snapshot[t]
           h == held[t]
<1>1. MailOK(deployed, "delivered", n, wire[t], snap, seen, h)
  BY MailOf
<1>2. /\ n \in Nodes /\ seen \in Sight /\ seen # NoHeader
      /\ from \in RegistryMap /\ to \in RegistryMap /\ Sound(to)
      /\ snap \in Snapshot /\ snap # NoHeader
  BY MailOf DEF IsWrapped
<1>3. h = Wrapped(to, n, snap)
  BY <1>1, <1>2 DEF MailOK, HeldOK, Map
<1>4. ASSUME NEW k \in Keys, NEW v
      PROVE  Propagated(seen.node, n, k, v) =
               IF v = NoVal \/ k \in LocalKeysOf(from) \cup LocalKeysOf(to)
                  \/ ~IsRegistered(to, k)
               THEN NoVal
               ELSE IF seen.node = n
               THEN IF IsValidValue(to, k, v) THEN v ELSE NoVal
               ELSE [v EXCEPT !.type = to[k].type]
  BY DEF Propagated
<1>5. seen.node = n => snap = CarriedOf(from, seen) /\ from = to
  BY <1>1, <1>2 DEF MailOK, LocalOK, Map
<1>6. seen.node # n =>
        /\ Serialize(from, CarriedOf(from, seen)) # Failed
        /\ Deserialize(to, Serialize(from, CarriedOf(from, seen))) # Failed
        /\ snap = Deserialize(to, Serialize(from, CarriedOf(from, seen)))
  <2> SUFFICES ASSUME seen.node # n
               PROVE  /\ Serialize(from, CarriedOf(from, seen)) # Failed
                      /\ Deserialize(to, Serialize(from, CarriedOf(from, seen))) # Failed
                      /\ snap = Deserialize(to, Serialize(from, CarriedOf(from, seen)))
    OBVIOUS
  <2>1. Remote(t)
    BY DEF Remote
  <2>2. /\ wire[t] \in WireContext
        /\ Deserialize(to, wire[t]) # Failed
        /\ snap = Deserialize(to, wire[t])
    BY <1>2, <2>1, ArrivedSnapshot
  <2>3. wire[t] # NoHeader
    BY <2>2, ActorsAssumption
  <2>4. /\ Serialize(from, CarriedOf(from, seen)) # Failed
        /\ wire[t] = Serialize(from, CarriedOf(from, seen))
    BY <1>2, <2>3, ArrivedBytes
  <2> QED
    BY <2>2, <2>4
<1>7. DecodedIsAttachable /\ (seen.node # n => Remote(t))
  <2>1. DecodedIsAttachable
    <3> SUFFICES ASSUME NEW u \in Tasks, snapshot[u] # NoHeader, Remote(u),
                        NEW k \in Keys, snapshot[u].values[k] # NoVal
                 PROVE  /\ IsValidValue(Map(host[u]), k, snapshot[u].values[k])
                        /\ k \notin LocalKeysOf(Map(host[u]))
      BY DEF DecodedIsAttachable
    <3> QED
      BY ArrivedSnapshot, MailOf, DeserializedIsValid
  <2> QED
    BY <2>1 DEF Remote
<1>8. seen.node # n => \A k \in Keys : snap.values[k] # NoVal =>
                         IsValidValue(to, k, snap.values[k]) /\ k \notin LocalKeysOf(to)
  BY <1>2, <1>7 DEF DecodedIsAttachable
<1> HIDE DEF n, seen, from, to, snap, h
<1>9. /\ \A k \in Keys : GetValue(h, k) =
           IF snap.values[k] \in Valid(to)[k] /\ k \notin LocalKeysOf(to)
           THEN snap.values[k] ELSE NoVal
      /\ ScopeChain(h) = NewestOf(Append(snap.chain, n))
  BY <1>2, <1>3, WrappedReads
<1>10. \A k \in Keys : snap.values[k] \in Vals \cup {NoVal}
  BY <1>2 DEF Snapshot, Values
<1>11. CASE seen.node = n
  <2>1. /\ snap.chain = seen.chain
        /\ \A k \in Keys : snap.values[k] = IF k \in LocalKeysOf(from) THEN NoVal
                                            ELSE seen.values[k]
    BY <1>5, <1>11 DEF CarriedOf
  <2>2. ASSUME NEW k \in Keys
        PROVE  GetValue(h, k) = Propagated(seen.node, n, k, seen.values[k])
    <3> DEFINE v == seen.values[k]
    <3>1. GetValue(h, k) =
            IF v # NoVal /\ IsValidValue(to, k, v) /\ k \notin LocalKeysOf(to)
            THEN v ELSE NoVal
      BY <1>5, <1>9, <1>10, <1>11, <2>1, ValidIs
    <3>2. IsValidValue(to, k, v) => IsRegistered(to, k)
      BY DEF IsValidValue
    <3> HIDE DEF v
    <3>3. GetValue(h, k) = Propagated(seen.node, n, k, v)
      BY <1>4, <1>5, <1>11, <3>1, <3>2
    <3> QED
      BY <3>3 DEF v
  <2> QED
    BY <1>9, <2>1, <2>2 DEF n, seen, h
<1>12. CASE seen.node # n
  <2>1. /\ snap.chain = seen.chain
        /\ \A k \in Keys : snap.values[k] =
             IF seen.values[k] = NoVal \/ k \in LocalKeysOf(from) \cup LocalKeysOf(to)
                \/ ~IsRegistered(to, k)
             THEN NoVal
             ELSE [seen.values[k] EXCEPT !.type = to[k].type]
    BY <1>2, <1>6, <1>12, TransferReads
  <2>2. ASSUME NEW k \in Keys
        PROVE  GetValue(h, k) = Propagated(seen.node, n, k, seen.values[k])
    <3>1. GetValue(h, k) = snap.values[k]
      BY <1>8, <1>9, <1>10, <1>12, ValidIs
    <3> QED
      BY <1>4, <1>12, <2>1, <3>1
  <2> QED
    BY <1>9, <2>1, <2>2 DEF n, seen, h
<1> QED
  BY <1>11, <1>12

(* A handler that is given a context starts with what its sender saw: every value
   that can get there and no other, as the type its key has there, and the sender's
   chain with the hop at its end.  This goes through capture, the wire with its
   codecs and migrations if the message crosses to another node, the attached root,
   the pushed scope, and the second capture. *)
THEOREM SpecHandlersGetSendersContext == Spec => []HandlersGetSendersContext
  BY HandlersStart, SpecIInv, PTL

(* Values follow causality, over any number of nodes, threads and messages: code
   that was not mixed up with other code by running without a context of its own
   sees what it has set itself and what the code that it follows has set. *)
THEOREM SpecContextFollowsCausality == Spec => []ContextFollowsCausality
<1>1. IInv => ContextFollowsCausality
  <2> SUFFICES ASSUME IInv, NEW c \in Code \ mixed,
                      \/ c \in Threads
                      \/ /\ IsWrapped(c)
                         /\ phase[c] \in {"delivered", "running", "suspended"},
                      NEW v \in DataIn(ContextOf(c))
               PROVE  v.data \in past[c] \cup {c}
    BY DEF ContextFollowsCausality, Owners
  <2>1. Typed /\ Polls /\ Causal
    BY DEF IInv
  <2>2. Follows(ContextOf(c), past[c] \cup {c})
    <3>1. CASE c \in Threads
      <4>1. ThreadFollows(c)
        BY <2>1, <3>1 DEF Causal
      <4>2. CASE polled[c] # NoTask /\ IsWrapped(polled[c])
        BY <3>1, <4>1, <4>2 DEF ThreadFollows, ContextOf
      <4>3. CASE polled[c] = NoTask
        BY <3>1, <4>1, <4>3 DEF ThreadFollows, ContextOf
      <4>4. CASE polled[c] # NoTask /\ ~IsWrapped(polled[c])
        BY <4>1, <4>4 DEF ThreadFollows
      <4> QED
        BY <4>2, <4>3, <4>4
    <3>2. CASE c \notin Threads
      <4>1. c \in Tasks /\ IsWrapped(c)
        BY <3>2 DEF Code
      <4>2. HandlerOK(phase[c], snapshot[c], held[c])
        BY <4>1, MailOf DEF MailOK
      <4>3. CASE phase[c] \in {"delivered", "suspended"}
        <5>1. held[c] # NoStore
          BY <4>1, <4>2, <4>3 DEF HandlerOK, IsWrapped
        <5>2. TaskFollows(c, phase[c], wire[c], snapshot[c], held[c], past[c])
          BY <2>1, <4>1 DEF Causal
        <5>3. ContextOf(c) = held[c]
          BY <3>2, <5>1 DEF ContextOf
        <5> QED
          BY <4>1, <4>3, <5>2, <5>3 DEF TaskFollows, IsWrapped
      <4>4. CASE phase[c] = "running"
        <5> DEFINE w == CHOOSE w \in Threads : polled[w] = c
        <5>1. w \in Threads /\ polled[w] = c
          <6>1. \E x \in Threads : polled[x] = c
            BY <2>1, <4>1, <4>4 DEF Polls
          <6> QED
            BY <6>1
        <5>2. held[c] = NoStore
          BY <4>2, <4>4 DEF HandlerOK
        <5>3. ContextOf(c) = cell[w]
          BY <3>2, <5>2 DEF ContextOf
        <5> HIDE DEF w
        <5>4. ThreadFollows(w) /\ c # NoTask
          BY <2>1, <4>1, <5>1, ActorsAssumption DEF Causal
        <5> QED
          BY <4>1, <5>1, <5>3, <5>4 DEF ThreadFollows
      <4> QED
        BY <3>2, <4>3, <4>4
    <3> QED
      BY <3>1, <3>2
  <2> QED
    BY <2>2 DEF Follows, DataIn
<1> QED
  BY <1>1, SpecIInv, PTL

-----------------------------------------------------------------------------
(* The contexts of Requests *)

(* The store that is the context of the code c, wherever it is. *)
Holds(c, s) ==
  \/ c \in Threads /\ s = IF polled[c] = NoTask THEN cell[c] ELSE prev[c]
  \/ c \in Tasks /\ phase[c] \in {"delivered", "suspended"} /\ s = held[c]
  \/ c \in Tasks /\ \E w \in Threads : polled[w] = c /\ s = cell[w]

(* Everybody with a context of his own has one, and one only. *)
Placed ==
  \A c \in Owners :
    /\ \E s : Holds(c, s)
    /\ \A s : Holds(c, s) => s = ContextOf(c)

(* A thread that polls a handler without a context has none of its own either. *)
LEMMA PolledOwners ==
  ASSUME IInv, NEW w \in Threads, polled[w] # NoTask
  PROVE  /\ polled[w] \in Tasks /\ phase[polled[w]] = "running"
         /\ ~IsWrapped(polled[w]) => w \in mixed /\ polled[w] \in mixed
         /\ IsWrapped(polled[w]) => prev[w] \in SoundStores
<1>1. Typed /\ Polls /\ Causal
  BY DEF IInv
<1>2. polled[w] \in Tasks /\ PollOK(w) /\ ThreadFollows(w)
  BY <1>1 DEF Typed, Polls, Causal
<1> QED
  BY <1>1, <1>2 DEF PollOK, ThreadFollows, Typed

(* The invariant says where everybody's context is. *)
LEMMA IInvPlaced == IInv => Placed
<1> SUFFICES ASSUME IInv, NEW c \in Owners
             PROVE  /\ \E s : Holds(c, s)
                    /\ \A s : Holds(c, s) => s = ContextOf(c)
  BY DEF Placed
<1>1. Typed /\ Polls /\ Threads \cap Tasks = {} /\ NoTask \notin Tasks
  BY ActorsAssumption DEF IInv
<1>2. CASE c \in Threads
  <2>1. c \notin Tasks /\ c \notin mixed
    BY <1>1, <1>2 DEF Owners
  <2>2. polled[c] # NoTask => IsWrapped(polled[c])
    BY <1>2, <2>1, PolledOwners
  <2>3. ContextOf(c) = IF polled[c] = NoTask THEN cell[c] ELSE prev[c]
    BY <1>2, <2>2 DEF ContextOf
  <2> QED
    BY <1>2, <2>1, <2>3 DEF Holds
<1>3. CASE c \notin Threads
  <2>1. /\ c \in Tasks /\ IsWrapped(c)
        /\ phase[c] \in {"delivered", "running", "suspended"}
    BY <1>3 DEF Owners, Code
  <2>2. HandlerOK(phase[c], snapshot[c], held[c])
    BY <2>1, MailOf DEF MailOK
  <2>3. CASE phase[c] = "running"
    <3>1. held[c] = NoStore
      BY <2>2, <2>3 DEF HandlerOK
    <3>2. PICK w \in Threads : polled[w] = c
      BY <1>1, <2>1, <2>3 DEF Polls
    <3>3. \A v \in Threads : polled[v] = c => v = w
      BY <1>1, <2>1, <3>2 DEF Polls
    <3>4. (CHOOSE v \in Threads : polled[v] = c) = w
      BY <3>2, <3>3
    <3>5. ContextOf(c) = cell[w]
      BY <1>3, <3>1, <3>4 DEF ContextOf
    <3>6. \A s : Holds(c, s) <=> s = cell[w]
      BY <1>3, <2>1, <2>3, <3>2, <3>3 DEF Holds
    <3> QED
      BY <3>5, <3>6
  <2>4. CASE phase[c] # "running"
    <3>1. phase[c] \in {"delivered", "suspended"} /\ held[c] # NoStore
      BY <2>1, <2>2, <2>4 DEF HandlerOK, IsWrapped
    <3>2. ContextOf(c) = held[c]
      BY <1>3, <3>1 DEF ContextOf
    <3>3. \A w \in Threads : polled[w] # c
      BY <1>1, <2>1, <2>4, PolledOwners
    <3> QED
      BY <1>3, <2>1, <3>1, <3>2, <3>3 DEF Holds
  <2> QED
    BY <2>3, <2>4
<1> QED
  BY <1>2, <1>3

(* Who keeps his store keeps his context. *)
LEMMA ContextStays ==
  ASSUME Placed, Placed', NEW c, c \in Owners, c \in Owners',
         \A s : Holds(c, s) => Holds(c, s)'
  PROVE  ContextOf(c)' = ContextOf(c)
<1>1. PICK s : Holds(c, s)
  BY DEF Placed
<1>2. s = ContextOf(c) /\ Holds(c, s)'
  BY <1>1 DEF Placed
<1>3. s = ContextOf(c)'
  BY <1>2 DEF Placed
<1> QED
  BY <1>2, <1>3

(* If all who had a context still have it, the contexts are as they were, *)
LEMMA ContextsStay ==
  ASSUME Placed, Placed', Owners' = Owners,
         \A c \in Owners : \A s : Holds(c, s) => Holds(c, s)'
  PROVE  Contexts' = Contexts
<1>1. \A c \in Owners : ContextOf(c)' = ContextOf(c)
  BY ContextStays
<1> QED
  BY <1>1 DEF Contexts, Picture

(* or one more has one, *)
LEMMA ContextStarts ==
  ASSUME Placed, Placed', NEW x, x \notin Owners, Owners' = Owners \cup {x},
         \A c \in Owners : \A s : Holds(c, s) => Holds(c, s)',
         NEW s, Holds(x, s)'
  PROVE  Contexts' = Abs!With(Contexts, x, Picture(s))
<1>1. \A c \in Owners : ContextOf(c)' = ContextOf(c)
  BY ContextStays
<1>2. ContextOf(x)' = s
  BY DEF Placed
<1>3. DOMAIN Contexts = Owners /\ Contexts' = [c \in Owners' |-> Picture(ContextOf(c)')]
  BY DEF Contexts, Picture
<1>4. Contexts' = [c \in Owners \cup {x} |-> IF c = x THEN Picture(s) ELSE Contexts[c]]
  BY <1>1, <1>2, <1>3 DEF Contexts
<1> QED
  BY <1>3, <1>4 DEF Abs!With

(* or one less. *)
LEMMA ContextEnds ==
  ASSUME Placed, Placed', NEW x, Owners' = Owners \ {x},
         \A c \in Owners \ {x} : \A s : Holds(c, s) => Holds(c, s)'
  PROVE  Contexts' = Abs!Without(Contexts, x)
<1>1. \A c \in Owners \ {x} : ContextOf(c)' = ContextOf(c)
  BY ContextStays
<1>2. DOMAIN Contexts = Owners /\ Contexts' = [c \in Owners' |-> Picture(ContextOf(c)')]
  BY DEF Contexts, Picture
<1>3. Contexts' = [c \in Owners \ {x} |-> Contexts[c]]
  BY <1>1, <1>2 DEF Contexts
<1> QED
  BY <1>2, <1>3 DEF Abs!Without

(* The messages on their way stay as they are if their headers do. *)
LEMMA LettersStay ==
  ASSUME mixed' = mixed, phase' = phase,
         wire' = wire, sent' = sent, host' = host
  PROVE  Letters' = Letters
  BY DEF Letters, Letter, Writers

(* What a value that is set changes in the picture of a store. *)
LEMMA SetValuePicture ==
  ASSUME NEW s \in Store, NEW k \in Keys, NEW v \in Vals
  PROVE  Picture(SetValue(s, k, v))
           = [Picture(s) EXCEPT !.view = Abs!With(@, k, v.data)]
<1> DEFINE t == SetValue(s, k, v)
           old == [j \in Keys |-> GetValue(s, j)]
           new == [j \in Keys |-> GetValue(t, j)]
<1>1. t \in Store
  BY SetValueType
<1>2. /\ t.chain = s.chain /\ t.frozen = s.frozen
      /\ t.cur.name = s.cur.name /\ t.cur.remote = s.cur.remote
      /\ t.cur.base = s.cur.base /\ t.cur.depth = s.cur.depth
  BY DEF SetValue, Store, Scope
<1>3. ScopeChain(t) = ScopeChain(s)
  <2> HIDE DEF t
  <2>1. FullChain(t) = FullChain(s)
    BY <1>1, <1>2, FullChainAgree
  <2> QED
    BY <1>1, <2>1, ScopeChainType
<1>4. \A j \in Keys : new[j] = IF j = k THEN v ELSE old[j]
  BY SetValueReads
<1>5. v # NoVal
  BY ContextStoreAssumption
<1> HIDE DEF t, old, new
<1>6. Writers(new) = Abs!With(Writers(old), k, v.data)
  <2>1. {j \in Keys : new[j] # NoVal} = {j \in Keys : old[j] # NoVal} \cup {k}
    BY <1>4, <1>5
  <2>2. DOMAIN Writers(old) = {j \in Keys : old[j] # NoVal}
    BY DEF Writers
  <2>3. \A j \in {i \in Keys : old[i] # NoVal} : Writers(old)[j] = old[j].data
    BY DEF Writers
  <2> QED
    BY <1>4, <2>1, <2>2, <2>3 DEF Writers, Abs!With
<1>7. Picture(t) = [view |-> Writers(new), trail |-> ScopeChain(t)]
  BY DEF Picture, new
<1>8. Picture(s) = [view |-> Writers(old), trail |-> ScopeChain(s)]
  BY DEF Picture, old
<1> QED
  BY <1>3, <1>6, <1>7, <1>8 DEF t

-----------------------------------------------------------------------------
(* Every step is one of Requests *)

(* What is set is written by the code that runs, in its own context if it has one. *)
LEMMA SetVariableImplements ==
  ASSUME IInv, Placed, Placed',
         NEW w \in Threads, NEW k \in Keys, NEW type \in Types, SetVariable(w, k, type)
  PROVE  Abs!Write(Running(w), k) \/ UNCHANGED Abs!vars
<1>a. PICK c : c = Running(w)
  OBVIOUS
<1> DEFINE v == [type |-> type, data |-> c]
<1>b. PICK new : new = SetValue(cell[w], k, v)
  OBVIOUS
<1>1. Typed /\ Polls /\ Threads \cap Tasks = {} /\ NoTask \notin Tasks
  BY ActorsAssumption DEF IInv
<1>2. /\ c \in Code /\ c \in Data
      /\ c = IF polled[w] = NoTask THEN w ELSE polled[w]
  BY <1>1, <1>a, RunningType DEF Running
<1>3. cell[w] \in Store /\ v \in Vals
  BY <1>1, <1>2, WireAssumption DEF Typed, SoundStores, Value
<1>4. /\ cell' = [cell EXCEPT ![w] = new]
      /\ UNCHANGED <<deployed, polled, prev, phase, host, wire, snapshot, held,
                     sent, past, mixed>>
  BY <1>a, <1>b DEF SetVariable
<1>5. Picture(new) = [Picture(cell[w]) EXCEPT !.view = Abs!With(@, k, c)]
  BY <1>3, <1>b, SetValuePicture
<1>6. \A u \in Threads : cell'[u] = IF u = w THEN new ELSE cell[u]
  BY <1>1, <1>4 DEF Typed
<1>7. Owners' = Owners /\ Letters' = Letters
  BY <1>4, LettersStay DEF Owners, IsWrapped
<1>8. ASSUME NEW o \in Owners, o # c, NEW s, Holds(o, s)
      PROVE  Holds(o, s)'
  <2>1. CASE o \in Threads
    BY <1>1, <1>2, <1>4, <1>6, <1>8, <2>1 DEF Holds
  <2>2. CASE o \in Tasks
    BY <1>1, <1>2, <1>4, <1>6, <1>8, <2>2 DEF Holds
  <2> QED
    BY <2>1, <2>2 DEF Owners, Code
<1>9. CASE c \notin Owners
  <2>1. Contexts' = Contexts
    BY <1>7, <1>8, <1>9, ContextsStay
  <2> QED
    BY <1>4, <1>7, <2>1 DEF Abs!vars
<1>10. CASE c \in Owners
  <2>1. Holds(c, cell[w])
    BY <1>1, <1>2 DEF Holds, Typed
  <2>2. /\ c \in Threads => c = w
        /\ c \in Tasks => polled[w] = c
    BY <1>1, <1>2 DEF Typed
  <2>3. ContextOf(c) = cell[w]
    BY <1>10, <2>1 DEF Placed
  <2>4. ContextOf(c)' = new
    <3>1. PICK s : s = new
      OBVIOUS
    <3>2. cell'[w] = s /\ polled' = polled
      BY <1>4, <1>6, <3>1
    <3>3. Holds(c, s)'
      <4>1. CASE polled[w] = NoTask
        BY <1>2, <3>2, <4>1 DEF Holds
      <4>2. CASE polled[w] # NoTask
        <5>1. polled[w] = c /\ c \in Tasks
          BY <1>1, <1>2, <4>2 DEF Typed
        <5> QED
          BY <3>2, <5>1 DEF Holds
      <4> QED
        BY <4>1, <4>2
    <3> QED
      BY <1>7, <1>10, <3>1, <3>3 DEF Placed
  <2>5. \A o \in Owners : ContextOf(o)' = IF o = c THEN new ELSE ContextOf(o)
    <3> TAKE o \in Owners
    <3>1. CASE o = c
      BY <2>4, <3>1 DEF ContextOf
    <3>2. CASE o # c
      BY <1>7, <1>8, <3>2, ContextStays
    <3> QED
      BY <3>1, <3>2
  <2>6. DOMAIN Contexts = Owners /\ \A o \in Owners : Contexts[o] = Picture(ContextOf(o))
    BY DEF Contexts
  <2>7. Contexts' = [o \in Owners |-> Picture(ContextOf(o)')]
    BY <1>7 DEF Contexts, Picture
  <2>8. Contexts' = [Contexts EXCEPT ![c] = Picture(new)]
    BY <2>5, <2>6, <2>7 DEF Contexts
  <2>9. Contexts' = [Contexts EXCEPT ![c].view = Abs!With(@, k, c)]
    BY <1>5, <1>10, <2>3, <2>6, <2>8
  <2>10. Abs!Write(c, k)
    BY <1>4, <1>7, <1>10, <2>6, <2>9 DEF Abs!Write
  <2> QED
    BY <1>a, <2>10
<1> QED
  BY <1>9, <1>10

(* A message that was not sent before is nobody's context, and on no way. *)
LEMMA UnsentFresh ==
  ASSUME IInv, NEW t \in Tasks, phase[t] = "unborn"
  PROVE  /\ t \notin DOMAIN Contexts /\ t \notin Owners
         /\ t \notin DOMAIN Letters
         /\ t \notin mixed => Abs!Fresh(t)
         /\ held[t] = NoStore /\ snapshot[t] = NoHeader /\ sent[t] = NoHeader
<1>1. t \notin Threads
  BY ActorsAssumption
<1>2. t \notin Owners
  BY <1>1 DEF Owners
<1>3. MailOK(deployed, phase[t], host[t], wire[t], snapshot[t], sent[t], held[t])
  BY MailOf
<1> QED
  BY <1>2, <1>3 DEF Contexts, Letters, Abs!Fresh, MailOK, HandlerOK, BlankOK

(* A new message changes no context; on its way it has its letter, unless it is
   blended from the start. *)
LEMMA NewLetter ==
  ASSUME IInv, Placed, Placed', NEW t \in Tasks, phase[t] = "unborn",
         phase' = [phase EXCEPT ![t] = "sent"],
         \A u \in Tasks \ {t} : /\ host'[u] = host[u] /\ wire'[u] = wire[u]
                                /\ snapshot'[u] = snapshot[u] /\ sent'[u] = sent[u],
         UNCHANGED <<cell, polled, prev, held>>,
         mixed' = mixed \/ mixed' = mixed \cup {t}
  PROVE  /\ Contexts' = Contexts
         /\ Letters' = IF t \in mixed' THEN Letters
                       ELSE Abs!With(Letters, t, Letter(t)')
<1>1. \A u \in Tasks : phase'[u] = IF u = t THEN "sent" ELSE phase[u]
  BY DEF IInv, Typed
<1>2. t \notin Threads /\ Threads \cap Tasks = {}
  BY ActorsAssumption
<1>3. Owners' = Owners
  <2>1. t \notin Owners /\ t \notin Owners'
    BY <1>1, <1>2, UnsentFresh DEF Owners
  <2>2. \A c \in Code \ {t} : c \in Owners <=> c \in Owners'
    BY <1>1 DEF Owners, Code, IsWrapped
  <2> QED
    BY <2>1, <2>2 DEF Owners
<1>4. ASSUME NEW c \in Owners, NEW s, Holds(c, s)  PROVE Holds(c, s)'
  <2>1. c # t
    BY UnsentFresh
  <2> QED
    BY <1>1, <1>4, <2>1 DEF Holds
<1>5. Contexts' = Contexts
  BY <1>3, <1>4, ContextsStay
<1> DEFINE way == {u \in Tasks \ mixed : phase[u] = "sent"}
<1>6. /\ Letters = [u \in way |-> Letter(u)] /\ DOMAIN Letters = way
      /\ t \notin way
  BY DEF Letters
<1>7. {u \in Tasks \ mixed' : phase'[u] = "sent"}
        = IF t \in mixed' THEN way ELSE way \cup {t}
  BY <1>1
<1>8. \A u \in way : Letter(u)' = Letter(u)
  <2> TAKE u \in way
  <2>1. /\ u \in Tasks \ {t} /\ host'[u] = host[u] /\ wire'[u] = wire[u]
        /\ sent'[u] = sent[u]
    BY <1>6
  <2> QED
    BY <2>1 DEF Letter, Writers
<1>9. Letters' = [u \in {u \in Tasks \ mixed' : phase'[u] = "sent"} |-> Letter(u)']
  BY DEF Letters
<1> HIDE DEF way
<1>10. CASE t \in mixed'
  <2>1. Letters' = [u \in way |-> Letter(u)']
    BY <1>7, <1>9, <1>10
  <2>2. Letters' = Letters
    BY <1>6, <1>8, <2>1
  <2> QED
    BY <1>5, <1>10, <2>2
<1>11. CASE t \notin mixed'
  <2>1. Letters' = [u \in way \cup {t} |-> Letter(u)']
    BY <1>7, <1>9, <1>11
  <2>2. \A u \in way \cup {t} :
          Letter(u)' = IF u = t THEN Letter(t)' ELSE Letters[u]
    BY <1>6, <1>8
  <2>3. Letters' = [u \in way \cup {t} |-> IF u = t THEN Letter(t)' ELSE Letters[u]]
    BY <2>1, <2>2
  <2> QED
    BY <1>5, <1>6, <1>11, <2>3 DEF Abs!With
<1> QED
  BY <1>10, <1>11

(* The code that runs on a thread has the store of the thread for its context, if it
   has one. *)
LEMMA RunningOwns ==
  ASSUME IInv, Placed, NEW w \in Threads, Running(w) \notin mixed
  PROVE  /\ Running(w) \in Owners /\ ContextOf(Running(w)) = cell[w]
         /\ Contexts[Running(w)] = [view |-> Writers(Seen(w).values),
                                    trail |-> Seen(w).chain]
<1>1. Typed /\ Running(w) \in Code
  BY RunningType DEF IInv
<1>2. Running(w) \in Owners /\ Holds(Running(w), cell[w])
  <2>1. CASE polled[w] = NoTask
    BY <1>1, <2>1 DEF Running, Owners, Holds
  <2>2. CASE polled[w] # NoTask
    <3>1. Running(w) = polled[w]
      BY <2>2 DEF Running
    <3>2. polled[w] \in Tasks /\ phase[polled[w]] = "running" /\ IsWrapped(polled[w])
      BY <2>2, <3>1, PolledOwners
    <3> QED
      BY <1>1, <3>1, <3>2 DEF Owners, Holds
  <2> QED
    BY <2>1, <2>2
<1>3. ContextOf(Running(w)) = cell[w]
  BY <1>2 DEF Placed
<1>4. Contexts[Running(w)] = Picture(cell[w])
  BY <1>2, <1>3 DEF Contexts
<1>5. Picture(cell[w]) = [view |-> Writers(Seen(w).values), trail |-> Seen(w).chain]
  BY DEF Picture, Seen
<1> QED
  BY <1>2, <1>3, <1>4, <1>5

(* A message that is sent takes along what its sender has, or is blended with it. *)
LEMMA SentImplements ==
  ASSUME IInv, Placed, Placed', NEW w \in Threads, NEW t \in Tasks, NEW n \in Nodes,
         NEW bytes, NEW snap, Seen(w) \in Sight, Sent(w, t, n, bytes, snap)
  PROVE  \/ Abs!Send(Running(w), t, n)
         \/ Abs!SendBlended(Running(w), t)
         \/ UNCHANGED Abs!vars
<1> DEFINE c == Running(w)
           seen == Seen(w)
<1>1. /\ phase[t] = "unborn"
      /\ phase' = [phase EXCEPT ![t] = "sent"]
      /\ host' = [host EXCEPT ![t] = n]
      /\ wire' = [wire EXCEPT ![t] = bytes]
      /\ snapshot' = [snapshot EXCEPT ![t] = snap]
      /\ sent' = [sent EXCEPT ![t] = seen]
      /\ mixed' = IF c \in mixed THEN mixed \cup {t} ELSE mixed
      /\ UNCHANGED <<cell, polled, prev, held>>
  BY DEF Sent
<1>2. c \notin mixed => /\ c \in Owners
                        /\ Contexts[c] = [view |-> Writers(seen.values), trail |-> seen.chain]
  BY RunningOwns
<1>3. seen # NoHeader
  BY ActorsAssumption
<1> HIDE DEF c, seen
<1>4. host'[t] = n /\ sent'[t] = seen
  BY <1>1 DEF IInv, Typed
<1>5. \A u \in Tasks \ {t} : /\ host'[u] = host[u] /\ wire'[u] = wire[u]
                             /\ snapshot'[u] = snapshot[u] /\ sent'[u] = sent[u]
  BY <1>1
<1>6. mixed' = mixed \/ mixed' = mixed \cup {t}
  BY <1>1
<1>7. /\ Contexts' = Contexts
      /\ Letters' = IF t \in mixed' THEN Letters ELSE Abs!With(Letters, t, Letter(t)')
  BY <1>1, <1>5, <1>6, NewLetter
<1>8. CASE t \in mixed
  BY <1>1, <1>6, <1>7, <1>8 DEF Abs!vars
<1>9. CASE t \notin mixed /\ c \in mixed
  <2>1. Abs!Fresh(t) /\ mixed' = mixed \cup {t} /\ Letters' = Letters
    BY <1>1, <1>7, <1>9, UnsentFresh
  <2>2. Abs!SendBlended(c, t)
    BY <1>7, <1>9, <2>1 DEF Abs!SendBlended
  <2> QED
    BY <2>2 DEF c
<1>10. CASE t \notin mixed /\ c \notin mixed
  <2>1. mixed' = mixed /\ Letters' = Abs!With(Letters, t, Letter(t)') /\ Abs!Fresh(t)
    BY <1>1, <1>7, <1>10, UnsentFresh
  <2>2. Letter(t)' = [view |-> Writers(seen.values), trail |-> seen.chain, to |-> n]
    BY <1>3, <1>4 DEF Letter, Writers
  <2>3. Contexts[c].view = Writers(seen.values) /\ Contexts[c].trail = seen.chain
    BY <1>2, <1>10
  <2>4. c \in DOMAIN Contexts
    BY <1>2, <1>10 DEF Contexts
  <2>5. Letters' = Abs!With(Letters, t, [view |-> Contexts[c].view,
                                         trail |-> Contexts[c].trail, to |-> n])
    BY <2>1, <2>2, <2>3
  <2>6. Abs!Send(c, t, n)
    BY <1>7, <2>1, <2>4, <2>5 DEF Abs!Send
  <2> QED
    BY <2>6 DEF c
<1> QED
  BY <1>8, <1>9, <1>10

(* A message from outside has a context that nobody here has written to. *)
LEMMA ArriveImplements ==
  ASSUME IInv, Placed, Placed', NEW t \in Tasks, NEW n \in Nodes, NEW bytes \in Foreign,
         Arrive(t, n, bytes)
  PROVE  Abs!Arrive(t, n) \/ UNCHANGED Abs!vars
<1>1. /\ phase[t] = "unborn"
      /\ phase' = [phase EXCEPT ![t] = "sent"]
      /\ host' = [host EXCEPT ![t] = n]
      /\ wire' = [wire EXCEPT ![t] = bytes]
      /\ UNCHANGED <<cell, polled, prev, snapshot, held, sent, mixed>>
  BY DEF Arrive
<1>2. /\ \A u \in Tasks \ {t} : /\ host'[u] = host[u] /\ wire'[u] = wire[u]
                                /\ snapshot'[u] = snapshot[u] /\ sent'[u] = sent[u]
      /\ host'[t] = n /\ wire'[t] = bytes /\ sent'[t] = NoHeader
  BY <1>1, UnsentFresh DEF IInv, Typed
<1>3. /\ Contexts' = Contexts
      /\ Letters' = IF t \in mixed THEN Letters ELSE Abs!With(Letters, t, Letter(t)')
  BY <1>1, <1>2, NewLetter
<1>4. CASE t \in mixed
  BY <1>1, <1>3, <1>4 DEF Abs!vars
<1>5. CASE t \notin mixed
  <2> DEFINE set == {e.key : e \in bytes.entries}
             view == [k \in set |-> Outside]
             trail == IF bytes.chain = NoChain THEN <<>> ELSE bytes.chain
  <2>1. bytes \in WireContext
    BY ActorsAssumption
  <2>2. set \in SUBSET Keys /\ trail \in Seq(Names)
    BY <2>1 DEF WireContext, Entry
  <2>3. Letter(t)' = [view |-> view, trail |-> trail, to |-> n]
    BY <1>2 DEF Letter
  <2> HIDE DEF trail
  <2>4. view \in UNION {[s -> {Outside}] : s \in SUBSET Keys}
    <3>1. view \in [set -> {Outside}]
      OBVIOUS
    <3> QED
      BY <2>2, <3>1
  <2> HIDE DEF view
  <2>5. Letter(t)' \in Abs!Imported(n)
    BY <2>2, <2>3, <2>4 DEF Abs!Imported
  <2>6. DOMAIN Letters' = DOMAIN Letters \cup {t} /\ Letters'[t] = Letter(t)'
    BY <1>3, <1>5 DEF Abs!With
  <2>7. Letters' = Abs!With(Letters, t, Letters'[t])
    BY <1>3, <1>5, <2>6
  <2>8. Abs!Fresh(t)
    BY <1>1, <1>5, UnsentFresh
  <2> QED
    BY <1>1, <1>3, <2>5, <2>6, <2>7, <2>8 DEF Abs!Arrive
<1> QED
  BY <1>4, <1>5

(* A handler that was given a context has, before it runs, some of the values of its
   message, and the trail of it with the hop at its end. *)
StartsWithLetters ==
  \A t \in Tasks : phase[t] = "delivered" /\ IsWrapped(t) =>
    \E kept \in SUBSET DOMAIN Letter(t).view :
      Picture(held[t]) =
        [view  |-> [k \in kept |-> Letter(t).view[k]],
         trail |-> NewestOf(Append(Letter(t).trail, Letter(t).to))]

(* The picture of a store whose values are all of a letter. *)
LEMMA PictureOfKept ==
  ASSUME NEW s, NEW view,
         \A k \in Keys : GetValue(s, k) # NoVal =>
           k \in DOMAIN view /\ GetValue(s, k).data = view[k]
  PROVE  \E kept \in SUBSET DOMAIN view :
           Picture(s) = [view |-> [k \in kept |-> view[k]], trail |-> ScopeChain(s)]
<1> DEFINE kept == {k \in Keys : GetValue(s, k) # NoVal}
           values == [k \in Keys |-> GetValue(s, k)]
<1>1. kept \in SUBSET DOMAIN view
  OBVIOUS
<1>2. {k \in Keys : values[k] # NoVal} = kept /\ \A k \in kept : values[k].data = view[k]
  OBVIOUS
<1>3. Picture(s) = [view |-> Writers(values), trail |-> ScopeChain(s)]
  BY DEF Picture
<1> HIDE DEF kept, values
<1>4. Writers(values) = [k \in kept |-> view[k]]
  BY <1>2 DEF Writers
<1> QED
  BY <1>1, <1>3, <1>4

(* The values that are decoded from a header are its entries', and its chain. *)
LEMMA DecodedLetter ==
  ASSUME NEW map \in RegistryMap, NEW bytes \in WireContext,
         Deserialize(map, bytes) # Failed
  PROVE  /\ bytes.chain # NoChain /\ Deserialize(map, bytes).chain = bytes.chain
         /\ \A k \in Keys : Deserialize(map, bytes).values[k] # NoVal =>
              \E e \in bytes.entries :
                e.key = k /\ Deserialize(map, bytes).values[k].data = e.bytes.data
<1>1. /\ Readable(bytes)
      /\ \A e \in Taken(map, bytes) : CanDecode(map, e)
      /\ Deserialize(map, bytes) = [kind   |-> "snapshot",
                                    values |-> [k \in Keys |-> ValueUnder(map, bytes, k)],
                                    chain  |-> bytes.chain]
  BY DeserializeCases
<1>2. ASSUME NEW k \in Keys, ValueUnder(map, bytes, k) # NoVal
      PROVE  \E e \in bytes.entries :
               e.key = k /\ ValueUnder(map, bytes, k).data = e.bytes.data
  <2>1. PICK e \in Taken(map, bytes) :
          e.key = k /\ CanDecode(map, e) /\ ValueUnder(map, bytes, k) = Decoded(map, e)
    BY <1>1, <1>2, ValueComesFromAnEntry
  <2>2. e \in bytes.entries
    BY <2>1 DEF Taken
  <2> QED
    BY <2>1, <2>2 DEF Decoded
<1> QED
  BY <1>1, <1>2 DEF Readable

(* The invariant says what a handler starts with. *)
LEMMA IInvStarts == IInv => StartsWithLetters
<1> SUFFICES ASSUME IInv, NEW t \in Tasks, phase[t] = "delivered", IsWrapped(t)
             PROVE  \E kept \in SUBSET DOMAIN Letter(t).view :
                      Picture(held[t]) =
                        [view  |-> [k \in kept |-> Letter(t).view[k]],
                         trail |-> NewestOf(Append(Letter(t).trail, Letter(t).to))]
  BY DEF StartsWithLetters
<1> DEFINE h == held[t]
           letter == Letter(t)
<1>1. /\ \A k \in Keys : GetValue(h, k) # NoVal =>
           k \in DOMAIN letter.view /\ GetValue(h, k).data = letter.view[k]
      /\ ScopeChain(h) = NewestOf(Append(letter.trail, letter.to))
  <2>1. CASE sent[t] # NoHeader
    <3> DEFINE from == sent[t].node
               seen == sent[t].values
    <3>1. /\ \A k \in Keys : GetValue(h, k) = Propagated(from, host[t], k, seen[k])
          /\ ScopeChain(h) = NewestOf(Append(sent[t].chain, host[t]))
      BY <2>1, HandlersStart DEF HandlersGetSendersContext
    <3>2. seen \in Values
      BY <2>1, MailOf DEF Sight
    <3>3. letter = [view |-> Writers(seen), trail |-> sent[t].chain, to |-> host[t]]
      BY <2>1 DEF Letter
    <3> HIDE DEF from, seen, h, letter
    <3>4. ASSUME NEW k \in Keys, GetValue(h, k) # NoVal
          PROVE  k \in DOMAIN letter.view /\ GetValue(h, k).data = letter.view[k]
      <4> DEFINE v == seen[k]
      <4>1. GetValue(h, k) = Propagated(from, host[t], k, v)
        BY <3>1
      <4>2. v \in Value \cup {NoVal}
        BY <3>2, WireAssumption DEF Values
      <4> HIDE DEF v
      <4>3. v # NoVal /\ (\/ GetValue(h, k) = v
                          \/ GetValue(h, k) = [v EXCEPT !.type = Map(host[t])[k].type])
        BY <3>4, <4>1 DEF Propagated
      <4>4. GetValue(h, k).data = v.data
        BY <4>2, <4>3 DEF Value
      <4> QED
        BY <3>3, <4>3, <4>4 DEF Writers, v
    <3> QED
      BY <3>1, <3>3, <3>4
  <2>2. CASE sent[t] = NoHeader
    <3> DEFINE map == Map(host[t])
               bytes == wire[t]
               snap == snapshot[t]
    <3>1. /\ bytes \in WireContext /\ map \in RegistryMap /\ snap \in Snapshot
          /\ Deserialize(map, bytes) # Failed /\ snap = Deserialize(map, bytes)
      BY <2>2, MailOf, ArrivedSnapshot DEF Remote, IsWrapped
    <3>2. h = Wrapped(map, host[t], snap) /\ host[t] \in Nodes
      BY MailOf DEF MailOK, HeldOK, IsWrapped, Map
    <3>3. \A e \in bytes.entries : e.bytes.data = Outside
      BY <2>2, <3>1, MailOf, ActorsAssumption DEF MailOK, OutsideOK
    <3>4. letter = [view |-> [k \in {e.key : e \in bytes.entries} |-> Outside],
                    trail |-> IF bytes.chain = NoChain THEN <<>> ELSE bytes.chain,
                    to |-> host[t]]
      BY <2>2 DEF Letter
    <3> HIDE DEF map, bytes, snap, h, letter
    <3>5. /\ \A k \in Keys : GetValue(h, k) # NoVal => GetValue(h, k) = snap.values[k]
          /\ ScopeChain(h) = NewestOf(Append(snap.chain, host[t]))
      BY <3>1, <3>2, WrappedReads
    <3>6. /\ bytes.chain # NoChain /\ snap.chain = bytes.chain
          /\ \A k \in Keys : snap.values[k] # NoVal =>
               \E e \in bytes.entries : e.key = k /\ snap.values[k].data = e.bytes.data
      BY <3>1, DecodedLetter
    <3>7. ASSUME NEW k \in Keys, GetValue(h, k) # NoVal
          PROVE  k \in DOMAIN letter.view /\ GetValue(h, k).data = letter.view[k]
      <4>1. PICK e \in bytes.entries : e.key = k /\ snap.values[k].data = e.bytes.data
        BY <3>5, <3>6, <3>7
      <4> QED
        BY <3>3, <3>4, <3>5, <3>7, <4>1
    <3> QED
      BY <3>4, <3>5, <3>6, <3>7
  <2> QED
    BY <2>1, <2>2
<1> HIDE DEF h, letter
<1>2. PICK kept \in SUBSET DOMAIN letter.view :
        Picture(h) = [view |-> [k \in kept |-> letter.view[k]], trail |-> ScopeChain(h)]
  BY <1>1, PictureOfKept
<1> QED
  BY <1>1, <1>2 DEF h, letter

(* The messages on their way stay as they are if they are the same ones, and their
   headers are. *)
LEMMA LettersKept ==
  ASSUME \A u \in Tasks : u \notin mixed' /\ phase'[u] = "sent" <=>
                            u \notin mixed /\ phase[u] = "sent",
         \A u \in Tasks \ mixed : phase[u] = "sent" =>
           wire'[u] = wire[u] /\ sent'[u] = sent[u] /\ host'[u] = host[u]
  PROVE  Letters' = Letters
<1> DEFINE way == {u \in Tasks \ mixed : phase[u] = "sent"}
<1>1. {u \in Tasks \ mixed' : phase'[u] = "sent"} = way
  OBVIOUS
<1>2. ASSUME NEW u \in way  PROVE Letter(u)' = Letter(u)
  <2>1. wire'[u] = wire[u] /\ sent'[u] = sent[u] /\ host'[u] = host[u]
    OBVIOUS
  <2> QED
    BY <2>1 DEF Letter, Writers
<1>3. /\ Letters = [u \in way |-> Letter(u)]
      /\ Letters' = [u \in {u \in Tasks \ mixed' : phase'[u] = "sent"} |-> Letter(u)']
  BY DEF Letters
<1> HIDE DEF way
<1> QED
  BY <1>1, <1>2, <1>3

(* What is delivered is received, or lost. *)
LEMMA DeliverImplements ==
  ASSUME IInv, Placed, Placed', StartsWithLetters', NEW t \in Tasks, Deliver(t)
  PROVE  Abs!Receive(t) \/ Abs!Lose(t) \/ UNCHANGED Abs!vars
<1>1. /\ phase[t] = "sent" /\ t \notin Threads /\ t \notin Owners /\ t \in Code
      /\ Threads \cap Tasks = {}
  BY ActorsAssumption DEF Deliver, Owners, Code
<1>2. /\ snapshot' = [snapshot EXCEPT ![t] = Normalized(t)]
      /\ wire' = [wire EXCEPT ![t] = Received(t)]
      /\ UNCHANGED <<cell, polled, prev, host, sent, mixed>>
  BY DEF Deliver
<1>3. /\ phase'[t] \in {"delivered", "rejected"}
      /\ \A u \in Tasks \ {t} : /\ phase'[u] = phase[u] /\ held'[u] = held[u]
                                /\ snapshot'[u] = snapshot[u] /\ wire'[u] = wire[u]
      /\ snapshot'[t] = Normalized(t) /\ wire'[t] = Received(t)
  BY <1>2 DEF Deliver, IInv, Typed
<1>4. ASSUME NEW c \in Code \ {t}
      PROVE  c \in Owners <=> c \in Owners'
  BY <1>2, <1>3, <1>4 DEF Owners, Code, IsWrapped
<1>5. \A c \in Owners : \A s : Holds(c, s) => Holds(c, s)'
  BY <1>1, <1>2, <1>3 DEF Holds
<1>6. t \in Owners' <=> t \notin mixed /\ phase'[t] = "delivered" /\ snapshot'[t] # NoHeader
  BY <1>1, <1>2, <1>3 DEF Owners, IsWrapped
<1>7. CASE t \in mixed
  <2>1. Owners' = Owners
    BY <1>1, <1>4, <1>6, <1>7 DEF Owners
  <2>2. Contexts' = Contexts
    BY <1>5, <2>1, ContextsStay
  <2>3. Letters' = Letters
    BY <1>2, <1>3, <1>7, LettersKept
  <2> QED
    BY <1>2, <2>2, <2>3 DEF Abs!vars
<1>8. CASE t \notin mixed
  <2>1. t \in DOMAIN Letters /\ Letters[t] = Letter(t)
    BY <1>1, <1>8 DEF Letters
  <2>2. Letters' = Abs!Without(Letters, t)
    <3> DEFINE way == {u \in Tasks \ mixed : phase[u] = "sent"}
    <3>1. {u \in Tasks \ mixed' : phase'[u] = "sent"} = way \ {t}
      BY <1>2, <1>3
    <3>2. ASSUME NEW u \in way \ {t}  PROVE Letter(u)' = Letter(u)
      <4>1. wire'[u] = wire[u] /\ sent'[u] = sent[u] /\ host'[u] = host[u]
        BY <1>2, <1>3
      <4> QED
        BY <4>1 DEF Letter, Writers
    <3>3. /\ Letters = [u \in way |-> Letter(u)] /\ DOMAIN Letters = way
          /\ Letters' = [u \in {u \in Tasks \ mixed' : phase'[u] = "sent"} |-> Letter(u)']
      BY DEF Letters
    <3> HIDE DEF way
    <3> QED
      BY <3>1, <3>2, <3>3 DEF Abs!Without
  <2>3. CASE t \notin Owners'
    <3>1. Owners' = Owners
      BY <1>1, <1>4, <2>3 DEF Owners
    <3>2. Contexts' = Contexts
      BY <1>5, <3>1, ContextsStay
    <3> QED
      BY <1>2, <2>1, <2>2, <3>2 DEF Abs!Lose
  <2>4. CASE t \in Owners'
    <3>1. Owners' = Owners \cup {t}
      BY <1>1, <1>4, <2>4 DEF Owners
    <3>2. phase'[t] = "delivered" /\ IsWrapped(t)' /\ Normalized(t) # NoHeader
      BY <1>3, <1>6, <2>4 DEF IsWrapped
    <3>3. PICK s : s = held'[t]
      OBVIOUS
    <3>4. Holds(t, s)'
      BY <1>1, <3>2, <3>3 DEF Holds
    <3>5. Contexts' = Abs!With(Contexts, t, Picture(s))
      BY <1>1, <1>5, <3>1, <3>4, ContextStarts
    <3>6. Letter(t)' = Letter(t)
      <4>1. sent[t] = NoHeader => wire'[t] = wire[t]
        <5> SUFFICES ASSUME sent[t] = NoHeader  PROVE wire'[t] = wire[t]
          OBVIOUS
        <5>1. snapshot[t] = NoHeader
          BY <1>1, MailOf DEF MailOK, SnapshotOK
        <5>2. Unpacked(Map(host[t]), Received(t)) # NoHeader
          BY <3>2, <5>1, UnpackedIs DEF Normalized, Map
        <5>3. Received(t) # NoHeader
          BY <5>2 DEF Unpacked
        <5> QED
          BY <1>3, <5>3 DEF Received
      <4>2. sent'[t] = sent[t] /\ host'[t] = host[t]
        BY <1>2
      <4> QED
        BY <4>1, <4>2 DEF Letter, Writers
    <3>7. PICK letter : letter = Letter(t)
      OBVIOUS
    <3>8. \E kept \in SUBSET DOMAIN letter.view :
            Picture(s) = [view  |-> [k \in kept |-> letter.view[k]],
                          trail |-> NewestOf(Append(letter.trail, letter.to))]
      <4>1. \E kept \in SUBSET DOMAIN Letter(t)'.view :
              Picture(held[t])' =
                [view  |-> [k \in kept |-> Letter(t)'.view[k]],
                 trail |-> NewestOf(Append(Letter(t)'.trail, Letter(t)'.to))]
        BY <3>2 DEF StartsWithLetters, NewestOf
      <4>2. Picture(held[t])' = Picture(s)
        BY <3>3 DEF Picture
      <4>3. Letter(t)' = letter
        BY <3>6, <3>7
      <4> QED
        BY <4>1, <4>2, <4>3
    <3>9. \A trail : NewestOf(trail) = Abs!Newest(trail)
      BY DEF NewestOf, Abs!Newest
    <3> QED
      BY <1>2, <2>1, <2>2, <3>5, <3>7, <3>8, <3>9 DEF Abs!Receive
  <2> QED
    BY <2>3, <2>4
<1> QED
  BY <1>7, <1>8

(* A poll swaps two stores, and nobody's context changes; or it blends the thread and
   a handler that was given none. *)
LEMMA PollImplements ==
  ASSUME IInv, Placed, Placed', NEW w \in Threads, NEW t \in Tasks, Poll(w, t)
  PROVE  Abs!Blend(w, t) \/ UNCHANGED Abs!vars
<1>1. /\ polled[w] = NoTask /\ phase[t] \in {"delivered", "suspended"}
      /\ Threads \cap Tasks = {} /\ NoTask \notin Tasks
      /\ t \in Code /\ w \in Code /\ t # w
  BY ActorsAssumption DEF Poll, Code
<1>2. /\ phase' = [phase EXCEPT ![t] = "running"]
      /\ polled' = [polled EXCEPT ![w] = t]
      /\ UNCHANGED <<host, wire, snapshot, sent>>
  BY DEF Poll
<1>3. /\ \A u \in Tasks : phase'[u] = IF u = t THEN "running" ELSE phase[u]
      /\ \A v \in Threads : polled'[v] = IF v = w THEN t ELSE polled[v]
  BY <1>2 DEF IInv, Typed
<1>4. CASE IsWrapped(t)
  <2>1. /\ \A v \in Threads \ {w} : cell'[v] = cell[v] /\ prev'[v] = prev[v]
        /\ \A u \in Tasks \ {t} : held'[u] = held[u]
        /\ cell'[w] = held[t] /\ prev'[w] = cell[w] /\ mixed' = mixed
    BY <1>4 DEF Poll, IInv, Typed
  <2>2. Owners' = Owners
    <3>1. \A c \in Code : c \in Owners <=> c \in Owners'
      BY <1>1, <1>2, <1>3, <2>1 DEF Owners, Code, IsWrapped
    <3> QED
      BY <3>1 DEF Owners
  <2>3. ASSUME NEW c \in Owners, NEW s, Holds(c, s)  PROVE Holds(c, s)'
    <3>1. CASE c = w
      BY <1>1, <1>3, <2>1, <2>3, <3>1 DEF Holds
    <3>2. CASE c \in Threads \ {w}
      BY <1>1, <1>3, <2>1, <2>3, <3>2 DEF Holds
    <3>3. CASE c = t
      <4>1. \A v \in Threads : polled[v] # t
        BY <1>1, PolledOwners
      <4>2. s = held[t]
        BY <1>1, <2>3, <3>3, <4>1 DEF Holds
      <4>3. polled'[w] = t /\ cell'[w] = s
        BY <1>3, <2>1, <4>2
      <4> QED
        BY <3>3, <4>3 DEF Holds
    <3>4. CASE c \in Tasks \ {t}
      <4>1. CASE phase[c] \in {"delivered", "suspended"} /\ s = held[c]
        BY <1>3, <2>1, <3>4, <4>1 DEF Holds
      <4>2. CASE \E v \in Threads : polled[v] = c /\ s = cell[v]
        <5>1. PICK v \in Threads : polled[v] = c /\ s = cell[v]
          BY <4>2
        <5>2. v # w
          BY <1>1, <3>4, <5>1
        <5>3. polled'[v] = c /\ s = cell'[v]
          BY <1>3, <2>1, <5>1, <5>2
        <5> QED
          BY <3>4, <5>3 DEF Holds
      <4> QED
        BY <1>1, <2>3, <3>4, <4>1, <4>2 DEF Holds
    <3> QED
      BY <3>1, <3>2, <3>3, <3>4 DEF Owners, Code
  <2>4. Contexts' = Contexts
    BY <2>2, <2>3, ContextsStay
  <2>5. Letters' = Letters
    BY <1>1, <1>2, <1>3, <2>1, LettersKept
  <2> QED
    BY <2>1, <2>4, <2>5 DEF Abs!vars
<1>5. CASE ~IsWrapped(t)
  <2>1. mixed' = mixed \cup {w, t} /\ prev' = prev /\ cell' = cell /\ held' = held
    BY <1>5 DEF Poll
  <2>2. t \notin Owners
    BY <1>1, <1>5 DEF Owners
  <2>3. Owners' = Owners \ {w}
    <3>1. \A c \in Code : c \in Owners' <=> c \in Owners /\ c # w
      BY <1>1, <1>2, <1>3, <2>1, <2>2 DEF Owners, Code, IsWrapped
    <3> QED
      BY <3>1 DEF Owners
  <2>4. ASSUME NEW c \in Owners \ {w}, NEW s, Holds(c, s)  PROVE Holds(c, s)'
    <3>1. c # t /\ c # w /\ c \in Code
      BY <2>2 DEF Owners
    <3> QED
      BY <1>1, <1>3, <2>1, <2>4, <3>1 DEF Holds, Code
  <2>5. Contexts' = Abs!Without(Contexts, w)
    BY <2>3, <2>4, ContextEnds
  <2>6. Letters' = Letters
    BY <1>1, <1>2, <1>3, <2>1, LettersKept
  <2>7. t \notin DOMAIN Contexts /\ t \notin DOMAIN Letters
    BY <1>1, <2>2 DEF Contexts, Letters
  <2> QED
    BY <2>1, <2>5, <2>6, <2>7 DEF Abs!Blend
<1> QED
  BY <1>4, <1>5

(* A return swaps them back.  Only the handler that is done loses its context. *)
LEMMA ReturnImplements ==
  ASSUME IInv, Placed, Placed', NEW w \in Threads, NEW done \in BOOLEAN, Return(w, done)
  PROVE  \/ \E t \in Tasks : Abs!Finish(t)
         \/ UNCHANGED Abs!vars
<1>a. PICK t : t = polled[w]
  OBVIOUS
<1>1. /\ Threads \cap Tasks = {} /\ NoTask \notin Tasks
      /\ t \in Tasks /\ t \in Code /\ w \in Code /\ t # w /\ phase[t] = "running"
      /\ ~IsWrapped(t) => w \in mixed /\ t \in mixed
      /\ \A v \in Threads : polled[v] = t => v = w
  BY <1>a, PolledOwners, ActorsAssumption DEF Return, Code, IInv, Polls
<1>2. /\ polled' = [polled EXCEPT ![w] = NoTask]
      /\ phase' = [phase EXCEPT ![t] = IF done THEN "done" ELSE "suspended"]
      /\ Forget(t, done)
      /\ UNCHANGED <<host, mixed>>
  BY <1>a DEF Return
<1>3. /\ \A u \in Tasks : phase'[u] = IF u = t THEN IF done THEN "done" ELSE "suspended"
                                      ELSE phase[u]
      /\ \A v \in Threads : polled'[v] = IF v = w THEN NoTask ELSE polled[v]
      /\ \A u \in Tasks \ {t} : /\ wire'[u] = wire[u] /\ sent'[u] = sent[u]
                                /\ snapshot'[u] = snapshot[u]
      /\ snapshot'[t] = IF done THEN NoHeader ELSE snapshot[t]
  BY <1>1, <1>2 DEF IInv, Typed, Forget
<1>4. Letters' = Letters
  BY <1>1, <1>2, <1>3, LettersKept
<1>5. /\ \A v \in Threads \ {w} : cell'[v] = cell[v] /\ prev'[v] = prev[v]
      /\ \A u \in Tasks \ {t} : held'[u] = held[u]
      /\ IsWrapped(t) => /\ held'[t] = IF done THEN NoStore ELSE cell[w]
                         /\ cell'[w] = prev[w]
  BY <1>a, <1>1 DEF Return, IInv, Typed
<1>6. ASSUME NEW c \in Owners, c = t => ~done, NEW s, Holds(c, s)
      PROVE  Holds(c, s)'
  <2>1. c \in Code /\ c \notin mixed
    BY DEF Owners
  <2>2. CASE c = w
    BY <1>a, <1>1, <1>3, <1>5, <1>6, <2>1, <2>2 DEF Holds
  <2>3. CASE c \in Threads \ {w}
    BY <1>1, <1>3, <1>5, <1>6, <2>3 DEF Holds
  <2>4. CASE c = t
    <3>1. s = cell[w]
      BY <1>1, <1>6, <2>4 DEF Holds
    <3>2. held'[t] = s /\ phase'[t] = "suspended"
      BY <1>1, <1>3, <1>5, <1>6, <2>1, <2>4, <3>1
    <3> QED
      BY <1>1, <2>4, <3>2 DEF Holds
  <2>5. CASE c \in Tasks \ {t}
    <3>1. CASE phase[c] \in {"delivered", "suspended"} /\ s = held[c]
      BY <1>3, <1>5, <2>5, <3>1 DEF Holds
    <3>2. CASE \E v \in Threads : polled[v] = c /\ s = cell[v]
      <4>1. PICK v \in Threads : polled[v] = c /\ s = cell[v]
        BY <3>2
      <4>2. v # w
        BY <1>a, <2>5, <4>1
      <4>3. polled'[v] = c /\ s = cell'[v]
        BY <1>3, <1>5, <4>1, <4>2
      <4> QED
        BY <2>5, <4>3 DEF Holds
    <3> QED
      BY <1>1, <1>6, <2>5, <3>1, <3>2 DEF Holds
  <2> QED
    BY <2>1, <2>2, <2>3, <2>4, <2>5 DEF Code
<1>7. Owners' = IF done THEN Owners \ {t} ELSE Owners
  <2>1. \A c \in Code : c \in Owners' <=> c \in Owners /\ (c = t => ~done)
    BY <1>1, <1>2, <1>3 DEF Owners, Code, IsWrapped
  <2> QED
    BY <2>1 DEF Owners
<1>8. CASE done /\ t \in Owners
  <2>1. Contexts' = Abs!Without(Contexts, t)
    BY <1>6, <1>7, <1>8, ContextEnds
  <2>2. t \in DOMAIN Contexts
    BY <1>8 DEF Contexts
  <2> QED
    BY <1>1, <1>2, <1>4, <2>1, <2>2 DEF Abs!Finish
<1>9. CASE ~done \/ t \notin Owners
  <2>1. Owners' = Owners
    BY <1>7, <1>9
  <2>2. Contexts' = Contexts
    BY <1>6, <1>9, <2>1, ContextsStay
  <2> QED
    BY <1>2, <1>4, <2>2 DEF Abs!vars
<1> QED
  BY <1>8, <1>9

(* At the start all threads have an empty context, and nothing is on its way. *)
LEMMA InitImplements == Init => Abs!Init
<1> SUFFICES ASSUME Init  PROVE Abs!Init
  OBVIOUS
<1>1. /\ cell = [w \in Threads |-> NewStore] /\ polled = [w \in Threads |-> NoTask]
      /\ phase = [t \in Tasks |-> "unborn"] /\ mixed = {}
  BY DEF Init
<1>2. Owners = Threads
  BY <1>1 DEF Owners, Code
<1>3. \A w \in Threads : ContextOf(w) = NewStore
  BY <1>1 DEF ContextOf
<1>4. Picture(NewStore) = Abs!Blank
  <2> DEFINE values == [k \in Keys |-> GetValue(NewStore, k)]
  <2>1. /\ {k \in Keys : values[k] # NoVal} = {}
        /\ ScopeChain(NewStore) = <<>>
    <3>1. ScopeChain(NewStore) = Limited(<<>>)
      BY NewStoreReads, NewStoreType, ScopeChainType
    <3>2. Limited(<<>>) = <<>>
      BY ContextStoreAssumption DEF Limited
    <3> QED
      BY <3>1, <3>2, NewStoreReads
  <2> HIDE DEF values
  <2>2. Writers(values) = [k \in {} |-> values[k].data]
    BY <2>1 DEF Writers
  <2>3. [k \in {} |-> values[k].data] = [k \in {} |-> Outside]
    OBVIOUS
  <2>4. Picture(NewStore) = [view |-> Writers(values), trail |-> <<>>]
    BY <2>1 DEF Picture, values
  <2> QED
    BY <2>2, <2>3, <2>4 DEF Abs!Blank
<1>5. Contexts = [w \in Threads |-> Abs!Blank]
  BY <1>2, <1>3, <1>4 DEF Contexts
<1>6. Letters = [t \in {t \in {} : TRUE} |-> Abs!Blank]
  BY <1>1 DEF Letters
<1> QED
  BY <1>1, <1>5, <1>6 DEF Abs!Init

(* Every step is one of Requests, or changes nobody's context. *)
LEMMA NextImplements ==
  IInv /\ Placed /\ Placed' /\ StartsWithLetters' /\ [Next]_vars => [Abs!Next]_(Abs!vars)
<1> SUFFICES ASSUME IInv, Placed, Placed', StartsWithLetters', [Next]_vars
             PROVE  Abs!Next \/ UNCHANGED Abs!vars
  OBVIOUS
<1>1. Names = Nodes /\ Code = Threads \cup Tasks
  BY ActorsAssumption DEF Code
<1>2. ASSUME NEW w \in Threads  PROVE Running(w) \in Threads \cup Tasks
  BY <1>1, <1>2, RunningType DEF IInv
<1>3. ASSUME NEW w \in Threads, NEW k \in Keys, NEW type \in Types, SetVariable(w, k, type)
      PROVE  Abs!Next \/ UNCHANGED Abs!vars
  BY <1>2, <1>3, SetVariableImplements DEF Abs!Next
<1>4. ASSUME NEW w \in Threads, NEW t \in Tasks, SendLocal(w, t)
      PROVE  Abs!Next \/ UNCHANGED Abs!vars
  <2>1. PICK snap : Sent(w, t, NodeOf[w], NoHeader, snap)
    BY <1>4 DEF SendLocal
  <2>2. Seen(w) \in Sight /\ NodeOf[w] \in Nodes
    BY <1>4, SendLocalIs, RunningType DEF IInv
  <2> QED
    BY <1>1, <1>2, <2>1, <2>2, SentImplements DEF Abs!Next
<1>5. ASSUME NEW w \in Threads, NEW t \in Tasks, NEW n \in Nodes, SendRemote(w, t, n)
      PROVE  Abs!Next \/ UNCHANGED Abs!vars
  <2>1. Seen(w) \in Sight /\ \E bytes : Sent(w, t, n, bytes, NoHeader)
    BY <1>5, SendRemoteIs DEF IInv
  <2> QED
    BY <1>1, <1>2, <2>1, SentImplements DEF Abs!Next
<1>6. ASSUME NEW w \in Threads, NEW t \in Tasks, Poll(w, t)
      PROVE  Abs!Next \/ UNCHANGED Abs!vars
  BY <1>6, PollImplements DEF Abs!Next
<1>7. ASSUME NEW w \in Threads, NEW done \in BOOLEAN, Return(w, done)
      PROVE  Abs!Next \/ UNCHANGED Abs!vars
  BY <1>7, ReturnImplements DEF Abs!Next
<1>8. ASSUME NEW t \in Tasks, NEW n \in Nodes, NEW bytes \in Foreign, Arrive(t, n, bytes)
      PROVE  Abs!Next \/ UNCHANGED Abs!vars
  BY <1>1, <1>8, ArriveImplements DEF Abs!Next
<1>9. ASSUME NEW t \in Tasks, Deliver(t)
      PROVE  Abs!Next \/ UNCHANGED Abs!vars
  BY <1>9, DeliverImplements DEF Abs!Next
<1>10. CASE UNCHANGED vars
  <2>1. UNCHANGED <<cell, polled, prev, phase, host, wire, snapshot, held, sent, mixed>>
    BY <1>10 DEF vars
  <2>2. Owners' = Owners /\ Letters' = Letters
    BY <2>1, LettersStay DEF Owners, IsWrapped
  <2>3. \A c \in Owners : \A s : Holds(c, s) => Holds(c, s)'
    BY <2>1 DEF Holds
  <2>4. Contexts' = Contexts
    BY <2>2, <2>3, ContextsStay
  <2> QED
    BY <2>1, <2>2, <2>4 DEF Abs!vars
<1> QED
  BY <1>3, <1>4, <1>5, <1>6, <1>7, <1>8, <1>9, <1>10 DEF Next

(* Actors implements Requests: on any number of nodes, with any registries, threads
   that share polls of any number of handlers, and bytes that may not be readable,
   whoever was given a context has it to himself, finds there what he or a sender
   has written, and passes it on as it is when he sends. *)
THEOREM SpecImplementsRequests == Spec => ImplementsRequests
<1>1. Init => Abs!Init
  BY InitImplements
<1>2. IInv /\ Placed /\ Placed' /\ StartsWithLetters' /\ [Next]_vars
        => [Abs!Next]_(Abs!vars)
  BY NextImplements
<1>3. IInv => Placed /\ StartsWithLetters
  BY IInvPlaced, IInvStarts
<1> QED
  BY <1>1, <1>2, <1>3, SpecIInv, PTL DEF Spec, ImplementsRequests, Abs!Spec

=============================================================================
