------------------------ MODULE RegistryAccess_proofs ------------------------
(***************************************************************************)
(* Theorems about the registry: registrations and migrations keep a        *)
(* registry sound, and the two-phase storage gives every callback one      *)
(* registry and never leaves its mutex locked, for any number of threads,  *)
(* keys, versions and nested calls.                                        *)
(***************************************************************************)
EXTENDS RegistryAccess, SequenceTheorems, TLAPS

-----------------------------------------------------------------------------
(* Registrations and migrations *)

\* What do_register_with inserts is a registration.
LEMMA NewRegistrationType ==
  ASSUME NEW type \in Types, NEW opts \in Options
  PROVE  NewRegistration(type, opts) \in Registration
<1>1. \A v \in Versions :
        (IF v = opts.version /\ ~opts.local_only
         THEN [reads |-> type, codec |-> opts.codec, gives |-> type]
         ELSE NoDecoder) \in Decoder \cup {NoDecoder}
  BY DEF Options, Decoder
<1> QED
  BY <1>1 DEF NewRegistration, Registration, Options

\* do_register_with turns a registry into a registry.
LEMMA RegisteredType ==
  ASSUME NEW map \in RegistryMap, NEW k \in Keys, NEW type \in Types,
         NEW opts \in Options
  PROVE  Registered(map, k, type, opts) \in RegistryMap
BY NewRegistrationType DEF Registered, RegistryMap

\* do_register_with keeps a registry sound.
LEMMA RegisteredSound ==
  ASSUME NEW map \in RegistryMap, NEW k \in Keys, NEW type \in Types,
         NEW opts \in Options, Sound(map)
  PROVE  Sound(Registered(map, k, type, opts))
<1> DEFINE later == Registered(map, k, type, opts)
<1>1. CASE RegisterResult(map, k, type, opts) = "Ok" /\ ~IsRegistered(map, k)
  <2> DEFINE r == NewRegistration(type, opts)
  <2>1. later = [map EXCEPT ![k] = r]
    BY <1>1 DEF Registered
  <2>2. later[k] = r /\ \A c \in Keys \ {k} : later[c] = map[c]
    BY <2>1 DEF RegistryMap
  <2>3. ~Contradictory(opts)
    BY <1>1 DEF RegisterResult
  <2>4. /\ r.type = type /\ r.codec = opts.codec
        /\ r.version = opts.version /\ r.local_only = opts.local_only
    BY DEF NewRegistration
  <2>5. \A v \in Versions :
          r.decoders[v] = IF v = opts.version /\ ~opts.local_only
                          THEN [reads |-> type, codec |-> opts.codec, gives |-> type]
                          ELSE NoDecoder
    BY DEF NewRegistration
  <2>6. opts.version \in Versions /\ opts.local_only \in BOOLEAN
    BY DEF Options
  <2>7. r.local_only => /\ r.codec = Bincode
                        /\ \A v \in Versions : r.decoders[v] = NoDecoder
    BY <2>3, <2>4, <2>5 DEF Contradictory
  <2>8. ~r.local_only =>
          r.decoders[r.version] = [reads |-> r.type, codec |-> r.codec, gives |-> r.type]
    BY <2>4, <2>5, <2>6
  <2>9. \A v \in Versions : r.decoders[v] # NoDecoder => r.decoders[v].gives = r.type
    BY <2>4, <2>5
  <2> HIDE DEF r, later
  <2> QED
    BY <2>2, <2>7, <2>8, <2>9 DEF Sound, IsRegistered, later
<1>2. CASE ~(RegisterResult(map, k, type, opts) = "Ok" /\ ~IsRegistered(map, k))
  BY <1>2 DEF Registered
<1> QED
  BY <1>1, <1>2

\* do_register_migration turns a registry into a registry.
LEMMA MigratedType ==
  ASSUME NEW map \in RegistryMap, NEW k \in Keys, NEW old \in Versions,
         NEW reads \in Types, NEW gives \in Types
  PROVE  Migrated(map, k, old, reads, gives) \in RegistryMap
<1> DEFINE decoder == [reads |-> reads, codec |-> Bincode, gives |-> gives]
           later   == Migrated(map, k, old, reads, gives)
<1>1. CASE MigrationResult(map, k, old, gives) = "Ok"
  <2>1. map[k] \in Registration
    BY <1>1 DEF MigrationResult, IsRegistered, RegistryMap
  <2>2. decoder \in Decoder
    BY DEF Decoder
  <2>3. [map[k] EXCEPT !.decoders[old] = decoder] \in Registration
    BY <2>1, <2>2 DEF Registration
  <2>4. later = [map EXCEPT ![k] = [map[k] EXCEPT !.decoders[old] = decoder]]
    BY <1>1 DEF Migrated
  <2> HIDE DEF decoder
  <2> QED
    BY <2>3, <2>4 DEF RegistryMap
<1>2. CASE MigrationResult(map, k, old, gives) # "Ok"
  BY <1>2 DEF Migrated
<1> QED
  BY <1>1, <1>2

\* A migration that is accepted changes one decoder of its key, not that of the
\* current version, and it ends at the type of the key.
LEMMA MigratedChanges ==
  ASSUME NEW map \in RegistryMap, NEW k \in Keys, NEW old \in Versions,
         NEW reads \in Types, NEW gives \in Types,
         MigrationResult(map, k, old, gives) = "Ok"
  PROVE  LET later == Migrated(map, k, old, reads, gives)
         IN  /\ \A c \in Keys \ {k} : later[c] = map[c]
             /\ map[k] \in Registration /\ ~map[k].local_only
             /\ later[k] = [map[k] EXCEPT !.decoders = later[k].decoders]
             /\ old # map[k].version
             /\ \A v \in Versions \ {old} : later[k].decoders[v] = map[k].decoders[v]
             /\ later[k].decoders[old].gives = map[k].type
<1> DEFINE decoder == [reads |-> reads, codec |-> Bincode, gives |-> gives]
           later   == Migrated(map, k, old, reads, gives)
<1>1. /\ map[k] \in Registration /\ ~map[k].local_only
      /\ old # map[k].version /\ map[k].type = gives
  BY DEF MigrationResult, IsRegistered, RegistryMap
<1>2. later = [map EXCEPT ![k] = [map[k] EXCEPT !.decoders[old] = decoder]]
  BY DEF Migrated
<1>3. decoder.gives = gives
  OBVIOUS
<1>4. /\ later[k] = [map[k] EXCEPT !.decoders[old] = decoder]
      /\ \A c \in Keys \ {k} : later[c] = map[c]
  BY <1>2 DEF RegistryMap
<1>5. later[k].decoders = [map[k].decoders EXCEPT ![old] = decoder]
  BY <1>1, <1>4 DEF Registration
<1>6. later[k] = [map[k] EXCEPT !.decoders = later[k].decoders]
  BY <1>1, <1>4, <1>5 DEF Registration
<1>7. /\ later[k].decoders[old] = decoder
      /\ \A v \in Versions \ {old} : later[k].decoders[v] = map[k].decoders[v]
  BY <1>1, <1>5 DEF Registration
<1> HIDE DEF decoder, later
<1> QED
  BY <1>1, <1>3, <1>4, <1>6, <1>7 DEF later

\* do_register_migration keeps a registry sound.
LEMMA MigratedSound ==
  ASSUME NEW map \in RegistryMap, NEW k \in Keys, NEW old \in Versions,
         NEW reads \in Types, NEW gives \in Types, Sound(map)
  PROVE  Sound(Migrated(map, k, old, reads, gives))
<1> DEFINE later == Migrated(map, k, old, reads, gives)
<1>1. CASE MigrationResult(map, k, old, gives) = "Ok"
  <2>1. /\ \A c \in Keys \ {k} : later[c] = map[c]
        /\ map[k] \in Registration /\ ~map[k].local_only
        /\ later[k] = [map[k] EXCEPT !.decoders = later[k].decoders]
        /\ old # map[k].version
        /\ \A v \in Versions \ {old} : later[k].decoders[v] = map[k].decoders[v]
        /\ later[k].decoders[old].gives = map[k].type
    BY <1>1, MigratedChanges
  <2>2. IsRegistered(map, k) /\ map[k].version \in Versions
    BY <2>1, RegistryAssumption DEF IsRegistered, Registration
  <2>3. /\ later[k].type = map[k].type /\ later[k].codec = map[k].codec
        /\ later[k].version = map[k].version
        /\ later[k].local_only = map[k].local_only
    BY <2>1 DEF Registration
  <2>4. /\ map[k].decoders[map[k].version] =
             [reads |-> map[k].type, codec |-> map[k].codec, gives |-> map[k].type]
        /\ \A v \in Versions : map[k].decoders[v] # NoDecoder
                                => map[k].decoders[v].gives = map[k].type
    BY <2>1, <2>2, Sound(map) DEF Sound
  <2> HIDE DEF later
  <2>5. \A v \in Versions : later[k].decoders[v] # NoDecoder
                              => later[k].decoders[v].gives = later[k].type
    <3> SUFFICES ASSUME NEW v \in Versions, later[k].decoders[v] # NoDecoder
                 PROVE  later[k].decoders[v].gives = map[k].type
      BY <2>3
    <3>1. CASE v = old
      BY <2>1, <3>1
    <3>2. CASE v # old
      <4>1. later[k].decoders[v] = map[k].decoders[v]
        BY <2>1, <3>2
      <4> QED
        BY <2>2, <2>4, <4>1
    <3> QED
      BY <3>1, <3>2
  <2>6. later[k].decoders[later[k].version] =
          [reads |-> later[k].type, codec |-> later[k].codec, gives |-> later[k].type]
    <3>1. later[k].decoders[map[k].version] = map[k].decoders[map[k].version]
      BY <2>1, <2>2
    <3> QED
      BY <2>1, <2>3, <2>4, <3>1
  <2> QED
    BY <2>1, <2>3, <2>5, <2>6, Sound(map) DEF Sound, IsRegistered, later
<1>2. CASE MigrationResult(map, k, old, gives) # "Ok"
  BY <1>2 DEF Migrated
<1> QED
  BY <1>1, <1>2

\* A registry to which nothing is added keeps every key.
LEMMA SameMapKeeps ==
  ASSUME NEW map \in RegistryMap
  PROVE  KeysAreKept(map, map)
<1> SUFFICES ASSUME NEW k \in Keys, IsRegistered(map, k)
             PROVE  SameKey(map[k], map[k])
  BY DEF KeysAreKept
<1>1. map[k] \in Registration
  BY DEF IsRegistered, RegistryMap
<1> QED
  BY <1>1 DEF SameKey, Registration

\* Whatever is added, by a registration or a migration, and whether it is
\* accepted or not: a sound registry becomes a sound registry that keeps every
\* key that was registered.
LEMMA AdditionsKeep ==
  ASSUME NEW map \in RegistryMap, NEW later \in Additions(map)
  PROVE  /\ later \in RegistryMap
         /\ Sound(map) => Sound(later)
         /\ KeysAreKept(map, later)
<1>1. CASE \E r \in Registrations : later = Registered(map, r.key, r.type, r.opts)
  <2> PICK r \in Registrations : later = Registered(map, r.key, r.type, r.opts)
    BY <1>1
  <2>1. r.key \in Keys /\ r.type \in Types /\ r.opts \in Options
    BY RegistryAccessAssumption
  <2>2. later \in RegistryMap /\ (Sound(map) => Sound(later))
    BY <2>1, RegisteredType, RegisteredSound
  <2>3. \A k \in Keys : IsRegistered(map, k) => later[k] = map[k]
    BY <2>1 DEF Registered, RegistryMap
  <2>4. KeysAreKept(map, map)
    BY SameMapKeeps
  <2> QED
    BY <2>2, <2>3, <2>4 DEF KeysAreKept
<1>2. CASE \E m \in Migrations : later = Migrated(map, m.key, m.old, m.reads, m.gives)
  <2> PICK m \in Migrations : later = Migrated(map, m.key, m.old, m.reads, m.gives)
    BY <1>2
  <2>1. /\ m.key \in Keys /\ m.old \in Versions
        /\ m.reads \in Types /\ m.gives \in Types
    BY RegistryAccessAssumption
  <2>2. later \in RegistryMap /\ (Sound(map) => Sound(later))
    BY <2>1, MigratedType, MigratedSound
  <2>3. KeysAreKept(map, map)
    BY SameMapKeeps
  <2>4. CASE MigrationResult(map, m.key, m.old, m.gives) = "Ok"
    <3>1. /\ \A c \in Keys \ {m.key} : later[c] = map[c]
          /\ map[m.key] \in Registration
          /\ later[m.key] = [map[m.key] EXCEPT !.decoders = later[m.key].decoders]
          /\ m.old # map[m.key].version
          /\ \A v \in Versions \ {m.old} :
               later[m.key].decoders[v] = map[m.key].decoders[v]
      BY <2>1, <2>4, MigratedChanges
    <3>2. SameKey(map[m.key], later[m.key])
      BY <3>1 DEF SameKey, Registration
    <3> QED
      BY <2>2, <2>3, <3>1, <3>2 DEF KeysAreKept
  <2>5. CASE MigrationResult(map, m.key, m.old, m.gives) # "Ok"
    BY <2>2, <2>3, <2>5 DEF Migrated
  <2> QED
    BY <2>4, <2>5
<1> QED
  BY <1>1, <1>2 DEF Additions

-----------------------------------------------------------------------------
(* The maps that threads share *)

\* The last call of a thread, and the calls below it.
LEMMA CallsProperties ==
  ASSUME NEW S, NEW s \in Seq(S), s # <<>>
  PROVE  /\ Len(s) \in Nat \ {0}
         /\ Last(s) = s[Len(s)] /\ Last(s) \in S
         /\ Front(s) \in Seq(S)
         /\ Len(Front(s)) = Len(s) - 1
         /\ \A i \in 1 .. Len(s) - 1 : Front(s)[i] = s[i]
<1>1. Len(s) \in Nat /\ Len(s) # 0
  OBVIOUS
<1>2. Last(s) = s[Len(s)] /\ Last(s) \in S
  BY <1>1 DEF Last
<1>3. /\ Front(s) \in Seq(S)
      /\ Len(Front(s)) = Len(s) - 1
      /\ \A i \in 1 .. Len(s) - 1 : Front(s)[i] = s[i]
  <2> DEFINE n == Len(s) - 1
             f == SubSeq(s, 1, n)
  <2>1. n \in Nat /\ 1 \in 1 .. Len(s) + 1 /\ n \in 1 - 1 .. Len(s)
    BY <1>1
  <2>2. Front(s) = f
    BY DEF Front
  <2> HIDE DEF n
  <2>3. /\ f \in Seq(S)
        /\ Len(f) = IF 1 <= n THEN n - 1 + 1 ELSE 0
        /\ \A i \in 1 .. n - 1 + 1 : f[i] = s[1 + i - 1]
    BY <2>1, SubSeqProperties
  <2> HIDE DEF f
  <2>4. Len(f) = n
    BY <2>1, <2>3
  <2>5. \A i \in 1 .. n : f[i] = s[i]
    <3> TAKE i \in 1 .. n
    <3>1. i \in 1 .. n - 1 + 1 /\ 1 + i - 1 = i
      BY <2>1
    <3> QED
      BY <2>3, <3>1
  <2> QED
    BY <2>2, <2>3, <2>4, <2>5 DEF n
<1> QED
  BY <1>1, <1>2, <1>3

Call_ == Waiting \cup Holding \cup {"frozen"}

\* The registry is sound wherever it is: what every step preserves.
MapsInv == TypeOK /\ MapsAreSound

\* An empty BUILD, no builders and no FROZEN are sound.
LEMMA InitMaps == Init => MapsInv
<1> SUFFICES ASSUME Init PROVE MapsInv
  OBVIOUS
<1>1. EmptyMap \in RegistryMap /\ Sound(EmptyMap)
  BY DEF EmptyMap, RegistryMap, Sound, IsRegistered
<1>2. TypeOK
  BY <1>1 DEF Init, TypeOK
<1>3. MapsAreSound
  BY <1>1 DEF Init, MapsAreSound, Maps
<1> QED
  BY <1>2, <1>3 DEF MapsInv

\* The type of the stack of calls, step by step.
LEMMA CallsType ==
  ASSUME TypeOK, Next
  PROVE  calls' \in [Threads -> Seq(Call_)]
<1>1. calls \in [Threads -> Seq(Call_)]
  BY DEF TypeOK, Call_
<1> PICK t \in Threads :
      \/ NewBuilder(t) \/ AddToBuilder(t) \/ Initialize(t)
      \/ Call(t) \/ CallRegister(t) \/ Lock(t)
      \/ \E d \in 1 .. MaxCalls : Return(t, d)
      \/ \E stay \in 0 .. MaxCalls : Panic(t, stay)
  BY DEF Next
<1>2. calls[t] \in Seq(Call_)
  BY <1>1
<1>3. CASE NewBuilder(t) \/ AddToBuilder(t) \/ Initialize(t)
  BY <1>1, <1>3 DEF NewBuilder, AddToBuilder, Initialize
<1>4. CASE Call(t) \/ CallRegister(t)
  <2>1. PICK at \in Call_ : calls' = [calls EXCEPT ![t] = Append(calls[t], at)]
    BY <1>4 DEF Call, CallRegister, Enter, Call_, Waiting, Holding
  <2>2. Append(calls[t], at) \in Seq(Call_)
    BY <1>2
  <2> QED
    BY <1>1, <2>1, <2>2
<1>5. CASE Lock(t)
  <2>1. calls[t] # <<>>
    BY <1>5 DEF Lock, Waits
  <2>2. Front(calls[t]) \in Seq(Call_)
    BY <1>2, <2>1, CallsProperties
  <2>3. "build" \in Call_ /\ "configuring" \in Call_
    BY DEF Call_, Holding
  <2>4. PICK at \in Call_ : calls' = [calls EXCEPT ![t] = Append(Front(calls[t]), at)]
    BY <1>5, <2>3 DEF Lock
  <2>5. Append(Front(calls[t]), at) \in Seq(Call_)
    BY <2>2
  <2> QED
    BY <1>1, <2>4, <2>5
<1>6. CASE \E d \in 1 .. MaxCalls : Return(t, d)
  <2>1. calls[t] # <<>> /\ calls' = [calls EXCEPT ![t] = Front(calls[t])]
    BY <1>2, <1>6 DEF Return
  <2>2. Front(calls[t]) \in Seq(Call_)
    BY <1>2, <2>1, CallsProperties
  <2> QED
    BY <1>1, <2>1, <2>2
<1>7. CASE \E stay \in 0 .. MaxCalls : Panic(t, stay)
  <2> PICK stay \in 0 .. MaxCalls : Panic(t, stay)
    BY <1>7
  <2>1. stay \in 0 .. Len(calls[t])
    BY <1>2, RegistryAccessAssumption DEF Panic
  <2>2. SubSeq(calls[t], 1, stay) \in Seq(Call_)
    BY <1>2, <2>1
  <2> QED
    BY <1>1, <2>2 DEF Panic
<1> QED
  BY <1>3, <1>4, <1>5, <1>6, <1>7

\* Every step of every thread keeps the registries sound: a call adds nothing, a
\* builder and a registration of a test add with do_register_with.
LEMMA NextMaps == MapsInv /\ [Next]_vars => MapsInv'
<1> SUFFICES ASSUME MapsInv, [Next]_vars PROVE MapsInv'
  OBVIOUS
<1>0. TypeOK /\ MapsAreSound
  BY DEF MapsInv
<1>1. CASE UNCHANGED vars
  BY <1>0, <1>1 DEF vars, MapsInv, TypeOK, MapsAreSound, Maps
<1>2. CASE Next
  <2>0. calls' \in [Threads -> Seq(Waiting \cup Holding \cup {"frozen"})]
    BY <1>0, <1>2, CallsType DEF Call_
  <2> PICK t \in Threads :
        \/ NewBuilder(t) \/ AddToBuilder(t) \/ Initialize(t)
        \/ Call(t) \/ CallRegister(t) \/ Lock(t)
        \/ \E d \in 1 .. MaxCalls : Return(t, d)
        \/ \E stay \in 0 .. MaxCalls : Panic(t, stay)
    BY <1>2 DEF Next
  <2>1. /\ holder' \in Threads \cup {Nobody}
        /\ written' \in Nat
    BY <1>0 DEF TypeOK, NewBuilder, AddToBuilder, Initialize, Call, CallRegister,
                Enter, Lock, Return, Panic
  <2>2. EmptyMap \in RegistryMap /\ Sound(EmptyMap)
    BY DEF EmptyMap, RegistryMap, Sound, IsRegistered
  <2> DEFINE Good(map) == map \in RegistryMap /\ Sound(map)
  <2>3. /\ Good(build)
        /\ frozen # NotFrozen => Good(frozen)
        /\ \A u \in Threads : builder[u] # NoBuilder => Good(builder[u])
    BY <1>0, RegistryAccessAssumption DEF TypeOK, MapsAreSound, Maps
  <2>4. \A map \in RegistryMap : \A later \in Additions(map) : Good(map) => Good(later)
    BY AdditionsKeep
  <2>5. Good(build')
    <3>1. CASE build' = build
      BY <2>3, <3>1
    <3>2. CASE build' \in Additions(build)
      BY <2>3, <2>4, <3>2
    <3> QED
      BY <3>1, <3>2 DEF NewBuilder, AddToBuilder, Initialize, Call, CallRegister,
                        Enter, Lock, Return, Panic
  <2>6. frozen' # NotFrozen => Good(frozen')
    <3>1. CASE frozen' = frozen
      BY <2>3, <3>1
    <3>2. CASE frozen' = builder[t] /\ builder[t] # NoBuilder
      BY <2>3, <3>2
    <3> QED
      BY <3>1, <3>2 DEF NewBuilder, AddToBuilder, Initialize, Call, CallRegister,
                        Enter, Lock, Return, Panic
  <2>7. PICK map : /\ builder' = builder \/ builder' = [builder EXCEPT ![t] = map]
                   /\ map = NoBuilder \/ Good(map)
    <3>1. CASE UNCHANGED builder
      BY <3>1
    <3>2. CASE NewBuilder(t)
      BY <2>2, <3>2 DEF NewBuilder
    <3>3. CASE AddToBuilder(t)
      BY <2>3, <2>4, <3>3 DEF AddToBuilder
    <3>4. CASE Initialize(t)
      BY <3>4 DEF Initialize
    <3> QED
      BY <3>1, <3>2, <3>3, <3>4 DEF Call, CallRegister, Enter, Lock, Return, Panic
  <2>8. builder \in [Threads -> RegistryMap \cup {NoBuilder}]
    BY <1>0 DEF TypeOK
  <2>9. \A u \in Threads : builder'[u] = builder[u] \/ builder'[u] = map
    BY <2>7, <2>8
  <2>10. \A u \in Threads : builder'[u] # NoBuilder => Good(builder'[u])
    BY <2>3, <2>7, <2>9
  <2>11. builder' \in [Threads -> RegistryMap \cup {NoBuilder}]
    BY <2>7, <2>8
  <2>12. TypeOK'
    BY <2>0, <2>1, <2>5, <2>6, <2>11 DEF TypeOK
  <2>13. MapsAreSound'
    BY <2>5, <2>6, <2>10 DEF MapsAreSound, Maps
  <2> QED
    BY <2>12, <2>13 DEF MapsInv
<1> QED
  BY <1>1, <1>2

\* The registries and the calls keep their types, on however many threads.
THEOREM SpecTypeOK == Spec => []TypeOK
<1>1. MapsInv => TypeOK
  BY DEF MapsInv
<1> QED
  BY InitMaps, NextMaps, <1>1, PTL DEF Spec

\* No sequence of registrations and migrations, with all their conflicts, makes
\* a registry in which a key cannot be read as what it was registered with.
THEOREM SpecMapsAreSound == Spec => []MapsAreSound
<1>1. MapsInv => MapsAreSound
  BY DEF MapsInv
<1> QED
  BY InitMaps, NextMaps, <1>1, PTL DEF Spec

\* What one step makes of the registries that exist before and after it.
LEMMA StepKeepsKeys ==
  ASSUME MapsInv, [Next]_vars
  PROVE  /\ KeysAreKept(build, build')
         /\ frozen # NotFrozen => KeysAreKept(frozen, frozen')
         /\ \A t \in Threads :
              AddToBuilder(t) => KeysAreKept(builder[t], builder'[t])
<1>0. TypeOK
  BY DEF MapsInv
<1>1. build \in RegistryMap /\ (frozen # NotFrozen => frozen \in RegistryMap)
  BY <1>0 DEF TypeOK
<1>2. build' = build \/ build' \in Additions(build)
  BY DEF vars, Next, NewBuilder, AddToBuilder, Initialize, Call, CallRegister,
         Enter, Lock, Return, Panic
<1>3. frozen # NotFrozen => frozen' = frozen
  BY DEF vars, Next, NewBuilder, AddToBuilder, Initialize, Call, CallRegister,
         Enter, Lock, Return, Panic
<1>4. ASSUME NEW t \in Threads, AddToBuilder(t)
      PROVE  KeysAreKept(builder[t], builder'[t])
  <2>1. builder[t] \in RegistryMap
    BY <1>0, <1>4 DEF TypeOK, AddToBuilder
  <2>2. builder'[t] \in Additions(builder[t])
    BY <1>0, <1>4 DEF TypeOK, AddToBuilder
  <2> QED
    BY <2>1, <2>2, AdditionsKeep
<1> QED
  BY <1>1, <1>2, <1>3, <1>4, SameMapKeeps, AdditionsKeep

\* A key keeps what was recorded for it when it was first registered.
THEOREM SpecRegistrationsAreKept == Spec => RegistrationsAreKept
<1>1. MapsInv /\ [Next]_vars =>
        [/\ KeysAreKept(build, build')
         /\ frozen # NotFrozen => KeysAreKept(frozen, frozen')
         /\ \A t \in Threads :
              AddToBuilder(t) => KeysAreKept(builder[t], builder'[t])]_vars
  BY StepKeepsKeys
<1> QED
  BY <1>1, InitMaps, NextMaps, PTL DEF Spec, RegistrationsAreKept

-----------------------------------------------------------------------------
(* The mutex *)

\* The frames of the callbacks that run under the mutex.
Under(t) == {i \in DOMAIN calls[t] : calls[t][i] \in Holding}

\* A thread has at most one call under the mutex, which is then its own; the
\* mutex is never held without such a call; and a callback that reads FROZEN
\* runs only once it is set.
MutexInv ==
  /\ \A t \in Threads : \A i, j \in Under(t) : i = j /\ holder = t
  /\ \A t \in Threads : holder = t => Under(t) # {}
  /\ \A t \in Threads : \A i \in DOMAIN calls[t] :
       calls[t][i] = "frozen" => frozen # NotFrozen

AccessInv == MapsInv /\ MutexInv

\* Before the first call nobody holds the mutex.
LEMMA InitMutex == Init => MutexInv
BY RegistryAccessAssumption DEF Init, MutexInv, Under

\* The thread that takes a step changes its own stack only.
LEMMA MutexOfOthers ==
  ASSUME TypeOK, NEW t \in Threads, NEW s, calls' = [calls EXCEPT ![t] = s],
         NEW u \in Threads, u # t
  PROVE  calls'[u] = calls[u] /\ Under(u)' = Under(u)
<1>1. calls'[u] = calls[u]
  BY DEF TypeOK
<1> QED
  BY <1>1 DEF Under

\* A call that begins without taking the mutex.
LEMMA EnterMutex ==
  ASSUME AccessInv, NEW t \in Threads, NEW at \in Waiting \cup {"frozen"},
         Enter(t, at), at = "frozen" => frozen # NotFrozen
  PROVE  MutexInv'
<1>0. TypeOK /\ MutexInv
  BY DEF AccessInv, MapsInv
<1>1. calls[t] \in Seq(Call_) /\ Len(calls[t]) \in Nat
  BY <1>0 DEF TypeOK, Call_
<1>2. /\ calls' = [calls EXCEPT ![t] = Append(calls[t], at)]
      /\ holder' = holder /\ frozen' = frozen
  BY DEF Enter
<1>3. calls'[t] = Append(calls[t], at)
  BY <1>0, <1>2 DEF TypeOK
<1>4. /\ DOMAIN calls'[t] = DOMAIN calls[t] \cup {Len(calls[t]) + 1}
      /\ \A i \in DOMAIN calls[t] : calls'[t][i] = calls[t][i]
      /\ calls'[t][Len(calls[t]) + 1] = at
  BY <1>1, <1>3
<1>5. Under(t)' = Under(t)
  BY <1>4 DEF Under, Holding, Waiting
<1>6. \A u \in Threads : Under(u)' = Under(u)
  BY <1>0, <1>2, <1>5, MutexOfOthers
<1>7. \A u \in Threads : \A i \in DOMAIN calls'[u] :
        calls'[u][i] = "frozen" => frozen' # NotFrozen
  BY <1>0, <1>2, <1>4, MutexOfOthers DEF MutexInv
<1>8. MutexInv
  BY <1>0
<1>9. /\ \A u \in Threads : \A i, j \in Under(u)' : i = j /\ holder' = u
      /\ \A u \in Threads : holder' = u => Under(u)' # {}
  BY <1>2, <1>6, <1>8 DEF MutexInv
<1> QED
  BY <1>7, <1>9 DEF MutexInv

\* lock_build.
LEMMA LockMutex ==
  ASSUME AccessInv, NEW t \in Threads, Lock(t)
  PROVE  MutexInv'
<1>0. TypeOK /\ MutexInv
  BY DEF AccessInv, MapsInv
<1>1. calls[t] \in Seq(Call_) /\ calls[t] # <<>> /\ holder = Nobody
  BY <1>0 DEF TypeOK, Call_, Lock, Waits
<1>2. PICK at \in Holding : calls' = [calls EXCEPT ![t] = Append(Front(calls[t]), at)]
  BY DEF Lock, Holding
<1>3. calls'[t] = Append(Front(calls[t]), at)
  BY <1>0, <1>2 DEF TypeOK
<1>4. /\ Len(calls[t]) \in Nat \ {0}
      /\ Front(calls[t]) \in Seq(Call_)
      /\ Len(Front(calls[t])) = Len(calls[t]) - 1
      /\ \A i \in 1 .. Len(calls[t]) - 1 : Front(calls[t])[i] = calls[t][i]
  BY <1>1, CallsProperties
<1>5. /\ DOMAIN calls'[t] = 1 .. Len(calls[t])
      /\ DOMAIN calls[t] = 1 .. Len(calls[t])
      /\ \A i \in 1 .. Len(calls[t]) - 1 : calls'[t][i] = calls[t][i]
      /\ calls'[t][Len(calls[t])] = at
  <2> DEFINE f == Front(calls[t])
  <2> HIDE DEF f
  <2>1. calls'[t] = Append(f, at) /\ f \in Seq(Call_) /\ Len(f) = Len(calls[t]) - 1
    BY <1>3, <1>4 DEF f
  <2>2. \A i \in 1 .. Len(calls[t]) - 1 : calls'[t][i] = f[i]
    BY <1>4, <2>1
  <2> QED
    BY <1>1, <1>4, <2>1, <2>2 DEF f
<1>6. \A u \in Threads : Under(u) = {}
  BY <1>0, <1>1, RegistryAccessAssumption DEF MutexInv
<1>7. Under(t)' = {Len(calls[t])}
  <2>1. \A i \in 1 .. Len(calls[t]) - 1 : calls'[t][i] \notin Holding
    BY <1>4, <1>5, <1>6 DEF Under
  <2>2. \A i \in 1 .. Len(calls[t]) : i = Len(calls[t]) \/ i \in 1 .. Len(calls[t]) - 1
    BY <1>4
  <2> QED
    BY <1>4, <1>5, <2>1, <2>2 DEF Under
<1>8. \A u \in Threads \ {t} : Under(u)' = {} /\ calls'[u] = calls[u]
  BY <1>0, <1>2, <1>6, MutexOfOthers
<1>9. holder' = t /\ frozen' = frozen
  BY DEF Lock
<1>10. \A i \in DOMAIN calls'[t] : calls'[t][i] = "frozen" => frozen' # NotFrozen
  <2>1. \A i \in 1 .. Len(calls[t]) : i = Len(calls[t]) \/ i \in 1 .. Len(calls[t]) - 1
    BY <1>4
  <2> QED
    BY <1>0, <1>4, <1>5, <1>9, <2>1 DEF MutexInv, Holding
<1>11. \A u \in Threads : \A i, j \in Under(u)' : i = j /\ holder' = u
  BY <1>7, <1>8, <1>9
<1>12. \A u \in Threads : holder' = u => Under(u)' # {}
  BY <1>7, <1>9
<1>13. \A u \in Threads : \A i \in DOMAIN calls'[u] :
         calls'[u][i] = "frozen" => frozen' # NotFrozen
  BY <1>0, <1>8, <1>9, <1>10 DEF MutexInv
<1> QED
  BY <1>11, <1>12, <1>13 DEF MutexInv

\* A thread's calls end, and its callbacks under the mutex with them, when it
\* returns or unwinds to a lower level: the mutex is released just then.
LEMMA UnwindMutex ==
  ASSUME AccessInv, NEW t \in Threads, NEW n \in 0 .. Len(calls[t]),
         DOMAIN calls'[t] = 1 .. n,
         \A i \in 1 .. n : calls'[t][i] = calls[t][i],
         NEW s, calls' = [calls EXCEPT ![t] = s],
         holder' = (IF \E i \in n + 1 .. Len(calls[t]) : calls[t][i] \in Holding
                    THEN Nobody ELSE holder),
         frozen' = frozen
  PROVE  MutexInv'
<1>0. TypeOK /\ MutexInv
  BY DEF AccessInv, MapsInv
<1>1. /\ calls[t] \in Seq(Call_) /\ Len(calls[t]) \in Nat /\ n \in Nat
      /\ DOMAIN calls[t] = 1 .. Len(calls[t])
  BY <1>0 DEF TypeOK, Call_
<1>2. Under(t)' = {i \in Under(t) : i <= n}
  BY <1>1 DEF Under
<1>3. \A u \in Threads \ {t} : Under(u)' = Under(u) /\ calls'[u] = calls[u]
  BY <1>0, MutexOfOthers
<1>4. \A u \in Threads : \A i \in DOMAIN calls'[u] :
        calls'[u][i] = "frozen" => frozen' # NotFrozen
  BY <1>0, <1>1, <1>3 DEF MutexInv
<1>5. CASE \E i \in n + 1 .. Len(calls[t]) : calls[t][i] \in Holding
  <2> PICK i \in n + 1 .. Len(calls[t]) : calls[t][i] \in Holding
    BY <1>5
  <2>1. i \in Under(t) /\ ~(i <= n)
    BY <1>1 DEF Under
  <2>2. holder = t /\ Under(t)' = {}
    BY <1>0, <1>2, <2>1 DEF MutexInv
  <2>3. \A u \in Threads \ {t} : Under(u) = {}
    BY <1>0, <2>2 DEF MutexInv
  <2>4. holder' = Nobody
    BY <1>5
  <2> QED
    BY <1>3, <1>4, <2>2, <2>3, <2>4, RegistryAccessAssumption DEF MutexInv
<1>6. CASE ~ \E i \in n + 1 .. Len(calls[t]) : calls[t][i] \in Holding
  <2>1. \A i \in Under(t) : i <= n
    BY <1>1, <1>6 DEF Under
  <2>2. Under(t)' = Under(t)
    BY <1>2, <2>1
  <2>3. holder' = holder
    BY <1>6
  <2> QED
    BY <1>0, <1>3, <1>4, <2>2, <2>3 DEF MutexInv
<1> QED
  BY <1>5, <1>6

\* A call takes the mutex when it is free and its return, or its unwinding, frees it.
LEMMA NextMutex == AccessInv /\ [Next]_vars => MutexInv'
<1> SUFFICES ASSUME AccessInv, [Next]_vars PROVE MutexInv'
  OBVIOUS
<1>0. TypeOK /\ MutexInv
  BY DEF AccessInv, MapsInv
<1>1. CASE UNCHANGED vars
  BY <1>0, <1>1 DEF vars, MutexInv, Under
<1>2. ASSUME NEW t \in Threads, NewBuilder(t) \/ AddToBuilder(t) \/ Initialize(t)
      PROVE  MutexInv'
  <2>1. /\ calls' = calls /\ holder' = holder
        /\ frozen # NotFrozen => frozen' = frozen
    BY <1>2 DEF NewBuilder, AddToBuilder, Initialize
  <2> QED
    BY <1>0, <2>1 DEF MutexInv, Under
<1>3. ASSUME NEW t \in Threads, Call(t) \/ CallRegister(t)
      PROVE  MutexInv'
  <2>1. PICK at \in Waiting \cup {"frozen"} :
          Enter(t, at) /\ (at = "frozen" => frozen # NotFrozen)
    BY <1>3 DEF Call, CallRegister, Waiting
  <2> QED
    BY <2>1, EnterMutex
<1>4. ASSUME NEW t \in Threads, Lock(t)
      PROVE  MutexInv'
  BY <1>4, LockMutex
<1>5. ASSUME NEW t \in Threads, NEW d \in 1 .. MaxCalls, Return(t, d)
      PROVE  MutexInv'
  <2> DEFINE n == Len(calls[t]) - 1
  <2>1. calls[t] \in Seq(Call_) /\ calls[t] # <<>>
    BY <1>0, <1>5 DEF TypeOK, Call_, Return
  <2>2. /\ Len(calls[t]) \in Nat \ {0} /\ n \in 0 .. Len(calls[t])
        /\ Last(calls[t]) = calls[t][Len(calls[t])]
        /\ Front(calls[t]) \in Seq(Call_) /\ Len(Front(calls[t])) = n
        /\ \A i \in 1 .. n : Front(calls[t])[i] = calls[t][i]
    BY <2>1, CallsProperties
  <2>3. calls' = [calls EXCEPT ![t] = Front(calls[t])] /\ frozen' = frozen
    BY <1>5 DEF Return
  <2>4. calls'[t] = Front(calls[t])
    BY <1>0, <2>3 DEF TypeOK
  <2>5. n + 1 .. Len(calls[t]) = {Len(calls[t])}
    BY <2>2
  <2>6. holder' = (IF \E i \in n + 1 .. Len(calls[t]) : calls[t][i] \in Holding
                   THEN Nobody ELSE holder)
    BY <1>5, <2>2, <2>5 DEF Return
  <2>7. DOMAIN calls'[t] = 1 .. n
    BY <2>2, <2>4
  <2>8. \A i \in 1 .. n : calls'[t][i] = calls[t][i]
    BY <2>2, <2>4
  <2> HIDE DEF n
  <2> QED
    BY <2>2, <2>3, <2>6, <2>7, <2>8, UnwindMutex
<1>6. ASSUME NEW t \in Threads, NEW stay \in 0 .. MaxCalls, Panic(t, stay)
      PROVE  MutexInv'
  <2>1. calls[t] \in Seq(Call_) /\ Len(calls[t]) \in Nat
    BY <1>0 DEF TypeOK, Call_
  <2>2. stay \in Nat /\ stay \in 0 .. Len(calls[t])
    BY <1>6, <2>1, RegistryAccessAssumption DEF Panic
  <2>3. /\ calls' = [calls EXCEPT ![t] = SubSeq(calls[t], 1, stay)]
        /\ frozen' = frozen
        /\ holder' = (IF \E i \in stay + 1 .. Len(calls[t]) : calls[t][i] \in Holding
                      THEN Nobody ELSE holder)
    BY <1>6 DEF Panic, Holds
  <2>4. calls'[t] = SubSeq(calls[t], 1, stay)
    BY <1>0, <2>3 DEF TypeOK
  <2>5. /\ Len(calls'[t]) = stay /\ calls'[t] \in Seq(Call_)
        /\ \A i \in 1 .. stay : calls'[t][i] = calls[t][i]
    BY <2>1, <2>2, <2>4
  <2>6. DOMAIN calls'[t] = 1 .. stay
    BY <2>5
  <2> QED
    BY <2>2, <2>3, <2>5, <2>6, UnwindMutex
<1> QED
  BY <1>1, <1>2, <1>3, <1>4, <1>5, <1>6 DEF Next

\* Both parts hold at the start.
LEMMA InitAccess == Init => AccessInv
BY InitMaps, InitMutex DEF AccessInv

\* Both parts are preserved together.
LEMMA NextAccess == AccessInv /\ [Next]_vars => AccessInv'
BY NextMaps, NextMutex DEF AccessInv

\* However threads call, nest, panic and freeze the registry, all of them can be
\* stuck only if one has called the library from under its own mutex.
THEOREM SpecDeadlockNeedsReentry == Spec => []DeadlockNeedsReentry
<1>1. AccessInv => DeadlockNeedsReentry
  <2> SUFFICES ASSUME AccessInv, holder # Nobody, \A t \in Threads : Waits(t)
               PROVE  \E t \in Threads : SelfBlocked(t)
    BY DEF DeadlockNeedsReentry
  <2>1. holder \in Threads /\ Under(holder) # {}
    BY DEF AccessInv, MapsInv, TypeOK, MutexInv
  <2>2. calls[holder] \in Seq(Call_)
    BY <2>1 DEF AccessInv, MapsInv, TypeOK, Call_
  <2>3. PICK i \in 1 .. Len(calls[holder]) : calls[holder][i] \in Holding
    BY <2>1, <2>2 DEF Under
  <2>4. i \in 0 + 1 .. Len(calls[holder])
    BY <2>3
  <2>5. Holds(holder, 0)
    BY <2>3, <2>4 DEF Holds
  <2> QED
    BY <2>1, <2>5 DEF SelfBlocked
<1> QED
  BY <1>1, InitAccess, NextAccess, PTL DEF Spec

\* No callback sees its registry change, whatever other threads and the calls it
\* makes itself do: only the holder of the mutex changes BUILD, when its only
\* callback under it is done, and FROZEN is written once.
THEOREM SpecViewsAreStable == Spec => ViewsAreStable
<1> DEFINE Stable ==
      \A t \in Threads : \A i \in DOMAIN calls[t] \cap DOMAIN calls'[t] :
        calls[t][i] \in {"build", "frozen"} /\ calls'[t][i] = calls[t][i]
          => View(calls[t][i])' = View(calls[t][i])
<1>1. AccessInv /\ [Next]_vars => [Stable]_vars
  <2> SUFFICES ASSUME AccessInv, Next,
                      NEW t \in Threads,
                      NEW i \in DOMAIN calls[t] \cap DOMAIN calls'[t],
                      calls[t][i] \in {"build", "frozen"},
                      calls'[t][i] = calls[t][i]
               PROVE  View(calls[t][i])' = View(calls[t][i])
    OBVIOUS
  <2>0. TypeOK /\ MutexInv
    BY DEF AccessInv, MapsInv
  <2>1. CASE calls[t][i] = "frozen"
    <3>1. frozen # NotFrozen
      BY <2>0, <2>1 DEF MutexInv
    <3>2. frozen' = frozen
      BY <3>1 DEF Next, NewBuilder, AddToBuilder, Initialize, Call, CallRegister,
                  Enter, Lock, Return, Panic
    <3> QED
      BY <2>1, <3>2 DEF View
  <2>2. CASE calls[t][i] = "build"
    <3>1. i \in Under(t) /\ holder = t
      BY <2>0, <2>2 DEF Under, Holding, MutexInv
    <3>2. build' = build
      <4>1. CASE \E u \in Threads, d \in 1 .. MaxCalls : Return(u, d)
        <5> PICK u \in Threads, d \in 1 .. MaxCalls : Return(u, d)
          BY <4>1
        <5>1. calls[u] \in Seq(Call_) /\ calls[u] # <<>>
          BY <2>0 DEF TypeOK, Call_, Return
        <5>2. /\ Len(calls[u]) \in Nat \ {0}
              /\ Last(calls[u]) = calls[u][Len(calls[u])]
              /\ Front(calls[u]) \in Seq(Call_)
              /\ Len(Front(calls[u])) = Len(calls[u]) - 1
          BY <5>1, CallsProperties
        <5>3. CASE Last(calls[u]) = "configuring"
          <6>1. Len(calls[u]) \in Under(u)
            <7>1. DOMAIN calls[u] = 1 .. Len(calls[u])
              BY <5>1
            <7>2. Len(calls[u]) \in DOMAIN calls[u]
              BY <5>2, <7>1
            <7>3. calls[u][Len(calls[u])] \in Holding
              BY <5>2, <5>3 DEF Holding
            <7> QED
              BY <7>2, <7>3 DEF Under
          <6>2. u = t /\ i = Len(calls[t])
            BY <2>0, <3>1, <6>1 DEF MutexInv
          <6>3. calls'[t] = Front(calls[t])
            BY <2>0, <6>2 DEF TypeOK, Return
          <6>4. i \in DOMAIN Front(calls[t])
            BY <6>3
          <6> QED
            BY <5>2, <6>2, <6>4
        <5>4. CASE Last(calls[u]) # "configuring"
          BY <5>4 DEF Return
        <5> QED
          BY <5>3, <5>4
      <4>2. CASE ~ \E u \in Threads, d \in 1 .. MaxCalls : Return(u, d)
        BY <4>2 DEF Next, NewBuilder, AddToBuilder, Initialize, Call,
                    CallRegister, Enter, Lock, Panic
      <4> QED
        BY <4>1, <4>2
    <3> QED
      BY <2>2, <3>2 DEF View
  <2> QED
    BY <2>1, <2>2
<1> QED
  BY <1>1, InitAccess, NextAccess, PTL DEF Spec, ViewsAreStable

=============================================================================
