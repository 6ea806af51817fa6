------------------------------ MODULE Registry ------------------------------
(***************************************************************************)
(* The context registry as a data type (dcontext/src/registry.rs): what is *)
(* recorded for a key, the two operations that record it, and the          *)
(* questions that the stores, the snapshots and the wire format ask.       *)
(* There are no variables here; how threads share a registry is in         *)
(* RegistryAccess.                                                         *)
(*                                                                         *)
(* A value is type-erased (dcontext/src/value.rs): all the code can tell   *)
(* of it is its TypeId and that it serializes to bytes of that type.       *)
(***************************************************************************)
EXTENDS ContextKeys, Integers, FiniteSets

CONSTANTS
  Types,     \* the Rust types that values are of
  Data,      \* what distinguishes two values of one type
  Versions,  \* the key versions in use
  Codecs,    \* the custom codecs in use
  Bincode,   \* the codec of a key that has none of its own
  Metas,     \* the types of metadata that may be attached to a key
  NoDecoder,     \* there is no deserializer for a version
  NotRegistered  \* there is no registration for a key

Value == [type : Types, data : Data]

-----------------------------------------------------------------------------
(* Shapes *)

Options == [version    : Versions,
            local_only : BOOLEAN,
            cached     : BOOLEAN,
            codec      : Codecs \cup {Bincode},
            metadata   : SUBSET Metas]

\* register and try_register, and so ContextKey::register_on and
\* register_contexts!, take the options as RegistrationOptions::new leaves them.
DefaultOptions == [version |-> 1, local_only |-> FALSE, cached |-> FALSE,
                   codec |-> Bincode, metadata |-> {}]

\* A deserializer: the type and the codec it reads, the type it returns.
Decoder == [reads : Types, codec : Codecs \cup {Bincode}, gives : Types]

Registration == [type       : Types,
                 version    : Versions,
                 decoders   : [Versions -> Decoder \cup {NoDecoder}],
                 local_only : BOOLEAN,
                 cached     : BOOLEAN,
                 codec      : Codecs \cup {Bincode},
                 metadata   : SUBSET Metas]

ASSUME RegistryAssumption ==
  /\ Versions \subseteq Nat
  /\ 1 \in Versions
  /\ Bincode \notin Codecs
  /\ NoDecoder \notin Decoder
  /\ NotRegistered \notin Registration

RegistryMap == [Keys -> Registration \cup {NotRegistered}]

EmptyMap == [k \in Keys |-> NotRegistered]

IsRegistered(map, k) == map[k] # NotRegistered

-----------------------------------------------------------------------------
(* Registering a key *)

\* A local-only key has no wire format, so it has no codec and no version.
Contradictory(opts) ==
  opts.local_only /\ (opts.codec # Bincode \/ opts.version # 1)

RegisterResult(map, k, type, opts) ==
  IF Contradictory(opts) THEN "SerializationFailed"
  ELSE IF IsRegistered(map, k) /\ map[k].type # type THEN "AlreadyRegistered"
  ELSE "Ok"

\* Only the current version is decoded, into the key's own type.
NewRegistration(type, opts) ==
  [type       |-> type,
   version    |-> opts.version,
   decoders   |-> [v \in Versions |->
                     IF v = opts.version /\ ~opts.local_only
                     THEN [reads |-> type, codec |-> opts.codec, gives |-> type]
                     ELSE NoDecoder],
   local_only |-> opts.local_only,
   cached     |-> opts.cached,
   codec      |-> opts.codec,
   metadata   |-> opts.metadata]

\* Bug: a second registration replaces the first one.
RegisteredLastWins(map, k, type, opts) ==
  IF RegisterResult(map, k, type, opts) = "Ok"
  THEN [map EXCEPT ![k] = NewRegistration(type, opts)]
  ELSE map

\* A key that is registered with the same type stays as it is, whatever the
\* options of the second registration say.
Registered(map, k, type, opts) ==
  IF RegisterResult(map, k, type, opts) = "Ok" /\ ~IsRegistered(map, k)
  THEN [map EXCEPT ![k] = NewRegistration(type, opts)]
  ELSE map

-----------------------------------------------------------------------------
(* Registering a migration *)

MigrationResult(map, k, old, gives) ==
  IF ~IsRegistered(map, k) THEN "NotRegistered"
  ELSE IF map[k].type # gives THEN "TypeMismatch"
  ELSE IF map[k].local_only THEN "SerializationFailed"
  ELSE IF old = map[k].version THEN "DeserializationFailed"
  ELSE "Ok"

\* Bug: the type of the key is not compared with what the migration returns.
MigratedAnyType(map, k, old, reads, gives) ==
  IF MigrationResult(map, k, old, gives) \in {"Ok", "TypeMismatch"}
  THEN [map EXCEPT ![k].decoders[old] =
          [reads |-> reads, codec |-> Bincode, gives |-> gives]]
  ELSE map

\* The old version is read as the old type, with bincode, and converted.  An
\* earlier migration of the same version is replaced.
Migrated(map, k, old, reads, gives) ==
  IF MigrationResult(map, k, old, gives) = "Ok"
  THEN [map EXCEPT ![k].decoders[old] =
          [reads |-> reads, codec |-> Bincode, gives |-> gives]]
  ELSE map

-----------------------------------------------------------------------------
(* Reading a registry *)

CachedKeysOf(map) == {k \in Keys : IsRegistered(map, k) /\ map[k].cached}

LocalKeysOf(map) == {k \in Keys : IsRegistered(map, k) /\ map[k].local_only}

IsValidValue(map, k, v) == IsRegistered(map, k) /\ map[k].type = v.type

\* get_serialization_info: the version and the codec that values are written
\* with, those of an unregistered key being 1 and bincode.
KeyVersion(map, k) == IF IsRegistered(map, k) THEN map[k].version ELSE 1

CodecOf(map, k) == IF IsRegistered(map, k) THEN map[k].codec ELSE Bincode

-----------------------------------------------------------------------------

\* Whatever was registered, in whatever order and with whatever conflicts: a
\* local-only key cannot be decoded and has no codec; any other key decodes its
\* current version as its own type with its own codec, and every decoder it has
\* ends at that type.
Sound(map) ==
  \A k \in Keys : IsRegistered(map, k) =>
    LET r == map[k]
    IN  /\ r.local_only => /\ r.codec = Bincode
                           /\ \A v \in Versions : r.decoders[v] = NoDecoder
        /\ ~r.local_only =>
             r.decoders[r.version] =
               [reads |-> r.type, codec |-> r.codec, gives |-> r.type]
        /\ \A v \in Versions : r.decoders[v] # NoDecoder
                                 => r.decoders[v].gives = r.type

=============================================================================
