--------------------------- MODULE RegistryAccess ---------------------------
(***************************************************************************)
(* The two-phase global registry and the threads that share it             *)
(* (dcontext/src/registry.rs): FROZEN, a OnceLock that initialize() fills  *)
(* with what a RegistryBuilder has collected, and BUILD, a map behind a    *)
(* mutex that is read as long as FROZEN is not set.                        *)
(*                                                                         *)
(* Every operation of the library that asks the registry runs in the       *)
(* callback of with_global_registry, and user code runs in there too: a    *)
(* codec, a Serialize or Drop implementation, the callback of              *)
(* with_metadata.  "calls" is each thread's stack of such calls:           *)
(*   "waiting"      has found FROZEN empty and waits for the mutex,        *)
(*   "build"        holds the mutex; the callback reads BUILD,             *)
(*   "frozen"       the callback reads FROZEN,                             *)
(*   "registering"  a registration of a test waits for the mutex,          *)
(*   "configuring"  holds it; the options callback runs.                   *)
(* Only the test build registers in BUILD; elsewhere it stays empty.       *)
(*                                                                         *)
(* lock_build ignores the mutex being poisoned: a panic releases the lock  *)
(* and has no other effect on it.                                          *)
(***************************************************************************)
EXTENDS Registry, Sequences, SequencesExt

CONSTANTS
  Threads,
  Builders,       \* the threads that set up a registry (bounds the model)
  Nobody,         \* the mutex is free
  NotFrozen,      \* FROZEN is not set
  NoBuilder,      \* the thread has no RegistryBuilder
  Registrations,  \* the keys the program registers, with type and options
  Migrations,     \* the migrations it registers
  MaxCalls,       \* how deep calls nest (bounds the model)
  MaxTestWrites   \* how many registrations the tests make (bounds the model)

ASSUME RegistryAccessAssumption ==
  /\ Builders \subseteq Threads
  /\ Nobody \notin Threads
  /\ NotFrozen \notin RegistryMap
  /\ NoBuilder \notin RegistryMap
  /\ Registrations \subseteq [key : Keys, type : Types, opts : Options]
  /\ Migrations \subseteq [key : Keys, old : Versions, reads : Types, gives : Types]
  /\ MaxCalls \in Nat
  /\ MaxTestWrites \in Nat

VARIABLES
  frozen,   \* FROZEN
  build,    \* BUILD
  holder,   \* the thread that holds the mutex of BUILD
  builder,  \* each thread's RegistryBuilder
  calls,    \* each thread's calls under way, innermost last
  written   \* how many registrations were made in BUILD

vars == <<frozen, build, holder, builder, calls, written>>

Waiting == {"waiting", "registering"}
Holding == {"build", "configuring"}

Init ==
  /\ frozen = NotFrozen
  /\ build = EmptyMap
  /\ holder = Nobody
  /\ builder = [t \in Threads |-> NoBuilder]
  /\ calls = [t \in Threads |-> <<>>]
  /\ written = 0

Waits(t) == calls[t] # <<>> /\ Last(calls[t]) \in Waiting

\* User code runs on thread t: its own, or a callback.
Runs(t) == ~Waits(t)

-----------------------------------------------------------------------------
(* Building and freezing *)

\* RegistryBuilder::new; the one the thread may have had is dropped.
NewBuilder(t) ==
  /\ Runs(t) /\ t \in Builders
  /\ builder' = [builder EXCEPT ![t] = EmptyMap]
  /\ UNCHANGED <<frozen, build, holder, calls, written>>

\* What one registration or one migration makes of a map.  An error leaves it
\* as it was; register and register_migration panic then (NewBuilder, Panic).
Additions(map) ==
  {Registered(map, r.key, r.type, r.opts) : r \in Registrations}
    \cup {Migrated(map, m.key, m.old, m.reads, m.gives) : m \in Migrations}

AddToBuilder(t) ==
  /\ Runs(t) /\ builder[t] # NoBuilder
  /\ \E map \in Additions(builder[t]) : builder' = [builder EXCEPT ![t] = map]
  /\ UNCHANGED <<frozen, build, holder, calls, written>>

\* Bugs: a builder that was consumed is used again; FROZEN is written again.
InitializeTwice(t) ==
  /\ Runs(t)
  /\ frozen' = IF frozen = NotFrozen THEN builder[t] ELSE frozen
  /\ builder' = [builder EXCEPT ![t] = NoBuilder]
  /\ UNCHANGED <<build, holder, calls, written>>

InitializeAgain(t) ==
  /\ Runs(t) /\ builder[t] # NoBuilder
  /\ frozen' = builder[t]
  /\ builder' = [builder EXCEPT ![t] = NoBuilder]
  /\ UNCHANGED <<build, holder, calls, written>>

\* try_initialize, and initialize, which panics if it is not the first: the
\* builder is consumed in any case, FROZEN is set only once.
Initialize(t) ==
  /\ Runs(t) /\ builder[t] # NoBuilder
  /\ frozen' = IF frozen = NotFrozen THEN builder[t] ELSE frozen
  /\ builder' = [builder EXCEPT ![t] = NoBuilder]
  /\ UNCHANGED <<build, holder, calls, written>>

-----------------------------------------------------------------------------
(* Calls *)

Enter(t, at) ==
  /\ Runs(t) /\ Len(calls[t]) < MaxCalls
  /\ calls' = [calls EXCEPT ![t] = Append(@, at)]
  /\ UNCHANGED <<frozen, build, holder, builder>>

\* Bug: the registry is not looked for in FROZEN.
CallIgnoresFrozen(t) == Enter(t, "waiting") /\ UNCHANGED written

\* with_global_registry (and is_registered), up to FROZEN.get().
Call(t) ==
  /\ Enter(t, IF frozen = NotFrozen THEN "waiting" ELSE "frozen")
  /\ UNCHANGED written

\* try_register_with and try_register_migration of the test build.
CallRegister(t) ==
  /\ written < MaxTestWrites
  /\ written' = written + 1
  /\ Enter(t, "registering")

\* lock_build.  The mutex is not re-entrant, and not fair.
Lock(t) ==
  /\ Waits(t) /\ holder = Nobody
  /\ holder' = t
  /\ calls' = [calls EXCEPT ![t] =
       Append(Front(@), IF Last(@) = "waiting" THEN "build" ELSE "configuring")]
  /\ UNCHANGED <<frozen, build, builder, written>>

\* The callback at depth d is done.  A registration is made only then.
Return(t, d) ==
  /\ Runs(t) /\ d = Len(calls[t]) /\ d > 0
  /\ calls' = [calls EXCEPT ![t] = Front(@)]
  /\ holder' = IF Last(calls[t]) \in Holding THEN Nobody ELSE holder
  /\ IF Last(calls[t]) = "configuring"
     THEN build' \in Additions(build)
     ELSE UNCHANGED build
  /\ UNCHANGED <<frozen, builder, written>>

Holds(t, stay) == \E i \in stay + 1 .. Len(calls[t]) : calls[t][i] \in Holding

\* Bug: the unwinding does not release the mutex.
PanicKeepsLock(t, stay) ==
  /\ Runs(t) /\ stay < Len(calls[t])
  /\ calls' = [calls EXCEPT ![t] = SubSeq(@, 1, stay)]
  /\ UNCHANGED <<frozen, build, holder, builder, written>>

\* A callback panics, and code below "stay" calls catches the panic.  What the
\* options callback was asked for is not registered.
Panic(t, stay) ==
  /\ Runs(t) /\ stay < Len(calls[t])
  /\ calls' = [calls EXCEPT ![t] = SubSeq(@, 1, stay)]
  /\ holder' = IF Holds(t, stay) THEN Nobody ELSE holder
  /\ UNCHANGED <<frozen, build, builder, written>>

Next ==
  \E t \in Threads :
    \/ NewBuilder(t)
    \/ AddToBuilder(t)
    \/ Initialize(t)
    \/ Call(t)
    \/ CallRegister(t)
    \/ Lock(t)
    \/ \E d \in 1 .. MaxCalls : Return(t, d)
    \/ \E stay \in 0 .. MaxCalls : Panic(t, stay)

\* The scheduler runs a thread that could go on, and user callbacks end: one
\* that is at its own level again and again returns at last.
Fairness ==
  \A t \in Threads :
    /\ WF_vars(Lock(t))
    /\ \A d \in 1 .. MaxCalls : SF_vars(Return(t, d))

Spec == Init /\ [][Next]_vars /\ Fairness

-----------------------------------------------------------------------------
(* Safety *)

\* The type invariant.
TypeOK ==
  /\ frozen \in RegistryMap \cup {NotFrozen}
  /\ build \in RegistryMap
  /\ holder \in Threads \cup {Nobody}
  /\ builder \in [Threads -> RegistryMap \cup {NoBuilder}]
  /\ calls \in [Threads -> Seq(Waiting \cup Holding \cup {"frozen"})]
  /\ written \in Nat

Maps == {build, frozen} \cup {builder[t] : t \in Threads}

\* After any sequence of registrations and migrations, with their conflicts,
\* on whichever thread, every registry map there is is sound (do_register_with
\* and do_register_migration).
MapsAreSound == \A map \in Maps \ {NotFrozen, NoBuilder} : Sound(map)

\* A thread that waits for the mutex inside a callback that runs under it.
SelfBlocked(t) == Waits(t) /\ Holds(t, 0)

\* All threads can be stuck only because a callback that runs under the mutex,
\* before initialize(), has called the library again: no panic and no race with
\* the freeze ever leaves the mutex locked.
DeadlockNeedsReentry ==
  holder # Nobody /\ (\A t \in Threads : Waits(t))
    => \E t \in Threads : SelfBlocked(t)

-----------------------------------------------------------------------------
(* Action properties *)

\* The map that a call at this level reads.
View(at) == IF at = "frozen" THEN frozen ELSE build

\* What a callback reads is one registry from its beginning to its end: no
\* registration and no initialize() of another thread, or of a call it makes
\* itself, changes the map under it.
ViewsAreStable ==
  [][\A t \in Threads : \A i \in DOMAIN calls[t] \cap DOMAIN calls'[t] :
       calls[t][i] \in {"build", "frozen"} /\ calls'[t][i] = calls[t][i]
         => View(calls[t][i])' = View(calls[t][i])]_vars

\* In any registry, a key once registered keeps what was recorded for it, but
\* for the decoders of other versions: no later registration with other
\* options, and no migration, changes how its own values are written and read.
SameKey(r, s) ==
  /\ s = [r EXCEPT !.decoders = s.decoders]
  /\ s.decoders[r.version] = r.decoders[r.version]

KeysAreKept(map, later) ==
  \A k \in Keys : IsRegistered(map, k) => SameKey(map[k], later[k])

RegistrationsAreKept ==
  [][/\ KeysAreKept(build, build')
     /\ frozen # NotFrozen => KeysAreKept(frozen, frozen')
     /\ \A t \in Threads :
          AddToBuilder(t) => KeysAreKept(builder[t], builder'[t])]_vars

-----------------------------------------------------------------------------
(* Liveness *)

\* Once the registry is frozen, every call that still waits for the mutex of
\* BUILD gets it, unless some thread blocks itself: the threads that found
\* FROZEN empty are the last ones to take the mutex, each once.
ServedOnceFrozen ==
  \A t \in Threads :
    frozen # NotFrozen /\ Waits(t)
      ~> ~Waits(t) \/ \E u \in Threads : SelfBlocked(u)

=============================================================================
