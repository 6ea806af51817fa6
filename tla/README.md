# dcontext in TLA+

dcontext (`dcontext/`, `dcontext-dactor/`) carries a *context* — typed values
under string keys, and a chain of scope names — through nested calls, threads,
futures, actors and processes. This directory holds TLA+ modules translated from
its source, the TLC configurations that check them, and theorems about them that
TLAPS proves. Paths below are relative to the repository; short names such as
`store.rs` are in `dcontext/src/`.

## 1. The system

| Component | State | Operations | Interacts with |
|---|---|---|---|
| `ContextStore` (`store.rs`), `ScopeNode` (`scope.rs`) | the active scope (values, name, depth, remote prefix), the frozen scopes below it, the scopes it was forked from | `new`, `from_values_with_chain`, `fork_child`, `push_scope`, `pop_scope`, `set_value`, `get_value`, `collect_values`, `scope_chain` | asks the registry for the cached keys, `config.rs` for the length limit |
| `ScopeGuard` (`scope.rs`) | an expected depth | drop: `leave_scope` | acts on whatever store is in the cell *when it is dropped* |
| thread-local cell (`store.rs`) | `Cell<Option<ContextStore>>`, one per thread | `try_apply`: take, work, set | user `Clone`/`Drop` code runs between take and set |
| attach (`attach.rs`, `lib.rs`) | the previous store, in the `AttachGuard` | `attach_store`, `attach_snapshot`, `attach_snapshot_with_scope`, drop | replaces the cell's store |
| snapshots (`snapshot.rs`, `lib.rs`) | flattened values, scope chain; immutable | `capture`, `into::<ContextStore>`, `serialize`, `deserialize` | registry (local-only keys, types), wire format |
| futures (`future_ext.rs`) | the store owned by each `WithContext` | `with`, `attach`, `fork`, `capture`, `scope`, `poll`, drop | swaps stores with the cell of the polling thread |
| registry (`registry.rs`) | build map behind a mutex, then a frozen map | register, migrate, `try_initialize`, look-ups | every component |
| wire format (`wire.rs`, `config.rs`) | none; two global limits | encode, decode, size check | snapshots, dactor |
| dactor interceptors (`dcontext-dactor/src/`) | headers on a message, an error policy | `on_send`, `on_receive`, `wrap_handler` | capture, wire format, futures |

What is hard in it:

* **Guards know a number.** A `ScopeGuard` remembers a depth, not a scope, and
  guards can be dropped in any order, on another store than their own, or with a
  cancelled future.
* **Two representations of one depth.** Above `MAX_SCOPE_DEPTH` a scope is only
  counted ("dead"); below it is a node in a list.
* **Three copies of a value.** Values are sparse per scope, copied eagerly for
  cached keys, inherited through the frozen parent after a fork, and flattened
  by `capture`; all have to agree.
* **The empty cell.** During `take`/`set` user code may run, re-enter, or panic.
* **Swapping.** `poll` exchanges stores between a future and a thread, polls
  nest, futures move between threads, futures are dropped and panic.
* **Two registries in one.** Until `initialize` every read takes a mutex and runs
  user code under it; afterwards none does, and threads in between do both.
* **Four filters on one hop.** Whether a value arrives depends on the registries
  of sender and receiver, on codecs, versions, migrations, types and a size
  limit; one bad entry loses all of them, an unknown key only itself.
* **Handlers share threads.** What a handler sets must follow the messages it
  sends and stay out of the requests that run on the same thread.

What makes each part correct is stated as the properties of section 4; the
`hazards` of `PROJECT.json` list the lines where each can go wrong.

## 2. The modules

    ContextKeys ── the keys, which stores and registries have in common
     └── ContextStore and Registry, below

    ContextStore ── pure operators: one per method of the store
     ├── ScopedContext ── one store and its ScopeGuards ──refines──▶ ScopeStack
     │     └── MCScopedContext, ScopedContext_proofs
     ├── CellAccess ── the take/set window and re-entrant user code
     │     └── CellAccess_proofs
     └── Snapshots ── capture, and snapshot → store
           ├── ThreadContext ── a thread's cell, attach guards, kept stores
           │     └── MCThreadContext, ThreadContext_proofs
           └── TaskContext ── threads polling wrapped futures
                 └── MCTaskContext (and MCCombinators over it), TaskContext_proofs

    Registry ── pure operators: registration, migration, look-ups
     ├── RegistryAccess ── FROZEN, BUILD, its mutex, callbacks on threads
     │     └── MCRegistryAccess, RegistryAccess_proofs
     └── Wire (with Snapshots) ── entries, versions, the size limit
           ├── Wire_proofs
           └── Actors ── nodes, messages, interceptors, handlers ──refines──▶ Requests
                 └── MCActors, Actors_proofs

`ContextStore_proofs` holds lemmas on induction and recursion and on the operators
of the store, the other `_proofs` modules the theorems, `Actors_proofs` with the
help of both `ContextStore_proofs` and `Wire_proofs`. No module declares a `RECURSIVE` operator: what recurses in the code is a fold or a
recursive function here, so that every module can be proved about.

**ContextStore.** A store is a record `[cur, chain, frozen]`. The linked list of
`Arc<ScopeNode>` is a sequence, outermost scope first: nodes are immutable, so
sharing a tail and copying it cannot be told apart, and the two arms of
`Arc::try_unwrap` in `pop_scope` do the same. Values are model values; a map is a
function into `Vals ∪ {NoVal}`. What the store and the snapshots ask the registry for — the
cached keys, the local-only ones, the valid values of a key — are parameters of
their operators: constants where a program has one registry, the look-ups of
`Registry` in `Actors`. `PopScope` names the scope at which the loop of
`pop_scope` stops; `PopLoop` is the loop as it is written, turn by turn, and
`PopMatchesLoop` compares the two. `scope_barrier` is left out:
every constructor sets it to `None` and all other statements copy it.

**ScopedContext.** One store, any way it can come to be, and the guards of its
scopes. `Push` and `DropGuard` are `push_scope` and `Drop for ScopeGuard`. The
history field `before` of a guard remembers the store of its push until the
scope is popped: the code has no such field, and the properties compare the code
with it. Guards are dropped in any order; the history variable
`nested` tells whether it was always the newest one so far, and the properties of
nested blocks are conditional on it.

**ScopeStack.** What a caller is promised: a stack of complete pictures, with
none of the machinery. `ScopedContext` implements it through `Pictures`.

**ThreadContext.** The cell of one thread, all kinds of guards (scope, attach, and
the pair that `attach_snapshot_with_scope` returns, kept as one value or taken
apart), the snapshots and forked stores a program keeps in "boxes", and bytes
that come from elsewhere (`AttachFromBytes`). `home`
marks the store the thread started with; the history variable `nested` tells
whether every guard dropped so far was the newest one.

**CellAccess.** The call stack of operations that wait for user code. A `window`
frame is an operation between `take` and `set`; while it is on the stack the
cell is `Busy` unless something was attached above it. A user `Drop` may or may
not run when a value is overwritten: another `Arc` may still hold it. A
guard that pops several scopes at once drops inside the window what a key has in more
than one of them (`store.rs:215`); that this runs user code as well is left out, as
blocks never pop but one. A store carries two marks for the
properties: `home`, and `cleared`, how many of the blocks open in it lost their
scope to a `clear()`, whose guards will find nothing to pop.

**TaskContext.** Threads with their stacks of polls, and `WithContext` futures.
The code that runs sets values, opens and closes scopes, creates and adapts
futures, polls idle ones, and drops them (attach guards, `clear` and `merge_with`
are in `ThreadContext` and `CellAccess`, not here); a `Send` future holds no `ScopeGuard`
when it returns from a poll (the compiler enforces it), one confined to its
`Home` thread may. The history variable `own` is what each piece of code would
have made of a context that nobody else touches.

`Panic` unwinds to any code below, which catches it: with the store in the cell, or
`inWindow`, in a `Clone` or `Drop` that an operation (`try_apply`) was waiting for,
whose store is then gone. (Such code polls no futures of its own here.) No poll it
passes reaches its second replace, so the cell keeps what it has, or stays empty,
and the code that caught the panic may have `kept` the futures and poll them again,
now without a store. On an empty cell operations do what they do in the code:
nothing, or start from a new store. The history variable `disturbed` has the code
that such a thing happened to itself: it caught a panic, is a future polled again
after one, or dropped a future that held guards.

**MCCombinators** adds to `TaskContext` the history of which combinator made each
future, for a statement of the repository about `scope()` under `attach()` only.

**Registry.** A registry is a function from keys to registrations. A Rust type is a
model value, a deserializer the record of the type and codec it reads and the
type it returns. `Registered` and `Migrated` are `do_register_with` and
`do_register_migration` with their errors; `Sound` is what both are to preserve.

**RegistryAccess.** `FROZEN`, `BUILD` and its mutex, each thread's
`RegistryBuilder`, and the stack of library calls whose callbacks run user code.
`Call` finds `FROZEN` set or not, `Lock` is a step of its own, `Return` and
`Panic` end callbacks. A registration of the test build runs its options
callback under the mutex (`CallRegister`); other builds never write `BUILD`.

**Wire.** Bytes are what decides how they can be read: the codec and type that
wrote them, and the data. `ReadsAs` lists the formats that happen to be laid out
alike (bincode does not say what it encodes). `Serialize` and `Deserialize` take
the registry of the process that runs them.

**Actors.** Nodes with registries, error policies and header registries of their
own (`deployed`), threads, and messages, each with the handler that processes it.
`SendLocal` and `SendRemote` are `on_send`, `Deliver` is `on_receive` followed by
`wrap_handler`; `Poll` and `Return` swap stores as `WithContext::poll` does. The
operators of `Snapshots` get their parameters from the registry of the node:
`Captured(Map(n), cell[w])`, `Restored(Map(n), snap)`. The future that `wrap_handler` builds
attaches, pushes and captures once, before the handler's first poll and without
suspending; since registries are frozen this is computed when the message is
delivered. The transport may deliver in any order or never, and drops headers
that the receiver cannot rebuild; it does not duplicate. `sent`, `past` and
`mixed` are history: what the sender saw, the code a message causally follows,
and the code that was given no context of its own.

**Requests.** What a request is promised: whoever runs has a context that nobody
else touches, a message takes a copy of it along, and a handler starts with some of
those values (`HandlersGetSendersContext` says which) and the trail of names with the
hop at its end. There are no cells, polls, stores, bytes or registries. Of a value
there is only who wrote it, which is enough to tell whose context it is in. A thread
that polls a handler without a context, the handler, and whatever they send from then
on are `blended`, and nothing is promised of them. `Actors` implements it through
`Contexts` (of every `Owners` the picture of the store that is its context, in the
cell, in a poll or in a suspended handler) and `Letters` (of every message on its way
what its sender saw).

## 3. Bounds

| Constant | Values | Why they are enough |
|---|---|---|
| `MaxScopeDepth` | 1–3 (code: 1024) | with 2, a third push is the first dead scope and a fourth one is above it; the proofs hold for every value |
| `MaxGuards`, `MaxStray` | 0–4, 1–2 | two dead and two real scopes at once; out-of-order drops need two, and `MaxStray` keeps it at that for a thread that has dropped some out of order; in `TaskContext` the second thread opens no scope of its own, the first thread and the futures do, with failures the futures only |
| `MaxChainLen` | 0, 1, 2 (code: 64) | no limit, a limit met with one scope, and one that a remote prefix and two local names exceed; in `actors` it is 2, so that a receiver keeps its sender's scope beside the one of the hop (a chain cut at a hop is met in `thread_guards`) |
| `MaxDepth` | 2–4 | `ThreadContext` and `TaskContext` only: guards dropped on foreign stores leave scopes that nothing pops, so depth has to be cut somewhere above the limit |
| `MaxFrames` | 5 | a window, an update, a scope and an attach on top of each other, and one more |
| `Keys` | one cached, one plain or local-only key | keys do not interact; a key is treated specially only for being cached, local-only or ill-typed |
| `MaxValued` | 1 (`thread_guards`); `SetVariable` and `AttachFromBytes` happen in nested use only, also for the theorems | as many guards while some value is set: no depth, no chain and no guard depends on a value, so three guards are checked without values, and what a fork or a hop keeps of the values with one |
| `Pushed` | one name at each depth | neighbouring scopes have different names, which is what a chain cut at the wrong place would show |
| `Inbound` | one snapshot | a valid value and a chain of two names, longer by one than a scope of the thread's own |
| `Vals` | one or two; symmetric | no value is treated specially, except the one of the wrong type (no symmetry there) |
| `Workers`, `Futures` | 2 and 2 (1 and 2 with failures) | one future nested in another, one moved between threads, an adapter over a future |
| `Threads` (registry) | 3, one a builder | one holds the mutex, one waits for it, one initializes; a second builder finds `FROZEN` set, which `t1` itself does by building again |
| `MaxCalls`, `MaxTestWrites` | 2, 1 | a callback that calls the library again; a registration in `BUILD` while another thread reads |
| `Registrations`, `Migrations` | 4 and 3, of one key | two types, two versions, a codec, local-only, and contradictory; migrations to the right and the wrong type, of the current and another version. Keys do not interact in a registry |
| `Home` | a Send future and one confined to a thread; in `task_failures` both confined, symmetric in the futures | there the thread is the only one, so a Send future could do no more than a confined one: it holds no guard when it returns |
| `Nodes`, `Threads`, `Tasks` (actors) | 2, 1 each, 2 | a hop in a process and one between two, a chain of two hops, two requests on one thread; symmetric in the messages |
| `Deployments` | 3 | the same registry everywhere, strict; the receiver upgraded by a version and knowing the sender's local-only key as an ordinary one; a receiver that knows one key only and has not registered the header |
| `MaxContextSize` | 2 (code: bytes; 0 is no limit) | counted in entries and names: a value and a scope fit exactly, two values and a scope do not |

`CHECK_DEADLOCK` is off in `registry` only: a callback under the mutex that calls
the library again blocks its own thread, and with it everybody who waits for the
mutex, so the system really may stop (`DeadlockNeedsReentry` says only so). In
every other model something can always happen.

## 4. What the runs check

| Run | Shows |
|---|---|
| `scoped_any_order` | Guards in any order, real and dead scopes. `GuardRestoresContext`: dropping a guard now would bring back exactly the store of its push, whatever happened since. `OneGuardPerScope`: no scope leaks, none has two guards. `ChainMatchesDepth`; `CachedReadsAreLocal`; `CollectAgreesWithLookup`; `NewestScopesVisible`; `PopMatchesLoop`. As long as guards are dropped newest first: `NewerGuardsAreDeeper`, and `StaleGuardIsInert`: a guard left over from before `clear()` pops nothing of anybody else's. |
| `scoped_refinement` | `ImplementsScopeStack`. One name fewer and one guard fewer than above, to stay within minutes. |
| `thread_guards` | Attached snapshots, bytes and forks. As long as guards are dropped newest first: `NestedGuardsReturnHome`, `NestedDropPopsOneScope`. In any order, on stores they were not made for: `StoresWellLinked`. With values, cached, local-only and ill-typed: what a fork (`FirstForkIsTransparent`) and a captured hop (`HopIsTransparent`) keep of them and of the scope chain. |
| `cell_reentrant` | Re-entrant calls, and panics caught anywhere. `HomeComesBack`: the thread's store is lost only if a panic unwinds the very operation that had taken it. `ContextOutsideWindows`. `DepthCountsOpenBlocks`: the store in use has exactly one scope for every block open in it, but for those cleared: none is lost, left over, or popped by another block's guard. |
| `task_calm` | `ContextsAreIsolated`: whichever thread polls, whatever is polled in between, code finds the context it left. |
| `task_failures` | `FailuresStayLocal`, with panics in and outside of windows, caught anywhere, and cancellations inside scopes: only the code that caught or dropped something, and futures polled again after a panic, may find another context than their own, or none. |
| `registry` | `MapsAreSound` and `RegistrationsAreKept`: no sequence of registrations, migrations and conflicts makes a key undecodable, ill-typed or different from its first registration. `ViewsAreStable`: a callback reads one registry throughout, on either side of the freeze. `DeadlockNeedsReentry`: no panic and no race leaves the mutex locked. `ServedOnceFrozen` (liveness): whoever waits for the mutex when the registry is frozen gets it. |
| `actors` | `HandlersGetSendersContext`: what a handler starts with, key by key, given what its sender saw and both registries, plus the scope of the hop. `ContextFollowsCausality`: no value of another request. `StrictNodesKeepContext`, `ContextLostForAReason`: when a context may be lost. `DecodedIsAttachable`, `LocalOnlyStaysHome`, `ExtractAgreesWithHandler`. |

Runs that TLC must find violated, each a statement of the repository that the
code does not keep (quoted in `PROJECT.json`, `findings`):

| Run | What happens |
|---|---|
| `combined_guard` | the tuple of `attach_snapshot_with_scope` restores first and then pops a scope of the caller |
| `nested_fork` | the fork of a fork loses what the first fork inherited; `samples/src/bin/async_scopes.rs` does just this |
| `task_panic` | after a caught panic the thread keeps the future's store |
| `scope_attach` | in `.scope(..).attach(snap)`, the design's framework example, the store of `scope()` hides `snap` from the handler (the property is about a future made by `scope()` and adapted by `attach()`, and about no other pair) |

Other statements of the comments are looser than the code, and the models follow
the code. `store.rs:41-43` says a depth is never reused, and `StaleGuardIsInert`
holds of nested blocks only: out of order, a guard whose scope is gone pops a
newer scope of the same depth. Scopes beyond `MAX_SCOPE_DEPTH` revert nothing
(`GuardRestoresContext` speaks of real scopes). The root of a fork holds no
copies of cached keys (the condition of `CachedReadsAreLocal`). `.local_only()`
values do not travel by snapshot either, whatever `registry.rs:200-201`,
`header.rs:47-48` and `outbound.rs:11-12` say: `capture` strips them, as
`lib.rs:163` has it (`HopIsTransparent`, `HandlersGetSendersContext`). `Clone` and `Drop` of values run while the cell is empty,
against `store.rs:28-29` (`ContextOutsideWindows` excludes just that). A future
dropped inside a scope it opened pops a scope of its dropper, which is why
`CalmSpec` has `CancelOutsideScopes` only; `FailuresStayLocal` says that nobody but
the dropper is affected, and nothing in the repository says what should become of
the dropper itself. Nor is there a property on `update_context_variable` losing what
its callback wrote to the same key: it is modelled (`CellAccess`), and documented as
a read, a callback and a write.

`LogAndContinue` delivers "without context" (`dactor lib.rs:121`): such a handler
runs in the context of whatever thread polls it, and the sends of both mix from
then on (`mixed`). A second migration of a version replaces the first one, where
`registry.rs:483` and `501` speak of a conflict. Bytes that say version 1 and
have no scope chain do not decode under bincode, `#[serde(default)]`
(`wire.rs:17`) notwithstanding. A value of another type than its key's is dropped
by a local hop, and read again as a valid value by a remote one if the two types
are laid out alike.

**Fairness and liveness.** `RegistryAccess` only: it has the one lock of the
library. The scheduler runs a thread that can go on, so a thread that waits for a
mutex that stays free takes it (`WF(Lock)`), and user callbacks end, those that
run below others included (`SF(Return)`: a thread that is at its own level again
and again returns at last; a nested call disables the outer return for a while,
so weak fairness would not say it). Nothing makes `std::sync::Mutex` fair: a
thread may be overtaken for ever as long as others keep asking, and no property
says otherwise *before* the freeze. After it nobody new queues except
registrations of tests, which are finitely many (`MaxTestWrites`), and
`ServedOnceFrozen` holds. Everywhere else the library never waits: it has no
queue, no wake-up and no retry; when code runs, when a future is polled and
whether a message arrives is the program's, the executor's and the runtime's
business, so no fairness is assumed and no liveness is stated.

## 5. What is proved

The assumptions are the named ones of the modules (`ContextStoreAssumption`,
`ScopedContextAssumption`, `ThreadContextAssumption`, `CellAccessAssumption`,
`TaskContextAssumption`, `RegistryAssumption`, `RegistryAccessAssumption`,
`WireAssumption`, `ActorsAssumption`): the limits are numbers, `MaxScopeDepth` is at
least 1, and the model values that stand for "none", "busy" or "failed" differ from
what they are not. Bounds are only assumed to be numbers, so the theorems hold for
1024 scopes and any number of guards, threads, futures, registered keys, nodes and
messages. `ActorsAssumption` says more: there are finitely many keys (a size is
counted); the registries of a deployment are `Sound`, as all are that a program can
build (`SpecMapsAreSound`); the data in the messages of another process are told
apart from those of the modelled code (`Outside`).

**ContextStore_proofs**, first part: a fold or a recursive function is *chosen* to satisfy its
recursion equations, so nothing is known of it until some function is shown to
satisfy them. `RecursionOverIndices` and `RecursionOverSubsets` build such
functions, for recursion up to a length and for the sets of indices that
`FoldRight` walks. Induction is by sets (`SetInduction`, `DownwardInduction`): the
formula to be proved is membership of a set, which keeps it first-order.

**ContextStore_proofs**, second part: what the operators return. `PushScopeProperties` (a push
adds one to the depth and, if it is real, one node that a pop finds again),
`PopScopeResult` and `PopScopeProperties` (a pop of the expected depth `d` leaves
the store at `d - 1` if that is a real scope, a counter otherwise, and is nothing
at all on a store that is not that deep), `RewoundDependsOnPrefix` (a rollback
looks only at the nodes below it), `CollectValuesIsGetValue` (the flattened map has
at each key what the look-up finds), `PopLoopResult` (the loop and `PopScope`
agree, by induction over the turns), the names and the limit of a chain, and
`SoundStore` (typed, well linked, an unnamed root), which every method keeps.

**ScopedContext_proofs**, over `Spec` (guards in any order) with the invariant

    IInv == TypeOK /\ ChainMatchesDepth /\ OneGuardPerScope
                   /\ GuardsAboveRoot /\ PushedStoreIsLinked

`GuardRestoresContext` is not inductive: it speaks of what a drop *would* do now,
and a drop of another guard or another push changes that. `PushedStoreIsLinked`
is the reason behind it: the store of a live guard's push is still in the chain,
node for node. It needs `ChainMatchesDepth` (else the node is not at the index
its depth says), `OneGuardPerScope` (else a new scope could already have a guard
with another history) and `GuardsAboveRoot` (else a drop could pop the root).
From it follow `SpecTypeOK`, `SpecChainMatchesDepth`, `SpecOneGuardPerScope` and
`SpecGuardRestoresContext`. `NewerGuardsAreDeeper` is
inductive together with `IInv` (`SpecNewerGuardsAreDeeper`), and with it a
stale guard dropped newest first finds a store too shallow for it:
`SpecStaleGuardIsInert`.

What happens to the store alone is one of a few things: it is linked to a new
scope, rolled back, counted up or down, written, or replaced by a new one
(`NextStoreStep`). Over this classification two more invariants are inductive:
`RootHasNoName`, which gives `SpecNewestScopesVisible` and `SpecPopMatchesLoop`;
and `CachedCopies`, which gives `SpecCachedReadsAreLocal`. `CachedReadsAreLocal`
alone is not inductive, because a pop brings back a scope of which it says nothing:
`CachedCopies` says it of every scope on the stack. The same classification carries
the refinement, `SpecImplementsScopeStack`: a linked scope is a `Push` of the
abstract stack, a rollback and a count are its `Pop`, `Set`, `Merge` and `Clear`
map to themselves, and what only moves guards is a stutter. Its hard part is that
a pop shows exactly the pictures that were there before the push, whatever was
copied or inherited.

**ThreadContext_proofs**, over `Spec` (guards in any order and on any store). The
invariant `IInv` says of every store there is (in the cell, in a guard, in a box)
that it is a `SoundStore`, so that a guard that brings one back needs no history.
`SpecTypeOK` and `SpecStoresWellLinked` are parts of it.
`SpecFirstForkIsTransparent` and `SpecHopIsTransparent` follow from what the
operators return on sound stores; for the chain, `LimitedTwice` and
`LimitedAppend` say that limiting a chain at the capture and once more after the
hop's own scope loses nothing that limiting once would keep.
`SpecNestedGuardsReturnHome` and `SpecNestedDropPopsOneScope` are about dropping
*all* guards, newest first: a fold over the guards (`DropsAll`), which a step changes
at its newest end only. As long as guards are dropped newest first, a step is one of
four (`NestedStep`): it leaves the guards alone and the cell in the same place and no
deeper, adds one guard or two that undo what it did to the cell, or drops the newest
guard. A cell in the same place and no deeper stays so under every drop
(`DroppedBelow`), hence under all of them, and what is no deeper than a root is one.
That is inductive for the first property; for the second, `StackedOn` says of each
scope guard that it was made at least as deep as the store that the guard above it
brings back.

**CellAccess_proofs**, over `Spec` (panics caught at any level). What the cell will
be once the frames above have gone is a fold over the call stack (`Unwound`); the
invariant is about its value at *every* frame (`Past`): where home is, that a store
is there unless an operation waits for it, and that its scopes and the cleared ones
together are those of the blocks open in it (`SpecHomeComesBack`,
`SpecContextOutsideWindows`, `SpecDepthCountsOpenBlocks`). That last part is an
equation, and it is what makes the guards meet the store they expect: a scope guard
finds its own scope on top, or, if that was cleared, a store at its root.

**TaskContext_proofs**, with

    Polling == Shape /\ PolledOnce /\ AdaptersPoll
    IInv == Polling /\ OwnContexts
    StoresInv == IInv /\ Stores

`IInv` is inductive for the whole of `Spec`. `OwnContexts` is `FailuresStayLocal`
itself, with "the cell" and the "prev" of each poll under way written as one function
`Context(w, i)`, so that a poll and a return move it by one index. A step changes one
context only if no two pieces of code under way are the same: that is `PolledOnce`
(an idle future is on no stack, a polled one on one stack, once; in Rust,
`Pin<&mut Self>`). Dropping an adapter also drops the future it adapts, which must
not be under way: `AdaptersPoll`. A panic (`PanicIInv`) removes the polls above the
code that catches it and changes the cell, which is that code's context; what the
code below finds is in the polls that stay, and nothing of it changes. So
`SpecFailuresStayLocal` holds however many panics are caught at whatever levels. That
proof looks into no store: who finds what is a matter of who holds which, and `Shape`
types only the containers. `CalmContextsAreIsolated` is its special case: under
`CalmSpec` nobody is `disturbed` (`CalmNextStaysCalm`).

`Stores` says that every context there is, where there is one, is a `SoundStore`, and
that whoever is alive has left one: `SpecTypeOK`, again for the whole of `Spec`. A
cancelled future drops its guards on the store of its dropper, a fold over stores
(`UnwoundSound`), and a panic drops the guards of all the code it passes
(`FlattenType`).

**RegistryAccess_proofs**, over `Spec` (any number of threads, builders and
registrations, a panic in any callback) with

    AccessInv == MapsInv /\ MutexInv

`MapsInv` is `TypeOK /\ MapsAreSound`: `AdditionsKeep` says that a registration
or a migration, accepted or refused, turns a sound registry into a sound one that
keeps every key registered before, and every step of a thread adds to at most one
registry. `SpecMapsAreSound` and `SpecRegistrationsAreKept` follow. The other two
need to know who may write `BUILD`: `MutexInv` says that a thread has at most one
call under the mutex, that the mutex is held by the thread of such a call and by
nobody without one, and that a callback reads `FROZEN` only once it is set. So
nothing but a call that is still running keeps the mutex
(`SpecDeadlockNeedsReentry`: if all wait, the holder waits too, inside that very
call), and while a callback reads `BUILD` no other call writes it
(`SpecViewsAreStable`).

**Wire_proofs** has no behaviours, only what `serialize` and `deserialize` return
for every registry that is `Sound` (which `SpecMapsAreSound` gives).
`DeserializedIsValid`: whatever arrives, what decodes has the types of the
receiver and sets none of its local-only keys. `SnapshotRoundTrip`: under one
registry, `deserialize` undoes `serialize` for well-typed values of registered
keys.

**Actors_proofs**, over `Spec` (any nodes with any sound registries and policies,
any messages in any order), with

    IInv == Typed /\ Polls /\ Mail /\ Causal

No property of `Actors` but the types is inductive: each speaks of one point of a
message's life and needs what happened at the points before. `Mail` is that
history: what the headers and the handler's
store of a message are in its phase, *in terms of what its sender saw* — bytes that
`serialize` made of it (`BytesOK`) unless the transport dropped them, a snapshot
that is what it carried (`LocalOK`) or what its bytes decode to (`SnapshotOK`), a
store that is that snapshot wrapped (`HeldOK`), and no undecodable bytes at a strict
node (`StrictOK`). It is a predicate of the values of one message, so that a step of
another one leaves it alone. `Polls` says that a running handler is polled by one
thread that holds its store, which is what makes `Return` give back the right one.

Six of the properties follow from `Mail` and from what the operators compute:
`CaptureIsCarried` (flattening and looking up agree), `SerializedEntries` and
`EntriesCount` (one entry per carried key, so that the size is the one that
`Reason` counts), `WhyNotWritten` and `WhyNotRead` (the only two ways to lose a
context), `TransferReads` (what the other side decodes for a key, given both
registries) and `WrappedReads` (that attach, push, capture and attach keep all of it
and add the hop). Only in `WrappedReads` do the store, its cached keys and the
length limit come in; `LimitedTwice` and `LimitedAppend` serve it too.

`ContextFollowsCausality` needs `Causal`: the property is about the context that a
piece of code *would* find, which may be in the cell, wait in a poll or be held by a
handler, and the values get from one to the other through headers. `Causal` therefore
says of every container, the bytes and snapshots on their way included, whose data
may be in it. A thread that polls a handler without a context has been mixed with it,
both ways, until the poll returns; that is its last conjunct.

`SpecImplementsRequests` has no run: TLC would evaluate the pictures of all contexts
at every one of the millions of steps of `actors`. It is about where a context *is*.
`Holds(c, s)` says that the store `s` is, wherever, the context of `c`; `Placed`,
which follows from the invariant, that everybody with a context of his own has one
such store and no other. Then a step changes nobody's context if it carries every
`Holds` over, which is what has to be shown of a poll and of a return
(`PollImplements`, `ReturnImplements`); a context that starts, ends or is written to
is one entry of `Contexts` more, fewer or different (`ContextStarts`, `ContextEnds`,
`SetVariableImplements`). That a handler starts with its letter
(`StartsWithLetters`) comes from `HandlersGetSendersContext` if a modelled node has
sent it, and from `DecodedLetter` and `WrappedReads` if it is from outside.

Out of the prover's reach: liveness and `ENABLED`, so `ServedOnceFrozen` is TLC's
only. The library's induction theorems take an operator as a parameter, which the
installed provers cannot instantiate; the folds that the proofs above need are
reasoned about with the first part of `ContextStore_proofs` instead.

## 6. What is only model-checked

The liveness property `ServedOnceFrozen` of `RegistryAccess`. Every other property
of a passing run is stated by a theorem.

## 7. What is not modelled, and the plan

Not modelled: how a value is erased and downcast (`value.rs`; a value is its type
and its data); which error is returned where no code looks at it (`error.rs`; the
errors of the registry are distinguished); the values of key metadata (their
types are); the deprecated `with_propagated_context` as an action (it is an
`extract_context` followed by an attach, both of which are); formatting and
logging; reference counts of `Arc`; `scope_barrier`, which no code sets; samples,
benches and tests.

Left, in this order:

1. **Configuration at run time** — `set_max_scope_chain_len` and
   `set_max_context_size` between a push and its pop, or between two hops; the
   limits are constants here, per process rather than per node.
2. **Faults of the transport** — `Actors` loses and reorders messages but
   delivers none twice.
3. **Capture against the freeze** — a snapshot captured under `BUILD` and
   serialized after `initialize()`, with another registry: `RegistryAccess` and
   `Wire` composed.
4. **Further refinements** — `ScopeStack` is implemented by one store, `Requests` by
   actors whose handlers do not nest. A stack of such stacks is what a thread with
   attach guards promises in nested blocks.
