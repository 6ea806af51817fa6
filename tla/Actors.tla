------------------------------- MODULE Actors -------------------------------
(***************************************************************************)
(* Context that travels with actor messages: the dactor interceptors       *)
(* (dcontext-dactor/src), the wire format between processes, and the       *)
(* handlers that run on the threads of each process.                       *)
(*                                                                         *)
(* Every node is a process with a frozen registry of its own; a rolling    *)
(* upgrade leaves nodes with different ones.  A message and the handler    *)
(* that processes it are one "task".  A handler that was given a context   *)
(* is a future wrapped by attach(): its store is in the cell of the thread *)
(* while it is polled (TaskContext has what may happen inside a poll; here *)
(* handlers do not nest and do not panic).  A handler that was given none  *)
(* runs in whatever context the thread has.                                *)
(*                                                                         *)
(* The actor runtime is outside the repository.  What is assumed of it:    *)
(* messages arrive in any order or never, only headers that have bytes and *)
(* a registered deserializer cross to another node, and a suspended        *)
(* handler is resumed by any thread of its node.                           *)
(***************************************************************************)
EXTENDS Wire

CONSTANTS
  Nodes,        \* the processes, each with one actor that is named like it
  Threads,
  NodeOf,       \* the node of each thread
  Tasks,        \* the messages, and so the handlers
  Outside,      \* a sender that runs another version of this library
  Deployments,  \* how the nodes may be set up
  Settable,     \* the <<key, type>> that code on a node sets (inputs)
  Foreign,      \* the wire contexts that arrive from outside
  NoStore,      \* the task has no store
  NoHeader,     \* the message has no such header
  NoTask        \* the thread polls no handler

Code == Threads \cup Tasks

Deployment == [registry : [Nodes -> RegistryMap],
               policy   : [Nodes -> {"LogAndContinue", "Reject"}],
               header   : [Nodes -> BOOLEAN]]  \* register_context_headers was called

\* What the context of a thread may show.
Sight == [values : Values, chain : Seq(Names), node : Nodes]

\* A deployment has the registries that programs can build (RegistryAccess), and
\* what another version of the library writes counts as its data.
ASSUME ActorsAssumption ==
  /\ Nodes # {} /\ Names = Nodes
  /\ Data = Code \cup {Outside}
  /\ NodeOf \in [Threads -> Nodes]
  /\ Threads \cap Tasks = {}
  /\ NoTask \notin Tasks
  /\ Deployments \subseteq Deployment
  /\ Settable \in [Nodes -> SUBSET (Keys \X Types)]
  /\ Foreign \subseteq WireContext
  /\ IsFiniteSet(Keys)
  /\ \A d \in Deployments, n \in Nodes : Sound(d.registry[n])
  /\ \A bytes \in Foreign : \A e \in bytes.entries : e.bytes.data = Outside
  /\ NoStore \notin Store
  /\ NoHeader \notin WireContext \cup Snapshot \cup Sight

\* Stores and snapshots, as they are with the registry "map".
Valid(map) == [k \in Keys |-> {v \in Value : IsValidValue(map, k, v)}]

Pushed(map, s, name) == PushScope(s, name, CachedKeysOf(map))

Captured(map, s) == CaptureOf(s, LocalKeysOf(map))

Restored(map, snap) == StoreFromSnapshot(snap, LocalKeysOf(map), Valid(map))

VARIABLES
  deployed,  \* the registries and policies of the nodes; never changes
  cell,      \* each thread's thread-local store
  polled,    \* the handler each thread polls
  prev,      \* the store that waits in that poll, if the handler is wrapped
  phase,     \* where each message is in its life
  host,      \* the node it is for
  wire,      \* its ContextHeader
  snapshot,  \* its ContextSnapshotHeader
  held,      \* the store of its handler, when that is wrapped and not polled
  sent,      \* history: what its sender saw when it sent the message
  past,      \* history: the code that it causally follows
  mixed      \* history: the code that ran in a context that was not its own

vars == <<deployed, cell, polled, prev, phase, host, wire, snapshot, held,
          sent, past, mixed>>

Map(n) == deployed.registry[n]

Init ==
  /\ deployed \in Deployments
  /\ cell = [w \in Threads |-> NewStore]
  /\ polled = [w \in Threads |-> NoTask]
  /\ prev = [w \in Threads |-> NoStore]
  /\ phase = [t \in Tasks |-> "unborn"]
  /\ host = [t \in Tasks |-> CHOOSE n \in Nodes : TRUE]
  /\ wire = [t \in Tasks |-> NoHeader]
  /\ snapshot = [t \in Tasks |-> NoHeader]
  /\ held = [t \in Tasks |-> NoStore]
  /\ sent = [t \in Tasks |-> NoHeader]
  /\ past = [c \in Code |-> {}]
  /\ mixed = {}

\* Whose code runs on thread w: the handler it polls, or its own.
Running(w) == IF polled[w] = NoTask THEN w ELSE polled[w]

-----------------------------------------------------------------------------
(* The code that runs *)

\* set_context_variable, with a value of the key's type or another one.
SetVariable(w, k, type) ==
  /\ <<k, type>> \in Settable[NodeOf[w]]
  /\ cell' = [cell EXCEPT ![w] =
       SetValue(@, k, [type |-> type, data |-> Running(w)])]
  /\ UNCHANGED <<deployed, polled, prev, phase, host, wire, snapshot, held,
                 sent, past, mixed>>

\* What the context of thread w shows.
Seen(w) ==
  [values |-> [k \in Keys |-> GetValue(cell[w], k)],
   chain  |-> ScopeChain(cell[w]),
   node   |-> NodeOf[w]]

\* The interceptor has let message t to node n go, with these headers.
Sent(w, t, n, bytes, snap) ==
  LET c == Running(w)
  IN  /\ phase[t] = "unborn"
      /\ phase' = [phase EXCEPT ![t] = "sent"]
      /\ host' = [host EXCEPT ![t] = n]
      /\ wire' = [wire EXCEPT ![t] = bytes]
      /\ snapshot' = [snapshot EXCEPT ![t] = snap]
      /\ sent' = [sent EXCEPT ![t] = Seen(w)]
      /\ past' = [past EXCEPT ![t] = past[c] \cup {c}]
      /\ mixed' = IF c \in mixed THEN mixed \cup {t} ELSE mixed
      /\ UNCHANGED <<deployed, cell, polled, prev, held>>

Capture(w) == Captured(Map(NodeOf[w]), cell[w])

\* on_send to an actor of the same process: capture().
SendLocal(w, t) == Sent(w, t, NodeOf[w], NoHeader, Capture(w))

\* Bug: what cannot be serialized is sent without context under any policy.
SendRemoteLeniently(w, t, n) ==
  LET bytes == Serialize(Map(NodeOf[w]), Capture(w))
  IN  /\ n # NodeOf[w]
      /\ Sent(w, t, n, IF bytes = Failed THEN NoHeader ELSE bytes, NoHeader)

\* on_send to another process: capture().serialize().  If that fails, the
\* message is rejected (nothing is sent) or goes without a context.
SendRemote(w, t, n) ==
  LET bytes == Serialize(Map(NodeOf[w]), Capture(w))
  IN  /\ n # NodeOf[w]
      /\ bytes = Failed => deployed.policy[NodeOf[w]] = "LogAndContinue"
      /\ Sent(w, t, n, IF bytes = Failed THEN NoHeader ELSE bytes, NoHeader)

\* A message from a process that is not modelled.
Arrive(t, n, bytes) ==
  /\ phase[t] = "unborn"
  /\ phase' = [phase EXCEPT ![t] = "sent"]
  /\ host' = [host EXCEPT ![t] = n]
  /\ wire' = [wire EXCEPT ![t] = bytes]
  /\ past' = [past EXCEPT ![t] = {Outside}]
  /\ UNCHANGED <<deployed, cell, polled, prev, snapshot, held, sent, mixed>>

-----------------------------------------------------------------------------
(* The inbound interceptor *)

Remote(t) == sent[t] = NoHeader \/ sent[t].node # host[t]

\* The bytes that reach the interceptor: a header that nobody can rebuild is
\* dropped by the transport.
Received(t) == IF Remote(t) /\ ~deployed.header[host[t]] THEN NoHeader ELSE wire[t]

\* bytes_to_snapshot, if there are bytes.
BytesToSnapshot(n, bytes) ==
  LET snap == IF bytes = NoHeader THEN Failed ELSE Deserialize(Map(n), bytes)
  IN  IF snap = Failed THEN NoHeader ELSE snap

\* The snapshot that on_receive leaves in the headers: the one that is there,
\* or else the bytes decoded.
Normalized(t) ==
  IF snapshot[t] # NoHeader THEN snapshot[t]
  ELSE BytesToSnapshot(host[t], Received(t))

\* Bug: the handler runs in the scope of the hop, but not in its values.
WrappedOnlyInScope(map, n, snap) ==
  Pushed(map, FromValuesWithChain(EmptyValues, snap.chain), n)

\* wrap_handler: the snapshot is attached, a scope is pushed on it and captured
\* again, and that is what the handler is attached to.
Wrapped(map, n, snap) ==
  Restored(map, Captured(map, Pushed(map, Restored(map, snap), n)))

Undecodable(t) == Normalized(t) = NoHeader /\ Received(t) # NoHeader

\* on_receive, and wrap_handler for what it lets through.
Deliver(t) ==
  /\ phase[t] = "sent"
  /\ snapshot' = [snapshot EXCEPT ![t] = Normalized(t)]
  /\ wire' = [wire EXCEPT ![t] = Received(t)]
  /\ IF Undecodable(t) /\ deployed.policy[host[t]] = "Reject"
     THEN /\ phase' = [phase EXCEPT ![t] = "rejected"]
          /\ UNCHANGED held
     ELSE /\ phase' = [phase EXCEPT ![t] = "delivered"]
          /\ held' = [held EXCEPT ![t] =
               IF Normalized(t) = NoHeader THEN NoStore
               ELSE Wrapped(Map(host[t]), host[t], Normalized(t))]
  /\ UNCHANGED <<deployed, cell, polled, prev, host, sent, past, mixed>>

IsWrapped(t) == snapshot[t] # NoHeader

\* Bug: only the wire bytes are looked at.
ExtractFromWire(t) == BytesToSnapshot(host[t], wire[t])

\* extract_context: the snapshot, or else the bytes decoded once more.
ExtractContext(t) ==
  IF snapshot[t] # NoHeader THEN snapshot[t]
  ELSE BytesToSnapshot(host[t], wire[t])

-----------------------------------------------------------------------------
(* Handlers on threads *)

\* The handler is polled, for the first time or again.
Poll(w, t) ==
  /\ polled[w] = NoTask
  /\ phase[t] \in {"delivered", "suspended"} /\ host[t] = NodeOf[w]
  /\ polled' = [polled EXCEPT ![w] = t]
  /\ phase' = [phase EXCEPT ![t] = "running"]
  /\ IF IsWrapped(t)
     THEN /\ prev' = [prev EXCEPT ![w] = cell[w]]
          /\ cell' = [cell EXCEPT ![w] = held[t]]
          /\ held' = [held EXCEPT ![t] = NoStore]
          /\ UNCHANGED mixed
     ELSE /\ mixed' = mixed \cup {w, t}
          /\ UNCHANGED <<prev, cell, held>>
  /\ UNCHANGED <<deployed, host, wire, snapshot, sent, past>>

\* A message that was handled is dropped, with its headers.
Forget(t, done) ==
  IF done
  THEN /\ wire' = [wire EXCEPT ![t] = NoHeader]
       /\ snapshot' = [snapshot EXCEPT ![t] = NoHeader]
       /\ sent' = [sent EXCEPT ![t] = NoHeader]
       /\ past' = [past EXCEPT ![t] = {}]
  ELSE UNCHANGED <<wire, snapshot, sent, past>>

\* Bugs: a previous store is put back that was never saved; the thread keeps
\* the context of the handler.
ReturnAlwaysRestores(w, done) ==
  LET t == polled[w]
  IN  /\ t # NoTask
      /\ polled' = [polled EXCEPT ![w] = NoTask]
      /\ phase' = [phase EXCEPT ![t] = IF done THEN "done" ELSE "suspended"]
      /\ held' = [held EXCEPT ![t] = IF done THEN NoStore ELSE cell[w]]
      /\ cell' = [cell EXCEPT ![w] = prev[w]]
      /\ prev' = [prev EXCEPT ![w] = NoStore]
      /\ Forget(t, done)
      /\ UNCHANGED <<deployed, host, mixed>>

ReturnKeepsContext(w, done) ==
  LET t == polled[w]
  IN  /\ t # NoTask
      /\ polled' = [polled EXCEPT ![w] = NoTask]
      /\ phase' = [phase EXCEPT ![t] = IF done THEN "done" ELSE "suspended"]
      /\ IF IsWrapped(t)
         THEN /\ held' = [held EXCEPT ![t] = IF done THEN NoStore ELSE cell[w]]
              /\ prev' = [prev EXCEPT ![w] = NoStore]
              /\ UNCHANGED cell
         ELSE UNCHANGED <<held, cell, prev>>
      /\ Forget(t, done)
      /\ UNCHANGED <<deployed, host, mixed>>

\* The poll returns: the handler waits for something, or is done.
Return(w, done) ==
  LET t == polled[w]
  IN  /\ t # NoTask
      /\ polled' = [polled EXCEPT ![w] = NoTask]
      /\ phase' = [phase EXCEPT ![t] = IF done THEN "done" ELSE "suspended"]
      /\ IF IsWrapped(t)
         THEN /\ held' = [held EXCEPT ![t] = IF done THEN NoStore ELSE cell[w]]
              /\ cell' = [cell EXCEPT ![w] = prev[w]]
              /\ prev' = [prev EXCEPT ![w] = NoStore]
         ELSE UNCHANGED <<held, cell, prev>>
      /\ Forget(t, done)
      /\ UNCHANGED <<deployed, host, mixed>>

Next ==
  \/ \E w \in Threads :
       \/ \E k \in Keys, type \in Types : SetVariable(w, k, type)
       \/ \E t \in Tasks : SendLocal(w, t)
       \/ \E t \in Tasks, n \in Nodes : SendRemote(w, t, n)
       \/ \E t \in Tasks : Poll(w, t)
       \/ \E done \in BOOLEAN : Return(w, done)
  \/ \E t \in Tasks, n \in Nodes, bytes \in Foreign : Arrive(t, n, bytes)
  \/ \E t \in Tasks : Deliver(t)

Spec == Init /\ [][Next]_vars

-----------------------------------------------------------------------------
(* Safety *)

\* The type invariant.
TypeOK ==
  /\ deployed \in Deployments
  /\ cell \in [Threads -> Store]
  /\ polled \in [Threads -> Tasks \cup {NoTask}]
  /\ prev \in [Threads -> Store \cup {NoStore}]
  /\ phase \in [Tasks -> {"unborn", "sent", "delivered", "running",
                          "suspended", "done", "rejected"}]
  /\ host \in [Tasks -> Nodes]
  /\ wire \in [Tasks -> WireContext \cup {NoHeader}]
  /\ snapshot \in [Tasks -> Snapshot \cup {NoHeader}]
  /\ held \in [Tasks -> Store \cup {NoStore}]
  /\ sent \in [Tasks -> Sight \cup {NoHeader}]
  /\ past \in [Code -> SUBSET (Code \cup {Outside})]
  /\ mixed \subseteq Code

\* What of a value seen on one node is to be seen on the next: nothing of a
\* key that is local-only on either or unknown on the next one; in a process
\* only what has its key's type; and over the wire what the next node decodes.
Propagated(from, to, k, v) ==
  IF v = NoVal \/ k \in LocalKeysOf(Map(from)) \cup LocalKeysOf(Map(to))
     \/ ~IsRegistered(Map(to), k)
  THEN NoVal
  ELSE IF from = to
  THEN IF IsValidValue(Map(to), k, v) THEN v ELSE NoVal
  ELSE [v EXCEPT !.type = Map(to)[k].type]

NewestOf(chain) ==
  IF MaxChainLen = 0 \/ Len(chain) <= MaxChainLen THEN chain
  ELSE SubSeq(chain, Len(chain) - MaxChainLen + 1, Len(chain))

\* A handler that is given a context starts with exactly what its sender saw:
\* every value that can get there, whatever conversions it goes through, no
\* other one, and the sender's chain with the hop itself at its end.
HandlersGetSendersContext ==
  \A t \in Tasks : phase[t] = "delivered" /\ IsWrapped(t) /\ sent[t] # NoHeader =>
    /\ \A k \in Keys :
         GetValue(held[t], k) =
           Propagated(sent[t].node, host[t], k, sent[t].values[k])
    /\ ScopeChain(held[t]) =
         NewestOf(Append(sent[t].chain, host[t]))

DataIn(store) ==
  {GetValue(store, k) : k \in Keys} \ {NoVal}

\* The context that the code c would find if it ran now.
ContextOf(c) ==
  IF c \in Threads
  THEN IF polled[c] # NoTask /\ IsWrapped(polled[c]) THEN prev[c] ELSE cell[c]
  ELSE IF held[c] # NoStore THEN held[c]
  ELSE cell[CHOOSE w \in Threads : polled[w] = c]

\* The code that has a context of its own.
Owners ==
  {c \in Code \ mixed :
     \/ c \in Threads
     \/ IsWrapped(c) /\ phase[c] \in {"delivered", "running", "suspended"}}

\* Values follow causality: code sees what it has set itself and what the code
\* that it follows has set, and nothing of any other request that shares its
\* threads.  The exceptions are the handlers that were given no context, the
\* threads they ran on, and what these send.
ContextFollowsCausality ==
  \A c \in Owners : \A v \in DataIn(ContextOf(c)) : v.data \in past[c] \cup {c}

Strict(n) == deployed.policy[n] = "Reject"

\* A node that rejects what it cannot decode, and that a strict sender sends to,
\* runs no handler without the sender's context, if only it can rebuild the
\* header.
StrictNodesKeepContext ==
  \A t \in Tasks :
    phase[t] \in {"delivered", "running", "suspended"} /\ ~IsWrapped(t) =>
      \/ ~Strict(host[t])
      \/ sent[t] # NoHeader /\ ~Strict(sent[t].node)
      \/ Remote(t) /\ ~deployed.header[host[t]]

\* Why a context may be lost between two nodes: it is larger than the limit, or
\* one of its values cannot be written by its sender, or cannot be read in the
\* version that the sender writes.
Reason(from, to, seen) ==
  LET carried == {k \in Keys \ LocalKeysOf(Map(from)) : seen.values[k] # NoVal}
  IN  \/ /\ MaxContextSize > 0
         /\ Cardinality(carried) + Len(seen.chain) > MaxContextSize
      \/ \E k \in carried :
           \/ ~CanWrite(Map(from), k, seen.values[k])
           \/ /\ IsRegistered(Map(to), k) /\ k \notin LocalKeysOf(Map(to))
              /\ ~CanDecode(Map(to), WireEntry(Map(from), k, seen.values[k]))

\* A message that gets to a node that rebuilds its header brings its context
\* along, the largest one allowed included, unless there is such a reason.
ContextLostForAReason ==
  \A t \in Tasks :
    /\ phase[t] \in {"delivered", "rejected"} /\ ~IsWrapped(t)
    /\ sent[t] # NoHeader /\ (Remote(t) => deployed.header[host[t]])
    => Remote(t) /\ Reason(sent[t].node, host[t], sent[t])

\* A context that was decoded is attached as a whole: no decoder yields a value
\* that the registry of the same node then drops as ill-typed.
DecodedIsAttachable ==
  \A t \in Tasks : snapshot[t] # NoHeader /\ Remote(t) =>
    \A k \in Keys : snapshot[t].values[k] # NoVal =>
      /\ IsValidValue(Map(host[t]), k, snapshot[t].values[k])
      /\ k \notin LocalKeysOf(Map(host[t]))

\* No bytes on their way carry a key that their sender keeps to itself.
LocalOnlyStaysHome ==
  \A t \in Tasks : wire[t] # NoHeader /\ sent[t] # NoHeader =>
    \A e \in wire[t].entries : e.key \notin LocalKeysOf(Map(sent[t].node))

\* What extract_context gives a handler is the context it was wrapped in, but
\* for the scope of the hop, or nothing if it was not wrapped.
ExtractAgreesWithHandler ==
  \A t \in Tasks : phase[t] = "delivered" =>
    LET extracted == ExtractContext(t)
    IN  /\ IsWrapped(t) <=> extracted # NoHeader
        /\ IsWrapped(t) /\ extracted # NoHeader
             => held[t] = Wrapped(Map(host[t]), host[t], extracted)

-----------------------------------------------------------------------------
(* What it implements *)

\* Who wrote each of the values.
Writers(values) ==
  [k \in {k \in Keys : values[k] # NoVal} |-> values[k].data]

Picture(store) ==
  [view  |-> Writers([k \in Keys |-> GetValue(store, k)]),
   trail |-> ScopeChain(store)]

\* A message on its way shows what its sender saw, or what another process wrote.
Letter(t) ==
  IF sent[t] # NoHeader
  THEN [view  |-> Writers(sent[t].values), trail |-> sent[t].chain, to |-> host[t]]
  ELSE [view  |-> [k \in {e.key : e \in wire[t].entries} |-> Outside],
        trail |-> IF wire[t].chain = NoChain THEN <<>> ELSE wire[t].chain,
        to    |-> host[t]]

Contexts == [c \in Owners |-> Picture(ContextOf(c))]

Letters == [t \in {t \in Tasks \ mixed : phase[t] = "sent"} |-> Letter(t)]

Abs == INSTANCE Requests WITH context <- Contexts, mail <- Letters, blended <- mixed

\* Whichever threads poll the handlers, in whatever order, and whatever else they
\* run in between: every step is one of Requests.  Polls and returns that swap
\* stores change nobody's context.
ImplementsRequests == Abs!Spec

=============================================================================
