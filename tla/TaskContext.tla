---------------------------- MODULE TaskContext ----------------------------
(***************************************************************************)
(* Futures wrapped by ContextFutureExt (dcontext/src/future_ext.rs), and   *)
(* the threads that poll them.  A WithContext owns a store; each poll puts *)
(* it in the cell of the polling thread and takes it out again.            *)
(*                                                                         *)
(* "calls" is each thread's stack of polls under way, innermost last, with *)
(* the local variable "prev" of WithContext::poll.  The code that runs is  *)
(* the innermost future's, or the thread's own: it uses the context,       *)
(* creates futures, polls them (await, join, select, block_on) and drops   *)
(* them.  Two adapters in a row, next.scope(..).attach(..), are a future   *)
(* that only polls its "inner" one.  A future that is !Send stays on its   *)
(* "Home" thread and may keep ScopeGuards while it is suspended.           *)
(*                                                                         *)
(* CalmSpec: no panic, and no future is dropped inside a scope it opened.  *)
(* Spec allows both; PanicSpec only panics in code that no operation on    *)
(* the context is waiting for.                                             *)
(***************************************************************************)
EXTENDS Snapshots

CONSTANTS
  CachedKeys, \* the keys registered with .cached()
  LocalKeys,  \* the keys registered with .local_only()
  ValidVals,  \* per key, the values of its registered type
  Workers,    \* the threads
  Futures,    \* the WithContext futures, each used once
  Home,       \* the thread a future is confined to ..
  Anywhere,   \* .. or that it is Send
  NoFuture,   \* the future is not an adapter over another one
  NoStore,    \* an Option<ContextStore> that is None
  Inbound,    \* the snapshots that arrive from elsewhere
  MaxGuards,  \* how many guards each piece of code may hold (bounds the model)
  MaxDepth    \* how deep a store may be pushed (bounds the model)

Actors == Workers \cup Futures

ASSUME TaskContextAssumption ==
  /\ CachedKeys \subseteq Keys
  /\ LocalKeys \subseteq Keys
  /\ ValidVals \in [Keys -> SUBSET Vals]
  /\ Workers \cap Futures = {}
  /\ Home \in [Futures -> Workers \cup {Anywhere}]
  /\ Anywhere \notin Workers
  /\ NoFuture \notin Actors
  /\ NoStore \notin Store
  /\ Inbound \subseteq Snapshot
  /\ MaxGuards \in [Actors -> Nat]
  /\ MaxDepth \in Nat

VARIABLES
  cell,    \* each thread's thread-local store
  calls,   \* each thread's polls under way
  phase,   \* where each future is in its life
  held,    \* WithContext.store
  inner,   \* the future an adapter polls
  guards,  \* the ScopeGuards held by a thread's own code, or by a future's
  own,     \* history: the context as its code alone would have left it
  disturbed \* history: whose code caught a panic, lost its poll to one, or
            \* dropped a future that held guards

vars == <<cell, calls, phase, held, inner, guards, own, disturbed>>

Poll == [future : Futures, prev : Store \cup {NoStore}]

Init ==
  /\ cell = [w \in Workers |-> NewStore]
  /\ calls = [w \in Workers |-> <<>>]
  /\ phase = [f \in Futures |-> "unborn"]
  /\ held = [f \in Futures |-> NoStore]
  /\ inner = [f \in Futures |-> NoFuture]
  /\ guards = [a \in Actors |-> <<>>]
  /\ own = [a \in Actors |-> IF a \in Workers THEN NewStore ELSE NoStore]
  /\ disturbed = {}

\* Whose code waits for the i-th poll of thread w to return.
Caller(w, i) == IF i = 1 THEN w ELSE calls[w][i - 1].future

\* Whose code runs on thread w.
Running(w) == Caller(w, Len(calls[w]) + 1)

IsAdapter(a) == a \in Futures /\ inner[a] # NoFuture

Adapted(f) == \E a \in Futures : inner[a] = f

MayTouch(w, f) == Home[f] \in {w, Anywhere}

-----------------------------------------------------------------------------
(* The code that runs uses the context *)

Code(w) == ~IsAdapter(Running(w))

\* What the code does to the cell it would do to a context of its own.
Change(w, store, mine) ==
  /\ cell' = [cell EXCEPT ![w] = store]
  /\ own' = [own EXCEPT ![Running(w)] = mine]
  /\ UNCHANGED <<calls, phase, held, inner, disturbed>>

\* An empty cell stays empty.
Written(store, k, v) == IF store = NoStore THEN store ELSE SetValue(store, k, v)

SetVariable(w, k, v) ==
  /\ Code(w)
  /\ Change(w, Written(cell[w], k, v), Written(own[Running(w)], k, v))
  /\ UNCHANGED guards

\* On an empty cell, push_scope returns a guard that will do nothing: no step.
EnterScope(w, name) ==
  LET a == Running(w)
  IN  /\ Code(w) /\ cell[w] # NoStore
      /\ Len(guards[a]) < MaxGuards[a]
      /\ cell[w].cur.depth < MaxDepth /\ own[a].cur.depth < MaxDepth
      /\ Change(w, PushScope(cell[w], name, CachedKeys), PushScope(own[a], name, CachedKeys))
      /\ guards' = [guards EXCEPT ![a] = Append(@, cell'[w].cur.depth)]

\* leave_scope finds nothing to do on an empty cell.
Popped(store, expected) ==
  IF store = NoStore THEN store ELSE PopScope(store, expected)

LeaveScope(w) ==
  LET a == Running(w)
  IN  /\ Code(w) /\ guards[a] # <<>>
      /\ Change(w, Popped(cell[w], Last(guards[a])),
                   Popped(own[a], Last(guards[a])))
      /\ guards' = [guards EXCEPT ![a] = Front(@)]

-----------------------------------------------------------------------------
(* ContextFutureExt: with, attach, fork, capture, scope *)

\* with(store): over a future of the caller's own, or over an adapter "g".
\* (Adapters over adapters over adapters are left out.)
With(w, f, g, store) ==
  /\ Code(w)
  /\ phase[f] = "unborn" /\ MayTouch(w, f)
  /\ g # NoFuture => /\ phase[g] = "idle" /\ MayTouch(w, g)
                     /\ ~IsAdapter(g) /\ ~Adapted(g)
                     /\ Home[g] \in {Home[f], Anywhere}
  /\ phase' = [phase EXCEPT ![f] = "idle"]
  /\ held' = [held EXCEPT ![f] = store]
  /\ own' = [own EXCEPT ![f] = store]
  /\ inner' = [inner EXCEPT ![f] = g]
  /\ UNCHANGED <<cell, calls, guards, disturbed>>

Attach(w, f, g, snap) == With(w, f, g, StoreFromSnapshot(snap, LocalKeys, ValidVals))

\* fork and capture: an empty cell has a new store to offer, and an empty snapshot.
Forked(w) == IF cell[w] = NoStore THEN NewStore ELSE ForkChild(cell[w])

Captured(w) ==
  IF cell[w] = NoStore
  THEN [kind |-> "snapshot", values |-> EmptyValues, chain |-> <<>>]
  ELSE CaptureOf(cell[w], LocalKeys)

Fork(w, f, g) == With(w, f, g, Forked(w))

Capture(w, f, g) == With(w, f, g, StoreFromSnapshot(Captured(w), LocalKeys, ValidVals))

\* The fork is made here, where scope() is called, not where it is polled.
Scoped(w, f, g, name) == With(w, f, g, PushScope(Forked(w), name, CachedKeys))

-----------------------------------------------------------------------------
(* WithContext::poll and the end of a future *)

\* Bug: a future that has no store leaves the cell alone, and "prev" empty.
PollSwapsStoresOnly(w, f) ==
  LET a == Running(w)
      s == held[f]
  IN  /\ phase[f] = "idle" /\ MayTouch(w, f)
      /\ IF IsAdapter(a) THEN inner[a] = f /\ phase[a] = "running"
                         ELSE ~Adapted(f)
      /\ calls' = [calls EXCEPT ![w] = Append(@, [future |-> f,
                     prev |-> IF s = NoStore THEN NoStore ELSE cell[w]])]
      /\ cell' = [cell EXCEPT ![w] = IF s = NoStore THEN @ ELSE s]
      /\ held' = [held EXCEPT ![f] = NoStore]
      /\ phase' = [phase EXCEPT ![f] = "running"]
      /\ UNCHANGED <<inner, guards, own, disturbed>>

\* Its store goes into the cell, the cell's store into "prev".  An adapter
\* polls its inner future once, and nobody else does.
PollFuture(w, f) ==
  LET a == Running(w)
  IN  /\ phase[f] = "idle" /\ MayTouch(w, f)
      /\ IF IsAdapter(a) THEN inner[a] = f /\ phase[a] = "running"
                         ELSE ~Adapted(f)
      /\ calls' = [calls EXCEPT ![w] = Append(@, [future |-> f, prev |-> cell[w]])]
      /\ cell' = [cell EXCEPT ![w] = held[f]]
      /\ held' = [held EXCEPT ![f] = NoStore]
      /\ phase' = [phase EXCEPT ![f] = "running"]
      /\ UNCHANGED <<inner, guards, own, disturbed>>

\* Code that is done, or Send, holds no guard when it returns from a poll.
MayReturn(f, done) ==
  /\ done \/ Home[f] = Anywhere => guards[f] = <<>>
  /\ IsAdapter(f) => /\ phase[f] = "returning"
                     /\ done = (phase[inner[f]] = "over")

\* An adapter returns what its inner future returned.
PhaseAfter(w, f, done) ==
  LET a == Caller(w, Len(calls[w]))
  IN  [g \in Futures |-> IF g = f THEN IF done THEN "over" ELSE "idle"
                         ELSE IF g = a /\ IsAdapter(a) THEN "returning"
                         ELSE phase[g]]

\* Bug: what was in the cell before the poll is not put back.
ReturnSharesStore(w, done) ==
  LET f == Running(w)
  IN  /\ calls[w] # <<>> /\ MayReturn(f, done)
      /\ held' = [held EXCEPT ![f] = IF done THEN NoStore ELSE cell[w]]
      /\ calls' = [calls EXCEPT ![w] = Front(@)]
      /\ phase' = PhaseAfter(w, f, done)
      /\ own' = [own EXCEPT ![f] = IF done THEN NoStore ELSE @]
      /\ UNCHANGED <<cell, inner, guards, disturbed>>

\* The inner poll has returned Ready ("done") or Pending: the store goes back
\* into the future, "prev" into the cell.  A future that is done is dropped.
Return(w, done) ==
  LET f == Running(w)
  IN  /\ calls[w] # <<>> /\ MayReturn(f, done)
      /\ held' = [held EXCEPT ![f] = IF done THEN NoStore ELSE cell[w]]
      /\ cell' = [cell EXCEPT ![w] = Last(calls[w]).prev]
      /\ calls' = [calls EXCEPT ![w] = Front(@)]
      /\ phase' = PhaseAfter(w, f, done)
      /\ own' = [own EXCEPT ![f] = IF done THEN NoStore ELSE @]
      /\ UNCHANGED <<inner, guards, disturbed>>

\* leave_scope for each of the guards, dropped newest first, if there are any.
Unwound(store, expected) ==
  IF expected = <<>> \/ store = NoStore
  THEN store
  ELSE FoldRight(LAMBDA e, s : PopScope(s, e), expected, store)

\* The polls of the futures in "gone" end for good on thread w, whose cell has
\* "store"; the guards they hold are dropped, and so are they, but for "kept".
Gone(w, gone, kept, store, expected) ==
  /\ cell' = [cell EXCEPT ![w] = Unwound(store, expected)]
  /\ phase' = [f \in Futures |-> IF f \in kept THEN "idle"
                                 ELSE IF f \in gone THEN "over" ELSE phase[f]]
  /\ held' = [f \in Futures |-> IF f \in gone THEN NoStore ELSE held[f]]
  /\ guards' = [a \in Actors |-> IF a \in gone THEN <<>> ELSE guards[a]]
  /\ own' = [a \in Actors |-> IF a \in gone \ kept THEN NoStore ELSE own[a]]
  /\ UNCHANGED inner

\* A suspended future is dropped, with the future it adapts.
Cancel(w, f) ==
  LET dropped  == {f, inner[f]} \ {NoFuture}
      expected == guards[f] \o (IF IsAdapter(f) THEN guards[inner[f]] ELSE <<>>)
  IN  /\ Code(w)
      /\ phase[f] = "idle" /\ MayTouch(w, f) /\ ~Adapted(f)
      /\ Gone(w, dropped, {}, cell[w], expected)
      /\ disturbed' = IF expected = <<>> THEN disturbed
                      ELSE disturbed \cup {Running(w)}
      /\ UNCHANGED calls

CancelOutsideScopes(w, f) ==
  /\ guards[f] = <<>> /\ (IsAdapter(f) => guards[inner[f]] = <<>>)
  /\ Cancel(w, f)

\* The running code panics, or "inWindow" a Clone or Drop of its values does,
\* while an operation on the context has the store out of the cell and will not
\* put it back.  Code below catches the panic, or this code itself.  The polls
\* in between never reach their second replace: what is in the cell stays there,
\* and every "prev" is dropped.  The code that catches it may have "kept" some of
\* the futures, to poll them again, now without a store.
Panic(w, stay, inWindow, kept) ==
  LET gone == {calls[w][i].future : i \in stay + 1 .. Len(calls[w])}
  IN  /\ Code(w)
      /\ IF inWindow THEN cell[w] # NoStore ELSE stay < Len(calls[w])
      /\ ~IsAdapter(Caller(w, stay + 1))
      /\ kept \subseteq gone
      /\ \A a \in gone : IsAdapter(a) => (a \in kept <=> inner[a] \in kept)
      /\ Gone(w, gone, kept, IF inWindow THEN NoStore ELSE cell[w],
              FlattenSeq([i \in 1 .. Len(calls[w]) - stay |->
                            guards[calls[w][stay + i].future]]))
      /\ calls' = [calls EXCEPT ![w] = SubSeq(@, 1, stay)]
      /\ disturbed' = disturbed \cup {Caller(w, stay + 1)} \cup kept

-----------------------------------------------------------------------------

Create(w, f, g) ==
  \/ \E snap \in Inbound : Attach(w, f, g, snap)
  \/ Fork(w, f, g)
  \/ Capture(w, f, g)
  \/ \E name \in Names : Scoped(w, f, g, name)

Use(w) ==
  \/ \E k \in Keys, v \in Vals : SetVariable(w, k, v)
  \/ \E name \in Names : EnterScope(w, name)
  \/ LeaveScope(w)

Turn(w) ==
  \/ \E f \in Futures : PollFuture(w, f)
  \/ \E done \in BOOLEAN : Return(w, done)

Step(w) ==
  \/ Use(w)
  \/ \E f \in Futures, g \in Futures \cup {NoFuture} : Create(w, f, g)
  \/ Turn(w)

PanicsWhere(w, inWindow) ==
  \E stay \in 0 .. Len(calls[w]), kept \in SUBSET Futures :
    Panic(w, stay, inWindow, kept)

CancelsOutsideScopes == \E w \in Workers, f \in Futures : CancelOutsideScopes(w, f)
Cancels == \E w \in Workers, f \in Futures : Cancel(w, f)
Panics  == \E w \in Workers, inWindow \in BOOLEAN : PanicsWhere(w, inWindow)
Steps   == \E w \in Workers : Step(w)

CalmNext == Steps \/ CancelsOutsideScopes
CalmSpec == Init /\ [][CalmNext]_vars

PanicNext == Steps \/ CancelsOutsideScopes \/ \E w \in Workers : PanicsWhere(w, FALSE)
PanicSpec == Init /\ [][PanicNext]_vars

Next == Steps \/ Cancels \/ Panics
Spec == Init /\ [][Next]_vars

-----------------------------------------------------------------------------
(* Safety *)

\* The type invariant.
TypeOK ==
  /\ cell \in [Workers -> Store \cup {NoStore}]
  /\ calls \in [Workers -> Seq(Poll)]
  /\ phase \in [Futures -> {"unborn", "idle", "running", "returning", "over"}]
  /\ held \in [Futures -> Store \cup {NoStore}]
  /\ inner \in [Futures -> Futures \cup {NoFuture}]
  /\ guards \in [Actors -> Seq(Nat)]
  /\ own \in [Actors -> Store \cup {NoStore}]
  /\ disturbed \subseteq Actors

\* Whichever thread polls a future, whatever other futures are polled inside
\* its polls or between them, its code finds the context its own code left,
\* and so does the code that polls it.
ContextsAreIsolated ==
  /\ \A w \in Workers : cell[w] = own[Running(w)]
  /\ \A w \in Workers : \A i \in DOMAIN calls[w] :
       calls[w][i].prev = own[Caller(w, i)]
  /\ \A f \in Futures : phase[f] = "idle" => held[f] = own[f]

\* Whatever panics and is dropped, only code that caught a panic, or dropped a
\* future inside scopes, and futures polled again after one, may find another
\* context than their own, or none: all other code, above and below it on the
\* stack and on other threads, finds what it left.
FailuresStayLocal ==
  /\ \A w \in Workers : Running(w) \notin disturbed => cell[w] = own[Running(w)]
  /\ \A w \in Workers : \A i \in DOMAIN calls[w] :
       Caller(w, i) \notin disturbed => calls[w][i].prev = own[Caller(w, i)]
  /\ \A f \in Futures : phase[f] = "idle" /\ f \notin disturbed => held[f] = own[f]

-----------------------------------------------------------------------------
(* What the repository says of the same code, and the code does not do *)

\* future_ext.rs:12-13, a store "swapped into the thread-local on each poll and
\* swapped back out after": no poll under way, the thread has its own again.
ThreadsKeepTheirContext ==
  \A w \in Workers : calls[w] = <<>> => cell[w] = own[w]

=============================================================================
