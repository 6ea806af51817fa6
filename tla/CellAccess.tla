---------------------------- MODULE CellAccess ----------------------------
(***************************************************************************)
(* The take/set protocol of the thread-local cell (try_apply in store.rs), *)
(* with the user code that runs while an operation is under way: the Clone *)
(* of a value read, the Drop of a value overwritten, the callback of an    *)
(* update.  That code may call dcontext again, or panic.                   *)
(*                                                                         *)
(* "frames" is the call stack, innermost call last.  User code runs on top *)
(* of it, so between two steps the innermost frame is the one waiting for  *)
(* user code to return:                                                    *)
(*   window   an operation that has taken the store and will put "back"    *)
(*   update   an update_context_variable waiting for its callback          *)
(*   scope    a block holding a ScopeGuard                                 *)
(*   noop     a block holding a ScopeGuard that was pushed on a busy cell  *)
(*   attach   a block holding an AttachGuard                               *)
(* Guards live in blocks, so returns and panics unwind them newest first.  *)
(***************************************************************************)
EXTENDS ContextStore

CONSTANTS
  CachedKeys, \* the keys registered with .cached()
  Busy,       \* the cell is None
  MaxFrames   \* how deep calls nest (bounds the model)

\* A store, with two marks for the properties: "home", whether it is the store
\* the thread started with; "cleared", how many of the blocks open in it lost
\* their scope to a clear().
Cell == [home : BOOLEAN, store : Store, cleared : Int]

ASSUME CellAccessAssumption ==
  /\ CachedKeys \subseteq Keys
  /\ Busy \notin Cell
  /\ MaxFrames \in Nat

VARIABLES
  cell,    \* the store in the cell, or Busy
  frames,  \* the call stack
  lost     \* history: the "home" marks of the stores that a panic dropped

vars == <<cell, frames, lost>>

Frame == [kind : {"window"}, back : Cell]
           \cup [kind : {"update"}, key : Keys]
           \cup [kind : {"scope"}, expected : Nat]
           \cup [kind : {"noop"}]
           \cup [kind : {"attach"}, prev : Cell \cup {Busy}]

Init ==
  /\ cell = [home |-> TRUE, store |-> NewStore, cleared |-> 0]
  /\ frames = <<>>
  /\ lost = {}

Room == Len(frames) < MaxFrames

Call(frame) == frames' = Append(frames, frame)

WithStore(store) == [cell EXCEPT !.store = store]

-----------------------------------------------------------------------------
(* Operations that run user code between take and set *)

\* The store is out of the cell until the user code returns, on top of the
\* calls in "stack"; the operation has already made its change to it.
Window(taken, stack) ==
  /\ Len(stack) < MaxFrames
  /\ cell' = Busy
  /\ frames' = Append(stack, [kind |-> "window", back |-> taken])

\* get_context_variable: the value is cloned inside the closure.
GetVariable(k) ==
  /\ cell # Busy /\ GetValue(cell.store, k) # NoVal
  /\ Window(cell, frames)
  /\ UNCHANGED lost

\* What is overwritten is dropped inside the closure; its Drop runs there
\* unless another Arc still holds the value.
Overwrite(taken, overwritten, stack) ==
  \/ overwritten /\ Window(taken, stack)
  \/ cell' = taken /\ frames' = stack

\* set_context_variable, called on top of "stack": nothing on a busy cell.
Set(k, v, stack) ==
  IF cell = Busy
  THEN UNCHANGED cell /\ frames' = stack
  ELSE Overwrite(WithStore(SetValue(cell.store, k, v)),
                 cell.store.cur.values[k] # NoVal, stack)

SetVariable(k, v) == Set(k, v, frames) /\ UNCHANGED lost

Merge(values) ==
  /\ cell # Busy
  /\ Overwrite(WithStore(MergeValues(cell.store, values)),
               \E k \in Keys : values[k] # NoVal
                                 /\ cell.store.cur.values[k] # NoVal,
               frames)
  /\ UNCHANGED lost

\* clear: a new store, without the scopes of the blocks open in the old one.
Cleared ==
  [cell EXCEPT !.store = NewStore, !.cleared = @ + cell.store.cur.depth - 1]

Clear ==
  /\ cell # Busy
  /\ Overwrite(Cleared, CollectValues(cell.store) # EmptyValues, frames)
  /\ UNCHANGED lost

\* Bug: the store is put back only if the user code made no use of the cell.
FinishIfUntouched ==
  /\ frames # <<>> /\ Last(frames).kind = "window"
  /\ cell' = IF Len(frames) > 1 THEN cell ELSE Last(frames).back
  /\ frames' = Front(frames)
  /\ UNCHANGED lost

\* The user code of a window has returned: cell.set(Some(store)).
FinishWindow ==
  /\ frames # <<>> /\ Last(frames).kind = "window"
  /\ cell' = Last(frames).back
  /\ frames' = Front(frames)
  /\ UNCHANGED lost

-----------------------------------------------------------------------------
(* Operations that run no user code, or run it with the store in the cell *)

\* update_context_variable: first a read, whose clone is inside the window,
\* then the callback, with the store back in the cell.
BeginUpdate(k) ==
  /\ Room
  /\ LET stack == Append(frames, [kind |-> "update", key |-> k])
     IN  IF cell # Busy /\ GetValue(cell.store, k) # NoVal
         THEN Window(cell, stack)
         ELSE frames' = stack /\ UNCHANGED cell
  /\ UNCHANGED lost

\* The callback has returned its value: a set_context_variable in the scope,
\* and in the store, that is active now.
FinishUpdate(v) ==
  /\ frames # <<>> /\ Last(frames).kind = "update"
  /\ Set(Last(frames).key, v, Front(frames))
  /\ UNCHANGED lost

\* Bug: the guard takes the depth of the scope it was pushed on.
EnterScopeGuardsParent(name) ==
  /\ Room
  /\ IF cell = Busy
     THEN Call([kind |-> "noop"]) /\ UNCHANGED cell
     ELSE /\ cell' = WithStore(PushScope(cell.store, name, CachedKeys))
          /\ Call([kind |-> "scope", expected |-> cell.store.cur.depth])
  /\ UNCHANGED lost

\* push_scope: a guard that does nothing if the cell is busy.
EnterScope(name) ==
  /\ Room
  /\ IF cell = Busy
     THEN Call([kind |-> "noop"]) /\ UNCHANGED cell
     ELSE /\ cell' = WithStore(PushScope(cell.store, name, CachedKeys))
          /\ Call([kind |-> "scope", expected |-> cell'.store.cur.depth])
  /\ UNCHANGED lost

\* attach_store: cell.replace(Some(store)) returns None on a busy cell.
EnterAttach(store) ==
  /\ Room
  /\ cell' = [home |-> FALSE, store |-> store, cleared |-> 0]
  /\ Call([kind |-> "attach", prev |-> cell])
  /\ UNCHANGED lost

\* A scope guard dropped on a store; at the root, it is one of those whose scope
\* was cleared.
Left(c, expected) ==
  [c EXCEPT !.store = PopScope(@, expected),
            !.cleared = IF c.store.cur.depth = 1 THEN @ - 1 ELSE @]

\* Bug: a guard that finds the cell busy leaves it so, an AttachGuard too.
DroppedIfPresent(c, frame) ==
  CASE frame.kind = "scope" /\ c # Busy -> Left(c, frame.expected)
    [] frame.kind = "attach" /\ c # Busy -> frame.prev
    [] OTHER -> c

\* Bug: a scope is popped down to its own depth, not below it.
DroppedOffByOne(c, frame) ==
  CASE frame.kind = "scope" /\ c # Busy -> Left(c, frame.expected + 1)
    [] frame.kind = "attach" -> frame.prev
    [] OTHER -> c

\* The cell after the guard of a block is dropped.  leave_scope finds nothing
\* to do on a busy cell; an AttachGuard always puts its own store back.
Dropped(c, frame) ==
  CASE frame.kind = "scope" /\ c # Busy -> Left(c, frame.expected)
    [] frame.kind = "attach" -> frame.prev
    [] OTHER -> c

LeaveBlock ==
  /\ frames # <<>> /\ Last(frames).kind \in {"scope", "noop", "attach"}
  /\ cell' = Dropped(cell, Last(frames))
  /\ frames' = Front(frames)
  /\ UNCHANGED lost

\* The cell once a frame is gone: it returned, or a panic unwound it, which
\* drops the store of a window instead of putting it back.
Past(c, frame, panics) ==
  IF frame.kind = "window" /\ ~panics THEN frame.back ELSE Dropped(c, frame)

Unwound(stack, c, panics) ==
  FoldRight(LAMBDA f, d : Past(d, f, panics), stack, c)

\* A panic in user code, caught above the frames that stay.  The frames above
\* unwind: guards are dropped, and so are the stores of windows.
Panic(stay) ==
  LET gone == SubSeq(frames, stay + 1, Len(frames))
  IN  /\ stay < Len(frames)
      /\ cell' = Unwound(gone, cell, TRUE)
      /\ frames' = SubSeq(frames, 1, stay)
      /\ lost' = lost \cup {gone[i].back.home : i \in {j \in DOMAIN gone :
                                                      gone[j].kind = "window"}}

Calm ==
  \/ \E k \in Keys : GetVariable(k)
  \/ \E k \in Keys, v \in Vals : SetVariable(k, v)
  \/ \E values \in Values : Merge(values)
  \/ Clear
  \/ FinishWindow
  \/ \E k \in Keys : BeginUpdate(k)
  \/ \E v \in Vals : FinishUpdate(v)
  \/ \E name \in Names : EnterScope(name)
  \/ EnterAttach(NewStore)
  \/ cell # Busy /\ EnterAttach(ForkChild(cell.store))
  \/ LeaveBlock

Next == Calm \/ \E stay \in 0 .. Len(frames) : Panic(stay)

Spec == Init /\ [][Next]_vars

-----------------------------------------------------------------------------
(* Safety *)

\* The type invariant.
TypeOK ==
  /\ cell \in Cell \cup {Busy}
  /\ frames \in Seq(Frame)
  /\ lost \subseteq BOOLEAN

\* The cell once all that is under way has returned normally.
Returned == Unwound(frames, cell, FALSE)

\* However operations, blocks, attached stores and caught panics nest, the
\* thread gets its own store back, at its root, unless a panic unwound an
\* operation that had just taken that very store.
HomeComesBack ==
  TRUE \notin lost => /\ Returned # Busy
                      /\ Returned.home
                      /\ Returned.store.cur.depth = 1

\* As long as no panic unwound a window, code that no operation is waiting for
\* (in no window, at any level) finds a context.
ContextOutsideWindows ==
  lost = {} /\ (\A i \in DOMAIN frames : frames[i].kind # "window") => cell # Busy

\* However operations re-enter and panics unwind them, the store in use has
\* exactly one scope for every block open in it whose scope no clear() removed:
\* none is lost, none is left over, and none of another block is popped.
DepthCountsOpenBlocks ==
  cell # Busy =>
    LET bases == {i \in DOMAIN frames : frames[i].kind = "attach"}
        base  == IF bases = {} THEN 0 ELSE Max(bases)
    IN  cell.store.cur.depth + cell.cleared
          = 1 + Cardinality({i \in base + 1 .. Len(frames) :
                                frames[i].kind = "scope"})

=============================================================================
