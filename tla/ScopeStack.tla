----------------------------- MODULE ScopeStack -----------------------------
(***************************************************************************)
(* What a scoped context promises its caller, with no chain to walk, no    *)
(* cached copies, no forked parent and no depth counter: a stack of        *)
(* complete pictures of the context.  The top picture is what the caller   *)
(* reads; entering a scope copies it, writing changes the top one only,    *)
(* leaving a scope discards the pictures above the one returned to.        *)
(*                                                                         *)
(* ScopedContext implements this specification (ImplementsScopeStack).     *)
(***************************************************************************)
EXTENDS Integers, Sequences

CONSTANTS Keys, Vals, NoVal, Names

VARIABLE stack  \* a non-empty sequence of pictures

Picture == [view : [Keys -> Vals \cup {NoVal}], trail : Seq(Names)]

Top == stack[Len(stack)]

Init == Len(stack) = 1 /\ stack \in Seq(Picture)

\* A new scope sees all that the enclosing one saw; its name ends the trail.
Enter ==
  stack' \in {Append(stack, [Top EXCEPT !.trail = Append(@, name)]) : name \in Names}

\* One or more scopes are left at once.
Leave == stack' \in {SubSeq(stack, 1, level) : level \in 1 .. Len(stack) - 1}

Write ==
  stack' \in {[stack EXCEPT ![Len(stack)].view = view] :
                 view \in [Keys -> Vals \cup {NoVal}]}

Clear ==
  stack' = << [view |-> [k \in Keys |-> NoVal], trail |-> <<>>] >>

Next ==
  \/ Enter
  \/ Leave
  \/ Write
  \/ Clear

Spec == Init /\ [][Next]_stack

=============================================================================
