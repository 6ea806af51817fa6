------------------------------ MODULE Requests ------------------------------
(***************************************************************************)
(* What actors are promised of the context of a request, with no thread    *)
(* that several handlers share, no poll, no store, no bytes and no         *)
(* registry: whoever runs has a context of its own, which nobody else      *)
(* touches, and a message takes a copy of it along.  Of each value there   *)
(* is only who wrote it.                                                   *)
(*                                                                         *)
(* A handler that was given no context runs in that of a thread: from then *)
(* on nothing is promised of either, nor of whom they send messages to     *)
(* (they are "blended").                                                   *)
(*                                                                         *)
(* Actors implements this specification (ImplementsRequests).              *)
(***************************************************************************)
EXTENDS Integers, Sequences

CONSTANTS Keys, Names, Threads, Tasks, Outside, MaxChainLen

VARIABLES
  context,  \* the context of everybody who has one of his own
  mail,     \* the contexts on their way, and where to
  blended   \* those whose context is not their own

vars == <<context, mail, blended>>

With(f, x, v) == [y \in DOMAIN f \cup {x} |-> IF y = x THEN v ELSE f[y]]

Without(f, x) == [y \in DOMAIN f \ {x} |-> f[y]]

Blank == [view |-> [k \in {} |-> Outside], trail |-> <<>>]

\* Contexts that nobody here has written to.
Imported(n) ==
  [view : UNION {[set -> {Outside}] : set \in SUBSET Keys}, trail : Seq(Names), to : {n}]

Init ==
  /\ context = [w \in Threads |-> Blank]
  /\ mail = [t \in {} |-> Blank]
  /\ blended = {}

Fresh(t) == t \in Tasks /\ t \notin DOMAIN context \cup DOMAIN mail \cup blended

Write(c, k) ==
  /\ c \in DOMAIN context
  /\ context' = [context EXCEPT ![c].view = With(@, k, c)]
  /\ UNCHANGED <<mail, blended>>

\* A message takes along the context of its sender, if that has one.
Send(c, t, n) ==
  /\ Fresh(t)
  /\ c \in DOMAIN context
  /\ mail' = With(mail, t, [view |-> context[c].view, trail |-> context[c].trail, to |-> n])
  /\ UNCHANGED <<context, blended>>

SendBlended(c, t) ==
  /\ Fresh(t)
  /\ c \in blended
  /\ blended' = blended \cup {t}
  /\ UNCHANGED <<context, mail>>

Arrive(t, n) ==
  /\ Fresh(t)
  /\ t \in DOMAIN mail' /\ mail'[t] \in Imported(n)
  /\ mail' = With(mail, t, mail'[t])
  /\ UNCHANGED <<context, blended>>

Newest(trail) ==
  IF MaxChainLen = 0 \/ Len(trail) <= MaxChainLen THEN trail
  ELSE SubSeq(trail, Len(trail) - MaxChainLen + 1, Len(trail))

\* The handler starts with the context of its message: some of the values, all of
\* the trail that the limit leaves, and the hop at its end.
Receive(t) ==
  /\ t \in DOMAIN mail
  /\ \E kept \in SUBSET DOMAIN mail[t].view :
       context' = With(context, t,
         [view  |-> [k \in kept |-> mail[t].view[k]],
          trail |-> Newest(Append(mail[t].trail, mail[t].to))])
  /\ mail' = Without(mail, t)
  /\ UNCHANGED blended

\* It starts with none, or not at all.
Lose(t) ==
  /\ t \in DOMAIN mail
  /\ mail' = Without(mail, t)
  /\ UNCHANGED <<context, blended>>

Blend(w, t) ==
  /\ w \in Threads /\ t \in Tasks \ (DOMAIN context \cup DOMAIN mail)
  /\ blended' = blended \cup {w, t}
  /\ context' = Without(context, w)
  /\ UNCHANGED mail

Finish(t) ==
  /\ t \in Tasks \cap DOMAIN context
  /\ context' = Without(context, t)
  /\ UNCHANGED <<mail, blended>>

Next ==
  \/ \E c \in Threads \cup Tasks :
       \/ \E k \in Keys : Write(c, k)
       \/ \E t \in Tasks, n \in Names : Send(c, t, n)
       \/ \E t \in Tasks : SendBlended(c, t)
  \/ \E t \in Tasks :
       \/ \E n \in Names : Arrive(t, n)
       \/ Receive(t)
       \/ Lose(t)
       \/ Finish(t)
       \/ \E w \in Threads : Blend(w, t)

Spec == Init /\ [][Next]_vars

=============================================================================
