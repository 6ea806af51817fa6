--------------------------- MODULE MCCombinators ---------------------------
(***************************************************************************)
(* TaskContext with a history of which combinator made each future, for    *)
(* what the repository says of one order of them.  No panics here.         *)
(***************************************************************************)
EXTENDS MCTaskContext

VARIABLE made  \* history: how each future was made

varsWithHistory == <<vars, made>>

InitWithHistory == Init /\ made = [f \in Futures |-> "unborn"]

MadeBy(f, combinator) == made' = [made EXCEPT ![f] = combinator]

CreateWithHistory(w, f, g) ==
  \/ \E snap \in Inbound : Attach(w, f, g, snap) /\ MadeBy(f, "attach")
  \/ Fork(w, f, g) /\ MadeBy(f, "fork")
  \/ Capture(w, f, g) /\ MadeBy(f, "capture")
  \/ \E name \in Names : Scoped(w, f, g, name) /\ MadeBy(f, "scope")

NextWithHistory ==
  \/ \E w \in Workers :
       \/ \E f \in Futures, g \in Futures \cup {NoFuture} : CreateWithHistory(w, f, g)
       \/ (Use(w) \/ Turn(w)) /\ UNCHANGED made
  \/ CancelsOutsideScopes /\ UNCHANGED made

SpecWithHistory == InitWithHistory /\ [][NextWithHistory]_varsWithHistory

\* docs/design.md:692-698, "Run handler with restored context + named scope",
\* handler.scope(..).attach(snap): what snap has, the handler sees.
HandlerSeesSnapshot ==
  \A w \in Workers : \A i \in DOMAIN calls[w] :
    LET outer   == Caller(w, i)
        handler == calls[w][i].future
    IN  IsAdapter(outer) /\ made[outer] = "attach" /\ made[handler] = "scope" =>
          \A k \in Keys : GetValue(own[outer], k) # NoVal
                            => GetValue(own[handler], k) # NoVal

=============================================================================
