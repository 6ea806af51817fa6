--------------------------- MODULE MCTaskContext ---------------------------
(***************************************************************************)
(* TaskContext for TLC: two futures, one of them Send, or both confined to *)
(* the only thread; one snapshot has arrived from elsewhere.               *)
(***************************************************************************)
EXTENDS TaskContext, TLC

CONSTANTS w1, f1, f2, v1

MCHome == [f \in Futures |-> IF f = f1 THEN Anywhere ELSE w1]

\* On one thread, where a Send future could not do more than a confined one.
MCConfined == [f \in Futures |-> w1]

\* No future is treated specially there.
Symmetry == Permutations(Futures)

MCInbound ==
  {[kind |-> "snapshot", values |-> [k \in Keys |-> v1], chain |-> <<>>]}

\* A second thread opens no scope of its own.
MCMaxGuards == [a \in Actors |-> IF a \in {w1, f1, f2} THEN 1 ELSE 0]

\* Where anything may fail, only futures open scopes.
MCFuturesGuards == [a \in Actors |-> IF a \in Futures THEN 1 ELSE 0]

MCValidVals == [k \in Keys |-> Vals]

=============================================================================
