------------------------- MODULE TaskContext_proofs -------------------------
(***************************************************************************)
(* Who holds which context while threads poll futures, for any number of   *)
(* both.  Code that has met no failure itself finds its own context,       *)
(* whatever panics or is dropped elsewhere; what the stores are made of    *)
(* plays no part in that.  Without failures everybody does.  With them,    *)
(* contexts mix and get lost, but each is a store the operations can make. *)
(***************************************************************************)
EXTENDS TaskContext, ContextStore_proofs

-----------------------------------------------------------------------------
(* The inductive invariant *)

SomeSeq(s) == \E S : s \in Seq(S)

Shape ==
  /\ DOMAIN cell = Workers /\ DOMAIN calls = Workers
  /\ DOMAIN phase = Futures /\ DOMAIN held = Futures /\ DOMAIN own = Actors
  /\ inner \in [Futures -> Futures \cup {NoFuture}]
  /\ \A w \in Workers : SomeSeq(calls[w])

\* The futures being polled, each by one poll of one thread.
PolledOnce ==
  /\ \A w \in Workers : \A i \in 1 .. Len(calls[w]) :
       /\ calls[w][i].future \in Futures
       /\ phase[calls[w][i].future] \in {"running", "returning"}
  /\ \A w, x \in Workers :
       \A i \in 1 .. Len(calls[w]), j \in 1 .. Len(calls[x]) :
         calls[w][i].future = calls[x][j].future => w = x /\ i = j

\* A future that is adapted is polled by its adapter only.
AdaptersPoll ==
  /\ \A a, b \in Futures : inner[a] = inner[b] /\ inner[a] # NoFuture => a = b
  /\ \A w \in Workers : \A i \in 1 .. Len(calls[w]) : \A a \in Futures :
       inner[a] = calls[w][i].future
         => i > 1 /\ calls[w][i - 1].future = a

\* The context that the i-th code on thread w will find, or has.
Context(w, i) == IF i = Len(calls[w]) + 1 THEN cell[w] ELSE calls[w][i].prev

OwnContexts ==
  /\ \A w \in Workers : \A i \in 1 .. Len(calls[w]) + 1 :
       Caller(w, i) \notin disturbed => Context(w, i) = own[Caller(w, i)]
  /\ \A f \in Futures :
       phase[f] = "idle" /\ f \notin disturbed => held[f] = own[f]

\* Who is polled by whom, whatever panics and wherever a future is dropped.
Polling == Shape /\ PolledOnce /\ AdaptersPoll

IInv == Polling /\ OwnContexts

-----------------------------------------------------------------------------
(* Stacks of polls *)

\* A poll is pushed.
LEMMA AppendedCall ==
  ASSUME NEW s, SomeSeq(s), NEW e
  PROVE  /\ SomeSeq(Append(s, e))
         /\ Len(s) \in Nat /\ Len(Append(s, e)) = Len(s) + 1
         /\ \A i \in 1 .. Len(s) : Append(s, e)[i] = s[i]
         /\ Append(s, e)[Len(s) + 1] = e
<1>1. PICK S : s \in Seq(S)
  BY DEF SomeSeq
<1>2. s \in Seq(S \cup {e}) /\ e \in S \cup {e}
  <2>1. Len(s) \in Nat /\ s \in [1 .. Len(s) -> S]
    BY <1>1
  <2>2. s \in [1 .. Len(s) -> S \cup {e}]
    BY <2>1
  <2> QED BY <2>1, <2>2, SeqDef
<1>3. Append(s, e) \in Seq(S \cup {e})
  BY <1>2
<1> QED BY <1>2, <1>3 DEF SomeSeq

\* A poll returns.
LEMMA FrontCall ==
  ASSUME NEW s, SomeSeq(s), s # <<>>
  PROVE  /\ SomeSeq(Front(s))
         /\ Len(s) \in Nat /\ Len(s) >= 1 /\ Len(Front(s)) = Len(s) - 1
         /\ \A i \in 1 .. Len(s) - 1 : Front(s)[i] = s[i]
         /\ Last(s) = s[Len(s)]
<1>1. PICK S : s \in Seq(S)
  BY DEF SomeSeq
<1>2. Len(s) \in Nat /\ Len(s) >= 1
  BY <1>1, EmptySeq
<1>3. \A i \in 1 .. Len(s) - 1 : s[i] \in S
  BY <1>1, <1>2
<1>4. 1 \in Int /\ Len(s) - 1 \in Int
  BY <1>2
<1>5. /\ SubSeq(s, 1, Len(s) - 1) \in Seq(S)
      /\ Len(SubSeq(s, 1, Len(s) - 1))
           = IF 1 <= Len(s) - 1 THEN Len(s) - 1 - 1 + 1 ELSE 0
      /\ \A i \in 1 .. Len(s) - 1 - 1 + 1 :
           SubSeq(s, 1, Len(s) - 1)[i] = s[1 + i - 1]
  BY <1>3, <1>4, SubSeqProperties
<1>6. Front(s) = SubSeq(s, 1, Len(s) - 1) /\ Last(s) = s[Len(s)]
  BY DEF Front, Last
<1>7. Len(Front(s)) = Len(s) - 1
  <2> DEFINE m == Len(s) - 1
  <2>1. Len(SubSeq(s, 1, m)) = IF 1 <= m THEN m - 1 + 1 ELSE 0
    BY <1>5
  <2>2. m \in Nat
    BY <1>2
  <2>3. Len(Front(s)) = Len(SubSeq(s, 1, m))
    BY <1>6
  <2> HIDE DEF m
  <2>4. Len(SubSeq(s, 1, m)) = m
    BY <2>1, <2>2
  <2> QED BY <2>3, <2>4 DEF m
<1>8. \A i \in 1 .. Len(s) - 1 : Front(s)[i] = s[i]
  <2> TAKE i \in 1 .. Len(s) - 1
  <2>1. i \in 1 .. Len(s) - 1 - 1 + 1 /\ 1 + i - 1 = i
    BY <1>2
  <2> QED BY <1>5, <1>6, <2>1
<1>9. SomeSeq(Front(s))
  BY <1>5, <1>6 DEF SomeSeq
<1> QED BY <1>2, <1>6, <1>7, <1>8, <1>9

\* No two pieces of code under way are the same.
LEMMA CallersDiffer ==
  ASSUME Shape, PolledOnce, NEW w \in Workers, NEW x \in Workers,
         NEW i \in 1 .. Len(calls[w]) + 1, NEW j \in 1 .. Len(calls[x]) + 1,
         Caller(w, i) = Caller(x, j)
  PROVE  w = x /\ i = j
<1>1. Len(calls[w]) \in Nat /\ Len(calls[x]) \in Nat
  BY AppendedCall DEF Shape
<1>2. Workers \cap Futures = {}
  BY TaskContextAssumption
<1>3. i # 1 => i - 1 \in 1 .. Len(calls[w])
  BY <1>1
<1>4. j # 1 => j - 1 \in 1 .. Len(calls[x])
  BY <1>1
<1>5. CASE i = 1 /\ j = 1
  BY <1>5 DEF Caller
<1>6. CASE i = 1 /\ j # 1
  <2>1. calls[x][j - 1].future \in Futures
    BY <1>4, <1>6 DEF PolledOnce
  <2> QED BY <1>2, <1>6, <2>1 DEF Caller
<1>7. CASE i # 1 /\ j = 1
  <2>1. calls[w][i - 1].future \in Futures
    BY <1>3, <1>7 DEF PolledOnce
  <2> QED BY <1>2, <1>7, <2>1 DEF Caller
<1>8. CASE i # 1 /\ j # 1
  <2>1. calls[w][i - 1].future = calls[x][j - 1].future
    BY <1>8 DEF Caller
  <2>2. w = x /\ i - 1 = j - 1
    BY <1>3, <1>4, <1>8, <2>1 DEF PolledOnce
  <2> QED BY <1>1, <2>2
<1> QED BY <1>5, <1>6, <1>7, <1>8

\* Code under way belongs to a thread, or to a future that is being polled.
LEMMA CallerKind ==
  ASSUME Shape, PolledOnce, NEW w \in Workers,
         NEW i \in 1 .. Len(calls[w]) + 1
  PROVE  /\ Caller(w, i) \in Actors
         /\ Caller(w, i) \in Futures =>
              phase[Caller(w, i)] \in {"running", "returning"}
<1>1. Len(calls[w]) \in Nat
  BY AppendedCall DEF Shape
<1>2. i # 1 => i - 1 \in 1 .. Len(calls[w])
  BY <1>1
<1>3. i = 1 => Caller(w, i) = w
  BY DEF Caller
<1>4. i # 1 => Caller(w, i) = calls[w][i - 1].future
  BY DEF Caller
<1>5. Workers \cap Futures = {}
  BY TaskContextAssumption
<1> QED BY <1>2, <1>3, <1>4, <1>5 DEF Actors, PolledOnce

\* Nobody is running at first, and every thread has its own store.
LEMMA InitIInv == Init => IInv
<1> SUFFICES ASSUME Init PROVE IInv
  OBVIOUS
<1>1. \A w \in Workers : calls[w] = <<>> /\ Len(calls[w]) = 0
  BY DEF Init
<1>2. Shape
  <2>1. SomeSeq(<<>>)
    BY DEF SomeSeq
  <2> QED BY <1>1, <2>1 DEF Init, Shape
<1>3. PolledOnce
  BY <1>1 DEF PolledOnce
<1>4. AdaptersPoll
  BY <1>1 DEF Init, AdaptersPoll
<1>5. OwnContexts
  <2>1. \A w \in Workers : \A i \in 1 .. Len(calls[w]) + 1 : i = 1
    BY <1>1
  <2>2. \A w \in Workers : Context(w, 1) = own[Caller(w, 1)]
    BY <1>1 DEF Init, Context, Caller, Actors
  <2>3. \A f \in Futures : phase[f] # "idle"
    BY DEF Init
  <2> QED BY <2>1, <2>2, <2>3 DEF OwnContexts
<1> QED BY <1>2, <1>3, <1>4, <1>5 DEF IInv, Polling

-----------------------------------------------------------------------------
(* The code that runs uses the context *)

\* As long as nobody is polled, returns, is made or is dropped.
LEMMA StayPolling ==
  ASSUME Polling, UNCHANGED <<calls, phase, inner>>,
         DOMAIN cell' = Workers, DOMAIN held' = Futures, DOMAIN own' = Actors
  PROVE  Polling'
<1>1. Shape /\ PolledOnce /\ AdaptersPoll
  BY DEF Polling
<1>2. calls' = calls /\ phase' = phase /\ inner' = inner
  OBVIOUS
<1>3. Shape'
  BY <1>1, <1>2 DEF Shape
<1>4. PolledOnce'
  BY <1>1, <1>2 DEF PolledOnce
<1>5. AdaptersPoll'
  BY <1>1, <1>2 DEF AdaptersPoll
<1> QED BY <1>3, <1>4, <1>5 DEF Polling

\* A change made to the cell and to the context of the running code, alike if
\* that code is undisturbed, keeps every other context where it is.
LEMMA ChangeIInv ==
  ASSUME IInv, NEW w \in Workers, NEW s, NEW m, Change(w, s, m),
         Running(w) \notin disturbed => s = m
  PROVE  IInv'
<1> DEFINE r == Running(w)
           n == Len(calls[w])
<1>1. Shape /\ PolledOnce /\ n \in Nat
  BY AppendedCall DEF IInv, Polling, Shape
<1>2. n + 1 \in 1 .. Len(calls[w]) + 1 /\ r = Caller(w, n + 1)
  BY <1>1 DEF Running
<1>3. r \in Actors /\ (r \in Futures => phase[r] # "idle")
  BY <1>1, <1>2, CallerKind
<1>4. /\ cell' = [cell EXCEPT ![w] = s] /\ own' = [own EXCEPT ![r] = m]
      /\ UNCHANGED <<calls, phase, held, inner, disturbed>>
      /\ r \notin disturbed => s = m
  BY DEF Change
<1> HIDE DEF r
<1>5. Shape'
  BY <1>1, <1>4 DEF Shape
<1>6. PolledOnce' /\ AdaptersPoll'
  BY <1>4, <1>5, StayPolling DEF IInv, Polling, Shape
<1>7. OwnContexts'
  <2>1. cell'[w] = s /\ own'[r] = m
    BY <1>1, <1>3, <1>4 DEF Shape
  <2>2. \A x \in Workers : x # w => cell'[x] = cell[x]
    BY <1>1, <1>4 DEF Shape
  <2>3. \A a \in Actors : a # r => own'[a] = own[a]
    BY <1>1, <1>4 DEF Shape
  <2>4. ASSUME NEW x \in Workers, NEW i \in 1 .. Len(calls[x]) + 1,
               Caller(x, i) \notin disturbed
        PROVE  Context(x, i)' = own'[Caller(x, i)]
    <3>1. Len(calls[x])' = Len(calls[x])
      BY <1>4
    <3>2. CASE Caller(x, i) = r
      <4>1. x = w /\ i = n + 1
        BY <1>1, <1>2, <3>2, CallersDiffer
      <4>2. Context(x, i)' = s
        BY <1>4, <2>1, <4>1 DEF Context
      <4> QED BY <1>4, <2>1, <2>4, <3>2, <4>2
    <3>3. CASE Caller(x, i) # r
      <4>1. Caller(x, i) \in Actors
        BY <1>1, CallerKind
      <4>2. own'[Caller(x, i)] = own[Caller(x, i)]
        BY <2>3, <3>3, <4>1
      <4>3. x = w => i # n + 1
        BY <1>2, <3>3
      <4>4. Context(x, i)' = Context(x, i)
        BY <1>4, <2>2, <4>3 DEF Context
      <4> QED BY <2>4, <4>2, <4>4 DEF IInv, OwnContexts
    <3> QED BY <3>2, <3>3
  <2>5. ASSUME NEW f \in Futures, phase'[f] = "idle", f \notin disturbed
        PROVE  held'[f] = own'[f]
    <3>1. f # r /\ f \in Actors /\ phase[f] = "idle"
      BY <1>3, <1>4, <2>5 DEF Actors
    <3> QED BY <1>4, <2>3, <2>5, <3>1 DEF IInv, OwnContexts
  <2>6. \A x \in Workers : /\ Len(calls[x])' = Len(calls[x])
                           /\ \A i \in 1 .. Len(calls[x]) + 1 :
                                Caller(x, i)' = Caller(x, i)
    BY <1>4 DEF Caller
  <2> QED BY <1>4, <2>4, <2>5, <2>6 DEF OwnContexts
<1> QED BY <1>5, <1>6, <1>7 DEF IInv, Polling

\* What the running code finds is its own context, unless it is disturbed.
LEMMA RunningContext ==
  ASSUME Polling, OwnContexts, NEW w \in Workers
  PROVE  Running(w) \notin disturbed => cell[w] = own[Running(w)]
<1>1. Len(calls[w]) \in Nat
  BY AppendedCall DEF Polling, Shape
<1>2. Len(calls[w]) + 1 \in 1 .. Len(calls[w]) + 1
  BY <1>1
<1> QED BY <1>2 DEF OwnContexts, Context, Running

\* set_context_variable and the scopes of the running code.
LEMMA UseIInv ==
  ASSUME IInv, NEW w \in Workers, Use(w)
  PROVE  IInv'
<1> DEFINE a == Running(w)
           c == cell[w]
           o == own[a]
<1>1. a \notin disturbed => c = o
  BY RunningContext DEF IInv
<1>2. ASSUME NEW k \in Keys, NEW v \in Vals, SetVariable(w, k, v)
      PROVE  IInv'
  <2>1. Change(w, Written(c, k, v), Written(o, k, v))
    BY <1>2 DEF SetVariable
  <2>2. a \notin disturbed => Written(c, k, v) = Written(o, k, v)
    BY <1>1
  <2> QED BY <2>1, <2>2, ChangeIInv
<1>3. ASSUME NEW name \in Names, EnterScope(w, name)
      PROVE  IInv'
  <2>1. Change(w, PushScope(c, name, CachedKeys), PushScope(o, name, CachedKeys))
    BY <1>3 DEF EnterScope
  <2>2. a \notin disturbed =>
          PushScope(c, name, CachedKeys) = PushScope(o, name, CachedKeys)
    BY <1>1
  <2> QED BY <2>1, <2>2, ChangeIInv
<1>4. ASSUME LeaveScope(w)
      PROVE  IInv'
  <2> DEFINE e == Last(guards[a])
  <2>1. Change(w, Popped(c, e), Popped(o, e))
    BY <1>4 DEF LeaveScope
  <2>2. a \notin disturbed => Popped(c, e) = Popped(o, e)
    BY <1>1
  <2> QED BY <2>1, <2>2, ChangeIInv
<1> QED BY <1>2, <1>3, <1>4 DEF Use

-----------------------------------------------------------------------------
(* The life of a future *)

\* A new future, whatever store it is given, is nobody else's.
LEMMA WithKeeps ==
  ASSUME Polling, NEW w \in Workers, NEW f \in Futures,
         NEW g \in Futures \cup {NoFuture}, NEW s, With(w, f, g, s)
  PROVE  Polling' /\ (OwnContexts => OwnContexts')
<1>1. Shape /\ PolledOnce
  BY DEF Polling
<1>2. phase[f] = "unborn" /\ f \in Actors /\ NoFuture \notin Futures
  BY TaskContextAssumption DEF With, Actors
<1>3. g # NoFuture => g \in Futures /\ phase[g] = "idle" /\ ~Adapted(g)
  BY DEF With
<1>4. /\ phase' = [phase EXCEPT ![f] = "idle"]
      /\ held' = [held EXCEPT ![f] = s] /\ own' = [own EXCEPT ![f] = s]
      /\ inner' = [inner EXCEPT ![f] = g]
      /\ UNCHANGED <<cell, calls, disturbed>>
  BY DEF With
<1>5. /\ phase'[f] = "idle" /\ held'[f] = s /\ own'[f] = s /\ inner'[f] = g
      /\ \A h \in Futures : h # f => /\ phase'[h] = phase[h]
                                     /\ held'[h] = held[h]
                                     /\ inner'[h] = inner[h]
      /\ \A a \in Actors : a # f => own'[a] = own[a]
  BY <1>1, <1>2, <1>4 DEF Shape
<1>6. Shape'
  BY <1>1, <1>4 DEF Shape
<1>7. \A x \in Workers : \A i \in 1 .. Len(calls[x]) :
        calls[x][i].future # f /\ calls[x][i].future # g
  BY <1>1, <1>2, <1>3 DEF PolledOnce
<1>8. PolledOnce'
  BY <1>1, <1>4, <1>5, <1>7 DEF PolledOnce
<1>9. AdaptersPoll'
  <2>1. ASSUME NEW a \in Futures, NEW b \in Futures,
               inner'[a] = inner'[b], inner'[a] # NoFuture
        PROVE  a = b
    BY <1>3, <1>5, <2>1 DEF Polling, AdaptersPoll, Adapted
  <2>2. ASSUME NEW x \in Workers, NEW i \in 1 .. Len(calls[x]), NEW a \in Futures,
               inner'[a] = calls[x][i].future
        PROVE  i > 1 /\ calls[x][i - 1].future = a
    <3>1. a # f
      BY <1>5, <1>7, <2>2
    <3> QED BY <1>5, <2>2, <3>1 DEF Polling, AdaptersPoll
  <2> QED BY <1>4, <2>1, <2>2 DEF AdaptersPoll
<1>10. ASSUME OwnContexts PROVE OwnContexts'
  <2>1. ASSUME NEW x \in Workers, NEW i \in 1 .. Len(calls[x]) + 1,
               Caller(x, i)' \notin disturbed
        PROVE  Context(x, i)' = own'[Caller(x, i)']
    <3>1. Caller(x, i)' = Caller(x, i) /\ Context(x, i)' = Context(x, i)
      BY <1>4 DEF Caller, Context
    <3>2. Caller(x, i) \in Actors /\ Caller(x, i) # f
      BY <1>1, <1>2, CallerKind
    <3> QED BY <1>5, <1>10, <2>1, <3>1, <3>2 DEF OwnContexts
  <2>2. ASSUME NEW h \in Futures, phase'[h] = "idle", h \notin disturbed
        PROVE  held'[h] = own'[h]
    <3>1. h \in Actors
      BY DEF Actors
    <3> QED BY <1>5, <1>10, <2>2, <3>1 DEF OwnContexts
  <2>3. \A x \in Workers : Len(calls[x])' = Len(calls[x])
    BY <1>4
  <2> QED BY <1>4, <2>1, <2>2, <2>3 DEF OwnContexts
<1> QED BY <1>6, <1>8, <1>9, <1>10 DEF Polling

\* A poll puts the future's store into the cell, where its code will find it,
\* and what the polling code had into "prev", where it will find it again.
LEMMA PollKeeps ==
  ASSUME Polling, NEW w \in Workers, NEW f \in Futures, PollFuture(w, f)
  PROVE  Polling' /\ (OwnContexts => OwnContexts')
<1> DEFINE n == Len(calls[w])
           a == Running(w)
           e == [future |-> f, prev |-> cell[w]]
<1>1. Shape /\ PolledOnce /\ AdaptersPoll
  BY DEF Polling
<1>2. n \in Nat /\ SomeSeq(calls[w])
  BY <1>1, AppendedCall DEF Shape
<1>3. /\ phase[f] = "idle"
      /\ IF IsAdapter(a) THEN inner[a] = f ELSE ~Adapted(f)
      /\ calls' = [calls EXCEPT ![w] = Append(@, e)]
      /\ cell' = [cell EXCEPT ![w] = held[f]]
      /\ held' = [held EXCEPT ![f] = NoStore]
      /\ phase' = [phase EXCEPT ![f] = "running"]
      /\ UNCHANGED <<inner, guards, own, disturbed>>
  BY DEF PollFuture
<1>4. /\ calls'[w] = Append(calls[w], e) /\ SomeSeq(calls'[w])
      /\ Len(calls'[w]) = n + 1
      /\ \A i \in 1 .. n : calls'[w][i] = calls[w][i]
      /\ calls'[w][n + 1] = e
      /\ \A x \in Workers : x # w => calls'[x] = calls[x]
  BY <1>1, <1>2, <1>3, AppendedCall DEF Shape
<1>5. /\ cell'[w] = held[f]
      /\ \A x \in Workers : x # w => cell'[x] = cell[x]
      /\ phase'[f] = "running"
      /\ \A h \in Futures : h # f => phase'[h] = phase[h] /\ held'[h] = held[h]
  BY <1>1, <1>3 DEF Shape
<1>6. e.future = f /\ e.prev = cell[w]
  OBVIOUS
<1>7. a = Caller(w, n + 1) /\ n + 1 \in 1 .. n + 1
  BY <1>2 DEF Running
<1>8. \A x \in Workers : \A i \in 1 .. Len(calls[x]) : calls[x][i].future # f
  BY <1>1, <1>3 DEF PolledOnce
<1> HIDE DEF n, a, e
<1>9. \A x \in Workers : \A i \in 1 .. Len(calls'[x]) :
        \/ i \in 1 .. Len(calls[x]) /\ calls'[x][i] = calls[x][i]
        \/ x = w /\ i = n + 1 /\ calls'[x][i] = e
  BY <1>2, <1>4 DEF n
<1>10. Shape'
  <2>1. DOMAIN cell' = Workers /\ DOMAIN calls' = Workers
    BY <1>1, <1>3 DEF Shape
  <2>2. DOMAIN phase' = Futures /\ DOMAIN held' = Futures
    BY <1>1, <1>3 DEF Shape
  <2>3. \A x \in Workers : SomeSeq(calls'[x])
    BY <1>1, <1>4 DEF Shape
  <2> QED BY <1>1, <1>3, <2>1, <2>2, <2>3 DEF Shape
<1>11. PolledOnce'
  <2>1. ASSUME NEW x \in Workers, NEW i \in 1 .. Len(calls'[x])
        PROVE  /\ calls'[x][i].future \in Futures
               /\ phase'[calls'[x][i].future] \in {"running", "returning"}
    <3>1. CASE i \in 1 .. Len(calls[x]) /\ calls'[x][i] = calls[x][i]
      <4>1. /\ calls[x][i].future \in Futures /\ calls[x][i].future # f
            /\ phase[calls[x][i].future] \in {"running", "returning"}
        BY <1>1, <1>8, <3>1 DEF PolledOnce
      <4> QED BY <1>5, <3>1, <4>1
    <3>2. CASE calls'[x][i] = e
      BY <1>5, <1>6, <3>2
    <3> QED BY <1>9, <3>1, <3>2
  <2>2. ASSUME NEW x \in Workers, NEW y \in Workers,
               NEW i \in 1 .. Len(calls'[x]), NEW j \in 1 .. Len(calls'[y]),
               calls'[x][i].future = calls'[y][j].future
        PROVE  x = y /\ i = j
    <3>1. CASE /\ i \in 1 .. Len(calls[x]) /\ calls'[x][i] = calls[x][i]
               /\ j \in 1 .. Len(calls[y]) /\ calls'[y][j] = calls[y][j]
      BY <1>1, <2>2, <3>1 DEF PolledOnce
    <3>2. CASE /\ i \in 1 .. Len(calls[x]) /\ calls'[x][i] = calls[x][i]
               /\ calls'[y][j] = e
      BY <1>6, <1>8, <2>2, <3>2
    <3>3. CASE /\ j \in 1 .. Len(calls[y]) /\ calls'[y][j] = calls[y][j]
               /\ calls'[x][i] = e
      BY <1>6, <1>8, <2>2, <3>3
    <3> QED BY <1>9, <3>1, <3>2, <3>3
  <2> QED BY <2>1, <2>2 DEF PolledOnce
<1>12. AdaptersPoll'
  <2>1. ASSUME NEW x \in Workers, NEW i \in 1 .. Len(calls'[x]),
               NEW b \in Futures, inner[b] = calls'[x][i].future
        PROVE  i > 1 /\ calls'[x][i - 1].future = b
    <3>1. CASE i \in 1 .. Len(calls[x]) /\ calls'[x][i] = calls[x][i]
      <4>1. i > 1 /\ calls[x][i - 1].future = b
        BY <1>1, <2>1, <3>1 DEF AdaptersPoll
      <4>2. i - 1 \in 1 .. Len(calls[x])
        BY <1>1, <3>1, <4>1, AppendedCall DEF Shape
      <4>3. calls'[x][i - 1] = calls[x][i - 1]
        BY <1>4, <4>2 DEF n
      <4> QED BY <4>1, <4>3
    <3>2. CASE x = w /\ i = n + 1 /\ calls'[x][i] = e
      <4>1. inner[b] = f /\ f # NoFuture /\ Adapted(f)
        BY <1>6, <2>1, <3>2, TaskContextAssumption DEF Adapted, Actors
      <4>2. IsAdapter(a) /\ inner[a] = f
        BY <1>3, <4>1
      <4>3. a \in Futures /\ a = b
        BY <1>1, <4>1, <4>2 DEF IsAdapter, AdaptersPoll
      <4>4. n + 1 # 1
        BY <1>7, <4>3, TaskContextAssumption DEF Caller
      <4>5. n \in 1 .. n /\ n + 1 - 1 = n /\ n + 1 > 1
        BY <1>2, <4>4 DEF n
      <4>6. calls[w][n].future = b
        BY <1>7, <4>3, <4>4, <4>5 DEF Caller
      <4> QED BY <1>4, <3>2, <4>5, <4>6
    <3> QED BY <1>9, <3>1, <3>2
  <2> QED BY <1>1, <1>3, <2>1 DEF AdaptersPoll
<1>13. ASSUME OwnContexts PROVE OwnContexts'
  <2>1. ASSUME NEW x \in Workers, NEW i \in 1 .. Len(calls'[x]) + 1,
               Caller(x, i)' \notin disturbed
        PROVE  Context(x, i)' = own[Caller(x, i)']
    <3>1. CASE x # w
      <4>1. Caller(x, i)' = Caller(x, i) /\ Context(x, i)' = Context(x, i)
        BY <1>4, <1>5, <3>1 DEF Caller, Context
      <4> QED BY <1>1, <1>13, <1>4, <2>1, <3>1, <4>1 DEF OwnContexts
    <3>2. CASE x = w /\ i = n + 2
      <4>1. Len(calls'[w]) + 1 = n + 2 /\ n + 2 # 1 /\ n + 2 - 1 = n + 1
        BY <1>2, <1>4 DEF n
      <4>2. Context(x, i)' = held[f]
        BY <1>5, <3>2, <4>1 DEF Context
      <4>3. Caller(x, i)' = f
        BY <1>4, <1>6, <3>2, <4>1 DEF Caller
      <4> QED BY <1>1, <1>13, <1>3, <2>1, <4>2, <4>3 DEF OwnContexts
    <3>3. CASE x = w /\ i = n + 1
      <4>1. Len(calls'[w]) + 1 # n + 1
        BY <1>2, <1>4 DEF n
      <4>2. Context(x, i)' = cell[w]
        BY <1>4, <1>6, <3>3, <4>1 DEF Context
      <4>3. Caller(x, i)' = Caller(w, n + 1)
        <5>1. n + 1 # 1 => n \in 1 .. n /\ n + 1 - 1 = n
          BY <1>2 DEF n
        <5>2. CASE n + 1 = 1
          BY <3>3, <5>2 DEF Caller
        <5>3. CASE n + 1 # 1
          <6>1. calls'[w][n] = calls[w][n]
            BY <1>4, <5>1, <5>3
          <6>2. Caller(x, i)' = calls'[w][n].future
            BY <3>3, <5>1, <5>3 DEF Caller
          <6>3. Caller(w, n + 1) = calls[w][n].future
            BY <5>1, <5>3 DEF Caller
          <6> QED BY <6>1, <6>2, <6>3
        <5> QED BY <5>2, <5>3
      <4>4. cell[w] = own[a]
        BY <1>7, <1>13, <2>1, <4>3, RunningContext DEF a
      <4> QED BY <1>7, <4>2, <4>3, <4>4
    <3>4. CASE x = w /\ i \in 1 .. n
      <4>1. /\ i # n + 1 /\ i # n + 2 /\ i \in 1 .. n + 1
            /\ i # 1 => i - 1 \in 1 .. n
        BY <1>2, <3>4 DEF n
      <4>2. Len(calls'[w]) + 1 = n + 2
        BY <1>2, <1>4 DEF n
      <4>3. Caller(x, i)' = Caller(x, i)
        BY <1>4, <3>4, <4>1 DEF Caller
      <4>4. Context(x, i)' = Context(x, i)
        BY <1>4, <3>4, <4>1, <4>2 DEF Context, n
      <4> QED BY <1>1, <1>13, <2>1, <3>4, <4>1, <4>3, <4>4 DEF OwnContexts, n
    <3>5. x = w => i = n + 2 \/ i = n + 1 \/ i \in 1 .. n
      BY <1>2, <1>4 DEF n
    <3> QED BY <3>1, <3>2, <3>3, <3>4, <3>5
  <2>2. ASSUME NEW h \in Futures, phase'[h] = "idle", h \notin disturbed
        PROVE  held'[h] = own[h]
    BY <1>1, <1>13, <1>5, <2>2 DEF OwnContexts
  <2> QED BY <1>3, <2>1, <2>2 DEF OwnContexts
<1> QED BY <1>10, <1>11, <1>12, <1>13 DEF Polling

\* What the code of a future has when it returns goes back into the future, and
\* the code that polled it finds what it had.
LEMMA ReturnKeeps ==
  ASSUME Polling, NEW w \in Workers, NEW done \in BOOLEAN, Return(w, done)
  PROVE  Polling' /\ (OwnContexts => OwnContexts')
<1> DEFINE n == Len(calls[w])
           f == Running(w)
           a == Caller(w, n)
<1>1. Shape /\ PolledOnce /\ AdaptersPoll
  BY DEF Polling
<1>2. /\ calls[w] # <<>>
      /\ held' = [held EXCEPT ![f] = IF done THEN NoStore ELSE cell[w]]
      /\ cell' = [cell EXCEPT ![w] = Last(calls[w]).prev]
      /\ calls' = [calls EXCEPT ![w] = Front(@)]
      /\ phase' = PhaseAfter(w, f, done)
      /\ own' = [own EXCEPT ![f] = IF done THEN NoStore ELSE @]
      /\ UNCHANGED <<inner, guards, disturbed>>
  BY DEF Return
<1>3. n \in Nat /\ n >= 1 /\ SomeSeq(calls[w])
  BY <1>1, <1>2, FrontCall DEF Shape
<1>4. /\ SomeSeq(calls'[w]) /\ Len(calls'[w]) = n - 1
      /\ \A i \in 1 .. n - 1 : calls'[w][i] = calls[w][i]
      /\ Last(calls[w]) = calls[w][n]
      /\ \A x \in Workers : x # w => calls'[x] = calls[x]
  BY <1>1, <1>2, FrontCall DEF Shape
<1>5. f = Caller(w, n + 1) /\ f = calls[w][n].future /\ f \in Futures
  <2>1. n + 1 # 1 /\ n + 1 - 1 = n /\ n \in 1 .. n
    BY <1>3
  <2> QED BY <1>1, <2>1 DEF Running, Caller, PolledOnce
<1>6. f \in Actors /\ a \in Actors /\ a # f
  <2>1. n \in 1 .. n + 1 /\ n + 1 \in 1 .. n + 1 /\ n # n + 1
    BY <1>3
  <2>2. f \in Actors /\ a \in Actors
    BY <1>1, <1>5, <2>1, CallerKind
  <2>3. a # f
    BY <1>1, <1>5, <2>1, CallersDiffer
  <2> QED BY <2>2, <2>3
<1> HIDE DEF n, f
<1>7. /\ cell'[w] = calls[w][n].prev
      /\ \A x \in Workers : x # w => cell'[x] = cell[x]
      /\ ~done => held'[f] = cell[w] /\ own'[f] = own[f]
      /\ \A h \in Futures : h # f => held'[h] = held[h]
      /\ \A b \in Actors : b # f => own'[b] = own[b]
  BY <1>1, <1>2, <1>4, <1>5, <1>6 DEF Shape
<1>8. /\ phase'[f] = IF done THEN "over" ELSE "idle"
      /\ \A h \in Futures : h # f =>
           phase'[h] = phase[h] \/ (h = a /\ phase'[h] = "returning")
  BY <1>2, <1>5 DEF PhaseAfter, n
<1>9. \A x \in Workers : \A i \in 1 .. Len(calls'[x]) :
        /\ i \in 1 .. Len(calls[x]) /\ calls'[x][i] = calls[x][i]
        /\ x = w => i # n
  BY <1>3, <1>4 DEF n
<1>10. \A x \in Workers : \A i \in 1 .. Len(calls'[x]) : calls'[x][i].future # f
  <2> SUFFICES ASSUME NEW x \in Workers, NEW i \in 1 .. Len(calls'[x]),
                      calls[x][i].future = f
               PROVE  FALSE
    BY <1>9
  <2>1. i \in 1 .. Len(calls[x]) /\ n \in 1 .. Len(calls[w])
    BY <1>3, <1>9 DEF n
  <2>2. x = w /\ i = n
    BY <1>1, <1>5, <2>1 DEF PolledOnce
  <2> QED BY <1>9, <2>2
<1>11. Shape'
  <2>1. /\ DOMAIN cell' = Workers /\ DOMAIN calls' = Workers
        /\ DOMAIN held' = Futures /\ DOMAIN own' = Actors
    BY <1>1, <1>2 DEF Shape
  <2>2. DOMAIN phase' = Futures
    BY <1>2 DEF PhaseAfter
  <2>3. \A x \in Workers : SomeSeq(calls'[x])
    BY <1>1, <1>4 DEF Shape
  <2> QED BY <1>1, <1>2, <2>1, <2>2, <2>3 DEF Shape
<1>12. PolledOnce'
  <2>1. ASSUME NEW x \in Workers, NEW i \in 1 .. Len(calls'[x])
        PROVE  /\ calls'[x][i].future \in Futures
               /\ phase'[calls'[x][i].future] \in {"running", "returning"}
    <3>1. /\ calls'[x][i].future \in Futures
          /\ phase[calls'[x][i].future] \in {"running", "returning"}
      BY <1>1, <1>9 DEF PolledOnce
    <3> QED BY <1>8, <1>10, <3>1
  <2>2. ASSUME NEW x \in Workers, NEW y \in Workers,
               NEW i \in 1 .. Len(calls'[x]), NEW j \in 1 .. Len(calls'[y]),
               calls'[x][i].future = calls'[y][j].future
        PROVE  x = y /\ i = j
    <3>1. /\ i \in 1 .. Len(calls[x]) /\ calls'[x][i] = calls[x][i]
          /\ j \in 1 .. Len(calls[y]) /\ calls'[y][j] = calls[y][j]
      BY <1>9
    <3>2. calls[x][i].future = calls[y][j].future
      BY <2>2, <3>1
    <3> QED BY <1>1, <3>1, <3>2 DEF PolledOnce
  <2> QED BY <2>1, <2>2 DEF PolledOnce
<1>13. AdaptersPoll'
  <2>1. ASSUME NEW x \in Workers, NEW i \in 1 .. Len(calls'[x]),
               NEW b \in Futures, inner[b] = calls'[x][i].future
        PROVE  i > 1 /\ calls'[x][i - 1].future = b
    <3>1. i > 1 /\ calls[x][i - 1].future = b
      BY <1>1, <1>9, <2>1 DEF AdaptersPoll
    <3>2. x = w => i - 1 \in 1 .. n - 1
      BY <1>3, <1>4, <3>1
    <3> QED BY <1>4, <3>1, <3>2
  <2> QED BY <1>1, <1>2, <2>1 DEF AdaptersPoll
<1>14. ASSUME OwnContexts PROVE OwnContexts'
  <2>1. ASSUME NEW x \in Workers, NEW i \in 1 .. Len(calls'[x]) + 1,
               Caller(x, i)' \notin disturbed
        PROVE  Context(x, i)' = own'[Caller(x, i)']
    <3>1. i \in 1 .. Len(calls[x]) + 1 /\ (x = w => i # n + 1)
      BY <1>3, <1>4 DEF n
    <3>2. Caller(x, i)' = Caller(x, i)
      <4>1. i # 1 => i - 1 \in 1 .. Len(calls'[x])
        <5>1. Len(calls'[x]) \in Nat
          BY <1>11, AppendedCall DEF Shape
        <5> QED BY <5>1
      <4>2. i # 1 => calls'[x][i - 1] = calls[x][i - 1]
        BY <1>9, <4>1
      <4> QED BY <4>2 DEF Caller
    <3>3. Context(x, i)' = Context(x, i)
      <4>1. CASE x # w
        BY <1>4, <1>7, <4>1 DEF Context
      <4>2. CASE x = w /\ i = n
        <5>1. i = Len(calls'[w]) + 1 /\ i # n + 1
          BY <1>3, <1>4, <4>2
        <5> QED BY <1>7, <4>2, <5>1 DEF Context, n
      <4>3. CASE x = w /\ i # n
        <5>1. i \in 1 .. n - 1 /\ i # Len(calls'[w]) + 1 /\ i # n + 1
          BY <1>3, <1>4, <4>3
        <5> QED BY <1>4, <4>3, <5>1 DEF Context, n
      <4> QED BY <4>1, <4>2, <4>3
    <3>4. Caller(x, i) \in Actors /\ Caller(x, i) # f
      <4>1. Caller(x, i) \in Actors
        BY <1>1, <3>1, CallerKind
      <4>2. n + 1 \in 1 .. Len(calls[w]) + 1
        BY <1>3 DEF n
      <4> QED BY <1>1, <1>5, <3>1, <4>1, <4>2, CallersDiffer
    <3> QED BY <1>1, <1>14, <1>7, <2>1, <3>1, <3>2, <3>3, <3>4 DEF OwnContexts
  <2>2. ASSUME NEW h \in Futures, phase'[h] = "idle", h \notin disturbed
        PROVE  held'[h] = own'[h]
    <3>1. CASE h = f
      <4>1. ~done
        BY <1>8, <2>2, <3>1
      <4>2. cell[w] = own[f]
        BY <1>14, <2>2, <3>1, RunningContext DEF f
      <4> QED BY <1>7, <3>1, <4>1, <4>2
    <3>2. CASE h # f
      <4>1. phase[h] = "idle" /\ h \in Actors
        BY <1>8, <2>2, <3>2 DEF Actors
      <4> QED BY <1>1, <1>14, <1>7, <2>2, <3>2, <4>1 DEF OwnContexts
    <3> QED BY <3>1, <3>2
  <2> QED BY <1>2, <2>1, <2>2 DEF OwnContexts
<1> QED BY <1>11, <1>12, <1>13, <1>14 DEF Polling

\* Neither a suspended future nor the one it adapts is being polled.
LEMMA CancelPolling ==
  ASSUME Polling, NEW w \in Workers, NEW f \in Futures, Cancel(w, f)
  PROVE  /\ Polling'
         /\ \A x \in Workers : \A i \in 1 .. Len(calls[x]) + 1 :
              Caller(x, i) \notin {f, inner[f]} \ {NoFuture}
<1> DEFINE gone == {f, inner[f]} \ {NoFuture}
<1>1. Shape /\ PolledOnce /\ AdaptersPoll
  BY DEF Polling
<1>2. phase[f] = "idle" /\ UNCHANGED calls
  BY DEF Cancel
<1>3. /\ cell' = [cell EXCEPT ![w] = cell'[w]]
      /\ phase' = [h \in Futures |-> IF h \in {} THEN "idle"
                                     ELSE IF h \in gone THEN "over" ELSE phase[h]]
      /\ DOMAIN held' = Futures /\ DOMAIN own' = Actors
      /\ UNCHANGED <<calls, inner>>
  BY <1>1 DEF Cancel, Gone, Shape
<1> HIDE DEF gone
<1>4. gone \subseteq Futures /\ \A h \in gone : h = f \/ h = inner[f]
  BY <1>1 DEF gone, Shape
<1>5. \A x \in Workers : \A i \in 1 .. Len(calls[x]) : calls[x][i].future \notin gone
  <2> SUFFICES ASSUME NEW x \in Workers, NEW i \in 1 .. Len(calls[x]),
                      calls[x][i].future \in gone
               PROVE  FALSE
    OBVIOUS
  <2>1. calls[x][i].future # f
    BY <1>1, <1>2 DEF PolledOnce
  <2>2. i > 1 /\ calls[x][i - 1].future = f
    BY <1>1, <1>4, <2>1 DEF AdaptersPoll
  <2>3. i - 1 \in 1 .. Len(calls[x])
    BY <1>1, <2>2, AppendedCall DEF Shape
  <2> QED BY <1>1, <1>2, <2>2, <2>3 DEF PolledOnce
<1>6. Shape'
  BY <1>1, <1>3 DEF Shape
<1>7. PolledOnce'
  <2>1. ASSUME NEW x \in Workers, NEW i \in 1 .. Len(calls[x])
        PROVE  /\ calls[x][i].future \in Futures
               /\ phase'[calls[x][i].future] \in {"running", "returning"}
    BY <1>1, <1>3, <1>5 DEF PolledOnce
  <2> QED BY <1>1, <1>3, <2>1 DEF PolledOnce
<1>8. AdaptersPoll'
  BY <1>1, <1>3 DEF AdaptersPoll
<1>9. ASSUME NEW x \in Workers, NEW i \in 1 .. Len(calls[x]) + 1
       PROVE  Caller(x, i) \notin gone
  <2>1. i # 1 => i - 1 \in 1 .. Len(calls[x])
    <3>1. Len(calls[x]) \in Nat
      BY <1>1, AppendedCall DEF Shape
    <3> QED BY <3>1
  <2> QED BY <1>4, <1>5, <2>1, TaskContextAssumption DEF Caller
<1> QED BY <1>6, <1>7, <1>8, <1>9 DEF Polling, gone

\* Only the code that drops a future with guards may find another context.
LEMMA CancelIInv ==
  ASSUME IInv, NEW w \in Workers, NEW f \in Futures, Cancel(w, f)
  PROVE  IInv'
<1> DEFINE gone == {f, inner[f]} \ {NoFuture}
           expected == guards[f] \o (IF IsAdapter(f) THEN guards[inner[f]] ELSE <<>>)
<1>1. Shape /\ PolledOnce /\ AdaptersPoll /\ OwnContexts
  BY DEF IInv, Polling
<1>2. /\ Gone(w, gone, {}, cell[w], expected) /\ UNCHANGED calls
      /\ disturbed' = IF expected = <<>> THEN disturbed
                      ELSE disturbed \cup {Running(w)}
  BY DEF Cancel
<1>3. Polling'
      /\ \A x \in Workers : \A i \in 1 .. Len(calls[x]) + 1 : Caller(x, i) \notin gone
  BY CancelPolling DEF IInv
<1> HIDE DEF gone, expected
<1>4. /\ cell' = [cell EXCEPT ![w] = Unwound(cell[w], expected)]
      /\ phase' = [h \in Futures |-> IF h \in {} THEN "idle"
                                     ELSE IF h \in gone THEN "over" ELSE phase[h]]
      /\ held' = [h \in Futures |-> IF h \in gone THEN NoStore ELSE held[h]]
      /\ own' = [b \in Actors |-> IF b \in gone \ {} THEN NoStore ELSE own[b]]
      /\ UNCHANGED <<calls, inner>>
  BY <1>2 DEF Gone
<1>5. \A x \in Workers : x # w \/ expected = <<>> => cell'[x] = cell[x]
  BY <1>1, <1>4 DEF Shape, Unwound
<1>6. /\ disturbed \subseteq disturbed'
      /\ expected # <<>> => Running(w) \in disturbed'
  BY <1>2
<1>7. OwnContexts'
  <2>1. ASSUME NEW x \in Workers, NEW i \in 1 .. Len(calls[x]) + 1,
               Caller(x, i)' \notin disturbed'
        PROVE  Context(x, i)' = own'[Caller(x, i)']
    <3>1. Caller(x, i)' = Caller(x, i)
      BY <1>4 DEF Caller
    <3>2. x # w \/ i # Len(calls[w]) + 1 \/ expected = <<>>
      BY <1>6, <2>1, <3>1 DEF Running
    <3>3. Context(x, i)' = Context(x, i)
      BY <1>4, <1>5, <3>2 DEF Context
    <3>4. Caller(x, i) \in Actors /\ Caller(x, i) \notin gone
      BY <1>1, <1>3, CallerKind
    <3> QED BY <1>1, <1>4, <1>6, <2>1, <3>1, <3>3, <3>4 DEF OwnContexts
  <2>2. ASSUME NEW h \in Futures, phase'[h] = "idle", h \notin disturbed'
        PROVE  held'[h] = own'[h]
    <3>1. h \notin gone /\ phase[h] = "idle" /\ h \in Actors
      BY <1>4, <2>2 DEF Actors
    <3> QED BY <1>1, <1>4, <1>6, <2>2, <3>1 DEF OwnContexts
  <2> QED BY <1>4, <2>1, <2>2 DEF OwnContexts
<1> QED BY <1>3, <1>7 DEF IInv

\* A panic unwinds the polls above some point of the stack.
LEMMA PrefixCalls ==
  ASSUME NEW s, SomeSeq(s), NEW m \in 0 .. Len(s)
  PROVE  /\ SomeSeq(SubSeq(s, 1, m)) /\ Len(SubSeq(s, 1, m)) = m
         /\ \A i \in 1 .. m : SubSeq(s, 1, m)[i] = s[i]
<1>1. PICK S : s \in Seq(S)
  BY DEF SomeSeq
<1>2. Len(s) \in Nat /\ m \in Int /\ 1 \in Int /\ \A i \in 1 .. m : s[i] \in S
  BY <1>1
<1> DEFINE t == SubSeq(s, 1, m)
<1>3. /\ t \in Seq(S) /\ Len(t) = IF 1 <= m THEN m - 1 + 1 ELSE 0
      /\ \A i \in 1 .. m - 1 + 1 : t[i] = s[1 + i - 1]
  BY <1>2, SubSeqProperties
<1> HIDE DEF t
<1>4. m - 1 + 1 = m /\ \A i \in 1 .. m : 1 + i - 1 = i
  BY <1>2
<1>5. Len(t) = m /\ \A i \in 1 .. m : t[i] = s[i]
  BY <1>2, <1>3, <1>4
<1> QED BY <1>3, <1>5 DEF SomeSeq, t

\* The futures whose polls are unwound are polled nowhere else, and no adapter
\* is left below the future it polls.
LEMMA PanicPolling ==
  ASSUME Polling, NEW w \in Workers, NEW stay \in 0 .. Len(calls[w]),
         NEW inWindow \in BOOLEAN, NEW kept, Panic(w, stay, inWindow, kept)
  PROVE  Polling'
<1> DEFINE n == Len(calls[w])
           gone == {calls[w][i].future : i \in stay + 1 .. n}
<1>1. Shape /\ PolledOnce /\ AdaptersPoll /\ n \in Nat
  BY AppendedCall DEF Polling, Shape
<1>2. /\ DOMAIN cell' = Workers /\ DOMAIN held' = Futures /\ DOMAIN own' = Actors
      /\ phase' = [f \in Futures |-> IF f \in kept THEN "idle"
                                     ELSE IF f \in gone THEN "over" ELSE phase[f]]
      /\ kept \subseteq gone
      /\ calls' = [calls EXCEPT ![w] = SubSeq(@, 1, stay)]
      /\ inner' = inner
  BY <1>1 DEF Panic, Gone, Shape
<1>3. /\ SomeSeq(calls'[w]) /\ Len(calls'[w]) = stay
      /\ \A i \in 1 .. stay : calls'[w][i] = calls[w][i]
      /\ \A x \in Workers : x # w => calls'[x] = calls[x]
  BY <1>1, <1>2, PrefixCalls DEF Shape
<1>4. \A x \in Workers : \A i \in 1 .. Len(calls'[x]) :
        /\ i \in 1 .. Len(calls[x]) /\ calls'[x][i] = calls[x][i]
        /\ x = w => i \notin stay + 1 .. n
  BY <1>1, <1>3
<1>5. \A x \in Workers : \A i \in 1 .. Len(calls'[x]) : calls'[x][i].future \notin gone
  <2> SUFFICES ASSUME NEW x \in Workers, NEW i \in 1 .. Len(calls'[x]),
                      calls'[x][i].future \in gone
               PROVE  FALSE
    OBVIOUS
  <2>0. PICK j \in stay + 1 .. n : calls[x][i].future = calls[w][j].future
    BY <1>4
  <2>1. i \in 1 .. Len(calls[x]) /\ j \in 1 .. Len(calls[w])
    BY <1>1, <1>4
  <2>2. x = w /\ i = j
    BY <1>1, <2>0, <2>1 DEF PolledOnce
  <2> QED BY <1>4, <2>2
<1> HIDE DEF n, gone
<1>6. Shape'
  <2>1. DOMAIN phase' = Futures /\ DOMAIN calls' = Workers
    BY <1>1, <1>2 DEF Shape
  <2>2. \A x \in Workers : SomeSeq(calls'[x])
    BY <1>1, <1>3 DEF Shape
  <2> QED BY <1>1, <1>2, <2>1, <2>2 DEF Shape
<1>7. PolledOnce'
  <2>1. ASSUME NEW x \in Workers, NEW i \in 1 .. Len(calls'[x])
        PROVE  /\ calls'[x][i].future \in Futures
               /\ phase'[calls'[x][i].future] \in {"running", "returning"}
    <3>1. /\ calls'[x][i].future \in Futures
          /\ phase[calls'[x][i].future] \in {"running", "returning"}
      BY <1>1, <1>4 DEF PolledOnce
    <3> QED BY <1>2, <1>5, <3>1
  <2>2. ASSUME NEW x \in Workers, NEW y \in Workers,
               NEW i \in 1 .. Len(calls'[x]), NEW j \in 1 .. Len(calls'[y]),
               calls'[x][i].future = calls'[y][j].future
        PROVE  x = y /\ i = j
    <3>1. /\ i \in 1 .. Len(calls[x]) /\ calls'[x][i] = calls[x][i]
          /\ j \in 1 .. Len(calls[y]) /\ calls'[y][j] = calls[y][j]
      BY <1>4
    <3>2. calls[x][i].future = calls[y][j].future
      BY <2>2, <3>1
    <3> QED BY <1>1, <3>1, <3>2 DEF PolledOnce
  <2> QED BY <2>1, <2>2 DEF PolledOnce
<1>8. AdaptersPoll'
  <2>1. ASSUME NEW x \in Workers, NEW i \in 1 .. Len(calls'[x]),
               NEW b \in Futures, inner[b] = calls'[x][i].future
        PROVE  i > 1 /\ calls'[x][i - 1].future = b
    <3>1. i > 1 /\ calls[x][i - 1].future = b
      BY <1>1, <1>4, <2>1 DEF AdaptersPoll
    <3>2. x = w => i - 1 \in 1 .. stay
      BY <1>3, <3>1
    <3> QED BY <1>3, <3>1, <3>2
  <2> QED BY <1>1, <1>2, <2>1 DEF AdaptersPoll
<1> QED BY <1>6, <1>7, <1>8 DEF Polling

\* Only the code that catches the panic, and the futures it keeps, may find
\* another context, or none.
LEMMA PanicIInv ==
  ASSUME IInv, NEW w \in Workers, NEW stay \in 0 .. Len(calls[w]),
         NEW inWindow \in BOOLEAN, NEW kept, Panic(w, stay, inWindow, kept)
  PROVE  IInv'
<1> DEFINE n == Len(calls[w])
           gone == {calls[w][i].future : i \in stay + 1 .. n}
<1>1. Shape /\ PolledOnce /\ OwnContexts /\ n \in Nat /\ stay \in Nat /\ stay <= n
  BY AppendedCall DEF IInv, Polling, Shape
<1>2. /\ cell' = [cell EXCEPT ![w] = cell'[w]]
      /\ phase' = [f \in Futures |-> IF f \in kept THEN "idle"
                                     ELSE IF f \in gone THEN "over" ELSE phase[f]]
      /\ held' = [f \in Futures |-> IF f \in gone THEN NoStore ELSE held[f]]
      /\ own' = [a \in Actors |-> IF a \in gone \ kept THEN NoStore ELSE own[a]]
      /\ calls' = [calls EXCEPT ![w] = SubSeq(@, 1, stay)]
      /\ disturbed' = disturbed \cup {Caller(w, stay + 1)} \cup kept
  BY <1>1 DEF Panic, Gone, Shape
<1>3. /\ Len(calls'[w]) = stay
      /\ \A i \in 1 .. stay : calls'[w][i] = calls[w][i]
      /\ \A x \in Workers : x # w => calls'[x] = calls[x] /\ cell'[x] = cell[x]
  BY <1>1, <1>2, PrefixCalls DEF Shape
<1>4. ASSUME NEW x \in Workers, NEW i \in 1 .. Len(calls[x]) + 1,
             x = w => i <= stay + 1
      PROVE  Caller(x, i) \notin gone
  <2> SUFFICES ASSUME NEW j \in stay + 1 .. n, Caller(x, i) = calls[w][j].future
               PROVE  FALSE
    OBVIOUS
  <2>1. j + 1 \in 1 .. Len(calls[w]) + 1 /\ j + 1 # 1 /\ (j + 1) - 1 = j
    BY <1>1
  <2>2. Caller(w, j + 1) = Caller(x, i)
    BY <2>1 DEF Caller
  <2>3. w = x /\ j + 1 = i
    BY <1>1, <2>1, <2>2, CallersDiffer
  <2> QED BY <1>1, <1>4, <2>3
<1> HIDE DEF n, gone
<1>5. Polling'
  BY PanicPolling DEF IInv
<1>6. ASSUME NEW x \in Workers, NEW i \in 1 .. Len(calls'[x]) + 1
      PROVE  /\ i \in 1 .. Len(calls[x]) + 1 /\ (x = w => i <= stay + 1)
             /\ Caller(x, i)' = Caller(x, i)
  <2>1. CASE x # w
    BY <1>3, <2>1 DEF Caller
  <2>2. CASE x = w
    <3>1. i \in 1 .. stay + 1 /\ (i # 1 => i - 1 \in 1 .. stay)
      BY <1>1, <1>3, <2>2
    <3>2. Caller(x, i)' = Caller(x, i)
      BY <1>3, <2>2, <3>1 DEF Caller
    <3> QED BY <1>1, <2>2, <3>1, <3>2 DEF n
  <2> QED BY <2>1, <2>2
<1>7. ASSUME NEW x \in Workers, NEW i \in 1 .. Len(calls'[x]) + 1,
             Caller(x, i)' \notin disturbed'
      PROVE  Context(x, i)' = own'[Caller(x, i)']
  <2>1. /\ i \in 1 .. Len(calls[x]) + 1 /\ (x = w => i <= stay + 1)
        /\ Caller(x, i)' = Caller(x, i)
    BY <1>6
  <2>2. Caller(x, i) \in Actors /\ Caller(x, i) \notin gone
    BY <1>1, <1>4, <2>1, CallerKind
  <2>3. own'[Caller(x, i)] = own[Caller(x, i)] /\ Caller(x, i) \notin disturbed
    BY <1>2, <1>7, <2>1, <2>2
  <2>4. Context(x, i)' = Context(x, i)
    <3>1. CASE x # w
      BY <1>3, <3>1 DEF Context
    <3>2. CASE x = w
      <4>1. i # stay + 1
        BY <1>2, <1>7, <2>1, <3>2
      <4>2. i \in 1 .. stay /\ i # n + 1 /\ i # Len(calls'[w]) + 1
        BY <1>1, <1>3, <2>1, <3>2, <4>1
      <4> QED BY <1>3, <3>2, <4>2 DEF Context, n
    <3> QED BY <3>1, <3>2
  <2> QED BY <1>1, <2>1, <2>3, <2>4 DEF OwnContexts
<1>8. ASSUME NEW f \in Futures, phase'[f] = "idle", f \notin disturbed'
      PROVE  held'[f] = own'[f]
  <2>1. f \notin kept /\ f \notin gone /\ phase[f] = "idle" /\ f \notin disturbed
    BY <1>2, <1>8
  <2> QED BY <1>1, <1>2, <2>1 DEF OwnContexts, Actors
<1> QED BY <1>5, <1>7, <1>8 DEF IInv, OwnContexts

-----------------------------------------------------------------------------
(* The theorems on who finds which context *)

\* Every step keeps the invariant.
LEMMA NextIInv == IInv /\ [Next]_vars => IInv'
<1> SUFFICES ASSUME IInv, [Next]_vars PROVE IInv'
  OBVIOUS
<1>1. ASSUME NEW w \in Workers, Step(w)
      PROVE  IInv'
  <2>1. ASSUME Use(w)
        PROVE  IInv'
    BY <2>1, UseIInv
  <2>2. ASSUME NEW f \in Futures, NEW g \in Futures \cup {NoFuture},
               Create(w, f, g)
        PROVE  IInv'
    <3>1. \E s : With(w, f, g, s)
      BY <2>2 DEF Create, Attach, Fork, Capture, Scoped
    <3> QED BY <3>1, WithKeeps DEF IInv
  <2>3. ASSUME NEW f \in Futures, PollFuture(w, f)
        PROVE  IInv'
    BY <2>3, PollKeeps DEF IInv
  <2>4. ASSUME NEW done \in BOOLEAN, Return(w, done)
        PROVE  IInv'
    BY <2>4, ReturnKeeps DEF IInv
  <2> QED BY <1>1, <2>1, <2>2, <2>3, <2>4 DEF Step, Turn
<1>2. ASSUME NEW w \in Workers, NEW f \in Futures, Cancel(w, f)
      PROVE  IInv'
  BY <1>2, CancelIInv
<1>3. ASSUME NEW w \in Workers, NEW inWindow \in BOOLEAN, PanicsWhere(w, inWindow)
      PROVE  IInv'
  BY <1>3, PanicIInv DEF PanicsWhere
<1>4. CASE UNCHANGED vars
  BY <1>4 DEF vars, IInv, Polling, Shape, PolledOnce, AdaptersPoll, OwnContexts,
     Context, Caller
<1> QED BY <1>1, <1>2, <1>3, <1>4 DEF Next, Steps, Cancels, Panics

\* The invariant says more than the property.
LEMMA IInvStaysLocal == IInv => FailuresStayLocal
<1> SUFFICES ASSUME IInv PROVE FailuresStayLocal
  OBVIOUS
<1>1. \A w \in Workers : Running(w) \notin disturbed => cell[w] = own[Running(w)]
  BY RunningContext DEF IInv
<1>2. ASSUME NEW w \in Workers, NEW i \in DOMAIN calls[w], Caller(w, i) \notin disturbed
      PROVE  calls[w][i].prev = own[Caller(w, i)]
  <2>1. PICK S : calls[w] \in Seq(S)
    BY DEF IInv, Polling, Shape, SomeSeq
  <2>2. i \in 1 .. Len(calls[w]) /\ Len(calls[w]) \in Nat
    BY <1>2, <2>1
  <2>3. i \in 1 .. Len(calls[w]) + 1 /\ i # Len(calls[w]) + 1
    BY <2>2
  <2> QED BY <1>2, <2>3 DEF IInv, OwnContexts, Context
<1> QED BY <1>1, <1>2 DEF IInv, OwnContexts, FailuresStayLocal

\* Whatever panics, in a window or outside of one, wherever it is caught, and
\* wherever futures are dropped with their guards: code that caught no panic,
\* dropped no future inside scopes and is not polled again after a panic finds
\* the context it left (future_ext.rs, WithContext::poll).
THEOREM SpecFailuresStayLocal == Spec => []FailuresStayLocal
<1>1. Init => IInv
  BY InitIInv
<1>2. IInv /\ [Next]_vars => IInv'
  BY NextIInv
<1>3. IInv => FailuresStayLocal
  BY IInvStaysLocal
<1> QED BY <1>1, <1>2, <1>3, PTL DEF Spec

\* Without panics and cancellations inside scopes nobody is disturbed.
Calm == IInv /\ disturbed = {}

\* A future that is dropped outside of scopes holds no guard.
LEMMA CalmNextStaysCalm == Calm /\ [CalmNext]_vars => Calm'
<1> SUFFICES ASSUME Calm, [CalmNext]_vars PROVE Calm'
  OBVIOUS
<1>1. ASSUME NEW w \in Workers, Step(w)
      PROVE  Next /\ disturbed' = disturbed
  <2>1. ASSUME Use(w)
        PROVE  disturbed' = disturbed
    BY <2>1 DEF Use, SetVariable, EnterScope, LeaveScope, Change
  <2>2. ASSUME NEW f \in Futures, NEW g \in Futures \cup {NoFuture}, Create(w, f, g)
        PROVE  disturbed' = disturbed
    BY <2>2 DEF Create, Attach, Fork, Capture, Scoped, With
  <2>3. ASSUME Turn(w)
        PROVE  disturbed' = disturbed
    BY <2>3 DEF Turn, PollFuture, Return
  <2> QED BY <1>1, <2>1, <2>2, <2>3 DEF Step, Next, Steps
<1>2. ASSUME NEW w \in Workers, NEW f \in Futures, CancelOutsideScopes(w, f)
      PROVE  Next /\ disturbed' = disturbed
  <2> DEFINE its == IF IsAdapter(f) THEN guards[inner[f]] ELSE <<>>
  <2>1. guards[f] = <<>> /\ its = <<>> /\ Cancel(w, f)
    BY <1>2 DEF CancelOutsideScopes
  <2>2. disturbed' = IF guards[f] \o its = <<>> THEN disturbed
                     ELSE disturbed \cup {Running(w)}
    BY <2>1 DEF Cancel
  <2>3. <<>> \o <<>> = <<>>
    BY ConcatProperties, EmptySeq
  <2> HIDE DEF its
  <2>4. disturbed' = disturbed
    BY <2>1, <2>2, <2>3
  <2> QED BY <2>1, <2>4 DEF Next, Cancels
<1>3. [Next]_vars /\ disturbed' = disturbed
  BY <1>1, <1>2 DEF CalmNext, Steps, CancelsOutsideScopes, vars
<1> QED BY <1>3, NextIInv DEF Calm

\* Whatever threads poll whatever futures in whatever order, nested as deep as
\* they like, the code of each (future_ext.rs, WithContext::poll) finds the
\* context it left, as long as nothing panics and no future is dropped in a scope.
THEOREM CalmContextsAreIsolated == CalmSpec => []ContextsAreIsolated
<1>1. Init => Calm
  BY InitIInv DEF Init, Calm
<1>2. Calm /\ [CalmNext]_vars => Calm'
  BY CalmNextStaysCalm
<1>3. Calm => ContextsAreIsolated
  BY IInvStaysLocal DEF Calm, FailuresStayLocal, ContextsAreIsolated
<1> QED BY <1>1, <1>2, <1>3, PTL DEF CalmSpec

-----------------------------------------------------------------------------
(* Guards that are dropped together *)

\* Popping the scopes of a store that the dropped guards name, one after the
\* other, leaves a sound store.
LEMMA UnwoundSound ==
  ASSUME NEW store \in SoundStores, NEW q \in Seq(Depths)
  PROVE  Unwound(store, q) \in SoundStores
<1> DEFINE n == Len(q)
           step == [p \in (1 .. n) \X SoundStores |-> PopScope(p[2], q[p[1]])]
           Body(f) == [s \in SUBSET DOMAIN q |->
                         IF s = {} THEN store ELSE PopScope(f[s \ {Min(s)}], q[Min(s)])]
           f0 == CHOOSE f : f = Body(f)
           all == FoldRight(LAMBDA e, s : PopScope(s, e), q, store)
<1>1. n \in Nat /\ DOMAIN q = 1 .. n /\ \A i \in 1 .. n : q[i] \in Depths
  OBVIOUS
<1>2. step \in [(1 .. n) \X SoundStores -> SoundStores]
  <2> SUFFICES ASSUME NEW p \in (1 .. n) \X SoundStores
               PROVE  PopScope(p[2], q[p[1]]) \in SoundStores
    OBVIOUS
  <2> DEFINE s == p[2]
             e == q[p[1]]
  <2>1. s \in SoundStores /\ e \in Depths
    BY <1>1
  <2> HIDE DEF s, e
  <2>2. SoundStore(s) /\ e \in Nat /\ e >= 2
    BY <2>1 DEF SoundStores, Depths
  <2>3. SoundStore(PopScope(s, e))
    BY <2>2, SoundPop
  <2> QED BY <2>3, SoundIsStore DEF s, e
<1> HIDE DEF step, n
<1>3. PICK g \in [SUBSET (1 .. n) -> SoundStores] : FoldsRight(g, n, store, step)
  BY <1>1, <1>2, RecursionOverSubsets
<1>4. ASSUME NEW f, NEW s \in SUBSET (1 .. n), s # {}, f[s \ {Min(s)}] \in SoundStores
      PROVE  step[<<Min(s), f[s \ {Min(s)}]>>] = PopScope(f[s \ {Min(s)}], q[Min(s)])
  <2>1. Min(s) \in 1 .. n
    BY <1>1, <1>4, MinOfIndices
  <2>2. <<Min(s), f[s \ {Min(s)}]>> \in (1 .. n) \X SoundStores
    BY <1>4, <2>1
  <2> QED BY <2>2 DEF step
<1>5. g = Body(g)
  <2>1. DOMAIN g = SUBSET DOMAIN q
    BY <1>1
  <2>2. \A s \in SUBSET DOMAIN q :
          g[s] = IF s = {} THEN store ELSE PopScope(g[s \ {Min(s)}], q[Min(s)])
    <3> SUFFICES ASSUME NEW s \in SUBSET (1 .. n)
                 PROVE  g[s] = IF s = {} THEN store
                               ELSE PopScope(g[s \ {Min(s)}], q[Min(s)])
      BY <1>1
    <3>1. s \ {Min(s)} \in SUBSET (1 .. n)
      OBVIOUS
    <3>2. g[s \ {Min(s)}] \in SoundStores
      BY <3>1
    <3> QED BY <1>3, <1>4, <3>2 DEF FoldsRight
  <2> QED BY <2>1, <2>2
<1>6. all = f0[DOMAIN q]
  BY DEF FoldRight, MapThenFoldSet
<1> HIDE DEF Body
<1>7. f0 = Body(f0)
  BY <1>5
<1> HIDE DEF f0
<1>8. \A s \in SUBSET (1 .. n) :
        f0[s] = IF s = {} THEN store ELSE PopScope(f0[s \ {Min(s)}], q[Min(s)])
  BY <1>1, <1>7 DEF Body
<1>9. TakesLeastLast(f0, n, SoundStores, store, step)
  <2>1. ASSUME NEW s \in SUBSET (1 .. n), s # {}, f0[s \ {Min(s)}] \in SoundStores
        PROVE  f0[s] = step[<<Min(s), f0[s \ {Min(s)}]>>]
    BY <1>4, <1>8, <2>1
  <2> QED BY <1>8, <2>1 DEF TakesLeastLast
<1>10. PICK h \in [0 .. n -> SoundStores] : h[0] = f0[1 .. n]
  <2>1. FoldsDownTo(f0[1 .. n], n, SoundStores, store, step)
    BY <1>1, <1>2, <1>9, FoldsDownSets
  <2> QED BY <2>1 DEF FoldsDownTo
<1>11. all \in SoundStores
  <2>1. 0 \in 0 .. n
    BY <1>1
  <2>2. h[0] \in SoundStores
    BY <2>1
  <2>3. DOMAIN q = 1 .. n
    BY <1>1
  <2>4. all = f0[1 .. n]
    BY <1>6, <2>3, Zenon
  <2> QED BY <1>10, <2>2, <2>4, Zenon
<1> QED BY <1>11 DEF Unwound

\* The guards of several futures, in a row.
LEMMA FlattenType ==
  ASSUME NEW S, NEW seqs \in Seq(Seq(S))
  PROVE  FlattenSeq(seqs) \in Seq(S)
<1> DEFINE n == Len(seqs)
           D == Seq(S)
           step == [p \in (1 .. n) \X D |->
                      IF p[1] = 1 THEN seqs[p[1]] ELSE p[2] \o seqs[p[1]]]
           Body(f) == [i \in 1 .. n |-> IF i = 1 THEN seqs[i] ELSE f[i - 1] \o seqs[i]]
           f0 == CHOOSE f : f = Body(f)
<1>1. n \in Nat /\ <<>> \in D /\ \A i \in 1 .. n : seqs[i] \in D
  OBVIOUS
<1>2. step \in [(1 .. n) \X D -> D]
  <2> SUFFICES ASSUME NEW p \in (1 .. n) \X D
               PROVE  (IF p[1] = 1 THEN seqs[p[1]] ELSE p[2] \o seqs[p[1]]) \in D
    OBVIOUS
  <2>1. p[2] \in D /\ seqs[p[1]] \in D
    BY <1>1
  <2>2. p[2] \o seqs[p[1]] \in D
    BY <2>1, ConcatProperties
  <2> QED BY <2>1, <2>2
<1>3. CASE n = 0
  <2>1. seqs = <<>>
    BY <1>3
  <2> QED BY <1>3, <2>1 DEF FlattenSeq
<1>4. CASE n # 0
  <2>1. FlattenSeq(seqs) = f0[n]
    BY <1>4 DEF FlattenSeq
  <2> HIDE DEF step, n, D
  <2>2. PICK g \in [0 .. n -> D] : RecursesUp(g, n, <<>>, step)
    BY <1>1, <1>2, RecursionOverIndices
  <2> DEFINE h == [i \in 1 .. n |-> g[i]]
  <2>3. ASSUME NEW i \in 1 .. n
        PROVE  h[i] = IF i = 1 THEN seqs[i] ELSE h[i - 1] \o seqs[i]
    <3>1. i - 1 \in 0 .. n /\ (i # 1 => i - 1 \in 1 .. n)
      BY <1>1
    <3>2. g[i - 1] \in D /\ g[i] = step[<<i, g[i - 1]>>]
      BY <2>2, <3>1 DEF RecursesUp
    <3>3. <<i, g[i - 1]>> \in (1 .. n) \X D
      BY <3>2
    <3>4. g[i] = IF i = 1 THEN seqs[i] ELSE g[i - 1] \o seqs[i]
      BY <3>2, <3>3 DEF step
    <3> QED BY <3>1, <3>4
  <2> HIDE DEF h
  <2>4. h = Body(h)
    <3>1. h = [i \in 1 .. n |-> h[i]]
      BY DEF h
    <3> QED BY <2>3, <3>1
  <2> HIDE DEF Body
  <2>5. f0 = Body(f0)
    BY <2>4
  <2> HIDE DEF f0
  <2>6. \A i \in 1 .. n : f0[i] = IF i = 1 THEN seqs[i] ELSE f0[i - 1] \o seqs[i]
    BY <2>5 DEF Body
  <2>7. \A i \in 1 .. n : f0[i] \in D
    <3>1. \A i \in 1 .. n : f0[i] = h[i]
      <4> DEFINE U == {i \in Nat : i \in 1 .. n => f0[i] = h[i]}
      <4>1. 0 \in U
        BY <1>1
      <4>2. ASSUME NEW i \in Nat, i \in U  PROVE i + 1 \in U
        <5> SUFFICES ASSUME i + 1 \in 1 .. n  PROVE f0[i + 1] = h[i + 1]
          BY <4>2
        <5>1. (i + 1) - 1 = i /\ (i + 1 # 1 => i \in 1 .. n)
          BY <1>1
        <5> QED BY <2>3, <2>6, <4>2, <5>1
      <4> HIDE DEF U
      <4>3. \A i \in Nat : i \in U
        BY <4>1, <4>2, SetInduction
      <4> QED BY <1>1, <4>3 DEF U
    <3>2. \A i \in 1 .. n : g[i] \in D
      BY <1>1
    <3> QED BY <3>1, <3>2 DEF h
  <2>8. n \in 1 .. n
    BY <1>1, <1>4
  <2> QED BY <2>1, <2>7, <2>8 DEF D
<1> QED BY <1>3, <1>4

-----------------------------------------------------------------------------
(* What everybody holds, with panics and cancellations anywhere *)

\* The future is not gone, so its code has left it a context.
Alive(f) == phase[f] \in {"idle", "running", "returning"}

Optional == SoundStores \cup {NoStore}

Kept == [future : Futures, prev : Optional]

Stores ==
  /\ cell \in [Workers -> Optional]
  /\ calls \in [Workers -> Seq(Kept)]
  /\ phase \in [Futures -> {"unborn", "idle", "running", "returning", "over"}]
  /\ held \in [Futures -> Optional]
  /\ inner \in [Futures -> Futures \cup {NoFuture}]
  /\ guards \in [Actors -> Seq(Depths)]
  /\ own \in [Actors -> Optional]
  /\ disturbed \subseteq Actors
  /\ \A w \in Workers : own[w] \in SoundStores
  /\ \A f \in Futures : Alive(f) => own[f] \in SoundStores

\* Every context there is is a sound store, and who is alive has left one.
StoresInv == IInv /\ Stores

\* At first there are the threads' own.
LEMMA InitStoresInv == Init => StoresInv
<1> SUFFICES ASSUME Init PROVE StoresInv
  OBVIOUS
<1>1. IInv
  BY InitIInv
<1>2. NewStore \in SoundStores
  BY SoundNew, SoundIsStore
<1>3. /\ cell = [w \in Workers |-> NewStore]
      /\ calls = [w \in Workers |-> <<>>]
      /\ phase = [f \in Futures |-> "unborn"]
      /\ held = [f \in Futures |-> NoStore]
      /\ inner = [f \in Futures |-> NoFuture]
      /\ guards = [a \in Actors |-> <<>>]
      /\ own = [a \in Actors |-> IF a \in Workers THEN NewStore ELSE NoStore]
      /\ disturbed = {}
  BY DEF Init
<1>4. \A f \in Futures : ~Alive(f)
  BY <1>3 DEF Alive
<1>5. \A w \in Workers : own[w] \in SoundStores
  BY <1>2, <1>3 DEF Actors
<1>6. own \in [Actors -> Optional]
  BY <1>2, <1>3 DEF Optional
<1>7. /\ cell \in [Workers -> Optional]
      /\ calls \in [Workers -> Seq(Kept)] /\ held \in [Futures -> Optional]
  BY <1>2, <1>3 DEF Optional
<1> QED BY <1>1, <1>3, <1>4, <1>5, <1>6, <1>7 DEF StoresInv, Stores

\* The code that runs is alive, so it has left itself a store.
LEMMA RunningIsAlive ==
  ASSUME StoresInv, NEW w \in Workers
  PROVE  /\ Running(w) \in Actors
         /\ Running(w) \in Futures => phase[Running(w)] \in {"running", "returning"}
         /\ cell[w] \in Optional /\ SoundStore(own[Running(w)])
<1>1. Shape /\ PolledOnce /\ Len(calls[w]) \in Nat
  BY AppendedCall DEF StoresInv, IInv, Polling, Shape
<1>2. Len(calls[w]) + 1 \in 1 .. Len(calls[w]) + 1
  BY <1>1
<1> DEFINE a == Running(w)
<1>3. a \in Actors /\ (a \in Futures => phase[a] \in {"running", "returning"})
  BY <1>1, <1>2, CallerKind DEF Running
<1> HIDE DEF a
<1>4. own[a] \in SoundStores
  BY <1>3 DEF StoresInv, Stores, Alive, Actors
<1>5. cell[w] \in Optional
  BY DEF StoresInv, Stores
<1> QED BY <1>3, <1>4, <1>5 DEF SoundStores, a

\* The store that a cell has, if it has one.
LEMMA SoundOrNone ==
  ASSUME NEW s \in Optional, s # NoStore
  PROVE  SoundStore(s)
  BY DEF Optional, SoundStores

\* Another store for the running code.
LEMMA ChangeStores ==
  ASSUME StoresInv, NEW w \in Workers, NEW s \in Optional, NEW m \in SoundStores,
         Change(w, s, m), guards' \in [Actors -> Seq(Depths)]
  PROVE  Stores'
<1> DEFINE a == Running(w)
<1>1. Stores /\ a \in Actors
  BY RunningIsAlive DEF StoresInv
<1>2. /\ cell' = [cell EXCEPT ![w] = s] /\ own' = [own EXCEPT ![a] = m]
      /\ calls' = calls /\ phase' = phase /\ held' = held /\ inner' = inner
      /\ disturbed' = disturbed
  BY DEF Change
<1> HIDE DEF a
<1>3. /\ cell' \in [Workers -> Optional]
      /\ own' \in [Actors -> Optional]
      /\ \A b \in Actors : own'[b] = own[b] \/ own'[b] = m
  BY <1>1, <1>2 DEF Stores, Optional
<1>4. /\ \A x \in Workers : own'[x] \in SoundStores
      /\ \A f \in Futures : Alive(f)' => own'[f] \in SoundStores
  BY <1>1, <1>2, <1>3 DEF Stores, Actors, Alive
<1> QED BY <1>1, <1>2, <1>3, <1>4 DEF Stores

\* Values are set and scopes entered and left.
LEMMA UseStores ==
  ASSUME StoresInv, NEW w \in Workers, Use(w)
  PROVE  Stores'
<1> DEFINE a == Running(w)
           c == cell[w]
           o == own[a]
<1>1. a \in Actors /\ c \in Optional /\ SoundStore(o) /\ guards \in [Actors -> Seq(Depths)]
      /\ w \in DOMAIN cell
  BY RunningIsAlive DEF StoresInv, Stores
<1>2. ASSUME NEW k \in Keys, NEW v \in Vals, SetVariable(w, k, v)
      PROVE  Stores'
  <2>1. Change(w, Written(c, k, v), Written(o, k, v)) /\ guards' = guards
    BY <1>2 DEF SetVariable
  <2> HIDE DEF a, c, o
  <2>2. \A s : SoundStore(s) => SetValue(s, k, v) \in SoundStores
    BY SoundSetValue, SoundIsStore
  <2>3. Written(c, k, v) \in Optional
    BY <1>1, <2>2, SoundOrNone DEF Written, Optional
  <2>4. Written(o, k, v) \in SoundStores
    BY <1>1, <2>2, SoundIsStore DEF Written
  <2> QED BY <1>1, <2>1, <2>3, <2>4, ChangeStores DEF a
<1>3. ASSUME NEW name \in Names, EnterScope(w, name)
      PROVE  Stores'
  <2>1. /\ Change(w, PushScope(c, name, CachedKeys), PushScope(o, name, CachedKeys))
        /\ guards' = [guards EXCEPT ![a] = Append(@, cell'[w].cur.depth)]
        /\ c # NoStore
    BY <1>3 DEF EnterScope
  <2>2. cell'[w] = PushScope(c, name, CachedKeys)
    BY <1>1, <2>1 DEF Change
  <2> HIDE DEF a, c, o
  <2>0. SoundStore(c)
    BY <1>1, <2>1, SoundOrNone
  <2>3. /\ SoundStore(PushScope(c, name, CachedKeys))
        /\ SoundStore(PushScope(o, name, CachedKeys))
        /\ PushScope(c, name, CachedKeys).cur.depth = c.cur.depth + 1
    BY <1>1, <2>0, SoundPush
  <2>4. /\ PushScope(c, name, CachedKeys) \in Optional
        /\ PushScope(o, name, CachedKeys) \in SoundStores
    BY <2>3, SoundIsStore DEF Optional
  <2>5. cell'[w].cur.depth \in Depths
    <3>1. c.cur.depth \in Nat /\ c.cur.depth >= 1
      BY <2>0, SoundDepth
    <3>2. c.cur.depth + 1 \in Depths
      BY <3>1 DEF Depths
    <3> QED BY <2>2, <2>3, <3>2
  <2>6. guards' \in [Actors -> Seq(Depths)]
    <3>1. Append(guards[a], cell'[w].cur.depth) \in Seq(Depths)
      BY <1>1, <2>5
    <3> QED BY <1>1, <2>1, <3>1
  <2> QED BY <2>1, <2>4, <2>6, ChangeStores
<1>4. ASSUME LeaveScope(w)
      PROVE  Stores'
  <2> DEFINE q == guards[a]
             e == Last(q)
  <2>1. /\ q # <<>> /\ Change(w, Popped(c, e), Popped(o, e))
        /\ guards' = [guards EXCEPT ![a] = Front(@)]
    BY <1>4 DEF LeaveScope
  <2>2. q \in Seq(Depths)
    BY <1>1
  <2> HIDE DEF q
  <2>3. /\ Len(q) \in Nat /\ Len(q) >= 1 /\ Last(q) = q[Len(q)]
        /\ Front(q) = SubSeq(q, 1, Len(q) - 1)
    BY <2>1, <2>2, EmptySeq DEF Last, Front
  <2>4. Last(q) \in Depths
    BY <2>2, <2>3
  <2>5. Front(q) \in Seq(Depths)
    <3>1. /\ 1 \in Int /\ Len(q) - 1 \in Int
          /\ \A i \in 1 .. Len(q) - 1 : q[i] \in Depths
      BY <2>2, <2>3
    <3> QED BY <2>3, <3>1, SubSeqProperties
  <2>6. guards' \in [Actors -> Seq(Depths)]
    BY <1>1, <2>1, <2>5 DEF q
  <2> HIDE DEF a, c, o, e
  <2>7. e \in Nat /\ e >= 2
    BY <2>4 DEF Depths, e
  <2>8. \A s : SoundStore(s) => PopScope(s, e) \in SoundStores
    BY <2>7, SoundPop, SoundIsStore
  <2>9. Popped(c, e) \in Optional
    BY <1>1, <2>8, SoundOrNone DEF Popped, Optional
  <2>10. Popped(o, e) \in SoundStores
    BY <1>1, <2>8, SoundIsStore DEF Popped
  <2> QED BY <2>1, <2>6, <2>9, <2>10, ChangeStores DEF a, c, o, e
<1> QED BY <1>2, <1>3, <1>4 DEF Use

\* What a new future is given is a sound store.
LEMMA CreateStores ==
  ASSUME StoresInv, NEW w \in Workers, NEW f \in Futures,
         NEW g \in Futures \cup {NoFuture}, Create(w, f, g)
  PROVE  Stores'
<1> DEFINE c == cell[w]
<1>1. Stores /\ c \in Optional
  BY RunningIsAlive DEF StoresInv
<1>2. ASSUME NEW snap \in Snapshot
      PROVE  StoreFromSnapshot(snap, LocalKeys, ValidVals) \in SoundStores
  <2> DEFINE v == [k \in Keys |-> IF snap.values[k] \in ValidVals[k] /\ k \notin LocalKeys
                                  THEN snap.values[k] ELSE NoVal]
             r == snap.chain
  <2>1. snap.values \in Values /\ r \in Seq(Names)
    BY DEF Snapshot
  <2>2. v \in Values
    BY <2>1 DEF Values
  <2>3. StoreFromSnapshot(snap, LocalKeys, ValidVals) = FromValuesWithChain(v, r)
    BY DEF StoreFromSnapshot
  <2> HIDE DEF v, r
  <2>4. SoundStore(FromValuesWithChain(v, r))
    BY <2>1, <2>2, SoundFromValues
  <2> QED BY <2>3, <2>4, SoundIsStore
<1>3. Captured(w) \in Snapshot
  <2>1. CASE c = NoStore
    <3>1. EmptyValues \in Values /\ <<>> \in Seq(Names)
      BY DEF EmptyValues, Values
    <3> QED BY <2>1, <3>1 DEF Captured, Snapshot
  <2>2. CASE c # NoStore
    <3>1. Captured(w) = CaptureOf(c, LocalKeys)
      BY <2>2 DEF Captured
    <3> HIDE DEF c
    <3>2. SoundStore(c)
      BY <1>1, <2>2, SoundOrNone
    <3>3. CollectValues(c) \in Values /\ ScopeChain(c) \in Seq(Names)
      BY <3>2, CollectValuesType, ScopeChainType DEF SoundStore
    <3>4. [k \in Keys |-> IF k \in LocalKeys THEN NoVal ELSE CollectValues(c)[k]] \in Values
      BY <3>3 DEF Values
    <3> QED BY <3>1, <3>3, <3>4 DEF CaptureOf, Snapshot
  <2> QED BY <2>1, <2>2
<1>4. SoundStore(Forked(w))
  <2>1. CASE c = NoStore
    BY <2>1, SoundNew DEF Forked
  <2>2. CASE c # NoStore
    <3>1. Forked(w) = ForkChild(c)
      BY <2>2 DEF Forked
    <3> HIDE DEF c
    <3>2. SoundStore(c)
      BY <1>1, <2>2, SoundOrNone
    <3> QED BY <3>1, <3>2, SoundFork DEF SoundStore
  <2> QED BY <2>1, <2>2
<1>5. ASSUME NEW s \in SoundStores, With(w, f, g, s)
      PROVE  Stores'
  <2>1. /\ phase' = [phase EXCEPT ![f] = "idle"] /\ held' = [held EXCEPT ![f] = s]
        /\ own' = [own EXCEPT ![f] = s] /\ inner' = [inner EXCEPT ![f] = g]
        /\ UNCHANGED <<cell, calls, guards, disturbed>>
    BY <1>5 DEF With
  <2>2. f \in Actors /\ Workers \cap Futures = {}
    BY TaskContextAssumption DEF Actors
  <2>3. /\ phase' \in [Futures -> {"unborn", "idle", "running", "returning", "over"}]
        /\ held' \in [Futures -> Optional]
        /\ own' \in [Actors -> Optional]
        /\ inner' \in [Futures -> Futures \cup {NoFuture}]
    BY <1>1, <2>1 DEF Stores, Optional
  <2>4. /\ held'[f] = s /\ own'[f] = s
        /\ \A h \in Futures : h # f => phase'[h] = phase[h] /\ held'[h] = held[h]
        /\ \A a \in Actors : a # f => own'[a] = own[a]
    BY <1>1, <2>1, <2>2 DEF Stores
  <2>5. /\ \A x \in Workers : own'[x] \in SoundStores
        /\ \A h \in Futures : Alive(h)' => own'[h] \in SoundStores
    BY <1>1, <2>2, <2>4 DEF Stores, Actors, Alive
  <2> QED BY <1>1, <2>1, <2>3, <2>5 DEF Stores
<1>6. ASSUME NEW snap \in Inbound, Attach(w, f, g, snap)
      PROVE  Stores'
  <2>1. snap \in Snapshot
    BY TaskContextAssumption
  <2>2. StoreFromSnapshot(snap, LocalKeys, ValidVals) \in SoundStores
    BY <1>2, <2>1
  <2> QED BY <1>5, <1>6, <2>2 DEF Attach
<1>7. ASSUME Fork(w, f, g)
      PROVE  Stores'
  <2>1. Forked(w) \in SoundStores
    BY <1>4, SoundIsStore
  <2> QED BY <1>5, <1>7, <2>1 DEF Fork
<1>8. ASSUME Capture(w, f, g)
      PROVE  Stores'
  <2>1. StoreFromSnapshot(Captured(w), LocalKeys, ValidVals) \in SoundStores
    BY <1>2, <1>3
  <2> QED BY <1>5, <1>8, <2>1 DEF Capture
<1>9. ASSUME NEW name \in Names, Scoped(w, f, g, name)
      PROVE  Stores'
  <2> DEFINE k == Forked(w)
  <2>1. PushScope(k, name, CachedKeys) \in SoundStores
    <3> HIDE DEF k
    <3>1. SoundStore(k)
      BY <1>4 DEF k
    <3> QED BY <3>1, SoundPush, SoundIsStore
  <2> QED BY <1>5, <1>9, <2>1 DEF Scoped
<1> QED BY <1>6, <1>7, <1>8, <1>9 DEF Create

\* The future gives what it has, and keeps what the cell had.
LEMMA PollStores ==
  ASSUME StoresInv, NEW w \in Workers, NEW f \in Futures, PollFuture(w, f)
  PROVE  Stores'
<1> DEFINE e == [future |-> f, prev |-> cell[w]]
<1>1. Stores /\ phase[f] = "idle" /\ f \in Actors
  BY DEF StoresInv, PollFuture, Actors
<1>2. /\ calls' = [calls EXCEPT ![w] = Append(@, e)]
      /\ cell' = [cell EXCEPT ![w] = held[f]]
      /\ held' = [held EXCEPT ![f] = NoStore]
      /\ phase' = [phase EXCEPT ![f] = "running"]
      /\ UNCHANGED <<inner, guards, own, disturbed>>
  BY DEF PollFuture
<1>3. e \in Kept /\ held[f] \in Optional
  BY <1>1 DEF Stores, Kept
<1> HIDE DEF e
<1>4. calls' \in [Workers -> Seq(Kept)]
  <2> DEFINE q == calls[w]
  <2>1. q \in Seq(Kept)
    BY <1>1 DEF Stores
  <2> HIDE DEF q
  <2>2. Append(q, e) \in Seq(Kept)
    BY <1>3, <2>1
  <2> QED BY <1>1, <1>2, <2>2 DEF Stores, q
<1>5. /\ cell' \in [Workers -> Optional]
      /\ held' \in [Futures -> Optional]
      /\ phase' \in [Futures -> {"unborn", "idle", "running", "returning", "over"}]
  BY <1>1, <1>2, <1>3 DEF Stores, Optional
<1>6. /\ phase'[f] = "running"
      /\ \A h \in Futures : h # f => phase'[h] = phase[h]
  BY <1>1, <1>2 DEF Stores
<1>7. \A h \in Futures : Alive(h)' => own'[h] \in SoundStores
  <2>1. Alive(f)
    BY <1>1 DEF Alive
  <2>2. \A h \in Futures : Alive(h)' => Alive(h)
    BY <1>6, <2>1 DEF Alive
  <2> QED BY <1>1, <1>2, <2>2 DEF Stores
<1> QED BY <1>1, <1>2, <1>4, <1>5, <1>7 DEF Stores

\* A future that returns takes back what is in the cell, and its poller's code
\* finds what the poll kept for it.
LEMMA ReturnStores ==
  ASSUME StoresInv, NEW w \in Workers, NEW done \in BOOLEAN, Return(w, done)
  PROVE  Stores'
<1> DEFINE f == Running(w)
           q == calls[w]
           n == Len(q)
<1>1. Stores /\ q \in Seq(Kept)
  BY DEF StoresInv, Stores
<1>2. /\ q # <<>>
      /\ held' = [held EXCEPT ![f] = IF done THEN NoStore ELSE cell[w]]
      /\ cell' = [cell EXCEPT ![w] = Last(q).prev]
      /\ calls' = [calls EXCEPT ![w] = Front(@)]
      /\ phase' = PhaseAfter(w, f, done)
      /\ own' = [own EXCEPT ![f] = IF done THEN NoStore ELSE @]
      /\ UNCHANGED <<inner, guards, disturbed>>
  BY DEF Return
<1>3. n \in Nat /\ n >= 1 /\ n \in 1 .. n
  <2> HIDE DEF q
  <2> QED BY <1>1, <1>2, EmptySeq
<1>4. q[n] \in Kept /\ Last(q) = q[n] /\ Front(q) = SubSeq(q, 1, n - 1)
  <2>1. Last(q) = q[n] /\ Front(q) = SubSeq(q, 1, n - 1)
    BY DEF Last, Front
  <2> HIDE DEF q
  <2>2. q[n] \in Kept
    BY <1>1, <1>3
  <2> QED BY <2>1, <2>2
<1>5. Front(q) \in Seq(Kept)
  <2> HIDE DEF q, n
  <2>1. 1 \in Int /\ n - 1 \in Int /\ \A i \in 1 .. n - 1 : q[i] \in Kept
    BY <1>1, <1>3 DEF n
  <2> QED BY <1>4, <2>1, SubSeqProperties
<1>6. f \in Futures /\ f \in Actors
  <2>1. n + 1 # 1 /\ n + 1 - 1 = n
    BY <1>3
  <2>2. f = q[n].future
    BY <2>1 DEF Running, Caller
  <2> QED BY <1>4, <2>2 DEF Actors, Kept
<1>7. Alive(f) /\ cell[w] \in Optional
  BY <1>1, <1>6, RunningIsAlive DEF Alive, Stores
<1>8. \A h \in Futures : h # f =>
        phase'[h] = phase[h] \/ (phase'[h] = "returning" /\ Alive(h))
  <2> DEFINE a == Caller(w, n)
  <2>1. a \in Actors /\ (a \in Futures => phase[a] \in {"running", "returning"})
    <3>1. Shape /\ PolledOnce /\ n \in 1 .. Len(calls[w]) + 1
      BY <1>3 DEF StoresInv, IInv, Polling
    <3> QED BY <3>1, CallerKind
  <2>2. a \in Futures => Alive(a)
    BY <2>1 DEF Alive
  <2> QED BY <1>2, <2>2 DEF PhaseAfter
<1>9. phase'[f] = IF done THEN "over" ELSE "idle"
  BY <1>2, <1>6 DEF PhaseAfter
<1>10. phase' \in [Futures -> {"unborn", "idle", "running", "returning", "over"}]
  BY <1>1, <1>2 DEF PhaseAfter, Stores
<1>11. Last(q).prev \in Optional
  BY <1>4 DEF Kept
<1> HIDE DEF f, q, n
<1>12. /\ cell' \in [Workers -> Optional]
       /\ held' \in [Futures -> Optional]
       /\ own' \in [Actors -> Optional]
  BY <1>1, <1>2, <1>6, <1>7, <1>11 DEF Stores, Optional
<1>13. calls' \in [Workers -> Seq(Kept)]
  BY <1>1, <1>2, <1>5 DEF Stores, q
<1>14. /\ ~done => own'[f] = own[f]
       /\ \A a \in Actors : a # f => own'[a] = own[a]
  BY <1>1, <1>2, <1>6 DEF Stores
<1>15. \A x \in Workers : own'[x] \in SoundStores
  BY <1>1, <1>6, <1>14, TaskContextAssumption DEF Stores, Actors
<1>16. \A h \in Futures : Alive(h)' => own'[h] \in SoundStores
  <2> SUFFICES ASSUME NEW h \in Futures, Alive(h)'
               PROVE  own'[h] \in SoundStores
    OBVIOUS
  <2>1. CASE h = f
    <3>1. ~done
      BY <1>9, <2>1 DEF Alive
    <3> QED BY <1>1, <1>7, <1>14, <2>1, <3>1 DEF Stores
  <2>2. CASE h # f
    <3>1. Alive(h) /\ h \in Actors
      BY <1>8, <2>2 DEF Alive, Actors
    <3> QED BY <1>1, <1>14, <2>2, <3>1 DEF Stores
  <2> QED BY <2>1, <2>2
<1> QED BY <1>1, <1>2, <1>10, <1>12, <1>13, <1>15, <1>16 DEF Stores

\* Futures that are dropped pop scopes of whatever is in the cell, and leave it
\* a sound store.
LEMMA GoneStores ==
  ASSUME StoresInv, NEW w \in Workers, NEW gone, gone \cap Workers = {},
         NEW kept, \A f \in kept \cap Futures : Alive(f),
         NEW store \in Optional, NEW expected \in Seq(Depths),
         Gone(w, gone, kept, store, expected),
         calls' \in [Workers -> Seq(Kept)], disturbed' \subseteq Actors
  PROVE  Stores'
<1> DEFINE s == Unwound(store, expected)
<1>1. Stores
  BY DEF StoresInv
<1>2. /\ cell' = [cell EXCEPT ![w] = s]
      /\ phase' = [f \in Futures |-> IF f \in kept THEN "idle"
                                     ELSE IF f \in gone THEN "over" ELSE phase[f]]
      /\ held' = [f \in Futures |-> IF f \in gone THEN NoStore ELSE held[f]]
      /\ guards' = [a \in Actors |-> IF a \in gone THEN <<>> ELSE guards[a]]
      /\ own' = [a \in Actors |-> IF a \in gone \ kept THEN NoStore ELSE own[a]]
      /\ inner' = inner
  BY DEF Gone
<1>3. s \in Optional
  <2>1. CASE store = NoStore
    BY <2>1 DEF Unwound, Optional
  <2>2. CASE store # NoStore
    BY <2>2, UnwoundSound DEF Optional
  <2> QED BY <2>1, <2>2
<1> HIDE DEF s
<1>4. cell' \in [Workers -> Optional]
  BY <1>1, <1>2, <1>3 DEF Stores
<1>5. /\ phase' \in [Futures -> {"unborn", "idle", "running", "returning", "over"}]
      /\ held' \in [Futures -> Optional]
      /\ own' \in [Actors -> Optional]
  BY <1>1, <1>2 DEF Stores, Optional
<1>6. guards' \in [Actors -> Seq(Depths)]
  <2>1. <<>> \in Seq(Depths)
    OBVIOUS
  <2> QED BY <1>1, <1>2, <2>1 DEF Stores
<1>7. \A x \in Workers : own'[x] \in SoundStores
  BY <1>1, <1>2 DEF Stores, Actors
<1>8. \A f \in Futures : Alive(f)' => own'[f] \in SoundStores
  <2> SUFFICES ASSUME NEW f \in Futures, Alive(f)'  PROVE own'[f] \in SoundStores
    OBVIOUS
  <2>1. f \notin gone \ kept /\ Alive(f) /\ f \in Actors
    BY <1>2 DEF Alive, Actors
  <2> QED BY <1>1, <1>2, <2>1 DEF Stores
<1> QED BY <1>1, <1>2, <1>4, <1>5, <1>6, <1>7, <1>8 DEF Stores

\* A suspended future is dropped, with its guards.
LEMMA CancelStores ==
  ASSUME StoresInv, NEW w \in Workers, NEW f \in Futures, Cancel(w, f)
  PROVE  Stores'
<1> DEFINE gone == {f, inner[f]} \ {NoFuture}
           mine == guards[f]
           its == IF IsAdapter(f) THEN guards[inner[f]] ELSE <<>>
<1>1. Stores /\ Workers \cap Futures = {}
  BY TaskContextAssumption DEF StoresInv
<1>2. /\ Gone(w, gone, {}, cell[w], mine \o its) /\ calls' = calls
      /\ disturbed' = disturbed \/ disturbed' = disturbed \cup {Running(w)}
  BY DEF Cancel
<1>3. gone \cap Workers = {}
  BY <1>1 DEF Stores
<1>4. mine \in Seq(Depths) /\ its \in Seq(Depths)
  <2>1. f \in Actors /\ (IsAdapter(f) => inner[f] \in Actors)
    BY <1>1 DEF Stores, IsAdapter, Actors
  <2>2. <<>> \in Seq(Depths)
    OBVIOUS
  <2> QED BY <1>1, <2>1, <2>2 DEF Stores
<1> HIDE DEF gone, mine, its
<1>5. mine \o its \in Seq(Depths)
  BY <1>4, ConcatProperties
<1>6. /\ calls' \in [Workers -> Seq(Kept)] /\ disturbed' \subseteq Actors
      /\ cell[w] \in Optional
  BY <1>1, <1>2, RunningIsAlive DEF Stores
<1>7. \A h \in {} \cap Futures : Alive(h)
  OBVIOUS
<1> QED BY <1>2, <1>3, <1>5, <1>6, <1>7, GoneStores

\* A panic drops the futures above the code that catches it, with their guards,
\* and what their polls have kept.
LEMMA PanicStores ==
  ASSUME StoresInv, NEW w \in Workers, NEW stay \in 0 .. Len(calls[w]),
         NEW inWindow \in BOOLEAN, NEW kept, Panic(w, stay, inWindow, kept)
  PROVE  Stores'
<1> DEFINE q == calls[w]
           c == IF inWindow THEN NoStore ELSE cell[w]
           m == Len(q) - stay
           gone == {q[i].future : i \in stay + 1 .. Len(q)}
           lists == [i \in 1 .. m |-> guards[q[stay + i].future]]
<1>1. Stores /\ q \in Seq(Kept) /\ Workers \cap Futures = {}
  BY TaskContextAssumption DEF StoresInv, Stores
<1>2. /\ Gone(w, gone, kept, c, FlattenSeq(lists)) /\ kept \subseteq gone
      /\ calls' = [calls EXCEPT ![w] = SubSeq(@, 1, stay)]
      /\ disturbed' = disturbed \cup {Caller(w, stay + 1)} \cup kept
  BY DEF Panic
<1>3. /\ Len(q) \in Nat /\ stay \in Nat /\ stay <= Len(q) /\ m \in Nat
      /\ \A i \in 1 .. Len(q) : q[i] \in Kept
  <2>1. Len(q) \in Nat /\ \A i \in 1 .. Len(q) : q[i] \in Kept
    BY <1>1
  <2> QED BY <2>1
<1>4. \A i \in 1 .. Len(q) : q[i].future \in Futures
  BY <1>3 DEF Kept
<1>5. /\ gone \cap Workers = {} /\ gone \subseteq Futures
      /\ \A f \in kept \cap Futures : Alive(f)
  <2>0. PolledOnce
    BY DEF StoresInv, IInv, Polling
  <2>1. \A i \in stay + 1 .. Len(q) : i \in 1 .. Len(q)
    BY <1>3
  <2>2. \A f \in gone : f \in Futures /\ Alive(f)
    BY <1>4, <2>0, <2>1 DEF PolledOnce, Alive
  <2> QED BY <1>1, <1>2, <2>2
<1>6. lists \in Seq(Seq(Depths))
  <2>1. ASSUME NEW i \in 1 .. m
        PROVE  guards[q[stay + i].future] \in Seq(Depths)
    <3>1. stay + i \in 1 .. Len(q)
      BY <1>3
    <3>2. q[stay + i].future \in Actors
      BY <1>4, <3>1 DEF Actors
    <3> QED BY <1>1, <3>2 DEF Stores
  <2>2. lists \in [1 .. m -> Seq(Depths)]
    BY <2>1
  <2> HIDE DEF lists, m
  <2> QED BY <1>3, <2>2, SeqDef
<1>7. Caller(w, stay + 1) \in Actors
  <2>1. Shape /\ PolledOnce /\ stay + 1 \in 1 .. Len(calls[w]) + 1
    BY <1>3 DEF StoresInv, IInv, Polling
  <2> QED BY <2>1, CallerKind
<1> HIDE DEF gone, lists, q, m
<1>8. FlattenSeq(lists) \in Seq(Depths)
  BY <1>6, FlattenType
<1>9. calls' \in [Workers -> Seq(Kept)]
  <2>1. 1 \in Int /\ stay \in Int /\ \A i \in 1 .. stay : q[i] \in Kept
    BY <1>3
  <2>2. SubSeq(q, 1, stay) \in Seq(Kept)
    BY <2>1, SubSeqProperties
  <2> QED BY <1>1, <1>2, <2>2 DEF Stores, q
<1>10. c \in Optional
  BY <1>1 DEF Stores, Optional
<1> HIDE DEF c
<1>11. disturbed' \subseteq Actors
  BY <1>1, <1>2, <1>5, <1>7 DEF Stores, Actors
<1> QED BY <1>2, <1>5, <1>8, <1>9, <1>10, <1>11, GoneStores

-----------------------------------------------------------------------------
(* The theorems with panics and cancellations *)

\* Every step of Spec keeps the contexts.
LEMMA NextStoresInv == StoresInv /\ [Next]_vars => StoresInv'
<1> SUFFICES ASSUME StoresInv, [Next]_vars PROVE StoresInv'
  OBVIOUS
<1>1. IInv'
  <2>1. IInv /\ [Next]_vars
    BY DEF StoresInv
  <2> QED BY <2>1, NextIInv
<1>2. ASSUME NEW w \in Workers, Step(w)
      PROVE  Stores'
  <2>1. ASSUME Use(w)
        PROVE  Stores'
    BY <2>1, UseStores
  <2>2. ASSUME NEW f \in Futures, NEW g \in Futures \cup {NoFuture},
               Create(w, f, g)
        PROVE  Stores'
    BY <2>2, CreateStores
  <2>3. ASSUME NEW f \in Futures, PollFuture(w, f)
        PROVE  Stores'
    BY <2>3, PollStores
  <2>4. ASSUME NEW done \in BOOLEAN, Return(w, done)
        PROVE  Stores'
    BY <2>4, ReturnStores
  <2> QED BY <1>2, <2>1, <2>2, <2>3, <2>4 DEF Step, Turn
<1>3. ASSUME NEW w \in Workers, NEW f \in Futures, Cancel(w, f)
      PROVE  Stores'
  BY <1>3, CancelStores
<1>4. ASSUME NEW w \in Workers, NEW inWindow \in BOOLEAN, PanicsWhere(w, inWindow)
      PROVE  Stores'
  BY <1>4, PanicStores DEF PanicsWhere
<1>5. ASSUME UNCHANGED vars
      PROVE  Stores'
  <2>1. /\ cell' = cell /\ calls' = calls /\ phase' = phase /\ held' = held
        /\ inner' = inner /\ guards' = guards /\ own' = own /\ disturbed' = disturbed
    BY <1>5 DEF vars
  <2>2. Stores
    BY DEF StoresInv
  <2> QED BY <2>1, <2>2 DEF Stores, Alive
<1>6. ASSUME Next
      PROVE  Stores'
  BY <1>2, <1>3, <1>4, <1>6, Zenon DEF Next, Steps, Cancels, Panics
<1>7. Stores'
  BY <1>5, <1>6, Zenon
<1> QED BY <1>1, <1>7, Zenon DEF StoresInv

\* Every store of the system is one that the operations on stores can make:
\* whatever panics, wherever it is caught, and wherever futures are dropped with
\* how many guards (future_ext.rs, WithContext).
THEOREM SpecStoresInv == Spec => []StoresInv
<1>1. Init => StoresInv
  BY InitStoresInv
<1>2. StoresInv /\ [Next]_vars => StoresInv'
  BY NextStoresInv
<1> QED BY <1>1, <1>2, PTL DEF Spec

\* The types of cells, polls, futures and guards, with panics and cancellations
\* anywhere (future_ext.rs, WithContext).
THEOREM SpecTypeOK == Spec => []TypeOK
<1>1. StoresInv => TypeOK
  <2> SUFFICES ASSUME StoresInv PROVE TypeOK
    OBVIOUS
  <2>1. Stores /\ SoundStores \subseteq Store
    BY DEF StoresInv, SoundStores
  <2>2. calls \in [Workers -> Seq(Poll)]
    <3>1. Kept \subseteq Poll
      BY <2>1 DEF Kept, Optional, Poll
    <3>2. calls \in [Workers -> Seq(Kept)]
      BY <2>1 DEF Stores
    <3>3. \A w \in Workers : calls[w] \in Seq(Poll)
      <4> SUFFICES ASSUME NEW w \in Workers  PROVE calls[w] \in Seq(Poll)
        OBVIOUS
      <4> DEFINE q == calls[w]
      <4>1. q \in Seq(Kept)
        BY <3>2
      <4> HIDE DEF q
      <4>2. Len(q) \in Nat /\ q \in [1 .. Len(q) -> Kept]
        BY <4>1
      <4>3. q \in [1 .. Len(q) -> Poll]
        BY <3>1, <4>2
      <4>4. q \in Seq(Poll)
        BY <4>2, <4>3, SeqDef
      <4> QED BY <4>4 DEF q
    <3> QED BY <3>2, <3>3
  <2>3. guards \in [Actors -> Seq(Nat)]
    <3>1. ASSUME NEW a \in Actors  PROVE guards[a] \in Seq(Nat)
      <4> DEFINE q == guards[a]
      <4>1. q \in Seq(Depths)
        BY <2>1 DEF Stores
      <4> HIDE DEF q
      <4>2. Len(q) \in Nat /\ q \in [1 .. Len(q) -> Depths]
        BY <4>1
      <4>3. q \in [1 .. Len(q) -> Nat]
        BY <4>2 DEF Depths
      <4>4. q \in Seq(Nat)
        BY <4>2, <4>3, SeqDef
      <4> QED BY <4>4 DEF q
    <3> QED BY <2>1, <3>1 DEF Stores
  <2>4. cell \in [Workers -> Store \cup {NoStore}]
    BY <2>1 DEF Stores, Optional
  <2>5. held \in [Futures -> Store \cup {NoStore}]
    BY <2>1 DEF Stores, Optional
  <2>6. own \in [Actors -> Store \cup {NoStore}]
    BY <2>1 DEF Stores, Optional
  <2> QED BY <2>1, <2>2, <2>3, <2>4, <2>5, <2>6 DEF Stores, TypeOK
<1> QED BY <1>1, SpecStoresInv, PTL

=============================================================================
