--------------------------- MODULE PromiseOutcomes ---------------------------
(***************************************************************************)
(* What the promises that all(), allSettled(), any(), race() and finally() *)
(* return are settled as, whatever scripts do meanwhile: the operations    *)
(* keep the claims of PromiseProofs, one after the other, and              *)
(* OutcomesMatch follows from them.                                        *)
(***************************************************************************)
EXTENDS PromiseProofs

-----------------------------------------------------------------------------
(* What scripts do leaves alone the promises that claims are about.          *)

\* The claims of promise p are the same.
Unclaimed(s, t, p) ==
    \A i : /\ AggregateOf(t, p, i) <=> AggregateOf(s, p, i)
           /\ FinallyOf(t, p, i) <=> FinallyOf(s, p, i)
           /\ InnerOf(t, p, i) <=> InnerOf(s, p, i)
           /\ FinallyOf(s, p, i) => t.finallys[i] = s.finallys[i]

Spares(s, t) ==
    /\ SameCells(s, t)
    /\ \A p \in 1..Len(s.promises) :
          /\ Unclaimed(s, t, p)
          /\ ~Free(s, p) => t.promises[p].state = s.promises[p].state
    /\ \A x : Has(t, x) => Has(s, x) \/ x.cell \notin 1..Len(s.cells)

LEMMA SparesTransitive ==
    ASSUME NEW s, NEW t, NEW u, Typed(s), Typed(t), Typed(u), Grows(s, t), Spares(s, t),
           Spares(t, u)
    PROVE  Spares(s, u)
<1>1. 1..Len(s.cells) \subseteq 1..Len(t.cells) /\ 1..Len(s.promises) \subseteq 1..Len(t.promises)
  BY Later
<1>2. SameCells(s, u)
  BY <1>1 DEF Spares, SameCells
<1>3. ASSUME NEW p \in 1..Len(s.promises)
      PROVE  Unclaimed(s, u, p) /\ (~Free(s, p) => u.promises[p].state = s.promises[p].state)
  <2>1. Unclaimed(s, t, p) /\ Unclaimed(t, u, p) /\ p \in 1..Len(t.promises)
    BY <1>1 DEF Spares
  <2>2. Unclaimed(s, u, p) /\ (~Free(s, p) => ~Free(t, p))
    BY <2>1 DEF Unclaimed, Free
  <2> QED BY <2>1, <2>2 DEF Spares
<1>4. \A x : Has(u, x) => Has(s, x) \/ x.cell \notin 1..Len(s.cells)
  BY <1>1 DEF Spares
<1> QED BY <1>2, <1>3, <1>4 DEF Spares

\* What follows makes no claims.
LEMMA FollowsUnclaimed ==
    ASSUME NEW s, NEW t, Typed(s), Typed(t), Follows(s, t), NEW p
    PROVE  Unclaimed(s, t, p) /\ SameCells(s, t)
<1>1. \A i : /\ AggregateOf(t, p, i) <=> AggregateOf(s, p, i)
             /\ FinallyOf(t, p, i) <=> FinallyOf(s, p, i)
             /\ InnerOf(t, p, i) <=> InnerOf(s, p, i)
  BY ClaimsKept
<1>2. t.finallys = s.finallys /\ SameCells(s, t)
  BY DEF Follows
<1> QED BY <1>1, <1>2 DEF Unclaimed

LEMMA FollowsSpares ==
    ASSUME NEW s, NEW t, Typed(s), Typed(t), Follows(s, t),
           \A p \in 1..Len(s.promises) :
              ~Free(s, p) => t.promises[p].state = s.promises[p].state,
           \A x : Has(t, x) => Has(s, x) \/ x.cell \notin 1..Len(s.cells)
    PROVE  Spares(s, t)
BY FollowsUnclaimed DEF Spares

LEMMA KeepsSpares ==
    ASSUME NEW s, NEW t, NEW X, NEW p, Typed(s), Keeps(s, t, X, p), Free(s, p)
    PROVE  Spares(s, t)
<1>1. Typed(t) /\ Follows(s, t) /\ OnlySettles(s, t, p)
  BY DEF Keeps, Kept, Good, Sound
<1>2. \A q \in 1..Len(s.promises) : ~Free(s, q) => t.promises[q].state = s.promises[q].state
  BY <1>1 DEF OnlySettles
<1>3. \A x : Has(t, x) => Has(s, x)
  BY <1>1 DEF OnlySettles
<1> QED BY <1>1, <1>2, <1>3, FollowsSpares

\* What an operation of a script leads to.
Leads(s, t) == Owned(t) /\ Grows(s, t) /\ Spares(s, t)

\* ... without a claim.
Goes(s, t) ==
    /\ Leads(s, t) /\ Follows(s, t)
    /\ t.aggregates = s.aggregates /\ t.contexts = s.contexts /\ t.finallys = s.finallys

LEMMA GoesTransitive ==
    ASSUME NEW s, NEW t, NEW u, Typed(s), Typed(t), Typed(u), Goes(s, t), Goes(t, u)
    PROVE  Goes(s, u)
BY GrowsTransitive, SparesTransitive, FollowsTransitive DEF Goes, Leads

LEMMA LeadsTransitive ==
    ASSUME NEW s, NEW t, NEW u, Typed(s), Typed(t), Typed(u), Leads(s, t), Leads(t, u)
    PROVE  Leads(s, u)
BY GrowsTransitive, SparesTransitive DEF Leads

LEMMA GoesReflexive ==
    ASSUME NEW s, Typed(s), Owned(s)
    PROVE  Goes(s, s)
<1>1. Follows(s, s)
  BY FollowsReflexive
<1>2. Spares(s, s)
  BY <1>1, FollowsSpares
<1> QED BY <1>1, <1>2 DEF Goes, Leads, Follows

LEMMA KeepsGoes ==
    ASSUME NEW s, NEW t, NEW X, NEW p, Typed(s), Keeps(s, t, X, p), Free(s, p)
    PROVE  Goes(s, t)
<1>1. Spares(s, t)
  BY KeepsSpares
<1>2. Grows(s, t) /\ t.finallys = s.finallys
  BY DEF Keeps, Follows
<1> QED BY <1>1, <1>2 DEF Goes, Leads, Keeps, OnlySettles

LEMMA CapabilityGoes ==
    ASSUME NEW s, NEW X, Good(s, X), Owned(s), NEW e \in BOOLEAN,
           NEW t, t = njs_promise_new_capability(s, e)
    PROVE  Goes(s, t)
<1>1. /\ Good(t, X) /\ Owned(t) /\ Follows(s, t)
      /\ t.aggregates = s.aggregates /\ t.contexts = s.contexts /\ t.finallys = s.finallys
      /\ \A f : Has(t, f) => Has(s, f)
  BY CapabilityOwned
<1>2. Typed(s) /\ Typed(t)
  BY <1>1 DEF Good, Sound
<1>3. \A p \in 1..Len(s.promises) : t.promises[p].state = s.promises[p].state
  BY <1>2, CapabilityParts DEF Creating
<1>4. Spares(s, t)
  BY <1>1, <1>2, <1>3, FollowsSpares
<1> QED BY <1>1, <1>4 DEF Goes, Leads, Follows

-----------------------------------------------------------------------------
(* Promise.resolve() and await.                                              *)

\* The promise that a value is resolved to is new, or is the value.
LEMMA PromiseResolveOwned ==
    ASSUME NEW s, NEW X, Good(s, X), Owned(s), NEW v \in ValuesOf(SizesOf(s)),
           NEW r, r = njs_promise_resolve(s, v)
    PROVE  Goes(s, r.vm)
<1>1. Typed(s)
  BY DEF Good, Sound
<1>2. CASE v.kind = "promise"
  <2>1. r.vm = s
    BY <1>2 DEF njs_promise_resolve
  <2> QED BY <1>1, <2>1, GoesReflexive
<1>3. CASE v.kind # "promise"
  <2> DEFINE t == njs_promise_new_capability(s, FALSE)
             u == njs_promise_resolve_function(t, Len(t.cells), v)
  <2>1. r.vm = u
    BY <1>3 DEF njs_promise_resolve
  <2>2. t = njs_promise_new_capability(s, FALSE)
    OBVIOUS
  <2> HIDE DEF t
  <2>3. u = njs_promise_resolve_function(t, Len(t.cells), v)
    OBVIOUS
  <2> HIDE DEF u
  <2>4. /\ Good(t, X) /\ Owned(t) /\ Len(t.cells) = Len(s.cells) + 1
        /\ PromiseOf(t, Len(t.cells)) = Len(t.promises) /\ Free(t, Len(t.promises))
    BY <2>2, CapabilityOwned
  <2>5. Goes(s, t) /\ Typed(t)
    BY <2>2, <2>4, CapabilityGoes DEF Good, Sound
  <2>6. Len(t.cells) \in 1..Len(t.cells)
    BY <1>1, <2>4, ClaimsTyped
  <2>7. v \in ValuesOf(SizesOf(t))
    BY <1>1, <2>5, Later DEF Goes, Leads
  <2>8. Free(t, PromiseOf(t, Len(t.cells)))
    BY <2>4
  <2>9. Keeps(t, u, X, PromiseOf(t, Len(t.cells)))
    BY <2>3, <2>4, <2>6, <2>7, <2>8, ResolveOwned DEF Allows
  <2>10. Goes(t, u) /\ Typed(u)
    BY <2>5, <2>8, <2>9, KeepsGoes DEF Keeps, Kept, Good, Sound
  <2> QED BY <1>1, <2>1, <2>5, <2>10, GoesTransitive
<1> QED BY <1>2, <1>3

\* A reaction that derives no promise.
LEMMA ThenGoes ==
    ASSUME NEW s, NEW X, Good(s, X), Owned(s), NEW p \in 1..Len(s.promises),
           NEW f \in HandlersOf(SizesOf(s)), NEW r \in HandlersOf(SizesOf(s)),
           f.kind = "await" \/ r.kind = "await" => f = r,
           \A x : Halves(p, Reaction(s, f, r, NoCell), x) => Route(s, x),
           NEW t, t = njs_promise_perform_then(s, p, f, r, NoCell)
    PROVE  Goes(s, t)
<1> DEFINE e == Reaction(s, f, r, NoCell)
<1>1. Typed(s) /\ Sound(s)
  BY DEF Good, Sound
<1>2. NoCell \in 0..Len(s.cells) /\ Unshared(s, NoCell)
  BY <1>1, ClaimsTyped DEF NoCell, Unshared
<1>3. /\ Owned(t) /\ Follows(s, t) /\ Registering(s, t, p, e)
      /\ \A x : Has(t, x) => Has(s, x) \/ Halves(p, e, x)
  BY <1>2, ThenOwned
<1>4. Typed(t) /\ Grows(s, t)
  BY <1>1, <1>2, ThenSound DEF Sound
<1>5. \A q \in 1..Len(s.promises) : t.promises[q].state = s.promises[q].state
  BY <1>3 DEF Registering, SameStates
<1>6. \A x : Halves(p, e, x) => x.cell = NoCell
  BY DEF Halves, Half, Entry, Reaction
<1>7. \A x : Has(t, x) => Has(s, x) \/ x.cell \notin 1..Len(s.cells)
  <2> HIDE DEF e
  <2>1. NoCell \notin 1..Len(s.cells)
    BY <1>1, ClaimsTyped DEF NoCell
  <2> QED BY <1>3, <1>6, <2>1
<1>8. Spares(s, t)
  BY <1>1, <1>3, <1>4, <1>5, <1>7, FollowsSpares
<1> QED BY <1>3, <1>4, <1>8 DEF Goes, Leads, Registering

LEMMA AwaitGoes ==
    ASSUME NEW s, NEW X, Good(s, X), Owned(s), NEW x \in X, NEW v \in ValuesOf(SizesOf(s)),
           NEW t, t = njs_vmcode_await(s, x, v)
    PROVE  Goes(s, t)
<1> DEFINE r == njs_promise_resolve(s, v)
           u == r.vm
           p == r.promise
           h == Handler("await", x)
<1>1. r = njs_promise_resolve(s, v)
  OBVIOUS
<1>2. t = njs_promise_perform_then(u, p, h, h, NoCell)
  BY DEF njs_vmcode_await
<1> HIDE DEF r
<1>3. /\ Good(u, X) /\ Grows(s, u) /\ p \in 1..Len(u.promises)
      /\ Len(u.contexts) = Len(s.contexts)
  BY <1>1, PromiseResolveGood
<1>4. Goes(s, u)
  BY <1>1, PromiseResolveOwned
<1>5. Typed(s) /\ Typed(u)
  BY <1>3 DEF Good, Sound
<1> HIDE DEF u, p
<1>6. x \in 1..Len(u.contexts) /\ x \in Nat
  BY <1>3, <1>5, Elements DEF Good, Awaited
<1>7. h \in HandlersOf(SizesOf(u)) /\ h.kind = "await"
  <2>1. x \in 1..SizesOf(u).contexts
    BY <1>6 DEF SizesOf
  <2> QED BY <1>6, <2>1, HandlerTyped DEF HandlerKinds
<1>8. \A y : Halves(p, Reaction(u, h, h, NoCell), y) => Route(u, y)
  <2> SUFFICES ASSUME NEW y, Halves(p, Reaction(u, h, h, NoCell), y) PROVE Route(u, y)
    OBVIOUS
  <2>1. y.handler = h /\ y.cell = NoCell
    BY DEF Halves, Half, Entry, Reaction
  <2> QED BY <1>7, <2>1 DEF Route
<1> HIDE DEF h
<1>9. Goes(u, t)
  BY <1>2, <1>3, <1>4, <1>7, <1>8, ThenGoes DEF Goes, Leads
<1>10. Typed(t)
  <2>1. NoCell \in 0..Len(u.cells)
    BY <1>5, ClaimsTyped DEF NoCell
  <2> QED BY <1>2, <1>3, <1>7, <2>1, ThenSound DEF Good, Sound
<1> QED BY <1>4, <1>5, <1>9, <1>10, GoesTransitive

-----------------------------------------------------------------------------
(* Async functions.                                                          *)

\* Only contexts have changed, or come for promises without claims.
LEMMA ContextsOwned ==
    ASSUME NEW s, NEW t, Typed(s), Typed(t), Owned(s), Grows(s, t),
           t.promises = s.promises, t.cells = s.cells, t.jobs = s.jobs,
           t.reactions = s.reactions, t.aggregates = s.aggregates, t.finallys = s.finallys,
           \A k \in 1..Len(t.contexts) :
              \/ k \in 1..Len(s.contexts) /\ t.contexts[k].cell = s.contexts[k].cell
              \/ Free(s, PromiseOf(s, t.contexts[k].cell))
    PROVE  Leads(s, t)
<1>1. NoneAdded(s, t)
  BY DEF NoneAdded
<1>2. SameOrPending(s, t) /\ SameCells(s, t)
  BY DEF SameOrPending, SameCells
<1>3. Calm(s, t)
  BY <1>2 DEF Calm
<1>4. Exposes(s, t)
  <2>1. \A k : PromiseOf(t, k) = PromiseOf(s, k)
    BY DEF PromiseOf
  <2> QED BY <2>1 DEF Exposes
<1>5. Owned(t) /\ Follows(s, t)
  BY <1>1, <1>3, <1>4, CalmOwned
<1>6. \A x : Has(t, x) => Has(s, x)
  BY <1>1, NoneHas
<1>7. Spares(s, t)
  BY <1>5, <1>6, FollowsSpares
<1> QED BY <1>5, <1>7 DEF Leads

LEMMA InvokeLeads ==
    ASSUME NEW s, NEW X, Good(s, X), Owned(s), NEW v \in ValuesOf(SizesOf(s)),
           NEW t, t = njs_async_function_frame_invoke(s, v)
    PROVE  Leads(s, t)
<1> DEFINE c == njs_promise_new_capability(s, FALSE)
           n == Len(c.cells)
           u == [c EXCEPT !.contexts = Append(@, [cell |-> n, live |-> TRUE])]
           k == Len(u.contexts)
<1>1. c = njs_promise_new_capability(s, FALSE)
  OBVIOUS
<1>2. t = njs_vmcode_await(u, k, v)
  BY DEF njs_async_function_frame_invoke
<1>3. u = [c EXCEPT !.contexts = Append(@, [cell |-> n, live |-> TRUE])]
  OBVIOUS
<1> HIDE DEF c
<1>4. /\ Good(c, X) /\ Owned(c) /\ PromiseOf(c, n) = Len(c.promises)
      /\ Len(c.cells) = Len(s.cells) + 1 /\ Free(c, Len(c.promises)) /\ Goes(s, c)
  BY <1>1, CapabilityOwned, CapabilityGoes
<1> HIDE DEF u
<1>5. Typed(s) /\ Typed(c) /\ n \in 1..Len(c.cells) /\ Free(c, PromiseOf(c, n))
  <2>1. Typed(s) /\ Typed(c)
    BY <1>4 DEF Good, Sound
  <2>2. Len(s.cells) \in Nat
    BY <2>1, ClaimsTyped
  <2> QED BY <1>4, <2>1, <2>2
<1> HIDE DEF n, k
<1>6. /\ Good(u, X \cup {Len(u.contexts)}) /\ Grows(c, u) /\ Len(u.contexts) \notin X
      /\ u.promises = c.promises /\ u.cells = c.cells /\ u.jobs = c.jobs
      /\ u.reactions = c.reactions /\ u.aggregates = c.aggregates
      /\ u.finallys = c.finallys
      /\ u.contexts = Append(c.contexts, [cell |-> n, live |-> TRUE])
  <2>1. Good(c, X) /\ n \in 1..Len(c.cells)
    BY <1>4, <1>5
  <2>2. /\ Good(u, X \cup {Len(u.contexts)}) /\ Grows(c, u)
        /\ Len(u.contexts) \notin X
    BY ONLY <1>3, <2>1, StartsGood
  <2>3. /\ u.promises = c.promises /\ u.cells = c.cells /\ u.jobs = c.jobs
        /\ u.reactions = c.reactions /\ u.aggregates = c.aggregates
        /\ u.finallys = c.finallys
    BY ONLY <1>3, <2>1, StartsGood
  <2>4. u.contexts = Append(c.contexts, [cell |-> n, live |-> TRUE])
    BY ONLY <1>3, <2>1, StartsGood
  <2> QED BY <2>2, <2>3, <2>4
<1>7. Typed(u)
  BY <1>6 DEF Good, Sound
<1>8. \A i \in 1..Len(u.contexts) :
         \/ i \in 1..Len(c.contexts) /\ u.contexts[i].cell = c.contexts[i].cell
         \/ Free(c, PromiseOf(c, u.contexts[i].cell))
  <2> DEFINE e == [cell |-> n, live |-> TRUE]
  <2>1. c.contexts \in Seq(ContextsOf(SizesOf(c))) /\ e \in ContextsOf(SizesOf(c))
    <3>1. n \in 0..SizesOf(c).cells
      BY <1>5, ClaimsTyped DEF SizesOf
    <3> QED BY <1>5, <3>1, Fields DEF Typed, ContextsOf
  <2>2. e.cell = n /\ u.contexts = Append(c.contexts, e)
    BY <1>6
  <2> HIDE DEF e
  <2>3. /\ Len(u.contexts) = Len(c.contexts) + 1 /\ Len(c.contexts) \in Nat
        /\ \A i \in 1..Len(c.contexts) : u.contexts[i] = c.contexts[i]
        /\ u.contexts[Len(c.contexts) + 1] = e
    BY <2>1, <2>2, AppendProperties, LenProperties
  <2> SUFFICES ASSUME NEW i \in 1..Len(u.contexts), i \notin 1..Len(c.contexts)
               PROVE  Free(c, PromiseOf(c, u.contexts[i].cell))
    BY <2>3
  <2>4. i = Len(c.contexts) + 1
    BY <2>3
  <2> QED BY <1>5, <2>2, <2>3, <2>4
<1>9. Leads(c, u)
  BY ONLY <1>4, <1>5, <1>6, <1>7, <1>8, ContextsOwned
<1>10. v \in ValuesOf(SizesOf(u))
  <2>1. v \in ValuesOf(SizesOf(c))
    BY <1>4, <1>5, Later DEF Goes, Leads
  <2> QED BY <1>5, <1>6, <1>7, <2>1, Later
<1>11. k \in X \cup {k} /\ Good(u, X \cup {k})
  BY <1>6 DEF k
<1>12. Goes(u, t)
  BY <1>2, <1>9, <1>10, <1>11, AwaitGoes DEF Leads
<1>13. Typed(t)
  <2>1. Good(t, (X \cup {k}) \ {k})
    BY <1>2, <1>10, <1>11, AwaitGood
  <2> QED BY <2>1 DEF Good, Sound
<1>14. Leads(c, t)
  BY <1>5, <1>7, <1>9, <1>12, <1>13, LeadsTransitive DEF Goes
<1> QED BY <1>4, <1>5, <1>13, <1>14, LeadsTransitive DEF Goes

\* What nothing is created or settled by.
LEMMA SameSizesGrow ==
    ASSUME NEW s, NEW t, Typed(s), t.promises = s.promises, t.cells = s.cells,
           t.reactions = s.reactions, Len(t.aggregates) = Len(s.aggregates),
           Len(t.contexts) = Len(s.contexts)
    PROVE  Grows(s, t)
<1>1. SizesOf(t) = SizesOf(s) /\ SizesOf(s) \in Sizes
  BY SizesTyped DEF SizesOf, Typed
<1>2. AtMost(SizesOf(s), SizesOf(t))
  BY <1>1 DEF AtMost, Sizes
<1> QED BY <1>2 DEF Grows

\* The context is freed.
LEMMA FreesContext ==
    ASSUME NEW u, Typed(u), NEW x \in 1..Len(u.contexts),
           NEW t, t = [u EXCEPT !.contexts[x].live = FALSE]
    PROVE  /\ t.promises = u.promises /\ t.cells = u.cells /\ t.jobs = u.jobs
           /\ t.reactions = u.reactions /\ t.aggregates = u.aggregates
           /\ t.finallys = u.finallys /\ Len(t.contexts) = Len(u.contexts)
           /\ \A k \in 1..Len(u.contexts) : t.contexts[k].cell = u.contexts[k].cell
<1> DEFINE q == [u.contexts[x] EXCEPT !.live = FALSE]
           y == [u.contexts EXCEPT ![x] = q]
<1>1. u.contexts[x] \in ContextsOf(SizesOf(u)) /\ u.contexts \in Seq(ContextsOf(SizesOf(u)))
  BY Elements, Fields DEF Typed
<1>2. q \in ContextsOf(SizesOf(u)) /\ q.cell = u.contexts[x].cell
  BY <1>1 DEF ContextsOf
<1>3. /\ Len(y) = Len(u.contexts) /\ y[x] = q
      /\ \A i \in 1..Len(u.contexts) : i # x => y[i] = u.contexts[i]
  <2> HIDE DEF q
  <2> QED BY <1>1, <1>2, ExceptSeq
<1>4. u = [promises |-> u.promises, cells |-> u.cells, jobs |-> u.jobs,
           aggregates |-> u.aggregates, contexts |-> u.contexts,
           tracking |-> u.tracking, rejected |-> u.rejected,
           reactions |-> u.reactions, ran |-> u.ran, finallys |-> u.finallys]
  BY Record
<1>5. t = [u EXCEPT !.contexts = y]
  BY <1>4
<1> HIDE DEF y, q
<1>6. /\ t.promises = u.promises /\ t.cells = u.cells /\ t.jobs = u.jobs
      /\ t.reactions = u.reactions /\ t.aggregates = u.aggregates
      /\ t.finallys = u.finallys /\ t.contexts = y
  BY ONLY <1>4, <1>5
<1> QED BY <1>2, <1>3, <1>6

LEMMA EndsLeads ==
    ASSUME NEW s, NEW X, Good(s, X), Owned(s), NEW x \in X, NEW b \in BOOLEAN,
           NEW v \in ValuesOf(SizesOf(s)), NEW t, t = AsyncEnds(s, x, b, v)
    PROVE  Leads(s, t)
<1> DEFINE c == s.contexts[x].cell
           u == Settle(s, c, b, v)
<1>1. t = [u EXCEPT !.contexts[x].live = FALSE]
  BY DEF AsyncEnds
<1>2. u = Settle(s, c, b, v)
  OBVIOUS
<1> HIDE DEF u
<1>3. Typed(s) /\ x \in 1..Len(s.contexts)
  BY DEF Good, Sound, Awaited
<1>4. c \in 0..Len(s.cells) /\ Free(s, PromiseOf(s, c))
  <2>1. s.contexts[x] \in ContextsOf(SizesOf(s))
    BY <1>3, Elements DEF Typed
  <2> QED BY <1>3, <2>1 DEF ContextsOf, SizesOf, Owned, Frees
<1> HIDE DEF c
<1>5. Keeps(s, u, X, PromiseOf(s, c))
  BY <1>2, <1>4, SettleOwned DEF Allows
<1>6. Goes(s, u) /\ Typed(u) /\ Good(u, X) /\ Leads(s, u) /\ Owned(u)
  <2>1. Typed(u) /\ Good(u, X) /\ Owned(u)
    BY <1>5 DEF Keeps, Kept, Good, Sound
  <2> QED BY <1>3, <1>4, <1>5, <2>1, KeepsGoes DEF Goes
<1>7. x \in 1..Len(u.contexts)
  BY <1>3, <1>6 DEF Goes
<1>8. /\ t.promises = u.promises /\ t.cells = u.cells /\ t.jobs = u.jobs
      /\ t.reactions = u.reactions /\ t.aggregates = u.aggregates
      /\ t.finallys = u.finallys /\ Len(t.contexts) = Len(u.contexts)
      /\ \A k \in 1..Len(u.contexts) : t.contexts[k].cell = u.contexts[k].cell
  BY ONLY <1>1, <1>6, <1>7, FreesContext
<1>9. Typed(t)
  <2>1. Good(t, X \ {x})
    BY EndsGood
  <2> QED BY <2>1 DEF Good, Sound
<1>10. Grows(u, t)
  BY <1>6, <1>8, SameSizesGrow
<1>11. Leads(u, t)
  BY <1>6, <1>8, <1>9, <1>10, ContextsOwned
<1> QED BY <1>3, <1>6, <1>9, <1>11, LeadsTransitive

-----------------------------------------------------------------------------
(* then() on behalf of scripts.                                              *)

\* A handler that settles nothing by itself.
Passive(h) == h.kind \notin {"await", "element", "resolve", "reject"}

\* A reaction for pair c, whose promise nothing refers to yet.
LEMMA DerivedOwned ==
    ASSUME NEW s, NEW X, Good(s, X), Owned(s), NEW p \in 1..Len(s.promises),
           NEW f \in HandlersOf(SizesOf(s)), NEW r \in HandlersOf(SizesOf(s)),
           Passive(f), Passive(r), NEW c \in 1..Len(s.cells), Alone(s, PromiseOf(s, c)),
           \A x : Halves(p, Reaction(s, f, r, c), x) => Derives(s, PromiseOf(s, c), x),
           NEW t, t = njs_promise_perform_then(s, p, f, r, c)
    PROVE  /\ Owned(t) /\ Follows(s, t) /\ Registering(s, t, p, Reaction(s, f, r, c))
           /\ \A x : Has(t, x) => Has(s, x) \/ x.cell = c
           /\ \A q \in 1..Len(s.promises) : t.promises[q].state = s.promises[q].state
<1> DEFINE e == Reaction(s, f, r, c)
<1>1. Unshared(s, c)
  BY DEF Unshared, Alone
<1>2. c \in 0..Len(s.cells)
  BY ClaimsTyped DEF Good, Sound
<1>3. \A x : Halves(p, e, x) => x.cell = c /\ x.handler \in {f, r}
  BY DEF Halves, Half, Entry, Reaction
<1>4. \A x : Halves(p, e, x) => Route(s, x)
  <2> SUFFICES ASSUME NEW x, Halves(p, e, x) PROVE Route(s, x)
    OBVIOUS
  <2>1. x.cell = c /\ x.handler \in {f, r} /\ Derives(s, PromiseOf(s, c), x)
    BY <1>3
  <2> QED BY <2>1 DEF Route, Passive
<1>5. f.kind = "await" \/ r.kind = "await" => f = r
  BY DEF Passive
<1>6. /\ Owned(t) /\ Follows(s, t) /\ Registering(s, t, p, e)
      /\ \A x : Has(t, x) => Has(s, x) \/ Halves(p, e, x)
  BY <1>1, <1>2, <1>4, <1>5, ThenOwned
<1> QED BY <1>3, <1>6 DEF Registering, SameStates

LEMMA PrototypeThenGoes ==
    ASSUME NEW s, NEW X, Good(s, X), Owned(s), NEW p \in 1..Len(s.promises),
           NEW f \in HandlersOf(SizesOf(s)), NEW r \in HandlersOf(SizesOf(s)),
           Passive(f), Passive(r), NEW t, t = njs_promise_prototype_then(s, p, f, r)
    PROVE  /\ Goes(s, t) /\ Free(t, Len(t.promises)) /\ Unshared(s, Len(t.cells))
           /\ PromiseOf(t, Len(t.cells)) = Len(t.promises) /\ ~Settled(t, Len(t.promises))
<1> DEFINE u == njs_promise_new_capability(s, FALSE)
           c == Len(u.cells)
           m == Len(u.promises)
<1>1. u = njs_promise_new_capability(s, FALSE)
  OBVIOUS
<1>2. t = njs_promise_perform_then(u, p, f, r, c)
  BY DEF njs_promise_prototype_then
<1> HIDE DEF u
<1>3. /\ Good(u, X) /\ Owned(u) /\ Follows(s, u) /\ Goes(s, u)
      /\ m = Len(s.promises) + 1 /\ c = Len(s.cells) + 1
      /\ PromiseOf(u, c) = m /\ Fresh(u, m)
      /\ \A x : Has(u, x) => Has(s, x)
  BY <1>1, CapabilityOwned, CapabilityGoes
<1>4. Typed(s) /\ Typed(u) /\ Len(s.cells) \in Nat /\ Len(s.promises) \in Nat /\ Grows(s, u)
  BY <1>3, SizesTyped DEF Good, Sound, Typed, Follows
<1> HIDE DEF c, m
<1>5. c \notin 1..Len(s.cells) /\ m \notin 1..Len(s.promises)
  BY <1>3, <1>4
<1>6. /\ p \in 1..Len(u.promises) /\ c \in 1..Len(u.cells)
      /\ f \in HandlersOf(SizesOf(u)) /\ r \in HandlersOf(SizesOf(u))
  <2>1. c \in 1..Len(u.cells)
    BY <1>3, <1>4 DEF c
  <2> QED BY <1>4, <2>1, Later
<1>7. \A x : Derives(u, PromiseOf(u, c), x)
  BY <1>3, FreeFits DEF Fresh
<1>8. Alone(u, PromiseOf(u, c))
  BY <1>3 DEF Fresh
<1>9. /\ Owned(t) /\ Follows(u, t) /\ Registering(u, t, p, Reaction(u, f, r, c))
      /\ \A x : Has(t, x) => Has(u, x) \/ x.cell = c
      /\ \A q \in 1..Len(u.promises) : t.promises[q].state = u.promises[q].state
  BY <1>2, <1>3, <1>6, <1>7, <1>8, DerivedOwned
<1>10. Typed(t) /\ Grows(s, t)
  <2>1. Good(t, X) /\ Grows(s, t)
    BY PrototypeThenGood DEF Passive
  <2> QED BY <2>1 DEF Good, Sound
<1>11. Follows(s, t)
  BY <1>3, <1>4, <1>9, <1>10, FollowsTransitive
<1>12. \A q \in 1..Len(s.promises) : t.promises[q].state = s.promises[q].state
  <2>1. \A q \in 1..Len(s.promises) : u.promises[q] = s.promises[q]
    <3>1. Creating(s, u, FALSE)
      BY <1>1, <1>4, CapabilityParts
    <3> QED BY <3>1 DEF Creating
  <2>2. 1..Len(s.promises) \subseteq 1..Len(u.promises)
    BY <1>4, Later
  <2> QED BY <1>9, <2>1, <2>2
<1>13. Spares(s, t)
  BY <1>3, <1>4, <1>5, <1>9, <1>10, <1>11, <1>12, FollowsSpares
<1>14. t.aggregates = s.aggregates /\ t.contexts = s.contexts /\ t.finallys = s.finallys
  BY <1>3, <1>9 DEF Goes, Registering
<1>15. Goes(s, t)
  BY <1>9, <1>10, <1>11, <1>13, <1>14 DEF Goes, Leads
<1>16. t.cells = u.cells /\ Len(t.promises) = m /\ Len(t.cells) = c
  BY <1>9 DEF Registering, c, m
<1>17. PromiseOf(t, c) = m
  BY <1>3, <1>16 DEF PromiseOf
<1>18. Free(t, m)
  BY <1>3, <1>4, <1>9, <1>10, FreeKept DEF Fresh
<1>19. Unshared(s, c)
  <2>1. \A x : Has(s, x) => x.cell \in 0..Len(s.cells)
    BY <1>4, EntryTyped DEF EntriesOf, SizesOf
  <2> QED BY <1>3, <1>4, <2>1 DEF Unshared
<1>20. ~Settled(t, m)
  <2>1. m \in 1..Len(u.promises) /\ ~Settled(u, m)
    BY <1>3, <1>4 DEF m, Fresh, Alone
  <2> QED BY <1>9, <2>1 DEF Settled
<1> QED BY <1>15, <1>16, <1>17, <1>18, <1>19, <1>20

-----------------------------------------------------------------------------
(* The functions of the elements of a list.                                  *)

\* The promise of list a is settled with an array, or with the errors.
LEMMA EndsList ==
    ASSUME NEW s, NEW X, Good(s, X), Owned(s), NEW a \in 1..Len(s.aggregates),
           NEW c, c = s.aggregates[a].cell, NEW b \in BOOLEAN, NEW k \in {"array", "errors"},
           NEW v, v = Value(k, a), AggregateFits(s, a, b, v),
           NEW t, \/ ~b /\ t = njs_promise_resolve_function(s, c, v)
                  \/ b /\ t = njs_promise_reject_function(s, c, v)
    PROVE  Keeps(s, t, X, PromiseOf(s, c))
<1> DEFINE p == PromiseOf(s, c)
<1>1. Typed(s) /\ c \in 1..Len(s.cells) /\ a \in Nat
  <2>1. Typed(s)
    BY DEF Good, Sound
  <2>2. Len(s.aggregates) \in Nat /\ s.aggregates[a].cell \in 1..Len(s.cells)
    BY <2>1, ClaimsTyped
  <2>3. a \in Nat
    BY <2>2
  <2> QED BY <2>1, <2>2, <2>3
<1>2. v \in ValuesOf(SizesOf(s)) /\ Final(v)
  BY <1>1 DEF Value, ValuesOf, Values_, Kinds, Final
<1>3. AggregateOf(s, p, a)
  BY DEF AggregateOf
<1>4. \A i : ~FinallyOf(s, p, i) /\ ~InnerOf(s, p, i) /\ (AggregateOf(s, p, i) => i = a)
  <2> HIDE DEF p
  <2> QED BY <1>3 DEF Owned, Apart
<1>5. Fits(s, p, b, v)
  <2> HIDE DEF p
  <2> QED BY <1>4 DEF Fits
<1>6. Underived(s, p)
  BY <1>4 DEF Underived
<1>7. Allows(s, p, b, v)
  BY <1>2, <1>5, <1>6 DEF Allows
<1>8. CASE ~b
  <2>1. t = njs_promise_resolve_function(s, c, v)
    BY <1>8
  <2>2. Allows(s, p, FALSE, v)
    BY <1>7, <1>8
  <2> HIDE DEF p
  <2>3. p = PromiseOf(s, c)
    BY DEF p
  <2>4. Keeps(s, t, X, PromiseOf(s, c))
    BY ONLY Good(s, X), Owned(s), <1>1, <1>2, <2>1, <2>2, <2>3, ResolveOwned
  <2> QED BY <2>4
<1>9. CASE b
  <2>1. t = njs_promise_reject_function(s, c, v) /\ Allows(s, p, TRUE, v)
    BY <1>7, <1>9
  <2> QED BY ONLY Good(s, X), Owned(s), <1>1, <1>2, <2>1, RejectOwned
<1> QED BY <1>8, <1>9

\* The last element function has been called: the list ends, if it was.
LEMMA LastElementOwned ==
    ASSUME NEW s, NEW X, Good(s, X), Owned(s), NEW a \in 1..Len(s.aggregates),
           s.aggregates[a].remaining <= 0,
           NEW b \in BOOLEAN, s.aggregates[a].kind \in IF b THEN {"any"} ELSE {"all", "allSettled"},
           NEW t, \/ /\ ~b
                     /\ t = njs_promise_resolve_function(s, s.aggregates[a].cell,
                                                         Value("array", a))
                  \/ /\ b
                     /\ t = njs_promise_reject_function(s, s.aggregates[a].cell,
                                                        Value("errors", a))
    PROVE  Owned(t)
<1> DEFINE v == Value(IF b THEN "errors" ELSE "array", a)
           c == s.aggregates[a].cell
<1>1. Complete(s, a)
  BY NoneRemaining DEF Owned, Lists, Good, Sound
<1>2. AggregateFits(s, a, b, v)
  BY <1>1 DEF AggregateFits
<1>3. \/ ~b /\ t = njs_promise_resolve_function(s, c, v)
      \/ b /\ t = njs_promise_reject_function(s, c, v)
  OBVIOUS
<1>4. v = Value(IF b THEN "errors" ELSE "array", a) /\ c = s.aggregates[a].cell
  OBVIOUS
<1> HIDE DEF v, c
<1>5. Keeps(s, t, X, PromiseOf(s, c))
  <2>1. (IF b THEN "errors" ELSE "array") \in {"array", "errors"}
    OBVIOUS
  <2> QED BY <1>2, <1>3, <1>4, <2>1, EndsList
<1> QED BY <1>5 DEF Keeps

LEMMA ElementOwned ==
    ASSUME NEW s, NEW X, Good(s, X), Owned(s), NEW a \in 1..Len(s.aggregates),
           NEW i \in 1..Len(s.aggregates[a].inputs), NEW b \in BOOLEAN,
           NEW v \in ValuesOf(SizesOf(s)), SettledTo(s, s.aggregates[a].inputs[i], b, v),
           s.aggregates[a].kind \in IF b THEN {"allSettled", "any"} ELSE {"all", "allSettled"},
           NEW t, t = ElementFunction(s, a, i, b, v)
    PROVE  Owned(t)
<1> DEFINE g == s.aggregates[a]
           u == ElementCalled(s, a, i, b, v)
<1>1. CASE i \in g.called
  BY <1>1 DEF ElementFunction
<1>2. CASE i \notin g.called
  <2>1. u = ElementCalled(s, a, i, b, v) /\ Typed(s)
    BY DEF Good, Sound
  <2>2. \/ /\ ~b /\ t = WithArray(u, a) /\ g.kind \in {"all", "allSettled"}
        \/ /\ b /\ t = WithArray(u, a) /\ g.kind = "allSettled"
        \/ /\ b /\ g.kind = "any"
           /\ t = IF u.aggregates[a].remaining = 0
                  THEN njs_promise_reject_function(u, u.aggregates[a].cell,
                                                   Value("errors", a))
                  ELSE u
    <3>1. CASE g.kind = "all"
      <4>1. b = FALSE
        BY <3>1
      <4> QED BY <1>2, <3>1, <4>1
              DEF ElementFunction, njs_promise_all_resolve_element_functions
    <3>2. CASE g.kind = "allSettled"
      BY <1>2, <3>2 DEF ElementFunction, njs_promise_all_settled_element_functions
    <3>3. CASE g.kind = "any"
      <4>1. b = TRUE
        BY <3>3
      <4> QED BY <1>2, <3>3, <4>1
              DEF ElementFunction, njs_promise_any_reject_element_functions
    <3> QED BY <3>1, <3>2, <3>3
  <2> HIDE DEF u
  <2>3. i \in 1..Len(g.values) /\ i \in Nat
    <3>1. Len(g.values) = Len(g.inputs) /\ Len(g.inputs) \in Nat
      BY <2>1, ClaimsTyped DEF Owned, Lists, Collected
    <3> QED BY <3>1
  <2>4. CalledWith(s, u, a, i, b, v)
    BY <2>1, <2>3, CalledParts
  <2>5. Good(u, X) /\ Grows(s, u) /\ a \in 1..Len(u.aggregates) /\ Typed(u)
    <3>1. Good(u, X) /\ Grows(s, u) /\ a \in 1..Len(u.aggregates)
      BY <2>1, <2>3, CalledGood
    <3> QED BY <3>1 DEF Good, Sound
  <2>6. Owned(u)
    <3>1. i \in 1..Len(s.aggregates[a].inputs) /\ i \notin s.aggregates[a].called
      BY <1>2
    <3>2. /\ s.aggregates[a].kind = "all" => ~b
          /\ s.aggregates[a].kind = "any" => b
      OBVIOUS
    <3>3. SettledTo(s, s.aggregates[a].inputs[i], b, v)
      OBVIOUS
    <3> HIDE DEF g
    <3> QED BY ONLY <2>1, <2>4, <2>5, <3>1, <3>2, <3>3, Owned(s), CalledOwned,
               a \in 1..Len(s.aggregates), b \in BOOLEAN
  <2>7. u.aggregates[a].kind = g.kind
    BY <2>4 DEF CalledWith
  <2>8. u.aggregates[a].remaining = 0 => u.aggregates[a].remaining <= 0
    OBVIOUS
  <2> HIDE DEF g
  <2>9. \A e \in BOOLEAN :
           /\ u.aggregates[a].remaining = 0
           /\ u.aggregates[a].kind \in IF e THEN {"any"} ELSE {"all", "allSettled"}
           /\ \/ /\ ~e
                 /\ t = njs_promise_resolve_function(u, u.aggregates[a].cell,
                                                     Value("array", a))
              \/ /\ e
                 /\ t = njs_promise_reject_function(u, u.aggregates[a].cell,
                                                    Value("errors", a))
           => Owned(t)
    BY ONLY <2>5, <2>6, <2>8, LastElementOwned
  <2>10. CASE t = WithArray(u, a) /\ g.kind \in {"all", "allSettled"}
    <3>1. CASE u.aggregates[a].remaining = 0
      <4>1. t = njs_promise_resolve_function(u, u.aggregates[a].cell, Value("array", a))
        BY <2>10, <3>1 DEF WithArray
      <4>2. u.aggregates[a].kind \in IF FALSE THEN {"any"} ELSE {"all", "allSettled"}
        BY <2>7, <2>10
      <4> QED BY <2>9, <3>1, <4>1, <4>2
    <3>2. CASE u.aggregates[a].remaining # 0
      BY <2>6, <2>10, <3>2 DEF WithArray
    <3> QED BY <3>1, <3>2
  <2>11. CASE /\ g.kind = "any"
              /\ t = IF u.aggregates[a].remaining = 0
                     THEN njs_promise_reject_function(u, u.aggregates[a].cell,
                                                      Value("errors", a))
                     ELSE u
    <3>1. CASE u.aggregates[a].remaining = 0
      <4>1. t = njs_promise_reject_function(u, u.aggregates[a].cell, Value("errors", a))
        BY <2>11, <3>1
      <4>2. u.aggregates[a].kind \in IF TRUE THEN {"any"} ELSE {"all", "allSettled"}
        BY <2>7, <2>11
      <4> QED BY <2>9, <3>1, <4>1, <4>2
    <3>2. CASE u.aggregates[a].remaining # 0
      BY <2>6, <2>11, <3>2
    <3> QED BY <3>1, <3>2
  <2> QED BY <2>2, <2>10, <2>11
<1> QED BY <1>1, <1>2

-----------------------------------------------------------------------------
(* A list is gone through.                                                   *)

\* List a is G from now on.
Relists(s, t, a, G) ==
    /\ SamePlaces(s, t) /\ t.finallys = s.finallys
    /\ Len(t.aggregates) = Len(s.aggregates) /\ t.aggregates[a] = G
    /\ \A k \in 1..Len(s.aggregates) : k # a => t.aggregates[k] = s.aggregates[k]

LEMMA RelistsParts ==
    ASSUME NEW s, Typed(s), NEW a \in 1..Len(s.aggregates),
           NEW G \in AggregatesOf(SizesOf(s)), NEW t, t = [s EXCEPT !.aggregates[a] = G]
    PROVE  Relists(s, t, a, G)
<1> DEFINE A == AggregatesOf(SizesOf(s))
<1>1. /\ s.aggregates \in Seq(A)
      /\ DOMAIN s = {"promises", "cells", "jobs", "aggregates", "contexts", "tracking",
                     "rejected", "reactions", "ran", "finallys"}
  <2>1. s.aggregates \in Seq(A)
    BY Fields DEF Typed
  <2> QED BY <2>1, Record, SMTT(20)
<1>2. t.aggregates = [s.aggregates EXCEPT ![a] = G] /\ SamePlaces(s, t)
      /\ t.finallys = s.finallys
  BY <1>1 DEF SamePlaces
<1>3. /\ Len(t.aggregates) = Len(s.aggregates) /\ t.aggregates[a] = G
      /\ \A k \in 1..Len(s.aggregates) : k # a => t.aggregates[k] = s.aggregates[k]
  <2> HIDE DEF A
  <2>1. G \in A
    BY DEF A
  <2> QED BY <1>1, <1>2, <2>1, ExceptSeq
<1> QED BY <1>2, <1>3 DEF Relists

\* The claims are of the same promises.
LEMMA RelistsSpares ==
    ASSUME NEW s, NEW t, Typed(s), NEW a \in 1..Len(s.aggregates), NEW G,
           Relists(s, t, a, G), G.cell = s.aggregates[a].cell
    PROVE  Spares(s, t) /\ Grows(s, t)
<1>1. SamePlaces(s, t) /\ Len(t.aggregates) = Len(s.aggregates) /\ t.finallys = s.finallys
  BY DEF Relists
<1>2. /\ \A x : Has(t, x) <=> Has(s, x)
      /\ \A c : PromiseOf(t, c) = PromiseOf(s, c)
  BY <1>1, SamePlacesHas
<1>3. \A k \in 1..Len(s.aggregates) : t.aggregates[k].cell = s.aggregates[k].cell
  BY DEF Relists
<1>4. \A p : Unclaimed(s, t, p)
  BY <1>1, <1>2, <1>3 DEF Unclaimed, AggregateOf, FinallyOf, InnerOf
<1>5. SameCells(s, t)
  BY <1>1 DEF SameCells, SamePlaces
<1>6. Grows(s, t)
  BY <1>1, SameSizesGrow DEF SamePlaces
<1> QED BY <1>1, <1>2, <1>4, <1>5, <1>6 DEF Spares, SamePlaces

\* List a is being gone through: no element function has been called.
Gathering(s, a) ==
    LET g == s.aggregates[a]
    IN  /\ a \in 1..Len(s.aggregates) /\ ~Settled(s, PromiseOf(s, g.cell))
        /\ g.called = {} /\ g.remaining = Len(g.inputs) + 1

LEMMA CountUpTo ==
    ASSUME NEW n \in Nat
    PROVE  Cardinality((1..n) \ {}) = n
<1>1. 1 \in Int /\ n \in Int /\ (1..n) \ {} = 1..n
  OBVIOUS
<1>2. Cardinality(1..n) = IF 1 > n THEN 0 ELSE n - 1 + 1
  BY <1>1, FS_Interval
<1> QED BY <1>1, <1>2

LEMMA UncalledCollected ==
    ASSUME NEW s, Typed(s), NEW a \in 1..Len(s.aggregates), s.aggregates[a].called = {},
           Len(s.aggregates[a].values) = Len(s.aggregates[a].inputs),
           Len(s.aggregates[a].inputs) <= s.aggregates[a].remaining
    PROVE  Collected(s, a)
<1>1. Len(s.aggregates[a].inputs) \in Nat
  BY ClaimsTyped
<1>2. Cardinality((1..Len(s.aggregates[a].inputs)) \ {}) = Len(s.aggregates[a].inputs)
  BY <1>1, CountUpTo
<1> QED BY <1>2 DEF Collected

\* What leads to another state goes on with the list.
LEMMA GatheringKept ==
    ASSUME NEW s, NEW t, Typed(s), Typed(t), NEW a, Gathering(s, a), Spares(s, t),
           Len(t.aggregates) = Len(s.aggregates), t.aggregates[a] = s.aggregates[a]
    PROVE  Gathering(t, a)
<1> DEFINE c == s.aggregates[a].cell
           p == PromiseOf(s, c)
<1>1. a \in 1..Len(s.aggregates) /\ ~Settled(s, p)
  BY DEF Gathering
<1>2. c \in 1..Len(s.cells) /\ p \in 1..Len(s.promises)
  BY <1>1, ClaimsTyped
<1>3. AggregateOf(s, p, a)
  BY <1>1 DEF AggregateOf
<1>4. PromiseOf(t, c) = p
  BY <1>2 DEF Spares, SameCells, PromiseOf
<1> HIDE DEF p, c
<1>5. t.promises[p].state = s.promises[p].state
  BY <1>2, <1>3 DEF Spares, Free
<1>6. ~Settled(t, p)
  BY <1>1, <1>5 DEF Settled
<1>7. t.aggregates[a].cell = c
  BY DEF c
<1> QED BY <1>1, <1>4, <1>6, <1>7 DEF Gathering

\* Its next member is promise p.
Adds(s, t, X, a, p) ==
    /\ Good(t, X) /\ Leads(s, t) /\ Gathering(t, a)
    /\ Relists(s, t, a, WithMember(s.aggregates[a], p))
    /\ t.aggregates[a].kind = s.aggregates[a].kind
    /\ t.aggregates[a].cell = s.aggregates[a].cell
    /\ Len(t.aggregates[a].inputs) = Len(s.aggregates[a].inputs) + 1
    /\ t.aggregates[a].inputs[Len(t.aggregates[a].inputs)] = p

LEMMA AddsMember ==
    ASSUME NEW s, NEW X, Good(s, X), Owned(s), NEW a, Gathering(s, a),
           NEW p \in 1..Len(s.promises),
           NEW t, t = [s EXCEPT !.aggregates[a] = WithMember(s.aggregates[a], p)]
    PROVE  Adds(s, t, X, a, p)
<1> DEFINE g == s.aggregates[a]
           G == WithMember(g, p)
           n == Len(g.inputs)
           w == [rejected |-> FALSE, value |-> Undefined]
<1>1. Typed(s) /\ a \in 1..Len(s.aggregates)
  BY DEF Good, Sound, Gathering
<1>2. g \in AggregatesOf(SizesOf(s)) /\ p \in 1..SizesOf(s).promises
  BY <1>1, Elements DEF SizesOf
<1>3. /\ G \in AggregatesOf(SizesOf(s)) /\ G.kind = g.kind /\ G.cell = g.cell
      /\ G.called = g.called /\ G.inputs = Append(g.inputs, p)
      /\ G.values = Append(g.values, w) /\ G.remaining = g.remaining + 1
  <2> HIDE DEF g
  <2> QED BY <1>2, WithMemberTyped
<1>4. t = [s EXCEPT !.aggregates[a] = G]
  OBVIOUS
<1> HIDE DEF G
<1>5. Relists(s, t, a, G)
  BY ONLY <1>1, <1>3, <1>4, RelistsParts
<1>6. Good(t, X) /\ Grows(s, t)
  BY ONLY Good(s, X), <1>1, <1>3, <1>4, WithAggregateGood
<1>7. Typed(t)
  BY <1>6 DEF Good, Sound
<1>8. Spares(s, t)
  BY <1>1, <1>3, <1>5, RelistsSpares
<1>9. /\ n \in Nat /\ Len(G.inputs) = n + 1 /\ G.inputs[n + 1] = p
      /\ \A i \in 1..n : G.inputs[i] = g.inputs[i]
  <2>1. g.inputs \in Seq(1..Len(s.promises))
    BY <1>1, ClaimsTyped
  <2> HIDE DEF g
  <2> QED BY <1>3, <2>1, AppendProperties, LenProperties
<1>10. Len(G.values) = n + 1
  <2>1. g.values \in Seq([rejected : BOOLEAN, value : ValuesOf(SizesOf(s))])
    BY <1>2 DEF AggregatesOf
  <2>2. Len(g.values) = n
    BY <1>1 DEF Owned, Lists, Collected
  <2>3. w \in [rejected : BOOLEAN, value : ValuesOf(SizesOf(s))]
    BY DEF Undefined, Value, ValuesOf, Values_, Kinds
  <2> HIDE DEF w, g
  <2> QED BY <1>3, <2>1, <2>2, <2>3, AppendProperties
<1>11. g.called = {} /\ g.remaining = n + 1 /\ ~Settled(s, PromiseOf(s, g.cell))
  BY DEF Gathering
<1> HIDE DEF g, n
<1>12. /\ SamePlaces(s, t) /\ t.aggregates[a] = G /\ a \in 1..Len(t.aggregates)
       /\ Len(t.aggregates) = Len(s.aggregates) /\ t.finallys = s.finallys
       /\ \A k \in 1..Len(s.aggregates) : k # a => t.aggregates[k] = s.aggregates[k]
  BY <1>1, <1>5 DEF Relists
<1>13. InputsGrow(s, t, a)
  <2>1. Len(G.inputs) = Len(g.inputs) + 1 /\ \A i \in 1..Len(g.inputs) : G.inputs[i] = g.inputs[i]
    BY <1>9 DEF n
  <2> QED BY <1>3, <1>11, <1>12, <2>1 DEF InputsGrow, g
<1>14. Lists(t)
  <2>1. Collected(t, a)
    <3>1. Len(G.inputs) <= G.remaining
      BY <1>3, <1>9, <1>11
    <3>2. /\ t.aggregates[a].called = {}
          /\ Len(t.aggregates[a].values) = Len(t.aggregates[a].inputs)
          /\ Len(t.aggregates[a].inputs) <= t.aggregates[a].remaining
      BY <1>3, <1>9, <1>10, <1>11, <1>12, <3>1
    <3> QED BY ONLY <1>7, <1>12, <3>2, UncalledCollected
  <2>2. ASSUME NEW k \in 1..Len(s.aggregates), k # a PROVE Collected(t, k)
    <3>1. Collected(s, k) /\ t.aggregates[k] = s.aggregates[k]
      BY <1>12, <2>2 DEF Owned, Lists
    <3>2. \A q, b, v : SettledTo(t, q, b, v) <=> SettledTo(s, q, b, v)
      BY <1>12, SamePlacesHas
    <3> QED BY <3>1, <3>2 DEF Collected
  <2> QED BY <1>12, <2>1, <2>2 DEF Lists
<1>15. Owned(t)
  BY <1>1, <1>7, <1>13, <1>14, InputsOwned
<1>16. Gathering(t, a)
  <2>1. PromiseOf(t, G.cell) = PromiseOf(s, G.cell)
    BY <1>12, SamePlacesHas
  <2>2. ~Settled(t, PromiseOf(t, G.cell))
    BY <1>3, <1>11, <1>12, <2>1, SamePlacesHas
  <2> QED BY <1>3, <1>9, <1>11, <1>12, <2>2 DEF Gathering
<1> QED BY <1>3, <1>5, <1>6, <1>8, <1>9, <1>12, <1>15, <1>16 DEF Adds, Leads, G, g, n

\* The handlers of its i-th member, promise p.
LEMMA MemberRoutes ==
    ASSUME NEW s, Typed(s), Owned(s), NEW a \in 1..Len(s.aggregates),
           NEW i \in 1..Len(s.aggregates[a].inputs), NEW p, p = s.aggregates[a].inputs[i],
           NEW h, h = ElementHandlers(s.aggregates[a], a, i),
           NEW x, Halves(p, Reaction(s, h[1], h[2], NoCell), x)
    PROVE  Route(s, x)
<1> DEFINE g == s.aggregates[a]
           c == g.cell
           m == PromiseOf(s, c)
           E == ElementHandler(a, i)
           F == Handler("resolve", c)
           R == Handler("reject", c)
<1>1. g.kind \in {"all", "allSettled", "any", "race"}
  BY Elements DEF AggregatesOf
<1>2. /\ E.kind = "element" /\ E.id = a /\ E.index = i
      /\ F.kind = "resolve" /\ F.id = c /\ R.kind = "reject" /\ R.id = c
  BY DEF ElementHandler, Handler
<1>3. PICK b \in BOOLEAN : /\ x.from = p /\ x.rejected = b /\ x.cell = NoCell
                           /\ x.handler = IF b THEN h[2] ELSE h[1]
  BY DEF Halves, Half, Entry, Reaction
<1> HIDE DEF E, F, R
<1>4. \/ /\ x.handler = E
         /\ g.kind \in IF b THEN {"allSettled", "any"} ELSE {"all", "allSettled"}
      \/ /\ x.handler = IF b THEN R ELSE F
         /\ g.kind \in IF b THEN {"all", "race"} ELSE {"any", "race"}
  <2>1. CASE g.kind = "all"
    <3>1. h = <<E, R>>
      BY <2>1 DEF ElementHandlers, njs_promise_perform_all_handler, E, R
    <3> QED BY <1>3, <2>1, <3>1
  <2>2. CASE g.kind = "allSettled"
    <3>1. h = <<E, E>>
      BY <2>2 DEF ElementHandlers, njs_promise_perform_all_settled_handler, E
    <3> QED BY <1>3, <2>2, <3>1
  <2>3. CASE g.kind = "any"
    <3>1. h = <<F, E>>
      BY <2>3 DEF ElementHandlers, njs_promise_perform_any_handler, E, F
    <3> QED BY <1>3, <2>3, <3>1
  <2>4. CASE g.kind = "race"
    <3>1. h = <<F, R>>
      BY <2>4 DEF ElementHandlers, njs_promise_perform_race_handler, F, R
    <3> QED BY <1>3, <2>4, <3>1
  <2> QED BY <1>1, <2>1, <2>2, <2>3, <2>4
<1>5. AggregateOf(s, m, a)
  BY DEF AggregateOf
<1>6. \A k : ~FinallyOf(s, m, k) /\ ~InnerOf(s, m, k) /\ (AggregateOf(s, m, k) => k = a)
  <2> HIDE DEF m
  <2> QED BY <1>5 DEF Owned, Apart
<1> HIDE DEF g, m, c
<1>7. CASE /\ x.handler = E
           /\ g.kind \in IF b THEN {"allSettled", "any"} ELSE {"all", "allSettled"}
  <2>1. Member(s, x)
    BY <1>2, <1>3, <1>7 DEF Member, g
  <2> QED BY <1>2, <1>3, <1>7, <2>1 DEF Route
<1>8. CASE /\ x.handler = IF b THEN R ELSE F
           /\ g.kind \in IF b THEN {"all", "race"} ELSE {"any", "race"}
  <2>1. Into(s, m, x)
    BY <1>3, <1>6, <1>8 DEF Into, g
  <2>2. PromiseOf(s, x.handler.id) = m
    BY <1>2, <1>8 DEF m
  <2> QED BY <1>2, <1>3, <1>8, <2>1, <2>2 DEF Route
<1> QED BY <1>4, <1>7, <1>8

\* The handlers depend on the kind of the list and its pair.
LEMMA SameHandlers ==
    ASSUME NEW g, NEW h, h.kind = g.kind, h.cell = g.cell, NEW a, NEW i
    PROVE  ElementHandlers(h, a, i) = ElementHandlers(g, a, i)
BY Zenon DEF ElementHandlers

\* One more element.
LEMMA PerformLeads ==
    ASSUME NEW s, NEW X, Good(s, X), Owned(s), NEW a, Gathering(s, a),
           NEW v \in ValuesOf(SizesOf(s)), NEW i, i = Len(s.aggregates[a].inputs) + 1,
           NEW t, t = PerformElement(s, a, i, v)
    PROVE  /\ Good(t, X) /\ Leads(s, t) /\ Gathering(t, a)
           /\ Len(t.aggregates) = Len(s.aggregates)
           /\ t.aggregates[a].kind = s.aggregates[a].kind
           /\ Len(t.aggregates[a].inputs) = i
<1> DEFINE r == njs_promise_resolve(s, v)
           w == r.vm
           p == r.promise
           h == ElementHandlers(s.aggregates[a], a, i)
           u == [w EXCEPT !.aggregates[a] = WithMember(w.aggregates[a], p)]
<1>1. t = njs_promise_perform_then(u, p, h[1], h[2], NoCell)
  BY Zenon DEF PerformElement, WithMember
<1>2. r = njs_promise_resolve(s, v)
  OBVIOUS
<1> HIDE DEF r
<1>3. Good(w, X) /\ Grows(s, w) /\ p \in 1..Len(w.promises) /\ Goes(s, w)
  BY <1>2, PromiseResolveGood, PromiseResolveOwned
<1>4. u = [w EXCEPT !.aggregates[a] = WithMember(w.aggregates[a], p)]
  OBVIOUS
<1> HIDE DEF u, w, p
<1>5. Typed(s) /\ Typed(w) /\ Owned(w) /\ Spares(s, w) /\ w.aggregates = s.aggregates
  BY <1>3 DEF Good, Sound, Goes, Leads
<1>6. Gathering(w, a)
  BY <1>5, GatheringKept
<1>7. /\ Good(u, X) /\ Leads(w, u) /\ Gathering(u, a)
      /\ Relists(w, u, a, WithMember(w.aggregates[a], p))
      /\ u.aggregates[a].kind = w.aggregates[a].kind
      /\ u.aggregates[a].cell = w.aggregates[a].cell
      /\ Len(u.aggregates[a].inputs) = Len(w.aggregates[a].inputs) + 1
      /\ u.aggregates[a].inputs[Len(u.aggregates[a].inputs)] = p
  <2>1. Good(w, X) /\ Owned(w) /\ p \in 1..Len(w.promises)
    BY <1>3, <1>5
  <2>2. Adds(w, u, X, a, p)
    BY ONLY <1>4, <1>6, <2>1, AddsMember
  <2> QED BY <2>2 DEF Adds
<1>8. Typed(u) /\ Owned(u) /\ a \in 1..Len(u.aggregates) /\ Len(u.aggregates) = Len(s.aggregates)
  BY <1>5, <1>7 DEF Good, Sound, Leads, Gathering, Relists
<1>9. i = Len(u.aggregates[a].inputs) /\ i \in Nat /\ i \in 1..Len(u.aggregates[a].inputs)
      /\ p = u.aggregates[a].inputs[i]
  <2>1. i = Len(u.aggregates[a].inputs) /\ p = u.aggregates[a].inputs[i]
    BY <1>5, <1>7
  <2>2. Len(s.aggregates[a].inputs) \in Nat
    BY <1>5, ClaimsTyped DEF Gathering
  <2>3. i \in Nat /\ i >= 1
    BY ONLY <2>2, i = Len(s.aggregates[a].inputs) + 1
  <2> QED BY ONLY <2>1, <2>3
<1>10. h = ElementHandlers(u.aggregates[a], a, i)
  BY <1>5, <1>7, SameHandlers
<1> HIDE DEF h
<1>11. /\ h[1] \in HandlersOf(SizesOf(u)) /\ h[2] \in HandlersOf(SizesOf(u))
       /\ h[1].kind # "await" /\ h[2].kind # "await"
  BY <1>7, <1>8, <1>9, <1>10, HandlersTyped
<1>12. p \in 1..Len(u.promises)
  <2>1. 1..Len(w.promises) \subseteq 1..Len(u.promises)
    BY <1>5, <1>7, <1>8, Later DEF Leads
  <2> QED BY <1>3, <2>1
<1>13. \A x : Halves(p, Reaction(u, h[1], h[2], NoCell), x) => Route(u, x)
  BY <1>8, <1>9, <1>10, MemberRoutes
<1>14. Goes(u, t)
  BY <1>1, <1>7, <1>8, <1>11, <1>12, <1>13, ThenGoes
<1>15. NoCell \in 0..Len(u.cells)
  BY <1>8, ClaimsTyped DEF NoCell
<1>16. Good(t, X)
  BY <1>1, <1>7, <1>11, <1>12, <1>15, ThenGood
<1>17. Typed(t) /\ t.aggregates = u.aggregates /\ Spares(u, t) /\ Leads(u, t)
  BY <1>14, <1>16 DEF Good, Sound, Goes, Leads
<1>18. Gathering(t, a)
  BY <1>7, <1>8, <1>17, GatheringKept
<1>19. Leads(s, t)
  <2>1. Leads(s, w)
    BY <1>3 DEF Goes
  <2>2. Leads(s, u)
    BY <1>5, <1>7, <1>8, <2>1, LeadsTransitive
  <2> QED BY <1>5, <1>8, <1>17, <2>2, LeadsTransitive
<1> QED BY <1>5, <1>7, <1>8, <1>9, <1>16, <1>17, <1>18, <1>19

\* Every element.
LEMMA IterateLeads ==
    ASSUME NEW s, NEW X, Good(s, X), Owned(s), NEW a, Gathering(s, a),
           s.aggregates[a].inputs = <<>>, NEW list \in Seq(ValuesOf(SizesOf(s))),
           NEW t, t = njs_object_iterate(s, a, list)
    PROVE  /\ Good(t, X) /\ Leads(s, t) /\ Gathering(t, a)
           /\ Len(t.aggregates) = Len(s.aggregates)
           /\ t.aggregates[a].kind = s.aggregates[a].kind
           /\ Len(t.aggregates[a].inputs) = Len(list)
<1> DEFINE l == Len(list)
<1>1. l \in Nat /\ \A n \in 1..l : list[n] \in ValuesOf(SizesOf(s))
  BY LenProperties, ElementOfSeq
<1>2. PICK each : /\ each[0] = s /\ t = each[l]
                  /\ \A n \in 1..l : each[n] = PerformElement(each[n - 1], a, n, list[n])
  BY <1>1, IterateStates
<1> DEFINE Fine(u, n) == /\ Good(u, X) /\ Leads(s, u) /\ Gathering(u, a)
                         /\ Len(u.aggregates) = Len(s.aggregates)
                         /\ u.aggregates[a].kind = s.aggregates[a].kind
                         /\ Len(u.aggregates[a].inputs) = n
           S == {n \in Nat : Fine(each[n], n)}
<1>3. Fine(s, 0)
  <2>1. Goes(s, s)
    BY GoesReflexive DEF Good, Sound
  <2> QED BY <2>1 DEF Goes
<1>4. ASSUME NEW u, NEW n \in 1..l, Fine(u, n - 1), NEW w, w = PerformElement(u, a, n, list[n])
      PROVE  Fine(w, n)
  <2>1. Typed(s) /\ Typed(u) /\ Owned(u) /\ Grows(s, u)
    BY <1>4 DEF Good, Sound, Leads
  <2>2. list[n] \in ValuesOf(SizesOf(u))
    BY <1>1, <2>1, Later
  <2>3. n = Len(u.aggregates[a].inputs) + 1
    <3>1. n \in Nat /\ Len(u.aggregates[a].inputs) = n - 1
      BY <1>1, <1>4
    <3> QED BY <3>1
  <2>4. /\ Good(w, X) /\ Leads(u, w) /\ Gathering(w, a)
        /\ Len(w.aggregates) = Len(u.aggregates)
        /\ w.aggregates[a].kind = u.aggregates[a].kind
        /\ Len(w.aggregates[a].inputs) = n
    BY <1>4, <2>1, <2>2, <2>3, PerformLeads
  <2>5. Leads(s, w)
    BY <1>4, <2>1, <2>4, LeadsTransitive DEF Good, Sound
  <2> QED BY <1>4, <2>4, <2>5
<1> HIDE DEF Fine, l
<1>5. 0 \in S
  BY <1>2, <1>3
<1>6. ASSUME NEW n \in 1..l, n - 1 \in S PROVE n \in S
  <2>1. Fine(each[n - 1], n - 1) /\ n \in Nat
    BY <1>1, <1>6
  <2>2. Fine(each[n], n)
    BY <1>2, <1>4, <2>1
  <2> QED BY <2>1, <2>2
<1> HIDE DEF S
<1>7. \A n \in 0..l : n \in S
  BY <1>1, <1>5, <1>6, UpTo
<1>8. Fine(t, l)
  <2>1. l \in 0..l
    BY <1>1
  <2> QED BY <1>2, <1>7, <2>1 DEF S
<1> QED BY <1>8 DEF Fine, l

-----------------------------------------------------------------------------
(* Promise.all() and the like.                                               *)

\* Nothing is done to promises with claims, but perhaps to m.
Beside(s, t, m) ==
    /\ SameCells(s, t)
    /\ \A p \in 1..Len(s.promises) :
          p # m => /\ Unclaimed(s, t, p)
                   /\ ~Free(s, p) => t.promises[p].state = s.promises[p].state
    /\ \A x : Has(t, x) => Has(s, x) \/ x.cell \notin 1..Len(s.cells)

LEMMA SparesBeside ==
    ASSUME NEW s, NEW t, NEW m, Spares(s, t)
    PROVE  Beside(s, t, m)
BY DEF Spares, Beside

LEMMA BesideSpares ==
    ASSUME NEW s, NEW t, NEW m, m \notin 1..Len(s.promises), Beside(s, t, m)
    PROVE  Spares(s, t)
BY DEF Spares, Beside

LEMMA BesideTransitive ==
    ASSUME NEW s, NEW t, NEW u, NEW m, Typed(s), Typed(t), Typed(u), Grows(s, t),
           Beside(s, t, m), Beside(t, u, m)
    PROVE  Beside(s, u, m)
<1>1. 1..Len(s.cells) \subseteq 1..Len(t.cells) /\ 1..Len(s.promises) \subseteq 1..Len(t.promises)
  BY Later
<1>2. SameCells(s, u)
  BY <1>1 DEF Beside, SameCells
<1>3. ASSUME NEW p \in 1..Len(s.promises), p # m
      PROVE  Unclaimed(s, u, p) /\ (~Free(s, p) => u.promises[p].state = s.promises[p].state)
  <2>1. /\ Unclaimed(s, t, p) /\ (~Free(s, p) => t.promises[p].state = s.promises[p].state)
        /\ Unclaimed(t, u, p) /\ (~Free(t, p) => u.promises[p].state = t.promises[p].state)
    BY <1>1, <1>3 DEF Beside
  <2>2. Unclaimed(s, u, p) /\ (~Free(s, p) => ~Free(t, p))
    BY <2>1 DEF Unclaimed, Free
  <2> QED BY <2>1, <2>2
<1>4. \A x : Has(u, x) => Has(s, x) \/ x.cell \notin 1..Len(s.cells)
  BY <1>1 DEF Beside
<1> QED BY <1>2, <1>3, <1>4 DEF Beside

\* The list itself has been counted down.
LEMMA OneFewerOwned ==
    ASSUME NEW s, NEW X, Good(s, X), Owned(s), NEW a, Gathering(s, a),
           NEW t, t = [s EXCEPT !.aggregates[a] = OneFewer(s.aggregates[a])]
    PROVE  /\ Good(t, X) /\ Leads(s, t) /\ Relists(s, t, a, OneFewer(s.aggregates[a]))
           /\ OneFewer(s.aggregates[a]).remaining = Len(s.aggregates[a].inputs)
<1> DEFINE g == s.aggregates[a]
           G == OneFewer(g)
<1>1. Typed(s) /\ a \in 1..Len(s.aggregates)
  BY DEF Good, Sound, Gathering
<1>2. g \in AggregatesOf(SizesOf(s))
  BY <1>1, Elements
<1>3. /\ G \in AggregatesOf(SizesOf(s)) /\ G.kind = g.kind /\ G.cell = g.cell
      /\ G.called = g.called /\ G.inputs = g.inputs /\ G.values = g.values
      /\ G.remaining = g.remaining - 1
  <2> HIDE DEF g
  <2> QED BY <1>2, OneFewerTyped
<1>4. t = [s EXCEPT !.aggregates[a] = G]
  OBVIOUS
<1> HIDE DEF G
<1>5. Relists(s, t, a, G)
  BY ONLY <1>1, <1>3, <1>4, RelistsParts
<1>6. Good(t, X) /\ Grows(s, t)
  BY ONLY Good(s, X), <1>1, <1>3, <1>4, WithAggregateGood
<1>7. Typed(t)
  BY <1>6 DEF Good, Sound
<1>8. Spares(s, t)
  BY <1>1, <1>3, <1>5, RelistsSpares
<1>9. g.called = {} /\ G.remaining = Len(g.inputs) /\ Len(g.inputs) \in Nat
  <2>1. g.called = {} /\ g.remaining = Len(g.inputs) + 1
    BY DEF Gathering
  <2>2. Len(g.inputs) \in Nat
    BY <1>1, ClaimsTyped
  <2> HIDE DEF g
  <2> QED BY <1>3, <2>1, <2>2
<1>10. Len(g.values) = Len(g.inputs)
  BY <1>1 DEF Owned, Lists, Collected
<1>11. /\ SamePlaces(s, t) /\ t.aggregates[a] = G /\ a \in 1..Len(t.aggregates)
       /\ Len(t.aggregates) = Len(s.aggregates) /\ t.finallys = s.finallys
       /\ \A k \in 1..Len(s.aggregates) : k # a => t.aggregates[k] = s.aggregates[k]
  BY <1>1, <1>5 DEF Relists
<1>12. Lists(t)
  <2>1. Collected(t, a)
    <3>1. /\ t.aggregates[a].called = {}
          /\ Len(t.aggregates[a].values) = Len(t.aggregates[a].inputs)
          /\ Len(t.aggregates[a].inputs) <= t.aggregates[a].remaining
      BY <1>3, <1>9, <1>10, <1>11
    <3> QED BY ONLY <1>7, <1>11, <3>1, UncalledCollected
  <2>2. ASSUME NEW k \in 1..Len(s.aggregates), k # a PROVE Collected(t, k)
    <3>1. Collected(s, k) /\ t.aggregates[k] = s.aggregates[k]
      BY <1>11, <2>2 DEF Owned, Lists
    <3>2. \A q, b, v : SettledTo(t, q, b, v) <=> SettledTo(s, q, b, v)
      BY <1>11, SamePlacesHas
    <3> QED BY <3>1, <3>2 DEF Collected
  <2> QED BY <1>11, <2>1, <2>2 DEF Lists
<1>13. SameLists(s, t)
  BY <1>3, <1>11 DEF SameLists, g
<1>14. Follows(s, t)
  BY <1>6, <1>8, <1>11, <1>13 DEF Follows, Spares
<1>15. SameOrPending(s, t)
  BY <1>11 DEF SamePlaces, SameOrPending
<1>16. SettlesFit(s, t)
  BY <1>15, CalmSettles
<1>17. Moved(s, t)
  <2>1. \A x : Has(t, x) => Has(s, x)
    BY <1>11, SamePlacesHas
  <2>2. \A x : Has(s, x) => StillOpen(s, t, x)
    BY <1>1, <1>6, <1>7, <1>15, CalmOpen
  <2> QED BY <1>11, <2>1, <2>2 DEF Moved, SamePlaces
<1>18. Queued(s, t)
  BY <1>11 DEF Queued, SamePlaces
<1>19. Exposes(s, t)
  BY <1>11 DEF Exposes, SamePlaces
<1>20. Owned(t)
  BY <1>1, <1>7, <1>12, <1>14, <1>16, <1>17, <1>18, <1>19, OwnedFollows
<1> QED BY <1>5, <1>6, <1>8, <1>9, <1>20 DEF Leads, G, g

\* An empty list ends at once.
LEMMA PerformAllOwned ==
    ASSUME NEW s, NEW X, Good(s, X), Owned(s), NEW a, Gathering(s, a),
           s.aggregates[a].inputs = <<>>, s.aggregates[a].kind # "race",
           NEW list \in Seq(ValuesOf(SizesOf(s))),
           NEW m, m = PromiseOf(s, s.aggregates[a].cell),
           NEW t, t = njs_promise_perform_all(s, a, list)
    PROVE  Owned(t) /\ Beside(s, t, m)
<1>1. PICK w, u : /\ w = njs_object_iterate(s, a, list)
                  /\ u = [w EXCEPT !.aggregates[a] = OneFewer(w.aggregates[a])]
                  /\ IF u.aggregates[a].remaining = 0
                     THEN t = njs_promise_resolve_function(
                                  u, u.aggregates[a].cell,
                                  Value(IF u.aggregates[a].kind = "any" THEN "errors"
                                        ELSE "array", a))
                     ELSE t = u
  <2>1. a \in 1..Len(s.aggregates)
    BY DEF Gathering
  <2> QED BY <2>1, PerformAllParts
<1>2. /\ Good(w, X) /\ Leads(s, w) /\ Gathering(w, a)
      /\ w.aggregates[a].kind = s.aggregates[a].kind
  BY <1>1, IterateLeads
<1>3. /\ Good(u, X) /\ Leads(w, u) /\ Relists(w, u, a, OneFewer(w.aggregates[a]))
      /\ OneFewer(w.aggregates[a]).remaining = Len(w.aggregates[a].inputs)
  <2>1. u = [w EXCEPT !.aggregates[a] = OneFewer(w.aggregates[a])] /\ Owned(w)
    BY <1>1, <1>2 DEF Leads
  <2> QED BY ONLY <1>2, <2>1, OneFewerOwned
<1>4. Typed(s) /\ Typed(w) /\ Typed(u) /\ a \in 1..Len(s.aggregates) /\ a \in 1..Len(w.aggregates)
  BY <1>2, <1>3 DEF Good, Sound, Gathering
<1>5. Leads(s, u)
  BY <1>2, <1>3, <1>4, LeadsTransitive
<1> DEFINE G == u.aggregates[a]
           c == G.cell
<1>6. /\ G.kind = s.aggregates[a].kind /\ G.remaining = Len(G.inputs)
      /\ a \in 1..Len(u.aggregates) /\ Len(G.inputs) \in Nat
  <2>1. w.aggregates[a] \in AggregatesOf(SizesOf(w))
    BY <1>4, Elements
  <2>2. G = OneFewer(w.aggregates[a]) /\ a \in 1..Len(u.aggregates)
    BY <1>3, <1>4 DEF Relists
  <2>3. G.kind = w.aggregates[a].kind /\ G.inputs = w.aggregates[a].inputs
    BY <2>1, <2>2, OneFewerTyped
  <2>4. Len(G.inputs) \in Nat
    BY <1>4, <2>2, ClaimsTyped
  <2> QED BY <1>2, <1>3, <2>2, <2>3, <2>4
<1>7. PromiseOf(u, c) = m
  <2>1. m \in 1..Len(s.promises) /\ AggregateOf(s, m, a)
    BY <1>4, ClaimsTyped DEF AggregateOf
  <2>2. AggregateOf(u, m, a)
    BY <1>5, <2>1 DEF Leads, Spares, Unclaimed
  <2> QED BY <2>2 DEF AggregateOf
<1>8. CASE G.remaining # 0
  <2>1. t = u
    BY <1>1, <1>8
  <2> QED BY <1>5, <2>1, SparesBeside DEF Leads
<1>9. CASE G.remaining = 0
  <2> DEFINE k == IF G.kind = "any" THEN "errors" ELSE "array"
             v == Value(k, a)
  <2>1. t = njs_promise_resolve_function(u, c, v)
    BY <1>1, <1>9
  <2>2. G.inputs = <<>> /\ Complete(u, a)
    <3>1. Len(G.inputs) = 0
      BY <1>6, <1>9
    <3>2. G.inputs \in Seq(1..Len(u.promises))
      BY <1>4, <1>6, ClaimsTyped
    <3>3. G.inputs = <<>>
      <4> HIDE DEF G
      <4> QED BY <3>1, <3>2, EmptySeq
    <3>4. 1..Len(G.inputs) = {}
      <4> HIDE DEF G
      <4> QED BY <3>1
    <3> QED BY <3>3, <3>4 DEF Complete
  <2>3. AggregateFits(u, a, FALSE, v)
    <3>1. G.kind \in {"all", "allSettled", "any"}
      <4>1. s.aggregates[a] \in AggregatesOf(SizesOf(s))
        BY <1>4, Elements
      <4> QED BY <1>6, <4>1 DEF AggregatesOf
    <3> QED BY <2>2, <3>1 DEF AggregateFits
  <2>4. k \in {"array", "errors"} /\ v = Value(k, a)
    OBVIOUS
  <2> HIDE DEF k, v
  <2>5. c = u.aggregates[a].cell /\ Owned(u) /\ FALSE \in BOOLEAN
    BY <1>5 DEF Leads
  <2> HIDE DEF c, G
  <2>6. \/ ~FALSE /\ t = njs_promise_resolve_function(u, c, v)
        \/ FALSE /\ t = njs_promise_reject_function(u, c, v)
    BY <2>1
  <2>7. Keeps(u, t, X, PromiseOf(u, c))
    BY ONLY <1>3, <1>6, <2>3, <2>4, <2>5, <2>6, EndsList
  <2>8. Owned(t) /\ Follows(u, t) /\ OnlySettles(u, t, m) /\ Typed(t)
    BY <1>7, <2>7 DEF Keeps, Kept, Good, Sound
  <2>9. Beside(u, t, m)
    <3>1. \A q : Unclaimed(u, t, q) /\ SameCells(u, t)
      BY <1>4, <2>8, FollowsUnclaimed
    <3> QED BY <2>8, <3>1 DEF Beside, OnlySettles, Follows
  <2>10. Beside(s, u, m) /\ Grows(s, u)
    BY <1>5, SparesBeside DEF Leads
  <2> QED BY <1>4, <2>8, <2>9, <2>10, BesideTransitive
<1> QED BY <1>8, <1>9

\* A list for pair n, whose promise nothing refers to yet.
NewList(s, t, X, a, kind, n) ==
    /\ Good(t, X) /\ Owned(t) /\ Grows(s, t) /\ Beside(s, t, PromiseOf(s, n))
    /\ Gathering(t, a) /\ t.aggregates[a].inputs = <<>>
    /\ t.aggregates[a].kind = kind /\ t.aggregates[a].cell = n
    /\ SamePlaces(s, t)

LEMMA NewListOwned ==
    ASSUME NEW s, NEW X, Good(s, X), Owned(s), NEW n \in 1..Len(s.cells),
           Fresh(s, PromiseOf(s, n)), NEW kind \in {"all", "allSettled", "any", "race"},
           NEW a, a = Len(s.aggregates) + 1, NEW g, g = EmptyAggregate(kind, n),
           NEW t, t = [s EXCEPT !.aggregates = Append(s.aggregates, g)]
    PROVE  NewList(s, t, X, a, kind, n)
<1> DEFINE N == SizesOf(s)
           m == PromiseOf(s, n)
           x == Append(s.aggregates, g)
<1>1. Typed(s) /\ Len(s.aggregates) \in Nat /\ Len(s.cells) \in Nat
  BY SizesTyped DEF Good, Sound, Typed
<1>2. /\ g \in AggregatesOf(N) /\ g.kind = kind /\ g.cell = n /\ g.inputs = <<>>
      /\ g.called = {} /\ g.values = <<>> /\ g.remaining = 1
  <2>1. n \in 1..N.cells
    BY DEF SizesOf
  <2>2. <<>> \in Seq(1..N.promises)
        /\ <<>> \in Seq([rejected : BOOLEAN, value : ValuesOf(N)])
    BY EmptySeq
  <2> HIDE DEF N
  <2> QED BY <2>1, <2>2 DEF EmptyAggregate, AggregatesOf, InitialRemaining
<1>3. /\ x \in Seq(AggregatesOf(N)) /\ Len(x) = a /\ Len(s.aggregates) <= Len(x)
      /\ a \in 1..Len(x) /\ x[a] = g
      /\ \A k \in 1..Len(s.aggregates) : x[k] = s.aggregates[k]
  <2>1. s.aggregates \in Seq(AggregatesOf(N))
    BY <1>1, Fields DEF Typed
  <2>2. /\ x \in Seq(AggregatesOf(N)) /\ Len(x) = Len(s.aggregates) + 1
        /\ x[Len(s.aggregates) + 1] = g
        /\ \A k \in 1..Len(s.aggregates) : x[k] = s.aggregates[k]
    <3> HIDE DEF N
    <3> QED BY <2>1, <1>2, AppendProperties
  <2> HIDE DEF x
  <2> QED BY <1>1, <2>2
<1>4. t = [s EXCEPT !.aggregates = x]
  OBVIOUS
<1> HIDE DEF x
<1>5. Good(t, X) /\ Grows(s, t) /\ t.aggregates = x
  BY ONLY Good(s, X), <1>3, <1>4, AggregatesGood DEF N
<1>6. SamePlaces(s, t) /\ t.finallys = s.finallys
  <2>1. DOMAIN s = {"promises", "cells", "jobs", "aggregates", "contexts", "tracking",
                    "rejected", "reactions", "ran", "finallys"}
    BY <1>1, Record, SMTT(20)
  <2> QED BY ONLY <1>4, <2>1 DEF SamePlaces
<1>7. Typed(t) /\ Alone(s, m) /\ Free(s, m)
  BY <1>5 DEF Good, Sound, Fresh
<1>8. /\ \A y : Has(t, y) <=> Has(s, y)
      /\ \A c : PromiseOf(t, c) = PromiseOf(s, c)
      /\ \A p, b, v : SettledTo(t, p, b, v) <=> SettledTo(s, p, b, v)
      /\ \A p : Settled(t, p) <=> Settled(s, p)
  BY ONLY <1>6, SamePlacesHas
<1>9. /\ a \notin 1..Len(s.aggregates) /\ a \in 1..Len(t.aggregates)
      /\ \A k : k \in 1..Len(t.aggregates) <=> k \in 1..Len(s.aggregates) \/ k = a
      /\ t.aggregates[a] = g
      /\ \A k \in 1..Len(s.aggregates) : t.aggregates[k] = s.aggregates[k]
  BY <1>1, <1>3, <1>5
<1>10. /\ \A p, k : AggregateOf(t, p, k) <=> AggregateOf(s, p, k) \/ (k = a /\ p = m)
       /\ \A p, k : FinallyOf(t, p, k) <=> FinallyOf(s, p, k)
       /\ \A p, k : InnerOf(t, p, k) <=> InnerOf(s, p, k)
  <2>1. \A p, k : AggregateOf(t, p, k) <=> AggregateOf(s, p, k) \/ (k = a /\ p = m)
    <3> SUFFICES ASSUME NEW p, NEW k
                 PROVE  AggregateOf(t, p, k) <=> AggregateOf(s, p, k) \/ (k = a /\ p = m)
      OBVIOUS
    <3>1. CASE k = a
      <4>1. PromiseOf(t, t.aggregates[a].cell) = m
        BY <1>2, <1>8, <1>9
      <4> QED BY <1>9, <3>1, <4>1 DEF AggregateOf
    <3>2. CASE k # a
      <4>1. k \in 1..Len(s.aggregates) => t.aggregates[k] = s.aggregates[k]
        BY <1>9
      <4> QED BY <1>8, <1>9, <3>2, <4>1 DEF AggregateOf
    <3> QED BY <3>1, <3>2
  <2>2. /\ \A p, k : FinallyOf(t, p, k) <=> FinallyOf(s, p, k)
        /\ \A p, k : InnerOf(t, p, k) <=> InnerOf(s, p, k)
    BY <1>6, <1>8 DEF FinallyOf, InnerOf
  <2> QED BY <2>1, <2>2
<1> HIDE DEF m
<1>11. \A p : p # m => SameClaims(s, t, p) /\ Unclaimed(s, t, p)
  BY <1>6, <1>9, <1>10 DEF SameClaims, Unclaimed, AggregateOf
<1>12. Apart(t)
  <2> SUFFICES ASSUME NEW p, NEW k, AggregateOf(t, p, k), NEW i
               PROVE  ~FinallyOf(t, p, i) /\ ~InnerOf(t, p, i) /\ (AggregateOf(t, p, i) => i = k)
    BY DEF Apart
  <2>1. CASE p = m
    <3>1. ~AggregateOf(s, m, k) /\ ~AggregateOf(s, m, i) /\ ~FinallyOf(s, m, i) /\ ~InnerOf(s, m, i)
      BY <1>7 DEF Free
    <3>2. /\ AggregateOf(t, m, k) => k = a
          /\ AggregateOf(t, m, i) => i = a
          /\ ~FinallyOf(t, m, i) /\ ~InnerOf(t, m, i)
      BY ONLY <1>10, <3>1
    <3> QED BY <2>1, <3>2
  <2>2. CASE p # m
    BY <1>10, <2>2 DEF Owned, Apart
  <2> QED BY <2>1, <2>2
<1>13. Lists(t)
  <2>1. Collected(t, a)
    <3>1. /\ t.aggregates[a].called = {}
          /\ Len(t.aggregates[a].values) = Len(t.aggregates[a].inputs)
          /\ Len(t.aggregates[a].inputs) <= t.aggregates[a].remaining
      BY <1>2, <1>9
    <3> QED BY ONLY <1>7, <1>9, <3>1, UncalledCollected
  <2>2. ASSUME NEW k \in 1..Len(s.aggregates) PROVE Collected(t, k)
    <3>1. Collected(s, k) /\ t.aggregates[k] = s.aggregates[k]
      BY <1>9 DEF Owned, Lists
    <3> QED BY <1>8, <3>1 DEF Collected
  <2> QED BY <1>9, <2>1, <2>2 DEF Lists
<1>14. Owned(t)
  <2>1. \A p \in 1..Len(s.promises) : Alone(s, p) \/ SameClaims(s, t, p)
    BY <1>7, <1>11
  <2> QED BY ONLY Owned(s), <1>1, <1>6, <1>7, <1>9, <1>12, <1>13, <2>1, ClaimsOwned
<1>15. Beside(s, t, m)
  <2>1. SameCells(s, t)
    BY <1>6 DEF SameCells, SamePlaces
  <2> QED BY <1>6, <1>8, <1>11, <2>1 DEF Beside, SamePlaces
<1>16. Gathering(t, a)
  <2>1. ~Settled(t, PromiseOf(t, n))
    BY <1>7, <1>8 DEF Alone, m
  <2> QED BY <1>2, <1>9, <2>1 DEF Gathering
<1> QED BY <1>2, <1>5, <1>6, <1>9, <1>14, <1>15, <1>16 DEF NewList, m

LEMMA AllLeads ==
    ASSUME NEW s, NEW X, Good(s, X), Owned(s), NEW kind \in {"all", "allSettled", "any", "race"},
           NEW list \in Seq(ValuesOf(SizesOf(s))), NEW t, t = njs_promise_all(s, kind, list)
    PROVE  Leads(s, t)
<1> DEFINE c == njs_promise_new_capability(s, FALSE)
           n == Len(c.cells)
           a == Len(s.aggregates) + 1
           g == EmptyAggregate(kind, n)
           u == [c EXCEPT !.aggregates = Append(c.aggregates, g)]
           m == PromiseOf(c, n)
<1>1. t = IF kind = "race" THEN njs_object_iterate(u, a, list)
          ELSE njs_promise_perform_all(u, a, list)
  BY Zenon DEF njs_promise_all
<1>2. c = njs_promise_new_capability(s, FALSE)
  OBVIOUS
<1> HIDE DEF c
<1>3. /\ Good(c, X) /\ Owned(c) /\ Goes(s, c) /\ m = Len(c.promises)
      /\ Len(c.promises) = Len(s.promises) + 1 /\ n = Len(s.cells) + 1
      /\ Fresh(c, m) /\ c.aggregates = s.aggregates
  <2>1. Goes(s, c)
    BY <1>2, CapabilityGoes
  <2> HIDE DEF n
  <2>2. FALSE \in BOOLEAN /\ ~FALSE
    OBVIOUS
  <2>3. /\ Good(c, X) /\ Owned(c) /\ Len(c.promises) = Len(s.promises) + 1
        /\ Len(c.cells) = Len(s.cells) + 1 /\ c.aggregates = s.aggregates
        /\ PromiseOf(c, Len(c.cells)) = Len(c.promises)
        /\ Fresh(c, Len(c.promises))
    BY ONLY Good(s, X), Owned(s), <1>2, <2>2, CapabilityOwned
  <2> QED BY <2>1, <2>3 DEF n
<1>4. /\ Typed(s) /\ Typed(c) /\ Grows(s, c) /\ Spares(s, c)
      /\ Len(s.cells) \in Nat /\ Len(s.promises) \in Nat
  BY <1>3, SizesTyped DEF Good, Sound, Typed, Goes, Leads
<1>5. n \in 1..Len(c.cells) /\ m \notin 1..Len(s.promises)
  BY <1>3, <1>4
<1>6. g = EmptyAggregate(kind, n) /\ a = Len(c.aggregates) + 1
      /\ u = [c EXCEPT !.aggregates = Append(c.aggregates, g)]
  BY <1>3
<1> HIDE DEF u, a, g, n
<1>7. NewList(c, u, X, a, kind, n)
  <2>1. Fresh(c, PromiseOf(c, n))
    BY <1>3
  <2>2. Good(c, X) /\ Owned(c) /\ kind \in {"all", "allSettled", "any", "race"}
    BY <1>3
  <2> QED BY ONLY <1>5, <1>6, <2>1, <2>2, NewListOwned
<1>8. /\ Good(u, X) /\ Owned(u) /\ Grows(c, u) /\ Beside(c, u, m)
      /\ Gathering(u, a) /\ u.aggregates[a].inputs = <<>>
      /\ u.aggregates[a].kind = kind /\ u.aggregates[a].cell = n /\ SamePlaces(c, u)
  BY <1>7 DEF NewList
<1>9. Typed(u) /\ Grows(s, u)
  BY <1>3, <1>4, <1>8, GrowsTransitive DEF Good, Sound
<1>10. list \in Seq(ValuesOf(SizesOf(u)))
  <2>1. ValuesOf(SizesOf(s)) \subseteq ValuesOf(SizesOf(u))
    BY <1>4, <1>9, Later
  <2> QED BY <2>1, SeqMonotonic
<1>11. PromiseOf(u, u.aggregates[a].cell) = m
  BY <1>8, SamePlacesHas
<1> HIDE DEF m
<1>12. Owned(t) /\ Beside(u, t, m)
  <2>1. CASE kind = "race"
    <3>1. t = njs_object_iterate(u, a, list)
      BY <1>1, <2>1
    <3>2. Leads(u, t)
      BY <1>8, <1>10, <3>1, IterateLeads
    <3> QED BY <3>2, SparesBeside DEF Leads
  <2>2. CASE kind # "race"
    <3>1. t = njs_promise_perform_all(u, a, list)
      BY <1>1, <2>2
    <3>2. u.aggregates[a].kind # "race" /\ m = PromiseOf(u, u.aggregates[a].cell)
      BY <1>8, <1>11, <2>2
    <3> QED BY <1>8, <1>10, <3>1, <3>2, PerformAllOwned
  <2> QED BY <2>1, <2>2
<1>13. Typed(t) /\ Grows(s, t)
  BY AllGood DEF Good, Sound
<1>14. Beside(s, u, m)
  BY <1>4, <1>8, <1>9, SparesBeside, BesideTransitive
<1>15. Spares(s, t)
  BY <1>4, <1>5, <1>9, <1>12, <1>13, <1>14, BesideTransitive, BesideSpares
<1> QED BY <1>12, <1>13, <1>15 DEF Leads

-----------------------------------------------------------------------------
(* A thenable that is a promise.                                             *)

\* The promise of pair c may be settled as promise q will be: it waits for it.
LEMMA AdoptGoes ==
    ASSUME NEW s, NEW X, Good(s, X), Owned(s), NEW q \in 1..Len(s.promises),
           NEW c \in 1..Len(s.cells), NEW v, v.kind = "promise", v.id = q,
           Asked(s, PromiseOf(s, c), v), NEW t, t = Adopt(s, q, c)
    PROVE  Goes(s, t)
<1> DEFINE f == Handler("resolve", c)
           r == Handler("reject", c)
           p == PromiseOf(s, c)
<1>1. Len(s.cells) \in Nat /\ Len(s.cells) = SizesOf(s).cells
  BY SizesTyped DEF Good, Sound, Typed, SizesOf
<1>2. /\ f \in HandlersOf(SizesOf(s)) /\ r \in HandlersOf(SizesOf(s))
      /\ f.kind = "resolve" /\ r.kind = "reject" /\ f.id = c /\ r.id = c
  BY <1>1, HandlerTyped DEF HandlerKinds, Handler
<1>3. t = njs_promise_perform_then(s, q, f, r, NoCell)
  BY DEF Adopt
<1>4. \A i : FinallyOf(s, p, i) => s.finallys[i].inner = q
  <2> SUFFICES ASSUME NEW i, FinallyOf(s, p, i) PROVE s.finallys[i].inner = q
    OBVIOUS
  <2>1. v = Value("promise", s.finallys[i].inner)
    BY DEF Asked
  <2> QED BY <2>1 DEF Value
<1> HIDE DEF f, r, p
<1>5. \A x : Halves(q, Reaction(s, f, r, NoCell), x) => Route(s, x)
  <2> SUFFICES ASSUME NEW x, Halves(q, Reaction(s, f, r, NoCell), x) PROVE Route(s, x)
    OBVIOUS
  <2>1. /\ x.rejected \in BOOLEAN /\ x.handler = IF x.rejected THEN r ELSE f
        /\ x.cell = NoCell /\ x.from = q
    BY DEF Halves, Half, Entry, Reaction
  <2>2. Into(s, p, x)
    <3>1. \A a : ~AggregateOf(s, p, a)
      BY DEF Asked, p
    <3>2. \A i : ~InnerOf(s, p, i)
      BY DEF Asked, p
    <3> QED BY <1>4, <2>1, <3>1, <3>2 DEF Into
  <2>3. x.handler.kind = (IF x.rejected THEN "reject" ELSE "resolve") /\ x.handler.id = c
    BY <1>2, <2>1
  <2> QED BY <2>1, <2>2, <2>3 DEF Route, p
<1> QED BY <1>2, <1>3, <1>5, ThenGoes

-----------------------------------------------------------------------------
(* finally().                                                                *)

\* What follows an operation of a script and settles nothing.
LEMMA SparesFollows ==
    ASSUME NEW s, NEW u, NEW t, Typed(s), Typed(u), Typed(t), Grows(s, u), Spares(s, u),
           Follows(u, t),
           \A q \in 1..Len(u.promises) : t.promises[q].state = u.promises[q].state,
           \A x : Has(t, x) => Has(u, x) \/ x.cell \notin 1..Len(s.cells)
    PROVE  Spares(s, t)
<1>1. 1..Len(s.promises) \subseteq 1..Len(u.promises) /\ 1..Len(s.cells) \subseteq 1..Len(u.cells)
  BY Later
<1>2. SameCells(u, t) /\ \A q : Unclaimed(u, t, q)
  BY FollowsUnclaimed
<1>3. SameCells(s, t)
  BY <1>1, <1>2 DEF SameCells, Spares
<1>4. ASSUME NEW q \in 1..Len(s.promises)
      PROVE  Unclaimed(s, t, q) /\ (~Free(s, q) => t.promises[q].state = s.promises[q].state)
  <2>1. Unclaimed(s, u, q) /\ Unclaimed(u, t, q) /\ q \in 1..Len(u.promises)
    BY <1>1, <1>2 DEF Spares
  <2>2. Unclaimed(s, t, q)
    BY <2>1 DEF Unclaimed
  <2> QED BY <2>1, <2>2 DEF Spares
<1>5. ASSUME NEW x, Has(t, x) PROVE Has(s, x) \/ x.cell \notin 1..Len(s.cells)
  BY <1>5 DEF Spares
<1> QED BY <1>3, <1>4, <1>5 DEF Spares

\* Only what finally() is for has changed.
Reclaims(s, t, x) == SamePlaces(s, t) /\ t.aggregates = s.aggregates /\ t.finallys = x

LEMMA FinallysParts ==
    ASSUME NEW s, Typed(s), NEW x, NEW t, t = [s EXCEPT !.finallys = x]
    PROVE  Reclaims(s, t, x)
<1>1. DOMAIN s = {"promises", "cells", "jobs", "aggregates", "contexts", "tracking",
                  "rejected", "reactions", "ran", "finallys"}
  BY Record, SMTT(20) DEF Typed
<1> QED BY ONLY <1>1, t = [s EXCEPT !.finallys = x] DEF Reclaims, SamePlaces

\* A reaction for pair c, and what is claimed of its promise: u is as s with
\* the claims x, w with the reaction, and t with both.
ThenClaims(u, t, X, c, x) ==
    /\ Good(t, X) /\ Owned(t) /\ Follows(u, t) /\ t.cells = u.cells
    /\ Len(t.promises) = Len(u.promises) /\ t.finallys = x
    /\ \A h : Has(t, h) => Has(u, h) \/ h.cell = c
    /\ \A q \in 1..Len(u.promises) : t.promises[q].state = u.promises[q].state

LEMMA ClaimedThen ==
    ASSUME NEW s, NEW X, Good(s, X), NEW x \in Seq(FinallysOf(SizesOf(s))),
           NEW u, u = [s EXCEPT !.finallys = x], Owned(u), NEW p \in 1..Len(s.promises),
           NEW f \in HandlersOf(SizesOf(s)), NEW r \in HandlersOf(SizesOf(s)),
           Passive(f), Passive(r), NEW c \in 1..Len(s.cells), Alone(u, PromiseOf(u, c)),
           \A h : Halves(p, Reaction(s, f, r, c), h) => Derives(u, PromiseOf(u, c), h),
           NEW w, w = njs_promise_perform_then(s, p, f, r, c),
           NEW t, t = [w EXCEPT !.finallys = x]
    PROVE  ThenClaims(u, t, X, c, x)
<1> DEFINE e == Reaction(s, f, r, c)
<1>1. Typed(s) /\ c \in 0..Len(s.cells) /\ f.kind # "await" /\ r.kind # "await"
  <2>1. Typed(s)
    BY DEF Good, Sound
  <2> QED BY <2>1, ClaimsTyped DEF Passive
<1>2. Kept(s, u, X)
  BY ONLY Good(s, X), x \in Seq(FinallysOf(SizesOf(s))), u = [s EXCEPT !.finallys = x],
     FinallysGood
<1>3. SamePlaces(s, u) /\ u.aggregates = s.aggregates /\ u.finallys = x
  <2>1. Reclaims(s, u, x)
    BY ONLY <1>1, u = [s EXCEPT !.finallys = x], FinallysParts
  <2> QED BY ONLY <2>1 DEF Reclaims
<1>4. Good(w, X) /\ Grows(s, w) /\ Registering(s, w, p, e) /\ e \in ReactionsOf(SizesOf(w))
  <2>1. Good(w, X) /\ Grows(s, w)
    BY ONLY <1>1, Good(s, X), p \in 1..Len(s.promises), f \in HandlersOf(SizesOf(s)),
       r \in HandlersOf(SizesOf(s)), w = njs_promise_perform_then(s, p, f, r, c), ThenGood
  <2>2. Registering(s, w, p, e)
    BY <1>1, ThenParts
  <2>3. Typed(w) /\ Len(w.cells) = Len(s.cells)
    BY <2>1, <2>2 DEF Good, Sound, Registering
  <2>4. e \in ReactionsOf(SizesOf(w))
    BY <1>1, <2>1, <2>2, <2>3, RegisteringTyped DEF Registering
  <2> QED BY <2>1, <2>2, <2>4
<1>5. Typed(w) /\ Len(w.promises) = Len(s.promises) /\ w.cells = s.cells
  BY <1>4 DEF Good, Sound, Registering
<1>6. x \in Seq(FinallysOf(SizesOf(w)))
  <2>1. FinallysOf(SizesOf(w)) = FinallysOf(SizesOf(s))
    BY <1>5 DEF FinallysOf, SizesOf
  <2> QED BY <2>1
<1>7. Kept(w, t, X)
  BY ONLY <1>4, <1>6, t = [w EXCEPT !.finallys = x], FinallysGood
<1>8. SamePlaces(w, t) /\ t.aggregates = w.aggregates /\ t.finallys = x
  <2>1. Reclaims(w, t, x)
    BY ONLY <1>5, t = [w EXCEPT !.finallys = x], FinallysParts
  <2> QED BY ONLY <2>1 DEF Reclaims
<1>9. /\ Typed(u) /\ Typed(t) /\ SizesOf(u) = SizesOf(s) /\ SizesOf(t) = SizesOf(w)
  BY <1>2, <1>7 DEF Kept, Good, Sound
<1>10. Registering(u, t, p, e)
  <2>1. SameStates(u, t)
    BY <1>3, <1>4, <1>8 DEF SamePlaces, Registering, SameStates
  <2>2. Settled(u, p) <=> Settled(s, p)
    BY <1>3 DEF SamePlaces, Settled
  <2> HIDE DEF e
  <2>3. SamePlaces(s, u) /\ SamePlaces(w, t) /\ Registering(s, w, p, e)
    BY <1>3, <1>4, <1>8
  <2>4. u.aggregates = s.aggregates /\ t.aggregates = w.aggregates /\ t.finallys = u.finallys
    BY <1>3, <1>8
  <2> QED BY ONLY <2>1, <2>2, <2>3, <2>4 DEF SamePlaces, Registering
<1>11. Grows(u, t)
  <2>1. AtMost(SizesOf(u), SizesOf(t)) /\ AtMost(SizesOf(s), SizesOf(w))
    BY <1>4, <1>9 DEF Grows
  <2> QED BY <1>9, <1>10, <2>1, GrowsWithSame DEF Registering
<1>12. /\ e \in ReactionsOf(SizesOf(t)) /\ e.fulfilled = f /\ e.rejected = r /\ e.cell = c
       /\ f \in HandlersOf(SizesOf(u)) /\ r \in HandlersOf(SizesOf(u))
       /\ c \in 0..Len(u.cells) /\ p \in 1..Len(u.promises)
  BY <1>1, <1>3, <1>4, <1>9 DEF Reaction, SamePlaces
<1>13. Unshared(u, e.cell)
  BY <1>12 DEF Unshared, Alone
<1>14. \A h : Halves(p, e, h) => h.cell = c /\ Route(u, h)
  <2> SUFFICES ASSUME NEW h, Halves(p, e, h) PROVE h.cell = c /\ Route(u, h)
    OBVIOUS
  <2>1. h.cell = c /\ h.handler \in {f, r}
    BY DEF Halves, Half, Entry, Reaction
  <2>2. Derives(u, PromiseOf(u, c), h)
    OBVIOUS
  <2> QED BY <2>1, <2>2 DEF Route, Passive
<1> HIDE DEF e
<1>15. /\ Owned(t) /\ Follows(u, t)
       /\ \A h : Has(t, h) => Has(u, h) \/ Halves(p, e, h)
  BY <1>9, <1>10, <1>11, <1>12, <1>13, <1>14, RegisteringOwned
<1>16. \A h : Has(t, h) => Has(u, h) \/ h.cell = c
  BY <1>14, <1>15
<1>17. Good(t, X)
  BY <1>7 DEF Kept
<1> QED BY <1>8, <1>10, <1>15, <1>16, <1>17 DEF ThenClaims, Registering, SameStates

\* finally() for promise p: what it claims of the promise of pair c, that
\* nothing refers to yet.
FinallyClaims(s, t, c, g) ==
    LET m == PromiseOf(s, c)
    IN  /\ Owned(t) /\ Alone(t, m) /\ Beside(s, t, m) /\ SamePlaces(s, t)
        /\ \A i : ~AggregateOf(t, m, i) /\ ~InnerOf(t, m, i)
        /\ \A i : FinallyOf(t, m, i) => t.finallys[i] = g

\* What refers to nothing in a state refers to nothing in one that differs in
\* claims only.
LEMMA AloneKept ==
    ASSUME NEW s, NEW t, SamePlaces(s, t), NEW p, Alone(s, p)
    PROVE  Alone(t, p)
<1>1. /\ \A x : Has(t, x) <=> Has(s, x)
      /\ \A c : PromiseOf(t, c) = PromiseOf(s, c)
      /\ \A q : Settled(t, q) <=> Settled(s, q)
  BY SamePlacesHas
<1>2. t.jobs = s.jobs /\ t.cells = s.cells /\ t.contexts = s.contexts
  BY DEF SamePlaces
<1> QED BY <1>1, <1>2 DEF Alone, Asks

LEMMA FinallyClaimed ==
    ASSUME NEW s, NEW X, Good(s, X), Owned(s), NEW c \in 1..Len(s.cells),
           Fresh(s, PromiseOf(s, c)), NEW g \in FinallysOf(SizesOf(s)),
           g.cell = c, g.inner = 0, NEW x, x = Append(s.finallys, g),
           NEW t, t = [s EXCEPT !.finallys = x]
    PROVE  x \in Seq(FinallysOf(SizesOf(s))) /\ FinallyClaims(s, t, c, g)
<1> DEFINE m == PromiseOf(s, c)
           n == Len(s.finallys)
<1>1. Typed(s) /\ s.finallys \in Seq(FinallysOf(SizesOf(s))) /\ m \in 1..Len(s.promises)
  <2>1. Typed(s)
    BY DEF Good, Sound
  <2> QED BY <2>1, Fields, ClaimsTyped DEF Typed
<1>2. /\ x \in Seq(FinallysOf(SizesOf(s))) /\ Len(x) = n + 1 /\ n \in Nat
      /\ x[n + 1] = g /\ \A i \in 1..n : x[i] = s.finallys[i]
  BY <1>1, AppendProperties, LenProperties
<1>3. Reclaims(s, t, x)
  BY ONLY <1>1, t = [s EXCEPT !.finallys = x], FinallysParts
<1>4. SamePlaces(s, t) /\ t.aggregates = s.aggregates /\ t.finallys = x
  BY ONLY <1>3 DEF Reclaims
<1>5. Kept(s, t, X)
  BY ONLY Good(s, X), <1>2, t = [s EXCEPT !.finallys = x], FinallysGood
<1>6. Typed(t) /\ Grows(s, t)
  BY <1>5 DEF Kept, Good, Sound
<1>7. /\ \A d : PromiseOf(t, d) = PromiseOf(s, d)
      /\ \A y : Has(t, y) <=> Has(s, y)
  BY <1>4, SamePlacesHas
<1>8. /\ \A i \in 1..Len(x) : i \in 1..n \/ i = n + 1
      /\ \A i \in 1..n : i \in 1..Len(x)
      /\ n + 1 \in 1..Len(x) /\ n + 1 \notin 1..n
  BY <1>2
<1>9. Free(s, m)
  BY DEF Fresh
<1>10. Alone(s, m) /\ Alone(t, m)
  BY <1>4, AloneKept DEF Fresh
<1> HIDE DEF m, n
<1>11. \A p, i : /\ AggregateOf(t, p, i) <=> AggregateOf(s, p, i)
                 /\ FinallyOf(t, p, i) <=> FinallyOf(s, p, i) \/ (i = n + 1 /\ p = m)
                 /\ p # 0 => (InnerOf(t, p, i) <=> InnerOf(s, p, i))
                 /\ FinallyOf(s, p, i) \/ InnerOf(s, p, i) => t.finallys[i] = s.finallys[i]
  <2> SUFFICES ASSUME NEW p, NEW i
               PROVE  /\ AggregateOf(t, p, i) <=> AggregateOf(s, p, i)
                      /\ FinallyOf(t, p, i) <=> FinallyOf(s, p, i) \/ (i = n + 1 /\ p = m)
                      /\ p # 0 => (InnerOf(t, p, i) <=> InnerOf(s, p, i))
                      /\ FinallyOf(s, p, i) \/ InnerOf(s, p, i)
                            => t.finallys[i] = s.finallys[i]
    OBVIOUS
  <2>1. AggregateOf(t, p, i) <=> AggregateOf(s, p, i)
    BY <1>4, <1>7 DEF AggregateOf
  <2>2. CASE i \in 1..n
    <3>1. i \in 1..Len(x) /\ x[i] = s.finallys[i] /\ i # n + 1
      BY <1>2, <1>8, <2>2
    <3>2. i \in 1..Len(s.finallys)
      BY <2>2 DEF n
    <3> QED BY <1>4, <1>7, <2>1, <3>1, <3>2 DEF FinallyOf, InnerOf
  <2>3. CASE i = n + 1
    <3>1. i \in 1..Len(x) /\ x[i] = g /\ i \notin 1..Len(s.finallys)
      BY <1>2, <1>8, <2>3 DEF n
    <3> QED BY <1>4, <1>7, <2>1, <2>3, <3>1 DEF FinallyOf, InnerOf, m
  <2>4. CASE i \notin 1..Len(x)
    <3>1. i \notin 1..Len(s.finallys) /\ i # n + 1
      BY <1>8, <2>4 DEF n
    <3> QED BY <1>4, <2>1, <2>4, <3>1 DEF FinallyOf, InnerOf
  <2> QED BY <1>8, <2>2, <2>3, <2>4
<1>12. \A p \in 1..Len(s.promises) : p # m => SameClaims(s, t, p) /\ Unclaimed(s, t, p)
  <2> SUFFICES ASSUME NEW p \in 1..Len(s.promises), p # m
               PROVE  SameClaims(s, t, p) /\ Unclaimed(s, t, p)
    OBVIOUS
  <2>1. p # 0
    BY <1>1, ClaimsTyped
  <2>2. ASSUME NEW i
        PROVE  /\ AggregateOf(t, p, i) <=> AggregateOf(s, p, i)
               /\ FinallyOf(t, p, i) <=> FinallyOf(s, p, i)
               /\ InnerOf(t, p, i) <=> InnerOf(s, p, i)
               /\ FinallyOf(s, p, i) \/ InnerOf(s, p, i) => t.finallys[i] = s.finallys[i]
    BY ONLY <1>11, <2>1, p # m
  <2>3. t.aggregates = s.aggregates
    BY <1>4
  <2> QED BY ONLY <2>2, <2>3 DEF SameClaims, Unclaimed
<1>13. m # 0 /\ \A i : ~AggregateOf(t, m, i) /\ ~InnerOf(t, m, i)
  <2>1. m # 0
    BY <1>1, ClaimsTyped DEF m
  <2> QED BY <1>9, <1>11, <2>1 DEF Free
<1>14. \A i : FinallyOf(t, m, i) => t.finallys[i] = g
  <2>1. \A i : ~FinallyOf(s, m, i)
    BY <1>9 DEF Free
  <2> QED BY <1>2, <1>4, <1>11, <2>1
<1>15. Apart(t)
  <2> SUFFICES ASSUME NEW p, NEW a, AggregateOf(t, p, a), NEW i
               PROVE  ~FinallyOf(t, p, i) /\ ~InnerOf(t, p, i) /\ (AggregateOf(t, p, i) => i = a)
    BY DEF Apart
  <2>1. AggregateOf(s, p, a) /\ p # m
    BY <1>11, <1>13
  <2>2. p # 0
    <3>1. p \in 1..Len(s.promises)
      BY <1>1, <2>1, ClaimsTyped DEF AggregateOf
    <3> QED BY <1>1, <3>1, ClaimsTyped
  <2> QED BY <1>11, <2>1, <2>2 DEF Owned, Apart
<1>16. Lists(t)
  BY <1>1, <1>4, <1>6, ListsKept DEF Owned
<1>17. Owned(t)
  <2>1. \A p \in 1..Len(s.promises) : Alone(s, p) \/ SameClaims(s, t, p)
    BY <1>10, <1>12
  <2>2. SamePlaces(s, t) /\ \A a \in 1..Len(s.aggregates) : t.aggregates[a] = s.aggregates[a]
    BY <1>4
  <2> QED BY ONLY Owned(s), <1>1, <1>6, <1>15, <1>16, <2>1, <2>2, ClaimsOwned
<1>18. Beside(s, t, m)
  <2>1. SameCells(s, t)
    BY <1>4 DEF SameCells, SamePlaces
  <2> QED BY <1>4, <1>7, <1>12, <2>1 DEF Beside, SamePlaces
<1> QED BY <1>2, <1>4, <1>10, <1>13, <1>14, <1>17, <1>18 DEF FinallyClaims, m

\* finally(): the promise that it derives is claimed.
LEMMA FinallyLeads ==
    ASSUME NEW s, NEW X, Good(s, X), Owned(s), NEW p \in 1..Len(s.promises),
           NEW f, f = Handler("thenFinally", 0), NEW r, r = Handler("catchFinally", 0),
           NEW w, w = njs_promise_prototype_then(s, p, f, r),
           NEW t, t = [w EXCEPT !.finallys = Append(w.finallys, [from |-> p,
                                                cell |-> Len(w.cells), via |-> 0, inner |-> 0])]
    PROVE  Leads(s, t)
<1> DEFINE u == njs_promise_new_capability(s, FALSE)
           c == Len(u.cells)
           m == Len(u.promises)
           g == [from |-> p, cell |-> c, via |-> 0, inner |-> 0]
           x == Append(u.finallys, g)
           k == [u EXCEPT !.finallys = x]
<1>1. u = njs_promise_new_capability(s, FALSE)
  OBVIOUS
<1>2. w = njs_promise_perform_then(u, p, f, r, c)
  BY DEF njs_promise_prototype_then
<1>3. g = [from |-> p, cell |-> c, via |-> 0, inner |-> 0] /\ x = Append(u.finallys, g)
      /\ k = [u EXCEPT !.finallys = x]
  OBVIOUS
<1> HIDE DEF u
<1>4. /\ Good(u, X) /\ Owned(u) /\ Goes(s, u)
      /\ m = Len(s.promises) + 1 /\ c = Len(s.cells) + 1
      /\ PromiseOf(u, c) = m /\ Fresh(u, m)
  BY <1>1, CapabilityOwned, CapabilityGoes
<1>5. Typed(s) /\ Typed(u) /\ Len(s.cells) \in Nat /\ Len(s.promises) \in Nat /\ Grows(s, u)
  BY <1>4, SizesTyped DEF Good, Sound, Typed, Goes, Leads
<1>6. /\ p \in 1..Len(u.promises) /\ c \in 1..Len(u.cells)
      /\ c \notin 1..Len(s.cells) /\ m \notin 1..Len(s.promises)
  BY <1>4, <1>5
<1> HIDE DEF c, m, k, x
<1>7. /\ f \in HandlersOf(SizesOf(u)) /\ r \in HandlersOf(SizesOf(u))
      /\ Passive(f) /\ Passive(r) /\ f.kind = "thenFinally" /\ r.kind = "catchFinally"
  BY HandlerTyped DEF HandlerKinds, Passive
<1>8. /\ g \in FinallysOf(SizesOf(u)) /\ g.cell = c /\ g.from = p /\ g.via = 0 /\ g.inner = 0
  <2>1. p \in 1..SizesOf(u).promises /\ c \in 1..SizesOf(u).cells /\ 0 \in 0..SizesOf(u).promises
    BY <1>4, <1>5, <1>6 DEF SizesOf, m
  <2> QED BY <2>1 DEF FinallysOf
<1> HIDE DEF g
<1>9. x \in Seq(FinallysOf(SizesOf(u))) /\ FinallyClaims(u, k, c, g)
  <2>1. Fresh(u, PromiseOf(u, c))
    BY <1>4
  <2> QED BY ONLY <1>3, <1>4, <1>6, <1>8, <2>1, FinallyClaimed
<1>10. /\ Owned(k) /\ Alone(k, PromiseOf(k, c)) /\ Beside(u, k, m) /\ SamePlaces(u, k)
       /\ PromiseOf(k, c) = m
       /\ \A i : ~AggregateOf(k, m, i) /\ ~InnerOf(k, m, i)
       /\ \A i : FinallyOf(k, m, i) => k.finallys[i] = g
  BY <1>4, <1>9, SamePlacesHas DEF FinallyClaims
<1>11. Kept(u, k, X)
  BY ONLY <1>3, <1>4, <1>9, FinallysGood
<1>12. Typed(k) /\ Grows(u, k)
  BY <1>11 DEF Kept, Good, Sound
<1>13. \A h : Halves(p, Reaction(u, f, r, c), h) => Derives(k, m, h)
  <2> SUFFICES ASSUME NEW h, Halves(p, Reaction(u, f, r, c), h) PROVE Derives(k, m, h)
    OBVIOUS
  <2>1. /\ h.rejected \in BOOLEAN /\ h.handler = IF h.rejected THEN r ELSE f
        /\ h.cell = c /\ h.from = p
    BY DEF Halves, Half, Entry, Reaction
  <2>2. ~Settled(k, m)
    BY <1>10 DEF Alone
  <2>3. h.handler.kind = IF h.rejected THEN "catchFinally" ELSE "thenFinally"
    BY <1>7, <2>1
  <2> QED BY <1>8, <1>10, <2>1, <2>2, <2>3 DEF Derives
<1>14. t = [w EXCEPT !.finallys = x]
  <2>1. Registering(u, w, p, Reaction(u, f, r, c))
    BY <1>2, <1>5, <1>6, ThenParts
  <2>2. w.finallys = u.finallys /\ Len(w.cells) = c
    BY <2>1 DEF Registering, c
  <2> QED BY <1>3, <2>2
<1>15. \A h : Halves(p, Reaction(u, f, r, c), h) => Derives(k, PromiseOf(k, c), h)
  BY <1>10, <1>13
<1>16. /\ Good(t, X) /\ Owned(t) /\ Follows(k, t)
       /\ \A h : Has(t, h) => Has(k, h) \/ h.cell = c
       /\ \A q \in 1..Len(k.promises) : t.promises[q].state = k.promises[q].state
  <2>1. Good(u, X) /\ Owned(k) /\ Alone(k, PromiseOf(k, c)) /\ k = [u EXCEPT !.finallys = x]
    BY <1>3, <1>4, <1>10
  <2>2. x \in Seq(FinallysOf(SizesOf(u)))
    BY <1>9
  <2>3. ThenClaims(k, t, X, c, x)
    BY ONLY <1>2, <1>6, <1>7, <1>14, <1>15, <2>1, <2>2, ClaimedThen
  <2> QED BY ONLY <2>3 DEF ThenClaims
<1>17. Typed(t)
  BY <1>16 DEF Good, Sound
<1>18. Grows(s, k) /\ Spares(s, k)
  <2>1. Grows(s, k)
    BY <1>5, <1>12, GrowsTransitive
  <2>2. Beside(s, u, m)
    BY <1>4, SparesBeside DEF Goes, Leads
  <2>3. Beside(s, k, m)
    BY <1>5, <1>10, <1>12, <2>2, BesideTransitive
  <2> QED BY <1>6, <2>1, <2>3, BesideSpares
<1>19. Spares(s, t)
  <2>1. \A h : Has(t, h) => Has(k, h) \/ h.cell \notin 1..Len(s.cells)
    BY <1>6, <1>16
  <2> QED BY <1>5, <1>12, <1>16, <1>17, <1>18, <2>1, SparesFollows
<1>20. Grows(s, t)
  BY <1>5, <1>12, <1>16, <1>17, <1>18, GrowsTransitive DEF Follows
<1> QED BY <1>16, <1>19, <1>20 DEF Leads

-----------------------------------------------------------------------------
(* The callbacks of finally().                                               *)

\* What is due to the pair of functions of a callback of finally() that runs.
FinallyHeld(s, f) ==
    LET p == PromiseOf(s, f.id)
    IN  /\ Unshared(s, f.id)
        /\ \A i : ~AggregateOf(s, p, i) /\ ~InnerOf(s, p, i)
        /\ \A i : FinallyOf(s, p, i) =>
              /\ s.finallys[i].cell = f.id /\ s.finallys[i].via = 0
              /\ s.finallys[i].inner = 0 /\ ~Settled(s, p)
              /\ SettledTo(s, s.finallys[i].from, f.kind = "catchFinally", f.value)

\* It is due for as long as the callback runs.
LEMMA FinallyHeldKept ==
    ASSUME NEW s, NEW t, Typed(s), Typed(t), Grows(s, t), Spares(s, t), NEW f,
           f.id \in 1..Len(s.cells), FinallyHeld(s, f)
    PROVE  FinallyHeld(t, f)
<1> DEFINE p == PromiseOf(s, f.id)
<1>1. p \in 1..Len(s.promises) /\ PromiseOf(t, f.id) = p
  BY ClaimsTyped DEF Spares, SameCells, PromiseOf
<1>2. Unclaimed(s, t, p) /\ (~Free(s, p) => t.promises[p].state = s.promises[p].state)
  BY <1>1 DEF Spares
<1>3. /\ Unshared(s, f.id) /\ \A i : ~AggregateOf(s, p, i) /\ ~InnerOf(s, p, i)
      /\ \A i : FinallyOf(s, p, i) =>
            /\ s.finallys[i].cell = f.id /\ s.finallys[i].via = 0
            /\ s.finallys[i].inner = 0 /\ ~Settled(s, p)
            /\ SettledTo(s, s.finallys[i].from, f.kind = "catchFinally", f.value)
  BY DEF FinallyHeld
<1> HIDE DEF p
<1>4. Unshared(t, f.id)
  BY <1>3 DEF Unshared, Spares
<1>5. \A i : ~AggregateOf(t, p, i) /\ ~InnerOf(t, p, i)
  BY <1>2, <1>3 DEF Unclaimed
<1>6. ASSUME NEW i, FinallyOf(t, p, i)
      PROVE  /\ t.finallys[i].cell = f.id /\ t.finallys[i].via = 0
             /\ t.finallys[i].inner = 0 /\ ~Settled(t, p)
             /\ SettledTo(t, t.finallys[i].from, f.kind = "catchFinally", f.value)
  <2>1. FinallyOf(s, p, i) /\ t.finallys[i] = s.finallys[i]
    BY <1>2, <1>6 DEF Unclaimed
  <2>2. ~Settled(t, p)
    BY <1>2, <1>3, <2>1 DEF Free, Settled
  <2>3. s.finallys[i].from \in 1..Len(s.promises)
    BY <2>1, ClaimsTyped DEF FinallyOf
  <2>4. SettledTo(s, s.finallys[i].from, f.kind = "catchFinally", f.value)
    BY <1>3, <2>1
  <2>5. SettledTo(t, s.finallys[i].from, f.kind = "catchFinally", f.value)
    BY <2>3, <2>4, SettledToKept
  <2> QED BY <1>3, <2>1, <2>2, <2>5
<1> QED BY <1>1, <1>4, <1>5, <1>6 DEF FinallyHeld

\* Nothing but the callback settles the promise of its finally().
LEMMA FinallyAlone ==
    ASSUME NEW s, Typed(s), Owned(s), NEW f, f.id \in 1..Len(s.cells), FinallyHeld(s, f),
           NEW p, p = PromiseOf(s, f.id), NEW i, FinallyOf(s, p, i)
    PROVE  Alone(s, p)
<1>1. /\ Unshared(s, f.id) /\ ~Settled(s, p) /\ s.finallys[i].cell = f.id
      /\ s.finallys[i].inner = 0 /\ ~Free(s, p)
  BY DEF FinallyHeld, Free
<1>2. f.id # NoCell
  BY ClaimsTyped DEF NoCell
<1>3. ASSUME NEW e, Has(s, e), e.cell # NoCell PROVE PromiseOf(s, e.cell) # p
  <2>1. Route(s, e) /\ e.cell # f.id
    BY <1>1, <1>2, <1>3 DEF Owned, Routes, Unshared
  <2>2. SUFFICES ASSUME PromiseOf(s, e.cell) = p PROVE FALSE
    OBVIOUS
  <2>3. Derives(s, p, e)
    BY <1>3, <2>1, <2>2 DEF Route
  <2> QED BY <1>1, <2>1, <2>3 DEF Derives
<1>4. ASSUME NEW e, Has(s, e), e.handler.kind \in {"resolve", "reject"}
      PROVE  PromiseOf(s, e.handler.id) # p
  <2>1. SUFFICES ASSUME PromiseOf(s, e.handler.id) = p PROVE FALSE
    OBVIOUS
  <2>2. Into(s, p, e) /\ e.from \in 1..Len(s.promises)
    <3>1. Route(s, e)
      BY <1>4 DEF Owned, Routes
    <3>2. Into(s, p, e)
      BY <1>4, <2>1, <3>1 DEF Route
    <3>3. e \in EntriesOf(SizesOf(s))
      BY <1>4, EntryTyped
    <3> QED BY <3>2, <3>3 DEF EntriesOf, SizesOf
  <2>3. e.from # 0
    BY <2>2, ClaimsTyped
  <2> QED BY <1>1, <2>2, <2>3 DEF Into
<1>5. ASSUME NEW k \in 1..Len(s.jobs), Asks(s, k) PROVE s.jobs[k].promise # p
  <2>1. SUFFICES ASSUME s.jobs[k].promise = p PROVE FALSE
    OBVIOUS
  <2>2. Asked(s, p, s.jobs[k].value)
    BY <1>5, <2>1 DEF Owned, Asking
  <2>3. s.jobs[k].value = Value("promise", 0)
    BY <1>1, <2>2 DEF Asked
  <2>4. s.jobs[k].value \in ValuesOf(SizesOf(s))
    BY Elements DEF JobsOf
  <2>5. 0 \in 1..Len(s.promises)
    BY <2>3, <2>4 DEF ValuesOf, Value, SizesOf
  <2> QED BY <2>5, ClaimsTyped
<1>6. \A c \in 1..Len(s.cells) : s.cells[c].exposed => PromiseOf(s, c) # p
  BY <1>1 DEF Owned, Frees
<1>7. \A x \in 1..Len(s.contexts) : PromiseOf(s, s.contexts[x].cell) # p
  BY <1>1 DEF Owned, Frees
<1> QED BY <1>1, <1>3, <1>4, <1>5, <1>6, <1>7 DEF Alone

\* What is claimed then: the outcome of promise m, the one of pair c, and that
\* the promise of the frame's pair may be settled as m will be.
FinallyWaits(s, t, f, q, m) ==
    /\ Owned(t) /\ Alone(t, m) /\ SamePlaces(s, t)
    /\ \A i : ~AggregateOf(t, m, i) /\ ~FinallyOf(t, m, i)
    /\ \A i : InnerOf(t, m, i) => /\ f.id # NoCell /\ i \in 1..Len(s.finallys)
                                  /\ s.finallys[i].cell = f.id
                                  /\ t.finallys[i].via = q
                                  /\ t.finallys[i].from = s.finallys[i].from
    /\ f.id # NoCell => Asked(t, PromiseOf(t, f.id), Value("promise", m))

LEMMA FinallyWaiting ==
    ASSUME NEW s, NEW X, Good(s, X), Owned(s), NEW f, f.id \in 0..Len(s.cells),
           f.id # NoCell => FinallyHeld(s, f),
           NEW m \in 1..Len(s.promises), Fresh(s, m), NEW q \in 1..Len(s.promises),
           NEW x \in Seq(FinallysOf(SizesOf(s))), Waiting(s.finallys, x, f.id, q, m),
           NEW t, t = [s EXCEPT !.finallys = x]
    PROVE  FinallyWaits(s, t, f, q, m)
<1> DEFINE p == PromiseOf(s, f.id)
           n == Len(s.finallys)
<1>1. Typed(s)
  BY DEF Good, Sound
<1>2. /\ Len(x) = n /\ n \in Nat
      /\ \A i \in 1..n : x[i].from = s.finallys[i].from /\ x[i].cell = s.finallys[i].cell
      /\ \A i \in 1..n : s.finallys[i].cell = f.id => x[i].via = q /\ x[i].inner = m
      /\ \A i \in 1..n : s.finallys[i].cell # f.id => x[i] = s.finallys[i]
  BY DEF Waiting
<1>3. Reclaims(s, t, x)
  BY ONLY <1>1, t = [s EXCEPT !.finallys = x], FinallysParts
<1>4. SamePlaces(s, t) /\ t.aggregates = s.aggregates /\ t.finallys = x
  BY ONLY <1>3 DEF Reclaims
<1>5. Kept(s, t, X)
  BY ONLY Good(s, X), x \in Seq(FinallysOf(SizesOf(s))), t = [s EXCEPT !.finallys = x],
     FinallysGood
<1>6. Typed(t) /\ Grows(s, t)
  BY <1>5 DEF Kept, Good, Sound
<1>7. \A d : PromiseOf(t, d) = PromiseOf(s, d)
  BY <1>4, SamePlacesHas
<1>8. Alone(s, m) /\ Alone(t, m) /\ Free(s, m) /\ m # 0
  BY <1>1, <1>4, AloneKept, ClaimsTyped DEF Fresh
<1>9. \A i \in 1..n : s.finallys[i].cell # NoCell
  BY <1>1, ClaimsTyped DEF NoCell
\* The claim that changes is that of the frame's pair.
<1>10. ASSUME NEW i \in 1..n, s.finallys[i].cell = f.id
       PROVE  /\ f.id # NoCell /\ FinallyHeld(s, f) /\ FinallyOf(s, p, i) /\ Alone(s, p)
              /\ s.finallys[i].inner = 0
  <2>1. f.id # NoCell /\ FinallyHeld(s, f) /\ FinallyOf(s, p, i)
    BY <1>9, <1>10 DEF FinallyOf
  <2>2. f.id \in 1..Len(s.cells)
    BY <1>1, <1>10, ClaimsTyped
  <2> HIDE DEF p
  <2>3. Alone(s, p)
    BY <1>1, <2>1, <2>2, FinallyAlone DEF p
  <2> QED BY <2>1, <2>3 DEF FinallyHeld, p
<1> HIDE DEF p, n
<1>11. \A d, i : /\ AggregateOf(t, d, i) <=> AggregateOf(s, d, i)
                 /\ FinallyOf(t, d, i) <=> FinallyOf(s, d, i)
  BY <1>2, <1>4, <1>7 DEF AggregateOf, FinallyOf, n
<1>12. \A d, i : InnerOf(t, d, i) =>
          \/ InnerOf(s, d, i) /\ s.finallys[i].cell # f.id
          \/ d = m /\ i \in 1..n /\ s.finallys[i].cell = f.id
  BY <1>2, <1>4 DEF InnerOf, n
<1>13. \A d \in 1..Len(s.promises) : Alone(s, d) \/ SameClaims(s, t, d)
  <2> SUFFICES ASSUME NEW d \in 1..Len(s.promises), ~Alone(s, d) PROVE SameClaims(s, t, d)
    OBVIOUS
  <2>1. d # 0 /\ d # m
    BY <1>1, <1>8, ClaimsTyped
  <2>2. ASSUME NEW i, FinallyOf(s, d, i) \/ InnerOf(s, d, i)
        PROVE  i \in 1..n /\ s.finallys[i].cell # f.id /\ t.finallys[i] = s.finallys[i]
    <3>1. i \in 1..n
      BY <2>2 DEF FinallyOf, InnerOf, n
    <3>2. s.finallys[i].cell # f.id
      <4>1. SUFFICES ASSUME s.finallys[i].cell = f.id PROVE FALSE
        OBVIOUS
      <4>2. FinallyOf(s, p, i) /\ Alone(s, p) /\ s.finallys[i].inner = 0
        BY <1>10, <3>1, <4>1
      <4> QED BY <2>1, <2>2, <4>2 DEF FinallyOf, InnerOf
    <3> QED BY <1>2, <1>4, <3>1, <3>2
  <2>3. \A i : InnerOf(t, d, i) <=> InnerOf(s, d, i)
    <3>1. \A i : InnerOf(t, d, i) => InnerOf(s, d, i)
      BY <1>12, <2>1
    <3>2. ASSUME NEW i, InnerOf(s, d, i) PROVE InnerOf(t, d, i)
      <4>1. t.finallys[i] = s.finallys[i]
        BY <2>2, <3>2
      <4> QED BY <1>2, <1>4, <3>2, <4>1 DEF InnerOf, n
    <3> QED BY <3>1, <3>2
  <2>4. t.aggregates = s.aggregates
    BY <1>4
  <2> QED BY ONLY <1>11, <2>2, <2>3, <2>4 DEF SameClaims
<1>14. Apart(t)
  <2> SUFFICES ASSUME NEW d, NEW a, AggregateOf(t, d, a), NEW i
               PROVE  ~FinallyOf(t, d, i) /\ ~InnerOf(t, d, i) /\ (AggregateOf(t, d, i) => i = a)
    BY DEF Apart
  <2>1. AggregateOf(s, d, a) /\ d # m
    BY <1>8, <1>11 DEF Free
  <2> QED BY <1>11, <1>12, <2>1 DEF Owned, Apart
<1>15. Lists(t)
  BY <1>1, <1>4, <1>6, ListsKept DEF Owned
<1>16. Owned(t)
  <2>1. SamePlaces(s, t) /\ \A a \in 1..Len(s.aggregates) : t.aggregates[a] = s.aggregates[a]
    BY <1>4
  <2> QED BY ONLY Owned(s), <1>1, <1>6, <1>13, <1>14, <1>15, <2>1, ClaimsOwned
<1>17. \A i : ~AggregateOf(t, m, i) /\ ~FinallyOf(t, m, i)
  BY <1>8, <1>11 DEF Free
<1>18. \A i : InnerOf(t, m, i) => /\ f.id # NoCell /\ i \in 1..Len(s.finallys)
                                  /\ s.finallys[i].cell = f.id
                                  /\ t.finallys[i].via = q
                                  /\ t.finallys[i].from = s.finallys[i].from
  <2> SUFFICES ASSUME NEW i, InnerOf(t, m, i)
               PROVE  /\ f.id # NoCell /\ i \in 1..Len(s.finallys)
                      /\ s.finallys[i].cell = f.id /\ t.finallys[i].via = q
                      /\ t.finallys[i].from = s.finallys[i].from
    OBVIOUS
  <2>1. i \in 1..n /\ s.finallys[i].cell = f.id
    BY <1>8, <1>12 DEF Free
  <2> QED BY <1>2, <1>4, <1>10, <2>1 DEF n
<1>19. ASSUME f.id # NoCell PROVE Asked(t, p, Value("promise", m))
  <2>1. /\ \A i : ~AggregateOf(s, p, i) /\ ~InnerOf(s, p, i)
        /\ \A i : FinallyOf(s, p, i) => s.finallys[i].cell = f.id
    BY <1>19 DEF FinallyHeld, p
  <2>2. \A i : FinallyOf(t, p, i) => t.finallys[i].inner = m
    <3> SUFFICES ASSUME NEW i, FinallyOf(t, p, i) PROVE t.finallys[i].inner = m
      OBVIOUS
    <3>1. FinallyOf(s, p, i) /\ s.finallys[i].cell = f.id
      BY <1>11, <2>1
    <3>2. i \in 1..n
      BY <3>1 DEF FinallyOf, n
    <3> QED BY <1>2, <1>4, <3>1, <3>2
  <2>3. p = m => \A i : ~InnerOf(t, p, i)
    <3> SUFFICES ASSUME p = m, NEW i, InnerOf(t, p, i) PROVE FALSE
      OBVIOUS
    <3>1. i \in 1..n /\ s.finallys[i].cell = f.id
      BY <1>12, <2>1
    <3>2. FinallyOf(s, m, i)
      BY <1>10, <3>1
    <3> QED BY <1>8, <3>2 DEF Free
  <2>4. \A i : ~InnerOf(t, p, i)
    BY <1>12, <2>1, <2>3
  <2>5. \A i : ~AggregateOf(t, p, i)
    BY <1>11, <2>1
  <2> QED BY <2>2, <2>4, <2>5 DEF Asked
<1>20. f.id # NoCell => Asked(t, PromiseOf(t, f.id), Value("promise", m))
  BY <1>7, <1>19 DEF p
<1> QED BY <1>4, <1>8, <1>16, <1>17, <1>18, <1>20 DEF FinallyWaits

\* The callback has returned v.
LEMMA ThenFinallyOwned ==
    ASSUME NEW s, NEW X, Good(s, X), Owned(s), NEW v \in ValuesOf(SizesOf(s)),
           frame.kind \in {"thenFinally", "catchFinally"}, frame.id \in 0..Len(s.cells),
           frame.value \in ValuesOf(SizesOf(s)),
           frame.id # NoCell => FinallyHeld(s, frame),
           NEW t, t = njs_promise_then_finally_function(s, v)
    PROVE  Owned(t)
<1> DEFINE r == njs_promise_resolve(s, v)
           q == r.promise
           b == r.vm
           u == njs_promise_new_capability(b, FALSE)
           c == Len(u.cells)
           m == Len(u.promises)
           h == ThunkHandler(Thunk(frame.kind), frame.value)
           o == Handler("none", 0)
           w == njs_promise_perform_then(u, q, h, o, c)
           x == [i \in DOMAIN w.finallys |->
                    IF w.finallys[i].cell = frame.id
                    THEN [w.finallys[i] EXCEPT !.via = q, !.inner = Len(w.promises)]
                    ELSE w.finallys[i]]
           d == [w EXCEPT !.finallys = x]
           k == [u EXCEPT !.finallys = x]
           y == Value("promise", Len(w.promises))
<1>1. t = Settle(d, frame.id, FALSE, y)
  BY Zenon DEF njs_promise_then_finally_function, njs_promise_prototype_then
<1>2. /\ w = njs_promise_perform_then(u, q, h, o, c)
      /\ d = [w EXCEPT !.finallys = x] /\ k = [u EXCEPT !.finallys = x]
      /\ x = [i \in DOMAIN w.finallys |->
                    IF w.finallys[i].cell = frame.id
                    THEN [w.finallys[i] EXCEPT !.via = q, !.inner = Len(w.promises)]
                    ELSE w.finallys[i]]
      /\ y = Value("promise", Len(w.promises))
      /\ r = njs_promise_resolve(s, v) /\ u = njs_promise_new_capability(b, FALSE)
  OBVIOUS
<1> HIDE DEF y, k, d, x, w, u, r
<1>3. /\ Good(b, X) /\ Owned(b) /\ Goes(s, b) /\ q \in 1..Len(b.promises)
  BY <1>2, PromiseResolveGood, PromiseResolveOwned DEF Goes, Leads
<1> HIDE DEF b, q
<1>4. /\ Good(u, X) /\ Owned(u) /\ Goes(b, u)
      /\ m = Len(b.promises) + 1 /\ c = Len(b.cells) + 1
      /\ PromiseOf(u, c) = m /\ Fresh(u, m)
  BY <1>2, <1>3, CapabilityOwned, CapabilityGoes
<1>5. /\ Typed(s) /\ Typed(b) /\ Typed(u) /\ Len(b.cells) \in Nat /\ Len(b.promises) \in Nat
      /\ Grows(s, b) /\ Grows(b, u)
  BY <1>3, <1>4, SizesTyped DEF Good, Sound, Typed, Goes, Leads
<1>6. Goes(s, u) /\ Grows(s, u) /\ Spares(s, u)
  BY <1>3, <1>4, <1>5, GoesTransitive DEF Goes, Leads
<1>7. q \in 1..Len(u.promises) /\ c \in 1..Len(u.cells) /\ m \in 1..Len(u.promises)
  BY <1>3, <1>4, <1>5
<1> HIDE DEF c, m, h, o
<1>8. /\ h \in HandlersOf(SizesOf(u)) /\ o \in HandlersOf(SizesOf(u))
      /\ Passive(h) /\ Passive(o)
  <2>1. Thunk(frame.kind) \in {"return", "throw"}
    BY DEF Thunk
  <2>2. frame.value \in ValuesOf(SizesOf(u))
    BY <1>5, <1>6, Later
  <2>3. h \in HandlersOf(SizesOf(u)) /\ h.kind \in {"return", "throw"}
    BY <2>1, <2>2, ThunkTyped DEF h
  <2>4. o \in HandlersOf(SizesOf(u)) /\ o.kind = "none"
    BY HandlerTyped DEF HandlerKinds, o
  <2> QED BY <2>3, <2>4 DEF Passive
<1>9. frame.id \in 0..Len(u.cells) /\ (frame.id # NoCell => FinallyHeld(u, frame))
  <2>1. frame.id \in 0..Len(u.cells)
    BY <1>5, <1>6, Later
  <2>2. frame.id # NoCell => frame.id \in 1..Len(s.cells)
    BY <1>5, ClaimsTyped DEF NoCell
  <2> QED BY <1>5, <1>6, <2>1, <2>2, FinallyHeldKept
<1>10. w.finallys = u.finallys /\ Len(w.promises) = m
  <2>1. Registering(u, w, q, Reaction(u, h, o, c))
    BY <1>2, <1>5, <1>7, ThenParts
  <2> QED BY <2>1 DEF Registering, m
<1>11. x \in Seq(FinallysOf(SizesOf(u))) /\ Waiting(u.finallys, x, frame.id, q, m)
  <2>1. u.finallys \in Seq(FinallysOf(SizesOf(u)))
    BY <1>5, Fields DEF Typed
  <2>2. q \in 0..SizesOf(u).promises /\ m \in 0..SizesOf(u).promises
    BY <1>7 DEF SizesOf
  <2>3. x = Waited(u.finallys, frame.id, q, m)
    BY <1>2, <1>10 DEF Waited
  <2> QED BY ONLY <2>1, <2>2, <2>3, WaitingTyped
<1>12. FinallyWaits(u, k, frame, q, m)
  <2>1. k = [u EXCEPT !.finallys = x]
    BY <1>2
  <2> QED BY ONLY <1>4, <1>7, <1>9, <1>11, <2>1, FinallyWaiting
<1>13. /\ Owned(k) /\ Alone(k, m) /\ SamePlaces(u, k) /\ PromiseOf(k, c) = m
       /\ PromiseOf(k, frame.id) = PromiseOf(u, frame.id)
       /\ \A p, e, g : SettledTo(k, p, e, g) <=> SettledTo(u, p, e, g)
       /\ \A i : ~AggregateOf(k, m, i) /\ ~FinallyOf(k, m, i)
       /\ \A i : InnerOf(k, m, i) => /\ frame.id # NoCell /\ i \in 1..Len(u.finallys)
                                     /\ u.finallys[i].cell = frame.id
                                     /\ k.finallys[i].via = q
                                     /\ k.finallys[i].from = u.finallys[i].from
       /\ frame.id # NoCell => Asked(k, PromiseOf(k, frame.id), Value("promise", m))
  BY <1>4, <1>12, SamePlacesHas DEF FinallyWaits
<1>14. \A e : Halves(q, Reaction(u, h, o, c), e) => Derives(k, m, e)
  <2> SUFFICES ASSUME NEW e, Halves(q, Reaction(u, h, o, c), e) PROVE Derives(k, m, e)
    OBVIOUS
  <2>1. /\ e.rejected \in BOOLEAN /\ e.handler = (IF e.rejected THEN o ELSE h)
        /\ e.cell = c /\ e.from = q
    BY DEF Halves, Half, Entry, Reaction
  <2>2. ASSUME NEW i, InnerOf(k, m, i)
        PROVE  /\ k.finallys[i].via = e.from /\ Settled(k, k.finallys[i].from)
               /\ e.handler = Resumption(k, k.finallys[i], e.rejected)
    <3> DEFINE p == u.finallys[i].from
    <3>1. /\ frame.id # NoCell /\ i \in 1..Len(u.finallys) /\ u.finallys[i].cell = frame.id
          /\ k.finallys[i].via = q /\ k.finallys[i].from = p
      BY <1>13, <2>2
    <3>2. SettledTo(u, p, frame.kind = "catchFinally", frame.value)
      <4>1. FinallyOf(u, PromiseOf(u, frame.id), i)
        BY <3>1 DEF FinallyOf
      <4> QED BY <1>9, <3>1, <4>1 DEF FinallyHeld
    <3>3. SettledTo(k, p, frame.kind = "catchFinally", frame.value)
      BY <1>13, <3>2
    <3> HIDE DEF p
    <3>4. /\ k.promises[p].result = frame.value
          /\ k.promises[p].state = IF frame.kind = "catchFinally" THEN "rejected" ELSE "fulfilled"
      BY <3>3 DEF SettledTo, As
    <3>5. Thunk(frame.kind) = IF k.promises[p].state = "fulfilled" THEN "return" ELSE "throw"
      BY <3>4 DEF Thunk
    <3>6. e.handler = Resumption(k, k.finallys[i], e.rejected)
      BY <2>1, <3>1, <3>4, <3>5 DEF Resumption, h, o
    <3> QED BY <2>1, <3>1, <3>4, <3>6 DEF Settled
  <2> QED BY <1>13, <2>2 DEF Derives
<1>15. ThenClaims(k, d, X, c, x)
  <2>1. /\ Good(u, X) /\ Owned(k) /\ Alone(k, PromiseOf(k, c))
        /\ k = [u EXCEPT !.finallys = x] /\ d = [w EXCEPT !.finallys = x]
        /\ w = njs_promise_perform_then(u, q, h, o, c)
    BY <1>2, <1>4, <1>13
  <2>2. \A e : Halves(q, Reaction(u, h, o, c), e) => Derives(k, PromiseOf(k, c), e)
    BY <1>13, <1>14
  <2>3. x \in Seq(FinallysOf(SizesOf(u)))
    BY <1>11
  <2> QED BY ONLY <1>7, <1>8, <2>1, <2>2, <2>3, ClaimedThen
<1>16. Good(d, X) /\ Owned(d) /\ Follows(k, d) /\ d.cells = k.cells /\ Len(d.promises) = Len(k.promises)
  BY <1>15 DEF ThenClaims
<1>17. Typed(k) /\ Typed(d) /\ frame.id \in 0..Len(d.cells)
  <2>1. Kept(u, k, X)
    BY ONLY <1>2, <1>4, <1>11, FinallysGood
  <2>2. d.cells = u.cells
    BY <1>13, <1>16 DEF SamePlaces
  <2> QED BY <1>9, <1>16, <2>1, <2>2 DEF Kept, Good, Sound
<1>18. y \in ValuesOf(SizesOf(d)) /\ y.kind = "promise" /\ y = Value("promise", m)
  <2>1. Len(d.promises) = Len(u.promises)
    BY <1>13, <1>16 DEF SamePlaces
  <2>2. m \in 1..SizesOf(d).promises /\ m \in Nat
    BY <1>5, <1>7, <2>1, ClaimsTyped DEF SizesOf
  <2>3. y = Value("promise", m)
    BY <1>2, <1>10
  <2> QED BY <2>2, <2>3 DEF Value, ValuesOf, Values_, Kinds
<1>19. frame.id # NoCell => /\ Asked(d, PromiseOf(d, frame.id), y)
                            /\ y # Value("promise", PromiseOf(d, frame.id))
  <2> SUFFICES ASSUME frame.id # NoCell
               PROVE  /\ Asked(d, PromiseOf(d, frame.id), y)
                      /\ y # Value("promise", PromiseOf(d, frame.id))
    OBVIOUS
  <2>1. PromiseOf(d, frame.id) = PromiseOf(k, frame.id)
    BY <1>16 DEF PromiseOf
  <2>2. Asked(d, PromiseOf(k, frame.id), y)
    BY <1>13, <1>16, <1>17, <1>18, AskedKept
  <2>3. PromiseOf(k, frame.id) # m
    <3>1. PromiseOf(s, frame.id) \in 1..Len(s.promises) /\ frame.id \in 1..Len(s.cells)
      BY <1>5, ClaimsTyped DEF NoCell
    <3>2. PromiseOf(u, frame.id) = PromiseOf(s, frame.id)
      BY <1>6, <3>1 DEF Spares, SameCells, PromiseOf
    <3>3. PromiseOf(s, frame.id) \in 1..Len(b.promises)
      BY <1>5, <3>1, Later
    <3> QED BY <1>4, <1>5, <1>13, <3>2, <3>3
  <2> QED BY <1>18, <2>1, <2>2, <2>3 DEF Value
<1>20. Keeps(d, t, X, PromiseOf(d, frame.id))
  <2>1. FALSE \in BOOLEAN /\ ~FALSE
    OBVIOUS
  <2> QED BY ONLY <1>1, <1>16, <1>17, <1>18, <1>19, <2>1, SettleOwned
<1> QED BY <1>20 DEF Keeps

-----------------------------------------------------------------------------
(* The inductive invariant of outcomes, and what scripts do to it.           *)

\* What is due to the pair of functions that awaits the end of what runs.
FrameHeld(s, f) ==
    f.id # NoCell =>
       /\ f.kind \in {"handler", "then"} => Free(s, PromiseOf(s, f.id))
       /\ f.kind \in {"thenFinally", "catchFinally"} => FinallyHeld(s, f)

Claims == Owned(vm) /\ FrameHeld(vm, frame)

LEMMA FreeSpared ==
    ASSUME NEW s, NEW t, Spares(s, t), NEW p \in 1..Len(s.promises), Free(s, p)
    PROVE  Free(t, p)
BY DEF Spares, Unclaimed, Free

LEMMA FrameHeldKept ==
    ASSUME NEW s, NEW t, Typed(s), Typed(t), Grows(s, t), Spares(s, t), NEW f,
           f.kind \in {"handler", "then", "thenFinally", "catchFinally"} => f.id \in 0..Len(s.cells),
           FrameHeld(s, f)
    PROVE  FrameHeld(t, f)
<1> SUFFICES ASSUME f.id # NoCell,
                    f.kind \in {"handler", "then", "thenFinally", "catchFinally"}
             PROVE  /\ f.kind \in {"handler", "then"} => Free(t, PromiseOf(t, f.id))
                    /\ f.kind \in {"thenFinally", "catchFinally"} => FinallyHeld(t, f)
  BY DEF FrameHeld
<1>1. f.id \in 1..Len(s.cells)
  BY ClaimsTyped DEF NoCell
<1>2. PromiseOf(t, f.id) = PromiseOf(s, f.id) /\ PromiseOf(s, f.id) \in 1..Len(s.promises)
  BY <1>1, ClaimsTyped DEF Spares, SameCells, PromiseOf
<1>3. ASSUME f.kind \in {"handler", "then"} PROVE Free(t, PromiseOf(t, f.id))
  BY <1>2, <1>3, FreeSpared DEF FrameHeld
<1>4. ASSUME f.kind \in {"thenFinally", "catchFinally"} PROVE FinallyHeld(t, f)
  <2>1. FinallyHeld(s, f)
    BY <1>4 DEF FrameHeld
  <2> QED BY <1>1, <2>1, FinallyHeldKept
<1> QED BY <1>3, <1>4

\* An operation of the script that runs.
LEMMA ScriptClaims ==
    ASSUME Inv, Claims, ScriptStep, NEW op, NEW s, Script(op, s), Leads(vm, s)
    PROVE  Claims'
<1>1. vm' = s /\ frame' = frame
  BY DEF Script
<1>2. Typed(vm) /\ Typed(s)
  BY <1>1 DEF Inv, ScriptStep, Advances, Good, Sound
<1>3. FrameHeld(s, frame)
  BY <1>2, FrameFacts, FrameHeldKept DEF Leads, Claims
<1> QED BY <1>1, <1>3 DEF Leads, Claims

LEMMA StaticRejectGoes ==
    ASSUME NEW s, NEW X, Good(s, X), Owned(s), NEW v \in ValuesOf(SizesOf(s)),
           NEW u, u = njs_promise_new_capability(s, FALSE),
           NEW t, t = njs_promise_reject_function(u, Len(u.cells), v)
    PROVE  Goes(s, t)
<1> DEFINE c == Len(u.cells)
<1>1. FALSE \in BOOLEAN
  OBVIOUS
<1>2. /\ Good(u, X) /\ Owned(u) /\ Len(u.cells) = Len(s.cells) + 1
      /\ PromiseOf(u, c) = Len(u.promises) /\ Free(u, Len(u.promises))
  BY <1>1, CapabilityOwned
<1>3. Goes(s, u)
  BY <1>1, CapabilityGoes
<1>4. Typed(s) /\ Typed(u) /\ v \in ValuesOf(SizesOf(u))
  BY <1>2, <1>3, Later DEF Good, Sound, Goes, Leads
<1>5. c \in 1..Len(u.cells)
  <2>1. Len(s.cells) \in Nat
    BY <1>4, ClaimsTyped
  <2>2. Len(u.cells) = Len(s.cells) + 1
    BY <1>2
  <2>3. Len(u.cells) \in 1..Len(u.cells)
    BY ONLY <2>1, <2>2
  <2> QED BY <2>3
<1> HIDE DEF c
<1>6. t = njs_promise_reject_function(u, c, v) /\ Free(u, PromiseOf(u, c))
  BY <1>2 DEF c
<1>7. Keeps(u, t, X, PromiseOf(u, c))
  BY <1>2, <1>4, <1>5, <1>6, RejectOwned DEF Allows
<1>8. Goes(u, t) /\ Typed(t)
  BY <1>4, <1>6, <1>7, KeepsGoes DEF Keeps, Kept, Good, Sound
<1> QED BY <1>3, <1>4, <1>8, GoesTransitive

\* A resolving function that the script was given is called.
LEMMA ExposedGoes ==
    ASSUME NEW s, NEW X, Good(s, X), Owned(s), NEW c \in 1..Len(s.cells), s.cells[c].exposed,
           NEW v \in ValuesOf(SizesOf(s)),
           NEW t, \/ t = njs_promise_resolve_function(s, c, v)
                  \/ t = njs_promise_reject_function(s, c, v)
    PROVE  Goes(s, t)
<1>1. Free(s, PromiseOf(s, c)) /\ Typed(s)
  BY DEF Owned, Frees, Good, Sound
<1>2. Keeps(s, t, X, PromiseOf(s, c))
  <2>1. \A b : Allows(s, PromiseOf(s, c), b, v)
    BY <1>1 DEF Allows
  <2> QED BY <2>1, ResolveOwned, RejectOwned
<1> QED BY <1>1, <1>2, KeepsGoes

LEMMA ScriptsClaim ==
    ASSUME Inv, Claims, Scripts
    PROVE  Claims'
<1> DEFINE n == SizesOf(vm)
<1>1. /\ Good(vm, Running) /\ Typed(vm) /\ Owned(vm)
      /\ program.values \subseteq ValuesOf(n) /\ Args(vm) \subseteq ValuesOf(n)
      /\ DOMAIN vm.promises = 1..Len(vm.promises)
  BY ArgsTyped DEF Inv, Good, Sound, Claims
<1>2. DOMAIN vm.cells = 1..Len(vm.cells)
  <2>1. vm.cells \in Seq(CellsOf(n))
    <3> HIDE DEF n
    <3> QED BY <1>1, Fields DEF Typed, n
  <2> HIDE DEF n
  <2> QED BY <2>1, LenProperties
<1>20. ScriptStep
  BY ScriptsAdvance
<1> SUFFICES \E op, s : Script(op, s) /\ Leads(vm, s)
  BY <1>20, ScriptClaims
<1>3. CASE njs_promise_constructor
  <2> DEFINE t == njs_promise_new_capability(vm, TRUE)
  <2>1. \E e \in BOOLEAN : t = njs_promise_new_capability(vm, e)
    BY Zenon
  <2>2. Script("new", t)
    BY <1>3 DEF njs_promise_constructor
  <2> HIDE DEF t
  <2>3. Leads(vm, t)
    BY <1>1, <2>1, CapabilityGoes DEF Goes
  <2> QED BY <2>2, <2>3
<1>4. CASE njs_promise_object_resolve
  <2>1. PICK v \in Args(vm) : Script("static", njs_promise_resolve(vm, v).vm)
    BY <1>4 DEF njs_promise_object_resolve
  <2> DEFINE r == njs_promise_resolve(vm, v)
  <2>2. Script("static", r.vm) /\ v \in ValuesOf(n)
    BY <1>1, <2>1
  <2>3. r = njs_promise_resolve(vm, v)
    OBVIOUS
  <2> HIDE DEF r
  <2>4. Leads(vm, r.vm)
    BY <1>1, <2>2, <2>3, PromiseResolveOwned DEF Goes
  <2> QED BY <2>2, <2>4
<1>5. CASE njs_promise_object_reject
  <2> DEFINE t == njs_promise_new_capability(vm, FALSE)
  <2>1. PICK v \in program.values :
           Script("static", njs_promise_reject_function(t, Len(t.cells), v))
    BY <1>5 DEF njs_promise_object_reject
  <2> DEFINE u == njs_promise_reject_function(t, Len(t.cells), v)
  <2>3. /\ Script("static", u) /\ u = njs_promise_reject_function(t, Len(t.cells), v)
        /\ t = njs_promise_new_capability(vm, FALSE) /\ v \in ValuesOf(SizesOf(vm))
    BY <1>1, <2>1
  <2> HIDE DEF t, u
  <2>4. Leads(vm, u)
    BY <1>1, <2>3, StaticRejectGoes DEF Goes
  <2> QED BY <2>3, <2>4
<1>6. CASE CallResolvingFunction
  <2>1. PICK c \in DOMAIN vm.cells, v \in Args(vm) :
           /\ vm.cells[c].exposed
           /\ \/ Script("settle", njs_promise_resolve_function(vm, c, v))
              \/ Script("settle", njs_promise_reject_function(vm, c, v))
    BY <1>6 DEF CallResolvingFunction
  <2>2. c \in 1..Len(vm.cells) /\ v \in ValuesOf(n)
    BY <1>1, <1>2, <2>1
  <2>3. ASSUME NEW t, t = njs_promise_resolve_function(vm, c, v) \/ t = njs_promise_reject_function(vm, c, v)
        PROVE  Leads(vm, t)
    BY <1>1, <2>1, <2>2, <2>3, ExposedGoes DEF Goes
  <2>4. \E t : /\ Script("settle", t)
               /\ \/ t = njs_promise_resolve_function(vm, c, v)
                  \/ t = njs_promise_reject_function(vm, c, v)
    BY <2>1, Zenon
  <2> QED BY <2>3, <2>4
<1>7. CASE then
  <2>1. PICK p \in DOMAIN vm.promises, f \in program.handlers, r \in program.handlers :
           Script("then", njs_promise_prototype_then(vm, p, Handler(f, 0), Handler(r, 0)))
    BY <1>7 DEF then
  <2>2. f \in {"fn", "none"} /\ r \in {"fn", "none"} /\ p \in 1..Len(vm.promises)
    BY <1>1, <2>1 DEF Inv, ProgramType
  <2>3. /\ Handler(f, 0) \in HandlersOf(n) /\ Handler(r, 0) \in HandlersOf(n)
        /\ Passive(Handler(f, 0)) /\ Passive(Handler(r, 0))
    BY <2>2, HandlerTyped DEF HandlerKinds, Passive
  <2> DEFINE t == njs_promise_prototype_then(vm, p, Handler(f, 0), Handler(r, 0))
  <2>4. Script("then", t) /\ t = njs_promise_prototype_then(vm, p, Handler(f, 0), Handler(r, 0))
    BY <2>1
  <2> HIDE DEF t
  <2>5. Leads(vm, t)
    BY <1>1, <2>2, <2>3, <2>4, PrototypeThenGoes DEF Goes
  <2> QED BY <2>4, <2>5
<1>8. CASE njs_promise_prototype_finally
  <2> DEFINE f == Handler("thenFinally", 0)
             r == Handler("catchFinally", 0)
             S(p) == njs_promise_prototype_then(vm, p, f, r)
  <2>1. PICK p \in DOMAIN vm.promises :
           Script("finally", [S(p) EXCEPT !.finallys = Append(@, [from |-> p,
                                              cell |-> Len(S(p).cells), via |-> 0, inner |-> 0])])
    BY <1>8 DEF njs_promise_prototype_finally
  <2> DEFINE u == S(p)
             t == [u EXCEPT !.finallys = Append(u.finallys, [from |-> p,
                                              cell |-> Len(u.cells), via |-> 0, inner |-> 0])]
  <2>3. Script("finally", t)
    BY <2>1
  <2>4. /\ u = njs_promise_prototype_then(vm, p, f, r) /\ f = Handler("thenFinally", 0)
        /\ r = Handler("catchFinally", 0) /\ p \in 1..Len(vm.promises)
    BY <1>1
  <2> HIDE DEF f, r, S, u
  <2>5. Leads(vm, t)
    BY <1>1, <2>4, FinallyLeads
  <2> HIDE DEF t
  <2> QED BY <2>3, <2>5
<1>9. CASE CallAsyncFunction
  <2>1. PICK v \in Args(vm) : Script("async", njs_async_function_frame_invoke(vm, v))
    BY <1>9 DEF CallAsyncFunction
  <2> DEFINE t == njs_async_function_frame_invoke(vm, v)
  <2>2. Script("async", t) /\ t = njs_async_function_frame_invoke(vm, v) /\ v \in ValuesOf(n)
    BY <1>1, <2>1
  <2> HIDE DEF t
  <2>3. Leads(vm, t)
    BY <1>1, <2>2, InvokeLeads
  <2> QED BY <2>2, <2>3
<1>10. CASE Aggregate
  <2>1. PICK kind \in {"all", "allSettled", "any", "race"}, l \in program.lists :
           \E list \in [1..l -> Args(vm)] : Script("aggregate", njs_promise_all(vm, kind, list))
    BY <1>10 DEF Aggregate
  <2>2. PICK list \in [1..l -> Args(vm)] : Script("aggregate", njs_promise_all(vm, kind, list))
    BY <2>1
  <2>3. l \in Nat
    BY DEF Inv, ProgramType
  <2>4. list \in Seq(ValuesOf(n))
    BY <2>3, ListsTyped
  <2> DEFINE t == njs_promise_all(vm, kind, list)
  <2>5. Script("aggregate", t) /\ t = njs_promise_all(vm, kind, list)
    BY <2>2
  <2> HIDE DEF t
  <2>6. Leads(vm, t)
    BY <1>1, <2>4, <2>5, AllLeads
  <2> QED BY <2>5, <2>6
<1> QED BY <1>3, <1>4, <1>5, <1>6, <1>7, <1>8, <1>9, <1>10 DEF Scripts

-----------------------------------------------------------------------------
(* What runs comes to its end.                                               *)

\* Nothing is due to a frame that is idle, or to a script.
LEMMA UnheldFrames ==
    ASSUME NEW s, NEW f, f.kind \in {"idle", "script", "async"}
    PROVE  FrameHeld(s, f)
BY DEF FrameHeld

LEMMA IdleHeld == \A s : FrameHeld(s, Idle)
BY UnheldFrames DEF Idle

LEMMA AwaitClaims ==
    ASSUME Inv, Claims, Await
    PROVE  Claims'
<1>1. frame.kind = "async" /\ Running = {frame.id} /\ frame' = Idle
  BY DEF Await, Running
<1>2. PICK v \in Args(vm) : vm' = njs_vmcode_await(vm, frame.id, v)
  BY DEF Await
<1>3. v \in ValuesOf(SizesOf(vm)) /\ Good(vm, Running) /\ Owned(vm) /\ frame.id \in Running
  BY <1>1, ArgsTyped DEF Inv, Claims
<1>4. Owned(vm')
  BY <1>2, <1>3, AwaitGoes DEF Goes, Leads
<1> QED BY <1>1, <1>4, IdleHeld DEF Claims

\* The functions of a handler that runs settle a promise without claims.
LEMMA SettleFree ==
    ASSUME NEW s, NEW X, Good(s, X), Owned(s), NEW c \in 0..Len(s.cells),
           NEW v \in ValuesOf(SizesOf(s)), NEW b \in BOOLEAN,
           c # NoCell => Free(s, PromiseOf(s, c)), NEW t, t = Settle(s, c, b, v)
    PROVE  Owned(t)
<1>1. c = NoCell \/ Allows(s, PromiseOf(s, c), b, v)
  BY DEF Allows
<1> QED BY <1>1, SettleOwned DEF Keeps

LEMMA ReturnClaims ==
    ASSUME Inv, Claims, Return
    PROVE  Claims'
<1>1. PICK v \in Args(vm) :
         \/ frame.kind = "handler" /\ vm' = Settle(vm, frame.id, FALSE, v)
         \/ frame.kind = "async" /\ vm' = AsyncEnds(vm, frame.id, FALSE, v)
         \/ /\ frame.kind \in {"thenFinally", "catchFinally"}
            /\ vm' = njs_promise_then_finally_function(vm, v)
         \/ frame.kind \in {"script", "then"} /\ vm' = vm
  BY Zenon DEF Return
<1>2. v \in ValuesOf(SizesOf(vm)) /\ Good(vm, Running) /\ Owned(vm) /\ FrameHeld(vm, frame)
  BY ArgsTyped DEF Inv, Claims
<1>3. frame.kind = "async" => frame.id \in Running
  BY DEF Running
<1>4. Owned(vm')
  <2>1. CASE frame.kind = "handler" /\ vm' = Settle(vm, frame.id, FALSE, v)
    <3>1. \E b \in BOOLEAN : vm' = Settle(vm, frame.id, b, v)
      BY <2>1, Zenon
    <3>2. frame.id # NoCell => Free(vm, PromiseOf(vm, frame.id))
      BY <1>2, <2>1 DEF FrameHeld
    <3>3. frame.id \in 0..Len(vm.cells)
      BY <2>1, FrameFacts
    <3> QED BY <1>2, <3>1, <3>2, <3>3, SettleFree
  <2>2. CASE frame.kind = "async" /\ vm' = AsyncEnds(vm, frame.id, FALSE, v)
    <3>1. \E b \in BOOLEAN : vm' = AsyncEnds(vm, frame.id, b, v)
      BY <2>2, Zenon
    <3> QED BY <1>2, <1>3, <2>2, <3>1, EndsLeads DEF Leads
  <2>3. CASE /\ frame.kind \in {"thenFinally", "catchFinally"}
             /\ vm' = njs_promise_then_finally_function(vm, v)
    <3>1. frame.id # NoCell => FinallyHeld(vm, frame)
      BY <1>2, <2>3 DEF FrameHeld
    <3>2. frame.id \in 0..Len(vm.cells) /\ frame.value \in ValuesOf(SizesOf(vm))
      BY <2>3, FrameFacts
    <3> QED BY <1>2, <2>3, <3>1, <3>2, ThenFinallyOwned
  <2>4. CASE frame.kind \in {"script", "then"} /\ vm' = vm
    BY <1>2, <2>4
  <2> QED BY <1>1, <2>1, <2>2, <2>3, <2>4
<1> QED BY <1>4, IdleHeld DEF Return, Claims

\* A callback of finally() that throws settles its promise with the exception.
LEMMA HeldAllows ==
    ASSUME NEW s, Typed(s), Owned(s), NEW f, f.id \in 1..Len(s.cells), FinallyHeld(s, f), NEW v
    PROVE  Allows(s, PromiseOf(s, f.id), TRUE, v)
<1> DEFINE p == PromiseOf(s, f.id)
<1>1. /\ Unshared(s, f.id) /\ \A i : ~AggregateOf(s, p, i) /\ ~InnerOf(s, p, i)
      /\ \A i : FinallyOf(s, p, i) => s.finallys[i].via = 0 /\ s.finallys[i].cell = f.id
  BY DEF FinallyHeld
<1> HIDE DEF p
<1>2. \A i : FinallyOf(s, p, i) => FinallyFits(s, i, TRUE, v)
  BY <1>1 DEF FinallyFits
<1>3. Fits(s, p, TRUE, v)
  BY <1>1, <1>2 DEF Fits
<1>4. CASE \A i : ~FinallyOf(s, p, i)
  BY <1>3, <1>4 DEF Underived, Allows, p
<1>5. CASE \E i : FinallyOf(s, p, i)
  <2>1. Alone(s, p)
    BY <1>5, FinallyAlone DEF p
  <2>2. Underived(s, p)
    BY <2>1 DEF Alone, Underived
  <2> QED BY <1>3, <2>2 DEF Allows, p
<1> QED BY <1>4, <1>5

LEMMA ThrowClaims ==
    ASSUME Inv, Claims, Throw
    PROVE  Claims'
<1>1. PICK v \in program.values :
         \/ /\ frame.kind \in {"handler", "then", "thenFinally", "catchFinally"}
            /\ vm' = Settle(vm, frame.id, TRUE, v)
         \/ frame.kind = "async" /\ vm' = AsyncEnds(vm, frame.id, TRUE, v)
         \/ frame.kind = "script" /\ vm' = vm
  BY Zenon DEF Throw
<1>2. /\ v \in ValuesOf(SizesOf(vm)) /\ Good(vm, Running) /\ Typed(vm)
      /\ Owned(vm) /\ FrameHeld(vm, frame)
  BY ArgsTyped DEF Inv, Claims, Good, Sound
<1>3. frame.kind = "async" => frame.id \in Running
  BY DEF Running
<1>4. Owned(vm')
  <2>1. CASE /\ frame.kind \in {"handler", "then", "thenFinally", "catchFinally"}
             /\ vm' = Settle(vm, frame.id, TRUE, v)
    <3>1. TRUE \in BOOLEAN /\ vm' = Settle(vm, frame.id, TRUE, v)
      BY <2>1
    <3>2. frame.id \in 0..Len(vm.cells)
      BY <2>1, FrameFacts
    <3>3. frame.id # NoCell => Allows(vm, PromiseOf(vm, frame.id), TRUE, v)
      <4> SUFFICES ASSUME frame.id # NoCell
                   PROVE  Allows(vm, PromiseOf(vm, frame.id), TRUE, v)
        OBVIOUS
      <4>1. CASE frame.kind \in {"handler", "then"}
        BY <1>2, <4>1 DEF FrameHeld, Allows
      <4>2. CASE frame.kind \in {"thenFinally", "catchFinally"}
        <5>1. FinallyHeld(vm, frame)
          BY <1>2, <4>2 DEF FrameHeld
        <5>2. frame.id \in 1..Len(vm.cells)
          BY <1>2, <3>2, ClaimsTyped DEF NoCell
        <5> QED BY <1>2, <5>1, <5>2, HeldAllows
      <4> QED BY <2>1, <4>1, <4>2
    <3>4. Keeps(vm, vm', Running, PromiseOf(vm, frame.id))
      BY <1>2, <3>1, <3>2, <3>3, SettleOwned
    <3> QED BY <3>4 DEF Keeps
  <2>2. CASE frame.kind = "async" /\ vm' = AsyncEnds(vm, frame.id, TRUE, v)
    <3>1. TRUE \in BOOLEAN /\ vm' = AsyncEnds(vm, frame.id, TRUE, v)
      BY <2>2
    <3> QED BY <1>2, <1>3, <2>2, <3>1, EndsLeads DEF Leads
  <2>3. CASE frame.kind = "script" /\ vm' = vm
    BY <1>2, <2>3
  <2> QED BY <1>1, <2>1, <2>2, <2>3
<1> QED BY <1>4, IdleHeld DEF Throw, Claims

-----------------------------------------------------------------------------
(* Jobs run.                                                                 *)

LEMMA ThenableClaims ==
    ASSUME Inv, Claims, frame = Idle, vm.jobs # <<>>, njs_promise_resolve_thenable_job
    PROVE  Claims'
<1> DEFINE j == Head(vm.jobs)
           native == j.value.kind = "promise"
           s == njs_promise_create_resolving_functions(Dequeued, j.promise, ~native)
           c == Len(s.cells)
<1>1. /\ j.kind = "thenable"
      /\ vm' = IF native THEN Adopt(s, j.value.id, c) ELSE s
      /\ frame' = IF native THEN Idle ELSE Frame("then", c)
  BY Zenon DEF njs_promise_resolve_thenable_job
<1>2. Good(vm, {}) /\ Typed(vm) /\ Owned(vm)
  BY DEF Inv, Good, Sound, Running, Idle, Claims
<1>3. /\ Good(s, {}) /\ Owned(s) /\ c \in 1..c
      /\ PromiseOf(s, c) = j.promise /\ Asked(s, j.promise, j.value)
      /\ ~native => Free(s, j.promise)
      /\ Len(s.promises) = Len(vm.promises)
  <2>1. \E e \in BOOLEAN : e = ~native /\ s = njs_promise_create_resolving_functions(Dequeued, j.promise, e)
    BY Zenon
  <2>2. Dequeued = Unqueued(vm)
    BY DEF Dequeued, Unqueued
  <2>3. j = Head(vm.jobs)
    OBVIOUS
  <2> HIDE DEF s, j
  <2>4. PICK e \in BOOLEAN : e = ~native /\ s = njs_promise_create_resolving_functions(Dequeued, j.promise, e)
    BY <2>1
  <2>5. j.kind = "thenable" /\ Good(vm, {}) /\ Owned(vm)
    BY <1>1, <1>2
  <2>6. e => j.value.kind # "promise"
    BY <2>4
  <2>7. s = njs_promise_create_resolving_functions(Dequeued, j.promise, e)
    BY <2>4
  <2>8. /\ Good(s, {}) /\ Len(s.promises) = Len(vm.promises)
    BY ONLY <2>2, <2>3, <2>7, <2>5, vm.jobs # <<>>, ThenableGood
  <2>9. /\ Owned(s) /\ Len(s.cells) \in 1..Len(s.cells)
        /\ PromiseOf(s, Len(s.cells)) = j.promise /\ Asked(s, j.promise, j.value)
        /\ e => Free(s, j.promise)
    BY ONLY <2>2, <2>3, <2>7, <2>5, <2>6, vm.jobs # <<>>, ThenableOwned
  <2> QED BY <2>4, <2>8, <2>9
<1>4. j \in JobsOf(SizesOf(vm))
  BY <1>2, TailJobs
<1>5. CASE native
  <2>1. j.value \in ValuesOf(SizesOf(vm))
    BY <1>4 DEF JobsOf
  <2>2. j.value.id \in 1..SizesOf(vm).promises
    BY <1>5, <2>1, PromiseValue
  <2>3. j.value.id \in 1..Len(s.promises)
    BY <1>3, <2>2 DEF SizesOf
  <2>4. vm' = Adopt(s, j.value.id, c) /\ frame' = Idle /\ j.value.kind = "promise"
    BY <1>1, <1>5
  <2>5. c \in 1..Len(s.cells)
    BY <1>3
  <2> HIDE DEF s, c, j
  <2>6. Asked(s, PromiseOf(s, c), j.value)
    BY <1>3
  <2>7. Goes(s, vm')
    BY <1>3, <2>3, <2>4, <2>5, <2>6, AdoptGoes
  <2> QED BY <2>4, <2>7, IdleHeld DEF Goes, Leads, Claims
<1>6. CASE ~native
  <2>1. vm' = s /\ frame' = Frame("then", c)
    BY <1>1, <1>6
  <2>2. Frame("then", c) = [kind |-> "then", id |-> c, value |-> Undefined]
    BY FrameIs
  <2> HIDE DEF s, c, j
  <2>3. Free(s, PromiseOf(s, c))
    BY <1>3, <1>6
  <2>4. FrameHeld(s, Frame("then", c))
    BY <2>2, <2>3 DEF FrameHeld
  <2> QED BY <1>3, <2>1, <2>4 DEF Claims
<1> QED BY <1>5, <1>6

\* A promise may be settled as the one whose outcome it takes over ...
LEMMA IntoAllows ==
    ASSUME NEW s, Typed(s), Owned(s), NEW e, e.from \in 1..Len(s.promises),
           e.rejected \in BOOLEAN, NEW v, SettledTo(s, e.from, e.rejected, v),
           NEW p, Into(s, p, e)
    PROVE  Allows(s, p, e.rejected, v)
<1> DEFINE b == e.rejected
<1>1. ASSUME NEW a, AggregateOf(s, p, a)
      PROVE  AggregateFits(s, a, b, v)
  <2>1. /\ \E k \in 1..Len(s.aggregates[a].inputs) : s.aggregates[a].inputs[k] = e.from
        /\ s.aggregates[a].kind \in IF b THEN {"all", "race"} ELSE {"any", "race"}
    BY <1>1 DEF Into
  <2>2. OneIs(s, a, b, v)
    BY <2>1 DEF OneIs
  <2> QED BY <2>1, <2>2 DEF AggregateFits
<1>2. ASSUME NEW i, FinallyOf(s, p, i)
      PROVE  FinallyFits(s, i, b, v)
  <2>1. s.finallys[i].inner = e.from /\ InnerOf(s, e.from, i)
    BY <1>2 DEF Into, FinallyOf, InnerOf
  <2>2. s.promises[e.from].state = As(b) /\ s.promises[e.from].result = v
    BY DEF SettledTo
  <2>3. Fits(s, e.from, b, v)
    BY <2>2 DEF Owned, AllFit
  <2>4. InnerFits(s, i, b, v)
    BY <2>1, <2>3 DEF Fits
  <2> QED BY <2>4 DEF InnerFits, FinallyFits
<1>3. \A i : ~InnerOf(s, p, i)
  BY DEF Into
<1>4. Underived(s, p)
  <2> SUFFICES ASSUME NEW x, Has(s, x), x.cell # NoCell, PromiseOf(s, x.cell) = p,
                      NEW i, FinallyOf(s, p, i)
               PROVE  FALSE
    BY DEF Underived
  <2>1. Derives(s, p, x)
    BY DEF Owned, Routes, Route
  <2>2. s.finallys[i].inner = 0 /\ s.finallys[i].inner = e.from
    BY <2>1 DEF Derives, Into
  <2>3. Len(s.promises) \in Nat
    BY ClaimsTyped
  <2> QED BY <2>2, <2>3
<1>5. ~b => Final(v)
  BY DEF Owned, Finals, SettledTo, As
<1>6. Fits(s, p, b, v)
  BY <1>1, <1>2, <1>3 DEF Fits
<1> QED BY <1>4, <1>5, <1>6 DEF Allows

\* What becomes of a promise that is derived, when no function of a script is
\* called.
Passes(e, v, b, w) ==
    \/ e.handler.kind = "none" /\ b = e.rejected /\ w = v
    \/ e.handler.kind = "return" /\ b = FALSE /\ w = e.handler.value
    \/ e.handler.kind = "throw" /\ b = TRUE /\ w = e.handler.value

\* ... and the promise that finally() waits for as that of its callback, or as
\* the one that finally() was called for.
LEMMA DerivesAllows ==
    ASSUME NEW s, Typed(s), Owned(s), NEW e, e.from \in 1..Len(s.promises),
           e.rejected \in BOOLEAN, NEW v, SettledTo(s, e.from, e.rejected, v),
           NEW p, Derives(s, p, e), NEW b \in BOOLEAN, NEW w, Passes(e, v, b, w)
    PROVE  Allows(s, p, b, w)
<1>1. (\A a : ~AggregateOf(s, p, a)) /\ (\A i : ~FinallyOf(s, p, i))
  BY DEF Derives, Passes
<1>2. Underived(s, p)
  BY <1>1 DEF Underived
<1>3. ASSUME NEW i, InnerOf(s, p, i)
      PROVE  InnerFits(s, i, b, w) /\ (~b => Final(w))
  <2> DEFINE f == s.finallys[i]
  <2>1. /\ f.via = e.from /\ Settled(s, f.from) /\ e.handler = Resumption(s, f, e.rejected)
    BY <1>3 DEF Derives
  <2>2. f.from \in 1..Len(s.promises) /\ e.from # 0
    BY <1>3, ClaimsTyped DEF InnerOf
  <2>3. s.promises[f.from].state \in {"fulfilled", "rejected"}
    <3>1. s.promises[f.from] \in PromisesOf(SizesOf(s))
      BY <2>2, Fields DEF Typed, SizesOf
    <3> QED BY <2>1, <3>1 DEF PromisesOf, Settled
  <2> HIDE DEF f
  <2>4. CASE e.rejected
    <3>1. e.handler = Handler("none", 0)
      BY <2>1, <2>4 DEF Resumption
    <3>2. e.handler.kind = "none"
      BY <3>1 DEF Handler
    <3>3. b = e.rejected /\ w = v
      BY <3>2 DEF Passes
    <3>4. b /\ f.via # 0 /\ SettledTo(s, f.via, TRUE, w)
      BY <2>1, <2>2, <2>4, <3>3
    <3> QED BY <3>4 DEF InnerFits, f
  <2>5. CASE ~e.rejected
    <3>1. e.handler = ThunkHandler(IF s.promises[f.from].state = "fulfilled" THEN "return" ELSE "throw",
                                   s.promises[f.from].result)
      BY <2>1, <2>5 DEF Resumption
    <3>2. /\ e.handler.kind = IF s.promises[f.from].state = "fulfilled" THEN "return" ELSE "throw"
          /\ e.handler.value = s.promises[f.from].result
      BY <3>1 DEF ThunkHandler, Handler
    <3>3. w = s.promises[f.from].result /\ b = (s.promises[f.from].state = "rejected")
      BY <2>3, <3>2 DEF Passes
    <3>4. SettledTo(s, f.from, b, w)
      BY <2>3, <3>3 DEF SettledTo, As
    <3>5. ~b => Final(w)
      BY <2>2, <2>3, <3>3 DEF Owned, Finals
    <3> QED BY <3>4, <3>5 DEF InnerFits, f
  <2> QED BY <2>4, <2>5
<1>4. Fits(s, p, b, w)
  BY <1>1, <1>3 DEF Fits
<1>5. CASE \E i : InnerOf(s, p, i)
  BY <1>2, <1>3, <1>4, <1>5 DEF Allows
<1>6. CASE \A i : ~InnerOf(s, p, i)
  BY <1>1, <1>6 DEF Free, Allows
<1> QED BY <1>5, <1>6

\* The entry of the job that runs.
LEMMA DueEntry ==
    ASSUME NEW s, Typed(s), NEW j \in JobsOf(SizesOf(s)), j.kind = "reaction", Due(s, j),
           NEW e, e = JobEntry(s, j)
    PROVE  /\ e.from \in 1..Len(s.promises) /\ e.rejected \in BOOLEAN
           /\ e.rejected = j.rejected /\ e.handler = j.handler /\ e.cell = j.cell
           /\ SettledTo(s, e.from, e.rejected, j.value) /\ Route(s, e)
<1>1. /\ e \in EntriesOf(SizesOf(s)) /\ e.from = s.reactions[j.reaction]
      /\ e.rejected = j.rejected /\ e.handler = j.handler /\ e.cell = j.cell
  BY JobEntryTyped
<1>2. e.from \in 1..Len(s.promises) /\ e.rejected \in BOOLEAN
  BY <1>1 DEF EntriesOf, SizesOf
<1> QED BY <1>1, <1>2 DEF Due

\* A reaction whose handler is one of the engine, or none.
LEMMA NativeOwned ==
    ASSUME NEW s, NEW X, Good(s, X), Owned(s), NEW j \in JobsOf(SizesOf(s)),
           j.kind = "reaction", Due(s, j), NEW t,
           \/ j.handler.kind = "none" /\ t = Settle(s, j.cell, j.rejected, j.value)
           \/ /\ j.handler.kind = "resolve"
              /\ t = njs_promise_resolve_function(s, j.handler.id, j.value)
           \/ /\ j.handler.kind = "reject"
              /\ t = njs_promise_reject_function(s, j.handler.id, j.value)
           \/ /\ j.handler.kind = "element"
              /\ t = ElementFunction(s, j.handler.id, j.handler.index, j.rejected, j.value)
           \/ j.handler.kind = "return" /\ t = Settle(s, j.cell, FALSE, j.handler.value)
           \/ j.handler.kind = "throw" /\ t = Settle(s, j.cell, TRUE, j.handler.value)
    PROVE  Owned(t)
<1> DEFINE h == j.handler
           e == JobEntry(s, j)
<1>1. /\ h \in HandlersOf(SizesOf(s)) /\ j.value \in ValuesOf(SizesOf(s))
      /\ j.cell \in 0..Len(s.cells) /\ j.rejected \in BOOLEAN
  BY DEF JobsOf, SizesOf
<1>2. SizesOf(s).cells = Len(s.cells) /\ SizesOf(s).aggregates = Len(s.aggregates) /\ Typed(s)
  BY DEF SizesOf, Good, Sound
<1>3. /\ e.from \in 1..Len(s.promises) /\ e.rejected \in BOOLEAN
      /\ e.rejected = j.rejected /\ e.handler = h /\ e.cell = j.cell
      /\ SettledTo(s, e.from, e.rejected, j.value) /\ Route(s, e)
  BY <1>2, DueEntry
<1> HIDE DEF h, e
<1>4. /\ h.value \in ValuesOf(SizesOf(s))
      /\ h.kind \in {"resolve", "reject"} => h.id \in 1..Len(s.cells)
      /\ h.kind = "element" => h.id \in 1..Len(s.aggregates)
  BY <1>1, <1>2 DEF HandlersOf
<1>5. ASSUME NEW b \in BOOLEAN, NEW w \in ValuesOf(SizesOf(s)), Passes(e, j.value, b, w),
             t = Settle(s, j.cell, b, w)
      PROVE  Owned(t)
  <2>1. j.cell # NoCell => Derives(s, PromiseOf(s, j.cell), e)
    BY <1>3 DEF Route
  <2>2. j.cell # NoCell => Allows(s, PromiseOf(s, j.cell), b, w)
    BY <1>2, <1>3, <1>5, <2>1, DerivesAllows
  <2>3. Keeps(s, t, X, PromiseOf(s, j.cell))
    BY <1>1, <1>5, <2>2, SettleOwned
  <2> QED BY <2>3 DEF Keeps
<1>6. CASE h.kind = "none" /\ t = Settle(s, j.cell, j.rejected, j.value)
  <2>1. Passes(e, j.value, j.rejected, j.value)
    BY <1>3, <1>6 DEF Passes
  <2> QED BY <1>1, <1>5, <1>6, <2>1
<1>7. CASE h.kind = "resolve" /\ t = njs_promise_resolve_function(s, h.id, j.value)
  <2>1. Into(s, PromiseOf(s, h.id), e) /\ ~e.rejected
    BY <1>3, <1>7 DEF Route
  <2>2. Allows(s, PromiseOf(s, h.id), e.rejected, j.value)
    BY <1>2, <1>3, <2>1, IntoAllows
  <2>3. Allows(s, PromiseOf(s, h.id), FALSE, j.value)
    BY <1>3, <2>1, <2>2
  <2>4. Keeps(s, t, X, PromiseOf(s, h.id))
    BY <1>1, <1>4, <1>7, <2>3, ResolveOwned
  <2> QED BY <2>4 DEF Keeps
<1>8. CASE h.kind = "reject" /\ t = njs_promise_reject_function(s, h.id, j.value)
  <2>1. Into(s, PromiseOf(s, h.id), e) /\ e.rejected
    BY <1>3, <1>8 DEF Route
  <2>2. Allows(s, PromiseOf(s, h.id), e.rejected, j.value)
    BY <1>2, <1>3, <2>1, IntoAllows
  <2>3. Allows(s, PromiseOf(s, h.id), TRUE, j.value)
    BY <1>3, <2>1, <2>2
  <2>4. Keeps(s, t, X, PromiseOf(s, h.id))
    BY <1>1, <1>4, <1>8, <2>3, RejectOwned
  <2> QED BY <2>4 DEF Keeps
<1>9. CASE h.kind = "element" /\ t = ElementFunction(s, h.id, h.index, j.rejected, j.value)
  <2>1. Member(s, e)
    BY <1>3, <1>9 DEF Route
  <2> DEFINE g == s.aggregates[h.id]
  <2>2. /\ h.index \in 1..Len(g.inputs) /\ g.inputs[h.index] = e.from
        /\ g.kind \in IF j.rejected THEN {"allSettled", "any"} ELSE {"all", "allSettled"}
    BY <1>3, <2>1 DEF Member
  <2>3. SettledTo(s, g.inputs[h.index], j.rejected, j.value)
    BY <1>3, <2>2
  <2> QED BY <1>1, <1>4, <1>9, <2>2, <2>3, ElementOwned
<1>10. CASE h.kind = "return" /\ t = Settle(s, j.cell, FALSE, h.value)
  <2>1. FALSE \in BOOLEAN /\ Passes(e, j.value, FALSE, h.value)
    BY <1>3, <1>10 DEF Passes
  <2> QED BY <1>4, <1>5, <1>10, <2>1
<1>11. CASE h.kind = "throw" /\ t = Settle(s, j.cell, TRUE, h.value)
  <2>1. TRUE \in BOOLEAN /\ Passes(e, j.value, TRUE, h.value)
    BY <1>3, <1>11 DEF Passes
  <2> QED BY <1>4, <1>5, <1>11, <2>1
<1> QED BY <1>6, <1>7, <1>8, <1>9, <1>10, <1>11, Zenon DEF h

\* A reaction whose handler is a function of the script.
LEMMA CallHeld ==
    ASSUME NEW s, Typed(s), NEW j \in JobsOf(SizesOf(s)), j.kind = "reaction", Due(s, j),
           NEW f, f.id = j.cell,
           \/ j.handler.kind = "fn" /\ f.kind = "handler"
           \/ /\ j.handler.kind \in {"thenFinally", "catchFinally"}
              /\ f.kind = j.handler.kind /\ f.value = j.value
    PROVE  FrameHeld(s, f)
<1> SUFFICES ASSUME f.id # NoCell PROVE FrameHeld(s, f)
  BY DEF FrameHeld
<1> DEFINE e == JobEntry(s, j)
           p == PromiseOf(s, f.id)
<1>1. /\ e.rejected \in BOOLEAN
      /\ e.rejected = j.rejected /\ e.handler = j.handler /\ e.cell = f.id
      /\ SettledTo(s, e.from, e.rejected, j.value) /\ Route(s, e)
  BY DueEntry
<1> HIDE DEF e, p
<1>2. Derives(s, p, e) /\ Unshared(s, f.id)
  BY <1>1 DEF Route, p, Due
<1>3. ASSUME NEW i PROVE ~AggregateOf(s, p, i) /\ ~InnerOf(s, p, i)
  <2>1. Resumption(s, s.finallys[i], e.rejected).kind \in {"none", "return", "throw"}
    BY DEF Resumption, ThunkHandler, Handler
  <2>2. InnerOf(s, p, i) => e.handler = Resumption(s, s.finallys[i], e.rejected)
    BY <1>2 DEF Derives
  <2>3. ~AggregateOf(s, p, i)
    BY <1>2 DEF Derives
  <2> QED BY <1>1, <2>1, <2>2, <2>3
<1>4. ASSUME NEW i, FinallyOf(s, p, i)
      PROVE  /\ s.finallys[i].cell = f.id /\ s.finallys[i].via = 0
             /\ s.finallys[i].inner = 0 /\ ~Settled(s, p)
             /\ e.handler.kind = IF e.rejected THEN "catchFinally" ELSE "thenFinally"
             /\ SettledTo(s, s.finallys[i].from, e.rejected, j.value)
  BY <1>1, <1>2, <1>4 DEF Derives
<1>5. CASE j.handler.kind = "fn" /\ f.kind = "handler"
  <2>1. \A i : ~FinallyOf(s, p, i)
    BY <1>1, <1>4, <1>5
  <2>2. Free(s, p)
    BY <1>3, <2>1 DEF Free
  <2> QED BY <1>5, <2>2 DEF FrameHeld, p
<1>6. CASE /\ j.handler.kind \in {"thenFinally", "catchFinally"}
           /\ f.kind = j.handler.kind /\ f.value = j.value
  <2>1. ASSUME NEW i, FinallyOf(s, p, i)
        PROVE  SettledTo(s, s.finallys[i].from, f.kind = "catchFinally", f.value)
    <3>1. f.kind = IF e.rejected THEN "catchFinally" ELSE "thenFinally"
      BY <1>1, <1>4, <1>6, <2>1
    <3>2. SettledTo(s, s.finallys[i].from, e.rejected, f.value)
      BY <1>4, <1>6, <2>1
    <3>3. CASE e.rejected
      <4>1. (f.kind = "catchFinally") = TRUE /\ e.rejected = TRUE
        BY <1>1, <3>1, <3>3
      <4> QED BY <3>2, <4>1 DEF SettledTo, As
    <3>4. CASE ~e.rejected
      <4>1. (f.kind = "catchFinally") = FALSE /\ e.rejected = FALSE
        BY <1>1, <3>1, <3>4
      <4> QED BY <3>2, <4>1 DEF SettledTo, As
    <3> QED BY <3>3, <3>4
  <2>2. FinallyHeld(s, f)
    BY <1>2, <1>3, <1>4, <2>1 DEF FinallyHeld, p
  <2> QED BY <1>6, <2>2 DEF FrameHeld
<1> QED BY <1>5, <1>6

LEMMA ReactionClaims ==
    ASSUME Inv, Claims, frame = Idle, vm.jobs # <<>>, njs_promise_reaction_job
    PROVE  Claims'
<1> DEFINE j == Head(vm.jobs)
           n == SizesOf(vm)
           s == [vm EXCEPT !.jobs = Tail(vm.jobs), !.ran = Append(vm.ran, j.reaction)]
<1>1. j.kind = "reaction" /\ (CallHandler(j) \/ CallNative(j))
  BY Zenon DEF njs_promise_reaction_job
<1>2. Good(vm, {}) /\ Typed(vm) /\ vm \in VmOf(n) /\ Owned(vm)
  BY DEF Inv, Claims, Good, Sound, Typed, Running, Idle
<1>3. [Dequeued EXCEPT !.ran = Append(@, j.reaction)] = s
  <2> HIDE DEF n, j
  <2>1. vm = [promises |-> vm.promises, cells |-> vm.cells, jobs |-> vm.jobs,
              aggregates |-> vm.aggregates, contexts |-> vm.contexts,
              tracking |-> vm.tracking, rejected |-> vm.rejected,
              reactions |-> vm.reactions, ran |-> vm.ran, finallys |-> vm.finallys]
    BY <1>2, Fields
  <2> QED BY <2>1 DEF Dequeued
<1>4. j \in JobsOf(n) /\ j = Head(vm.jobs)
  BY <1>2, TailJobs
<1>5. s = Ran(vm, j.reaction)
  BY DEF Ran
<1> HIDE DEF j, s
<1>6. /\ SizesOf(s) = n /\ Owned(s) /\ Due(s, j)
      /\ j.handler.kind # "await" => Good(s, {})
      /\ Typed(s)
  <2>1. Good(vm, {}) /\ j.kind = "reaction" /\ j = Head(vm.jobs) /\ Owned(vm)
    BY <1>1, <1>2, <1>4
  <2>2. /\ SizesOf(s) = n
        /\ j.handler.kind # "await" => Good(s, {})
        /\ j.handler.kind = "await" => Good(s, {} \cup {j.handler.id})
    BY ONLY <2>1, <1>5, vm.jobs # <<>>, RunGood
  <2>3. Owned(s) /\ Due(s, j)
    BY ONLY <2>1, <1>5, vm.jobs # <<>>, RanOwned
  <2>4. Typed(s)
    BY <2>2 DEF Good, Sound
  <2> QED BY <2>2, <2>3, <2>4
<1>7. j \in JobsOf(SizesOf(s))
  BY <1>4, <1>6
<1> HIDE DEF n
<1>8. CASE CallNative(j)
  <2>1. /\ \/ j.handler.kind = "none" /\ vm' = Settle(s, j.cell, j.rejected, j.value)
           \/ /\ j.handler.kind = "resolve"
              /\ vm' = njs_promise_resolve_function(s, j.handler.id, j.value)
           \/ /\ j.handler.kind = "reject"
              /\ vm' = njs_promise_reject_function(s, j.handler.id, j.value)
           \/ /\ j.handler.kind = "element"
              /\ vm' = ElementFunction(s, j.handler.id, j.handler.index, j.rejected, j.value)
           \/ j.handler.kind = "return" /\ vm' = Settle(s, j.cell, FALSE, j.handler.value)
           \/ j.handler.kind = "throw" /\ vm' = Settle(s, j.cell, TRUE, j.handler.value)
        /\ frame' = Idle
    BY <1>3, <1>8, Zenon DEF CallNative
  <2>2. Good(s, {})
    BY <1>6, <2>1
  <2>3. Owned(vm')
    BY <1>1, <1>6, <1>7, <2>1, <2>2, NativeOwned
  <2> QED BY <2>1, <2>3, IdleHeld DEF Claims
<1>9. CASE CallHandler(j)
  <2>1. /\ vm' = s
        /\ \/ j.handler.kind = "fn" /\ frame' = Frame("handler", j.cell)
           \/ j.handler.kind = "await" /\ frame' = Frame("async", j.handler.id)
           \/ /\ j.handler.kind \in {"thenFinally", "catchFinally"}
              /\ frame' = [Frame(j.handler.kind, j.cell) EXCEPT !.value = j.value]
    BY <1>3, <1>9, Zenon DEF CallHandler
  <2>2. \A k, i : Frame(k, i) = [kind |-> k, id |-> i, value |-> Undefined]
    BY FrameIs
  <2>3. FrameHeld(s, frame')
    <3>1. CASE j.handler.kind = "fn" /\ frame' = Frame("handler", j.cell)
      <4>1. frame'.id = j.cell /\ frame'.kind = "handler"
        BY <2>2, <3>1
      <4> QED BY <1>1, <1>6, <1>7, <3>1, <4>1, CallHeld
    <3>2. CASE j.handler.kind = "await" /\ frame' = Frame("async", j.handler.id)
      <4>1. frame'.kind = "async"
        BY <2>2, <3>2
      <4> QED BY <4>1, UnheldFrames
    <3>3. CASE /\ j.handler.kind \in {"thenFinally", "catchFinally"}
               /\ frame' = [Frame(j.handler.kind, j.cell) EXCEPT !.value = j.value]
      <4>1. frame' = [kind |-> j.handler.kind, id |-> j.cell, value |-> j.value]
        BY <2>2, <3>3
      <4>2. frame'.id = j.cell /\ frame'.kind = j.handler.kind /\ frame'.value = j.value
        BY <4>1
      <4> QED BY <1>1, <1>6, <1>7, <3>3, <4>2, CallHeld
    <3> QED BY <2>1, <3>1, <3>2, <3>3
  <2> QED BY <1>6, <2>1, <2>3 DEF Claims
<1> QED BY <1>1, <1>8, <1>9

LEMMA InitClaims ==
    ASSUME Init
    PROVE  Claims
<1>1. vm = [promises |-> <<>>, cells |-> <<>>, jobs |-> <<>>,
            aggregates |-> <<>>, contexts |-> <<>>,
            tracking |-> FALSE, rejected |-> {},
            reactions |-> <<>>, ran |-> <<>>, finallys |-> <<>>]
  BY DEF Init
<1>2. /\ vm.promises = <<>> /\ vm.cells = <<>> /\ vm.jobs = <<>>
      /\ vm.aggregates = <<>> /\ vm.contexts = <<>> /\ vm.finallys = <<>>
  BY <1>1
<1>3. /\ 1..Len(vm.promises) = {} /\ 1..Len(vm.cells) = {} /\ 1..Len(vm.jobs) = {}
      /\ 1..Len(vm.aggregates) = {} /\ 1..Len(vm.contexts) = {} /\ 1..Len(vm.finallys) = {}
  <2>1. 1..0 = {}
    OBVIOUS
  <2> QED BY <1>2, <2>1, EmptySeq
<1>4. \A e : ~Has(vm, e)
  BY <1>3 DEF Has
<1>5. Finals(vm) /\ Sources(vm) /\ Asking(vm) /\ Frees(vm) /\ Lists(vm) /\ AllFit(vm)
  BY <1>3 DEF Finals, Sources, Asking, Frees, Lists, AllFit
<1>6. Routes(vm) /\ Once(vm)
  BY <1>4 DEF Routes, Once
<1>7. Apart(vm)
  BY <1>3 DEF Apart, AggregateOf
<1> QED BY <1>5, <1>6, <1>7, IdleHeld DEF Owned, Claims, Init

LEMMA NextClaims ==
    ASSUME Inv, Claims, [Next]_vars
    PROVE  Claims'
<1>1. CASE Scripts
  BY <1>1, ScriptsClaim
<1>2. CASE Await
  BY <1>2, AwaitClaims
<1>3. CASE Return \/ Throw
  BY <1>3, ReturnClaims, ThrowClaims
<1>4. CASE njs_vm_execute_pending_job
  BY <1>4, ThenableClaims, ReactionClaims DEF njs_vm_execute_pending_job
<1>5. CASE ngx_js_call \/ ngx_engine_njs_destroy
  <2>1. vm' = vm /\ frame'.kind = "script"
    BY <1>5, FrameIs DEF ngx_js_call, ngx_engine_njs_destroy
  <2> QED BY <2>1, UnheldFrames DEF Claims
<1>6. CASE ngx_js_unhandled_rejection \/ UNCHANGED vars
  BY <1>6 DEF ngx_js_unhandled_rejection, vars, Claims
<1> QED BY <1>1, <1>2, <1>3, <1>4, <1>5, <1>6 DEF Next, Engine

\* The promise of a list is settled as its members are.
LEMMA ClaimsAggregate ==
    ASSUME Inv, Claims
    PROVE  AggregatesMatch
<1>1. Typed(vm) /\ Owned(vm)
  BY DEF Inv, Claims, Good, Sound
<1>2. DOMAIN vm.aggregates = 1..Len(vm.aggregates)
  <2>1. vm.aggregates \in Seq(AggregatesOf(SizesOf(vm)))
    BY <1>1, Fields DEF Typed
  <2> QED BY <2>1, LenProperties
<1> SUFFICES ASSUME NEW a \in 1..Len(vm.aggregates)
             PROVE  LET g == vm.aggregates[a]
                        q == vm.promises[PromiseOf(vm, g.cell)]
                        In(i) == vm.promises[g.inputs[i]]
                        as(i) == /\ In(i).state = IF g.values[i].rejected THEN "rejected" ELSE "fulfilled"
                                 /\ In(i).result = g.values[i].value
                        one == \E i \in DOMAIN g.inputs :
                                  q.state = In(i).state /\ q.result = In(i).result
                        every(S) == \A i \in DOMAIN g.inputs : as(i) /\ In(i).state \in S
                    IN  /\ q.state = "fulfilled" =>
                              CASE g.kind = "all" -> every({"fulfilled"})
                                [] g.kind = "allSettled" -> every({"fulfilled", "rejected"})
                                [] g.kind = "any" -> one \/ g.inputs = <<>>
                                [] g.kind = "race" -> one
                        /\ q.state = "rejected" =>
                              CASE g.kind = "all" -> one
                                [] g.kind = "allSettled" -> FALSE
                                [] g.kind = "any" -> every({"rejected"})
                                [] g.kind = "race" -> one
  BY <1>2 DEF AggregatesMatch
<1> DEFINE g == vm.aggregates[a]
           p == PromiseOf(vm, g.cell)
           q == vm.promises[p]
           In(i) == vm.promises[g.inputs[i]]
           as(i) == /\ In(i).state = IF g.values[i].rejected THEN "rejected" ELSE "fulfilled"
                    /\ In(i).result = g.values[i].value
           one == \E i \in DOMAIN g.inputs :
                     q.state = In(i).state /\ q.result = In(i).result
           every(S) == \A i \in DOMAIN g.inputs : as(i) /\ In(i).state \in S
<1>3. /\ g.inputs \in Seq(1..Len(vm.promises)) /\ p \in 1..Len(vm.promises)
      /\ DOMAIN g.inputs = 1..Len(g.inputs) /\ AggregateOf(vm, p, a)
      /\ g.kind \in {"all", "allSettled", "any", "race"}
  <2>1. g.inputs \in Seq(1..Len(vm.promises)) /\ p \in 1..Len(vm.promises)
    BY <1>1, ClaimsTyped
  <2>2. g \in AggregatesOf(SizesOf(vm))
    <3>1. vm.aggregates \in Seq(AggregatesOf(SizesOf(vm)))
      BY <1>1, Fields DEF Typed
    <3> QED BY <3>1, ElementOfSeq
  <2>3. g.kind \in {"all", "allSettled", "any", "race"}
    BY <2>2 DEF AggregatesOf
  <2>4. DOMAIN g.inputs = 1..Len(g.inputs)
    BY <2>1, LenProperties
  <2>5. AggregateOf(vm, p, a)
    BY DEF AggregateOf
  <2> QED BY <2>1, <2>3, <2>4, <2>5
<1>4. ASSUME NEW b \in BOOLEAN, q.state = As(b)
      PROVE  AggregateFits(vm, a, b, q.result)
  <2>1. Fits(vm, p, b, q.result)
    BY <1>1, <1>3, <1>4 DEF Owned, AllFit
  <2> QED BY <1>3, <2>1 DEF Fits
<1>5. ASSUME NEW b \in BOOLEAN, q.state = As(b), OneIs(vm, a, b, q.result)
      PROVE  one
  BY <1>3, <1>5 DEF OneIs, SettledTo
<1>6. ASSUME Complete(vm, a)
      PROVE  /\ every({"fulfilled", "rejected"})
             /\ g.kind = "all" => every({"fulfilled"})
             /\ g.kind = "any" => every({"rejected"})
  <2>1. Collected(vm, a)
    BY <1>1 DEF Owned, Lists
  <2>2. ASSUME NEW i \in DOMAIN g.inputs
        PROVE  /\ as(i) /\ In(i).state \in {"fulfilled", "rejected"}
               /\ g.kind = "all" => In(i).state = "fulfilled"
               /\ g.kind = "any" => In(i).state = "rejected"
    <3>1. i \in g.called
      BY <1>3, <1>6, <2>2 DEF Complete
    <3>2. /\ SettledTo(vm, g.inputs[i], g.values[i].rejected, g.values[i].value)
          /\ g.kind = "all" => ~g.values[i].rejected
          /\ g.kind = "any" => g.values[i].rejected
      BY <2>1, <3>1 DEF Collected
    <3> HIDE DEF g
    <3> QED BY <3>2 DEF SettledTo, As
  <2> HIDE DEF g, In, as
  <2> QED BY <2>2
<1> HIDE DEF one, every
<1>7. ASSUME q.state = "fulfilled"
      PROVE  CASE g.kind = "all" -> every({"fulfilled"})
               [] g.kind = "allSettled" -> every({"fulfilled", "rejected"})
               [] g.kind = "any" -> one \/ g.inputs = <<>>
               [] g.kind = "race" -> one
  <2>1. q.state = As(FALSE) /\ FALSE \in BOOLEAN
    BY <1>7 DEF As
  <2>2. AggregateFits(vm, a, FALSE, q.result)
    BY <1>4, <2>1
  <2>3. \/ g.kind \in {"all", "allSettled"} /\ Complete(vm, a)
        \/ g.kind \in {"any", "race"} /\ one
        \/ g.kind = "any" /\ g.inputs = <<>>
    BY <1>5, <2>1, <2>2 DEF AggregateFits
  <2> HIDE DEF g
  <2> QED BY <1>3, <1>6, <2>3
<1>8. ASSUME q.state = "rejected"
      PROVE  CASE g.kind = "all" -> one
               [] g.kind = "allSettled" -> FALSE
               [] g.kind = "any" -> every({"rejected"})
               [] g.kind = "race" -> one
  <2>1. q.state = As(TRUE) /\ TRUE \in BOOLEAN
    BY <1>8 DEF As
  <2>2. AggregateFits(vm, a, TRUE, q.result)
    BY <1>4, <2>1
  <2>3. \/ g.kind = "any" /\ Complete(vm, a)
        \/ g.kind \in {"all", "race"} /\ one
    BY <1>5, <2>1, <2>2 DEF AggregateFits
  <2> HIDE DEF g
  <2> QED BY <1>3, <1>6, <2>3
<1> QED BY <1>7, <1>8 DEF one, every

\* finally() passes on what it is called for.
LEMMA ClaimsFinally ==
    ASSUME Inv, Claims
    PROVE  FinallyTransparent
<1>1. Typed(vm) /\ Owned(vm)
  BY DEF Inv, Claims, Good, Sound
<1>2. DOMAIN vm.finallys = 1..Len(vm.finallys)
  <2>1. vm.finallys \in Seq(FinallysOf(SizesOf(vm)))
    BY <1>1, Fields DEF Typed
  <2> QED BY <2>1, LenProperties
<1> SUFFICES ASSUME NEW i \in 1..Len(vm.finallys)
             PROVE  LET f == vm.finallys[i]
                        p == vm.promises[f.from]
                        q == vm.promises[PromiseOf(vm, f.cell)]
                    IN  \/ q.state = "pending"
                        \/ q.state = p.state /\ q.result = p.result
                        \/ q.state = "rejected" /\ f.via = 0
                        \/ /\ q.state = "rejected" /\ f.via # 0
                           /\ vm.promises[f.via].state = "rejected"
                           /\ vm.promises[f.via].result = q.result
  BY <1>2 DEF FinallyTransparent
<1> DEFINE m == PromiseOf(vm, vm.finallys[i].cell)
           q == vm.promises[m]
<1>3. m \in 1..Len(vm.promises) /\ FinallyOf(vm, m, i)
  BY <1>1, ClaimsTyped DEF FinallyOf
<1>4. q.state \in {"pending", "fulfilled", "rejected"}
  <2>1. vm.promises \in Seq(PromisesOf(SizesOf(vm)))
    BY <1>1, Fields DEF Typed
  <2>2. q \in PromisesOf(SizesOf(vm))
    BY <1>3, <2>1, ElementOfSeq
  <2> QED BY <2>2 DEF PromisesOf
<1>5. ASSUME NEW b \in BOOLEAN, q.state = As(b)
      PROVE  FinallyFits(vm, i, b, q.result)
  <2>1. Fits(vm, m, b, q.result)
    BY <1>1, <1>3, <1>5 DEF Owned, AllFit
  <2> QED BY <1>3, <2>1 DEF Fits
<1>6. \/ q.state = "pending"
      \/ \E b \in BOOLEAN : q.state = As(b) /\ FinallyFits(vm, i, b, q.result)
  <2>1. TRUE \in BOOLEAN /\ FALSE \in BOOLEAN /\ As(TRUE) = "rejected" /\ As(FALSE) = "fulfilled"
    BY DEF As
  <2> QED BY <1>4, <1>5, <2>1
<1> QED BY <1>6 DEF FinallyFits, SettledTo, As

\* The promises of all(), allSettled(), any() and race() are settled as the
\* members of their lists are, and those of finally() as what it was called
\* for, unless its callback throws or waits for a rejection.
THEOREM OutcomesAlwaysMatch == Spec => []OutcomesMatch
<1>1. Init => Claims
  BY InitClaims
<1>2. Inv /\ Claims /\ [Next]_vars => Claims'
  BY NextClaims
<1>3. Inv /\ Claims => OutcomesMatch
  BY ClaimsAggregate, ClaimsFinally DEF OutcomesMatch
<1> QED BY <1>1, <1>2, <1>3, InvHolds, PTL DEF Spec

====
