---------------------------- MODULE PromiseProofs ----------------------------
(* Proofs about Promise. *)
EXTENDS PromiseLemmas

\* What a later state knows of.
LEMMA Later ==
    ASSUME NEW s, NEW t, Typed(s), Typed(t), Grows(s, t)
    PROVE  /\ ValuesOf(SizesOf(s)) \subseteq ValuesOf(SizesOf(t))
           /\ HandlersOf(SizesOf(s)) \subseteq HandlersOf(SizesOf(t))
           /\ 1..Len(s.promises) \subseteq 1..Len(t.promises)
           /\ 1..Len(s.cells) \subseteq 1..Len(t.cells)
           /\ 0..Len(s.cells) \subseteq 0..Len(t.cells)
           /\ 1..Len(s.aggregates) \subseteq 1..Len(t.aggregates)
           /\ 1..Len(s.contexts) \subseteq 1..Len(t.contexts)
<1>1. SizesOf(s) \in Sizes /\ SizesOf(t) \in Sizes /\ AtMost(SizesOf(s), SizesOf(t))
  BY DEF Typed, Grows
<1>2. /\ ValuesOf(SizesOf(s)) \subseteq ValuesOf(SizesOf(t))
      /\ HandlersOf(SizesOf(s)) \subseteq HandlersOf(SizesOf(t))
  BY <1>1, Widened
<1>3. /\ Len(s.promises) \in Nat /\ Len(t.promises) \in Nat
      /\ Len(s.cells) \in Nat /\ Len(t.cells) \in Nat
      /\ Len(s.aggregates) \in Nat /\ Len(t.aggregates) \in Nat
      /\ Len(s.contexts) \in Nat /\ Len(t.contexts) \in Nat
  BY SizesTyped DEF Typed
<1>4. /\ Len(s.promises) <= Len(t.promises) /\ Len(s.cells) <= Len(t.cells)
      /\ Len(s.aggregates) <= Len(t.aggregates) /\ Len(s.contexts) <= Len(t.contexts)
  BY <1>1 DEF AtMost, SizesOf
<1> QED BY SMTT(20), <1>2, <1>3, <1>4

\* Lengths of the later state of a Kept step.
LEMMA KeptLengths ==
    ASSUME NEW s, NEW t, SizesOf(t) = SizesOf(s)
    PROVE  /\ Len(t.promises) = Len(s.promises) /\ Len(t.cells) = Len(s.cells)
           /\ Len(t.aggregates) = Len(s.aggregates) /\ Len(t.contexts) = Len(s.contexts)
           /\ Len(t.reactions) = Len(s.reactions)
BY DEF SizesOf

LEMMA PrototypeThenGood ==
    ASSUME NEW s, NEW X, Good(s, X), NEW p \in 1..Len(s.promises),
           NEW f \in HandlersOf(SizesOf(s)), NEW r \in HandlersOf(SizesOf(s)),
           f.kind # "await", r.kind # "await",
           NEW t, t = njs_promise_prototype_then(s, p, f, r)
    PROVE  /\ Good(t, X) /\ Grows(s, t)
           /\ Len(t.promises) = Len(s.promises) + 1 /\ Len(t.cells) = Len(s.cells) + 1
           /\ Len(t.aggregates) = Len(s.aggregates) /\ Len(t.contexts) = Len(s.contexts)
<1> DEFINE u == njs_promise_new_capability(s, FALSE)
<1>1. /\ Good(u, X) /\ Grows(s, u)
      /\ Len(u.promises) = Len(s.promises) + 1 /\ Len(u.cells) = Len(s.cells) + 1
      /\ u.aggregates = s.aggregates /\ u.contexts = s.contexts
  <2>1. \E e \in BOOLEAN : u = njs_promise_new_capability(s, e)
    BY Zenon
  <2> HIDE DEF u
  <2> QED BY <2>1, CapabilityGood
<1>2. t = njs_promise_perform_then(u, p, f, r, Len(u.cells))
  BY DEF njs_promise_prototype_then
<1> HIDE DEF u
<1>3. /\ p \in 1..Len(u.promises) /\ f \in HandlersOf(SizesOf(u))
      /\ r \in HandlersOf(SizesOf(u))
  BY <1>1, Later DEF Good, Sound
<1>4. Len(u.cells) \in 0..Len(u.cells)
  BY <1>1, SizesTyped DEF Good, Sound, Typed
<1>5. /\ Good(t, X) /\ Grows(u, t)
      /\ Len(t.promises) = Len(u.promises) /\ Len(t.cells) = Len(u.cells)
      /\ Len(t.aggregates) = Len(u.aggregates) /\ Len(t.contexts) = Len(u.contexts)
  BY SMTT(20), <1>1, <1>2, <1>3, <1>4, ThenGood
<1>6. Grows(s, t)
  BY <1>1, <1>5, GrowsTransitive DEF Good, Sound
<1> QED BY <1>1, <1>5, <1>6

\* The value that the id-th promise is.
LEMMA PromiseValue ==
    ASSUME NEW n, NEW v \in ValuesOf(n), v.kind = "promise"
    PROVE  v.id \in 1..n.promises
BY DEF ValuesOf

LEMMA PromiseResolveGood ==
    ASSUME NEW s, NEW X, Good(s, X), NEW v \in ValuesOf(SizesOf(s)),
           NEW r, r = njs_promise_resolve(s, v)
    PROVE  /\ Good(r.vm, X) /\ Grows(s, r.vm) /\ r.promise \in 1..Len(r.vm.promises)
           /\ Len(r.vm.aggregates) = Len(s.aggregates)
           /\ Len(r.vm.contexts) = Len(s.contexts)
<1>1. CASE v.kind = "promise"
  <2>1. r = [vm |-> s, promise |-> v.id]
    BY <1>1 DEF njs_promise_resolve
  <2>2. v.id \in 1..Len(s.promises)
    BY <1>1, PromiseValue DEF SizesOf
  <2>3. r.vm = s /\ r.promise = v.id
    BY <2>1
  <2> QED BY <2>2, <2>3, GrowsReflexive DEF Good, Sound
<1>2. CASE v.kind # "promise"
  <2> DEFINE u == njs_promise_new_capability(s, FALSE)
             t == njs_promise_resolve_function(u, Len(u.cells), v)
  <2>1. /\ Good(u, X) /\ Grows(s, u)
        /\ Len(u.promises) = Len(s.promises) + 1 /\ Len(u.cells) = Len(s.cells) + 1
        /\ u.aggregates = s.aggregates /\ u.contexts = s.contexts
    <3>1. \E e \in BOOLEAN : u = njs_promise_new_capability(s, e)
      BY Zenon
    <3> HIDE DEF u
    <3> QED BY <3>1, CapabilityGood
  <2>2. r = [vm |-> t, promise |-> Len(u.promises)]
    BY <1>2 DEF njs_promise_resolve
  <2> HIDE DEF u
  <2>3. v \in ValuesOf(SizesOf(u))
    BY <2>1, Later DEF Good, Sound
  <2>4. /\ Len(u.cells) \in 1..Len(u.cells) /\ Len(u.promises) \in 1..Len(u.promises)
    <3>1. Len(s.cells) \in Nat /\ Len(s.promises) \in Nat
      BY SizesTyped DEF Good, Sound, Typed
    <3> QED BY <3>1, <2>1
  <2>5. Kept(u, t, X)
    <3> HIDE DEF t
    <3> QED BY <2>1, <2>3, <2>4, ResolveGood DEF t
  <2>6. r.vm = t /\ r.promise = Len(u.promises)
    BY <2>2
  <2> HIDE DEF t
  <2>7. Grows(s, t)
    BY <2>1, <2>5, GrowsTransitive DEF Good, Sound, Kept
  <2>8. /\ Len(t.promises) = Len(u.promises) /\ Len(t.aggregates) = Len(u.aggregates)
        /\ Len(t.contexts) = Len(u.contexts)
    BY <2>5, KeptLengths DEF Kept
  <2> QED BY <2>1, <2>4, <2>5, <2>6, <2>7, <2>8 DEF Kept
<1> QED BY <1>1, <1>2

-----------------------------------------------------------------------------
(* The handlers that the engine passes to then().                            *)

LEMMA HandlerTyped ==
    ASSUME NEW n, NEW k \in HandlerKinds, NEW i \in Nat,
           k \in {"resolve", "reject"} => i \in 1..n.cells,
           k = "await" => i \in 1..n.contexts,
           k = "element" => i \in 1..n.aggregates
    PROVE  Handler(k, i) \in HandlersOf(n) /\ Handler(k, i).kind = k
<1>1. Undefined \in ValuesOf(n)
  BY DEF Undefined, Value, ValuesOf, Values_, Kinds
<1> QED BY <1>1 DEF Handler, HandlersOf

LEMMA ThunkTyped ==
    ASSUME NEW n, NEW k \in {"return", "throw"}, NEW v \in ValuesOf(n)
    PROVE  ThunkHandler(k, v) \in HandlersOf(n) /\ ThunkHandler(k, v).kind = k
BY DEF Handler, ThunkHandler, HandlersOf, HandlerKinds

LEMMA ElementTyped ==
    ASSUME NEW n, NEW a \in Nat, a \in 1..n.aggregates, NEW i \in Nat
    PROVE  ElementHandler(a, i) \in HandlersOf(n) /\ ElementHandler(a, i).kind = "element"
<1>1. Undefined \in ValuesOf(n)
  BY DEF Undefined, Value, ValuesOf, Values_, Kinds
<1> QED BY <1>1 DEF Handler, ElementHandler, HandlersOf, HandlerKinds

-----------------------------------------------------------------------------
(* Async functions.                                                          *)

\* Other contexts, no fewer.
LEMMA ContextsTyped ==
    ASSUME NEW s, Typed(s), NEW x \in Seq(ContextsOf(SizesOf(s))),
           Len(s.contexts) <= Len(x),
           NEW t, t = [s EXCEPT !.contexts = x]
    PROVE  /\ Typed(t) /\ t.promises = s.promises /\ t.cells = s.cells
           /\ t.jobs = s.jobs /\ t.rejected = s.rejected /\ t.reactions = s.reactions
           /\ t.ran = s.ran /\ t.aggregates = s.aggregates /\ t.contexts = x
<1> DEFINE n == SizesOf(s)
           k == Len(s.promises)
           l == Len(s.cells)
           g == Len(s.aggregates)
           h == Len(s.contexts)
           a == Len(s.reactions)
           b == Len(x)
           m == [promises |-> k, cells |-> l, aggregates |-> g, contexts |-> b,
                 reactions |-> a]
<1>1. /\ n \in Sizes /\ s \in VmOf(n) /\ k \in Nat /\ l \in Nat
      /\ g \in Nat /\ h \in Nat /\ a \in Nat /\ b \in Nat /\ h <= b
  BY SizesTyped, LenProperties DEF Typed
<1>2. n = [promises |-> k, cells |-> l, aggregates |-> g, contexts |-> h,
           reactions |-> a]
  BY DEF SizesOf
<1>3. m \in Sizes /\ AtMost(n, m) /\ n.cells = m.cells
  <2> HIDE DEF n, k, l, g, h, a, b
  <2> QED BY <1>1, <1>2 DEF Sizes, AtMost
<1>4. x \in Seq(ContextsOf(n))
  OBVIOUS
<1> HIDE DEF n, m
<1>5. s \in VmOf(m)
  BY <1>1, <1>3, Widened
<1>6. x \in Seq(ContextsOf(m))
  BY <1>3, <1>4 DEF ContextsOf
<1>7. /\ t.promises = s.promises /\ t.cells = s.cells /\ t.jobs = s.jobs
      /\ t.rejected = s.rejected /\ t.aggregates = s.aggregates
      /\ t.reactions = s.reactions /\ t.contexts = x /\ t.ran = s.ran
  BY <1>5, Fields
<1>8. t \in VmOf(m)
  BY <1>5, <1>6 DEF VmOf
<1>9. SizesOf(t) = m
  BY <1>7 DEF SizesOf, m
<1>10. Typed(t)
  BY <1>3, <1>8, <1>9 DEF Typed
<1> QED BY <1>7, <1>10

LEMMA AwaitGood ==
    ASSUME NEW s, NEW X, Good(s, X), NEW x \in X, NEW v \in ValuesOf(SizesOf(s)),
           NEW t, t = njs_vmcode_await(s, x, v)
    PROVE  Good(t, X \ {x}) /\ Grows(s, t)
<1> DEFINE r == njs_promise_resolve(s, v)
<1>1. /\ Good(r.vm, X) /\ Grows(s, r.vm) /\ r.promise \in 1..Len(r.vm.promises)
  <2> HIDE DEF r
  <2> QED BY PromiseResolveGood DEF r
<1>2. t = njs_promise_perform_then(r.vm, r.promise, Handler("await", x),
                                   Handler("await", x), NoCell)
  BY DEF njs_vmcode_await
<1> HIDE DEF r
<1>3. x \in 1..Len(r.vm.contexts) /\ x \in Nat
  <2>1. Len(r.vm.contexts) \in Nat
    BY <1>1, SizesTyped DEF Good, Sound, Typed
  <2> QED BY <2>1, <1>1 DEF Good, Awaited
<1>4. Handler("await", x) \in HandlersOf(SizesOf(r.vm))
  <2>1. x \in 1..SizesOf(r.vm).contexts
    BY <1>3 DEF SizesOf
  <2> QED BY <2>1, <1>3, HandlerTyped DEF HandlerKinds
<1>5. Good(t, X \ {x}) /\ Grows(r.vm, t)
  BY <1>1, <1>2, <1>4, ThenAwaits
<1> QED BY <1>1, <1>5, GrowsTransitive DEF Good, Sound

\* A context is created for the promise of pair c, and runs.
LEMMA StartsGood ==
    ASSUME NEW s, NEW X, Good(s, X), NEW c \in 1..Len(s.cells),
           NEW t, t = [s EXCEPT !.contexts = Append(@, [cell |-> c, live |-> TRUE])]
    PROVE  /\ Good(t, X \cup {Len(t.contexts)}) /\ Grows(s, t) /\ Len(t.contexts) \notin X
           /\ t.promises = s.promises /\ t.cells = s.cells /\ t.jobs = s.jobs
           /\ t.reactions = s.reactions /\ t.aggregates = s.aggregates
           /\ t.finallys = s.finallys
           /\ t.contexts = Append(s.contexts, [cell |-> c, live |-> TRUE])
<1> DEFINE e == [cell |-> c, live |-> TRUE]
           x == Append(s.contexts, e)
           k == Len(t.contexts)
<1>1. x \in Seq(ContextsOf(SizesOf(s))) /\ Len(x) = Len(s.contexts) + 1 /\ Len(s.contexts) \in Nat
  <2>1. e \in ContextsOf(SizesOf(s))
    BY DEF ContextsOf, SizesOf
  <2>2. s.contexts \in Seq(ContextsOf(SizesOf(s)))
    BY Fields DEF Good, Sound, Typed
  <2> HIDE DEF e
  <2> QED BY <2>1, <2>2, AppendProperties, LenProperties
<1>2. t = [s EXCEPT !.contexts = x] /\ e.live /\ x = Append(s.contexts, e)
  OBVIOUS
<1> HIDE DEF e, x
<1>3. Typed(s) /\ Len(s.contexts) <= Len(x)
  BY <1>1 DEF Good, Sound
<1>4. /\ Typed(t) /\ t.promises = s.promises /\ t.cells = s.cells
      /\ t.jobs = s.jobs /\ t.rejected = s.rejected /\ t.reactions = s.reactions
      /\ t.ran = s.ran /\ t.aggregates = s.aggregates /\ t.contexts = x
  <2>1. x \in Seq(ContextsOf(SizesOf(s)))
    BY <1>1
  <2>2. t = [s EXCEPT !.contexts = x]
    BY <1>2
  <2> QED BY ONLY <1>3, <2>1, <2>2, ContextsTyped
<1>5. t.finallys = s.finallys
  <2>1. s = [promises |-> s.promises, cells |-> s.cells, jobs |-> s.jobs,
             aggregates |-> s.aggregates, contexts |-> s.contexts,
             tracking |-> s.tracking, rejected |-> s.rejected,
             reactions |-> s.reactions, ran |-> s.ran, finallys |-> s.finallys]
    BY <1>3, Record
  <2> QED BY <1>2, <2>1
<1>6. t.contexts = Append(s.contexts, e)
  BY <1>2, <1>4
<1>7. Good(t, X \cup {k}) /\ Grows(s, t) /\ k = Len(s.contexts) + 1
  <2>1. e.live
    BY <1>2
  <2> QED BY ONLY Good(s, X), <1>4, <1>6, <2>1, StartGood DEF k
<1> HIDE DEF k
<1>8. k \notin X
  <2>1. \A y \in X : y \in 1..Len(s.contexts)
    BY DEF Good, Awaited
  <2>2. k \notin 1..Len(s.contexts)
    BY <1>1, <1>7
  <2> QED BY <2>1, <2>2
<1> QED BY <1>4, <1>5, <1>6, <1>7, <1>8 DEF e

LEMMA InvokeGood ==
    ASSUME NEW s, NEW X, Good(s, X), NEW v \in ValuesOf(SizesOf(s)),
           NEW t, t = njs_async_function_frame_invoke(s, v)
    PROVE  Good(t, X) /\ Grows(s, t)
<1> DEFINE c == njs_promise_new_capability(s, FALSE)
           u == [c EXCEPT !.contexts = Append(@, [cell |-> Len(c.cells), live |-> TRUE])]
           k == Len(u.contexts)
<1>1. /\ Good(c, X) /\ Grows(s, c) /\ Len(c.cells) = Len(s.cells) + 1
  <2>1. \E e \in BOOLEAN : c = njs_promise_new_capability(s, e)
    BY Zenon
  <2> HIDE DEF c
  <2> QED BY <2>1, CapabilityGood
<1>2. t = njs_vmcode_await(u, k, v)
  BY DEF njs_async_function_frame_invoke
<1> HIDE DEF c
<1>3. Len(c.cells) \in 1..Len(c.cells)
  <2>1. Len(s.cells) \in Nat
    BY SizesTyped DEF Good, Sound, Typed
  <2> QED BY <2>1, <1>1
<1>4. u = [c EXCEPT !.contexts = Append(@, [cell |-> Len(c.cells), live |-> TRUE])]
  OBVIOUS
<1> HIDE DEF u
<1>5. Good(u, X \cup {k}) /\ Grows(c, u) /\ k \notin X
  <2> HIDE DEF k
  <2>1. Len(c.cells) \in 1..Len(c.cells) /\ Good(c, X)
    BY <1>1, <1>3
  <2>2. /\ Good(u, X \cup {Len(u.contexts)}) /\ Grows(c, u)
        /\ Len(u.contexts) \notin X
    BY ONLY <1>4, <2>1, StartsGood
  <2> QED BY <2>2 DEF k
<1> HIDE DEF k
<1>6. Grows(s, u)
  BY <1>1, <1>5, GrowsTransitive DEF Good, Sound
<1>7. v \in ValuesOf(SizesOf(u))
  BY <1>5, <1>6, Later DEF Good, Sound
<1>8. k \in X \cup {k} /\ (X \cup {k}) \ {k} = X
  BY <1>5
<1>9. Good(t, (X \cup {k}) \ {k}) /\ Grows(u, t)
  BY <1>2, <1>5, <1>7, <1>8, AwaitGood
<1> QED BY <1>5, <1>6, <1>8, <1>9, GrowsTransitive DEF Good, Sound

LEMMA EndsGood ==
    ASSUME NEW s, NEW X, Good(s, X), NEW x \in X, NEW b,
           NEW v \in ValuesOf(SizesOf(s)), NEW t, t = AsyncEnds(s, x, b, v)
    PROVE  Good(t, X \ {x}) /\ Grows(s, t)
<1> DEFINE u == Settle(s, s.contexts[x].cell, b, v)
           q == [u.contexts[x] EXCEPT !.live = FALSE]
           y == [u.contexts EXCEPT ![x] = q]
<1>1. s.contexts[x].cell \in 0..Len(s.cells)
  <2>1. x \in 1..Len(s.contexts)
    BY DEF Good, Awaited
  <2>2. s.contexts[x] \in ContextsOf(SizesOf(s))
    BY <2>1, Elements DEF Good, Sound
  <2> QED BY <2>2 DEF ContextsOf, SizesOf
<1>2. Kept(s, u, X)
  <2> HIDE DEF u
  <2> QED BY <1>1, SettleGood DEF u
<1>3. t = [u EXCEPT !.contexts[x].live = FALSE]
  BY DEF AsyncEnds
<1> HIDE DEF u
<1>4. x \in 1..Len(u.contexts) /\ Good(u, X) /\ Typed(u)
  BY <1>2 DEF Kept, Good, Sound, Awaited
<1>5. u.contexts[x] \in ContextsOf(SizesOf(u)) /\ u.contexts \in Seq(ContextsOf(SizesOf(u)))
  BY <1>4, Elements, Fields DEF Typed
<1>6. q \in ContextsOf(SizesOf(u)) /\ ~q.live
  BY <1>5 DEF ContextsOf
<1>7. /\ y \in Seq(ContextsOf(SizesOf(u))) /\ Len(y) = Len(u.contexts) /\ y[x] = q
      /\ \A i \in 1..Len(u.contexts) : i # x => y[i] = u.contexts[i]
  <2> HIDE DEF q
  <2> QED BY <1>4, <1>5, <1>6, ExceptSeq
<1>8. t = [u EXCEPT !.contexts = y]
  <2>1. u = [promises |-> u.promises, cells |-> u.cells, jobs |-> u.jobs,
             aggregates |-> u.aggregates, contexts |-> u.contexts,
             tracking |-> u.tracking, rejected |-> u.rejected,
             reactions |-> u.reactions, ran |-> u.ran, finallys |-> u.finallys]
    BY <1>4, Fields DEF Typed
  <2> QED BY <2>1, <1>3
<1> HIDE DEF y, q
<1>9. Len(u.contexts) <= Len(y)
  <2>1. Len(u.contexts) \in Nat
    BY <1>4, SizesTyped DEF Typed
  <2> QED BY <2>1, <1>7
<1>10. /\ Typed(t) /\ t.promises = u.promises /\ t.cells = u.cells
       /\ t.jobs = u.jobs /\ t.rejected = u.rejected /\ t.reactions = u.reactions
       /\ t.ran = u.ran /\ t.aggregates = u.aggregates /\ t.contexts = y
  BY <1>4, <1>7, <1>8, <1>9, ContextsTyped
<1>11. Good(t, X \ {x}) /\ Grows(u, t)
  <2>1. ~t.contexts[x].live
    BY <1>6, <1>7, <1>10
  <2> QED BY <2>1, <1>4, <1>7, <1>10, EndGood
<1> QED BY <1>2, <1>4, <1>11, GrowsTransitive DEF Good, Sound, Kept

-----------------------------------------------------------------------------
(* Lists of promises.                                                        *)

\* Other aggregates, no fewer.
LEMMA AggregatesGood ==
    ASSUME NEW s, NEW X, Good(s, X), NEW x \in Seq(AggregatesOf(SizesOf(s))),
           Len(s.aggregates) <= Len(x),
           NEW t, t = [s EXCEPT !.aggregates = x]
    PROVE  /\ Good(t, X) /\ Grows(s, t) /\ Len(t.promises) = Len(s.promises)
           /\ Len(t.cells) = Len(s.cells) /\ t.aggregates = x
           /\ Len(t.contexts) = Len(s.contexts)
<1> DEFINE n == SizesOf(s)
           k == Len(s.promises)
           l == Len(s.cells)
           g == Len(s.aggregates)
           h == Len(s.contexts)
           a == Len(s.reactions)
           b == Len(x)
           m == [promises |-> k, cells |-> l, aggregates |-> b, contexts |-> h,
                 reactions |-> a]
<1>1. /\ n \in Sizes /\ s \in VmOf(n) /\ k \in Nat /\ l \in Nat
      /\ g \in Nat /\ h \in Nat /\ a \in Nat /\ b \in Nat /\ g <= b
  BY SizesTyped, LenProperties DEF Good, Sound, Typed
<1>2. n = [promises |-> k, cells |-> l, aggregates |-> g, contexts |-> h,
           reactions |-> a]
  BY DEF SizesOf
<1>3. m \in Sizes /\ AtMost(n, m) /\ n.cells = m.cells /\ n.promises = m.promises
  <2> HIDE DEF n, k, l, g, h, a, b
  <2> QED BY <1>1, <1>2 DEF Sizes, AtMost
<1>4. x \in Seq(AggregatesOf(n))
  OBVIOUS
<1> HIDE DEF n, m
<1>5. s \in VmOf(m)
  BY <1>1, <1>3, Widened
<1>6. x \in Seq(AggregatesOf(m))
  BY <1>3, <1>4 DEF AggregatesOf, ValuesOf
<1>7. /\ t.promises = s.promises /\ t.cells = s.cells /\ t.jobs = s.jobs
      /\ t.rejected = s.rejected /\ t.aggregates = x
      /\ t.reactions = s.reactions /\ t.contexts = s.contexts /\ t.ran = s.ran
  BY <1>5, Fields
<1>8. t \in VmOf(m)
  BY <1>5, <1>6 DEF VmOf
<1>9. SizesOf(t) = m
  BY <1>7 DEF SizesOf, m
<1>10. Typed(t)
  BY <1>3, <1>8, <1>9 DEF Typed
<1>11. Good(t, X) /\ Grows(s, t)
  <2>1. g <= Len(t.aggregates)
    BY <1>1, <1>7
  <2> QED BY <2>1, <1>7, <1>10, OtherPartsGood
<1> QED BY <1>7, <1>11

\* One aggregate is another.
LEMMA WithAggregateGood ==
    ASSUME NEW s, NEW X, Good(s, X), NEW a \in 1..Len(s.aggregates),
           NEW g \in AggregatesOf(SizesOf(s)),
           NEW t, t = [s EXCEPT !.aggregates[a] = g]
    PROVE  /\ Good(t, X) /\ Grows(s, t) /\ Len(t.promises) = Len(s.promises)
           /\ Len(t.cells) = Len(s.cells) /\ Len(t.aggregates) = Len(s.aggregates)
           /\ Len(t.contexts) = Len(s.contexts) /\ t.aggregates[a] = g
<1> DEFINE x == [s.aggregates EXCEPT ![a] = g]
<1>1. s.aggregates \in Seq(AggregatesOf(SizesOf(s))) /\ Len(s.aggregates) \in Nat
  BY Fields, SizesTyped DEF Good, Sound, Typed
<1>2. x \in Seq(AggregatesOf(SizesOf(s))) /\ Len(x) = Len(s.aggregates) /\ x[a] = g
  BY <1>1, ExceptSeq
<1>3. t = [s EXCEPT !.aggregates = x]
  <2>1. s = [promises |-> s.promises, cells |-> s.cells, jobs |-> s.jobs,
             aggregates |-> s.aggregates, contexts |-> s.contexts,
             tracking |-> s.tracking, rejected |-> s.rejected,
             reactions |-> s.reactions, ran |-> s.ran, finallys |-> s.finallys]
    BY Fields DEF Good, Sound, Typed
  <2> QED BY <2>1
<1> HIDE DEF x
<1>4. Len(s.aggregates) <= Len(x)
  BY <1>1, <1>2
<1>5. /\ Good(t, X) /\ Grows(s, t) /\ Len(t.promises) = Len(s.promises)
      /\ Len(t.cells) = Len(s.cells) /\ t.aggregates = x
      /\ Len(t.contexts) = Len(s.contexts)
  <2>1. Good(s, X)
    OBVIOUS
  <2> QED BY ONLY <2>1, <1>2, <1>3, <1>4, AggregatesGood
<1> QED BY <1>2, <1>5

LEMMA CalledGood ==
    ASSUME NEW s, NEW X, Good(s, X), NEW a \in 1..Len(s.aggregates), NEW i \in Nat,
           NEW b \in BOOLEAN, NEW v \in ValuesOf(SizesOf(s)),
           NEW t, t = ElementCalled(s, a, i, b, v)
    PROVE  /\ Good(t, X) /\ Grows(s, t) /\ Len(t.promises) = Len(s.promises)
           /\ Len(t.cells) = Len(s.cells) /\ Len(t.aggregates) = Len(s.aggregates)
           /\ Len(t.contexts) = Len(s.contexts)
<1> DEFINE g == s.aggregates[a]
           w == [rejected |-> b, value |-> v]
           x == [g.values EXCEPT ![i] = w]
           G == [g EXCEPT !.called = g.called \cup {i}, !.values = x,
                          !.remaining = g.remaining - 1]
           n == SizesOf(s)
           T == [rejected : BOOLEAN, value : ValuesOf(n)]
<1>1. g \in AggregatesOf(n)
  BY Elements DEF Good, Sound
<1>2. w \in T
  OBVIOUS
<1> HIDE DEF g, n, w
<1>3. g.values \in Seq(T) /\ g.called \subseteq Nat /\ g.remaining \in Int
  BY <1>1 DEF AggregatesOf
<1>4. x \in Seq(T)
  <2> HIDE DEF T
  <2>1. CASE i \in 1..Len(g.values)
    BY <2>1, <1>2, <1>3, ExceptSeq
  <2>2. CASE i \notin 1..Len(g.values)
    <3>1. DOMAIN g.values = 1..Len(g.values)
          /\ g.values \in [1..Len(g.values) -> T]
      BY <1>3, LenProperties
    <3>2. x = g.values
      BY <3>1, <2>2
    <3> QED BY <3>2, <1>3
  <2> QED BY <2>1, <2>2
<1>5. t = [s EXCEPT !.aggregates[a] = G]
  BY Zenon DEF ElementCalled, w, g
<1> HIDE DEF x
<1>6. G \in AggregatesOf(n)
  <2> DEFINE K == {"all", "allSettled", "any", "race"}
             I == Seq(1..n.promises)
             C == 1..n.cells
             V == Seq(T)
             S == SUBSET Nat
             N == Int
  <2>1. AggregatesOf(n) = [kind : K, cell : C, inputs : I, called : S, values : V,
                           remaining : N]
    BY DEF AggregatesOf
  <2>2. x \in V /\ g.called \cup {i} \in SUBSET Nat /\ g.remaining - 1 \in Int
    BY <1>3, <1>4
  <2> DEFINE d == g.called \cup {i}
             m == g.remaining - 1
  <2>3. G = [g EXCEPT !.called = d, !.values = x, !.remaining = m]
    OBVIOUS
  <2>4. d \in S /\ m \in N /\ x \in V
    BY <2>2
  <2> HIDE DEF K, I, C, V, T, S, N, G, d, m
  <2>5. g \in [kind : K, cell : C, inputs : I, called : S, values : V, remaining : N]
    BY <1>1, <2>1
  <2>6. G \in [kind : K, cell : C, inputs : I, called : S, values : V, remaining : N]
    BY <2>3, <2>4, <2>5
  <2> QED BY <2>1, <2>6
<1> HIDE DEF G
<1> QED BY <1>5, <1>6, WithAggregateGood DEF n

\* The end of the list, if this was its last element.
LEMMA WithArrayGood ==
    ASSUME NEW s, NEW X, Good(s, X), NEW a \in 1..Len(s.aggregates), NEW t, t = WithArray(s, a)
    PROVE  Kept(s, t, X)
<1> DEFINE v == Value("array", a)
           c == s.aggregates[a].cell
<1>1. Len(s.aggregates) \in Nat
  BY SizesTyped DEF Good, Sound, Typed
<1>2. v \in ValuesOf(SizesOf(s))
  BY <1>1 DEF Value, ValuesOf, Values_, Kinds
<1>3. c \in 1..Len(s.cells)
  <2>1. s.aggregates[a] \in AggregatesOf(SizesOf(s))
    BY Elements DEF Good, Sound
  <2> QED BY <2>1 DEF AggregatesOf, SizesOf
<1>4. t = s \/ t = njs_promise_resolve_function(s, c, v)
  BY DEF WithArray
<1> HIDE DEF c, v
<1> QED BY <1>2, <1>3, <1>4, ResolveGood, KeptReflexive

LEMMA ElementGood ==
    ASSUME NEW s, NEW X, Good(s, X), NEW a \in 1..Len(s.aggregates), NEW i \in Nat,
           NEW b \in BOOLEAN, NEW v \in ValuesOf(SizesOf(s)),
           NEW t, t = ElementFunction(s, a, i, b, v)
    PROVE  Good(t, X) /\ Grows(s, t)
<1>1. ASSUME NEW e \in BOOLEAN, NEW u, u = ElementCalled(s, a, i, e, v),
             NEW w, Kept(u, w, X)
      PROVE  Good(w, X) /\ Grows(s, w)
  <2>1. Good(u, X) /\ Grows(s, u)
    BY <1>1, CalledGood
  <2> QED BY <2>1, <1>1, GrowsTransitive DEF Good, Sound, Kept
<1>2. ASSUME NEW e \in BOOLEAN, NEW u, u = ElementCalled(s, a, i, e, v)
      PROVE  Good(u, X) /\ a \in 1..Len(u.aggregates)
  BY <1>2, CalledGood
<1>3. CASE t = s
  BY <1>3, GrowsReflexive DEF Good, Sound
<1>4. CASE \E e \in BOOLEAN : t = WithArray(ElementCalled(s, a, i, e, v), a)
  <2>1. PICK e \in BOOLEAN : t = WithArray(ElementCalled(s, a, i, e, v), a)
    BY <1>4
  <2> DEFINE u == ElementCalled(s, a, i, e, v)
  <2>2. u = ElementCalled(s, a, i, e, v) /\ t = WithArray(u, a)
    BY <2>1
  <2> HIDE DEF u
  <2>3. Kept(u, t, X)
    BY <1>2, <2>2, WithArrayGood
  <2> QED BY <1>1, <2>2, <2>3
<1>5. CASE \E e \in BOOLEAN :
              LET u == ElementCalled(s, a, i, e, v)
              IN  t = IF u.aggregates[a].remaining = 0
                      THEN njs_promise_reject_function(u, u.aggregates[a].cell,
                                                       Value("errors", a))
                      ELSE u
  <2>1. PICK e \in BOOLEAN :
           LET u == ElementCalled(s, a, i, e, v)
           IN  t = IF u.aggregates[a].remaining = 0
                   THEN njs_promise_reject_function(u, u.aggregates[a].cell,
                                                    Value("errors", a))
                   ELSE u
    BY <1>5
  <2> DEFINE u == ElementCalled(s, a, i, e, v)
             x == Value("errors", a)
  <2>2. u = ElementCalled(s, a, i, e, v)
        /\ (t = u \/ t = njs_promise_reject_function(u, u.aggregates[a].cell, x))
    BY <2>1
  <2> HIDE DEF u
  <2>3. Good(u, X) /\ a \in 1..Len(u.aggregates)
    BY <1>2, <2>2
  <2>4. u.aggregates[a].cell \in 1..Len(u.cells)
    <3>1. u.aggregates[a] \in AggregatesOf(SizesOf(u))
      BY <2>3, Elements DEF Good, Sound
    <3> QED BY <3>1 DEF AggregatesOf, SizesOf
  <2>5. x \in ValuesOf(SizesOf(u))
    <3>1. Len(u.aggregates) \in Nat
      BY <2>3, SizesTyped DEF Good, Sound, Typed
    <3> QED BY <2>3, <3>1 DEF Value, ValuesOf, Values_, Kinds
  <2> HIDE DEF x
  <2>6. Kept(u, t, X)
    BY <2>2, <2>3, <2>4, <2>5, RejectFunctionGood, KeptReflexive
  <2> QED BY <1>1, <2>2, <2>6
<1>6. \/ t = s
      \/ t = WithArray(ElementCalled(s, a, i, FALSE, v), a)
      \/ t = WithArray(ElementCalled(s, a, i, b, v), a)
      \/ LET u == ElementCalled(s, a, i, TRUE, v)
         IN  t = IF u.aggregates[a].remaining = 0
                 THEN njs_promise_reject_function(u, u.aggregates[a].cell,
                                                  Value("errors", a))
                 ELSE u
  BY Zenon DEF ElementFunction, njs_promise_all_resolve_element_functions,
     njs_promise_all_settled_element_functions, njs_promise_any_reject_element_functions
<1>7. \/ t = s
      \/ \E e \in BOOLEAN : t = WithArray(ElementCalled(s, a, i, e, v), a)
      \/ \E e \in BOOLEAN :
            LET u == ElementCalled(s, a, i, e, v)
            IN  t = IF u.aggregates[a].remaining = 0
                    THEN njs_promise_reject_function(u, u.aggregates[a].cell,
                                                     Value("errors", a))
                    ELSE u
  BY <1>6, Zenon
<1> QED BY <1>3, <1>4, <1>5, <1>7

LEMMA HandlersTyped ==
    ASSUME NEW s, NEW X, Good(s, X), NEW a \in 1..Len(s.aggregates), NEW i \in Nat,
           NEW h, h = ElementHandlers(s.aggregates[a], a, i)
    PROVE  /\ h[1] \in HandlersOf(SizesOf(s)) /\ h[2] \in HandlersOf(SizesOf(s))
           /\ h[1].kind # "await" /\ h[2].kind # "await"
<1> DEFINE n == SizesOf(s)
           c == s.aggregates[a].cell
           E == ElementHandler(a, i)
           F == Handler("resolve", c)
           R == Handler("reject", c)
<1>1. a \in 1..n.aggregates /\ a \in Nat /\ c \in 1..n.cells /\ c \in Nat
  <2>1. s.aggregates[a] \in AggregatesOf(n)
    BY Elements DEF Good, Sound
  <2>2. Len(s.aggregates) \in Nat /\ Len(s.cells) \in Nat
    BY SizesTyped DEF Good, Sound, Typed
  <2>3. c \in 1..n.cells
    BY <2>1 DEF AggregatesOf
  <2>4. n.aggregates = Len(s.aggregates) /\ n.cells = Len(s.cells)
    BY DEF SizesOf
  <2> HIDE DEF n, c
  <2> QED BY <2>2, <2>3, <2>4
<1> HIDE DEF n, c
<1>2. E \in HandlersOf(n) /\ E.kind = "element"
  BY <1>1, ElementTyped
<1>3. F \in HandlersOf(n) /\ F.kind = "resolve"
  BY <1>1, HandlerTyped DEF HandlerKinds
<1>4. R \in HandlersOf(n) /\ R.kind = "reject"
  BY <1>1, HandlerTyped DEF HandlerKinds
<1>5. h = <<E, R>> \/ h = <<E, E>> \/ h = <<F, E>> \/ h = <<F, R>>
  BY Zenon DEF ElementHandlers, njs_promise_perform_all_handler,
     njs_promise_perform_all_settled_handler, njs_promise_perform_any_handler,
     njs_promise_perform_race_handler, c
<1> HIDE DEF E, F, R
<1>6. h[1] \in {E, F} /\ h[2] \in {E, R}
  BY <1>5
<1> QED BY <1>2, <1>3, <1>4, <1>6 DEF n

\* List g with one more member, promise p.
WithMember(g, p) ==
    [g EXCEPT !.inputs = Append(g.inputs, p),
              !.values = Append(g.values, [rejected |-> FALSE, value |-> Undefined]),
              !.remaining = g.remaining + 1]

LEMMA WithMemberTyped ==
    ASSUME NEW n, NEW g \in AggregatesOf(n), NEW p \in 1..n.promises
    PROVE  /\ WithMember(g, p) \in AggregatesOf(n)
           /\ WithMember(g, p).kind = g.kind /\ WithMember(g, p).cell = g.cell
           /\ WithMember(g, p).called = g.called
           /\ WithMember(g, p).inputs = Append(g.inputs, p)
           /\ WithMember(g, p).values = Append(g.values, [rejected |-> FALSE,
                                                         value |-> Undefined])
           /\ WithMember(g, p).remaining = g.remaining + 1
<1> DEFINE w == [rejected |-> FALSE, value |-> Undefined]
           x == Append(g.inputs, p)
           y == Append(g.values, w)
           m == g.remaining + 1
           T == [rejected : BOOLEAN, value : ValuesOf(n)]
           K == {"all", "allSettled", "any", "race"}
           I == Seq(1..n.promises)
           C == 1..n.cells
           V == Seq(T)
           S == SUBSET Nat
           N == Int
<1>1. w \in T
  BY DEF Undefined, Value, ValuesOf, Values_, Kinds
<1>2. AggregatesOf(n) = [kind : K, cell : C, inputs : I, called : S, values : V, remaining : N]
  BY DEF AggregatesOf
<1>3. g.inputs \in I /\ g.values \in V /\ g.remaining \in N
  BY DEF AggregatesOf
<1>4. x \in I
  BY <1>3, AppendProperties
<1>5. y \in V
  <2> HIDE DEF T, w
  <2> QED BY <1>1, <1>3, AppendProperties
<1>6. m \in N
  BY <1>3
<1>7. WithMember(g, p) = [g EXCEPT !.inputs = x, !.values = y, !.remaining = m]
  BY DEF WithMember
<1>8. x = Append(g.inputs, p) /\ y = Append(g.values, w) /\ m = g.remaining + 1
  OBVIOUS
<1> HIDE DEF K, I, C, V, T, S, N, x, y, m
<1>9. g \in [kind : K, cell : C, inputs : I, called : S, values : V, remaining : N]
  BY <1>2
<1> QED BY <1>2, <1>4, <1>5, <1>6, <1>7, <1>8, <1>9

\* One more element of list a.
LEMMA PerformGood ==
    ASSUME NEW s, NEW X, Good(s, X), NEW a \in 1..Len(s.aggregates), NEW i \in Nat,
           NEW v \in ValuesOf(SizesOf(s)), NEW t, t = PerformElement(s, a, i, v)
    PROVE  Good(t, X) /\ Grows(s, t) /\ Len(t.aggregates) = Len(s.aggregates)
<1> DEFINE r == njs_promise_resolve(s, v)
           h == ElementHandlers(s.aggregates[a], a, i)
           g == r.vm.aggregates[a]
           G == WithMember(g, r.promise)
           u == [r.vm EXCEPT !.aggregates[a] = G]
           n == SizesOf(r.vm)
<1>1. t = njs_promise_perform_then(u, r.promise, h[1], h[2], NoCell)
  BY Zenon DEF PerformElement, WithMember
<1>3. /\ h[1] \in HandlersOf(SizesOf(s)) /\ h[2] \in HandlersOf(SizesOf(s))
      /\ h[1].kind # "await" /\ h[2].kind # "await"
  <2> HIDE DEF h
  <2> QED BY HandlersTyped DEF h
<1>4. /\ Good(r.vm, X) /\ Grows(s, r.vm) /\ r.promise \in 1..Len(r.vm.promises)
      /\ Len(r.vm.aggregates) = Len(s.aggregates)
  <2> HIDE DEF r
  <2> QED BY PromiseResolveGood DEF r
<1>5. r.promise \in 1..n.promises /\ g \in AggregatesOf(n)
  BY <1>4, Elements DEF Good, Sound, SizesOf
<1> HIDE DEF r, h, g, n
<1>6. G \in AggregatesOf(n)
  BY <1>5, WithMemberTyped
<1> HIDE DEF G
<1>7. /\ Good(u, X) /\ Grows(r.vm, u) /\ Len(u.promises) = Len(r.vm.promises)
      /\ Len(u.aggregates) = Len(s.aggregates)
  <2>1. u = [r.vm EXCEPT !.aggregates[a] = G]
    OBVIOUS
  <2> HIDE DEF u
  <2>2. a \in 1..Len(r.vm.aggregates) /\ G \in AggregatesOf(SizesOf(r.vm))
    BY <1>4, <1>6 DEF n
  <2> QED BY <2>1, <2>2, <1>4, WithAggregateGood
<1> HIDE DEF u
<1>8. Grows(s, u)
  BY <1>4, <1>7, GrowsTransitive DEF Good, Sound
<1>9. /\ h[1] \in HandlersOf(SizesOf(u)) /\ h[2] \in HandlersOf(SizesOf(u))
  BY <1>3, <1>7, <1>8, Later DEF Good, Sound
<1>10. NoCell \in 0..Len(u.cells)
  <2>1. Len(u.cells) \in Nat
    BY <1>7, SizesTyped DEF Good, Sound, Typed
  <2> QED BY <2>1 DEF NoCell
<1>11. r.promise \in 1..Len(u.promises)
  BY <1>4, <1>7
<1>12. Good(t, X) /\ Grows(u, t) /\ Len(t.aggregates) = Len(u.aggregates)
  BY <1>1, <1>3, <1>7, <1>9, <1>10, <1>11, ThenGood
<1>13. Grows(s, t)
  BY <1>7, <1>8, <1>12, GrowsTransitive DEF Good, Sound
<1> QED BY <1>7, <1>12, <1>13

\* A set of natural numbers that is not empty has a least element.
LEMMA NatMin ==
    ASSUME NEW S \in SUBSET Nat, S # {}
    PROVE  \E m \in S : \A x \in S : m <= x
<1> DEFINE R == OpToRel(<, Nat)
<1>1. IsWellFoundedOn(R, Nat)
  BY NatLessThanWellFounded
<1> HIDE DEF R
<1>2. \E m \in S : \A y \in S : ~ (<<y, m>> \in R)
  BY <1>1, WFMin
<1>3. \A x, y \in Nat : <<y, x>> \in R <=> y < x
  BY DEF R, OpToRel
<1>4. PICK m \in S : \A y \in S : ~ (<<y, m>> \in R)
  BY <1>2
<1>5. \A x \in S : m <= x
  <2> TAKE x \in S
  <2>1. ~ (<<x, m>> \in R) /\ x \in Nat /\ m \in Nat
    BY <1>4
  <2> QED BY <2>1, <1>3
<1> QED BY <1>5

\* f is the sequence of the states that the first l elements of a list lead to.
Iterates(f, s, a, list, l) ==
    f = [n \in 0..l |-> IF n = 0 THEN s ELSE PerformElement(f[n - 1], a, n, list[n])]

\* Every list can be gone through.
LEMMA IteratesExists ==
    ASSUME NEW s, NEW a, NEW list, NEW l \in Nat
    PROVE  \E f : Iterates(f, s, a, list, l)
<1> DEFINE Bad == {k \in Nat : ~\E f : Iterates(f, s, a, list, k)}
<1> SUFFICES ASSUME Bad # {} PROVE FALSE
  OBVIOUS
<1>1. PICK k \in Bad : \A j \in Bad : k <= j
  BY NatMin
<1>2. CASE k = 0
  <2> DEFINE f == [n \in 0..0 |-> s]
  <2>1. f = [n \in 0..0 |-> IF n = 0 THEN s ELSE PerformElement(f[n - 1], a, n, list[n])]
    OBVIOUS
  <2> HIDE DEF f
  <2>2. Iterates(f, s, a, list, 0)
    BY <2>1 DEF Iterates
  <2> QED BY <2>2, <1>1, <1>2
<1>3. CASE k # 0
  <2>1. k - 1 \in Nat /\ k \in Nat /\ k - 1 \notin Bad
    BY <1>1, <1>3
  <2>2. PICK f : Iterates(f, s, a, list, k - 1)
    BY <2>1
  <2>3. \A n \in 0..(k - 1) :
           f[n] = IF n = 0 THEN s ELSE PerformElement(f[n - 1], a, n, list[n])
    BY <2>2, <2>1 DEF Iterates
  <2> DEFINE e == PerformElement(f[k - 1], a, k, list[k])
             h == [n \in 0..k |-> IF n = k THEN e ELSE f[n]]
  <2>4. ASSUME NEW n \in 0..k
        PROVE  h[n] = IF n = 0 THEN s ELSE PerformElement(h[n - 1], a, n, list[n])
    <3>1. CASE n = k
      <4>1. k - 1 \in 0..k /\ k - 1 # k
        BY <2>1, <1>3
      <4>2. h[k - 1] = f[k - 1] /\ h[n] = e
        BY <4>1, <3>1
      <4> QED BY <4>2, <3>1, <1>3
    <3>2. CASE n # k
      <4>1. n \in 0..(k - 1)
        BY <3>2, <2>1
      <4>2. h[n] = f[n]
        BY <3>2
      <4>3. CASE n = 0
        BY <4>1, <4>2, <4>3, <2>3
      <4>4. CASE n # 0
        <5>1. n - 1 \in 0..k /\ n - 1 # k
          BY <4>4, <4>1, <2>1
        <5>2. h[n - 1] = f[n - 1]
          BY <5>1
        <5> HIDE DEF h
        <5> QED BY <4>1, <4>2, <4>4, <5>2, <2>3
      <4> QED BY <4>3, <4>4
    <3> QED BY <3>1, <3>2
  <2>5. h = [n \in 0..k |-> IF n = 0 THEN s ELSE PerformElement(h[n - 1], a, n, list[n])]
    <3>1. h = [n \in 0..k |-> h[n]]
      OBVIOUS
    <3> HIDE DEF h
    <3> QED BY <3>1, <2>4
  <2> HIDE DEF h
  <2>6. Iterates(h, s, a, list, k)
    BY <2>5 DEF Iterates
  <2> QED BY <2>6, <1>1
<1> QED BY <1>2, <1>3

\* What goes on from each element to the next goes on to the last.
LEMMA UpTo ==
    ASSUME NEW l \in Nat, NEW S, 0 \in S, \A n \in 1..l : n - 1 \in S => n \in S
    PROVE  \A n \in 0..l : n \in S
<1> DEFINE Bad == {n \in 0..l : n \notin S}
<1> SUFFICES ASSUME Bad # {} PROVE FALSE
  OBVIOUS
<1>1. PICK n \in Bad : \A m \in Bad : n <= m
  <2>1. Bad \in SUBSET Nat
    OBVIOUS
  <2> HIDE DEF Bad
  <2> QED BY <2>1, NatMin
<1>2. n # 0
  BY <1>1
<1>3. n \in 1..l /\ n - 1 \in 0..l /\ ~(n <= n - 1)
  BY <1>1, <1>2
<1>4. n - 1 \in S
  BY <1>1, <1>3
<1> QED BY <1>1, <1>3, <1>4

\* The states that the elements of a list lead to.
LEMMA IterateStates ==
    ASSUME NEW s, NEW a, NEW list, Len(list) \in Nat, NEW t, t = njs_object_iterate(s, a, list)
    PROVE  \E each : /\ each[0] = s /\ t = each[Len(list)]
                     /\ \A n \in 1..Len(list) :
                           each[n] = PerformElement(each[n - 1], a, n, list[n])
<1> DEFINE l == Len(list)
           each == CHOOSE f : f = [n \in 0..l |-> IF n = 0 THEN s
                                     ELSE PerformElement(f[n - 1], a, n, list[n])]
<1>1. t = each[l]
  BY Zenon DEF njs_object_iterate
<1>2. \A n \in 0..l : each[n] = IF n = 0 THEN s ELSE PerformElement(each[n - 1], a, n, list[n])
  <2>1. \E f : f = [n \in 0..l |-> IF n = 0 THEN s
                                   ELSE PerformElement(f[n - 1], a, n, list[n])]
    <3>1. \E f : Iterates(f, s, a, list, l)
      BY IteratesExists
    <3> QED BY <3>1, Zenon DEF Iterates
  <2>2. each = [n \in 0..l |-> IF n = 0 THEN s
                               ELSE PerformElement(each[n - 1], a, n, list[n])]
    BY <2>1, Zenon
  <2> HIDE DEF each
  <2> QED BY <2>2
<1> HIDE DEF each
<1>3. 0 \in 0..l /\ \A n \in 1..l : n \in 0..l /\ n # 0
  OBVIOUS
<1>4. each[0] = s /\ \A n \in 1..l : each[n] = PerformElement(each[n - 1], a, n, list[n])
  BY <1>2, <1>3
<1> QED BY <1>1, <1>4

\* They are good.
LEMMA IterateGood ==
    ASSUME NEW s, NEW X, Good(s, X), NEW a \in 1..Len(s.aggregates),
           NEW list \in Seq(ValuesOf(SizesOf(s))),
           NEW t, t = njs_object_iterate(s, a, list)
    PROVE  Good(t, X) /\ Grows(s, t) /\ Len(t.aggregates) = Len(s.aggregates)
<1> DEFINE l == Len(list)
<1>1. l \in Nat /\ \A n \in 1..l : list[n] \in ValuesOf(SizesOf(s))
  BY LenProperties, ElementOfSeq
<1>2. PICK each : /\ each[0] = s /\ t = each[l]
                  /\ \A n \in 1..l : each[n] = PerformElement(each[n - 1], a, n, list[n])
  BY <1>1, IterateStates
<1> DEFINE Fine(u) == Good(u, X) /\ Grows(s, u) /\ Len(u.aggregates) = Len(s.aggregates)
           S == {n \in Nat : Fine(each[n])}
<1>3. Fine(s)
  BY GrowsReflexive DEF Good, Sound
<1>4. ASSUME NEW u, Fine(u), NEW n \in 1..l, NEW w, w = PerformElement(u, a, n, list[n])
      PROVE  Fine(w)
  <2>1. a \in 1..Len(u.aggregates) /\ n \in Nat
    BY <1>1, <1>4
  <2>2. list[n] \in ValuesOf(SizesOf(u))
    BY <1>1, <1>4, Later DEF Good, Sound
  <2>3. Good(w, X) /\ Grows(u, w) /\ Len(w.aggregates) = Len(u.aggregates)
    BY <2>1, <2>2, <1>4, PerformGood
  <2> QED BY <2>3, <1>4, GrowsTransitive DEF Good, Sound
<1> HIDE DEF Fine, l
<1>5. 0 \in S
  BY <1>2, <1>3
<1>6. ASSUME NEW n \in 1..l, n - 1 \in S PROVE n \in S
  <2>1. Fine(each[n - 1]) /\ n \in Nat
    BY <1>1, <1>6
  <2>2. Fine(each[n])
    BY <1>2, <1>4, <2>1
  <2> QED BY <2>1, <2>2
<1> HIDE DEF S
<1>7. \A n \in 0..l : n \in S
  BY <1>1, <1>5, <1>6, UpTo
<1>8. Fine(t)
  <2>1. l \in 0..l
    BY <1>1
  <2> QED BY <1>2, <1>7, <2>1 DEF S
<1> QED BY <1>8 DEF Fine

\* List g, with one call fewer to come.
OneFewer(g) == [g EXCEPT !.remaining = g.remaining - 1]

LEMMA OneFewerTyped ==
    ASSUME NEW n, NEW g \in AggregatesOf(n)
    PROVE  /\ OneFewer(g) \in AggregatesOf(n)
           /\ OneFewer(g).kind = g.kind /\ OneFewer(g).cell = g.cell
           /\ OneFewer(g).called = g.called /\ OneFewer(g).inputs = g.inputs
           /\ OneFewer(g).values = g.values /\ OneFewer(g).remaining = g.remaining - 1
<1> DEFINE m == g.remaining - 1
<1>1. m \in Int
  BY DEF AggregatesOf
<1>2. OneFewer(g) = [g EXCEPT !.remaining = m] /\ m = g.remaining - 1
  BY DEF OneFewer
<1> HIDE DEF m
<1> QED BY <1>1, <1>2 DEF AggregatesOf

\* The list has been gone through: what becomes of it.
LEMMA PerformAllParts ==
    ASSUME NEW s, NEW X, Good(s, X), NEW a \in 1..Len(s.aggregates),
           NEW list \in Seq(ValuesOf(SizesOf(s))),
           NEW t, t = njs_promise_perform_all(s, a, list)
    PROVE  \E w, u : /\ w = njs_object_iterate(s, a, list)
                     /\ u = [w EXCEPT !.aggregates[a] = OneFewer(w.aggregates[a])]
                     /\ IF u.aggregates[a].remaining = 0
                        THEN t = njs_promise_resolve_function(
                                     u, u.aggregates[a].cell,
                                     Value(IF u.aggregates[a].kind = "any" THEN "errors"
                                           ELSE "array", a))
                        ELSE t = u
<1> DEFINE w == njs_object_iterate(s, a, list)
           y == [w EXCEPT !.aggregates[a].remaining = w.aggregates[a].remaining - 1]
           u == [w EXCEPT !.aggregates[a] = OneFewer(w.aggregates[a])]
<1>1. IF y.aggregates[a].remaining = 0
      THEN t = njs_promise_resolve_function(
                   y, y.aggregates[a].cell,
                   Value(IF y.aggregates[a].kind = "any" THEN "errors" ELSE "array", a))
      ELSE t = y
  BY Zenon DEF njs_promise_perform_all
<1>2. w = njs_object_iterate(s, a, list)
  OBVIOUS
<1> HIDE DEF w
<1>3. y = u
  <2>1. w = [promises |-> w.promises, cells |-> w.cells, jobs |-> w.jobs,
             aggregates |-> w.aggregates, contexts |-> w.contexts,
             tracking |-> w.tracking, rejected |-> w.rejected,
             reactions |-> w.reactions, ran |-> w.ran, finallys |-> w.finallys]
    BY <1>2, IterateGood, Fields DEF Good, Sound, Typed
  <2> QED BY <2>1 DEF OneFewer
<1>4. u = [w EXCEPT !.aggregates[a] = OneFewer(w.aggregates[a])]
  OBVIOUS
<1> HIDE DEF u, y
<1> QED BY <1>1, <1>2, <1>3, <1>4, Zenon

LEMMA PerformAllGood ==
    ASSUME NEW s, NEW X, Good(s, X), NEW a \in 1..Len(s.aggregates),
           NEW list \in Seq(ValuesOf(SizesOf(s))),
           NEW t, t = njs_promise_perform_all(s, a, list)
    PROVE  Good(t, X) /\ Grows(s, t)
<1>1. PICK w, u : /\ w = njs_object_iterate(s, a, list)
                  /\ u = [w EXCEPT !.aggregates[a] = OneFewer(w.aggregates[a])]
                  /\ IF u.aggregates[a].remaining = 0
                     THEN t = njs_promise_resolve_function(
                                  u, u.aggregates[a].cell,
                                  Value(IF u.aggregates[a].kind = "any" THEN "errors"
                                        ELSE "array", a))
                     ELSE t = u
  BY PerformAllParts
<1> DEFINE G == OneFewer(w.aggregates[a])
           v == Value(IF u.aggregates[a].kind = "any" THEN "errors" ELSE "array", a)
<1>2. Good(w, X) /\ Grows(s, w) /\ a \in 1..Len(w.aggregates)
  <2>1. Good(w, X) /\ Grows(s, w) /\ Len(w.aggregates) = Len(s.aggregates)
    BY <1>1, IterateGood
  <2> QED BY <2>1
<1>3. G \in AggregatesOf(SizesOf(w))
  BY <1>2, Elements, OneFewerTyped DEF Good, Sound
<1>4. u = [w EXCEPT !.aggregates[a] = G]
  BY <1>1
<1>5. t = u \/ t = njs_promise_resolve_function(u, u.aggregates[a].cell, v)
  BY <1>1
<1>6. v \in ValuesOf(SizesOf(u))
  <2>1. Len(s.aggregates) \in Nat
    BY SizesTyped DEF Good, Sound, Typed
  <2> QED BY <2>1 DEF Value, ValuesOf, Values_, Kinds
<1> HIDE DEF G, v
<1>7. /\ Good(u, X) /\ Grows(w, u) /\ Len(u.aggregates) = Len(w.aggregates)
  BY ONLY <1>2, <1>3, <1>4, WithAggregateGood
<1>8. u.aggregates[a].cell \in 1..Len(u.cells)
  <2>1. u.aggregates[a] \in AggregatesOf(SizesOf(u))
    BY <1>2, <1>7, Elements DEF Good, Sound
  <2> QED BY <2>1 DEF AggregatesOf, SizesOf
<1>9. Good(t, X) /\ Grows(u, t)
  BY ONLY <1>5, <1>6, <1>7, <1>8, ResolveGood, GrowsReflexive DEF Kept, Good, Sound
<1>10. Grows(s, u)
  BY <1>2, <1>7, GrowsTransitive DEF Good, Sound
<1> QED BY <1>7, <1>9, <1>10, GrowsTransitive DEF Good, Sound

LEMMA AllGood ==
    ASSUME NEW s, NEW X, Good(s, X), NEW kind \in {"all", "allSettled", "any", "race"},
           NEW list \in Seq(ValuesOf(SizesOf(s))),
           NEW t, t = njs_promise_all(s, kind, list)
    PROVE  Good(t, X) /\ Grows(s, t)
<1> DEFINE c == njs_promise_new_capability(s, FALSE)
           g == EmptyAggregate(kind, Len(c.cells))
           x == Append(c.aggregates, g)
           u == [c EXCEPT !.aggregates = x]
           a == Len(s.aggregates) + 1
           n == SizesOf(c)
<1>1. /\ Good(c, X) /\ Grows(s, c) /\ Len(c.cells) = Len(s.cells) + 1
      /\ c.aggregates = s.aggregates
  <2>1. \E e \in BOOLEAN : c = njs_promise_new_capability(s, e)
    BY Zenon
  <2> HIDE DEF c
  <2> QED BY <2>1, CapabilityGood
<1>2. t = njs_object_iterate(u, a, list) \/ t = njs_promise_perform_all(u, a, list)
  BY Zenon DEF njs_promise_all
<1> HIDE DEF c
<1>3. g \in AggregatesOf(n)
  <2>1. Len(c.cells) \in 1..n.cells
    <3>1. Len(s.cells) \in Nat
      BY SizesTyped DEF Good, Sound, Typed
    <3> QED BY <3>1, <1>1 DEF SizesOf
  <2>2. <<>> \in Seq(1..n.promises)
        /\ <<>> \in Seq([rejected : BOOLEAN, value : ValuesOf(n)])
    BY EmptySeq
  <2> HIDE DEF n
  <2> QED BY <2>1, <2>2 DEF EmptyAggregate, AggregatesOf, InitialRemaining
<1>4. x \in Seq(AggregatesOf(n)) /\ Len(x) = a /\ Len(c.aggregates) <= Len(x)
      /\ a \in 1..Len(x)
  <2>1. c.aggregates \in Seq(AggregatesOf(n)) /\ Len(s.aggregates) \in Nat
    BY <1>1, Fields, SizesTyped DEF Good, Sound, Typed
  <2>2. x \in Seq(AggregatesOf(n)) /\ Len(x) = Len(c.aggregates) + 1
    <3> HIDE DEF g, n
    <3> QED BY <2>1, <1>3, AppendProperties
  <2> QED BY <2>1, <2>2, <1>1
<1> HIDE DEF x
<1>5. Good(u, X) /\ Grows(c, u) /\ u.aggregates = x
  <2>1. u = [c EXCEPT !.aggregates = x]
    OBVIOUS
  <2> HIDE DEF u
  <2> QED BY <2>1, <1>1, <1>4, AggregatesGood
<1> HIDE DEF u
<1>6. Grows(s, u)
  BY <1>1, <1>5, GrowsTransitive DEF Good, Sound
<1>7. list \in Seq(ValuesOf(SizesOf(u)))
  <2>1. ValuesOf(SizesOf(s)) \subseteq ValuesOf(SizesOf(u))
    BY <1>5, <1>6, Later DEF Good, Sound
  <2> QED BY <2>1, SeqMonotonic
<1>8. a \in 1..Len(u.aggregates)
  BY <1>4, <1>5
<1> HIDE DEF a
<1>9. Good(t, X) /\ Grows(u, t)
  BY <1>2, <1>5, <1>7, <1>8, IterateGood, PerformAllGood
<1> QED BY <1>5, <1>6, <1>9, GrowsTransitive DEF Good, Sound

\* A thenable that is a promise is waited for.
LEMMA AdoptGood ==
    ASSUME NEW s, NEW X, Good(s, X), NEW q \in 1..Len(s.promises), NEW c \in 1..Len(s.cells),
           NEW t, t = Adopt(s, q, c)
    PROVE  Good(t, X) /\ Grows(s, t)
<1>1. Len(s.cells) \in Nat /\ Len(s.cells) = SizesOf(s).cells
  BY SizesTyped DEF Good, Sound, Typed, SizesOf
<1>2. c \in Nat /\ NoCell \in 0..Len(s.cells)
  BY <1>1 DEF NoCell
<1>3. /\ Handler("resolve", c) \in HandlersOf(SizesOf(s))
      /\ Handler("reject", c) \in HandlersOf(SizesOf(s))
      /\ Handler("resolve", c).kind # "await" /\ Handler("reject", c).kind # "await"
  BY <1>1, <1>2, HandlerTyped DEF HandlerKinds
<1>4. t = njs_promise_perform_then(s, q, Handler("resolve", c), Handler("reject", c), NoCell)
  BY DEF Adopt
<1> QED BY <1>2, <1>3, <1>4, ThenGood

-----------------------------------------------------------------------------
(* finally().                                                                *)

LEMMA FinallysGood ==
    ASSUME NEW s, NEW X, Good(s, X), NEW x \in Seq(FinallysOf(SizesOf(s))),
           NEW t, t = [s EXCEPT !.finallys = x]
    PROVE  Kept(s, t, X)
<1> DEFINE n == SizesOf(s)
<1>1. Typed(s) /\ n \in Sizes /\ s \in VmOf(n)
  BY DEF Good, Sound, Typed
<1>2. /\ Len(s.aggregates) \in Nat /\ Len(s.contexts) \in Nat /\ Len(s.reactions) \in Nat
  BY <1>1, SizesTyped
<1>3. /\ t.promises = s.promises /\ t.cells = s.cells /\ t.jobs = s.jobs
      /\ t.rejected = s.rejected /\ t.aggregates = s.aggregates
      /\ t.reactions = s.reactions /\ t.contexts = s.contexts /\ t.ran = s.ran
  <2> HIDE DEF n
  <2> QED BY ONLY <1>1, Fields, t = [s EXCEPT !.finallys = x]
<1>4. SizesOf(t) = n
  BY <1>3 DEF SizesOf
<1>5. t \in VmOf(n)
  <2> HIDE DEF n
  <2>1. x \in Seq(FinallysOf(n))
    BY DEF n
  <2> QED BY <1>1, <2>1 DEF VmOf
<1>6. Typed(t)
  BY <1>1, <1>4, <1>5 DEF Typed
<1>7. Good(t, X) /\ Grows(s, t)
  <2>1. Len(s.aggregates) <= Len(t.aggregates)
    BY <1>2, <1>3
  <2> QED BY ONLY Good(s, X), <2>1, <1>3, <1>6, OtherPartsGood
<1> QED BY <1>4, <1>7 DEF Kept

LEMMA FinallyGood ==
    ASSUME NEW s, NEW X, Good(s, X), NEW p \in 1..Len(s.promises), NEW f \in HandlersOf(SizesOf(s)),
           NEW r \in HandlersOf(SizesOf(s)), f.kind # "await", r.kind # "await",
           NEW u, u = njs_promise_prototype_then(s, p, f, r),
           NEW t, t = [u EXCEPT !.finallys = Append(u.finallys, [from |-> p,
                                                     cell |-> Len(u.cells), via |-> 0, inner |-> 0])]
    PROVE  Good(t, X) /\ Grows(s, t)
<1> DEFINE n == SizesOf(u)
           e == [from |-> p, cell |-> Len(u.cells), via |-> 0, inner |-> 0]
           x == Append(u.finallys, e)
<1>1. /\ Good(u, X) /\ Grows(s, u)
      /\ Len(u.promises) = Len(s.promises) + 1 /\ Len(u.cells) = Len(s.cells) + 1
  BY PrototypeThenGood
<1>2. Typed(s) /\ Typed(u) /\ u \in VmOf(n) /\ n \in Sizes
  BY <1>1 DEF Good, Sound, Typed
<1>3. /\ Len(u.promises) \in Nat /\ Len(u.cells) \in Nat /\ Len(s.cells) \in Nat
      /\ n.promises = Len(u.promises) /\ n.cells = Len(u.cells) /\ Len(s.promises) \in Nat
  BY <1>2, SizesTyped DEF SizesOf, Typed
<1> HIDE DEF n
<1>4. e \in FinallysOf(n)
  <2>1. p \in 1..n.promises /\ Len(u.cells) \in 1..n.cells /\ 0 \in 0..n.promises
    BY <1>1, <1>3
  <2> QED BY <2>1 DEF FinallysOf
<1> HIDE DEF e
<1>5. x \in Seq(FinallysOf(n))
  BY <1>2, <1>4, Fields, AppendProperties
<1>6. t = [u EXCEPT !.finallys = x]
  BY DEF x, e
<1> HIDE DEF x
<1>7. Kept(u, t, X)
  BY <1>1, <1>5, <1>6, FinallysGood DEF n
<1> QED BY <1>1, <1>2, <1>7, GrowsTransitive DEF Kept, Good, Sound

\* finally() for pair id waits for promise q, in promise m.
Waiting(x, y, id, q, m) ==
    /\ Len(y) = Len(x) /\ Len(x) \in Nat
    /\ \A i \in 1..Len(x) :
          /\ y[i].from = x[i].from /\ y[i].cell = x[i].cell
          /\ IF x[i].cell = id THEN y[i].via = q /\ y[i].inner = m ELSE y[i] = x[i]

Waited(x, id, q, m) ==
    [i \in DOMAIN x |-> IF x[i].cell = id THEN [x[i] EXCEPT !.via = q, !.inner = m] ELSE x[i]]

LEMMA WaitingTyped ==
    ASSUME NEW n, NEW x \in Seq(FinallysOf(n)), NEW id, NEW q \in 0..n.promises,
           NEW m \in 0..n.promises, NEW y, y = Waited(x, id, q, m)
    PROVE  y \in Seq(FinallysOf(n)) /\ Waiting(x, y, id, q, m)
<1>1. Len(x) \in Nat /\ DOMAIN x = 1..Len(x)
  BY LenProperties
<1>2. ASSUME NEW i \in 1..Len(x)
      PROVE  /\ y[i] \in FinallysOf(n) /\ y[i].from = x[i].from /\ y[i].cell = x[i].cell
             /\ IF x[i].cell = id THEN y[i].via = q /\ y[i].inner = m ELSE y[i] = x[i]
  <2> DEFINE e == x[i]
             g == [e EXCEPT !.via = q, !.inner = m]
  <2>1. e \in FinallysOf(n)
    BY ElementOfSeq
  <2>2. y[i] = IF e.cell = id THEN g ELSE e
    BY <1>1 DEF Waited
  <2> HIDE DEF e
  <2>3. e \in [from : 1..n.promises, cell : 1..n.cells, via : 0..n.promises,
               inner : 0..n.promises]
    BY <2>1 DEF FinallysOf
  <2>4. /\ g \in [from : 1..n.promises, cell : 1..n.cells, via : 0..n.promises,
                  inner : 0..n.promises]
        /\ g.from = e.from /\ g.cell = e.cell /\ g.via = q /\ g.inner = m
    BY ONLY <2>3, q \in 0..n.promises, m \in 0..n.promises
  <2> HIDE DEF g
  <2>5. y[i] \in FinallysOf(n)
    BY <2>1, <2>2, <2>4 DEF FinallysOf
  <2> QED BY <2>2, <2>4, <2>5 DEF e
<1>3. y \in [1..Len(x) -> FinallysOf(n)]
  <2>1. y = [i \in 1..Len(x) |-> y[i]]
    BY <1>1 DEF Waited
  <2> QED BY ONLY <1>2, <2>1
<1>4. y \in Seq(FinallysOf(n)) /\ Len(y) = Len(x)
  <2>1. y \in Seq(FinallysOf(n))
    BY ONLY <1>1, <1>3, SeqDef
  <2>2. DOMAIN y = 1..Len(x)
    BY <1>1 DEF Waited
  <2>3. Len(y) \in Nat /\ DOMAIN y = 1..Len(y)
    BY ONLY <2>1, LenProperties
  <2>4. Len(y) = Len(x)
    <3>1. PICK a \in Nat : a = Len(x)
      BY <1>1
    <3>2. PICK b \in Nat : b = Len(y)
      BY <2>3
    <3>3. \A i : i \in 1..a <=> i \in 1..b
      BY <2>2, <2>3, <3>1, <3>2
    <3>4. a = b
      <4>1. (a + 1 \in 1..a <=> a + 1 \in 1..b) /\ (b + 1 \in 1..a <=> b + 1 \in 1..b)
        BY ONLY <3>3
      <4> QED BY ONLY <4>1, a \in Nat, b \in Nat
    <3> QED BY <3>1, <3>2, <3>4
  <2> QED BY <2>1, <2>4
<1> QED BY <1>1, <1>2, <1>4 DEF Waiting

LEMMA ThenFinallyGood ==
    ASSUME NEW s, NEW X, Good(s, X), NEW v \in ValuesOf(SizesOf(s)), frame.id \in 0..Len(s.cells),
           frame.value \in ValuesOf(SizesOf(s)),
           NEW t, t = njs_promise_then_finally_function(s, v)
    PROVE  Good(t, X) /\ Grows(s, t)
<1> DEFINE r == njs_promise_resolve(s, v)
           h == ThunkHandler(Thunk(frame.kind), frame.value)
           w == njs_promise_prototype_then(r.vm, r.promise, h, Handler("none", 0))
           x == [i \in DOMAIN w.finallys |->
                    IF w.finallys[i].cell = frame.id
                    THEN [w.finallys[i] EXCEPT !.via = r.promise, !.inner = Len(w.promises)]
                    ELSE w.finallys[i]]
           u == [w EXCEPT !.finallys = x]
           n == SizesOf(w)
<1>1. /\ Good(r.vm, X) /\ Grows(s, r.vm) /\ r.promise \in 1..Len(r.vm.promises)
  <2> HIDE DEF r
  <2> QED BY PromiseResolveGood DEF r
<1>2. /\ h \in HandlersOf(SizesOf(r.vm)) /\ Handler("none", 0) \in HandlersOf(SizesOf(r.vm))
      /\ h.kind # "await" /\ Handler("none", 0).kind # "await"
  <2>1. frame.value \in ValuesOf(SizesOf(r.vm))
    <3> HIDE DEF r
    <3> QED BY <1>1, Later DEF Good, Sound
  <2>2. Thunk(frame.kind) \in {"return", "throw"}
    BY DEF Thunk
  <2> HIDE DEF r
  <2> QED BY <2>1, <2>2, ThunkTyped, HandlerTyped DEF HandlerKinds
<1>3. t = Settle(u, frame.id, FALSE, Value("promise", Len(w.promises)))
  BY Zenon DEF njs_promise_then_finally_function
<1> HIDE DEF r, h
<1>4. /\ Good(w, X) /\ Grows(r.vm, w) /\ Len(w.promises) = Len(r.vm.promises) + 1
  <2>1. w = njs_promise_prototype_then(r.vm, r.promise, h, Handler("none", 0))
    OBVIOUS
  <2> HIDE DEF w
  <2> QED BY <1>1, <1>2, <2>1, PrototypeThenGood
<1> HIDE DEF w
<1>5. Typed(s) /\ Typed(r.vm) /\ Typed(w) /\ w \in VmOf(n)
  BY <1>1, <1>4 DEF Good, Sound, Typed
<1>6. /\ n.promises = Len(w.promises) /\ Len(w.promises) \in Nat
      /\ Len(r.vm.promises) \in Nat /\ Len(w.cells) \in Nat
  BY <1>5, SizesTyped DEF SizesOf, Typed
<1>7. x \in Seq(FinallysOf(n))
  <2>1. w.finallys \in Seq(FinallysOf(n))
    <3> HIDE DEF n
    <3> QED BY <1>5, Fields
  <2>2. r.promise \in 0..n.promises /\ Len(w.promises) \in 0..n.promises
    BY <1>1, <1>4, <1>6
  <2>3. x = Waited(w.finallys, frame.id, r.promise, Len(w.promises))
    BY DEF Waited
  <2> HIDE DEF n, x
  <2> QED BY ONLY <2>1, <2>2, <2>3, WaitingTyped
<1> HIDE DEF x
<1>8. Kept(w, u, X)
  <2>1. u = [w EXCEPT !.finallys = x]
    OBVIOUS
  <2> HIDE DEF u
  <2> QED BY <1>4, <1>7, <2>1, FinallysGood
<1> HIDE DEF u
<1>9. /\ frame.id \in 0..Len(u.cells)
      /\ Value("promise", Len(w.promises)) \in ValuesOf(SizesOf(u))
  <2>1. /\ 0..Len(s.cells) \subseteq 0..Len(r.vm.cells)
        /\ 0..Len(r.vm.cells) \subseteq 0..Len(w.cells)
    BY <1>1, <1>4, <1>5, Later
  <2>2. SizesOf(u) = n
    BY <1>8 DEF Kept
  <2>3. Len(u.cells) = Len(w.cells)
    BY <2>2 DEF SizesOf
  <2>4. Len(w.promises) \in 1..n.promises
    BY <1>1, <1>4, <1>6
  <2>5. Value("promise", Len(w.promises)) \in ValuesOf(n)
    <3> HIDE DEF n
    <3> QED BY <2>4, <1>6 DEF Value, ValuesOf, Values_, Kinds
  <2> QED BY <2>1, <2>2, <2>3, <2>5
<1>10. Kept(u, t, X)
  <2>1. Good(u, X)
    BY <1>8 DEF Kept
  <2>2. \E b : t = Settle(u, frame.id, b, Value("promise", Len(w.promises)))
    BY <1>3, Zenon
  <2> QED BY <1>9, <2>1, <2>2, SettleGood
<1>11. Typed(u) /\ Grows(w, u) /\ Good(t, X) /\ Typed(t) /\ Grows(u, t)
  BY <1>8, <1>10 DEF Kept, Good, Sound
<1>12. Grows(s, w)
  BY <1>1, <1>4, <1>5, GrowsTransitive
<1>13. Grows(s, u)
  BY <1>5, <1>11, <1>12, GrowsTransitive
<1> QED BY <1>5, <1>11, <1>13, GrowsTransitive

-----------------------------------------------------------------------------
(* The inductive invariant.                                                  *)

\* What runs: the resolving functions, or the context, that await its end.
FramesOf(n) ==
    {f \in [kind : {"idle", "script", "handler", "async", "then", "thenFinally",
                    "catchFinally"}, id : Nat, value : ValuesOf(n)] :
        /\ f.kind \in {"handler", "then", "thenFinally", "catchFinally"} => f.id \in 0..n.cells
        /\ f.kind = "async" => f.id \in 1..n.contexts /\ f.value = Undefined}

\* The context that runs, if any.
Running == IF frame.kind = "async" THEN {frame.id} ELSE {}

Inv ==
    /\ Good(vm, Running)
    /\ frame \in FramesOf(SizesOf(vm))
    /\ drain \in BOOLEAN /\ reported \in BOOLEAN
    /\ phase \in {"running", "exiting", "destroyed"}
    /\ phase = "destroyed" => frame = Idle /\ reported = (vm.rejected # {})
    /\ program \in ProgramType

\* What every step does to the engine's state.
Advances == Good(vm', Running') /\ Grows(vm, vm') /\ frame' \in FramesOf(SizesOf(vm'))

LEMMA FramesWidened ==
    ASSUME NEW s, Typed(s), NEW t, Typed(t), Grows(s, t)
    PROVE  FramesOf(SizesOf(s)) \subseteq FramesOf(SizesOf(t))
<1>1. /\ ValuesOf(SizesOf(s)) \subseteq ValuesOf(SizesOf(t))
      /\ 0..Len(s.cells) \subseteq 0..Len(t.cells)
      /\ 1..Len(s.contexts) \subseteq 1..Len(t.contexts)
  BY Later
<1>2. /\ SizesOf(s).cells = Len(s.cells) /\ SizesOf(s).contexts = Len(s.contexts)
      /\ SizesOf(t).cells = Len(t.cells) /\ SizesOf(t).contexts = Len(t.contexts)
  BY DEF SizesOf
<1> QED BY <1>1, <1>2 DEF FramesOf

LEMMA IdleTyped == \A n : Idle \in FramesOf(n)
<1>1. ASSUME NEW n
      PROVE  Idle \in FramesOf(n)
  <2>1. Undefined \in ValuesOf(n)
    BY DEF Undefined, Value, ValuesOf, Values_, Kinds
  <2> QED BY <2>1 DEF Idle, FramesOf
<1> QED BY <1>1

\* The frame of a handler that runs, as a record.
LEMMA FrameIs ==
    ASSUME NEW k, NEW i
    PROVE  Frame(k, i) = [kind |-> k, id |-> i, value |-> Undefined]
<1>1. Idle = [kind |-> "idle", id |-> 0, value |-> Undefined]
  BY DEF Idle
<1>2. Frame(k, i) = [Idle EXCEPT !.kind = k, !.id = i]
  BY DEF Frame
<1> QED BY <1>1, <1>2

\* The frame of an operation of the script that runs stays.
LEMMA FrameStays ==
    ASSUME Inv, Good(vm', Running), Grows(vm, vm'), UNCHANGED frame
    PROVE  Advances
<1>1. FramesOf(SizesOf(vm)) \subseteq FramesOf(SizesOf(vm'))
  BY FramesWidened DEF Inv, Good, Sound
<1>2. Running' = Running
  BY DEF Running
<1> QED BY <1>1, <1>2 DEF Advances, Inv

LEMMA BecomesIdle ==
    ASSUME Good(vm', {}), Grows(vm, vm'), frame' = Idle
    PROVE  Advances
<1>1. Running' = {}
  BY DEF Running, Idle
<1> QED BY <1>1, IdleTyped DEF Advances

\* The values at hand.
LEMMA ArgsTyped ==
    ASSUME Inv
    PROVE  /\ program.values \subseteq ValuesOf(SizesOf(vm))
           /\ Args(vm) \subseteq ValuesOf(SizesOf(vm))
           /\ DOMAIN vm.promises = 1..Len(vm.promises)
<1> DEFINE n == SizesOf(vm)
<1>1. Typed(vm) /\ vm \in VmOf(n) /\ n.promises = Len(vm.promises)
  BY DEF Inv, Good, Sound, Typed, SizesOf
<1>2. Len(vm.promises) \in Nat /\ DOMAIN vm.promises = 1..Len(vm.promises)
  <2> HIDE DEF n
  <2> QED BY <1>1, Fields, LenProperties
<1> HIDE DEF n
<1>3. program.values \subseteq ValuesOf(n)
  <2>1. program.values \subseteq ScriptValues
    BY DEF Inv, ProgramType
  <2>2. ScriptValues \subseteq ValuesOf(n)
    BY DEF ScriptValues, ValuesOf, Values_, Kinds
  <2> QED BY <2>1, <2>2
<1>4. ASSUME NEW p \in DOMAIN vm.promises
      PROVE  Value("promise", p) \in ValuesOf(n)
  BY <1>1, <1>2, <1>4 DEF Value, ValuesOf, Values_, Kinds
<1> QED BY <1>2, <1>3, <1>4 DEF Args, n

\* Lists of values at hand.
LEMMA ListsTyped ==
    ASSUME Inv, NEW n \in Nat, NEW list \in [1..n -> Args(vm)]
    PROVE  list \in Seq(ValuesOf(SizesOf(vm)))
<1>1. Args(vm) \subseteq ValuesOf(SizesOf(vm))
  BY ArgsTyped
<1>2. list \in [1..n -> ValuesOf(SizesOf(vm))]
  BY <1>1
<1> QED BY <1>2, SeqDef

LEMMA InitInv ==
    ASSUME Init, ProgramsAssumption
    PROVE  Inv
<1> DEFINE n == [promises |-> 0, cells |-> 0, aggregates |-> 0, contexts |-> 0,
                 reactions |-> 0]
<1>1. vm = [promises |-> <<>>, cells |-> <<>>, jobs |-> <<>>,
            aggregates |-> <<>>, contexts |-> <<>>,
            tracking |-> FALSE, rejected |-> {},
            reactions |-> <<>>, ran |-> <<>>, finallys |-> <<>>]
  BY DEF Init
<1>2. /\ vm.promises = <<>> /\ vm.cells = <<>> /\ vm.jobs = <<>> /\ vm.rejected = {}
      /\ vm.aggregates = <<>> /\ vm.contexts = <<>> /\ vm.reactions = <<>>
      /\ vm.ran = <<>>
  BY <1>1
<1>3. /\ Len(vm.promises) = 0 /\ Len(vm.cells) = 0 /\ Len(vm.jobs) = 0
      /\ Len(vm.aggregates) = 0 /\ Len(vm.contexts) = 0 /\ Len(vm.reactions) = 0
      /\ Len(vm.ran) = 0
  BY <1>2, EmptySeq
<1>4. SizesOf(vm) = n /\ n \in Sizes
  BY <1>3 DEF SizesOf, Sizes
<1> HIDE DEF n
<1>5. vm \in VmOf(n)
  <2>1. /\ <<>> \in Seq(PromisesOf(n)) /\ <<>> \in Seq(CellsOf(n)) /\ <<>> \in Seq(JobsOf(n))
        /\ <<>> \in Seq(AggregatesOf(n)) /\ <<>> \in Seq(ContextsOf(n))
        /\ <<>> \in Seq(1..n.promises) /\ <<>> \in Seq(1..n.reactions)
        /\ <<>> \in Seq(FinallysOf(n))
    BY EmptySeq
  <2> QED BY <1>1, <2>1 DEF VmOf
<1>6. Typed(vm)
  BY <1>4, <1>5 DEF Typed
<1>7. OneWay(vm)
  <2>1. 1..Len(vm.promises) = {} /\ 1..Len(vm.cells) = {} /\ 1..Len(vm.jobs) = {}
    BY <1>3
  <2> QED BY <2>1 DEF OneWay
<1>8. Listed(vm)
  BY <1>3 DEF Listed
<1>9. program \in ProgramType
  BY DEF Init, ProgramsAssumption
<1>10. frame \in FramesOf(SizesOf(vm))
  BY IdleTyped DEF Init
<1>11. Running = {}
  BY DEF Init, Running, Idle
<1>12. 1..0 = {}
  OBVIOUS
<1>13. /\ \A p, q, r : ~Waits(vm, p, q, r)
       /\ \A a, r : ~Turn(vm, a, r)
  BY <1>3, <1>12 DEF Waits, Turn
<1>14. Placed(vm)
  BY <1>3, <1>12, <1>13 DEF Placed
<1>15. Awaited(vm, Running)
  BY <1>3, <1>11, <1>12 DEF Awaited
<1> QED BY <1>6, <1>7, <1>8, <1>9, <1>10, <1>14, <1>15 DEF Inv, Good, Sound, Init

-----------------------------------------------------------------------------
(* The operations of scripts.                                                *)

LEMMA UseTyped ==
    ASSUME NEW op \in OpNames, program \in ProgramType, Use(op)
    PROVE  program' \in ProgramType
<1> DEFINE x == program.left[op] - 1
           left == [program.left EXCEPT ![op] = x]
<1>1. program \in [left : [OpNames -> Nat], values : SUBSET ScriptValues,
                   handlers : SUBSET {"fn", "none"}, lists : SUBSET Nat]
  BY DEF ProgramType
<1>2. program.left[op] \in Nat /\ program.left[op] > 0
  BY <1>1 DEF Use
<1>3. x \in Nat
  BY <1>2
<1>4. program' = [program EXCEPT !.left = left]
  BY <1>1 DEF Use
<1> HIDE DEF x
<1>5. left \in [OpNames -> Nat]
  BY <1>1, <1>3
<1> HIDE DEF left
<1>6. program' \in [left : [OpNames -> Nat], values : SUBSET ScriptValues,
                    handlers : SUBSET {"fn", "none"}, lists : SUBSET Nat]
  BY ONLY <1>1, <1>4, <1>5
<1> QED BY <1>6 DEF ProgramType

\* What an operation of a script does.
ScriptStep ==
    /\ Advances
    /\ frame # Idle
    /\ program' \in ProgramType
    /\ UNCHANGED <<drain, phase, reported>>

LEMMA ScriptAdvances ==
    ASSUME Inv, NEW op \in OpNames, NEW s, Good(s, Running), Grows(vm, s), Script(op, s)
    PROVE  ScriptStep
<1>1. vm' = s /\ UNCHANGED frame /\ frame # Idle /\ Use(op) /\ UNCHANGED <<drain, phase, reported>>
  BY DEF Script
<1>2. program' \in ProgramType
  BY <1>1, UseTyped DEF Inv
<1> QED BY <1>1, <1>2, FrameStays DEF ScriptStep

LEMMA ScriptsAdvance ==
    ASSUME Inv, Scripts
    PROVE  ScriptStep
<1> DEFINE n == SizesOf(vm)
<1>1. /\ Good(vm, Running) /\ Typed(vm)
      /\ program.values \subseteq ValuesOf(n) /\ Args(vm) \subseteq ValuesOf(n)
      /\ DOMAIN vm.promises = 1..Len(vm.promises)
  BY ArgsTyped DEF Inv, Good, Sound
<1>2. DOMAIN vm.cells = 1..Len(vm.cells)
  <2>1. vm.cells \in Seq(CellsOf(n))
    <3> HIDE DEF n
    <3> QED BY <1>1, Fields DEF Typed, n
  <2> HIDE DEF n
  <2> QED BY <2>1, LenProperties
<1>3. CASE njs_promise_constructor
  <2> DEFINE t == njs_promise_new_capability(vm, TRUE)
  <2>1. \E e \in BOOLEAN : t = njs_promise_new_capability(vm, e)
    BY Zenon
  <2>2. Script("new", t)
    BY <1>3 DEF njs_promise_constructor
  <2> HIDE DEF t
  <2>3. Good(t, Running) /\ Grows(vm, t)
    BY <1>1, <2>1, CapabilityGood
  <2> QED BY <2>2, <2>3, ScriptAdvances DEF OpNames
<1>4. CASE njs_promise_object_resolve
  <2>1. PICK v \in Args(vm) : Script("static", njs_promise_resolve(vm, v).vm)
    BY <1>4 DEF njs_promise_object_resolve
  <2> DEFINE r == njs_promise_resolve(vm, v)
  <2>2. Script("static", r.vm) /\ v \in ValuesOf(n)
    BY <1>1, <2>1
  <2>3. r = njs_promise_resolve(vm, v)
    OBVIOUS
  <2> HIDE DEF r
  <2>4. Good(r.vm, Running) /\ Grows(vm, r.vm)
    BY <1>1, <2>2, <2>3, PromiseResolveGood
  <2> QED BY <2>2, <2>4, ScriptAdvances DEF OpNames
<1>5. CASE njs_promise_object_reject
  <2> DEFINE t == njs_promise_new_capability(vm, FALSE)
  <2>1. PICK v \in program.values :
           Script("static", njs_promise_reject_function(t, Len(t.cells), v))
    BY <1>5 DEF njs_promise_object_reject
  <2>2. \E e \in BOOLEAN : t = njs_promise_new_capability(vm, e)
    BY Zenon
  <2> DEFINE u == njs_promise_reject_function(t, Len(t.cells), v)
  <2>3. Script("static", u) /\ u = njs_promise_reject_function(t, Len(t.cells), v)
    BY <2>1
  <2> HIDE DEF t, u
  <2>4. Good(t, Running) /\ Grows(vm, t) /\ Len(t.cells) = Len(vm.cells) + 1
    BY <1>1, <2>2, CapabilityGood
  <2>5. /\ v \in ValuesOf(SizesOf(t)) /\ Typed(t)
        /\ Len(vm.cells) \in Nat
    BY <1>1, <2>4, Later, SizesTyped DEF Good, Sound, Typed
  <2>6. Len(t.cells) \in 1..Len(t.cells)
    BY <2>4, <2>5
  <2>7. Kept(t, u, Running)
    BY <2>3, <2>4, <2>5, <2>6, RejectFunctionGood
  <2>8. Good(u, Running) /\ Grows(vm, u)
    BY <1>1, <2>4, <2>5, <2>7, GrowsTransitive DEF Kept, Good, Sound
  <2> QED BY <2>3, <2>8, ScriptAdvances DEF OpNames
<1>6. CASE CallResolvingFunction
  <2>1. PICK c \in DOMAIN vm.cells, v \in Args(vm) :
           \/ Script("settle", njs_promise_resolve_function(vm, c, v))
           \/ Script("settle", njs_promise_reject_function(vm, c, v))
    BY <1>6 DEF CallResolvingFunction
  <2>2. c \in 1..Len(vm.cells) /\ v \in ValuesOf(n)
    BY <1>1, <1>2, <2>1
  <2>3. ASSUME NEW t, t = njs_promise_resolve_function(vm, c, v) \/ t = njs_promise_reject_function(vm, c, v)
        PROVE  Good(t, Running) /\ Grows(vm, t)
    BY <1>1, <2>2, <2>3, ResolveGood, RejectFunctionGood DEF Kept
  <2>4. \E t : /\ Script("settle", t)
               /\ \/ t = njs_promise_resolve_function(vm, c, v)
                  \/ t = njs_promise_reject_function(vm, c, v)
    BY <2>1, Zenon
  <2> QED BY <2>3, <2>4, ScriptAdvances DEF OpNames
<1>7. CASE then
  <2>1. PICK p \in DOMAIN vm.promises, f \in program.handlers, r \in program.handlers :
           Script("then", njs_promise_prototype_then(vm, p, Handler(f, 0), Handler(r, 0)))
    BY <1>7 DEF then
  <2>2. f \in {"fn", "none"} /\ r \in {"fn", "none"} /\ p \in 1..Len(vm.promises)
    BY <1>1, <2>1 DEF Inv, ProgramType
  <2>3. /\ Handler(f, 0) \in HandlersOf(n) /\ Handler(r, 0) \in HandlersOf(n)
        /\ Handler(f, 0).kind # "await" /\ Handler(r, 0).kind # "await"
    BY <2>2, HandlerTyped DEF HandlerKinds
  <2> DEFINE t == njs_promise_prototype_then(vm, p, Handler(f, 0), Handler(r, 0))
  <2>4. Script("then", t) /\ t = njs_promise_prototype_then(vm, p, Handler(f, 0), Handler(r, 0))
    BY <2>1
  <2> HIDE DEF t
  <2>5. Good(t, Running) /\ Grows(vm, t)
    BY <1>1, <2>2, <2>3, <2>4, PrototypeThenGood
  <2> QED BY <2>4, <2>5, ScriptAdvances DEF OpNames
<1>8. CASE njs_promise_prototype_finally
  <2> DEFINE f == Handler("thenFinally", 0)
             r == Handler("catchFinally", 0)
             S(p) == njs_promise_prototype_then(vm, p, f, r)
  <2>1. PICK p \in DOMAIN vm.promises :
           Script("finally", [S(p) EXCEPT !.finallys = Append(@, [from |-> p,
                                              cell |-> Len(S(p).cells), via |-> 0, inner |-> 0])])
    BY <1>8 DEF njs_promise_prototype_finally
  <2>2. /\ f \in HandlersOf(n) /\ r \in HandlersOf(n)
        /\ f.kind # "await" /\ r.kind # "await"
    BY HandlerTyped DEF HandlerKinds
  <2> DEFINE u == S(p)
             t == [u EXCEPT !.finallys = Append(u.finallys, [from |-> p,
                                              cell |-> Len(u.cells), via |-> 0, inner |-> 0])]
  <2>3. Script("finally", t)
    BY <2>1
  <2>4. u = njs_promise_prototype_then(vm, p, f, r)
    OBVIOUS
  <2> HIDE DEF f, r, S, u
  <2>5. Good(t, Running) /\ Grows(vm, t)
    BY <1>1, <2>2, <2>4, FinallyGood
  <2> HIDE DEF t
  <2> QED BY <2>3, <2>5, ScriptAdvances DEF OpNames
<1>9. CASE CallAsyncFunction
  <2>1. PICK v \in Args(vm) : Script("async", njs_async_function_frame_invoke(vm, v))
    BY <1>9 DEF CallAsyncFunction
  <2> DEFINE t == njs_async_function_frame_invoke(vm, v)
  <2>2. Script("async", t) /\ t = njs_async_function_frame_invoke(vm, v) /\ v \in ValuesOf(n)
    BY <1>1, <2>1
  <2> HIDE DEF t
  <2>3. Good(t, Running) /\ Grows(vm, t)
    BY <1>1, <2>2, InvokeGood
  <2> QED BY <2>2, <2>3, ScriptAdvances DEF OpNames
<1>10. CASE Aggregate
  <2>1. PICK kind \in {"all", "allSettled", "any", "race"}, l \in program.lists :
           \E list \in [1..l -> Args(vm)] : Script("aggregate", njs_promise_all(vm, kind, list))
    BY <1>10 DEF Aggregate
  <2>2. PICK list \in [1..l -> Args(vm)] : Script("aggregate", njs_promise_all(vm, kind, list))
    BY <2>1
  <2>3. l \in Nat
    BY DEF Inv, ProgramType
  <2>4. list \in Seq(ValuesOf(n))
    BY <2>3, ListsTyped
  <2> DEFINE t == njs_promise_all(vm, kind, list)
  <2>5. Script("aggregate", t) /\ t = njs_promise_all(vm, kind, list)
    BY <2>2
  <2> HIDE DEF t
  <2>6. Good(t, Running) /\ Grows(vm, t)
    BY <1>1, <2>4, <2>5, AllGood
  <2> QED BY <2>5, <2>6, ScriptAdvances DEF OpNames
<1> QED BY <1>3, <1>4, <1>5, <1>6, <1>7, <1>8, <1>9, <1>10 DEF Scripts

-----------------------------------------------------------------------------
(* What runs comes to its end, or awaits.                                    *)

LEMMA FrameFacts ==
    ASSUME Inv
    PROVE  /\ frame.kind \in {"handler", "then", "thenFinally", "catchFinally"}
                 => frame.id \in 0..Len(vm.cells)
           /\ frame.kind = "async" => frame.id \in 1..Len(vm.contexts)
           /\ frame.value \in ValuesOf(SizesOf(vm))
<1>1. SizesOf(vm).cells = Len(vm.cells) /\ SizesOf(vm).contexts = Len(vm.contexts)
  BY DEF SizesOf
<1>2. frame \in FramesOf(SizesOf(vm))
  BY DEF Inv
<1> QED BY <1>1, <1>2 DEF FramesOf

LEMMA AwaitAdvances ==
    ASSUME Inv, Await
    PROVE  ScriptStep
<1>1. frame # Idle /\ Running = {frame.id}
  BY DEF Await, Idle, Running
<1>2. PICK v \in Args(vm) : vm' = njs_vmcode_await(vm, frame.id, v)
  BY DEF Await
<1>3. v \in ValuesOf(SizesOf(vm)) /\ Good(vm, Running)
  BY ArgsTyped DEF Inv
<1>4. Good(vm', {}) /\ Grows(vm, vm')
  <2>1. frame.id \in Running /\ Running \ {frame.id} = {}
    BY <1>1
  <2>2. Good(vm', Running \ {frame.id}) /\ Grows(vm, vm')
    BY <2>1, <1>2, <1>3, AwaitGood
  <2> QED BY <2>1, <2>2
<1>5. program' \in ProgramType
  BY UseTyped DEF Await, Inv, OpNames
<1> QED BY <1>1, <1>4, <1>5, BecomesIdle DEF ScriptStep, Await

LEMMA ReturnAdvances ==
    ASSUME Inv, Return
    PROVE  Advances
<1>1. PICK v \in Args(vm) :
         \/ frame.kind = "handler" /\ vm' = Settle(vm, frame.id, FALSE, v)
         \/ frame.kind = "async" /\ vm' = AsyncEnds(vm, frame.id, FALSE, v)
         \/ /\ frame.kind \in {"thenFinally", "catchFinally"}
            /\ vm' = njs_promise_then_finally_function(vm, v)
         \/ frame.kind \in {"script", "then"} /\ vm' = vm
  BY Zenon DEF Return
<1>2. v \in ValuesOf(SizesOf(vm)) /\ Good(vm, Running)
  BY ArgsTyped DEF Inv
<1>3. /\ frame.kind # "async" => Running = {}
      /\ frame.kind = "async" => frame.id \in Running /\ Running \ {frame.id} = {}
  BY DEF Running
<1>4. Good(vm', {}) /\ Grows(vm, vm')
  <2>1. CASE frame.kind = "handler" /\ vm' = Settle(vm, frame.id, FALSE, v)
    <3>1. \E b : vm' = Settle(vm, frame.id, b, v)
      BY <2>1, Zenon
    <3> QED BY <1>2, <1>3, <2>1, <3>1, FrameFacts, SettleGood DEF Kept
  <2>2. CASE frame.kind = "async" /\ vm' = AsyncEnds(vm, frame.id, FALSE, v)
    <3>1. \E b : vm' = AsyncEnds(vm, frame.id, b, v)
      BY <2>2, Zenon
    <3>2. Good(vm', Running \ {frame.id}) /\ Grows(vm, vm')
      BY <1>2, <1>3, <2>2, <3>1, EndsGood
    <3> QED BY <3>2, <1>3, <2>2
  <2>3. CASE /\ frame.kind \in {"thenFinally", "catchFinally"}
             /\ vm' = njs_promise_then_finally_function(vm, v)
    BY <1>2, <1>3, <2>3, FrameFacts, ThenFinallyGood
  <2>4. CASE frame.kind \in {"script", "then"} /\ vm' = vm
    BY <1>2, <1>3, <2>4, GrowsReflexive DEF Good, Sound
  <2> QED BY <1>1, <2>1, <2>2, <2>3, <2>4
<1> QED BY <1>4, BecomesIdle DEF Return

LEMMA ThrowAdvances ==
    ASSUME Inv, Throw
    PROVE  Advances
<1>1. PICK v \in program.values :
         \/ /\ frame.kind \in {"handler", "then", "thenFinally", "catchFinally"}
            /\ vm' = Settle(vm, frame.id, TRUE, v)
         \/ frame.kind = "async" /\ vm' = AsyncEnds(vm, frame.id, TRUE, v)
         \/ frame.kind = "script" /\ vm' = vm
  BY Zenon DEF Throw
<1>2. v \in ValuesOf(SizesOf(vm)) /\ Good(vm, Running)
  BY ArgsTyped DEF Inv
<1>3. /\ frame.kind # "async" => Running = {}
      /\ frame.kind = "async" => frame.id \in Running /\ Running \ {frame.id} = {}
  BY DEF Running
<1>4. Good(vm', {}) /\ Grows(vm, vm')
  <2>1. CASE /\ frame.kind \in {"handler", "then", "thenFinally", "catchFinally"}
             /\ vm' = Settle(vm, frame.id, TRUE, v)
    <3>1. \E b : vm' = Settle(vm, frame.id, b, v)
      BY <2>1, Zenon
    <3> QED BY <1>2, <1>3, <2>1, <3>1, FrameFacts, SettleGood DEF Kept
  <2>2. CASE frame.kind = "async" /\ vm' = AsyncEnds(vm, frame.id, TRUE, v)
    <3>1. \E b : vm' = AsyncEnds(vm, frame.id, b, v)
      BY <2>2, Zenon
    <3>2. Good(vm', Running \ {frame.id}) /\ Grows(vm, vm')
      BY <1>2, <1>3, <2>2, <3>1, EndsGood
    <3> QED BY <3>2, <1>3, <2>2
  <2>3. CASE frame.kind = "script" /\ vm' = vm
    BY <1>2, <1>3, <2>3, GrowsReflexive DEF Good, Sound
  <2> QED BY <1>1, <2>1, <2>2, <2>3
<1> QED BY <1>4, BecomesIdle DEF Throw

-----------------------------------------------------------------------------
(* Jobs run.                                                                 *)

LEMMA ThenableAdvances ==
    ASSUME Inv, frame = Idle, vm.jobs # <<>>, njs_promise_resolve_thenable_job
    PROVE  Advances
<1> DEFINE j == Head(vm.jobs)
           native == j.value.kind = "promise"
           s == njs_promise_create_resolving_functions(Dequeued, j.promise, ~native)
           c == Len(s.cells)
<1>1. /\ j.kind = "thenable"
      /\ vm' = IF native THEN Adopt(s, j.value.id, c) ELSE s
      /\ frame' = IF native THEN Idle ELSE Frame("then", c)
  BY Zenon DEF njs_promise_resolve_thenable_job
<1>2. Good(vm, {}) /\ Typed(vm)
  BY DEF Inv, Good, Sound, Running, Idle
<1>3. /\ Good(s, {}) /\ Grows(vm, s) /\ Len(s.cells) = Len(vm.cells) + 1
      /\ Len(s.promises) = Len(vm.promises)
  <2>1. \E e \in BOOLEAN : s = njs_promise_create_resolving_functions(Dequeued, j.promise, e)
    BY Zenon
  <2>2. Dequeued = Unqueued(vm)
    BY DEF Dequeued, Unqueued
  <2>3. j = Head(vm.jobs)
    OBVIOUS
  <2> HIDE DEF s, j
  <2>4. PICK e \in BOOLEAN : s = njs_promise_create_resolving_functions(Dequeued, j.promise, e)
    BY <2>1
  <2>5. j.kind = "thenable" /\ Good(vm, {})
    BY <1>1, <1>2
  <2> QED BY ONLY <2>2, <2>3, <2>4, <2>5, vm.jobs # <<>>, ThenableGood
<1>4. j \in JobsOf(SizesOf(vm))
  BY <1>2, TailJobs
<1>5. /\ Len(s.cells) \in Nat /\ Len(vm.cells) \in Nat /\ Typed(s)
      /\ Len(s.cells) = SizesOf(s).cells
  BY <1>2, <1>3, SizesTyped DEF Good, Sound, Typed, SizesOf
<1>6. c \in 1..Len(s.cells)
  <2> HIDE DEF s
  <2> QED BY <1>3, <1>5
<1>7. CASE native
  <2>1. j.value \in ValuesOf(SizesOf(vm))
    BY <1>4 DEF JobsOf
  <2>2. j.value.id \in 1..SizesOf(vm).promises
    BY <1>7, <2>1, PromiseValue
  <2>3. j.value.id \in 1..Len(s.promises)
    BY <1>3, <2>2 DEF SizesOf
  <2>4. vm' = Adopt(s, j.value.id, c) /\ frame' = Idle
    BY <1>1, <1>7
  <2> HIDE DEF s, c, j
  <2>5. Good(vm', {}) /\ Grows(s, vm')
    BY <1>3, <1>6, <2>3, <2>4, AdoptGood
  <2>6. Grows(vm, vm')
    BY <1>2, <1>3, <2>5, GrowsTransitive DEF Good, Sound
  <2> QED BY <2>4, <2>5, <2>6, BecomesIdle
<1>8. CASE ~native
  <2>1. vm' = s /\ frame' = Frame("then", c)
    BY <1>1, <1>8
  <2>2. Undefined \in ValuesOf(SizesOf(s))
    BY DEF Undefined, Value, ValuesOf, Values_, Kinds
  <2>3. Frame("then", c) = [kind |-> "then", id |-> c, value |-> Undefined]
    BY FrameIs
  <2> HIDE DEF s, c
  <2>4. c \in Nat /\ c \in 0..SizesOf(s).cells
    BY <1>5, <1>6
  <2>5. Frame("then", c) \in FramesOf(SizesOf(s))
    BY <2>2, <2>3, <2>4 DEF FramesOf
  <2>6. Running' = {}
    BY <2>1, <2>3 DEF Running
  <2> QED BY <1>3, <2>1, <2>5, <2>6 DEF Advances
<1> QED BY <1>7, <1>8

\* What a handler of the engine does.
LEMMA NativeGood ==
    ASSUME NEW s, NEW X, Good(s, X), NEW j \in JobsOf(SizesOf(s)), NEW t,
           \/ j.handler.kind = "none" /\ t = Settle(s, j.cell, j.rejected, j.value)
           \/ /\ j.handler.kind = "resolve"
              /\ t = njs_promise_resolve_function(s, j.handler.id, j.value)
           \/ /\ j.handler.kind = "reject"
              /\ t = njs_promise_reject_function(s, j.handler.id, j.value)
           \/ /\ j.handler.kind = "element"
              /\ t = ElementFunction(s, j.handler.id, j.handler.index, j.rejected, j.value)
           \/ j.handler.kind = "return" /\ t = Settle(s, j.cell, FALSE, j.handler.value)
           \/ j.handler.kind = "throw" /\ t = Settle(s, j.cell, TRUE, j.handler.value)
    PROVE  Good(t, X) /\ Grows(s, t)
<1> DEFINE h == j.handler
<1>1. /\ h \in HandlersOf(SizesOf(s)) /\ j.value \in ValuesOf(SizesOf(s))
      /\ j.cell \in 0..Len(s.cells) /\ j.rejected \in BOOLEAN
  BY DEF JobsOf, SizesOf
<1>2. SizesOf(s).cells = Len(s.cells) /\ SizesOf(s).aggregates = Len(s.aggregates)
  BY DEF SizesOf
<1> HIDE DEF h
<1>3. /\ h.value \in ValuesOf(SizesOf(s)) /\ h.index \in Nat
      /\ h.kind \in {"resolve", "reject"} => h.id \in 1..Len(s.cells)
      /\ h.kind = "element" => h.id \in 1..Len(s.aggregates)
  BY <1>1, <1>2 DEF HandlersOf
<1>4. ASSUME NEW v \in ValuesOf(SizesOf(s)), NEW b, t = Settle(s, j.cell, b, v)
      PROVE  Good(t, X) /\ Grows(s, t)
  BY <1>1, <1>4, SettleGood DEF Kept
<1>5. CASE h.kind = "none" /\ t = Settle(s, j.cell, j.rejected, j.value)
  BY <1>1, <1>4, <1>5
<1>6. CASE h.kind = "resolve" /\ t = njs_promise_resolve_function(s, h.id, j.value)
  BY <1>1, <1>3, <1>6, ResolveGood DEF Kept
<1>7. CASE h.kind = "reject" /\ t = njs_promise_reject_function(s, h.id, j.value)
  BY <1>1, <1>3, <1>7, RejectFunctionGood DEF Kept
<1>8. CASE h.kind = "element" /\ t = ElementFunction(s, h.id, h.index, j.rejected, j.value)
  BY <1>1, <1>3, <1>8, ElementGood
<1>9. CASE \E b : t = Settle(s, j.cell, b, h.value)
  BY <1>3, <1>4, <1>9
<1>10. \/ t = Settle(s, j.cell, FALSE, h.value) \/ t = Settle(s, j.cell, TRUE, h.value)
          => \E b : t = Settle(s, j.cell, b, h.value)
  BY Zenon
<1> QED BY <1>5, <1>6, <1>7, <1>8, <1>9, <1>10, Zenon DEF h

LEMMA ReactionAdvances ==
    ASSUME Inv, frame = Idle, vm.jobs # <<>>, njs_promise_reaction_job
    PROVE  Advances
<1> DEFINE j == Head(vm.jobs)
           n == SizesOf(vm)
           s == [vm EXCEPT !.jobs = Tail(vm.jobs), !.ran = Append(vm.ran, j.reaction)]
<1>1. j.kind = "reaction" /\ (CallHandler(j) \/ CallNative(j))
  BY Zenon DEF njs_promise_reaction_job
<1>2. Good(vm, {}) /\ Typed(vm) /\ vm \in VmOf(n)
  BY DEF Inv, Good, Sound, Typed, Running, Idle
<1>3. [Dequeued EXCEPT !.ran = Append(@, j.reaction)] = s
  <2> HIDE DEF n, j
  <2>1. vm = [promises |-> vm.promises, cells |-> vm.cells, jobs |-> vm.jobs,
              aggregates |-> vm.aggregates, contexts |-> vm.contexts,
              tracking |-> vm.tracking, rejected |-> vm.rejected,
              reactions |-> vm.reactions, ran |-> vm.ran, finallys |-> vm.finallys]
    BY <1>2, Fields
  <2> QED BY <2>1 DEF Dequeued
<1>4. j \in JobsOf(n) /\ j = Head(vm.jobs)
  BY <1>2, TailJobs
<1>5. s = Ran(vm, j.reaction)
  BY DEF Ran
<1> HIDE DEF j, s
<1>6. /\ SizesOf(s) = n /\ Grows(vm, s)
      /\ j.handler.kind # "await" => Good(s, {})
      /\ j.handler.kind = "await" => Good(s, {} \cup {j.handler.id})
  <2>1. Good(vm, {}) /\ j.kind = "reaction" /\ j = Head(vm.jobs)
    BY <1>1, <1>2, <1>4
  <2> QED BY ONLY <2>1, <1>5, vm.jobs # <<>>, RunGood
<1>7. Typed(s)
  BY <1>6 DEF Good, Sound
<1>8. CASE CallNative(j)
  <2>1. /\ \/ j.handler.kind = "none" /\ vm' = Settle(s, j.cell, j.rejected, j.value)
           \/ /\ j.handler.kind = "resolve"
              /\ vm' = njs_promise_resolve_function(s, j.handler.id, j.value)
           \/ /\ j.handler.kind = "reject"
              /\ vm' = njs_promise_reject_function(s, j.handler.id, j.value)
           \/ /\ j.handler.kind = "element"
              /\ vm' = ElementFunction(s, j.handler.id, j.handler.index, j.rejected, j.value)
           \/ j.handler.kind = "return" /\ vm' = Settle(s, j.cell, FALSE, j.handler.value)
           \/ j.handler.kind = "throw" /\ vm' = Settle(s, j.cell, TRUE, j.handler.value)
        /\ frame' = Idle
    BY <1>3, <1>8, Zenon DEF CallNative
  <2>2. j \in JobsOf(SizesOf(s))
    BY <1>4, <1>6
  <2>3. Good(vm', {}) /\ Grows(s, vm')
    BY <1>6, <2>1, <2>2, NativeGood
  <2>4. Grows(vm, vm')
    BY <1>2, <1>6, <1>7, <2>3, GrowsTransitive DEF Good, Sound
  <2> QED BY <2>1, <2>3, <2>4, BecomesIdle
<1>9. CASE CallHandler(j)
  <2>1. /\ vm' = s
        /\ \/ j.handler.kind = "fn" /\ frame' = Frame("handler", j.cell)
           \/ j.handler.kind = "await" /\ frame' = Frame("async", j.handler.id)
           \/ /\ j.handler.kind \in {"thenFinally", "catchFinally"}
              /\ frame' = [Frame(j.handler.kind, j.cell) EXCEPT !.value = j.value]
    BY <1>3, <1>9, Zenon DEF CallHandler
  <2> HIDE DEF n
  <2>2. Undefined \in ValuesOf(n)
    BY DEF Undefined, Value, ValuesOf, Values_, Kinds
  <2>3. /\ j.cell \in 0..n.cells /\ j.value \in ValuesOf(n) /\ j.handler \in HandlersOf(n)
    BY <1>4 DEF JobsOf
  <2>4. j.handler.kind = "await" => j.handler.id \in 1..n.contexts
    BY <2>3 DEF HandlersOf
  <2>5. \A k, i : Frame(k, i) = [kind |-> k, id |-> i, value |-> Undefined]
    BY FrameIs
  <2>6. frame' \in FramesOf(n)
    <3>1. CASE j.handler.kind = "fn" /\ frame' = Frame("handler", j.cell)
      BY <2>2, <2>3, <2>5, <3>1 DEF FramesOf
    <3>2. CASE j.handler.kind = "await" /\ frame' = Frame("async", j.handler.id)
      BY <2>2, <2>4, <2>5, <3>2 DEF FramesOf
    <3>3. CASE /\ j.handler.kind \in {"thenFinally", "catchFinally"}
               /\ frame' = [Frame(j.handler.kind, j.cell) EXCEPT !.value = j.value]
      <4>1. frame' = [kind |-> j.handler.kind, id |-> j.cell, value |-> j.value]
        BY <2>5, <3>3
      <4> QED BY <2>3, <3>3, <4>1 DEF FramesOf
    <3> QED BY <2>1, <3>1, <3>2, <3>3
  <2>7. Good(s, Running')
    <3>1. CASE j.handler.kind = "await"
      <4>1. Running' = {} \cup {j.handler.id}
        BY <2>1, <2>5, <3>1 DEF Running
      <4> QED BY <3>1, <4>1, <1>6
    <3>2. CASE j.handler.kind # "await"
      <4>1. Running' = {}
        BY <2>1, <2>5, <3>2 DEF Running
      <4> QED BY <3>2, <4>1, <1>6
    <3> QED BY <3>1, <3>2
  <2> QED BY <1>6, <2>1, <2>6, <2>7 DEF Advances
<1> QED BY <1>1, <1>8, <1>9

-----------------------------------------------------------------------------
(* Every step.                                                               *)

\* What the end of the VM has to do with it: only the report destroys it, and
\* nothing happens afterwards.
LEMMA NextAdvances ==
    ASSUME Inv, Next
    PROVE  /\ Advances
           /\ drain' \in BOOLEAN /\ program' \in ProgramType /\ phase # "destroyed"
           /\ phase' \in {"running", "exiting", "destroyed"}
           /\ \/ reported' = reported /\ phase' # "destroyed"
              \/ /\ reported' = (vm.rejected # {})
                 /\ frame = Idle /\ UNCHANGED <<vm, frame>>
<1>1. /\ Good(vm, Running) /\ Grows(vm, vm) /\ drain \in BOOLEAN /\ program \in ProgramType
      /\ phase \in {"running", "exiting", "destroyed"}
      /\ frame # Idle => phase # "destroyed"
  BY GrowsReflexive DEF Inv, Good, Sound
<1>2. CASE Scripts \/ Await
  BY <1>1, <1>2, ScriptsAdvance, AwaitAdvances DEF ScriptStep
<1>3. CASE Return
  BY <1>1, <1>3, ReturnAdvances DEF Return
<1>4. CASE Throw
  <2>1. DrainedAfterThrow \in BOOLEAN
    BY DEF DrainedAfterThrow
  <2> QED BY <1>1, <1>4, <2>1, ThrowAdvances DEF Throw
<1>5. CASE njs_vm_execute_pending_job
  <2>1. Advances
    BY <1>5, ThenableAdvances, ReactionAdvances DEF njs_vm_execute_pending_job
  <2> QED BY <1>1, <1>5, <2>1 DEF njs_vm_execute_pending_job
<1>6. ASSUME NEW n, n = 0
      PROVE  /\ Frame("script", n) \in FramesOf(SizesOf(vm))
             /\ frame = Idle /\ vm' = vm /\ frame' = Frame("script", n) => Advances
  <2>1. Undefined \in ValuesOf(SizesOf(vm))
    BY DEF Undefined, Value, ValuesOf, Values_, Kinds
  <2>2. Frame("script", n) \in FramesOf(SizesOf(vm))
    BY <1>6, <2>1 DEF Frame, Idle, FramesOf
  <2>3. frame = Idle => Running = {}
    BY DEF Running, Idle
  <2>4. frame' = Frame("script", n) => Running' = {}
    BY FrameIs DEF Running
  <2> QED BY <2>2, <2>3, <2>4, <1>1 DEF Advances
<1>7. CASE ngx_js_call
  <2>1. program' \in ProgramType
    BY <1>1, <1>7, UseTyped DEF ngx_js_call, OpNames
  <2> QED BY <1>1, <1>6, <1>7, <2>1 DEF ngx_js_call, Drained
<1>8. CASE ngx_engine_njs_destroy
  BY <1>1, <1>6, <1>8 DEF ngx_engine_njs_destroy, Drained
<1>9. CASE ngx_js_unhandled_rejection
  <2>1. Advances
    BY <1>1, <1>9, BecomesIdle DEF ngx_js_unhandled_rejection, Drained, Running, Idle
  <2> QED BY <1>1, <1>9, <2>1 DEF ngx_js_unhandled_rejection, Drained
<1> QED BY <1>2, <1>3, <1>4, <1>5, <1>7, <1>8, <1>9 DEF Next, Engine

LEMMA NextInv ==
    ASSUME Inv, [Next]_vars
    PROVE  Inv' /\ Grows(vm, vm')
<1>1. CASE Next
  <2>1. /\ Advances
        /\ drain' \in BOOLEAN /\ program' \in ProgramType /\ phase # "destroyed"
        /\ phase' \in {"running", "exiting", "destroyed"}
        /\ \/ reported' = reported /\ phase' # "destroyed"
           \/ /\ reported' = (vm.rejected # {})
              /\ frame = Idle /\ UNCHANGED <<vm, frame>>
    BY <1>1, NextAdvances
  <2>2. reported' \in BOOLEAN
    BY <2>1 DEF Inv
  <2> QED BY <2>1, <2>2 DEF Advances, Inv
<1>2. CASE UNCHANGED vars
  <2>1. Running' = Running
    BY <1>2 DEF vars, Running
  <2> QED BY <2>1, <1>2, GrowsReflexive DEF vars, Inv, Good, Sound
<1> QED BY <1>1, <1>2

\* Whatever the scripts do, the inductive invariant holds.
THEOREM InvHolds == Spec => []Inv
<1>1. Init => Inv
  BY InitInv, ProgramsAssumption
<1>2. Inv /\ [Next]_vars => Inv'
  BY NextInv
<1> QED BY <1>1, <1>2, PTL DEF Spec

-----------------------------------------------------------------------------
(* The properties.                                                           *)

LEMMA InvTyped ==
    ASSUME Inv
    PROVE  TypeOK
<1> DEFINE n == SizesOf(vm)
<1>1. vm \in VmOf(n) /\ n \in Sizes /\ n.promises = Len(vm.promises)
      /\ n.cells = Len(vm.cells) /\ n.reactions = Len(vm.reactions)
      /\ n.contexts = Len(vm.contexts)
  BY DEF Inv, Good, Sound, Typed, SizesOf
<1> HIDE DEF n
<1>2. /\ vm.promises \in Seq(PromisesOf(n)) /\ vm.cells \in Seq(CellsOf(n))
      /\ vm.jobs \in Seq(JobsOf(n)) /\ vm.contexts \in Seq(ContextsOf(n))
      /\ vm.tracking \in BOOLEAN /\ vm.rejected \subseteq 1..n.promises
      /\ vm.reactions \in Seq(1..n.promises)
  BY <1>1, Fields
<1>3. /\ DOMAIN vm.promises = 1..n.promises /\ DOMAIN vm.reactions = 1..n.reactions
      /\ DOMAIN vm.jobs = 1..Len(vm.jobs)
  BY <1>1, <1>2, LenProperties
<1>4. ValuesOf(n) \subseteq Values_
  BY DEF ValuesOf
<1>5. HandlersOf(n) \subseteq Handler_
  BY <1>4 DEF HandlersOf, Handler_
<1>6. ASSUME NEW p \in DOMAIN vm.promises
      PROVE  LET q == vm.promises[p]
             IN  /\ q.state \in {"pending", "fulfilled", "rejected"}
                 /\ q.result \in Values_
                 /\ q.handled \in BOOLEAN
                 /\ \A i \in DOMAIN q.reactions :
                       LET r == q.reactions[i]
                       IN  /\ {r.fulfilled, r.rejected} \subseteq Handler_
                           /\ r.cell \in Cells_
                           /\ r.id \in DOMAIN vm.reactions
  <2> DEFINE q == vm.promises[p]
  <2>1. q \in PromisesOf(n)
    BY <1>1, <1>2, <1>3, ElementOfSeq
  <2> HIDE DEF q
  <2>2. /\ q.state \in {"pending", "fulfilled", "rejected"} /\ q.result \in ValuesOf(n)
        /\ q.handled \in BOOLEAN /\ q.reactions \in Seq(ReactionsOf(n))
    BY <2>1 DEF PromisesOf
  <2>3. ASSUME NEW i \in DOMAIN q.reactions
        PROVE  q.reactions[i] \in ReactionsOf(n)
    BY <2>2, LenProperties, ElementOfSeq
  <2>4. ASSUME NEW i \in DOMAIN q.reactions
        PROVE  LET r == q.reactions[i]
               IN  /\ {r.fulfilled, r.rejected} \subseteq Handler_
                   /\ r.cell \in Cells_
                   /\ r.id \in DOMAIN vm.reactions
    <3> DEFINE r == q.reactions[i]
    <3>1. r \in ReactionsOf(n)
      BY <2>3
    <3> HIDE DEF r
    <3>2. /\ {r.fulfilled, r.rejected} \subseteq Handler_
          /\ r.cell \in Cells_
          /\ r.id \in DOMAIN vm.reactions
      BY <3>1, <1>1, <1>3, <1>5 DEF ReactionsOf, Cells_
    <3> QED BY <3>2 DEF r
  <2> QED BY <2>2, <2>4, <1>4 DEF q
<1>7. vm.cells \in Seq([promise : DOMAIN vm.promises, resolved : BOOLEAN,
                        exposed : BOOLEAN])
  BY <1>2, <1>3 DEF CellsOf
<1>8. ASSUME NEW i \in DOMAIN vm.jobs
      PROVE  LET j == vm.jobs[i]
             IN  /\ j.handler \in Handler_
                 /\ j.cell \in Cells_
                 /\ j.value \in Values_
                 /\ \/ j.kind = "reaction" /\ j.reaction \in DOMAIN vm.reactions
                    \/ j.kind = "thenable" /\ j.promise \in DOMAIN vm.promises
  <2> DEFINE j == vm.jobs[i]
  <2>1. j \in JobsOf(n)
    BY <1>2, <1>3, ElementOfSeq
  <2>2. n.promises \in Nat /\ n.reactions \in Nat
    BY <1>1 DEF Sizes
  <2> HIDE DEF j
  <2>3. /\ j.handler \in Handler_ /\ j.cell \in Cells_ /\ j.value \in Values_
    BY <2>1, <1>1, <1>4, <1>5 DEF JobsOf, Cells_
  <2>4. \/ j.kind = "reaction" /\ j.reaction \in DOMAIN vm.reactions
        \/ j.kind = "thenable" /\ j.promise \in DOMAIN vm.promises
    BY <2>1, <2>2, <1>3 DEF JobsOf
  <2> QED BY <2>3, <2>4 DEF j
<1>9. vm.contexts \in Seq([cell : Cells_, live : BOOLEAN])
  <2>1. ContextsOf(n) \subseteq [cell : Cells_, live : BOOLEAN]
    BY <1>1 DEF ContextsOf, Cells_, Sizes
  <2> QED BY <1>2, <2>1, SeqMonotonic
<1>10. /\ vm.rejected \subseteq DOMAIN vm.promises /\ vm.tracking \in BOOLEAN
       /\ phase \in {"running", "exiting", "destroyed"}
       /\ {drain, reported} \subseteq BOOLEAN
  BY <1>2, <1>3 DEF Inv
<1> QED BY <1>6, <1>7, <1>8, <1>9, <1>10 DEF TypeOK

\* What the engine and the host keep has its type, and refers to what exists:
\* promises to their reactions, jobs and contexts to their functions.
THEOREM AlwaysTyped == Spec => []TypeOK
BY InvTyped, InvHolds, PTL

\* A set of which any two members are equal has one member or none.
LEMMA OneOrNone ==
    ASSUME NEW S, \A x, y \in S : x = y
    PROVE  /\ S = {} => Cardinality(S) = 0
           /\ S # {} => Cardinality(S) = 1
<1>1. CASE S = {}
  BY <1>1, FS_EmptySet
<1>2. CASE S # {}
  <2>1. PICK x : x \in S
    BY <1>2
  <2>2. S = {x}
    BY <2>1
  <2>3. Cardinality({x}) = 1
    BY FS_Singleton
  <2> QED BY <1>2, <2>2, <2>3
<1> QED BY <1>1, <1>2

\* Whatever the resolving functions and thenables of a promise, there is one
\* way left to settle it while it is pending, and none afterwards.
THEOREM OneWayAlways == Spec => []OneWayToSettle
<1>1. Inv => OneWayToSettle
  <2> SUFFICES ASSUME Inv, NEW p \in DOMAIN vm.promises
               PROVE  LET unused == {c \in DOMAIN vm.cells :
                                        PromiseOf(vm, c) = p /\ ~vm.cells[c].resolved}
                          asked == {i \in DOMAIN vm.jobs : vm.jobs[i].kind = "thenable"
                                                           /\ vm.jobs[i].promise = p}
                      IN  Count(unused) + Count(asked) = IF Settled(vm, p) THEN 0 ELSE 1
    BY DEF OneWayToSettle
  <2> DEFINE unused == {c \in DOMAIN vm.cells :
                           PromiseOf(vm, c) = p /\ ~vm.cells[c].resolved}
             asked == {i \in DOMAIN vm.jobs :
                          vm.jobs[i].kind = "thenable" /\ vm.jobs[i].promise = p}
             n == SizesOf(vm)
  <2>1. vm \in VmOf(n) /\ OneWay(vm)
    BY DEF Inv, Good, Sound, Typed
  <2>2. /\ DOMAIN vm.promises = 1..Len(vm.promises) /\ DOMAIN vm.cells = 1..Len(vm.cells)
        /\ DOMAIN vm.jobs = 1..Len(vm.jobs)
    <3> HIDE DEF n
    <3> QED BY <2>1, Fields, LenProperties
  <2>3. /\ \A c : c \in unused <=> /\ c \in 1..Len(vm.cells) /\ Open(vm, c)
                                   /\ vm.cells[c].promise = p
        /\ \A i : i \in asked <=> /\ i \in 1..Len(vm.jobs) /\ Asks(vm, i)
                                  /\ vm.jobs[i].promise = p
    BY <2>2 DEF PromiseOf, Open, Asks
  <2> HIDE DEF unused, asked, n
  <2>4. \A c, d \in unused : c = d
    BY <2>1, <2>3 DEF OneWay
  <2>5. \A i, j \in asked : i = j
    BY <2>1, <2>3 DEF OneWay
  <2>6. unused = {} \/ asked = {}
    BY <2>1, <2>3 DEF OneWay
  <2>7. Settled(vm, p) => unused = {} /\ asked = {}
    BY <2>1, <2>3 DEF OneWay
  <2>8. ~Settled(vm, p) => unused # {} \/ asked # {}
    <3>1. p \in 1..Len(vm.promises)
      BY <2>2
    <3>2. ASSUME ~Settled(vm, p)
          PROVE  \/ \E c \in 1..Len(vm.cells) : Open(vm, c) /\ vm.cells[c].promise = p
                 \/ \E i \in 1..Len(vm.jobs) : Asks(vm, i) /\ vm.jobs[i].promise = p
      BY <3>1, <3>2, <2>1 DEF OneWay
    <3> QED BY <3>2, <2>3
  <2>9. /\ Count(unused) = IF unused = {} THEN 0 ELSE 1
        /\ Count(asked) = IF asked = {} THEN 0 ELSE 1
    BY <2>4, <2>5, OneOrNone DEF Count
  <2>10. Count(unused) + Count(asked) = IF Settled(vm, p) THEN 0 ELSE 1
    BY <2>6, <2>7, <2>8, <2>9
  <2> QED BY <2>10 DEF unused, asked
<1> QED BY <1>1, InvHolds, PTL

\* Reactions of a promise have run in the order of their registration.
LEMMA InvOrder ==
    ASSUME Inv
    PROVE  ReactionsInOrder
<1>1. Typed(vm) /\ Placed(vm)
  BY DEF Inv, Good, Sound
<1>2. vm.ran \in Seq(1..Len(vm.reactions)) /\ Len(vm.reactions) \in Nat
  BY <1>1, Fields, SizesTyped DEF Typed, SizesOf
<1>3. DOMAIN vm.ran = 1..Len(vm.ran) /\ Len(vm.ran) \in Nat
  BY <1>2, LenProperties
<1> SUFFICES ASSUME NEW i \in DOMAIN vm.ran, NEW j \in DOMAIN vm.ran, i < j,
                    vm.reactions[vm.ran[i]] = vm.reactions[vm.ran[j]]
             PROVE  vm.ran[i] < vm.ran[j]
  BY DEF ReactionsInOrder
<1>4. i \in Nat /\ j \in Nat /\ i \in 1..Len(vm.ran) /\ j \in 1..Len(vm.ran)
  BY <1>3
<1>5. vm.ran[i] \in Nat /\ vm.ran[j] \in Nat
  BY <1>2, <1>4, ElementOfSeq
<1>6. Turn(vm, i, vm.ran[i]) /\ Turn(vm, j, vm.ran[j])
  BY <1>4 DEF Turn
<1> QED BY <1>1, <1>4, <1>5, <1>6 DEF Placed

\* Where there is no job left, the reactions of settled promises have run.
LEMMA InvForgets ==
    ASSUME Inv
    PROVE  NoReactionForgotten
<1>1. Typed(vm) /\ Placed(vm)
  BY DEF Inv, Good, Sound
<1> SUFFICES ASSUME vm.jobs = <<>>, NEW r \in DOMAIN vm.reactions,
                    Settled(vm, vm.reactions[r])
             PROVE  \E i \in DOMAIN vm.ran : vm.ran[i] = r
  BY DEF NoReactionForgotten, Quiet
<1>2. /\ DOMAIN vm.reactions = 1..Len(vm.reactions) /\ DOMAIN vm.ran = 1..Len(vm.ran)
      /\ Len(vm.reactions) \in Nat
  BY <1>1, Fields, SizesTyped, LenProperties DEF Typed
<1>3. r \in 1..Len(vm.reactions) /\ r \in Nat
  BY <1>2
<1>4. \A p, i \in Nat : ~Waits(vm, p, i, r)
  BY <1>1, <1>3 DEF Placed
<1>5. PICK a \in Nat : Turn(vm, a, r)
  BY <1>1, <1>3, <1>4 DEF Placed
<1>6. \A i : i \notin 1..Len(vm.jobs)
  <2>1. Len(vm.jobs) = 0
    BY EmptySeq
  <2> QED BY <2>1
<1> QED BY <1>2, <1>5, <1>6 DEF Turn

\* One reaction at most resumes a context, at one place.
LEMMA InvAwaits ==
    ASSUME Inv
    PROVE  AwaitsOnce
<1> SUFFICES ASSUME NEW x \in DOMAIN vm.contexts
             PROVE  LET resumes(r) == r.fulfilled = Handler("await", x)
                        waits == UNION {{p} \X {i \in DOMAIN vm.promises[p].reactions :
                                                  resumes(vm.promises[p].reactions[i])} :
                                          p \in DOMAIN vm.promises}
                        queued == {i \in DOMAIN vm.jobs :
                                     vm.jobs[i].handler = Handler("await", x)}
                        runs == IF frame = Frame("async", x) THEN 1 ELSE 0
                    IN  Count(waits) + Count(queued) + runs
                           = IF vm.contexts[x].live THEN 1 ELSE 0
  BY DEF AwaitsOnce
<1> DEFINE resumes(r) == r.fulfilled = Handler("await", x)
           waits == UNION {{p} \X {i \in DOMAIN vm.promises[p].reactions :
                                     resumes(vm.promises[p].reactions[i])} :
                             p \in DOMAIN vm.promises}
           queued == {i \in DOMAIN vm.jobs : vm.jobs[i].handler = Handler("await", x)}
           runs == IF frame = Frame("async", x) THEN 1 ELSE 0
           H == Handler("await", x)
           At(p, i) == /\ p \in 1..Len(vm.promises)
                       /\ i \in 1..Len(vm.promises[p].reactions)
                       /\ vm.promises[p].reactions[i].fulfilled = H
           In(i) == i \in 1..Len(vm.jobs) /\ vm.jobs[i].handler = H
<1>1. Typed(vm) /\ Placed(vm) /\ Awaited(vm, Running)
  BY DEF Inv, Good, Sound
<1>2. /\ DOMAIN vm.promises = 1..Len(vm.promises) /\ DOMAIN vm.jobs = 1..Len(vm.jobs)
      /\ DOMAIN vm.contexts = 1..Len(vm.contexts)
      /\ \A p \in 1..Len(vm.promises) :
            DOMAIN vm.promises[p].reactions = 1..Len(vm.promises[p].reactions)
  <2>1. \A p \in 1..Len(vm.promises) : vm.promises[p] \in PromisesOf(SizesOf(vm))
    BY <1>1, Elements
  <2>2. \A p \in 1..Len(vm.promises) :
           vm.promises[p].reactions \in Seq(ReactionsOf(SizesOf(vm)))
    BY <2>1 DEF PromisesOf
  <2>3. /\ DOMAIN vm.promises = 1..Len(vm.promises) /\ DOMAIN vm.jobs = 1..Len(vm.jobs)
        /\ DOMAIN vm.contexts = 1..Len(vm.contexts)
    BY <1>1, Fields, LenProperties DEF Typed
  <2> QED BY <2>2, <2>3, LenProperties
<1>3. \A w : w \in waits <=> \E p, i : w = <<p, i>> /\ At(p, i)
  BY <1>2
<1>4. \A i : i \in queued <=> In(i)
  BY <1>2
<1>5. H.kind = "await"
  BY DEF Handler
<1>6. \A i : In(i) => i \in Nat /\ \E r \in Nat : Runs(vm, i, r) /\ Resumes(vm, r, x)
  <2> SUFFICES ASSUME NEW i, In(i)
               PROVE  i \in Nat /\ \E r \in Nat : Runs(vm, i, r) /\ Resumes(vm, r, x)
    OBVIOUS
  <2> DEFINE r == vm.jobs[i].reaction
  <2>1. vm.jobs[i] \in JobsOf(SizesOf(vm))
    BY <1>1, Elements
  <2>2. vm.jobs[i].kind = "reaction"
    BY <2>1, <1>5 DEF JobsOf
  <2>3. Runs(vm, i, r)
    BY <2>2 DEF Runs
  <2>4. i \in Nat /\ r \in Nat
    BY <2>3, <1>1, RunsTyped
  <2>5. Resumes(vm, r, x)
    BY <2>3, <2>4 DEF Resumes
  <2> QED BY <2>3, <2>4, <2>5
<1>7. \A p, i : At(p, i) =>
         /\ p \in Nat /\ i \in Nat
         /\ \E r \in Nat : Waits(vm, p, i, r) /\ Resumes(vm, r, x)
  <2> SUFFICES ASSUME NEW p, NEW i, At(p, i)
               PROVE  /\ p \in Nat /\ i \in Nat
                      /\ \E r \in Nat : Waits(vm, p, i, r) /\ Resumes(vm, r, x)
    OBVIOUS
  <2> DEFINE r == vm.promises[p].reactions[i].id
  <2>1. Waits(vm, p, i, r)
    BY DEF Waits
  <2>2. p \in Nat /\ i \in Nat /\ r \in Nat
    BY <2>1, <1>1, WaitsTyped
  <2>3. Resumes(vm, r, x)
    BY <2>1, <2>2 DEF Resumes
  <2> QED BY <2>1, <2>2, <2>3
<1>8. \A r \in Nat : Resumes(vm, r, x) => \/ \E p, i : At(p, i)
                                          \/ \E i : In(i)
  BY DEF Resumes, Waits, Runs
<1>9. x \in 1..Len(vm.contexts)
  BY <1>2
<1> HIDE DEF waits, queued, H, At, In
<1>10. \A q, r \in Nat : Resumes(vm, q, x) /\ Resumes(vm, r, x) => q = r
  BY <1>1, <1>9 DEF Awaited
<1>11. \A p, i, q, j : At(p, i) /\ At(q, j) => p = q /\ i = j
  <2> SUFFICES ASSUME NEW p, NEW i, NEW q, NEW j, At(p, i), At(q, j)
               PROVE  p = q /\ i = j
    OBVIOUS
  <2>1. PICK r \in Nat : Waits(vm, p, i, r) /\ Resumes(vm, r, x)
    BY <1>7
  <2>2. PICK u \in Nat : Waits(vm, q, j, u) /\ Resumes(vm, u, x)
    BY <1>7
  <2>3. u = r
    BY <2>1, <2>2, <1>10
  <2>4. p \in Nat /\ i \in Nat /\ q \in Nat /\ j \in Nat
    BY <1>7
  <2>5. vm.reactions[r] = p /\ vm.reactions[r] = q
    BY <2>1, <2>2, <2>3, <2>4, <1>1 DEF Placed
  <2>6. ~(i < j) /\ ~(j < i)
    BY <2>1, <2>2, <2>3, <2>4, <2>5, <1>1 DEF Placed
  <2> QED BY <2>4, <2>5, <2>6
<1>12. \A i, j : In(i) /\ In(j) => i = j
  <2> SUFFICES ASSUME NEW i, NEW j, In(i), In(j)
               PROVE  i = j
    OBVIOUS
  <2>1. PICK r \in Nat : Runs(vm, i, r) /\ Resumes(vm, r, x)
    BY <1>6
  <2>2. PICK u \in Nat : Runs(vm, j, u) /\ Resumes(vm, u, x)
    BY <1>6
  <2>3. u = r
    BY <2>1, <2>2, <1>10
  <2> DEFINE l == Len(vm.ran)
  <2>4. i \in Nat /\ j \in Nat /\ l \in Nat
    BY <1>1, <1>6, Fields, LenProperties DEF Typed
  <2>5. Turn(vm, l + i, r) /\ Turn(vm, l + j, r)
    BY <2>1, <2>2, <2>3 DEF Turn, Runs
  <2> HIDE DEF l
  <2>6. l + i \in Nat /\ l + j \in Nat
    BY <2>4
  <2>7. ~(l + i < l + j) /\ ~(l + j < l + i)
    BY <2>5, <2>6, <1>1 DEF Placed
  <2> QED BY <2>4, <2>7
<1>13. \A p, i, j : ~(At(p, i) /\ In(j))
  <2> SUFFICES ASSUME NEW p, NEW i, NEW j, At(p, i), In(j)
               PROVE  FALSE
    OBVIOUS
  <2>1. PICK r \in Nat : Waits(vm, p, i, r) /\ Resumes(vm, r, x)
    BY <1>7
  <2>2. PICK u \in Nat : Runs(vm, j, u) /\ Resumes(vm, u, x)
    BY <1>6
  <2>3. u = r
    BY <2>1, <2>2, <1>10
  <2> DEFINE l == Len(vm.ran)
  <2>4. p \in Nat /\ i \in Nat /\ j \in Nat /\ l \in Nat
    BY <1>1, <1>6, <1>7, Fields, LenProperties DEF Typed
  <2>5. Turn(vm, l + j, r)
    BY <2>2, <2>3 DEF Turn, Runs
  <2> HIDE DEF l
  <2>6. l + j \in Nat
    BY <2>4
  <2>7. vm.reactions[r] = p /\ ~Settled(vm, p)
    BY <2>1, <2>4, <1>1 DEF Placed
  <2>8. Settled(vm, vm.reactions[r])
    BY <2>5, <2>6, <1>1 DEF Placed
  <2> QED BY <2>7, <2>8
<1>14. (waits # {} \/ queued # {}) <=> vm.contexts[x].live /\ x \notin Running
  <2>1. waits # {} <=> \E p, i : At(p, i)
    BY <1>3
  <2>2. queued # {} <=> \E i : In(i)
    BY <1>4
  <2>3. (waits # {} \/ queued # {}) <=> \E r \in Nat : Resumes(vm, r, x)
    BY <2>1, <2>2, <1>6, <1>7, <1>8
  <2> QED BY <2>3, <1>1, <1>9 DEF Awaited
<1>15. waits = {} \/ queued = {}
  BY <1>3, <1>4, <1>13
<1>16. /\ Count(waits) = IF waits = {} THEN 0 ELSE 1
       /\ Count(queued) = IF queued = {} THEN 0 ELSE 1
  <2>1. \A v, w \in waits : v = w
    BY <1>3, <1>11
  <2>2. \A v, w \in queued : v = w
    BY <1>4, <1>12
  <2> QED BY <2>1, <2>2, OneOrNone DEF Count
<1>17. frame = Frame("async", x) <=> x \in Running
  <2>1. frame \in FramesOf(SizesOf(vm))
    BY DEF Inv
  <2>2. Frame("async", x) = [kind |-> "async", id |-> x, value |-> Undefined]
    BY FrameIs
  <2> QED BY <2>1, <2>2 DEF FramesOf, Running
<1>18. x \in Running => vm.contexts[x].live
  BY <1>1 DEF Awaited
<1>19. Count(waits) + Count(queued) + runs = IF vm.contexts[x].live THEN 1 ELSE 0
  BY <1>14, <1>15, <1>16, <1>17, <1>18
<1> QED BY <1>19 DEF waits, queued

\* A reaction waits in the list of one promise, has one job once that promise
\* is settled, and runs once, in the order of registration; none is left when
\* the queue is empty; and a context of an async function is resumed by one
\* reaction as long as it is live, and by none once it has been freed.
THEOREM ReactionsAlwaysKept == Spec => []ReactionsKept
<1>1. Inv => ReactionsKept
  BY InvTyped, InvOrder, InvForgets, InvAwaits DEF ReactionsKept
<1> QED BY <1>1, InvHolds, PTL

\* A promise that is settled keeps its state and its result, whatever its
\* resolving functions are called with afterwards.
THEOREM SettledStays == Spec => SettledForGood
<1> DEFINE Stays == \A p \in DOMAIN vm.promises :
                       Settled(vm, p) =>
                          /\ vm'.promises[p].state = vm.promises[p].state
                          /\ vm'.promises[p].result = vm.promises[p].result
<1>1. Inv /\ [Next]_vars => [Stays]_vars
  <2> SUFFICES ASSUME Inv, [Next]_vars
               PROVE  Stays
    OBVIOUS
  <2>1. Grows(vm, vm')
    BY NextInv
  <2>2. vm.promises \in Seq(PromisesOf(SizesOf(vm)))
    BY Fields DEF Inv, Good, Sound, Typed
  <2>3. DOMAIN vm.promises = 1..Len(vm.promises)
    BY <2>2, LenProperties
  <2> QED BY <2>1, <2>3 DEF Grows
<1> QED BY <1>1, InvHolds, PTL DEF Spec, SettledForGood

\* A rejection that nobody handles is in the list for as long as nobody does,
\* and has been reported once the VM is destroyed.
THEOREM UnhandledAlwaysReported == Spec => []UnhandledReported
<1>1. Inv => UnhandledReported
  <2> SUFFICES ASSUME Inv, NEW p \in DOMAIN vm.promises,
                      vm.promises[p].state = "rejected", ~vm.promises[p].handled
               PROVE  p \in vm.rejected /\ (phase = "destroyed" => reported)
    BY DEF UnhandledReported
  <2>1. vm.promises \in Seq(PromisesOf(SizesOf(vm)))
    BY Fields DEF Inv, Good, Sound, Typed
  <2>2. p \in 1..Len(vm.promises)
    BY <2>1, LenProperties
  <2>3. p \in vm.rejected
    BY <2>2 DEF Inv, Good, Sound, Listed
  <2> QED BY <2>3 DEF Inv
<1> QED BY <1>1, InvHolds, PTL

-----------------------------------------------------------------------------
(* What a promise is settled as, and what may run when it is.                *)

\* What Promise.resolve() does not look into.
Final(v) == v.kind \notin {"promise", "thenable", "trap"}

As(b) == IF b THEN "rejected" ELSE "fulfilled"

SettledTo(s, p, b, v) == s.promises[p].state = As(b) /\ s.promises[p].result = v

\* A half of a reaction of promise p: handler h runs if p is rejected (b), or
\* if it is fulfilled, for the pair of functions c, if any.
Entry(p, b, h, c, r) == [from |-> p, rejected |-> b, handler |-> h, cell |-> c, id |-> r]

Half(p, b, r) == Entry(p, b, IF b THEN r.rejected ELSE r.fulfilled, r.cell, r.id)

JobEntry(s, j) == Entry(s.reactions[j.reaction], j.rejected, j.handler, j.cell, j.reaction)

\* Entry e is in the list of its promise, or in the queue.
Has(s, e) ==
    \/ \E p \in 1..Len(s.promises), b \in BOOLEAN :
          \E i \in 1..Len(s.promises[p].reactions) :
             e = Half(p, b, s.promises[p].reactions[i])
    \/ \E i \in 1..Len(s.jobs) :
          s.jobs[i].kind = "reaction" /\ e = JobEntry(s, s.jobs[i])

EntriesOf(n) ==
    [from : 1..n.promises, rejected : BOOLEAN, handler : HandlersOf(n), cell : 0..n.cells,
     id : 1..n.reactions]

LEMMA HalfTyped ==
    ASSUME NEW n, NEW p \in 1..n.promises, NEW b \in BOOLEAN, NEW r \in ReactionsOf(n)
    PROVE  /\ Half(p, b, r) \in EntriesOf(n)
           /\ Half(p, b, r).from = p /\ Half(p, b, r).rejected = b
           /\ Half(p, b, r).cell = r.cell /\ Half(p, b, r).id = r.id
           /\ Half(p, b, r).handler = IF b THEN r.rejected ELSE r.fulfilled
<1>1. /\ r.fulfilled \in HandlersOf(n) /\ r.rejected \in HandlersOf(n)
      /\ r.cell \in 0..n.cells /\ r.id \in 1..n.reactions
  BY DEF ReactionsOf
<1>2. (IF b THEN r.rejected ELSE r.fulfilled) \in HandlersOf(n)
  BY <1>1
<1> QED BY <1>1, <1>2 DEF Half, Entry, EntriesOf

LEMMA JobEntryTyped ==
    ASSUME NEW s, Typed(s), NEW j \in JobsOf(SizesOf(s)), j.kind = "reaction",
           NEW e, e = JobEntry(s, j)
    PROVE  /\ e \in EntriesOf(SizesOf(s)) /\ j.reaction \in 1..Len(s.reactions)
           /\ e.from = s.reactions[j.reaction] /\ e.rejected = j.rejected
           /\ e.handler = j.handler /\ e.cell = j.cell /\ e.id = j.reaction
<1> DEFINE n == SizesOf(s)
<1>1. /\ j.handler \in HandlersOf(n) /\ j.cell \in 0..n.cells /\ j.rejected \in BOOLEAN
      /\ j.reaction \in 0..n.reactions /\ j.reaction # 0
  BY DEF JobsOf
<1>2. n.reactions = Len(s.reactions) /\ Len(s.reactions) \in Nat /\ n.promises = Len(s.promises)
  BY SizesTyped DEF Typed, SizesOf
<1> HIDE DEF n
<1>3. j.reaction \in 1..Len(s.reactions)
  BY <1>1, <1>2
<1>4. s.reactions[j.reaction] \in 1..Len(s.promises)
  BY <1>3, ReactionPromise
<1> QED BY <1>1, <1>2, <1>3, <1>4 DEF JobEntry, Entry, EntriesOf, n

LEMMA EntryTyped ==
    ASSUME NEW s, Typed(s), NEW e, Has(s, e)
    PROVE  e \in EntriesOf(SizesOf(s))
<1>1. CASE \E p \in 1..Len(s.promises), b \in BOOLEAN :
              \E i \in 1..Len(s.promises[p].reactions) :
                 e = Half(p, b, s.promises[p].reactions[i])
  <2>1. PICK p \in 1..Len(s.promises), b \in BOOLEAN :
                \E i \in 1..Len(s.promises[p].reactions) :
                   e = Half(p, b, s.promises[p].reactions[i])
    BY <1>1
  <2>2. PICK i \in 1..Len(s.promises[p].reactions) : e = Half(p, b, s.promises[p].reactions[i])
    BY <2>1
  <2>3. s.promises[p].reactions \in Seq(ReactionsOf(SizesOf(s)))
    BY Elements DEF PromisesOf
  <2>4. s.promises[p].reactions[i] \in ReactionsOf(SizesOf(s))
    BY <2>3, ElementOfSeq
  <2>5. p \in 1..SizesOf(s).promises
    BY DEF SizesOf
  <2> QED BY <2>2, <2>4, <2>5, HalfTyped
<1>2. CASE \E i \in 1..Len(s.jobs) : s.jobs[i].kind = "reaction" /\ e = JobEntry(s, s.jobs[i])
  BY <1>2, Elements, JobEntryTyped
<1> QED BY <1>1, <1>2 DEF Has

-----------------------------------------------------------------------------
(* The promises whose outcome is a claim: those of lists, of finally(), and  *)
(* the one that finally() waits for before its own.                          *)

AggregateOf(s, p, a) ==
    a \in 1..Len(s.aggregates) /\ PromiseOf(s, s.aggregates[a].cell) = p

FinallyOf(s, p, i) ==
    i \in 1..Len(s.finallys) /\ PromiseOf(s, s.finallys[i].cell) = p

InnerOf(s, p, i) == i \in 1..Len(s.finallys) /\ s.finallys[i].inner = p

Free(s, p) == \A i : ~AggregateOf(s, p, i) /\ ~FinallyOf(s, p, i) /\ ~InnerOf(s, p, i)

\* A member of list a is settled as the promise of the list.
OneIs(s, a, b, v) ==
    \E k \in 1..Len(s.aggregates[a].inputs) : SettledTo(s, s.aggregates[a].inputs[k], b, v)

Complete(s, a) == 1..Len(s.aggregates[a].inputs) \subseteq s.aggregates[a].called

\* The outcomes that the claims allow.
AggregateFits(s, a, b, v) ==
    LET k == s.aggregates[a].kind
    IN  \/ b /\ k \in {"all", "race"} /\ OneIs(s, a, b, v)
        \/ b /\ k = "any" /\ Complete(s, a)
        \/ ~b /\ k \in {"all", "allSettled"} /\ Complete(s, a)
        \/ ~b /\ k \in {"any", "race"} /\ OneIs(s, a, b, v)
        \/ ~b /\ k = "any" /\ s.aggregates[a].inputs = <<>>

FinallyFits(s, i, b, v) ==
    LET f == s.finallys[i]
    IN  \/ SettledTo(s, f.from, b, v)
        \/ b /\ f.via = 0
        \/ b /\ f.via # 0 /\ SettledTo(s, f.via, TRUE, v)

InnerFits(s, i, b, v) ==
    LET f == s.finallys[i]
    IN  SettledTo(s, f.from, b, v) \/ (b /\ f.via # 0 /\ SettledTo(s, f.via, TRUE, v))

Fits(s, p, b, v) ==
    /\ \A a : AggregateOf(s, p, a) => AggregateFits(s, a, b, v)
    /\ \A i : FinallyOf(s, p, i) => FinallyFits(s, i, b, v)
    /\ \A i : InnerOf(s, p, i) => InnerFits(s, i, b, v)

\* Entry e may settle p with what its promise is settled as.
Into(s, p, e) ==
    /\ \A a : AggregateOf(s, p, a) =>
          /\ \E k \in 1..Len(s.aggregates[a].inputs) : s.aggregates[a].inputs[k] = e.from
          /\ s.aggregates[a].kind \in IF e.rejected THEN {"all", "race"} ELSE {"any", "race"}
    /\ \A i : FinallyOf(s, p, i) => s.finallys[i].inner = e.from
    /\ \A i : ~InnerOf(s, p, i)

\* What finally() does when the promise that its callback returned is settled.
Resumption(s, f, b) ==
    IF b THEN Handler("none", 0)
    ELSE ThunkHandler(IF s.promises[f.from].state = "fulfilled" THEN "return" ELSE "throw",
                      s.promises[f.from].result)

\* Promise p is derived from that of entry e.
Derives(s, p, e) ==
    /\ \A a : ~AggregateOf(s, p, a)
    /\ \A i : FinallyOf(s, p, i) =>
          /\ s.finallys[i].cell = e.cell /\ s.finallys[i].from = e.from
          /\ s.finallys[i].via = 0 /\ s.finallys[i].inner = 0 /\ ~Settled(s, p)
          /\ e.handler.kind = IF e.rejected THEN "catchFinally" ELSE "thenFinally"
    /\ \A i : InnerOf(s, p, i) =>
          /\ s.finallys[i].via = e.from /\ Settled(s, s.finallys[i].from)
          /\ e.handler = Resumption(s, s.finallys[i], e.rejected)

\* An element function is given to the promise it is for.
Member(s, e) ==
    LET g == s.aggregates[e.handler.id]
    IN  /\ e.handler.index \in 1..Len(g.inputs) /\ g.inputs[e.handler.index] = e.from
        /\ g.kind \in IF e.rejected THEN {"allSettled", "any"} ELSE {"all", "allSettled"}

Route(s, e) ==
    /\ e.handler.kind = "element" => Member(s, e)
    /\ e.handler.kind = "resolve" => ~e.rejected
    /\ e.handler.kind = "reject" => e.rejected
    /\ e.handler.kind \in {"resolve", "reject"} => Into(s, PromiseOf(s, e.handler.id), e)
    /\ e.cell # NoCell => Derives(s, PromiseOf(s, e.cell), e)

\* Promise p may be settled as promise v will be.
Asked(s, p, v) ==
    /\ \A a : ~AggregateOf(s, p, a)
    /\ \A i : FinallyOf(s, p, i) => v = Value("promise", s.finallys[i].inner)
    /\ \A i : ~InnerOf(s, p, i)

-----------------------------------------------------------------------------
(* Claims hold on to what they are about.                                    *)

SameLists(s, t) ==
    /\ Len(t.aggregates) = Len(s.aggregates)
    /\ \A a \in 1..Len(s.aggregates) :
          /\ t.aggregates[a].kind = s.aggregates[a].kind
          /\ t.aggregates[a].cell = s.aggregates[a].cell
          /\ t.aggregates[a].inputs = s.aggregates[a].inputs
          /\ s.aggregates[a].called \subseteq t.aggregates[a].called

SameCells(s, t) ==
    \A c \in 1..Len(s.cells) : /\ t.cells[c].promise = s.cells[c].promise
                               /\ t.cells[c].exposed = s.cells[c].exposed

\* No claim is made or changed.
Follows(s, t) ==
    Grows(s, t) /\ t.finallys = s.finallys /\ SameLists(s, t) /\ SameCells(s, t)

\* What aggregates and finallys refer to exists.
LEMMA ClaimsTyped ==
    ASSUME NEW s, Typed(s)
    PROVE  /\ \A a \in 1..Len(s.aggregates) :
                 /\ s.aggregates[a].cell \in 1..Len(s.cells)
                 /\ s.aggregates[a].inputs \in Seq(1..Len(s.promises))
                 /\ Len(s.aggregates[a].inputs) \in Nat
                 /\ \A k \in 1..Len(s.aggregates[a].inputs) :
                       s.aggregates[a].inputs[k] \in 1..Len(s.promises)
           /\ \A i \in 1..Len(s.finallys) :
                 /\ s.finallys[i].cell \in 1..Len(s.cells)
                 /\ s.finallys[i].from \in 1..Len(s.promises)
                 /\ s.finallys[i].via \in 0..Len(s.promises)
                 /\ s.finallys[i].inner \in 0..Len(s.promises)
           /\ \A c \in 1..Len(s.cells) : PromiseOf(s, c) \in 1..Len(s.promises)
           /\ Len(s.finallys) \in Nat /\ Len(s.aggregates) \in Nat
           /\ Len(s.cells) \in Nat /\ Len(s.promises) \in Nat
<1> DEFINE n == SizesOf(s)
<1>1. n.promises = Len(s.promises) /\ n.cells = Len(s.cells)
  BY DEF SizesOf
<1>2. s.finallys \in Seq(FinallysOf(n)) /\ s \in VmOf(n)
  BY Fields DEF Typed
<1> HIDE DEF n
<1>3. ASSUME NEW a \in 1..Len(s.aggregates)
      PROVE  /\ s.aggregates[a].cell \in 1..Len(s.cells)
             /\ s.aggregates[a].inputs \in Seq(1..Len(s.promises))
             /\ Len(s.aggregates[a].inputs) \in Nat
             /\ \A k \in 1..Len(s.aggregates[a].inputs) :
                   s.aggregates[a].inputs[k] \in 1..Len(s.promises)
  <2>1. s.aggregates[a] \in AggregatesOf(n)
    BY Elements DEF n
  <2>2. /\ s.aggregates[a].cell \in 1..n.cells
        /\ s.aggregates[a].inputs \in Seq(1..n.promises)
    BY <2>1 DEF AggregatesOf
  <2> QED BY <1>1, <2>2, LenProperties, ElementOfSeq
<1>4. ASSUME NEW i \in 1..Len(s.finallys)
      PROVE  /\ s.finallys[i].cell \in 1..Len(s.cells)
             /\ s.finallys[i].from \in 1..Len(s.promises)
             /\ s.finallys[i].via \in 0..Len(s.promises)
             /\ s.finallys[i].inner \in 0..Len(s.promises)
  <2>1. s.finallys[i] \in FinallysOf(n)
    BY <1>2, ElementOfSeq
  <2> QED BY <1>1, <2>1 DEF FinallysOf
<1>5. Len(s.finallys) \in Nat
  BY <1>2, LenProperties
<1>6. /\ Len(s.aggregates) \in Nat /\ Len(s.cells) \in Nat /\ Len(s.promises) \in Nat
  BY <1>2, SizesTyped
<1>7. \A c \in 1..Len(s.cells) : PromiseOf(s, c) \in 1..Len(s.promises)
  BY Elements DEF PromiseOf
<1> QED BY <1>3, <1>4, <1>5, <1>6, <1>7

\* A promise that is settled stays settled as it is.
LEMMA SettledToKept ==
    ASSUME NEW s, NEW t, Grows(s, t), NEW p \in 1..Len(s.promises)
    PROVE  /\ \A b, v : SettledTo(s, p, b, v) => SettledTo(t, p, b, v)
           /\ Settled(s, p) => Settled(t, p)
<1>1. Settled(s, p) => /\ t.promises[p].state = s.promises[p].state
                       /\ t.promises[p].result = s.promises[p].result
  BY DEF Grows
<1>2. \A b, v : SettledTo(s, p, b, v) => Settled(s, p)
  BY DEF SettledTo, Settled, As
<1> QED BY <1>1, <1>2 DEF SettledTo, Settled

LEMMA ClaimsKept ==
    ASSUME NEW s, NEW t, Typed(s), Typed(t), Follows(s, t)
    PROVE  \A p, i : /\ AggregateOf(t, p, i) <=> AggregateOf(s, p, i)
                     /\ FinallyOf(t, p, i) <=> FinallyOf(s, p, i)
                     /\ InnerOf(t, p, i) <=> InnerOf(s, p, i)
<1> TAKE p, i
<1>1. AggregateOf(t, p, i) <=> AggregateOf(s, p, i)
  <2>1. CASE i \in 1..Len(s.aggregates)
    <3>1. t.aggregates[i].cell = s.aggregates[i].cell /\ s.aggregates[i].cell \in 1..Len(s.cells)
      BY <2>1, ClaimsTyped DEF Follows, SameLists
    <3>2. PromiseOf(t, t.aggregates[i].cell) = PromiseOf(s, s.aggregates[i].cell)
      BY <3>1 DEF Follows, SameCells, PromiseOf
    <3> QED BY <2>1, <3>2 DEF AggregateOf, Follows, SameLists
  <2>2. CASE i \notin 1..Len(s.aggregates)
    BY <2>2 DEF AggregateOf, Follows, SameLists
  <2> QED BY <2>1, <2>2
<1>2. FinallyOf(t, p, i) <=> FinallyOf(s, p, i)
  <2>1. CASE i \in 1..Len(s.finallys)
    <3>1. t.finallys = s.finallys /\ s.finallys[i].cell \in 1..Len(s.cells)
      BY <2>1, ClaimsTyped DEF Follows
    <3>2. PromiseOf(t, t.finallys[i].cell) = PromiseOf(s, s.finallys[i].cell)
      BY <3>1 DEF Follows, SameCells, PromiseOf
    <3> QED BY <2>1, <3>1, <3>2 DEF FinallyOf
  <2>2. CASE i \notin 1..Len(s.finallys)
    BY <2>2 DEF FinallyOf, Follows
  <2> QED BY <2>1, <2>2
<1>3. InnerOf(t, p, i) <=> InnerOf(s, p, i)
  BY DEF InnerOf, Follows
<1> QED BY <1>1, <1>2, <1>3

LEMMA FitsKept ==
    ASSUME NEW s, NEW t, Typed(s), Typed(t), Follows(s, t), NEW p, NEW b \in BOOLEAN,
           NEW v, Fits(s, p, b, v)
    PROVE  Fits(t, p, b, v)
<1>1. ASSUME NEW a, AggregateOf(t, p, a)
      PROVE  AggregateFits(t, a, b, v)
  <2>1. AggregateOf(s, p, a) /\ AggregateFits(s, a, b, v) /\ a \in 1..Len(s.aggregates)
    <3>1. AggregateOf(s, p, a)
      BY <1>1, ClaimsKept
    <3> QED BY <3>1 DEF Fits, AggregateOf
  <2>2. /\ t.aggregates[a].kind = s.aggregates[a].kind
        /\ t.aggregates[a].inputs = s.aggregates[a].inputs
        /\ s.aggregates[a].called \subseteq t.aggregates[a].called
    BY <2>1 DEF Follows, SameLists
  <2>3. OneIs(s, a, b, v) => OneIs(t, a, b, v)
    <3>1. \A k \in 1..Len(s.aggregates[a].inputs) : s.aggregates[a].inputs[k] \in 1..Len(s.promises)
      BY <2>1, ClaimsTyped
    <3>2. \A k \in 1..Len(s.aggregates[a].inputs) :
             SettledTo(s, s.aggregates[a].inputs[k], b, v) => SettledTo(t, s.aggregates[a].inputs[k], b, v)
      BY <3>1, SettledToKept DEF Follows
    <3> QED BY <2>2, <3>2 DEF OneIs
  <2>4. Complete(s, a) => Complete(t, a)
    BY <2>2 DEF Complete
  <2> QED BY <2>1, <2>2, <2>3, <2>4 DEF AggregateFits
<1>2. ASSUME NEW i, FinallyOf(t, p, i)
      PROVE  FinallyFits(t, i, b, v)
  <2>1. FinallyOf(s, p, i) /\ FinallyFits(s, i, b, v) /\ i \in 1..Len(s.finallys)
    <3>1. FinallyOf(s, p, i)
      BY <1>2, ClaimsKept
    <3> QED BY <3>1 DEF Fits, FinallyOf
  <2>2. s.finallys[i].from \in 1..Len(s.promises) /\ s.finallys[i].via \in 0..Len(s.promises)
        /\ Len(s.promises) \in Nat
    BY <2>1, ClaimsTyped
  <2>3. s.finallys[i].via # 0 => s.finallys[i].via \in 1..Len(s.promises)
    BY <2>2
  <2>4. /\ SettledTo(s, s.finallys[i].from, b, v) => SettledTo(t, s.finallys[i].from, b, v)
        /\ s.finallys[i].via # 0 /\ SettledTo(s, s.finallys[i].via, TRUE, v)
              => SettledTo(t, s.finallys[i].via, TRUE, v)
    BY <2>2, <2>3, SettledToKept DEF Follows
  <2>5. t.finallys[i] = s.finallys[i]
    BY DEF Follows
  <2>6. \/ SettledTo(s, s.finallys[i].from, b, v)
        \/ b /\ s.finallys[i].via = 0
        \/ b /\ s.finallys[i].via # 0 /\ SettledTo(s, s.finallys[i].via, TRUE, v)
    BY <2>1 DEF FinallyFits
  <2> QED BY <2>4, <2>5, <2>6 DEF FinallyFits
<1>3. ASSUME NEW i, InnerOf(t, p, i)
      PROVE  InnerFits(t, i, b, v)
  <2>1. InnerOf(s, p, i) /\ InnerFits(s, i, b, v) /\ i \in 1..Len(s.finallys)
    <3>1. InnerOf(s, p, i)
      BY <1>3, ClaimsKept
    <3> QED BY <3>1 DEF Fits, InnerOf
  <2>2. s.finallys[i].from \in 1..Len(s.promises) /\ s.finallys[i].via \in 0..Len(s.promises)
        /\ Len(s.promises) \in Nat
    BY <2>1, ClaimsTyped
  <2>3. s.finallys[i].via # 0 => s.finallys[i].via \in 1..Len(s.promises)
    BY <2>2
  <2>4. /\ SettledTo(s, s.finallys[i].from, b, v) => SettledTo(t, s.finallys[i].from, b, v)
        /\ s.finallys[i].via # 0 /\ SettledTo(s, s.finallys[i].via, TRUE, v)
              => SettledTo(t, s.finallys[i].via, TRUE, v)
    BY <2>2, <2>3, SettledToKept DEF Follows
  <2> QED BY <2>1, <2>4 DEF InnerFits, Follows
<1> QED BY <1>1, <1>2, <1>3 DEF Fits

LEMMA FreeKept ==
    ASSUME NEW s, NEW t, Typed(s), Typed(t), Follows(s, t), NEW p, Free(s, p)
    PROVE  Free(t, p)
BY ClaimsKept DEF Free

LEMMA IntoKept ==
    ASSUME NEW s, NEW t, Typed(s), Typed(t), Follows(s, t), NEW p, NEW e, Into(s, p, e)
    PROVE  Into(t, p, e)
<1>1. ASSUME NEW a, AggregateOf(t, p, a)
      PROVE  /\ \E k \in 1..Len(t.aggregates[a].inputs) : t.aggregates[a].inputs[k] = e.from
             /\ t.aggregates[a].kind \in IF e.rejected THEN {"all", "race"} ELSE {"any", "race"}
  <2>1. AggregateOf(s, p, a)
    BY <1>1, ClaimsKept
  <2>2. /\ t.aggregates[a].kind = s.aggregates[a].kind
        /\ t.aggregates[a].inputs = s.aggregates[a].inputs
    BY <2>1 DEF Follows, SameLists, AggregateOf
  <2> QED BY <2>1, <2>2 DEF Into
<1>2. \A i : FinallyOf(t, p, i) => t.finallys[i].inner = e.from
  BY ClaimsKept DEF Into, Follows
<1>3. \A i : ~InnerOf(t, p, i)
  BY ClaimsKept DEF Into
<1> QED BY <1>1, <1>2, <1>3 DEF Into

\* The promise of a finally() that entry e is derived for is still pending.
StillOpen(s, t, e) ==
    e.cell # NoCell => \A i : FinallyOf(s, PromiseOf(s, e.cell), i)
                                 => ~Settled(t, PromiseOf(s, e.cell))

LEMMA DerivesKept ==
    ASSUME NEW s, NEW t, Typed(s), Typed(t), Follows(s, t), NEW p, NEW e, Derives(s, p, e),
           \A i : FinallyOf(s, p, i) => ~Settled(t, p)
    PROVE  Derives(t, p, e)
<1>1. \A a : ~AggregateOf(t, p, a)
  BY ClaimsKept DEF Derives
<1>2. ASSUME NEW i, FinallyOf(t, p, i)
      PROVE  /\ t.finallys[i].cell = e.cell /\ t.finallys[i].from = e.from
             /\ t.finallys[i].via = 0 /\ t.finallys[i].inner = 0 /\ ~Settled(t, p)
             /\ e.handler.kind = IF e.rejected THEN "catchFinally" ELSE "thenFinally"
  <2>1. FinallyOf(s, p, i)
    BY <1>2, ClaimsKept
  <2> QED BY <2>1 DEF Derives, Follows
<1>3. ASSUME NEW i, InnerOf(t, p, i)
      PROVE  /\ t.finallys[i].via = e.from /\ Settled(t, t.finallys[i].from)
             /\ e.handler = Resumption(t, t.finallys[i], e.rejected)
  <2>1. InnerOf(s, p, i)
    BY <1>3, ClaimsKept
  <2>2. t.finallys[i] = s.finallys[i]
    BY DEF Follows
  <2>3. /\ s.finallys[i].via = e.from /\ Settled(s, s.finallys[i].from)
        /\ e.handler = Resumption(s, s.finallys[i], e.rejected)
    BY <2>1 DEF Derives
  <2>4. s.finallys[i].from \in 1..Len(s.promises)
    BY <2>1, ClaimsTyped DEF InnerOf
  <2>5. /\ t.promises[s.finallys[i].from].state = s.promises[s.finallys[i].from].state
        /\ t.promises[s.finallys[i].from].result = s.promises[s.finallys[i].from].result
    BY <2>3, <2>4 DEF Follows, Grows
  <2> QED BY <2>2, <2>3, <2>5 DEF Resumption, Settled
<1> QED BY <1>1, <1>2, <1>3 DEF Derives

LEMMA RouteKept ==
    ASSUME NEW s, NEW t, Typed(s), Typed(t), Follows(s, t), NEW e,
           e.handler \in HandlersOf(SizesOf(s)), e.cell \in 0..Len(s.cells),
           Route(s, e), StillOpen(s, t, e)
    PROVE  Route(t, e)
<1> DEFINE h == e.handler
<1>1. /\ h.kind \in {"resolve", "reject"} => h.id \in 1..Len(s.cells)
      /\ h.kind = "element" => h.id \in 1..Len(s.aggregates)
      /\ Len(s.cells) \in Nat
  BY ClaimsTyped DEF HandlersOf, SizesOf
<1>2. \A c \in 1..Len(s.cells) : PromiseOf(t, c) = PromiseOf(s, c)
  BY DEF Follows, SameCells, PromiseOf
<1>3. h.kind = "element" => Member(t, e)
  <2> SUFFICES ASSUME h.kind = "element" PROVE Member(t, e)
    OBVIOUS
  <2>1. Member(s, e) /\ h.id \in 1..Len(s.aggregates)
    BY <1>1 DEF Route
  <2>2. /\ t.aggregates[h.id].kind = s.aggregates[h.id].kind
        /\ t.aggregates[h.id].inputs = s.aggregates[h.id].inputs
    BY <2>1 DEF Follows, SameLists
  <2> QED BY <2>1, <2>2 DEF Member
<1>4. h.kind \in {"resolve", "reject"} => Into(t, PromiseOf(t, h.id), e)
  <2> SUFFICES ASSUME h.kind \in {"resolve", "reject"} PROVE Into(t, PromiseOf(t, h.id), e)
    OBVIOUS
  <2>1. Into(s, PromiseOf(s, h.id), e) /\ PromiseOf(t, h.id) = PromiseOf(s, h.id)
    BY <1>1, <1>2 DEF Route
  <2> HIDE DEF h
  <2>2. Into(t, PromiseOf(s, h.id), e)
    BY <2>1, IntoKept
  <2> QED BY <2>1, <2>2
<1>5. e.cell # NoCell => Derives(t, PromiseOf(t, e.cell), e)
  <2> SUFFICES ASSUME e.cell # NoCell PROVE Derives(t, PromiseOf(t, e.cell), e)
    OBVIOUS
  <2>1. e.cell \in 1..Len(s.cells)
    BY <1>1 DEF NoCell
  <2>2. Derives(s, PromiseOf(s, e.cell), e) /\ PromiseOf(t, e.cell) = PromiseOf(s, e.cell)
    BY <1>2, <2>1 DEF Route
  <2>3. \A i : FinallyOf(s, PromiseOf(s, e.cell), i) => ~Settled(t, PromiseOf(s, e.cell))
    BY DEF StillOpen
  <2>4. Derives(t, PromiseOf(s, e.cell), e)
    BY <2>2, <2>3, DerivesKept
  <2> QED BY <2>2, <2>4
<1> QED BY <1>3, <1>4, <1>5 DEF Route

LEMMA AskedKept ==
    ASSUME NEW s, NEW t, Typed(s), Typed(t), Follows(s, t), NEW p, NEW v, Asked(s, p, v)
    PROVE  Asked(t, p, v)
BY ClaimsKept DEF Asked, Follows

-----------------------------------------------------------------------------
(* The inductive invariant of claims.                                        *)

Finals(s) ==
    \A p \in 1..Len(s.promises) :
       s.promises[p].state = "fulfilled" => Final(s.promises[p].result)

\* Jobs have what their promises were settled as.
Sources(s) ==
    \A i \in 1..Len(s.jobs) :
       LET j == s.jobs[i]
       IN  j.kind = "reaction" => SettledTo(s, s.reactions[j.reaction], j.rejected, j.value)

Routes(s) == \A e : Has(s, e) => Route(s, e)

\* The promise that a reaction derives is that of no other.
Once(s) ==
    \A e, f : Has(s, e) /\ Has(s, f) /\ e.cell = f.cell /\ e.cell # NoCell => e.id = f.id

Asking(s) ==
    \A i \in 1..Len(s.jobs) :
       Asks(s, i) => Asked(s, s.jobs[i].promise, s.jobs[i].value)

\* Scripts get hold of nothing that settles a promise with a claim.
Frees(s) ==
    /\ \A c \in 1..Len(s.cells) : s.cells[c].exposed => Free(s, PromiseOf(s, c))
    /\ \A x \in 1..Len(s.contexts) : Free(s, PromiseOf(s, s.contexts[x].cell))

\* A promise that is claimed for a list has no other claim.
Apart(s) ==
    \A p, a : AggregateOf(s, p, a) =>
       \A i : ~FinallyOf(s, p, i) /\ ~InnerOf(s, p, i) /\ (AggregateOf(s, p, i) => i = a)

\* What the element functions have been called with.
Collected(s, a) ==
    LET g == s.aggregates[a]
    IN  /\ Len(g.values) = Len(g.inputs) /\ g.called \subseteq 1..Len(g.inputs)
        /\ Cardinality((1..Len(g.inputs)) \ g.called) <= g.remaining
        /\ \A i \in g.called :
              /\ SettledTo(s, g.inputs[i], g.values[i].rejected, g.values[i].value)
              /\ g.kind = "all" => ~g.values[i].rejected
              /\ g.kind = "any" => g.values[i].rejected

Lists(s) == \A a \in 1..Len(s.aggregates) : Collected(s, a)

\* Every promise that is settled is settled as its claims allow.
AllFit(s) ==
    \A p \in 1..Len(s.promises) : \A b \in BOOLEAN :
       s.promises[p].state = As(b) => Fits(s, p, b, s.promises[p].result)

Owned(s) ==
    /\ Finals(s) /\ Sources(s) /\ Routes(s) /\ Once(s) /\ Asking(s) /\ Frees(s)
    /\ Apart(s) /\ Lists(s) /\ AllFit(s)

\* What becomes of the claims when no claim is made: promises are settled as
\* they allow ...
SettlesFit(s, t) ==
    \A p \in 1..Len(t.promises) : \A b \in BOOLEAN :
       t.promises[p].state = As(b) =>
          \/ p \in 1..Len(s.promises) /\ Settled(s, p)
          \/ /\ Fits(s, p, b, t.promises[p].result)
             /\ ~b => Final(t.promises[p].result)

\* ... reactions are new, or are where they were ...
Moved(s, t) ==
    /\ \A r \in 1..Len(s.reactions) : t.reactions[r] = s.reactions[r]
    /\ \A e : Has(t, e) =>
          \/ Has(s, e) /\ StillOpen(s, t, e)
          \/ /\ Route(t, e) /\ e.id = Len(s.reactions) + 1
             /\ e.cell # NoCell => \A f : Has(s, f) => f.cell # e.cell

\* ... and so are the jobs ...
Queued(s, t) ==
    \A i \in 1..Len(t.jobs) :
       \/ \E k \in 1..Len(s.jobs) : t.jobs[i] = s.jobs[k]
       \/ LET j == t.jobs[i]
          IN  j.kind = "reaction" /\ SettledTo(t, t.reactions[j.reaction], j.rejected, j.value)
       \/ t.jobs[i].kind = "thenable" /\ Asked(s, t.jobs[i].promise, t.jobs[i].value)

\* ... and what scripts get hold of is free.
Exposes(s, t) ==
    /\ \A c \in 1..Len(t.cells) :
          t.cells[c].exposed => c \in 1..Len(s.cells) \/ Free(s, PromiseOf(t, c))
    /\ \A k \in 1..Len(t.contexts) :
          \/ k \in 1..Len(s.contexts) /\ t.contexts[k].cell = s.contexts[k].cell
          \/ Free(s, PromiseOf(t, t.contexts[k].cell))

LEMMA ListsKept ==
    ASSUME NEW s, NEW t, Typed(s), Lists(s), Grows(s, t), t.aggregates = s.aggregates
    PROVE  Lists(t)
<1> SUFFICES ASSUME NEW a \in 1..Len(t.aggregates) PROVE Collected(t, a)
  BY DEF Lists
<1>1. Collected(s, a) /\ a \in 1..Len(s.aggregates)
  BY DEF Lists
<1> DEFINE g == s.aggregates[a]
<1>2. \A i \in 1..Len(g.inputs) : g.inputs[i] \in 1..Len(s.promises)
  BY <1>1, ClaimsTyped
<1>3. \A i \in g.called :
         SettledTo(t, g.inputs[i], g.values[i].rejected, g.values[i].value)
  BY <1>1, <1>2, SettledToKept DEF Collected
<1> QED BY <1>1, <1>3 DEF Collected

LEMMA OwnedFollows ==
    ASSUME NEW s, NEW t, Typed(s), Typed(t), Owned(s), Follows(s, t),
           SettlesFit(s, t), Moved(s, t), Queued(s, t), Exposes(s, t), Lists(t)
    PROVE  Owned(t)
<1>1. /\ Len(s.promises) \in Nat /\ Len(t.promises) \in Nat /\ Len(s.promises) <= Len(t.promises)
      /\ Len(s.cells) \in Nat /\ Grows(s, t) /\ Len(s.jobs) \in Nat
  BY ClaimsTyped, SizesTyped DEF Follows, Grows, AtMost, SizesOf, Typed
<1>2. ASSUME NEW p \in 1..Len(s.promises), Settled(s, p)
      PROVE  /\ t.promises[p].state = s.promises[p].state
             /\ t.promises[p].result = s.promises[p].result
  BY <1>1, <1>2 DEF Grows
<1>3. Finals(t)
  <2> SUFFICES ASSUME NEW p \in 1..Len(t.promises), t.promises[p].state = "fulfilled"
               PROVE  Final(t.promises[p].result)
    BY DEF Finals
  <2>1. CASE p \in 1..Len(s.promises) /\ Settled(s, p)
    BY <1>2, <2>1 DEF Owned, Finals
  <2>2. CASE ~(p \in 1..Len(s.promises) /\ Settled(s, p))
    <3>1. t.promises[p].state = As(FALSE)
      BY DEF As
    <3> QED BY <2>2, <3>1 DEF SettlesFit
  <2> QED BY <2>1, <2>2
<1>4. AllFit(t)
  <2> SUFFICES ASSUME NEW p \in 1..Len(t.promises), NEW b \in BOOLEAN, t.promises[p].state = As(b)
               PROVE  Fits(t, p, b, t.promises[p].result)
    BY DEF AllFit
  <2>1. CASE p \in 1..Len(s.promises) /\ Settled(s, p)
    <3>1. s.promises[p].state = As(b) /\ s.promises[p].result = t.promises[p].result
      BY <1>2, <2>1
    <3>2. Fits(s, p, b, t.promises[p].result)
      BY <2>1, <3>1 DEF Owned, AllFit
    <3> QED BY <3>2, FitsKept
  <2>2. CASE ~(p \in 1..Len(s.promises) /\ Settled(s, p))
    <3>1. Fits(s, p, b, t.promises[p].result)
      BY <2>2 DEF SettlesFit
    <3> QED BY <3>1, FitsKept
  <2> QED BY <2>1, <2>2
<1>5. Routes(t)
  <2> SUFFICES ASSUME NEW e, Has(t, e) PROVE Route(t, e)
    BY DEF Routes
  <2>1. CASE Has(s, e) /\ StillOpen(s, t, e)
    <3>1. Route(s, e) /\ e \in EntriesOf(SizesOf(s))
      BY <2>1, EntryTyped DEF Owned, Routes
    <3>2. e.handler \in HandlersOf(SizesOf(s)) /\ e.cell \in 0..Len(s.cells)
      BY <3>1 DEF EntriesOf, SizesOf
    <3> QED BY <2>1, <3>1, <3>2, RouteKept
  <2>2. CASE ~(Has(s, e) /\ StillOpen(s, t, e))
    BY <2>2 DEF Moved
  <2> QED BY <2>1, <2>2
<1>6. Once(t)
  <2> SUFFICES ASSUME NEW e, NEW f, Has(t, e), Has(t, f), e.cell = f.cell, e.cell # NoCell
               PROVE  e.id = f.id
    BY DEF Once
  <2>1. CASE Has(s, e) /\ Has(s, f)
    BY <2>1 DEF Owned, Once
  <2>2. CASE ~Has(s, e) /\ ~Has(s, f)
    BY <2>2 DEF Moved
  <2>3. CASE Has(s, e) /\ ~Has(s, f)
    BY <2>3 DEF Moved
  <2>4. CASE ~Has(s, e) /\ Has(s, f)
    BY <2>4 DEF Moved
  <2> QED BY <2>1, <2>2, <2>3, <2>4
<1>7. Sources(t)
  <2> SUFFICES ASSUME NEW i \in 1..Len(t.jobs), NEW j, j = t.jobs[i], j.kind = "reaction"
               PROVE  SettledTo(t, t.reactions[j.reaction], j.rejected, j.value)
    BY DEF Sources
  <2>1. CASE \E k \in 1..Len(s.jobs) : t.jobs[i] = s.jobs[k]
    <3>1. PICK k \in 1..Len(s.jobs) : j = s.jobs[k]
      BY <2>1
    <3>2. SettledTo(s, s.reactions[j.reaction], j.rejected, j.value)
      BY <3>1 DEF Owned, Sources
    <3>3. j.reaction \in 1..Len(s.reactions)
      BY <3>1, Elements, JobEntryTyped
    <3>4. t.reactions[j.reaction] = s.reactions[j.reaction]
      BY <3>3 DEF Moved
    <3>5. s.reactions[j.reaction] \in 1..Len(s.promises)
      BY <3>3, ReactionPromise
    <3> QED BY <1>1, <3>2, <3>4, <3>5, SettledToKept
  <2>2. CASE ~\E k \in 1..Len(s.jobs) : t.jobs[i] = s.jobs[k]
    BY <2>2 DEF Queued
  <2> QED BY <2>1, <2>2
<1>8. Asking(t)
  <2> SUFFICES ASSUME NEW i \in 1..Len(t.jobs), NEW j, j = t.jobs[i], j.kind = "thenable"
               PROVE  Asked(t, j.promise, j.value)
    BY DEF Asking, Asks
  <2>1. CASE \E k \in 1..Len(s.jobs) : t.jobs[i] = s.jobs[k]
    <3>1. PICK k \in 1..Len(s.jobs) : j = s.jobs[k]
      BY <2>1
    <3>2. Asked(s, j.promise, j.value)
      BY <3>1 DEF Owned, Asking, Asks
    <3> QED BY <3>2, AskedKept
  <2>2. CASE ~\E k \in 1..Len(s.jobs) : t.jobs[i] = s.jobs[k]
    <3>1. Asked(s, j.promise, j.value)
      BY <2>2 DEF Queued
    <3> QED BY <3>1, AskedKept
  <2> QED BY <2>1, <2>2
<1>9. Frees(t)
  <2>1. ASSUME NEW c \in 1..Len(t.cells), t.cells[c].exposed
        PROVE  Free(t, PromiseOf(t, c))
    <3>1. CASE c \in 1..Len(s.cells)
      <4>1. s.cells[c].exposed /\ PromiseOf(t, c) = PromiseOf(s, c)
        BY <2>1, <3>1 DEF Follows, SameCells, PromiseOf
      <4>2. Free(s, PromiseOf(s, c))
        BY <3>1, <4>1 DEF Owned, Frees
      <4> QED BY <4>1, <4>2, FreeKept
    <3>2. CASE c \notin 1..Len(s.cells)
      <4>1. Free(s, PromiseOf(t, c))
        BY <2>1, <3>2 DEF Exposes
      <4> QED BY <4>1, FreeKept
    <3> QED BY <3>1, <3>2
  <2>2. ASSUME NEW x \in 1..Len(t.contexts)
        PROVE  Free(t, PromiseOf(t, t.contexts[x].cell))
    <3>1. CASE x \in 1..Len(s.contexts) /\ t.contexts[x].cell = s.contexts[x].cell
      <4>1. s.contexts[x].cell \in 1..Len(s.cells)
        BY <3>1, Elements DEF ContextsOf, SizesOf
      <4>2. PromiseOf(t, t.contexts[x].cell) = PromiseOf(s, s.contexts[x].cell)
        BY <3>1, <4>1 DEF Follows, SameCells, PromiseOf
      <4>3. Free(s, PromiseOf(s, s.contexts[x].cell))
        BY <3>1 DEF Owned, Frees
      <4> QED BY <4>2, <4>3, FreeKept
    <3>2. CASE Free(s, PromiseOf(t, t.contexts[x].cell))
      BY <3>2, FreeKept
    <3> QED BY <3>1, <3>2 DEF Exposes
  <2> QED BY <2>1, <2>2 DEF Frees
<1>10. Apart(t)
  <2>1. Apart(s)
    BY DEF Owned
  <2> QED BY <2>1, ClaimsKept DEF Apart
<1> QED BY <1>3, <1>4, <1>5, <1>6, <1>7, <1>8, <1>9, <1>10 DEF Owned

-----------------------------------------------------------------------------
(* A promise is settled.                                                     *)

\* What settling promise p does.
Settling(s, t, p, b, v) ==
    /\ t.reactions = s.reactions /\ t.finallys = s.finallys
    /\ t.aggregates = s.aggregates /\ t.contexts = s.contexts
    /\ Len(t.cells) = Len(s.cells) /\ SameCells(s, t)
    /\ Len(t.promises) = Len(s.promises)
    /\ SettledTo(t, p, b, v) /\ t.promises[p].reactions = <<>>
    /\ \A q \in 1..Len(s.promises) : q # p => t.promises[q] = s.promises[q]
    /\ t.jobs = s.jobs \o [i \in DOMAIN s.promises[p].reactions |->
                              ReactionJob(s.promises[p].reactions[i], b, v)]

LEMMA SettlesParts ==
    ASSUME NEW s, Typed(s), NEW c \in 1..Len(s.cells), NEW p \in 1..Len(s.promises), NEW v,
           NEW b \in BOOLEAN,
           NEW t, \/ ~b /\ t = njs_promise_fulfill(Used(s, c), p, v)
                  \/ b /\ t = njs_promise_reject(Used(s, c), p, v)
    PROVE  Settling(s, t, p, b, v)
<1> DEFINE u == Used(s, c)
           rs == s.promises[p].reactions
           P(st) == [s.promises EXCEPT ![p] = SettledAs(s.promises[p], st, v)]
           J(d) == s.jobs \o [i \in DOMAIN rs |-> ReactionJob(rs[i], d, v)]
           C == [s.cells EXCEPT ![c] = [s.cells[c] EXCEPT !.resolved = TRUE]]
           Others(x) == /\ x.contexts = s.contexts /\ x.reactions = s.reactions
                      /\ x.finallys = s.finallys /\ x.aggregates = s.aggregates
<1>1. /\ s = [promises |-> s.promises, cells |-> s.cells, jobs |-> s.jobs,
              aggregates |-> s.aggregates, contexts |-> s.contexts,
              tracking |-> s.tracking, rejected |-> s.rejected,
              reactions |-> s.reactions, ran |-> s.ran, finallys |-> s.finallys]
      /\ DOMAIN s.promises = 1..Len(s.promises)
      /\ DOMAIN s.promises[p] = {"state", "result", "handled", "reactions"}
      /\ s.promises \in Seq(PromisesOf(SizesOf(s)))
      /\ DOMAIN s.cells = 1..Len(s.cells)
  BY Record, Fields DEF Typed
<1>2. /\ u.promises = s.promises /\ u.jobs = s.jobs /\ Others(u)
      /\ u.cells = C /\ DOMAIN u = DOMAIN s
  BY <1>1 DEF Used
<1>3. DOMAIN s = {"promises", "cells", "jobs", "aggregates", "contexts", "tracking",
                  "rejected", "reactions", "ran", "finallys"}
  BY <1>1
<1> HIDE DEF u, C
<1>4. ASSUME t = njs_promise_fulfill(u, p, v)
      PROVE  t.promises = P("fulfilled") /\ t.jobs = J(FALSE) /\ Others(t) /\ t.cells = C
  BY <1>2, <1>3, <1>4 DEF njs_promise_fulfill, njs_promise_trigger_reactions
<1>5. ASSUME t = njs_promise_reject(u, p, v)
      PROVE  t.promises = P("rejected") /\ t.jobs = J(TRUE) /\ Others(t) /\ t.cells = C
  BY <1>2, <1>3, <1>5 DEF njs_promise_reject, njs_promise_trigger_reactions,
                          ngx_js_rejection_tracker
<1>6. ASSUME NEW st \in {"fulfilled", "rejected"}
      PROVE  /\ Len(P(st)) = Len(s.promises)
             /\ P(st)[p].reactions = <<>> /\ P(st)[p].state = st /\ P(st)[p].result = v
             /\ \A q \in 1..Len(s.promises) : q # p => P(st)[q] = s.promises[q]
  <2> DEFINE q == SettledAs(s.promises[p], st, v)
             S == PromisesOf(SizesOf(s)) \cup {q}
  <2>1. q.reactions = <<>> /\ q.state = st /\ q.result = v
    BY <1>1 DEF SettledAs
  <2>2. s.promises \in Seq(S) /\ q \in S
    BY <1>1, SeqMonotonic, PromisesOf(SizesOf(s)) \subseteq S
  <2> HIDE DEF q, S
  <2>3. [s.promises EXCEPT ![p] = q] = P(st)
    BY DEF q
  <2> HIDE DEF P
  <2> QED BY <2>1, <2>2, <2>3, ExceptSeq
<1> HIDE DEF P, J
<1>7. t.promises = P(As(b)) /\ t.jobs = J(b) /\ Others(t) /\ t.cells = C
  BY <1>4, <1>5 DEF u, As
<1>8. As(b) \in {"fulfilled", "rejected"}
  BY DEF As
<1>9. Len(C) = Len(s.cells) /\ \A d \in 1..Len(s.cells) : C[d].promise = s.cells[d].promise
                                                          /\ C[d].exposed = s.cells[d].exposed
  <2> DEFINE q == [s.cells[c] EXCEPT !.resolved = TRUE]
             S == CellsOf(SizesOf(s)) \cup {q}
  <2>1. s.cells \in Seq(CellsOf(SizesOf(s)))
    BY Fields DEF Typed
  <2>2. s.cells \in Seq(S) /\ q \in S
    BY <2>1, SeqMonotonic, CellsOf(SizesOf(s)) \subseteq S
  <2>3. q.promise = s.cells[c].promise /\ q.exposed = s.cells[c].exposed
    <3>1. s.cells[c] \in CellsOf(SizesOf(s))
      BY Elements
    <3> QED BY <3>1 DEF CellsOf
  <2> HIDE DEF q, S
  <2>4. C = [s.cells EXCEPT ![c] = q]
    BY DEF C, q
  <2>5. Len(C) = Len(s.cells) /\ \A d \in 1..Len(s.cells) : C[d] = IF d = c THEN q ELSE s.cells[d]
    BY <2>2, <2>4, ExceptSeq
  <2> QED BY <2>3, <2>5
<1>10. /\ Len(t.promises) = Len(s.promises)
       /\ SettledTo(t, p, b, v) /\ t.promises[p].reactions = <<>>
       /\ \A q \in 1..Len(s.promises) : q # p => t.promises[q] = s.promises[q]
  BY <1>6, <1>7, <1>8 DEF SettledTo
<1>11. Len(t.cells) = Len(s.cells) /\ SameCells(s, t)
  BY <1>7, <1>9 DEF SameCells
<1> QED BY <1>7, <1>10, <1>11 DEF Settling, J, rs

\* The queue afterwards.
JobsAfter(s, t, p, b, v) ==
    \A i \in 1..Len(t.jobs) :
       \/ i \in 1..Len(s.jobs) /\ t.jobs[i] = s.jobs[i]
       \/ \E k \in 1..Len(s.promises[p].reactions) :
             t.jobs[i] = ReactionJob(s.promises[p].reactions[k], b, v)

LEMMA SettlingJobs ==
    ASSUME NEW s, NEW t, Typed(s), NEW p \in 1..Len(s.promises), NEW b \in BOOLEAN, NEW v,
           Settling(s, t, p, b, v)
    PROVE  JobsAfter(s, t, p, b, v)
<1> DEFINE rs == s.promises[p].reactions
           n == SizesOf(s)
           l == Len(s.jobs)
           k == Len(rs)
           x == [i \in DOMAIN rs |-> ReactionJob(rs[i], b, v)]
           J == {ReactionJob(rs[i], b, v) : i \in 1..k} \cup JobsOf(n)
<1>1. rs \in Seq(ReactionsOf(n)) /\ s.jobs \in Seq(JobsOf(n))
  BY Elements, Fields DEF Typed, PromisesOf
<1> HIDE DEF n
<1>2. k \in Nat /\ DOMAIN rs = 1..k /\ l \in Nat
      /\ \A i \in 1..k : rs[i] \in ReactionsOf(n)
  BY <1>1, LenProperties, ElementOfSeq
<1>3. t.jobs = s.jobs \o x
  BY DEF Settling
<1>4. x \in Seq(J) /\ Len(x) = k
  <2>1. x = [i \in 1..k |-> x[i]] /\ \A i \in 1..k : x[i] \in J
    BY <1>2
  <2> HIDE DEF x, J, k
  <2> QED BY <2>1, <1>2, IsASeq
<1>5. s.jobs \in Seq(J)
  BY <1>1, SeqMonotonic, JobsOf(n) \subseteq J
<1>6. \A i \in 1..k : x[i] = ReactionJob(rs[i], b, v)
  BY <1>2
<1> HIDE DEF x, J, l
<1>7. /\ Len(t.jobs) = l + k
      /\ \A i \in 1..Len(t.jobs) : t.jobs[i] = IF i <= l THEN s.jobs[i] ELSE x[i - l]
  <2>1. /\ Len(s.jobs \o x) = Len(s.jobs) + Len(x)
        /\ \A i \in 1..(Len(s.jobs) + Len(x)) :
              (s.jobs \o x)[i] = IF i <= Len(s.jobs) THEN s.jobs[i] ELSE x[i - Len(s.jobs)]
    BY <1>4, <1>5, ConcatProperties
  <2> QED BY <1>3, <2>1, <1>4 DEF l
<1> HIDE DEF k
<1>8. ASSUME NEW i \in 1..Len(t.jobs)
      PROVE  \/ i \in 1..l /\ t.jobs[i] = s.jobs[i]
             \/ \E m \in 1..k : t.jobs[i] = ReactionJob(rs[m], b, v)
  <2>1. CASE i <= l
    <3>1. i \in 1..l
      BY <1>2, <1>7, <2>1
    <3> QED BY <1>7, <2>1, <3>1
  <2>2. CASE ~(i <= l)
    <3>1. i - l \in 1..k
      BY <1>2, <1>7, <2>2
    <3> QED BY <1>6, <1>7, <2>2, <3>1
  <2> QED BY <2>1, <2>2
<1> QED BY <1>8 DEF k, l, JobsAfter

LEMMA ReactionJobParts ==
    ASSUME NEW r, NEW b \in BOOLEAN, NEW v
    PROVE  LET j == ReactionJob(r, b, v)
           IN  /\ j.kind = "reaction" /\ j.rejected = b /\ j.value = v /\ j.cell = r.cell
               /\ j.reaction = r.id /\ j.handler = IF b THEN r.rejected ELSE r.fulfilled
BY DEF ReactionJob

\* A reaction in the list of a promise is one of its own.
LEMMA InList ==
    ASSUME NEW s, Typed(s), Placed(s), NEW p \in 1..Len(s.promises),
           NEW k \in 1..Len(s.promises[p].reactions)
    PROVE  /\ s.promises[p].reactions[k] \in ReactionsOf(SizesOf(s))
           /\ s.reactions[s.promises[p].reactions[k].id] = p /\ ~Settled(s, p)
<1> DEFINE r == s.promises[p].reactions[k]
<1>1. Waits(s, p, k, r.id)
  BY DEF Waits
<1>2. p \in Nat /\ k \in Nat /\ r.id \in Nat
  <2> HIDE DEF r
  <2> QED BY <1>1, WaitsTyped
<1> HIDE DEF r
<1>3. s.reactions[r.id] = p /\ ~Settled(s, p)
  <2>1. \A q, i, x \in Nat : Waits(s, q, i, x) => s.reactions[x] = q /\ ~Settled(s, q)
    BY DEF Placed
  <2> QED BY ONLY <1>1, <1>2, <2>1
<1>4. s.promises[p].reactions \in Seq(ReactionsOf(SizesOf(s)))
  BY Elements DEF PromisesOf
<1> QED BY <1>3, <1>4, ElementOfSeq DEF r

\* The reactions that p has are in the queue.
LEMMA SettlingHas ==
    ASSUME NEW s, NEW t, Typed(s), Placed(s), NEW p \in 1..Len(s.promises), NEW b \in BOOLEAN,
           NEW v, Settling(s, t, p, b, v), NEW e, Has(t, e)
    PROVE  Has(s, e)
<1> DEFINE rs == s.promises[p].reactions
<1>1. ASSUME NEW q \in 1..Len(t.promises), NEW c \in BOOLEAN,
             NEW i \in 1..Len(t.promises[q].reactions),
             e = Half(q, c, t.promises[q].reactions[i])
      PROVE  Has(s, e)
  <2>1. q \in 1..Len(s.promises)
    BY DEF Settling
  <2>2. CASE q = p
    <3>1. t.promises[q].reactions = <<>>
      BY <2>2 DEF Settling
    <3>2. Len(t.promises[q].reactions) = 0
      BY <3>1
    <3> QED BY <1>1, <3>2
  <2>3. CASE q # p
    <3>1. t.promises[q] = s.promises[q]
      BY <2>1, <2>3 DEF Settling
    <3> QED BY <1>1, <2>1, <3>1 DEF Has
  <2> QED BY <2>2, <2>3
<1>2. ASSUME NEW i \in 1..Len(t.jobs), t.jobs[i].kind = "reaction", e = JobEntry(t, t.jobs[i])
      PROVE  Has(s, e)
  <2>1. e = JobEntry(s, t.jobs[i])
    BY <1>2 DEF JobEntry, Settling
  <2>2. CASE i \in 1..Len(s.jobs) /\ t.jobs[i] = s.jobs[i]
    BY <1>2, <2>1, <2>2 DEF Has
  <2>3. CASE \E k \in 1..Len(rs) : t.jobs[i] = ReactionJob(rs[k], b, v)
    <3>1. PICK k \in 1..Len(rs) : t.jobs[i] = ReactionJob(rs[k], b, v)
      BY <2>3
    <3>2. s.reactions[rs[k].id] = p
      BY InList
    <3>3. LET j == t.jobs[i]
          IN  /\ j.rejected = b /\ j.cell = rs[k].cell /\ j.reaction = rs[k].id
              /\ j.handler = IF b THEN rs[k].rejected ELSE rs[k].fulfilled
      BY <3>1, ReactionJobParts
    <3> HIDE DEF rs
    <3>4. e = Half(p, b, rs[k])
      BY <2>1, <3>2, <3>3 DEF JobEntry, Half
    <3>5. e = Half(p, b, s.promises[p].reactions[k]) /\ k \in 1..Len(s.promises[p].reactions)
      BY <3>4 DEF rs
    <3> QED BY <3>5 DEF Has
  <2>4. \/ i \in 1..Len(s.jobs) /\ t.jobs[i] = s.jobs[i]
        \/ \E k \in 1..Len(rs) : t.jobs[i] = ReactionJob(rs[k], b, v)
    <3>1. JobsAfter(s, t, p, b, v)
      BY SettlingJobs
    <3> QED BY <3>1 DEF JobsAfter
  <2> QED BY <2>2, <2>3, <2>4
<1> QED BY <1>1, <1>2 DEF Has

\* No reaction is to derive what finally() claims of p.
Underived(s, p) ==
    \A e : Has(s, e) /\ e.cell # NoCell /\ PromiseOf(s, e.cell) = p
              => \A i : ~FinallyOf(s, p, i)

LEMMA SettlingOwned ==
    ASSUME NEW s, NEW t, Typed(s), Typed(t), Placed(s), Owned(s), Grows(s, t),
           NEW p \in 1..Len(s.promises), ~Settled(s, p), NEW b \in BOOLEAN, NEW v,
           Settling(s, t, p, b, v), Fits(s, p, b, v), ~b => Final(v), Underived(s, p)
    PROVE  Owned(t) /\ Follows(s, t)
<1>1. Follows(s, t)
  <2>1. SameLists(s, t)
    BY DEF Settling, SameLists
  <2> QED BY <2>1 DEF Follows, Settling
<1>2. SettlesFit(s, t)
  <2> SUFFICES ASSUME NEW q \in 1..Len(t.promises), NEW d \in BOOLEAN, t.promises[q].state = As(d),
                      ~(q \in 1..Len(s.promises) /\ Settled(s, q))
               PROVE  Fits(s, q, d, t.promises[q].result) /\ (~d => Final(t.promises[q].result))
    BY DEF SettlesFit
  <2>1. q \in 1..Len(s.promises)
    BY DEF Settling
  <2>2. q = p
    <3> SUFFICES ASSUME q # p PROVE FALSE
      OBVIOUS
    <3>1. t.promises[q] = s.promises[q]
      BY <2>1 DEF Settling
    <3> QED BY <2>1, <3>1 DEF As, Settled
  <2>3. d = b /\ t.promises[q].result = v
    BY <2>2 DEF Settling, SettledTo, As
  <2> QED BY <2>2, <2>3
<1>3. Moved(s, t)
  <2>1. \A r \in 1..Len(s.reactions) : t.reactions[r] = s.reactions[r]
    BY DEF Settling
  <2>2. ASSUME NEW e, Has(t, e)
        PROVE  Has(s, e) /\ StillOpen(s, t, e)
    <3>1. Has(s, e)
      BY <2>2, SettlingHas
    <3>2. ASSUME e.cell # NoCell, NEW i, FinallyOf(s, PromiseOf(s, e.cell), i)
          PROVE  ~Settled(t, PromiseOf(s, e.cell))
      <4> DEFINE q == PromiseOf(s, e.cell)
      <4>1. q # p
        BY <3>1, <3>2 DEF Underived
      <4>2. ~Settled(s, q)
        BY <3>1, <3>2 DEF Owned, Routes, Route, Derives
      <4>3. q \in 1..Len(s.promises)
        BY <3>2, ClaimsTyped DEF FinallyOf
      <4>4. t.promises[q] = s.promises[q]
        BY <4>1, <4>3 DEF Settling
      <4> QED BY <4>2, <4>4 DEF Settled
    <3> QED BY <3>1, <3>2 DEF StillOpen
  <2> QED BY <2>1, <2>2 DEF Moved
<1>4. Queued(s, t)
  <2> DEFINE rs == s.promises[p].reactions
  <2> SUFFICES ASSUME NEW i \in 1..Len(t.jobs), ~\E k \in 1..Len(s.jobs) : t.jobs[i] = s.jobs[k],
                      NEW j, j = t.jobs[i]
               PROVE  /\ j.kind = "reaction"
                      /\ SettledTo(t, t.reactions[j.reaction], j.rejected, j.value)
    BY DEF Queued
  <2>1. PICK k \in 1..Len(rs) : j = ReactionJob(rs[k], b, v)
    <3>1. JobsAfter(s, t, p, b, v)
      BY SettlingJobs
    <3> QED BY <3>1 DEF JobsAfter
  <2>3. s.reactions[rs[k].id] = p
    BY InList
  <2>4. j.kind = "reaction" /\ j.reaction = rs[k].id /\ j.rejected = b /\ j.value = v
    <3> DEFINE e == rs[k]
    <3>1. j = ReactionJob(e, b, v)
      BY <2>1
    <3> HIDE DEF e
    <3>2. j.kind = "reaction" /\ j.reaction = e.id /\ j.rejected = b /\ j.value = v
      BY ONLY <3>1 DEF ReactionJob
    <3> QED BY <3>2 DEF e
  <2> QED BY <2>3, <2>4 DEF Settling
<1>5. Exposes(s, t)
  BY DEF Exposes, Settling
<1>6. t.aggregates = s.aggregates
  BY DEF Settling
<1>7. Lists(t)
  BY ListsKept DEF Owned, Settling
<1> QED BY <1>1, <1>2, <1>3, <1>4, <1>5, <1>6, <1>7, OwnedFollows

\* Nothing is settled but p, perhaps, and no reaction comes.
OnlySettles(s, t, p) ==
    /\ t.aggregates = s.aggregates /\ t.contexts = s.contexts
    /\ \A q \in 1..Len(s.promises) : q # p => t.promises[q].state = s.promises[q].state
    /\ \A x : Has(t, x) => Has(s, x)

\* The state after an operation that makes no claim.
Keeps(s, t, X, p) ==
    Kept(s, t, X) /\ Owned(t) /\ Follows(s, t) /\ OnlySettles(s, t, p)

LEMMA SettlesOwned ==
    ASSUME NEW s, NEW X, Good(s, X), Owned(s), NEW c \in 1..Len(s.cells), Open(s, c),
           NEW p, p = PromiseOf(s, c), NEW b \in BOOLEAN, NEW v \in ValuesOf(SizesOf(s)),
           Fits(s, p, b, v), ~b => Final(v), Underived(s, p),
           NEW t, \/ ~b /\ t = njs_promise_fulfill(Used(s, c), p, v)
                  \/ b /\ t = njs_promise_reject(Used(s, c), p, v)
    PROVE  Keeps(s, t, X, p)
<1>1. Typed(s) /\ Placed(s) /\ OneWay(s)
  BY DEF Good, Sound
<1>2. p \in 1..Len(s.promises) /\ ~Settled(s, p)
  BY <1>1, Elements DEF PromiseOf, OneWay
<1>3. Kept(s, t, X)
  BY SettlesGood
<1>4. Typed(t) /\ Grows(s, t)
  BY <1>3 DEF Kept, Good, Sound
<1>5. Settling(s, t, p, b, v)
  BY <1>1, <1>2, SettlesParts
<1>6. Owned(t) /\ Follows(s, t)
  BY <1>1, <1>2, <1>4, <1>5, SettlingOwned
<1>7. \A x : Has(t, x) => Has(s, x)
  BY <1>1, <1>2, <1>5, SettlingHas
<1>8. OnlySettles(s, t, p)
  BY <1>5, <1>7 DEF OnlySettles, Settling
<1> QED BY <1>3, <1>6, <1>8 DEF Keeps

-----------------------------------------------------------------------------
(* What settles nothing.                                                     *)

\* No reaction is registered.
NoneAdded(s, t) ==
    /\ t.reactions = s.reactions
    /\ \A p \in 1..Len(t.promises) :
          \/ t.promises[p].reactions = <<>>
          \/ p \in 1..Len(s.promises) /\ t.promises[p].reactions = s.promises[p].reactions
    /\ \A i \in 1..Len(t.jobs) :
          t.jobs[i].kind = "reaction" => \E k \in 1..Len(s.jobs) : t.jobs[i] = s.jobs[k]

LEMMA NoneHas ==
    ASSUME NEW s, NEW t, NoneAdded(s, t), NEW e, Has(t, e)
    PROVE  Has(s, e)
<1>1. ASSUME NEW q \in 1..Len(t.promises), NEW c \in BOOLEAN,
             NEW i \in 1..Len(t.promises[q].reactions),
             e = Half(q, c, t.promises[q].reactions[i])
      PROVE  Has(s, e)
  <2>1. t.promises[q].reactions # <<>>
    <3> SUFFICES ASSUME t.promises[q].reactions = <<>> PROVE FALSE
      OBVIOUS
    <3>1. Len(t.promises[q].reactions) = 0
      OBVIOUS
    <3> QED BY <3>1
  <2>2. q \in 1..Len(s.promises) /\ t.promises[q].reactions = s.promises[q].reactions
    BY <2>1 DEF NoneAdded
  <2> QED BY <1>1, <2>2 DEF Has
<1>2. ASSUME NEW i \in 1..Len(t.jobs), t.jobs[i].kind = "reaction", e = JobEntry(t, t.jobs[i])
      PROVE  Has(s, e)
  <2>1. PICK k \in 1..Len(s.jobs) : t.jobs[i] = s.jobs[k]
    BY <1>2 DEF NoneAdded
  <2>2. e = JobEntry(s, s.jobs[k])
    BY <1>2, <2>1 DEF JobEntry, NoneAdded
  <2> QED BY <1>2, <2>1, <2>2 DEF Has
<1> QED BY <1>1, <1>2 DEF Has

\* Every promise is as it was, or is new and pending.
SameOrPending(s, t) ==
    \A p \in 1..Len(t.promises) :
       \/ /\ p \in 1..Len(s.promises)
          /\ t.promises[p].state = s.promises[p].state
       \/ p \notin 1..Len(s.promises) /\ t.promises[p].state = "pending"

\* What pending promises stay so, and what changes nothing else.
Calm(s, t) ==
    /\ SameOrPending(s, t)
    /\ t.aggregates = s.aggregates /\ t.finallys = s.finallys /\ SameCells(s, t)
    /\ \A i \in 1..Len(t.jobs) :
          \/ \E k \in 1..Len(s.jobs) : t.jobs[i] = s.jobs[k]
          \/ t.jobs[i].kind = "thenable" /\ Asked(s, t.jobs[i].promise, t.jobs[i].value)

LEMMA CalmFollows ==
    ASSUME NEW s, NEW t, Grows(s, t), Calm(s, t)
    PROVE  Follows(s, t)
BY DEF Calm, Follows, SameLists

\* Promises that are pending are not settled.
LEMMA CalmSettles ==
    ASSUME NEW s, NEW t, SameOrPending(s, t)
    PROVE  /\ \A p \in 1..Len(s.promises) :
                 p \in 1..Len(t.promises) /\ ~Settled(s, p) => ~Settled(t, p)
           /\ SettlesFit(s, t)
<1>1. \A p \in 1..Len(s.promises) : p \in 1..Len(t.promises) /\ ~Settled(s, p) => ~Settled(t, p)
  BY DEF SameOrPending, Settled
<1>2. ASSUME NEW p \in 1..Len(t.promises), NEW b \in BOOLEAN, t.promises[p].state = As(b)
      PROVE  p \in 1..Len(s.promises) /\ Settled(s, p)
  BY <1>2 DEF SameOrPending, Settled, As
<1> QED BY <1>1, <1>2 DEF SettlesFit

\* Reactions for finally() that stay where they are find its promise pending.
LEMMA CalmOpen ==
    ASSUME NEW s, NEW t, Typed(s), Owned(s), Grows(s, t), Typed(t), SameOrPending(s, t),
           NEW e, Has(s, e)
    PROVE  StillOpen(s, t, e)
<1> SUFFICES ASSUME e.cell # NoCell, NEW i, FinallyOf(s, PromiseOf(s, e.cell), i)
             PROVE  ~Settled(t, PromiseOf(s, e.cell))
  BY DEF StillOpen
<1> DEFINE q == PromiseOf(s, e.cell)
<1>1. ~Settled(s, q)
  BY DEF Owned, Routes, Route, Derives
<1>2. q \in 1..Len(s.promises)
  BY ClaimsTyped DEF FinallyOf
<1>3. q \in 1..Len(t.promises)
  BY <1>2, Later
<1> QED BY <1>1, <1>2, <1>3, CalmSettles

LEMMA CalmOwned ==
    ASSUME NEW s, NEW t, Typed(s), Typed(t), Owned(s), Grows(s, t), NoneAdded(s, t),
           Calm(s, t), Exposes(s, t)
    PROVE  Owned(t) /\ Follows(s, t)
<1>1. Follows(s, t)
  BY CalmFollows
<1>2. SettlesFit(s, t)
  BY CalmSettles DEF Calm
<1>3. Moved(s, t)
  <2>1. \A r \in 1..Len(s.reactions) : t.reactions[r] = s.reactions[r]
    BY DEF NoneAdded
  <2>2. \A e : Has(t, e) => Has(s, e) /\ StillOpen(s, t, e)
    BY NoneHas, CalmOpen DEF Calm
  <2> QED BY <2>1, <2>2 DEF Moved
<1>4. Queued(s, t)
  BY DEF Queued, Calm
<1>5. Lists(t)
  BY ListsKept DEF Calm, Owned
<1> QED BY <1>1, <1>2, <1>3, <1>4, <1>5, OwnedFollows

\* The promise of a pair that has not been used is left to a job.
LEMMA DeferOwned ==
    ASSUME NEW s, NEW X, Good(s, X), Owned(s), NEW c \in 1..Len(s.cells), Open(s, c),
           NEW v \in ValuesOf(SizesOf(s)), Asked(s, PromiseOf(s, c), v),
           NEW t, t = njs_vm_enqueue_job(Used(s, c), ThenableJob(PromiseOf(s, c), v))
    PROVE  Keeps(s, t, X, PromiseOf(s, c))
<1> DEFINE j == ThenableJob(PromiseOf(s, c), v)
           n == SizesOf(s)
           u == Used(s, c)
<1>1. Kept(s, t, X)
  BY DeferGood
<1>2. Typed(s) /\ Typed(t) /\ Grows(s, t)
  BY <1>1 DEF Kept, Good, Sound
<1>3. /\ s = [promises |-> s.promises, cells |-> s.cells, jobs |-> s.jobs,
              aggregates |-> s.aggregates, contexts |-> s.contexts,
              tracking |-> s.tracking, rejected |-> s.rejected,
              reactions |-> s.reactions, ran |-> s.ran, finallys |-> s.finallys]
      /\ DOMAIN s.cells = 1..Len(s.cells)
  BY <1>2, Record
<1>4. /\ u.promises = s.promises /\ u.jobs = s.jobs /\ u.contexts = s.contexts
      /\ u.reactions = s.reactions /\ u.aggregates = s.aggregates /\ u.finallys = s.finallys
      /\ DOMAIN u = {"promises", "cells", "jobs", "aggregates", "contexts", "tracking",
                     "rejected", "reactions", "ran", "finallys"}
  BY <1>3 DEF Used
<1>5. /\ Len(u.cells) = Len(s.cells)
      /\ \A d \in 1..Len(s.cells) : /\ u.cells[d].promise = s.cells[d].promise
                                    /\ u.cells[d].exposed = s.cells[d].exposed
  <2> DEFINE q == [s.cells[c] EXCEPT !.resolved = TRUE]
             S == CellsOf(SizesOf(s)) \cup {q}
  <2>1. s.cells \in Seq(CellsOf(SizesOf(s)))
    BY <1>2, Fields DEF Typed
  <2>2. s.cells \in Seq(S) /\ q \in S
    BY <2>1, SeqMonotonic, CellsOf(SizesOf(s)) \subseteq S
  <2>3. q.promise = s.cells[c].promise /\ q.exposed = s.cells[c].exposed
    <3>1. s.cells[c] \in CellsOf(SizesOf(s))
      BY <1>2, Elements
    <3> QED BY <3>1 DEF CellsOf
  <2>4. u.cells = [s.cells EXCEPT ![c] = q]
    BY <1>3 DEF Used
  <2> HIDE DEF q, S
  <2>5. /\ Len(u.cells) = Len(s.cells)
        /\ \A d \in 1..Len(s.cells) : u.cells[d] = IF d = c THEN q ELSE s.cells[d]
    BY <2>2, <2>4, ExceptSeq
  <2> QED BY <2>3, <2>5
<1> HIDE DEF u
<1>6. /\ t.promises = s.promises /\ t.jobs = Append(s.jobs, j) /\ t.contexts = s.contexts
      /\ t.reactions = s.reactions /\ t.aggregates = s.aggregates /\ t.finallys = s.finallys
      /\ t.cells = u.cells
  <2>1. t = njs_vm_enqueue_job(u, j)
    BY DEF u
  <2> HIDE DEF j
  <2> QED BY <1>4, <2>1 DEF njs_vm_enqueue_job
<1>7. j.kind = "thenable" /\ j.promise = PromiseOf(s, c) /\ j.value = v
  BY DEF ThenableJob
<1> HIDE DEF j
<1>8. ASSUME NEW i \in 1..Len(t.jobs)
      PROVE  t.jobs[i] = j \/ \E k \in 1..Len(s.jobs) : t.jobs[i] = s.jobs[k]
  <2> DEFINE J == JobsOf(n) \cup {j}
  <2>1. s.jobs \in Seq(JobsOf(n))
    BY <1>2, Fields DEF Typed
  <2>2. s.jobs \in Seq(J) /\ j \in J
    BY <2>1, SeqMonotonic, JobsOf(n) \subseteq J
  <2> HIDE DEF J
  <2>3. /\ Len(t.jobs) = Len(s.jobs) + 1 /\ Len(s.jobs) \in Nat
        /\ \A k \in 1..Len(s.jobs) : t.jobs[k] = s.jobs[k]
        /\ t.jobs[Len(s.jobs) + 1] = j
    BY <1>6, <2>2, AppendProperties, LenProperties
  <2>4. i = Len(s.jobs) + 1 \/ i \in 1..Len(s.jobs)
    BY <2>3
  <2> QED BY <2>3, <2>4
<1>9. NoneAdded(s, t)
  BY <1>6, <1>7, <1>8 DEF NoneAdded
<1>10. Calm(s, t)
  <2>1. SameOrPending(s, t)
    BY <1>6 DEF SameOrPending
  <2>2. SameCells(s, t)
    BY <1>5, <1>6 DEF SameCells
  <2> QED BY <1>6, <1>7, <1>8, <2>1, <2>2 DEF Calm
<1>11. Exposes(s, t)
  BY <1>5, <1>6 DEF Exposes
<1>12. OnlySettles(s, t, PromiseOf(s, c))
  BY <1>6, <1>9, NoneHas DEF OnlySettles
<1> QED BY <1>1, <1>2, <1>9, <1>10, <1>11, <1>12, CalmOwned DEF Keeps

-----------------------------------------------------------------------------
(* The resolving functions.                                                  *)

LEMMA FollowsTransitive ==
    ASSUME NEW s, NEW t, NEW u, Typed(s), Typed(t), Typed(u), Follows(s, t), Follows(t, u)
    PROVE  Follows(s, u)
<1>1. Grows(s, u) /\ Grows(s, t)
  BY GrowsTransitive DEF Follows
<1>2. 1..Len(s.cells) \subseteq 1..Len(t.cells)
  BY <1>1, Later
<1>3. SameCells(s, u)
  BY <1>2 DEF Follows, SameCells
<1>4. SameLists(s, u)
  BY DEF Follows, SameLists
<1> QED BY <1>1, <1>3, <1>4 DEF Follows

LEMMA FollowsReflexive ==
    ASSUME NEW s, Typed(s)
    PROVE  Follows(s, s)
BY GrowsReflexive DEF Follows, SameLists, SameCells

LEMMA KeepsReflexive ==
    ASSUME NEW s, NEW X, Good(s, X), Owned(s), NEW p
    PROVE  Keeps(s, s, X, p)
BY KeptReflexive, FollowsReflexive DEF Keeps, OnlySettles, Good, Sound

\* A promise without claims may be settled as anything.
LEMMA FreeFits ==
    ASSUME NEW s, NEW p, Free(s, p)
    PROVE  /\ \A b, v : Fits(s, p, b, v)
           /\ \A v : Asked(s, p, v)
           /\ Underived(s, p)
           /\ \A e : Derives(s, p, e) /\ Into(s, p, e)
BY DEF Free, Fits, Asked, Underived, Derives, Into

\* The claims of p allow that it is settled so.
Allows(s, p, b, v) ==
    Free(s, p) \/ (Fits(s, p, b, v) /\ Underived(s, p) /\ (~b => Final(v)))

LEMMA ResolveOwned ==
    ASSUME NEW s, NEW X, Good(s, X), Owned(s), NEW c \in 1..Len(s.cells),
           NEW v \in ValuesOf(SizesOf(s)),
           \/ Allows(s, PromiseOf(s, c), FALSE, v)
           \/ /\ v.kind = "promise" /\ Asked(s, PromiseOf(s, c), v)
              /\ v # Value("promise", PromiseOf(s, c)),
           NEW t, t = njs_promise_resolve_function(s, c, v)
    PROVE  Keeps(s, t, X, PromiseOf(s, c))
<1> DEFINE p == PromiseOf(s, c)
<1>1. CASE s.cells[c].resolved
  <2>1. t = s
    BY <1>1 DEF njs_promise_resolve_function
  <2> QED BY <2>1, KeepsReflexive
<1>2. CASE ~s.cells[c].resolved /\ (v = Value("promise", p) \/ v.kind = "trap")
  <2>1. t = njs_promise_reject(Used(s, c), p, TypeErrorValue)
    BY <1>2 DEF njs_promise_resolve_function
  <2>2. Free(s, p)
    <3>1. ~Final(v)
      BY <1>2 DEF Final, Value
    <3>2. ~(v.kind = "promise" /\ v # Value("promise", p))
      BY <1>2
    <3> QED BY <3>1, <3>2 DEF Allows
  <2>3. TypeErrorValue \in ValuesOf(SizesOf(s))
    BY DEF TypeErrorValue, Value, ValuesOf, Values_, Kinds
  <2>4. Fits(s, p, TRUE, TypeErrorValue) /\ Underived(s, p)
    BY <2>2, FreeFits
  <2> HIDE DEF p
  <2>5. p = PromiseOf(s, c) /\ Open(s, c)
    BY <1>2 DEF p, Open
  <2>6. \E b \in BOOLEAN : /\ Fits(s, p, b, TypeErrorValue) /\ (~b => Final(TypeErrorValue))
                           /\ b /\ t = njs_promise_reject(Used(s, c), p, TypeErrorValue)
    BY <2>1, <2>4
  <2> QED BY <2>3, <2>4, <2>5, <2>6, SettlesOwned
<1>3. CASE /\ ~s.cells[c].resolved /\ ~(v = Value("promise", p) \/ v.kind = "trap")
           /\ v.kind \in {"promise", "thenable"}
  <2>1. t = njs_vm_enqueue_job(Used(s, c), ThenableJob(p, v))
    BY <1>3 DEF njs_promise_resolve_function
  <2>2. Asked(s, p, v)
    <3>1. ~Final(v)
      BY <1>3 DEF Final
    <3> QED BY <3>1, FreeFits DEF Allows
  <2> QED BY <1>3, <2>1, <2>2, DeferOwned DEF Open
<1>4. CASE /\ ~s.cells[c].resolved /\ ~(v = Value("promise", p) \/ v.kind = "trap")
           /\ v.kind \notin {"promise", "thenable"}
  <2>1. t = njs_promise_fulfill(Used(s, c), p, v)
    BY <1>4 DEF njs_promise_resolve_function
  <2>2. Final(v)
    BY <1>4 DEF Final
  <2>3. Fits(s, p, FALSE, v) /\ Underived(s, p)
    BY <1>4, FreeFits DEF Allows
  <2> HIDE DEF p
  <2>5. p = PromiseOf(s, c) /\ Open(s, c)
    BY <1>4 DEF p, Open
  <2>6. \E b \in BOOLEAN : /\ Fits(s, p, b, v) /\ (~b => Final(v))
                           /\ ~b /\ t = njs_promise_fulfill(Used(s, c), p, v)
    BY <2>1, <2>2, <2>3
  <2> QED BY <2>3, <2>5, <2>6, SettlesOwned
<1> QED BY <1>1, <1>2, <1>3, <1>4

LEMMA RejectOwned ==
    ASSUME NEW s, NEW X, Good(s, X), Owned(s), NEW c \in 1..Len(s.cells),
           NEW v \in ValuesOf(SizesOf(s)), Allows(s, PromiseOf(s, c), TRUE, v),
           NEW t, t = njs_promise_reject_function(s, c, v)
    PROVE  Keeps(s, t, X, PromiseOf(s, c))
<1> DEFINE p == PromiseOf(s, c)
<1>1. CASE s.cells[c].resolved
  <2>1. t = s
    BY <1>1 DEF njs_promise_reject_function
  <2> QED BY <2>1, KeepsReflexive
<1>2. CASE ~s.cells[c].resolved
  <2>1. t = njs_promise_reject(Used(s, c), p, v)
    BY <1>2 DEF njs_promise_reject_function
  <2>2. Fits(s, p, TRUE, v) /\ Underived(s, p)
    BY FreeFits DEF Allows
  <2> HIDE DEF p
  <2>3. p = PromiseOf(s, c) /\ Open(s, c)
    BY <1>2 DEF p, Open
  <2>4. \E b \in BOOLEAN : /\ Fits(s, p, b, v) /\ (~b => Final(v))
                           /\ b /\ t = njs_promise_reject(Used(s, c), p, v)
    BY <2>1, <2>2
  <2> QED BY <2>2, <2>3, <2>4, SettlesOwned
<1> QED BY <1>1, <1>2

LEMMA SettleOwned ==
    ASSUME NEW s, NEW X, Good(s, X), Owned(s), NEW c \in 0..Len(s.cells),
           NEW v \in ValuesOf(SizesOf(s)), NEW b \in BOOLEAN,
           \/ c = NoCell
           \/ Allows(s, PromiseOf(s, c), b, v)
           \/ /\ ~b /\ v.kind = "promise" /\ Asked(s, PromiseOf(s, c), v)
              /\ v # Value("promise", PromiseOf(s, c)),
           NEW t, t = Settle(s, c, b, v)
    PROVE  Keeps(s, t, X, PromiseOf(s, c))
<1>1. CASE c = NoCell
  <2>1. t = s
    BY <1>1 DEF Settle
  <2> QED BY <2>1, KeepsReflexive
<1>2. CASE c # NoCell
  <2>1. c \in 1..Len(s.cells)
    BY <1>2 DEF NoCell
  <2>2. CASE b
    <3>1. t = njs_promise_reject_function(s, c, v)
      BY <1>2, <2>2 DEF Settle
    <3>2. Allows(s, PromiseOf(s, c), TRUE, v)
      BY <1>2, <2>2
    <3> QED BY <2>1, <3>1, <3>2, RejectOwned
  <2>3. CASE ~b
    <3>1. t = njs_promise_resolve_function(s, c, v)
      BY <1>2, <2>3 DEF Settle
    <3>2. \/ Allows(s, PromiseOf(s, c), FALSE, v)
          \/ /\ v.kind = "promise" /\ Asked(s, PromiseOf(s, c), v)
             /\ v # Value("promise", PromiseOf(s, c))
      BY <1>2, <2>3
    <3> QED BY <2>1, <3>1, <3>2, ResolveOwned
  <2> QED BY <2>2, <2>3
<1> QED BY <1>1, <1>2

-----------------------------------------------------------------------------
(* A promise and its functions are created.                                  *)

\* Nothing that settles promise p is at hand.
Alone(s, p) ==
    /\ ~Settled(s, p)
    /\ \A e : Has(s, e) =>
          /\ e.cell # NoCell => PromiseOf(s, e.cell) # p
          /\ e.handler.kind \in {"resolve", "reject"} => PromiseOf(s, e.handler.id) # p
    /\ \A i \in 1..Len(s.jobs) : Asks(s, i) => s.jobs[i].promise # p
    /\ \A c \in 1..Len(s.cells) : s.cells[c].exposed => PromiseOf(s, c) # p
    /\ \A x \in 1..Len(s.contexts) : PromiseOf(s, s.contexts[x].cell) # p

Fresh(s, p) == Alone(s, p) /\ Free(s, p)

Creating(s, t, e) ==
    /\ t.reactions = s.reactions /\ t.jobs = s.jobs /\ t.contexts = s.contexts
    /\ t.aggregates = s.aggregates /\ t.finallys = s.finallys
    /\ Len(t.promises) = Len(s.promises) + 1
    /\ \A p \in 1..Len(s.promises) : t.promises[p] = s.promises[p]
    /\ t.promises[Len(t.promises)].state = "pending"
    /\ t.promises[Len(t.promises)].reactions = <<>>
    /\ Len(t.cells) = Len(s.cells) + 1
    /\ \A c \in 1..Len(s.cells) : t.cells[c] = s.cells[c]
    /\ t.cells[Len(t.cells)].promise = Len(t.promises)
    /\ t.cells[Len(t.cells)].exposed = e

LEMMA CapabilityParts ==
    ASSUME NEW s, Typed(s), NEW e \in BOOLEAN,
           NEW t, t = njs_promise_new_capability(s, e)
    PROVE  Creating(s, t, e)
<1> DEFINE q == [state |-> "pending", result |-> Undefined, handled |-> FALSE, reactions |-> <<>>]
           m == Len(s.promises) + 1
           d == [promise |-> m, resolved |-> FALSE, exposed |-> e]
           P == PromisesOf(SizesOf(s)) \cup {q}
           C == CellsOf(SizesOf(s)) \cup {d}
<1>1. /\ s = [promises |-> s.promises, cells |-> s.cells, jobs |-> s.jobs,
              aggregates |-> s.aggregates, contexts |-> s.contexts,
              tracking |-> s.tracking, rejected |-> s.rejected,
              reactions |-> s.reactions, ran |-> s.ran, finallys |-> s.finallys]
  BY Record
<1>2. /\ t.promises = Append(s.promises, q) /\ t.cells = Append(s.cells, d)
      /\ t.reactions = s.reactions /\ t.jobs = s.jobs /\ t.contexts = s.contexts
      /\ t.aggregates = s.aggregates /\ t.finallys = s.finallys
  BY <1>1 DEF njs_promise_new_capability, njs_promise_create_resolving_functions,
              njs_promise_alloc
<1>3. q.state = "pending" /\ q.reactions = <<>> /\ d.promise = m /\ d.exposed = e
  OBVIOUS
<1>4. s.promises \in Seq(P) /\ q \in P /\ s.cells \in Seq(C) /\ d \in C
  <2>1. s.promises \in Seq(PromisesOf(SizesOf(s))) /\ s.cells \in Seq(CellsOf(SizesOf(s)))
    BY Fields DEF Typed
  <2>2. PromisesOf(SizesOf(s)) \subseteq P /\ CellsOf(SizesOf(s)) \subseteq C /\ q \in P /\ d \in C
    OBVIOUS
  <2> HIDE DEF P, C, q, d
  <2> QED BY <2>1, <2>2, SeqMonotonic
<1> HIDE DEF P, C, q, d
<1>5. /\ Len(t.promises) = Len(s.promises) + 1
      /\ \A p \in 1..Len(s.promises) : t.promises[p] = s.promises[p]
      /\ t.promises[Len(s.promises) + 1] = q
  BY <1>2, <1>4, AppendProperties
<1>6. /\ Len(t.cells) = Len(s.cells) + 1
      /\ \A c \in 1..Len(s.cells) : t.cells[c] = s.cells[c]
      /\ t.cells[Len(s.cells) + 1] = d
  BY <1>2, <1>4, AppendProperties
<1> QED BY <1>2, <1>3, <1>5, <1>6 DEF Creating

LEMMA CreatingOwned ==
    ASSUME NEW s, NEW t, Typed(s), Typed(t), Owned(s), Grows(s, t), NEW e \in BOOLEAN,
           Creating(s, t, e)
    PROVE  /\ Owned(t) /\ Follows(s, t) /\ \A f : Has(t, f) => Has(s, f)
           /\ Len(t.promises) \notin 1..Len(s.promises) /\ Free(t, Len(t.promises))
<1> DEFINE m == Len(t.promises)
<1>1. /\ Len(s.promises) \in Nat /\ Len(s.cells) \in Nat
      /\ m = Len(s.promises) + 1 /\ Len(t.cells) = Len(s.cells) + 1
  BY ClaimsTyped DEF Creating
<1>2. ASSUME NEW p \in 1..m, p \notin 1..Len(s.promises)
      PROVE  p = m
  BY <1>1, <1>2 DEF Creating
<1>3. ASSUME NEW c \in 1..Len(t.cells), c \notin 1..Len(s.cells)
      PROVE  PromiseOf(t, c) = m
  <2>1. c = Len(t.cells)
    BY <1>1, <1>3
  <2> QED BY <2>1 DEF Creating, PromiseOf
<1>4. m \notin 1..Len(s.promises) /\ m # 0
  BY <1>1
<1>5. Free(s, m)
  <2>1. \A i : ~AggregateOf(s, m, i)
    BY <1>4, ClaimsTyped DEF AggregateOf
  <2>2. \A i : ~FinallyOf(s, m, i)
    BY <1>4, ClaimsTyped DEF FinallyOf
  <2>3. \A i : ~InnerOf(s, m, i)
    <3> SUFFICES ASSUME NEW i, InnerOf(s, m, i) PROVE FALSE
      OBVIOUS
    <3>1. m \in 0..Len(s.promises)
      BY ClaimsTyped DEF InnerOf
    <3> QED BY <1>1, <3>1
  <2> QED BY <2>1, <2>2, <2>3 DEF Free
<1>6. NoneAdded(s, t)
  <2>1. ASSUME NEW p \in 1..m
        PROVE  \/ t.promises[p].reactions = <<>>
               \/ p \in 1..Len(s.promises) /\ t.promises[p].reactions = s.promises[p].reactions
    BY <1>2 DEF Creating
  <2> QED BY <2>1 DEF NoneAdded, Creating
<1>7. Calm(s, t)
  <2>1. SameOrPending(s, t)
    BY <1>2, <1>4 DEF SameOrPending, Creating
  <2>2. SameCells(s, t)
    BY DEF SameCells, Creating
  <2> QED BY <2>1, <2>2 DEF Calm, Creating
<1>8. Exposes(s, t)
  BY <1>3, <1>5 DEF Exposes, Creating
<1>9. Owned(t) /\ Follows(s, t)
  BY <1>6, <1>7, <1>8, CalmOwned
<1>10. \A f : Has(t, f) => Has(s, f)
  BY <1>6, NoneHas
<1>11. Free(t, m)
  BY <1>5, <1>9, FreeKept
<1> QED BY <1>4, <1>9, <1>10, <1>11

LEMMA CreatingFresh ==
    ASSUME NEW s, NEW t, Typed(s), Typed(t), Owned(s), Grows(s, t), Creating(s, t, FALSE)
    PROVE  Fresh(t, Len(t.promises))
<1> DEFINE m == Len(t.promises)
<1>1. /\ Owned(t) /\ Follows(s, t) /\ \A f : Has(t, f) => Has(s, f)
      /\ m \notin 1..Len(s.promises) /\ Free(t, m)
  BY CreatingOwned
<1>2. /\ Len(s.promises) \in Nat /\ Len(s.cells) \in Nat
      /\ Len(t.cells) = Len(s.cells) + 1
  BY ClaimsTyped DEF Creating
<1>3. \A c \in 1..Len(s.cells) : PromiseOf(t, c) \in 1..Len(s.promises)
  BY ClaimsTyped DEF Creating, PromiseOf
<1>4. ~Settled(t, m)
  BY DEF Settled, Creating
<1>5. ASSUME NEW e, Has(t, e)
      PROVE  /\ e.cell # NoCell => PromiseOf(t, e.cell) # m
             /\ e.handler.kind \in {"resolve", "reject"} => PromiseOf(t, e.handler.id) # m
  <2>1. e \in EntriesOf(SizesOf(s))
    BY <1>1, <1>5, EntryTyped
  <2>2. e.cell \in 0..Len(s.cells) /\ e.handler \in HandlersOf(SizesOf(s))
    BY <2>1 DEF EntriesOf, SizesOf
  <2>3. e.cell # NoCell => e.cell \in 1..Len(s.cells)
    BY <1>2, <2>2 DEF NoCell
  <2>4. e.handler.kind \in {"resolve", "reject"} => e.handler.id \in 1..Len(s.cells)
    BY <2>2 DEF HandlersOf, SizesOf
  <2> QED BY <1>1, <1>3, <2>3, <2>4
<1>6. ASSUME NEW i \in 1..Len(t.jobs), Asks(t, i)
      PROVE  t.jobs[i].promise # m
  <2>1. t.jobs = s.jobs
    BY DEF Creating
  <2>2. s.jobs[i].promise \in 1..Len(s.promises)
    BY <1>6, <2>1, Elements DEF Asks
  <2> QED BY <1>1, <2>1, <2>2
<1>7. ASSUME NEW c \in 1..Len(t.cells), t.cells[c].exposed
      PROVE  PromiseOf(t, c) # m
  <2>1. c # Len(t.cells)
    BY <1>7 DEF Creating
  <2>2. c \in 1..Len(s.cells)
    BY <1>2, <2>1
  <2> QED BY <1>1, <1>3, <2>2
<1>8. ASSUME NEW x \in 1..Len(t.contexts)
      PROVE  PromiseOf(t, t.contexts[x].cell) # m
  <2>1. t.contexts = s.contexts
    BY DEF Creating
  <2>2. s.contexts[x].cell \in 1..Len(s.cells)
    BY <2>1, Elements DEF ContextsOf, SizesOf
  <2> QED BY <1>1, <1>3, <2>1, <2>2
<1> QED BY <1>1, <1>4, <1>5, <1>6, <1>7, <1>8 DEF Fresh, Alone

LEMMA CapabilityOwned ==
    ASSUME NEW s, NEW X, Good(s, X), Owned(s), NEW e \in BOOLEAN,
           NEW t, t = njs_promise_new_capability(s, e)
    PROVE  /\ Good(t, X) /\ Owned(t) /\ Follows(s, t)
           /\ Len(t.promises) = Len(s.promises) + 1 /\ Len(t.cells) = Len(s.cells) + 1
           /\ t.aggregates = s.aggregates /\ t.contexts = s.contexts /\ t.finallys = s.finallys
           /\ PromiseOf(t, Len(t.cells)) = Len(t.promises) /\ Free(t, Len(t.promises))
           /\ ~e => Fresh(t, Len(t.promises))
           /\ \A f : Has(t, f) => Has(s, f)
<1>1. /\ Good(t, X) /\ Grows(s, t)
      /\ Len(t.promises) = Len(s.promises) + 1 /\ Len(t.cells) = Len(s.cells) + 1
      /\ t.aggregates = s.aggregates /\ t.contexts = s.contexts /\ t.finallys = s.finallys
  BY CapabilityGood
<1>2. Typed(s) /\ Typed(t)
  BY <1>1 DEF Good, Sound
<1>3. Creating(s, t, e)
  BY <1>2, CapabilityParts
<1>4. /\ Owned(t) /\ Follows(s, t) /\ \A f : Has(t, f) => Has(s, f)
      /\ Free(t, Len(t.promises))
  BY <1>1, <1>2, <1>3, CreatingOwned
<1>5. ~e => Fresh(t, Len(t.promises))
  <2> SUFFICES ASSUME ~e PROVE Fresh(t, Len(t.promises))
    OBVIOUS
  <2>1. Creating(s, t, FALSE)
    BY <1>3 DEF Creating
  <2> QED BY <1>1, <1>2, <2>1, CreatingFresh
<1>6. PromiseOf(t, Len(t.cells)) = Len(t.promises)
  BY <1>3 DEF Creating, PromiseOf
<1> QED BY <1>1, <1>4, <1>5, <1>6

-----------------------------------------------------------------------------
(* A reaction is registered.                                                 *)

\* What then() does: reaction e of promise p is in its list, or in the queue.
Registering(s, t, p, e) ==
    /\ t.reactions = Append(s.reactions, p) /\ e.id = Len(s.reactions) + 1
    /\ t.cells = s.cells /\ t.aggregates = s.aggregates
    /\ t.contexts = s.contexts /\ t.finallys = s.finallys
    /\ Len(t.promises) = Len(s.promises) /\ SameStates(s, t)
    /\ \A q \in 1..Len(s.promises) :
          q # p \/ Settled(s, p) => t.promises[q].reactions = s.promises[q].reactions
    /\ Settled(s, p) \/ t.promises[p].reactions = Append(s.promises[p].reactions, e)
    /\ t.jobs = IF Settled(s, p)
                THEN Append(s.jobs, ReactionJob(e, s.promises[p].state = "rejected",
                                                s.promises[p].result))
                ELSE s.jobs

LEMMA ThenParts ==
    ASSUME NEW s, Typed(s), NEW p \in 1..Len(s.promises), NEW f, NEW r, NEW c,
           NEW t, t = njs_promise_perform_then(s, p, f, r, c)
    PROVE  Registering(s, t, p, Reaction(s, f, r, c))
<1> DEFINE e == Reaction(s, f, r, c)
           q == s.promises[p]
           rs == IF q.state = "pending" THEN Append(q.reactions, e) ELSE q.reactions
           y == [s.promises EXCEPT ![p] = [q EXCEPT !.handled = TRUE, !.reactions = rs]]
<1>1. e.id = Len(s.reactions) + 1
  BY DEF Reaction
<1>2. /\ DOMAIN s = {"promises", "cells", "jobs", "aggregates", "contexts", "tracking",
                     "rejected", "reactions", "ran", "finallys"}
      /\ DOMAIN s.promises = 1..Len(s.promises)
      /\ DOMAIN q = {"state", "result", "handled", "reactions"}
      /\ s.promises \in Seq(PromisesOf(SizesOf(s)))
  BY SMTT(20), Record, Fields DEF Typed
<1> HIDE DEF e
<1>3. /\ t.promises = y /\ t.reactions = Append(s.reactions, p)
      /\ t.cells = s.cells /\ t.aggregates = s.aggregates
      /\ t.contexts = s.contexts /\ t.finallys = s.finallys
      /\ q.state = "pending" => t.jobs = s.jobs
      /\ q.state # "pending" =>
            t.jobs = Append(s.jobs, ReactionJob(e, q.state = "rejected", q.result))
  BY <1>2 DEF njs_promise_perform_then, njs_vm_enqueue_job, ngx_js_rejection_tracker, e
<1>4. /\ Len(y) = Len(s.promises)
      /\ \A i \in 1..Len(s.promises) : i # p => y[i] = s.promises[i]
      /\ y[p].state = q.state /\ y[p].result = q.result /\ y[p].reactions = rs
  <2> DEFINE z == [q EXCEPT !.handled = TRUE, !.reactions = rs]
             S == PromisesOf(SizesOf(s)) \cup {z}
  <2>1. z.state = q.state /\ z.result = q.result /\ z.reactions = rs
    BY <1>2
  <2>2. s.promises \in Seq(S) /\ z \in S
    BY <1>2, SeqMonotonic, PromisesOf(SizesOf(s)) \subseteq S
  <2> HIDE DEF z, S
  <2>3. y = [s.promises EXCEPT ![p] = z]
    BY DEF z
  <2> HIDE DEF y
  <2> QED BY <2>1, <2>2, <2>3, ExceptSeq
<1> HIDE DEF y
<1>5. Settled(s, p) <=> q.state # "pending"
  BY DEF Settled
<1>6. SameStates(s, t)
  BY <1>3, <1>4 DEF SameStates
<1>7. \A i \in 1..Len(s.promises) :
          i # p \/ Settled(s, p) => t.promises[i].reactions = s.promises[i].reactions
  BY <1>3, <1>4, <1>5
<1>8. Settled(s, p) \/ t.promises[p].reactions = Append(s.promises[p].reactions, e)
  BY <1>3, <1>4, <1>5
<1> QED BY <1>1, <1>3, <1>4, <1>5, <1>6, <1>7, <1>8 DEF Registering, e

\* Nothing but e has come.
LEMMA RegisteringHas ==
    ASSUME NEW s, NEW t, Typed(s), NEW p \in 1..Len(s.promises),
           NEW e \in ReactionsOf(SizesOf(t)), Registering(s, t, p, e), NEW x, Has(t, x)
    PROVE  Has(s, x) \/ \E b \in BOOLEAN : x = Half(p, b, e)
<1> DEFINE n == Len(s.reactions)
<1>1. /\ n \in Nat /\ Len(s.jobs) \in Nat /\ s.reactions \in Seq(1..Len(s.promises))
      /\ s.jobs \in Seq(JobsOf(SizesOf(s)))
      /\ \A i \in 1..Len(s.promises) : Len(s.promises[i].reactions) \in Nat
      /\ \A i \in 1..Len(s.promises) : s.promises[i].reactions \in Seq(ReactionsOf(SizesOf(s)))
      /\ \A i \in 1..Len(s.jobs) : s.jobs[i].kind = "reaction" => s.jobs[i].reaction \in 1..n
  <2>1. /\ s.reactions \in Seq(1..Len(s.promises)) /\ s.jobs \in Seq(JobsOf(SizesOf(s)))
    BY Fields DEF Typed, SizesOf
  <2>2. \A i \in 1..Len(s.promises) : s.promises[i].reactions \in Seq(ReactionsOf(SizesOf(s)))
    BY Elements DEF PromisesOf
  <2>3. \A i \in 1..Len(s.jobs) : s.jobs[i].kind = "reaction" => s.jobs[i].reaction \in 1..n
    BY Elements, JobEntryTyped
  <2>4. n \in Nat /\ Len(s.jobs) \in Nat
    BY <2>1, LenProperties
  <2>5. \A i \in 1..Len(s.promises) : Len(s.promises[i].reactions) \in Nat
    BY <2>2, LenProperties
  <2> QED BY <2>1, <2>2, <2>3, <2>4, <2>5
<1>2. t.reactions[n + 1] = p /\ \A r \in 1..n : t.reactions[r] = s.reactions[r]
  <2>1. t.reactions = Append(s.reactions, p) /\ p \in 1..Len(s.promises)
    BY DEF Registering
  <2> QED BY <1>1, <2>1, AppendProperties
<1>3. Len(t.promises) = Len(s.promises)
  BY DEF Registering
<1>4. CASE \E q \in 1..Len(t.promises), b \in BOOLEAN :
              \E i \in 1..Len(t.promises[q].reactions) :
                 x = Half(q, b, t.promises[q].reactions[i])
  <2> PICK q \in 1..Len(t.promises), b \in BOOLEAN :
             \E i \in 1..Len(t.promises[q].reactions) : x = Half(q, b, t.promises[q].reactions[i])
    BY <1>4
  <2> PICK i \in 1..Len(t.promises[q].reactions) : x = Half(q, b, t.promises[q].reactions[i])
    OBVIOUS
  <2>1. q \in 1..Len(s.promises)
    BY <1>3
  <2>2. CASE t.promises[q].reactions = s.promises[q].reactions
    BY <2>1, <2>2 DEF Has
  <2>3. CASE t.promises[q].reactions # s.promises[q].reactions
    <3>1. q = p /\ t.promises[p].reactions = Append(s.promises[p].reactions, e)
      BY <2>1, <2>3 DEF Registering
    <3> DEFINE rs == s.promises[p].reactions
               R == ReactionsOf(SizesOf(s)) \cup {e}
    <3>2. rs \in Seq(R) /\ e \in R /\ Len(rs) \in Nat
      BY <1>1, SeqMonotonic, ReactionsOf(SizesOf(s)) \subseteq R
    <3>3. x = Half(p, b, Append(rs, e)[i]) /\ i \in 1..Len(Append(rs, e))
      BY <3>1
    <3>4. CASE i \in 1..Len(rs)
      <4> HIDE DEF R
      <4>1. Append(rs, e)[i] = rs[i]
        BY <3>2, <3>4, AppendProperties
      <4>2. x = Half(p, b, s.promises[p].reactions[i])
        BY <3>3, <4>1
      <4> QED BY <4>2, <3>4 DEF Has
    <3>5. CASE i \notin 1..Len(rs)
      <4> HIDE DEF R, rs
      <4>1. Append(rs, e)[i] = e
        BY <3>2, <3>3, <3>5, AppendProperties
      <4> QED BY <3>3, <4>1
    <3> QED BY <3>4, <3>5
  <2> QED BY <2>2, <2>3
<1>5. CASE \E i \in 1..Len(t.jobs) : t.jobs[i].kind = "reaction" /\ x = JobEntry(t, t.jobs[i])
  <2> PICK i \in 1..Len(t.jobs) : t.jobs[i].kind = "reaction" /\ x = JobEntry(t, t.jobs[i])
    BY <1>5
  <2>1. ASSUME NEW k \in 1..Len(s.jobs), t.jobs[i] = s.jobs[k]
        PROVE  Has(s, x)
    <3>1. s.jobs[k].kind = "reaction" /\ s.jobs[k].reaction \in 1..n
      BY <1>1, <2>1
    <3>2. x = JobEntry(s, s.jobs[k])
      BY <1>2, <2>1, <3>1 DEF JobEntry
    <3> QED BY <3>1, <3>2 DEF Has
  <2>2. CASE ~Settled(s, p)
    BY <2>1, <2>2 DEF Registering
  <2>3. CASE Settled(s, p)
    <3> DEFINE b == s.promises[p].state = "rejected"
               v == s.promises[p].result
               j == ReactionJob(e, b, v)
               J == JobsOf(SizesOf(s)) \cup {j}
    <3>1. t.jobs = Append(s.jobs, j) /\ e.id = n + 1
      BY <2>3 DEF Registering
    <3>2. b \in BOOLEAN
      OBVIOUS
    <3>3. /\ j.rejected = b /\ j.cell = e.cell /\ j.reaction = n + 1
          /\ j.handler = IF b THEN e.rejected ELSE e.fulfilled
      <4> HIDE DEF b, v
      <4> QED BY <3>1, <3>2, ReactionJobParts
    <3>4. s.jobs \in Seq(J) /\ j \in J /\ Len(s.jobs) \in Nat
      BY <1>1, SeqMonotonic, JobsOf(SizesOf(s)) \subseteq J
    <3>5. i \in 1..Len(Append(s.jobs, j)) /\ t.jobs[i] = Append(s.jobs, j)[i]
      BY <3>1
    <3> HIDE DEF J, j, b
    <3>6. CASE i \in 1..Len(s.jobs)
      BY <2>1, <3>4, <3>5, <3>6, AppendProperties
    <3>7. CASE i \notin 1..Len(s.jobs)
      <4>1. t.jobs[i] = j
        BY <3>4, <3>5, <3>7, AppendProperties
      <4>2. x = Half(p, b, e)
        BY <1>2, <3>1, <3>3, <4>1 DEF JobEntry, Half
      <4> QED BY <3>2, <4>2
    <3> QED BY <3>6, <3>7
  <2> QED BY <2>2, <2>3
<1> QED BY <1>4, <1>5 DEF Has

\* Pair c is that of no reaction.
Unshared(s, c) == c # NoCell => \A x : Has(s, x) => x.cell # c

\* The entries of the new reaction.
Halves(p, e, x) == \E b \in BOOLEAN : x = Half(p, b, e)

LEMMA RegisteringOwned ==
    ASSUME NEW s, NEW t, Typed(s), Typed(t), Owned(s), Grows(s, t),
           NEW p \in 1..Len(s.promises), NEW e \in ReactionsOf(SizesOf(t)),
           e.fulfilled \in HandlersOf(SizesOf(s)), e.rejected \in HandlersOf(SizesOf(s)),
           e.cell \in 0..Len(s.cells), Unshared(s, e.cell),
           Registering(s, t, p, e), \A x : Halves(p, e, x) => Route(s, x)
    PROVE  /\ Owned(t) /\ Follows(s, t)
           /\ \A x : Has(t, x) => Has(s, x) \/ Halves(p, e, x)
<1>1. SameOrPending(s, t)
  BY DEF SameOrPending, Registering, SameStates
<1>2. Follows(s, t)
  BY DEF Follows, SameLists, SameCells, Registering
<1>3. SettlesFit(s, t)
  BY <1>1, CalmSettles
<1>4. \A x : Has(t, x) => Has(s, x) \/ Halves(p, e, x)
  BY RegisteringHas DEF Halves
<1>5. p \in 1..Len(t.promises)
  BY DEF Registering
<1>6. /\ s.reactions \in Seq(1..Len(s.promises)) /\ s.jobs \in Seq(JobsOf(SizesOf(s)))
      /\ Len(s.jobs) \in Nat /\ Len(s.reactions) \in Nat
  <2>1. s.reactions \in Seq(1..Len(s.promises)) /\ s.jobs \in Seq(JobsOf(SizesOf(s)))
    BY Fields DEF Typed, SizesOf
  <2> QED BY <2>1, LenProperties
<1>7. /\ \A r \in 1..Len(s.reactions) : t.reactions[r] = s.reactions[r]
      /\ t.reactions[Len(s.reactions) + 1] = p
  <2>1. t.reactions = Append(s.reactions, p)
    BY DEF Registering
  <2> QED BY <1>6, <2>1, AppendProperties
<1>8. ASSUME NEW x, Halves(p, e, x), ~Has(s, x)
      PROVE  /\ Route(t, x) /\ x.id = Len(s.reactions) + 1
             /\ x.cell # NoCell => \A f : Has(s, f) => f.cell # x.cell
  <2> PICK b \in BOOLEAN : x = Half(p, b, e)
    BY <1>8 DEF Halves
  <2>1. /\ x.handler = IF b THEN e.rejected ELSE e.fulfilled
        /\ x.cell = e.cell /\ x.id = e.id
    <3>1. p \in 1..SizesOf(t).promises
      BY <1>5 DEF SizesOf
    <3> QED BY <3>1, HalfTyped
  <2>2. x.handler \in HandlersOf(SizesOf(s)) /\ x.cell \in 0..Len(s.cells)
    BY <2>1
  <2>3. Route(s, x)
    BY <1>8
  <2>4. StillOpen(s, t, x)
    <3> SUFFICES ASSUME x.cell # NoCell, NEW i, FinallyOf(s, PromiseOf(s, x.cell), i)
                 PROVE  ~Settled(t, PromiseOf(s, x.cell))
      BY DEF StillOpen
    <3>1. x.cell \in 1..Len(s.cells)
      BY <2>2, ClaimsTyped DEF NoCell
    <3>2. PromiseOf(s, x.cell) \in 1..Len(s.promises)
      BY <3>1, ClaimsTyped
    <3>3. ~Settled(s, PromiseOf(s, x.cell))
      BY <2>3 DEF Route, Derives
    <3> QED BY <3>2, <3>3 DEF Registering, SameStates, Settled
  <2>5. Route(t, x)
    BY <1>2, <2>2, <2>3, <2>4, RouteKept
  <2>6. x.id = Len(s.reactions) + 1
    BY <2>1 DEF Registering
  <2> QED BY <2>1, <2>5, <2>6 DEF Unshared
<1>9. Moved(s, t)
  <2> SUFFICES ASSUME NEW x, Has(t, x)
               PROVE  \/ Has(s, x) /\ StillOpen(s, t, x)
                      \/ /\ Route(t, x) /\ x.id = Len(s.reactions) + 1
                         /\ x.cell # NoCell => \A f : Has(s, f) => f.cell # x.cell
    BY <1>7 DEF Moved
  <2>1. CASE Has(s, x)
    BY <1>1, <2>1, CalmOpen
  <2>2. CASE ~Has(s, x)
    BY <1>4, <1>8, <2>2
  <2> QED BY <2>1, <2>2
<1>10. Queued(s, t)
  <2>1. CASE ~Settled(s, p)
    BY <2>1 DEF Queued, Registering
  <2>2. CASE Settled(s, p)
    <3> DEFINE b == s.promises[p].state = "rejected"
               v == s.promises[p].result
               j == ReactionJob(e, b, v)
               J == JobsOf(SizesOf(s)) \cup {j}
    <3>1. t.jobs = Append(s.jobs, j) /\ e.id = Len(s.reactions) + 1
      BY <2>2 DEF Registering
    <3>2. b \in BOOLEAN
      OBVIOUS
    <3>3. /\ j.kind = "reaction" /\ j.rejected = b /\ j.value = v
          /\ j.reaction = Len(s.reactions) + 1
      <4> HIDE DEF b, v
      <4> QED BY <3>1, <3>2, ReactionJobParts
    <3>4. s.jobs \in Seq(J) /\ j \in J
      BY <1>6, SeqMonotonic, JobsOf(SizesOf(s)) \subseteq J
    <3>5. SettledTo(t, p, b, v)
      <4>1. s.promises[p].state \in {"fulfilled", "rejected"}
        <5>1. s.promises[p].state \in {"pending", "fulfilled", "rejected"}
          BY Elements DEF PromisesOf
        <5> QED BY <2>2, <5>1 DEF Settled
      <4> QED BY <4>1 DEF SettledTo, As, Registering, SameStates
    <3>6. SettledTo(t, t.reactions[j.reaction], j.rejected, j.value)
      BY <1>7, <3>3, <3>5
    <3> HIDE DEF J, j, b
    <3>7. ASSUME NEW i \in 1..Len(t.jobs)
          PROVE  t.jobs[i] = j \/ \E k \in 1..Len(s.jobs) : t.jobs[i] = s.jobs[k]
      <4>1. CASE i \in 1..Len(s.jobs)
        BY <1>6, <3>1, <3>4, <4>1, AppendProperties
      <4>2. CASE i \notin 1..Len(s.jobs)
        BY <1>6, <3>1, <3>4, <4>2, AppendProperties
      <4> QED BY <4>1, <4>2
    <3> QED BY <3>3, <3>6, <3>7 DEF Queued
  <2> QED BY <2>1, <2>2
<1>11. Exposes(s, t)
  BY DEF Exposes, Registering
<1>12. Owned(t)
  <2>1. Lists(t)
    BY ListsKept DEF Registering, Owned
  <2> QED BY <1>2, <1>3, <1>9, <1>10, <1>11, <2>1, OwnedFollows
<1> QED BY <1>2, <1>4, <1>12

\* The reaction has its type afterwards.
LEMMA RegisteringTyped ==
    ASSUME NEW s, NEW t, Typed(s), Typed(t), Grows(s, t), Len(t.cells) = Len(s.cells),
           NEW p, NEW f \in HandlersOf(SizesOf(s)), NEW r \in HandlersOf(SizesOf(s)),
           f.kind = "await" \/ r.kind = "await" => f = r, NEW c \in 0..Len(s.cells),
           t.reactions = Append(s.reactions, p)
    PROVE  Reaction(s, f, r, c) \in ReactionsOf(SizesOf(t))
<1> DEFINE e == Reaction(s, f, r, c)
<1>1. /\ e.fulfilled = f /\ e.rejected = r /\ e.cell = c /\ e.id = Len(s.reactions) + 1
      /\ e = [fulfilled |-> f, rejected |-> r, cell |-> c, id |-> Len(s.reactions) + 1]
  BY DEF Reaction
<1>2. f \in HandlersOf(SizesOf(t)) /\ r \in HandlersOf(SizesOf(t))
  BY Later
<1>3. Len(t.reactions) = Len(s.reactions) + 1 /\ Len(s.reactions) \in Nat
  <2>1. s.reactions \in Seq(1..Len(s.promises))
    BY Fields DEF Typed, SizesOf
  <2>2. Len(s.reactions) \in Nat /\ Len(Append(s.reactions, p)) = Len(s.reactions) + 1
    <3>1. s.reactions \in Seq((1..Len(s.promises)) \cup {p})
      BY <2>1, SeqMonotonic
    <3> QED BY <3>1, AppendProperties, LenProperties
  <2> QED BY <2>2
<1>4. c \in 0..SizesOf(t).cells /\ Len(s.reactions) + 1 \in 1..SizesOf(t).reactions
  BY <1>3 DEF SizesOf
<1> QED BY <1>1, <1>2, <1>4 DEF ReactionsOf

LEMMA ThenOwned ==
    ASSUME NEW s, NEW X, Good(s, X), Owned(s), NEW p \in 1..Len(s.promises),
           NEW f \in HandlersOf(SizesOf(s)), NEW r \in HandlersOf(SizesOf(s)),
           f.kind = "await" \/ r.kind = "await" => f = r,
           NEW c \in 0..Len(s.cells), Unshared(s, c),
           \A x : Halves(p, Reaction(s, f, r, c), x) => Route(s, x),
           NEW t, t = njs_promise_perform_then(s, p, f, r, c)
    PROVE  /\ Owned(t) /\ Follows(s, t) /\ Registering(s, t, p, Reaction(s, f, r, c))
           /\ \A x : Has(t, x) => Has(s, x) \/ Halves(p, Reaction(s, f, r, c), x)
<1> DEFINE e == Reaction(s, f, r, c)
<1>1. Sound(s) /\ Typed(s)
  BY DEF Good, Sound
<1>2. /\ Sound(t) /\ Grows(s, t) /\ Len(t.promises) = Len(s.promises)
      /\ Len(t.cells) = Len(s.cells)
  BY <1>1, ThenSound
<1>3. Typed(t)
  BY <1>2 DEF Sound
<1>4. Registering(s, t, p, e)
  BY <1>1, ThenParts
<1>5. e = Reaction(s, f, r, c) /\ t.reactions = Append(s.reactions, p)
  BY <1>4 DEF Registering
<1> HIDE DEF e
<1>6. /\ e \in ReactionsOf(SizesOf(t))
      /\ e.fulfilled = f /\ e.rejected = r /\ e.cell = c
  <2>1. Reaction(s, f, r, c) \in ReactionsOf(SizesOf(t))
    BY <1>1, <1>2, <1>3, <1>5, RegisteringTyped
  <2> QED BY <1>5, <2>1 DEF Reaction
<1>7. \A x : Halves(p, e, x) => Route(s, x)
  BY DEF e
<1>8. Unshared(s, e.cell)
  BY <1>6
<1>9. /\ Owned(t) /\ Follows(s, t)
      /\ \A x : Has(t, x) => Has(s, x) \/ Halves(p, e, x)
  BY <1>1, <1>2, <1>3, <1>4, <1>6, <1>7, <1>8, RegisteringOwned
<1> QED BY <1>4, <1>9 DEF e

-----------------------------------------------------------------------------
(* A job is taken off the queue.                                             *)

\* The reaction that runs is not in the list of its promise, nor once more in
\* the queue.
LEMMA RunsOnce ==
    ASSUME NEW s, NEW t, Typed(s), Placed(s), FirstTaken(s, t),
           NEW j, j = Head(s.jobs), j.kind = "reaction", NEW x, Has(t, x)
    PROVE  x.id # j.reaction /\ Has(s, x)
<1> DEFINE n == Len(s.ran)
           r == j.reaction
<1>1. /\ Len(s.jobs) \in Nat \ {0} /\ Len(t.jobs) = Len(s.jobs) - 1
      /\ \A i \in 1..Len(t.jobs) : i + 1 \in 1..Len(s.jobs) /\ t.jobs[i] = s.jobs[i + 1]
      /\ j = s.jobs[1] /\ 1 \in 1..Len(s.jobs)
      /\ t.promises = s.promises /\ t.reactions = s.reactions
  BY Rest DEF FirstTaken
<1>2. n \in Nat
  BY Fields, LenProperties DEF Typed
<1>3. Runs(s, 1, r)
  BY <1>1 DEF Runs
<1>4. r \in Nat /\ r \in 1..Len(s.reactions)
  BY <1>3, RunsTyped
<1>5. Turn(s, n + 1, r) /\ n + 1 \in Nat
  BY <1>1, <1>2, <1>3 DEF Turn
<1>8. /\ \A p, i, q \in Nat : Waits(s, p, i, q) => ~Settled(s, s.reactions[q])
      /\ \A a, q \in Nat : Turn(s, a, q) => Settled(s, s.reactions[q])
      /\ \A a, b, q \in Nat : Turn(s, a, q) /\ Turn(s, b, q) /\ a < b => q < q
  <2>1. \A p, i, q \in Nat : Waits(s, p, i, q) => s.reactions[q] = p /\ ~Settled(s, p)
    BY DEF Placed
  <2>2. \A a, q \in Nat : Turn(s, a, q) => Settled(s, s.reactions[q])
    BY DEF Placed
  <2>3. \A a, b, q \in Nat : Turn(s, a, q) /\ Turn(s, b, q) /\ a < b => q < q
    BY DEF Placed
  <2> QED BY <2>1, <2>2, <2>3
<1> HIDE DEF r, n
<1>6. CASE \E p \in 1..Len(t.promises), b \in BOOLEAN :
              \E i \in 1..Len(t.promises[p].reactions) :
                 x = Half(p, b, t.promises[p].reactions[i])
  <2> PICK p \in 1..Len(t.promises), b \in BOOLEAN :
             \E i \in 1..Len(t.promises[p].reactions) : x = Half(p, b, t.promises[p].reactions[i])
    BY <1>6
  <2> PICK i \in 1..Len(t.promises[p].reactions) : x = Half(p, b, t.promises[p].reactions[i])
    OBVIOUS
  <2>1. p \in 1..Len(s.promises) /\ i \in 1..Len(s.promises[p].reactions)
    BY <1>1
  <2>2. x = Half(p, b, s.promises[p].reactions[i])
    BY <1>1
  <2>3. Has(s, x)
    BY <2>1, <2>2 DEF Has
  <2>4. x.id = s.promises[p].reactions[i].id
    BY ONLY <2>2 DEF Half, Entry
  <2>5. Waits(s, p, i, x.id)
    BY <2>1, <2>4 DEF Waits
  <2>6. p \in Nat /\ i \in Nat /\ x.id \in Nat
    BY <2>5, WaitsTyped
  <2>7. ~Settled(s, s.reactions[x.id])
    BY <2>5, <2>6, <1>8
  <2>8. Settled(s, s.reactions[r])
    BY <1>4, <1>5, <1>8
  <2> QED BY <2>3, <2>7, <2>8 DEF r
<1>7. CASE \E i \in 1..Len(t.jobs) : t.jobs[i].kind = "reaction" /\ x = JobEntry(t, t.jobs[i])
  <2> PICK i \in 1..Len(t.jobs) : t.jobs[i].kind = "reaction" /\ x = JobEntry(t, t.jobs[i])
    BY <1>7
  <2>1. i + 1 \in 1..Len(s.jobs) /\ t.jobs[i] = s.jobs[i + 1] /\ i \in Nat /\ i # 0
    BY <1>1
  <2>2. x = JobEntry(s, s.jobs[i + 1]) /\ s.jobs[i + 1].kind = "reaction"
    BY <1>1, <2>1 DEF JobEntry
  <2>3. Has(s, x)
    BY <2>1, <2>2 DEF Has
  <2>4. x.id = s.jobs[i + 1].reaction
    BY <2>2 DEF JobEntry, Entry
  <2>5. Runs(s, i + 1, x.id)
    BY <2>1, <2>2, <2>4 DEF Runs
  <2>6. Turn(s, n + (i + 1), x.id)
    BY <2>1, <2>5 DEF Turn, n
  <2>7. x.id # r
    <3> SUFFICES ASSUME x.id = r PROVE FALSE
      OBVIOUS
    <3>1. n + 1 \in Nat /\ n + (i + 1) \in Nat /\ n + 1 < n + (i + 1)
      BY <1>2, <2>1
    <3>2. r < r
      BY <1>4, <1>5, <2>6, <3>1, <1>8
    <3> QED BY <1>4, <3>2
  <2> QED BY <2>3, <2>7 DEF r
<1> QED BY <1>6, <1>7 DEF Has

\* What is about to run.
Due(t, j) ==
    /\ SettledTo(t, t.reactions[j.reaction], j.rejected, j.value)
    /\ Route(t, JobEntry(t, j)) /\ Unshared(t, j.cell)

LEMMA RanOwned ==
    ASSUME NEW s, NEW X, Good(s, X), Owned(s), s.jobs # <<>>,
           NEW j, j = Head(s.jobs), j.kind = "reaction", NEW t, t = Ran(s, j.reaction)
    PROVE  Owned(t) /\ Follows(s, t) /\ Due(t, j)
<1>1. Sound(s) /\ Typed(s) /\ Placed(s)
  BY DEF Good, Sound
<1>2. Typed(t) /\ Grows(s, t)
  BY <1>1, RunSound DEF Held, Sound
<1>3. /\ t.promises = s.promises /\ t.reactions = s.reactions /\ t.jobs = Tail(s.jobs)
      /\ t.cells = s.cells /\ t.aggregates = s.aggregates
      /\ t.contexts = s.contexts /\ t.finallys = s.finallys
  BY <1>1, Record DEF Ran
<1>4. FirstTaken(s, t)
  BY <1>3 DEF FirstTaken
<1>5. /\ \A i \in 1..Len(t.jobs) : i + 1 \in 1..Len(s.jobs) /\ t.jobs[i] = s.jobs[i + 1]
      /\ j = s.jobs[1] /\ 1 \in 1..Len(s.jobs)
  BY <1>1, <1>4, Rest
<1>6. NoneAdded(s, t)
  BY <1>3, <1>5 DEF NoneAdded
<1>7. Calm(s, t)
  BY <1>3, <1>5 DEF Calm, SameOrPending, SameCells
<1>8. Exposes(s, t)
  BY <1>3 DEF Exposes
<1>9. Owned(t) /\ Follows(s, t)
  BY <1>1, <1>2, <1>6, <1>7, <1>8, CalmOwned
<1>10. SettledTo(t, t.reactions[j.reaction], j.rejected, j.value)
  BY <1>3, <1>5 DEF Owned, Sources, SettledTo
<1> DEFINE e == JobEntry(s, j)
<1>11. Has(s, e) /\ e.cell = j.cell /\ e.id = j.reaction
  <2>1. Has(s, e)
    BY <1>5 DEF Has
  <2> QED BY <2>1 DEF JobEntry, Entry
<1>12. e.handler \in HandlersOf(SizesOf(s)) /\ e.cell \in 0..Len(s.cells)
  <2>1. e \in EntriesOf(SizesOf(s))
    BY <1>1, <1>11, EntryTyped
  <2> QED BY <2>1 DEF EntriesOf, SizesOf
<1>13. JobEntry(t, j) = e
  BY <1>3 DEF JobEntry
<1>14. Route(t, e)
  <2>1. Route(s, e)
    BY <1>11 DEF Owned, Routes
  <2>2. StillOpen(s, t, e)
    BY <1>1, <1>2, <1>7, <1>11, CalmOpen DEF Calm
  <2> HIDE DEF e
  <2> QED BY <1>1, <1>2, <1>9, <1>12, <2>1, <2>2, RouteKept
<1>15. Unshared(t, j.cell)
  <2> SUFFICES ASSUME j.cell # NoCell, NEW x, Has(t, x), x.cell = j.cell PROVE FALSE
    BY DEF Unshared
  <2>1. x.id # j.reaction /\ Has(s, x)
    BY <1>1, <1>4, RunsOnce
  <2> QED BY <1>11, <2>1 DEF Owned, Once
<1> QED BY <1>9, <1>10, <1>13, <1>14, <1>15 DEF Due

LEMMA ThenableOwned ==
    ASSUME NEW s, NEW X, Good(s, X), Owned(s), s.jobs # <<>>,
           NEW j, j = Head(s.jobs), j.kind = "thenable",
           NEW e \in BOOLEAN, e => j.value.kind # "promise", NEW u, u = Unqueued(s),
           NEW t, t = njs_promise_create_resolving_functions(u, j.promise, e)
    PROVE  /\ Owned(t) /\ Follows(s, t) /\ Len(t.cells) \in 1..Len(t.cells)
           /\ PromiseOf(t, Len(t.cells)) = j.promise /\ Asked(t, j.promise, j.value)
           /\ e => Free(t, j.promise)
           /\ Unshared(t, Len(t.cells)) /\ t.contexts = s.contexts
<1> DEFINE m == Len(t.cells)
           d == [promise |-> j.promise, resolved |-> FALSE, exposed |-> e]
<1>1. Sound(s) /\ Typed(s) /\ Placed(s)
  BY DEF Good, Sound
<1>2. /\ Typed(t) /\ Grows(s, t) /\ Len(t.cells) = Len(s.cells) + 1
      /\ Len(t.promises) = Len(s.promises)
  BY <1>1, ThenableSound DEF Sound
<1>3. /\ t.promises = s.promises /\ t.reactions = s.reactions /\ t.jobs = Tail(s.jobs)
      /\ t.aggregates = s.aggregates /\ t.cells = Append(s.cells, d)
      /\ t.contexts = s.contexts /\ t.finallys = s.finallys
  BY <1>1, Record DEF Unqueued, njs_promise_create_resolving_functions
<1>4. FirstTaken(s, t)
  BY <1>3 DEF FirstTaken
<1>5. /\ \A i \in 1..Len(t.jobs) : i + 1 \in 1..Len(s.jobs) /\ t.jobs[i] = s.jobs[i + 1]
      /\ j = s.jobs[1] /\ 1 \in 1..Len(s.jobs)
  BY <1>1, <1>4, Rest
<1>6. Len(s.cells) \in Nat /\ m \in Nat /\ m \in 1..Len(t.cells)
  BY <1>1, <1>2, ClaimsTyped
<1>7. t.cells[m] = d /\ \A c \in 1..Len(s.cells) : t.cells[c] = s.cells[c]
  <2> DEFINE C == CellsOf(SizesOf(s)) \cup {d}
  <2>1. s.cells \in Seq(CellsOf(SizesOf(s)))
    BY <1>1, Fields DEF Typed
  <2>2. s.cells \in Seq(C) /\ d \in C
    BY <2>1, SeqMonotonic, CellsOf(SizesOf(s)) \subseteq C
  <2> HIDE DEF C, d
  <2> QED BY <1>2, <1>3, <2>2, AppendProperties
<1>8. d.promise = j.promise /\ d.exposed = e
  OBVIOUS
<1>9. PromiseOf(t, m) = j.promise
  BY <1>7, <1>8 DEF PromiseOf
<1>10. Asked(s, j.promise, j.value)
  BY <1>5 DEF Owned, Asking, Asks
<1>11. e => Free(s, j.promise)
  <2> SUFFICES ASSUME e PROVE Free(s, j.promise)
    OBVIOUS
  <2>1. \A i : j.value # Value("promise", s.finallys[i].inner)
    BY DEF Value
  <2> QED BY <1>10, <2>1 DEF Asked, Free
<1> HIDE DEF d
<1>12. NoneAdded(s, t)
  BY <1>3, <1>5 DEF NoneAdded
<1>13. Calm(s, t)
  BY <1>3, <1>5, <1>7 DEF Calm, SameOrPending, SameCells
<1>14. Exposes(s, t)
  <2> SUFFICES ASSUME NEW c \in 1..Len(t.cells), t.cells[c].exposed, c \notin 1..Len(s.cells)
               PROVE  Free(s, PromiseOf(t, c))
    BY <1>3 DEF Exposes
  <2>1. c = m
    BY <1>2, <1>6
  <2>2. e
    BY <1>7, <1>8, <2>1
  <2> QED BY <1>9, <1>11, <2>1, <2>2
<1>15. Owned(t) /\ Follows(s, t)
  BY <1>1, <1>2, <1>12, <1>13, <1>14, CalmOwned
<1>16. Asked(t, j.promise, j.value)
  BY <1>1, <1>2, <1>10, <1>15, AskedKept
<1>17. e => Free(t, j.promise)
  BY <1>1, <1>2, <1>11, <1>15, FreeKept
<1>18. Unshared(t, m)
  <2> SUFFICES ASSUME NEW x, Has(t, x) PROVE x.cell # m
    BY DEF Unshared
  <2>1. Has(s, x)
    BY <1>12, NoneHas
  <2>2. x \in EntriesOf(SizesOf(s))
    BY <1>1, <2>1, EntryTyped
  <2>3. x.cell \in 0..Len(s.cells)
    BY <2>2 DEF EntriesOf, SizesOf
  <2> QED BY <1>2, <1>6, <2>3
<1> QED BY <1>3, <1>6, <1>9, <1>15, <1>16, <1>17, <1>18

-----------------------------------------------------------------------------
(* Claims are made of promises that nothing refers to yet.                   *)

\* Only lists and finally() have changed.
SamePlaces(s, t) ==
    /\ t.promises = s.promises /\ t.cells = s.cells /\ t.reactions = s.reactions
    /\ t.jobs = s.jobs /\ t.contexts = s.contexts

SameClaims(s, t, p) ==
    \A i : /\ AggregateOf(t, p, i) <=> AggregateOf(s, p, i)
           /\ FinallyOf(t, p, i) <=> FinallyOf(s, p, i)
           /\ InnerOf(t, p, i) <=> InnerOf(s, p, i)
           /\ AggregateOf(s, p, i) => t.aggregates[i] = s.aggregates[i]
           /\ FinallyOf(s, p, i) \/ InnerOf(s, p, i) => t.finallys[i] = s.finallys[i]

LEMMA SamePlacesHas ==
    ASSUME NEW s, NEW t, SamePlaces(s, t)
    PROVE  /\ \A x : Has(t, x) <=> Has(s, x)
           /\ \A c : PromiseOf(t, c) = PromiseOf(s, c)
           /\ \A p, b, v : SettledTo(t, p, b, v) <=> SettledTo(s, p, b, v)
           /\ \A p : Settled(t, p) <=> Settled(s, p)
BY DEF SamePlaces, Has, JobEntry, PromiseOf, SettledTo, Settled

LEMMA SameClaimsKept ==
    ASSUME NEW s, NEW t, SamePlaces(s, t), NEW p, SameClaims(s, t, p)
    PROVE  /\ Free(s, p) => Free(t, p)
           /\ \A v : Asked(s, p, v) => Asked(t, p, v)
           /\ \A x : Into(s, p, x) => Into(t, p, x)
           /\ \A x : Derives(s, p, x) => Derives(t, p, x)
           /\ \A b \in BOOLEAN : \A v : Fits(s, p, b, v) => Fits(t, p, b, v)
<1>1. /\ \A q : Settled(t, q) <=> Settled(s, q)
      /\ \A q, b, v : SettledTo(t, q, b, v) <=> SettledTo(s, q, b, v)
      /\ t.promises = s.promises
  BY SamePlacesHas DEF SamePlaces
<1>2. Free(s, p) => Free(t, p)
  BY DEF SameClaims, Free
<1>3. ASSUME NEW v, Asked(s, p, v)
      PROVE  Asked(t, p, v)
  BY <1>3 DEF Asked, SameClaims
<1>4. ASSUME NEW x, Into(s, p, x)
      PROVE  Into(t, p, x)
  BY <1>4 DEF Into, SameClaims
<1>5. ASSUME NEW x, Derives(s, p, x)
      PROVE  Derives(t, p, x)
  <2>1. \A i : ~AggregateOf(t, p, i)
    BY <1>5 DEF Derives, SameClaims
  <2>2. ASSUME NEW i, FinallyOf(t, p, i)
        PROVE  /\ t.finallys[i].cell = x.cell /\ t.finallys[i].from = x.from
               /\ t.finallys[i].via = 0 /\ t.finallys[i].inner = 0 /\ ~Settled(t, p)
               /\ x.handler.kind = IF x.rejected THEN "catchFinally" ELSE "thenFinally"
    BY <1>1, <1>5, <2>2 DEF Derives, SameClaims
  <2>3. ASSUME NEW i, InnerOf(t, p, i)
        PROVE  /\ t.finallys[i].via = x.from /\ Settled(t, t.finallys[i].from)
               /\ x.handler = Resumption(t, t.finallys[i], x.rejected)
    <3>1. InnerOf(s, p, i) /\ t.finallys[i] = s.finallys[i]
      BY <2>3 DEF SameClaims
    <3>2. Resumption(t, t.finallys[i], x.rejected) = Resumption(s, s.finallys[i], x.rejected)
      BY <1>1, <3>1 DEF Resumption
    <3> QED BY <1>1, <1>5, <3>1, <3>2 DEF Derives
  <2> QED BY <2>1, <2>2, <2>3 DEF Derives
<1>6. ASSUME NEW b \in BOOLEAN, NEW v, Fits(s, p, b, v)
      PROVE  Fits(t, p, b, v)
  <2>1. ASSUME NEW a, AggregateOf(t, p, a) PROVE AggregateFits(t, a, b, v)
    <3>1. AggregateOf(s, p, a) /\ t.aggregates[a] = s.aggregates[a]
      BY <2>1 DEF SameClaims
    <3>2. AggregateFits(s, a, b, v)
      BY <1>6, <3>1 DEF Fits
    <3>3. (OneIs(s, a, b, v) => OneIs(t, a, b, v)) /\ (Complete(s, a) => Complete(t, a))
      BY <1>1, <3>1 DEF OneIs, Complete
    <3> QED BY <3>1, <3>2, <3>3 DEF AggregateFits
  <2>2. ASSUME NEW i, FinallyOf(t, p, i) PROVE FinallyFits(t, i, b, v)
    <3>1. FinallyFits(s, i, b, v) /\ t.finallys[i] = s.finallys[i]
      BY <1>6, <2>2 DEF Fits, SameClaims
    <3> QED BY <1>1, <3>1 DEF FinallyFits
  <2>3. ASSUME NEW i, InnerOf(t, p, i) PROVE InnerFits(t, i, b, v)
    <3>1. InnerFits(s, i, b, v) /\ t.finallys[i] = s.finallys[i]
      BY <1>6, <2>3 DEF Fits, SameClaims
    <3> QED BY <1>1, <3>1 DEF InnerFits
  <2> QED BY <2>1, <2>2, <2>3 DEF Fits
<1> QED BY <1>2, <1>3, <1>4, <1>5, <1>6

\* Claims are made of promises that are alone.
LEMMA ClaimsOwned ==
    ASSUME NEW s, NEW t, Typed(s), Typed(t), Owned(s), SamePlaces(s, t),
           \A p \in 1..Len(s.promises) : Alone(s, p) \/ SameClaims(s, t, p),
           \A a \in 1..Len(s.aggregates) : t.aggregates[a] = s.aggregates[a],
           Apart(t), Lists(t)
    PROVE  Owned(t) /\ \A x : Has(t, x) <=> Has(s, x)
<1>1. /\ \A x : Has(t, x) <=> Has(s, x)
      /\ \A c : PromiseOf(t, c) = PromiseOf(s, c)
      /\ \A p, b, v : SettledTo(t, p, b, v) <=> SettledTo(s, p, b, v)
  BY SamePlacesHas
<1>2. /\ t.promises = s.promises /\ t.cells = s.cells /\ t.reactions = s.reactions
      /\ t.jobs = s.jobs /\ t.contexts = s.contexts
  BY DEF SamePlaces
<1>3. Finals(t)
  BY <1>2 DEF Owned, Finals
<1>4. Sources(t)
  BY <1>1, <1>2 DEF Owned, Sources
<1>5. Routes(t)
  <2> SUFFICES ASSUME NEW x, Has(t, x) PROVE Route(t, x)
    BY DEF Routes
  <2>1. Has(s, x) /\ Route(s, x) /\ x \in EntriesOf(SizesOf(s))
    BY <1>1, EntryTyped DEF Owned, Routes
  <2>2. /\ x.handler.kind \in {"resolve", "reject"} => x.handler.id \in 1..Len(s.cells)
        /\ x.handler.kind = "element" => x.handler.id \in 1..Len(s.aggregates)
        /\ x.cell \in 0..Len(s.cells)
    <3>1. x.handler \in HandlersOf(SizesOf(s)) /\ x.cell \in 0..Len(s.cells)
      BY <2>1 DEF EntriesOf, SizesOf
    <3> QED BY <3>1 DEF HandlersOf, SizesOf
  <2>3. x.handler.kind = "element" => Member(t, x)
    BY <2>1, <2>2 DEF Route, Member
  <2>4. x.handler.kind \in {"resolve", "reject"} => Into(t, PromiseOf(t, x.handler.id), x)
    <3> SUFFICES ASSUME x.handler.kind \in {"resolve", "reject"}
                 PROVE  Into(t, PromiseOf(t, x.handler.id), x)
      OBVIOUS
    <3> DEFINE p == PromiseOf(s, x.handler.id)
    <3>1. p \in 1..Len(s.promises) /\ Into(s, p, x)
      BY <2>1, <2>2, ClaimsTyped DEF Route
    <3>2. ~Alone(s, p)
      BY <2>1 DEF Alone
    <3> HIDE DEF p
    <3>3. Into(t, p, x)
      BY <3>1, <3>2, SameClaimsKept
    <3> QED BY <1>1, <3>3 DEF p
  <2>5. x.cell # NoCell => Derives(t, PromiseOf(t, x.cell), x)
    <3> SUFFICES ASSUME x.cell # NoCell PROVE Derives(t, PromiseOf(t, x.cell), x)
      OBVIOUS
    <3> DEFINE p == PromiseOf(s, x.cell)
    <3>1. x.cell \in 1..Len(s.cells)
      BY <2>2, ClaimsTyped DEF NoCell
    <3>2. p \in 1..Len(s.promises) /\ Derives(s, p, x)
      BY <2>1, <3>1, ClaimsTyped DEF Route
    <3>3. ~Alone(s, p)
      BY <2>1 DEF Alone
    <3> HIDE DEF p
    <3>4. Derives(t, p, x)
      BY <3>2, <3>3, SameClaimsKept
    <3> QED BY <1>1, <3>4 DEF p
  <2> QED BY <2>1, <2>3, <2>4, <2>5 DEF Route
<1>6. Once(t)
  BY <1>1 DEF Owned, Once
<1>7. Asking(t)
  <2> SUFFICES ASSUME NEW i \in 1..Len(t.jobs), Asks(t, i)
               PROVE  Asked(t, t.jobs[i].promise, t.jobs[i].value)
    BY DEF Asking
  <2> DEFINE p == s.jobs[i].promise
             v == s.jobs[i].value
  <2>1. Asks(s, i) /\ i \in 1..Len(s.jobs) /\ t.jobs[i].promise = p /\ t.jobs[i].value = v
    BY <1>2 DEF Asks
  <2>2. p \in 1..Len(s.promises)
    BY <2>1, Elements DEF Asks
  <2>3. Asked(s, p, v) /\ ~Alone(s, p)
    BY <2>1 DEF Owned, Asking, Alone
  <2> HIDE DEF p, v
  <2>4. Asked(t, p, v)
    BY <2>2, <2>3, SameClaimsKept
  <2> QED BY <2>1, <2>4
<1>8. Frees(t)
  <2>1. ASSUME NEW c \in 1..Len(t.cells), t.cells[c].exposed
        PROVE  Free(t, PromiseOf(t, c))
    <3> DEFINE p == PromiseOf(s, c)
    <3>1. c \in 1..Len(s.cells) /\ s.cells[c].exposed
      BY <1>2, <2>1
    <3>2. p \in 1..Len(s.promises) /\ Free(s, p) /\ ~Alone(s, p)
      BY <3>1, ClaimsTyped DEF Owned, Frees, Alone
    <3> HIDE DEF p
    <3>3. Free(t, p)
      BY <3>2, SameClaimsKept
    <3> QED BY <1>1, <3>3 DEF p
  <2>2. ASSUME NEW k \in 1..Len(t.contexts)
        PROVE  Free(t, PromiseOf(t, t.contexts[k].cell))
    <3> DEFINE c == s.contexts[k].cell
               p == PromiseOf(s, c)
    <3>1. k \in 1..Len(s.contexts) /\ t.contexts[k].cell = c
      BY <1>2
    <3>2. c \in 1..Len(s.cells)
      BY <3>1, Elements DEF ContextsOf, SizesOf
    <3>3. p \in 1..Len(s.promises) /\ Free(s, p) /\ ~Alone(s, p)
      BY <3>1, <3>2, ClaimsTyped DEF Owned, Frees, Alone
    <3> HIDE DEF p, c
    <3>4. Free(t, p)
      BY <3>3, SameClaimsKept
    <3> QED BY <1>1, <3>1, <3>4 DEF p
  <2> QED BY <2>1, <2>2 DEF Frees
<1>9. AllFit(t)
  <2> SUFFICES ASSUME NEW p \in 1..Len(s.promises), NEW b \in BOOLEAN,
                      s.promises[p].state = As(b)
               PROVE  Fits(t, p, b, s.promises[p].result)
    BY <1>2 DEF AllFit
  <2>1. ~Alone(s, p)
    BY DEF Alone, Settled, As
  <2>2. Fits(s, p, b, s.promises[p].result)
    BY DEF Owned, AllFit
  <2> QED BY <2>1, <2>2, SameClaimsKept
<1> QED BY <1>1, <1>3, <1>4, <1>5, <1>6, <1>7, <1>8, <1>9 DEF Owned

\* List a, whose promise is pending, has one more member.
InputsGrow(s, t, a) ==
    /\ SamePlaces(s, t) /\ t.finallys = s.finallys
    /\ Len(t.aggregates) = Len(s.aggregates)
    /\ \A k \in 1..Len(s.aggregates) : k # a => t.aggregates[k] = s.aggregates[k]
    /\ LET g == s.aggregates[a]
           h == t.aggregates[a]
       IN  /\ ~Settled(s, PromiseOf(s, g.cell))
           /\ h.kind = g.kind /\ h.cell = g.cell /\ Len(h.inputs) = Len(g.inputs) + 1
           /\ \A i \in 1..Len(g.inputs) : h.inputs[i] = g.inputs[i]

LEMMA InputsOwned ==
    ASSUME NEW s, NEW t, Typed(s), Typed(t), Owned(s), NEW a \in 1..Len(s.aggregates),
           InputsGrow(s, t, a), Lists(t)
    PROVE  Owned(t) /\ \A x : Has(t, x) <=> Has(s, x)
<1> DEFINE g == s.aggregates[a]
           h == t.aggregates[a]
           o == PromiseOf(s, g.cell)
<1>1. /\ \A x : Has(t, x) <=> Has(s, x)
      /\ \A c : PromiseOf(t, c) = PromiseOf(s, c)
      /\ \A p, b, v : SettledTo(t, p, b, v) <=> SettledTo(s, p, b, v)
      /\ SamePlaces(s, t)
  BY SamePlacesHas DEF InputsGrow
<1>2. /\ t.promises = s.promises /\ t.cells = s.cells /\ t.reactions = s.reactions
      /\ t.jobs = s.jobs /\ t.contexts = s.contexts
  BY <1>1 DEF SamePlaces
<1>3. /\ \A p, i : AggregateOf(t, p, i) <=> AggregateOf(s, p, i)
      /\ \A p, i : FinallyOf(t, p, i) <=> FinallyOf(s, p, i)
      /\ \A p, i : InnerOf(t, p, i) <=> InnerOf(s, p, i)
      /\ AggregateOf(s, o, a)
  <2>1. \A i \in 1..Len(s.aggregates) : t.aggregates[i].cell = s.aggregates[i].cell
    BY DEF InputsGrow
  <2> QED BY <1>1, <2>1 DEF InputsGrow, AggregateOf, FinallyOf, InnerOf
<1>4. ASSUME NEW p, p # o
      PROVE  SameClaims(s, t, p)
  <2>1. \A i : AggregateOf(s, p, i) => i # a /\ i \in 1..Len(s.aggregates)
    BY <1>4 DEF AggregateOf
  <2> QED BY <1>3, <2>1 DEF SameClaims, InputsGrow
<1>5. \A k \in 1..Len(s.aggregates) :
         /\ t.aggregates[k].kind = s.aggregates[k].kind
         /\ \A i \in 1..Len(s.aggregates[k].inputs) :
               /\ i \in 1..Len(t.aggregates[k].inputs)
               /\ t.aggregates[k].inputs[i] = s.aggregates[k].inputs[i]
  <2>1. Len(g.inputs) \in Nat
    BY ClaimsTyped
  <2>2. 1..Len(g.inputs) \subseteq 1..Len(h.inputs)
    BY <2>1 DEF InputsGrow
  <2> QED BY <2>2 DEF InputsGrow
<1>6. ASSUME NEW x, Into(s, o, x)
      PROVE  Into(t, o, x)
  <2>1. \A i : ~InnerOf(t, o, i)
    BY <1>3, <1>6 DEF Into
  <2>2. \A i : FinallyOf(t, o, i) => t.finallys[i].inner = x.from
    BY <1>3, <1>6 DEF Into, InputsGrow
  <2>3. ASSUME NEW k, AggregateOf(t, o, k)
        PROVE  /\ \E i \in 1..Len(t.aggregates[k].inputs) : t.aggregates[k].inputs[i] = x.from
               /\ t.aggregates[k].kind \in IF x.rejected THEN {"all", "race"} ELSE {"any", "race"}
    <3>1. AggregateOf(s, o, k) /\ k \in 1..Len(s.aggregates)
      BY <1>3, <2>3 DEF AggregateOf
    <3>2. PICK i \in 1..Len(s.aggregates[k].inputs) : s.aggregates[k].inputs[i] = x.from
      BY <1>6, <3>1 DEF Into
    <3>3. s.aggregates[k].kind \in IF x.rejected THEN {"all", "race"} ELSE {"any", "race"}
      BY <1>6, <3>1 DEF Into
    <3> QED BY <1>5, <3>1, <3>2, <3>3
  <2> QED BY <2>1, <2>2, <2>3 DEF Into
<1>7. Finals(t) /\ Sources(t) /\ Once(t)
  <2>1. Finals(t)
    BY <1>2 DEF Owned, Finals
  <2>2. Sources(t)
    BY <1>1, <1>2 DEF Owned, Sources
  <2>3. Once(t)
    BY <1>1 DEF Owned, Once
  <2> QED BY <2>1, <2>2, <2>3
<1>8. Routes(t)
  <2> SUFFICES ASSUME NEW x, Has(t, x) PROVE Route(t, x)
    BY DEF Routes
  <2>1. Has(s, x) /\ Route(s, x) /\ x \in EntriesOf(SizesOf(s))
    BY <1>1, EntryTyped DEF Owned, Routes
  <2>2. x.handler.kind = "element" => x.handler.id \in 1..Len(s.aggregates)
    <3>1. x.handler \in HandlersOf(SizesOf(s))
      BY <2>1 DEF EntriesOf
    <3> QED BY <3>1 DEF HandlersOf, SizesOf
  <2>3. x.handler.kind = "element" => Member(t, x)
    <3> SUFFICES ASSUME x.handler.kind = "element" PROVE Member(t, x)
      OBVIOUS
    <3>1. Member(s, x) /\ x.handler.id \in 1..Len(s.aggregates)
      BY <2>1, <2>2 DEF Route
    <3> QED BY <1>5, <3>1 DEF Member
  <2>4. x.handler.kind \in {"resolve", "reject"} => Into(t, PromiseOf(t, x.handler.id), x)
    <3> SUFFICES ASSUME x.handler.kind \in {"resolve", "reject"}
                 PROVE  Into(t, PromiseOf(t, x.handler.id), x)
      OBVIOUS
    <3> DEFINE p == PromiseOf(s, x.handler.id)
    <3>1. Into(s, p, x)
      BY <2>1 DEF Route
    <3> HIDE DEF p, o
    <3>2. Into(t, p, x)
      BY <1>1, <1>4, <1>6, <3>1, SameClaimsKept
    <3> QED BY <1>1, <3>2 DEF p
  <2>5. x.cell # NoCell => Derives(t, PromiseOf(t, x.cell), x)
    <3> SUFFICES ASSUME x.cell # NoCell PROVE Derives(t, PromiseOf(t, x.cell), x)
      OBVIOUS
    <3> DEFINE p == PromiseOf(s, x.cell)
    <3>1. Derives(s, p, x)
      BY <2>1 DEF Route
    <3>2. p # o
      BY <1>3, <3>1 DEF Derives
    <3> HIDE DEF p, o
    <3>3. Derives(t, p, x)
      BY <1>1, <1>4, <3>1, <3>2, SameClaimsKept
    <3> QED BY <1>1, <3>3 DEF p
  <2> QED BY <2>1, <2>3, <2>4, <2>5 DEF Route
<1>9. Asking(t)
  <2> SUFFICES ASSUME NEW i \in 1..Len(t.jobs), Asks(t, i)
               PROVE  Asked(t, t.jobs[i].promise, t.jobs[i].value)
    BY DEF Asking
  <2> DEFINE p == s.jobs[i].promise
             v == s.jobs[i].value
  <2>1. Asks(s, i) /\ i \in 1..Len(s.jobs) /\ t.jobs[i].promise = p /\ t.jobs[i].value = v
    BY <1>2 DEF Asks
  <2>2. Asked(s, p, v)
    BY <2>1 DEF Owned, Asking
  <2>3. p # o
    BY <1>3, <2>2 DEF Asked
  <2> HIDE DEF p, v, o
  <2>4. Asked(t, p, v)
    BY <1>1, <1>4, <2>2, <2>3, SameClaimsKept
  <2> QED BY <2>1, <2>4
<1>10. \A p : Free(s, p) => Free(t, p)
  <2> SUFFICES ASSUME NEW p, Free(s, p) PROVE Free(t, p)
    OBVIOUS
  <2>1. p # o
    BY <1>3 DEF Free
  <2> HIDE DEF o
  <2> QED BY <1>1, <1>4, <2>1, SameClaimsKept
<1>11. Frees(t)
  <2>1. ASSUME NEW c \in 1..Len(t.cells), t.cells[c].exposed
        PROVE  Free(t, PromiseOf(t, c))
    BY <1>1, <1>2, <1>10, <2>1 DEF Owned, Frees
  <2>2. ASSUME NEW k \in 1..Len(t.contexts)
        PROVE  Free(t, PromiseOf(t, t.contexts[k].cell))
    BY <1>1, <1>2, <1>10, <2>2 DEF Owned, Frees
  <2> QED BY <2>1, <2>2 DEF Frees
<1>12. Apart(t)
  BY <1>3 DEF Owned, Apart
<1>13. AllFit(t)
  <2> SUFFICES ASSUME NEW p \in 1..Len(s.promises), NEW b \in BOOLEAN,
                      s.promises[p].state = As(b)
               PROVE  Fits(t, p, b, s.promises[p].result)
    BY <1>2 DEF AllFit
  <2>1. p # o
    BY DEF InputsGrow, Settled, As
  <2>2. Fits(s, p, b, s.promises[p].result)
    BY DEF Owned, AllFit
  <2> HIDE DEF o
  <2> QED BY <1>1, <1>4, <2>1, <2>2, SameClaimsKept
<1> QED BY <1>1, <1>7, <1>8, <1>9, <1>11, <1>12, <1>13 DEF Owned

-----------------------------------------------------------------------------
(* Lists of promises.                                                        *)

LEMMA FiniteUpTo ==
    ASSUME NEW n \in Nat
    PROVE  IsFiniteSet(1..n)
<1>1. 1 \in Int /\ n \in Int
  OBVIOUS
<1> QED BY <1>1, FS_Interval

\* When no element function is left to be called, all have been.
LEMMA NoneRemaining ==
    ASSUME NEW s, Typed(s), NEW a \in 1..Len(s.aggregates), Collected(s, a),
           s.aggregates[a].remaining <= 0
    PROVE  Complete(s, a)
<1> DEFINE n == Len(s.aggregates[a].inputs)
           S == (1..n) \ s.aggregates[a].called
<1>1. n \in Nat /\ s.aggregates[a].remaining \in Int
  BY ClaimsTyped, Elements DEF AggregatesOf
<1>2. IsFiniteSet(1..n)
  BY <1>1, FiniteUpTo
<1>3. IsFiniteSet(S) /\ Cardinality(S) \in Nat
  BY <1>2, FS_Subset, FS_CardinalityType
<1>4. Cardinality(S) <= s.aggregates[a].remaining
  BY DEF Collected
<1> HIDE DEF S
<1>5. Cardinality(S) = 0
  BY <1>1, <1>3, <1>4
<1>6. S = {}
  BY <1>3, <1>5, FS_EmptySet
<1> QED BY <1>6 DEF S, Complete

\* An element function has been called: its value is collected.
CalledWith(s, t, a, i, b, v) ==
    /\ SamePlaces(s, t) /\ t.finallys = s.finallys
    /\ Len(t.aggregates) = Len(s.aggregates)
    /\ \A k \in 1..Len(s.aggregates) : k # a => t.aggregates[k] = s.aggregates[k]
    /\ LET g == s.aggregates[a]
           h == t.aggregates[a]
       IN  /\ h.kind = g.kind /\ h.cell = g.cell /\ h.inputs = g.inputs
           /\ h.called = g.called \cup {i} /\ h.remaining = g.remaining - 1
           /\ Len(h.values) = Len(g.values)
           /\ \A k \in 1..Len(g.values) :
                 h.values[k] = IF k = i THEN [rejected |-> b, value |-> v] ELSE g.values[k]

LEMMA CalledParts ==
    ASSUME NEW s, Typed(s), NEW a \in 1..Len(s.aggregates), NEW b, NEW v,
           NEW i \in 1..Len(s.aggregates[a].values), NEW t, t = ElementCalled(s, a, i, b, v)
    PROVE  CalledWith(s, t, a, i, b, v)
<1> DEFINE g == s.aggregates[a]
           y == [rejected |-> b, value |-> v]
           values == [g.values EXCEPT ![i] = y]
           h == [g EXCEPT !.called = g.called \cup {i}, !.values = values,
                          !.remaining = g.remaining - 1]
           G == AggregatesOf(SizesOf(s))
           V == [rejected : BOOLEAN, value : ValuesOf(SizesOf(s))]
<1>1. /\ s.aggregates \in Seq(G) /\ g \in G
      /\ DOMAIN s = {"promises", "cells", "jobs", "aggregates", "contexts", "tracking",
                     "rejected", "reactions", "ran", "finallys"}
  <2>1. s.aggregates \in Seq(G) /\ g \in G
    BY Fields, Elements DEF Typed
  <2> QED BY <2>1, Record, SMTT(20)
<1>2. DOMAIN g = {"kind", "cell", "inputs", "called", "values", "remaining"}
      /\ g.values \in Seq(V)
  BY <1>1 DEF AggregatesOf
<1>3. t = [s EXCEPT !.aggregates[a] = h]
  BY DEF ElementCalled
<1>4. t.aggregates = [s.aggregates EXCEPT ![a] = h] /\ SamePlaces(s, t)
      /\ t.finallys = s.finallys
  <2> HIDE DEF h, g
  <2> QED BY <1>1, <1>3 DEF SamePlaces
<1>5. /\ h.kind = g.kind /\ h.cell = g.cell /\ h.inputs = g.inputs
      /\ h.called = g.called \cup {i} /\ h.remaining = g.remaining - 1
      /\ h.values = values
  <2> HIDE DEF g, values
  <2> QED BY <1>2
<1>6. /\ Len(values) = Len(g.values)
      /\ \A k \in 1..Len(g.values) : values[k] = IF k = i THEN y ELSE g.values[k]
  <2> DEFINE W == V \cup {y}
  <2>0. V \subseteq W /\ y \in W
    OBVIOUS
  <2> HIDE DEF W, g, y, V
  <2>1. g.values \in Seq(W)
    BY <1>2, <2>0, SeqMonotonic
  <2>2. i \in 1..Len(g.values)
    BY DEF g
  <2> QED BY <2>0, <2>1, <2>2, ExceptSeq
<1>7. /\ Len(t.aggregates) = Len(s.aggregates)
      /\ \A k \in 1..Len(s.aggregates) : t.aggregates[k] = IF k = a THEN h ELSE s.aggregates[k]
  <2> DEFINE W == G \cup {h}
  <2>1. s.aggregates \in Seq(W) /\ h \in W
    BY <1>1, SeqMonotonic, G \subseteq W
  <2> HIDE DEF W, h
  <2> QED BY <1>4, <2>1, ExceptSeq
<1> HIDE DEF h, values
<1> QED BY <1>4, <1>5, <1>6, <1>7 DEF CalledWith

LEMMA CalledOwned ==
    ASSUME NEW s, NEW t, Typed(s), Typed(t), Owned(s), Grows(s, t),
           NEW a \in 1..Len(s.aggregates), NEW i \in 1..Len(s.aggregates[a].inputs),
           i \notin s.aggregates[a].called, NEW b \in BOOLEAN, NEW v,
           SettledTo(s, s.aggregates[a].inputs[i], b, v),
           s.aggregates[a].kind = "all" => ~b, s.aggregates[a].kind = "any" => b,
           CalledWith(s, t, a, i, b, v)
    PROVE  Owned(t) /\ Follows(s, t)
<1> DEFINE g == s.aggregates[a]
           h == t.aggregates[a]
<1>1. /\ \A x : Has(t, x) <=> Has(s, x)
      /\ \A p, d, w : SettledTo(t, p, d, w) <=> SettledTo(s, p, d, w)
      /\ SamePlaces(s, t)
  BY SamePlacesHas DEF CalledWith
<1>2. /\ t.promises = s.promises /\ t.cells = s.cells /\ t.reactions = s.reactions
      /\ t.jobs = s.jobs /\ t.contexts = s.contexts
  BY <1>1 DEF SamePlaces
<1>3. Follows(s, t)
  <2>1. SameLists(s, t)
    BY DEF SameLists, CalledWith
  <2> QED BY <1>2, <2>1 DEF Follows, SameCells, CalledWith
<1>4. SameOrPending(s, t)
  BY <1>2 DEF SameOrPending
<1>5. Moved(s, t)
  BY <1>1, <1>2, <1>4, CalmOpen DEF Moved
<1>6. Queued(s, t) /\ Exposes(s, t)
  BY <1>2 DEF Queued, Exposes
<1>7. ASSUME NEW k \in 1..Len(t.aggregates)
      PROVE  Collected(t, k)
  <2>1. k \in 1..Len(s.aggregates) /\ Collected(s, k)
    BY DEF CalledWith, Owned, Lists
  <2>2. CASE k # a
    <3>1. t.aggregates[k] = s.aggregates[k]
      BY <2>1, <2>2 DEF CalledWith
    <3> QED BY <1>1, <2>1, <3>1 DEF Collected
  <2>3. CASE k = a
    <3>1. /\ h.kind = g.kind /\ h.inputs = g.inputs /\ Len(h.values) = Len(g.values)
          /\ h.called = g.called \cup {i} /\ h.remaining = g.remaining - 1
          /\ \A m \in 1..Len(g.values) :
                h.values[m] = IF m = i THEN [rejected |-> b, value |-> v] ELSE g.values[m]
      BY DEF CalledWith
    <3>2. /\ Len(g.values) = Len(g.inputs) /\ g.called \subseteq 1..Len(g.inputs)
          /\ Cardinality((1..Len(g.inputs)) \ g.called) <= g.remaining
          /\ \A m \in g.called : /\ SettledTo(s, g.inputs[m], g.values[m].rejected, g.values[m].value)
                                 /\ g.kind = "all" => ~g.values[m].rejected
                                 /\ g.kind = "any" => g.values[m].rejected
      BY <2>1, <2>3 DEF Collected
    <3>3. Len(g.inputs) \in Nat /\ g.remaining \in Int
      BY ClaimsTyped, Elements DEF AggregatesOf
    <3>4. Cardinality((1..Len(h.inputs)) \ h.called) <= h.remaining
      <4> DEFINE S == (1..Len(g.inputs)) \ g.called
      <4>1. IsFiniteSet(1..Len(g.inputs))
        BY <3>3, FiniteUpTo
      <4>2. IsFiniteSet(S) /\ i \in S
        BY <4>1, FS_Subset
      <4>3. (1..Len(h.inputs)) \ h.called = S \ {i}
        BY <3>1
      <4> HIDE DEF S
      <4>4. Cardinality(S \ {i}) = Cardinality(S) - 1 /\ Cardinality(S) \in Nat
        BY <4>2, FS_RemoveElement, FS_CardinalityType
      <4>5. Cardinality(S) <= g.remaining
        BY <3>2 DEF S
      <4>6. h.remaining = g.remaining - 1
        BY <3>1
      <4>7. Cardinality(S) - 1 <= g.remaining - 1
        BY ONLY <3>3, <4>4, <4>5
      <4> QED BY ONLY <4>3, <4>4, <4>6, <4>7
    <3>5. ASSUME NEW m \in h.called
          PROVE  /\ SettledTo(t, h.inputs[m], h.values[m].rejected, h.values[m].value)
                 /\ h.kind = "all" => ~h.values[m].rejected
                 /\ h.kind = "any" => h.values[m].rejected
      <4>1. m \in 1..Len(g.values) /\ (m = i \/ m \in g.called)
        BY <3>1, <3>2
      <4>2. CASE m = i
        <5>1. h.values[m] = [rejected |-> b, value |-> v]
          BY <3>1, <4>1, <4>2
        <5>2. h.values[m].rejected = b /\ h.values[m].value = v
          BY <5>1
        <5> HIDE DEF h
        <5> QED BY <1>1, <3>1, <4>2, <5>2
      <4>3. CASE m # i
        <5>1. h.values[m] = g.values[m] /\ m \in g.called
          BY <3>1, <4>1, <4>3
        <5> HIDE DEF h, g
        <5> QED BY <1>1, <3>1, <3>2, <5>1
      <4> QED BY <4>2, <4>3
    <3>6. Len(h.values) = Len(h.inputs) /\ h.called \subseteq 1..Len(h.inputs)
      BY <3>1, <3>2
    <3> QED BY <2>3, <3>4, <3>5, <3>6 DEF Collected
  <2> QED BY <2>2, <2>3
<1>8. Lists(t)
  BY <1>7 DEF Lists
<1>9. SettlesFit(s, t)
  BY <1>4, CalmSettles
<1>10. Owned(t)
  BY <1>3, <1>5, <1>6, <1>8, <1>9, OwnedFollows
<1> QED BY <1>3, <1>10

====
