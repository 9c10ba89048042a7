---------------------------- MODULE PromiseLemmas ----------------------------
(* Lemmas about the operators of Promise.  Each takes a state that is Sound,  *)
(* later Good, to one that is, and to which it Grows.                        *)
EXTENDS Promise, SequenceTheorems, FiniteSetTheorems, WellFoundedInduction, TLAPS

-----------------------------------------------------------------------------
(* The types of the engine's state.  What refers to promises, pairs of       *)
(* functions, aggregates, contexts and reactions refers to those that exist: *)
(* types depend on how many there are of each.                               *)

Sizes == [promises : Nat, cells : Nat, aggregates : Nat, contexts : Nat, reactions : Nat]

SizesOf(s) ==
    [promises |-> Len(s.promises), cells |-> Len(s.cells),
     aggregates |-> Len(s.aggregates), contexts |-> Len(s.contexts),
     reactions |-> Len(s.reactions)]

\* There are no fewer of anything.
AtMost(n, m) ==
    /\ n.promises <= m.promises /\ n.cells <= m.cells
    /\ n.aggregates <= m.aggregates /\ n.contexts <= m.contexts
    /\ n.reactions <= m.reactions

ValuesOf(n) == {v \in Values_ : v.kind = "promise" => v.id \in 1..n.promises}

HandlersOf(n) ==
    {h \in [kind : HandlerKinds, id : Nat, index : Nat, value : ValuesOf(n)] :
        /\ h.kind \in {"resolve", "reject"} => h.id \in 1..n.cells
        /\ h.kind = "await" => h.id \in 1..n.contexts /\ h = Handler("await", h.id)
        /\ h.kind = "element" => h.id \in 1..n.aggregates}

\* An async function goes on whether what it waits for is fulfilled or not.
ReactionsOf(n) ==
    {r \in [fulfilled : HandlersOf(n), rejected : HandlersOf(n), cell : 0..n.cells,
            id : 1..n.reactions] :
        r.fulfilled.kind = "await" \/ r.rejected.kind = "await" => r.fulfilled = r.rejected}

PromisesOf(n) ==
    [state : {"pending", "fulfilled", "rejected"}, result : ValuesOf(n),
     handled : BOOLEAN, reactions : Seq(ReactionsOf(n))]

CellsOf(n) == [promise : 1..n.promises, resolved : BOOLEAN, exposed : BOOLEAN]

JobsOf(n) ==
    {j \in [kind : {"reaction", "thenable"}, rejected : BOOLEAN,
            promise : 0..n.promises, value : ValuesOf(n), handler : HandlersOf(n),
            cell : 0..n.cells, reaction : 0..n.reactions] :
        /\ j.kind = "reaction" => j.reaction # 0
        /\ j.kind = "thenable" => j.promise # 0 /\ j.handler.kind = "none"}

AggregatesOf(n) ==
    [kind : {"all", "allSettled", "any", "race"}, cell : 1..n.cells,
     inputs : Seq(1..n.promises), called : SUBSET Nat,
     values : Seq([rejected : BOOLEAN, value : ValuesOf(n)]), remaining : Int]

ContextsOf(n) == [cell : 1..n.cells, live : BOOLEAN]

FinallysOf(n) ==
    [from : 1..n.promises, cell : 1..n.cells, via : 0..n.promises, inner : 0..n.promises]

VmOf(n) ==
    [promises : Seq(PromisesOf(n)), cells : Seq(CellsOf(n)), jobs : Seq(JobsOf(n)),
     aggregates : Seq(AggregatesOf(n)), contexts : Seq(ContextsOf(n)),
     tracking : BOOLEAN, rejected : SUBSET (1..n.promises),
     reactions : Seq(1..n.promises), ran : Seq(1..n.reactions),
     finallys : Seq(FinallysOf(n))]

-----------------------------------------------------------------------------
(* What exists goes on existing. *)

LEMMA Widened ==
    ASSUME NEW n \in Sizes, NEW m \in Sizes, AtMost(n, m)
    PROVE  /\ ValuesOf(n) \subseteq ValuesOf(m)
           /\ HandlersOf(n) \subseteq HandlersOf(m)
           /\ ReactionsOf(n) \subseteq ReactionsOf(m)
           /\ JobsOf(n) \subseteq JobsOf(m)
           /\ VmOf(n) \subseteq VmOf(m)
<1>1. /\ 1..n.promises \subseteq 1..m.promises /\ 0..n.promises \subseteq 0..m.promises
      /\ 1..n.cells \subseteq 1..m.cells /\ 0..n.cells \subseteq 0..m.cells
      /\ 1..n.aggregates \subseteq 1..m.aggregates
      /\ 1..n.contexts \subseteq 1..m.contexts
      /\ 1..n.reactions \subseteq 1..m.reactions
      /\ 0..n.reactions \subseteq 0..m.reactions
  BY DEF Sizes, AtMost
<1>2. ValuesOf(n) \subseteq ValuesOf(m)
  BY <1>1 DEF ValuesOf
<1>3. HandlersOf(n) \subseteq HandlersOf(m)
  BY <1>1, <1>2 DEF HandlersOf
<1>4. ReactionsOf(n) \subseteq ReactionsOf(m)
  BY <1>1, <1>3 DEF ReactionsOf
<1>5. Seq(ReactionsOf(n)) \subseteq Seq(ReactionsOf(m))
  BY <1>4, SeqMonotonic
<1>6. PromisesOf(n) \subseteq PromisesOf(m)
  BY <1>2, <1>5 DEF PromisesOf
<1>7. CellsOf(n) \subseteq CellsOf(m)
  BY <1>1 DEF CellsOf
<1>8. JobsOf(n) \subseteq JobsOf(m)
  BY <1>1, <1>2, <1>3 DEF JobsOf
<1>9. AggregatesOf(n) \subseteq AggregatesOf(m)
  <2>1. Seq(1..n.promises) \subseteq Seq(1..m.promises)
    BY <1>1, SeqMonotonic
  <2>2. [rejected : BOOLEAN, value : ValuesOf(n)] \subseteq [rejected : BOOLEAN, value : ValuesOf(m)]
    BY <1>2
  <2>3. Seq([rejected : BOOLEAN, value : ValuesOf(n)])
           \subseteq Seq([rejected : BOOLEAN, value : ValuesOf(m)])
    BY <2>2, SeqMonotonic
  <2> QED BY <2>1, <2>3, <1>1 DEF AggregatesOf
<1>10. ContextsOf(n) \subseteq ContextsOf(m)
  BY <1>1 DEF ContextsOf
<1>11. FinallysOf(n) \subseteq FinallysOf(m)
  BY <1>1 DEF FinallysOf
<1>12. VmOf(n) \subseteq VmOf(m)
  <2>1. /\ Seq(PromisesOf(n)) \subseteq Seq(PromisesOf(m))
        /\ Seq(CellsOf(n)) \subseteq Seq(CellsOf(m))
        /\ Seq(JobsOf(n)) \subseteq Seq(JobsOf(m))
        /\ Seq(AggregatesOf(n)) \subseteq Seq(AggregatesOf(m))
        /\ Seq(ContextsOf(n)) \subseteq Seq(ContextsOf(m))
        /\ Seq(1..n.promises) \subseteq Seq(1..m.promises)
        /\ Seq(1..n.reactions) \subseteq Seq(1..m.reactions)
        /\ Seq(FinallysOf(n)) \subseteq Seq(FinallysOf(m))
    BY <1>1, <1>6, <1>7, <1>8, <1>9, <1>10, <1>11, SeqMonotonic
  <2> QED BY <2>1, <1>1 DEF VmOf
<1> QED BY <1>2, <1>3, <1>4, <1>8, <1>12

-----------------------------------------------------------------------------
(* The inductive invariant of the engine's state.                            *)

\* Pair c has not been used.
Open(s, c) == ~s.cells[c].resolved

\* Job i asks a thenable for the value of its promise.
Asks(s, i) == s.jobs[i].kind = "thenable"

\* OneWayToSettle, without counting.
OneWay(s) ==
    /\ \A c, d \in 1..Len(s.cells) :
          Open(s, c) /\ Open(s, d) /\ s.cells[c].promise = s.cells[d].promise => c = d
    /\ \A i, j \in 1..Len(s.jobs) :
          Asks(s, i) /\ Asks(s, j) /\ s.jobs[i].promise = s.jobs[j].promise => i = j
    /\ \A c \in 1..Len(s.cells), i \in 1..Len(s.jobs) :
          Open(s, c) /\ Asks(s, i) => s.cells[c].promise # s.jobs[i].promise
    /\ \A c \in 1..Len(s.cells) : Open(s, c) => ~Settled(s, s.cells[c].promise)
    /\ \A i \in 1..Len(s.jobs) : Asks(s, i) => ~Settled(s, s.jobs[i].promise)
    /\ \A p \in 1..Len(s.promises) :
          \/ Settled(s, p)
          \/ \E c \in 1..Len(s.cells) : Open(s, c) /\ s.cells[c].promise = p
          \/ \E i \in 1..Len(s.jobs) : Asks(s, i) /\ s.jobs[i].promise = p

\* Rejections that nobody handles are in the list.
Listed(s) ==
    \A p \in 1..Len(s.promises) :
       s.promises[p].state = "rejected" /\ ~s.promises[p].handled => p \in s.rejected

Typed(s) == SizesOf(s) \in Sizes /\ s \in VmOf(SizesOf(s))

Sound(s) == Typed(s) /\ OneWay(s) /\ Listed(s)

\* What every operation keeps: what exists, and what is settled.
Grows(s, t) ==
    /\ AtMost(SizesOf(s), SizesOf(t))
    /\ \A p \in 1..Len(s.promises) :
          Settled(s, p) => /\ t.promises[p].state = s.promises[p].state
                           /\ t.promises[p].result = s.promises[p].result

LEMMA GrowsTransitive ==
    ASSUME NEW s, NEW t, NEW u, Typed(s), Typed(t), Typed(u), Grows(s, t), Grows(t, u)
    PROVE  Grows(s, u)
<1>1. /\ Len(s.promises) \in Nat /\ Len(t.promises) \in Nat
      /\ Len(s.promises) <= Len(t.promises)
  BY DEF Typed, Grows, AtMost, SizesOf, Sizes
<1>2. AtMost(SizesOf(s), SizesOf(u))
  <2> DEFINE a == SizesOf(s)
             b == SizesOf(t)
             c == SizesOf(u)
  <2>1. /\ a \in Sizes /\ b \in Sizes /\ c \in Sizes
        /\ AtMost(a, b) /\ AtMost(b, c)
    BY DEF Typed, Grows
  <2> HIDE DEF a, b, c
  <2>2. AtMost(a, c)
    BY <2>1 DEF AtMost, Sizes
  <2> QED BY <2>2 DEF a, c
<1>3. ASSUME NEW p \in 1..Len(s.promises), Settled(s, p)
      PROVE  /\ u.promises[p].state = s.promises[p].state
             /\ u.promises[p].result = s.promises[p].result
  <2>1. p \in 1..Len(t.promises)
    BY <1>1
  <2>2. /\ t.promises[p].state = s.promises[p].state
        /\ t.promises[p].result = s.promises[p].result
    BY <1>3 DEF Grows
  <2>3. Settled(t, p)
    BY <1>3, <2>2 DEF Settled
  <2> QED BY <2>1, <2>2, <2>3 DEF Grows
<1> QED BY <1>2, <1>3 DEF Grows

LEMMA GrowsReflexive ==
    ASSUME NEW s, Typed(s)
    PROVE  Grows(s, s)
BY DEF Typed, Grows, AtMost, SizesOf, Sizes

\* The fields of a state that has its type.
LEMMA Fields ==
    ASSUME NEW n, NEW s \in VmOf(n)
    PROVE  /\ s = [promises |-> s.promises, cells |-> s.cells, jobs |-> s.jobs,
                   aggregates |-> s.aggregates, contexts |-> s.contexts,
                   tracking |-> s.tracking, rejected |-> s.rejected,
                   reactions |-> s.reactions, ran |-> s.ran, finallys |-> s.finallys]
           /\ s.promises \in Seq(PromisesOf(n)) /\ s.cells \in Seq(CellsOf(n))
           /\ s.jobs \in Seq(JobsOf(n)) /\ s.aggregates \in Seq(AggregatesOf(n))
           /\ s.contexts \in Seq(ContextsOf(n)) /\ s.tracking \in BOOLEAN
           /\ s.rejected \subseteq 1..n.promises /\ s.reactions \in Seq(1..n.promises)
           /\ s.ran \in Seq(1..n.reactions) /\ s.finallys \in Seq(FinallysOf(n))
BY DEF VmOf

\* The sizes of a state that has its type.
LEMMA SizesTyped ==
    ASSUME NEW n, NEW s \in VmOf(n)
    PROVE  /\ SizesOf(s) \in Sizes
           /\ Len(s.promises) \in Nat /\ Len(s.cells) \in Nat /\ Len(s.jobs) \in Nat
           /\ Len(s.aggregates) \in Nat /\ Len(s.contexts) \in Nat
           /\ Len(s.reactions) \in Nat
BY Fields, LenProperties DEF SizesOf, Sizes

\* The elements of a state that has its type.
LEMMA Elements ==
    ASSUME NEW s, Typed(s)
    PROVE  /\ \A p \in 1..Len(s.promises) : s.promises[p] \in PromisesOf(SizesOf(s))
           /\ \A c \in 1..Len(s.cells) : s.cells[c] \in CellsOf(SizesOf(s))
           /\ \A c \in 1..Len(s.cells) : s.cells[c].promise \in 1..Len(s.promises)
           /\ \A i \in 1..Len(s.jobs) : s.jobs[i] \in JobsOf(SizesOf(s))
           /\ \A i \in 1..Len(s.jobs) :
                 s.jobs[i].kind = "thenable" => s.jobs[i].promise \in 1..Len(s.promises)
           /\ \A a \in 1..Len(s.aggregates) : s.aggregates[a] \in AggregatesOf(SizesOf(s))
           /\ \A x \in 1..Len(s.contexts) : s.contexts[x] \in ContextsOf(SizesOf(s))
<1> DEFINE n == SizesOf(s)
<1>1. s \in VmOf(n)
  BY DEF Typed
<1>2. /\ \A p \in 1..Len(s.promises) : s.promises[p] \in PromisesOf(n)
      /\ \A c \in 1..Len(s.cells) : s.cells[c] \in CellsOf(n)
      /\ \A i \in 1..Len(s.jobs) : s.jobs[i] \in JobsOf(n)
      /\ \A a \in 1..Len(s.aggregates) : s.aggregates[a] \in AggregatesOf(n)
      /\ \A x \in 1..Len(s.contexts) : s.contexts[x] \in ContextsOf(n)
  <2> HIDE DEF n
  <2> QED BY <1>1, Fields, ElementOfSeq
<1>3. n.promises = Len(s.promises)
  BY DEF SizesOf
<1>4. Len(s.promises) \in Nat
  BY <1>1, SizesTyped
<1> HIDE DEF n
<1>5. ASSUME NEW i \in 1..Len(s.jobs), s.jobs[i].kind = "thenable"
      PROVE  s.jobs[i].promise \in 1..Len(s.promises)
  <2> DEFINE j == s.jobs[i]
  <2>1. j \in JobsOf(n) /\ j.kind = "thenable"
    BY <1>2, <1>5
  <2> HIDE DEF j
  <2>2. j.promise \in 1..Len(s.promises)
    BY <2>1, <1>3, <1>4 DEF JobsOf
  <2> QED BY <2>2 DEF j
<1>6. \A c \in 1..Len(s.cells) : s.cells[c].promise \in 1..Len(s.promises)
  BY <1>2, <1>3 DEF CellsOf
<1> QED BY <1>2, <1>5, <1>6 DEF n

-----------------------------------------------------------------------------
(* Changes of one part of the state.                                         *)

\* A state of another that differs in what settles no promise.
SameWays(s, t) ==
    /\ t.cells = s.cells
    /\ Len(t.promises) = Len(s.promises)
    /\ \A p \in 1..Len(s.promises) : t.promises[p].state = s.promises[p].state
    /\ Len(s.jobs) <= Len(t.jobs)
    /\ \A i \in 1..Len(s.jobs) : t.jobs[i] = s.jobs[i]
    /\ \A i \in 1..Len(t.jobs) : i > Len(s.jobs) => t.jobs[i].kind = "reaction"

LEMMA OneWayKept ==
    ASSUME NEW s, NEW t, Typed(s), Typed(t), OneWay(s), SameWays(s, t)
    PROVE  OneWay(t)
<1>1. /\ Len(s.jobs) \in Nat /\ Len(t.jobs) \in Nat
      /\ \A c \in 1..Len(s.cells) : s.cells[c].promise \in 1..Len(s.promises)
  BY SizesTyped, Elements DEF Typed
<1>2. ASSUME NEW i \in 1..Len(t.jobs), Asks(t, i)
      PROVE  i \in 1..Len(s.jobs) /\ Asks(s, i) /\ t.jobs[i] = s.jobs[i]
  BY <1>1, <1>2 DEF SameWays, Asks
<1>3. \A i \in 1..Len(s.jobs) : Asks(s, i) => i \in 1..Len(t.jobs) /\ Asks(t, i) /\ t.jobs[i] = s.jobs[i]
  BY <1>1 DEF SameWays, Asks
<1>4. \A i \in 1..Len(s.jobs) : Asks(s, i) => s.jobs[i].promise \in 1..Len(s.promises)
  BY Elements DEF Asks
<1>5. \A p \in 1..Len(s.promises) : Settled(t, p) <=> Settled(s, p)
  BY DEF SameWays, Settled
<1>6. \A c \in 1..Len(s.cells) : Open(t, c) <=> Open(s, c)
  BY DEF SameWays, Open
<1>7. t.cells = s.cells /\ Len(t.promises) = Len(s.promises)
  BY DEF SameWays
<1>8. /\ \A c, d \in 1..Len(t.cells) :
            Open(t, c) /\ Open(t, d) /\ t.cells[c].promise = t.cells[d].promise => c = d
      /\ \A c \in 1..Len(t.cells) : Open(t, c) => ~Settled(t, t.cells[c].promise)
  BY <1>1, <1>5, <1>6, <1>7 DEF OneWay
<1>9. \A i, j \in 1..Len(t.jobs) :
         Asks(t, i) /\ Asks(t, j) /\ t.jobs[i].promise = t.jobs[j].promise => i = j
  BY <1>2 DEF OneWay
<1>10. \A c \in 1..Len(t.cells), i \in 1..Len(t.jobs) :
          Open(t, c) /\ Asks(t, i) => t.cells[c].promise # t.jobs[i].promise
  BY <1>2, <1>6, <1>7 DEF OneWay
<1>11. \A i \in 1..Len(t.jobs) : Asks(t, i) => ~Settled(t, t.jobs[i].promise)
  BY <1>2, <1>4, <1>5 DEF OneWay
<1>12. ASSUME NEW p \in 1..Len(t.promises)
       PROVE  \/ Settled(t, p)
              \/ \E c \in 1..Len(t.cells) : Open(t, c) /\ t.cells[c].promise = p
              \/ \E i \in 1..Len(t.jobs) : Asks(t, i) /\ t.jobs[i].promise = p
  <2>1. \/ Settled(s, p)
        \/ \E c \in 1..Len(s.cells) : Open(s, c) /\ s.cells[c].promise = p
        \/ \E i \in 1..Len(s.jobs) : Asks(s, i) /\ s.jobs[i].promise = p
    BY <1>7 DEF OneWay
  <2> QED BY <2>1, <1>3, <1>5, <1>6, <1>7
<1> QED BY <1>8, <1>9, <1>10, <1>11, <1>12 DEF OneWay

\* The states of the promises stay, and so do the results.
SameStates(s, t) ==
    \A p \in 1..Len(s.promises) :
       /\ t.promises[p].state = s.promises[p].state
       /\ t.promises[p].result = s.promises[p].result

LEMMA GrowsWithSame ==
    ASSUME NEW s, NEW t, Typed(s), AtMost(SizesOf(s), SizesOf(t)), SameStates(s, t)
    PROVE  Grows(s, t)
BY DEF Grows, SameStates

\* The jobs are others.
LEMMA WithJobs ==
    ASSUME NEW n, NEW s \in VmOf(n), NEW x \in Seq(JobsOf(n))
    PROVE  [s EXCEPT !.jobs = x] \in VmOf(n)
BY DEF VmOf

\* One promise is another.
LEMMA WithPromise ==
    ASSUME NEW n, NEW s \in VmOf(n), NEW p \in 1..Len(s.promises), NEW q \in PromisesOf(n)
    PROVE  /\ [s EXCEPT !.promises[p] = q] \in VmOf(n)
           /\ Len([s EXCEPT !.promises[p] = q].promises) = Len(s.promises)
<1> DEFINE x == [s.promises EXCEPT ![p] = q]
<1>1. x \in Seq(PromisesOf(n)) /\ Len(x) = Len(s.promises)
  BY Fields, ExceptSeq
<1> HIDE DEF x
<1>2. [s EXCEPT !.promises = x] \in VmOf(n) /\ [s EXCEPT !.promises = x].promises = x
  BY <1>1 DEF VmOf
<1>3. [s EXCEPT !.promises[p] = q] = [s EXCEPT !.promises = x]
  BY Fields DEF x
<1> QED BY <1>1, <1>2, <1>3

\* One pair of functions is another.
LEMMA WithCell ==
    ASSUME NEW n, NEW s \in VmOf(n), NEW c \in 1..Len(s.cells), NEW q \in CellsOf(n)
    PROVE  /\ [s EXCEPT !.cells[c] = q] \in VmOf(n)
           /\ Len([s EXCEPT !.cells[c] = q].cells) = Len(s.cells)
<1> DEFINE x == [s.cells EXCEPT ![c] = q]
<1>1. x \in Seq(CellsOf(n)) /\ Len(x) = Len(s.cells)
  BY Fields, ExceptSeq
<1> HIDE DEF x
<1>2. [s EXCEPT !.cells = x] \in VmOf(n) /\ [s EXCEPT !.cells = x].cells = x
  BY <1>1 DEF VmOf
<1>3. [s EXCEPT !.cells[c] = q] = [s EXCEPT !.cells = x]
  BY Fields DEF x
<1> QED BY <1>1, <1>2, <1>3

\* The list of rejections is another.
LEMMA WithRejected ==
    ASSUME NEW n, NEW s \in VmOf(n), NEW b \in BOOLEAN, NEW R \in SUBSET (1..n.promises)
    PROVE  [s EXCEPT !.tracking = b, !.rejected = R] \in VmOf(n)
BY DEF VmOf

-----------------------------------------------------------------------------
(* Jobs, and the list of rejections.                                         *)

\* The job of a reaction.
LEMMA ReactionJobTyped ==
    ASSUME NEW n \in Sizes, NEW r \in ReactionsOf(n), NEW b \in BOOLEAN,
           NEW v \in ValuesOf(n)
    PROVE  ReactionJob(r, b, v) \in JobsOf(n) /\ ReactionJob(r, b, v).kind = "reaction"
<1>1. /\ r.fulfilled \in HandlersOf(n) /\ r.rejected \in HandlersOf(n)
      /\ r.cell \in 0..n.cells /\ r.id \in 1..n.reactions
  BY DEF ReactionsOf
<1>2. 0 \in 0..n.promises /\ r.id \in 0..n.reactions /\ r.id # 0
  BY <1>1 DEF Sizes
<1> QED BY <1>1, <1>2 DEF ReactionJob, JobsOf

\* The job that asks a thenable.
LEMMA ThenableJobTyped ==
    ASSUME NEW n \in Sizes, NEW p \in 1..n.promises, NEW v \in ValuesOf(n)
    PROVE  ThenableJob(p, v) \in JobsOf(n) /\ ThenableJob(p, v).kind = "thenable"
           /\ ThenableJob(p, v).promise = p
<1>1. Handler("none", 0) \in HandlersOf(n) /\ Handler("none", 0).kind = "none"
  BY DEF HandlersOf, Handler, HandlerKinds, ValuesOf, Undefined, Value, Values_, Kinds
<1>2. 0 \in 0..n.cells /\ 0 \in 0..n.reactions /\ p \in 0..n.promises /\ p # 0
  BY DEF Sizes
<1> QED BY <1>1, <1>2 DEF ThenableJob, JobsOf, NoCell

\* Jobs of reactions are added to the queue: everything holds as before.
LEMMA ReactionsQueued ==
    ASSUME NEW s, Typed(s), OneWay(s), NEW x \in Seq(JobsOf(SizesOf(s))),
           \A i \in 1..Len(x) : x[i].kind = "reaction",
           NEW t, t = [s EXCEPT !.jobs = s.jobs \o x]
    PROVE  /\ Typed(t) /\ OneWay(t) /\ SizesOf(t) = SizesOf(s)
           /\ t.promises = s.promises /\ t.cells = s.cells
           /\ t.rejected = s.rejected /\ t.reactions = s.reactions
           /\ Grows(s, t) /\ (Listed(s) => Listed(t))
<1> DEFINE n == SizesOf(s)
           y == s.jobs \o x
<1>1. n \in Sizes /\ s \in VmOf(n) /\ s.jobs \in Seq(JobsOf(n))
  BY Fields DEF Typed
<1>2. /\ y \in Seq(JobsOf(n)) /\ Len(s.jobs) \in Nat /\ Len(x) \in Nat
      /\ Len(y) = Len(s.jobs) + Len(x)
      /\ \A i \in 1..Len(y) : y[i] = IF i <= Len(s.jobs) THEN s.jobs[i] ELSE x[i - Len(s.jobs)]
  <2> HIDE DEF n
  <2> QED BY <1>1, ConcatProperties, LenProperties DEF n
<1>3. t \in VmOf(n)
  <2> HIDE DEF n, y
  <2> QED BY <1>1, <1>2, WithJobs DEF y
<1>4. /\ t.promises = s.promises /\ t.cells = s.cells /\ t.jobs = y
      /\ t.rejected = s.rejected /\ t.reactions = s.reactions
      /\ t.aggregates = s.aggregates /\ t.contexts = s.contexts
  <2> HIDE DEF n
  <2> QED BY <1>1, Fields
<1>5. SizesOf(t) = n
  BY <1>4 DEF SizesOf
<1>6. Typed(t)
  BY <1>1, <1>3, <1>5 DEF Typed
<1>7. SameWays(s, t)
  <2> HIDE DEF n, y
  <2>1. Len(s.jobs) <= Len(y) /\ \A i \in 1..Len(s.jobs) : y[i] = s.jobs[i]
    BY <1>2
  <2>2. ASSUME NEW i \in 1..Len(y), i > Len(s.jobs) PROVE y[i].kind = "reaction"
    <3>1. y[i] = x[i - Len(s.jobs)] /\ i - Len(s.jobs) \in 1..Len(x)
      BY <1>2, <2>2
    <3> QED BY <3>1
  <2> QED BY <2>1, <2>2, <1>4 DEF SameWays
<1>8. OneWay(t)
  BY <1>6, <1>7, OneWayKept
<1>9. Grows(s, t)
  <2>1. Grows(s, s)
    BY GrowsReflexive
  <2> QED BY <2>1, <1>4, <1>5 DEF Grows
<1>10. Listed(s) => Listed(t)
  BY <1>4 DEF Listed
<1> QED BY <1>4, <1>5, <1>6, <1>8, <1>9, <1>10

\* Every reaction of a promise that is settled becomes a job.
LEMMA Triggered ==
    ASSUME NEW s, Typed(s), OneWay(s), NEW rs \in Seq(ReactionsOf(SizesOf(s))),
           NEW b \in BOOLEAN, NEW v \in ValuesOf(SizesOf(s)),
           NEW t, t = njs_promise_trigger_reactions(s, rs, b, v)
    PROVE  /\ Typed(t) /\ OneWay(t) /\ SizesOf(t) = SizesOf(s)
           /\ t.promises = s.promises /\ t.cells = s.cells
           /\ t.rejected = s.rejected /\ t.reactions = s.reactions
           /\ Grows(s, t) /\ (Listed(s) => Listed(t))
<1> DEFINE n == SizesOf(s)
           x == [i \in DOMAIN rs |-> ReactionJob(rs[i], b, v)]
<1>1. n \in Sizes /\ DOMAIN rs = 1..Len(rs) /\ Len(rs) \in Nat
  BY LenProperties DEF Typed
<1>2. \A i \in DOMAIN rs : x[i] \in JobsOf(n) /\ x[i].kind = "reaction"
  <2> TAKE i \in DOMAIN rs
  <2>1. rs[i] \in ReactionsOf(n)
    BY <1>1, ElementOfSeq
  <2> HIDE DEF n
  <2> QED BY <2>1, <1>1, ReactionJobTyped DEF n
<1>3. x \in Seq(JobsOf(n)) /\ Len(x) = Len(rs)
  <2> HIDE DEF n
  <2>1. x = [i \in 1..Len(rs) |-> x[i]]
    BY <1>1
  <2>2. \A i \in 1..Len(rs) : x[i] \in JobsOf(n)
    BY <1>1, <1>2
  <2> HIDE DEF x
  <2> QED BY <2>1, <2>2, <1>1, IsASeq
<1>4. \A i \in 1..Len(x) : x[i].kind = "reaction"
  BY <1>1, <1>2, <1>3
<1>5. t = [s EXCEPT !.jobs = s.jobs \o x]
  BY DEF njs_promise_trigger_reactions
<1> HIDE DEF x
<1> QED BY <1>3, <1>4, <1>5, ReactionsQueued

\* Every rejection that nobody handles is in the list, but for that of p.
ListedBut(s, p) ==
    \A q \in 1..Len(s.promises) :
       s.promises[q].state = "rejected" /\ ~s.promises[q].handled /\ q # p => q \in s.rejected

\* The tracker is told of promise p.
LEMMA Tracked ==
    ASSUME NEW s, Typed(s), OneWay(s), NEW p \in 1..Len(s.promises), ListedBut(s, p),
           NEW b \in BOOLEAN, b => s.promises[p].handled,
           NEW t, t = ngx_js_rejection_tracker(s, p, b)
    PROVE  /\ Sound(t) /\ SizesOf(t) = SizesOf(s)
           /\ t.promises = s.promises /\ t.cells = s.cells
           /\ Grows(s, t) /\ t.reactions = s.reactions /\ t.jobs = s.jobs
<1> DEFINE n == SizesOf(s)
           R == IF b /\ s.tracking THEN s.rejected \ {p} ELSE s.rejected \cup {p}
           c == IF b /\ s.tracking THEN s.tracking ELSE TRUE
<1>1. n \in Sizes /\ s \in VmOf(n) /\ p \in 1..n.promises
  BY DEF Typed, SizesOf
<1>2. R \in SUBSET (1..n.promises) /\ c \in BOOLEAN
  <2> HIDE DEF n
  <2> QED BY <1>1, Fields
<1>3. t = [s EXCEPT !.tracking = c, !.rejected = R]
  <2>1. s = [promises |-> s.promises, cells |-> s.cells, jobs |-> s.jobs,
             aggregates |-> s.aggregates, contexts |-> s.contexts,
             tracking |-> s.tracking, rejected |-> s.rejected,
             reactions |-> s.reactions, ran |-> s.ran, finallys |-> s.finallys]
    BY <1>1, Fields
  <2>2. CASE b /\ s.tracking
    BY <2>1, <2>2 DEF ngx_js_rejection_tracker
  <2>3. CASE ~(b /\ s.tracking)
    BY <2>3 DEF ngx_js_rejection_tracker
  <2> QED BY <2>2, <2>3
<1>4. t \in VmOf(n)
  <2> HIDE DEF n, R, c
  <2>1. [s EXCEPT !.tracking = c, !.rejected = R] \in VmOf(n)
    BY <1>1, <1>2, WithRejected
  <2> QED BY <2>1, <1>3
<1>5. /\ t.promises = s.promises /\ t.cells = s.cells /\ t.jobs = s.jobs
      /\ t.rejected = R /\ t.reactions = s.reactions
      /\ t.aggregates = s.aggregates /\ t.contexts = s.contexts
  <2> HIDE DEF n, R, c
  <2> QED BY <1>1, <1>3, Fields
<1>6. SizesOf(t) = n
  BY <1>5 DEF SizesOf
<1>7. Typed(t)
  BY <1>1, <1>4, <1>6 DEF Typed
<1>8. OneWay(t)
  <2>1. SameWays(s, t)
    <3>1. Len(s.jobs) \in Nat
      <4> HIDE DEF n
      <4> QED BY <1>1, SizesTyped
    <3> HIDE DEF n, R, c
    <3>2. \A i \in 1..Len(t.jobs) : ~(i > Len(s.jobs))
      BY <3>1, <1>5
    <3> QED BY <3>1, <3>2, <1>5 DEF SameWays
  <2> QED BY <2>1, <1>7, OneWayKept
<1>9. Grows(s, t)
  <2>1. Grows(s, s)
    BY GrowsReflexive
  <2> QED BY <2>1, <1>5, <1>6 DEF Grows
<1>10. Listed(t)
  BY <1>5 DEF Listed, ListedBut
<1> QED BY <1>5, <1>6, <1>7, <1>8, <1>9, <1>10 DEF Sound

-----------------------------------------------------------------------------
(* A promise is settled by the way it has left.                              *)

\* The pair c has been used.
LEMMA UsedTyped ==
    ASSUME NEW s, Typed(s), NEW c \in 1..Len(s.cells),
           NEW t, t = Used(s, c)
    PROVE  /\ Typed(t) /\ SizesOf(t) = SizesOf(s)
           /\ t.promises = s.promises /\ t.jobs = s.jobs /\ t.rejected = s.rejected
           /\ t.reactions = s.reactions /\ t.tracking = s.tracking
           /\ Len(t.cells) = Len(s.cells)
           /\ \A d \in 1..Len(s.cells) :
                 /\ t.cells[d].promise = s.cells[d].promise
                 /\ Open(t, d) <=> Open(s, d) /\ d # c
<1> DEFINE n == SizesOf(s)
           q == [s.cells[c] EXCEPT !.resolved = TRUE]
           x == [s.cells EXCEPT ![c] = q]
<1>1. n \in Sizes /\ s \in VmOf(n) /\ s.cells[c] \in CellsOf(n)
  BY Elements DEF Typed
<1> HIDE DEF n
<1>2. q \in CellsOf(n) /\ q.promise = s.cells[c].promise /\ q.resolved = TRUE
  BY <1>1 DEF CellsOf
<1> HIDE DEF q
<1>3. s.cells \in Seq(CellsOf(n)) /\ DOMAIN s.cells = 1..Len(s.cells)
  BY <1>1, Fields, LenProperties
<1>4. t = [s EXCEPT !.cells[c] = q]
  BY <1>1, Fields DEF Used, q
<1>5. t \in VmOf(n) /\ Len(t.cells) = Len(s.cells)
  BY <1>1, <1>2, <1>4, WithCell
<1>6. /\ t.promises = s.promises /\ t.jobs = s.jobs /\ t.rejected = s.rejected
      /\ t.aggregates = s.aggregates /\ t.contexts = s.contexts
      /\ t.reactions = s.reactions /\ t.tracking = s.tracking /\ t.cells = x
  BY <1>1, <1>4, Fields
<1>7. SizesOf(t) = n
  BY <1>5, <1>6 DEF SizesOf, n
<1>8. Typed(t)
  BY <1>1, <1>5, <1>7 DEF Typed
<1>9. ASSUME NEW d \in 1..Len(s.cells)
      PROVE  /\ t.cells[d].promise = s.cells[d].promise
             /\ Open(t, d) <=> Open(s, d) /\ d # c
  <2>1. t.cells[d] = IF d = c THEN q ELSE s.cells[d]
    BY <1>3, <1>6
  <2> QED BY <2>1, <1>2 DEF Open
<1> QED BY <1>5, <1>6, <1>7, <1>8, <1>9 DEF n

\* Promise p is settled: its type.
LEMMA SettledTyped ==
    ASSUME NEW s, Typed(s), NEW p \in 1..Len(s.promises),
           NEW st \in {"fulfilled", "rejected"}, NEW v \in ValuesOf(SizesOf(s)),
           NEW t, t = [s EXCEPT !.promises[p] = SettledAs(s.promises[p], st, v)]
    PROVE  /\ Typed(t) /\ SizesOf(t) = SizesOf(s)
           /\ t.cells = s.cells /\ t.jobs = s.jobs /\ t.rejected = s.rejected
           /\ t.reactions = s.reactions
           /\ \A q \in 1..Len(s.promises) : q # p => t.promises[q] = s.promises[q]
           /\ t.promises[p].state = st
           /\ t.promises[p].handled = s.promises[p].handled
           /\ Len(t.promises) = Len(s.promises)
<1> DEFINE n == SizesOf(s)
           q == SettledAs(s.promises[p], st, v)
           x == [s.promises EXCEPT ![p] = q]
<1>1. n \in Sizes /\ s \in VmOf(n) /\ s.promises[p] \in PromisesOf(n)
  BY Elements DEF Typed
<1>2. v \in ValuesOf(n)
  OBVIOUS
<1> HIDE DEF n
<1>3. q \in PromisesOf(n) /\ q.state = st /\ q.handled = s.promises[p].handled
  <2>1. <<>> \in Seq(ReactionsOf(n))
    BY EmptySeq
  <2> QED BY <2>1, <1>1, <1>2 DEF PromisesOf, SettledAs
<1>4. s.promises \in Seq(PromisesOf(n)) /\ DOMAIN s.promises = 1..Len(s.promises)
  BY <1>1, Fields, LenProperties
<1>5. t = [s EXCEPT !.promises[p] = q]
  OBVIOUS
<1> HIDE DEF q
<1>6. t \in VmOf(n) /\ Len(t.promises) = Len(s.promises)
  BY <1>1, <1>3, <1>5, WithPromise
<1>7. /\ t.cells = s.cells /\ t.jobs = s.jobs /\ t.rejected = s.rejected
      /\ t.aggregates = s.aggregates /\ t.contexts = s.contexts
      /\ t.reactions = s.reactions /\ t.promises = x
  <2>1. t = [s EXCEPT !.promises = x]
    BY <1>1, <1>5, Fields
  <2> HIDE DEF x
  <2> QED BY <1>1, <2>1, Fields
<1>8. SizesOf(t) = n
  BY <1>6, <1>7 DEF SizesOf, n
<1>9. Typed(t)
  BY <1>1, <1>6, <1>8 DEF Typed
<1>10. /\ \A r \in 1..Len(s.promises) : r # p => t.promises[r] = s.promises[r]
       /\ t.promises[p] = q
  BY <1>4, <1>7
<1> QED BY <1>3, <1>6, <1>7, <1>8, <1>9, <1>10 DEF n

\* A pair that has not been used settles its promise.
LEMMA Closed ==
    ASSUME NEW s, Sound(s), NEW c \in 1..Len(s.cells), Open(s, c),
           NEW st \in {"fulfilled", "rejected"}, NEW v \in ValuesOf(SizesOf(s)),
           NEW p, p = PromiseOf(s, c), NEW u, u = Used(s, c),
           NEW t, t = [u EXCEPT !.promises[p] = SettledAs(u.promises[p], st, v)]
    PROVE  /\ Typed(t) /\ OneWay(t) /\ SizesOf(t) = SizesOf(s)
           /\ Grows(s, t) /\ ListedBut(t, p) /\ t.reactions = s.reactions
           /\ p \in 1..Len(s.promises)
           /\ (st = "fulfilled" \/ s.promises[p].handled => Listed(t))
<1>1. Typed(s) /\ OneWay(s) /\ Listed(s)
  BY DEF Sound
<1>2. p \in 1..Len(s.promises)
  BY <1>1, Elements DEF PromiseOf
<1>3. /\ Typed(u) /\ SizesOf(u) = SizesOf(s)
      /\ u.promises = s.promises /\ u.jobs = s.jobs /\ u.rejected = s.rejected
      /\ u.reactions = s.reactions
      /\ Len(u.cells) = Len(s.cells)
      /\ \A d \in 1..Len(s.cells) :
            /\ u.cells[d].promise = s.cells[d].promise
            /\ Open(u, d) <=> Open(s, d) /\ d # c
  BY <1>1, UsedTyped
<1>4. /\ Typed(t) /\ SizesOf(t) = SizesOf(u)
      /\ t.cells = u.cells /\ t.jobs = u.jobs /\ t.rejected = u.rejected
      /\ t.reactions = u.reactions
      /\ \A q \in 1..Len(s.promises) : q # p => t.promises[q] = s.promises[q]
      /\ t.promises[p].state = st
      /\ t.promises[p].handled = s.promises[p].handled
      /\ Len(t.promises) = Len(s.promises)
  BY SMTT(20), <1>2, <1>3, SettledTyped
<1>5. \A q \in 1..Len(s.promises) : Settled(t, q) <=> Settled(s, q) \/ q = p
  BY <1>4 DEF Settled
<1>6. \A d \in 1..Len(s.cells) : /\ t.cells[d].promise = s.cells[d].promise
                                 /\ Open(t, d) <=> Open(s, d) /\ d # c
  BY <1>3, <1>4 DEF Open
<1>7. t.jobs = s.jobs /\ Len(t.cells) = Len(s.cells)
      /\ \A i \in 1..Len(s.jobs) : Asks(t, i) <=> Asks(s, i)
  BY <1>3, <1>4 DEF Asks
<1>8. /\ \A d \in 1..Len(s.cells) : s.cells[d].promise \in 1..Len(s.promises)
      /\ \A i \in 1..Len(s.jobs) : Asks(s, i) => s.jobs[i].promise \in 1..Len(s.promises)
  BY <1>1, Elements DEF Asks
<1>9. /\ s.cells[c].promise = p /\ Open(s, c) /\ ~Settled(s, p)
      /\ \A i \in 1..Len(s.jobs) : Asks(s, i) => s.jobs[i].promise # p
      /\ \A d \in 1..Len(s.cells) : Open(s, d) /\ d # c => s.cells[d].promise # p
  BY <1>1 DEF PromiseOf, OneWay
<1>10. OneWay(t)
  <2>1. ASSUME NEW d \in 1..Len(t.cells), NEW e \in 1..Len(t.cells), Open(t, d), Open(t, e),
               t.cells[d].promise = t.cells[e].promise
        PROVE  d = e
    <3>1. /\ d \in 1..Len(s.cells) /\ Open(s, d) /\ e \in 1..Len(s.cells) /\ Open(s, e)
          /\ s.cells[d].promise = s.cells[e].promise
      BY <2>1, <1>6, <1>7
    <3> QED BY <3>1, <1>1 DEF OneWay
  <2>6. ASSUME NEW i \in 1..Len(t.jobs), NEW j \in 1..Len(t.jobs), Asks(t, i), Asks(t, j),
               t.jobs[i].promise = t.jobs[j].promise
        PROVE  i = j
    <3>1. /\ i \in 1..Len(s.jobs) /\ Asks(s, i) /\ j \in 1..Len(s.jobs) /\ Asks(s, j)
          /\ s.jobs[i].promise = s.jobs[j].promise
      BY <2>6, <1>7
    <3> QED BY <3>1, <1>1 DEF OneWay
  <2>5. ASSUME NEW d \in 1..Len(t.cells), NEW i \in 1..Len(t.jobs), Open(t, d), Asks(t, i)
        PROVE  t.cells[d].promise # t.jobs[i].promise
    <3>1. /\ d \in 1..Len(s.cells) /\ Open(s, d) /\ i \in 1..Len(s.jobs) /\ Asks(s, i)
          /\ t.cells[d].promise = s.cells[d].promise /\ t.jobs[i] = s.jobs[i]
      BY <2>5, <1>6, <1>7
    <3> QED BY <3>1, <1>1 DEF OneWay
  <2>2. ASSUME NEW d \in 1..Len(t.cells), Open(t, d)
        PROVE  ~Settled(t, t.cells[d].promise)
    <3>1. /\ d \in 1..Len(s.cells) /\ Open(s, d) /\ d # c
          /\ t.cells[d].promise = s.cells[d].promise
      BY <2>2, <1>6, <1>7
    <3>2. ~Settled(s, s.cells[d].promise)
      BY <3>1, <1>1 DEF OneWay
    <3> QED BY <3>1, <3>2, <1>5, <1>8, <1>9
  <2>3. ASSUME NEW i \in 1..Len(t.jobs), Asks(t, i)
        PROVE  ~Settled(t, t.jobs[i].promise)
    <3>1. i \in 1..Len(s.jobs) /\ Asks(s, i) /\ t.jobs[i] = s.jobs[i]
      BY <2>3, <1>7
    <3>2. ~Settled(s, s.jobs[i].promise)
      BY <3>1, <1>1 DEF OneWay
    <3> QED BY <3>1, <3>2, <1>5, <1>8, <1>9
  <2>4. ASSUME NEW q \in 1..Len(t.promises)
        PROVE  \/ Settled(t, q)
               \/ \E d \in 1..Len(t.cells) : Open(t, d) /\ t.cells[d].promise = q
               \/ \E i \in 1..Len(t.jobs) : Asks(t, i) /\ t.jobs[i].promise = q
    <3>1. q \in 1..Len(s.promises)
      BY <1>4
    <3>2. CASE q = p
      BY <3>2, <3>1, <1>5
    <3>3. CASE q # p
      <4>1. \/ Settled(s, q)
            \/ \E d \in 1..Len(s.cells) : Open(s, d) /\ s.cells[d].promise = q
            \/ \E i \in 1..Len(s.jobs) : Asks(s, i) /\ s.jobs[i].promise = q
        BY <1>1, <3>1 DEF OneWay
      <4>2. \A d \in 1..Len(s.cells) : s.cells[d].promise = q => d # c
        BY <3>3, <1>9
      <4> QED BY <4>1, <4>2, <3>1, <1>5, <1>6, <1>7
    <3> QED BY <3>2, <3>3
  <2> QED BY <2>1, <2>2, <2>3, <2>4, <2>5, <2>6 DEF OneWay
<1>11. Grows(s, t)
  <2>1. Grows(s, s)
    BY <1>1, GrowsReflexive
  <2>2. \A q \in 1..Len(s.promises) : Settled(s, q) => t.promises[q] = s.promises[q]
    BY <1>4, <1>9
  <2> QED BY <2>1, <2>2, <1>3, <1>4 DEF Grows
<1>12. ListedBut(t, p)
  BY <1>1, <1>3, <1>4 DEF Listed, ListedBut
<1>13. st = "fulfilled" \/ s.promises[p].handled => Listed(t)
  BY <1>4, <1>12 DEF Listed, ListedBut
<1> QED BY <1>2, <1>3, <1>4, <1>10, <1>11, <1>12, <1>13

\* A state after an operation that creates nothing.
Held(s, t) == Sound(t) /\ SizesOf(t) = SizesOf(s) /\ Grows(s, t)

\* The reactions of promise p when the pair that settles it has been used.
LEMMA ReactionsTyped ==
    ASSUME NEW s, Typed(s), NEW c \in 1..Len(s.cells), NEW p \in 1..Len(s.promises),
           NEW u, u = Used(s, c)
    PROVE  /\ u.promises[p] = s.promises[p]
           /\ s.promises[p].reactions \in Seq(ReactionsOf(SizesOf(s)))
<1>1. u.promises = s.promises /\ s.promises[p] \in PromisesOf(SizesOf(s))
  BY UsedTyped, Elements
<1> QED BY <1>1 DEF PromisesOf

LEMMA FulfillSound ==
    ASSUME NEW s, Sound(s), NEW c \in 1..Len(s.cells), Open(s, c),
           NEW v \in ValuesOf(SizesOf(s)),
           NEW t, t = njs_promise_fulfill(Used(s, c), PromiseOf(s, c), v)
    PROVE  Held(s, t)
<1> DEFINE p == PromiseOf(s, c)
           u == Used(s, c)
           w == [u EXCEPT !.promises[p] = SettledAs(u.promises[p], "fulfilled", v)]
           rs == s.promises[p].reactions
<1> HIDE DEF p, u
<1>1. /\ Typed(w) /\ OneWay(w) /\ SizesOf(w) = SizesOf(s)
      /\ Grows(s, w) /\ p \in 1..Len(s.promises) /\ Listed(w)
  <2> HIDE DEF w
  <2> QED BY Closed DEF w, p, u
<1>2. u.promises[p] = s.promises[p] /\ rs \in Seq(ReactionsOf(SizesOf(w)))
  BY <1>1, ReactionsTyped DEF u, Sound
<1>3. PICK b \in BOOLEAN : t = njs_promise_trigger_reactions(w, rs, b, v)
  <2>1. t = njs_promise_trigger_reactions(w, u.promises[p].reactions, FALSE, v)
    BY Zenon DEF njs_promise_fulfill, p, u
  <2> HIDE DEF w
  <2> QED BY <2>1, <1>2, Zenon
<1> HIDE DEF w, rs
<1>4. v \in ValuesOf(SizesOf(w))
  BY <1>1
<1>5. /\ Typed(t) /\ OneWay(t) /\ SizesOf(t) = SizesOf(w)
      /\ Grows(w, t) /\ Listed(t)
  BY <1>1, <1>2, <1>3, <1>4, Triggered
<1>6. Grows(s, t)
  BY <1>1, <1>5, GrowsTransitive DEF Sound
<1> QED BY <1>1, <1>5, <1>6 DEF Held, Sound

LEMMA RejectSound ==
    ASSUME NEW s, Sound(s), NEW c \in 1..Len(s.cells), Open(s, c),
           NEW v \in ValuesOf(SizesOf(s)),
           NEW t, t = njs_promise_reject(Used(s, c), PromiseOf(s, c), v)
    PROVE  Held(s, t)
<1> DEFINE p == PromiseOf(s, c)
           u == Used(s, c)
           w == [u EXCEPT !.promises[p] = SettledAs(u.promises[p], "rejected", v)]
           rs == s.promises[p].reactions
           x == IF u.promises[p].handled THEN w ELSE ngx_js_rejection_tracker(w, p, FALSE)
<1> HIDE DEF p, u
<1>1. /\ Typed(w) /\ OneWay(w) /\ SizesOf(w) = SizesOf(s)
      /\ Grows(s, w) /\ p \in 1..Len(s.promises) /\ ListedBut(w, p)
      /\ s.promises[p].handled => Listed(w)
  <2> HIDE DEF w
  <2> QED BY Closed DEF w, p, u
<1>2. u.promises[p] = s.promises[p] /\ rs \in Seq(ReactionsOf(SizesOf(w)))
  BY <1>1, ReactionsTyped DEF u, Sound
<1>3. PICK b \in BOOLEAN : t = njs_promise_trigger_reactions(x, rs, b, v)
  <2>1. t = njs_promise_trigger_reactions(x, u.promises[p].reactions, TRUE, v)
    BY Zenon DEF njs_promise_reject, p, u
  <2> HIDE DEF w
  <2> QED BY <2>1, <1>2, Zenon
<1> HIDE DEF w, rs
<1>4. Sound(x) /\ SizesOf(x) = SizesOf(w) /\ Grows(w, x)
  <2>1. CASE s.promises[p].handled
    BY <2>1, <1>1, <1>2, GrowsReflexive DEF Sound
  <2>2. CASE ~s.promises[p].handled
    <3>1. x = ngx_js_rejection_tracker(w, p, FALSE)
      BY <2>2, <1>2
    <3>2. p \in 1..Len(w.promises)
      BY <1>1 DEF SizesOf
    <3> HIDE DEF x
    <3> QED BY <3>1, <3>2, <1>1, Tracked
  <2> QED BY <2>1, <2>2
<1> HIDE DEF x
<1>5. v \in ValuesOf(SizesOf(x)) /\ rs \in Seq(ReactionsOf(SizesOf(x)))
  BY <1>1, <1>2, <1>4
<1>6. /\ Typed(t) /\ OneWay(t) /\ SizesOf(t) = SizesOf(x)
      /\ Grows(x, t) /\ Listed(t)
  BY <1>3, <1>4, <1>5, Triggered DEF Sound
<1>7. Grows(s, t)
  <2>1. Grows(s, x)
    BY <1>1, <1>4, GrowsTransitive DEF Sound
  <2> QED BY <2>1, <1>4, <1>6, GrowsTransitive DEF Sound
<1> QED BY <1>1, <1>4, <1>6, <1>7 DEF Held, Sound

\* A pair that has not been used leaves its promise to a job.
LEMMA DeferSound ==
    ASSUME NEW s, Sound(s), NEW c \in 1..Len(s.cells), Open(s, c),
           NEW v \in ValuesOf(SizesOf(s)),
           NEW t, t = njs_vm_enqueue_job(Used(s, c), ThenableJob(PromiseOf(s, c), v))
    PROVE  Held(s, t)
<1> DEFINE p == PromiseOf(s, c)
           u == Used(s, c)
           n == SizesOf(s)
           j == ThenableJob(p, v)
           l == Len(s.jobs)
           y == Append(s.jobs, j)
<1>1. Typed(s) /\ OneWay(s) /\ Listed(s)
  BY DEF Sound
<1>2. /\ p \in 1..Len(s.promises) /\ n \in Sizes /\ p \in 1..n.promises
      /\ s \in VmOf(n) /\ v \in ValuesOf(n)
  BY <1>1, Elements DEF PromiseOf, SizesOf, Typed
<1>3. /\ Typed(u) /\ SizesOf(u) = n
      /\ u.promises = s.promises /\ u.jobs = s.jobs /\ u.rejected = s.rejected
      /\ u.reactions = s.reactions
      /\ Len(u.cells) = Len(s.cells)
      /\ \A d \in 1..Len(s.cells) :
            /\ u.cells[d].promise = s.cells[d].promise
            /\ Open(u, d) <=> Open(s, d) /\ d # c
  BY <1>1, UsedTyped
<1>4. t = [u EXCEPT !.jobs = Append(u.jobs, j)]
  BY DEF njs_vm_enqueue_job
<1>5. s.cells[c].promise = p
  BY DEF PromiseOf
<1> HIDE DEF u, n, p
<1>6. j \in JobsOf(n) /\ j.kind = "thenable" /\ j.promise = p
  BY <1>2, ThenableJobTyped
<1> HIDE DEF j
<1>7. /\ s.jobs \in Seq(JobsOf(n)) /\ u \in VmOf(n)
  BY <1>2, <1>3, Fields DEF Typed
<1>8. /\ y \in Seq(JobsOf(n)) /\ l \in Nat /\ Len(y) = l + 1
      /\ \A i \in 1..l : y[i] = s.jobs[i]
      /\ y[l + 1] = j
  BY <1>6, <1>7, AppendProperties, LenProperties
<1> HIDE DEF y
<1>9. t = [u EXCEPT !.jobs = y]
  BY <1>3, <1>4 DEF y
<1>10. t \in VmOf(n)
  BY <1>7, <1>8, <1>9, WithJobs
<1>11. /\ t.promises = s.promises /\ t.cells = u.cells /\ t.jobs = y
       /\ t.rejected = s.rejected /\ t.reactions = u.reactions
       /\ t.aggregates = u.aggregates /\ t.contexts = u.contexts
  BY <1>3, <1>7, <1>9, Fields
<1>12. SizesOf(t) = n
  BY <1>3, <1>11 DEF SizesOf
<1>13. Typed(t)
  BY <1>2, <1>10, <1>12 DEF Typed
<1>14. \A q \in 1..Len(s.promises) : Settled(t, q) <=> Settled(s, q)
  BY <1>11 DEF Settled
<1>15. \A d \in 1..Len(s.cells) : /\ t.cells[d].promise = s.cells[d].promise
                                  /\ Open(t, d) <=> Open(s, d) /\ d # c
  BY <1>3, <1>11 DEF Open
<1>16. /\ Len(t.jobs) = l + 1 /\ 1..Len(t.jobs) = (1..l) \cup {l + 1}
       /\ \A i \in 1..l : t.jobs[i] = s.jobs[i] /\ (Asks(t, i) <=> Asks(s, i))
       /\ t.jobs[l + 1].promise = p /\ Asks(t, l + 1)
       /\ Len(t.cells) = Len(s.cells) /\ l + 1 \notin 1..l
  BY <1>3, <1>6, <1>8, <1>11 DEF Asks
<1>17. /\ \A d \in 1..Len(s.cells) : s.cells[d].promise \in 1..Len(s.promises)
       /\ \A i \in 1..l : Asks(s, i) => s.jobs[i].promise \in 1..Len(s.promises)
  BY <1>1, Elements DEF Asks
<1>18. /\ ~Settled(s, p)
       /\ \A i \in 1..l : Asks(s, i) => s.jobs[i].promise # p
       /\ \A d \in 1..Len(s.cells) : Open(s, d) /\ d # c => s.cells[d].promise # p
  BY <1>1, <1>5 DEF OneWay
<1>19. OneWay(t)
  <2>1. ASSUME NEW d \in 1..Len(t.cells), NEW e \in 1..Len(t.cells), Open(t, d), Open(t, e),
               t.cells[d].promise = t.cells[e].promise
        PROVE  d = e
    <3>1. /\ d \in 1..Len(s.cells) /\ Open(s, d) /\ e \in 1..Len(s.cells) /\ Open(s, e)
          /\ s.cells[d].promise = s.cells[e].promise
      BY <2>1, <1>15, <1>16
    <3> QED BY <3>1, <1>1 DEF OneWay
  <2>2. ASSUME NEW i \in 1..Len(t.jobs), NEW k \in 1..Len(t.jobs), Asks(t, i), Asks(t, k),
               t.jobs[i].promise = t.jobs[k].promise
        PROVE  i = k
    <3>1. CASE i \in 1..l /\ k \in 1..l
      <4>1. Asks(s, i) /\ Asks(s, k) /\ s.jobs[i].promise = s.jobs[k].promise
        BY <2>2, <3>1, <1>16
      <4> QED BY <4>1, <3>1, <1>1 DEF OneWay
    <3>2. ASSUME NEW h \in 1..l, Asks(t, h) PROVE t.jobs[h].promise # p
      BY <3>2, <1>16, <1>18
    <3> QED BY <3>1, <3>2, <2>2, <1>16
  <2>3. ASSUME NEW d \in 1..Len(t.cells), NEW i \in 1..Len(t.jobs), Open(t, d), Asks(t, i)
        PROVE  t.cells[d].promise # t.jobs[i].promise
    <3>1. /\ d \in 1..Len(s.cells) /\ Open(s, d) /\ d # c
          /\ t.cells[d].promise = s.cells[d].promise
      BY <2>3, <1>15, <1>16
    <3>2. CASE i \in 1..l
      <4>1. Asks(s, i) /\ t.jobs[i] = s.jobs[i]
        BY <2>3, <3>2, <1>16
      <4> QED BY <3>1, <3>2, <4>1, <1>1 DEF OneWay
    <3> QED BY <3>1, <3>2, <1>16, <1>18
  <2>4. ASSUME NEW d \in 1..Len(t.cells), Open(t, d)
        PROVE  ~Settled(t, t.cells[d].promise)
    <3>1. /\ d \in 1..Len(s.cells) /\ Open(s, d) /\ t.cells[d].promise = s.cells[d].promise
      BY <2>4, <1>15, <1>16
    <3>2. ~Settled(s, s.cells[d].promise)
      BY <3>1, <1>1 DEF OneWay
    <3> QED BY <3>1, <3>2, <1>14, <1>17
  <2>5. ASSUME NEW i \in 1..Len(t.jobs), Asks(t, i)
        PROVE  ~Settled(t, t.jobs[i].promise)
    <3>1. CASE i \in 1..l
      <4>1. Asks(s, i) /\ t.jobs[i] = s.jobs[i]
        BY <2>5, <3>1, <1>16
      <4>2. ~Settled(s, s.jobs[i].promise)
        BY <3>1, <4>1, <1>1 DEF OneWay
      <4> QED BY <3>1, <4>1, <4>2, <1>14, <1>17
    <3> QED BY <3>1, <1>2, <1>14, <1>16, <1>18
  <2>6. ASSUME NEW q \in 1..Len(t.promises)
        PROVE  \/ Settled(t, q)
               \/ \E d \in 1..Len(t.cells) : Open(t, d) /\ t.cells[d].promise = q
               \/ \E i \in 1..Len(t.jobs) : Asks(t, i) /\ t.jobs[i].promise = q
    <3>1. q \in 1..Len(s.promises)
      BY <1>11
    <3>2. CASE q = p
      BY <3>2, <1>16
    <3>3. CASE q # p
      <4>1. CASE Settled(s, q)
        BY <4>1, <3>1, <1>14
      <4>2. CASE \E d \in 1..Len(s.cells) : Open(s, d) /\ s.cells[d].promise = q
        BY <4>2, <3>3, <1>5, <1>15, <1>16
      <4>3. CASE \E i \in 1..l : Asks(s, i) /\ s.jobs[i].promise = q
        BY <4>3, <1>16
      <4> QED BY <4>1, <4>2, <4>3, <3>1, <1>1 DEF OneWay
    <3> QED BY <3>2, <3>3
  <2> QED BY SMTT(60), <2>1, <2>2, <2>3, <2>4, <2>5, <2>6 DEF OneWay
<1>20. Grows(s, t)
  <2>1. Grows(s, s)
    BY <1>1, GrowsReflexive
  <2> QED BY <2>1, <1>11, <1>12 DEF Grows, n
<1>21. Listed(t)
  BY <1>1, <1>11 DEF Listed
<1> QED BY <1>12, <1>13, <1>19, <1>20, <1>21 DEF Held, Sound, n

-----------------------------------------------------------------------------
(* A promise and its functions are created.                                  *)

LEMMA CapabilitySound ==
    ASSUME NEW s, Sound(s), NEW e \in BOOLEAN,
           NEW t, t = njs_promise_new_capability(s, e)
    PROVE  /\ Sound(t) /\ Grows(s, t)
           /\ Len(t.promises) = Len(s.promises) + 1
           /\ Len(t.cells) = Len(s.cells) + 1
           /\ t.aggregates = s.aggregates /\ t.contexts = s.contexts
           /\ t.reactions = s.reactions
           /\ t.finallys = s.finallys
<1> DEFINE n == SizesOf(s)
           m == SizesOf(t)
           k == Len(s.promises)
           l == Len(s.cells)
           g == Len(s.aggregates)
           h == Len(s.contexts)
           r == Len(s.reactions)
           P == [state |-> "pending", result |-> Undefined, handled |-> FALSE,
                 reactions |-> <<>>]
           C == [promise |-> k + 1, resolved |-> FALSE, exposed |-> e]
           x == Append(s.promises, P)
           y == Append(s.cells, C)
<1>1. Typed(s) /\ OneWay(s) /\ Listed(s)
  BY DEF Sound
<1>2. /\ n \in Sizes /\ s \in VmOf(n) /\ k \in Nat /\ l \in Nat /\ Len(s.jobs) \in Nat
      /\ g \in Nat /\ h \in Nat /\ r \in Nat
  BY <1>1, SizesTyped DEF Typed
<1>3. /\ s = [promises |-> s.promises, cells |-> s.cells, jobs |-> s.jobs,
              aggregates |-> s.aggregates, contexts |-> s.contexts,
              tracking |-> s.tracking, rejected |-> s.rejected,
              reactions |-> s.reactions, ran |-> s.ran, finallys |-> s.finallys]
      /\ s.promises \in Seq(PromisesOf(n)) /\ s.cells \in Seq(CellsOf(n))
  <2> HIDE DEF n
  <2> QED BY <1>2, Fields
<1>4. t = [promises |-> x, cells |-> y, jobs |-> s.jobs,
           aggregates |-> s.aggregates, contexts |-> s.contexts,
           tracking |-> s.tracking, rejected |-> s.rejected,
           reactions |-> s.reactions, ran |-> s.ran, finallys |-> s.finallys]
  BY <1>3 DEF njs_promise_new_capability, njs_promise_create_resolving_functions,
              njs_promise_alloc
<1>5. /\ Len(x) = k + 1 /\ x[k + 1] = P /\ \A i \in 1..k : x[i] = s.promises[i]
      /\ Len(y) = l + 1 /\ y[l + 1] = C /\ \A i \in 1..l : y[i] = s.cells[i]
  <2> HIDE DEF n, P, C
  <2> QED BY <1>2, <1>3, AppendProperties
<1> HIDE DEF x, y
<1>6. /\ t.promises = x /\ t.cells = y /\ t.jobs = s.jobs
      /\ t.aggregates = s.aggregates /\ t.contexts = s.contexts
      /\ t.rejected = s.rejected /\ t.reactions = s.reactions
      /\ t.finallys = s.finallys
  BY <1>4
<1>7. /\ m = [promises |-> k + 1, cells |-> l + 1, aggregates |-> g, contexts |-> h,
               reactions |-> r]
      /\ n = [promises |-> k, cells |-> l, aggregates |-> g, contexts |-> h, reactions |-> r]
  BY <1>5, <1>6 DEF SizesOf
<1>8. m \in Sizes /\ AtMost(n, m) /\ m.promises = k + 1 /\ m.cells = l + 1
      /\ n.promises = k /\ n.cells = l
  <2> HIDE DEF n, m, k, l, g, h, r
  <2> QED BY <1>7, <1>2 DEF Sizes, AtMost
<1> HIDE DEF n, m
<1>9. s \in VmOf(m)
  BY <1>2, <1>8, Widened
<1>10. P \in PromisesOf(m) /\ C \in CellsOf(m)
  <2>1. Undefined \in ValuesOf(m)
    BY DEF Undefined, Value, ValuesOf, Values_, Kinds
  <2>2. <<>> \in Seq(ReactionsOf(m))
    BY EmptySeq
  <2>3. k + 1 \in 1..m.promises
    BY <1>2, <1>8
  <2> QED BY <2>1, <2>2, <2>3 DEF PromisesOf, CellsOf
<1> HIDE DEF P, C
<1>11. x \in Seq(PromisesOf(m)) /\ y \in Seq(CellsOf(m))
  <2>1. s.promises \in Seq(PromisesOf(m)) /\ s.cells \in Seq(CellsOf(m))
    BY <1>9, Fields
  <2> QED BY <2>1, <1>10, AppendProperties DEF x, y
<1>12. t \in VmOf(m)
  BY <1>4, <1>9, <1>11 DEF VmOf
<1>13. Typed(t)
  BY <1>8, <1>12 DEF Typed, m
<1>14. /\ P.state = "pending" /\ C.promise = k + 1 /\ C.resolved = FALSE
  BY DEF P, C
<1>15. /\ 1..Len(t.promises) = (1..k) \cup {k + 1} /\ k + 1 \notin 1..k
       /\ 1..Len(t.cells) = (1..l) \cup {l + 1} /\ l + 1 \notin 1..l
       /\ \A p \in 1..k : t.promises[p] = s.promises[p] /\ (Settled(t, p) <=> Settled(s, p))
       /\ ~Settled(t, k + 1) /\ t.promises[k + 1].state = "pending"
       /\ \A c \in 1..l : t.cells[c] = s.cells[c] /\ (Open(t, c) <=> Open(s, c))
       /\ Open(t, l + 1) /\ t.cells[l + 1].promise = k + 1
       /\ \A i \in 1..Len(s.jobs) : Asks(t, i) <=> Asks(s, i)
  <2>1. /\ 1..Len(t.promises) = (1..k) \cup {k + 1} /\ k + 1 \notin 1..k
        /\ 1..Len(t.cells) = (1..l) \cup {l + 1} /\ l + 1 \notin 1..l
    <3> HIDE DEF k, l
    <3> QED BY <1>2, <1>5, <1>6
  <2>2. \A p \in 1..k : t.promises[p] = s.promises[p] /\ (Settled(t, p) <=> Settled(s, p))
    BY <1>5, <1>6 DEF Settled
  <2>3. ~Settled(t, k + 1) /\ t.promises[k + 1].state = "pending"
    BY <1>5, <1>6, <1>14 DEF Settled
  <2>4. \A c \in 1..l : t.cells[c] = s.cells[c] /\ (Open(t, c) <=> Open(s, c))
    BY <1>5, <1>6 DEF Open
  <2>5. Open(t, l + 1) /\ t.cells[l + 1].promise = k + 1
    BY <1>5, <1>6, <1>14 DEF Open
  <2>6. \A i \in 1..Len(s.jobs) : Asks(t, i) <=> Asks(s, i)
    BY <1>6 DEF Asks
  <2> HIDE DEF k, l
  <2> QED BY <2>1, <2>2, <2>3, <2>4, <2>5, <2>6
<1>16. /\ \A d \in 1..l : s.cells[d].promise \in 1..k
       /\ \A i \in 1..Len(s.jobs) : Asks(s, i) => s.jobs[i].promise \in 1..k
  BY <1>1, Elements DEF Asks
<1>17. OneWay(t)
  <2>1. ASSUME NEW d \in 1..Len(t.cells), NEW f \in 1..Len(t.cells), Open(t, d), Open(t, f),
               t.cells[d].promise = t.cells[f].promise
        PROVE  d = f
    <3>1. CASE d \in 1..l /\ f \in 1..l
      <4>1. Open(s, d) /\ Open(s, f) /\ s.cells[d].promise = s.cells[f].promise
        BY <2>1, <3>1, <1>15
      <4> QED BY <4>1, <3>1, <1>1 DEF OneWay
    <3>2. CASE d = l + 1 /\ f \in 1..l
      <4>1. t.cells[d].promise = k + 1 /\ t.cells[f].promise \in 1..k
        BY <3>2, <1>15, <1>16
      <4> QED BY <4>1, <2>1, <1>15
    <3>3. CASE f = l + 1 /\ d \in 1..l
      <4>1. t.cells[f].promise = k + 1 /\ t.cells[d].promise \in 1..k
        BY <3>3, <1>15, <1>16
      <4> QED BY <4>1, <2>1, <1>15
    <3> QED BY <3>1, <3>2, <3>3, <1>15
  <2>2. ASSUME NEW i \in 1..Len(t.jobs), NEW j \in 1..Len(t.jobs), Asks(t, i), Asks(t, j),
               t.jobs[i].promise = t.jobs[j].promise
        PROVE  i = j
    <3>1. Asks(s, i) /\ Asks(s, j)
      BY <2>2, <1>6, <1>15
    <3> QED BY <3>1, <2>2, <1>1, <1>6 DEF OneWay
  <2>3. ASSUME NEW d \in 1..Len(t.cells), NEW i \in 1..Len(t.jobs), Open(t, d), Asks(t, i)
        PROVE  t.cells[d].promise # t.jobs[i].promise
    <3>1. i \in 1..Len(s.jobs) /\ Asks(s, i) /\ t.jobs[i] = s.jobs[i]
      BY <2>3, <1>6, <1>15
    <3>2. CASE d \in 1..l
      <4>1. Open(s, d) /\ t.cells[d] = s.cells[d]
        BY <3>2, <2>3, <1>15
      <4> QED BY <3>1, <3>2, <4>1, <1>1 DEF OneWay
    <3>3. CASE d = l + 1
      <4>1. t.cells[d].promise = k + 1 /\ t.jobs[i].promise \in 1..k
        BY <3>1, <3>3, <1>15, <1>16
      <4> QED BY <4>1, <1>15
    <3> QED BY <3>2, <3>3, <1>15
  <2>4. ASSUME NEW d \in 1..Len(t.cells), Open(t, d)
        PROVE  ~Settled(t, t.cells[d].promise)
    <3>1. CASE d \in 1..l
      <4>1. ~Settled(s, s.cells[d].promise)
        BY <3>1, <2>4, <1>1, <1>15 DEF OneWay
      <4> QED BY <3>1, <4>1, <1>15, <1>16
    <3> QED BY <3>1, <1>15
  <2>5. ASSUME NEW i \in 1..Len(t.jobs), Asks(t, i)
        PROVE  ~Settled(t, t.jobs[i].promise)
    <3>1. i \in 1..Len(s.jobs) /\ Asks(s, i) /\ t.jobs[i] = s.jobs[i]
      BY <2>5, <1>6, <1>15
    <3>2. ~Settled(s, s.jobs[i].promise)
      BY <3>1, <1>1 DEF OneWay
    <3> QED BY <3>1, <3>2, <1>15, <1>16
  <2>6. ASSUME NEW q \in 1..Len(t.promises)
        PROVE  \/ Settled(t, q)
               \/ \E d \in 1..Len(t.cells) : Open(t, d) /\ t.cells[d].promise = q
               \/ \E i \in 1..Len(t.jobs) : Asks(t, i) /\ t.jobs[i].promise = q
    <3>1. CASE q = k + 1
      BY <3>1, <1>15
    <3>2. CASE q \in 1..k
      <4>1. CASE Settled(s, q)
        BY <4>1, <3>2, <1>15
      <4>2. CASE \E d \in 1..l : Open(s, d) /\ s.cells[d].promise = q
        BY <4>2, <1>15
      <4>3. CASE \E i \in 1..Len(s.jobs) : Asks(s, i) /\ s.jobs[i].promise = q
        BY <4>3, <1>6, <1>15
      <4> QED BY <4>1, <4>2, <4>3, <3>2, <1>1 DEF OneWay
    <3> QED BY <3>1, <3>2, <1>15
  <2> QED BY <2>1, <2>2, <2>3, <2>4, <2>5, <2>6 DEF OneWay
<1>18. Grows(s, t)
  BY <1>8, <1>15 DEF Grows, n, m
<1>19. Listed(t)
  BY <1>1, <1>6, <1>15 DEF Listed
<1> QED BY <1>5, <1>6, <1>13, <1>17, <1>18, <1>19 DEF Sound

-----------------------------------------------------------------------------
(* A reaction is registered.                                                 *)

\* One more reaction is to run.
LEMMA EnqueueSound ==
    ASSUME NEW s, Sound(s), NEW j \in JobsOf(SizesOf(s)), j.kind = "reaction",
           NEW t, t = njs_vm_enqueue_job(s, j)
    PROVE  Held(s, t)
<1>1. Typed(s) /\ OneWay(s) /\ Listed(s)
  BY DEF Sound
<1>2. <<j>> \in Seq(JobsOf(SizesOf(s))) /\ Len(<<j>>) = 1 /\ <<j>>[1] = j
  OBVIOUS
<1>3. s.jobs \in Seq(JobsOf(SizesOf(s)))
  BY <1>1, Fields DEF Typed
<1>4. t = [s EXCEPT !.jobs = s.jobs \o <<j>>]
  <2>1. Append(s.jobs, j) = s.jobs \o <<j>>
    BY <1>3, AppendIsConcat
  <2>2. t = [s EXCEPT !.jobs = Append(s.jobs, j)]
    BY Zenon DEF njs_vm_enqueue_job
  <2> QED BY <2>1, <2>2, Zenon
<1>5. \A i \in 1..Len(<<j>>) : <<j>>[i].kind = "reaction"
  BY <1>2
<1>6. /\ Typed(t) /\ OneWay(t) /\ SizesOf(t) = SizesOf(s)
      /\ Grows(s, t) /\ (Listed(s) => Listed(t))
  <2> DEFINE x == <<j>>
  <2> HIDE DEF x
  <2>1. /\ x \in Seq(JobsOf(SizesOf(s))) /\ t = [s EXCEPT !.jobs = s.jobs \o x]
        /\ \A i \in 1..Len(x) : x[i].kind = "reaction"
    BY <1>2, <1>4, <1>5 DEF x
  <2> QED BY <2>1, <1>1, ReactionsQueued
<1> QED BY <1>1, <1>6 DEF Held, Sound

\* Promise p with one more reaction: it is handled, and has the reaction if it
\* is pending.
WithReaction(s, p, f, r, c) ==
    LET rs == s.promises[p].reactions
    IN  [s.promises[p] EXCEPT !.handled = TRUE,
                              !.reactions = IF s.promises[p].state = "pending"
                                            THEN Append(rs, Reaction(s, f, r, c))
                                            ELSE rs]

Registered(s, p, f, r, c) ==
    [s EXCEPT !.reactions = Append(s.reactions, p),
              !.promises[p] = WithReaction(s, p, f, r, c)]

LEMMA RegisterTyped ==
    ASSUME NEW s, Sound(s), NEW p \in 1..Len(s.promises),
           NEW f \in HandlersOf(SizesOf(s)), NEW r \in HandlersOf(SizesOf(s)),
           f.kind = "await" \/ r.kind = "await" => f = r,
           NEW c \in 0..Len(s.cells),
           NEW t, t = Registered(s, p, f, r, c)
    PROVE  /\ Sound(t) /\ Grows(s, t)
           /\ Reaction(s, f, r, c) \in ReactionsOf(SizesOf(t))
           /\ s.promises[p].result \in ValuesOf(SizesOf(t))
           /\ Len(t.promises) = Len(s.promises) /\ Len(t.cells) = Len(s.cells)
           /\ Len(t.aggregates) = Len(s.aggregates) /\ Len(t.contexts) = Len(s.contexts)
           /\ t.promises[p].handled
<1> DEFINE e == Reaction(s, f, r, c)
           rs == IF s.promises[p].state = "pending"
                 THEN Append(s.promises[p].reactions, e)
                 ELSE s.promises[p].reactions
           q == [s.promises[p] EXCEPT !.handled = TRUE, !.reactions = rs]
           n == SizesOf(s)
           k == Len(s.promises)
           l == Len(s.cells)
           g == Len(s.aggregates)
           h == Len(s.contexts)
           a == Len(s.reactions)
           m == [promises |-> k, cells |-> l, aggregates |-> g, contexts |-> h,
                 reactions |-> a + 1]
           x == [s.promises EXCEPT ![p] = q]
           y == Append(s.reactions, p)
<1>1. Typed(s) /\ OneWay(s) /\ Listed(s)
  BY DEF Sound
<1>2. /\ n \in Sizes /\ s \in VmOf(n) /\ k \in Nat /\ l \in Nat /\ Len(s.jobs) \in Nat
      /\ g \in Nat /\ h \in Nat /\ a \in Nat /\ s.promises[p] \in PromisesOf(n)
  BY <1>1, SizesTyped, Elements DEF Typed
<1>3. /\ n = [promises |-> k, cells |-> l, aggregates |-> g, contexts |-> h,
              reactions |-> a]
      /\ f \in HandlersOf(n) /\ r \in HandlersOf(n)
  BY DEF SizesOf
<1>4. m \in Sizes /\ AtMost(n, m)
  <2> HIDE DEF n, k, l, g, h, a
  <2> QED BY <1>2, <1>3 DEF Sizes, AtMost
<1>5. /\ p \in 1..m.promises /\ c \in 0..m.cells /\ a + 1 \in 1..m.reactions
  BY <1>2
<1> HIDE DEF n, m
<1>6. /\ s \in VmOf(m) /\ s.promises[p] \in PromisesOf(m)
      /\ f \in HandlersOf(m) /\ r \in HandlersOf(m)
  <2>1. s \in VmOf(m) /\ f \in HandlersOf(m) /\ r \in HandlersOf(m)
    BY <1>2, <1>3, <1>4, Widened
  <2>2. s.promises[p] \in PromisesOf(m)
    BY <2>1, Fields, ElementOfSeq
  <2> QED BY <2>1, <2>2
<1>7. /\ s = [promises |-> s.promises, cells |-> s.cells, jobs |-> s.jobs,
              aggregates |-> s.aggregates, contexts |-> s.contexts,
              tracking |-> s.tracking, rejected |-> s.rejected,
              reactions |-> s.reactions, ran |-> s.ran, finallys |-> s.finallys]
      /\ s.promises \in Seq(PromisesOf(m)) /\ s.reactions \in Seq(1..m.promises)
  BY <1>6, Fields
<1>8. e \in ReactionsOf(m)
  BY <1>5, <1>6 DEF Reaction, ReactionsOf
<1>9. rs \in Seq(ReactionsOf(m))
  <2>1. s.promises[p].reactions \in Seq(ReactionsOf(m))
    BY <1>6 DEF PromisesOf
  <2> QED BY <2>1, <1>8, AppendProperties
<1>10. q \in PromisesOf(m) /\ q.handled = TRUE /\ q.state = s.promises[p].state
       /\ q.result = s.promises[p].result /\ q.result \in ValuesOf(m)
  <2> HIDE DEF rs
  <2> QED BY <1>6, <1>9 DEF PromisesOf
<1> HIDE DEF q
<1>11. /\ x \in Seq(PromisesOf(m)) /\ Len(x) = k
       /\ \A i \in 1..k : x[i] = IF i = p THEN q ELSE s.promises[i]
  BY <1>7, <1>10, ExceptSeq
<1>12. /\ y \in Seq(1..m.promises) /\ Len(y) = a + 1
  BY <1>5, <1>7, AppendProperties
<1>13. t = [promises |-> x, cells |-> s.cells, jobs |-> s.jobs,
            aggregates |-> s.aggregates, contexts |-> s.contexts,
            tracking |-> s.tracking, rejected |-> s.rejected,
            reactions |-> y, ran |-> s.ran, finallys |-> s.finallys]
  <2>1. t = [s EXCEPT !.reactions = y, !.promises[p] = q]
    BY Zenon DEF Registered, WithReaction, q, rs, e
  <2> QED BY <2>1, <1>7
<1> HIDE DEF x, y, e
<1>14. t \in VmOf(m)
  BY <1>6, <1>11, <1>12, <1>13 DEF VmOf
<1>15. /\ t.promises = x /\ t.cells = s.cells /\ t.jobs = s.jobs
       /\ t.aggregates = s.aggregates /\ t.contexts = s.contexts
       /\ t.reactions = y /\ t.rejected = s.rejected
  BY ONLY <1>13
<1>16. SizesOf(t) = m
  BY <1>11, <1>12, <1>15 DEF SizesOf, m
<1>17. Typed(t)
  BY <1>4, <1>14, <1>16 DEF Typed
<1>18. \A i \in 1..k : /\ t.promises[i].state = s.promises[i].state
                       /\ t.promises[i].result = s.promises[i].result
                       /\ t.promises[i].handled = s.promises[i].handled \/ t.promises[i].handled
  BY <1>10, <1>11, <1>15
<1>19. OneWay(t)
  <2>1. \A i \in 1..Len(t.jobs) : ~(i > Len(s.jobs))
    BY <1>2, <1>15
  <2>2. SameWays(s, t)
    BY <2>1, <1>2, <1>11, <1>15, <1>18 DEF SameWays
  <2> QED BY <2>2, <1>1, <1>17, OneWayKept
<1>20. Grows(s, t)
  <2>1. AtMost(SizesOf(s), SizesOf(t))
    BY <1>4, <1>16 DEF n
  <2> QED BY <2>1, <1>1, <1>18, GrowsWithSame DEF SameStates
<1>21. Listed(t)
  BY <1>1, <1>10, <1>11, <1>15 DEF Listed
<1>22. t.promises[p].handled
  BY <1>10, <1>11, <1>15
<1> QED BY <1>8, <1>10, <1>11, <1>15, <1>16, <1>17, <1>19, <1>20, <1>21, <1>22 DEF Sound, e

LEMMA ThenSound ==
    ASSUME NEW s, Sound(s), NEW p \in 1..Len(s.promises),
           NEW f \in HandlersOf(SizesOf(s)), NEW r \in HandlersOf(SizesOf(s)),
           f.kind = "await" \/ r.kind = "await" => f = r,
           NEW c \in 0..Len(s.cells),
           NEW t, t = njs_promise_perform_then(s, p, f, r, c)
    PROVE  /\ Sound(t) /\ Grows(s, t)
           /\ Len(t.promises) = Len(s.promises) /\ Len(t.cells) = Len(s.cells)
           /\ Len(t.aggregates) = Len(s.aggregates) /\ Len(t.contexts) = Len(s.contexts)
<1> DEFINE e == Reaction(s, f, r, c)
           u == Registered(s, p, f, r, c)
           b == s.promises[p].state = "rejected"
           w == IF b THEN ngx_js_rejection_tracker(u, p, TRUE) ELSE u
<1>1. /\ Sound(u) /\ Grows(s, u)
      /\ e \in ReactionsOf(SizesOf(u)) /\ s.promises[p].result \in ValuesOf(SizesOf(u))
      /\ Len(u.promises) = Len(s.promises) /\ Len(u.cells) = Len(s.cells)
      /\ Len(u.aggregates) = Len(s.aggregates) /\ Len(u.contexts) = Len(s.contexts)
      /\ u.promises[p].handled
  <2>1. u = Registered(s, p, f, r, c)
    OBVIOUS
  <2> HIDE DEF u
  <2> QED BY <2>1, RegisterTyped
<1>3. t = u \/ t = njs_vm_enqueue_job(w, ReactionJob(e, b, s.promises[p].result))
  <2>1. CASE s.promises[p].state = "pending"
    BY <2>1 DEF njs_promise_perform_then, Registered, WithReaction
  <2>2. CASE s.promises[p].state # "pending"
    BY <2>2 DEF njs_promise_perform_then, Registered, WithReaction
  <2> QED BY <2>1, <2>2
<1> HIDE DEF u, e
<1>4. Sound(w) /\ Grows(u, w) /\ SizesOf(w) = SizesOf(u)
  <2>1. CASE b
    <3>1. w = ngx_js_rejection_tracker(u, p, TRUE)
      BY <2>1
    <3> HIDE DEF w
    <3>2. ListedBut(u, p) /\ u.promises[p].handled
      BY <1>1 DEF Sound, Listed, ListedBut
    <3> QED BY <3>1, <3>2, <1>1, Tracked DEF Sound
  <2>2. CASE ~b
    BY <2>2, <1>1, GrowsReflexive DEF Sound
  <2> QED BY <2>1, <2>2
<1> HIDE DEF w, b
<1>5. /\ Len(w.promises) = Len(s.promises) /\ Len(w.cells) = Len(s.cells)
      /\ Len(w.aggregates) = Len(s.aggregates) /\ Len(w.contexts) = Len(s.contexts)
  BY <1>1, <1>4 DEF SizesOf
<1>6. CASE t = u
  BY <1>6, <1>1
<1>7. CASE t = njs_vm_enqueue_job(w, ReactionJob(e, b, s.promises[p].result))
  <2> DEFINE j == ReactionJob(e, b, s.promises[p].result)
  <2>1. j \in JobsOf(SizesOf(w)) /\ j.kind = "reaction"
    <3>1. /\ SizesOf(w) \in Sizes /\ b \in BOOLEAN
          /\ e \in ReactionsOf(SizesOf(w)) /\ s.promises[p].result \in ValuesOf(SizesOf(w))
      BY <1>1, <1>4 DEF Sound, Typed, b
    <3> QED BY <3>1, ReactionJobTyped
  <2> HIDE DEF j
  <2>2. Held(w, t)
    BY <2>1, <1>4, <1>7, EnqueueSound DEF j
  <2>3. Grows(s, t)
    <3>1. Grows(s, w)
      BY <1>1, <1>4, GrowsTransitive DEF Sound
    <3> QED BY <3>1, <2>2, <1>1, <1>4, GrowsTransitive DEF Sound, Held
  <2> QED BY <2>2, <2>3, <1>5 DEF Held, SizesOf
<1> QED BY <1>3, <1>6, <1>7

\* Only what settles nothing has changed.
LEMMA OtherParts ==
    ASSUME NEW s, Sound(s), NEW t, Typed(t), t.promises = s.promises, t.cells = s.cells,
           t.jobs = s.jobs, t.rejected = s.rejected,
           Len(s.aggregates) <= Len(t.aggregates), Len(s.contexts) <= Len(t.contexts),
           Len(s.reactions) <= Len(t.reactions)
    PROVE  Sound(t) /\ Grows(s, t)
<1>1. /\ Len(s.jobs) \in Nat /\ Len(s.promises) \in Nat /\ Len(s.cells) \in Nat
      /\ Typed(s) /\ OneWay(s) /\ Listed(s)
  BY SizesTyped DEF Sound, Typed
<1>2. SameWays(s, t)
  <2>1. \A i \in 1..Len(t.jobs) : ~(i > Len(s.jobs))
    BY <1>1
  <2> QED BY <2>1, <1>1 DEF SameWays
<1>3. OneWay(t)
  BY <1>1, <1>2, OneWayKept
<1>4. AtMost(SizesOf(s), SizesOf(t))
  <2>1. /\ Len(s.promises) <= Len(s.promises) /\ Len(s.cells) <= Len(s.cells)
    BY <1>1
  <2> QED BY <2>1 DEF AtMost, SizesOf
<1>5. Grows(s, t)
  BY <1>1, <1>4, GrowsWithSame DEF SameStates
<1>6. Listed(t)
  BY <1>1 DEF Listed
<1> QED BY <1>1, <1>3, <1>5, <1>6 DEF Sound

-----------------------------------------------------------------------------
(* Jobs are taken off the queue.                                             *)

\* The queue without its first job.
LEMMA TailJobs ==
    ASSUME NEW s, Typed(s), s.jobs # <<>>
    PROVE  /\ Tail(s.jobs) \in Seq(JobsOf(SizesOf(s)))
           /\ Head(s.jobs) \in JobsOf(SizesOf(s)) /\ Head(s.jobs) = s.jobs[1]
           /\ Len(s.jobs) \in Nat \ {0} /\ Len(Tail(s.jobs)) = Len(s.jobs) - 1
           /\ \A i \in 1..Len(Tail(s.jobs)) : Tail(s.jobs)[i] = s.jobs[i + 1]
<1>1. s.jobs \in Seq(JobsOf(SizesOf(s)))
  BY Fields DEF Typed
<1>2. Len(s.jobs) \in Nat /\ Len(s.jobs) # 0
  BY <1>1, LenProperties, EmptySeq
<1> QED BY <1>1, <1>2, HeadTailProperties, ElementOfSeq

\* The first job is taken off the queue; it runs reaction r.
Unqueued(s) == [s EXCEPT !.jobs = Tail(s.jobs)]

Ran(s, r) == [s EXCEPT !.jobs = Tail(s.jobs), !.ran = Append(s.ran, r)]

\* A reaction is taken off the queue, to run.
LEMMA RunSound ==
    ASSUME NEW s, Sound(s), s.jobs # <<>>, NEW j, j = Head(s.jobs), j.kind = "reaction",
           NEW t, t = Ran(s, j.reaction)
    PROVE  Held(s, t)
<1> DEFINE n == SizesOf(s)
           l == Len(s.jobs)
           y == Tail(s.jobs)
           x == Append(s.ran, j.reaction)
<1>1. Typed(s) /\ OneWay(s) /\ Listed(s) /\ n \in Sizes /\ s \in VmOf(n)
  BY DEF Sound, Typed
<1>2. /\ y \in Seq(JobsOf(n)) /\ j \in JobsOf(n) /\ j = s.jobs[1]
      /\ l \in Nat \ {0} /\ Len(y) = l - 1 /\ \A i \in 1..Len(y) : y[i] = s.jobs[i + 1]
  BY <1>1, TailJobs
<1> HIDE DEF n
<1>3. j.reaction \in 1..n.reactions
  BY <1>1, <1>2 DEF JobsOf, Sizes
<1>4. x \in Seq(1..n.reactions)
  <2>1. s.ran \in Seq(1..n.reactions)
    BY <1>1, Fields
  <2> QED BY <2>1, <1>3, AppendProperties
<1>5. t = [s EXCEPT !.jobs = y, !.ran = x]
  BY DEF Ran
<1> HIDE DEF x, y
<1>6. t \in VmOf(n)
  BY <1>1, <1>2, <1>4, <1>5 DEF VmOf
<1>7. /\ t.promises = s.promises /\ t.cells = s.cells /\ t.jobs = y
      /\ t.rejected = s.rejected /\ t.aggregates = s.aggregates
      /\ t.reactions = s.reactions /\ t.contexts = s.contexts
  BY ONLY <1>1, <1>5, Fields
<1>8. SizesOf(t) = n
  BY <1>7 DEF SizesOf, n
<1>9. Typed(t)
  BY <1>1, <1>6, <1>8 DEF Typed
<1>10. Grows(s, t)
  <2>1. Grows(s, s)
    BY <1>1, GrowsReflexive
  <2> QED BY <2>1, <1>7, <1>8 DEF Grows, n
<1>11. Listed(t)
  BY <1>1, <1>7 DEF Listed
<1>12. ~Asks(s, 1)
  BY <1>2 DEF Asks
<1>13. /\ \A i \in 1..Len(t.jobs) : i + 1 \in 1..l /\ t.jobs[i] = s.jobs[i + 1]
       /\ \A i \in 1..l : Asks(s, i) => i - 1 \in 1..Len(t.jobs) /\ t.jobs[i - 1] = s.jobs[i]
                                        /\ Asks(t, i - 1)
       /\ \A i \in 1..Len(t.jobs) : Asks(t, i) => Asks(s, i + 1)
  <2> HIDE DEF l
  <2>1. \A i \in 1..Len(t.jobs) : i + 1 \in 1..l /\ t.jobs[i] = s.jobs[i + 1]
    BY <1>2, <1>7
  <2>2. ASSUME NEW i \in 1..l, Asks(s, i)
        PROVE  i - 1 \in 1..Len(t.jobs) /\ t.jobs[i - 1] = s.jobs[i] /\ Asks(t, i - 1)
    <3>1. i # 1
      BY <2>2, <1>12
    <3>2. i - 1 \in 1..Len(t.jobs) /\ (i - 1) + 1 = i
      BY <3>1, <1>2, <1>7
    <3>3. t.jobs[i - 1] = s.jobs[i]
      BY <3>2, <2>1
    <3> QED BY <3>2, <3>3, <2>2 DEF Asks
  <2>3. \A i \in 1..Len(t.jobs) : Asks(t, i) => Asks(s, i + 1)
    BY <2>1 DEF Asks
  <2> QED BY <2>1, <2>2, <2>3
<1>14. /\ \A p \in 1..Len(s.promises) : Settled(t, p) <=> Settled(s, p)
       /\ \A c \in 1..Len(s.cells) : Open(t, c) <=> Open(s, c)
  BY <1>7 DEF Settled, Open
<1>15. \A i \in 1..l : Asks(s, i) => s.jobs[i].promise \in 1..Len(s.promises)
  BY <1>1, Elements DEF Asks
<1>16. OneWay(t)
  <2>1. /\ \A c, d \in 1..Len(t.cells) :
              Open(t, c) /\ Open(t, d) /\ t.cells[c].promise = t.cells[d].promise => c = d
    BY <1>1, <1>7, <1>14 DEF OneWay
  <2>2. ASSUME NEW i \in 1..Len(t.jobs), NEW k \in 1..Len(t.jobs), Asks(t, i), Asks(t, k),
               t.jobs[i].promise = t.jobs[k].promise
        PROVE  i = k
    <3>1. /\ i + 1 \in 1..l /\ k + 1 \in 1..l /\ Asks(s, i + 1) /\ Asks(s, k + 1)
          /\ s.jobs[i + 1].promise = s.jobs[k + 1].promise
      BY <2>2, <1>13
    <3>2. i + 1 = k + 1
      BY <3>1, <1>1 DEF OneWay
    <3>3. i \in Int /\ k \in Int
      OBVIOUS
    <3> QED BY <3>2, <3>3
  <2>3. ASSUME NEW c \in 1..Len(t.cells), NEW i \in 1..Len(t.jobs), Open(t, c), Asks(t, i)
        PROVE  t.cells[c].promise # t.jobs[i].promise
    <3>1. /\ i + 1 \in 1..l /\ Asks(s, i + 1) /\ t.jobs[i] = s.jobs[i + 1] /\ Open(s, c)
          /\ c \in 1..Len(s.cells)
      BY <2>3, <1>7, <1>13, <1>14
    <3> QED BY <3>1, <1>1, <1>7 DEF OneWay
  <2>4. ASSUME NEW c \in 1..Len(t.cells), Open(t, c)
        PROVE  ~Settled(t, t.cells[c].promise)
    <3>1. Open(s, c) /\ c \in 1..Len(s.cells) /\ s.cells[c].promise \in 1..Len(s.promises)
      BY <2>4, <1>1, <1>7, <1>14, Elements
    <3> QED BY <3>1, <1>1, <1>7, <1>14 DEF OneWay
  <2>5. ASSUME NEW i \in 1..Len(t.jobs), Asks(t, i)
        PROVE  ~Settled(t, t.jobs[i].promise)
    <3>1. /\ i + 1 \in 1..l /\ Asks(s, i + 1) /\ t.jobs[i] = s.jobs[i + 1]
          /\ s.jobs[i + 1].promise \in 1..Len(s.promises)
      BY <2>5, <1>13, <1>15
    <3>2. ~Settled(s, s.jobs[i + 1].promise)
      BY <3>1, <1>1 DEF OneWay
    <3> QED BY <3>1, <3>2, <1>14
  <2>6. ASSUME NEW p \in 1..Len(t.promises)
        PROVE  \/ Settled(t, p)
               \/ \E c \in 1..Len(t.cells) : Open(t, c) /\ t.cells[c].promise = p
               \/ \E i \in 1..Len(t.jobs) : Asks(t, i) /\ t.jobs[i].promise = p
    <3>1. p \in 1..Len(s.promises)
      BY <1>7
    <3>2. CASE Settled(s, p)
      BY <3>1, <3>2, <1>14
    <3>3. CASE \E c \in 1..Len(s.cells) : Open(s, c) /\ s.cells[c].promise = p
      BY <3>3, <1>7, <1>14
    <3>4. CASE \E i \in 1..l : Asks(s, i) /\ s.jobs[i].promise = p
      BY <3>4, <1>13
    <3> QED BY <3>1, <3>2, <3>3, <3>4, <1>1 DEF OneWay
  <2> QED BY ONLY <2>1, <2>2, <2>3, <2>4, <2>5, <2>6, Zenon DEF OneWay
<1>17. Sound(t)
  BY <1>9, <1>11, <1>16 DEF Sound
<1> QED BY <1>8, <1>10, <1>17 DEF Held, n

\* A thenable's job is taken off the queue and leaves a pair of functions.
LEMMA ThenableSound ==
    ASSUME NEW s, Sound(s), s.jobs # <<>>, NEW j, j = Head(s.jobs), j.kind = "thenable",
           NEW e \in BOOLEAN, NEW u, u = Unqueued(s),
           NEW t, t = njs_promise_create_resolving_functions(u, j.promise, e)
    PROVE  /\ Sound(t) /\ Grows(s, t)
           /\ Len(t.cells) = Len(s.cells) + 1
           /\ Len(t.promises) = Len(s.promises)
<1> DEFINE n == SizesOf(s)
           m == SizesOf(t)
           k == Len(s.promises)
           l == Len(s.cells)
           g == Len(s.aggregates)
           h == Len(s.contexts)
           r == Len(s.reactions)
           z == Len(s.jobs)
           C == [promise |-> j.promise, resolved |-> FALSE, exposed |-> e]
           x == Tail(s.jobs)
           y == Append(s.cells, C)
<1>1. Typed(s) /\ OneWay(s) /\ Listed(s)
  BY DEF Sound
<1>2. /\ n \in Sizes /\ s \in VmOf(n) /\ k \in Nat /\ l \in Nat
      /\ g \in Nat /\ h \in Nat /\ r \in Nat
  BY <1>1, SizesTyped DEF Typed
<1>3. /\ s = [promises |-> s.promises, cells |-> s.cells, jobs |-> s.jobs,
              aggregates |-> s.aggregates, contexts |-> s.contexts,
              tracking |-> s.tracking, rejected |-> s.rejected,
              reactions |-> s.reactions, ran |-> s.ran, finallys |-> s.finallys]
      /\ s.promises \in Seq(PromisesOf(n)) /\ s.cells \in Seq(CellsOf(n))
  <2> HIDE DEF n
  <2> QED BY <1>2, Fields
<1>4. /\ x \in Seq(JobsOf(n)) /\ j \in JobsOf(n) /\ j = s.jobs[1]
      /\ z \in Nat \ {0} /\ Len(x) = z - 1 /\ \A i \in 1..Len(x) : x[i] = s.jobs[i + 1]
  BY <1>1, TailJobs
<1>5. j.promise \in 1..k
  <2>1. 1 \in 1..z
    BY <1>4
  <2> QED BY <2>1, <1>1, <1>4, Elements
<1>6. t = [promises |-> s.promises, cells |-> y, jobs |-> x,
           aggregates |-> s.aggregates, contexts |-> s.contexts,
           tracking |-> s.tracking, rejected |-> s.rejected,
           reactions |-> s.reactions, ran |-> s.ran, finallys |-> s.finallys]
  BY <1>3 DEF njs_promise_create_resolving_functions, Unqueued
<1>7. /\ Len(y) = l + 1 /\ y[l + 1] = C /\ \A i \in 1..l : y[i] = s.cells[i]
  <2> HIDE DEF n, C
  <2> QED BY <1>2, <1>3, AppendProperties
<1> HIDE DEF x, y
<1>8. /\ t.promises = s.promises /\ t.cells = y /\ t.jobs = x
      /\ t.aggregates = s.aggregates /\ t.contexts = s.contexts
      /\ t.rejected = s.rejected /\ t.reactions = s.reactions
  BY <1>6
<1>9. /\ m = [promises |-> k, cells |-> l + 1, aggregates |-> g, contexts |-> h,
              reactions |-> r]
      /\ n = [promises |-> k, cells |-> l, aggregates |-> g, contexts |-> h, reactions |-> r]
  BY <1>7, <1>8 DEF SizesOf
<1>10. m \in Sizes /\ AtMost(n, m) /\ m.promises = k
  <2> HIDE DEF n, m, k, l, g, h, r
  <2> QED BY <1>9, <1>2 DEF Sizes, AtMost
<1> HIDE DEF n, m
<1>11. s \in VmOf(m) /\ JobsOf(n) \subseteq JobsOf(m)
  BY <1>2, <1>10, Widened
<1>12. C \in CellsOf(m)
  BY <1>5, <1>10 DEF CellsOf
<1>13. C.promise = j.promise /\ C.resolved = FALSE
  OBVIOUS
<1> HIDE DEF C
<1>14. t \in VmOf(m)
  <2>1. x \in Seq(JobsOf(m))
    BY <1>4, <1>11, SeqMonotonic
  <2>2. s.cells \in Seq(CellsOf(m))
    BY <1>11, Fields
  <2>3. y \in Seq(CellsOf(m))
    BY <2>2, <1>12, AppendProperties DEF y
  <2>4. /\ s.promises \in Seq(PromisesOf(m)) /\ s.aggregates \in Seq(AggregatesOf(m))
        /\ s.contexts \in Seq(ContextsOf(m)) /\ s.tracking \in BOOLEAN
        /\ s.rejected \in SUBSET (1..m.promises) /\ s.reactions \in Seq(1..m.promises)
        /\ s.ran \in Seq(1..m.reactions) /\ s.finallys \in Seq(FinallysOf(m))
    BY <1>11, Fields
  <2> QED BY ONLY <1>6, <2>1, <2>3, <2>4 DEF VmOf
<1>15. Typed(t)
  BY <1>10, <1>14 DEF Typed, m
<1>16. /\ 1..Len(t.cells) = (1..l) \cup {l + 1}
       /\ \A p \in 1..k : Settled(t, p) <=> Settled(s, p)
       /\ \A c \in 1..l : t.cells[c] = s.cells[c] /\ (Open(t, c) <=> Open(s, c))
       /\ Open(t, l + 1) /\ t.cells[l + 1].promise = j.promise
  <2>1. 1..Len(t.cells) = (1..l) \cup {l + 1}
    <3> HIDE DEF k, l
    <3> QED BY <1>2, <1>7, <1>8
  <2>2. \A p \in 1..k : Settled(t, p) <=> Settled(s, p)
    BY <1>8 DEF Settled
  <2>3. \A c \in 1..l : t.cells[c] = s.cells[c] /\ (Open(t, c) <=> Open(s, c))
    BY <1>7, <1>8 DEF Open
  <2>4. Open(t, l + 1) /\ t.cells[l + 1].promise = j.promise
    BY <1>7, <1>8, <1>13 DEF Open
  <2> HIDE DEF k, l
  <2> QED BY <2>1, <2>2, <2>3, <2>4
<1>17. Asks(s, 1) /\ 1 \in 1..z /\ s.jobs[1].promise = j.promise
  BY <1>4 DEF Asks
<1>18. /\ \A i \in 1..Len(t.jobs) : i + 1 \in 1..z /\ i + 1 # 1 /\ t.jobs[i] = s.jobs[i + 1]
       /\ \A i \in 1..z : Asks(s, i) /\ i # 1
             => i - 1 \in 1..Len(t.jobs) /\ t.jobs[i - 1] = s.jobs[i] /\ Asks(t, i - 1)
       /\ \A i \in 1..Len(t.jobs) : Asks(t, i) => Asks(s, i + 1)
  <2> HIDE DEF z
  <2>1. \A i \in 1..Len(t.jobs) : i + 1 \in 1..z /\ i + 1 # 1 /\ t.jobs[i] = s.jobs[i + 1]
    BY <1>4, <1>8
  <2>2. ASSUME NEW i \in 1..z, Asks(s, i), i # 1
        PROVE  i - 1 \in 1..Len(t.jobs) /\ t.jobs[i - 1] = s.jobs[i] /\ Asks(t, i - 1)
    <3>1. i - 1 \in 1..Len(t.jobs) /\ (i - 1) + 1 = i
      BY <2>2, <1>4, <1>8
    <3>2. t.jobs[i - 1] = s.jobs[i]
      BY <3>1, <2>1
    <3> QED BY <3>1, <3>2, <2>2 DEF Asks
  <2>3. \A i \in 1..Len(t.jobs) : Asks(t, i) => Asks(s, i + 1)
    BY <2>1 DEF Asks
  <2> QED BY <2>1, <2>2, <2>3
<1>19. /\ \A d \in 1..l : s.cells[d].promise \in 1..k
       /\ \A i \in 1..z : Asks(s, i) => s.jobs[i].promise \in 1..k
  BY <1>1, Elements DEF Asks
\* Nothing but the job could settle the promise.
<1>20. /\ \A d \in 1..l : Open(s, d) => s.cells[d].promise # j.promise
       /\ \A i \in 1..z : Asks(s, i) /\ i # 1 => s.jobs[i].promise # j.promise
       /\ ~Settled(s, j.promise)
  BY <1>1, <1>17 DEF OneWay
<1>21. OneWay(t)
  <2>1. ASSUME NEW d \in 1..Len(t.cells), NEW f \in 1..Len(t.cells), Open(t, d), Open(t, f),
               t.cells[d].promise = t.cells[f].promise
        PROVE  d = f
    <3>1. CASE d \in 1..l /\ f \in 1..l
      <4>1. Open(s, d) /\ Open(s, f) /\ s.cells[d].promise = s.cells[f].promise
        BY <2>1, <3>1, <1>16
      <4> QED BY <4>1, <3>1, <1>1 DEF OneWay
    <3>2. CASE d = l + 1 /\ f \in 1..l
      <4>1. t.cells[d].promise = j.promise /\ t.cells[f].promise # j.promise
        BY <3>2, <2>1, <1>16, <1>20
      <4> QED BY <4>1, <2>1
    <3>3. CASE f = l + 1 /\ d \in 1..l
      <4>1. t.cells[f].promise = j.promise /\ t.cells[d].promise # j.promise
        BY <3>3, <2>1, <1>16, <1>20
      <4> QED BY <4>1, <2>1
    <3> QED BY <3>1, <3>2, <3>3, <1>16
  <2>2. ASSUME NEW i \in 1..Len(t.jobs), NEW f \in 1..Len(t.jobs), Asks(t, i), Asks(t, f),
               t.jobs[i].promise = t.jobs[f].promise
        PROVE  i = f
    <3>1. /\ i + 1 \in 1..z /\ f + 1 \in 1..z /\ Asks(s, i + 1) /\ Asks(s, f + 1)
          /\ s.jobs[i + 1].promise = s.jobs[f + 1].promise
      BY <2>2, <1>18
    <3>2. i + 1 = f + 1
      BY <3>1, <1>1 DEF OneWay
    <3>3. i \in Int /\ f \in Int
      OBVIOUS
    <3> QED BY <3>2, <3>3
  <2>3. ASSUME NEW d \in 1..Len(t.cells), NEW i \in 1..Len(t.jobs), Open(t, d), Asks(t, i)
        PROVE  t.cells[d].promise # t.jobs[i].promise
    <3>1. i + 1 \in 1..z /\ i + 1 # 1 /\ Asks(s, i + 1) /\ t.jobs[i] = s.jobs[i + 1]
      BY <2>3, <1>18
    <3>2. CASE d \in 1..l
      <4>1. Open(s, d) /\ t.cells[d] = s.cells[d]
        BY <3>2, <2>3, <1>16
      <4>2. s.cells[d].promise # s.jobs[i + 1].promise
        <5> DEFINE o == i + 1
        <5>1. o \in 1..z /\ Asks(s, o)
          BY <3>1
        <5> HIDE DEF o
        <5>2. s.cells[d].promise # s.jobs[o].promise
          BY <5>1, <3>2, <4>1, <1>1 DEF OneWay
        <5> QED BY <5>2 DEF o
      <4> QED BY <3>1, <4>1, <4>2
    <3>3. CASE d = l + 1
      BY <3>1, <3>3, <1>16, <1>20
    <3> QED BY <3>2, <3>3, <1>16
  <2>4. ASSUME NEW d \in 1..Len(t.cells), Open(t, d)
        PROVE  ~Settled(t, t.cells[d].promise)
    <3>1. CASE d \in 1..l
      <4>1. ~Settled(s, s.cells[d].promise)
        BY <3>1, <2>4, <1>1, <1>16 DEF OneWay
      <4> QED BY <3>1, <4>1, <1>16, <1>19
    <3>2. CASE d = l + 1
      BY <3>2, <1>5, <1>16, <1>20
    <3> QED BY <3>1, <3>2, <1>16
  <2>5. ASSUME NEW i \in 1..Len(t.jobs), Asks(t, i)
        PROVE  ~Settled(t, t.jobs[i].promise)
    <3>1. i + 1 \in 1..z /\ Asks(s, i + 1) /\ t.jobs[i] = s.jobs[i + 1]
      BY <2>5, <1>18
    <3>2. ~Settled(s, s.jobs[i + 1].promise) /\ s.jobs[i + 1].promise \in 1..k
      BY <3>1, <1>1, <1>19 DEF OneWay
    <3> QED BY <3>1, <3>2, <1>16
  <2>6. ASSUME NEW q \in 1..Len(t.promises)
        PROVE  \/ Settled(t, q)
               \/ \E d \in 1..Len(t.cells) : Open(t, d) /\ t.cells[d].promise = q
               \/ \E i \in 1..Len(t.jobs) : Asks(t, i) /\ t.jobs[i].promise = q
    <3>1. q \in 1..k
      BY <1>8
    <3>2. CASE Settled(s, q)
      BY <3>1, <3>2, <1>16
    <3>3. CASE \E d \in 1..l : Open(s, d) /\ s.cells[d].promise = q
      BY <3>3, <1>16
    <3>4. CASE \E i \in 1..z : Asks(s, i) /\ s.jobs[i].promise = q
      <4>1. PICK i \in 1..z : Asks(s, i) /\ s.jobs[i].promise = q
        BY <3>4
      <4>2. CASE i = 1
        BY <4>1, <4>2, <1>16, <1>17
      <4>3. CASE i # 1
        <5>1. i - 1 \in 1..Len(t.jobs) /\ t.jobs[i - 1] = s.jobs[i] /\ Asks(t, i - 1)
          BY <4>1, <4>3, <1>18
        <5> QED BY <4>1, <5>1
      <4> QED BY <4>2, <4>3
    <3> QED BY <3>1, <3>2, <3>3, <3>4, <1>1 DEF OneWay
  <2> QED BY ONLY <2>1, <2>2, <2>3, <2>4, <2>5, <2>6, Zenon DEF OneWay
<1>22. Grows(s, t)
  BY <1>8, <1>10, <1>16 DEF Grows, n, m
<1>23. Listed(t)
  BY <1>1, <1>8 DEF Listed
<1> QED BY <1>7, <1>8, <1>15, <1>21, <1>22, <1>23 DEF Sound

-----------------------------------------------------------------------------
(* Where the reactions are.                                                  *)

\* The i-th reaction that waits for promise p is r.
Waits(s, p, i, r) ==
    /\ p \in 1..Len(s.promises) /\ i \in 1..Len(s.promises[p].reactions)
    /\ s.promises[p].reactions[i].id = r

\* Job i runs reaction r.
Runs(s, i, r) ==
    i \in 1..Len(s.jobs) /\ s.jobs[i].kind = "reaction" /\ s.jobs[i].reaction = r

\* Reaction r has been the a-th to run, or will be.
Turn(s, a, r) ==
    \/ a \in 1..Len(s.ran) /\ s.ran[a] = r
    \/ \E i \in 1..Len(s.jobs) : a = Len(s.ran) + i /\ Runs(s, i, r)

\* Every reaction waits while its promise is pending and has its turn
\* afterwards, both in the order the reactions of the promise were registered.
Placed(s) ==
    /\ \A p, i, r \in Nat : Waits(s, p, i, r) => s.reactions[r] = p /\ ~Settled(s, p)
    /\ \A p, i, j, q, r \in Nat :
          Waits(s, p, i, q) /\ Waits(s, p, j, r) /\ i < j => q < r
    /\ \A a, r \in Nat : Turn(s, a, r) => Settled(s, s.reactions[r])
    /\ \A a, b, q, r \in Nat :
          Turn(s, a, q) /\ Turn(s, b, r) /\ a < b /\ s.reactions[q] = s.reactions[r] => q < r
    /\ \A r \in 1..Len(s.reactions) :
          (\E p, i \in Nat : Waits(s, p, i, r)) \/ (\E a \in Nat : Turn(s, a, r))

LEMMA WaitsTyped ==
    ASSUME NEW s, Typed(s), NEW p, NEW i, NEW r, Waits(s, p, i, r)
    PROVE  /\ p \in Nat /\ i \in Nat /\ r \in Nat /\ r \in 1..Len(s.reactions)
           /\ p \in 1..Len(s.promises) /\ i # 0
<1> DEFINE L == s.promises[p].reactions
           n == Len(s.reactions)
           k == Len(s.promises)
<1>1. p \in 1..k /\ i \in 1..Len(L) /\ L[i].id = r
  BY DEF Waits
<1>2. s.promises[p] \in PromisesOf(SizesOf(s)) /\ n \in Nat /\ k \in Nat
  BY <1>1, Elements, SizesTyped DEF Typed
<1>3. L \in Seq(ReactionsOf(SizesOf(s)))
  BY <1>2 DEF PromisesOf
<1> HIDE DEF L
<1>4. L[i] \in ReactionsOf(SizesOf(s)) /\ Len(L) \in Nat
  BY <1>1, <1>3, ElementOfSeq, LenProperties
<1>5. r \in 1..n
  BY <1>1, <1>4 DEF ReactionsOf, SizesOf
<1> HIDE DEF n, k
<1>6. p \in Nat /\ i \in Nat /\ i # 0 /\ r \in Nat
  BY <1>1, <1>2, <1>4, <1>5
<1> QED BY <1>1, <1>5, <1>6 DEF n, k

LEMMA RunsTyped ==
    ASSUME NEW s, Typed(s), NEW i, NEW r, Runs(s, i, r)
    PROVE  i \in Nat /\ i # 0 /\ r \in Nat /\ r \in 1..Len(s.reactions)
<1> DEFINE n == Len(s.reactions)
           z == Len(s.jobs)
<1>1. i \in 1..z /\ s.jobs[i].kind = "reaction" /\ s.jobs[i].reaction = r
  BY DEF Runs
<1>2. s.jobs[i] \in JobsOf(SizesOf(s)) /\ n \in Nat /\ z \in Nat
  BY <1>1, Elements, SizesTyped DEF Typed
<1>3. r \in 0..n /\ r # 0
  BY <1>1, <1>2 DEF JobsOf, SizesOf
<1> HIDE DEF n, z
<1>4. i \in Nat /\ i # 0 /\ r \in Nat /\ r \in 1..n
  BY <1>1, <1>2, <1>3
<1> QED BY <1>4 DEF n

LEMMA TurnTyped ==
    ASSUME NEW s, Typed(s), NEW a, NEW r, Turn(s, a, r)
    PROVE  /\ a \in Nat /\ r \in Nat /\ r \in 1..Len(s.reactions)
           /\ a <= Len(s.ran) + Len(s.jobs) /\ a # 0
<1> DEFINE n == Len(s.reactions)
           z == Len(s.jobs)
           l == Len(s.ran)
<1>1. n \in Nat /\ z \in Nat /\ l \in Nat
  BY SizesTyped, Fields, LenProperties DEF Typed
<1>2. CASE a \in 1..l /\ s.ran[a] = r
  <2>1. s.ran \in Seq(1..n)
    BY Fields DEF Typed, SizesOf
  <2>2. r \in 1..n
    BY <1>2, <2>1, ElementOfSeq
  <2> HIDE DEF n, z, l
  <2>3. a \in Nat /\ r \in Nat /\ a <= l + z /\ a # 0
    BY <1>1, <1>2, <2>2
  <2> QED BY <2>2, <2>3 DEF n, z, l
<1>3. CASE \E i \in 1..z : a = l + i /\ Runs(s, i, r)
  <2>1. PICK i \in 1..z : a = l + i /\ Runs(s, i, r)
    BY <1>3
  <2>2. r \in Nat /\ r \in 1..n
    BY <2>1, RunsTyped
  <2> HIDE DEF n, z, l
  <2>3. a \in Nat /\ a <= l + z /\ a # 0
    BY <1>1, <2>1
  <2> QED BY <2>2, <2>3 DEF n, z, l
<1> QED BY <1>2, <1>3 DEF Turn

\* The promise of each reaction.
LEMMA ReactionPromise ==
    ASSUME NEW s, Typed(s), NEW r \in 1..Len(s.reactions)
    PROVE  s.reactions[r] \in 1..Len(s.promises) /\ s.reactions[r] \in Nat
<1>1. s.reactions \in Seq(1..Len(s.promises)) /\ Len(s.promises) \in Nat
  BY Fields, SizesTyped DEF Typed, SizesOf
<1>2. s.reactions[r] \in 1..Len(s.promises)
  BY <1>1, ElementOfSeq
<1> QED BY <1>1, <1>2

-----------------------------------------------------------------------------
(* The ways in which reactions move.                                         *)

\* None does.
LEMMA PlacedSame ==
    ASSUME NEW s, NEW t, Typed(s), Typed(t), Placed(s), t.reactions = s.reactions,
           \A q \in 1..Len(s.promises) : Settled(t, q) <=> Settled(s, q),
           \A q, i, r : Waits(t, q, i, r) <=> Waits(s, q, i, r),
           \A a, r : Turn(t, a, r) <=> Turn(s, a, r)
    PROVE  Placed(t)
<1>1. ASSUME NEW p \in Nat, NEW i \in Nat, NEW r \in Nat, Waits(t, p, i, r)
      PROVE  t.reactions[r] = p /\ ~Settled(t, p)
  <2>1. Waits(s, p, i, r)
    BY <1>1
  <2> QED BY <2>1, WaitsTyped DEF Placed
<1>2. ASSUME NEW a \in Nat, NEW r \in Nat, Turn(t, a, r)
      PROVE  Settled(t, t.reactions[r])
  <2>1. Turn(s, a, r)
    BY <1>2
  <2>2. s.reactions[r] \in 1..Len(s.promises)
    BY <2>1, TurnTyped, ReactionPromise
  <2> QED BY <2>1, <2>2 DEF Placed
<1>3. \A p, i, j, q, r \in Nat : Waits(t, p, i, q) /\ Waits(t, p, j, r) /\ i < j => q < r
  BY DEF Placed
<1>4. \A a, b, q, r \in Nat :
         Turn(t, a, q) /\ Turn(t, b, r) /\ a < b /\ t.reactions[q] = t.reactions[r] => q < r
  BY DEF Placed
<1>5. \A r \in 1..Len(t.reactions) :
         (\E p, i \in Nat : Waits(t, p, i, r)) \/ (\E a \in Nat : Turn(t, a, r))
  BY DEF Placed
<1> QED BY <1>1, <1>2, <1>3, <1>4, <1>5 DEF Placed

\* Those of a promise that is settled get the next turns.
LEMMA PlacedSettled ==
    ASSUME NEW s, NEW t, Typed(s), Typed(t), Placed(s), t.reactions = s.reactions,
           NEW p \in 1..Len(s.promises), ~Settled(s, p),
           \A q \in 1..Len(s.promises) : Settled(t, q) <=> Settled(s, q) \/ q = p,
           \A q, i, r : Waits(t, q, i, r) <=> Waits(s, q, i, r) /\ q # p,
           NEW m \in Nat, \A a, r : Turn(s, a, r) => a \in Nat /\ a <= m,
           \A a, r : Turn(t, a, r) <=> \/ Turn(s, a, r)
                                       \/ \E i \in Nat : a = m + i /\ Waits(s, p, i, r)
    PROVE  Placed(t)
<1>1. ASSUME NEW q \in Nat, NEW i \in Nat, NEW r \in Nat, Waits(t, q, i, r)
      PROVE  t.reactions[r] = q /\ ~Settled(t, q)
  <2>1. Waits(s, q, i, r) /\ q # p
    BY <1>1
  <2>2. q \in 1..Len(s.promises)
    BY <2>1, WaitsTyped
  <2> QED BY <2>1, <2>2 DEF Placed
<1>2. ASSUME NEW a \in Nat, NEW r \in Nat, Turn(t, a, r)
      PROVE  Settled(t, t.reactions[r])
  <2>1. CASE Turn(s, a, r)
    <3>1. s.reactions[r] \in 1..Len(s.promises)
      BY <2>1, TurnTyped, ReactionPromise
    <3> QED BY <2>1, <3>1 DEF Placed
  <2>2. CASE \E i \in Nat : a = m + i /\ Waits(s, p, i, r)
    <3>1. PICK i \in Nat : Waits(s, p, i, r)
      BY <2>2
    <3>2. s.reactions[r] = p
      BY <3>1, WaitsTyped DEF Placed
    <3> QED BY <3>2
  <2> QED BY <1>2, <2>1, <2>2
<1>3. \A q, i, j, e, r \in Nat : Waits(t, q, i, e) /\ Waits(t, q, j, r) /\ i < j => e < r
  BY DEF Placed
<1>4. ASSUME NEW a \in Nat, NEW b \in Nat, NEW q \in Nat, NEW r \in Nat,
             Turn(t, a, q), Turn(t, b, r), a < b, t.reactions[q] = t.reactions[r]
      PROVE  q < r
  <2>1. CASE Turn(s, a, q) /\ Turn(s, b, r)
    BY <1>4, <2>1 DEF Placed
  <2>2. CASE Turn(s, a, q) /\ \E i \in Nat : b = m + i /\ Waits(s, p, i, r)
    <3>1. PICK i \in Nat : Waits(s, p, i, r)
      BY <2>2
    <3>2. s.reactions[r] = p /\ Settled(s, s.reactions[q])
      BY <2>2, <3>1, WaitsTyped DEF Placed
    <3> QED BY <3>2, <1>4
  <2>3. CASE Turn(s, b, r) /\ \E i \in Nat : a = m + i /\ Waits(s, p, i, q)
    <3>1. b <= m
      BY <2>3
    <3>2. PICK i \in Nat : a = m + i
      BY <2>3
    <3>3. b \in Nat /\ a < b
      BY <1>4
    <3>4. m \in Nat /\ i \in Nat
      OBVIOUS
    <3> QED BY ONLY <3>1, <3>2, <3>3, <3>4
  <2>4. CASE /\ \E i \in Nat : a = m + i /\ Waits(s, p, i, q)
             /\ \E i \in Nat : b = m + i /\ Waits(s, p, i, r)
    <3>1. PICK i \in Nat : a = m + i /\ Waits(s, p, i, q)
      BY <2>4
    <3>2. PICK j \in Nat : b = m + j /\ Waits(s, p, j, r)
      BY <2>4
    <3>3. i < j
      <4>1. a = m + i /\ b = m + j /\ a < b /\ m \in Nat /\ i \in Nat /\ j \in Nat
        BY <3>1, <3>2, <1>4
      <4> QED BY ONLY <4>1
    <3>4. p \in Nat
      BY <3>1, WaitsTyped
    <3> QED BY <3>1, <3>2, <3>3, <3>4 DEF Placed
  <2> QED BY <1>4, <2>1, <2>2, <2>3, <2>4
<1>5. ASSUME NEW r \in 1..Len(t.reactions)
      PROVE  (\E q, i \in Nat : Waits(t, q, i, r)) \/ (\E a \in Nat : Turn(t, a, r))
  <2>1. CASE \E a \in Nat : Turn(s, a, r)
    BY <2>1
  <2>2. CASE \E q, i \in Nat : Waits(s, q, i, r)
    <3>1. PICK q \in Nat, i \in Nat : Waits(s, q, i, r)
      BY <2>2
    <3>2. CASE q # p
      BY <3>1, <3>2
    <3>3. CASE q = p
      <4>1. m \in Nat /\ i \in Nat
        OBVIOUS
      <4>2. m + i \in Nat
        BY ONLY <4>1
      <4>3. Turn(t, m + i, r)
        BY <3>1, <3>3
      <4> QED BY <4>2, <4>3
    <3> QED BY <3>2, <3>3
  <2> QED BY <2>1, <2>2 DEF Placed
<1> QED BY <1>1, <1>2, <1>3, <1>4, <1>5 DEF Placed

\* A new one, the last of all, waits for promise p ...
LEMMA PlacedWaits ==
    ASSUME NEW s, NEW t, Typed(s), Typed(t), Placed(s), NEW n \in Nat, n = Len(s.reactions),
           Len(t.reactions) = n + 1, \A r \in 1..n : t.reactions[r] = s.reactions[r],
           NEW p \in 1..Len(s.promises), t.reactions[n + 1] = p, ~Settled(s, p),
           \A q \in 1..Len(s.promises) : Settled(t, q) <=> Settled(s, q),
           NEW l \in Nat, \A i, r : Waits(s, p, i, r) => i <= l,
           \A q, i, r : Waits(t, q, i, r)
                           <=> Waits(s, q, i, r) \/ (q = p /\ i = l + 1 /\ r = n + 1),
           \A a, r : Turn(t, a, r) <=> Turn(s, a, r)
    PROVE  Placed(t)
<1>1. ASSUME NEW q \in Nat, NEW i \in Nat, NEW r \in Nat, Waits(t, q, i, r)
      PROVE  t.reactions[r] = q /\ ~Settled(t, q)
  <2>1. CASE Waits(s, q, i, r)
    <3>1. q \in 1..Len(s.promises) /\ r \in 1..n
      BY <2>1, WaitsTyped
    <3> QED BY <2>1, <3>1 DEF Placed
  <2>2. CASE q = p /\ r = n + 1
    BY <2>2
  <2> QED BY <1>1, <2>1, <2>2
<1>2. ASSUME NEW a \in Nat, NEW r \in Nat, Turn(t, a, r)
      PROVE  Settled(t, t.reactions[r])
  <2>1. Turn(s, a, r)
    BY <1>2
  <2>2. s.reactions[r] \in 1..Len(s.promises) /\ r \in 1..n
    BY <2>1, TurnTyped, ReactionPromise
  <2> QED BY <2>1, <2>2 DEF Placed
<1>3. ASSUME NEW q \in Nat, NEW i \in Nat, NEW j \in Nat, NEW e \in Nat, NEW r \in Nat,
             Waits(t, q, i, e), Waits(t, q, j, r), i < j
      PROVE  e < r
  <2>1. CASE Waits(s, q, i, e) /\ Waits(s, q, j, r)
    BY <1>3, <2>1 DEF Placed
  <2>2. CASE Waits(s, q, i, e) /\ r = n + 1
    <3>1. e \in 1..n
      BY <2>2, WaitsTyped
    <3> QED BY <2>2, <3>1
  <2>3. CASE q = p /\ i = l + 1
    <3>1. CASE Waits(s, q, j, r)
      <4>1. j <= l
        BY <2>3, <3>1
      <4> QED BY <2>3, <4>1, <1>3
    <3>2. CASE j = l + 1
      BY <2>3, <3>2, <1>3
    <3> QED BY <1>3, <3>1, <3>2
  <2> QED BY <1>3, <2>1, <2>2, <2>3
<1>4. ASSUME NEW a \in Nat, NEW b \in Nat, NEW q \in Nat, NEW r \in Nat,
             Turn(t, a, q), Turn(t, b, r), a < b, t.reactions[q] = t.reactions[r]
      PROVE  q < r
  <2>1. Turn(s, a, q) /\ Turn(s, b, r)
    BY <1>4
  <2>2. q \in 1..n /\ r \in 1..n
    BY <2>1, TurnTyped
  <2> QED BY <1>4, <2>1, <2>2 DEF Placed
<1>5. ASSUME NEW r \in 1..Len(t.reactions)
      PROVE  (\E q, i \in Nat : Waits(t, q, i, r)) \/ (\E a \in Nat : Turn(t, a, r))
  <2>1. CASE r = n + 1
    <3>1. p \in Nat /\ l + 1 \in Nat
      OBVIOUS
    <3>2. Waits(t, p, l + 1, r)
      BY <2>1
    <3> QED BY <3>1, <3>2
  <2>2. CASE r # n + 1
    <3>1. r \in 1..n
      BY <2>2
    <3> QED BY <3>1 DEF Placed
  <2> QED BY <2>1, <2>2
<1> QED BY <1>1, <1>2, <1>3, <1>4, <1>5 DEF Placed

\* ... or, if that is settled, gets the next turn.
LEMMA PlacedTurn ==
    ASSUME NEW s, NEW t, Typed(s), Typed(t), Placed(s), NEW n \in Nat, n = Len(s.reactions),
           Len(t.reactions) = n + 1, \A r \in 1..n : t.reactions[r] = s.reactions[r],
           NEW p \in 1..Len(s.promises), t.reactions[n + 1] = p, Settled(s, p),
           \A q \in 1..Len(s.promises) : Settled(t, q) <=> Settled(s, q),
           \A q, i, r : Waits(t, q, i, r) <=> Waits(s, q, i, r),
           NEW m \in Nat, \A a, r : Turn(s, a, r) => a \in Nat /\ a <= m,
           \A a, r : Turn(t, a, r) <=> Turn(s, a, r) \/ (a = m + 1 /\ r = n + 1)
    PROVE  Placed(t)
<1>1. ASSUME NEW q \in Nat, NEW i \in Nat, NEW r \in Nat, Waits(t, q, i, r)
      PROVE  t.reactions[r] = q /\ ~Settled(t, q)
  <2>1. Waits(s, q, i, r)
    BY <1>1
  <2>2. q \in 1..Len(s.promises) /\ r \in 1..n
    BY <2>1, WaitsTyped
  <2> QED BY <2>1, <2>2 DEF Placed
<1>2. ASSUME NEW a \in Nat, NEW r \in Nat, Turn(t, a, r)
      PROVE  Settled(t, t.reactions[r])
  <2>1. CASE Turn(s, a, r)
    <3>1. s.reactions[r] \in 1..Len(s.promises) /\ r \in 1..n
      BY <2>1, TurnTyped, ReactionPromise
    <3> QED BY <2>1, <3>1 DEF Placed
  <2>2. CASE r = n + 1
    BY <2>2
  <2> QED BY <1>2, <2>1, <2>2
<1>3. \A q, i, j, e, r \in Nat : Waits(t, q, i, e) /\ Waits(t, q, j, r) /\ i < j => e < r
  BY DEF Placed
<1>4. ASSUME NEW a \in Nat, NEW b \in Nat, NEW q \in Nat, NEW r \in Nat,
             Turn(t, a, q), Turn(t, b, r), a < b, t.reactions[q] = t.reactions[r]
      PROVE  q < r
  <2>1. CASE Turn(s, a, q) /\ Turn(s, b, r)
    <3>1. q \in 1..n /\ r \in 1..n
      BY <2>1, TurnTyped
    <3> QED BY <1>4, <2>1, <3>1 DEF Placed
  <2>2. CASE Turn(s, a, q) /\ r = n + 1
    <3>1. q \in 1..n
      BY <2>2, TurnTyped
    <3> QED BY <2>2, <3>1
  <2>3. CASE a = m + 1
    <3>0. a \in Nat /\ b \in Nat /\ m \in Nat /\ a < b /\ a = m + 1
      BY <1>4, <2>3
    <3>1. CASE Turn(s, b, r)
      <4>1. b <= m
        BY <3>1
      <4> QED BY ONLY <3>0, <4>1
    <3>2. CASE b = m + 1
      BY ONLY <3>0, <3>2
    <3> QED BY <1>4, <3>1, <3>2
  <2> QED BY <1>4, <2>1, <2>2, <2>3
<1>5. ASSUME NEW r \in 1..Len(t.reactions)
      PROVE  (\E q, i \in Nat : Waits(t, q, i, r)) \/ (\E a \in Nat : Turn(t, a, r))
  <2>1. CASE r = n + 1
    <3>1. m \in Nat
      OBVIOUS
    <3>2. m + 1 \in Nat
      BY ONLY <3>1
    <3>3. Turn(t, m + 1, r)
      BY <2>1
    <3> QED BY <3>2, <3>3
  <2>2. CASE r # n + 1
    <3>1. r \in 1..n
      BY <2>2
    <3>2. CASE \E q, i \in Nat : Waits(s, q, i, r)
      BY <3>2
    <3>3. CASE \E a \in Nat : Turn(s, a, r)
      BY <3>3
    <3> QED BY <3>1, <3>2, <3>3 DEF Placed
  <2> QED BY <2>1, <2>2
<1> QED BY <1>1, <1>2, <1>3, <1>4, <1>5 DEF Placed

\* A job that runs no reaction is taken off the queue: later turns move up.
LEMMA PlacedSooner ==
    ASSUME NEW s, NEW t, Typed(s), Typed(t), Placed(s), t.reactions = s.reactions,
           \A q \in 1..Len(s.promises) : Settled(t, q) <=> Settled(s, q),
           \A q, i, r : Waits(t, q, i, r) <=> Waits(s, q, i, r),
           NEW l \in Nat, \A r : ~Turn(s, l + 1, r),
           \A a \in Nat : \A r : Turn(t, a, r) <=> Turn(s, IF a > l THEN a + 1 ELSE a, r)
    PROVE  Placed(t)
<1> DEFINE f(a) == IF a > l THEN a + 1 ELSE a
<1>1. ASSUME NEW p \in Nat, NEW i \in Nat, NEW r \in Nat, Waits(t, p, i, r)
      PROVE  t.reactions[r] = p /\ ~Settled(t, p)
  <2>1. Waits(s, p, i, r)
    BY <1>1
  <2> QED BY <2>1, WaitsTyped DEF Placed
<1>2. \A a \in Nat : f(a) \in Nat
  OBVIOUS
<1>3. \A a, b \in Nat : a < b => f(a) < f(b)
  OBVIOUS
<1>4. \A a \in Nat : \A r : Turn(t, a, r) <=> Turn(s, f(a), r)
  OBVIOUS
<1>5. ASSUME NEW a \in Nat, NEW r, Turn(s, a, r)
      PROVE  \E b \in Nat : Turn(t, b, r)
  <2>1. CASE a <= l
    <3>1. f(a) = a
      BY <2>1
    <3> QED BY <1>4, <1>5, <3>1
  <2>2. CASE a > l + 1
    <3>1. a - 1 \in Nat /\ f(a - 1) = a
      BY <2>2
    <3> QED BY <1>4, <1>5, <3>1
  <2>3. a # l + 1
    BY <1>5
  <2> QED BY <2>1, <2>2, <2>3
<1> HIDE DEF f
<1>6. ASSUME NEW a \in Nat, NEW r \in Nat, Turn(t, a, r)
      PROVE  Settled(t, t.reactions[r])
  <2>1. Turn(s, f(a), r) /\ f(a) \in Nat
    BY <1>2, <1>4, <1>6
  <2>2. s.reactions[r] \in 1..Len(s.promises)
    BY <2>1, TurnTyped, ReactionPromise
  <2> QED BY <2>1, <2>2 DEF Placed
<1>7. \A p, i, j, q, r \in Nat : Waits(t, p, i, q) /\ Waits(t, p, j, r) /\ i < j => q < r
  BY DEF Placed
<1>8. ASSUME NEW a \in Nat, NEW b \in Nat, NEW q \in Nat, NEW r \in Nat,
             Turn(t, a, q), Turn(t, b, r), a < b, t.reactions[q] = t.reactions[r]
      PROVE  q < r
  <2>1. Turn(s, f(a), q) /\ Turn(s, f(b), r) /\ f(a) < f(b) /\ f(a) \in Nat /\ f(b) \in Nat
    BY <1>2, <1>3, <1>4, <1>8
  <2> QED BY <1>8, <2>1 DEF Placed
<1>9. ASSUME NEW r \in 1..Len(t.reactions)
      PROVE  (\E p, i \in Nat : Waits(t, p, i, r)) \/ (\E a \in Nat : Turn(t, a, r))
  <2>1. CASE \E a \in Nat : Turn(s, a, r)
    BY <1>5, <2>1
  <2>2. CASE \E p, i \in Nat : Waits(s, p, i, r)
    BY <2>2
  <2> QED BY <2>1, <2>2 DEF Placed
<1> QED BY <1>1, <1>6, <1>7, <1>8, <1>9 DEF Placed

-----------------------------------------------------------------------------
(* How the operations move them.                                             *)

\* Reaction r, wherever it is, resumes context x.
Resumes(s, r, x) ==
    \/ \E p, i \in Nat : /\ Waits(s, p, i, r)
                         /\ s.promises[p].reactions[i].fulfilled = Handler("await", x)
    \/ \E i \in Nat : Runs(s, i, r) /\ s.jobs[i].handler = Handler("await", x)

\* The lists of promises and the queue have what they had, and perhaps
\* thenables to be asked.
SameQueues(s, t) ==
    /\ t.reactions = s.reactions /\ t.ran = s.ran
    /\ Len(s.promises) <= Len(t.promises)
    /\ \A p \in 1..Len(s.promises) :
          /\ t.promises[p].reactions = s.promises[p].reactions
          /\ t.promises[p].state = s.promises[p].state
    /\ \A p \in 1..Len(t.promises) :
          p > Len(s.promises) => t.promises[p].reactions = <<>>
    /\ Len(s.jobs) <= Len(t.jobs)
    /\ \A i \in 1..Len(s.jobs) : t.jobs[i] = s.jobs[i]
    /\ \A i \in 1..Len(t.jobs) : i > Len(s.jobs) => t.jobs[i].kind = "thenable"

LEMMA QueuesKept ==
    ASSUME NEW s, NEW t, Typed(s), Typed(t), SameQueues(s, t)
    PROVE  /\ Placed(s) => Placed(t)
           /\ \A r, x : Resumes(t, r, x) <=> Resumes(s, r, x)
<1>1. /\ Len(s.promises) \in Nat /\ Len(t.promises) \in Nat
      /\ Len(s.jobs) \in Nat /\ Len(t.jobs) \in Nat
      /\ Len(s.promises) <= Len(t.promises) /\ Len(s.jobs) <= Len(t.jobs)
  BY SizesTyped DEF Typed, SameQueues
<1>2. /\ \A p \in 1..Len(s.promises) : p \in 1..Len(t.promises)
      /\ \A p \in 1..Len(t.promises) : p \in 1..Len(s.promises) \/ p > Len(s.promises)
      /\ \A i \in 1..Len(s.jobs) : i \in 1..Len(t.jobs)
      /\ \A i \in 1..Len(t.jobs) : i \in 1..Len(s.jobs) \/ i > Len(s.jobs)
  BY <1>1
<1>3. \A p, i, r : Waits(t, p, i, r) <=> Waits(s, p, i, r)
  <2>1. Len(<<>>) = 0
    OBVIOUS
  <2>2. ASSUME NEW p, NEW i, NEW r, Waits(t, p, i, r)
        PROVE  Waits(s, p, i, r)
    <3>1. CASE p \in 1..Len(s.promises)
      BY <2>2, <3>1 DEF Waits, SameQueues
    <3>2. CASE p \in 1..Len(t.promises) /\ p > Len(s.promises)
      <4>1. i \in 1..0
        BY <2>1, <2>2, <3>2 DEF Waits, SameQueues
      <4> QED BY <4>1
    <3> QED BY <2>2, <3>1, <3>2, <1>2 DEF Waits
  <2>3. \A p, i, r : Waits(s, p, i, r) => Waits(t, p, i, r)
    BY <1>2 DEF Waits, SameQueues
  <2> QED BY <2>2, <2>3
<1>4. \A i, r : Runs(t, i, r) <=> Runs(s, i, r)
  <2>1. ASSUME NEW i, NEW r, Runs(t, i, r)
        PROVE  Runs(s, i, r)
    <3>1. i \in 1..Len(t.jobs) /\ t.jobs[i].kind # "thenable"
      BY <2>1 DEF Runs
    <3>2. i \in 1..Len(s.jobs)
      BY <3>1, <1>2 DEF SameQueues
    <3> QED BY <2>1, <3>2 DEF Runs, SameQueues
  <2>2. \A i, r : Runs(s, i, r) => Runs(t, i, r)
    BY <1>2 DEF Runs, SameQueues
  <2> QED BY <2>1, <2>2
<1>5. ASSUME NEW a, NEW r
      PROVE  Turn(t, a, r) <=> Turn(s, a, r)
  <2>1. t.ran = s.ran
    BY DEF SameQueues
  <2>2. (\E i \in 1..Len(t.jobs) : a = Len(t.ran) + i /\ Runs(t, i, r))
          <=> (\E i \in 1..Len(s.jobs) : a = Len(s.ran) + i /\ Runs(s, i, r))
    BY <2>1, <1>4 DEF Runs
  <2> QED BY <2>1, <2>2 DEF Turn
<1>6. \A q \in 1..Len(s.promises) : Settled(t, q) <=> Settled(s, q)
  BY DEF Settled, SameQueues
<1>7. Placed(s) => Placed(t)
  <2>1. t.reactions = s.reactions
    BY DEF SameQueues
  <2> QED BY ONLY <2>1, <1>3, <1>5, <1>6, Typed(s), Typed(t), PlacedSame
<1>8. \A p, i, r : Waits(s, p, i, r)
                      => t.promises[p].reactions[i] = s.promises[p].reactions[i]
  BY DEF Waits, SameQueues
<1>9. \A i, r : Runs(s, i, r) => t.jobs[i] = s.jobs[i]
  BY DEF Runs, SameQueues
<1>10. \A r, x : Resumes(t, r, x) <=> Resumes(s, r, x)
  BY <1>3, <1>4, <1>8, <1>9 DEF Resumes
<1> QED BY <1>7, <1>10

\* A reaction and its job resume the same context, if any.
LEMMA JobResumes ==
    ASSUME NEW n, NEW e \in ReactionsOf(n), NEW b, NEW v
    PROVE  LET j == ReactionJob(e, b, v)
           IN  /\ j.kind = "reaction" /\ j.reaction = e.id
               /\ \A x : j.handler = Handler("await", x) <=> e.fulfilled = Handler("await", x)
<1>1. \A x : Handler("await", x).kind = "await"
  BY DEF Handler
<1>2. e.fulfilled.kind = "await" \/ e.rejected.kind = "await" => e.fulfilled = e.rejected
  BY DEF ReactionsOf
<1>3. ASSUME NEW x
      PROVE  e.rejected = Handler("await", x) <=> e.fulfilled = Handler("await", x)
  BY <1>1, <1>2
<1>4. /\ ReactionJob(e, b, v).kind = "reaction" /\ ReactionJob(e, b, v).reaction = e.id
      /\ ReactionJob(e, b, v).handler = IF b THEN e.rejected ELSE e.fulfilled
  BY DEF ReactionJob
<1> QED BY <1>3, <1>4

\* The reactions of promise p, which is settled, are put into the queue.
TakenFrom(s, t, p) ==
    /\ t.reactions = s.reactions /\ t.ran = s.ran
    /\ Len(t.promises) = Len(s.promises)
    /\ t.promises[p].reactions = <<>> /\ Settled(t, p)
    /\ \A q \in 1..Len(s.promises) : q # p => t.promises[q] = s.promises[q]
    /\ \E b, v : t.jobs = s.jobs \o [i \in DOMAIN s.promises[p].reactions |->
                                       ReactionJob(s.promises[p].reactions[i], b, v)]

\* The queue afterwards.
JobsFor(s, t, rs) ==
    /\ Len(rs) \in Nat /\ Len(s.jobs) \in Nat
    /\ Len(t.jobs) = Len(s.jobs) + Len(rs)
    /\ \A i \in 1..Len(s.jobs) : t.jobs[i] = s.jobs[i]
    /\ \A i \in 1..Len(rs) :
          LET j == t.jobs[Len(s.jobs) + i]
          IN  /\ j.kind = "reaction" /\ j.reaction = rs[i].id
              /\ \A x : j.handler = Handler("await", x)
                           <=> rs[i].fulfilled = Handler("await", x)

LEMMA TakenJobs ==
    ASSUME NEW s, NEW t, Typed(s), NEW p \in 1..Len(s.promises), TakenFrom(s, t, p)
    PROVE  JobsFor(s, t, s.promises[p].reactions)
<1> DEFINE rs == s.promises[p].reactions
           n == SizesOf(s)
           l == Len(s.jobs)
           k == Len(rs)
<1>1. rs \in Seq(ReactionsOf(n)) /\ s.jobs \in Seq(JobsOf(n))
  BY Elements, Fields DEF Typed, PromisesOf
<1> HIDE DEF n
<1>2. k \in Nat /\ DOMAIN rs = 1..k /\ l \in Nat
      /\ \A i \in 1..k : rs[i] \in ReactionsOf(n)
  BY <1>1, LenProperties, ElementOfSeq
<1>3. PICK b, v : t.jobs = s.jobs \o [i \in DOMAIN rs |-> ReactionJob(rs[i], b, v)]
  BY DEF TakenFrom
<1> DEFINE x == [i \in DOMAIN rs |-> ReactionJob(rs[i], b, v)]
           J == {ReactionJob(rs[i], b, v) : i \in 1..k} \cup JobsOf(n)
<1>4. x \in Seq(J) /\ Len(x) = k
  <2>1. x = [i \in 1..k |-> x[i]] /\ \A i \in 1..k : x[i] \in J
    BY <1>2
  <2> HIDE DEF x, J, k
  <2> QED BY <2>1, <1>2, IsASeq
<1>5. s.jobs \in Seq(J)
  BY <1>1, SeqMonotonic, JobsOf(n) \subseteq J
<1>6. \A i \in 1..k : x[i] = ReactionJob(rs[i], b, v)
  BY <1>2
<1> HIDE DEF x, J, rs, l
<1>7. /\ Len(t.jobs) = l + k
      /\ \A i \in 1..Len(t.jobs) : t.jobs[i] = IF i <= l THEN s.jobs[i] ELSE x[i - l]
  <2>1. t.jobs = s.jobs \o x
    BY <1>3 DEF x
  <2>2. /\ Len(s.jobs \o x) = Len(s.jobs) + Len(x)
        /\ \A i \in 1..(Len(s.jobs) + Len(x)) :
              (s.jobs \o x)[i] = IF i <= Len(s.jobs) THEN s.jobs[i] ELSE x[i - Len(s.jobs)]
    BY <1>4, <1>5, ConcatProperties
  <2> QED BY <2>1, <2>2, <1>4 DEF l
<1> HIDE DEF k
<1>8. ASSUME NEW i \in 1..k
      PROVE  l + i \in 1..Len(t.jobs) /\ ~(l + i <= l) /\ (l + i) - l = i
  BY <1>2, <1>7
<1>9. \A i \in 1..k : t.jobs[l + i] = ReactionJob(rs[i], b, v)
  BY <1>6, <1>7, <1>8
<1>10. \A i \in 1..l : t.jobs[i] = s.jobs[i]
  <2>1. \A i \in 1..l : i \in 1..Len(t.jobs) /\ i <= l
    BY <1>2, <1>7
  <2> QED BY <2>1, <1>7
<1>11. \A i \in 1..k : LET j == t.jobs[l + i]
                       IN  /\ j.kind = "reaction" /\ j.reaction = rs[i].id
                           /\ \A y : j.handler = Handler("await", y)
                                        <=> rs[i].fulfilled = Handler("await", y)
  BY <1>2, <1>9, JobResumes
<1> QED BY <1>2, <1>7, <1>10, <1>11 DEF k, l, rs, JobsFor

LEMMA Taken ==
    ASSUME NEW s, NEW t, Typed(s), Typed(t), NEW p \in 1..Len(s.promises),
           ~Settled(s, p), TakenFrom(s, t, p)
    PROVE  /\ Placed(s) => Placed(t)
           /\ \A r, x : Resumes(t, r, x) <=> Resumes(s, r, x)
<1> DEFINE rs == s.promises[p].reactions
           l == Len(s.jobs)
           k == Len(rs)
           h == Len(s.ran)
           m == h + l
<1>1. /\ k \in Nat /\ l \in Nat /\ Len(t.jobs) = l + k
      /\ \A i \in 1..l : t.jobs[i] = s.jobs[i]
      /\ \A i \in 1..k : LET j == t.jobs[l + i]
                         IN  /\ j.kind = "reaction" /\ j.reaction = rs[i].id
                             /\ \A x : j.handler = Handler("await", x)
                                          <=> rs[i].fulfilled = Handler("await", x)
  <2>1. JobsFor(s, t, rs)
    BY TakenJobs
  <2> HIDE DEF rs
  <2> QED BY <2>1, Zenon DEF JobsFor
<1>2. h \in Nat /\ Len(s.promises) \in Nat
  BY Fields, SizesTyped, LenProperties DEF Typed
<1>3. \A i, r : Waits(s, p, i, r) <=> i \in 1..k /\ rs[i].id = r
  BY DEF Waits
<1>4. \A q, i, r : Waits(t, q, i, r) <=> Waits(s, q, i, r) /\ q # p
  <2>1. \A q \in 1..Len(s.promises) : q # p => t.promises[q] = s.promises[q]
    BY DEF TakenFrom
  <2>2. Len(t.promises) = Len(s.promises) /\ t.promises[p].reactions = <<>>
    BY DEF TakenFrom
  <2>3. \A i : i \notin 1..Len(<<>>)
    OBVIOUS
  <2> QED BY <2>1, <2>2, <2>3 DEF Waits
<1> HIDE DEF rs, k, l, h
<1>5. /\ \A i \in 1..l : i \in 1..Len(t.jobs)
      /\ \A i \in 1..k : l + i \in 1..Len(t.jobs) /\ l + i \notin 1..l
      /\ \A i \in 1..Len(t.jobs) : i \in 1..l \/ \E e \in 1..k : i = l + e
  <2>1. ASSUME NEW i \in 1..Len(t.jobs), i \notin 1..l
        PROVE  i - l \in 1..k /\ i = l + (i - l)
    BY <1>1, <2>1
  <2>2. /\ \A i \in 1..l : i \in 1..Len(t.jobs)
        /\ \A i \in 1..k : l + i \in 1..Len(t.jobs) /\ l + i \notin 1..l
    BY <1>1
  <2> QED BY <2>1, <2>2
<1>6. /\ \A i \in 1..l : \A r : Runs(t, i, r) <=> Runs(s, i, r)
      /\ \A i \in 1..k : \A r : Runs(t, l + i, r) <=> rs[i].id = r
  BY <1>1, <1>5 DEF Runs, l
<1>7. \A i, r : /\ Runs(t, i, r) => i \in 1..Len(t.jobs)
                /\ Runs(s, i, r) => i \in 1..l
  BY DEF Runs, l
<1>8. t.ran = s.ran /\ Len(t.ran) = h
  BY DEF TakenFrom, h
<1>9. ASSUME NEW a, NEW r
      PROVE  Turn(t, a, r) <=> \/ Turn(s, a, r)
                               \/ \E i \in Nat : a = m + i /\ Waits(s, p, i, r)
  <2>1. ASSUME NEW i \in 1..Len(t.jobs), a = h + i, Runs(t, i, r)
        PROVE  \/ Turn(s, a, r)
               \/ \E e \in Nat : a = m + e /\ Waits(s, p, e, r)
    <3>1. CASE i \in 1..l
      BY <2>1, <3>1, <1>6 DEF Turn, l, h
    <3>2. CASE \E e \in 1..k : i = l + e
      <4>1. PICK e \in 1..k : i = l + e
        BY <3>2
      <4>2. a = m + e /\ e \in Nat
        BY <4>1, <2>1, <1>1, <1>2
      <4>3. Waits(s, p, e, r)
        BY <4>1, <2>1, <1>3, <1>6
      <4> QED BY <4>2, <4>3
    <3> QED BY <3>1, <3>2, <1>5
  <2>2. ASSUME NEW i \in 1..l, a = h + i, Runs(s, i, r)
        PROVE  Turn(t, a, r)
    BY <2>2, <1>5, <1>6, <1>8 DEF Turn
  <2>3. ASSUME NEW i \in Nat, a = m + i, Waits(s, p, i, r)
        PROVE  Turn(t, a, r)
    <3>1. i \in 1..k /\ Runs(t, l + i, r) /\ l + i \in 1..Len(t.jobs)
      BY <2>3, <1>3, <1>5, <1>6
    <3>2. a = h + (l + i)
      BY <2>3, <1>1, <1>2
    <3> QED BY <3>1, <3>2, <1>8 DEF Turn
  <2>4. a \in 1..h /\ s.ran[a] = r => Turn(s, a, r) /\ Turn(t, a, r)
    BY <1>8 DEF Turn, h
  <2>5. Turn(t, a, r) => \/ a \in 1..h /\ s.ran[a] = r
                         \/ \E i \in 1..Len(t.jobs) : a = h + i /\ Runs(t, i, r)
    BY <1>8 DEF Turn
  <2>6. Turn(s, a, r) => \/ a \in 1..h /\ s.ran[a] = r
                         \/ \E i \in 1..l : a = h + i /\ Runs(s, i, r)
    BY DEF Turn, h, l
  <2> QED BY <2>1, <2>2, <2>3, <2>4, <2>5, <2>6
<1>10. Placed(s) => Placed(t)
  <2>1. m \in Nat
    BY <1>1, <1>2
  <2>2. \A a, r : Turn(s, a, r) => a \in Nat /\ a <= m
    BY TurnTyped DEF h, l
  <2>3. \A q \in 1..Len(s.promises) : Settled(t, q) <=> Settled(s, q) \/ q = p
    BY DEF TakenFrom, Settled
  <2>4. t.reactions = s.reactions
    BY DEF TakenFrom
  <2> HIDE DEF m
  <2> QED BY ONLY <2>1, <2>2, <2>3, <2>4, <1>4, <1>9, Typed(s), Typed(t), ~Settled(s, p),
             p \in 1..Len(s.promises), PlacedSettled
<1>11. ASSUME NEW r, NEW x
       PROVE  Resumes(t, r, x) <=> Resumes(s, r, x)
  <2> DEFINE H == Handler("await", x)
  <2>1. ASSUME NEW q \in Nat, NEW i \in Nat, Waits(t, q, i, r),
               t.promises[q].reactions[i].fulfilled = H
        PROVE  Resumes(s, r, x)
    <3>1. Waits(s, q, i, r) /\ t.promises[q] = s.promises[q]
      BY <2>1, <1>4 DEF TakenFrom, Waits
    <3> QED BY <2>1, <3>1 DEF Resumes
  <2>2. ASSUME NEW i \in Nat, Runs(t, i, r), t.jobs[i].handler = H
        PROVE  Resumes(s, r, x)
    <3>1. CASE i \in 1..l
      BY <2>2, <3>1, <1>1, <1>6 DEF Resumes
    <3>2. CASE \E e \in 1..k : i = l + e
      <4>1. PICK e \in 1..k : i = l + e
        BY <3>2
      <4>2. rs[e].id = r /\ rs[e].fulfilled = H
        BY <4>1, <2>2, <1>1, <1>6
      <4>3. Waits(s, p, e, r) /\ e \in Nat /\ p \in Nat
        BY <4>2, <1>3, <1>2
      <4> QED BY <4>2, <4>3 DEF Resumes, rs
    <3> QED BY <2>2, <3>1, <3>2, <1>5, <1>7
  <2>3. ASSUME NEW q \in Nat, NEW i \in Nat, Waits(s, q, i, r),
               s.promises[q].reactions[i].fulfilled = H
        PROVE  Resumes(t, r, x)
    <3>1. CASE q # p
      <4>1. Waits(t, q, i, r) /\ t.promises[q] = s.promises[q]
        BY <2>3, <3>1, <1>4 DEF TakenFrom, Waits
      <4> QED BY <2>3, <4>1 DEF Resumes
    <3>2. CASE q = p
      <4>1. i \in 1..k /\ rs[i].id = r /\ rs[i].fulfilled = H
        BY <2>3, <3>2, <1>3 DEF rs
      <4>2. Runs(t, l + i, r) /\ t.jobs[l + i].handler = H
        BY <4>1, <1>1, <1>6
      <4>3. l + i \in Nat
        BY <1>1
      <4> QED BY <4>2, <4>3 DEF Resumes
    <3> QED BY <3>1, <3>2
  <2>4. ASSUME NEW i \in Nat, Runs(s, i, r), s.jobs[i].handler = H
        PROVE  Resumes(t, r, x)
    BY <2>4, <1>1, <1>6, <1>7 DEF Resumes
  <2> HIDE DEF H
  <2>5. Resumes(t, r, x) => Resumes(s, r, x)
    BY <2>1, <2>2 DEF Resumes, H
  <2>6. Resumes(s, r, x) => Resumes(t, r, x)
    BY <2>3, <2>4 DEF Resumes, H
  <2> QED BY <2>5, <2>6
<1> QED BY <1>10, <1>11

\* Promise p, which is pending, gets reaction e ...
WaitsFor(s, t, p, e) ==
    /\ t.reactions = Append(s.reactions, p) /\ t.ran = s.ran /\ t.jobs = s.jobs
    /\ Len(t.promises) = Len(s.promises)
    /\ \A q \in 1..Len(s.promises) : q # p => t.promises[q] = s.promises[q]
    /\ t.promises[p].state = s.promises[p].state
    /\ t.promises[p].reactions = Append(s.promises[p].reactions, e)
    /\ e.id = Len(s.reactions) + 1

LEMMA Registers ==
    ASSUME NEW s, NEW t, Typed(s), Typed(t), NEW p \in 1..Len(s.promises),
           ~Settled(s, p), NEW e, WaitsFor(s, t, p, e)
    PROVE  /\ Placed(s) => Placed(t)
           /\ \A r, x : Resumes(t, r, x) <=>
                 \/ Resumes(s, r, x)
                 \/ r = Len(s.reactions) + 1 /\ e.fulfilled = Handler("await", x)
<1> DEFINE rs == s.promises[p].reactions
           n == Len(s.reactions)
           l == Len(rs)
<1>1. /\ rs \in Seq(ReactionsOf(SizesOf(s))) /\ l \in Nat /\ n \in Nat
      /\ s.reactions \in Seq(1..Len(s.promises)) /\ Len(s.promises) \in Nat
  <2>1. rs \in Seq(ReactionsOf(SizesOf(s)))
    BY Elements DEF Typed, PromisesOf
  <2>2. s.reactions \in Seq(1..Len(s.promises))
    BY Fields DEF Typed, SizesOf
  <2> QED BY <2>1, <2>2, LenProperties, SizesTyped DEF Typed
<1>2. /\ Len(t.reactions) = n + 1 /\ t.reactions[n + 1] = p
      /\ \A r \in 1..n : t.reactions[r] = s.reactions[r]
  <2>1. t.reactions = Append(s.reactions, p)
    BY DEF WaitsFor
  <2> QED BY <2>1, <1>1, AppendProperties
<1>3. /\ Len(t.promises[p].reactions) = l + 1 /\ t.promises[p].reactions[l + 1] = e
      /\ \A i \in 1..l : t.promises[p].reactions[i] = rs[i]
  <2> DEFINE S == ReactionsOf(SizesOf(s)) \cup {e}
  <2>1. rs \in Seq(S) /\ e \in S
    BY <1>1, SeqMonotonic, ReactionsOf(SizesOf(s)) \subseteq S
  <2>2. t.promises[p].reactions = Append(rs, e)
    BY DEF WaitsFor
  <2> HIDE DEF S
  <2> QED BY <2>1, <2>2, AppendProperties
<1>4. \A i, r : Waits(s, p, i, r) <=> i \in 1..l /\ rs[i].id = r
  BY DEF Waits
<1>5. /\ p \in 1..Len(t.promises) /\ e.id = n + 1
      /\ \A q \in 1..Len(s.promises) : q # p => t.promises[q] = s.promises[q]
      /\ Len(t.promises) = Len(s.promises)
  BY DEF WaitsFor
<1> HIDE DEF rs, l, n
<1>6. ASSUME NEW q, NEW i, NEW r
      PROVE  Waits(t, q, i, r) <=> Waits(s, q, i, r) \/ (q = p /\ i = l + 1 /\ r = n + 1)
  <2>1. CASE q # p
    <3>1. CASE q \in 1..Len(s.promises)
      <4>1. t.promises[q] = s.promises[q] /\ q \in 1..Len(t.promises)
        BY <2>1, <3>1, <1>5
      <4> QED BY <2>1, <3>1, <4>1 DEF Waits
    <3>2. CASE q \notin 1..Len(s.promises)
      BY <2>1, <3>2, <1>5 DEF Waits
    <3> QED BY <3>1, <3>2
  <2>2. CASE q = p
    <3>1. Waits(t, p, i, r) <=> i \in 1..(l + 1) /\ t.promises[p].reactions[i].id = r
      BY <1>3, <1>5 DEF Waits
    <3>2. i \in 1..(l + 1) <=> i \in 1..l \/ i = l + 1
      BY <1>1
    <3> QED BY <2>2, <3>1, <3>2, <1>3, <1>4, <1>5
  <2> QED BY <2>1, <2>2
<1>7. /\ \A i, r : Runs(t, i, r) <=> Runs(s, i, r)
      /\ \A a, r : Turn(t, a, r) <=> Turn(s, a, r)
      /\ t.jobs = s.jobs
  BY DEF Runs, Turn, WaitsFor
<1>8. Placed(s) => Placed(t)
  <2>1. \A q \in 1..Len(s.promises) : Settled(t, q) <=> Settled(s, q)
    BY DEF WaitsFor, Settled
  <2>2. \A i, r : Waits(s, p, i, r) => i <= l
    BY <1>1, <1>4
  <2>3. n = Len(s.reactions)
    BY DEF n
  <2>4. \A a, r : Turn(t, a, r) <=> Turn(s, a, r)
    BY <1>7
  <2>5. n \in Nat /\ l \in Nat
    BY <1>1
  <2> QED BY ONLY <2>1, <2>2, <2>3, <2>4, <2>5, <1>2, <1>6, Typed(s), Typed(t),
             ~Settled(s, p), p \in 1..Len(s.promises), PlacedWaits
<1>9. ASSUME NEW r, NEW x
      PROVE  Resumes(t, r, x) <=> \/ Resumes(s, r, x)
                                  \/ r = n + 1 /\ e.fulfilled = Handler("await", x)
  <2> DEFINE H == Handler("await", x)
  <2> HIDE DEF H
  <2>1. \A q, i : Waits(s, q, i, r) => t.promises[q].reactions[i] = s.promises[q].reactions[i]
    BY <1>3, <1>4, <1>5 DEF Waits, rs
  <2>2. (\E i \in Nat : Runs(t, i, r) /\ t.jobs[i].handler = H)
          <=> (\E i \in Nat : Runs(s, i, r) /\ s.jobs[i].handler = H)
    BY <1>7
  <2>3. (\E q, i \in Nat : Waits(t, q, i, r) /\ t.promises[q].reactions[i].fulfilled = H)
          <=> \/ \E q, i \in Nat : /\ Waits(s, q, i, r)
                                   /\ s.promises[q].reactions[i].fulfilled = H
              \/ r = n + 1 /\ e.fulfilled = H
    <3>1. ASSUME NEW q \in Nat, NEW i \in Nat, Waits(t, q, i, r),
                 t.promises[q].reactions[i].fulfilled = H
          PROVE  \/ /\ Waits(s, q, i, r)
                    /\ s.promises[q].reactions[i].fulfilled = H
                 \/ r = n + 1 /\ e.fulfilled = H
      <4>1. Waits(s, q, i, r) \/ (q = p /\ i = l + 1 /\ r = n + 1)
        BY <3>1, <1>6
      <4> QED BY <3>1, <4>1, <2>1, <1>3
    <3>2. ASSUME NEW q \in Nat, NEW i \in Nat, Waits(s, q, i, r),
                 s.promises[q].reactions[i].fulfilled = H
          PROVE  Waits(t, q, i, r) /\ t.promises[q].reactions[i].fulfilled = H
      BY <3>2, <2>1, <1>6
    <3>3. ASSUME r = n + 1, e.fulfilled = H
          PROVE  /\ p \in Nat /\ l + 1 \in Nat /\ Waits(t, p, l + 1, r)
                 /\ t.promises[p].reactions[l + 1].fulfilled = H
      BY <3>3, <1>1, <1>3, <1>6
    <3> QED BY <3>1, <3>2, <3>3
  <2> QED BY <2>2, <2>3 DEF Resumes, H
<1> QED BY <1>8, <1>9 DEF n

\* ... or, if it is settled, the job of e goes to the end of the queue.
RunsNext(s, t, p, e) ==
    /\ t.reactions = Append(s.reactions, p) /\ t.ran = s.ran
    /\ Len(t.promises) = Len(s.promises)
    /\ \A q \in 1..Len(s.promises) :
          /\ t.promises[q].state = s.promises[q].state
          /\ t.promises[q].reactions = s.promises[q].reactions
    /\ \E b, v : t.jobs = Append(s.jobs, ReactionJob(e, b, v))
    /\ e.id = Len(s.reactions) + 1

LEMMA Queues ==
    ASSUME NEW s, NEW t, Typed(s), Typed(t), NEW p \in 1..Len(s.promises),
           Settled(s, p), NEW e \in ReactionsOf(SizesOf(t)), RunsNext(s, t, p, e)
    PROVE  /\ Placed(s) => Placed(t)
           /\ \A r, x : Resumes(t, r, x) <=>
                 \/ Resumes(s, r, x)
                 \/ r = Len(s.reactions) + 1 /\ e.fulfilled = Handler("await", x)
<1> DEFINE n == Len(s.reactions)
           l == Len(s.jobs)
           h == Len(s.ran)
           m == h + l
<1>1. /\ l \in Nat /\ n \in Nat /\ h \in Nat /\ s.jobs \in Seq(JobsOf(SizesOf(s)))
      /\ s.reactions \in Seq(1..Len(s.promises)) /\ Len(s.promises) \in Nat
  <2>1. s.reactions \in Seq(1..Len(s.promises))
    BY Fields DEF Typed, SizesOf
  <2>2. s.ran \in Seq(1..SizesOf(s).reactions) /\ s.jobs \in Seq(JobsOf(SizesOf(s)))
    BY Fields DEF Typed
  <2> QED BY <2>1, <2>2, LenProperties, SizesTyped DEF Typed
<1>2. /\ Len(t.reactions) = n + 1 /\ t.reactions[n + 1] = p
      /\ \A r \in 1..n : t.reactions[r] = s.reactions[r]
  <2>1. t.reactions = Append(s.reactions, p)
    BY DEF RunsNext
  <2> QED BY <2>1, <1>1, AppendProperties
<1>3. PICK b, v : t.jobs = Append(s.jobs, ReactionJob(e, b, v))
  BY DEF RunsNext
<1> DEFINE j == ReactionJob(e, b, v)
<1>4. /\ j.kind = "reaction" /\ j.reaction = e.id /\ e.id = n + 1
      /\ \A x : j.handler = Handler("await", x) <=> e.fulfilled = Handler("await", x)
  BY JobResumes DEF RunsNext
<1> HIDE DEF j
<1>5. /\ Len(t.jobs) = l + 1 /\ t.jobs[l + 1] = j
      /\ \A i \in 1..l : t.jobs[i] = s.jobs[i]
  <2> DEFINE S == JobsOf(SizesOf(s)) \cup {j}
  <2>1. s.jobs \in Seq(S) /\ j \in S
    BY <1>1, SeqMonotonic, JobsOf(SizesOf(s)) \subseteq S
  <2> HIDE DEF S
  <2> QED BY <2>1, <1>3, AppendProperties DEF j
<1>6. \A q, i, r : Waits(t, q, i, r) <=> Waits(s, q, i, r)
  BY DEF Waits, RunsNext
<1> HIDE DEF n, l, h
<1>7. \A i : i \in 1..(l + 1) <=> i \in 1..l \/ i = l + 1
  BY <1>1
<1>8. \A i, r : Runs(t, i, r) <=> Runs(s, i, r) \/ (i = l + 1 /\ r = n + 1)
  <2>1. l + 1 \notin 1..l
    BY <1>1
  <2> QED BY <2>1, <1>4, <1>5, <1>7 DEF Runs, l
<1>9. t.ran = s.ran /\ Len(t.ran) = h
  BY DEF RunsNext, h
<1>10. ASSUME NEW a, NEW r
       PROVE  Turn(t, a, r) <=> Turn(s, a, r) \/ (a = m + 1 /\ r = n + 1)
  <2>1. Turn(t, a, r) <=> \/ a \in 1..h /\ s.ran[a] = r
                          \/ \E i \in 1..(l + 1) : a = h + i /\ Runs(t, i, r)
    BY <1>5, <1>9 DEF Turn
  <2>2. Turn(s, a, r) <=> \/ a \in 1..h /\ s.ran[a] = r
                          \/ \E i \in 1..l : a = h + i /\ Runs(s, i, r)
    BY DEF Turn, h, l
  <2>3. h + (l + 1) = m + 1
    BY <1>1
  <2>4. \A i : Runs(s, i, r) => i \in 1..l
    BY DEF Runs, l
  <2>5. (\E i \in 1..(l + 1) : a = h + i /\ Runs(t, i, r))
          <=> \/ \E i \in 1..l : a = h + i /\ Runs(s, i, r)
              \/ a = h + (l + 1) /\ r = n + 1
    BY <2>4, <1>7, <1>8
  <2> QED BY <2>1, <2>2, <2>3, <2>5
<1>11. Placed(s) => Placed(t)
  <2>1. \A q \in 1..Len(s.promises) : Settled(t, q) <=> Settled(s, q)
    BY DEF RunsNext, Settled
  <2>2. m \in Nat
    BY <1>1
  <2>3. \A a, r : Turn(s, a, r) => a \in Nat /\ a <= m
    BY TurnTyped DEF h, l
  <2>4. n = Len(s.reactions)
    BY DEF n
  <2> HIDE DEF m
  <2> QED BY ONLY <2>1, <2>2, <2>3, <2>4, <1>1, <1>2, <1>6, <1>10, Typed(s), Typed(t),
             Settled(s, p), p \in 1..Len(s.promises), PlacedTurn
<1>12. ASSUME NEW r, NEW x
       PROVE  Resumes(t, r, x) <=> \/ Resumes(s, r, x)
                                   \/ r = n + 1 /\ e.fulfilled = Handler("await", x)
  <2> DEFINE H == Handler("await", x)
  <2>1. j.handler = H <=> e.fulfilled = H
    BY <1>4
  <2> HIDE DEF H
  <2>2. (\E q, i \in Nat : Waits(t, q, i, r) /\ t.promises[q].reactions[i].fulfilled = H)
          <=> (\E q, i \in Nat : /\ Waits(s, q, i, r)
                                 /\ s.promises[q].reactions[i].fulfilled = H)
    BY <1>6 DEF Waits, RunsNext
  <2>3. \A i : Runs(s, i, r) => t.jobs[i] = s.jobs[i]
    BY <1>5 DEF Runs, l
  <2>4. (\E i \in Nat : Runs(t, i, r) /\ t.jobs[i].handler = H)
          <=> \/ \E i \in Nat : Runs(s, i, r) /\ s.jobs[i].handler = H
              \/ r = n + 1 /\ e.fulfilled = H
    <3>1. l + 1 \in Nat
      BY <1>1
    <3> QED BY <2>1, <2>3, <3>1, <1>5, <1>8
  <2> QED BY <2>2, <2>4 DEF Resumes, H
<1> QED BY <1>11, <1>12 DEF n

\* The first job is taken off the queue.
FirstTaken(s, t) ==
    /\ t.reactions = s.reactions /\ t.promises = s.promises
    /\ s.jobs # <<>> /\ t.jobs = Tail(s.jobs)

LEMMA Rest ==
    ASSUME NEW s, NEW t, Typed(s), FirstTaken(s, t)
    PROVE  /\ Len(s.jobs) \in Nat \ {0} /\ Len(t.jobs) = Len(s.jobs) - 1
           /\ \A i \in 1..Len(t.jobs) : i + 1 \in 1..Len(s.jobs)
           /\ \A i \in 1..Len(s.jobs) : i # 1 => i - 1 \in 1..Len(t.jobs)
           /\ \A i \in Nat : \A r : Runs(t, i, r) <=> Runs(s, i + 1, r) /\ i # 0
           /\ \A i \in 1..Len(t.jobs) : t.jobs[i] = s.jobs[i + 1]
           /\ \A q, i, r : Waits(t, q, i, r) <=> Waits(s, q, i, r)
           /\ Head(s.jobs) = s.jobs[1] /\ 1 \in 1..Len(s.jobs)
<1> DEFINE l == Len(s.jobs)
<1>1. /\ l \in Nat \ {0} /\ Len(t.jobs) = l - 1 /\ Head(s.jobs) = s.jobs[1]
      /\ \A i \in 1..Len(t.jobs) : t.jobs[i] = s.jobs[i + 1]
  BY TailJobs DEF FirstTaken
<1> HIDE DEF l
<1>2. /\ \A i \in 1..Len(t.jobs) : i + 1 \in 1..l
      /\ \A i \in 1..l : i # 1 => i - 1 \in 1..Len(t.jobs)
      /\ \A i \in Nat : i \in 1..Len(t.jobs) <=> i + 1 \in 1..l /\ i # 0
      /\ 1 \in 1..l
  BY <1>1
<1>3. \A i \in Nat : \A r : Runs(t, i, r) <=> Runs(s, i + 1, r) /\ i # 0
  BY <1>1, <1>2 DEF Runs, l
<1>4. \A q, i, r : Waits(t, q, i, r) <=> Waits(s, q, i, r)
  BY DEF Waits, FirstTaken
<1> QED BY <1>1, <1>2, <1>3, <1>4 DEF l

\* A reaction that runs has had its turn.
LEMMA RunsFirst ==
    ASSUME NEW s, NEW t, Typed(s), Typed(t), FirstTaken(s, t),
           NEW j, j = Head(s.jobs), j.kind = "reaction",
           t.ran = Append(s.ran, j.reaction)
    PROVE  /\ Placed(s) => Placed(t)
           /\ \A r, x : Resumes(s, r, x) <=>
                 Resumes(t, r, x) \/ (r = j.reaction /\ j.handler = Handler("await", x))
           /\ Placed(s) => \A x : ~Resumes(t, j.reaction, x)
<1> DEFINE l == Len(s.jobs)
           h == Len(s.ran)
<1>1. /\ l \in Nat \ {0} /\ Len(t.jobs) = l - 1
      /\ \A i \in 1..Len(t.jobs) : i + 1 \in 1..l
      /\ \A i \in 1..l : i # 1 => i - 1 \in 1..Len(t.jobs)
      /\ \A i \in Nat : \A r : Runs(t, i, r) <=> Runs(s, i + 1, r) /\ i # 0
      /\ \A i \in 1..Len(t.jobs) : t.jobs[i] = s.jobs[i + 1]
      /\ \A q, i, r : Waits(t, q, i, r) <=> Waits(s, q, i, r)
      /\ j = s.jobs[1] /\ 1 \in 1..l
  BY Rest
<1>2. /\ h \in Nat /\ Len(t.ran) = h + 1 /\ t.ran[h + 1] = j.reaction
      /\ \A i \in 1..h : t.ran[i] = s.ran[i]
  <2> DEFINE S == (1..SizesOf(s).reactions) \cup {j.reaction}
  <2>1. s.ran \in Seq(S) /\ j.reaction \in S
    <3>1. s.ran \in Seq(1..SizesOf(s).reactions)
      BY Fields DEF Typed
    <3> QED BY <3>1, SeqMonotonic, (1..SizesOf(s).reactions) \subseteq S
  <2> HIDE DEF S
  <2> QED BY <2>1, AppendProperties, LenProperties
<1> HIDE DEF h
<1>3. \A r : Runs(s, 1, r) <=> r = j.reaction
  BY <1>1 DEF Runs
<1>4. ASSUME NEW a, NEW r
      PROVE  Turn(t, a, r) <=> Turn(s, a, r)
  <2>1. Turn(t, a, r) <=> \/ a \in 1..(h + 1) /\ t.ran[a] = r
                          \/ \E i \in 1..Len(t.jobs) : a = (h + 1) + i /\ Runs(t, i, r)
    BY <1>2 DEF Turn
  <2>2. Turn(s, a, r) <=> \/ a \in 1..h /\ s.ran[a] = r
                          \/ \E i \in 1..l : a = h + i /\ Runs(s, i, r)
    BY DEF Turn, h
  <2> HIDE DEF l
  <2>3. a \in 1..(h + 1) /\ t.ran[a] = r <=> \/ a \in 1..h /\ s.ran[a] = r
                                             \/ a = h + 1 /\ r = j.reaction
    <3>1. a \in 1..(h + 1) <=> a \in 1..h \/ a = h + 1
      BY <1>2
    <3>2. h + 1 \notin 1..h
      BY <1>2
    <3> QED BY <3>1, <3>2, <1>2
  <2>4. ASSUME NEW i \in 1..Len(t.jobs), a = (h + 1) + i, Runs(t, i, r)
        PROVE  i + 1 \in 1..l /\ a = h + (i + 1) /\ Runs(s, i + 1, r)
    <3>1. i \in Nat /\ i + 1 \in 1..l
      BY <1>1
    <3>2. Runs(s, i + 1, r)
      BY <3>1, <2>4, <1>1
    <3>3. a = h + (i + 1)
      BY ONLY <3>1, <2>4, <1>2
    <3> QED BY <3>1, <3>2, <3>3
  <2>5. ASSUME NEW i \in 1..l, i # 1, a = h + i, Runs(s, i, r)
        PROVE  i - 1 \in 1..Len(t.jobs) /\ a = (h + 1) + (i - 1) /\ Runs(t, i - 1, r)
    <3>1. i - 1 \in 1..Len(t.jobs)
      BY <2>5, <1>1
    <3>2. i - 1 \in Nat /\ (i - 1) + 1 = i /\ i - 1 # 0 /\ a = (h + 1) + (i - 1)
      BY <2>5, <1>1, <1>2
    <3>3. Runs(t, i - 1, r) <=> Runs(s, (i - 1) + 1, r) /\ i - 1 # 0
      BY <3>2, <1>1
    <3> QED BY <3>1, <3>2, <3>3, <2>5
  <2>6. (\E i \in 1..l : a = h + i /\ Runs(s, i, r))
          <=> \/ a = h + 1 /\ r = j.reaction
              \/ \E i \in 1..Len(t.jobs) : a = (h + 1) + i /\ Runs(t, i, r)
    BY <2>4, <2>5, <1>1, <1>3
  <2> QED BY <2>1, <2>2, <2>3, <2>6
<1>5. Placed(s) => Placed(t)
  <2>1. \A q \in 1..Len(s.promises) : Settled(t, q) <=> Settled(s, q)
    BY DEF FirstTaken, Settled
  <2>2. t.reactions = s.reactions
    BY DEF FirstTaken
  <2> QED BY ONLY <2>1, <2>2, <1>1, <1>4, Typed(s), Typed(t), PlacedSame
<1>6. ASSUME NEW r, NEW x
      PROVE  Resumes(s, r, x) <=>
                Resumes(t, r, x) \/ (r = j.reaction /\ j.handler = Handler("await", x))
  <2> DEFINE H == Handler("await", x)
  <2> HIDE DEF H, l
  <2>1. (\E q, i \in Nat : Waits(t, q, i, r) /\ t.promises[q].reactions[i].fulfilled = H)
          <=> (\E q, i \in Nat : /\ Waits(s, q, i, r)
                                 /\ s.promises[q].reactions[i].fulfilled = H)
    BY <1>1 DEF FirstTaken
  <2>2. \A i, e : /\ Runs(s, i, e) => i \in 1..l
                  /\ Runs(t, i, e) => i \in 1..Len(t.jobs)
    BY DEF Runs, l
  <2>3. ASSUME NEW i \in Nat, Runs(t, i, r), t.jobs[i].handler = H
        PROVE  i + 1 \in Nat /\ Runs(s, i + 1, r) /\ s.jobs[i + 1].handler = H
    BY <2>2, <2>3, <1>1
  <2>4. ASSUME NEW i \in Nat, i # 1, Runs(s, i, r), s.jobs[i].handler = H
        PROVE  i - 1 \in Nat /\ Runs(t, i - 1, r) /\ t.jobs[i - 1].handler = H
    <3>1. i \in 1..l
      BY <2>2, <2>4
    <3>2. i - 1 \in 1..Len(t.jobs) /\ i - 1 \in Nat /\ (i - 1) + 1 = i /\ i - 1 # 0
      BY <3>1, <2>4, <1>1
    <3>3. Runs(t, i - 1, r) <=> Runs(s, (i - 1) + 1, r) /\ i - 1 # 0
      BY <3>2, <1>1
    <3>4. t.jobs[i - 1] = s.jobs[(i - 1) + 1]
      BY <3>2, <1>1
    <3> QED BY <3>2, <3>3, <3>4, <2>4
  <2>5. (\E i \in Nat : Runs(s, i, r) /\ s.jobs[i].handler = H)
          <=> \/ \E i \in Nat : Runs(t, i, r) /\ t.jobs[i].handler = H
              \/ r = j.reaction /\ j.handler = H
    BY <2>3, <2>4, <1>1, <1>3
  <2> QED BY <2>1, <2>5 DEF Resumes, H
<1>7. ASSUME Placed(s), NEW x, Resumes(t, j.reaction, x)
      PROVE  FALSE
  <2> DEFINE r == j.reaction
             a == h + 1
  <2>1. Turn(s, a, r)
    BY <1>1, <1>3 DEF Turn, h
  <2>2. r \in Nat /\ a \in Nat
    BY <2>1, TurnTyped
  <2>3. CASE \E q, i \in Nat : Waits(t, q, i, r)
    <3>1. PICK q \in Nat, i \in Nat : Waits(s, q, i, r)
      BY <2>3, <1>1
    <3>2. s.reactions[r] = q /\ ~Settled(s, q)
      BY <3>1, <2>2, <1>7 DEF Placed
    <3>3. Settled(s, s.reactions[r])
      BY <2>1, <2>2, <1>7 DEF Placed
    <3> QED BY <3>2, <3>3
  <2>4. CASE \E i \in Nat : Runs(t, i, r)
    <3>1. PICK i \in Nat : Runs(s, i + 1, r) /\ i # 0
      BY <2>4, <1>1
    <3>2. i + 1 \in 1..l
      BY <3>1 DEF Runs
    <3>3. Turn(s, h + (i + 1), r)
      BY <3>1, <3>2 DEF Turn, h
    <3>4. h + (i + 1) \in Nat /\ a < h + (i + 1)
      BY <3>1, <1>2
    <3>5. r < r
      BY <2>1, <2>2, <3>3, <3>4, <1>7 DEF Placed
    <3> QED BY <3>5, <2>2
  <2> QED BY <2>3, <2>4, <1>7 DEF Resumes
<1> QED BY <1>5, <1>6, <1>7

\* A thenable is asked: the others move up.
LEMMA AsksFirst ==
    ASSUME NEW s, NEW t, Typed(s), Typed(t), FirstTaken(s, t),
           Head(s.jobs).kind = "thenable", t.ran = s.ran
    PROVE  /\ Placed(s) => Placed(t)
           /\ \A r, x : Resumes(t, r, x) <=> Resumes(s, r, x)
<1> DEFINE l == Len(s.jobs)
           h == Len(s.ran)
<1>1. /\ l \in Nat \ {0} /\ Len(t.jobs) = l - 1
      /\ \A i \in 1..Len(t.jobs) : i + 1 \in 1..l
      /\ \A i \in 1..l : i # 1 => i - 1 \in 1..Len(t.jobs)
      /\ \A i \in Nat : \A r : Runs(t, i, r) <=> Runs(s, i + 1, r) /\ i # 0
      /\ \A i \in 1..Len(t.jobs) : t.jobs[i] = s.jobs[i + 1]
      /\ \A q, i, r : Waits(t, q, i, r) <=> Waits(s, q, i, r)
      /\ Head(s.jobs) = s.jobs[1] /\ 1 \in 1..l
  BY Rest
<1>2. h \in Nat
  BY Fields, LenProperties DEF Typed
<1> HIDE DEF h, l
<1>3. \A r : ~Runs(s, 1, r)
  BY <1>1 DEF Runs
<1>4. \A i, e : /\ Runs(s, i, e) => i \in 1..l
                /\ Runs(t, i, e) => i \in 1..Len(t.jobs)
  BY DEF Runs, l
<1>5. ASSUME NEW a \in Nat, NEW r
      PROVE  Turn(t, a, r) <=> Turn(s, IF a > h THEN a + 1 ELSE a, r)
  <2>1. Turn(t, a, r) <=> \/ a \in 1..h /\ s.ran[a] = r
                          \/ \E i \in 1..Len(t.jobs) : a = h + i /\ Runs(t, i, r)
    BY DEF Turn, h
  <2>2. \A b : Turn(s, b, r) <=> \/ b \in 1..h /\ s.ran[b] = r
                                 \/ \E i \in 1..l : b = h + i /\ Runs(s, i, r)
    BY DEF Turn, h, l
  <2>3. CASE a > h
    <3>1. a \notin 1..h /\ a + 1 \notin 1..h
      BY <2>3, <1>2
    <3>2. ASSUME NEW i \in 1..Len(t.jobs), a = h + i, Runs(t, i, r)
          PROVE  i + 1 \in 1..l /\ a + 1 = h + (i + 1) /\ Runs(s, i + 1, r)
      <4>1. i \in Nat
        BY <1>1
      <4> QED BY <4>1, <3>2, <1>1, <1>2
    <3>3. ASSUME NEW i \in 1..l, a + 1 = h + i, Runs(s, i, r)
          PROVE  i - 1 \in 1..Len(t.jobs) /\ a = h + (i - 1) /\ Runs(t, i - 1, r)
      <4>1. i # 1
        BY <3>3, <1>3
      <4>2. i - 1 \in 1..Len(t.jobs) /\ i - 1 \in Nat /\ (i - 1) + 1 = i /\ i - 1 # 0
        BY <4>1, <1>1
      <4>3. Runs(t, i - 1, r) <=> Runs(s, (i - 1) + 1, r) /\ i - 1 # 0
        BY <4>2, <1>1
      <4>4. a = h + (i - 1)
        BY <3>3, <1>1, <1>2
      <4> QED BY <4>2, <4>3, <4>4, <3>3
    <3>4. (\E i \in 1..Len(t.jobs) : a = h + i /\ Runs(t, i, r))
            <=> (\E i \in 1..l : a + 1 = h + i /\ Runs(s, i, r))
      BY <3>2, <3>3
    <3> QED BY <3>1, <3>4, <2>1, <2>2, <2>3
  <2>4. CASE ~(a > h)
    <3>1. ASSUME NEW i \in Nat, i # 0
          PROVE  a # h + i
      BY <2>4, <3>1, <1>2
    <3>2. /\ \A i \in 1..Len(t.jobs) : a # h + i
          /\ \A i \in 1..l : a # h + i
      BY <3>1, <1>1
    <3> QED BY <3>2, <2>1, <2>2, <2>4
  <2> QED BY <2>3, <2>4
<1>6. Placed(s) => Placed(t)
  <2>1. \A q \in 1..Len(s.promises) : Settled(t, q) <=> Settled(s, q)
    BY DEF FirstTaken, Settled
  <2>2. t.reactions = s.reactions
    BY DEF FirstTaken
  <2>3. ASSUME NEW r PROVE ~Turn(s, h + 1, r)
    <3>1. h + 1 \notin 1..h
      BY <1>2
    <3>2. \A i \in 1..l : h + 1 = h + i => i = 1
      BY <1>1, <1>2
    <3> QED BY <3>1, <3>2, <1>3 DEF Turn, h, l
  <2> QED BY ONLY <2>1, <2>2, <2>3, <1>1, <1>2, <1>5, Typed(s), Typed(t), PlacedSooner
<1>7. ASSUME NEW r, NEW x
      PROVE  Resumes(t, r, x) <=> Resumes(s, r, x)
  <2> DEFINE H == Handler("await", x)
  <2> HIDE DEF H
  <2>1. (\E q, i \in Nat : Waits(t, q, i, r) /\ t.promises[q].reactions[i].fulfilled = H)
          <=> (\E q, i \in Nat : /\ Waits(s, q, i, r)
                                 /\ s.promises[q].reactions[i].fulfilled = H)
    BY <1>1 DEF FirstTaken
  <2>2. ASSUME NEW i \in Nat, Runs(t, i, r), t.jobs[i].handler = H
        PROVE  i + 1 \in Nat /\ Runs(s, i + 1, r) /\ s.jobs[i + 1].handler = H
    BY <2>2, <1>1, <1>4
  <2>3. ASSUME NEW i \in Nat, Runs(s, i, r), s.jobs[i].handler = H
        PROVE  i - 1 \in Nat /\ Runs(t, i - 1, r) /\ t.jobs[i - 1].handler = H
    <3>1. i \in 1..l /\ i # 1
      BY <2>3, <1>3, <1>4
    <3>2. i - 1 \in 1..Len(t.jobs) /\ i - 1 \in Nat /\ (i - 1) + 1 = i /\ i - 1 # 0
      BY <3>1, <1>1
    <3>3. Runs(t, i - 1, r) <=> Runs(s, (i - 1) + 1, r) /\ i - 1 # 0
      BY <3>2, <1>1
    <3>4. t.jobs[i - 1] = s.jobs[(i - 1) + 1]
      BY <3>2, <1>1
    <3> QED BY <3>2, <3>3, <3>4, <2>3
  <2> QED BY <2>1, <2>2, <2>3 DEF Resumes, H
<1> QED BY <1>6, <1>7

-----------------------------------------------------------------------------
(* The inductive invariant of the engine's state, and the operations.        *)

\* A context that is live and not among X, those that run, is resumed by one
\* reaction; any other by none.
Awaited(s, X) ==
    /\ \A x \in X : x \in 1..Len(s.contexts) /\ s.contexts[x].live
    /\ \A x \in 1..Len(s.contexts) :
          (\E r \in Nat : Resumes(s, r, x)) <=> s.contexts[x].live /\ x \notin X
    /\ \A x \in 1..Len(s.contexts), q, r \in Nat :
          Resumes(s, q, x) /\ Resumes(s, r, x) => q = r

Good(s, X) == Sound(s) /\ Placed(s) /\ Awaited(s, X)

LEMMA GoodKept ==
    ASSUME NEW s, NEW X, Good(s, X), NEW t, Sound(t), Placed(t), t.contexts = s.contexts,
           \A r, x : Resumes(t, r, x) <=> Resumes(s, r, x)
    PROVE  Good(t, X)
BY DEF Good, Awaited

\* A state of the engine as a record.
LEMMA Record ==
    ASSUME NEW s, Typed(s)
    PROVE  /\ s = [promises |-> s.promises, cells |-> s.cells, jobs |-> s.jobs,
                   aggregates |-> s.aggregates, contexts |-> s.contexts,
                   tracking |-> s.tracking, rejected |-> s.rejected,
                   reactions |-> s.reactions, ran |-> s.ran, finallys |-> s.finallys]
           /\ DOMAIN s.promises = 1..Len(s.promises)
           /\ DOMAIN s.cells = 1..Len(s.cells)
           /\ \A p \in 1..Len(s.promises) :
                 DOMAIN s.promises[p] = {"state", "result", "handled", "reactions"}
<1>1. s \in VmOf(SizesOf(s))
  BY DEF Typed
<1>2. /\ s.promises \in Seq(PromisesOf(SizesOf(s))) /\ s.cells \in Seq(CellsOf(SizesOf(s)))
  BY <1>1, Fields
<1>3. \A p \in 1..Len(s.promises) : s.promises[p] \in PromisesOf(SizesOf(s))
  BY Elements
<1>4. \A p \in 1..Len(s.promises) :
         DOMAIN s.promises[p] = {"state", "result", "handled", "reactions"}
  BY <1>3 DEF PromisesOf
<1> QED BY <1>1, <1>2, <1>4, Fields, LenProperties

\* A promise is settled as st: what becomes of its reactions.
LEMMA SettlesTakes ==
    ASSUME NEW s, Typed(s), NEW c \in 1..Len(s.cells), NEW p \in 1..Len(s.promises), NEW v,
           NEW t, \/ t = njs_promise_fulfill(Used(s, c), p, v)
                  \/ t = njs_promise_reject(Used(s, c), p, v)
    PROVE  TakenFrom(s, t, p) /\ t.contexts = s.contexts
<1> DEFINE u == Used(s, c)
           rs == s.promises[p].reactions
           P(st) == [s.promises EXCEPT ![p] = SettledAs(s.promises[p], st, v)]
           J(b) == s.jobs \o [i \in DOMAIN rs |-> ReactionJob(rs[i], b, v)]
<1>1. /\ s = [promises |-> s.promises, cells |-> s.cells, jobs |-> s.jobs,
              aggregates |-> s.aggregates, contexts |-> s.contexts,
              tracking |-> s.tracking, rejected |-> s.rejected,
              reactions |-> s.reactions, ran |-> s.ran, finallys |-> s.finallys]
      /\ DOMAIN s.promises = 1..Len(s.promises)
      /\ DOMAIN s.promises[p] = {"state", "result", "handled", "reactions"}
      /\ s.promises \in Seq(PromisesOf(SizesOf(s)))
  BY Record, Fields DEF Typed
<1>2. /\ u.promises = s.promises /\ u.jobs = s.jobs /\ u.contexts = s.contexts
      /\ u.reactions = s.reactions /\ u.ran = s.ran
      /\ DOMAIN u = DOMAIN s
  BY <1>1 DEF Used
<1>3. DOMAIN s = {"promises", "cells", "jobs", "aggregates", "contexts", "tracking",
                  "rejected", "reactions", "ran", "finallys"}
  BY <1>1
<1> HIDE DEF u
<1>4. ASSUME t = njs_promise_fulfill(u, p, v)
      PROVE  /\ t.promises = P("fulfilled") /\ t.jobs = J(FALSE)
             /\ t.contexts = s.contexts /\ t.reactions = s.reactions /\ t.ran = s.ran
  BY <1>2, <1>3, <1>4 DEF njs_promise_fulfill, njs_promise_trigger_reactions
<1>5. ASSUME t = njs_promise_reject(u, p, v)
      PROVE  /\ t.promises = P("rejected") /\ t.jobs = J(TRUE)
             /\ t.contexts = s.contexts /\ t.reactions = s.reactions /\ t.ran = s.ran
  BY <1>2, <1>3, <1>5 DEF njs_promise_reject, njs_promise_trigger_reactions,
                          ngx_js_rejection_tracker
<1>6. ASSUME NEW st \in {"fulfilled", "rejected"}
      PROVE  /\ Len(P(st)) = Len(s.promises)
             /\ P(st)[p].reactions = <<>> /\ P(st)[p].state = st
             /\ \A q \in 1..Len(s.promises) : q # p => P(st)[q] = s.promises[q]
  <2> DEFINE q == SettledAs(s.promises[p], st, v)
             S == PromisesOf(SizesOf(s)) \cup {q}
  <2>1. q.reactions = <<>> /\ q.state = st
    BY <1>1 DEF SettledAs
  <2>2. s.promises \in Seq(S) /\ q \in S
    BY <1>1, SeqMonotonic, PromisesOf(SizesOf(s)) \subseteq S
  <2> HIDE DEF q, S
  <2>3. [s.promises EXCEPT ![p] = q] = P(st)
    BY DEF q
  <2> HIDE DEF P
  <2> QED BY <2>1, <2>2, <2>3, ExceptSeq
<1> HIDE DEF P
<1>7. t.promises = P("fulfilled") \/ t.promises = P("rejected")
  BY <1>4, <1>5 DEF u
<1>8. /\ Len(t.promises) = Len(s.promises)
      /\ t.promises[p].reactions = <<>> /\ Settled(t, p)
      /\ \A q \in 1..Len(s.promises) : q # p => t.promises[q] = s.promises[q]
  BY <1>6, <1>7 DEF Settled
<1>9. /\ t.jobs = J(FALSE) \/ t.jobs = J(TRUE)
      /\ t.contexts = s.contexts /\ t.reactions = s.reactions /\ t.ran = s.ran
  BY <1>4, <1>5 DEF u
<1>10. \E b, w : t.jobs = s.jobs \o [i \in DOMAIN rs |-> ReactionJob(rs[i], b, w)]
  BY <1>9
<1> QED BY <1>8, <1>9, <1>10 DEF TakenFrom

\* A good state after an operation that creates nothing.
Kept(s, t, X) == Good(t, X) /\ SizesOf(t) = SizesOf(s) /\ Grows(s, t)

LEMMA KeptReflexive ==
    ASSUME NEW s, NEW X, Good(s, X)
    PROVE  Kept(s, s, X)
BY GrowsReflexive DEF Kept, Good, Sound

LEMMA KeptIfHeld ==
    ASSUME NEW s, NEW X, Good(s, X), NEW t, Held(s, t), t.contexts = s.contexts,
           Placed(s) => Placed(t),
           \A r, x : Resumes(t, r, x) <=> Resumes(s, r, x)
    PROVE  Kept(s, t, X)
<1>1. Sound(t) /\ Placed(t) /\ SizesOf(t) = SizesOf(s) /\ Grows(s, t)
  BY DEF Held, Good
<1>2. Good(t, X)
  BY <1>1, GoodKept
<1> QED BY <1>1, <1>2 DEF Kept

LEMMA SettlesGood ==
    ASSUME NEW s, NEW X, Good(s, X), NEW c \in 1..Len(s.cells), Open(s, c),
           NEW v \in ValuesOf(SizesOf(s)),
           NEW t, \/ t = njs_promise_fulfill(Used(s, c), PromiseOf(s, c), v)
                  \/ t = njs_promise_reject(Used(s, c), PromiseOf(s, c), v)
    PROVE  Kept(s, t, X)
<1> DEFINE p == PromiseOf(s, c)
<1>1. Sound(s) /\ Typed(s) /\ OneWay(s)
  BY DEF Good, Sound
<1>2. p \in 1..Len(s.promises) /\ ~Settled(s, p)
  BY <1>1, Elements DEF PromiseOf, OneWay
<1>3. Held(s, t)
  BY <1>1, FulfillSound, RejectSound
<1> HIDE DEF p
<1>4. TakenFrom(s, t, p) /\ t.contexts = s.contexts
  BY <1>1, <1>2, SettlesTakes DEF p
<1>5. Typed(t)
  BY <1>3 DEF Held, Sound
<1>6. /\ Placed(s) => Placed(t)
      /\ \A r, x : Resumes(t, r, x) <=> Resumes(s, r, x)
  BY <1>1, <1>2, <1>4, <1>5, Taken
<1> QED BY <1>3, <1>4, <1>6, KeptIfHeld

\* A thenable is put off.
LEMMA DeferGood ==
    ASSUME NEW s, NEW X, Good(s, X), NEW c \in 1..Len(s.cells), Open(s, c),
           NEW v \in ValuesOf(SizesOf(s)),
           NEW t, t = njs_vm_enqueue_job(Used(s, c), ThenableJob(PromiseOf(s, c), v))
    PROVE  Kept(s, t, X)
<1> DEFINE j == ThenableJob(PromiseOf(s, c), v)
<1>1. Sound(s) /\ Typed(s)
  BY DEF Good, Sound
<1>2. Held(s, t)
  BY <1>1, DeferSound
<1>3. Typed(t)
  BY <1>2 DEF Held, Sound
<1>4. j.kind = "thenable"
  BY DEF ThenableJob
<1> HIDE DEF j
<1>5. t = njs_vm_enqueue_job(Used(s, c), j)
  BY DEF j
<1>6. /\ t.promises = s.promises /\ t.jobs = Append(s.jobs, j) /\ t.ran = s.ran
      /\ t.reactions = s.reactions /\ t.contexts = s.contexts
  <2> DEFINE u == Used(s, c)
  <2>1. DOMAIN s = {"promises", "cells", "jobs", "aggregates", "contexts", "tracking",
                    "rejected", "reactions", "ran", "finallys"}
    BY <1>1, Fields DEF Typed
  <2>2. /\ u.promises = s.promises /\ u.jobs = s.jobs /\ u.ran = s.ran
        /\ u.reactions = s.reactions /\ u.contexts = s.contexts
        /\ DOMAIN u = DOMAIN s
    BY <2>1 DEF Used
  <2> HIDE DEF u
  <2>3. t = [u EXCEPT !.jobs = Append(u.jobs, j)]
    BY <1>5 DEF njs_vm_enqueue_job, u
  <2> QED BY <2>1, <2>2, <2>3
<1>7. s.jobs \in Seq(JobsOf(SizesOf(s)) \cup {j})
  BY <1>1, Fields, SeqMonotonic, JobsOf(SizesOf(s)) \subseteq JobsOf(SizesOf(s)) \cup {j} DEF Typed
<1> DEFINE l == Len(s.jobs)
<1>8. /\ Len(t.jobs) = l + 1 /\ t.jobs[l + 1] = j /\ l \in Nat
      /\ \A i \in 1..l : t.jobs[i] = s.jobs[i]
  BY <1>6, <1>7, AppendProperties, LenProperties, j \in JobsOf(SizesOf(s)) \cup {j}
<1>9. SameQueues(s, t)
  <2>1. Len(s.promises) \in Nat
    BY <1>1, SizesTyped DEF Typed
  <2> HIDE DEF l
  <2>2. \A i \in 1..Len(t.jobs) : i > l => i = l + 1
    BY <1>8
  <2>3. l <= Len(t.jobs)
    BY <1>8
  <2>4. \A i \in 1..Len(t.jobs) : i > l => t.jobs[i].kind = "thenable"
    BY <2>2, <1>4, <1>8
  <2>5. Len(s.promises) <= Len(t.promises) /\ \A p \in 1..Len(t.promises) : ~(p > Len(s.promises))
    BY <2>1, <1>6
  <2> QED BY <2>3, <2>4, <2>5, <1>6, <1>8 DEF SameQueues, l
<1> QED BY <1>1, <1>2, <1>3, <1>6, <1>9, QueuesKept, KeptIfHeld

LEMMA ResolveGood ==
    ASSUME NEW s, NEW X, Good(s, X), NEW c \in 1..Len(s.cells),
           NEW v \in ValuesOf(SizesOf(s)),
           NEW t, t = njs_promise_resolve_function(s, c, v)
    PROVE  Kept(s, t, X)
<1>1. TypeErrorValue \in ValuesOf(SizesOf(s))
  BY DEF TypeErrorValue, Value, ValuesOf, Values_, Kinds
<1>2. CASE s.cells[c].resolved
  BY <1>2, KeptReflexive DEF njs_promise_resolve_function
<1>3. CASE ~s.cells[c].resolved
  <2>1. Open(s, c)
    BY <1>3 DEF Open
  <2>2. \/ t = njs_promise_reject(Used(s, c), PromiseOf(s, c), TypeErrorValue)
        \/ t = njs_vm_enqueue_job(Used(s, c), ThenableJob(PromiseOf(s, c), v))
        \/ t = njs_promise_fulfill(Used(s, c), PromiseOf(s, c), v)
    BY <1>3, Zenon DEF njs_promise_resolve_function
  <2> QED BY <2>1, <2>2, <1>1, SettlesGood, DeferGood
<1> QED BY <1>2, <1>3

LEMMA RejectFunctionGood ==
    ASSUME NEW s, NEW X, Good(s, X), NEW c \in 1..Len(s.cells),
           NEW v \in ValuesOf(SizesOf(s)),
           NEW t, t = njs_promise_reject_function(s, c, v)
    PROVE  Kept(s, t, X)
<1>1. CASE s.cells[c].resolved
  BY <1>1, KeptReflexive DEF njs_promise_reject_function
<1>2. CASE ~s.cells[c].resolved
  <2>1. t = njs_promise_reject(Used(s, c), PromiseOf(s, c), v)
    BY <1>2 DEF njs_promise_reject_function
  <2> QED BY <2>1, <1>2, SettlesGood DEF Open
<1> QED BY <1>1, <1>2

LEMMA SettleGood ==
    ASSUME NEW s, NEW X, Good(s, X), NEW c \in 0..Len(s.cells),
           NEW v \in ValuesOf(SizesOf(s)), NEW b, NEW t, t = Settle(s, c, b, v)
    PROVE  Kept(s, t, X)
<1>1. CASE c = NoCell
  BY <1>1, KeptReflexive DEF Settle
<1>2. CASE c # NoCell
  <2>1. c \in 1..Len(s.cells)
    BY <1>2 DEF NoCell
  <2>2. \/ t = njs_promise_reject_function(s, c, v)
        \/ t = njs_promise_resolve_function(s, c, v)
    BY <1>2, Zenon DEF Settle
  <2> QED BY <2>1, <2>2, ResolveGood, RejectFunctionGood
<1> QED BY <1>1, <1>2

LEMMA CapabilityGood ==
    ASSUME NEW s, NEW X, Good(s, X), NEW e \in BOOLEAN,
           NEW t, t = njs_promise_new_capability(s, e)
    PROVE  /\ Good(t, X) /\ Grows(s, t)
           /\ Len(t.promises) = Len(s.promises) + 1
           /\ Len(t.cells) = Len(s.cells) + 1
           /\ t.aggregates = s.aggregates /\ t.contexts = s.contexts
           /\ t.finallys = s.finallys
<1> DEFINE P == [state |-> "pending", result |-> Undefined, handled |-> FALSE,
                 reactions |-> <<>>]
           k == Len(s.promises)
<1>1. Sound(s) /\ Typed(s)
  BY DEF Good, Sound
<1>2. /\ Sound(t) /\ Grows(s, t) /\ Len(t.promises) = k + 1
      /\ Len(t.cells) = Len(s.cells) + 1
      /\ t.aggregates = s.aggregates /\ t.contexts = s.contexts
      /\ t.reactions = s.reactions /\ t.finallys = s.finallys
  BY <1>1, CapabilitySound
<1>3. /\ t.promises = Append(s.promises, P) /\ t.jobs = s.jobs /\ t.ran = s.ran
  BY <1>1, Record DEF njs_promise_new_capability, njs_promise_alloc,
                      njs_promise_create_resolving_functions
<1> HIDE DEF P
<1>4. s.promises \in Seq(PromisesOf(SizesOf(s)) \cup {P}) /\ k \in Nat /\ Len(s.jobs) \in Nat
  BY <1>1, Fields, SizesTyped, SeqMonotonic,
     PromisesOf(SizesOf(s)) \subseteq PromisesOf(SizesOf(s)) \cup {P} DEF Typed
<1>5. /\ \A p \in 1..k : t.promises[p] = s.promises[p]
      /\ t.promises[k + 1] = P
  BY <1>3, <1>4, AppendProperties, P \in PromisesOf(SizesOf(s)) \cup {P}
<1>6. SameQueues(s, t)
  <2>1. P.reactions = <<>>
    BY DEF P
  <2> HIDE DEF k
  <2>2. \A p \in 1..(k + 1) : p > k => p = k + 1
    BY <1>4
  <2>3. k <= k + 1
    BY <1>4
  <2>4. Len(s.jobs) <= Len(t.jobs) /\ \A i \in 1..Len(t.jobs) : ~(i > Len(s.jobs))
    BY <1>3, <1>4
  <2> QED BY <2>1, <2>2, <2>3, <2>4, <1>2, <1>3, <1>5 DEF SameQueues, k
<1>7. Placed(t) /\ \A r, x : Resumes(t, r, x) <=> Resumes(s, r, x)
  BY <1>1, <1>2, <1>6, QueuesKept DEF Good, Sound
<1>8. Good(t, X)
  BY <1>2, <1>7, GoodKept
<1> QED BY <1>2, <1>8

\* What else then() does: the reaction has its place, and resumes what its
\* handlers say.
LEMMA ThenMoves ==
    ASSUME NEW s, Sound(s), Placed(s), NEW p \in 1..Len(s.promises),
           NEW f \in HandlersOf(SizesOf(s)), NEW r \in HandlersOf(SizesOf(s)),
           f.kind = "await" \/ r.kind = "await" => f = r,
           NEW c \in 0..Len(s.cells),
           NEW t, t = njs_promise_perform_then(s, p, f, r, c)
    PROVE  /\ Placed(t) /\ t.contexts = s.contexts
           /\ \A a, x : Resumes(t, a, x) <=>
                 Resumes(s, a, x) \/ (a = Len(s.reactions) + 1 /\ f = Handler("await", x))
<1> DEFINE e == Reaction(s, f, r, c)
           u == Registered(s, p, f, r, c)
           q == s.promises[p]
           rs == IF q.state = "pending" THEN Append(q.reactions, e) ELSE q.reactions
           y == [s.promises EXCEPT ![p] = [q EXCEPT !.handled = TRUE, !.reactions = rs]]
<1>1. Typed(s) /\ Typed(t)
  BY ThenSound DEF Sound
<1>2. e \in ReactionsOf(SizesOf(t))
  <2>1. u = Registered(s, p, f, r, c)
    OBVIOUS
  <2> HIDE DEF u
  <2>2. Sound(u) /\ e \in ReactionsOf(SizesOf(u))
    BY <2>1, RegisterTyped
  <2>3. /\ Len(u.promises) = Len(s.promises) /\ Len(u.cells) = Len(s.cells)
        /\ Len(u.aggregates) = Len(s.aggregates) /\ Len(u.contexts) = Len(s.contexts)
    BY <2>1, RegisterTyped
  <2>4. /\ Len(t.promises) = Len(s.promises) /\ Len(t.cells) = Len(s.cells)
        /\ Len(t.aggregates) = Len(s.aggregates) /\ Len(t.contexts) = Len(s.contexts)
    BY ThenSound
  <2>5. u.reactions = Append(s.reactions, p) /\ t.reactions = Append(s.reactions, p)
    BY <1>1, Record DEF Registered, njs_promise_perform_then, njs_vm_enqueue_job,
                        ngx_js_rejection_tracker, u
  <2>6. SizesOf(t) = SizesOf(u)
    BY <2>3, <2>4, <2>5 DEF SizesOf
  <2> QED BY <2>2, <2>6
<1>3. e.id = Len(s.reactions) + 1 /\ e.fulfilled = f
  BY DEF Reaction
<1>4. /\ DOMAIN s = {"promises", "cells", "jobs", "aggregates", "contexts", "tracking",
                     "rejected", "reactions", "ran", "finallys"}
      /\ DOMAIN s.promises = 1..Len(s.promises)
      /\ DOMAIN q = {"state", "result", "handled", "reactions"}
      /\ s.promises \in Seq(PromisesOf(SizesOf(s)))
  BY SMTT(20), <1>1, Record, Fields DEF Typed
<1> HIDE DEF e
<1>5. /\ t.promises = y /\ t.reactions = Append(s.reactions, p)
      /\ t.ran = s.ran /\ t.contexts = s.contexts
      /\ q.state = "pending" => t.jobs = s.jobs
      /\ q.state # "pending" =>
            t.jobs = Append(s.jobs, ReactionJob(e, q.state = "rejected", q.result))
  BY <1>4 DEF njs_promise_perform_then, njs_vm_enqueue_job, ngx_js_rejection_tracker, e
<1>6. /\ Len(y) = Len(s.promises)
      /\ \A i \in 1..Len(s.promises) : i # p => y[i] = s.promises[i]
      /\ y[p].state = q.state /\ y[p].reactions = rs
  <2> DEFINE z == [q EXCEPT !.handled = TRUE, !.reactions = rs]
             S == PromisesOf(SizesOf(s)) \cup {z}
  <2>1. z.state = q.state /\ z.reactions = rs
    BY <1>4
  <2>2. s.promises \in Seq(S) /\ z \in S
    BY <1>4, SeqMonotonic, PromisesOf(SizesOf(s)) \subseteq S
  <2> HIDE DEF z, S
  <2>3. y = [s.promises EXCEPT ![p] = z]
    BY DEF z
  <2> HIDE DEF y
  <2> QED BY <2>1, <2>2, <2>3, ExceptSeq
<1> HIDE DEF y
<1>7. CASE q.state = "pending"
  <2>1. ~Settled(s, p)
    BY <1>7 DEF Settled
  <2>2. WaitsFor(s, t, p, e)
    BY <1>3, <1>5, <1>6, <1>7 DEF WaitsFor
  <2> QED BY <2>1, <2>2, <1>1, <1>3, <1>5, Registers
<1>8. CASE q.state # "pending"
  <2>1. Settled(s, p)
    BY <1>8 DEF Settled
  <2>2. \E b, v : t.jobs = Append(s.jobs, ReactionJob(e, b, v))
    BY <1>5, <1>8
  <2>3. \A i \in 1..Len(s.promises) : /\ t.promises[i].state = s.promises[i].state
                                      /\ t.promises[i].reactions = s.promises[i].reactions
    BY <1>5, <1>6, <1>8
  <2>4. RunsNext(s, t, p, e)
    BY <2>2, <2>3, <1>3, <1>5, <1>6 DEF RunsNext
  <2> QED BY <2>1, <2>4, <1>1, <1>2, <1>3, <1>5, Queues
<1> QED BY <1>7, <1>8

\* A reaction that resumes nothing ...
LEMMA ThenGood ==
    ASSUME NEW s, NEW X, Good(s, X), NEW p \in 1..Len(s.promises),
           NEW f \in HandlersOf(SizesOf(s)), NEW r \in HandlersOf(SizesOf(s)),
           f.kind # "await", r.kind # "await",
           NEW c \in 0..Len(s.cells),
           NEW t, t = njs_promise_perform_then(s, p, f, r, c)
    PROVE  /\ Good(t, X) /\ Grows(s, t)
           /\ Len(t.promises) = Len(s.promises) /\ Len(t.cells) = Len(s.cells)
           /\ Len(t.aggregates) = Len(s.aggregates) /\ Len(t.contexts) = Len(s.contexts)
<1>1. /\ Sound(t) /\ Grows(s, t)
      /\ Len(t.promises) = Len(s.promises) /\ Len(t.cells) = Len(s.cells)
      /\ Len(t.aggregates) = Len(s.aggregates) /\ Len(t.contexts) = Len(s.contexts)
  BY ThenSound DEF Good
<1>2. /\ Placed(t) /\ t.contexts = s.contexts
      /\ \A a, x : Resumes(t, a, x) <=>
            Resumes(s, a, x) \/ (a = Len(s.reactions) + 1 /\ f = Handler("await", x))
  BY ThenMoves DEF Good
<1>3. \A x : f # Handler("await", x)
  BY DEF Handler
<1>4. Good(t, X)
  BY <1>1, <1>2, <1>3, GoodKept
<1> QED BY <1>1, <1>4

\* What a reaction resumes is a context, and the reaction exists.
LEMMA ResumesTyped ==
    ASSUME NEW s, Typed(s), NEW r, NEW x, Resumes(s, r, x)
    PROVE  x \in 1..Len(s.contexts) /\ r \in 1..Len(s.reactions) /\ r \in Nat
<1>1. Handler("await", x).kind = "await" /\ Handler("await", x).id = x
  BY DEF Handler
<1>2. \A h \in HandlersOf(SizesOf(s)) : h = Handler("await", x) => x \in 1..Len(s.contexts)
  BY <1>1 DEF HandlersOf, SizesOf
<1>3. ASSUME NEW p \in Nat, NEW i \in Nat, Waits(s, p, i, r),
             s.promises[p].reactions[i].fulfilled = Handler("await", x)
      PROVE  x \in 1..Len(s.contexts) /\ r \in 1..Len(s.reactions) /\ r \in Nat
  <2>1. p \in 1..Len(s.promises) /\ i \in 1..Len(s.promises[p].reactions)
    BY <1>3 DEF Waits
  <2>2. s.promises[p].reactions \in Seq(ReactionsOf(SizesOf(s)))
    BY <2>1, Elements DEF PromisesOf
  <2>3. s.promises[p].reactions[i] \in ReactionsOf(SizesOf(s))
    BY <2>1, <2>2, ElementOfSeq
  <2>4. s.promises[p].reactions[i].fulfilled \in HandlersOf(SizesOf(s))
    BY <2>3 DEF ReactionsOf
  <2> QED BY <2>4, <1>2, <1>3, WaitsTyped
<1>4. ASSUME NEW i \in Nat, Runs(s, i, r), s.jobs[i].handler = Handler("await", x)
      PROVE  x \in 1..Len(s.contexts) /\ r \in 1..Len(s.reactions) /\ r \in Nat
  <2>1. s.jobs[i] \in JobsOf(SizesOf(s))
    BY <1>4, Elements DEF Runs
  <2>2. s.jobs[i].handler \in HandlersOf(SizesOf(s))
    BY <2>1 DEF JobsOf
  <2> QED BY <2>2, <1>2, <1>4, RunsTyped
<1> QED BY <1>3, <1>4 DEF Resumes

\* ... and one that resumes the context that runs.
LEMMA ThenAwaits ==
    ASSUME NEW s, NEW X, Good(s, X), NEW p \in 1..Len(s.promises), NEW x \in X,
           Handler("await", x) \in HandlersOf(SizesOf(s)),
           NEW t, t = njs_promise_perform_then(s, p, Handler("await", x),
                                               Handler("await", x), NoCell)
    PROVE  Good(t, X \ {x}) /\ Grows(s, t)
<1> DEFINE h == Handler("await", x)
           n == Len(s.reactions)
<1>1. NoCell \in 0..Len(s.cells) /\ n \in Nat
  BY SizesTyped DEF NoCell, Good, Sound, Typed
<1>2. /\ Sound(t) /\ Grows(s, t)
  BY <1>1, ThenSound DEF Good
<1>3. /\ Placed(t) /\ t.contexts = s.contexts
      /\ \A a, y : Resumes(t, a, y) <=>
            Resumes(s, a, y) \/ (a = n + 1 /\ h = Handler("await", y))
  BY <1>1, ThenMoves DEF Good
<1>4. \A y : h = Handler("await", y) <=> y = x
  BY DEF Handler
<1>5. ASSUME NEW a, NEW y
      PROVE  Resumes(t, a, y) <=> Resumes(s, a, y) \/ (a = n + 1 /\ y = x)
  BY <1>3, <1>4
<1> HIDE DEF h, n
<1>6. \A y \in 1..Len(s.contexts) :
         (\E a \in Nat : Resumes(s, a, y)) <=> s.contexts[y].live /\ y \notin X
  BY DEF Good, Awaited
<1>7. x \in 1..Len(s.contexts) /\ s.contexts[x].live /\ \A a \in Nat : ~Resumes(s, a, x)
  BY <1>6 DEF Good, Awaited
<1>8. n + 1 \in Nat
  BY <1>1
<1>9. Awaited(t, X \ {x})
  <2>1. \A y \in X \ {x} : y \in 1..Len(t.contexts) /\ t.contexts[y].live
    BY <1>3 DEF Good, Awaited
  <2>2. \A y \in 1..Len(t.contexts) :
           (\E a \in Nat : Resumes(t, a, y)) <=> t.contexts[y].live /\ y \notin X \ {x}
    BY <1>3, <1>5, <1>6, <1>7, <1>8
  <2>3. \A y \in 1..Len(t.contexts), a, b \in Nat :
           Resumes(t, a, y) /\ Resumes(t, b, y) => a = b
    BY <1>3, <1>5, <1>7 DEF Good, Awaited
  <2> QED BY <2>1, <2>2, <2>3 DEF Awaited
<1> QED BY <1>2, <1>3, <1>9 DEF Good

\* Only what neither settles nor moves anything has changed.
LEMMA OtherPartsGood ==
    ASSUME NEW s, NEW X, Good(s, X), NEW t, Typed(t), t.promises = s.promises,
           t.cells = s.cells, t.jobs = s.jobs, t.rejected = s.rejected,
           t.reactions = s.reactions, t.ran = s.ran, t.contexts = s.contexts,
           Len(s.aggregates) <= Len(t.aggregates)
    PROVE  Good(t, X) /\ Grows(s, t)
<1>1. Typed(s) /\ Sound(s) /\ Placed(s)
  BY DEF Good, Sound
<1>2. /\ Len(s.contexts) <= Len(t.contexts) /\ Len(s.reactions) <= Len(t.reactions)
      /\ Len(s.jobs) \in Nat /\ Len(s.promises) \in Nat
  BY <1>1, SizesTyped DEF Typed
<1>3. Sound(t) /\ Grows(s, t)
  BY <1>1, <1>2, OtherParts
<1>4. SameQueues(s, t)
  <2>1. /\ \A i \in 1..Len(t.jobs) : ~(i > Len(s.jobs))
        /\ \A i \in 1..Len(t.promises) : ~(i > Len(s.promises))
        /\ Len(s.jobs) <= Len(t.jobs) /\ Len(s.promises) <= Len(t.promises)
    BY <1>2
  <2> QED BY <2>1 DEF SameQueues
<1>5. Good(t, X)
  BY <1>1, <1>3, <1>4, QueuesKept, GoodKept
<1> QED BY <1>3, <1>5

\* Of the state only the contexts have changed.
LEMMA ContextsMove ==
    ASSUME NEW s, Sound(s), Placed(s), NEW t, Typed(t), t.promises = s.promises,
           t.cells = s.cells, t.jobs = s.jobs, t.rejected = s.rejected,
           t.reactions = s.reactions, t.ran = s.ran, t.aggregates = s.aggregates,
           Len(s.contexts) <= Len(t.contexts)
    PROVE  /\ Sound(t) /\ Grows(s, t) /\ Placed(t)
           /\ \A r, x : Resumes(t, r, x) <=> Resumes(s, r, x)
<1>1. Typed(s)
  BY DEF Sound
<1>2. /\ Len(s.aggregates) <= Len(t.aggregates) /\ Len(s.reactions) <= Len(t.reactions)
      /\ Len(s.jobs) \in Nat /\ Len(s.promises) \in Nat
  BY <1>1, SizesTyped DEF Typed
<1>3. Sound(t) /\ Grows(s, t)
  BY <1>1, <1>2, OtherParts
<1>4. SameQueues(s, t)
  <2>1. /\ \A i \in 1..Len(t.jobs) : ~(i > Len(s.jobs))
        /\ \A i \in 1..Len(t.promises) : ~(i > Len(s.promises))
        /\ Len(s.jobs) <= Len(t.jobs) /\ Len(s.promises) <= Len(t.promises)
    BY <1>2
  <2> QED BY <2>1 DEF SameQueues
<1> QED BY <1>1, <1>3, <1>4, QueuesKept

\* A reaction is taken off the queue: the context it resumes, if any, runs.
LEMMA RunGood ==
    ASSUME NEW s, NEW X, Good(s, X), s.jobs # <<>>,
           NEW j, j = Head(s.jobs), j.kind = "reaction",
           NEW t, t = Ran(s, j.reaction)
    PROVE  /\ SizesOf(t) = SizesOf(s) /\ Grows(s, t)
           /\ j.handler.kind # "await" => Good(t, X)
           /\ j.handler.kind = "await" => Good(t, X \cup {j.handler.id})
<1> DEFINE x == j.handler.id
<1>1. Sound(s) /\ Typed(s) /\ Placed(s)
  BY DEF Good, Sound
<1>2. Sound(t) /\ SizesOf(t) = SizesOf(s) /\ Grows(s, t)
  BY <1>1, RunSound DEF Held
<1>3. /\ t.promises = s.promises /\ t.jobs = Tail(s.jobs) /\ t.contexts = s.contexts
      /\ t.reactions = s.reactions /\ t.ran = Append(s.ran, j.reaction)
  BY <1>1, Record DEF Ran
<1>4. FirstTaken(s, t) /\ Typed(t)
  BY <1>2, <1>3 DEF FirstTaken, Sound
<1>5. /\ Placed(t) /\ \A y : ~Resumes(t, j.reaction, y)
      /\ \A r, y : Resumes(s, r, y) <=>
            Resumes(t, r, y) \/ (r = j.reaction /\ j.handler = Handler("await", y))
  <2>1. t.ran = Append(s.ran, j.reaction)
    BY <1>3
  <2>2. /\ Placed(s) => Placed(t)
        /\ \A r, y : Resumes(s, r, y) <=>
              Resumes(t, r, y) \/ (r = j.reaction /\ j.handler = Handler("await", y))
        /\ Placed(s) => \A y : ~Resumes(t, j.reaction, y)
    BY ONLY <2>1, <1>1, <1>4, j = Head(s.jobs), j.kind = "reaction", RunsFirst
  <2> QED BY <2>2, <1>1
<1>6. \A y : Handler("await", y).kind = "await" /\ Handler("await", y).id = y
  BY DEF Handler
<1>7. CASE j.handler.kind # "await"
  <2>1. \A y : j.handler # Handler("await", y)
    BY <1>6, <1>7
  <2> QED BY <2>1, <1>2, <1>3, <1>5, <1>7, GoodKept
<1>8. CASE j.handler.kind = "await"
  <2>1. j.handler = Handler("await", x)
    <3>1. j.handler \in HandlersOf(SizesOf(s))
      BY <1>1, TailJobs DEF JobsOf
    <3> QED BY <3>1, <1>8 DEF HandlersOf
  <2>2. \A y : j.handler = Handler("await", y) => y = x
    BY <1>6
  <2> HIDE DEF x
  <2>3. Resumes(s, j.reaction, x)
    BY <2>1, <1>5
  <2>4. x \in 1..Len(s.contexts) /\ j.reaction \in Nat
    BY <2>3, <1>1, ResumesTyped
  <2>5. s.contexts[x].live /\ x \notin X
    BY <2>3, <2>4 DEF Good, Awaited
  <2>6. \A r \in Nat : ~Resumes(t, r, x)
    <3>1. \A r \in Nat : Resumes(t, r, x) => r = j.reaction
      BY <2>3, <2>4, <1>5 DEF Good, Awaited
    <3> QED BY <3>1, <1>5
  <2>7. \A r, y : y # x => (Resumes(t, r, y) <=> Resumes(s, r, y))
    BY <2>2, <1>5
  <2>8. Awaited(t, X \cup {x})
    <3>1. \A y \in X \cup {x} : y \in 1..Len(t.contexts) /\ t.contexts[y].live
      BY <2>4, <2>5, <1>3 DEF Good, Awaited
    <3>2. \A y \in 1..Len(t.contexts) :
             (\E r \in Nat : Resumes(t, r, y)) <=> t.contexts[y].live /\ y \notin X \cup {x}
      BY <2>6, <2>7, <1>3 DEF Good, Awaited
    <3>3. \A y \in 1..Len(t.contexts), q, r \in Nat :
             Resumes(t, q, y) /\ Resumes(t, r, y) => q = r
      BY <2>6, <2>7, <1>3 DEF Good, Awaited
    <3> QED BY <3>1, <3>2, <3>3 DEF Awaited
  <2> QED BY <2>8, <1>2, <1>5, <1>8 DEF Good, x
<1> QED BY <1>2, <1>7, <1>8

\* A thenable's job leaves a pair of functions.
LEMMA ThenableGood ==
    ASSUME NEW s, NEW X, Good(s, X), s.jobs # <<>>,
           NEW j, j = Head(s.jobs), j.kind = "thenable",
           NEW e \in BOOLEAN, NEW u, u = Unqueued(s),
           NEW t, t = njs_promise_create_resolving_functions(u, j.promise, e)
    PROVE  /\ Good(t, X) /\ Grows(s, t)
           /\ Len(t.cells) = Len(s.cells) + 1
           /\ Len(t.promises) = Len(s.promises)
<1>1. Sound(s) /\ Typed(s) /\ Placed(s)
  BY DEF Good, Sound
<1>2. /\ Sound(t) /\ Grows(s, t) /\ Len(t.cells) = Len(s.cells) + 1
      /\ Len(t.promises) = Len(s.promises)
  BY <1>1, ThenableSound
<1>3. /\ t.promises = s.promises /\ t.jobs = Tail(s.jobs) /\ t.contexts = s.contexts
      /\ t.reactions = s.reactions /\ t.ran = s.ran
  BY <1>1, Record DEF njs_promise_create_resolving_functions, Unqueued
<1>4. FirstTaken(s, t) /\ Typed(t)
  BY <1>2, <1>3 DEF FirstTaken, Sound
<1>5. Placed(t) /\ \A r, x : Resumes(t, r, x) <=> Resumes(s, r, x)
  BY <1>1, <1>3, <1>4, AsksFirst
<1>6. Good(t, X)
  BY <1>2, <1>3, <1>5, GoodKept
<1> QED BY <1>2, <1>6

\* A context is created and runs.
LEMMA StartGood ==
    ASSUME NEW s, NEW X, Good(s, X), NEW e, e.live,
           NEW t, Typed(t), t.promises = s.promises,
           t.cells = s.cells, t.jobs = s.jobs, t.rejected = s.rejected,
           t.reactions = s.reactions, t.ran = s.ran, t.aggregates = s.aggregates,
           t.contexts = Append(s.contexts, e)
    PROVE  /\ Good(t, X \cup {Len(t.contexts)}) /\ Grows(s, t)
           /\ Len(t.contexts) = Len(s.contexts) + 1
           /\ Len(t.contexts) \in 1..Len(t.contexts)
<1> DEFINE n == Len(s.contexts)
<1>1. Sound(s) /\ Typed(s) /\ Placed(s)
  BY DEF Good, Sound
<1>2. s.contexts \in Seq(ContextsOf(SizesOf(s)) \cup {e}) /\ n \in Nat
  BY <1>1, Fields, SizesTyped, SeqMonotonic,
     ContextsOf(SizesOf(s)) \subseteq ContextsOf(SizesOf(s)) \cup {e} DEF Typed
<1>3. /\ Len(t.contexts) = n + 1 /\ t.contexts[n + 1] = e
      /\ \A x \in 1..n : t.contexts[x] = s.contexts[x]
  BY <1>2, AppendProperties, e \in ContextsOf(SizesOf(s)) \cup {e}
<1> HIDE DEF n
<1>4. /\ n <= Len(t.contexts) /\ n + 1 \in 1..(n + 1) /\ n + 1 \notin 1..n
      /\ \A x \in 1..(n + 1) : x \in 1..n \/ x = n + 1
      /\ \A x \in 1..n : x \in 1..(n + 1)
  BY <1>2, <1>3
<1>5. /\ Sound(t) /\ Grows(s, t) /\ Placed(t)
      /\ \A r, x : Resumes(t, r, x) <=> Resumes(s, r, x)
  BY <1>1, <1>4, ContextsMove DEF n
<1>6. \A r : ~Resumes(s, r, n + 1)
  BY <1>1, <1>4, ResumesTyped DEF n
<1>7. Awaited(t, X \cup {n + 1})
  <2>1. \A x \in X : x \in 1..n /\ s.contexts[x].live
    BY DEF Good, Awaited, n
  <2>2. \A x \in X \cup {n + 1} : x \in 1..Len(t.contexts) /\ t.contexts[x].live
    BY <2>1, <1>3, <1>4
  <2>3. ASSUME NEW x \in 1..Len(t.contexts)
        PROVE  (\E r \in Nat : Resumes(t, r, x))
                 <=> t.contexts[x].live /\ x \notin X \cup {n + 1}
    <3>1. CASE x = n + 1
      BY <3>1, <1>5, <1>6
    <3>2. CASE x \in 1..n
      BY <3>2, <1>3, <1>4, <1>5 DEF Good, Awaited, n
    <3> QED BY <3>1, <3>2, <1>3, <1>4
  <2>4. ASSUME NEW x \in 1..Len(t.contexts), NEW q \in Nat, NEW r \in Nat,
               Resumes(t, q, x), Resumes(t, r, x)
        PROVE  q = r
    <3>1. x \in 1..n /\ Resumes(s, q, x) /\ Resumes(s, r, x)
      BY <2>4, <1>3, <1>4, <1>5, <1>6
    <3> QED BY <3>1 DEF Good, Awaited, n
  <2> QED BY <2>2, <2>3, <2>4 DEF Awaited
<1> QED BY <1>3, <1>4, <1>5, <1>7 DEF Good, n

\* The context that runs is freed.
LEMMA EndGood ==
    ASSUME NEW s, NEW X, Good(s, X), NEW x \in X,
           NEW t, Typed(t), t.promises = s.promises,
           t.cells = s.cells, t.jobs = s.jobs, t.rejected = s.rejected,
           t.reactions = s.reactions, t.ran = s.ran, t.aggregates = s.aggregates,
           Len(t.contexts) = Len(s.contexts), ~t.contexts[x].live,
           \A y \in 1..Len(s.contexts) : y # x => t.contexts[y] = s.contexts[y]
    PROVE  Good(t, X \ {x}) /\ Grows(s, t)
<1>1. Sound(s) /\ Typed(s) /\ Placed(s)
  BY DEF Good, Sound
<1>2. Len(s.contexts) <= Len(t.contexts)
  BY <1>1, SizesTyped DEF Typed
<1>3. /\ Sound(t) /\ Grows(s, t) /\ Placed(t)
      /\ \A r, y : Resumes(t, r, y) <=> Resumes(s, r, y)
  BY <1>1, <1>2, ContextsMove
<1>4. \A r \in Nat : ~Resumes(s, r, x)
  BY DEF Good, Awaited
<1>5. Awaited(t, X \ {x})
  <2>1. \A y \in X \ {x} : y \in 1..Len(t.contexts) /\ t.contexts[y].live
    BY DEF Good, Awaited
  <2>2. \A y \in 1..Len(t.contexts) :
           (\E r \in Nat : Resumes(t, r, y)) <=> t.contexts[y].live /\ y \notin X \ {x}
    BY <1>3, <1>4 DEF Good, Awaited
  <2>3. \A y \in 1..Len(t.contexts), q, r \in Nat :
           Resumes(t, q, y) /\ Resumes(t, r, y) => q = r
    BY <1>3 DEF Good, Awaited
  <2> QED BY <2>1, <2>2, <2>3 DEF Awaited
<1> QED BY <1>3, <1>5 DEF Good

====
