------------------------------- MODULE Promise -------------------------------
(***************************************************************************)
(* Promises of the njs engine, in src/njs_promise.c, with the job queue of *)
(* src/njs_vm.c, async functions of src/njs_async.c, and what              *)
(* nginx/ngx_js.c does around them: it calls into the script, drains the   *)
(* queue, tracks rejections and reports those nobody handled when the VM   *)
(* is destroyed.                                                           *)
(*                                                                         *)
(* A script does whatever it likes between two entries of the engine: it   *)
(* creates promises, calls the resolving functions it was given, registers *)
(* handlers, awaits and aggregates.  Its values are told apart only by     *)
(* what the engine does with them.  Promises of subclasses, and exhausted  *)
(* memory, are not modelled.                                               *)
(***************************************************************************)
EXTENDS Naturals, Sequences, FiniteSets

CONSTANT Programs   \* what the scripts of a VM may do, see ProgramsAssumption

Kinds == {"plain", "promise", "thenable", "trap", "error", "array", "errors"}
Value(k, n) == [kind |-> k, id |-> n]
Undefined == Value("plain", 0)
TypeErrorValue == Value("error", 0)

\* What scripts do, and the events that call into them.
OpNames == {"new", "static", "settle", "then", "finally", "async", "await",
            "aggregate", "event"}

\* A program: how many times each operation happens at most, the values other
\* than promises that the script uses, the handlers it passes to then(), and
\* the lengths of the lists it aggregates.
ScriptValues == [kind : {"plain", "thenable", "trap"}, id : Nat]

ProgramType == [left : [OpNames -> Nat], values : SUBSET ScriptValues,
                handlers : SUBSET {"fn", "none"}, lists : SUBSET Nat]

ASSUME ProgramsAssumption == Programs \subseteq ProgramType

VARIABLES
    vm,         \* promises, resolving functions, jobs: see Init
    frame,      \* the script that is running, and what awaits its end
    drain,      \* ngx_njs_execute_pending_jobs() has been reached
    phase,      \* the life of the VM
    reported,   \* "unhandled rejection" has been logged
    program     \* what the scripts may still do

vars == <<vm, frame, drain, phase, reported, program>>

NoCell == 0     \* no capability

\* A handler: a function of the script, one of the engine's own, or none.
Handler(k, n) == [kind |-> k, id |-> n, index |-> 0, value |-> Undefined]
ElementHandler(a, i) == [Handler("element", a) EXCEPT !.index = i]
ThunkHandler(k, v) == [Handler(k, 0) EXCEPT !.value = v]

Idle == [kind |-> "idle", id |-> 0, value |-> Undefined]
Frame(k, n) == [Idle EXCEPT !.kind = k, !.id = n]

Settled(s, p) == s.promises[p].state # "pending"
PromiseOf(s, c) == s.cells[c].promise

-----------------------------------------------------------------------------
(* Promises and their resolving functions. *)

njs_promise_alloc(s) ==
    [s EXCEPT !.promises = Append(@, [state |-> "pending", result |-> Undefined,
                                      handled |-> FALSE, reactions |-> <<>>])]

\* A pair of resolving functions for p, with the flag they share.  exposed:
\* the script gets hold of them.
njs_promise_create_resolving_functions(s, p, exposed) ==
    [s EXCEPT !.cells = Append(@, [promise |-> p, resolved |-> FALSE,
                                   exposed |-> exposed])]

\* A new promise and its resolving functions, the last ones of s afterwards.
njs_promise_new_capability(s, exposed) ==
    njs_promise_create_resolving_functions(
        njs_promise_alloc(s), Len(s.promises) + 1, exposed)

ReactionJob(r, rejected, v) ==
    [kind |-> "reaction", rejected |-> rejected, promise |-> 0, value |-> v,
     handler |-> IF rejected THEN r.rejected ELSE r.fulfilled,
     cell |-> r.cell, reaction |-> r.id]

ThenableJob(p, v) ==
    [kind |-> "thenable", rejected |-> FALSE, promise |-> p, value |-> v,
     handler |-> Handler("none", 0), cell |-> NoCell, reaction |-> 0]

njs_vm_enqueue_job(s, j) == [s EXCEPT !.jobs = Append(@, j)]

njs_promise_trigger_reactions(s, rs, rejected, v) ==
    [s EXCEPT !.jobs = @ \o [i \in DOMAIN rs |-> ReactionJob(rs[i], rejected, v)]]

\* The state of a promise that is settled.
SettledAs(q, state, v) ==
    [q EXCEPT !.state = state, !.result = v, !.reactions = <<>>]

njs_promise_fulfill(s, p, v) ==
    LET q == s.promises[p]
    IN  njs_promise_trigger_reactions(
            [s EXCEPT !.promises[p] = SettledAs(q, "fulfilled", v)],
            q.reactions, FALSE, v)

\* Mutant: any handler clears the list.
TrackForgets(s, p, is_handled) ==
    IF is_handled /\ s.tracking
    THEN [s EXCEPT !.rejected = {}]
    ELSE [s EXCEPT !.tracking = TRUE, !.rejected = @ \cup {p}]

\* The list of rejections that nobody handles is created with its first
\* member (tracking).  A promise that is handled is removed from the list if
\* there is one, and added otherwise.
ngx_js_rejection_tracker(s, p, is_handled) ==
    IF is_handled /\ s.tracking
    THEN [s EXCEPT !.rejected = @ \ {p}]
    ELSE [s EXCEPT !.tracking = TRUE, !.rejected = @ \cup {p}]

njs_promise_reject(s, p, v) ==
    LET q == s.promises[p]
        t == [s EXCEPT !.promises[p] = SettledAs(q, "rejected", v)]
    IN  njs_promise_trigger_reactions(
            IF q.handled THEN t ELSE ngx_js_rejection_tracker(t, p, FALSE),
            q.reactions, TRUE, v)

\* One of the functions of c is called for the first time.
Used(s, c) == [s EXCEPT !.cells[c].resolved = TRUE]

\* Mutant: a thenable leaves the resolving functions usable.
ResolveUnlocked(s, c, v) ==
    LET p == PromiseOf(s, c)
        t == Used(s, c)
    IN  IF s.cells[c].resolved THEN s
        ELSE IF v = Value("promise", p) \/ v.kind = "trap"
             THEN njs_promise_reject(t, p, TypeErrorValue)
        ELSE IF v.kind \in {"promise", "thenable"}
             THEN njs_vm_enqueue_job(s, ThenableJob(p, v))
        ELSE njs_promise_fulfill(t, p, v)

\* A thenable is asked for its value in a job of its own; a "trap" is an
\* object that throws when it is asked for "then".
njs_promise_resolve_function(s, c, v) ==
    LET p == PromiseOf(s, c)
        t == Used(s, c)
    IN  IF s.cells[c].resolved THEN s
        ELSE IF v = Value("promise", p) \/ v.kind = "trap"
             THEN njs_promise_reject(t, p, TypeErrorValue)
        ELSE IF v.kind \in {"promise", "thenable"}
             THEN njs_vm_enqueue_job(t, ThenableJob(p, v))
        ELSE njs_promise_fulfill(t, p, v)

\* Mutant: the two functions do not share their flag.
RejectAnyway(s, c, v) == njs_promise_reject(s, PromiseOf(s, c), v)

njs_promise_reject_function(s, c, v) ==
    IF s.cells[c].resolved THEN s
    ELSE njs_promise_reject(Used(s, c), PromiseOf(s, c), v)

\* The end of a reaction: its capability, if any, gets the value.
Settle(s, c, rejected, v) ==
    IF c = NoCell THEN s
    ELSE IF rejected THEN njs_promise_reject_function(s, c, v)
    ELSE njs_promise_resolve_function(s, c, v)

-----------------------------------------------------------------------------
(* then(). *)

Reaction(s, f, r, c) ==
    [fulfilled |-> f, rejected |-> r, cell |-> c, id |-> Len(s.reactions) + 1]

\* Mutant: a promise that is settled keeps the reaction.
ThenAfterSettled(s, p, f, r, c) ==
    [s EXCEPT !.reactions = Append(@, p),
              !.promises[p].handled = TRUE,
              !.promises[p].reactions = Append(@, Reaction(s, f, r, c))]

\* Both queues of a promise get their reaction together: one sequence of
\* pairs.  s.reactions is a history: the promise of each reaction.
njs_promise_perform_then(s, p, f, r, c) ==
    LET q == s.promises[p]
        e == Reaction(s, f, r, c)
        waiting == IF q.state = "pending" THEN Append(q.reactions, e) ELSE q.reactions
        t == [s EXCEPT !.reactions = Append(@, p),
                       !.promises[p] = [q EXCEPT !.handled = TRUE,
                                                 !.reactions = waiting]]
        rejected == q.state = "rejected"
    IN  IF q.state = "pending" THEN t
        ELSE njs_vm_enqueue_job(
                 IF rejected THEN ngx_js_rejection_tracker(t, p, TRUE) ELSE t,
                 ReactionJob(e, rejected, q.result))

\* The derived promise is the last one afterwards.
njs_promise_prototype_then(s, p, f, r) ==
    LET t == njs_promise_new_capability(s, FALSE)
    IN  njs_promise_perform_then(t, p, f, r, Len(t.cells))

\* Promise.resolve(v): the promise for v, and the state it is in.
njs_promise_resolve(s, v) ==
    IF v.kind = "promise"
    THEN [vm |-> s, promise |-> v.id]
    ELSE LET t == njs_promise_new_capability(s, FALSE)
         IN  [vm |-> njs_promise_resolve_function(t, Len(t.cells), v),
              promise |-> Len(t.promises)]

-----------------------------------------------------------------------------
(* await. *)

\* The continuation of an async function waits for v.
njs_vmcode_await(s, x, v) ==
    LET r == njs_promise_resolve(s, v)
    IN  njs_promise_perform_then(r.vm, r.promise, Handler("await", x),
                                 Handler("await", x), NoCell)

\* The call of an async function that goes as far as its first await.
njs_async_function_frame_invoke(s, v) ==
    LET t == njs_promise_new_capability(s, FALSE)
        u == [t EXCEPT !.contexts = Append(@, [cell |-> Len(t.cells), live |-> TRUE])]
    IN  njs_vmcode_await(u, Len(u.contexts), v)

\* Its end: the capability gets the value, and the context is freed.
AsyncEnds(s, x, rejected, v) ==
    [Settle(s, s.contexts[x].cell, rejected, v) EXCEPT !.contexts[x].live = FALSE]

-----------------------------------------------------------------------------
(* Promise.all(), allSettled(), any() and race(). *)

\* Mutant: the count does not begin with one for the list itself.
RemainingElementsOnly == 0

\* remaining begins with one for the list itself.
InitialRemaining == 1

\* An element function is called for the first time.
ElementCalled(s, a, i, rejected, v) ==
    LET g == s.aggregates[a]
        values == [g.values EXCEPT ![i] = [rejected |-> rejected, value |-> v]]
    IN  [s EXCEPT !.aggregates[a] =
            [g EXCEPT !.called = g.called \cup {i}, !.values = values,
                      !.remaining = g.remaining - 1]]

\* The last element function hands over the array.
WithArray(s, a) ==
    IF s.aggregates[a].remaining = 0
    THEN njs_promise_resolve_function(s, s.aggregates[a].cell, Value("array", a))
    ELSE s

njs_promise_all_resolve_element_functions(s, a, i, v) ==
    WithArray(ElementCalled(s, a, i, FALSE, v), a)

njs_promise_all_settled_element_functions(s, a, i, rejected, v) ==
    WithArray(ElementCalled(s, a, i, rejected, v), a)

njs_promise_any_reject_element_functions(s, a, i, v) ==
    LET t == ElementCalled(s, a, i, TRUE, v)
    IN  IF t.aggregates[a].remaining = 0
        THEN njs_promise_reject_function(t, t.aggregates[a].cell, Value("errors", a))
        ELSE t

ElementFunction(s, a, i, rejected, v) ==
    LET g == s.aggregates[a]
    IN  IF i \in g.called THEN s
        ELSE IF g.kind = "all"
             THEN njs_promise_all_resolve_element_functions(s, a, i, v)
        ELSE IF g.kind = "allSettled"
             THEN njs_promise_all_settled_element_functions(s, a, i, rejected, v)
        ELSE njs_promise_any_reject_element_functions(s, a, i, v)

\* The two handlers an element is given, for each kind of aggregate.
njs_promise_perform_all_handler(c, a, i) ==
    <<ElementHandler(a, i), Handler("reject", c)>>
njs_promise_perform_all_settled_handler(c, a, i) ==
    <<ElementHandler(a, i), ElementHandler(a, i)>>
njs_promise_perform_any_handler(c, a, i) ==
    <<Handler("resolve", c), ElementHandler(a, i)>>
njs_promise_perform_race_handler(c, a, i) ==
    <<Handler("resolve", c), Handler("reject", c)>>

ElementHandlers(g, a, i) ==
    IF g.kind = "all" THEN njs_promise_perform_all_handler(g.cell, a, i)
    ELSE IF g.kind = "allSettled"
         THEN njs_promise_perform_all_settled_handler(g.cell, a, i)
    ELSE IF g.kind = "any" THEN njs_promise_perform_any_handler(g.cell, a, i)
    ELSE njs_promise_perform_race_handler(g.cell, a, i)

\* One element: Promise.resolve(v).then(...).  The promise that then()
\* returns is given to nobody, and never rejected: it is left out.
PerformElement(s, a, i, v) ==
    LET r == njs_promise_resolve(s, v)
        h == ElementHandlers(s.aggregates[a], a, i)
        g == r.vm.aggregates[a]
        t == [r.vm EXCEPT !.aggregates[a] =
                 [g EXCEPT !.inputs = Append(g.inputs, r.promise),
                           !.values = Append(g.values, [rejected |-> FALSE,
                                                        value |-> Undefined]),
                           !.remaining = g.remaining + 1]]
    IN  njs_promise_perform_then(t, r.promise, h[1], h[2], NoCell)

\* An aggregate without elements, for the promise of c.
EmptyAggregate(kind, c) ==
    [kind |-> kind, cell |-> c, inputs |-> <<>>, called |-> {}, values |-> <<>>,
     remaining |-> InitialRemaining]

\* Every element, one after the other.
njs_object_iterate(s, a, list) ==
    LET each[n \in 0..Len(list)] ==
            IF n = 0 THEN s ELSE PerformElement(each[n - 1], a, n, list[n])
    IN  each[Len(list)]

\* An empty list ends at once; any() then resolves with its error.
njs_promise_perform_all(s, a, list) ==
    LET t == njs_object_iterate(s, a, list)
        u == [t EXCEPT !.aggregates[a].remaining = @ - 1]
        g == u.aggregates[a]
    IN  IF g.remaining = 0
        THEN njs_promise_resolve_function(u, g.cell,
                 Value(IF g.kind = "any" THEN "errors" ELSE "array", a))
        ELSE u

\* Promise.all(), allSettled() and any(), or race(), of a list of values.
njs_promise_all(s, kind, list) ==
    LET t == njs_promise_new_capability(s, FALSE)
        a == Len(s.aggregates) + 1
        u == [t EXCEPT !.aggregates = Append(@, EmptyAggregate(kind, Len(t.cells)))]
    IN  IF kind = "race"
        THEN njs_object_iterate(u, a, list)
        ELSE njs_promise_perform_all(u, a, list)

-----------------------------------------------------------------------------
(* Scripts. *)

Args(s) == program.values \cup {Value("promise", p) : p \in DOMAIN s.promises}

\* One more operation.
Use(op) ==
    /\ program.left[op] > 0
    /\ program' = [program EXCEPT !.left[op] = @ - 1]

\* An operation of the script that runs.
Script(op, s) ==
    /\ frame # Idle
    /\ Use(op)
    /\ vm' = s
    /\ UNCHANGED <<frame, drain, phase, reported>>

\* new Promise(executor): what the executor does is up to the script.
njs_promise_constructor == Script("new", njs_promise_new_capability(vm, TRUE))

\* Promise.resolve(v) and Promise.reject(v).
njs_promise_object_resolve ==
    \E v \in Args(vm) : Script("static", njs_promise_resolve(vm, v).vm)

njs_promise_object_reject ==
    \E v \in program.values :
       LET t == njs_promise_new_capability(vm, FALSE)
       IN  Script("static", njs_promise_reject_function(t, Len(t.cells), v))

\* The script calls a resolving function that it was given.
CallResolvingFunction ==
    \E c \in DOMAIN vm.cells, v \in Args(vm) :
       /\ vm.cells[c].exposed
       /\ \/ Script("settle", njs_promise_resolve_function(vm, c, v))
          \/ Script("settle", njs_promise_reject_function(vm, c, v))

\* p.then(f, r), and p.catch(r) with f = "none".
then ==
    \E p \in DOMAIN vm.promises, f, r \in program.handlers :
       Script("then", njs_promise_prototype_then(vm, p, Handler(f, 0), Handler(r, 0)))

\* s.finallys is a history: what each finally() is for, the promise of what
\* its callback returned (via) and the one that waits for it (inner).
njs_promise_prototype_finally ==
    \E p \in DOMAIN vm.promises :
       LET s == njs_promise_prototype_then(vm, p, Handler("thenFinally", 0),
                                           Handler("catchFinally", 0))
       IN  Script("finally",
                  [s EXCEPT !.finallys = Append(@, [from |-> p, cell |-> Len(s.cells),
                                                    via |-> 0, inner |-> 0])])

CallAsyncFunction ==
    \E v \in Args(vm) : Script("async", njs_async_function_frame_invoke(vm, v))

Aggregate ==
    \E kind \in {"all", "allSettled", "any", "race"}, n \in program.lists :
       \E list \in [1..n -> Args(vm)] :
          Script("aggregate", njs_promise_all(vm, kind, list))

\* await, in the continuation of an async function.
Await ==
    /\ frame.kind = "async"
    /\ Use("await")
    /\ \E v \in Args(vm) : vm' = njs_vmcode_await(vm, frame.id, v)
    /\ frame' = Idle
    /\ UNCHANGED <<drain, phase, reported>>

\* What is left of finally() when its callback is through.
Thunk(kind) == IF kind = "thenFinally" THEN "return" ELSE "throw"

\* The callback of finally() has returned v: its promise is waited for before
\* the original value, or reason, goes on to the derived promise.
njs_promise_then_finally_function(s, v) ==
    LET r == njs_promise_resolve(s, v)
        t == njs_promise_prototype_then(r.vm, r.promise,
                 ThunkHandler(Thunk(frame.kind), frame.value), Handler("none", 0))
        f == [i \in DOMAIN t.finallys |->
                 IF t.finallys[i].cell = frame.id
                 THEN [t.finallys[i] EXCEPT !.via = r.promise, !.inner = Len(t.promises)]
                 ELSE t.finallys[i]]
        u == [t EXCEPT !.finallys = f]
    IN  Settle(u, frame.id, FALSE, Value("promise", Len(t.promises)))

\* The script that runs comes to its end.
Return ==
    /\ frame # Idle
    /\ \E v \in Args(vm) :
          \/ frame.kind = "handler" /\ vm' = Settle(vm, frame.id, FALSE, v)
          \/ frame.kind = "async" /\ vm' = AsyncEnds(vm, frame.id, FALSE, v)
          \/ /\ frame.kind \in {"thenFinally", "catchFinally"}
             /\ vm' = njs_promise_then_finally_function(vm, v)
          \/ frame.kind \in {"script", "then"} /\ vm' = vm
    /\ frame' = Idle
    /\ drain' = TRUE
    /\ UNCHANGED <<phase, reported, program>>

\* Mutant: an exception of the exit hook leaves the jobs where they are.
DrainedUnlessThrown == frame.kind # "script"

\* ngx_js_call() leaves the jobs in the queue when the function it calls
\* throws; the end of the VM does not.
DrainedAfterThrow == frame.kind # "script" \/ phase = "exiting"

\* It throws.
Throw ==
    /\ frame # Idle
    /\ \E v \in program.values :
          \/ /\ frame.kind \in {"handler", "then", "thenFinally", "catchFinally"}
             /\ vm' = Settle(vm, frame.id, TRUE, v)
          \/ frame.kind = "async" /\ vm' = AsyncEnds(vm, frame.id, TRUE, v)
          \/ frame.kind = "script" /\ vm' = vm
    /\ frame' = Idle
    /\ drain' = DrainedAfterThrow
    /\ UNCHANGED <<phase, reported, program>>

-----------------------------------------------------------------------------
(* Jobs. *)

\* Mutant: a thenable that is rejected is not waited for.
AdoptFulfilled(s, q, c) ==
    njs_promise_perform_then(s, q, Handler("resolve", c), Handler("none", 0), NoCell)

\* q.then(resolve, reject), with new resolving functions c.  As in
\* PerformElement the derived promise is left out.
Adopt(s, q, c) ==
    njs_promise_perform_then(s, q, Handler("resolve", c), Handler("reject", c), NoCell)

\* The first job is taken off the queue.
Dequeued == [vm EXCEPT !.jobs = Tail(@)]

\* A promise is asked for its value, or the script's own "then" is called.
njs_promise_resolve_thenable_job ==
    LET j == Head(vm.jobs)
        native == j.value.kind = "promise"
        s == njs_promise_create_resolving_functions(Dequeued, j.promise, ~native)
        c == Len(s.cells)
    IN  /\ j.kind = "thenable"
        /\ vm' = IF native THEN Adopt(s, j.value.id, c) ELSE s
        /\ frame' = IF native THEN Idle ELSE Frame("then", c)

\* A function of the script is called ...
CallHandler(j) ==
    /\ j.handler.kind \in {"fn", "await", "thenFinally", "catchFinally"}
    /\ vm' = [Dequeued EXCEPT !.ran = Append(@, j.reaction)]
    /\ \/ j.handler.kind = "fn" /\ frame' = Frame("handler", j.cell)
       \/ j.handler.kind = "await" /\ frame' = Frame("async", j.handler.id)
       \/ /\ j.handler.kind \in {"thenFinally", "catchFinally"}
          /\ frame' = [Frame(j.handler.kind, j.cell) EXCEPT !.value = j.value]

\* ... or one of the engine, or none.
CallNative(j) ==
    LET s == [Dequeued EXCEPT !.ran = Append(@, j.reaction)]
        h == j.handler
    IN  /\ \/ h.kind = "none" /\ vm' = Settle(s, j.cell, j.rejected, j.value)
           \/ h.kind = "resolve" /\ vm' = njs_promise_resolve_function(s, h.id, j.value)
           \/ h.kind = "reject" /\ vm' = njs_promise_reject_function(s, h.id, j.value)
           \/ /\ h.kind = "element"
              /\ vm' = ElementFunction(s, h.id, h.index, j.rejected, j.value)
           \/ h.kind = "return" /\ vm' = Settle(s, j.cell, FALSE, h.value)
           \/ h.kind = "throw" /\ vm' = Settle(s, j.cell, TRUE, h.value)
        /\ frame' = Idle

njs_promise_reaction_job ==
    LET j == Head(vm.jobs)
    IN  j.kind = "reaction" /\ (CallHandler(j) \/ CallNative(j))

\* An async function resumes with an exception if what it waits for was
\* rejected: like any other of its steps it then goes on or ends.
njs_vm_execute_pending_job ==
    /\ frame = Idle
    /\ drain
    /\ vm.jobs # <<>>
    /\ phase # "destroyed"
    /\ njs_promise_resolve_thenable_job \/ njs_promise_reaction_job
    /\ UNCHANGED <<drain, phase, reported, program>>

-----------------------------------------------------------------------------
(* The host. *)

Drained == frame = Idle /\ (vm.jobs = <<>> \/ ~drain)

\* An event calls into the script: ngx_js_call() or ngx_engine_njs_call().
ngx_js_call ==
    /\ phase = "running"
    /\ Drained
    /\ Use("event")
    /\ frame' = Frame("script", 0)
    /\ UNCHANGED <<vm, drain, phase, reported>>

\* The end of the VM: the exit hook, which may be any script ...
ngx_engine_njs_destroy ==
    /\ phase = "running"
    /\ Drained
    /\ phase' = "exiting"
    /\ frame' = Frame("script", 0)
    /\ UNCHANGED <<vm, drain, reported, program>>

\* ... the jobs that are left, and the report.
ngx_js_unhandled_rejection ==
    /\ phase = "exiting"
    /\ Drained
    /\ phase' = "destroyed"
    /\ reported' = (vm.rejected # {})
    /\ UNCHANGED <<vm, frame, drain, program>>

Init ==
    /\ vm = [promises |-> <<>>, cells |-> <<>>, jobs |-> <<>>,
             aggregates |-> <<>>, contexts |-> <<>>,
             tracking |-> FALSE, rejected |-> {},
             reactions |-> <<>>, ran |-> <<>>, finallys |-> <<>>]
    /\ frame = Idle
    /\ drain = TRUE
    /\ phase = "running"
    /\ reported = FALSE
    /\ program \in Programs

Scripts ==
    \/ njs_promise_constructor \/ njs_promise_object_resolve
    \/ njs_promise_object_reject \/ CallResolvingFunction \/ then
    \/ njs_promise_prototype_finally \/ CallAsyncFunction \/ Aggregate

\* The steps that scripts, the engine and the host always come to.
Engine ==
    \/ Return \/ Throw \/ njs_vm_execute_pending_job
    \/ ngx_engine_njs_destroy \/ ngx_js_unhandled_rejection

Next == Scripts \/ Await \/ ngx_js_call \/ Engine

Spec == Init /\ [][Next]_vars

\* Scripts end, the host goes on, and every VM is destroyed some day.
FairSpec == Spec /\ WF_vars(Engine)

-----------------------------------------------------------------------------

Values_ == [kind : Kinds, id : Nat]
HandlerKinds == {"none", "fn", "resolve", "reject", "element", "await",
                 "thenFinally", "catchFinally", "return", "throw"}
Handler_ == [kind : HandlerKinds, id : Nat, index : Nat, value : Values_]
Cells_ == 0..Len(vm.cells)

\* The state has its type, and what it refers to exists.
TypeOK ==
    /\ \A p \in DOMAIN vm.promises :
          LET q == vm.promises[p]
          IN  /\ q.state \in {"pending", "fulfilled", "rejected"}
              /\ q.result \in Values_
              /\ q.handled \in BOOLEAN
              /\ \A i \in DOMAIN q.reactions :
                    LET r == q.reactions[i]
                    IN  /\ {r.fulfilled, r.rejected} \subseteq Handler_
                        /\ r.cell \in Cells_
                        /\ r.id \in DOMAIN vm.reactions
    /\ vm.cells \in Seq([promise : DOMAIN vm.promises, resolved : BOOLEAN,
                         exposed : BOOLEAN])
    /\ \A i \in DOMAIN vm.jobs :
          LET j == vm.jobs[i]
          IN  /\ j.handler \in Handler_
              /\ j.cell \in Cells_
              /\ j.value \in Values_
              /\ \/ j.kind = "reaction" /\ j.reaction \in DOMAIN vm.reactions
                 \/ j.kind = "thenable" /\ j.promise \in DOMAIN vm.promises
    /\ vm.contexts \in Seq([cell : Cells_, live : BOOLEAN])
    /\ vm.rejected \subseteq DOMAIN vm.promises
    /\ vm.tracking \in BOOLEAN
    /\ phase \in {"running", "exiting", "destroyed"}
    /\ {drain, reported} \subseteq BOOLEAN

Count(S) == Cardinality(S)

\* Whatever resolving functions a promise has had, there is one way left to
\* settle it while it is pending and none afterwards: a pair of functions
\* that has not been used, or the job that asks a thenable for its value.
OneWayToSettle ==
    \A p \in DOMAIN vm.promises :
       LET unused == {c \in DOMAIN vm.cells :
                         PromiseOf(vm, c) = p /\ ~vm.cells[c].resolved}
           asked == {i \in DOMAIN vm.jobs :
                        vm.jobs[i].kind = "thenable" /\ vm.jobs[i].promise = p}
       IN  Count(unused) + Count(asked) = IF Settled(vm, p) THEN 0 ELSE 1

\* A promise that is settled keeps its state and its result.
SettledForGood ==
    [][\A p \in DOMAIN vm.promises :
          Settled(vm, p) =>
             /\ vm'.promises[p].state = vm.promises[p].state
             /\ vm'.promises[p].result = vm.promises[p].result]_vars

\* A reaction runs at most once, and the reactions of a promise run in the
\* order they were registered in, before and after it is settled.
ReactionsInOrder ==
    \A i, j \in DOMAIN vm.ran :
       i < j /\ vm.reactions[vm.ran[i]] = vm.reactions[vm.ran[j]]
          => vm.ran[i] < vm.ran[j]

Quiet == frame = Idle /\ vm.jobs = <<>>

\* Once the queue is drained no reaction of a settled promise is left.
NoReactionForgotten ==
    Quiet => \A r \in DOMAIN vm.reactions :
                Settled(vm, vm.reactions[r]) => \E i \in DOMAIN vm.ran : vm.ran[i] = r

\* What handler h may settle: the resolving functions c among others.
Reaches(h, c) ==
    \/ h.kind \in {"resolve", "reject"} /\ h.id = c
    \/ h.kind = "await" /\ vm.contexts[h.id].cell = c
    \/ h.kind = "element" /\ vm.aggregates[h.id].cell = c

\* Once the queue is drained, a promise that is pending waits for the script
\* or for another pending promise; race() of an empty list waits for ever.
NothingStuck ==
    Quiet =>
       \A c \in DOMAIN vm.cells :
          \/ vm.cells[c].resolved
          \/ vm.cells[c].exposed
          \/ \E p \in DOMAIN vm.promises :
                \E i \in DOMAIN vm.promises[p].reactions :
                   LET r == vm.promises[p].reactions[i]
                   IN  r.cell = c \/ Reaches(r.fulfilled, c) \/ Reaches(r.rejected, c)
          \/ \E a \in DOMAIN vm.aggregates :
                /\ vm.aggregates[a].cell = c
                /\ vm.aggregates[a].kind = "race"
                /\ vm.aggregates[a].inputs = <<>>

\* The context of an async function is resumed, once, as long as it is live
\* and never after it has been freed.
AwaitsOnce ==
    \A x \in DOMAIN vm.contexts :
       LET resumes(r) == r.fulfilled = Handler("await", x)
           waits == UNION {{p} \X {i \in DOMAIN vm.promises[p].reactions :
                                     resumes(vm.promises[p].reactions[i])} :
                             p \in DOMAIN vm.promises}
           queued == {i \in DOMAIN vm.jobs : vm.jobs[i].handler = Handler("await", x)}
           runs == IF frame = Frame("async", x) THEN 1 ELSE 0
       IN  Count(waits) + Count(queued) + runs = IF vm.contexts[x].live THEN 1 ELSE 0

\* No reaction is lost, repeated or overtaken, those of await included, and
\* what a reaction or a job refers to exists.
ReactionsKept == TypeOK /\ ReactionsInOrder /\ NoReactionForgotten /\ AwaitsOnce

\* The promise of a list of promises is settled as its members are: by all of
\* them, with their results in the order of the list, or by one of them.
AggregatesMatch ==
    \A a \in DOMAIN vm.aggregates :
       LET g == vm.aggregates[a]
           q == vm.promises[PromiseOf(vm, g.cell)]
           In(i) == vm.promises[g.inputs[i]]
           as(i) == /\ In(i).state = IF g.values[i].rejected THEN "rejected" ELSE "fulfilled"
                    /\ In(i).result = g.values[i].value
           one == \E i \in DOMAIN g.inputs :
                     q.state = In(i).state /\ q.result = In(i).result
           every(S) == \A i \in DOMAIN g.inputs : as(i) /\ In(i).state \in S
       IN  /\ q.state = "fulfilled" =>
                 CASE g.kind = "all" -> every({"fulfilled"})
                   [] g.kind = "allSettled" -> every({"fulfilled", "rejected"})
                   [] g.kind = "any" -> one \/ g.inputs = <<>>
                   [] g.kind = "race" -> one
           /\ q.state = "rejected" =>
                 CASE g.kind = "all" -> one
                   [] g.kind = "allSettled" -> FALSE
                   [] g.kind = "any" -> every({"rejected"})
                   [] g.kind = "race" -> one

\* finally() passes the outcome of its promise on, unless its callback throws
\* or returns a promise that is rejected: then that is the outcome.
FinallyTransparent ==
    \A i \in DOMAIN vm.finallys :
       LET f == vm.finallys[i]
           p == vm.promises[f.from]
           q == vm.promises[PromiseOf(vm, f.cell)]
       IN  \/ q.state = "pending"
           \/ q.state = p.state /\ q.result = p.result
           \/ q.state = "rejected" /\ f.via = 0
           \/ /\ q.state = "rejected" /\ f.via # 0
              /\ vm.promises[f.via].state = "rejected"
              /\ vm.promises[f.via].result = q.result

\* What promises are combined to has the outcome of its parts: all(),
\* allSettled(), any(), race() and finally().
OutcomesMatch == AggregatesMatch /\ FinallyTransparent

\* A rejection that nobody handles stays in the list and is reported when the
\* VM is destroyed.
UnhandledReported ==
    \A p \in DOMAIN vm.promises :
       vm.promises[p].state = "rejected" /\ ~vm.promises[p].handled =>
          p \in vm.rejected /\ (phase = "destroyed" => reported)

\* Every reaction of a settled promise runs before the VM is gone, even if
\* the script throws over and over.
ReactionsRun ==
    []<>(\A r \in DOMAIN vm.reactions :
            Settled(vm, vm.reactions[r]) => \E i \in DOMAIN vm.ran : vm.ran[i] = r)

====
