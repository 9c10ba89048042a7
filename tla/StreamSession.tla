--------------------------- MODULE StreamSession ----------------------------
(***************************************************************************)
(* A stream session with njs handlers (nginx/ngx_stream_js_module.c): the  *)
(* js_access and js_preread functions decide whether the session goes on,  *)
(* the js_filter function sees the data of both directions and may forward *)
(* other data, at once or later.  Scripts set callbacks with s.on(),       *)
(* decide with s.done() and its aliases, and send with s.send(),           *)
(* s.sendUpstream() and s.sendDownstream(), each written once for njs and  *)
(* once for QuickJS.                                                       *)
(*                                                                         *)
(* A method or a handler is a function of the state s = [ctx, n, stack]:   *)
(*   ctx    ngx_stream_js_ctx_t                                            *)
(*   n      the session and the connections: what nginx keeps              *)
(*   stack  the calls in progress, the innermost last                      *)
(* Data is a sequence of units: the number of the chunk a unit came with,  *)
(* Made when a script made it, and the marks FlushMark and LastMark.       *)
(***************************************************************************)
EXTENDS Integers, Sequences, FiniteSets

SX == INSTANCE SequencesExt

CONSTANTS Confs,         \* the configurations of a server
          Calls,         \* the calls of methods a script makes
          MaxOps,        \* calls of methods in one behaviour
          MaxChunks      \* chunks that come from one side

VARIABLES engine,        \* "njs" or "qjs": js_engine
          ctx, n, stack,
          ops            \* calls made by scripts so far

Toggles == {"absent", "true", "false"}

(* The answers of a phase: nginx's codes, and a status of HTTP. *)
Statuses == {"OK", "ERROR", "AGAIN", "BUSY", "DONE", "DECLINED", "ABORT", "403"}

(* Codes done() throws for: out of NGX_ABORT..503, or no number. *)
WrongCodes == {"NaN", "504", "-7"}

Deciders == {"allow", "decline", "deny", "done"}
Senders == {"send", "sendUpstream", "sendDownstream"}

ASSUME ConfsAssumption ==
    Confs \subseteq [access : BOOLEAN, preread : BOOLEAN, filter : BOOLEAN,
                     set : BOOLEAN, slow : BOOLEAN, vm : BOOLEAN]

ASSUME CallsAssumption ==
    \A op \in Calls :
        /\ op.name \in {"on", "off", "setReturnValue"} \cup Deciders \cup Senders
        /\ op.name \in Deciders =>
              op.a \in {"undefined"} \cup WrongCodes \cup Statuses
        /\ op.name \in Senders =>
              /\ op.a \in Int
              /\ op.b \in [given : BOOLEAN, flush : Toggles, last : Toggles,
                            from : Toggles]

vars == <<engine, ctx, n, stack, ops>>

State == [ctx |-> ctx, n |-> n, stack |-> stack]

Become(s) == /\ ctx' = s.ctx
             /\ n' = s.n
             /\ stack' = s.stack

Made == -1
FlushMark == -2
LastMark == -3

Directions == {"up", "down"}

Frame(fn) == [fn |-> fn, dir |-> "up", in |-> <<>>, out |-> <<>>,
              bufs |-> <<>>, pend |-> FALSE]

Push(s, frame) == [s EXCEPT !.stack = Append(@, frame)]
Pop(s) == [s EXCEPT !.stack = SubSeq(@, 1, Len(@) - 1)]
Top(s) == s.stack[Len(s.stack)]
SetTop(s, frame) == [s EXCEPT !.stack[Len(s.stack)] = frame]

Does(s) == [s |-> s, threw |-> FALSE]
Throws(s) == [s |-> s, threw |-> TRUE]

-----------------------------------------------------------------------------
(* Callbacks and waiting events.                                           *)

Unset == [fn |-> FALSE, type |-> "unset"]

(* ngx_stream_js_ctx_t when the engine has been cloned. *)
FreshCtx == [status |-> "ERROR", ev |-> [d \in Directions |-> Unset],
             filter |-> FALSE, inProgress |-> FALSE, timers |-> 0,
             buf |-> <<>>, free |-> <<>>,
             busy |-> [d \in Directions |-> <<>>], retval |-> "undefined"]

(* ngx_stream_js_pending_events: an event with a type is waited for. *)
PendingEvents(s) == \E d \in Directions : s.ctx.ev[d].type # "unset"

(* ngx_stream_pending() *)
StreamPending(s) == s.ctx.timers > 0 \/ PendingEvents(s)

DropEvents(s) == [s EXCEPT !.ctx.ev = [d \in Directions |-> Unset]]

(* The events by name. *)
EventId == [upload |-> "up", download |-> "down",
            upstream |-> "up", downstream |-> "down"]
DataType == [upload |-> "string", download |-> "string",
             upstream |-> "buffer", downstream |-> "buffer"]

(* ngx_stream_js_event sets the type of the event before it looks whether  *)
(* types are mixed.                                                        *)
NjsEvent(s, name) ==
    IF name \notin DOMAIN EventId THEN [s |-> s, ok |-> FALSE]
    ELSE LET t == [s EXCEPT !.ctx.ev[EventId[name]].type = DataType[name]]
         IN  [s |-> t, ok |-> \A d \in Directions :
                 t.ctx.ev[d].type \in {"unset", DataType[name]}]

QjsEvent(s, name) ==
    IF name \in DOMAIN EventId
    THEN LET t == [s EXCEPT !.ctx.ev[EventId[name]].type = DataType[name]]
             types == {t.ctx.ev[d].type : d \in Directions} \ {"unset"}
         IN  [s |-> t, ok |-> types = {DataType[name]}]
    ELSE [s |-> s, ok |-> FALSE]

(* s.on(a, b) *)
NjsOn(s, op) ==
    LET e == NjsEvent(s, op.a)
    IN  IF op.b # "function" THEN Throws(s)
        ELSE IF ~e.ok \/ e.s.ctx.ev[EventId[op.a]].fn THEN Throws(e.s)
        ELSE Does([e.s EXCEPT !.ctx.ev[EventId[op.a]].fn = TRUE])

(* QuickJS looks at the callback last. *)
QjsOn(s, op) ==
    LET e == QjsEvent(s, op.a)
    IN  IF ~e.ok THEN Throws(e.s)
        ELSE IF e.s.ctx.ev[EventId[op.a]].fn THEN Throws(e.s)
        ELSE IF op.b # "function" THEN Throws(e.s)
        ELSE Does([e.s EXCEPT !.ctx.ev[EventId[op.a]].fn = TRUE])

(* s.off(a) *)
NjsOff(s, op) ==
    LET e == NjsEvent(s, op.a)
    IN  IF ~e.ok THEN Throws(e.s)
        ELSE Does([e.s EXCEPT !.ctx.ev[EventId[op.a]] = Unset])

QjsOff(s, op) ==
    LET e == QjsEvent(s, op.a)
    IN  IF e.ok THEN Does([e.s EXCEPT !.ctx.ev[EventId[op.a]] = Unset])
        ELSE Throws(e.s)

(* allow(), decline(), deny(), done(a): a is the code. *)
Code(name) == IF name = "deny" THEN "403"
              ELSE IF name = "decline" THEN "DECLINED" ELSE "OK"

NjsDone(s, op) ==
    IF op.a \in WrongCodes \/ s.ctx.filter THEN Throws(s)
    ELSE Does([DropEvents(s) EXCEPT
                 !.ctx.status = IF op.a = "undefined" THEN Code(op.name)
                                ELSE op.a])

\* Mutant: allowed while filtering.
QjsDoneFiltering(s, op) ==
    LET status == IF op.a # "undefined" THEN op.a ELSE Code(op.name)
    IN  IF status \in WrongCodes THEN Throws(s)
        ELSE Does(DropEvents([s EXCEPT !.ctx.status = status]))

QjsDone(s, op) ==
    LET status == IF op.a # "undefined" THEN op.a ELSE Code(op.name)
    IN  IF status \in WrongCodes THEN Throws(s)
        ELSE IF s.ctx.filter THEN Throws(s)
        ELSE Does(DropEvents([s EXCEPT !.ctx.status = status]))

NjsSetReturnValue(s, op) == Does([s EXCEPT !.ctx.retval = op.a])
QjsSetReturnValue(s, op) == Does([s EXCEPT !.ctx.retval = op.a])

-----------------------------------------------------------------------------
(* Sending.                                                                *)

(* The units of a buffer of len units of data with its flags. *)
Units(len, flush, last) ==
    [i \in 1..len |-> Made] \o (IF flush THEN <<FlushMark>> ELSE <<>>)
                          \o (IF last THEN <<LastMark>> ELSE <<>>)

(* The end of ngx_stream_js_next_filter: the buffers that have been sent   *)
(* are free again.  A slow peer keeps them busy.                           *)
Recycled(chains, slow, bufs) ==
    IF slow THEN [chains EXCEPT !.busy = @ \o bufs]
    ELSE [chains EXCEPT !.busy = <<>>, !.free = bufs \o chains.busy \o @]

SetChains(s, dir, chains) ==
    [s EXCEPT !.ctx.free = chains.free, !.ctx.busy[dir] = chains.busy]

UpdateChains(s, dir, bufs) ==
    SetChains(s, dir, Recycled([free |-> s.ctx.free, busy |-> s.ctx.busy[dir]],
                               s.n.slow[dir], bufs))

(* ngx_stream_js_next_filter: units go out on the other side.  bufs are    *)
(* the sizes of the module's own buffers that hold them.                   *)
NextFilter(s, dir, units, bufs) ==
    IF units = <<>> /\ bufs = <<>> /\ ~s.n.slow[dir] THEN s
    ELSE UpdateChains([s EXCEPT !.n.out[dir] = @ \o units], dir, bufs)

(* The innermost run of the body filter, whose chain last_out extends. *)
Filtering(s) == {i \in DOMAIN s.stack : s.stack[i].fn = "body"}

(* Buffers for the chain of the filter that runs.  When none runs any more *)
(* last_out is stale: Allowed() leaves such calls out.                     *)
AppendOut(s, units, bufs) ==
    LET i == CHOOSE i \in Filtering(s) : TRUE
    IN  [s EXCEPT !.stack[i].out = @ \o units, !.stack[i].bufs = @ \o bufs]

(* send(a, b): a is the length of the data, or -1 if it cannot be          *)
(* converted; b the options, if given.  from is the direction of           *)
(* sendUpstream() and sendDownstream().                                    *)
From(name) == IF name = "sendUpstream" THEN "up"
              ELSE IF name = "sendDownstream" THEN "down" ELSE "unset"

Option(b, field, default) ==
    IF ~b.given \/ b[field] = "absent" THEN default ELSE b[field] = "true"

FromOption(b) ==
    CASE ~b.given \/ b.from = "absent" -> "unset"
      [] b.given /\ b.from = "true" -> "down"
      [] b.given /\ b.from = "false" -> "up"

NoBuf(s) == s.ctx.buf = <<>>

NjsSend(s, op) ==
    LET flush == Option(op.b, "flush", ~NoBuf(s) /\ s.ctx.buf[1].flush)
        last == Option(op.b, "last", ~NoBuf(s) /\ s.ctx.buf[1].last)
        from == IF From(op.name) = "unset" THEN FromOption(op.b)
                ELSE From(op.name)
        units == Units(op.a, flush, last)
    IN  IF ~s.ctx.filter \/ op.a < 0 THEN Throws(s)
        ELSE IF from = "unset" /\ op.b.given /\ NoBuf(s) THEN Throws(s)
        ELSE IF from = "unset" THEN Does(AppendOut(s, units, <<op.a>>))
        ELSE Does(NextFilter(s, from, units, <<op.a>>))

(* QuickJS copies the data into the buffers of the free chain.  One that   *)
(* was made for less data takes what fits, and the loop goes on: directly  *)
(* sent buffers are free again in the next turn.  A buffer without room    *)
(* that is free again at once is found in every turn.                      *)
SendLoops == [free : Seq(Nat), busy : Seq(Nat), slow : BOOLEAN,
              direct : BOOLEAN, len : Nat, bufs : Seq(Nat)]

QjsBuffers[w \in SendLoops] ==
    LET size == IF w.free = <<>> THEN w.len ELSE Head(w.free)
        part == IF size < w.len THEN size ELSE w.len
        rest == [free |-> IF w.free = <<>> THEN <<>> ELSE Tail(w.free),
                 busy |-> w.busy]
        sent == IF w.direct THEN Recycled(rest, w.slow, <<size>>) ELSE rest
        after == [w EXCEPT !.free = sent.free, !.busy = sent.busy,
                           !.len = @ - part, !.bufs = Append(@, size)]
    IN  IF part = w.len THEN [w |-> after, spins |-> FALSE]
        ELSE IF part = 0 /\ sent.free = w.free
        THEN [w |-> after, spins |-> TRUE]
        ELSE QjsBuffers[after]

QjsSend(s, op) ==
    LET buf == IF NoBuf(s) THEN [flush |-> FALSE, last |-> FALSE]
               ELSE s.ctx.buf[1]
        flush == Option(op.b, "flush", buf.flush)
        last == Option(op.b, "last", buf.last)
        from == IF From(op.name) # "unset" THEN From(op.name)
                ELSE FromOption(op.b)
        to == IF from = "unset" THEN "up" ELSE from
        loop == QjsBuffers[[free |-> s.ctx.free, busy |-> s.ctx.busy[to],
                            slow |-> s.n.slow[to], direct |-> from # "unset",
                            len |-> op.a, bufs |-> <<>>]]
        sent == SetChains(s, to, loop.w)
        units == Units(op.a, flush, last)
    IN  IF ~s.ctx.filter THEN Throws(s)
        ELSE IF op.b.given /\ from = "unset" /\ NoBuf(s) THEN Throws(s)
        ELSE IF op.a < 0 THEN Throws(s)
        ELSE IF loop.spins THEN Does([s EXCEPT !.n.spins = TRUE])
        ELSE IF from = "unset" THEN Does(AppendOut(sent, units, loop.w.bufs))
        ELSE Does([sent EXCEPT !.n.out[from] = @ \o units])

-----------------------------------------------------------------------------
(* The life of the session, in nginx and in the module.                    *)

(* ngx_stream_finalize_session destroys the pool and with it the engine.   *)
Finalize(s) == [s EXCEPT !.ctx = FreshCtx, !.n.phase = "closed",
                         !.n.posted = FALSE, !.stack = <<>>]

(* The next phase after p. *)
PhaseAfter == [access |-> "preread", preread |-> "content"]

(* ngx_stream_core_generic_phase and ngx_stream_core_preread_phase with    *)
(* the answer of the handler.  In the preread phase NGX_AGAIN starts the   *)
(* timer of the read, and then the handler is only called for new data.    *)
PhaseAnswer(s, rc) ==
    IF rc \in {"OK", "DECLINED"}
    THEN [s EXCEPT !.n.phase = PhaseAfter[@], !.n.posted = TRUE,
                   !.n.reading = FALSE]
    ELSE IF rc = "AGAIN" THEN [s EXCEPT !.n.reading = (s.n.phase = "preread")]
    ELSE IF rc = "DONE" THEN [s EXCEPT !.n.reading = FALSE]
    ELSE Finalize(s)

\* Mutant: timers are not waited for.
PhaseCheckedEvents(s) ==
    IF PendingEvents(s)
    THEN PhaseAnswer([s EXCEPT !.ctx.inProgress = TRUE], "AGAIN")
    ELSE PhaseAnswer([s EXCEPT !.ctx.inProgress = FALSE], s.ctx.status)

(* The end of ngx_stream_js_phase_handler. *)
PhaseChecked(s) ==
    IF StreamPending(s)
    THEN PhaseAnswer([s EXCEPT !.ctx.inProgress = TRUE],
                     IF s.ctx.ev["up"].type # "unset" THEN "AGAIN" ELSE "DONE")
    ELSE PhaseAnswer([s EXCEPT !.ctx.inProgress = FALSE], s.ctx.status)

(* ngx_stream_js_run_event and ngx_stream_qjs_run_event. *)
RunEvent(s, dir) == Push(s, [Frame("callback") EXCEPT !.dir = dir])

PhaseEvent(s) ==
    IF s.ctx.ev["up"].fn THEN RunEvent(s, "up") ELSE PhaseChecked(s)

(* ngx_stream_js_phase_handler, for js_access and js_preread. *)
PhaseHandler(s) ==
    IF ~s.n.conf[s.n.phase] \/ ~s.n.conf.vm THEN PhaseAnswer(s, "DECLINED")
    ELSE IF s.ctx.inProgress THEN PhaseEvent(s)
    ELSE Push([s EXCEPT !.ctx.status = "ERROR"], Frame("phase"))

PhaseReturned(s, threw) == IF threw THEN Finalize(s) ELSE PhaseEvent(s)

(* A chunk that goes on as it came. *)
Chunk(buf) == <<buf.id>> \o (IF buf.flush THEN <<FlushMark>> ELSE <<>>)
                         \o (IF buf.last THEN <<LastMark>> ELSE <<>>)

FlattenChunks(chain) == SX!FlattenSeq([i \in DOMAIN chain |-> Chunk(chain[i])])

\* Mutant: last_out does not move on.
BodyTurnOnce(s) ==
    LET f == Top(s)
    IN  IF f.in = <<>>
        THEN NextFilter([Pop(s) EXCEPT !.ctx.buf = <<>>], f.dir, f.out, f.bufs)
        ELSE IF s.ctx.ev[f.dir].fn
        THEN RunEvent([s EXCEPT !.ctx.buf = <<Head(f.in)>>,
                                !.n.taken[f.dir] = @ \cup {Head(f.in).id}],
                      f.dir)
        ELSE SetTop([s EXCEPT !.ctx.buf = <<Head(f.in)>>],
                    [f EXCEPT !.in = Tail(@), !.out = Chunk(Head(f.in))])

(* One turn of ngx_stream_njs_body_filter and ngx_stream_qjs_body_filter,  *)
(* or what ngx_stream_js_body_filter does after the last.                  *)
BodyTurn(s) ==
    LET f == Top(s)
    IN  IF f.in = <<>>
        THEN NextFilter([Pop(s) EXCEPT !.ctx.buf = <<>>], f.dir, f.out, f.bufs)
        ELSE IF s.ctx.ev[f.dir].fn
        THEN RunEvent([s EXCEPT !.ctx.buf = <<Head(f.in)>>,
                                !.n.taken[f.dir] = @ \cup {Head(f.in).id}],
                      f.dir)
        ELSE SetTop([s EXCEPT !.ctx.buf = <<Head(f.in)>>],
                    [f EXCEPT !.in = Tail(@), !.out = @ \o Chunk(Head(f.in))])

(* The callback has returned: to the phase handler, or to the filter. *)
EventReturned(s, threw) ==
    IF threw THEN Finalize(s)
    ELSE IF Filtering(s) = {} THEN PhaseChecked(s)
    ELSE SetTop(s, [Top(s) EXCEPT !.in = Tail(@)])

(* ngx_stream_js_body_filter: the js_filter function runs once. *)
BodyFilter(s, dir, chain) ==
    LET body == Push(s, [Frame("body") EXCEPT !.dir = dir, !.in = chain])
    IN  IF ~s.n.conf.vm
        THEN NextFilter(s, dir, FlattenChunks(chain), <<>>)
        ELSE IF s.ctx.filter THEN body ELSE Push(body, Frame("filter"))

FilterReturned(s, threw) ==
    IF threw THEN Finalize(s) ELSE [s EXCEPT !.ctx.filter = TRUE]

\* Mutant: the read event is not posted.
EventFinalizeUnposted(s, threw) == IF threw THEN Finalize(s) ELSE s

(* ngx_stream_js_event_finalize after a timer. *)
EventFinalize(s, threw) ==
    IF threw THEN Finalize(s) ELSE [s EXCEPT !.n.posted = TRUE]

-----------------------------------------------------------------------------
Njs(s, op) ==
    CASE op.name = "on" -> NjsOn(s, op)
      [] op.name = "off" -> NjsOff(s, op)
      [] op.name \in {"allow", "decline", "deny", "done"} -> NjsDone(s, op)
      [] op.name = "setReturnValue" -> NjsSetReturnValue(s, op)
      [] op.name \in {"send", "sendUpstream", "sendDownstream"} ->
           NjsSend(s, op)

Qjs(s, op) ==
    CASE op.name = "on" -> QjsOn(s, op)
      [] op.name = "off" -> QjsOff(s, op)
      [] op.name \in {"allow", "decline", "deny", "done"} -> QjsDone(s, op)
      [] op.name = "setReturnValue" -> QjsSetReturnValue(s, op)
      [] op.name \in {"send", "sendUpstream", "sendDownstream"} ->
           QjsSend(s, op)

(* What scripts do: a late send() has options, which must name the         *)
(* direction.                                                              *)
Allowed(op) ==
    /\ op.name = "setReturnValue" => Top(State).fn = "variable"
    /\ op.name = "send" /\ ctx.filter /\ Filtering(State) = {} => op.b.given

Init ==
    /\ engine \in {"njs", "qjs"}
    /\ ctx = FreshCtx
    /\ n \in {[conf |-> c, phase |-> "access", posted |-> TRUE,
               reading |-> FALSE, came |-> [d \in Directions |-> 0],
               taken |-> [d \in Directions |-> {}],
               out |-> [d \in Directions |-> <<>>],
               slow |-> [d \in Directions |-> FALSE],
               spins |-> FALSE] : c \in Confs}
    /\ stack = <<>>
    /\ ops = 0

ScriptFns == {"phase", "callback", "filter", "timer", "variable"}

InScript == stack # <<>> /\ Top(State).fn \in ScriptFns /\ ~n.spins

Idle == stack = <<>> /\ n.phase # "closed" /\ ~n.spins

ScriptCalls ==
    /\ InScript /\ ops < MaxOps
    /\ \E op \in Calls :
         /\ Allowed(op)
         /\ Become(IF engine = "njs" THEN Njs(State, op).s ELSE Qjs(State, op).s)
    /\ ops' = ops + 1
    /\ UNCHANGED engine

(* setTimeout(), ngx.fetch(): something to wait for. *)
ScriptWaits ==
    /\ InScript /\ ops < MaxOps
    /\ Become([State EXCEPT !.ctx.timers = @ + 1])
    /\ ops' = ops + 1
    /\ UNCHANGED engine

(* A script reads a js_set variable: ngx_stream_js_variable_set.  One that *)
(* waits, or throws, is an error of the reader alone.                      *)
ScriptReadsVariable ==
    /\ InScript /\ ops < MaxOps /\ n.conf.set /\ Top(State).fn # "variable"
    /\ Become(Push(State, [Frame("variable") EXCEPT
                             !.pend = StreamPending(State)]))
    /\ ops' = ops + 1
    /\ UNCHANGED engine

ScriptReturns ==
    /\ InScript
    /\ \E threw \in BOOLEAN :
         LET fn == Top(State).fn
             s == Pop(State)
         IN  Become(CASE fn = "phase" -> PhaseReturned(s, threw)
                      [] fn = "callback" -> EventReturned(s, threw)
                      [] fn = "filter" -> FilterReturned(s, threw)
                      [] fn = "timer" -> EventFinalize(s, threw)
                      [] fn = "variable" -> s)
    /\ UNCHANGED <<engine, ops>>

FilterRuns ==
    /\ stack # <<>> /\ Top(State).fn = "body"
    /\ Become(BodyTurn(State))
    /\ UNCHANGED <<engine, ops>>

(* The posted read event runs the phases. *)
PhasesRun ==
    /\ Idle /\ n.posted
    /\ LET s == [State EXCEPT !.n.posted = FALSE]
       IN  Become(IF n.phase = "content" \/ n.reading THEN s
                  ELSE PhaseHandler(s))
    /\ UNCHANGED <<engine, ops>>

(* Data of the client comes while the phases run. *)
ClientSends ==
    /\ Idle /\ ~n.posted /\ n.phase \in {"access", "preread"}
    /\ Become(PhaseHandler(State))
    /\ UNCHANGED <<engine, ops>>

(* The timeout of the preread phase ends the session. *)
PrereadTimeout ==
    /\ Idle /\ n.reading
    /\ Become(Finalize(State))
    /\ UNCHANGED <<engine, ops>>

(* Chunks of one side come to the filters. *)
DataComes ==
    /\ Idle /\ n.phase = "content" /\ n.conf.filter
    /\ \E d \in Directions, k \in 1..2 :
         /\ n.came[d] + k <= MaxChunks
         /\ Become(BodyFilter([State EXCEPT !.n.came[d] = @ + k], d,
                     [i \in 1..k |-> [id |-> n.came[d] + i, flush |-> i = k,
                                      last |-> n.came[d] + i = MaxChunks]]))
    /\ UNCHANGED <<engine, ops>>

(* The upstream server stops or begins to read. *)
PeerTurns ==
    /\ Idle /\ n.phase = "content" /\ n.conf.slow
    /\ Become([State EXCEPT !.n.slow["up"] = ~@])
    /\ UNCHANGED <<engine, ops>>

TimerFires ==
    /\ Idle /\ ctx.timers > 0
    /\ Become(Push([State EXCEPT !.ctx.timers = @ - 1], Frame("timer")))
    /\ UNCHANGED <<engine, ops>>

Steps == \/ ScriptCalls \/ ScriptWaits \/ ScriptReadsVariable \/ ScriptReturns
         \/ FilterRuns \/ PhasesRun \/ TimerFires \/ PrereadTimeout

Next == Steps \/ ClientSends \/ DataComes \/ PeerTurns

(* The event loop goes on, scripts return and timers fire; nobody has to   *)
(* send anything.                                                          *)
Spec == Init /\ [][Next]_vars /\ WF_vars(Steps)

-----------------------------------------------------------------------------
(* The state has its type, and one direction at a time is filtered. *)
TypeOK ==
    /\ ctx.status \in Statuses
    /\ \A d \in Directions : ctx.ev[d].type \in {"unset", "string", "buffer"}
    /\ n.phase \in {"access", "preread", "content", "closed"}
    /\ Cardinality(Filtering(State)) <= 1

(* A phase waits for a download callback alone.  Nobody calls that before  *)
(* the content phase, so the session waits until its client goes.          *)
DownloadOnly == ctx.ev["down"].fn /\ ctx.ev["up"] = Unset

(* A phase that waits has something that will run it again: a timer, an    *)
(* upload callback, which the data of the client reaches, or the read of   *)
(* the preread phase, which times out.  The exception is DownloadOnly      *)
(* (ngx_stream_js_phase_handler counts every event with a type as          *)
(* pending).  The session is well formed all the while.                    *)
WaitsForSomething ==
    /\ TypeOK
    /\ Idle /\ ctx.inProgress /\ ~n.posted /\ ~DownloadOnly =>
          ctx.timers > 0 \/ n.reading \/ ctx.ev["up"].fn

(* A session goes on to the next phase only when the function of this one  *)
(* has decided so, after all callbacks and timers it set have gone.        *)
PhaseDecides ==
    [][n.phase \in {"access", "preread"} /\ n'.phase = PhaseAfter[n.phase]
       /\ n.conf[n.phase] /\ n.conf.vm =>
          /\ ctx'.timers = 0 /\ \A d \in Directions : ~ctx'.ev[d].fn
          /\ ctx'.status \in {"OK", "DECLINED"} /\ ~ctx'.inProgress]_vars

(* What no callback took has gone to the other side, once, in the order in *)
(* which it came, however scripts turn callbacks on and off and send.      *)
NothingLost ==
    Idle => \A d \in Directions :
        LET out == n.out[d]
            data == {i \in DOMAIN out : out[i] > 0}
        IN  /\ \A i, j \in data : i < j => out[i] < out[j]
            /\ {out[i] : i \in data} = (1..n.came[d]) \ n.taken[d]

(* Both engines do the same, but for the buffers the data is cut into. *)
Seen(call) ==
    [threw |-> call.threw, n |-> call.s.n,
     ctx |-> [call.s.ctx EXCEPT !.free = <<>>,
                                !.busy = [d \in Directions |-> <<>>]],
     out |-> [i \in DOMAIN call.s.stack |-> call.s.stack[i].out]]

EnginesAgree ==
    InScript => \A op \in Calls : Allowed(op) =>
        Seen(Njs(State, op)) = Seen(Qjs(State, op))

(* While the preread phase reads, nginx calls its handler for data only:  *)
(* what a timer decides then is not looked at when the read event that it  *)
(* posts comes, and the timeout may end the session first.                 *)
Overlooked == n.reading /\ (stack = <<>> \/ stack[1].fn # "callback")

(* The script has decided and waits for nothing. *)
Decided(p) == /\ n.phase = p /\ ctx.inProgress /\ ctx.timers = 0
              /\ \A d \in Directions : ctx.ev[d] = Unset
              /\ ~Overlooked

(* A decision is not forgotten: once nothing is pending the phase ends,    *)
(* whichever timer or callback was the last to go, and an answer to go on  *)
(* leads to the next phase: no timeout comes first (ngx_stream_js_event_   *)
(* finalize posts the read event).  The exception is Overlooked.           *)
DecisionsCount ==
    \A p \in {"access", "preread"} :
        /\ Decided(p) ~> ~Decided(p)
        /\ Decided(p) /\ Idle /\ ctx.status \in {"OK", "DECLINED"} ~>
              n.phase = PhaseAfter[p]
=============================================================================
