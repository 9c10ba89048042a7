---------------------------- MODULE HttpRequest -----------------------------
(***************************************************************************)
(* The life of one HTTP request in a location with njs handlers            *)
(* (nginx/ngx_http_js_module.c): js_access, js_content, js_header_filter,  *)
(* js_body_filter and js_set functions run by the phases and filters of    *)
(* nginx, and resumed by timers, subrequests and the request body.         *)
(*                                                                         *)
(* nginx runs one event at a time.  An event handler calls into scripts,   *)
(* scripts call methods of r (HttpBindings), and methods that send run the *)
(* filters, which call scripts again: stack holds the calls in progress.   *)
(* When it is empty the posted requests run, then the next event comes.    *)
(* What a script does is any sequence of at most MaxOps calls.             *)
(***************************************************************************)
EXTENDS HttpBindings

CONSTANTS Locations,     \* the configurations of a location
          Calls,         \* the calls of methods a script makes
          Habits,        \* what else scripts do: "reject", "lateRead", "reread"
          MaxOps         \* calls of methods in one behaviour

(* The methods that change the state of a request. *)
Methods == {"setTimeout", "clearTimeout", "return", "decline", "sendHeader",
            "send", "finish", "internalRedirect", "setReturnValue", "done",
            "sendBuffer", "readRequest", "readRequestForm", "requestBody",
            "subrequest"}

(* A location has or has not a handler of each kind; vm is FALSE when its  *)
(* script could not be loaded.                                             *)
ASSUME LocationsAssumption ==
    Locations \subseteq [vm : BOOLEAN, access : BOOLEAN, content : BOOLEAN,
                         header : BOOLEAN, body : BOOLEAN, set : BOOLEAN,
                         close : BOOLEAN, errorPage : BOOLEAN]

(* Two getters read the request body of js_content. *)
ASSUME CallsAssumption ==
    \A op \in Calls :
       /\ op.name \in Methods
       /\ op.name = "requestBody" => op.a \in {"text", "buffer"}

VARIABLES engine,        \* "njs" or "qjs": js_engine
          ctx,           \* ngx_http_js_ctx_t of the request
          r,             \* the request
          stack,         \* calls in progress, the innermost last
          ops            \* calls made by scripts so far

vars == <<engine, ctx, r, stack, ops>>

State == [ctx |-> ctx, r |-> r, stack |-> stack]

Become(s) == /\ ctx' = s.ctx
             /\ r' = s.r
             /\ stack' = s.stack

ScriptFns == {"access", "content", "header", "body", "timer", "reply",
              "resolve", "variable"}

Top(s) == s.stack[Len(s.stack)]

Codes == {"302", "403", "413", "500"}

-----------------------------------------------------------------------------
(* The parts of nginx the module relies on.                                *)

(* The pool cleanup destroys the engine: the events of the context go.     *)
CleanupCtx(s) ==
    [s EXCEPT !.ctx = [FreshCtx EXCEPT !.rejected = s.ctx.rejected],
              !.r.freed = TRUE, !.r.count = 0]

(* ngx_http_finalize_connection, ngx_http_close_request. *)
FinalizeConnection(s) ==
    IF s.r.count = 1 THEN CleanupCtx(s) ELSE [s EXCEPT !.r.count = @ - 1]

(* ngx_http_terminate_request posts the request to a handler that closes   *)
(* it whatever its count.                                                  *)
Terminate(s) == [s EXCEPT !.r.weh = "terminate", !.r.posted = 1,
                          !.r.term = TRUE]

(* ngx_http_init_vm: the first handler of a request clones the engine. *)
InitVm(s) == IF s.r.loc.vm THEN [s EXCEPT !.ctx.vm = TRUE] ELSE s

(* The content of a location without js_content, through the filters. *)
StaticContent(s) ==
    Push([s EXCEPT !.r.phase = "static", !.r.weh = "empty"],
         [Frame("output") EXCEPT !.head = TRUE, !.then = "finalize",
            !.in = <<Buf(1, FALSE, FALSE), Buf(1, TRUE, FALSE)>>])

(* ngx_http_internal_redirect clears the contexts of all modules and runs  *)
(* the phases of the new location.  The reference it takes is given back   *)
(* by the finalization its caller makes.  The new location has no handler  *)
(* of its own, and the same filters.                                       *)
InternalRedirect(s) ==
    StaticContent([s EXCEPT !.ctx = FreshCtx,
                            !.r.orphans = @ \cup s.ctx.events])

(* The error page of a code: a redirect where error_page says so. *)
SpecialResponse(s, code) ==
    IF s.r.loc.errorPage /\ ~s.r.headerSent
    THEN InternalRedirect([s EXCEPT !.r.loc.errorPage = FALSE])
    ELSE Push(s, [Frame("output") EXCEPT !.head = TRUE, !.then = "finalize",
                    !.in = <<Buf(1, TRUE, FALSE)>>])

(* Output waits for the client, or for the subrequests before it. *)
Postponed(s) == s.r.buffered \/ s.r.subs # {}

(* ngx_http_finalize_request *)
FinalizeRequest(s, rc) ==
    IF rc = "DONE" THEN FinalizeConnection(s)
    ELSE IF rc = "DECLINED" THEN StaticContent(s)
    ELSE IF rc = "ERROR" \/ s.r.error THEN Terminate(s)
    ELSE IF rc \in Codes THEN SpecialResponse(s, rc)
    ELSE IF Postponed(s) THEN [s EXCEPT !.r.weh = "writer"]
    ELSE FinalizeConnection([s EXCEPT !.r.weh = "empty"])

-----------------------------------------------------------------------------
(* js_content                                                              *)

\* Mutant: no return when the header has been sent.
JsInternalRedirectTwice(s) ==
    LET t == IF s.r.headerSent THEN FinalizeRequest(s, "OK") ELSE s
    IN  IF s.ctx.redirect = "unsafe" THEN FinalizeRequest(t, "500")
        ELSE InternalRedirect(t)

(* ngx_http_js_internal_redirect; an unsafe uri is an error. *)
JsInternalRedirect(s) ==
    IF s.r.headerSent THEN FinalizeRequest(s, "OK")
    ELSE IF s.ctx.redirect = "unsafe" THEN FinalizeRequest(s, "500")
    ELSE InternalRedirect(s)

ContentFinalize(s) ==
    IF s.ctx.redirect # "none" THEN JsInternalRedirect(s)
    ELSE FinalizeRequest(s, s.ctx.status)

\* Mutant: the status of a handler that never answers is not set.
ContentEventHandlerOK(s) ==
    IF ~s.r.loc.vm THEN FinalizeRequest(s, "500")
    ELSE Push(InitVm(s), Frame("content"))

(* The request body is in: run the function.  The status stands for a      *)
(* handler that never answers.                                             *)
ContentEventHandler(s) ==
    IF ~s.r.loc.vm THEN FinalizeRequest(s, "500")
    ELSE Push([InitVm(s) EXCEPT !.ctx.status = "500"], Frame("content"))

ContentReturned(s, threw) ==
    IF threw THEN FinalizeRequest(s, "500")
    ELSE IF s.ctx.events # {} THEN [s EXCEPT !.r.weh = "content"]
    ELSE ContentFinalize(s)

(* ngx_http_js_content_handler: the body is read first.  The reader takes  *)
(* a reference, which the content phase gives back when the handler has    *)
(* returned NGX_DONE: the frame "phase".                                   *)
ContentHandler(s, read) ==
    LET called == Push([s EXCEPT !.r.count = @ + 1, !.r.body = "read"],
                       Frame("phase"))
        empty == [s EXCEPT !.r.weh = "empty"]
    IN  IF s.r.body = "read" \/ read = "sync"
        THEN ContentEventHandler([called EXCEPT !.r.weh = "empty"])
        ELSE IF read = "error" THEN FinalizeRequest(empty, "413")
        ELSE [empty EXCEPT !.r.body = "reading"]

(* The connection can be written, or a script has finished a step.  What   *)
(* is buffered is written, which fails when the client has gone.           *)
ContentWriteEventHandler(s) ==
    IF ~Pending(s) THEN ContentFinalize(s)
    ELSE IF s.r.error THEN FinalizeRequest(s, "ERROR")
    ELSE s

-----------------------------------------------------------------------------
(* js_access                                                               *)

(* What the rest of the phases does after the access phase let a request   *)
(* through.                                                                *)
ContentPhase(s, read) ==
    LET granted == [s EXCEPT !.r.phase = "content", !.r.granted = TRUE]
    IN  IF s.r.loc.content THEN ContentHandler(granted, read)
        ELSE StaticContent(granted)

(* ngx_http_core_access_phase: the module's answer decides. *)
AccessPhase(s, rc, read) ==
    IF rc \in {"OK", "DECLINED"} THEN ContentPhase(s, read)
    ELSE IF rc \in {"AGAIN", "DONE"} THEN s
    ELSE FinalizeRequest(s, rc)

\* Mutant: the answer the function has sent is not looked at.
AccessFinalizeStatus(s, read) ==
    IF s.ctx.redirect # "none" THEN JsInternalRedirect(s)
    ELSE AccessPhase(s, s.ctx.status, read)

(* ngx_http_js_access_finalize, and the phase engine takes its answer. *)
AccessFinalize(s, read) ==
    IF s.ctx.redirect # "none" THEN JsInternalRedirect(s)
    ELSE IF s.r.headerSent THEN FinalizeRequest(s, "OK")
    ELSE AccessPhase(s, s.ctx.status, read)

(* ngx_http_js_access_handler, first call and re-entries. *)
AccessHandler(s, read) ==
    IF ~s.r.loc.vm THEN FinalizeRequest(s, "ERROR")
    ELSE IF s.ctx.inProgress
    THEN IF Pending(s) THEN s
         ELSE IF s.ctx.rejected
         THEN FinalizeRequest([s EXCEPT !.ctx.inProgress = FALSE], "500")
         ELSE AccessFinalize([s EXCEPT !.ctx.inProgress = FALSE], read)
    ELSE Push([InitVm(s) EXCEPT !.ctx.status = "OK"], Frame("access"))

(* The label done: wait for the events, or decide. *)
AccessDone(s, read) ==
    IF Pending(s)
    THEN [s EXCEPT !.ctx.inProgress = TRUE, !.r.weh = "access"]
    ELSE AccessFinalize(s, read)

(* ngx_http_js_access_write_event_handler: what is asked decides twice,    *)
(* here and when the phases run the handler again.                         *)
AccessWriteEventHandler(s, read) ==
    IF Pending(s) THEN s
    ELSE IF s.ctx.redirect # "none" THEN JsInternalRedirect(s)
    ELSE IF s.r.headerSent THEN FinalizeRequest(s, "OK")
    ELSE IF s.ctx.status = "DONE" THEN s
    ELSE AccessHandler(s, read)

(* ngx_http_js_body_read_abort: the promise is never settled. *)
BodyReadAbort(s) ==
    [DelEvent(s, s.ctx.readEvent) EXCEPT !.ctx.readEvent = 0,
                                         !.ctx.read = "IDLE"]

(* ngx_http_js_event_finalize *)
EventFinalize(s, rc) ==
    IF rc = "ERROR" THEN FinalizeRequest(s, "ERROR")
    ELSE [s EXCEPT !.r.posted = @ + 1, !.r.run = TRUE]

(* ngx_http_js_access_body_finalize after a read that went to the event    *)
(* loop.                                                                   *)
AccessBodyFinalize(s, read) ==
    LET idle == [s EXCEPT !.ctx.read = "IDLE"]
    IN  IF Pending(s) THEN [idle EXCEPT !.r.weh = "access"]
        ELSE AccessWriteEventHandler(idle, read)

(* ngx_http_js_access_body_done: hand the body to the script, in the frame *)
(* of body_resolve.  collect = "error": the body cannot be gathered.       *)
AccessBodyDone(s, collect) ==
    IF collect = "error"
    THEN EventFinalize(BodyReadAbort(s), "ERROR")
    ELSE Push(CollectBody(s),
              [Frame("resolve") EXCEPT !.id = s.ctx.readEvent])

(* The function has returned.  A deferred read of the body starts now: at  *)
(* once ("sync"), in the event loop, or it fails.                          *)
AccessReturned(s, threw, read) ==
    IF threw THEN FinalizeRequest([s EXCEPT !.r.failed = TRUE], "500")
    ELSE IF s.ctx.read # "DEFERRED" THEN AccessDone(s, read)
    ELSE IF read = "error" THEN FinalizeRequest(BodyReadAbort(s), "413")
    ELSE IF read = "sync"
    THEN AccessBodyDone([s EXCEPT !.r.body = "read"], "ok")
    ELSE IF read = "unreadable"
    THEN AccessDone(AccessBodyDone([s EXCEPT !.r.body = "read"], "error"),
                    "sync")
    ELSE [s EXCEPT !.ctx.read = "IN_PROGRESS", !.ctx.inProgress = TRUE,
                   !.r.body = "reading", !.r.weh = "empty"]

(* ngx_http_js_body_resolve has settled the promise and run the jobs. *)
BodyResolved(s, id, read) ==
    LET settled == [DelEvent(s, id) EXCEPT !.ctx.readEvent = 0]
    IN  IF s.ctx.read = "DEFERRED"
        THEN AccessDone([settled EXCEPT !.ctx.read = "IDLE"], read)
        ELSE AccessBodyFinalize(settled, read)

-----------------------------------------------------------------------------
(* Filters.                                                                *)

(* The output call on top of the stack ends with rc. *)
OutputDone(s, rc) ==
    LET p == Pop(s)
    IN  CASE Top(s).then = "send" -> p
          [] Top(s).then = "return" -> [p EXCEPT !.ctx.status = rc]
          [] Top(s).then = "finish" ->
               IF rc = "ERROR" THEN p ELSE [p EXCEPT !.ctx.status = "OK"]
          [] Top(s).then = "finalize" -> FinalizeRequest(p, rc)

SetTop(s, frame) == [s EXCEPT !.stack[Len(s.stack)] = frame]

(* The header filter of nginx, the last one, sends the header once. *)
HeaderSent(s) ==
    SetTop([s EXCEPT !.r.headerSent = TRUE], [Top(s) EXCEPT !.head = FALSE])

(* ngx_http_js_header_filter. *)
HeaderFilter(s) ==
    IF ~s.r.loc.header THEN HeaderSent(s)
    ELSE IF ~s.r.loc.vm THEN OutputDone(s, "ERROR")
    ELSE Push([InitVm(s) EXCEPT !.ctx.filter = TRUE],
              [Frame("header") EXCEPT !.pend = Pending(s)])

HeaderReturned(s, frame, threw) ==
    IF threw \/ (~frame.pend /\ s.ctx.events # {})
    THEN OutputDone(s, "ERROR")
    ELSE HeaderSent(s)

(* The next body filters take the chain; the connection may be slow. *)
NextBodyFilter(s, chain, slow) ==
    SetTop([s EXCEPT !.r.last = @ \/ \E i \in DOMAIN chain : chain[i].last,
                     !.r.buffered = @ \/ slow],
           [Top(s) EXCEPT !.in = <<>>])

(* ngx_http_js_body_filter: the chain goes to the frame "filter", where    *)
(* ctx->last_out points.                                                   *)
BodyFilter(s, slow) ==
    IF ~s.r.loc.body \/ s.ctx.done THEN NextBodyFilter(s, Top(s).in, slow)
    ELSE IF ~s.r.loc.vm THEN OutputDone(s, "ERROR")
    ELSE Push([InitVm(s) EXCEPT !.ctx.filter = TRUE,
                                !.ctx.lastOut = Len(s.stack) + 1],
              [Frame("filter") EXCEPT !.in = Top(s).in])

(* One turn of the loops of ngx_http_njs_body_filter and                   *)
(* ngx_http_qjs_body_filter.                                               *)
FilterTurn(s, slow) ==
    LET f == Top(s)
    IN  IF f.in = <<>>
        THEN IF f.out # <<>> \/ s.r.buffered
             THEN NextBodyFilter(Pop(s), f.out, slow)
             ELSE SetTop(Pop(s), [Top(Pop(s)) EXCEPT !.in = <<>>])
        ELSE IF s.ctx.done
        THEN SetTop(s, [f EXCEPT !.in = Tail(@),
                                 !.out = Append(@, Head(f.in))])
        ELSE Push([s EXCEPT !.ctx.buf = Head(f.in)],
                  [Frame("body") EXCEPT !.pend = Pending(s)])

BodyReturned(s, frame, threw) ==
    IF threw \/ (~frame.pend /\ s.ctx.events # {})
    THEN OutputDone(Pop(s), "ERROR")
    ELSE SetTop(s, [Top(s) EXCEPT !.in = Tail(@)])

(* A step of the output call on top of the stack. *)
OutputTurn(s, slow) ==
    LET f == Top(s)
    IN  IF s.r.error THEN OutputDone(s, "ERROR")
        ELSE IF f.head
        THEN IF s.r.headerSent THEN OutputDone(s, "ERROR")
             ELSE HeaderFilter(s)
        ELSE IF f.in # <<>> THEN BodyFilter(s, slow)
        ELSE OutputDone(s, IF s.r.buffered THEN "AGAIN" ELSE "OK")

-----------------------------------------------------------------------------
(* Events.                                                                 *)

(* ngx_js_timer_handler and ngx_qjs_timer_handler after the call. *)
TimerReturned(s, id, threw) ==
    EventFinalize(DelEvent(s, id), IF threw THEN "ERROR" ELSE "OK")

\* Mutant: the parent is not posted.
ReplyReturnedUnposted(s, id) ==
    FinalizeConnection([DelEvent(s, id) EXCEPT !.r.run = TRUE,
                                               !.r.subs = @ \ {id}])

(* ngx_http_js_subrequest_done and its QuickJS twin after the call, whose  *)
(* result they ignore; nginx then closes the subrequest, which is made     *)
(* with NGX_HTTP_SUBREQUEST_BACKGROUND: for these it finalizes the         *)
(* connection and does not post the parent.                                *)
ReplyReturned(s, id) ==
    FinalizeConnection([DelEvent(s, id) EXCEPT !.r.posted = @ + 1,
                                               !.r.run = TRUE,
                                               !.r.subs = @ \ {id}])

(* A posted request runs its write event handler. *)
WriteEventHandler(s, read) ==
    IF s.r.weh = "terminate" THEN CleanupCtx(s)
    ELSE IF s.r.weh = "access" THEN AccessWriteEventHandler(s, read)
    ELSE IF s.r.weh = "content" THEN ContentWriteEventHandler(s)
    ELSE IF s.r.weh = "writer" /\ ~Postponed(s) THEN FinalizeRequest(s, "OK")
    ELSE s

-----------------------------------------------------------------------------
(* The calls of methods, by engine.                                        *)

Njs(s, op) ==
    CASE op.name = "setTimeout" -> NjsSetTimeout(s, op)
      [] op.name = "clearTimeout" -> NjsClearTimeout(s, op)
      [] op.name = "return" -> NjsReturn(s, op)
      [] op.name = "decline" -> NjsDecline(s, op)
      [] op.name = "sendHeader" -> NjsSendHeader(s, op)
      [] op.name = "send" -> NjsSend(s, op)
      [] op.name = "finish" -> NjsFinish(s, op)
      [] op.name = "internalRedirect" -> NjsInternalRedirect(s, op)
      [] op.name = "setReturnValue" -> NjsSetReturnValue(s, op)
      [] op.name = "done" -> NjsDone(s, op)
      [] op.name = "sendBuffer" -> NjsSendBuffer(s, op)
      [] op.name = "readRequest" -> NjsReadRequestBody(s, op)
      [] op.name = "readRequestForm" -> NjsReadRequestForm(s, op)
      [] op.name = "requestBody" -> NjsGetRequestBody(s, op)
      [] op.name = "subrequest" -> NjsSubrequest(s, op)

Qjs(s, op) ==
    CASE op.name = "setTimeout" -> QjsSetTimeout(s, op)
      [] op.name = "clearTimeout" -> QjsClearTimeout(s, op)
      [] op.name = "return" -> QjsReturn(s, op)
      [] op.name = "decline" -> QjsDecline(s, op)
      [] op.name = "sendHeader" -> QjsSendHeader(s, op)
      [] op.name = "send" -> QjsSend(s, op)
      [] op.name = "finish" -> QjsFinish(s, op)
      [] op.name = "internalRedirect" -> QjsInternalRedirect(s, op)
      [] op.name = "setReturnValue" -> QjsSetReturnValue(s, op)
      [] op.name = "done" -> QjsDone(s, op)
      [] op.name = "sendBuffer" -> QjsSendBuffer(s, op)
      [] op.name = "readRequest" -> QjsReadRequestBody(s, op)
      [] op.name = "readRequestForm" -> QjsReadRequestForm(s, op)
      [] op.name = "requestBody" -> QjsGetRequestBody(s, op)
      [] op.name = "subrequest" -> QjsSubrequest(s, op)

CallMethod(s, op) == IF engine = "njs" THEN Njs(s, op) ELSE Qjs(s, op)

(* Where the documentation of the methods allows them.  Without the habit  *)
(* "lateRead", a js_access function asks for the body before it waits for  *)
(* anything else; without "reread", not again before it has come.          *)
Allowed(fn, op) ==
    /\ op.name \in {"sendBuffer", "done"} => fn = "body"
    /\ fn \in {"header", "body", "variable"} =>
          op.name \in {"sendBuffer", "done", "setTimeout", "setReturnValue"}
    /\ op.name = "setReturnValue" => fn = "variable"
    /\ op.name \in {"send", "finish"} => r.headerSent
    /\ op.name = "decline" => r.phase = "access"
    /\ op.name = "requestBody" => r.phase = "content"
    /\ op.name \in {"readRequest", "readRequestForm"} =>
          /\ r.phase \in {"access", "content"}
          /\ r.body # "none" \/ fn = "access" \/ "lateRead" \in Habits
          /\ r.body # "reading" \/ "reread" \in Habits
    /\ op.name = "clearTimeout" =>
          /\ \A e \in ctx.events : e.id = op.a => e.kind = "timer"
          /\ \A i \in DOMAIN stack : stack[i].id # op.a

-----------------------------------------------------------------------------
Init ==
    /\ engine \in {"njs", "qjs"}
    /\ ctx = FreshCtx
    /\ r \in {[loc |-> l, phase |-> "rewrite", weh |-> "phases", posted |-> 0,
               run |-> FALSE, count |-> 1, body |-> "none", subs |-> {},
               detached |-> 0, headerSent |-> FALSE, last |-> FALSE,
               buffered |-> FALSE, error |-> FALSE, term |-> FALSE,
               failed |-> FALSE, granted |-> FALSE, orphans |-> {},
               freed |-> FALSE] : l \in Locations}
    /\ stack = <<>>
    /\ ops = 0

(* How ngx_http_read_client_request_body() ends, if it is called. *)
Reads == {"sync", "async", "error", "unreadable"}

Idle == stack = <<>> /\ ~r.run /\ ~r.freed

(* A js_set variable in a directive of the rewrite phase. *)
RewriteVariable ==
    /\ Idle /\ r.phase = "rewrite" /\ r.loc.set /\ ops = 0
    /\ Become(Push([InitVm(State) EXCEPT !.r.run = TRUE],
                   [Frame("variable") EXCEPT !.then = "rewrite"]))
    /\ ops' = 1
    /\ UNCHANGED engine

(* The access phase. *)
RunPhases ==
    /\ Idle /\ r.phase = "rewrite"
    /\ \E read \in Reads :
         LET s == [State EXCEPT !.r.phase = "access", !.r.run = TRUE]
         IN  Become(IF r.loc.access THEN AccessHandler(s, read)
                    ELSE ContentPhase(s, read))
    /\ UNCHANGED <<engine, ops>>

(* The script of the innermost call calls a method, and goes on whether or *)
(* not it throws: an exception it does not catch is a return that throws.  *)
ScriptCalls ==
    /\ stack # <<>> /\ Top(State).fn \in ScriptFns /\ ops < MaxOps
    /\ \E op \in Calls :
         /\ Allowed(Top(State).fn, op)
         /\ Become(CallMethod(State, op).s)
    /\ ops' = ops + 1
    /\ UNCHANGED engine

(* A promise is rejected and nothing handles it. *)
ScriptRejects ==
    /\ stack # <<>> /\ Top(State).fn \in ScriptFns /\ ops < MaxOps
    /\ "reject" \in Habits /\ ~ctx.rejected
    /\ Become([State EXCEPT !.ctx.rejected = TRUE])
    /\ ops' = ops + 1
    /\ UNCHANGED engine

(* A script reads a js_set variable. *)
ScriptReadsVariable ==
    /\ stack # <<>> /\ ops < MaxOps /\ r.loc.set
    /\ Top(State).fn \in ScriptFns \ {"variable"}
    /\ Become(Push(State, [Frame("variable") EXCEPT !.pend = Pending(State)]))
    /\ ops' = ops + 1
    /\ UNCHANGED engine

(* ngx_http_js_variable_set after the call: a handler that threw leaves    *)
(* the variable not found, one that waits is an error of its reader.       *)
VariableReturned(s, frame, threw) ==
    IF frame.then = "rewrite" /\ ~threw /\ ~frame.pend /\ s.ctx.events # {}
    THEN FinalizeRequest([s EXCEPT !.r.phase = "static"], "500")
    ELSE s

(* The script of the innermost call returns, or throws. *)
ScriptReturns ==
    /\ stack # <<>> /\ Top(State).fn \in ScriptFns
    /\ \E threw \in BOOLEAN, read \in Reads :
         LET f == Top(State)
             s == Pop(State)
         IN  Become(CASE f.fn = "access" -> AccessReturned(s, threw, read)
                      [] f.fn = "content" -> ContentReturned(s, threw)
                      [] f.fn = "header" -> HeaderReturned(s, f, threw)
                      [] f.fn = "body" -> BodyReturned(s, f, threw)
                      [] f.fn = "timer" -> TimerReturned(s, f.id, threw)
                      [] f.fn = "reply" -> ReplyReturned(s, f.id)
                      [] f.fn = "resolve" -> BodyResolved(s, f.id, read)
                      [] f.fn = "variable" -> VariableReturned(s, f, threw))
    /\ UNCHANGED <<engine, ops>>

(* The code of nginx and of the module between two calls of scripts. *)
CodeRuns ==
    /\ stack # <<>> /\ Top(State).fn \notin ScriptFns
    /\ \E slow \in BOOLEAN :
         Become(CASE Top(State).fn = "output" -> OutputTurn(State, slow)
                  [] Top(State).fn = "filter" -> FilterTurn(State, slow)
                  [] Top(State).fn = "phase" -> FinalizeConnection(Pop(State)))
    /\ UNCHANGED <<engine, ops>>

(* ngx_http_run_posted_requests *)
RunPosted ==
    /\ stack = <<>> /\ r.run /\ ~r.freed
    /\ \E read \in Reads :
         Become(IF r.posted = 0 THEN [State EXCEPT !.r.run = FALSE]
                ELSE WriteEventHandler([State EXCEPT !.r.posted = @ - 1], read))
    /\ UNCHANGED <<engine, ops>>

(* An event of the connection runs what is still posted. *)
ConnectionEvent ==
    /\ Idle /\ r.posted > 0
    /\ Become([State EXCEPT !.r.run = TRUE])
    /\ UNCHANGED <<engine, ops>>

(* A timer of the script fires. *)
TimerFires ==
    /\ Idle
    /\ \E e \in {e \in ctx.events : e.kind = "timer"} :
         Become(Push(State, [Frame("timer") EXCEPT !.id = e.id]))
    /\ UNCHANGED <<engine, ops>>

(* A subrequest ends: ngx_http_js_subrequest_done, ngx_http_qjs_           *)
(* subrequest_done.  Unless it failed, the callback or the promise of its  *)
(* event gets the reply.                                                   *)
SubrequestDone ==
    /\ Idle
    /\ \E id \in r.subs, rc \in {"OK", "ERROR"} :
         LET s == [State EXCEPT !.r.run = TRUE]
         IN  Become(IF rc = "ERROR" \/ r.error THEN Terminate(s)
                    ELSE Push(s, [Frame("reply") EXCEPT !.id = id]))
    /\ UNCHANGED <<engine, ops>>

DetachedDone ==
    /\ Idle /\ r.detached > 0
    /\ Become(FinalizeConnection([State EXCEPT !.r.detached = @ - 1,
                                               !.r.run = TRUE]))
    /\ UNCHANGED <<engine, ops>>

(* The rest of the request body comes, or reading it fails. *)
BodyComes ==
    /\ Idle /\ r.body = "reading"
    /\ \E rc \in {"OK", "ERROR"}, collect \in {"ok", "error"} :
         LET s == [State EXCEPT !.r.body = "read", !.r.run = TRUE]
         IN  Become(IF rc = "ERROR" THEN FinalizeRequest(s, "413")
                    ELSE IF r.phase = "access" THEN AccessBodyDone(s, collect)
                    ELSE ContentEventHandler(s))
    /\ UNCHANGED <<engine, ops>>

(* The client takes what is buffered, or the send timeout expires. *)
ClientReads ==
    /\ Idle /\ r.buffered
    /\ \E timedout \in BOOLEAN :
         LET s == [State EXCEPT !.r.buffered = FALSE, !.r.run = TRUE]
         IN  Become(IF timedout THEN Terminate([State EXCEPT !.r.run = TRUE])
                    ELSE WriteEventHandler(s, "sync"))
    /\ UNCHANGED <<engine, ops>>

(* The client closes the connection: the next output fails. *)
ClientCloses ==
    /\ Idle /\ ~r.error /\ r.loc.close
    /\ Become([State EXCEPT !.r.error = TRUE])
    /\ UNCHANGED <<engine, ops>>

Steps == \/ RewriteVariable \/ RunPhases
         \/ ScriptCalls \/ ScriptRejects \/ ScriptReadsVariable
         \/ ScriptReturns \/ CodeRuns
         \/ RunPosted \/ ConnectionEvent
         \/ TimerFires \/ SubrequestDone \/ DetachedDone
         \/ BodyComes \/ ClientReads

Next == Steps \/ ClientCloses

(* Scripts return, timers fire, subrequests and reads of the body end:     *)
(* nginx puts a timeout on each.  A client need not close.                 *)
Spec == Init /\ [][Next]_vars /\ WF_vars(Steps)

-----------------------------------------------------------------------------
(* The state has its type, and events have ids that were given out. *)
TypeOK ==
    /\ ctx.status \in Codes \cup {"OK", "DECLINED", "DONE", "AGAIN", "ERROR"}
    /\ ctx.read \in {"IDLE", "DEFERRED", "IN_PROGRESS"}
    /\ \A e \in ctx.events : e.id < ctx.eventId
    /\ r.phase \in {"rewrite", "access", "content", "static"}
    /\ r.weh \in {"phases", "access", "content", "empty", "writer",
                  "terminate"}
    /\ r.count \in Nat /\ r.posted \in Nat

(* The reference count of the request is the number of those who will      *)
(* finalize it: the subrequests under way, the content phase that waits    *)
(* for its handler, and the request itself until it has been finalized.    *)
(* So it is freed exactly when nobody is left to touch it, never under a   *)
(* running script, and no handler finalizes it a second time.              *)
OwnersCounted ==
    LET others == Cardinality(r.subs) + r.detached
                  + Cardinality({i \in DOMAIN stack : stack[i].fn = "phase"})
    IN  IF r.freed THEN stack = <<>>
        ELSE \/ r.count = others + 1
             \/ /\ r.count = others
                /\ r.weh \in {"empty", "terminate"}
                /\ \A i \in DOMAIN stack :
                      /\ stack[i].fn \notin {"access", "content"}
                      /\ stack[i].then # "finalize"

(* A redirect clears the context of the request.  No event that will call  *)
(* into the context of a script is pending then.                           *)
NoOrphans == r.orphans = {}

(* Nothing is left over and nothing is touched too late: references are    *)
(* counted, events have ids of their own and none outlives its context.    *)
OwnersKnown == TypeOK /\ OwnersCounted /\ NoOrphans

(* Whatever the scripts do, throw or forget, a request that nginx does not *)
(* give up on is answered: a header has been sent when it is freed.        *)
Answered == r.freed /\ ~r.term => r.headerSent

(* A request passes the access phase only when the js_access function and  *)
(* everything it waits for are over, it did not throw, and it neither      *)
(* answered nor redirected the request.                                    *)
AccessDecides ==
    [][~r.granted /\ r'.granted /\ r.loc.access =>
         /\ ctx'.events = {} /\ ~r'.failed
         /\ ~r.headerSent /\ ctx.redirect = "none"
         /\ ctx.status \in {"OK", "DECLINED"}]_vars

(* Wherever a script is, a call does the same with both engines. *)
EnginesAgree ==
    stack # <<>> /\ Top(State).fn \in ScriptFns =>
        \A op \in Calls : Allowed(Top(State).fn, op) =>
            Njs(State, op) = Qjs(State, op)

(* A request does not pass the access phase when a promise was rejected    *)
(* there and nothing handled it: the test of js_access expects 500 for an  *)
(* exception of an async function.                                         *)
RejectionStops ==
    [][~r.granted /\ r'.granted /\ r.loc.access => ~ctx.rejected]_vars

(* Every request is finished and freed. *)
Finishes == <>r.freed
=============================================================================
