---------------------------- MODULE HttpBindings ----------------------------
(***************************************************************************)
(* The methods of the request object r that a script calls, as the two     *)
(* engines implement them (nginx/ngx_http_js_module.c, ngx_js.c).  Each    *)
(* method is written twice in the code, for njs and for QuickJS, and twice *)
(* here: Njs... and Qjs....                                                *)
(*                                                                         *)
(* A method is a function of the state s of one request                    *)
(*    s.ctx    ngx_http_js_ctx_t, the module's context                     *)
(*    s.r      what the module reads and writes of ngx_http_request_t      *)
(*    s.stack  the calls in progress, the innermost last                   *)
(* and of the call op = [name, a, b, c], whose arguments are classes of    *)
(* JavaScript values.  It returns the state in which the script goes on,   *)
(* and whether an exception is pending.  A method that sends something     *)
(* pushes the frame "output": the output filters of nginx run inside the   *)
(* call (HttpRequest).                                                     *)
(***************************************************************************)
EXTENDS Integers, Sequences, FiniteSets

(* A call in progress.  fn names the C function; the other fields are the  *)
(* locals that survive a nested call.                                      *)
Frame(fn) == [fn |-> fn, id |-> 0, pend |-> FALSE, head |-> FALSE,
              in |-> <<>>, out |-> <<>>, then |-> "none"]

(* A buffer of a chain: ngx_buf_t. *)
Buf(len, last, flush) == [len |-> len, last |-> last, flush |-> flush]

NoBuf == Buf(0, FALSE, FALSE)

(* ngx_http_js_ctx_t after ngx_pcalloc() and ngx_js_ctx_init(). *)
FreshCtx == [vm |-> FALSE, status |-> "OK", redirect |-> "none",
             filter |-> FALSE, done |-> FALSE, inProgress |-> FALSE,
             read |-> "IDLE", form |-> FALSE, readEvent |-> 0,
             data |-> "none", events |-> {}, eventId |-> 1,
             rejected |-> FALSE, buf |-> NoBuf, lastOut |-> 0,
             requestBody |-> "null", retval |-> "undefined"]

Push(s, frame) == [s EXCEPT !.stack = Append(@, frame)]
Pop(s) == [s EXCEPT !.stack = SubSeq(@, 1, Len(@) - 1)]

Does(s) == [s |-> s, threw |-> FALSE]
Throws(s) == [s |-> s, threw |-> TRUE]

(* Send a header, when head is set, and a chain through the filters. *)
Outputs(s, head, chain, then) ==
    Does(Push(s, [Frame("output") EXCEPT !.head = head, !.in = chain,
                                         !.then = then]))

-----------------------------------------------------------------------------
(* Events: what a script waits for.                                        *)

(* The event gets the next id of the context and enters waiting_events. *)
AddEvent(s, kind) ==
    [s EXCEPT !.ctx.events = @ \cup {[id |-> s.ctx.eventId, kind |-> kind]},
              !.ctx.eventId = @ + 1]

(* ngx_js_del_event: the destructor stops the timer of the event. *)
DelEvent(s, id) ==
    [s EXCEPT !.ctx.events = {e \in @ : e.id # id}]

(* ngx_js_ctx_pending: jobs never stay queued after a call. *)
Pending(s) == s.ctx.events # {}

(* setTimeout(a, b): a is "function" or not, b is the delay. *)
NjsSetTimeout(s, op) ==
    IF op.a = "missing" \/ op.a # "function"
    THEN Throws(s)
    ELSE Does(AddEvent(s, "timer"))

QjsSetTimeout(s, op) ==
    IF op.a # "function" THEN Throws(s)
    ELSE IF op.b = "symbol" THEN Throws(s)
    ELSE Does(AddEvent(s, "timer"))

(* clearTimeout(a) looks the id up in waiting_events. *)
NjsClearTimeout(s, op) ==
    IF \E e \in s.ctx.events : e.id = op.a
    THEN Does(DelEvent(s, op.a))
    ELSE Throws(s)

QjsClearTimeout(s, op) ==
    LET found == {e \in s.ctx.events : e.id = op.a}
    IN  IF found = {} THEN Throws(s) ELSE Does(DelEvent(s, op.a))

-----------------------------------------------------------------------------
(* Answers.                                                                *)

(* The classes of arguments: "bad" throws when it is converted. *)
Nullish == {"undefined", "null"}

(* ngx_js_string() and ngx_qjs_string(): null and undefined are empty. *)
NjsString(v) == IF v \in Nullish THEN "" ELSE v
QjsString(v) == IF v \in Nullish THEN "" ELSE v

(* ngx_js_integer_in_range(), for the numbers a status can be. *)
IntegerInRange(v) == v # "huge"

(* njs takes numbers only; QuickJS converts, and a string may be one. *)
NjsInteger(v) == v \notin {"NaN", "bad"} /\ IntegerInRange(v)
QjsInteger(v) == v # "bad" /\ v # "NaN" /\ IntegerInRange(v)

OutOfRange == {"-1", "1000"}
Redirects == {"302"}
BelowBadRequest == {"200"} \cup Redirects

(* ngx_http_send_response() sends nothing for a redirect: it returns the   *)
(* code, and the error page of nginx carries the Location header.          *)
SendResponse(s, code) ==
    IF code \in Redirects
    THEN Does([s EXCEPT !.ctx.status = code])
    ELSE Outputs(s, TRUE, <<Buf(1, TRUE, FALSE)>>, "return")

NjsReturn(s, op) ==
    IF ~NjsInteger(op.a) THEN Throws(s)
    ELSE IF op.a \in OutOfRange THEN Throws(s)
    ELSE IF op.a \in BelowBadRequest \/ op.b \notin Nullish
    THEN IF NjsString(op.b) = "bad" THEN Throws(s) ELSE SendResponse(s, op.a)
    ELSE Does([s EXCEPT !.ctx.status = op.a])

\* Mutant: the text of a code below 400 is only sent when there is one.
QjsReturnCode(s, op) ==
    IF ~QjsInteger(op.a) \/ op.a \in OutOfRange THEN Throws(s)
    ELSE IF op.b \in Nullish THEN Does([s EXCEPT !.ctx.status = op.a])
    ELSE IF QjsString(op.b) = "bad" THEN Throws(s)
    ELSE SendResponse(s, op.a)

QjsReturn(s, op) ==
    IF ~QjsInteger(op.a) \/ op.a \in OutOfRange THEN Throws(s)
    ELSE IF op.a \notin BelowBadRequest /\ op.b \in Nullish
    THEN Does([s EXCEPT !.ctx.status = op.a])
    ELSE IF QjsString(op.b) = "bad" THEN Throws(s)
    ELSE SendResponse(s, op.a)

NjsDecline(s, op) == Does([s EXCEPT !.ctx.status = "DECLINED"])
QjsDecline(s, op) == Does([s EXCEPT !.ctx.status = "DECLINED"])

NjsSendHeader(s, op) == Outputs(s, TRUE, <<>>, "send")
QjsSendHeader(s, op) == Outputs(s, TRUE, <<>>, "send")

(* send(...a): empty parts make no buffer; a part that cannot be converted *)
(* throws before anything is sent.                                         *)
NjsSend(s, op) ==
    LET sent == {i \in DOMAIN op.a : NjsString(op.a[i]) # ""}
    IN  IF s.ctx.filter \/ \E i \in sent : NjsString(op.a[i]) = "bad"
        THEN Throws(s)
        ELSE Outputs(s, FALSE, [i \in 1..Cardinality(sent) |-> Buf(1, FALSE, FALSE)],
                     "send")

QjsSend(s, op) ==
    LET parts == [i \in DOMAIN op.a |-> QjsString(op.a[i])]
        sent == {i \in DOMAIN parts : parts[i] # ""}
    IN  IF s.ctx.filter THEN Throws(s)
        ELSE IF \E i \in DOMAIN parts : parts[i] = "bad" THEN Throws(s)
        ELSE Outputs(s, FALSE, [i \in 1..Cardinality(sent) |-> Buf(1, FALSE, FALSE)],
                     "send")

(* finish(): ngx_http_send_special() makes the last buffer. *)
NjsFinish(s, op) == Outputs(s, FALSE, <<Buf(0, TRUE, FALSE)>>, "finish")
QjsFinish(s, op) == Outputs(s, FALSE, <<Buf(0, TRUE, FALSE)>>, "finish")

(* internalRedirect(a): "named" starts with @. *)
NjsInternalRedirect(s, op) ==
    IF s.ctx.filter \/ NjsString(op.a) = "bad" \/ NjsString(op.a) = ""
    THEN Throws(s)
    ELSE Does([s EXCEPT !.ctx.redirect = op.a, !.ctx.status = "DONE"])

(* QuickJS converts into ctx->redirect_uri and takes an empty uri. *)
QjsInternalRedirect(s, op) ==
    IF s.ctx.filter THEN Throws(s)
    ELSE IF QjsString(op.a) = "bad" THEN Throws(s)
    ELSE Does([s EXCEPT !.ctx.redirect = IF QjsString(op.a) = "" THEN "none"
                                         ELSE op.a,
                        !.ctx.status = "DONE"])

NjsSetReturnValue(s, op) == Does([s EXCEPT !.ctx.retval = op.a])
QjsSetReturnValue(s, op) == Does([s EXCEPT !.ctx.retval = op.a])

-----------------------------------------------------------------------------
(* The body filter's own methods.                                          *)

NjsDone(s, op) ==
    IF ~s.ctx.filter THEN Throws(s) ELSE Does([s EXCEPT !.ctx.done = TRUE])
QjsDone(s, op) ==
    IF s.ctx.filter THEN Does([s EXCEPT !.ctx.done = TRUE]) ELSE Throws(s)

(* An option of sendBuffer: "absent" or a Boolean value. *)
Truthy(v) == v = "true"

(* The frame of the body filter whose chain ctx->last_out extends. *)
AppendOut(s, buf) == [s EXCEPT !.stack[s.ctx.lastOut].out = Append(@, buf)]

(* sendBuffer(a, {flush: b, last: c}); "none" for both: no options. *)
NjsSendBuffer(s, op) ==
    LET flush == IF op.b \in {"none", "absent"} THEN s.ctx.buf.flush
                 ELSE Truthy(op.b)
        last == IF op.c \in {"none", "absent"} THEN s.ctx.buf.last
                ELSE Truthy(op.c)
    IN  IF ~s.ctx.filter \/ NjsString(op.a) = "bad" THEN Throws(s)
        ELSE Does(AppendOut(s, Buf(IF NjsString(op.a) = "" THEN 0 ELSE 1,
                                   last, flush)))

(* QuickJS reads both options as soon as there is an options object: an    *)
(* absent one is undefined, which is false.  It makes text of null and     *)
(* undefined.                                                              *)
QjsSendBuffer(s, op) ==
    LET given == op.b # "none" \/ op.c # "none"
        flush == IF given THEN Truthy(op.b) ELSE s.ctx.buf.flush
        last == IF given THEN Truthy(op.c) ELSE s.ctx.buf.last
    IN  IF ~s.ctx.filter \/ op.a = "bad" THEN Throws(s)
        ELSE Does(AppendOut(s, Buf(IF op.a = "" THEN 0 ELSE 1,
                                   last, flush)))

-----------------------------------------------------------------------------
(* The request body.                                                       *)

(* ngx_http_js_collect_body: what nginx holds of the body is gathered once *)
(* and kept.  op.c = "error": the temporary file cannot be read.           *)
CollectBody(s) ==
    IF s.ctx.data # "none" THEN s
    ELSE [s EXCEPT !.ctx.data = IF s.r.body = "read" THEN "whole" ELSE "part"]

(* Body conversions: "json" and "form" parse, and may fail. *)
Parses(op) == op.a \in {"json", "form"}

NjsBodyToValue(s, op) ==
    IF Parses(op) /\ op.b = "invalid" THEN Throws(s) ELSE Does(s)
QjsBodyToValue(s, op) ==
    IF op.b = "invalid" /\ Parses(op) THEN Throws(s) ELSE Does(s)

(* readRequestText(), ...ArrayBuffer(), ...JSON(): op.a is the type. *)
NjsReadRequestBody(s, op) ==
    IF s.r.body # "none"
    THEN IF op.c = "error" THEN Throws(s)
         ELSE NjsBodyToValue(CollectBody(s), op)
    ELSE IF s.ctx.readEvent # 0 THEN Throws(s)
    ELSE Does([AddEvent(s, "read") EXCEPT !.ctx.readEvent = s.ctx.eventId,
                                          !.ctx.read = "DEFERRED",
                                          !.ctx.form = FALSE])

QjsReadRequestBody(s, op) ==
    IF \/ s.r.body # "none" /\ op.c = "error"
       \/ s.r.body = "none" /\ s.ctx.readEvent # 0
    THEN Throws(s)
    ELSE IF s.r.body # "none" THEN QjsBodyToValue(CollectBody(s), op)
    ELSE Does([AddEvent(s, "read") EXCEPT
                 !.ctx.readEvent = s.ctx.eventId,
                 !.ctx.read = "DEFERRED", !.ctx.form = FALSE])

(* readRequestForm(b): the options are checked before the body is looked   *)
(* at.  "keys0" is maxKeys: 0.                                             *)
NjsFormMaxKeys(b) == b \notin {"number", "keys0", "keysbad"}
QjsFormMaxKeys(b) == ~(b \in {"number", "keys0", "keysbad"})

NjsReadRequestForm(s, op) ==
    IF ~NjsFormMaxKeys(op.b) THEN Throws(s)
    ELSE IF s.r.body # "none"
    THEN IF op.c = "error" THEN Throws(s)
         ELSE NjsBodyToValue(CollectBody(s), op)
    ELSE IF s.ctx.readEvent # 0 THEN Throws(s)
    ELSE Does([AddEvent(s, "read") EXCEPT !.ctx.readEvent = s.ctx.eventId,
                                          !.ctx.read = "DEFERRED",
                                          !.ctx.form = TRUE])

QjsReadRequestForm(s, op) ==
    IF \/ ~QjsFormMaxKeys(op.b)
       \/ s.r.body # "none" /\ op.c = "error"
       \/ s.r.body = "none" /\ s.ctx.readEvent # 0
    THEN Throws(s)
    ELSE IF s.r.body # "none" THEN QjsBodyToValue(CollectBody(s), op)
    ELSE Does([AddEvent(s, "read") EXCEPT
                 !.ctx.readEvent = s.ctx.eventId,
                 !.ctx.read = "DEFERRED", !.ctx.form = TRUE])

(* requestText and requestBuffer keep the last value made; op.a is "text"  *)
(* or "buffer".                                                            *)
NjsGetRequestBody(s, op) ==
    IF s.ctx.requestBody = op.a THEN Does(s)
    ELSE IF s.r.body = "none" THEN Does(s)
    ELSE IF op.c = "error" THEN Throws(s)
    ELSE Does([CollectBody(s) EXCEPT !.ctx.requestBody = op.a])

QjsGetRequestBody(s, op) ==
    IF (op.a = "text") = (s.ctx.requestBody = "text")
       /\ s.ctx.requestBody # "null"
    THEN Does(s)
    ELSE IF s.r.body = "none" THEN Does(s)
    ELSE IF op.c = "error" THEN Throws(s)
    ELSE Does([CollectBody(s) EXCEPT !.ctx.requestBody = op.a])

-----------------------------------------------------------------------------
(* subrequest(uri, a, b): a is the second argument by its kind ("options"  *)
(* and "detached" are objects), b the third; op.c is the uri, or "fail"    *)
(* when nginx cannot create the subrequest.                                *)

(* ngx_http_subrequest() takes a reference on the main request; a detached *)
(* subrequest has no event and nobody waits for it.                        *)
StartSubrequest(s, kind) ==
    IF kind = "detached"
    THEN [s EXCEPT !.r.count = @ + 1, !.r.detached = @ + 1]
    ELSE [AddEvent(s, kind) EXCEPT
            !.r.count = @ + 1, !.r.subs = @ \cup {s.ctx.eventId}]

NjsSubrequest(s, op) ==
    LET callback == op.a = "function" \/ op.b = "function"
    IN  IF \/ op.c \in {"bad", "empty"}
           \/ op.a \in {"number", "badoption"}
           \/ op.c = "unsafe"
           \/ op.a # "function" /\ op.b \notin {"undefined", "function"}
           \/ op.a = "detached" /\ callback
           \/ op.c = "fail"
        THEN Throws(s)
        ELSE Does(StartSubrequest(s, IF op.a = "detached" THEN "detached"
                                     ELSE IF callback THEN "callback"
                                     ELSE "promise"))

QjsSubrequest(s, op) ==
    LET callback == IF op.a = "function" THEN "function"
                    ELSE IF op.b \in Nullish THEN "undefined"
                    ELSE op.b
        detached == op.a = "detached"
    IN  IF \/ op.c \in {"bad", "empty", "unsafe", "fail"}
           \/ op.a \in {"number", "badoption"}
           \/ callback \notin {"function", "undefined"}
           \/ detached /\ callback # "undefined"
        THEN Throws(s)
        ELSE Does(StartSubrequest(s, IF detached THEN "detached"
                                     ELSE IF callback = "undefined"
                                     THEN "promise" ELSE "callback"))
=============================================================================
