---------------------------- MODULE FetchObjects ----------------------------
(***************************************************************************)
(* The Headers, Request and Response objects of fetch(), written once for  *)
(* njs (nginx/ngx_js_fetch.c) and once for QuickJS (ngx_qjs_fetch.c).      *)
(*                                                                         *)
(* Headers keep two structures over the same elements: a list in the order *)
(* of the calls, where a deleted element stays with its hash zeroed, and a *)
(* chain (next) through the elements of one name.  get() walks the chain;  *)
(* a copy and a request on the wire take the list.                         *)
(*                                                                         *)
(* A key is [name, up], compared without up; a text is a sequence of       *)
(* words, where " " is white space and "\n" a control character.           *)
(***************************************************************************)
EXTENDS Integers, Sequences

CONSTANTS FetchNames,      \* the header names a script uses
          FetchValues,     \* and the values it gives them
          HeadersInits,    \* arguments of new Headers()
          RequestInits,    \* second arguments of new Request() and fetch()
          RequestUrls,     \* first ones, when they are strings
          ResponseInits,   \* second arguments of new Response()
          BodyArgs,        \* bodies, and absent
          MaxFetchCalls    \* calls of a script

TextPlain == <<"text/plain">>
ContentType == [name |-> "Content-Type", up |-> TRUE]
NoHeaders == [list |-> <<>>, guard |-> "NONE", ct |-> 0]
Did(h, err) == [h |-> h, err |-> err]

FirstLive(list, name) ==
    LET hits == {i \in DOMAIN list : list[i].live /\ list[i].key.name = name}
    IN  IF hits = {} THEN 0 ELSE CHOOSE i \in hits : \A j \in hits : i <= j

(* The elements of a chain, from one of them on. *)
RECURSIVE ChainFrom(_, _)
ChainFrom(list, i) ==
    IF i = 0 THEN <<>> ELSE <<i>> \o ChainFrom(list, list[i].next)

RECURSIVE Unlinked(_, _)
Unlinked(list, i) ==
    IF list[i].next = 0 THEN list
    ELSE Unlinked([list EXCEPT ![i].next = 0], list[i].next)

-----------------------------------------------------------------------------
(* What both engines share (nginx/ngx_js_http.c).                          *)

RECURSIVE ngx_js_http_trim(_)
ngx_js_http_trim(text) ==
    IF text # <<>> /\ Head(text) \in {" ", "\n"} THEN ngx_js_http_trim(Tail(text))
    ELSE IF text # <<>> /\ text[Len(text)] \in {" ", "\n"}
    THEN ngx_js_http_trim(SubSeq(text, 1, Len(text) - 1)) ELSE text

RECURSIVE ngx_js_http_trim_ows(_)
ngx_js_http_trim_ows(text) ==
    IF text # <<>> /\ Head(text) = " " THEN ngx_js_http_trim_ows(Tail(text))
    ELSE IF text # <<>> /\ text[Len(text)] = " "
    THEN ngx_js_http_trim_ows(SubSeq(text, 1, Len(text) - 1)) ELSE text

ngx_js_check_header_name(name) == name # "a b"
ngx_js_check_request_line_component(text) ==
    \A i \in DOMAIN text : text[i] \notin {" ", "\n"}
ngx_js_check_header_value(text) == \A i \in DOMAIN text : text[i] # "\n"

(* ngx_parse_url() takes a host. *)
ngx_parse_url(text) == text = <<"host">>

LiveSeq(list) == SelectSeq(list, LAMBDA e : e.live)

(* What goes out: a Host and a User-Agent first, then the rest; a content  *)
(* length and a connection header are nginx's own.                         *)
ngx_js_fetch_append_request_headers(list) ==
    SelectSeq(LiveSeq(list), LAMBDA e :
        e.key.name \notin {"Host", "Content-Length", "Connection"})

ngx_js_fetch_build_request(request) ==
    LET live == LiveSeq(request.headers.list)
        first(name, default) ==
            LET own == SelectSeq(live, LAMBDA e : e.key.name = name)
            IN  IF own = <<>> THEN <<<<name, default>>>>
                ELSE [i \in DOMAIN own |-> <<name, own[i].value>>]
        rest == ngx_js_fetch_append_request_headers(request.headers.list)
        length == IF request.body # <<>> THEN <<<<"Content-Length", request.body>>>>
                  ELSE IF request.method.m \in {"POST", "PUT"}
                  THEN <<<<"Content-Length", <<"0">>>>>> ELSE <<>>
    IN  first("Host", <<"host">>) \o first("User-Agent", <<"nginx-js">>)
        \o [i \in DOMAIN rest |-> <<rest[i].key.name, rest[i].value>>] \o length

(* A response that has come: its headers cannot be appended to any more. *)
Answered == [code |-> 200, text |-> <<"OK">>, body |-> <<"7">>, used |-> FALSE,
             headers |-> [list |-> <<[key |-> [name |-> "X", up |-> TRUE],
                                      value |-> <<"a">>, live |-> TRUE,
                                      next |-> 0]>>,
                          guard |-> "IMMUTABLE", ct |-> 0]]

-----------------------------------------------------------------------------
(* njs: Headers.                                                           *)

ngx_js_headers_append(h, key, text) ==
    LET value == ngx_js_http_trim_ows(text)
        first == FirstLive(h.list, key.name)
        ends == ChainFrom(h.list, first)
        n == Len(h.list) + 1
        linked == IF first = 0 THEN h.list
                  ELSE [h.list EXCEPT ![ends[Len(ends)]].next = n]
    IN  IF \/ ~ngx_js_check_header_name(key.name)
           \/ ~ngx_js_check_header_value(value)
           \/ h.guard = "IMMUTABLE"
        THEN Did(h, "TypeError")
        ELSE Did([h EXCEPT !.list = Append(linked, [key |-> key, value |-> value,
                                                    live |-> TRUE, next |-> 0]),
                           !.ct = IF key.name = "Content-Type" THEN n ELSE @], "")

RECURSIVE ngx_js_headers_inherit(_, _)
ngx_js_headers_inherit(h, list) ==
    IF list = <<>> THEN Did(h, "")
    ELSE LET e == Head(list)
             r == IF e.live THEN ngx_js_headers_append(h, e.key, e.value)
                  ELSE Did(h, "")
         IN  IF r.err # "" THEN r ELSE ngx_js_headers_inherit(r.h, Tail(list))

(* Pairs of an array, each with its length, or the properties of an object. *)
RECURSIVE NjsFillPairs(_, _)
NjsFillPairs(h, pairs) ==
    IF pairs = <<>> THEN Did(h, "")
    ELSE IF Head(pairs).len # 2 THEN Did(h, "TypeError")
    ELSE LET r == ngx_js_headers_append(h, Head(pairs).key, Head(pairs).value)
         IN  IF r.err # "" THEN r ELSE NjsFillPairs(r.h, Tail(pairs))

ngx_js_headers_fill(h, init) ==
    IF init.t = "Headers" THEN ngx_js_headers_inherit(h, init.list)
    ELSE NjsFillPairs(h, init.pairs)

ngx_js_ext_headers_constructor(init) ==
    IF init.t = "none" THEN Did(NoHeaders, "")
    ELSE ngx_js_headers_fill(NoHeaders, init)

ngx_headers_js_get(h, name) ==
    LET chain == ChainFrom(h.list, FirstLive(h.list, name))
    IN  [i \in DOMAIN chain |-> h.list[chain[i]].value]

ngx_headers_js_ext_delete(h, name) ==
    Did([h EXCEPT !.list = [i \in DOMAIN @ |->
                     IF @[i].key.name = name THEN [@[i] EXCEPT !.live = FALSE]
                     ELSE @[i]],
                  !.ct = IF name = "Content-Type" THEN 0 ELSE @], "")

\* Mutant: the values behind the first one stay in the chain.
ngx_headers_js_ext_setLinked(h, key, value) ==
    LET first == FirstLive(h.list, key.name)
    IN  IF first = 0 THEN ngx_js_headers_append(h, key, value)
        ELSE Did([h EXCEPT !.list[first].value = value], "")

(* The first element gets the value as it is; the others leave the chain   *)
(* and stay in the list.                                                   *)
ngx_headers_js_ext_set(h, key, value) ==
    LET first == FirstLive(h.list, key.name)
    IN  IF first = 0 THEN ngx_js_headers_append(h, key, value)
        ELSE Did([h EXCEPT !.list = [Unlinked(@, first) EXCEPT
                                       ![first].value = value]], "")

(* Keys, each name once. *)
RECURSIVE ngx_headers_js_ext_keys(_, _)
ngx_headers_js_ext_keys(list, keys) ==
    IF list = <<>> THEN keys
    ELSE ngx_headers_js_ext_keys(Tail(list),
            IF ~Head(list).live \/ \E i \in DOMAIN keys :
                                      keys[i].name = Head(list).key.name
            THEN keys ELSE Append(keys, Head(list).key))

(* A total order of names and spellings, for the sort. *)
Rank(key) ==
    (CASE key.name = "Content-Type" -> 0 [] key.name = "Host" -> 2
       [] key.name = "User-Agent" -> 4 [] OTHER -> 6)
    + (IF key.up THEN 0 ELSE 1)

(* Insertion sort. *)
RECURSIVE ngx_js_sort(_)
ngx_js_sort(keys) ==
    IF Len(keys) <= 1 THEN keys
    ELSE LET front == ngx_js_sort(SubSeq(keys, 1, Len(keys) - 1))
             last == keys[Len(keys)]
             k == CHOOSE i \in 0..Len(front) :
                    /\ \A j \in 1..i : Rank(front[j]) <= Rank(last)
                    /\ \A j \in (i + 1)..Len(front) : Rank(front[j]) > Rank(last)
         IN  SubSeq(front, 1, k) \o <<last>> \o SubSeq(front, k + 1, Len(front))

ngx_headers_js_ext_for_each(h) ==
    LET keys == ngx_js_sort(ngx_headers_js_ext_keys(h.list, <<>>))
    IN  [i \in DOMAIN keys |-> <<keys[i], ngx_headers_js_get(h, keys[i].name)>>]

-----------------------------------------------------------------------------
(* njs: Request and Response.                                              *)

Forbidden == {"CONNECT", "TRACE", "TRACK"}
Normalized == {"DELETE", "GET", "HEAD", "OPTIONS", "POST", "PUT"}

(* A method is [m, up]: its name and whether it is in upper case.  "" and  *)
(* "a b" are no methods.                                                   *)
ngx_js_method_process(method) ==
    CASE method.m \in {"", "a b"} \cup Forbidden -> <<>>
      [] method.m \in Normalized -> <<[method EXCEPT !.up = TRUE]>>
      [] OTHER -> <<method>>

(* A flag: a known value, or none. *)
ngx_fetch_flag_set(value) == IF value = "unknown" THEN <<>> ELSE <<value>>

Flags == {"cache", "credentials", "mode"}
NewRequest == [url |-> <<>>, method |-> [m |-> "GET", up |-> TRUE], body |-> <<>>,
               used |-> FALSE, flags |-> [f \in Flags |-> "first"],
               headers |-> [NoHeaders EXCEPT !.guard = "REQUEST"]]
Built(request, err) == [request |-> request, err |-> err]
Refused == Built(NewRequest, "TypeError")

UrlOk(url) == /\ Len(url) > 1 /\ url[1] \in {"http://", "https://"}
              /\ ngx_parse_url(Tail(url))

(* What the second argument changes: method, flags, headers, body. *)
NjsTyped(fill, body) ==
    IF fill.err = "" /\ fill.h.ct = 0 /\ body.t = "string"
    THEN ngx_js_headers_append(fill.h, ContentType, TextPlain) ELSE fill

NjsBuilt(request, init, method, typed) ==
    LET given == {f \in Flags : init.flags[f] # "absent"}
    IN  IF \/ method = <<>> \/ init.headers.t = "text" \/ typed.err # ""
           \/ \E f \in given : ngx_fetch_flag_set(init.flags[f]) = <<>>
        THEN Refused
        ELSE Built([request EXCEPT
                !.method = method[1],
                !.flags = [f \in Flags |-> IF f \in given THEN init.flags[f]
                                           ELSE @[f]],
                !.headers = typed.h,
                !.body = IF init.body.t = "absent" THEN @ ELSE init.body.v], "")

NjsInit(request, init) ==
    NjsBuilt(request, init,
             ngx_js_method_process(IF init.method = <<>> THEN request.method
                                   ELSE init.method[1]),
             NjsTyped(IF init.headers.t = "none" THEN Did(request.headers, "")
                      ELSE ngx_js_headers_fill([NoHeaders EXCEPT !.guard = "REQUEST"],
                                               init.headers), init.body))

(* Once the URL and the headers are copied. *)
NjsRequest(request, copied, init) ==
    IF ~copied \/ ~UrlOk(request.url) THEN Refused
    ELSE IF init.t = "none" THEN Built(request, "") ELSE NjsInit(request, init)

NjsCopied(request, copy, init) ==
    NjsRequest([request EXCEPT !.headers = copy.h, !.url = ngx_js_http_trim(@)],
               copy.err = "", init)

ngx_js_request_constructor(input, init) ==
    CASE input.t = "string" ->
           NjsRequest([NewRequest EXCEPT !.url = ngx_js_http_trim(input.url)], TRUE,
                      init)
      [] input.t = "Request" ->
           NjsCopied(input.request, ngx_js_headers_inherit(NewRequest.headers,
                       input.request.headers.list), init)
      [] OTHER -> Refused

NewResponse == [code |-> 200, text |-> <<>>, body |-> <<>>, used |-> FALSE,
                headers |-> [NoHeaders EXCEPT !.guard = "RESPONSE"]]
Failed(err) == Built(NewResponse, err)

StatusTextOk(text) == \A i \in DOMAIN text : text[i] # "\n"

(* A string body adds its type, whatever the headers say. *)
NjsResponse(body, init, typed) ==
    LET given == init.t = "object"
    IN  IF given /\ init.code \notin 200..599 THEN Failed("RangeError")
        ELSE IF given /\ ~StatusTextOk(init.text) THEN Failed("TypeError")
        ELSE IF given /\ init.headers.t = "text" THEN Failed("TypeError")
        ELSE IF typed.err # "" THEN Failed("TypeError")
        ELSE Built([NewResponse EXCEPT
                !.code = IF given THEN init.code ELSE @,
                !.text = IF given THEN init.text ELSE @,
                !.body = IF body.t = "absent" THEN @ ELSE body.v,
                !.headers = typed.h], "")

NjsBody(fill, body) ==
    IF fill.err = "" /\ body.t = "string"
    THEN ngx_js_headers_append(fill.h, ContentType, TextPlain) ELSE fill

ngx_js_ext_response_constructor(body, init) ==
    NjsResponse(body, init,
        NjsBody(IF init.t = "none" \/ init.headers.t = "none"
                THEN Did(NewResponse.headers, "")
                ELSE ngx_js_headers_fill(NewResponse.headers, init.headers), body))

(* JSON.parse() takes a number. *)
JsonParse(text) == IF text = <<"7">> THEN <<"number">> ELSE <<>>

(* text(), json(), arrayBuffer(): the value, and the object with its body  *)
(* taken; a second call throws, and bad JSON is a rejection.               *)
ngx_request_js_ext_body(o, type) ==
    IF o.used THEN [o |-> o, out |-> <<"throw">>]
    ELSE IF type = "json" /\ JsonParse(o.body) = <<>>
    THEN [o |-> [o EXCEPT !.used = TRUE], out |-> <<"rejected">>]
    ELSE [o |-> [o EXCEPT !.used = TRUE],
          out |-> <<type, IF type = "json" THEN JsonParse(o.body) ELSE o.body>>]

ngx_response_js_ext_body(o, type) ==
    LET taken == [o EXCEPT !.used = TRUE]
    IN  CASE o.used -> [o |-> o, out |-> <<"throw">>]
          [] ~o.used /\ type = "json" ->
               [o |-> taken, out |-> IF JsonParse(o.body) = <<>> THEN <<"rejected">>
                                     ELSE <<"json", JsonParse(o.body)>>]
          [] ~o.used /\ type # "json" -> [o |-> taken, out |-> <<type, o.body>>]

ngx_response_js_ext_ok(response) == response.code >= 200 /\ response.code < 300

(* fetch(input, init): what is sent, or nothing when it is refused. *)
NjsSend(r) == IF r.err # "" THEN <<>> ELSE ngx_js_fetch_build_request(r.request)

ngx_js_ext_fetch(input, init) ==
    NjsSend(ngx_js_request_constructor(input, init))

-----------------------------------------------------------------------------
(* QuickJS.                                                                *)

ngx_qjs_headers_append(h, key, text) ==
    LET value == ngx_js_http_trim_ows(text)
        ph == ChainFrom(h.list, FirstLive(h.list, key.name))
        h2 == Append(h.list, [key |-> key, value |-> value, live |-> TRUE,
                              next |-> 0])
    IN  IF /\ ngx_js_check_header_name(key.name)
           /\ ngx_js_check_header_value(value)
           /\ h.guard # "IMMUTABLE"
        THEN Did([h EXCEPT
                    !.list = IF ph = <<>> THEN h2
                             ELSE [h2 EXCEPT ![ph[Len(ph)]].next = Len(h2)],
                    !.ct = IF key.name = "Content-Type" THEN Len(h2) ELSE @], "")
        ELSE Did(h, "TypeError")

\* Mutant: deleted elements are copied too.
RECURSIVE ngx_qjs_headers_inheritDead(_, _)
ngx_qjs_headers_inheritDead(h, list) ==
    IF list = <<>> THEN Did(h, "")
    ELSE LET r == ngx_qjs_headers_append(h, Head(list).key, Head(list).value)
         IN  IF r.err # "" THEN r ELSE ngx_qjs_headers_inheritDead(r.h, Tail(list))

RECURSIVE ngx_qjs_headers_inherit(_, _)
ngx_qjs_headers_inherit(h, list) ==
    CASE list = <<>> -> Did(h, "")
      [] list # <<>> /\ ~Head(list).live -> ngx_qjs_headers_inherit(h, Tail(list))
      [] OTHER ->
           LET r == ngx_qjs_headers_append(h, Head(list).key, Head(list).value)
           IN  IF r.err = "" THEN ngx_qjs_headers_inherit(r.h, Tail(list)) ELSE r

ngx_qjs_headers_fill_header_free(h, pair) ==
    ngx_qjs_headers_append(h, pair.key, pair.value)

RECURSIVE ngx_qjs_headers_fill(_, _)
ngx_qjs_headers_fill(h, init) ==
    CASE init.t = "Headers" -> ngx_qjs_headers_inherit(h, init.list)
      [] init.t # "Headers" /\ init.pairs = <<>> -> Did(h, "")
      [] OTHER ->
           LET r == ngx_qjs_headers_fill_header_free(h, init.pairs[1])
           IN  CASE init.pairs[1].len # 2 -> Did(h, "TypeError")
                 [] init.pairs[1].len = 2 /\ r.err # "" -> r
                 [] OTHER -> ngx_qjs_headers_fill(r.h,
                               [init EXCEPT !.pairs = Tail(@)])

ngx_qjs_fetch_headers_ctor(init) ==
    IF init.t # "none" THEN ngx_qjs_headers_fill(NoHeaders, init)
    ELSE Did(NoHeaders, "")

ngx_qjs_headers_get(h, name) ==
    LET ph == ChainFrom(h.list, FirstLive(h.list, name))
    IN  [i \in DOMAIN ph |-> h.list[ph[i]].value]

ngx_qjs_ext_fetch_headers_delete(h, name) ==
    LET left == [h EXCEPT !.list = [i \in DOMAIN @ |->
                   [@[i] EXCEPT !.live = @ /\ h.list[i].key.name # name]]]
    IN  Did(IF name = "Content-Type" THEN [left EXCEPT !.ct = 0] ELSE left, "")

ngx_qjs_ext_fetch_headers_set(h, key, value) ==
    LET i == FirstLive(h.list, key.name)
    IN  IF i # 0
        THEN Did([h EXCEPT !.list = Unlinked([@ EXCEPT ![i].value = value], i)],
                 "")
        ELSE ngx_qjs_headers_append(h, key, value)

RECURSIVE ngx_qjs_headers_ext_keys(_)
ngx_qjs_headers_ext_keys(list) ==
    IF list = <<>> THEN <<>>
    ELSE LET n == Len(list)
             keys == ngx_qjs_headers_ext_keys(SubSeq(list, 1, n - 1))
         IN  IF list[n].live /\ \A k \in DOMAIN keys :
                                    keys[k].name # list[n].key.name
             THEN Append(keys, list[n].key) ELSE keys

(* Object.keys(): each spelling once. *)
ngx_qjs_fetch_headers_own_property_names(list) ==
    {list[i].key : i \in {j \in DOMAIN list : list[j].live}}

(* Array.prototype.sort() *)
ngx_qjs_ext_fetch_headers_foreach(h) ==
    LET keys == ngx_js_sort(ngx_qjs_headers_ext_keys(h.list))
    IN  [k \in DOMAIN keys |-> <<keys[k], ngx_qjs_headers_get(h, keys[k].name)>>]

ngx_qjs_method_process(method) ==
    IF method.m \in {"", "a b"} \/ method.m \in Forbidden THEN <<>>
    ELSE <<[method EXCEPT !.up = @ \/ method.m \in Normalized]>>

(* A flag that is not given is the first of its values. *)
ngx_qjs_fetch_flag_set(value) ==
    CASE value = "absent" -> <<"first">> [] value = "unknown" -> <<>>
      [] OTHER -> <<value>>

QjsTyped(kept, body) ==
    CASE kept.err # "" -> kept
      [] kept.err = "" /\ (kept.h.ct # 0 \/ body.t # "string") -> kept
      [] OTHER -> ngx_qjs_headers_append(kept.h, ContentType, TextPlain)

QjsBuilt(request, init, method, typed) ==
    CASE \/ method = <<>>
         \/ \E f \in Flags : ngx_qjs_fetch_flag_set(init.flags[f]) = <<>>
         \/ init.headers.t = "text" -> Refused
      [] OTHER ->
           IF typed.err # "" THEN Refused
           ELSE Built([request EXCEPT
                  !.method = method[1], !.headers = typed.h,
                  !.flags = [f \in Flags |->
                               ngx_qjs_fetch_flag_set(init.flags[f])[1]],
                  !.body = IF init.body.t = "absent" THEN @ ELSE init.body.v], "")

QjsInit(request, init) ==
    QjsBuilt(request, init,
             ngx_qjs_method_process((<<request.method>> \o init.method)
                                       [1 + Len(init.method)]),
             QjsTyped(IF init.headers.t # "none"
                      THEN ngx_qjs_headers_fill([NoHeaders EXCEPT !.guard = "REQUEST"],
                                                init.headers)
                      ELSE Did(request.headers, ""), init.body))

QjsRequest(request, init) ==
    IF ~UrlOk(request.url) THEN Refused
    ELSE IF init.t = "object" THEN QjsInit(request, init) ELSE Built(request, "")

QjsCopied(request, copy, init) ==
    IF copy.err # "" THEN Refused
    ELSE QjsRequest([request EXCEPT !.url = ngx_js_http_trim(@),
                                    !.headers = copy.h], init)

ngx_qjs_request_ctor(input, init) ==
    CASE input.t \in {"undefined", "other"} -> Refused
      [] input.t = "string" ->
           QjsRequest([NewRequest EXCEPT !.url = ngx_js_http_trim(input.url)], init)
      [] input.t = "Request" ->
           QjsCopied(input.request,
                     ngx_qjs_headers_inherit(NewRequest.headers,
                                             input.request.headers.list), init)

QjsResponse(body, init, typed) ==
    LET done == [NewResponse EXCEPT
                   !.code = IF init.t = "object" THEN init.code ELSE @,
                   !.text = IF init.t = "object" THEN init.text ELSE @,
                   !.headers = typed.h,
                   !.body = IF body.t = "absent" THEN @ ELSE body.v]
    IN  CASE done.code < 200 \/ done.code > 599 -> Failed("RangeError")
          [] done.code \in 200..599 /\ ~StatusTextOk(done.text) ->
               Failed("TypeError")
          [] OTHER ->
               IF (init.t = "object" /\ init.headers.t = "text") \/ typed.err # ""
               THEN Failed("TypeError") ELSE Built(done, "")

QjsBody(fill, body) ==
    IF fill.err # "" \/ body.t # "string" THEN fill
    ELSE ngx_qjs_headers_append(fill.h, ContentType, TextPlain)

ngx_qjs_fetch_response_ctor(body, init) ==
    QjsResponse(body, init,
        QjsBody(IF init.t = "object" /\ init.headers.t # "none"
                THEN ngx_qjs_headers_fill(NewResponse.headers, init.headers)
                ELSE Did(NewResponse.headers, ""), body))

ngx_qjs_ext_fetch_request_body(o, type) ==
    CASE o.used -> [o |-> o, out |-> <<"throw">>]
      [] OTHER ->
           LET value == IF type = "json" THEN JsonParse(o.body) ELSE o.body
           IN  [o |-> [o EXCEPT !.used = TRUE],
                out |-> IF type = "json" /\ value = <<>> THEN <<"rejected">>
                        ELSE <<type, value>>]

(* For JSON a zero byte is put behind the body, and not parsed. *)
ngx_qjs_ext_fetch_response_body(o, type) ==
    LET zeroed == Append(o.body, "NUL")
        string == IF type = "json" THEN SubSeq(zeroed, 1, Len(zeroed) - 1) ELSE o.body
    IN  IF o.used THEN [o |-> o, out |-> <<"throw">>]
        ELSE [o |-> [o EXCEPT !.used = TRUE],
              out |-> CASE type # "json" -> <<type, string>>
                        [] type = "json" /\ JsonParse(string) = <<>> ->
                             <<"rejected">>
                        [] OTHER -> <<type, JsonParse(string)>>]

ngx_qjs_ext_fetch_response_ok(response) == response.code \in 200..299

QjsSend(r) == IF r.err = "" THEN ngx_js_fetch_build_request(r.request) ELSE <<>>

ngx_qjs_ext_fetch(input, init) == QjsSend(ngx_qjs_request_ctor(input, init))

-----------------------------------------------------------------------------
(* A script with one object of each kind, in both engines at once.  ref    *)
(* holds the headers as the calls describe them: [name, value, hidden], in *)
(* order; set() hides the values it does not replace, and a copy of the    *)
(* object shows them again.                                                *)

VARIABLE fetched

Objs == {"headers", "request", "response"}
Engine == [headers |-> NoHeaders, request |-> NewRequest,
           response |-> NewResponse]
FetchIdle == [on |-> FALSE, njs |-> Engine, qjs |-> Engine,
              ref |-> [o \in Objs |-> <<>>], out |-> <<>>, sent |-> <<>>,
              flagged |-> FALSE, calls |-> 0]

(* The script has a Request and a Response to start with. *)
FetchInit ==
    fetched = [FetchIdle EXCEPT !.on = TRUE,
                 !.njs.request.url = <<"http://", "host">>,
                 !.qjs.request.url = <<"http://", "host">>]

HeadersOf(engine, o) == IF o = "headers" THEN engine.headers ELSE engine[o].headers
WithHeaders(engine, o, h) ==
    IF o = "headers" THEN [engine EXCEPT !.headers = h]
    ELSE [engine EXCEPT ![o].headers = h]

Entry(key, value) == [name |-> key.name, value |-> value, hidden |-> FALSE]
Legal(key, value) == /\ ngx_js_check_header_name(key.name)
                     /\ ngx_js_check_header_value(ngx_js_http_trim_ows(value))

RefAppend(ref, key, value) ==
    Append(ref, Entry(key, ngx_js_http_trim_ows(value)))
RefHas(ref, name) == \E i \in DOMAIN ref : ref[i].name = name
RefSet(ref, key, value) ==
    LET first == CHOOSE i \in DOMAIN ref :
                    /\ ref[i].name = key.name /\ ~ref[i].hidden
                    /\ \A j \in 1..(i - 1) : ref[j].name # key.name \/ ref[j].hidden
    IN  [i \in DOMAIN ref |->
           IF i = first THEN [ref[i] EXCEPT !.value = value]
           ELSE IF ref[i].name = key.name THEN [ref[i] EXCEPT !.hidden = TRUE]
           ELSE ref[i]]
RefCopy(ref) == [i \in DOMAIN ref |-> [ref[i] EXCEPT !.hidden = FALSE,
                                       !.value = ngx_js_http_trim_ows(@)]]
Shown(ref, name) == SelectSeq(ref, LAMBDA e : e.name = name /\ ~e.hidden)

CanCall == fetched.on /\ fetched.calls < MaxFetchCalls

(* append() and set() of the headers of an object *)
HeadersCall ==
    /\ CanCall
    /\ \E o \in Objs, op \in {"append", "set"}, key \in FetchNames,
          value \in FetchValues :
       \E nh \in {HeadersOf(fetched.njs, o)}, qh \in {HeadersOf(fetched.qjs, o)},
          adds \in {op = "append" \/ ~RefHas(fetched.ref[o], key.name)} :
       \E n \in {IF op = "append" THEN ngx_js_headers_append(nh, key, value)
                 ELSE ngx_headers_js_ext_set(nh, key, value)},
          q \in {IF op = "append"
                 THEN ngx_qjs_headers_fill_header_free(qh,
                         [len |-> 2, key |-> key, value |-> value])
                 ELSE ngx_qjs_ext_fetch_headers_set(qh, key, value)} :
           fetched' = [fetched EXCEPT
              !.njs = WithHeaders(@, o, n.h), !.qjs = WithHeaders(@, o, q.h),
              !.out = <<n.err, q.err>>, !.sent = <<>>, !.calls = @ + 1,
              !.ref[o] = IF ~adds THEN RefSet(@, key, value)
                         ELSE IF Legal(key, value) /\ nh.guard # "IMMUTABLE"
                         THEN RefAppend(@, key, value) ELSE @]

(* delete() *)
HeadersDelete ==
    /\ CanCall
    /\ \E o \in Objs, key \in FetchNames :
       fetched' = [fetched EXCEPT
          !.njs = WithHeaders(@, o, ngx_headers_js_ext_delete(HeadersOf(@, o),
                                                              key.name).h),
          !.qjs = WithHeaders(@, o, ngx_qjs_ext_fetch_headers_delete(
                                       HeadersOf(@, o), key.name).h),
          !.out = <<>>, !.sent = <<>>, !.calls = @ + 1,
          !.ref[o] = SelectSeq(@, LAMBDA e : e.name # key.name)]

(* The headers an argument stands for: the object itself is an argument. *)
InitOf(init, engine) ==
    IF init.t # "Headers" THEN init
    ELSE [init EXCEPT !.list = engine.headers.list]
RefOf(init) ==
    IF init.t = "Headers" THEN RefCopy(fetched.ref["headers"])
    ELSE [i \in DOMAIN init.pairs |->
            Entry(init.pairs[i].key, ngx_js_http_trim_ows(init.pairs[i].value))]

(* new Headers(init); an error leaves the script with what it has. *)
HeadersCreate ==
    /\ CanCall
    /\ \E init \in HeadersInits :
       \E n \in {ngx_js_ext_headers_constructor(InitOf(init, fetched.njs))},
          q \in {ngx_qjs_fetch_headers_ctor(InitOf(init, fetched.qjs))} :
           fetched' = [fetched EXCEPT
              !.njs.headers = IF n.err = "" THEN n.h ELSE @,
              !.qjs.headers = IF q.err = "" THEN q.h ELSE @,
              !.out = <<n.err, q.err>>, !.sent = <<>>, !.calls = @ + 1,
              !.ref["headers"] = IF n.err = "" THEN RefOf(init) ELSE @]

Input(t, url, engine) == [t |-> t, url |-> url, request |-> engine.request]
Arg(init, engine) == [init EXCEPT !.headers = InitOf(@, engine)]

(* The headers of a request that is built: copied or replaced, and a type  *)
(* for a string body when there is none.                                   *)
RefRequest(t, init) ==
    LET kept == IF t = "Request" THEN RefCopy(fetched.ref["request"]) ELSE <<>>
        own == IF init.t = "none" \/ init.headers.t = "none" THEN kept
               ELSE RefOf(init.headers)
    IN  IF /\ init.t = "object" /\ init.body.t = "string"
           /\ ~RefHas(own, "Content-Type")
        THEN RefAppend(own, ContentType, TextPlain) ELSE own

(* new Request(input, init) *)
RequestCreate ==
    /\ CanCall
    /\ \E t \in {"undefined", "other", "string", "Request"},
          init \in RequestInits : \E url \in IF t = "string" THEN RequestUrls
                                            ELSE {<<>>} :
       \E n \in {ngx_js_request_constructor(Input(t, url, fetched.njs),
                                           Arg(init, fetched.njs))},
          q \in {ngx_qjs_request_ctor(Input(t, url, fetched.qjs),
                                     Arg(init, fetched.qjs))} :
           fetched' = [fetched EXCEPT
              !.njs.request = IF n.err = "" THEN n.request ELSE @,
              !.qjs.request = IF q.err = "" THEN q.request ELSE @,
              !.out = <<n.err, q.err>>, !.sent = <<>>, !.calls = @ + 1,
              !.flagged = IF n.err # "" THEN @
                          ELSE t = "Request" /\ (@ \/ init.t = "object"),
              !.ref["request"] = IF n.err = "" THEN RefRequest(t, init) ELSE @]

(* new Response(body, init) *)
ResponseCreate ==
    /\ CanCall
    /\ \E body \in BodyArgs, init \in ResponseInits :
       \E n \in {ngx_js_ext_response_constructor(body, Arg(init, fetched.njs))},
          q \in {ngx_qjs_fetch_response_ctor(body, Arg(init, fetched.qjs))},
          own \in {IF init.t = "none" \/ init.headers.t = "none" THEN <<>>
                   ELSE RefOf(init.headers)} :
           fetched' = [fetched EXCEPT
              !.njs.response = IF n.err = "" THEN n.request ELSE @,
              !.qjs.response = IF q.err = "" THEN q.request ELSE @,
              !.out = <<n.err, q.err>>, !.sent = <<>>, !.calls = @ + 1,
              !.ref["response"] =
                 IF n.err # "" THEN @
                 ELSE IF body.t = "string" THEN RefAppend(own, ContentType, TextPlain)
                 ELSE own]

(* text(), json() and arrayBuffer() of a Request or a Response *)
BodyRead ==
    /\ CanCall
    /\ \E o \in {"request", "response"}, type \in {"text", "json", "arrayBuffer"} :
       \E n \in {IF o = "request" THEN ngx_request_js_ext_body(fetched.njs[o], type)
                ELSE ngx_response_js_ext_body(fetched.njs[o], type)},
          q \in {IF o = "request"
                THEN ngx_qjs_ext_fetch_request_body(fetched.qjs[o], type)
                ELSE ngx_qjs_ext_fetch_response_body(fetched.qjs[o], type)} :
           fetched' = [fetched EXCEPT
              !.njs[o] = n.o, !.qjs[o] = q.o, !.out = <<n.out, q.out>>,
              !.sent = <<>>, !.calls = @ + 1]

(* fetch(request, init) and the response *)
Fetch ==
    /\ CanCall
    /\ \E init \in RequestInits :
       \E n \in {ngx_js_ext_fetch(Input("Request", <<>>, fetched.njs),
                                 Arg(init, fetched.njs))},
          q \in {ngx_qjs_ext_fetch(Input("Request", <<>>, fetched.qjs),
                                  Arg(init, fetched.qjs))} :
           fetched' = [fetched EXCEPT
              !.njs.response = IF n = <<>> THEN @ ELSE Answered,
              !.qjs.response = IF q = <<>> THEN @ ELSE Answered,
              !.out = <<n, q>>, !.calls = @ + 1,
              !.sent = IF n = <<>> THEN <<>>
                       ELSE <<[ref |-> RefRequest("Request", init), out |-> n]>>,
              !.ref["response"] = IF n = <<>> THEN @
                                  ELSE <<Entry([name |-> "X", up |-> TRUE],
                                               <<"a">>)>>]

FetchNext == \/ HeadersCall \/ HeadersDelete \/ HeadersCreate \/ RequestCreate
             \/ ResponseCreate \/ BodyRead \/ Fetch

-----------------------------------------------------------------------------

NoFlags(engine) == [engine EXCEPT !.request.flags = NewRequest.flags]

(* Both engines keep the same objects and answer every call alike.  Only   *)
(* the flags of a request made from another one differ: QuickJS resets     *)
(* those that its second argument does not name.                           *)
FetchEngines ==
    LET njs == fetched.njs
        qjs == fetched.qjs
    IN  /\ NoFlags(njs) = NoFlags(qjs)
        /\ ~fetched.flagged => njs.request.flags = qjs.request.flags
        /\ fetched.out # <<>> => fetched.out[1] = fetched.out[2]
        /\ ngx_response_js_ext_ok(njs.response)
             = ngx_qjs_ext_fetch_response_ok(qjs.response)
        /\ \A o \in Objs :
              /\ ngx_headers_js_ext_for_each(HeadersOf(njs, o))
                   = ngx_qjs_ext_fetch_headers_foreach(HeadersOf(qjs, o))
              /\ \A key \in FetchNames :
                    ngx_headers_js_get(HeadersOf(njs, o), key.name)
                      = ngx_qjs_headers_get(HeadersOf(qjs, o), key.name)

(* Headers stay what the calls made of them although two structures and a  *)
(* pointer describe them: get() gives, through the chain of a name, its    *)
(* values in order and only those set() has not replaced; forEach() visits *)
(* the names that have one, each once and in order; the pointer to the     *)
(* content type is NULL exactly when there is none, which decides whether  *)
(* a string body adds one; and a request sends every value the list holds. *)
FetchMeaning ==
    /\ \A o \in Objs :
          LET h == HeadersOf(fetched.njs, o)
              ref == fetched.ref[o]
              each == ngx_headers_js_ext_for_each(h)
          IN  /\ \A i \in DOMAIN each :
                    LET own == Shown(ref, each[i][1].name)
                    IN  /\ own # <<>>
                        /\ each[i][2] = [j \in DOMAIN own |-> own[j].value]
              /\ {each[i][1].name : i \in DOMAIN each}
                   = {ref[i].name : i \in DOMAIN ref}
              /\ \A i, j \in DOMAIN each :
                    i < j => Rank(each[i][1]) < Rank(each[j][1])
              /\ {k.name : k \in ngx_qjs_fetch_headers_own_property_names(h.list)}
                   = {ref[i].name : i \in DOMAIN ref}
              /\ h.ct = 0 <=> ~RefHas(ref, "Content-Type")
    /\ fetched.sent # <<>> =>
          LET sent == fetched.sent[1].out
              ref == SelectSeq(fetched.sent[1].ref, LAMBDA e :
                        e.name \notin {"Host", "User-Agent"})
              own == SelectSeq(sent, LAMBDA e :
                        e[1] \notin {"Host", "User-Agent", "Content-Length"})
          IN  /\ own = [i \in DOMAIN ref |-> <<ref[i].name, ref[i].value>>]
              /\ \E i \in DOMAIN sent : sent[i][1] = "Host"
=============================================================================
