---------------------------- MODULE HttpObjects ----------------------------
(***************************************************************************)
(* What a script sees of the headers and the variables of a request or a   *)
(* session: r.headersOut, r.headersIn, r.rawHeadersOut, r.variables and    *)
(* s.variables, written once for njs and once for QuickJS                  *)
(* (nginx/ngx_http_js_module.c, nginx/ngx_stream_js_module.c).             *)
(*                                                                         *)
(* nginx keeps the headers of a response as a list of elements; a removed  *)
(* element stays in it with its hash zeroed (here: live is FALSE).  Some   *)
(* headers have a pointer into the list, the content type is only a field, *)
(* and a content length may be a number without an element.  nginx sends   *)
(* the live elements, and adds a Server, a Date, ... of its own when their *)
(* pointers are NULL.                                                      *)
(*                                                                         *)
(* A key is [name, up]: the name, and how it is spelled; names compare     *)
(* without case.  A value is a sequence of words, the empty one is the     *)
(* empty string.  The build is one with nginx 1.23.0 or newer.             *)
(***************************************************************************)
EXTENDS Integers, Sequences, TLC

LOCAL SX == INSTANCE SequencesExt

CONSTANTS HeaderNames,     \* the names scripts use
          SetArgs,         \* what they assign: [array, vals]
          OutLists,        \* the lists they may find in a response
          InLists,         \* and in a request
          VarKinds,        \* the variables: name -> how it can be set
          JsVars,          \* the names of js_var variables, as sequences
          Captures,        \* of the last regular expression
          MaxChanges       \* assignments and deletions of a script

Single == {"Age", "Etag", "Expires", "Retry-After"}
SingleIn == {"Content-Type", "ETag", "From", "Max-Forwards", "Referer",
             "Proxy-Authorization", "User-Agent"}
Pointed == {"Content-Encoding", "Content-Length", "Date", "Last-Modified",
            "Location", "Server"}

(* ngx_atoi() of a value: -1 when it is no number. *)
atoi(value) == IF value = <<"7">> THEN 7 ELSE -1

Undefined == [t |-> "undefined", v |-> <<>>]
AString(value) == [t |-> "string", v |-> <<value>>]
AnArray(values) == [t |-> "array", v |-> values]

Outs(out, threw) == [out |-> out, threw |-> threw]

LiveAt(list, name) == {i \in DOMAIN list : list[i].live /\ list[i].key.name = name}

(* The first of a set of indexes, or NULL. *)
FirstOf(hits) == IF hits = {} THEN 0 ELSE CHOOSE i \in hits : \A j \in hits : i <= j

ValuesOf(list, name) ==
    LET live == SelectSeq(list, LAMBDA h : h.live /\ h.key.name = name)
    IN  [i \in DOMAIN live |-> live[i].value]

(* Values with a separator after each, the last one too. *)
Joined(values, sep) ==
    SX!FlattenSeq([i \in DOMAIN values |-> values[i] \o <<sep, " ">>])

Push(out, key, value) ==
    [out EXCEPT !.list = Append(@, [key |-> key, value |-> value,
                                    live |-> TRUE])]

RECURSIVE PushAll(_, _, _)
PushAll(out, key, values) ==
    IF values = <<>> THEN out
    ELSE PushAll(IF Head(values) = <<>> THEN out
                 ELSE Push(out, key, Head(values)), key, Tail(values))

KillAll(out, name) ==
    [out EXCEPT !.list = [i \in DOMAIN @ |->
        IF @[i].key.name = name THEN [@[i] EXCEPT !.live = FALSE] ELSE @[i]]]

Kill(out, i) == [out EXCEPT !.list[i].live = FALSE]

(* The last element of an array; of an empty one undefined, which as a     *)
(* string is empty.  Nothing is given to a deletion.                       *)
LastValue(arg) ==
    IF arg.vals = <<>> THEN <<>> ELSE arg.vals[Len(arg.vals)]

-----------------------------------------------------------------------------
(* njs.                                                                    *)

ngx_http_js_header_generic(list, array, single, sep, name) ==
    LET values == ValuesOf(list, name)
    IN  CASE values = <<>> -> Undefined
          [] values # <<>> /\ array -> AnArray(values)
          [] values # <<>> /\ ~array ->
               AString(IF Len(values) = 1 \/ single THEN values[1]
                       ELSE Joined(values, sep))

ngx_http_js_header_out_get(out, name) ==
    ngx_http_js_header_generic(out.list, name = "Set-Cookie",
                               name \in Single \cup Pointed, ",", name)

(* Assigning removes every element of the name first. *)
ngx_http_js_header_out(out, key, op, arg) ==
    LET cleared == KillAll(out, key.name)
    IN  IF op = "delete" \/ (arg.array /\ arg.vals = <<>>)
        THEN Outs(cleared, FALSE)
        ELSE Outs(PushAll(cleared, key, arg.vals), FALSE)

(* One element, changed in place: the result and the element, or NULL. *)
ngx_http_js_header_out_special(out, key, op, arg) ==
    LET s == IF op = "delete" THEN <<>> ELSE LastValue(arg)
        h == FirstOf(LiveAt(out.list, key.name))
    IN  IF s = <<>>
        THEN [out |-> IF h = 0 THEN out ELSE Kill(out, h), h |-> 0]
        ELSE IF h = 0
        THEN [out |-> Push(out, key, s), h |-> Len(out.list) + 1]
        ELSE [out |-> [out EXCEPT !.list[h].value = s], h |-> h]

(* content_encoding, date, last_modified, location, server *)
ngx_http_js_pointed(out, key, op, arg) ==
    LET r == ngx_http_js_header_out_special(out, key, op, arg)
    IN  Outs([r.out EXCEPT !.ptr[key.name] = r.h], FALSE)

(* ngx_http_clear_content_length() *)
ClearLength(out) ==
    LET dead == IF out.ptr["Content-Length"] = 0 THEN out
                ELSE Kill(out, out.ptr["Content-Length"])
    IN  [dead EXCEPT !.cln = -1, !.ptr["Content-Length"] = 0]

ngx_http_js_content_length_get(out) ==
    IF out.ptr["Content-Length"] = 0 /\ out.cln >= 0
    THEN AString(<<ToString(out.cln)>>)
    ELSE ngx_http_js_header_out_get(out, "Content-Length")

(* The element is changed before its value is found to be no number. *)
ngx_http_js_content_length(out, key, op, arg) ==
    LET r == ngx_http_js_header_out_special(out, key, op, arg)
        n == atoi(r.out.list[r.h].value)
    IN  IF r.h = 0 THEN Outs(ClearLength(r.out), FALSE)
        ELSE IF n = -1 THEN Outs(Kill(r.out, r.h), TRUE)
        ELSE Outs([r.out EXCEPT !.ptr["Content-Length"] = r.h, !.cln = n],
                  FALSE)

ngx_http_js_content_type_get(out) ==
    IF out.ct = <<>> THEN Undefined ELSE AString(out.ct)

ngx_http_js_content_type(out, op, arg) ==
    Outs([out EXCEPT !.ct = IF op = "delete" THEN <<>> ELSE LastValue(arg)],
         FALSE)

(* After sendHeader() a warning says that the setting was ignored, and the *)
(* header is set all the same.                                             *)
ngx_http_js_ext_header_out(out, key, op, arg) ==
    CASE key.name = "Content-Length" ->
           ngx_http_js_content_length(out, key, op, arg)
      [] key.name = "Content-Type" -> ngx_http_js_content_type(out, op, arg)
      [] key.name \in Pointed \ {"Content-Length"} ->
           ngx_http_js_pointed(out, key, op, arg)
      [] OTHER -> ngx_http_js_header_out(out, key, op, arg)

NjsGet(out, name) ==
    CASE name = "Content-Length" -> ngx_http_js_content_length_get(out)
      [] name = "Content-Type" -> ngx_http_js_content_type_get(out)
      [] OTHER -> ngx_http_js_header_out_get(out, name)

(* The keys found so far are counted from the start of the array, so that  *)
(* with keys in it from before not all of them are looked at.              *)
RECURSIVE ngx_http_js_ext_keys_header(_, _, _)
ngx_http_js_ext_keys_header(list, keys, length) ==
    IF list = <<>> THEN keys
    ELSE IF \/ ~Head(list).live
            \/ \E i \in 1..length : keys[i].name = Head(list).key.name
    THEN ngx_http_js_ext_keys_header(Tail(list), keys, length)
    ELSE ngx_http_js_ext_keys_header(Tail(list), Append(keys, Head(list).key),
                                     length + 1)

FieldKeys(out) ==
    (IF out.ct # <<>> THEN <<[name |-> "Content-Type", up |-> TRUE]>>
     ELSE <<>>)
    \o (IF out.ptr["Content-Length"] = 0 /\ out.cln >= 0
        THEN <<[name |-> "Content-Length", up |-> TRUE]>> ELSE <<>>)

ngx_http_js_ext_keys_header_out(out) ==
    ngx_http_js_ext_keys_header(out.list, FieldKeys(out), 0)

ngx_http_js_ext_raw_header(list) ==
    LET live == SelectSeq(list, LAMBDA h : h.live)
    IN  [i \in DOMAIN live |-> <<live[i].key, live[i].value>>]

ngx_http_js_ext_header_in(list, name) ==
    ngx_http_js_header_generic(list, FALSE, name \in SingleIn,
                               IF name = "Cookie" THEN ";" ELSE ",", name)

-----------------------------------------------------------------------------
(* QuickJS.                                                                *)

ngx_http_qjs_header_generic(list, array, single, sep, name) ==
    LET hits == LiveAt(list, name)
        first == FirstOf(hits)
    IN  IF first = 0 THEN Undefined
        ELSE IF array THEN AnArray(ValuesOf(list, name))
        ELSE IF hits = {first} \/ single THEN AString(list[first].value)
        ELSE AString(Joined(ValuesOf(list, name), sep))

ngx_http_qjs_headers_out_handler(out, key, op, arg) ==
    LET cleared == [out EXCEPT !.list = [i \in DOMAIN @ |->
                      [@[i] EXCEPT !.live = @ /\ out.list[i].key.name # key.name]]]
    IN  Outs(IF op = "delete" THEN cleared ELSE PushAll(cleared, key, arg.vals),
             FALSE)

ngx_http_qjs_headers_out_special_handler(out, key, op, arg) ==
    LET setval == IF op = "delete" THEN <<>> ELSE LastValue(arg)
        h == FirstOf(LiveAt(out.list, key.name))
    IN  CASE setval = <<>> /\ h # 0 -> [out |-> Kill(out, h), h |-> 0]
          [] setval = <<>> /\ h = 0 -> [out |-> out, h |-> 0]
          [] setval # <<>> /\ h = 0 -> [out |-> Push(out, key, setval),
                                        h |-> Len(out.list) + 1]
          [] setval # <<>> /\ h # 0 ->
               [out |-> [out EXCEPT !.list[h].value = setval], h |-> h]

ngx_http_qjs_headers_out_pointed(out, key, op, arg) ==
    LET r == ngx_http_qjs_headers_out_special_handler(out, key, op, arg)
    IN  Outs([r.out EXCEPT !.ptr[key.name] = r.h], FALSE)

ngx_http_qjs_headers_out_content_length(out, key, op, arg) ==
    LET r == ngx_http_qjs_headers_out_special_handler(out, key, op, arg)
    IN  IF r.h # 0
        THEN LET n == atoi(r.out.list[r.h].value)
             IN  IF n = -1 THEN Outs(Kill(r.out, r.h), TRUE)
                 ELSE Outs([r.out EXCEPT !.cln = n,
                                         !.ptr["Content-Length"] = r.h], FALSE)
        ELSE Outs(ClearLength(r.out), FALSE)

ngx_http_qjs_headers_out_content_type(out, op, arg) ==
    IF op = "delete" THEN Outs([out EXCEPT !.ct = <<>>], FALSE)
    ELSE Outs([out EXCEPT !.ct = LastValue(arg)], FALSE)

(* define_own_property, which set_property calls, and delete_property; the *)
(* former logs the same warning.                                           *)
ngx_http_qjs_headers_out_define_own_property(out, key, op, arg) ==
    IF key.name = "Content-Type"
    THEN ngx_http_qjs_headers_out_content_type(out, op, arg)
    ELSE IF key.name = "Content-Length"
    THEN ngx_http_qjs_headers_out_content_length(out, key, op, arg)
    ELSE IF key.name \in Pointed
    THEN ngx_http_qjs_headers_out_pointed(out, key, op, arg)
    ELSE ngx_http_qjs_headers_out_handler(out, key, op, arg)

ngx_http_qjs_headers_out_own_property(out, name) ==
    IF name = "Content-Type"
    THEN (IF out.ct = <<>> THEN Undefined ELSE AString(out.ct))
    ELSE IF /\ name = "Content-Length" /\ out.ptr["Content-Length"] = 0
            /\ out.cln >= 0
    THEN AString(<<ToString(out.cln)>>)
    ELSE ngx_http_qjs_header_generic(out.list, name = "Set-Cookie",
                                     name \in Single \cup Pointed, ",", name)

(* Keys are those of an object: each spelling once. *)
RECURSIVE ngx_http_qjs_ext_keys_header(_, _)
ngx_http_qjs_ext_keys_header(list, keys) ==
    IF list = <<>> THEN keys
    ELSE ngx_http_qjs_ext_keys_header(Tail(list),
            IF ~Head(list).live \/ \E i \in DOMAIN keys : keys[i] = Head(list).key
            THEN keys ELSE Append(keys, Head(list).key))

ngx_http_qjs_headers_out_own_property_names(out) ==
    ngx_http_qjs_ext_keys_header(out.list, FieldKeys(out))

ngx_http_qjs_ext_raw_headers(list) ==
    SelectSeq([i \in DOMAIN list |->
                 IF list[i].live THEN <<list[i].key, list[i].value>> ELSE <<>>],
              LAMBDA pair : pair # <<>>)

ngx_http_qjs_headers_in_own_property(list, name) ==
    ngx_http_qjs_header_generic(list, FALSE, name \in SingleIn,
                                IF name = "Cookie" THEN ";" ELSE ",", name)

-----------------------------------------------------------------------------
(* Variables.  A name of digits is a capture of the last regular           *)
(* expression: the number of one, -1 for what is no number, Len(...) or    *)
(* more for one that is not there.                                         *)

Digits == [n \in {"", "0", "1", "9"} |->
             CASE n = "" -> -1 [] n = "0" -> 0 [] n = "1" -> 1 [] OTHER -> 9]

CaptureOf(name) ==
    IF Digits[name] \in 0..(Len(Captures) - 1)
    THEN AString(Captures[Digits[name] + 1]) ELSE Undefined

(* ngx_http_get_variable(), ngx_stream_get_variable(): of a name in lower  *)
(* case.                                                                   *)
ngx_http_get_variable(vars, name) ==
    IF name \in DOMAIN vars /\ vars[name].found THEN AString(vars[name].value)
    ELSE Undefined

ngx_http_js_request_variables_get(vars, name) ==
    IF name \in DOMAIN Digits THEN CaptureOf(name)
    ELSE ngx_http_get_variable(vars, name)

(* Sessions have no captures. *)
ngx_stream_js_session_variables_get(vars, name) ==
    ngx_http_get_variable(vars, name)

ngx_http_js_request_variables_set(vars, name, value) ==
    IF name \notin DOMAIN vars \/ VarKinds[name] = "computed"
    THEN [vars |-> vars, threw |-> TRUE]
    ELSE [vars |-> [vars EXCEPT ![name] = [found |-> TRUE, value |-> value]],
          threw |-> FALSE]

ngx_stream_js_session_variables_set(vars, name, value) ==
    IF name \in DOMAIN vars /\ VarKinds[name] \in {"handler", "indexed"}
    THEN [vars |-> [vars EXCEPT ![name] = [found |-> TRUE, value |-> value]],
          threw |-> FALSE]
    ELSE [vars |-> vars, threw |-> TRUE]

ngx_http_qjs_variables_own_property(vars, name) ==
    CASE name \in DOMAIN Digits -> CaptureOf(name)
      [] OTHER -> ngx_http_get_variable(vars, name)

ngx_stream_qjs_variables_own_property(vars, name) ==
    ngx_http_get_variable(vars, name)

ngx_http_qjs_variables_set_property(vars, name, value) ==
    CASE name \notin DOMAIN vars -> [vars |-> vars, threw |-> TRUE]
      [] name \in DOMAIN vars /\ VarKinds[name] \in {"handler", "indexed"} ->
           [vars |-> [vars EXCEPT ![name].found = TRUE, ![name].value = value],
            threw |-> FALSE]
      [] name \in DOMAIN vars /\ VarKinds[name] = "computed" ->
           [vars |-> vars, threw |-> TRUE]

ngx_stream_qjs_variables_set_property(vars, name, value) ==
    ngx_http_qjs_variables_set_property(vars, name, value)

(* r.jsVarNames(prefix) and its copies *)
ngx_http_js_var_name_matches(name, prefix) ==
    \/ prefix = <<>>
    \/ Len(name) >= Len(prefix) /\ SubSeq(name, 1, Len(prefix)) = prefix

ngx_http_js_ext_js_var_names(prefix) ==
    SelectSeq(JsVars, LAMBDA n : ngx_http_js_var_name_matches(n, prefix))

RECURSIVE QjsVarNames(_, _)
QjsVarNames(i, prefix) ==
    IF i > Len(JsVars) THEN <<>>
    ELSE (IF ngx_http_js_var_name_matches(JsVars[i], prefix) THEN <<JsVars[i]>>
          ELSE <<>>) \o QjsVarNames(i + 1, prefix)
ngx_http_qjs_ext_js_var_names(prefix) == QjsVarNames(1, prefix)

ngx_stream_js_ext_js_var_names(prefix) ==
    SelectSeq(JsVars, LAMBDA n : /\ Len(prefix) <= Len(n)
                                 /\ prefix = SubSeq(n, 1, Len(prefix)))
ngx_stream_qjs_ext_js_var_names(prefix) == QjsVarNames(1, prefix)

-----------------------------------------------------------------------------
(* A script that changes headers and variables, in both engines at once,   *)
(* and what it was told to do: ref.                                        *)

VARIABLE objects

FreshOut(list) ==
    [list |-> list.elems, ct |-> list.ct, cln |-> list.cln,
     ptr |-> [n \in Pointed |-> FirstOf(LiveAt(list.elems, n))]]

FreshVars == [n \in DOMAIN VarKinds |->
                [found |-> VarKinds[n] = "computed", value |-> <<"a">>]]

(* What a response header is worth, whatever keeps it. *)
Worth(out, name) ==
    CASE name = "Content-Type" -> IF out.ct = <<>> THEN <<>> ELSE <<out.ct>>
      [] name = "Content-Length" /\ out.ptr[name] = 0 /\ out.cln >= 0 ->
           <<<<ToString(out.cln)>>>>
      [] OTHER -> ValuesOf(out.list, name)

ObjectsIdle == [on |-> FALSE, njs |-> FreshOut([elems |-> <<>>, ct |-> <<>>,
                                                cln |-> -1]),
                qjs |-> FreshOut([elems |-> <<>>, ct |-> <<>>, cln |-> -1]),
                nvars |-> FreshVars, qvars |-> FreshVars,
                ref |-> [n \in HeaderNames |-> <<>>], threw |-> <<>>,
                changes |-> 0]

ObjectsInit ==
    \E list \in OutLists :
       objects = [ObjectsIdle EXCEPT
                    !.on = TRUE, !.njs = FreshOut(list), !.qjs = FreshOut(list),
                    !.ref = [n \in HeaderNames |-> Worth(FreshOut(list), n)]]

CanChange == objects.on /\ objects.changes < MaxChanges

(* What an assignment should leave: one value for some headers, all the    *)
(* values that are not empty for the others.  A length that is no number   *)
(* throws; an element that was there is lost, a number alone stays.        *)
Wanted(out, name, op, arg) ==
    LET last == IF op = "delete" THEN <<>> ELSE LastValue(arg)
        asked == IF name \in Pointed \cup {"Content-Type"} THEN <<last>>
                 ELSE arg.vals
    IN  IF name = "Content-Length" /\ last # <<>> /\ atoi(last) = -1
        THEN IF out.ptr[name] = 0 THEN Worth(out, name) ELSE <<>>
        ELSE SelectSeq(asked, LAMBDA v : v # <<>>)

(* r.headersOut[key] = arg, delete r.headersOut[key] *)
HeaderChange(key, op, arg) ==
    LET n == ngx_http_js_ext_header_out(objects.njs, key, op, arg)
        q == ngx_http_qjs_headers_out_define_own_property(objects.qjs, key, op,
                                                          arg)
    IN  /\ CanChange
        /\ objects' = [objects EXCEPT
              !.njs = n.out, !.qjs = q.out, !.threw = <<n.threw, q.threw>>,
              !.ref[key.name] = Wanted(objects.njs, key.name, op, arg),
              !.changes = @ + 1]

HeaderSet ==
    \E name \in HeaderNames, up \in BOOLEAN, arg \in SetArgs :
       HeaderChange([name |-> name, up |-> up], "set", arg)

HeaderDelete ==
    \E name \in HeaderNames :
       HeaderChange([name |-> name, up |-> TRUE], "delete",
                    [array |-> FALSE, vals |-> <<>>])

(* r.variables[name] = value, with the session ones checked on the way. *)
VariableSet ==
    /\ CanChange
    /\ \E name \in DOMAIN VarKinds \cup DOMAIN Digits \cup {"none"},
          value \in {<<>>, <<"b">>}, stream \in BOOLEAN :
          LET n == IF stream
                   THEN ngx_stream_js_session_variables_set(objects.nvars, name,
                                                            value)
                   ELSE ngx_http_js_request_variables_set(objects.nvars, name,
                                                          value)
              q == IF stream
                   THEN ngx_stream_qjs_variables_set_property(objects.qvars,
                                                              name, value)
                   ELSE ngx_http_qjs_variables_set_property(objects.qvars, name,
                                                            value)
          IN  objects' = [objects EXCEPT
                 !.nvars = n.vars, !.qvars = q.vars,
                 !.threw = <<n.threw, q.threw>>, !.changes = @ + 1]

ObjectsNext == HeaderSet \/ HeaderDelete \/ VariableSet

-----------------------------------------------------------------------------

NamesIn(keys) == {keys[i].name : i \in DOMAIN keys}

(* Both engines keep and show the same headers and variables; only the     *)
(* order and the repetition of keys differ.                                *)
ObjectsEngines ==
    LET njs == objects.njs
        qjs == objects.qjs
    IN  /\ njs = qjs /\ objects.nvars = objects.qvars
        /\ objects.threw # <<>> => objects.threw[1] = objects.threw[2]
        /\ ngx_http_js_ext_raw_header(njs.list)
             = ngx_http_qjs_ext_raw_headers(qjs.list)
        /\ NamesIn(ngx_http_js_ext_keys_header_out(njs))
             = NamesIn(ngx_http_qjs_headers_out_own_property_names(qjs))
        /\ \A name \in HeaderNames :
              NjsGet(njs, name)
                = ngx_http_qjs_headers_out_own_property(qjs, name)
        /\ \A list \in InLists, name \in HeaderNames \cup {"Cookie"} :
              ngx_http_js_ext_header_in(list, name)
                = ngx_http_qjs_headers_in_own_property(list, name)
        /\ \A name \in DOMAIN VarKinds \cup DOMAIN Digits \cup {"none"} :
              /\ ngx_http_js_request_variables_get(objects.nvars, name)
                   = ngx_http_qjs_variables_own_property(objects.qvars, name)
              /\ ngx_stream_js_session_variables_get(objects.nvars, name)
                   = ngx_stream_qjs_variables_own_property(objects.qvars, name)
        /\ \A i \in DOMAIN JsVars : \A k \in 0..Len(JsVars[i]) :
              LET prefix == SubSeq(JsVars[i], 1, k)
              IN  /\ ngx_http_js_ext_js_var_names(prefix)
                       = ngx_http_qjs_ext_js_var_names(prefix)
                  /\ ngx_stream_js_ext_js_var_names(prefix)
                       = ngx_stream_qjs_ext_js_var_names(prefix)

(* After any changes a response has the headers the script asked for,      *)
(* before sendHeader() and after it: what it reads back and lists is what  *)
(* it assigned last, and a pointer of nginx is NULL exactly when there is  *)
(* no live element of that name, or else nginx would send a header twice,  *)
(* or the one that was removed.                                            *)
HeadersMeaning ==
    LET out == objects.njs
    IN  /\ \A name \in HeaderNames : Worth(out, name) = objects.ref[name]
        /\ \A name \in Pointed \ {"Content-Length"} :
              out.ptr[name] = FirstOf(LiveAt(out.list, name))
        /\ LiveAt(out.list, "Content-Length") # {} =>
              /\ out.ptr["Content-Length"]
                   = FirstOf(LiveAt(out.list, "Content-Length"))
              /\ out.list[out.ptr["Content-Length"]].value
                   = <<ToString(out.cln)>>
        /\ NamesIn(ngx_http_js_ext_keys_header_out(out)) \cap HeaderNames
             = {n \in HeaderNames : objects.ref[n] # <<>>}
=============================================================================
