--------------------------- MODULE MCHttpRequest ----------------------------
(***************************************************************************)
(* HttpRequest for TLC: the locations and the calls scripts make.          *)
(***************************************************************************)
EXTENDS HttpRequest

Location(access, content, header, body, set, close) ==
    [vm |-> TRUE, access |-> access, content |-> content, header |-> header,
     body |-> body, set |-> set, close |-> close, errorPage |-> FALSE]

Call(name, a, b, c) == [name |-> name, a |-> a, b |-> b, c |-> c]

MCLocations ==
    {Location(TRUE, TRUE, FALSE, FALSE, FALSE, FALSE),
     Location(FALSE, TRUE, TRUE, FALSE, FALSE, TRUE),
     Location(FALSE, TRUE, FALSE, TRUE, FALSE, FALSE),
     Location(TRUE, FALSE, TRUE, TRUE, TRUE, FALSE),
     [Location(TRUE, TRUE, TRUE, TRUE, FALSE, FALSE) EXCEPT !.vm = FALSE],
     [Location(FALSE, TRUE, FALSE, TRUE, FALSE, FALSE) EXCEPT !.vm = FALSE]}

MCCalls ==
         {Call("setTimeout", a, "10", "") : a \in {"function", "number"}}
    \cup {Call("clearTimeout", id, "", "") : id \in {1, 2}}
    \cup {Call("return", a, b, "") :
             a \in {"200", "302", "403"}, b \in {"undefined", "text"}}
    \cup {Call("return", v[1], v[2], "") :
             v \in {<<"200", "bad">>, <<"403", "bad">>, <<"-1", "text">>,
                    <<"huge", "null">>, <<"NaN", "undefined">>}}
    \cup {Call(n, "", "", "") : n \in {"decline", "sendHeader", "finish",
                                       "done", "setReturnValue"}}
    \cup {Call("send", a, "", "") : a \in {<<>>, <<"x", "null", "y">>, <<"bad">>}}
    \cup {Call("internalRedirect", a, "", "") :
             a \in {"uri", "named", "unsafe", "bad"}}
    \cup {Call("sendBuffer", a, b[1], b[2]) : a \in {"x", "bad"},
             b \in {<<"none", "none">>, <<"true", "true">>, <<"false", "false">>}}
    \cup {Call("readRequest", a, "valid", c) : a \in {"text"},
             c \in {"ok", "error"}}
    \cup {Call("readRequest", "json", "invalid", "ok")}
    \cup {Call("readRequestForm", "form", b, "ok") :
             b \in {"keys0", "valid", "invalid"}}
    \cup {Call("requestBody", a, "", "ok") : a \in {"text", "buffer"}}
    \cup {Call("subrequest", a, b, "uri") :
             a \in {"undefined", "function", "options", "detached"},
             b \in {"undefined", "function", "number"}}
    \cup {Call("subrequest", a, "undefined", c) :
             a \in {"options", "number", "badoption"},
             c \in {"empty", "unsafe", "fail"}}
=============================================================================
