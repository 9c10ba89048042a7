----------------------------- MODULE MCBuiltins -----------------------------
(***************************************************************************)
(* Calls of the built-in objects for TLC.                                  *)
(***************************************************************************)
EXTENDS Buffer, HttpObjects, FetchObjects, QueryString

MCMems == {<<1, 2, 3, 14, 9, 1, 2>>, <<15, 8, 15, 7, 0, 15, 15>>}

MCViews == {[off |-> 0, len |-> 7], [off |-> 1, len |-> 5],
            [off |-> 3, len |-> 3], [off |-> 2, len |-> 0]}

MCIndexes == {Undef, -1, 0, 2, 5, 6}

(* Text of digits, with padding, white space and wide characters in it. *)
MCTexts == {<<>>, <<1>>, <<1, 2>>, <<1, 2, 3>>, <<1, 2, 3, 1, 2, 3, 1>>,
            <<3, 9, 1>>, <<7, 7, 7, 14, 1>>, <<2, 17, 1>>, <<5, 14, 14>>,
            <<6, 15, 6, 5, 14>>}

MCNumbers == {-32769, -256, -8, -1, 0, 7, 8, 15, 16, 300, 32767, 65535}

(* Objects with a length, or of type Buffer with one inside. *)
MCObjects ==
    LET array == [NoObject EXCEPT !.length = 2, !.elems = <<3, 17>>]
    IN  {NoObject, array, [array EXCEPT !.length = 3],
         [array EXCEPT !.length = -1],
         [NoObject EXCEPT !.type = "Buffer"],
         [NoObject EXCEPT !.type = "Buffer", !.inner = <<NoObject>>],
         [NoObject EXCEPT !.type = "Other", !.inner = <<array>>],
         [NoObject EXCEPT !.type = "Buffer", !.inner = <<array>>]}

(* Responses: an empty one, a file, and one of an upstream. *)
Element(name, value) == [key |-> [name |-> name, up |-> TRUE], value |-> value,
                         live |-> TRUE]
MCOutLists ==
    {[elems |-> <<>>, ct |-> <<>>, cln |-> -1],
     [elems |-> <<Element("X", <<"b">>)>>, ct |-> <<"a">>, cln |-> 7],
     [elems |-> <<Element("Server", <<"b">>), Element("X", <<"a">>),
                  Element("Set-Cookie", <<"a">>), Element("X", <<"b">>),
                  Element("Set-Cookie", <<"b">>),
                  Element("Content-Length", <<"7">>)>>,
      ct |-> <<"b">>, cln |-> 7]}
MCInLists ==
    {<<>>, <<Element("Cookie", <<"a">>), Element("X", <<"b">>),
             Element("Cookie", <<"b">>), Element("User-Agent", <<"a">>),
             Element("User-Agent", <<"b">>), Element("X", <<"a">>)>>}
MCHeaderNames == {"Content-Length", "Content-Type", "Server", "Set-Cookie",
                  "Age", "X"}
MCSetArgs == {[array |-> FALSE, vals |-> <<v>>] : v \in {<<>>, <<"a">>, <<"7">>}}
             \cup {[array |-> TRUE, vals |-> v] :
                     v \in {<<>>, <<<<"a">>, <<"7">>>>, <<<<"b">>, <<>>>>}}
MCVarKinds == [n \in {"idx", "set", "host"} |->
                 CASE n = "idx" -> "indexed" [] n = "set" -> "handler"
                   [] OTHER -> "computed"]
MCJsVars == <<<<"a">>, <<"a", "b">>, <<"b">>>>
MCCaptures == <<<<"a", "b">>, <<"b">>>>

(* Headers: pairs of an array, one of them not a pair. *)
Keyed(name, up) == [name |-> name, up |-> up]
MCFetchNames == {Keyed("X", TRUE), Keyed("X", FALSE), Keyed("Content-Type", TRUE),
                 Keyed("a b", TRUE)}
MCFetchValues == {<<"a">>, <<" ", "b">>, <<"\n">>}
Pair(key, value, len) == [key |-> key, value |-> value, len |-> len]
NoInit == [t |-> "none", pairs |-> <<>>, list |-> <<>>]
Pairs(pairs) == [NoInit EXCEPT !.t = "pairs", !.pairs = pairs]
TwoValues == Pairs(<<Pair(Keyed("X", TRUE), <<"a">>, 2),
                     Pair(Keyed("User-Agent", TRUE), <<"a">>, 2),
                     Pair(Keyed("X", FALSE), <<"b", " ">>, 2)>>)
MCHeadersInits ==
    {NoInit, [NoInit EXCEPT !.t = "Headers"], TwoValues,
     Pairs(<<Pair(Keyed("X", TRUE), <<"a">>, 2), Pair(Keyed("X", TRUE), <<"b">>, 3)>>),
     Pairs(<<Pair(ContentType, <<"a">>, 2), Pair(Keyed("Host", TRUE), <<"b">>, 2)>>)}
BodyNone == [t |-> "absent", v |-> <<>>]
MCBodyArgs == {BodyNone, [t |-> "string", v |-> <<"7">>],
               [t |-> "string", v |-> <<"a">>], [t |-> "object", v |-> <<"7">>]}
PlainInit == [t |-> "object", method |-> <<>>, flags |-> [f \in Flags |-> "absent"],
              headers |-> NoInit, body |-> BodyNone]
MCRequestInits ==
    {[PlainInit EXCEPT !.t = "none"], PlainInit,
     [PlainInit EXCEPT !.headers = [NoInit EXCEPT !.t = "Headers"],
                       !.body = [t |-> "string", v |-> <<"a">>]],
     [PlainInit EXCEPT !.body = [t |-> "string", v |-> <<"7">>],
                       !.method = <<[m |-> "POST", up |-> FALSE]>>],
     [PlainInit EXCEPT !.headers.t = "text"],
     [PlainInit EXCEPT !.flags["cache"] = "second",
                       !.method = <<[m |-> "PATCH", up |-> FALSE]>>],
     [PlainInit EXCEPT !.flags["mode"] = "unknown"],
     [PlainInit EXCEPT !.method = <<[m |-> "TRACE", up |-> FALSE]>>],
     [PlainInit EXCEPT !.method = <<[m |-> "", up |-> FALSE]>>]}
MCRequestUrls == {<<" ", "http://", "host", "\n">>, <<"https://">>,
                  <<"ftp://", "host">>, <<"http://", "bad">>}
ResponseInit == [t |-> "object", code |-> 200, text |-> <<"a">>, headers |-> NoInit]
MCResponseInits ==
    {[ResponseInit EXCEPT !.t = "none"],
     [ResponseInit EXCEPT !.code = 199], [ResponseInit EXCEPT !.code = 300],
     [ResponseInit EXCEPT !.code = 600], [ResponseInit EXCEPT !.text = <<"\n">>],
     [ResponseInit EXCEPT !.headers = [NoInit EXCEPT !.t = "Headers"]],
     [ResponseInit EXCEPT !.headers.t = "text"]}

(* Queries of three bytes, and longer ones with repeated names. *)
MCQueryBytes == {"x", "&", "=", "+", "%26", "%C3", "%A9", "C3", "%"}
MCQueryTexts ==
    UNION {[1..n -> MCQueryBytes] : n \in 0..3}
    \cup {<<"x", "=", "y", "&", "x", "=", "%20">>, <<"x", "=", "=", "y", "&", "&", "y">>,
          <<"x", "&", "x", "&", "x", "=", "%3D", "%25">>,
          <<"=", "%2B", "&", "=", "%78", "C3", "A9">>}
MCQueryOptions ==
    {Defaults, [Defaults EXCEPT !.max = 0], [Defaults EXCEPT !.max = 2],
     [Defaults EXCEPT !.max = -1, !.sep = <<>>], [Defaults EXCEPT !.decoder = "raw"],
     [Defaults EXCEPT !.sep = <<"&", "&">>, !.eq = <<"=", "=">>]}
MCQueryValues ==
    {[t |-> "array", vals |-> <<>>],
     [t |-> "array", vals |-> <<Text(<<"&", "e'">>), Text(<<>>)>>],
     [t |-> "scalar", vals |-> <<[t |-> "number", v |-> <<"7">>]>>],
     [t |-> "scalar", vals |-> <<[t |-> "other", v |-> <<"x">>]>>]}

Init ==
    \/ /\ BufferInit /\ objects = ObjectsIdle /\ fetched = FetchIdle
       /\ query = QueryIdle
    \/ /\ ObjectsInit /\ buffer = BufferIdle /\ fetched = FetchIdle
       /\ query = QueryIdle
    \/ /\ FetchInit /\ buffer = BufferIdle /\ objects = ObjectsIdle
       /\ query = QueryIdle
    \/ /\ QueryInit /\ buffer = BufferIdle /\ objects = ObjectsIdle
       /\ fetched = FetchIdle

Next ==
    \/ BufferNext /\ UNCHANGED <<objects, fetched, query>>
    \/ ObjectsNext /\ UNCHANGED <<buffer, fetched, query>>
    \/ FetchNext /\ UNCHANGED <<buffer, objects, query>>
    \/ QueryNext /\ UNCHANGED <<buffer, objects, fetched>>

vars == <<buffer, objects, fetched, query>>

Spec == Init /\ [][Next]_vars

(* The objects a script shares with nginx keep the meaning the calls gave  *)
(* them: the headers of responses, and Headers, Request and Response of    *)
(* fetch().                                                                *)
ObjectsMeaning == HeadersMeaning /\ FetchMeaning

(* Buffers, headers, variables, the objects of fetch() and query strings,  *)
(* each written once for njs and once for QuickJS, do the same in both,    *)
(* except in the calls that EnginesDiffer names and those that are not     *)
(* among the inputs (README, Findings).                                    *)
EnginesAlike == BufferEngines /\ ObjectsEngines /\ FetchEngines /\ QueryEngines
=============================================================================
