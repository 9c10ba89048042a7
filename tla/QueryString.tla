---------------------------- MODULE QueryString ----------------------------
(***************************************************************************)
(* The querystring module and r.args, written once for njs                 *)
(* (external/njs_query_string_module.c) and once for QuickJS               *)
(* (external/qjs_query_string_module.c and the getter of r.args in         *)
(* nginx/ngx_http_js_module.c).                                            *)
(*                                                                         *)
(* A query is a sequence of bytes, where an escaped byte ("%26") is one    *)
(* element: "C3" and "A9" are the two bytes of the character "e'", the     *)
(* other bytes are ASCII.  A "%" alone is not followed by two digits.  "?" *)
(* is the replacement character.  A parsed object is a sequence of         *)
(* [name, vals]: one value is a string, more are an array.                 *)
(***************************************************************************)
EXTENDS Integers, Sequences

CONSTANTS QueryTexts,      \* the queries that are parsed
          QueryOptions,    \* [sep, eq, max, decoder] of parse()
          QueryValues,     \* what a script puts into an object: [t, vals]
          MaxQueryCalls    \* calls of a script

Escapes == [e \in {"%26", "%3D", "%2B", "%20", "%25", "%78", "%C3", "%A9",
                      "%EF%BF%BD"} |->
              CASE e = "%26" -> "&" [] e = "%3D" -> "=" [] e = "%2B" -> "+"
                [] e = "%20" -> " " [] e = "%25" -> "%" [] e = "%78" -> "x"
                [] e = "%C3" -> "C3" [] e = "%A9" -> "A9" [] OTHER -> "?"]

Continue == "CONTINUE"
Cp(cp, need, n) == [cp |-> cp, need |-> need, n |-> n]

(* One character, of one or two bytes; need: one more byte is expected, n: *)
(* how many bytes are taken.                                               *)
njs_utf8_decode(need, bytes) ==
    CASE need /\ bytes[1] = "A9" -> Cp("e'", FALSE, 1)
      [] need /\ bytes[1] # "A9" -> Cp("?", FALSE, 0)
      [] ~need /\ bytes[1] = "A9" -> Cp("?", FALSE, 1)
      [] ~need /\ bytes[1] = "C3" ->
           IF Len(bytes) = 1 THEN Cp(Continue, TRUE, 1)
           ELSE IF bytes[2] = "A9" THEN Cp("e'", FALSE, 2)
           ELSE Cp("?", FALSE, 1)
      [] OTHER -> Cp(bytes[1], FALSE, 1)

(* njs_utf8_consume(): a byte that does not continue the one before is     *)
(* taken with it.                                                          *)
njs_utf8_consume(need, byte) == [njs_utf8_decode(need, <<byte>>) EXCEPT !.n = 1]

(* The replacement character for a byte that was left at the end. *)
RECURSIVE Decoded(_, _, _, _)
Decoded(text, need, cp, out) ==
    IF text = <<>> THEN IF cp = Continue THEN Append(out, "?") ELSE out
    ELSE LET r == CASE text[1] \in DOMAIN Escapes ->
                         njs_utf8_consume(need, Escapes[text[1]])
                    [] text[1] = "+" -> Cp(" ", need, 1)
                    [] OTHER -> njs_utf8_decode(need, text)
         IN  Decoded(SubSeq(text, r.n + 1, Len(text)), r.need, r.cp,
                     IF r.cp = Continue THEN out ELSE Append(out, r.cp))

njs_query_string_decode(text) == Decoded(text, FALSE, "", <<>>)

(* The first place of v at or after p, or Len(text) + 1. *)
MatchFrom(text, p, v) ==
    LET hits == {i \in p..(Len(text) - Len(v) + 1) :
                   SubSeq(text, i, i + Len(v) - 1) = v}
    IN  IF hits = {} THEN Len(text) + 1 ELSE CHOOSE i \in hits : \A j \in hits : i <= j

njs_query_string_match(text, p, v) == MatchFrom(text, p, v)

Put(obj, name, value) ==
    IF \E i \in DOMAIN obj : obj[i].name = name
    THEN [i \in DOMAIN obj |-> IF obj[i].name = name
                               THEN [obj[i] EXCEPT !.vals = Append(@, value)]
                               ELSE obj[i]]
    ELSE Append(obj, [name |-> name, vals |-> <<value>>])

(* A decoder of the script: here one that changes nothing. *)
njs_query_string_append(obj, key, val, decoder) ==
    IF decoder = "native"
    THEN Put(obj, njs_query_string_decode(key), njs_query_string_decode(val))
    ELSE Put(obj, key, val)

\* Mutant: one byte of the sign of equality is skipped.
RECURSIVE njs_query_string_parserEq(_, _, _, _, _)
njs_query_string_parserEq(text, o, count, key, obj) ==
    LET part == njs_query_string_match(text, key, o.sep)
        val == njs_query_string_match(SubSeq(text, 1, part - 1), key, o.eq)
    IN  IF key > Len(text) \/ count = o.max THEN obj
        ELSE njs_query_string_parserEq(text, o, count + 1, part + Len(o.sep),
               IF part = key THEN obj
               ELSE njs_query_string_append(obj, SubSeq(text, key, val - 1),
                      SubSeq(text, val + 1, part - 1), o.decoder))

(* Parts that are empty count as well. *)
RECURSIVE njs_query_string_parser(_, _, _, _, _)
njs_query_string_parser(text, o, count, key, obj) ==
    LET part == njs_query_string_match(text, key, o.sep)
        val == njs_query_string_match(SubSeq(text, 1, part - 1), key, o.eq)
        skip == IF val = part THEN 0 ELSE Len(o.eq)
    IN  IF key > Len(text) \/ count = o.max THEN obj
        ELSE njs_query_string_parser(text, o, count + 1, part + Len(o.sep),
               IF part = key THEN obj
               ELSE njs_query_string_append(obj, SubSeq(text, key, val - 1),
                      SubSeq(text, val + skip, part - 1), o.decoder))

Defaults == [sep |-> <<"&">>, eq |-> <<"=">>, max |-> 1000, decoder |-> "native"]
OrDefault(o) == [o EXCEPT !.sep = IF @ = <<>> THEN <<"&">> ELSE @,
                          !.eq = IF @ = <<>> THEN <<"=">> ELSE @]

(* No limit: zero, and what is negative. *)
njs_query_string_parse(text, o) ==
    njs_query_string_parser(text, [OrDefault(o) EXCEPT
                                     !.max = IF @ <= 0 THEN 1000 ELSE @], 0, 1, <<>>)

ngx_http_js_ext_get_args(text) == njs_query_string_parser(text, Defaults, 0, 1, <<>>)

-----------------------------------------------------------------------------
(* Escaping is the same for both engines: the bytes of a character one by  *)
(* one, unless it is a letter or a digit.                                  *)

Escaped == [c \in {"&", "=", "+", " ", "%", "e'", "?", "x", "y", "7"} |->
              CASE c = "&" -> <<"%26">> [] c = "=" -> <<"%3D">>
                [] c = "+" -> <<"%2B">> [] c = " " -> <<"%20">>
                [] c = "%" -> <<"%25">> [] c = "e'" -> <<"%C3", "%A9">>
                [] c = "?" -> <<"%EF%BF%BD">> [] OTHER -> <<c>>]

RECURSIVE njs_query_string_encode(_)
njs_query_string_encode(text) ==
    IF text = <<>> THEN <<>>
    ELSE Escaped[Head(text)] \o njs_query_string_encode(Tail(text))

(* What is no string, number or boolean is pushed as nothing. *)
njs_query_string_push(chain, key, value, eq) ==
    chain \o njs_query_string_encode(key) \o eq
          \o (IF value.t = "other" THEN <<>> ELSE njs_query_string_encode(value.v))

RECURSIVE NjsPushArray(_, _, _)
NjsPushArray(chain, key, vals) ==
    IF vals = <<>> THEN chain
    ELSE NjsPushArray(njs_query_string_push(
                         IF chain # <<>> THEN Append(chain, "&") ELSE chain,
                         key, Head(vals), <<"=">>), key, Tail(vals))

(* An array is preceded by a separator when something is there, anything   *)
(* else when it is not the first property.                                 *)
RECURSIVE NjsStringify(_, _, _)
NjsStringify(obj, n, chain) ==
    IF n > Len(obj) THEN chain
    ELSE NjsStringify(obj, n + 1,
            IF obj[n].array THEN NjsPushArray(chain, obj[n].name, obj[n].vals)
            ELSE njs_query_string_push(IF n # 1 THEN Append(chain, "&") ELSE chain,
                                       obj[n].name, obj[n].vals[1], <<"=">>))

njs_query_string_stringify(obj) == NjsStringify(obj, 1, <<>>)

-----------------------------------------------------------------------------
(* QuickJS.                                                                *)

qjs_query_string_decode(text) == Decoded(text, FALSE, "", <<>>)

qjs_query_string_match(text, p, v) == MatchFrom(text, p, v)

qjs_query_string_append(obj, key, val, decoder) ==
    LET name == IF decoder = "native" THEN qjs_query_string_decode(key) ELSE key
        value == IF decoder = "native" THEN qjs_query_string_decode(val) ELSE val
    IN  Put(obj, name, value)

RECURSIVE QjsParts(_, _, _, _, _)
QjsParts(text, o, left, key, obj) ==
    IF key > Len(text) \/ left = 0 THEN obj
    ELSE LET part == qjs_query_string_match(text, key, o.sep)
             line == SubSeq(text, key, part - 1)
             val == qjs_query_string_match(line, 1, o.eq)
         IN  QjsParts(text, o, left - 1, part + Len(o.sep),
               IF line = <<>> THEN obj
               ELSE qjs_query_string_append(obj, SubSeq(line, 1, val - 1),
                      SubSeq(line, IF val > Len(line) THEN val ELSE val + Len(o.eq),
                             Len(line)), o.decoder))

qjs_query_string_parser(text, o) == QjsParts(text, OrDefault(o), o.max, 1, <<>>)

(* No limit: what is negative. *)
qjs_query_string_parse(text, o) ==
    qjs_query_string_parser(text, [o EXCEPT !.max = IF @ < 0 THEN 1000 ELSE @])

qjs_query_string_encode(text) == njs_query_string_encode(text)

qjs_query_string_push(chain, key, value, eq) ==
    LET pushed == chain \o qjs_query_string_encode(key) \o eq
    IN  IF value.t \in {"string", "number"}
        THEN pushed \o qjs_query_string_encode(value.v) ELSE pushed

RECURSIVE qjs_query_string_push_array(_, _, _, _)
qjs_query_string_push_array(chain, key, vals, i) ==
    IF i > Len(vals) THEN chain
    ELSE qjs_query_string_push_array(
            qjs_query_string_push(chain \o (IF chain = <<>> THEN <<>> ELSE <<"&">>),
                                  key, vals[i], <<"=">>), key, vals, i + 1)

RECURSIVE QjsStringify(_, _, _)
QjsStringify(obj, n, chain) ==
    IF obj = <<>> THEN chain
    ELSE LET p == Head(obj)
         IN  QjsStringify(Tail(obj), n + 1,
               IF p.array THEN qjs_query_string_push_array(chain, p.name, p.vals, 1)
               ELSE qjs_query_string_push(chain \o (IF n = 0 THEN <<>> ELSE <<"&">>),
                                          p.name, p.vals[1], <<"=">>))

qjs_query_string_stringify_internal(obj, chain) == QjsStringify(obj, 0, chain)

qjs_query_string_stringify(obj) == qjs_query_string_stringify_internal(obj, <<>>)

(* The whole query is decoded, and then split. *)
ngx_http_qjs_query_string_decode(text) == Decoded(text, FALSE, "", <<>>)

RECURSIVE QjsArgs(_, _)
QjsArgs(text, args) ==
    IF text = <<>> THEN args
    ELSE LET p == MatchFrom(text, 1, <<"&">>)
             line == SubSeq(text, 1, p - 1)
             v == MatchFrom(line, 1, <<"=">>)
         IN  QjsArgs(SubSeq(text, p + 1, Len(text)),
               IF v = 1 THEN args
               ELSE Put(args, SubSeq(line, 1, v - 1), SubSeq(line, v + 1, Len(line))))

ngx_http_qjs_ext_args(text) == QjsArgs(ngx_http_qjs_query_string_decode(text), <<>>)

-----------------------------------------------------------------------------
(* A script that parses a query, changes the object and makes a query of   *)
(* it again, in both engines at once.                                      *)

VARIABLE query

QueryIdle == [on |-> FALSE, njs |-> <<>>, qjs |-> <<>>, obj |-> <<>>,
              out |-> <<>>, calls |-> 0]

QueryInit == \E text \in QueryTexts :
                query = [QueryIdle EXCEPT !.on = TRUE, !.njs = text, !.qjs = text]

Text(v) == [t |-> "string", v |-> v]

(* An object as stringify() gets it: every value has a type. *)
AsValues(parsed) ==
    [i \in DOMAIN parsed |->
       [name |-> parsed[i].name, array |-> Len(parsed[i].vals) > 1,
        vals |-> [j \in DOMAIN parsed[i].vals |-> Text(parsed[i].vals[j])]]]

CanQuery == query.on /\ query.calls < MaxQueryCalls

(* querystring.parse(text, sep, eq, options) *)
QueryParse ==
    /\ CanQuery
    /\ \E o \in QueryOptions :
       LET n == njs_query_string_parse(query.njs, o)
           q == qjs_query_string_parse(query.qjs, o)
       IN  query' = [query EXCEPT
              !.obj = IF o.decoder = "native" THEN AsValues(n) ELSE @,
              !.calls = @ + 1,
              !.out = <<[text |-> query.njs, o |-> o, njs |-> n, qjs |-> q]>>]

(* object.y = value *)
QueryPut ==
    /\ CanQuery
    /\ \E value \in QueryValues :
       query' = [query EXCEPT
          !.obj = Append(SelectSeq(@, LAMBDA p : p.name # <<"y">>),
                         [name |-> <<"y">>, array |-> value.t = "array",
                          vals |-> value.vals]),
          !.out = <<>>, !.calls = @ + 1]

(* querystring.stringify(object) *)
QueryStringify ==
    /\ CanQuery
    /\ query' = [query EXCEPT !.njs = njs_query_string_stringify(query.obj),
                              !.qjs = qjs_query_string_stringify(query.obj),
                              !.out = <<>>, !.calls = @ + 1]

QueryNext == QueryParse \/ QueryPut \/ QueryStringify

-----------------------------------------------------------------------------
(* A reference: the escapes are bytes, and the bytes are characters.       *)

RawBytes(text) == [i \in DOMAIN text |-> IF text[i] \in DOMAIN Escapes
                                      THEN Escapes[text[i]]
                                      ELSE IF text[i] = "+" THEN " " ELSE text[i]]

RECURSIVE Chars(_)
Chars(bytes) ==
    IF bytes = <<>> THEN <<>>
    ELSE IF Len(bytes) > 1 /\ bytes[1] = "C3" /\ bytes[2] = "A9"
    THEN <<"e'">> \o Chars(SubSeq(bytes, 3, Len(bytes)))
    ELSE <<IF bytes[1] \in {"C3", "A9"} THEN "?" ELSE bytes[1]>> \o Chars(Tail(bytes))

(* An escaped first byte of a character is followed by another escape than *)
(* its second byte, which the decoders lose, or by a plus, which they put  *)
(* before the character; or only one of its two bytes is escaped.          *)
Torn(text) ==
    \E i \in 1..(Len(text) - 1) :
       \/ /\ text[i] = "%C3"
          /\ text[i + 1] \in (DOMAIN Escapes \cup {"+"}) \ {"%A9"}
       \/ text[i] = "C3" /\ text[i + 1] = "%A9"

RECURSIVE Split(_, _)
Split(text, sep) ==
    LET i == MatchFrom(text, 1, sep)
    IN  IF i > Len(text) THEN <<text>>
        ELSE <<SubSeq(text, 1, i - 1)>>
             \o Split(SubSeq(text, i + Len(sep), Len(text)), sep)

Meant(text, decoder) == IF decoder = "native" THEN Chars(RawBytes(text)) ELSE text

RECURSIVE Collect(_, _, _)
Collect(parts, o, obj) ==
    IF parts = <<>> THEN obj
    ELSE LET i == MatchFrom(Head(parts), 1, o.eq)
             name == SubSeq(Head(parts), 1, i - 1)
             value == SubSeq(Head(parts), i + Len(o.eq), Len(Head(parts)))
         IN  Collect(Tail(parts), o,
               IF Head(parts) = <<>> THEN obj
               ELSE Put(obj, Meant(name, o.decoder), Meant(value, o.decoder)))

(* What parse() should give: the parts between the separators, no more     *)
(* than the limit, each cut at its first sign of equality.                 *)
Expected(text, o) ==
    LET parts == Split(text, OrDefault(o).sep)
    IN  Collect(IF o.max > 0 /\ o.max < Len(parts) THEN SubSeq(parts, 1, o.max)
                ELSE parts, OrDefault(o), <<>>)

(* Values as a parser gives them back. *)
Stringed(obj) ==
    LET some == SelectSeq(obj, LAMBDA p : p.vals # <<>>)
    IN  [i \in DOMAIN some |->
           [name |-> some[i].name,
            vals |-> [j \in DOMAIN some[i].vals |->
                        IF some[i].vals[j].t = "other" THEN <<>>
                        ELSE some[i].vals[j].v]]]

(* Both engines parse and write queries alike, but for the limit 0, which  *)
(* in QuickJS lets nothing through.  They read r.args alike where nothing  *)
(* that is escaped is a separator and no name is empty, as QuickJS decodes *)
(* before it splits.                                                       *)
QueryEngines ==
    /\ query.njs = query.qjs
    /\ query.out # <<>> /\ query.out[1].o.max # 0 =>
          query.out[1].njs = query.out[1].qjs
    /\ LET text == query.njs
           cut == Split(text, <<"&">>)
       IN  /\ ~Torn(text)
           /\ \A i \in DOMAIN text : text[i] \notin {"%26", "%3D"}
           /\ \A i \in DOMAIN cut : cut[i] = <<>> \/ Head(cut[i]) # "="
           => ngx_http_js_ext_get_args(text) = ngx_http_qjs_ext_args(text)

(* A query is parsed as its separators and escapes say, with limits and    *)
(* separators of the script too; and what stringify() makes of an object   *)
(* is parsed to the same names and values, whatever characters they hold,  *)
(* in the order of the properties.                                         *)
QueryMeaning ==
    /\ query.out # <<>> =>
          LET c == query.out[1]
          IN  Torn(c.text) \/ c.njs = Expected(c.text, c.o)
    /\ njs_query_string_parse(njs_query_string_stringify(query.obj), Defaults)
         = Stringed(query.obj)
=============================================================================
