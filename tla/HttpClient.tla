----------------------------- MODULE HttpClient -----------------------------
(***************************************************************************)
(* ngx.fetch(): the HTTP client of nginx/ngx_js_http.c with the promise    *)
(* side of nginx/ngx_js_fetch.c, over plain connections.                   *)
(*                                                                         *)
(* A fetch resolves its host, connects to one address after another, sends *)
(* its request, parses the response as it arrives and returns its          *)
(* connection to a cache that the fetches of a location share.  The server *)
(* at the other end answers requests in order, and may close or reset the  *)
(* connection at any time.                                                 *)
(*                                                                         *)
(* What travels is abstracted to tokens, the units in which the client     *)
(* acts on it: the status line, a header line, the end of the headers, a   *)
(* piece of the body and the last chunk.  A token carries the fetch it     *)
(* answers, which the program does not see.  TLS, proxies and exhausted    *)
(* memory are not modelled.                                                *)
(***************************************************************************)
EXTENDS Integers, Sequences, SequencesExt, FiniteSetsExt

CONSTANTS
    Fetches,            \* calls of ngx.fetch()
    Hosts,              \* hosts they are for
    MaxAddrs,           \* addresses a host resolves to, at most
    Methods,            \* "GET", "HEAD"
    RequestLen,         \* units a request is sent in
    Answers,            \* the shapes of what servers send, see Answer
    Early,              \* servers may answer before they have all of a request
    Aborts,             \* the script's VM may be destroyed during a fetch
    Keepalive,          \* js_fetch_keepalive
    KeepaliveRequests,  \* js_fetch_keepalive_requests
    MaxBody,            \* max_response_body_size
    MaxChunked,         \* ten times MaxBody: the bound on chunked bodies
    MaxConns,           \* bound on the connections made
    Nobody, Cache       \* owners of a connection that is not a fetch

Framings == {"length", "chunked", "none"}
\* A response: its version is 1.1 or later, it says "Connection: close", how
\* the end of its body is marked, and the pieces of the body.
Answer == [v11 : BOOLEAN, close : BOOLEAN, framing : Framings, len : Nat]

ASSUME FetchesAssumption == Nobody # Cache /\ {Nobody, Cache} \cap Fetches = {}
ASSUME AnswersAssumption == Answers \subseteq Answer
ASSUME FlagsAssumption == {Early, Aborts} \subseteq BOOLEAN
ASSUME BoundsAssumption ==
    /\ {Keepalive, MaxBody, MaxChunked, MaxConns} \subseteq Nat
    /\ {MaxAddrs, RequestLen, KeepaliveRequests} \subseteq Nat \ {0}
ASSUME MethodsAssumption == Methods \subseteq {"GET", "HEAD"}

VARIABLE net    \* [http, conns, cache]: fetches, connections, idle connections
vars == <<net>>

NoConn == 0
Unknown == -1   \* content_length_n of a response that has not told it

Token(kind, of, a) == [kind |-> kind, of |-> of, answer |-> a]

\* What a server sends for answer a; of is the fetch and the connection.
Tokens(of, a, head) ==
    LET T(kind) == Token(kind, of, a)
        framing == IF a.framing = "none" THEN <<>> ELSE <<T(a.framing)>>
        close == IF a.close THEN <<T("close")>> ELSE <<>>
        body == IF a.framing = "chunked"
                THEN [i \in 1..a.len |-> T("chunk")] \o <<T("last")>>
                ELSE [i \in 1..a.len |-> T("data")]
    IN  <<T("status")>> \o framing \o close \o <<T("end")>>
          \o (IF head THEN <<>> ELSE body)
HeaderLines == {"length", "chunked", "close"}

\* A fetch as ngx_js_fetch_alloc() leaves it.
ngx_js_fetch_alloc ==
    [phase |-> "none", host |-> Nobody, head |-> FALSE,
     naddr |-> 0, naddrs |-> 0, conn |-> NoConn, keepalive |-> Keepalive > 0,
     chain |-> TRUE, unsent |-> RequestLen, buffer |-> "none", left |-> <<>>,
     process |-> "status", chunked |-> FALSE, last |-> FALSE, length |-> Unknown,
     size |-> 0, from |-> {}, answer |-> {}]

\* Mutant: only the sending of the request is timed.
ConnUntimed(f, host) ==
    [host |-> host, data |-> f, open |-> TRUE, requests |-> 1,
     rtimer |-> FALSE, wtimer |-> TRUE, eof |-> FALSE, error |-> FALSE,
     timedout |-> FALSE, told |-> FALSE,
     units |-> <<>>, answered |-> 0, out |-> <<>>, in |-> <<>>, fin |-> "no"]

\* A connection that has just been made.
Conn(f, host) ==
    [host |-> host, data |-> f, open |-> TRUE, requests |-> 1,
     rtimer |-> TRUE, wtimer |-> TRUE, eof |-> FALSE, error |-> FALSE,
     timedout |-> FALSE, told |-> FALSE,
     units |-> <<>>, answered |-> 0, out |-> <<>>, in |-> <<>>, fin |-> "no"]

Pending(f) == net.http[f].phase \in {"resolving", "active"}

\* What the client does not decide.  At the end of a fetch: its connection is
\* too old to be kept (or the worker is exiting), or its read event is still
\* marked ready, or neither.  On a new connection: how much of the request
\* the socket takes at once.
Ends == [fate : {"old", "ready", "idle"}]
Starts == [sent : 0..RequestLen]
Retries == [fate : {"old", "ready", "idle"}, sent : 0..RequestLen]

-----------------------------------------------------------------------------
(* Connections and the keepalive cache. *)

\* The socket and all that is known of it are gone.
ngx_js_http_close_connection(s, c) ==
    [s EXCEPT !.conns[c] = [Conn(Nobody, @.host) EXCEPT
                               !.open = FALSE, !.rtimer = FALSE, !.wtimer = FALSE]]

\* The connections of the queue q that are not in C, in their order.
Kept(q, C) ==
    CHOOSE r \in UNION {[1..n -> Range(q)] : n \in 0..Len(q)} :
        /\ Range(r) = Range(q) \ C
        /\ \A i, j \in DOMAIN r :
              i < j => \E k, l \in DOMAIN q : k < l /\ q[k] = r[i] /\ q[l] = r[j]

\* MSG_PEEK finds nothing: no data, no end of file, no error.
ngx_js_http_keepalive_check_connection(n) ==
    ~n.timedout /\ n.in = <<>> /\ n.fin = "no"

ngx_js_http_keepalive_close_handler(s, c) ==
    IF ngx_js_http_keepalive_check_connection(s.conns[c]) THEN s
    ELSE [ngx_js_http_close_connection(s, c) EXCEPT !.cache = Kept(@, {c})]

Storable(n) == ~n.eof /\ ~n.error /\ ~n.timedout /\ n.requests < KeepaliveRequests

\* Mutant: a full cache forgets the connection it evicts.
EvictedOpen(s) ==
    IF Len(s.cache) < Keepalive THEN s ELSE [s EXCEPT !.cache = Front(@)]

\* A full cache closes the connection that was stored first.
Evicted(s) ==
    IF Len(s.cache) < Keepalive THEN s
    ELSE [ngx_js_http_close_connection(s, Last(s.cache)) EXCEPT !.cache = Front(@)]

ngx_js_http_free_keepalive_connection(s, f, o) ==
    LET c == s.http[f].conn
        t == [Evicted(s) EXCEPT !.cache = <<c>> \o @, !.conns[c].data = Cache,
                 !.conns[c].rtimer = TRUE, !.conns[c].wtimer = FALSE]
    IN  IF ~Storable(s.conns[c]) \/ o.fate = "old" THEN ngx_js_http_close_connection(s, c)
        ELSE IF o.fate = "ready" THEN ngx_js_http_keepalive_close_handler(t, c) ELSE t

ngx_js_http_close_peer(s, f, o) ==
    LET c == s.http[f].conn
    IN  IF c = NoConn THEN s
        ELSE [IF s.http[f].keepalive
              THEN ngx_js_http_free_keepalive_connection(s, f, o)
              ELSE ngx_js_http_close_connection(s, c)
              EXCEPT !.http[f].conn = NoConn]

-----------------------------------------------------------------------------
(* The end of a fetch. *)

\* The promise is settled and the event removed; the destructor of the event
\* finds neither a resolver context nor a connection.
ngx_js_fetch_done(s, f, phase, o) ==
    [ngx_js_http_close_peer(s, f, o) EXCEPT
        !.http[f].phase = phase, !.http[f].buffer = "none", !.http[f].left = <<>>]

ngx_js_fetch_error(s, f, o) == ngx_js_fetch_done(s, f, "rejected", o)
ngx_js_fetch_process_done(s, f, o) == ngx_js_fetch_done(s, f, "fulfilled", o)
ngx_js_fetch_destructor(s, f, o) == ngx_js_fetch_done(s, f, "aborted", o)

-----------------------------------------------------------------------------
(* Connecting and sending. *)

\* n units of the request leave; the buffer is let go with the last of them.
Send(s, f, n) ==
    LET h == s.http[f]
        c == s.conns[h.conn]
        sent == [h EXCEPT !.unsent = h.unsent - n,
                          !.buffer = IF h.unsent = n THEN "none" ELSE "request"]
        asked == [c EXCEPT !.wtimer = c.wtimer /\ h.unsent # n,
                           !.units = c.units \o [i \in 1..n |-> f]]
    IN  [s EXCEPT !.http[f] = sent, !.conns[h.conn] = asked]

\* Mutant: the host is not compared.
MatchingAny(s, f) == DOMAIN s.cache

\* The idle connections to the host of f, latest first.
Matching(s, f) ==
    {i \in DOMAIN s.cache : s.conns[s.cache[i]].host = s.http[f].host}
\* Those of them that are still good.
Usable(s, f) ==
    {i \in Matching(s, f) :
        ngx_js_http_keepalive_check_connection(s.conns[s.cache[i]])}

\* The idle connections that the search for one passes: closed on the way.
Passed(s, f) ==
    {s.cache[i] : i \in {j \in Matching(s, f) :
        \A u \in Usable(s, f) : j < u}}

\* s without the connections of C, which are closed.
WithoutIdle(s, C) ==
    [s EXCEPT !.cache = Kept(@, C),
              !.conns = [c \in DOMAIN @ |->
                            IF c \in C THEN ngx_js_http_close_connection(s, c).conns[c]
                            ELSE @[c]]]

\* The idle connection c is taken for f.
Reused(s, f, c) ==
    [s EXCEPT !.cache = Kept(@, {c}),
              !.http[f].conn = c,
              !.conns[c].data = f,
              !.conns[c].requests = @ + 1]

\* The result has the connection in http[f].conn, or NoConn.
ngx_js_http_get_keepalive_connection(s, f) ==
    LET t == WithoutIdle(s, Passed(s, f))
        c == s.cache[Min(Usable(s, f))]
    IN  IF ~s.http[f].keepalive THEN s
        ELSE IF Usable(s, f) = {} THEN t
        ELSE Reused(t, f, c)

\* Both timers of a connection are set.
Timed(s, c) == [s EXCEPT !.conns[c].rtimer = TRUE, !.conns[c].wtimer = TRUE]

\* A connection is made for f.  One that is refused is one that is reset
\* before anything happens on it.
Connected(s, f) ==
    [s EXCEPT !.conns = Append(@, Conn(f, s.http[f].host)),
              !.http[f].conn = Len(s.conns) + 1]

\* The request is to be sent from its start, and a status line to be read.
Begun(s, f) ==
    [s EXCEPT !.http[f].phase = "active", !.http[f].process = "status",
              !.http[f].unsent = RequestLen]

\* ngx_js_http_connect() as far as the first call of the write handler, which
\* comes at once on a connection that is there already.
ngx_js_http_connect(s, f, o) ==
    LET t == ngx_js_http_get_keepalive_connection(s, f)
        there == t.http[f].conn # NoConn
        v == Begun(IF there THEN Timed(t, t.http[f].conn) ELSE Connected(t, f), f)
        n == IF v.http[f].chain THEN o.sent ELSE 0
    IN  IF n > 0 \/ there THEN Send(v, f, n) ELSE v

\* The next address, or the end.  The parser, the headers and the body keep
\* what the last address sent.
ngx_js_http_next(s, f, o) ==
    LET t == [ngx_js_http_close_connection(s, s.http[f].conn) EXCEPT
                 !.http[f].conn = NoConn, !.http[f].buffer = "none",
                 !.http[f].left = <<>>, !.http[f].naddr = @ + 1]
    IN  IF s.http[f].naddr + 1 >= s.http[f].naddrs THEN ngx_js_fetch_error(s, f, o)
        ELSE ngx_js_http_connect(t, f, o)

-----------------------------------------------------------------------------
(* Parsing: an operator per handler in http->process.  Each takes and       *)
(* returns the fetch, with the outcome in rc.                               *)

Result(h, rc) == [h |-> h, rc |-> rc]

\* The part of h.left that the parser has gone over.
Dropped(h, n) == SubSeq(h.left, n + 1, Len(h.left))
Taken(h, n) ==
    [h EXCEPT !.left = Dropped(h, n),
              !.from = @ \cup {h.left[i].of : i \in 1..n}]

\* The tokens at the head of h.left that are of one of the kinds.
Run(h, kinds) ==
    LET others == {i \in DOMAIN h.left : h.left[i].kind \notin kinds}
    IN  IF others = {} THEN Len(h.left) ELSE Min(others) - 1

ParseChunked(h) ==
    LET n == Run(h, {"chunk"})
        g == [Taken(h, n) EXCEPT !.size = @ + n]
    IN  IF h.left = <<>> THEN Result(h, "AGAIN")
        ELSE IF h.last THEN Result(h, "ERROR")
        ELSE IF g.left # <<>> /\ Head(g.left).kind # "last" THEN Result(g, "ERROR")
        ELSE IF g.size > MaxChunked THEN Result(g, "ERROR")
        ELSE IF g.left = <<>> THEN Result(g, "AGAIN")
        ELSE Result([Taken(g, 1) EXCEPT !.length = g.size, !.last = TRUE], "OK")

Need(h) ==
    IF h.head THEN 0
    ELSE (IF h.length = Unknown THEN MaxBody ELSE h.length) - h.size

ngx_js_http_process_body(h) ==
    LET n == Max({0, Min({Need(h), Len(h.left)})})
    IN  IF h.chunked THEN ParseChunked(h)
        ELSE Result([Taken(h, n) EXCEPT !.size = @ + n],
                    IF Need(h) > n THEN "AGAIN" ELSE "DONE")

\* What the first n header lines of h.left say.
WithLines(h, n) ==
    LET ls == {h.left[i] : i \in 1..n}
        Says(k) == \E l \in ls : l.kind = k
    IN  [Taken(h, n) EXCEPT
           !.keepalive = h.keepalive /\ ~Says("close"),
           !.chunked = h.chunked \/ Says("chunked"),
           !.length = IF Says("length")
                      THEN h.left[Max({i \in 1..n : h.left[i].kind = "length"})].answer.len
                      ELSE h.length]

TooLarge(h, t) == t.kind = "length" /\ ~h.head /\ t.answer.len > MaxBody

ngx_js_http_process_headers(h) ==
    LET n == Run(h, HeaderLines)
        large == {i \in 1..n : TooLarge(h, h.left[i])}
        g == WithLines(h, n)
    IN  IF large # {} THEN Result(WithLines(h, Min(large)), "ERROR")
        ELSE IF g.left = <<>> THEN Result(g, "AGAIN")
        ELSE IF Head(g.left).kind # "end" THEN Result(g, "ERROR")
        ELSE ngx_js_http_process_body(
                [Taken(g, 1) EXCEPT !.process = "body", !.chain = FALSE])

ngx_js_http_parse_status_line(h) ==
    IF h.left = <<>> THEN "AGAIN"
    ELSE IF Head(h.left).kind = "status" THEN "OK" ELSE "ERROR"

\* Mutant: a response of HTTP/1.0 keeps the connection.
StatusLineKeeps(h) ==
    LET rc == ngx_js_http_parse_status_line(h)
    IN  IF rc # "OK" THEN Result(h, rc)
        ELSE ngx_js_http_process_headers(
                [Taken(h, 1) EXCEPT !.process = "headers",
                                    !.answer = {Head(h.left).answer}])

ngx_js_http_process_status_line(h) ==
    LET rc == ngx_js_http_parse_status_line(h)
    IN  IF rc # "OK" THEN Result(h, rc)
        ELSE ngx_js_http_process_headers(
                [Taken(h, 1) EXCEPT !.process = "headers",
                                    !.keepalive = h.keepalive /\ Head(h.left).answer.v11,
                                    !.answer = {Head(h.left).answer}])

process(h) ==
    IF h.process = "status" THEN ngx_js_http_process_status_line(h)
    ELSE IF h.process = "headers" THEN ngx_js_http_process_headers(h)
    ELSE ngx_js_http_process_body(h)

\* Mutant: the length is not looked at again.
CompleteAnyway(h) == h.process = "body"

\* http->done: nothing more comes, and the response is complete or not.
Complete(h) ==
    /\ h.process = "body"
    /\ \/ h.head
       \/ h.length = Unknown /\ ~h.chunked
       \/ h.length = h.size

Finish(s, f, o) ==
    IF Complete(s.http[f]) THEN ngx_js_fetch_process_done(s, f, o)
    ELSE ngx_js_fetch_error(s, f, o)

-----------------------------------------------------------------------------
(* Events. *)

Become(s) == net' = s

\* The bound on connections.
MayConnect(s, f) == Len(s.conns) < MaxConns \/ Usable(s, f) # {}
MayRetry(f) ==
    net.http[f].naddr + 1 >= net.http[f].naddrs \/ MayConnect(net, f)

\* The script calls ngx.fetch(): its arguments are wrong, or there is no
\* resolver; or the host is resolved; or it is an address.
ngx_js_ext_fetch(f) ==
    /\ net.http[f].phase = "none"
    /\ \/ Become([net EXCEPT !.http[f].phase = "rejected"])
       \/ \E host \in Hosts, m \in Methods :
             LET s == [net EXCEPT !.http[f].host = host, !.http[f].head = (m = "HEAD")]
             IN  \/ Become([s EXCEPT !.http[f].phase = "resolving"])
                 \/ /\ MayConnect(s, f)
                    /\ \E o \in Starts :
                          Become(ngx_js_http_connect([s EXCEPT !.http[f].naddrs = 1], f, o))

ngx_js_http_resolve_handler(f) ==
    /\ net.http[f].phase = "resolving"
    /\ \/ \E o \in Ends : Become(ngx_js_fetch_error(net, f, o))
       \/ /\ MayConnect(net, f)
          /\ \E n \in 1..MaxAddrs, o \in Starts :
                Become(ngx_js_http_connect([net EXCEPT !.http[f].naddrs = n], f, o))

\* The socket takes more of the request, or reports an error.
ngx_js_http_write_handler(f) ==
    LET h == net.http[f]
    IN  /\ h.phase = "active"
        /\ h.unsent > 0
        /\ \/ /\ net.conns[h.conn].fin # "reset"
              /\ \E n \in 0..(IF h.chain THEN h.unsent ELSE 0) : Become(Send(net, f, n))
           \/ /\ net.conns[h.conn].fin = "reset"
              /\ MayRetry(f)
              /\ \E o \in Retries :
                    Become(ngx_js_http_next([net EXCEPT !.conns[h.conn].error = TRUE], f, o))

\* The headers are complete and say that nothing follows on the connection.
SaysLast(h) == h.process = "body" /\ \E a \in h.answer : ~a.v11 \/ a.close

\* n tokens are received and parsed.
Received(f, n) ==
    LET h == net.http[f]
        c == net.conns[h.conn]
        r == process([h EXCEPT !.buffer = "response",
                               !.left = h.left \o SubSeq(c.in, 1, n)])
        rest == [c EXCEPT !.in = SubSeq(c.in, n + 1, Len(c.in)),
                          !.told = c.told \/ SaysLast(r.h)]
        s == [net EXCEPT !.http[f] = r.h, !.conns[h.conn] = rest]
    IN  \/ r.rc = "ERROR" /\ \E o \in Ends : Become(ngx_js_fetch_error(s, f, o))
        \/ r.rc = "DONE" /\ \E o \in Ends : Become(Finish(s, f, o))
        \/ r.rc \in {"AGAIN", "OK"} /\ Become(s)

\* While the buffer holds the request nothing can be received into it, which
\* looks like the end of the connection; the request is taken for a response.
ngx_js_http_read_handler(f) ==
    LET h == net.http[f]
        c == net.conns[h.conn]
    IN  /\ h.phase = "active"
        /\ \/ /\ h.buffer # "request"
              /\ \E n \in 1..Len(c.in) : Received(f, n)
           \/ /\ h.buffer # "request" /\ c.in = <<>> /\ c.fin = "eof"
              /\ \E o \in Ends :
                    Become(Finish([net EXCEPT !.conns[h.conn].eof = TRUE], f, o))
           \/ /\ c.in = <<>> /\ c.fin = "reset"
              /\ MayRetry(f)
              /\ \E o \in Retries :
                    Become(ngx_js_http_next([net EXCEPT !.conns[h.conn].error = TRUE], f, o))
           \/ /\ h.buffer = "request" /\ (c.in # <<>> \/ c.fin = "eof")
              /\ \E o \in Ends :
                    Become(ngx_js_fetch_error(
                              [net EXCEPT !.conns[h.conn].eof = TRUE], f, o))

\* js_fetch_timeout passes before the response is complete, or the request is
\* sent.
Timeout(f) ==
    LET c == net.http[f].conn
    IN  /\ net.http[f].phase = "active"
        /\ net.conns[c].rtimer \/ net.conns[c].wtimer
        /\ \E o \in Ends :
              Become(ngx_js_fetch_error([net EXCEPT !.conns[c].timedout = TRUE], f, o))

\* The VM of the fetch is destroyed, its waiting events with it.
Destroy(f) ==
    /\ Aborts
    /\ Pending(f)
    /\ \E o \in Ends : Become(ngx_js_fetch_destructor(net, f, o))

\* A read event, or the keepalive timeout, of an idle connection.
KeepaliveEvent(c) ==
    /\ net.conns[c].open /\ net.conns[c].data = Cache
    /\ \/ net.conns[c].in # <<>> \/ net.conns[c].fin # "no"
       \/ net.conns[c].rtimer
    /\ LET late == net.conns[c].in = <<>> /\ net.conns[c].fin = "no"
       IN  Become(ngx_js_http_keepalive_close_handler(
                     [net EXCEPT !.conns[c].timedout = late], c))

-----------------------------------------------------------------------------
(* The server at the other end of connection c. *)

\* The server has the request that it has to answer next, or part of it.
Asked(n) ==
    LET first == n.answered * RequestLen + 1
    IN  first + (IF Early THEN 0 ELSE RequestLen - 1) \in DOMAIN n.units
Asker(n) == n.units[n.answered * RequestLen + 1]

ServerAnswers(c) ==
    LET n == net.conns[c]
    IN  /\ n.open /\ n.fin = "no" /\ n.out = <<>>
        /\ Asked(n)
        /\ \E a \in Answers :
              Become([net EXCEPT
                 !.conns[c].answered = @ + 1,
                 !.conns[c].out = Tokens(<<Asker(n), c>>, a, net.http[Asker(n)].head)])

\* What was sent arrives, a token at a time.
Arrives(c) ==
    LET n == net.conns[c]
    IN  /\ n.open /\ n.fin = "no" /\ n.out # <<>>
        /\ Become([net EXCEPT !.conns[c].in = Append(@, Head(n.out)),
                              !.conns[c].out = Tail(@)])

ServerCloses(c) ==
    /\ net.conns[c].open /\ net.conns[c].fin = "no"
    /\ Become([net EXCEPT !.conns[c].fin = "eof", !.conns[c].out = <<>>])

ServerResets(c) ==
    /\ net.conns[c].open /\ net.conns[c].fin = "no"
    /\ Become([net EXCEPT !.conns[c].fin = "reset", !.conns[c].out = <<>>,
                          !.conns[c].in = <<>>])

-----------------------------------------------------------------------------

Init == net = [http |-> [f \in Fetches |-> ngx_js_fetch_alloc],
               conns |-> <<>>, cache |-> <<>>]

Server(c) == ServerAnswers(c) \/ Arrives(c) \/ ServerCloses(c) \/ ServerResets(c)
Client(f) ==
    \/ ngx_js_http_resolve_handler(f) \/ ngx_js_http_write_handler(f)
    \/ ngx_js_http_read_handler(f) \/ Timeout(f)

Next ==
    \/ \E f \in Fetches : ngx_js_ext_fetch(f) \/ Client(f) \/ Destroy(f)
    \/ \E c \in DOMAIN net.conns : KeepaliveEvent(c) \/ Server(c)

Spec == Init /\ [][Next]_vars

\* Timers fire, and the resolver answers.
FairSpec ==
    Spec /\ \A f \in Fetches : /\ WF_vars(Timeout(f))
                               /\ WF_vars(ngx_js_http_resolve_handler(f))

-----------------------------------------------------------------------------

ConnIds == DOMAIN net.conns

\* The state has its type.
TypeOK ==
    /\ \A f \in Fetches :
          LET h == net.http[f]
          IN  /\ h.phase \in {"none", "resolving", "active", "fulfilled",
                              "rejected", "aborted"}
              /\ h.conn \in ConnIds \cup {NoConn}
              /\ h.phase = "active" => h.naddr < h.naddrs
              /\ h.unsent \in 0..RequestLen
              /\ h.phase # "rejected" => h.size <= Max({MaxBody, MaxChunked})
    /\ \A i \in DOMAIN net.cache : net.cache[i] \in ConnIds

\* Every open connection has one owner, that knows it: a fetch that is under
\* way, or a place in the cache.  None is forgotten by a retry, an error, an
\* eviction or an abort, none is closed under its owner, and the cache keeps
\* within its size.  A fetch under way is at an address that it has.
ConnectionsOwned ==
    /\ TypeOK
    /\ \A c \in ConnIds :
          LET n == net.conns[c]
          IN  /\ n.open <=> n.data # Nobody
              /\ n.data = Cache <=> c \in Range(net.cache)
              /\ \A f \in Fetches : n.data = f <=> net.http[f].conn = c
    /\ \A f \in Fetches : net.http[f].phase = "active" <=> net.http[f].conn # NoConn
    /\ IsInjective(net.cache)
    /\ Len(net.cache) <= Keepalive

\* A connection is not kept once a response on it said that it is the last,
\* by its version or by "Connection: close".
LastIsLast == \A i \in DOMAIN net.cache : ~net.conns[net.cache[i]].told

Fulfilled == {f \in Fetches : net.http[f].phase = "fulfilled"}

\* The response a fetch gets is what its host sent for its request, even if
\* the connection was used before.
ResponseIsMine ==
    \A f \in Fulfilled : \A t \in net.http[f].from :
       t[1] = f /\ net.conns[t[2]].host = net.http[f].host

\* A response whose end is marked is given to the script whole.
ResponseIsWhole ==
    \A f \in Fulfilled : \A a \in net.http[f].answer :
       ~net.http[f].head /\ a.framing # "none" => net.http[f].size = a.len

\* Every fetch is fulfilled or rejected, however the server behaves.
EventuallySettled == \A f \in Fetches : Pending(f) ~> ~Pending(f)

====
