-------------------------- MODULE HttpClientProofs --------------------------
(***************************************************************************)
(* Proofs about HttpClient: what its operators do to the ownership of      *)
(* connections, what the handlers of http->process do to a fetch, and the  *)
(* inductive invariant.                                                    *)
(***************************************************************************)
EXTENDS HttpClient, SequenceTheorems, WellFoundedInduction, TLAPS

-----------------------------------------------------------------------------
(* The least element of a set of numbers: what induction comes down to here. *)

\* A set of natural numbers that is not empty has a least element.
LEMMA NatMin ==
    ASSUME NEW S \in SUBSET Nat, S # {}
    PROVE  \E m \in S : \A x \in S : m <= x
<1> DEFINE R == OpToRel(<, Nat)
<1>1. IsWellFoundedOn(R, Nat)
  BY NatLessThanWellFounded
<1> HIDE DEF R
<1>2. \E m \in S : \A y \in S : ~ (<<y, m>> \in R)
  BY <1>1, WFMin
<1>3. \A x, y \in Nat : <<y, x>> \in R <=> y < x
  BY DEF R, OpToRel
<1>4. PICK m \in S : \A y \in S : ~ (<<y, m>> \in R)
  BY <1>2
<1>5. \A x \in S : m <= x
  <2> TAKE x \in S
  <2>1. ~ (<<x, m>> \in R) /\ x \in Nat /\ m \in Nat
    BY <1>4
  <2> QED BY <2>1, <1>3
<1> QED BY <1>5

\* Min() of a set of natural numbers that is not empty.
LEMMA MinProperties ==
    ASSUME NEW S \in SUBSET Nat, S # {}
    PROVE  Min(S) \in S /\ \A x \in S : Min(S) <= x
<1>1. \E m \in S : \A x \in S : m <= x
  BY NatMin
<1> QED BY <1>1 DEF Min

\* Max() of a set of natural numbers that is bounded and not empty.
LEMMA MaxProperties ==
    ASSUME NEW n \in Nat, NEW S \in SUBSET (0..n), S # {}
    PROVE  Max(S) \in S /\ \A x \in S : Max(S) >= x
<1> DEFINE T == {b \in 0..n : \A x \in S : x <= b}
<1>1. n \in T /\ T \in SUBSET Nat
  OBVIOUS
<1>2. PICK m \in T : \A b \in T : m <= b
  BY <1>1, NatMin
<1>3. m \in S
  <2> SUFFICES ASSUME m \notin S PROVE FALSE
    OBVIOUS
  <2>1. PICK x \in S : TRUE
    OBVIOUS
  <2>2. m - 1 \in T
    BY <2>1, \A y \in S : y \in Nat /\ y <= m /\ y # m
  <2> QED BY <2>2, <1>2
<1>4. \E y \in S : \A x \in S : y >= x
  BY <1>3
<1> QED BY <1>4 DEF Max

-----------------------------------------------------------------------------
(* Queues of connections. *)

\* r is q without the elements of C.
IsKept(r, q, C) ==
    /\ r \in UNION {[1..n -> Range(q)] : n \in 0..Len(q)}
    /\ Range(r) = Range(q) \ C
    /\ \A i, j \in DOMAIN r :
          i < j => \E k, l \in DOMAIN q : k < l /\ q[k] = r[i] /\ q[l] = r[j]

\* Every queue can be gone through: the elements of C are left out one by one.
LEMMA KeptExists ==
    ASSUME NEW S, NEW q \in Seq(S), NEW C
    PROVE  \E r : IsKept(r, q, C)
<1> DEFINE Bad == {n \in Nat : \E p \in Seq(S) : Len(p) = n /\ ~\E r : IsKept(r, p, C)}
<1> SUFFICES ASSUME Bad # {} PROVE FALSE
  BY LenProperties
<1>1. PICK n \in Bad : \A m \in Bad : n <= m
  BY NatMin
<1>2. PICK p \in Seq(S) : Len(p) = n /\ ~\E r : IsKept(r, p, C)
  BY <1>1
<1>3. p # <<>>
  <2> SUFFICES ASSUME p = <<>> PROVE FALSE
    OBVIOUS
  <2>1. IsKept(p, p, C)
    BY DEF IsKept, Range
  <2> QED BY <2>1, <1>2
<1>4. PICK t \in Seq(S), e \in S : p = Append(t, e)
  BY <1>3, SequenceEmptyOrAppend
<1>5. Len(t) \in Nat /\ Len(p) = Len(t) + 1 /\ n \in Nat
  BY <1>4, AppendProperties, LenProperties
<1>6. PICK r : IsKept(r, t, C)
  BY <1>5, <1>2, <1>1
<1>7. PICK k \in 0..Len(t) : r \in [1..k -> Range(t)]
  BY <1>6 DEF IsKept
<1>8. /\ DOMAIN t = 1..Len(t) /\ DOMAIN p = 1..(Len(t) + 1)
      /\ \A i \in DOMAIN t : p[i] = t[i]
      /\ p[Len(t) + 1] = e
  BY <1>4, <1>5, AppendProperties, LenProperties
<1>9. Range(p) = Range(t) \cup {e}
  <2>1. ASSUME NEW x \in Range(p) PROVE x \in Range(t) \cup {e}
    <3>1. PICK i \in DOMAIN p : p[i] = x
      BY DEF Range
    <3>2. i \in DOMAIN t \/ i = Len(t) + 1
      BY <1>8, <1>5
    <3> QED BY <3>1, <3>2, <1>8 DEF Range
  <2>2. ASSUME NEW x \in Range(t) PROVE x \in Range(p)
    <3>1. PICK i \in DOMAIN t : t[i] = x
      BY DEF Range
    <3>2. i \in DOMAIN p /\ p[i] = x
      BY <3>1, <1>8, <1>5
    <3> QED BY <3>2 DEF Range
  <2>3. e \in Range(p)
    BY <1>8, <1>5 DEF Range
  <2> QED BY <2>1, <2>2, <2>3
<1>10. CASE e \in C
  <2>1. r \in [1..k -> Range(p)] /\ k \in 0..Len(p)
    BY <1>7, <1>9, <1>5
  <2>2. Range(r) = Range(p) \ C
    BY <1>10, <1>9, <1>6 DEF IsKept
  <2>3. \A i, j \in DOMAIN r :
          i < j => \E x, y \in DOMAIN p : x < y /\ p[x] = r[i] /\ p[y] = r[j]
    <3> TAKE i, j \in DOMAIN r
    <3> HAVE i < j
    <3>1. PICK x, y \in DOMAIN t : x < y /\ t[x] = r[i] /\ t[y] = r[j]
      BY <1>6 DEF IsKept
    <3> QED BY <3>1, <1>8, <1>5
  <2>4. IsKept(r, p, C)
    BY <2>1, <2>2, <2>3 DEF IsKept
  <2> QED BY <2>4, <1>2
<1>11. CASE e \notin C
  <2> DEFINE u == [i \in 1..(k + 1) |-> IF i = k + 1 THEN e ELSE r[i]]
  <2>1. u \in [1..(k + 1) -> Range(p)] /\ k + 1 \in 0..Len(p)
    BY <1>7, <1>9, <1>5
  <2>2. /\ DOMAIN u = 1..(k + 1) /\ DOMAIN r = 1..k /\ k \in Nat
        /\ \A i \in 1..k : u[i] = r[i]
        /\ u[k + 1] = e
    BY <1>7, <1>5
  <2> HIDE DEF u
  <2>3. Range(u) = Range(r) \cup {e}
    <3>1. ASSUME NEW x \in Range(u) PROVE x \in Range(r) \cup {e}
      <4>1. PICK i \in DOMAIN u : u[i] = x
        BY DEF Range
      <4>2. i \in 1..(k + 1) /\ k \in Nat
        BY <2>2
      <4>3. i \in 1..k \/ i = k + 1
        BY <4>2
      <4> QED BY <4>1, <4>3, <2>2 DEF Range
    <3>2. ASSUME NEW x \in Range(r) PROVE x \in Range(u)
      <4>1. PICK i \in DOMAIN r : r[i] = x
        BY DEF Range
      <4>2. i \in DOMAIN u /\ u[i] = x
        BY <4>1, <2>2
      <4> QED BY <4>2 DEF Range
    <3>3. e \in Range(u)
      <4>1. k \in Nat /\ k + 1 \in 1..(k + 1)
        BY <2>2
      <4>2. k + 1 \in DOMAIN u /\ u[k + 1] = e
        BY <4>1, <2>2
      <4> QED BY <4>2 DEF Range
    <3> QED BY <3>1, <3>2, <3>3
  <2>4. \A i, j \in DOMAIN u :
          i < j => \E x, y \in DOMAIN p : x < y /\ p[x] = u[i] /\ p[y] = u[j]
    <3> TAKE i, j \in DOMAIN u
    <3> HAVE i < j
    <3>1. i \in DOMAIN r /\ u[i] = r[i] /\ i \in 1..k /\ j \in 1..(k + 1)
      BY <2>2
    <3>2. CASE j = k + 1
      <4>1. r[i] \in Range(t)
        BY <3>1, <1>7
      <4>2. PICK x \in DOMAIN t : t[x] = r[i]
        BY <4>1 DEF Range
      <4>3. x \in DOMAIN p /\ p[x] = u[i] /\ x < Len(t) + 1 /\ Len(t) + 1 \in DOMAIN p
        BY <4>2, <3>1, <1>8, <1>5
      <4>4. p[Len(t) + 1] = u[j]
        BY <3>2, <2>2, <1>8
      <4> QED BY <4>3, <4>4
    <3>3. CASE j # k + 1
      <4>1. j \in DOMAIN r /\ u[j] = r[j]
        BY <3>3, <3>1, <2>2
      <4>2. PICK x, y \in DOMAIN t : x < y /\ t[x] = r[i] /\ t[y] = r[j]
        BY <4>1, <3>1, <1>6 DEF IsKept
      <4>3. x \in DOMAIN p /\ y \in DOMAIN p /\ p[x] = u[i] /\ p[y] = u[j]
        BY <4>1, <4>2, <3>1, <1>8, <1>5
      <4> QED BY <4>2, <4>3
    <3> QED BY <3>2, <3>3
  <2>6. Range(u) = Range(p) \ C
    BY <2>3, <1>11, <1>9, <1>6 DEF IsKept
  <2>5. IsKept(u, p, C)
    BY <2>1, <2>6, <2>4 DEF IsKept
  <2> QED BY <2>5, <1>2
<1> QED BY <1>10, <1>11

\* Kept() of a queue in which nothing stands twice.
LEMMA KeptProperties ==
    ASSUME NEW S, NEW q \in Seq(S), NEW C, IsInjective(q)
    PROVE  /\ Kept(q, C) \in Seq(S)
           /\ Range(Kept(q, C)) = Range(q) \ C
           /\ IsInjective(Kept(q, C))
           /\ Len(Kept(q, C)) <= Len(q)
<1> DEFINE r == Kept(q, C)
<1> DEFINE U == UNION {[1..n -> Range(q)] : n \in 0..Len(q)}
           P(p) == /\ Range(p) = Range(q) \ C
                   /\ \A i, j \in DOMAIN p :
                         i < j => \E k, l \in DOMAIN q :
                                     k < l /\ q[k] = p[i] /\ q[l] = p[j]
<1>1. IsKept(r, q, C)
  <2>1. \A p : IsKept(p, q, C) <=> p \in U /\ P(p)
    BY DEF IsKept
  <2>2. r = CHOOSE p \in U : P(p)
    BY DEF Kept
  <2>3. \E p : IsKept(p, q, C)
    BY KeptExists
  <2> HIDE DEF U, P, r
  <2>4. \E p \in U : P(p)
    BY <2>1, <2>3
  <2>5. r \in U /\ P(r)
    BY <2>2, <2>4
  <2> QED BY <2>1, <2>5
<1> HIDE DEF r
<1>2. PICK n \in 0..Len(q) : r \in [1..n -> Range(q)]
  BY <1>1 DEF IsKept
<1>3. Len(q) \in Nat /\ DOMAIN q = 1..Len(q) /\ Range(q) \subseteq S
  BY LenProperties, RangeOfSeq
<1>4. r \in Seq(S)
  BY <1>2, <1>3, SeqDef
<1>5. Len(r) <= Len(q)
  <2>1. DOMAIN r = 1..Len(r) /\ Len(r) \in Nat
    BY <1>4, LenProperties
  <2> QED BY <2>1, <1>2, <1>3
<1>6. IsInjective(r)
  <2> SUFFICES ASSUME NEW i \in DOMAIN r, NEW j \in DOMAIN r, i < j PROVE r[i] # r[j]
    BY <1>2, <1>3 DEF IsInjective
  <2>1. PICK k, l \in DOMAIN q : k < l /\ q[k] = r[i] /\ q[l] = r[j]
    BY <1>1 DEF IsKept
  <2> QED BY <2>1, <1>3 DEF IsInjective
<1> QED BY <1>1, <1>4, <1>5, <1>6 DEF IsKept, r

-----------------------------------------------------------------------------
(* The types of the state. *)

Phases == {"none", "resolving", "active", "fulfilled", "rejected", "aborted"}
Kinds == {"status", "length", "chunked", "close", "end", "data", "chunk", "last"}
TokenSet == [kind : Kinds, of : Fetches \X Nat, answer : Answers]

Http == [phase : Phases, host : Hosts \cup {Nobody}, head : BOOLEAN,
         naddr : Nat, naddrs : Nat, conn : Nat, keepalive : BOOLEAN,
         chain : BOOLEAN, unsent : 0..RequestLen,
         buffer : {"none", "request", "response"}, left : Seq(TokenSet),
         process : {"status", "headers", "body"}, chunked : BOOLEAN,
         last : BOOLEAN, length : Int, size : Nat,
         from : SUBSET (Fetches \X Nat), answer : SUBSET Answers]

Connection ==
    [host : Hosts \cup {Nobody}, data : Fetches \cup {Nobody, Cache}, open : BOOLEAN,
     requests : Nat, rtimer : BOOLEAN, wtimer : BOOLEAN, eof : BOOLEAN,
     error : BOOLEAN, timedout : BOOLEAN, told : BOOLEAN, units : Seq(Fetches),
     answered : Nat, out : Seq(TokenSet), in : Seq(TokenSet),
     fin : {"no", "eof", "reset"}]

Net == [http : [Fetches -> Http], conns : Seq(Connection), cache : Seq(Nat)]

-----------------------------------------------------------------------------
(* Replacing one part of the state. *)

LEMMA PutHttp ==
    ASSUME NEW s \in Net, NEW f \in Fetches, NEW h \in Http
    PROVE  /\ [s EXCEPT !.http[f] = h] \in Net
           /\ [s EXCEPT !.http[f] = h].conns = s.conns
           /\ [s EXCEPT !.http[f] = h].cache = s.cache
           /\ [s EXCEPT !.http[f] = h].http[f] = h
           /\ \A g \in Fetches \ {f} : [s EXCEPT !.http[f] = h].http[g] = s.http[g]
<1>1. s.http \in [Fetches -> Http]
  BY DEF Net
<1>2. [s.http EXCEPT ![f] = h] \in [Fetches -> Http]
  BY <1>1
<1>3. [s EXCEPT !.http[f] = h] \in Net
  BY <1>2 DEF Net
<1>4. /\ [s EXCEPT !.http[f] = h].conns = s.conns
      /\ [s EXCEPT !.http[f] = h].cache = s.cache
      /\ [s EXCEPT !.http[f] = h].http = [s.http EXCEPT ![f] = h]
  BY DEF Net
<1> QED BY <1>1, <1>3, <1>4

LEMMA PutConn ==
    ASSUME NEW s \in Net, NEW c \in DOMAIN s.conns, NEW n \in Connection
    PROVE  /\ [s EXCEPT !.conns[c] = n] \in Net
           /\ [s EXCEPT !.conns[c] = n].http = s.http
           /\ [s EXCEPT !.conns[c] = n].cache = s.cache
           /\ Len([s EXCEPT !.conns[c] = n].conns) = Len(s.conns)
           /\ [s EXCEPT !.conns[c] = n].conns[c] = n
           /\ \A d \in DOMAIN s.conns \ {c} :
                 [s EXCEPT !.conns[c] = n].conns[d] = s.conns[d]
<1>1. s.conns \in Seq(Connection)
  BY DEF Net
<1>2. DOMAIN s.conns = 1..Len(s.conns)
  BY <1>1, LenProperties
<1>3. /\ [s.conns EXCEPT ![c] = n] \in Seq(Connection)
      /\ Len([s.conns EXCEPT ![c] = n]) = Len(s.conns)
      /\ \A d \in 1..Len(s.conns) :
            [s.conns EXCEPT ![c] = n][d] = IF d = c THEN n ELSE s.conns[d]
  BY <1>1, <1>2, ExceptSeq
<1>4. [s EXCEPT !.conns[c] = n] \in Net
  BY <1>3 DEF Net
<1>5. /\ [s EXCEPT !.conns[c] = n].http = s.http
      /\ [s EXCEPT !.conns[c] = n].cache = s.cache
      /\ [s EXCEPT !.conns[c] = n].conns = [s.conns EXCEPT ![c] = n]
  BY DEF Net
<1> QED BY <1>2, <1>3, <1>4, <1>5

LEMMA PutCache ==
    ASSUME NEW s \in Net, NEW q \in Seq(Nat)
    PROVE  /\ [s EXCEPT !.cache = q] \in Net
           /\ [s EXCEPT !.cache = q].http = s.http
           /\ [s EXCEPT !.cache = q].conns = s.conns
           /\ [s EXCEPT !.cache = q].cache = q
BY DEF Net

\* The parts of the state.
LEMMA Parts ==
    ASSUME NEW s \in Net
    PROVE  /\ s.http \in [Fetches -> Http]
           /\ \A f \in Fetches : s.http[f] \in Http
           /\ s.conns \in Seq(Connection)
           /\ Len(s.conns) \in Nat
           /\ DOMAIN s.conns = 1..Len(s.conns)
           /\ \A c \in DOMAIN s.conns : s.conns[c] \in Connection
           /\ s.cache \in Seq(Nat)
           /\ Len(s.cache) \in Nat
           /\ DOMAIN s.cache = 1..Len(s.cache)
<1>1. s.http \in [Fetches -> Http] /\ s.conns \in Seq(Connection) /\ s.cache \in Seq(Nat)
  BY DEF Net
<1>2. Len(s.conns) \in Nat /\ DOMAIN s.conns = 1..Len(s.conns)
  BY <1>1, LenProperties
<1>3. \A c \in DOMAIN s.conns : s.conns[c] \in Connection
  BY <1>1, <1>2, ElementOfSeq
<1>4. Len(s.cache) \in Nat /\ DOMAIN s.cache = 1..Len(s.cache)
  BY <1>1, LenProperties
<1> QED BY <1>1, <1>2, <1>3, <1>4

-----------------------------------------------------------------------------
(* Who owns a connection. *)

\* The part of ConnectionsOwned that speaks of connections and the fetches of
\* F, when no connection belongs to another fetch.  A connection on which the
\* last response was announced belongs to a fetch that will close it.
OwnersOf(s, F) ==
    /\ \A c \in DOMAIN s.conns :
          /\ s.conns[c].open <=> s.conns[c].data # Nobody
          /\ s.conns[c].data = Cache <=> c \in Range(s.cache)
          /\ s.conns[c].data \in F \cup {Nobody, Cache}
          /\ \A f \in F : s.conns[c].data = f <=> s.http[f].conn = c
          /\ s.conns[c].told =>
                \E f \in F : s.conns[c].data = f /\ ~s.http[f].keepalive
    /\ \A f \in F : s.http[f].conn \in DOMAIN s.conns \cup {NoConn}
    /\ Range(s.cache) \subseteq DOMAIN s.conns
    /\ IsInjective(s.cache)
    /\ Len(s.cache) <= Keepalive

\* A closed connection.
ClosedConn(host) ==
    [Conn(Nobody, host) EXCEPT !.open = FALSE, !.rtimer = FALSE, !.wtimer = FALSE]

LEMMA ClosedConnProperties ==
    ASSUME NEW host \in Hosts \cup {Nobody}
    PROVE  /\ ClosedConn(host) \in Connection
           /\ ClosedConn(host).data = Nobody
           /\ ClosedConn(host).open = FALSE
           /\ ClosedConn(host).told = FALSE
           /\ ClosedConn(host).in = <<>>
           /\ ClosedConn(host).out = <<>>
<1> DEFINE n == Conn(Nobody, host)
<1>1. <<>> \in Seq(Fetches) /\ <<>> \in Seq(TokenSet)
  BY EmptySeq
<1>2. /\ n \in Connection /\ n.data = Nobody /\ n.told = FALSE
      /\ n.in = <<>> /\ n.out = <<>>
  BY <1>1 DEF Conn, Connection
<1> HIDE DEF n
<1>3. [n EXCEPT !.open = FALSE, !.rtimer = FALSE, !.wtimer = FALSE] \in Connection
  BY <1>2 DEF Connection
<1>4. /\ [n EXCEPT !.open = FALSE, !.rtimer = FALSE, !.wtimer = FALSE].data = n.data
      /\ [n EXCEPT !.open = FALSE, !.rtimer = FALSE, !.wtimer = FALSE].open = FALSE
      /\ [n EXCEPT !.open = FALSE, !.rtimer = FALSE, !.wtimer = FALSE].told = n.told
      /\ [n EXCEPT !.open = FALSE, !.rtimer = FALSE, !.wtimer = FALSE].in = n.in
      /\ [n EXCEPT !.open = FALSE, !.rtimer = FALSE, !.wtimer = FALSE].out = n.out
  BY <1>2 DEF Connection
<1> QED BY <1>2, <1>3, <1>4 DEF ClosedConn, n

\* ngx_js_http_close_connection() changes the connection only.
LEMMA CloseConnection ==
    ASSUME NEW s \in Net, NEW c \in DOMAIN s.conns
    PROVE  LET t == ngx_js_http_close_connection(s, c)
           IN  /\ t \in Net /\ t.http = s.http /\ t.cache = s.cache
               /\ DOMAIN t.conns = DOMAIN s.conns
               /\ \A d \in DOMAIN s.conns \ {c} : t.conns[d] = s.conns[d]
               /\ t.conns[c] = ClosedConn(s.conns[c].host)
<1> DEFINE n == ClosedConn(s.conns[c].host)
<1>1. s.conns[c].host \in Hosts \cup {Nobody}
  BY Parts DEF Connection
<1>2. n \in Connection
  BY <1>1, ClosedConnProperties
<1>3. ngx_js_http_close_connection(s, c) = [s EXCEPT !.conns[c] = n]
  BY DEF ngx_js_http_close_connection, ClosedConn
<1> HIDE DEF n
<1>4. Len([s EXCEPT !.conns[c] = n].conns) = Len(s.conns) /\ [s EXCEPT !.conns[c] = n] \in Net
  BY <1>2, PutConn
<1>5. DOMAIN [s EXCEPT !.conns[c] = n].conns = DOMAIN s.conns
  BY <1>4, Parts
<1>6. /\ [s EXCEPT !.conns[c] = n].http = s.http
      /\ [s EXCEPT !.conns[c] = n].cache = s.cache
      /\ [s EXCEPT !.conns[c] = n].conns[c] = n
      /\ \A d \in DOMAIN s.conns \ {c} : [s EXCEPT !.conns[c] = n].conns[d] = s.conns[d]
  BY <1>2, PutConn
<1> QED BY <1>3, <1>4, <1>5, <1>6 DEF n

\* An idle connection that is closed and taken out of the cache.
LEMMA DropIdle ==
    ASSUME NEW s \in Net, NEW F \in SUBSET Fetches, OwnersOf(s, F),
           NEW c \in Range(s.cache),
           NEW q \in Seq(Nat), Range(q) = Range(s.cache) \ {c}, IsInjective(q),
           Len(q) <= Len(s.cache)
    PROVE  LET t == [ngx_js_http_close_connection(s, c) EXCEPT !.cache = q]
           IN  /\ t \in Net /\ OwnersOf(t, F) /\ t.http = s.http /\ t.cache = q
               /\ DOMAIN t.conns = DOMAIN s.conns
               /\ \A d \in DOMAIN s.conns \ {c} : t.conns[d] = s.conns[d]
               /\ t.conns[c] = ClosedConn(s.conns[c].host)
<1> DEFINE u == ngx_js_http_close_connection(s, c)
           t == [u EXCEPT !.cache = q]
<1>1. c \in DOMAIN s.conns
  BY DEF OwnersOf
<1>2. /\ u \in Net /\ u.http = s.http
      /\ DOMAIN u.conns = DOMAIN s.conns
      /\ \A d \in DOMAIN s.conns \ {c} : u.conns[d] = s.conns[d]
      /\ u.conns[c] = ClosedConn(s.conns[c].host)
  BY <1>1, CloseConnection
<1> HIDE DEF u
<1>3. t \in Net /\ t.http = u.http /\ t.conns = u.conns /\ t.cache = q
  BY <1>2, PutCache
<1> HIDE DEF t
<1>4. t.conns[c].data = Nobody /\ ~t.conns[c].open /\ ~t.conns[c].told
  <2>1. s.conns[c].host \in Hosts \cup {Nobody}
    BY <1>1, Parts DEF Connection
  <2> QED BY ZenonT(40), <2>1, <1>2, <1>3, ClosedConnProperties
<1>5. s.conns[c].data = Cache
  BY <1>1 DEF OwnersOf
<1>6. ASSUME NEW d \in DOMAIN t.conns
      PROVE  /\ t.conns[d].open <=> t.conns[d].data # Nobody
             /\ t.conns[d].data = Cache <=> d \in Range(t.cache)
             /\ t.conns[d].data \in F \cup {Nobody, Cache}
             /\ \A f \in F : t.conns[d].data = f <=> t.http[f].conn = d
             /\ t.conns[d].told =>
                   \E f \in F : t.conns[d].data = f /\ ~t.http[f].keepalive
  <2>1. CASE d = c
    BY <2>1, <1>1, <1>2, <1>3, <1>4, <1>5, FetchesAssumption DEF OwnersOf
  <2>2. CASE d # c
    <3>1. d \in DOMAIN s.conns /\ t.conns[d] = s.conns[d] /\ t.http = s.http
      BY <2>2, <1>2, <1>3
    <3>2. d \in Range(t.cache) <=> d \in Range(s.cache)
      BY <2>2, <1>3
    <3> QED BY <3>1, <3>2 DEF OwnersOf
  <2> QED BY <2>1, <2>2
<1>7. Len(q) <= Keepalive
  <2>1. Len(q) \in Nat /\ Len(s.cache) \in Nat /\ Len(s.cache) <= Keepalive /\ Keepalive \in Nat
    BY Parts, LenProperties, BoundsAssumption DEF OwnersOf
  <2> QED BY <2>1
<1>8. OwnersOf(t, F)
  <2>1. Range(t.cache) \subseteq DOMAIN t.conns /\ \A f \in F : t.http[f].conn \in DOMAIN t.conns \cup {NoConn}
    BY <1>2, <1>3 DEF OwnersOf
  <2> QED BY <1>3, <1>6, <1>7, <2>1 DEF OwnersOf
<1> QED BY <1>2, <1>3, <1>8 DEF t, u

\* What is on the wire is the same, but for connections that were closed.
SameWires(s, t) ==
    /\ DOMAIN t.conns = DOMAIN s.conns
    /\ \A d \in DOMAIN s.conns :
          \/ t.conns[d].in = s.conns[d].in /\ t.conns[d].out = s.conns[d].out
          \/ t.conns[d].in = <<>> /\ t.conns[d].out = <<>>

\* A full cache makes room.
LEMMA EvictedOwned ==
    ASSUME NEW s \in Net, NEW F \in SUBSET Fetches, OwnersOf(s, F), Keepalive > 0
    PROVE  LET t == Evicted(s)
           IN  /\ t \in Net /\ OwnersOf(t, F) /\ t.http = s.http
               /\ SameWires(s, t)
               /\ Len(t.cache) < Keepalive
               /\ \A d \in DOMAIN s.conns :
                     s.conns[d].data # Cache => t.conns[d] = s.conns[d]
<1> DEFINE t == Evicted(s)
<1>1. CASE Len(s.cache) < Keepalive
  BY <1>1 DEF Evicted, SameWires
<1>2. CASE ~(Len(s.cache) < Keepalive)
  <2> DEFINE c == Last(s.cache)
             q == Front(s.cache)
  <2>1. /\ s.cache \in Seq(Nat) /\ Len(s.cache) \in Nat /\ Keepalive \in Nat
        /\ DOMAIN s.cache = 1..Len(s.cache) /\ Len(s.cache) = Keepalive
    BY <1>2, Parts, BoundsAssumption DEF OwnersOf
  <2>2. Len(s.cache) \in 1..Len(s.cache)
    BY <2>1
  <2>3. c \in Range(s.cache)
    BY <2>1, <2>2 DEF Last, Range
  <2>4. /\ q \in Seq(Nat) /\ Len(q) = Len(s.cache) - 1
        /\ \A i \in 1..(Len(s.cache) - 1) : q[i] = s.cache[i]
    <3>1. \A i \in 1..(Len(s.cache) - 1) : s.cache[i] \in Nat
      BY <2>1, ElementOfSeq
    <3> QED BY <3>1, <2>1, SubSeqProperties DEF Front
  <2> HIDE DEF q
  <2>5. DOMAIN q = 1..(Len(s.cache) - 1)
    <3>1. DOMAIN q = 1..Len(q)
      BY <2>4, LenProperties
    <3> QED BY <3>1, <2>4
  <2>6. IsInjective(q)
    <3>1. ASSUME NEW i \in DOMAIN q, NEW j \in DOMAIN q, q[i] = q[j]
          PROVE  i = j
      <4>1. /\ i \in 1..(Len(s.cache) - 1) /\ j \in 1..(Len(s.cache) - 1)
            /\ i \in DOMAIN s.cache /\ j \in DOMAIN s.cache
        BY <2>1, <2>5
      <4>2. s.cache[i] = s.cache[j]
        BY <3>1, <4>1, <2>4
      <4>3. IsInjective(s.cache)
        BY DEF OwnersOf
      <4> QED BY <4>1, <4>2, <4>3, Zenon DEF IsInjective
    <3> QED BY <3>1, Zenon DEF IsInjective
  <2>7. Range(q) = Range(s.cache) \ {c}
    <3>1. ASSUME NEW x \in Range(q) PROVE x \in Range(s.cache) \ {c}
      <4>1. PICK i \in DOMAIN q : q[i] = x
        BY DEF Range
      <4>2. i \in DOMAIN s.cache /\ s.cache[i] = x /\ i # Len(s.cache)
        BY <4>1, <2>1, <2>4, <2>5
      <4> QED BY <4>2, <2>1, <2>2 DEF OwnersOf, IsInjective, Range, Last
    <3>2. ASSUME NEW x \in Range(s.cache) \ {c} PROVE x \in Range(q)
      <4>1. PICK i \in DOMAIN s.cache : s.cache[i] = x
        BY DEF Range
      <4>2. i # Len(s.cache)
        BY <4>1 DEF Last
      <4>3. i \in DOMAIN q /\ q[i] = x
        BY <4>1, <4>2, <2>1, <2>4, <2>5
      <4> QED BY <4>3 DEF Range
    <3> QED BY <3>1, <3>2
  <2>8. t = [ngx_js_http_close_connection(s, c) EXCEPT !.cache = q]
    <3>1. c \in DOMAIN s.conns
      BY <2>3 DEF OwnersOf
    <3>2. ngx_js_http_close_connection(s, c).cache = s.cache
      BY <3>1, CloseConnection
    <3> QED BY <3>2, <1>2 DEF Evicted, q
  <2> HIDE DEF c, t
  <2>9. Len(q) <= Len(s.cache)
    BY <2>4, <2>1
  <2>10. /\ t \in Net /\ OwnersOf(t, F) /\ t.http = s.http /\ t.cache = q
         /\ DOMAIN t.conns = DOMAIN s.conns
         /\ \A d \in DOMAIN s.conns \ {c} : t.conns[d] = s.conns[d]
         /\ t.conns[c] = ClosedConn(s.conns[c].host)
    BY <2>3, <2>4, <2>6, <2>7, <2>8, <2>9, DropIdle
  <2>11. c \in DOMAIN s.conns /\ s.conns[c].data = Cache
    BY <2>3 DEF OwnersOf
  <2>12. SameWires(s, t)
    <3>1. s.conns[c].host \in Hosts \cup {Nobody}
      BY <2>11, Parts DEF Connection
    <3> QED BY <3>1, <2>10, ClosedConnProperties DEF SameWires
  <2>13. Len(t.cache) < Keepalive
    BY <2>10, <2>4, <2>1
  <2> QED BY <2>10, <2>11, <2>12, <2>13 DEF t
<1> QED BY <1>1, <1>2

\* An event on an idle connection: it stays, or it is closed and leaves.
LEMMA CloseHandlerOwned ==
    ASSUME NEW s \in Net, NEW F \in SUBSET Fetches, OwnersOf(s, F),
           NEW c \in Range(s.cache)
    PROVE  LET t == ngx_js_http_keepalive_close_handler(s, c)
           IN  /\ t \in Net /\ OwnersOf(t, F) /\ t.http = s.http
               /\ SameWires(s, t)
<1> DEFINE t == ngx_js_http_keepalive_close_handler(s, c)
           q == Kept(s.cache, {c})
<1>1. CASE ngx_js_http_keepalive_check_connection(s.conns[c])
  BY <1>1 DEF ngx_js_http_keepalive_close_handler, SameWires
<1>2. CASE ~ngx_js_http_keepalive_check_connection(s.conns[c])
  <2>1. c \in DOMAIN s.conns
    BY DEF OwnersOf
  <2>2. ngx_js_http_close_connection(s, c).cache = s.cache
    BY <2>1, CloseConnection
  <2>3. t = [ngx_js_http_close_connection(s, c) EXCEPT !.cache = q]
    BY <1>2, <2>2 DEF ngx_js_http_keepalive_close_handler
  <2>4. s.cache \in Seq(Nat) /\ IsInjective(s.cache)
    BY Parts DEF OwnersOf
  <2>5. /\ q \in Seq(Nat) /\ Range(q) = Range(s.cache) \ {c} /\ IsInjective(q)
        /\ Len(q) <= Len(s.cache)
    BY <2>4, KeptProperties
  <2> HIDE DEF t, q
  <2>6. /\ t \in Net /\ OwnersOf(t, F) /\ t.http = s.http
        /\ DOMAIN t.conns = DOMAIN s.conns
        /\ \A d \in DOMAIN s.conns \ {c} : t.conns[d] = s.conns[d]
        /\ t.conns[c] = ClosedConn(s.conns[c].host)
    BY <2>3, <2>5, DropIdle
  <2>7. s.conns[c].host \in Hosts \cup {Nobody}
    BY <2>1, Parts DEF Connection
  <2>8. SameWires(s, t)
    BY <2>6, <2>7, ClosedConnProperties DEF SameWires
  <2> QED BY <2>6, <2>8 DEF t
<1> QED BY <1>1, <1>2

\* A connection is stored in the cache, unless it is closed.
LEMMA FreeKeepaliveOwned ==
    ASSUME NEW s \in Net, NEW f \in Fetches, NEW o, OwnersOf(s, Fetches),
           s.http[f].conn # NoConn, s.http[f].keepalive, Keepalive > 0
    PROVE  LET t == ngx_js_http_free_keepalive_connection(s, f, o)
           IN  /\ t \in Net /\ OwnersOf(t, Fetches \ {f}) /\ t.http = s.http
               /\ SameWires(s, t)
<1> DEFINE c == s.http[f].conn
           F == Fetches \ {f}
<1>1. /\ c \in DOMAIN s.conns /\ s.conns[c].data = f /\ c \notin Range(s.cache)
      /\ s.conns[c].open
  BY FetchesAssumption DEF OwnersOf
<1>2. ~s.conns[c].told
  BY <1>1 DEF OwnersOf
<1>3. s.conns[c] \in Connection /\ s.conns[c].host \in Hosts \cup {Nobody}
  BY <1>1, Parts DEF Connection
<1> HIDE DEF c
<1>4. \A d \in DOMAIN s.conns : s.conns[d].data = f <=> d = c
  BY <1>1 DEF OwnersOf, c
<1>5. ASSUME NEW t, t = ngx_js_http_close_connection(s, c)
      PROVE  /\ t \in Net /\ OwnersOf(t, F) /\ t.http = s.http /\ SameWires(s, t)
  <2>1. /\ t \in Net /\ t.http = s.http /\ t.cache = s.cache
        /\ DOMAIN t.conns = DOMAIN s.conns
        /\ \A d \in DOMAIN s.conns \ {c} : t.conns[d] = s.conns[d]
        /\ t.conns[c] = ClosedConn(s.conns[c].host)
    BY <1>1, <1>5, CloseConnection
  <2>2. t.conns[c].data = Nobody /\ ~t.conns[c].open /\ ~t.conns[c].told
    BY <2>1, <1>3, ClosedConnProperties
  <2>3. SameWires(s, t)
    BY <2>1, <1>3, ClosedConnProperties DEF SameWires
  <2>4. OwnersOf(t, F)
    <3>1. ASSUME NEW d \in DOMAIN t.conns
          PROVE  /\ t.conns[d].open <=> t.conns[d].data # Nobody
                 /\ t.conns[d].data = Cache <=> d \in Range(t.cache)
                 /\ t.conns[d].data \in F \cup {Nobody, Cache}
                 /\ \A g \in F : t.conns[d].data = g <=> t.http[g].conn = d
                 /\ t.conns[d].told =>
                       \E g \in F : t.conns[d].data = g /\ ~t.http[g].keepalive
      <4>1. CASE d = c
        BY <4>1, <2>1, <2>2, <1>1, FetchesAssumption DEF OwnersOf
      <4>2. CASE d # c
        <5>1. d \in DOMAIN s.conns /\ t.conns[d] = s.conns[d] /\ s.conns[d].data # f
          BY <4>2, <2>1, <1>4
        <5> QED BY <5>1, <2>1 DEF OwnersOf
      <4> QED BY <4>1, <4>2
    <3> QED BY <3>1, <2>1 DEF OwnersOf
  <2> QED BY <2>1, <2>3, <2>4
<1> DEFINE e == Evicted(s)
           n == [e.conns[c] EXCEPT !.data = Cache, !.rtimer = TRUE, !.wtimer = FALSE]
           t == [e EXCEPT !.cache = <<c>> \o @, !.conns[c].data = Cache,
                 !.conns[c].rtimer = TRUE, !.conns[c].wtimer = FALSE]
<1>6. /\ e \in Net /\ OwnersOf(e, Fetches) /\ e.http = s.http /\ SameWires(s, e)
      /\ Len(e.cache) < Keepalive
      /\ e.conns[c] = s.conns[c]
  <2>1. Fetches \in SUBSET Fetches
    OBVIOUS
  <2>2. s.conns[c].data # Cache
    BY <1>1, FetchesAssumption
  <2> QED BY <2>1, <2>2, <1>1, EvictedOwned
<1>7. /\ c \in DOMAIN e.conns /\ c \notin Range(e.cache)
      /\ \A d \in DOMAIN e.conns : e.conns[d].data = f <=> d = c
  <2>1. c \in DOMAIN e.conns
    BY <1>1, <1>6 DEF SameWires
  <2>2. e.http[f].conn = c
    BY <1>6 DEF c
  <2> QED BY <2>1, <2>2, <1>1, <1>6, FetchesAssumption DEF OwnersOf
<1> HIDE DEF e
<1>8. /\ n \in Connection /\ n.data = Cache /\ n.open /\ ~n.told
      /\ n.in = s.conns[c].in /\ n.out = s.conns[c].out
  <2> DEFINE m == s.conns[c]
  <2>1. m \in Connection /\ ~m.told /\ m.open /\ n = [m EXCEPT !.data = Cache, !.rtimer = TRUE, !.wtimer = FALSE]
    BY <1>1, <1>2, <1>3, <1>6
  <2> HIDE DEF m
  <2>2. [m EXCEPT !.data = Cache, !.rtimer = TRUE, !.wtimer = FALSE] \in Connection
    BY <2>1 DEF Connection
  <2>3. /\ [m EXCEPT !.data = Cache, !.rtimer = TRUE, !.wtimer = FALSE].data = Cache
        /\ [m EXCEPT !.data = Cache, !.rtimer = TRUE, !.wtimer = FALSE].open = m.open
        /\ [m EXCEPT !.data = Cache, !.rtimer = TRUE, !.wtimer = FALSE].told = m.told
        /\ [m EXCEPT !.data = Cache, !.rtimer = TRUE, !.wtimer = FALSE].in = m.in
        /\ [m EXCEPT !.data = Cache, !.rtimer = TRUE, !.wtimer = FALSE].out = m.out
    BY <2>1 DEF Connection
  <2> HIDE DEF n
  <2> QED BY <2>1, <2>2, <2>3 DEF m
<1> DEFINE q == <<c>> \o e.cache
<1>9. /\ q \in Seq(Nat) /\ Len(q) = Len(e.cache) + 1 /\ Len(e.cache) \in Nat
      /\ q[1] = c /\ \A i \in 1..Len(e.cache) : q[i + 1] = e.cache[i]
      /\ DOMAIN q = 1..(Len(e.cache) + 1)
  <2>1. e.cache \in Seq(Nat) /\ Len(e.cache) \in Nat /\ c \in Nat
    BY <1>6, <1>7, Parts
  <2>2. <<c>> \in Seq(Nat) /\ Len(<<c>>) = 1 /\ <<c>>[1] = c
    BY <2>1
  <2>3. /\ q \in Seq(Nat) /\ Len(q) = 1 + Len(e.cache)
        /\ \A i \in 1..(1 + Len(e.cache)) : q[i] = IF i <= 1 THEN <<c>>[i] ELSE e.cache[i - 1]
    BY <2>1, <2>2, ConcatProperties
  <2>4. DOMAIN q = 1..Len(q)
    BY <2>3, LenProperties
  <2> HIDE DEF q
  <2> QED BY SMTT(20), <2>1, <2>2, <2>3, <2>4
<1>10. t = [[e EXCEPT !.cache = q] EXCEPT !.conns[c] = n]
  <2>1. e \in [http : [Fetches -> Http], conns : Seq(Connection), cache : Seq(Nat)]
    BY <1>6 DEF Net
  <2>2. e.conns[c] \in Connection /\ e.conns \in Seq(Connection)
    BY <1>6, <1>7, Parts
  <2> QED BY ZenonT(40), <2>1, <2>2
<1> HIDE DEF q, n, t
<1>11. /\ t \in Net /\ t.http = s.http /\ t.cache = q /\ DOMAIN t.conns = DOMAIN s.conns
       /\ \A d \in DOMAIN s.conns \ {c} : t.conns[d] = e.conns[d]
       /\ t.conns[c] = n
  <2> DEFINE x == [e EXCEPT !.cache = q]
  <2>1. x \in Net /\ x.http = e.http /\ x.conns = e.conns /\ x.cache = q
    BY <1>6, <1>9, PutCache
  <2> HIDE DEF x
  <2>2. /\ [x EXCEPT !.conns[c] = n] \in Net
        /\ [x EXCEPT !.conns[c] = n].http = x.http
        /\ [x EXCEPT !.conns[c] = n].cache = x.cache
        /\ Len([x EXCEPT !.conns[c] = n].conns) = Len(x.conns)
        /\ [x EXCEPT !.conns[c] = n].conns[c] = n
        /\ \A d \in DOMAIN x.conns \ {c} : [x EXCEPT !.conns[c] = n].conns[d] = x.conns[d]
    BY <2>1, <1>7, <1>8, PutConn
  <2>3. t = [x EXCEPT !.conns[c] = n]
    BY <1>10 DEF x
  <2>4. DOMAIN t.conns = DOMAIN x.conns
    BY <2>1, <2>2, <2>3, Parts
  <2>5. DOMAIN s.conns = DOMAIN x.conns
    BY <2>1, <1>6 DEF SameWires
  <2> QED BY <2>1, <2>2, <2>3, <2>4, <2>5, <1>6
<1>12. Range(q) = Range(e.cache) \cup {c}
  <2>1. ASSUME NEW x \in Range(q) PROVE x \in Range(e.cache) \cup {c}
    <3>1. PICK i \in DOMAIN q : q[i] = x
      BY DEF Range
    <3>2. CASE i = 1
      BY <3>1, <3>2, <1>9
    <3>3. CASE i # 1
      <4>1. i - 1 \in 1..Len(e.cache) /\ (i - 1) + 1 = i
        BY <3>3, <1>9
      <4>2. e.cache[i - 1] = x /\ i - 1 \in DOMAIN e.cache
        BY <4>1, <3>1, <1>9, <1>6, Parts
      <4> QED BY <4>2 DEF Range
    <3> QED BY <3>2, <3>3
  <2>2. ASSUME NEW x \in Range(e.cache) PROVE x \in Range(q)
    <3>1. PICK i \in DOMAIN e.cache : e.cache[i] = x
      BY DEF Range
    <3>2. i \in 1..Len(e.cache)
      BY <1>6, Parts
    <3>3. i + 1 \in DOMAIN q /\ q[i + 1] = x
      BY <3>1, <3>2, <1>9
    <3> QED BY <3>3 DEF Range
  <2>3. c \in Range(q)
    <3>1. 1 \in DOMAIN q /\ q[1] = c
      BY <1>9
    <3> QED BY <3>1 DEF Range
  <2> QED BY <2>1, <2>2, <2>3
<1>13. IsInjective(q)
  <2> SUFFICES ASSUME NEW i \in DOMAIN q, NEW j \in DOMAIN q, i < j PROVE q[i] # q[j]
    <3>1. DOMAIN q \subseteq Nat
      BY <1>9
    <3> QED BY <3>1 DEF IsInjective
  <2>1. j - 1 \in 1..Len(e.cache) /\ (j - 1) + 1 = j
    BY <1>9
  <2>2. q[j] = e.cache[j - 1] /\ j - 1 \in DOMAIN e.cache
    BY <2>1, <1>9, <1>6, Parts
  <2>3. CASE i = 1
    <3>1. q[j] \in Range(e.cache)
      BY <2>2 DEF Range
    <3> QED BY <3>1, <2>3, <1>7, <1>9
  <2>4. CASE i # 1
    <3>1. i - 1 \in 1..Len(e.cache) /\ (i - 1) + 1 = i /\ i - 1 # j - 1
      BY <2>4, <1>9
    <3>2. q[i] = e.cache[i - 1] /\ i - 1 \in DOMAIN e.cache
      BY <3>1, <1>9, <1>6, Parts
    <3> QED BY <3>1, <3>2, <2>2, <1>6 DEF OwnersOf, IsInjective
  <2> QED BY <2>3, <2>4
<1>14. OwnersOf(t, F)
  <2>1. ASSUME NEW d \in DOMAIN t.conns
        PROVE  /\ t.conns[d].open <=> t.conns[d].data # Nobody
               /\ t.conns[d].data = Cache <=> d \in Range(t.cache)
               /\ t.conns[d].data \in F \cup {Nobody, Cache}
               /\ \A g \in F : t.conns[d].data = g <=> t.http[g].conn = d
               /\ t.conns[d].told =>
                     \E g \in F : t.conns[d].data = g /\ ~t.http[g].keepalive
    <3>1. CASE d = c
      <4>1. \A g \in F : s.http[g].conn # c
        BY <1>1, <1>4 DEF OwnersOf
      <4> QED BY <3>1, <4>1, <1>8, <1>11, <1>12, FetchesAssumption
    <3>2. CASE d # c
      <4>1. d \in DOMAIN e.conns /\ t.conns[d] = e.conns[d] /\ e.conns[d].data # f
        BY <3>2, <1>6, <1>7, <1>11 DEF SameWires
      <4> QED BY <3>2, <4>1, <1>6, <1>11, <1>12 DEF OwnersOf
    <3> QED BY <3>1, <3>2
  <2>2. Range(t.cache) \subseteq DOMAIN t.conns
    BY <1>1, <1>6, <1>11, <1>12 DEF OwnersOf, SameWires
  <2>3. Len(t.cache) <= Keepalive
    BY <1>6, <1>9, <1>11, BoundsAssumption
  <2>4. \A g \in F : t.http[g].conn \in DOMAIN t.conns \cup {NoConn}
    BY <1>11 DEF OwnersOf
  <2> QED BY <2>1, <2>2, <2>3, <2>4, <1>11, <1>13 DEF OwnersOf
<1>15. SameWires(s, t)
  BY <1>6, <1>8, <1>11 DEF SameWires
<1> DEFINE r == ngx_js_http_free_keepalive_connection(s, f, o)
<1>16. \/ r = ngx_js_http_close_connection(s, c)
       \/ r = ngx_js_http_keepalive_close_handler(t, c)
       \/ r = t
  BY DEF ngx_js_http_free_keepalive_connection, c, e, t
<1> HIDE DEF r
<1>17. /\ r \in Net /\ OwnersOf(r, F) /\ r.http = s.http /\ SameWires(s, r)
  <2>1. CASE r = ngx_js_http_close_connection(s, c)
    BY <2>1, <1>5
  <2>2. CASE r = t
    BY <2>2, <1>11, <1>14, <1>15
  <2>3. CASE r = ngx_js_http_keepalive_close_handler(t, c)
    <3>1. c \in Range(t.cache) /\ F \in SUBSET Fetches
      BY <1>11, <1>12
    <3>2. /\ r \in Net /\ OwnersOf(r, F) /\ r.http = t.http /\ SameWires(t, r)
      BY <3>1, <1>11, <1>14, <2>3, CloseHandlerOwned
    <3>3. SameWires(s, r)
      BY <3>2, <1>15 DEF SameWires
    <3> QED BY <3>2, <3>3, <1>11
  <2> QED BY <2>1, <2>2, <2>3, <1>16
<1> QED BY <1>17 DEF r

\* A fetch lets go of its connection.
LEMMA ClosePeerOwned ==
    ASSUME NEW s \in Net, NEW f \in Fetches, NEW o, OwnersOf(s, Fetches),
           s.http[f].keepalive => Keepalive > 0
    PROVE  LET t == ngx_js_http_close_peer(s, f, o)
           IN  /\ t \in Net /\ OwnersOf(t, Fetches) /\ SameWires(s, t)
               /\ \A g \in Fetches \ {f} : t.http[g] = s.http[g]
               /\ t.http[f] \in {s.http[f], [s.http[f] EXCEPT !.conn = NoConn]}
               /\ t.http[f].conn = NoConn
<1> DEFINE c == s.http[f].conn
           t == ngx_js_http_close_peer(s, f, o)
<1>1. CASE c = NoConn
  BY <1>1 DEF ngx_js_http_close_peer, SameWires
<1>2. CASE c # NoConn
  <2> DEFINE u == IF s.http[f].keepalive
                  THEN ngx_js_http_free_keepalive_connection(s, f, o)
                  ELSE ngx_js_http_close_connection(s, c)
             h == [s.http[f] EXCEPT !.conn = NoConn]
  <2>1. /\ u \in Net /\ OwnersOf(u, Fetches \ {f}) /\ u.http = s.http /\ SameWires(s, u)
    <3>1. CASE s.http[f].keepalive
      BY <3>1, <1>2, FreeKeepaliveOwned
    <3>2. CASE ~s.http[f].keepalive
      <4> DEFINE v == ngx_js_http_close_connection(s, c)
      <4>1. /\ c \in DOMAIN s.conns /\ s.conns[c].data = f /\ c \notin Range(s.cache)
        BY <1>2, FetchesAssumption DEF OwnersOf
      <4>2. s.conns[c].host \in Hosts \cup {Nobody}
        BY <4>1, Parts DEF Connection
      <4>3. \A d \in DOMAIN s.conns : s.conns[d].data = f <=> d = c
        BY <4>1 DEF OwnersOf
      <4>4. /\ v \in Net /\ v.http = s.http /\ v.cache = s.cache
            /\ DOMAIN v.conns = DOMAIN s.conns
            /\ \A d \in DOMAIN s.conns \ {c} : v.conns[d] = s.conns[d]
            /\ v.conns[c] = ClosedConn(s.conns[c].host)
        BY <4>1, CloseConnection
      <4> HIDE DEF v, c
      <4>5. v.conns[c].data = Nobody /\ ~v.conns[c].open /\ ~v.conns[c].told
        BY <4>4, <4>2, ClosedConnProperties
      <4>6. SameWires(s, v)
        BY <4>4, <4>2, ClosedConnProperties DEF SameWires
      <4>7. OwnersOf(v, Fetches \ {f})
        <5>1. ASSUME NEW d \in DOMAIN v.conns
              PROVE  /\ v.conns[d].open <=> v.conns[d].data # Nobody
                     /\ v.conns[d].data = Cache <=> d \in Range(v.cache)
                     /\ v.conns[d].data \in (Fetches \ {f}) \cup {Nobody, Cache}
                     /\ \A g \in Fetches \ {f} : v.conns[d].data = g <=> v.http[g].conn = d
                     /\ v.conns[d].told =>
                           \E g \in Fetches \ {f} : v.conns[d].data = g /\ ~v.http[g].keepalive
          <6>1. CASE d = c
            BY <6>1, <4>1, <4>4, <4>5, FetchesAssumption DEF OwnersOf
          <6>2. CASE d # c
            <7>1. d \in DOMAIN s.conns /\ v.conns[d] = s.conns[d] /\ s.conns[d].data # f
              BY <6>2, <4>3, <4>4
            <7> QED BY <7>1, <4>4 DEF OwnersOf
          <6> QED BY <6>1, <6>2
        <5> QED BY <5>1, <4>4 DEF OwnersOf
      <4>8. u = v
        BY <3>2 DEF v, c
      <4> QED BY <4>4, <4>6, <4>7, <4>8
    <3> QED BY <3>1, <3>2
  <2>2. t = [u EXCEPT !.http[f] = h]
    <3>1. t = [u EXCEPT !.http[f].conn = NoConn]
      BY <1>2 DEF ngx_js_http_close_peer
    <3> QED BY <3>1, <2>1
  <2>3. h \in Http /\ h.conn = NoConn /\ h.keepalive = s.http[f].keepalive
    <3>1. s.http[f] \in Http
      BY Parts
    <3> QED BY <3>1 DEF Http, NoConn
  <2> HIDE DEF u, h, t
  <2>4. /\ t \in Net /\ t.conns = u.conns /\ t.cache = u.cache /\ t.http[f] = h
        /\ \A g \in Fetches \ {f} : t.http[g] = u.http[g]
    BY <2>1, <2>2, <2>3, PutHttp
  <2>5. OwnersOf(t, Fetches)
    <3>1. ASSUME NEW d \in DOMAIN t.conns
          PROVE  /\ t.conns[d].open <=> t.conns[d].data # Nobody
                 /\ t.conns[d].data = Cache <=> d \in Range(t.cache)
                 /\ t.conns[d].data \in Fetches \cup {Nobody, Cache}
                 /\ \A g \in Fetches : t.conns[d].data = g <=> t.http[g].conn = d
                 /\ t.conns[d].told =>
                       \E g \in Fetches : t.conns[d].data = g /\ ~t.http[g].keepalive
      <4>1. t.http[f].conn # d
        BY <2>1, <2>3, <2>4, Parts DEF NoConn
      <4>2. t.conns[d].data # f
        BY <2>1, <2>4, FetchesAssumption DEF OwnersOf
      <4> QED BY <4>1, <4>2, <2>1, <2>4 DEF OwnersOf
    <3>2. \A g \in Fetches : t.http[g].conn \in DOMAIN t.conns \cup {NoConn}
      BY <2>1, <2>3, <2>4 DEF OwnersOf
    <3> QED BY <3>1, <3>2, <2>1, <2>4 DEF OwnersOf
  <2>6. SameWires(s, t)
    BY <2>1, <2>4 DEF SameWires
  <2> QED BY <2>1, <2>3, <2>4, <2>5, <2>6 DEF t, h
<1> QED BY <1>1, <1>2

-----------------------------------------------------------------------------
(* The inductive invariant. *)

\* Token b can follow a token of a kind for an answer: the lines of a header
\* follow its status line in their order, and "end" follows the last of them.
Follows(kind, answer, b) ==
    /\ b.kind \in {"length", "chunked"} => kind = "status" /\ answer = b.answer
    /\ b.kind = "close" =>
          kind \in {"status", "length", "chunked"} /\ answer = b.answer
    /\ b.kind = "end" =>
          /\ answer = b.answer
          /\ kind \in {"status", "length", "chunked", "close"}
          /\ answer.close => kind = "close"

Linked(q) ==
    \A i \in DOMAIN q :
        i + 1 \in DOMAIN q => Follows(q[i].kind, q[i].answer, q[i + 1])

\* A fetch in the middle of a header: the line it read last was of this kind,
\* and q is what follows.
Midway(h, q) ==
    \E kind \in {"status", "length", "chunked", "close"}, a \in Answers :
        /\ h.answer = {a}
        /\ kind = "close" \/ ~a.v11 => ~h.keepalive
        /\ q # <<>> => Follows(kind, a, q[1])

Limit == Max({MaxBody, MaxChunked})

\* A fetch by itself.
HttpOK(h) ==
    /\ h.keepalive => Keepalive > 0
    /\ h.phase = "active" <=> h.conn # NoConn
    /\ h.phase = "active" => h.naddr < h.naddrs
    /\ h.phase \in {"none", "resolving"} => h.naddr = 0
    /\ h.phase = "none" => ~h.head
    /\ h.phase # "rejected" => h.size <= Limit /\ (h.head \/ h.length <= Limit)
    /\ h.conn = NoConn => h.left = <<>>
    /\ h.process = "body" => \A a \in h.answer : ~a.v11 \/ a.close => ~h.keepalive

Wire(n) == n.in \o n.out

\* What a fetch has still to read.
StreamOK(s, f) ==
    LET h == s.http[f]
        q == h.left \o Wire(s.conns[h.conn])
    IN  h.conn # NoConn => Linked(q) /\ (h.process = "headers" => Midway(h, q))

WiresOK(s) == \A c \in DOMAIN s.conns : Linked(Wire(s.conns[c]))

\* The invariant, but for fetch f, of which less is asked: it is being ended
\* or about to connect.
AlmostInv(s, f) ==
    /\ s \in Net
    /\ OwnersOf(s, Fetches)
    /\ WiresOK(s)
    /\ \A g \in Fetches \ {f} : HttpOK(s.http[g]) /\ StreamOK(s, g)
    /\ s.http[f].keepalive => Keepalive > 0
    /\ s.http[f].process = "body" =>
          \A a \in s.http[f].answer : ~a.v11 \/ a.close => ~s.http[f].keepalive

InvOf(s) ==
    /\ s \in Net
    /\ OwnersOf(s, Fetches)
    /\ WiresOK(s)
    /\ \A f \in Fetches : HttpOK(s.http[f]) /\ StreamOK(s, f)

Inv == InvOf(net)

LEMMA InvIsAlmost ==
    ASSUME NEW s, InvOf(s), NEW f \in Fetches
    PROVE  AlmostInv(s, f)
BY DEF InvOf, AlmostInv, HttpOK

-----------------------------------------------------------------------------
(* Sequences of tokens. *)

LEMMA TokenAssoc ==
    ASSUME NEW q \in Seq(TokenSet), NEW r \in Seq(TokenSet), NEW z \in Seq(TokenSet)
    PROVE  (q \o r) \o z = q \o (r \o z)
<1> DEFINE S == TokenSet
<1>1. q \in Seq(S) /\ r \in Seq(S) /\ z \in Seq(S)
  OBVIOUS
<1> HIDE DEF S
<1> QED BY <1>1, ConcatAssociative

\* A part of what was sent is still in order.
LEMMA LinkedParts ==
    ASSUME NEW q \in Seq(TokenSet), NEW r \in Seq(TokenSet), Linked(q \o r)
    PROVE  Linked(q) /\ Linked(r)
<1>1. /\ q \o r \in Seq(TokenSet) /\ Len(q \o r) = Len(q) + Len(r)
      /\ \A i \in 1..(Len(q) + Len(r)) :
            (q \o r)[i] = IF i <= Len(q) THEN q[i] ELSE r[i - Len(q)]
  BY ConcatProperties
<1>2. /\ Len(q) \in Nat /\ Len(r) \in Nat /\ DOMAIN q = 1..Len(q) /\ DOMAIN r = 1..Len(r)
      /\ DOMAIN (q \o r) = 1..Len(q \o r)
  BY <1>1, LenProperties
<1> DEFINE w == q \o r
<1>3. \A i \in 1..(Len(q) + Len(r)) :
         i + 1 \in 1..(Len(q) + Len(r)) => Follows(w[i].kind, w[i].answer, w[i + 1])
  BY <1>1, <1>2 DEF Linked
<1> HIDE DEF w
<1>4. Linked(q)
  <2> SUFFICES ASSUME NEW i \in DOMAIN q, i + 1 \in DOMAIN q
               PROVE  Follows(q[i].kind, q[i].answer, q[i + 1])
    BY DEF Linked
  <2>1. /\ i \in 1..(Len(q) + Len(r)) /\ i + 1 \in 1..(Len(q) + Len(r))
        /\ i <= Len(q) /\ i + 1 <= Len(q)
    BY <1>2
  <2>2. w[i] = q[i] /\ w[i + 1] = q[i + 1]
    BY <2>1, <1>1 DEF w
  <2> QED BY <2>1, <2>2, <1>3
<1>5. Linked(r)
  <2> SUFFICES ASSUME NEW i \in DOMAIN r, i + 1 \in DOMAIN r
               PROVE  Follows(r[i].kind, r[i].answer, r[i + 1])
    BY DEF Linked
  <2> DEFINE j == Len(q) + i
  <2>1. /\ j \in 1..(Len(q) + Len(r)) /\ j + 1 \in 1..(Len(q) + Len(r))
        /\ ~(j <= Len(q)) /\ ~(j + 1 <= Len(q))
        /\ j - Len(q) = i /\ (j + 1) - Len(q) = i + 1
    BY <1>2
  <2> HIDE DEF j
  <2>2. w[j] = r[i] /\ w[j + 1] = r[i + 1]
    BY <2>1, <1>1 DEF w
  <2> QED BY <2>1, <2>2, <1>3
<1> QED BY <1>4, <1>5

\* What is in order can be sent after what is in order, where it can follow.
LEMMA LinkedConcat ==
    ASSUME NEW q \in Seq(TokenSet), NEW r \in Seq(TokenSet), Linked(q), Linked(r),
           q # <<>> /\ r # <<>> => Follows(q[Len(q)].kind, q[Len(q)].answer, r[1])
    PROVE  Linked(q \o r)
<1>1. /\ q \o r \in Seq(TokenSet) /\ Len(q \o r) = Len(q) + Len(r)
      /\ \A i \in 1..(Len(q) + Len(r)) :
            (q \o r)[i] = IF i <= Len(q) THEN q[i] ELSE r[i - Len(q)]
  BY ConcatProperties
<1>2. /\ Len(q) \in Nat /\ Len(r) \in Nat /\ DOMAIN q = 1..Len(q) /\ DOMAIN r = 1..Len(r)
      /\ DOMAIN (q \o r) = 1..Len(q \o r)
  BY <1>1, LenProperties
<1> DEFINE w == q \o r
<1> SUFFICES ASSUME NEW i \in 1..(Len(q) + Len(r)), i + 1 \in 1..(Len(q) + Len(r))
             PROVE  Follows(w[i].kind, w[i].answer, w[i + 1])
  BY <1>1, <1>2 DEF Linked
<1> HIDE DEF w
<1>3. CASE i + 1 <= Len(q)
  <2>1. /\ i \in DOMAIN q /\ i + 1 \in DOMAIN q /\ i <= Len(q)
    BY <1>2, <1>3
  <2>2. w[i] = q[i] /\ w[i + 1] = q[i + 1]
    BY <2>1, <1>1, <1>3 DEF w
  <2> QED BY <2>1, <2>2 DEF Linked
<1>4. CASE i = Len(q)
  <2>1. /\ ~(i + 1 <= Len(q)) /\ i <= Len(q) /\ (i + 1) - Len(q) = 1
        /\ Len(r) > 0 /\ Len(q) > 0
    BY <1>2, <1>4
  <2>2. w[i] = q[Len(q)] /\ w[i + 1] = r[1]
    BY <2>1, <1>1, <1>4 DEF w
  <2>3. q # <<>> /\ r # <<>>
    BY <2>1, EmptySeq
  <2> QED BY <2>2, <2>3
<1>5. CASE i > Len(q)
  <2> DEFINE j == i - Len(q)
  <2>1. /\ j \in DOMAIN r /\ j + 1 \in DOMAIN r /\ ~(i <= Len(q)) /\ ~(i + 1 <= Len(q))
        /\ (i + 1) - Len(q) = j + 1 /\ i - Len(q) = j
    BY <1>2, <1>5
  <2> HIDE DEF j
  <2>2. w[i] = r[j] /\ w[i + 1] = r[j + 1]
    BY <2>1, <1>1 DEF w
  <2> QED BY <2>1, <2>2 DEF Linked
<1>6. i + 1 <= Len(q) \/ i = Len(q) \/ i > Len(q)
  <2>1. i \in Int /\ Len(q) \in Int
    BY <1>2
  <2> QED BY <2>1
<1> QED BY <1>3, <1>4, <1>5, <1>6

-----------------------------------------------------------------------------
(* Going over tokens. *)

\* What is left of q when n tokens are dropped.
LEMMA DroppedProperties ==
    ASSUME NEW q \in Seq(TokenSet), NEW w \in Seq(TokenSet), NEW n \in 0..Len(q)
    PROVE  LET r == SubSeq(q, n + 1, Len(q))
           IN  /\ r \in Seq(TokenSet) /\ Len(r) = Len(q) - n
               /\ r # <<>> => n + 1 \in DOMAIN q /\ r[1] = q[n + 1]
               /\ r # <<>> <=> n # Len(q)
               /\ Linked(q \o w) => Linked(r \o w)
               /\ r \o w # <<>> => n + 1 \in DOMAIN (q \o w) /\ (r \o w)[1] = (q \o w)[n + 1]
<1> DEFINE r == SubSeq(q, n + 1, Len(q))
           x == q \o w
           y == r \o w
<1>1. /\ Len(q) \in Nat /\ DOMAIN q = 1..Len(q) /\ Len(w) \in Nat /\ DOMAIN w = 1..Len(w)
      /\ n \in Nat /\ n <= Len(q)
  BY LenProperties
<1>2. \A i \in (n + 1)..Len(q) : q[i] \in TokenSet
  <2> TAKE i \in (n + 1)..Len(q)
  <2>1. i \in 1..Len(q)
    BY <1>1
  <2> QED BY <2>1, ElementOfSeq
<1>3. /\ r \in Seq(TokenSet) /\ Len(r) = Len(q) - n
      /\ \A i \in 1..(Len(q) - n) : r[i] = q[n + i]
  <2>1. n + 1 \in Int /\ Len(q) \in Int
    BY <1>1
  <2>2. /\ SubSeq(q, n + 1, Len(q)) \in Seq(TokenSet)
        /\ Len(SubSeq(q, n + 1, Len(q))) =
              IF n + 1 <= Len(q) THEN Len(q) - (n + 1) + 1 ELSE 0
        /\ \A i \in 1..(Len(q) - (n + 1) + 1) :
              SubSeq(q, n + 1, Len(q))[i] = q[(n + 1) + i - 1]
    BY <2>1, <1>2, SubSeqProperties
  <2> HIDE DEF r
  <2>3. /\ (IF n + 1 <= Len(q) THEN Len(q) - (n + 1) + 1 ELSE 0) = Len(q) - n
        /\ Len(q) - (n + 1) + 1 = Len(q) - n
    <3>1. PICK m \in Nat : m = Len(q)
      BY <1>1
    <3>2. n \in Int /\ m \in Int /\ n <= m
      BY <1>1, <3>1
    <3>3. (IF n + 1 <= m THEN m - (n + 1) + 1 ELSE 0) = m - n
      BY <3>2
    <3>4. m - (n + 1) + 1 = m - n
      BY <3>2
    <3> QED BY <3>1, <3>3, <3>4
  <2>4. \A i \in 1..(Len(q) - n) : (n + 1) + i - 1 = n + i
    <3> TAKE i \in 1..(Len(q) - n)
    <3>1. i \in Int /\ n \in Int
      BY <1>1
    <3> QED BY <3>1
  <2> QED BY <2>2, <2>3, <2>4 DEF r
<1> HIDE DEF r
<1>4. DOMAIN r = 1..(Len(q) - n)
  BY <1>3, LenProperties
<1>5. r # <<>> <=> n # Len(q)
  <2>1. r # <<>> => Len(r) \in Nat \ {0}
    BY <1>3, EmptySeq
  <2>2. r = <<>> => Len(r) = 0
    BY EmptySeq
  <2>3. Len(r) = 0 <=> n = Len(q)
    BY <1>1, <1>3
  <2> QED BY <2>1, <2>2, <2>3
<1>6. r # <<>> => n + 1 \in DOMAIN q /\ r[1] = q[n + 1]
  <2> SUFFICES ASSUME n # Len(q) PROVE n + 1 \in DOMAIN q /\ r[1] = q[n + 1]
    BY <1>5
  <2>1. n + 1 \in 1..Len(q) /\ 1 \in 1..(Len(q) - n)
    <3>1. PICK m \in Nat : m = Len(q)
      BY <1>1
    <3>2. n \in Nat /\ m \in Nat /\ n <= m /\ n # m
      BY <1>1, <3>1
    <3>3. n + 1 \in 1..m /\ 1 \in 1..(m - n)
      BY <3>2
    <3> QED BY <3>1, <3>3
  <2> QED BY <2>1, <1>1, <1>3
<1>7. /\ x \in Seq(TokenSet) /\ Len(x) = Len(q) + Len(w) /\ DOMAIN x = 1..(Len(q) + Len(w))
      /\ \A i \in 1..(Len(q) + Len(w)) : x[i] = IF i <= Len(q) THEN q[i] ELSE w[i - Len(q)]
  BY ConcatProperties, LenProperties
<1>8. /\ y \in Seq(TokenSet) /\ Len(y) = Len(r) + Len(w) /\ DOMAIN y = 1..(Len(r) + Len(w))
      /\ \A i \in 1..(Len(r) + Len(w)) : y[i] = IF i <= Len(r) THEN r[i] ELSE w[i - Len(r)]
  <2>1. y \in Seq(TokenSet) /\ Len(y) = Len(r) + Len(w)
    BY <1>3, ConcatProperties
  <2>2. DOMAIN y = 1..(Len(r) + Len(w))
    BY <2>1, LenProperties
  <2>3. \A i \in 1..(Len(r) + Len(w)) : y[i] = IF i <= Len(r) THEN r[i] ELSE w[i - Len(r)]
    BY <1>3, ConcatProperties
  <2> QED BY <2>1, <2>2, <2>3
<1> HIDE DEF x, y
<1>9. ASSUME NEW i \in DOMAIN y PROVE n + i \in DOMAIN x /\ y[i] = x[n + i]
  <2>1. i \in Int /\ 1 <= i /\ i <= Len(q) - n + Len(w)
    BY <1>1, <1>3, <1>8
  <2>2. n + i \in DOMAIN x /\ n + i \in 1..(Len(q) + Len(w)) /\ i \in 1..(Len(r) + Len(w))
    BY <2>1, <1>1, <1>3, <1>7
  <2>3. CASE i <= Len(q) - n
    <3>1. i \in 1..(Len(q) - n) /\ n + i <= Len(q) /\ i <= Len(r)
      BY <2>1, <2>3, <1>1, <1>3
    <3>2. y[i] = r[i] /\ x[n + i] = q[n + i] /\ r[i] = q[n + i]
      BY <3>1, <2>2, <1>3, <1>7, <1>8
    <3> QED BY <3>2, <2>2
  <2>4. CASE ~(i <= Len(q) - n)
    <3>1. ~(n + i <= Len(q)) /\ ~(i <= Len(r)) /\ (n + i) - Len(q) = i - Len(r)
      BY <2>1, <2>4, <1>1, <1>3
    <3>2. y[i] = w[i - Len(r)] /\ x[n + i] = w[(n + i) - Len(q)]
      BY <3>1, <2>2, <1>7, <1>8
    <3> QED BY <3>1, <3>2, <2>2
  <2> QED BY <2>3, <2>4
<1>10. Linked(x) => Linked(y)
  <2> SUFFICES ASSUME Linked(x), NEW i \in DOMAIN y, i + 1 \in DOMAIN y
               PROVE  Follows(y[i].kind, y[i].answer, y[i + 1])
    BY DEF Linked
  <2>1. n + (i + 1) = (n + i) + 1
    BY <1>1, <1>8
  <2>2. n + i \in DOMAIN x /\ (n + i) + 1 \in DOMAIN x /\ y[i] = x[n + i]
        /\ y[i + 1] = x[(n + i) + 1]
    BY <2>1, <1>9
  <2> QED BY <2>2 DEF Linked
<1>11. y # <<>> => n + 1 \in DOMAIN x /\ y[1] = x[n + 1]
  <2>1. y # <<>> => 1 \in DOMAIN y
    BY <1>8, EmptySeq, LenProperties
  <2> QED BY <2>1, <1>9
<1> QED BY <1>3, <1>5, <1>6, <1>10, <1>11 DEF r, x, y

\* Taken() changes what is left, and notes where that was from.
LEMMA TakenProperties ==
    ASSUME NEW h \in Http, NEW n \in 0..Len(h.left)
    PROVE  LET g == Taken(h, n)
           IN  /\ g \in Http /\ g.left = Dropped(h, n)
               /\ g.phase = h.phase /\ g.host = h.host /\ g.head = h.head
               /\ g.naddr = h.naddr /\ g.naddrs = h.naddrs /\ g.conn = h.conn
               /\ g.keepalive = h.keepalive /\ g.process = h.process
               /\ g.chunked = h.chunked /\ g.last = h.last /\ g.length = h.length
               /\ g.size = h.size /\ g.answer = h.answer
<1> DEFINE l == Dropped(h, n)
           z == h.from \cup {h.left[i].of : i \in 1..n}
           g == [h EXCEPT !.left = l, !.from = z]
<1>1. h.left \in Seq(TokenSet) /\ h.from \in SUBSET (Fetches \X Nat)
  BY DEF Http
<1>2. l \in Seq(TokenSet)
  <2>1. h.left \in Seq(TokenSet) /\ <<>> \in Seq(TokenSet)
    BY <1>1, EmptySeq
  <2> QED BY <2>1, DroppedProperties DEF Dropped
<1>3. z \in SUBSET (Fetches \X Nat)
  <2>1. \A i \in 1..n : h.left[i].of \in Fetches \X Nat
    <3> TAKE i \in 1..n
    <3>1. i \in 1..Len(h.left)
      BY <1>1, LenProperties
    <3>2. h.left[i] \in TokenSet
      BY <3>1, <1>1, ElementOfSeq
    <3> QED BY <3>2 DEF TokenSet
  <2> QED BY <2>1, <1>1
<1>4. Taken(h, n) = g
  <2>1. [h EXCEPT !.left = l].from = h.from
    BY DEF Http
  <2> QED BY <2>1 DEF Taken
<1> HIDE DEF l, z
<1>5. g \in Http
  BY <1>2, <1>3 DEF Http
<1>6. /\ g.left = l
      /\ g.phase = h.phase /\ g.host = h.host /\ g.head = h.head
      /\ g.naddr = h.naddr /\ g.naddrs = h.naddrs /\ g.conn = h.conn
      /\ g.keepalive = h.keepalive /\ g.process = h.process
      /\ g.chunked = h.chunked /\ g.last = h.last /\ g.length = h.length
      /\ g.size = h.size /\ g.answer = h.answer
  BY DEF Http
<1> HIDE DEF g
<1> QED BY <1>4, <1>5, <1>6 DEF l

\* Run() stops at the first token of another kind.
LEMMA RunProperties ==
    ASSUME NEW h \in Http, NEW kinds
    PROVE  LET n == Run(h, kinds)
           IN  /\ n \in 0..Len(h.left)
               /\ \A i \in 1..n : i \in DOMAIN h.left /\ h.left[i].kind \in kinds
               /\ n # Len(h.left) => h.left[n + 1].kind \notin kinds
<1> DEFINE others == {i \in DOMAIN h.left : h.left[i].kind \notin kinds}
           n == Run(h, kinds)
<1>1. Len(h.left) \in Nat /\ DOMAIN h.left = 1..Len(h.left)
  <2>1. h.left \in Seq(TokenSet)
    BY DEF Http
  <2> QED BY <2>1, LenProperties
<1>2. n = IF others = {} THEN Len(h.left) ELSE Min(others) - 1
  BY DEF Run
<1>3. CASE others = {}
  BY <1>1, <1>2, <1>3
<1>4. CASE others # {}
  <2> DEFINE m == Min(others)
  <2>1. others \in SUBSET Nat
    BY <1>1
  <2>2. m \in others /\ \A x \in others : m <= x
    BY <1>4, <2>1, MinProperties
  <2>3. m \in 1..Len(h.left) /\ h.left[m].kind \notin kinds
    BY <2>2, <1>1
  <2> HIDE DEF m
  <2>4. n = m - 1
    BY <1>2, <1>4 DEF m
  <2>5. \A i \in 1..n : i \in DOMAIN h.left /\ i \notin others
    BY <2>2, <2>3, <2>4, <1>1
  <2>6. n \in 0..Len(h.left) /\ n + 1 = m
    BY <2>3, <2>4, <1>1
  <2> QED BY <2>3, <2>5, <2>6
<1> QED BY <1>3, <1>4

-----------------------------------------------------------------------------
(* The body. *)

\* What no handler changes.
Steady(h, g) ==
    /\ g.phase = h.phase /\ g.host = h.host /\ g.head = h.head
    /\ g.naddr = h.naddr /\ g.naddrs = h.naddrs /\ g.conn = h.conn

\* Once the headers are over, a connection on which nothing follows is not
\* going to be kept.
BodyOK(h) == h.process = "body" => \A a \in h.answer : ~a.v11 \/ a.close => ~h.keepalive

Bounded(h) == h.size <= Limit /\ (h.head \/ h.length <= Limit)

\* The fetch h can be parsed, and w is still to arrive.
Parsable(h, w) ==
    /\ h \in Http /\ w \in Seq(TokenSet)
    /\ Linked(h.left \o w)
    /\ h.process = "headers" => Midway(h, h.left \o w)
    /\ Bounded(h) /\ BodyOK(h)

\* What parsing it results in.
Parsed(h, w, r) ==
    /\ r.h \in Http /\ r.rc \in {"AGAIN", "OK", "DONE", "ERROR"}
    /\ Steady(h, r.h) /\ BodyOK(r.h)
    /\ r.h.keepalive => h.keepalive
    /\ r.rc # "ERROR" =>
          /\ Bounded(r.h)
          /\ Linked(r.h.left \o w)
          /\ r.h.process = "headers" => Midway(r.h, r.h.left \o w)

\* Nothing is parsed.
LEMMA ParsedNothing ==
    ASSUME NEW h, NEW w, Parsable(h, w), NEW rc \in {"AGAIN", "OK", "DONE", "ERROR"}
    PROVE  Parsed(h, w, Result(h, rc))
BY DEF Parsed, Parsable, Result, Steady

\* A part of the body is parsed.
LEMMA ParsedBody ==
    ASSUME NEW h, NEW w, Parsable(h, w), h.process = "body", NEW n \in 0..Len(h.left),
           NEW g \in Http, Steady(h, g), g.keepalive = h.keepalive,
           g.process = h.process, g.answer = h.answer, g.left = Dropped(h, n),
           NEW rc \in {"AGAIN", "OK", "DONE", "ERROR"}, rc # "ERROR" => Bounded(g)
    PROVE  Parsed(h, w, Result(g, rc))
<1>1. h.left \in Seq(TokenSet) /\ w \in Seq(TokenSet) /\ Linked(h.left \o w)
  BY DEF Parsable, Http
<1>2. Linked(Dropped(h, n) \o w)
  BY <1>1, DroppedProperties DEF Dropped
<1>3. BodyOK(g)
  BY DEF Parsable, BodyOK
<1> QED BY <1>2, <1>3 DEF Parsed, Result

LEMMA LimitProperties == Limit \in Nat /\ MaxBody <= Limit /\ MaxChunked <= Limit
<1>1. MaxBody \in Nat /\ MaxChunked \in Nat
  BY BoundsAssumption
<1>2. \E m \in {MaxBody, MaxChunked} : \A x \in {MaxBody, MaxChunked} : m >= x
  BY <1>1
<1>3. Limit \in {MaxBody, MaxChunked} /\ \A x \in {MaxBody, MaxChunked} : Limit >= x
  BY <1>2 DEF Limit, Max
<1> QED BY <1>1, <1>3

LEMMA ParseChunkedOK ==
    ASSUME NEW h, NEW w, Parsable(h, w), h.process = "body"
    PROVE  Parsed(h, w, ParseChunked(h))
<1> DEFINE n == Run(h, {"chunk"})
           t == Taken(h, n)
           g == [t EXCEPT !.size = t.size + n]
           r == ParseChunked(h)
<1>1. h \in Http /\ h.left \in Seq(TokenSet) /\ Bounded(h) /\ w \in Seq(TokenSet)
  BY DEF Parsable, Http
<1>2. n \in 0..Len(h.left) /\ n \in Nat
  <2>1. n \in 0..Len(h.left)
    BY <1>1, RunProperties
  <2> QED BY <2>1
<1> HIDE DEF n
<1>3. /\ t \in Http /\ t.left = Dropped(h, n) /\ Steady(h, t)
      /\ t.keepalive = h.keepalive /\ t.process = h.process
      /\ t.length = h.length /\ t.size = h.size /\ t.answer = h.answer
  BY <1>1, <1>2, TakenProperties DEF Steady
<1> HIDE DEF t
<1>4. g \in Http
  <2>1. t.size + n \in Nat
    BY <1>2, <1>3 DEF Http
  <2> QED BY <2>1, <1>3 DEF Http
<1>5. /\ g.left = t.left /\ Steady(t, g) /\ g.keepalive = t.keepalive
      /\ g.process = t.process /\ g.length = t.length /\ g.answer = t.answer
  BY <1>3 DEF Http, Steady
<1> HIDE DEF g
<1>6. /\ g.left = Dropped(h, n) /\ Steady(h, g) /\ g.keepalive = h.keepalive
      /\ g.process = h.process /\ g.length = h.length /\ g.answer = h.answer
  BY <1>3, <1>5 DEF Steady
<1>7. Parsed(h, w, Result(g, "ERROR"))
  BY <1>2, <1>4, <1>6, ParsedBody
<1>8. CASE h.left = <<>>
  <2>1. r = Result(h, "AGAIN")
    BY <1>8 DEF ParseChunked
  <2> QED BY <2>1, ParsedNothing
<1>9. CASE h.left # <<>> /\ h.last
  <2>1. r = Result(h, "ERROR")
    BY <1>9 DEF ParseChunked
  <2> QED BY <2>1, ParsedNothing
<1> DEFINE z == [Taken(g, 1) EXCEPT !.length = g.size, !.last = TRUE]
<1>10. CASE h.left # <<>> /\ ~h.last
  <2>1. r = IF g.left # <<>> /\ Head(g.left).kind # "last" THEN Result(g, "ERROR")
            ELSE IF g.size > MaxChunked THEN Result(g, "ERROR")
            ELSE IF g.left = <<>> THEN Result(g, "AGAIN")
            ELSE Result(z, "OK")
    BY <1>10 DEF ParseChunked, g, t, n
  <2> HIDE DEF z, r
  <2>2. CASE r = Result(g, "ERROR")
    BY <2>2, <1>7 DEF r
  <2>3. CASE ~(g.size > MaxChunked) /\ g.left = <<>> /\ r = Result(g, "AGAIN")
    <3>1. Bounded(g)
      <4>1. g.size <= Limit
        <5>1. g.size \in Nat /\ MaxChunked \in Nat
          BY <1>4, BoundsAssumption DEF Http
        <5> QED BY <5>1, <2>3, LimitProperties
      <4>2. g.head \/ g.length <= Limit
        BY <1>1, <1>6 DEF Bounded, Steady
      <4> QED BY <4>1, <4>2 DEF Bounded
    <3>2. Parsed(h, w, Result(g, "AGAIN"))
      BY <3>1, <1>2, <1>4, <1>6, ParsedBody
    <3> QED BY <3>2, <2>3 DEF r
  <2>4. CASE ~(g.size > MaxChunked) /\ g.left # <<>> /\ r = Result(z, "OK")
    <3> DEFINE x == Taken(g, 1)
    <3>1. g.left \in Seq(TokenSet)
      BY <1>4 DEF Http
    <3>2. 1 \in 0..Len(g.left)
      <4>1. Len(g.left) \in Nat \ {0}
        BY <3>1, <2>4, EmptySeq
      <4> QED BY <4>1
    <3>3. /\ x \in Http /\ x.left = Dropped(g, 1) /\ Steady(g, x)
          /\ x.keepalive = g.keepalive /\ x.process = g.process
          /\ x.length = g.length /\ x.size = g.size /\ x.answer = g.answer
      BY <1>4, <3>2, TakenProperties DEF Steady
    <3> HIDE DEF x
    <3>4. z \in Http
      <4>1. g.size \in Int
        BY <1>4 DEF Http
      <4> QED BY <4>1, <3>3 DEF Http, z, x
    <3>5. /\ z.left = x.left /\ Steady(x, z) /\ z.keepalive = x.keepalive
          /\ z.process = x.process /\ z.length = g.size /\ z.size = x.size
          /\ z.answer = x.answer
      BY <3>3 DEF Http, Steady, z, x
    <3>6. Bounded(z)
      <4>1. g.size \in Nat /\ MaxChunked \in Nat
        BY <1>4, BoundsAssumption DEF Http
      <4>2. g.size <= Limit
        BY <4>1, <2>4, LimitProperties
      <4> QED BY <4>2, <3>3, <3>5 DEF Bounded
    <3>7. Parsable(g, w)
      <4>1. Parsed(h, w, Result(g, "AGAIN")) \/ ~Bounded(g)
        BY <1>2, <1>4, <1>6, ParsedBody
      <4>2. Bounded(g)
        <5>1. g.size \in Nat /\ MaxChunked \in Nat
          BY <1>4, BoundsAssumption DEF Http
        <5>2. g.size <= Limit
          BY <5>1, <2>4, LimitProperties
        <5> QED BY <5>2, <1>1, <1>6 DEF Bounded, Steady
      <4> QED BY <4>1, <4>2, <1>1, <1>4, <1>6 DEF Parsed, Parsable, Result
    <3>8. Parsed(g, w, Result(z, "OK"))
      <4>1. Steady(g, z)
        BY <3>3, <3>5 DEF Steady
      <4>2. /\ z.keepalive = g.keepalive /\ z.process = g.process /\ z.answer = g.answer
            /\ z.left = Dropped(g, 1) /\ g.process = "body"
        BY <3>3, <3>5, <1>6
      <4> QED BY <4>1, <4>2, <3>2, <3>4, <3>6, <3>7, ParsedBody
    <3>9. Parsed(h, w, Result(z, "OK"))
      BY <3>8, <1>6 DEF Parsed, Steady
    <3> QED BY <3>9, <2>4 DEF r
  <2> QED BY <2>1, <2>2, <2>3, <2>4
<1> QED BY <1>8, <1>9, <1>10

\* As much is taken as there is and as is needed.
LEMMA AtMost ==
    ASSUME NEW need \in Int, NEW len \in Nat
    PROVE  LET n == Max({0, Min({need, len})})
           IN  n \in 0..len /\ (n = 0 \/ n <= need)
<1> DEFINE m == Min({need, len})
           n == Max({0, m})
<1>1. \E x \in {need, len} : \A y \in {need, len} : x <= y
  OBVIOUS
<1>2. m \in {need, len} /\ \A y \in {need, len} : m <= y
  BY <1>1 DEF Min
<1>3. m \in Int /\ m <= need /\ m <= len
  BY <1>2
<1> HIDE DEF m
<1>4. \E x \in {0, m} : \A y \in {0, m} : x >= y
  BY <1>3
<1>5. n \in {0, m} /\ \A y \in {0, m} : n >= y
  BY <1>4 DEF Max
<1>6. n \in Int /\ n >= 0 /\ (n = 0 \/ n = m)
  BY <1>3, <1>5
<1> HIDE DEF n
<1> QED BY <1>3, <1>6 DEF n, m

LEMMA ProcessBodyOK ==
    ASSUME NEW h, NEW w, Parsable(h, w), h.process = "body"
    PROVE  Parsed(h, w, ngx_js_http_process_body(h))
<1> DEFINE n == Max({0, Min({Need(h), Len(h.left)})})
           t == Taken(h, n)
           g == [t EXCEPT !.size = t.size + n]
           rc == IF Need(h) > n THEN "AGAIN" ELSE "DONE"
<1>1. h \in Http /\ h.left \in Seq(TokenSet) /\ Bounded(h)
  BY DEF Parsable, Http
<1>2. h.size \in Nat /\ h.length \in Int /\ Need(h) \in Int /\ MaxBody \in Nat
      /\ h.head \in BOOLEAN
  <2>1. h.size \in Nat /\ h.length \in Int /\ MaxBody \in Nat /\ h.head \in BOOLEAN
    BY <1>1, BoundsAssumption DEF Http
  <2> QED BY <2>1 DEF Need
<1>3. n \in 0..Len(h.left) /\ (n = 0 \/ n <= Need(h)) /\ n \in Nat
  <2>1. Len(h.left) \in Nat
    BY <1>1, LenProperties
  <2>2. n \in 0..Len(h.left) /\ (n = 0 \/ n <= Need(h))
    BY <2>1, <1>2, AtMost
  <2> HIDE DEF n
  <2> QED BY <2>2
<1> HIDE DEF n
<1>4. /\ t \in Http /\ t.left = Dropped(h, n) /\ Steady(h, t)
      /\ t.keepalive = h.keepalive /\ t.process = h.process
      /\ t.length = h.length /\ t.size = h.size /\ t.answer = h.answer
  BY <1>1, <1>3, TakenProperties DEF Steady
<1> HIDE DEF t
<1>5. g \in Http
  <2>1. t.size + n \in Nat
    BY <1>2, <1>3, <1>4
  <2> QED BY <2>1, <1>4 DEF Http
<1>6. /\ g.left = t.left /\ Steady(t, g) /\ g.keepalive = t.keepalive
      /\ g.process = t.process /\ g.length = t.length /\ g.answer = t.answer
      /\ g.size = t.size + n
  BY <1>4 DEF Http, Steady
<1> HIDE DEF g
<1>7. /\ g.left = Dropped(h, n) /\ Steady(h, g) /\ g.keepalive = h.keepalive
      /\ g.process = h.process /\ g.length = h.length /\ g.answer = h.answer
      /\ g.size = h.size + n
  BY <1>4, <1>6 DEF Steady
<1>8. Bounded(g)
  <2>1. g.size <= Limit
    <3>1. CASE n = 0
      <4>1. g.size = h.size
        BY <3>1, <1>2, <1>7
      <4> QED BY <4>1, <1>1 DEF Bounded
    <3>2. CASE n # 0
      <4>1. n <= Need(h) /\ n > 0
        BY <3>2, <1>3
      <4>2. ~h.head
        BY <4>1, <1>3 DEF Need
      <4>3. CASE h.length = Unknown
        <5>1. n <= MaxBody - h.size
          BY <4>1, <4>2, <4>3 DEF Need
        <5>2. h.size + n <= MaxBody
          BY <5>1, <1>2, <1>3
        <5> QED BY <5>2, <1>2, <1>3, <1>7, LimitProperties
      <4>4. CASE h.length # Unknown
        <5>1. n <= h.length - h.size /\ h.length <= Limit
          BY <4>1, <4>2, <4>4, <1>1 DEF Need, Bounded
        <5> QED BY <5>1, <1>2, <1>3, <1>7, LimitProperties
      <4> QED BY <4>3, <4>4
    <3> QED BY <3>1, <3>2
  <2> QED BY <2>1, <1>1, <1>7 DEF Bounded, Steady
<1>9. Parsed(h, w, Result(g, rc))
  BY <1>3, <1>5, <1>7, <1>8, ParsedBody
<1>10. ngx_js_http_process_body(h) = IF h.chunked THEN ParseChunked(h) ELSE Result(g, rc)
  BY DEF ngx_js_http_process_body, g, t, n
<1> QED BY <1>9, <1>10, ParseChunkedOK

-----------------------------------------------------------------------------
(* The headers. *)

\* What header lines do to a fetch.
LEMMA WithLinesProperties ==
    ASSUME NEW h \in Http, NEW n \in 0..Len(h.left)
    PROVE  LET g == WithLines(h, n)
           IN  /\ g \in Http /\ g.left = Dropped(h, n) /\ Steady(h, g)
               /\ g.process = h.process /\ g.size = h.size /\ g.answer = h.answer
               /\ g.keepalive => /\ h.keepalive
                                 /\ \A i \in 1..n : h.left[i].kind # "close"
               /\ \/ g.length = h.length
                  \/ \E i \in 1..n : /\ h.left[i].kind = "length"
                                     /\ g.length = h.left[i].answer.len
<1> DEFINE t == Taken(h, n)
           ls == {h.left[i] : i \in 1..n}
           Says(k) == \E l \in ls : l.kind = k
           L == {i \in 1..n : h.left[i].kind = "length"}
           b == h.keepalive /\ ~Says("close")
           c == h.chunked \/ Says("chunked")
           d == IF Says("length") THEN h.left[Max(L)].answer.len ELSE h.length
           g == [t EXCEPT !.keepalive = b, !.chunked = c, !.length = d]
<1>1. h.left \in Seq(TokenSet) /\ Len(h.left) \in Nat /\ n \in Nat
      /\ \A i \in 1..n : h.left[i] \in TokenSet
  <2>1. h.left \in Seq(TokenSet) /\ Len(h.left) \in Nat /\ n \in Nat
    BY LenProperties DEF Http
  <2>2. \A i \in 1..n : i \in 1..Len(h.left)
    BY <2>1
  <2> QED BY <2>1, <2>2, ElementOfSeq
<1>2. /\ t \in Http /\ t.left = Dropped(h, n) /\ Steady(h, t)
      /\ t.process = h.process /\ t.size = h.size /\ t.answer = h.answer
  BY TakenProperties DEF Steady
<1>3. WithLines(h, n) = g
  BY DEF WithLines
<1>4. b => h.keepalive /\ \A i \in 1..n : h.left[i].kind # "close"
  OBVIOUS
<1>5. d \in Int /\ (d = h.length \/ \E i \in 1..n : h.left[i].kind = "length"
                                                    /\ d = h.left[i].answer.len)
  <2>1. CASE ~Says("length")
    BY <2>1 DEF Http
  <2>2. CASE Says("length")
    <3>1. L # {} /\ L \in SUBSET (0..n)
      BY <2>2, <1>1
    <3> HIDE DEF L
    <3>2. Max(L) \in L
      BY <3>1, <1>1, MaxProperties
    <3>3. d = h.left[Max(L)].answer.len
      BY <2>2
    <3>4. Max(L) \in 1..n /\ h.left[Max(L)].kind = "length"
      BY <3>2 DEF L
    <3>5. h.left[Max(L)].answer.len \in Nat
      BY <3>4, <1>1, AnswersAssumption DEF TokenSet, Answer
    <3> QED BY <3>3, <3>4, <3>5
  <2> QED BY <2>1, <2>2
<1>6. b \in BOOLEAN /\ c \in BOOLEAN
  OBVIOUS
<1> HIDE DEF t, b, c, d
<1>7. g \in Http
  BY ZenonT(40), <1>2, <1>5, <1>6 DEF Http
<1>8. /\ g.left = t.left /\ Steady(t, g) /\ g.process = t.process /\ g.size = t.size
      /\ g.answer = t.answer /\ g.keepalive = b /\ g.length = d
  BY <1>2 DEF Http, Steady
<1> HIDE DEF g
<1>9. Steady(h, g)
  BY <1>2, <1>8 DEF Steady
<1> QED BY <1>2, <1>3, <1>4, <1>5, <1>7, <1>8, <1>9

\* The header lines at hand are at most two, and of the response that is being
\* read; what follows them follows the last of them.
LEMMA HeaderRun ==
    ASSUME NEW h, NEW w, Parsable(h, w), h.process = "headers"
    PROVE  LET q == h.left \o w
               n == Run(h, HeaderLines)
           IN  \E kind \in {"status", "length", "chunked", "close"}, a \in Answers :
                  /\ h.answer = {a}
                  /\ kind = "close" \/ ~a.v11 =>
                        \/ ~h.keepalive
                        \/ \E i \in 1..n : h.left[i].kind = "close"
                  /\ n + 1 \in DOMAIN q => Follows(kind, a, q[n + 1])
<1> DEFINE q == h.left \o w
           n == Run(h, HeaderLines)
<1>1. h \in Http /\ h.left \in Seq(TokenSet) /\ w \in Seq(TokenSet) /\ Linked(q)
      /\ Midway(h, q)
  BY DEF Parsable, Http
<1>2. n \in 0..Len(h.left) /\ Len(h.left) \in Nat /\ n \in Nat /\ Len(w) \in Nat
      /\ \A i \in 1..n : h.left[i].kind \in HeaderLines
  <2>1. Len(h.left) \in Nat /\ Len(w) \in Nat
    BY <1>1, LenProperties
  <2>2. n \in 0..Len(h.left) /\ \A i \in 1..n : h.left[i].kind \in HeaderLines
    BY <1>1, RunProperties
  <2> HIDE DEF n
  <2> QED BY <2>1, <2>2
<1> HIDE DEF n
<1>3. /\ q \in Seq(TokenSet) /\ DOMAIN q = 1..(Len(h.left) + Len(w))
      /\ \A i \in 1..n : q[i] = h.left[i]
  <2>1. q \in Seq(TokenSet) /\ Len(q) = Len(h.left) + Len(w)
        /\ \A i \in 1..(Len(h.left) + Len(w)) :
              q[i] = IF i <= Len(h.left) THEN h.left[i] ELSE w[i - Len(h.left)]
    BY <1>1, ConcatProperties
  <2>2. DOMAIN q = 1..(Len(h.left) + Len(w))
    BY <2>1, LenProperties
  <2>3. \A i \in 1..n : i \in 1..(Len(h.left) + Len(w)) /\ i <= Len(h.left)
    BY <1>2
  <2> QED BY <2>1, <2>2, <2>3
<1> HIDE DEF q
<1>4. PICK kind \in {"status", "length", "chunked", "close"}, a \in Answers :
         /\ h.answer = {a}
         /\ kind = "close" \/ ~a.v11 => ~h.keepalive
         /\ q # <<>> => Follows(kind, a, q[1])
  BY <1>1 DEF Midway
<1> DEFINE Goal(k) ==
              /\ k \in {"status", "length", "chunked", "close"}
              /\ k = "close" \/ ~a.v11 =>
                    ~h.keepalive \/ \E i \in 1..n : h.left[i].kind = "close"
              /\ n + 1 \in DOMAIN q => Follows(k, a, q[n + 1])
<1>5. CASE n = 0
  <2>1. 1 \in DOMAIN q => q # <<>>
    OBVIOUS
  <2>2. Goal(kind)
    BY <2>1, <1>4, <1>5
  <2> QED BY <2>2, <1>4 DEF q, n
<1>6. CASE n # 0
  <2>1. 1 \in 1..n /\ 1 \in DOMAIN q /\ q # <<>>
    BY <1>2, <1>3, <1>6
  <2>2. q[1].kind \in HeaderLines /\ q[1] = h.left[1] /\ Follows(kind, a, q[1])
    BY <2>1, <1>2, <1>3, <1>4
  <2>3. q[1].answer = a
    BY <2>2 DEF Follows, HeaderLines
  <2>4. ASSUME NEW i \in DOMAIN q, i + 1 \in DOMAIN q
        PROVE  Follows(q[i].kind, q[i].answer, q[i + 1])
    BY <1>1, <2>4 DEF Linked
  <2>5. CASE n = 1
    <3>1. Goal(q[1].kind)
      <4>1. 2 \in DOMAIN q => Follows(q[1].kind, a, q[2])
        BY <2>1, <2>3, <2>4
      <4>2. n + 1 = 2
        BY <2>5
      <4> QED BY <4>1, <4>2, <2>1, <2>2, <1>4 DEF HeaderLines
    <3> QED BY <3>1, <1>4 DEF q, n
  <2>6. CASE n # 1
    <3>1. 2 \in 1..n /\ 2 \in DOMAIN q
      BY <2>6, <1>2, <1>3, <1>6
    <3>2. q[2].kind \in HeaderLines /\ q[2] = h.left[2]
      BY <3>1, <1>2, <1>3
    <3>3. Follows(q[1].kind, q[1].answer, q[2])
      BY <2>1, <2>4, <3>1
    <3>4. q[2].kind = "close" /\ q[2].answer = a
      BY <2>2, <2>3, <3>2, <3>3 DEF Follows, HeaderLines
    <3>5. CASE n = 2
      <4>1. 3 \in DOMAIN q => Follows(q[2].kind, a, q[3])
        BY <2>4, <3>1, <3>4
      <4>2. n + 1 = 3
        BY <3>5
      <4>3. Goal("close")
        BY <4>1, <4>2, <3>1, <3>2, <3>4
      <4> QED BY <4>3, <1>4 DEF q, n
    <3>6. CASE n # 2
      <4>1. 3 \in 1..n /\ 3 \in DOMAIN q
        BY <3>6, <2>6, <1>2, <1>3, <1>6
      <4>2. q[3].kind \in HeaderLines
        BY <4>1, <1>2, <1>3
      <4>3. Follows(q[2].kind, q[2].answer, q[3])
        BY <2>4, <3>1, <4>1
      <4>4. FALSE
        BY <3>4, <4>2, <4>3 DEF Follows, HeaderLines
      <4> QED BY <4>4
    <3> QED BY <3>5, <3>6
  <2> QED BY <2>5, <2>6
<1> QED BY <1>5, <1>6

\* A handler that calls another one results in what that results in.
LEMMA ParsedTrans ==
    ASSUME NEW h, NEW g, NEW w, NEW r, Steady(h, g), g.keepalive => h.keepalive,
           Parsed(g, w, r)
    PROVE  Parsed(h, w, r)
BY DEF Parsed, Steady

LEMMA ProcessHeadersOK ==
    ASSUME NEW h, NEW w, Parsable(h, w), h.process = "headers"
    PROVE  Parsed(h, w, ngx_js_http_process_headers(h))
<1> DEFINE q == h.left \o w
           n == Run(h, HeaderLines)
           large == {i \in 1..n : TooLarge(h, h.left[i])}
           m == Min(large)
           g == WithLines(h, n)
           r == ngx_js_http_process_headers(h)
           t == Taken(g, 1)
           z == [t EXCEPT !.process = "body", !.chain = FALSE]
<1>1. h \in Http /\ h.left \in Seq(TokenSet) /\ w \in Seq(TokenSet) /\ Linked(q)
      /\ Bounded(h)
  BY DEF Parsable, Http
<1>2. n \in 0..Len(h.left) /\ n \in Nat /\ Len(h.left) \in Nat
      /\ \A i \in 1..n : i \in 1..Len(h.left)
  <2>1. Len(h.left) \in Nat
    BY <1>1, LenProperties
  <2>2. n \in 0..Len(h.left)
    BY <1>1, RunProperties
  <2> HIDE DEF n
  <2> QED BY <2>1, <2>2
<1>3. PICK kind \in {"status", "length", "chunked", "close"}, a \in Answers :
         /\ h.answer = {a}
         /\ kind = "close" \/ ~a.v11 =>
               \/ ~h.keepalive
               \/ \E i \in 1..n : h.left[i].kind = "close"
         /\ n + 1 \in DOMAIN q => Follows(kind, a, q[n + 1])
  BY HeaderRun
<1>4. r = IF large # {} THEN Result(WithLines(h, m), "ERROR")
          ELSE IF g.left = <<>> THEN Result(g, "AGAIN")
          ELSE IF Head(g.left).kind # "end" THEN Result(g, "ERROR")
          ELSE ngx_js_http_process_body(z)
  BY DEF ngx_js_http_process_headers
<1> HIDE DEF n, r, z
<1>5. ASSUME NEW i \in 0..Len(h.left) PROVE Parsed(h, w, Result(WithLines(h, i), "ERROR"))
  <2> DEFINE x == WithLines(h, i)
  <2>1. /\ x \in Http /\ Steady(h, x) /\ x.process = h.process
        /\ x.keepalive => h.keepalive
    BY <1>1, WithLinesProperties
  <2> HIDE DEF x
  <2>2. BodyOK(x)
    BY <2>1 DEF BodyOK
  <2>3. Parsed(h, w, Result(x, "ERROR"))
    BY <2>1, <2>2 DEF Parsed, Result
  <2> QED BY <2>3 DEF x
<1>6. CASE large # {}
  <2>1. large \in SUBSET Nat
    OBVIOUS
  <2>2. m \in large
    BY <2>1, <1>6, MinProperties
  <2>3. m \in 0..Len(h.left)
    <3>1. m \in 1..n
      BY <2>2
    <3> HIDE DEF m
    <3> QED BY <3>1, <1>2
  <2> HIDE DEF large
  <2>4. r = Result(WithLines(h, m), "ERROR")
    BY <1>4, <1>6
  <2> HIDE DEF m
  <2> QED BY <2>3, <2>4, <1>5 DEF r
<1>7. CASE large = {}
  <2>1. /\ g \in Http /\ g.left = Dropped(h, n) /\ Steady(h, g)
        /\ g.process = h.process /\ g.size = h.size /\ g.answer = h.answer
        /\ g.keepalive => /\ h.keepalive
                          /\ \A i \in 1..n : h.left[i].kind # "close"
        /\ \/ g.length = h.length
           \/ \E i \in 1..n : /\ h.left[i].kind = "length"
                              /\ g.length = h.left[i].answer.len
    BY <1>1, <1>2, WithLinesProperties
  <2>2. Bounded(g)
    <3>1. g.head \/ g.length <= Limit
      <4>1. CASE g.length = h.length
        BY <4>1, <2>1, <1>1 DEF Bounded, Steady
      <4>2. ASSUME NEW i \in 1..n, h.left[i].kind = "length",
                   g.length = h.left[i].answer.len, ~g.head
            PROVE  g.length <= Limit
        <5>1. ~(g.length > MaxBody)
          BY <4>2, <2>1, <1>7 DEF TooLarge, Steady
        <5>2. g.length \in Int /\ MaxBody \in Nat
          BY <2>1, BoundsAssumption DEF Http
        <5> QED BY <5>1, <5>2, LimitProperties
      <4> QED BY <4>1, <4>2, <2>1
    <3> QED BY <3>1, <2>1, <1>1 DEF Bounded
  <2>3. CASE r = Result(g, "ERROR")
    <3> HIDE DEF g, large
    <3> QED BY <2>3, <1>2, <1>5 DEF r, g
  <2> HIDE DEF g, large
  <2>4. /\ g.left \in Seq(TokenSet)
        /\ g.left # <<>> => n + 1 \in DOMAIN h.left /\ g.left[1] = h.left[n + 1]
        /\ Linked(g.left \o w)
        /\ g.left \o w # <<>> => n + 1 \in DOMAIN q /\ (g.left \o w)[1] = q[n + 1]
    <3> DEFINE x == SubSeq(h.left, n + 1, Len(h.left))
    <3>1. /\ x \in Seq(TokenSet)
          /\ x # <<>> => n + 1 \in DOMAIN h.left /\ x[1] = h.left[n + 1]
          /\ Linked(q) => Linked(x \o w)
          /\ x \o w # <<>> => n + 1 \in DOMAIN q /\ (x \o w)[1] = q[n + 1]
      BY ZenonT(40), <1>1, <1>2, DroppedProperties
    <3>2. g.left = x
      BY <2>1 DEF Dropped
    <3> HIDE DEF x, q
    <3> QED BY <3>1, <3>2, <1>1 DEF q
  <2>5. CASE r = Result(g, "AGAIN")
    <3>1. Midway(g, g.left \o w)
      BY <2>1, <2>4, <1>3 DEF Midway
    <3>2. BodyOK(g)
      BY <2>1 DEF BodyOK
    <3>3. Parsed(h, w, Result(g, "AGAIN"))
      BY <2>1, <2>2, <2>4, <3>1, <3>2 DEF Parsed, Result
    <3> QED BY <3>3, <2>5 DEF r
  <2>6. CASE g.left # <<>> /\ Head(g.left).kind = "end" /\ r = ngx_js_http_process_body(z)
    <3>1. 1 \in 0..Len(g.left)
      <4>1. Len(g.left) \in Nat \ {0}
        BY <2>4, <2>6, EmptySeq
      <4> QED BY <4>1
    <3>2. /\ t \in Http /\ t.left = Dropped(g, 1) /\ Steady(g, t)
          /\ t.keepalive = g.keepalive /\ t.length = g.length /\ t.size = g.size
          /\ t.answer = g.answer
      BY <2>1, <3>1, TakenProperties DEF Steady
    <3> HIDE DEF t
    <3>3. z \in Http
      BY <3>2 DEF Http, z
    <3>4. /\ z.process = "body" /\ z.left = t.left /\ Steady(t, z)
          /\ z.keepalive = t.keepalive /\ z.length = t.length /\ z.size = t.size
          /\ z.answer = t.answer
      BY <3>2 DEF Http, z, Steady
    <3>5. g.left[1].kind = "end" /\ g.left[1] = q[n + 1] /\ n + 1 \in DOMAIN q
      <4>1. g.left[1].kind = "end"
        BY <2>4, <2>6, HeadTailProperties
      <4>2. n + 1 \in DOMAIN h.left /\ g.left[1] = h.left[n + 1]
        BY <2>4, <2>6
      <4>3. DOMAIN h.left = 1..Len(h.left) /\ n + 1 \in 1..Len(h.left) /\ Len(w) \in Nat
        BY <4>2, <1>1, LenProperties
      <4>4. q \in Seq(TokenSet) /\ Len(q) = Len(h.left) + Len(w)
            /\ \A i \in 1..(Len(h.left) + Len(w)) :
                  q[i] = IF i <= Len(h.left) THEN h.left[i] ELSE w[i - Len(h.left)]
        BY <1>1, ConcatProperties
      <4>5. DOMAIN q = 1..(Len(h.left) + Len(w))
        BY <4>4, LenProperties
      <4> HIDE DEF q
      <4>6. n + 1 \in 1..(Len(h.left) + Len(w)) /\ n + 1 <= Len(h.left)
        BY <4>3, <1>2
      <4> QED BY <4>1, <4>2, <4>4, <4>5, <4>6
    <3>6. BodyOK(z)
      <4>1. Follows(kind, a, q[n + 1]) /\ q[n + 1].kind = "end"
        BY <3>5, <1>3
      <4>2. a.close => kind = "close"
        BY <4>1 DEF Follows
      <4>3. ~a.v11 \/ a.close => ~g.keepalive
        BY <4>2, <2>1, <1>3
      <4> QED BY <4>3, <2>1, <3>2, <3>4, <1>3 DEF BodyOK
    <3>7. Linked(z.left \o w)
      <4>1. z.left = SubSeq(g.left, 1 + 1, Len(g.left))
        BY <3>2, <3>4 DEF Dropped
      <4> QED BY <4>1, <3>1, <2>4, <1>1, DroppedProperties
    <3>8. Bounded(z) /\ Steady(h, z)
      BY <2>1, <2>2, <3>2, <3>4 DEF Bounded, Steady
    <3>9. Parsable(z, w)
      BY <1>1, <3>3, <3>4, <3>6, <3>7, <3>8 DEF Parsable
    <3>10. Parsed(z, w, ngx_js_http_process_body(z))
      BY <3>4, <3>9, ProcessBodyOK
    <3>11. Parsed(h, w, ngx_js_http_process_body(z))
      BY <2>1, <3>2, <3>4, <3>8, <3>10, ParsedTrans
    <3> QED BY <3>11, <2>6 DEF r
  <2> QED BY <2>3, <2>5, <2>6, <1>4, <1>7
<1> QED BY <1>6, <1>7

\* The status line is of the response whose header lines follow it.
LEMMA ProcessStatusLineOK ==
    ASSUME NEW h, NEW w, Parsable(h, w), h.process = "status"
    PROVE  Parsed(h, w, ngx_js_http_process_status_line(h))
<1> DEFINE q == h.left \o w
           a == h.left[1].answer
           t == Taken(h, 1)
           b == h.keepalive /\ a.v11
           x == [t EXCEPT !.process = "headers", !.keepalive = b, !.answer = {a}]
           r == ngx_js_http_process_status_line(h)
<1>1. h \in Http /\ h.left \in Seq(TokenSet) /\ w \in Seq(TokenSet) /\ Linked(q)
      /\ Bounded(h)
  BY DEF Parsable, Http
<1>2. CASE h.left = <<>>
  <2>1. r = Result(h, "AGAIN")
    BY <1>2 DEF ngx_js_http_process_status_line, ngx_js_http_parse_status_line
  <2> QED BY <2>1, ParsedNothing
<1>3. CASE h.left # <<>> /\ Head(h.left).kind # "status"
  <2>1. r = Result(h, "ERROR")
    BY <1>3 DEF ngx_js_http_process_status_line, ngx_js_http_parse_status_line
  <2> QED BY <2>1, ParsedNothing
<1>4. CASE h.left # <<>> /\ Head(h.left).kind = "status"
  <2>1. Len(h.left) \in Nat \ {0} /\ Head(h.left) = h.left[1]
    BY <1>1, <1>4, EmptySeq, HeadTailProperties
  <2>2. 1 \in 0..Len(h.left) /\ 1 \in 1..Len(h.left)
    BY <2>1
  <2>3. h.left[1] \in TokenSet /\ a \in Answers
    <3>1. h.left[1] \in TokenSet
      BY <1>1, <2>2, ElementOfSeq
    <3> QED BY <3>1 DEF TokenSet
  <2>4. r = ngx_js_http_process_headers(x)
    BY <1>4, <2>1 DEF ngx_js_http_process_status_line, ngx_js_http_parse_status_line
  <2> HIDE DEF a, r
  <2>5. /\ t \in Http /\ t.left = Dropped(h, 1) /\ Steady(h, t)
        /\ t.length = h.length /\ t.size = h.size
    BY <1>1, <2>2, TakenProperties DEF Steady
  <2> HIDE DEF t
  <2>6. b \in BOOLEAN
    OBVIOUS
  <2>7. b => h.keepalive /\ a.v11
    OBVIOUS
  <2> HIDE DEF b
  <2>8. x \in Http
    BY <2>3, <2>5, <2>6 DEF Http
  <2>9. /\ x.process = "headers" /\ x.keepalive = b /\ x.answer = {a}
        /\ x.left = t.left /\ Steady(t, x) /\ x.length = t.length /\ x.size = t.size
    BY <2>5 DEF Http, Steady
  <2> HIDE DEF x
  <2>10. Steady(h, x) /\ Bounded(x) /\ BodyOK(x)
    BY <1>1, <2>5, <2>9 DEF Steady, Bounded, BodyOK
  <2>11. /\ Linked(x.left \o w)
         /\ x.left \o w # <<>> => 2 \in DOMAIN q /\ (x.left \o w)[1] = q[2]
    <3> DEFINE l == SubSeq(h.left, 1 + 1, Len(h.left))
    <3>1. /\ Linked(q) => Linked(l \o w)
          /\ l \o w # <<>> => 1 + 1 \in DOMAIN q /\ (l \o w)[1] = q[1 + 1]
      BY <1>1, <2>2, DroppedProperties
    <3>2. x.left = l
      BY <2>5, <2>9 DEF Dropped
    <3>3. 1 + 1 = 2
      OBVIOUS
    <3> HIDE DEF l, q
    <3> QED BY <3>1, <3>2, <3>3, <1>1
  <2>12. q[1] = h.left[1] /\ 1 \in DOMAIN q
    <3>1. /\ q \in Seq(TokenSet) /\ Len(q) = Len(h.left) + Len(w)
          /\ \A i \in 1..(Len(h.left) + Len(w)) :
                q[i] = IF i <= Len(h.left) THEN h.left[i] ELSE w[i - Len(h.left)]
      BY <1>1, ConcatProperties
    <3>2. Len(w) \in Nat /\ DOMAIN q = 1..(Len(h.left) + Len(w))
      BY <3>1, <1>1, LenProperties
    <3>3. 1 \in 1..(Len(h.left) + Len(w)) /\ 1 <= Len(h.left)
      BY <3>2, <2>1
    <3> HIDE DEF q
    <3> QED BY <3>1, <3>2, <3>3
  <2>13. 2 \in DOMAIN q => Follows("status", a, q[2])
    <3>1. 1 + 1 = 2
      OBVIOUS
    <3>2. q[1].kind = "status" /\ q[1].answer = a
      BY <2>1, <2>12, <1>4 DEF a
    <3> HIDE DEF q
    <3> QED BY <3>1, <3>2, <2>12, <1>1 DEF Linked
  <2>14. Midway(x, x.left \o w)
    <3>1. "status" = "close" \/ ~a.v11 => ~x.keepalive
      BY <2>7, <2>9
    <3>2. x.left \o w # <<>> => Follows("status", a, (x.left \o w)[1])
      BY <2>11, <2>13
    <3> HIDE DEF q
    <3> QED BY <3>1, <3>2, <2>3, <2>9 DEF Midway
  <2>15. Parsable(x, w)
    BY <1>1, <2>8, <2>10, <2>11, <2>14 DEF Parsable
  <2>16. Parsed(x, w, ngx_js_http_process_headers(x))
    BY <2>9, <2>15, ProcessHeadersOK
  <2>17. Parsed(h, w, ngx_js_http_process_headers(x))
    BY <2>7, <2>9, <2>10, <2>16, ParsedTrans
  <2> QED BY <2>4, <2>17 DEF r
<1> QED BY <1>2, <1>3, <1>4

\* Whatever is parsed next: what is left is in order, the sizes keep within
\* their bounds, and a last response is not going to keep its connection.
LEMMA ProcessOK ==
    ASSUME NEW h, NEW w, Parsable(h, w)
    PROVE  Parsed(h, w, process(h))
<1>1. h.process \in {"status", "headers", "body"}
  BY DEF Parsable, Http
<1>2. CASE h.process = "status"
  BY <1>2, ProcessStatusLineOK DEF process
<1>3. CASE h.process = "headers"
  BY <1>3, ProcessHeadersOK DEF process
<1>4. CASE h.process = "body"
  BY <1>4, ProcessBodyOK DEF process
<1> QED BY <1>1, <1>2, <1>3, <1>4

-----------------------------------------------------------------------------
(* What the rest of the state keeps. *)

\* The tokens that fetches and connections hold.
LEMMA TokensOf ==
    ASSUME NEW s \in Net
    PROVE  /\ \A f \in Fetches : s.http[f].left \in Seq(TokenSet)
           /\ \A c \in DOMAIN s.conns :
                 /\ s.conns[c].in \in Seq(TokenSet) /\ s.conns[c].out \in Seq(TokenSet)
                 /\ Wire(s.conns[c]) \in Seq(TokenSet)
<1>1. \A f \in Fetches : s.http[f].left \in Seq(TokenSet)
  BY Parts DEF Http
<1>2. \A c \in DOMAIN s.conns :
         s.conns[c].in \in Seq(TokenSet) /\ s.conns[c].out \in Seq(TokenSet)
  BY Parts DEF Connection
<1>3. \A c \in DOMAIN s.conns : Wire(s.conns[c]) \in Seq(TokenSet)
  BY <1>2, ConcatProperties DEF Wire
<1> QED BY <1>1, <1>2, <1>3

LEMMA FirstOfConcat ==
    ASSUME NEW q \in Seq(TokenSet), NEW r \in Seq(TokenSet), q # <<>>
    PROVE  q \o r # <<>> /\ (q \o r)[1] = q[1]
<1>1. Len(q) \in Nat \ {0} /\ Len(r) \in Nat
  BY EmptySeq, LenProperties
<1>2. /\ Len(q \o r) = Len(q) + Len(r) /\ q \o r \in Seq(TokenSet)
      /\ \A i \in 1..(Len(q) + Len(r)) :
            (q \o r)[i] = IF i <= Len(q) THEN q[i] ELSE r[i - Len(q)]
  BY ConcatProperties
<1>3. 1 \in 1..(Len(q) + Len(r)) /\ 1 <= Len(q)
  BY <1>1
<1>4. (q \o r)[1] = q[1]
  BY <1>2, <1>3
<1>5. q \o r # <<>>
  BY ConcatEqualIffEmpty
<1> QED BY <1>4, <1>5

LEMMA EmptyLinked == Linked(<<>>)
BY DEF Linked

LEMMA WiresKept ==
    ASSUME NEW s \in Net, NEW t \in Net, WiresOK(s), SameWires(s, t)
    PROVE  WiresOK(t)
<1> SUFFICES ASSUME NEW c \in DOMAIN s.conns PROVE Linked(Wire(t.conns[c]))
  BY DEF WiresOK, SameWires
<1>1. CASE t.conns[c].in = s.conns[c].in /\ t.conns[c].out = s.conns[c].out
  BY <1>1 DEF Wire, WiresOK
<1>2. CASE t.conns[c].in = <<>> /\ t.conns[c].out = <<>>
  <2>1. Wire(t.conns[c]) = <<>>
    BY <1>2, EmptySeq, ConcatEmptySeq DEF Wire
  <2> QED BY <2>1, EmptyLinked
<1> QED BY <1>1, <1>2 DEF SameWires

\* A fetch that is left alone reads what it would have read, or less of it.
LEMMA StreamKept ==
    ASSUME NEW s \in Net, NEW t \in Net, NEW g \in Fetches, StreamOK(s, g),
           SameWires(s, t), t.http[g] = s.http[g],
           s.http[g].conn \in DOMAIN s.conns \cup {NoConn}
    PROVE  StreamOK(t, g)
<1> DEFINE h == s.http[g]
           q == h.left \o Wire(s.conns[h.conn])
           r == h.left \o Wire(t.conns[h.conn])
<1> SUFFICES ASSUME h.conn # NoConn
             PROVE  Linked(r) /\ (h.process = "headers" => Midway(h, r))
  BY DEF StreamOK
<1>1. Linked(q) /\ (h.process = "headers" => Midway(h, q))
  BY DEF StreamOK
<1>2. h.conn \in DOMAIN s.conns
  OBVIOUS
<1>3. CASE t.conns[h.conn].in = s.conns[h.conn].in /\ t.conns[h.conn].out = s.conns[h.conn].out
  BY <1>1, <1>3 DEF Wire
<1>4. CASE t.conns[h.conn].in = <<>> /\ t.conns[h.conn].out = <<>>
  <2>1. h.left \in Seq(TokenSet) /\ Wire(s.conns[h.conn]) \in Seq(TokenSet)
    BY <1>2, TokensOf
  <2>2. Wire(t.conns[h.conn]) = <<>>
    BY <1>4, EmptySeq, ConcatEmptySeq DEF Wire
  <2>3. r = h.left
    BY <2>1, <2>2, ConcatEmptySeq
  <2>4. Linked(r)
    BY <2>1, <2>3, <1>1, LinkedParts
  <2>5. r # <<>> => q # <<>> /\ q[1] = r[1]
    <3> SUFFICES ASSUME r # <<>> PROVE q # <<>> /\ q[1] = r[1]
      OBVIOUS
    <3> QED BY <2>1, <2>3, FirstOfConcat
  <2> HIDE DEF q, r
  <2>6. h.process = "headers" => Midway(h, r)
    BY <2>5, <1>1 DEF Midway
  <2> QED BY <2>4, <2>6
<1> QED BY <1>2, <1>3, <1>4 DEF SameWires

-----------------------------------------------------------------------------
(* The end of a fetch. *)

LEMMA FetchDone ==
    ASSUME NEW s, NEW f \in Fetches, NEW o, AlmostInv(s, f),
           NEW phase \in {"fulfilled", "rejected", "aborted"},
           phase # "rejected" =>
              s.http[f].size <= Limit /\ (s.http[f].head \/ s.http[f].length <= Limit)
    PROVE  InvOf(ngx_js_fetch_done(s, f, phase, o))
<1> DEFINE u == ngx_js_http_close_peer(s, f, o)
           h == [u.http[f] EXCEPT !.phase = phase, !.buffer = "none", !.left = <<>>]
           t == ngx_js_fetch_done(s, f, phase, o)
<1>1. s \in Net /\ OwnersOf(s, Fetches) /\ WiresOK(s)
  BY DEF AlmostInv
<1>2. /\ u \in Net /\ OwnersOf(u, Fetches) /\ SameWires(s, u)
      /\ \A g \in Fetches \ {f} : u.http[g] = s.http[g]
      /\ u.http[f] \in {s.http[f], [s.http[f] EXCEPT !.conn = NoConn]}
      /\ u.http[f].conn = NoConn
  BY <1>1, ClosePeerOwned DEF AlmostInv
<1> HIDE DEF u
<1>3. /\ u.http[f] \in Http
      /\ u.http[f].keepalive = s.http[f].keepalive
      /\ u.http[f].process = s.http[f].process
      /\ u.http[f].answer = s.http[f].answer
      /\ u.http[f].size = s.http[f].size
      /\ u.http[f].head = s.http[f].head
      /\ u.http[f].length = s.http[f].length
  <2>1. s.http[f] \in Http /\ u.http[f] \in Http
    BY <1>1, <1>2, Parts
  <2> DEFINE k == s.http[f]
  <2>2. k \in Http
    BY <2>1
  <2> HIDE DEF k
  <2>3. /\ [k EXCEPT !.conn = NoConn].keepalive = k.keepalive
        /\ [k EXCEPT !.conn = NoConn].process = k.process
        /\ [k EXCEPT !.conn = NoConn].answer = k.answer
        /\ [k EXCEPT !.conn = NoConn].size = k.size
        /\ [k EXCEPT !.conn = NoConn].head = k.head
        /\ [k EXCEPT !.conn = NoConn].length = k.length
    BY <2>2 DEF Http
  <2> QED BY <2>1, <2>3, <1>2 DEF k
<1>4. /\ h \in Http /\ h.phase = phase /\ h.left = <<>> /\ h.conn = NoConn
      /\ h.keepalive = u.http[f].keepalive /\ h.process = u.http[f].process
      /\ h.answer = u.http[f].answer /\ h.size = u.http[f].size
      /\ h.head = u.http[f].head /\ h.length = u.http[f].length
  <2> DEFINE k == u.http[f]
  <2>1. k \in Http /\ <<>> \in Seq(TokenSet) /\ k.conn = NoConn /\ phase \in Phases
    BY <1>2, <1>3, EmptySeq DEF Phases
  <2> HIDE DEF k
  <2>2. [k EXCEPT !.phase = phase, !.buffer = "none", !.left = <<>>] \in Http
    BY <2>1 DEF Http
  <2>3. /\ [k EXCEPT !.phase = phase, !.buffer = "none", !.left = <<>>].phase = phase
        /\ [k EXCEPT !.phase = phase, !.buffer = "none", !.left = <<>>].left = <<>>
        /\ [k EXCEPT !.phase = phase, !.buffer = "none", !.left = <<>>].conn = k.conn
        /\ [k EXCEPT !.phase = phase, !.buffer = "none", !.left = <<>>].keepalive = k.keepalive
        /\ [k EXCEPT !.phase = phase, !.buffer = "none", !.left = <<>>].process = k.process
        /\ [k EXCEPT !.phase = phase, !.buffer = "none", !.left = <<>>].answer = k.answer
        /\ [k EXCEPT !.phase = phase, !.buffer = "none", !.left = <<>>].size = k.size
        /\ [k EXCEPT !.phase = phase, !.buffer = "none", !.left = <<>>].head = k.head
        /\ [k EXCEPT !.phase = phase, !.buffer = "none", !.left = <<>>].length = k.length
    BY <2>1 DEF Http
  <2> QED BY <2>1, <2>2, <2>3 DEF k
<1>5. t = [u EXCEPT !.http[f] = h]
  <2>1. u \in [http : [Fetches -> Http], conns : Seq(Connection), cache : Seq(Nat)]
    BY <1>2 DEF Net
  <2>2. t = [u EXCEPT !.http[f].phase = phase, !.http[f].buffer = "none", !.http[f].left = <<>>]
    BY DEF ngx_js_fetch_done, u
  <2> QED BY ZenonT(40), <2>1, <2>2, <1>3
<1> HIDE DEF h, t
<1>6. /\ t \in Net /\ t.conns = u.conns /\ t.cache = u.cache /\ t.http[f] = h
      /\ \A g \in Fetches \ {f} : t.http[g] = u.http[g]
  BY <1>2, <1>4, <1>5, PutHttp
<1>7. OwnersOf(t, Fetches)
  <2>1. \A g \in Fetches : t.http[g].conn = u.http[g].conn /\ t.http[g].keepalive = u.http[g].keepalive
    BY <1>2, <1>4, <1>6
  <2> QED BY <2>1, <1>2, <1>6 DEF OwnersOf
<1>8. SameWires(s, t)
  BY <1>2, <1>6 DEF SameWires
<1>9. HttpOK(h)
  <2>1. h.keepalive => Keepalive > 0
    BY <1>3, <1>4 DEF AlmostInv
  <2>2. h.process = "body" => \A a \in h.answer : ~a.v11 \/ a.close => ~h.keepalive
    BY <1>3, <1>4 DEF AlmostInv
  <2>3. h.phase # "rejected" => h.size <= Limit /\ (h.head \/ h.length <= Limit)
    BY <1>3, <1>4
  <2> QED BY <2>1, <2>2, <2>3, <1>4 DEF HttpOK
<1>10. ASSUME NEW g \in Fetches PROVE HttpOK(t.http[g]) /\ StreamOK(t, g)
  <2>1. CASE g = f
    BY <2>1, <1>4, <1>6, <1>9 DEF StreamOK
  <2>2. CASE g # f
    <3>1. t.http[g] = s.http[g] /\ HttpOK(s.http[g]) /\ StreamOK(s, g)
      BY <2>2, <1>2, <1>6 DEF AlmostInv
    <3>2. s.http[g].conn \in DOMAIN s.conns \cup {NoConn}
      BY <1>1 DEF OwnersOf
    <3>3. StreamOK(t, g)
      BY <3>1, <3>2, <1>1, <1>6, <1>8, StreamKept
    <3> QED BY <3>1, <3>3
  <2> QED BY <2>1, <2>2
<1>11. WiresOK(t)
  BY <1>1, <1>6, <1>8, WiresKept
<1> QED BY <1>6, <1>7, <1>10, <1>11 DEF InvOf, t

-----------------------------------------------------------------------------
(* Taking a connection from the cache. *)

LEMMA PutConns ==
    ASSUME NEW s \in Net, NEW m \in Seq(Connection)
    PROVE  /\ [s EXCEPT !.conns = m] \in Net
           /\ [s EXCEPT !.conns = m].http = s.http
           /\ [s EXCEPT !.conns = m].conns = m
           /\ [s EXCEPT !.conns = m].cache = s.cache
BY DEF Net

LEMMA WithoutIdleOwned ==
    ASSUME NEW s \in Net, OwnersOf(s, Fetches), NEW C \in SUBSET Range(s.cache)
    PROVE  LET t == WithoutIdle(s, C)
           IN  /\ t \in Net /\ OwnersOf(t, Fetches) /\ t.http = s.http /\ SameWires(s, t)
               /\ Range(t.cache) = Range(s.cache) \ C
               /\ \A d \in DOMAIN s.conns \ C : t.conns[d] = s.conns[d]
<1> DEFINE t == WithoutIdle(s, C)
           q == Kept(s.cache, C)
           m == [c \in DOMAIN s.conns |->
                    IF c \in C THEN ngx_js_http_close_connection(s, c).conns[c]
                    ELSE s.conns[c]]
<1>1. C \subseteq DOMAIN s.conns
  BY DEF OwnersOf
<1>2. \A c \in C : /\ m[c] = ClosedConn(s.conns[c].host)
                   /\ s.conns[c].host \in Hosts \cup {Nobody}
  <2> TAKE c \in C
  <2>1. c \in DOMAIN s.conns
    BY <1>1
  <2>2. ngx_js_http_close_connection(s, c).conns[c] = ClosedConn(s.conns[c].host)
    BY <2>1, CloseConnection
  <2>3. s.conns[c].host \in Hosts \cup {Nobody}
    BY <2>1, Parts DEF Connection
  <2> QED BY <2>1, <2>2, <2>3
<1>3. \A d \in DOMAIN s.conns \ C : m[d] = s.conns[d]
  OBVIOUS
<1>4. DOMAIN m = DOMAIN s.conns
  OBVIOUS
<1>5. t = [[s EXCEPT !.cache = q] EXCEPT !.conns = m]
  <2>1. s \in [http : [Fetches -> Http], conns : Seq(Connection), cache : Seq(Nat)]
    BY DEF Net
  <2>2. [s EXCEPT !.cache = q].conns = s.conns
    BY <2>1
  <2> QED BY <2>2 DEF WithoutIdle
<1> HIDE DEF m
<1>6. m \in Seq(Connection)
  <2>1. \A c \in DOMAIN s.conns : m[c] \in Connection
    <3> TAKE c \in DOMAIN s.conns
    <3>1. CASE c \in C
      BY <3>1, <1>2, ClosedConnProperties
    <3>2. CASE c \notin C
      BY <3>2, <1>3, Parts
    <3> QED BY <3>1, <3>2
  <2>2. DOMAIN s.conns = 1..Len(s.conns) /\ Len(s.conns) \in Nat
    BY Parts
  <2>3. m \in [1..Len(s.conns) -> Connection]
    BY <2>1, <2>2, <1>4, <1>5 DEF m
  <2> QED BY <2>2, <2>3, SeqDef
<1>7. /\ q \in Seq(Nat) /\ Range(q) = Range(s.cache) \ C /\ IsInjective(q)
      /\ Len(q) <= Len(s.cache)
  <2>1. s.cache \in Seq(Nat) /\ IsInjective(s.cache)
    BY Parts DEF OwnersOf
  <2> QED BY <2>1, KeptProperties
<1> HIDE DEF q, t
<1>8. t \in Net /\ t.http = s.http /\ t.conns = m /\ t.cache = q
  <2> DEFINE x == [s EXCEPT !.cache = q]
  <2>1. x \in Net /\ x.http = s.http /\ x.conns = s.conns /\ x.cache = q
    BY <1>7, PutCache
  <2>2. t = [x EXCEPT !.conns = m]
    BY <1>5
  <2> HIDE DEF x
  <2> QED BY <2>1, <2>2, <1>6, PutConns
<1>9. \A c \in C : /\ t.conns[c].data = Nobody /\ ~t.conns[c].open /\ ~t.conns[c].told
                   /\ t.conns[c].in = <<>> /\ t.conns[c].out = <<>>
  <2> TAKE c \in C
  <2>1. t.conns[c] = ClosedConn(s.conns[c].host) /\ s.conns[c].host \in Hosts \cup {Nobody}
    BY <1>2, <1>8
  <2> QED BY ZenonT(40), <2>1, ClosedConnProperties
<1>10. SameWires(s, t)
  BY <1>3, <1>4, <1>8, <1>9 DEF SameWires
<1>11. OwnersOf(t, Fetches)
  <2>1. ASSUME NEW d \in DOMAIN t.conns
        PROVE  /\ t.conns[d].open <=> t.conns[d].data # Nobody
               /\ t.conns[d].data = Cache <=> d \in Range(t.cache)
               /\ t.conns[d].data \in Fetches \cup {Nobody, Cache}
               /\ \A g \in Fetches : t.conns[d].data = g <=> t.http[g].conn = d
               /\ t.conns[d].told =>
                     \E g \in Fetches : t.conns[d].data = g /\ ~t.http[g].keepalive
    <3>1. CASE d \in C
      <4>1. s.conns[d].data = Cache /\ d \in DOMAIN s.conns
        BY <3>1, <1>1 DEF OwnersOf
      <4>2. \A g \in Fetches : s.http[g].conn # d
        BY <4>1, FetchesAssumption DEF OwnersOf
      <4> QED BY <3>1, <4>2, <1>7, <1>8, <1>9, FetchesAssumption
    <3>2. CASE d \notin C
      <4>1. d \in DOMAIN s.conns /\ t.conns[d] = s.conns[d]
        BY <3>2, <1>3, <1>4, <1>8
      <4>2. d \in Range(t.cache) <=> d \in Range(s.cache)
        BY <3>2, <1>7, <1>8
      <4> QED BY <4>1, <4>2, <1>8 DEF OwnersOf
    <3> QED BY <3>1, <3>2
  <2>2. Len(q) <= Keepalive
    <3>1. Len(q) \in Nat /\ Len(s.cache) \in Nat /\ Len(s.cache) <= Keepalive /\ Keepalive \in Nat
      BY <1>7, Parts, LenProperties, BoundsAssumption DEF OwnersOf
    <3> QED BY <3>1, <1>7
  <2>3. Range(t.cache) \subseteq DOMAIN t.conns /\ \A g \in Fetches : t.http[g].conn \in DOMAIN t.conns \cup {NoConn}
    BY <1>4, <1>7, <1>8 DEF OwnersOf
  <2> QED BY <2>1, <2>2, <2>3, <1>7, <1>8 DEF OwnersOf
<1> QED BY <1>3, <1>7, <1>8, <1>10, <1>11 DEF t

\* The search for an idle connection finds one that nothing has come in on.
LEMMA GetKeepaliveOwned ==
    ASSUME NEW s \in Net, NEW f \in Fetches, OwnersOf(s, Fetches),
           s.http[f].conn = NoConn
    PROVE  LET t == ngx_js_http_get_keepalive_connection(s, f)
           IN  /\ t \in Net /\ OwnersOf(t, Fetches) /\ SameWires(s, t)
               /\ \A g \in Fetches \ {f} : t.http[g] = s.http[g]
               /\ \/ t.http[f] = s.http[f]
                  \/ \E c \in DOMAIN s.conns : t.http[f] = [s.http[f] EXCEPT !.conn = c]
<1> DEFINE P == Passed(s, f)
           t == WithoutIdle(s, P)
           r == ngx_js_http_get_keepalive_connection(s, f)
<1>1. /\ s.cache \in Seq(Nat) /\ DOMAIN s.cache = 1..Len(s.cache)
      /\ IsInjective(s.cache) /\ Range(s.cache) \subseteq DOMAIN s.conns
  BY Parts DEF OwnersOf
<1>2. P \in SUBSET Range(s.cache)
  BY DEF Passed, Matching, Range
<1>3. /\ t \in Net /\ OwnersOf(t, Fetches) /\ t.http = s.http /\ SameWires(s, t)
      /\ Range(t.cache) = Range(s.cache) \ P
      /\ \A d \in DOMAIN s.conns \ P : t.conns[d] = s.conns[d]
  BY <1>2, WithoutIdleOwned
<1>4. CASE ~s.http[f].keepalive
  <2>1. r = s
    BY <1>4 DEF ngx_js_http_get_keepalive_connection
  <2> HIDE DEF r
  <2>2. SameWires(s, r)
    BY <2>1 DEF SameWires
  <2> QED BY <2>1, <2>2 DEF r
<1>5. CASE s.http[f].keepalive /\ Usable(s, f) = {}
  <2>1. r = t
    BY <1>5 DEF ngx_js_http_get_keepalive_connection
  <2> HIDE DEF r, t
  <2> QED BY <2>1, <1>3 DEF r
<1>6. CASE s.http[f].keepalive /\ Usable(s, f) # {}
  <2> DEFINE i == Min(Usable(s, f))
             c == s.cache[i]
             q == Kept(t.cache, {c})
             n == [t.conns[c] EXCEPT !.data = f, !.requests = @ + 1]
             h == [s.http[f] EXCEPT !.conn = c]
  <2>1. Usable(s, f) \in SUBSET Nat /\ Usable(s, f) \subseteq DOMAIN s.cache
    BY <1>1 DEF Usable, Matching
  <2>2. i \in Usable(s, f)
    BY <2>1, <1>6, MinProperties
  <2>3. c \in Range(s.cache) /\ c \in DOMAIN s.conns /\ c \in Nat
    <3>1. c \in Range(s.cache)
      BY <2>1, <2>2 DEF Range
    <3> QED BY <3>1, <1>1, Parts
  <2>4. c \notin P
    <3> SUFFICES ASSUME NEW j \in Matching(s, f), \A x \in Usable(s, f) : j < x,
                        s.cache[j] = c
                 PROVE  FALSE
      BY DEF Passed
    <3>1. j < i /\ j \in DOMAIN s.cache /\ i \in DOMAIN s.cache
      BY <2>1, <2>2 DEF Matching
    <3>2. j = i
      BY <3>1, <1>1 DEF IsInjective
    <3>3. i \in Nat
      BY <2>1, <2>2
    <3> QED BY <3>1, <3>2, <3>3
  <2> HIDE DEF i, P
  <2>5. r = Reused(t, f, c)
    BY <1>6 DEF ngx_js_http_get_keepalive_connection, i, P
  <2> HIDE DEF c, t, r
  <2>6. /\ t.conns[c] = s.conns[c] /\ c \in DOMAIN t.conns /\ c \in Range(t.cache)
        /\ t.conns[c] \in Connection
    <3>1. t.conns[c] = s.conns[c] /\ c \in DOMAIN t.conns /\ c \in Range(t.cache)
      BY <2>3, <2>4, <1>3 DEF SameWires
    <3> QED BY <3>1, <1>3, Parts
  <2>7. /\ q \in Seq(Nat) /\ Range(q) = Range(t.cache) \ {c} /\ IsInjective(q)
        /\ Len(q) <= Len(t.cache)
    <3>1. t.cache \in Seq(Nat) /\ IsInjective(t.cache)
      BY <1>3, Parts DEF OwnersOf
    <3> QED BY <3>1, KeptProperties
  <2>8. /\ n \in Connection /\ n.data = f /\ n.open = t.conns[c].open
        /\ n.told = t.conns[c].told /\ n.in = t.conns[c].in /\ n.out = t.conns[c].out
    <3> DEFINE m == t.conns[c]
    <3>1. m \in Connection
      BY <2>6
    <3> HIDE DEF m
    <3>2. [m EXCEPT !.data = f, !.requests = m.requests + 1] \in Connection
      <4>1. m.requests + 1 \in Nat
        BY <3>1 DEF Connection
      <4> QED BY <3>1, <4>1 DEF Connection
    <3>3. /\ [m EXCEPT !.data = f, !.requests = m.requests + 1].data = f
          /\ [m EXCEPT !.data = f, !.requests = m.requests + 1].open = m.open
          /\ [m EXCEPT !.data = f, !.requests = m.requests + 1].told = m.told
          /\ [m EXCEPT !.data = f, !.requests = m.requests + 1].in = m.in
          /\ [m EXCEPT !.data = f, !.requests = m.requests + 1].out = m.out
      BY <3>1 DEF Connection
    <3>4. n = [m EXCEPT !.data = f, !.requests = m.requests + 1]
      <4>1. [m EXCEPT !.data = f].requests = m.requests
        BY <3>1 DEF Connection
      <4> QED BY <4>1 DEF m
    <3> HIDE DEF n
    <3> QED BY <3>2, <3>3, <3>4 DEF m
  <2>9. h \in Http /\ h.conn = c /\ h.keepalive = s.http[f].keepalive
    <3>1. s.http[f] \in Http
      BY Parts
    <3> QED BY <3>1, <2>3 DEF Http
  <2>10. r = [[[t EXCEPT !.cache = q] EXCEPT !.http[f] = h] EXCEPT !.conns[c] = n]
    <3>1. t \in [http : [Fetches -> Http], conns : Seq(Connection), cache : Seq(Nat)]
      BY <1>3 DEF Net
    <3>2. t.http[f] = s.http[f] /\ t.http[f] \in Http
      BY <1>3, Parts
    <3>3. r = [t EXCEPT !.cache = q, !.http[f].conn = c, !.conns[c].data = f,
                        !.conns[c].requests = @ + 1]
      BY <2>5 DEF Reused
    <3> QED BY <3>1, <3>2, <3>3, <2>6
  <2> HIDE DEF q, n, h
  <2>11. /\ r \in Net /\ r.cache = q /\ r.http[f] = h
         /\ \A g \in Fetches \ {f} : r.http[g] = s.http[g]
         /\ DOMAIN r.conns = DOMAIN t.conns /\ r.conns[c] = n
         /\ \A d \in DOMAIN t.conns \ {c} : r.conns[d] = t.conns[d]
    <3> DEFINE x == [t EXCEPT !.cache = q]
               y == [x EXCEPT !.http[f] = h]
               z == [y EXCEPT !.conns[c] = n]
    <3>1. x \in Net /\ x.http = t.http /\ x.conns = t.conns /\ x.cache = q
      BY <1>3, <2>7, PutCache
    <3> HIDE DEF x
    <3>2. /\ y \in Net /\ y.conns = x.conns /\ y.cache = x.cache /\ y.http[f] = h
          /\ \A g \in Fetches \ {f} : y.http[g] = x.http[g]
      BY <3>1, <2>9, PutHttp
    <3> HIDE DEF y
    <3>3. c \in DOMAIN y.conns
      BY <3>1, <3>2, <2>6
    <3>4. /\ z \in Net /\ z.http = y.http /\ z.cache = y.cache /\ Len(z.conns) = Len(y.conns)
          /\ z.conns[c] = n
          /\ \A d \in DOMAIN y.conns \ {c} : z.conns[d] = y.conns[d]
      BY <3>2, <3>3, <2>8, PutConn
    <3>5. r = z
      BY <2>10 DEF y, x
    <3> HIDE DEF z
    <3>6. DOMAIN r.conns = DOMAIN y.conns
      BY <3>2, <3>4, <3>5, Parts
    <3> QED BY <3>1, <3>2, <3>4, <3>5, <3>6, <1>3
  <2>12. t.conns[c].data = Cache /\ t.conns[c].open /\ ~t.conns[c].told
    <3>1. t.conns[c].data = Cache
      BY <2>6, <1>3 DEF OwnersOf
    <3> QED BY <3>1, <2>6, <1>3, FetchesAssumption DEF OwnersOf
  <2>13. OwnersOf(r, Fetches)
    <3>1. ASSUME NEW d \in DOMAIN r.conns
          PROVE  /\ r.conns[d].open <=> r.conns[d].data # Nobody
                 /\ r.conns[d].data = Cache <=> d \in Range(r.cache)
                 /\ r.conns[d].data \in Fetches \cup {Nobody, Cache}
                 /\ \A g \in Fetches : r.conns[d].data = g <=> r.http[g].conn = d
                 /\ r.conns[d].told =>
                       \E g \in Fetches : r.conns[d].data = g /\ ~r.http[g].keepalive
      <4>1. CASE d = c
        <5>1. \A g \in Fetches : t.http[g].conn # c
          BY <2>6, <2>12, <1>3, FetchesAssumption DEF OwnersOf
        <5>2. \A g \in Fetches \ {f} : r.http[g].conn # c
          BY <5>1, <2>11, <1>3
        <5>3. r.http[f].conn = c
          BY <2>9, <2>11
        <5>4. /\ r.conns[d].data = f /\ r.conns[d].open /\ ~r.conns[d].told
          BY <4>1, <2>8, <2>11, <2>12
        <5>5. d \notin Range(r.cache)
          BY <4>1, <2>7, <2>11
        <5>6. f # Nobody /\ f # Cache
          BY FetchesAssumption
        <5> QED BY <4>1, <5>2, <5>3, <5>4, <5>5, <5>6
      <4>2. CASE d # c
        <5>1. d \in DOMAIN t.conns /\ r.conns[d] = t.conns[d]
          BY <4>2, <2>11
        <5>2. d \in Range(r.cache) <=> d \in Range(t.cache)
          BY <4>2, <2>7, <2>11
        <5>3. \A g \in Fetches \ {f} : r.http[g] = t.http[g]
          BY <2>11, <1>3
        <5>4. r.http[f].conn # d /\ t.http[f].conn # d /\ t.conns[d].data # f
          <6>1. t.http[f].conn = NoConn
            BY <1>3
          <6>2. d # NoConn
            BY <5>1, <1>3, Parts DEF NoConn
          <6> QED BY <6>1, <6>2, <5>1, <4>2, <2>9, <2>11, <1>3 DEF OwnersOf
        <5> QED BY <5>1, <5>2, <5>3, <5>4, <1>3 DEF OwnersOf
      <4> QED BY <4>1, <4>2
    <3>2. Len(q) <= Keepalive
      <4>1. Len(q) \in Nat /\ Len(t.cache) \in Nat /\ Len(t.cache) <= Keepalive /\ Keepalive \in Nat
        BY <2>7, <1>3, Parts, LenProperties, BoundsAssumption DEF OwnersOf
      <4> QED BY <4>1, <2>7
    <3>3. Range(r.cache) \subseteq DOMAIN r.conns
      BY <2>7, <2>11, <1>3 DEF OwnersOf
    <3>4. \A g \in Fetches : r.http[g].conn \in DOMAIN r.conns \cup {NoConn}
      BY <2>6, <2>9, <2>11, <1>3 DEF OwnersOf
    <3> QED BY <3>1, <3>2, <3>3, <3>4, <2>7, <2>11 DEF OwnersOf
  <2>14. SameWires(s, r)
    BY <2>6, <2>8, <2>11, <1>3 DEF SameWires
  <2>15. \E d \in DOMAIN s.conns : r.http[f] = [s.http[f] EXCEPT !.conn = d]
    BY <2>3, <2>11 DEF h, c
  <2> QED BY <2>11, <2>13, <2>14, <2>15 DEF r
<1> QED BY <1>4, <1>5, <1>6

-----------------------------------------------------------------------------
(* Steps that leave every connection with its owner. *)

\* Fetch f and what its connection holds may change; the rest is as it was.
LEMMA Touched ==
    ASSUME NEW s \in Net, NEW t \in Net, NEW f \in Fetches, OwnersOf(s, Fetches),
           \A g \in Fetches \ {f} : HttpOK(s.http[g]) /\ StreamOK(s, g),
           t.cache = s.cache, DOMAIN t.conns = DOMAIN s.conns,
           \A g \in Fetches \ {f} : t.http[g] = s.http[g],
           t.http[f].conn = s.http[f].conn,
           t.http[f].keepalive => s.http[f].keepalive,
           \A d \in DOMAIN s.conns :
              /\ t.conns[d].data = s.conns[d].data
              /\ t.conns[d].open = s.conns[d].open
              /\ \/ t.conns[d].told = s.conns[d].told
                 \/ d = s.http[f].conn /\ ~t.http[f].keepalive
              /\ \/ d = s.http[f].conn
                 \/ t.conns[d].in = s.conns[d].in /\ t.conns[d].out = s.conns[d].out
    PROVE  /\ OwnersOf(t, Fetches)
           /\ \A g \in Fetches \ {f} : HttpOK(t.http[g]) /\ StreamOK(t, g)
<1>1. OwnersOf(t, Fetches)
  <2>1. ASSUME NEW d \in DOMAIN t.conns
        PROVE  /\ t.conns[d].open <=> t.conns[d].data # Nobody
               /\ t.conns[d].data = Cache <=> d \in Range(t.cache)
               /\ t.conns[d].data \in Fetches \cup {Nobody, Cache}
               /\ \A g \in Fetches : t.conns[d].data = g <=> t.http[g].conn = d
    BY DEF OwnersOf
  <2>2. ASSUME NEW d \in DOMAIN t.conns, t.conns[d].told
        PROVE  \E g \in Fetches : t.conns[d].data = g /\ ~t.http[g].keepalive
    <3>1. CASE t.conns[d].told = s.conns[d].told
      <4>1. PICK g \in Fetches : s.conns[d].data = g /\ ~s.http[g].keepalive
        BY <2>2, <3>1 DEF OwnersOf
      <4>2. t.conns[d].data = g /\ ~t.http[g].keepalive
        BY <4>1
      <4> QED BY <4>2
    <3>2. CASE d = s.http[f].conn /\ ~t.http[f].keepalive
      BY <3>2 DEF OwnersOf
    <3> QED BY <3>1, <3>2
  <2>3. \A g \in Fetches : t.http[g].conn \in DOMAIN t.conns \cup {NoConn}
    BY DEF OwnersOf
  <2>4. /\ Range(t.cache) \subseteq DOMAIN t.conns
        /\ IsInjective(t.cache)
        /\ Len(t.cache) <= Keepalive
    BY DEF OwnersOf
  <2> QED BY <2>1, <2>2, <2>3, <2>4 DEF OwnersOf
<1>2. ASSUME NEW g \in Fetches \ {f} PROVE HttpOK(t.http[g]) /\ StreamOK(t, g)
  <2>1. t.http[g] = s.http[g] /\ HttpOK(s.http[g]) /\ StreamOK(s, g)
    OBVIOUS
  <2>2. CASE s.http[g].conn = NoConn
    BY <2>1, <2>2 DEF StreamOK
  <2>3. CASE s.http[g].conn # NoConn
    <3> DEFINE d == s.http[g].conn
    <3>1. d \in DOMAIN s.conns /\ s.conns[d].data = g
      BY <2>3 DEF OwnersOf
    <3>2. d # s.http[f].conn
      BY <3>1 DEF OwnersOf
    <3>3. t.conns[d].in = s.conns[d].in /\ t.conns[d].out = s.conns[d].out
      BY <3>1, <3>2
    <3>4. Wire(t.conns[t.http[g].conn]) = Wire(s.conns[s.http[g].conn])
      BY <3>3, <2>1, Zenon DEF Wire
    <3> QED BY <3>4, <2>1, Zenon DEF StreamOK
  <2> QED BY <2>1, <2>2, <2>3
<1> QED BY <1>1, <1>2

\* A connection is marked: what it holds and whose it is stays.
LEMMA PutMark ==
    ASSUME NEW s, NEW f \in Fetches, AlmostInv(s, f), NEW c \in DOMAIN s.conns,
           NEW n \in Connection, n.data = s.conns[c].data, n.open = s.conns[c].open,
           n.told = s.conns[c].told, n.in = s.conns[c].in, n.out = s.conns[c].out
    PROVE  /\ AlmostInv([s EXCEPT !.conns[c] = n], f)
           /\ InvOf(s) => InvOf([s EXCEPT !.conns[c] = n])
<1> DEFINE t == [s EXCEPT !.conns[c] = n]
<1>1. s \in Net /\ OwnersOf(s, Fetches) /\ WiresOK(s)
  BY DEF AlmostInv
<1>2. /\ t \in Net /\ t.http = s.http /\ t.cache = s.cache
      /\ Len(t.conns) = Len(s.conns) /\ t.conns[c] = n
      /\ \A d \in DOMAIN s.conns \ {c} : t.conns[d] = s.conns[d]
  BY <1>1, PutConn
<1> HIDE DEF t
<1>3. DOMAIN t.conns = DOMAIN s.conns
  BY <1>1, <1>2, Parts
<1>4. \A d \in DOMAIN s.conns :
         /\ t.conns[d].data = s.conns[d].data /\ t.conns[d].open = s.conns[d].open
         /\ t.conns[d].told = s.conns[d].told
         /\ t.conns[d].in = s.conns[d].in /\ t.conns[d].out = s.conns[d].out
  BY <1>2
<1>5. /\ OwnersOf(t, Fetches)
      /\ \A g \in Fetches \ {f} : HttpOK(t.http[g]) /\ StreamOK(t, g)
  BY <1>1, <1>2, <1>3, <1>4, Touched DEF AlmostInv
<1>6. SameWires(s, t)
  BY <1>3, <1>4 DEF SameWires
<1>7. WiresOK(t)
  BY <1>1, <1>2, <1>6, WiresKept
<1>8. AlmostInv(t, f)
  BY <1>2, <1>5, <1>7 DEF AlmostInv
<1>9. ASSUME InvOf(s) PROVE InvOf(t)
  <2>1. HttpOK(s.http[f]) /\ StreamOK(s, f) /\ s.http[f].conn \in DOMAIN s.conns \cup {NoConn}
    BY <1>9 DEF InvOf, OwnersOf
  <2>2. HttpOK(t.http[f]) /\ StreamOK(t, f)
    BY <2>1, <1>1, <1>2, <1>6, StreamKept
  <2> QED BY <2>2, <1>2, <1>5, <1>7 DEF InvOf
<1> QED BY <1>8, <1>9 DEF t

\* A fetch changes, with the connection it has.
LEMMA PutFetch ==
    ASSUME NEW s, NEW f \in Fetches, AlmostInv(s, f), NEW h \in Http, HttpOK(h),
           h.conn = s.http[f].conn, h.keepalive => s.http[f].keepalive,
           LET q == h.left \o Wire(s.conns[h.conn])
           IN  h.conn # NoConn => Linked(q) /\ (h.process = "headers" => Midway(h, q))
    PROVE  InvOf([s EXCEPT !.http[f] = h])
<1> DEFINE t == [s EXCEPT !.http[f] = h]
<1>1. s \in Net /\ OwnersOf(s, Fetches) /\ WiresOK(s)
  BY DEF AlmostInv
<1>2. /\ t \in Net /\ t.conns = s.conns /\ t.cache = s.cache /\ t.http[f] = h
      /\ \A g \in Fetches \ {f} : t.http[g] = s.http[g]
  BY <1>1, PutHttp
<1> HIDE DEF t
<1>3. /\ OwnersOf(t, Fetches)
      /\ \A g \in Fetches \ {f} : HttpOK(t.http[g]) /\ StreamOK(t, g)
  BY <1>1, <1>2, Touched DEF AlmostInv
<1>4. WiresOK(t)
  BY <1>1, <1>2 DEF WiresOK
<1>5. HttpOK(t.http[f]) /\ StreamOK(t, f)
  BY <1>2 DEF StreamOK
<1> QED BY <1>2, <1>3, <1>4, <1>5 DEF InvOf, t

-----------------------------------------------------------------------------
(* Connecting and sending. *)

\* Both timers of a connection are set.
LEMMA TimedInv ==
    ASSUME NEW s, NEW f \in Fetches, AlmostInv(s, f), NEW c \in DOMAIN s.conns
    PROVE  AlmostInv(Timed(s, c), f) /\ Timed(s, c).http = s.http
<1> DEFINE m == s.conns[c]
           n == [m EXCEPT !.rtimer = TRUE, !.wtimer = TRUE]
<1>1. s \in Net /\ m \in Connection
  BY Parts DEF AlmostInv
<1> HIDE DEF m
<1>2. n \in Connection
  BY <1>1 DEF Connection
<1>3. /\ n.data = m.data /\ n.open = m.open /\ n.told = m.told
      /\ n.in = m.in /\ n.out = m.out
  BY <1>1 DEF Connection
<1>4. Timed(s, c) = [s EXCEPT !.conns[c] = n]
  <2>1. s \in [http : [Fetches -> Http], conns : Seq(Connection), cache : Seq(Nat)]
    BY <1>1 DEF Net
  <2> QED BY <2>1 DEF Timed, m
<1> HIDE DEF n
<1>5. [s EXCEPT !.conns[c] = n].http = s.http
  BY <1>1, <1>2, PutConn
<1>6. AlmostInv([s EXCEPT !.conns[c] = n], f)
  BY <1>2, <1>3, PutMark DEF m
<1> QED BY <1>4, <1>5, <1>6

LEMMA NewConn ==
    ASSUME NEW f \in Fetches, NEW host \in Hosts \cup {Nobody}
    PROVE  /\ Conn(f, host) \in Connection /\ Conn(f, host).data = f
           /\ Conn(f, host).open /\ ~Conn(f, host).told
           /\ Conn(f, host).in = <<>> /\ Conn(f, host).out = <<>>
<1>1. <<>> \in Seq(Fetches) /\ <<>> \in Seq(TokenSet)
  BY EmptySeq
<1>2. Conn(f, host) \in Connection
  BY <1>1 DEF Conn, Connection
<1>3. /\ Conn(f, host).data = f
      /\ Conn(f, host).open /\ ~Conn(f, host).told
      /\ Conn(f, host).in = <<>> /\ Conn(f, host).out = <<>>
  BY DEF Conn
<1> QED BY <1>2, <1>3

\* A connection is made for a fetch that has none.
LEMMA ConnectedInv ==
    ASSUME NEW s, NEW f \in Fetches, AlmostInv(s, f), s.http[f].conn = NoConn
    PROVE  /\ AlmostInv(Connected(s, f), f)
           /\ Len(s.conns) + 1 \in DOMAIN Connected(s, f).conns
           /\ Connected(s, f).http[f] = [s.http[f] EXCEPT !.conn = Len(s.conns) + 1]
<1> DEFINE c == Len(s.conns) + 1
           n == Conn(f, s.http[f].host)
           m == Append(s.conns, n)
           k == s.http[f]
           h == [k EXCEPT !.conn = c]
           x == [s EXCEPT !.conns = m]
           t == Connected(s, f)
<1>1. s \in Net /\ OwnersOf(s, Fetches) /\ WiresOK(s)
  BY DEF AlmostInv
<1>2. /\ s.conns \in Seq(Connection) /\ Len(s.conns) \in Nat
      /\ DOMAIN s.conns = 1..Len(s.conns) /\ k \in Http
  BY <1>1, Parts
<1>3. /\ n \in Connection /\ n.data = f /\ n.open /\ ~n.told /\ n.in = <<>> /\ n.out = <<>>
  <2>1. k.host \in Hosts \cup {Nobody}
    BY <1>2 DEF Http
  <2> QED BY <2>1, NewConn
<1> HIDE DEF n, k
<1>4. /\ h \in Http /\ h.conn = c /\ h.keepalive = k.keepalive
      /\ h.process = k.process /\ h.answer = k.answer
  <2>1. c \in Nat
    BY <1>2
  <2> HIDE DEF c
  <2>2. [k EXCEPT !.conn = c] \in Http
    BY <2>1, <1>2 DEF Http
  <2>3. /\ [k EXCEPT !.conn = c].conn = c /\ [k EXCEPT !.conn = c].keepalive = k.keepalive
        /\ [k EXCEPT !.conn = c].process = k.process
        /\ [k EXCEPT !.conn = c].answer = k.answer
    BY <1>2 DEF Http
  <2> QED BY <2>2, <2>3
<1>5. /\ m \in Seq(Connection) /\ Len(m) = c
      /\ \A i \in 1..Len(s.conns) : m[i] = s.conns[i]
      /\ m[c] = n
  BY <1>2, <1>3, AppendProperties
<1>6. t = [x EXCEPT !.http[f] = h]
  <2>1. s \in [http : [Fetches -> Http], conns : Seq(Connection), cache : Seq(Nat)]
    BY <1>1 DEF Net
  <2>2. t = [s EXCEPT !.conns = m, !.http[f].conn = c]
    BY DEF Connected, n
  <2> HIDE DEF m, c
  <2> QED BY <2>1, <2>2 DEF k
<1> HIDE DEF m, h, t
<1>7. x \in Net /\ x.http = s.http /\ x.conns = m /\ x.cache = s.cache
  BY <1>1, <1>5, PutConns
<1> HIDE DEF x
<1>8. /\ t \in Net /\ t.conns = m /\ t.cache = s.cache /\ t.http[f] = h
      /\ \A g \in Fetches \ {f} : t.http[g] = s.http[g]
  BY <1>4, <1>6, <1>7, PutHttp
<1>9. /\ DOMAIN t.conns = 1..c /\ c \in Nat \ {0} /\ c \notin DOMAIN s.conns
      /\ c \in DOMAIN t.conns
      /\ \A d \in DOMAIN t.conns : d = c \/ d \in DOMAIN s.conns
      /\ DOMAIN s.conns \subseteq DOMAIN t.conns
      /\ \A d \in DOMAIN s.conns : t.conns[d] = s.conns[d]
      /\ t.conns[c] = n
  <2>1. DOMAIN t.conns = 1..c
    BY <1>5, <1>8, LenProperties
  <2> QED BY <2>1, <1>2, <1>5, <1>8
<1> HIDE DEF c
<1>10. \A g \in Fetches : s.http[g].conn # c /\ (s.http[g].conn \in DOMAIN s.conns \cup {NoConn})
  BY <1>1, <1>9 DEF OwnersOf, NoConn
<1>11. OwnersOf(t, Fetches)
  <2>1. ASSUME NEW d \in DOMAIN t.conns
        PROVE  /\ t.conns[d].open <=> t.conns[d].data # Nobody
               /\ t.conns[d].data = Cache <=> d \in Range(t.cache)
               /\ t.conns[d].data \in Fetches \cup {Nobody, Cache}
               /\ \A g \in Fetches : t.conns[d].data = g <=> t.http[g].conn = d
               /\ t.conns[d].told =>
                     \E g \in Fetches : t.conns[d].data = g /\ ~t.http[g].keepalive
    <3>1. CASE d = c
      <4>1. c \notin Range(t.cache) /\ f # Cache /\ f # Nobody
        BY <1>1, <1>8, <1>9, FetchesAssumption DEF OwnersOf
      <4> QED BY <3>1, <4>1, <1>3, <1>4, <1>8, <1>9, <1>10
    <3>2. CASE d # c
      <4>1. d \in DOMAIN s.conns /\ t.conns[d] = s.conns[d] /\ d # NoConn
        BY <3>2, <1>2, <1>9 DEF NoConn
      <4>2. s.conns[d].data # f
        BY <4>1, <1>1 DEF OwnersOf
      <4>3. \A g \in Fetches : t.conns[d].data = g <=> t.http[g].conn = d
        BY <4>1, <4>2, <3>2, <1>1, <1>4, <1>8 DEF OwnersOf
      <4> QED BY <4>1, <4>2, <4>3, <1>1, <1>8 DEF OwnersOf
    <3> QED BY <3>1, <3>2
  <2>2. \A g \in Fetches : t.http[g].conn \in DOMAIN t.conns \cup {NoConn}
    BY <1>4, <1>8, <1>9, <1>10
  <2>3. Range(t.cache) \subseteq DOMAIN t.conns
    BY <1>1, <1>8, <1>9 DEF OwnersOf
  <2> QED BY <2>1, <2>2, <2>3, <1>1, <1>8 DEF OwnersOf
<1>12. WiresOK(t)
  <2> SUFFICES ASSUME NEW d \in DOMAIN t.conns PROVE Linked(Wire(t.conns[d]))
    BY DEF WiresOK
  <2>1. CASE d = c
    <3>1. Wire(t.conns[d]) = <<>>
      BY <2>1, <1>3, <1>9, EmptySeq, ConcatEmptySeq DEF Wire
    <3> QED BY <3>1, EmptyLinked
  <2>2. CASE d # c
    BY <2>2, <1>1, <1>9 DEF WiresOK
  <2> QED BY <2>1, <2>2
<1>13. ASSUME NEW g \in Fetches \ {f} PROVE HttpOK(t.http[g]) /\ StreamOK(t, g)
  <2>1. HttpOK(s.http[g]) /\ StreamOK(s, g) /\ t.http[g] = s.http[g]
    BY <1>8 DEF AlmostInv
  <2>2. s.http[g].conn = NoConn \/ t.conns[s.http[g].conn] = s.conns[s.http[g].conn]
    BY <1>9, <1>10
  <2> QED BY <2>1, <2>2 DEF StreamOK
<1>14. AlmostInv(t, f)
  <2>1. /\ t.http[f].keepalive => Keepalive > 0
        /\ t.http[f].process = "body" =>
              \A a \in t.http[f].answer : ~a.v11 \/ a.close => ~t.http[f].keepalive
    BY <1>4, <1>8 DEF AlmostInv, k
  <2> QED BY <2>1, <1>8, <1>11, <1>12, <1>13 DEF AlmostInv
<1> QED BY <1>8, <1>9, <1>14 DEF t, c, h, k

\* A fetch that has a connection starts to send its request.
LEMMA BegunInv ==
    ASSUME NEW s, NEW f \in Fetches, AlmostInv(s, f),
           s.http[f].conn \in DOMAIN s.conns, s.http[f].left = <<>>,
           s.http[f].naddr < s.http[f].naddrs, s.http[f].size <= Limit,
           s.http[f].head \/ s.http[f].length <= Limit
    PROVE  /\ InvOf(Begun(s, f))
           /\ Begun(s, f).http[f].conn = s.http[f].conn
           /\ Begun(s, f).http[f].unsent = RequestLen
<1> DEFINE k == s.http[f]
           h == [k EXCEPT !.phase = "active", !.process = "status", !.unsent = RequestLen]
<1>1. s \in Net /\ k \in Http /\ s.conns[k.conn] \in Connection
  BY Parts DEF AlmostInv
<1>2. k.conn # NoConn
  BY <1>1, Parts DEF NoConn
<1> HIDE DEF k
<1>3. h \in Http
  <2>1. RequestLen \in 0..RequestLen /\ "active" \in Phases
    BY BoundsAssumption DEF Phases
  <2> QED BY <1>1, <2>1 DEF Http
<1>4. /\ h.phase = "active" /\ h.process = "status" /\ h.unsent = RequestLen
      /\ h.conn = k.conn /\ h.left = k.left /\ h.naddr = k.naddr /\ h.naddrs = k.naddrs
      /\ h.size = k.size /\ h.head = k.head /\ h.length = k.length
      /\ h.keepalive = k.keepalive
  BY <1>1 DEF Http
<1>5. Begun(s, f) = [s EXCEPT !.http[f] = h]
  <2>1. s \in [http : [Fetches -> Http], conns : Seq(Connection), cache : Seq(Nat)]
    BY <1>1 DEF Net
  <2> QED BY <2>1 DEF Begun, k
<1> HIDE DEF h
<1>6. [s EXCEPT !.http[f] = h].http[f] = h
  BY <1>1, <1>3, PutHttp
<1>7. HttpOK(h)
  BY <1>2, <1>4 DEF HttpOK, k, AlmostInv
<1>8. Linked(h.left \o Wire(s.conns[h.conn]))
  <2>1. Wire(s.conns[k.conn]) \in Seq(TokenSet) /\ Linked(Wire(s.conns[k.conn]))
    BY <1>1, TokensOf DEF AlmostInv, WiresOK, k
  <2>2. h.left = <<>>
    BY <1>4 DEF k
  <2>3. h.left \o Wire(s.conns[h.conn]) = Wire(s.conns[k.conn])
    BY <2>1, <2>2, <1>4, ConcatEmptySeq
  <2> QED BY <2>1, <2>3
<1>9. InvOf([s EXCEPT !.http[f] = h])
  BY <1>3, <1>4, <1>7, <1>8, PutFetch DEF k
<1> QED BY <1>4, <1>5, <1>6, <1>9 DEF k

\* Units of the request leave.
LEMMA SendInv ==
    ASSUME NEW s, NEW f \in Fetches, InvOf(s), s.http[f].conn # NoConn,
           NEW n \in 0..s.http[f].unsent
    PROVE  InvOf(Send(s, f, n))
<1> DEFINE k == s.http[f]
           c == k.conn
           b == IF k.unsent = n THEN "none" ELSE "request"
           h == [k EXCEPT !.unsent = k.unsent - n, !.buffer = b]
           m == s.conns[c]
           w == m.wtimer /\ k.unsent # n
           z == m.units \o [i \in 1..n |-> f]
           e == [m EXCEPT !.wtimer = w, !.units = z]
           x == [s EXCEPT !.http[f] = h]
           t == [x EXCEPT !.conns[c] = e]
<1>1. s \in Net /\ k \in Http /\ HttpOK(k) /\ StreamOK(s, f) /\ AlmostInv(s, f)
  BY Parts, InvIsAlmost DEF InvOf
<1>2. c \in DOMAIN s.conns /\ m \in Connection
  BY <1>1, Parts DEF InvOf, OwnersOf
<1> HIDE DEF k
<1>3. k.unsent - n \in 0..RequestLen /\ b \in {"none", "request", "response"} /\ n \in Nat
  <2>1. k.unsent \in 0..RequestLen /\ n \in 0..k.unsent
    BY <1>1 DEF Http, k
  <2> QED BY <2>1, BoundsAssumption
<1>4. z \in Seq(Fetches)
  <2>1. m.units \in Seq(Fetches)
    BY <1>2 DEF Connection
  <2>2. [i \in 1..n |-> f] \in Seq(Fetches)
    BY <1>3, SeqDef
  <2> QED BY <2>1, <2>2, ConcatProperties
<1> HIDE DEF m, b, z
<1>5. h \in Http
  BY <1>1, <1>3 DEF Http
<1>6. /\ h.phase = k.phase /\ h.process = k.process /\ h.answer = k.answer
      /\ h.conn = k.conn /\ h.left = k.left /\ h.naddr = k.naddr /\ h.naddrs = k.naddrs
      /\ h.size = k.size /\ h.head = k.head /\ h.length = k.length
      /\ h.keepalive = k.keepalive
  BY <1>1 DEF Http
<1>7. e \in Connection
  <2>1. w \in BOOLEAN
    OBVIOUS
  <2> HIDE DEF w
  <2> QED BY <1>2, <1>4, <2>1 DEF Connection
<1>8. e.data = m.data /\ e.open = m.open /\ e.told = m.told /\ e.in = m.in /\ e.out = m.out
  BY <1>2 DEF Connection
<1>9. Send(s, f, n) = t
  BY DEF Send, k, b, m, z
<1> HIDE DEF h, e
<1>10. HttpOK(h)
  BY <1>1, <1>6 DEF HttpOK
<1>11. LET q == h.left \o Wire(s.conns[h.conn])
       IN  h.conn # NoConn => Linked(q) /\ (h.process = "headers" => Midway(h, q))
  BY <1>1, <1>6 DEF StreamOK, Midway, k
<1>12. InvOf(x)
  BY <1>1, <1>5, <1>6, <1>10, <1>11, PutFetch DEF k
<1>13. x.conns = s.conns
  BY <1>1, <1>5, PutHttp
<1> HIDE DEF x
<1>14. InvOf(t)
  <2>1. AlmostInv(x, f)
    BY <1>12, InvIsAlmost
  <2>2. c \in DOMAIN x.conns /\ x.conns[c] = m
    BY <1>2, <1>13 DEF m
  <2> HIDE DEF c
  <2> QED BY <2>1, <2>2, <1>7, <1>8, <1>12, PutMark
<1> QED BY <1>9, <1>14

\* A fetch that has let go of its connection connects again, or for the first
\* time.
LEMMA ConnectInv ==
    ASSUME NEW s, NEW f \in Fetches, NEW o, AlmostInv(s, f),
           s.http[f].conn = NoConn, s.http[f].left = <<>>,
           s.http[f].naddr < s.http[f].naddrs, s.http[f].size <= Limit,
           s.http[f].head \/ s.http[f].length <= Limit,
           o.sent \in 0..RequestLen
    PROVE  InvOf(ngx_js_http_connect(s, f, o))
<1> DEFINE t == ngx_js_http_get_keepalive_connection(s, f)
           there == t.http[f].conn # NoConn
           u == IF there THEN Timed(t, t.http[f].conn) ELSE Connected(t, f)
           v == Begun(u, f)
           n == IF v.http[f].chain THEN o.sent ELSE 0
           k == s.http[f]
<1>1. s \in Net /\ OwnersOf(s, Fetches) /\ WiresOK(s) /\ k \in Http
  BY Parts DEF AlmostInv
<1>2. /\ t \in Net /\ OwnersOf(t, Fetches) /\ SameWires(s, t)
      /\ \A g \in Fetches \ {f} : t.http[g] = s.http[g]
      /\ \/ t.http[f] = k
         \/ \E c \in DOMAIN s.conns : t.http[f] = [k EXCEPT !.conn = c]
  BY <1>1, GetKeepaliveOwned
<1> HIDE DEF t
<1> DEFINE Same(j) ==
             /\ j.left = k.left /\ j.naddr = k.naddr /\ j.naddrs = k.naddrs
             /\ j.size = k.size /\ j.head = k.head /\ j.length = k.length
             /\ j.keepalive = k.keepalive /\ j.process = k.process
             /\ j.answer = k.answer
<1>3. ASSUME NEW c PROVE Same([k EXCEPT !.conn = c])
  <2> HIDE DEF k
  <2> QED BY <1>1 DEF Http
<1>4. Same(t.http[f])
  <2>1. CASE t.http[f] = k
    BY <2>1
  <2>2. ASSUME NEW c \in DOMAIN s.conns, t.http[f] = [k EXCEPT !.conn = c]
        PROVE  Same(t.http[f])
    <3> HIDE DEF Same
    <3> QED BY <2>2, <1>3
  <2> QED BY <2>1, <2>2, <1>2
<1>5. AlmostInv(t, f)
  <2>1. WiresOK(t)
    BY <1>1, <1>2, WiresKept
  <2>2. ASSUME NEW g \in Fetches \ {f} PROVE HttpOK(t.http[g]) /\ StreamOK(t, g)
    <3>1. HttpOK(s.http[g]) /\ StreamOK(s, g) /\ t.http[g] = s.http[g]
      BY <1>2 DEF AlmostInv
    <3>2. s.http[g].conn \in DOMAIN s.conns \cup {NoConn}
      BY <1>1 DEF OwnersOf
    <3> QED BY <3>1, <3>2, <1>1, <1>2, StreamKept
  <2> QED BY <2>1, <2>2, <1>2, <1>4 DEF AlmostInv
<1>6. /\ AlmostInv(u, f) /\ u.http[f].conn \in DOMAIN u.conns
      /\ u.http[f].left = <<>> /\ u.http[f].naddr < u.http[f].naddrs
      /\ u.http[f].size <= Limit /\ (u.http[f].head \/ u.http[f].length <= Limit)
  <2>1. CASE there
    <3> DEFINE c == t.http[f].conn
    <3>1. c \in DOMAIN t.conns
      BY <2>1, <1>2 DEF OwnersOf
    <3>2. AlmostInv(Timed(t, c), f) /\ Timed(t, c).http = t.http
      BY <3>1, <1>5, TimedInv
    <3>3. u = Timed(t, c)
      BY <2>1
    <3> HIDE DEF u
    <3>4. u.http[f].conn # NoConn
      BY <2>1, <3>2, <3>3
    <3>5. u.http[f].conn \in DOMAIN u.conns
      BY <3>2, <3>3, <3>4 DEF AlmostInv, OwnersOf
    <3> QED BY <3>2, <3>3, <3>5, <1>4
  <2>2. CASE ~there
    <3> DEFINE c == Len(t.conns) + 1
               j == t.http[f]
    <3>1. /\ AlmostInv(Connected(t, f), f)
          /\ c \in DOMAIN Connected(t, f).conns
          /\ Connected(t, f).http[f] = [j EXCEPT !.conn = c]
      BY <2>2, <1>5, ConnectedInv
    <3>2. u = Connected(t, f)
      BY <2>2
    <3> HIDE DEF u, c
    <3>3. j \in Http
      BY <1>2, Parts
    <3> HIDE DEF j
    <3>4. [j EXCEPT !.conn = c].left = j.left
          /\ [j EXCEPT !.conn = c].naddr = j.naddr
          /\ [j EXCEPT !.conn = c].naddrs = j.naddrs
          /\ [j EXCEPT !.conn = c].size = j.size
          /\ [j EXCEPT !.conn = c].head = j.head
          /\ [j EXCEPT !.conn = c].length = j.length
          /\ [j EXCEPT !.conn = c].conn = c
      BY <3>3 DEF Http
    <3> QED BY <3>1, <3>2, <3>4, <1>4 DEF j
  <2> QED BY <2>1, <2>2
<1> HIDE DEF u
<1>7. InvOf(v) /\ v.http[f].conn = u.http[f].conn /\ v.http[f].unsent = RequestLen
  BY <1>6, BegunInv
<1>8. v.http[f].conn # NoConn
  <2>1. u \in Net
    BY <1>6 DEF AlmostInv
  <2> QED BY <2>1, <1>6, <1>7, Parts DEF NoConn
<1>9. n \in 0..RequestLen
  BY BoundsAssumption
<1>10. ngx_js_http_connect(s, f, o) = IF n > 0 \/ there THEN Send(v, f, n) ELSE v
  BY DEF ngx_js_http_connect, t, u
<1> HIDE DEF v, n
<1>11. InvOf(Send(v, f, n))
  BY <1>7, <1>8, <1>9, SendInv
<1> QED BY <1>7, <1>10, <1>11

\* A fetch lets go of a connection that is closed.
LEMMA LetGo ==
    ASSUME NEW s, NEW f \in Fetches, AlmostInv(s, f), s.http[f].conn # NoConn,
           NEW h \in Http, h.conn = NoConn, h.keepalive = s.http[f].keepalive,
           h.process = s.http[f].process, h.answer = s.http[f].answer
    PROVE  AlmostInv([ngx_js_http_close_connection(s, s.http[f].conn)
                         EXCEPT !.http[f] = h], f)
<1> DEFINE c == s.http[f].conn
           v == ngx_js_http_close_connection(s, c)
           t == [v EXCEPT !.http[f] = h]
<1>1. s \in Net /\ OwnersOf(s, Fetches) /\ WiresOK(s)
  BY DEF AlmostInv
<1>2. /\ c \in DOMAIN s.conns /\ s.conns[c].data = f /\ c \notin Range(s.cache)
      /\ c \in Nat \ {0}
  BY <1>1, Parts, FetchesAssumption DEF OwnersOf
<1>3. s.conns[c].host \in Hosts \cup {Nobody}
  BY <1>1, <1>2, Parts DEF Connection
<1>4. \A d \in DOMAIN s.conns : s.conns[d].data = f <=> d = c
  BY <1>1, <1>2 DEF OwnersOf
<1> HIDE DEF c
<1>5. /\ v \in Net /\ v.http = s.http /\ v.cache = s.cache
      /\ DOMAIN v.conns = DOMAIN s.conns
      /\ \A d \in DOMAIN s.conns \ {c} : v.conns[d] = s.conns[d]
      /\ v.conns[c] = ClosedConn(s.conns[c].host)
  BY <1>1, <1>2, CloseConnection
<1>6. v.conns[c].data = Nobody /\ ~v.conns[c].open /\ ~v.conns[c].told
      /\ v.conns[c].in = <<>> /\ v.conns[c].out = <<>>
  BY <1>3, <1>5, ClosedConnProperties
<1> HIDE DEF v
<1>7. /\ t \in Net /\ t.conns = v.conns /\ t.cache = v.cache /\ t.http[f] = h
      /\ \A g \in Fetches \ {f} : t.http[g] = v.http[g]
  BY <1>5, PutHttp
<1> HIDE DEF t
<1>8. SameWires(s, t)
  BY <1>5, <1>6, <1>7 DEF SameWires
<1>9. OwnersOf(t, Fetches)
  <2>1. ASSUME NEW d \in DOMAIN t.conns
        PROVE  /\ t.conns[d].open <=> t.conns[d].data # Nobody
               /\ t.conns[d].data = Cache <=> d \in Range(t.cache)
               /\ t.conns[d].data \in Fetches \cup {Nobody, Cache}
               /\ \A g \in Fetches : t.conns[d].data = g <=> t.http[g].conn = d
               /\ t.conns[d].told =>
                     \E g \in Fetches : t.conns[d].data = g /\ ~t.http[g].keepalive
    <3>1. t.http[f].conn # d /\ d \in DOMAIN s.conns
      BY <1>5, <1>7, <1>1, Parts DEF NoConn
    <3>2. CASE d = c
      <4>1. \A g \in Fetches \ {f} : t.http[g].conn # c
        BY <1>1, <1>2, <1>5, <1>7 DEF OwnersOf
      <4> QED BY <3>1, <3>2, <4>1, <1>2, <1>5, <1>6, <1>7, FetchesAssumption
    <3>3. CASE d # c
      <4>1. t.conns[d] = s.conns[d] /\ s.conns[d].data # f
        BY <3>1, <3>3, <1>4, <1>5, <1>7
      <4> QED BY <3>1, <4>1, <1>1, <1>5, <1>7 DEF OwnersOf
    <3> QED BY <3>2, <3>3
  <2>2. \A g \in Fetches : t.http[g].conn \in DOMAIN t.conns \cup {NoConn}
    BY <1>1, <1>5, <1>7 DEF OwnersOf
  <2> QED BY <2>1, <2>2, <1>1, <1>5, <1>7 DEF OwnersOf
<1>10. WiresOK(t)
  BY <1>1, <1>7, <1>8, WiresKept
<1>11. ASSUME NEW g \in Fetches \ {f} PROVE HttpOK(t.http[g]) /\ StreamOK(t, g)
  <2>1. HttpOK(s.http[g]) /\ StreamOK(s, g) /\ t.http[g] = s.http[g]
    BY <1>5, <1>7 DEF AlmostInv
  <2>2. s.http[g].conn \in DOMAIN s.conns \cup {NoConn}
    BY <1>1 DEF OwnersOf
  <2> QED BY <2>1, <2>2, <1>1, <1>7, <1>8, StreamKept
<1>12. AlmostInv(t, f)
  BY <1>7, <1>9, <1>10, <1>11 DEF AlmostInv
<1> QED BY <1>12 DEF t, v, c

\* The next address is tried, or there is none.
LEMMA NextAddrInv ==
    ASSUME NEW s, NEW f \in Fetches, NEW o, InvOf(s), s.http[f].phase = "active",
           o.sent \in 0..RequestLen
    PROVE  InvOf(ngx_js_http_next(s, f, o))
<1> DEFINE k == s.http[f]
           c == k.conn
           v == ngx_js_http_close_connection(s, c)
           h == [k EXCEPT !.conn = NoConn, !.buffer = "none", !.left = <<>>,
                          !.naddr = k.naddr + 1]
           t == [v EXCEPT !.http[f] = h]
<1>1. s \in Net /\ k \in Http /\ HttpOK(k) /\ AlmostInv(s, f) /\ c # NoConn
  BY Parts, InvIsAlmost DEF InvOf, HttpOK
<1>2. c \in DOMAIN s.conns
  BY <1>1 DEF InvOf, OwnersOf
<1>3. v \in Net /\ v.http = s.http
  BY <1>1, <1>2, CloseConnection
<1>4. CASE k.naddr + 1 >= k.naddrs
  <2>1. InvOf(ngx_js_fetch_done(s, f, "rejected", o))
    BY <1>1, FetchDone
  <2>2. ngx_js_http_next(s, f, o) = ngx_js_fetch_done(s, f, "rejected", o)
    BY <1>4 DEF ngx_js_http_next, ngx_js_fetch_error
  <2> QED BY <2>1, <2>2
<1>5. CASE ~(k.naddr + 1 >= k.naddrs)
  <2>1. k.naddr + 1 \in Nat /\ k.naddr + 1 < k.naddrs /\ NoConn \in Nat
        /\ <<>> \in Seq(TokenSet)
    <3>1. k.naddr \in Nat /\ k.naddrs \in Nat
      BY <1>1 DEF Http
    <3> QED BY <3>1, <1>5, EmptySeq DEF NoConn
  <2>2. v.http[f] = k
    BY <1>3
  <2>3. ngx_js_http_next(s, f, o) = ngx_js_http_connect(t, f, o)
    <3> DEFINE i == [v EXCEPT !.http[f].conn = NoConn, !.http[f].buffer = "none",
                              !.http[f].left = <<>>, !.http[f].naddr = @ + 1]
    <3>1. ngx_js_http_next(s, f, o) = ngx_js_http_connect(i, f, o)
      BY <1>5 DEF ngx_js_http_next
    <3>2. i = t
      <4> HIDE DEF v, k
      <4>1. v \in [http : [Fetches -> Http], conns : Seq(Connection), cache : Seq(Nat)]
        BY <1>3 DEF Net
      <4>2. [k EXCEPT !.conn = NoConn, !.buffer = "none", !.left = <<>>].naddr = k.naddr
        BY <1>1 DEF Http
      <4> QED BY ZenonT(40), <4>1, <4>2, <2>2
    <3> HIDE DEF i, t
    <3> QED BY <3>1, <3>2
  <2> HIDE DEF k
  <2>4. h \in Http
    BY <2>1, <1>1 DEF Http
  <2>5. /\ h.conn = NoConn /\ h.left = <<>> /\ h.naddr = k.naddr + 1
        /\ h.naddrs = k.naddrs /\ h.size = k.size /\ h.head = k.head
        /\ h.length = k.length /\ h.keepalive = k.keepalive
        /\ h.process = k.process /\ h.answer = k.answer
    BY <1>1 DEF Http
  <2> HIDE DEF h
  <2>6. AlmostInv(t, f)
    BY <2>4, <2>5, <1>1, LetGo DEF k
  <2>7. t.http[f] = h
    BY <1>3, <2>4, PutHttp
  <2>8. k.size <= Limit /\ (k.head \/ k.length <= Limit)
    BY <1>1 DEF HttpOK, k
  <2> HIDE DEF t
  <2>9. InvOf(ngx_js_http_connect(t, f, o))
    BY <2>1, <2>5, <2>6, <2>7, <2>8, ConnectInv
  <2> QED BY <2>3, <2>9
<1> QED BY <1>4, <1>5

\* http->done.
LEMMA FinishInv ==
    ASSUME NEW s, NEW f \in Fetches, NEW o, AlmostInv(s, f),
           s.http[f].size <= Limit, s.http[f].head \/ s.http[f].length <= Limit
    PROVE  InvOf(Finish(s, f, o))
<1>1. InvOf(ngx_js_fetch_done(s, f, "fulfilled", o))
  BY FetchDone
<1>2. InvOf(ngx_js_fetch_done(s, f, "rejected", o))
  BY FetchDone
<1> QED BY <1>1, <1>2 DEF Finish, ngx_js_fetch_process_done, ngx_js_fetch_error

-----------------------------------------------------------------------------
(* The server's side. *)

\* What is on the wire of a connection changes: it is in order after whatever
\* it followed, and begins as before or with a status line.
LEMMA PutWire ==
    ASSUME NEW s, InvOf(s), NEW c \in DOMAIN s.conns, NEW n \in Connection,
           n.data = s.conns[c].data, n.open = s.conns[c].open, n.told = s.conns[c].told,
           \A l \in Seq(TokenSet) :
              Linked(l \o Wire(s.conns[c])) => Linked(l \o Wire(n)),
           Wire(n) # <<>> =>
              \/ Wire(s.conns[c]) # <<>> /\ Wire(n)[1] = Wire(s.conns[c])[1]
              \/ Wire(n)[1].kind = "status"
    PROVE  InvOf([s EXCEPT !.conns[c] = n])
<1> DEFINE t == [s EXCEPT !.conns[c] = n]
           w == Wire(s.conns[c])
           z == Wire(n)
<1>1. s \in Net /\ OwnersOf(s, Fetches) /\ WiresOK(s)
  BY DEF InvOf
<1>2. /\ t \in Net /\ t.http = s.http /\ t.cache = s.cache
      /\ Len(t.conns) = Len(s.conns) /\ t.conns[c] = n
      /\ \A d \in DOMAIN s.conns \ {c} : t.conns[d] = s.conns[d]
  BY <1>1, PutConn
<1> HIDE DEF t
<1>3. DOMAIN t.conns = DOMAIN s.conns
  BY <1>1, <1>2, Parts
<1>4. w \in Seq(TokenSet) /\ z \in Seq(TokenSet)
  <2>1. n.in \in Seq(TokenSet) /\ n.out \in Seq(TokenSet)
    BY DEF Connection
  <2>2. z \in Seq(TokenSet)
    BY <2>1, ConcatProperties DEF Wire
  <2> QED BY <2>2, <1>1, TokensOf
<1>5. OwnersOf(t, Fetches)
  <2>1. \A d \in DOMAIN s.conns : /\ t.conns[d].data = s.conns[d].data
                                  /\ t.conns[d].open = s.conns[d].open
                                  /\ t.conns[d].told = s.conns[d].told
    BY <1>2
  <2> QED BY <2>1, <1>1, <1>2, <1>3 DEF OwnersOf
<1> HIDE DEF w, z
<1>6. WiresOK(t)
  <2>1. Linked(z)
    <3>1. <<>> \o w = w /\ <<>> \o z = z /\ <<>> \in Seq(TokenSet)
      BY <1>4, EmptySeq, ConcatEmptySeq
    <3>2. Linked(<<>> \o w)
      BY <3>1, <1>1 DEF WiresOK, w
    <3>3. Linked(<<>> \o z)
      BY <3>1, <3>2 DEF w, z
    <3> QED BY <3>1, <3>3
  <2> QED BY <2>1, <1>1, <1>2, <1>3 DEF WiresOK, z
<1>7. ASSUME NEW g \in Fetches PROVE HttpOK(t.http[g]) /\ StreamOK(t, g)
  <2> DEFINE h == s.http[g]
  <2>1. HttpOK(h) /\ StreamOK(s, g) /\ t.http[g] = h /\ h.left \in Seq(TokenSet)
    BY <1>1, <1>2, TokensOf DEF InvOf
  <2>2. CASE h.conn # c
    <3>1. h.conn = NoConn \/ t.conns[h.conn] = s.conns[h.conn]
      BY <2>2, <1>1, <1>2 DEF OwnersOf
    <3> QED BY <2>1, <3>1 DEF StreamOK
  <2>3. CASE h.conn = c
    <3> HIDE DEF h
    <3>1. c # NoConn
      BY <1>1, Parts DEF NoConn
    <3>2. Linked(h.left \o w) /\ (h.process = "headers" => Midway(h, h.left \o w))
      BY <2>1, <2>3, <3>1 DEF StreamOK, w, h
    <3>3. Linked(h.left \o z)
      BY <2>1, <3>2 DEF w, z
    <3>4. ASSUME h.process = "headers" PROVE Midway(h, h.left \o z)
      <4>1. PICK kind \in {"status", "length", "chunked", "close"}, a \in Answers :
               /\ h.answer = {a}
               /\ kind = "close" \/ ~a.v11 => ~h.keepalive
               /\ h.left \o w # <<>> => Follows(kind, a, (h.left \o w)[1])
        BY <3>2, <3>4 DEF Midway
      <4>2. ASSUME h.left \o z # <<>> PROVE Follows(kind, a, (h.left \o z)[1])
        <5>1. CASE h.left # <<>>
          <6>1. /\ h.left \o w # <<>> /\ (h.left \o w)[1] = h.left[1]
                /\ h.left \o z # <<>> /\ (h.left \o z)[1] = h.left[1]
            BY <5>1, <2>1, <1>4, FirstOfConcat
          <6> QED BY <6>1, <4>1
        <5>2. CASE h.left = <<>>
          <6>1. h.left \o z = z /\ h.left \o w = w
            BY <5>2, <1>4, ConcatEmptySeq
          <6>2. z # <<>>
            BY <6>1, <4>2
          <6>3. (w # <<>> /\ z[1] = w[1]) \/ z[1].kind = "status"
            BY <6>2 DEF w, z
          <6>4. z[1].kind = "status" => Follows(kind, a, z[1])
            BY DEF Follows
          <6> QED BY <6>1, <6>3, <6>4, <4>1
        <5> QED BY <5>1, <5>2
      <4> QED BY <4>1, <4>2 DEF Midway
    <3> QED BY <2>1, <2>3, <3>3, <3>4, <1>2 DEF StreamOK, z
  <2> QED BY <2>2, <2>3
<1> QED BY <1>2, <1>5, <1>6, <1>7 DEF InvOf, t

\* A sequence that begins with a status line, is in order and ends with e.
EndsIn(q, e) ==
    /\ q \in Seq(TokenSet) /\ Linked(q) /\ q # <<>>
    /\ q[1].kind = "status" /\ q[Len(q)] = e

LEMMA EndsWith ==
    ASSUME NEW q, NEW e, EndsIn(q, e), NEW b \in TokenSet, Follows(e.kind, e.answer, b)
    PROVE  EndsIn(q \o <<b>>, b)
<1> DEFINE r == <<b>>
<1>1. r \in Seq(TokenSet) /\ Len(r) = 1 /\ r[1] = b /\ DOMAIN r = 1..1
  OBVIOUS
<1>2. Linked(r)
  <2>1. \A i \in DOMAIN r : i + 1 \notin DOMAIN r
    BY <1>1
  <2> QED BY <2>1 DEF Linked
<1> HIDE DEF r
<1>3. q \in Seq(TokenSet) /\ Linked(q) /\ q # <<>> /\ q[1].kind = "status" /\ q[Len(q)] = e
  BY DEF EndsIn
<1>4. Linked(q \o r)
  BY <1>1, <1>2, <1>3, LinkedConcat
<1>5. /\ q \o r # <<>> /\ (q \o r)[1] = q[1]
  BY <1>1, <1>3, FirstOfConcat
<1>6. q \o r \in Seq(TokenSet) /\ (q \o r)[Len(q \o r)] = b
  <2>1. /\ q \o r \in Seq(TokenSet) /\ Len(q \o r) = Len(q) + Len(r)
        /\ \A i \in 1..(Len(q) + Len(r)) :
              (q \o r)[i] = IF i <= Len(q) THEN q[i] ELSE r[i - Len(q)]
    BY <1>1, <1>3, ConcatProperties
  <2>2. Len(q) \in Nat /\ Len(q) + 1 \in 1..(Len(q) + 1) /\ ~(Len(q) + 1 <= Len(q))
        /\ (Len(q) + 1) - Len(q) = 1
    BY <1>3, LenProperties
  <2> QED BY <2>1, <2>2, <1>1
<1> QED BY <1>3, <1>4, <1>5, <1>6 DEF EndsIn, r

\* What a server sends is in order.
LEMMA TokensLinked ==
    ASSUME NEW of \in Fetches \X Nat, NEW a \in Answers, NEW head \in BOOLEAN
    PROVE  /\ Tokens(of, a, head) \in Seq(TokenSet) /\ Linked(Tokens(of, a, head))
           /\ Tokens(of, a, head) # <<>> /\ Tokens(of, a, head)[1].kind = "status"
<1> DEFINE T(kind) == Token(kind, of, a)
           framing == IF a.framing = "none" THEN <<>> ELSE <<T(a.framing)>>
           close == IF a.close THEN <<T("close")>> ELSE <<>>
           body == IF a.framing = "chunked"
                   THEN [i \in 1..a.len |-> T("chunk")] \o <<T("last")>>
                   ELSE [i \in 1..a.len |-> T("data")]
           rest == IF head THEN <<>> ELSE body
           q1 == <<T("status")>>
           q2 == q1 \o framing
           q3 == q2 \o close
           q4 == q3 \o <<T("end")>>
<1>1. a.framing \in Framings /\ a.close \in BOOLEAN /\ a.len \in Nat
  BY AnswersAssumption DEF Answer
<1>2. \A kind \in Kinds : /\ T(kind) \in TokenSet /\ T(kind).kind = kind
                          /\ T(kind).answer = a
  BY DEF Token, TokenSet
<1>3. Tokens(of, a, head) = q4 \o rest
  BY DEF Tokens
<1> HIDE DEF T
<1>4. EndsIn(q1, T("status"))
  <2>1. T("status") \in TokenSet /\ T("status").kind = "status"
    BY <1>2 DEF Kinds
  <2>2. q1 \in Seq(TokenSet) /\ Len(q1) = 1 /\ q1[1] = T("status") /\ DOMAIN q1 = 1..1
    BY <2>1
  <2>3. Linked(q1)
    <3>1. \A i \in DOMAIN q1 : i + 1 \notin DOMAIN q1
      BY <2>2
    <3> QED BY <3>1 DEF Linked
  <2>4. q1 # <<>>
    OBVIOUS
  <2> QED BY <2>1, <2>2, <2>3, <2>4 DEF EndsIn
<1> HIDE DEF q1
<1>5. PICK e \in {"status", "length", "chunked"} : EndsIn(q2, T(e))
  <2>1. CASE a.framing = "none"
    <3>1. q2 = q1
      BY <2>1, <1>4, ConcatEmptySeq DEF EndsIn
    <3> QED BY <3>1, <1>4
  <2>2. CASE a.framing # "none"
    <3>1. a.framing \in {"length", "chunked"} /\ q2 = q1 \o <<T(a.framing)>>
      BY <2>2, <1>1 DEF Framings
    <3>2. Follows(T("status").kind, T("status").answer, T(a.framing))
      BY <3>1, <1>2 DEF Follows, Kinds
    <3>3. T(a.framing) \in TokenSet
      BY <3>1, <1>2 DEF Kinds
    <3> HIDE DEF q2
    <3> QED BY <3>1, <3>2, <3>3, <1>4, EndsWith
  <2> QED BY <2>1, <2>2
<1> HIDE DEF q2, framing
<1>6. PICK d \in {"status", "length", "chunked", "close"} :
         EndsIn(q3, T(d)) /\ (a.close => d = "close")
  <2>1. CASE ~a.close
    <3>1. q3 = q2
      BY <2>1, <1>5, ConcatEmptySeq DEF EndsIn
    <3> QED BY <3>1, <2>1, <1>5
  <2>2. CASE a.close
    <3>1. q3 = q2 \o <<T("close")>>
      BY <2>2
    <3>2. Follows(T(e).kind, T(e).answer, T("close"))
      BY <1>2 DEF Follows, Kinds
    <3>3. T("close") \in TokenSet
      BY <1>2 DEF Kinds
    <3> HIDE DEF q3
    <3>4. EndsIn(q3, T("close"))
      BY <3>1, <3>2, <3>3, <1>5, EndsWith
    <3> QED BY <3>4
  <2> QED BY <2>1, <2>2
<1> HIDE DEF q3, close
<1>7. EndsIn(q4, T("end"))
  <2>1. Follows(T(d).kind, T(d).answer, T("end"))
    BY <1>2, <1>6 DEF Follows, Kinds
  <2>2. T("end") \in TokenSet
    BY <1>2 DEF Kinds
  <2> QED BY <2>1, <2>2, <1>6, EndsWith
<1> HIDE DEF q4
<1>8. /\ rest \in Seq(TokenSet)
      /\ \A i \in DOMAIN rest : rest[i].kind \in {"data", "chunk", "last"}
  <2>1. CASE head
    BY <2>1, EmptySeq
  <2>2. CASE ~head /\ a.framing = "chunked"
    <3> DEFINE x == [i \in 1..a.len |-> T("chunk")]
               y == <<T("last")>>
    <3>1. x \in Seq(TokenSet) /\ y \in Seq(TokenSet) /\ Len(x) = a.len /\ Len(y) = 1
      <4>1. T("chunk") \in TokenSet /\ T("last") \in TokenSet
        BY <1>2 DEF Kinds
      <4>2. x \in [1..a.len -> TokenSet]
        BY <4>1
      <4>3. x \in Seq(TokenSet)
        BY <4>2, <1>1, SeqDef
      <4> QED BY <4>1, <4>3, <1>1
    <3>2. \A i \in 1..a.len : x[i].kind = "chunk"
      BY <1>2 DEF Kinds
    <3>3. y[1].kind = "last"
      BY <1>2 DEF Kinds
    <3>4. rest = x \o y
      BY <2>2
    <3> HIDE DEF x, y, rest
    <3>5. /\ rest \in Seq(TokenSet) /\ Len(rest) = a.len + 1
          /\ \A i \in 1..(a.len + 1) : rest[i] = IF i <= a.len THEN x[i] ELSE y[i - a.len]
      BY SMTT(60), <3>1, <3>4, ConcatProperties
    <3>6. DOMAIN rest = 1..(a.len + 1)
      BY <3>5, LenProperties
    <3>7. ASSUME NEW i \in DOMAIN rest PROVE rest[i].kind \in {"chunk", "last"}
      <4>1. i \in 1..(a.len + 1)
        BY <3>6
      <4>2. i \in 1..a.len \/ (~(i <= a.len) /\ i - a.len = 1)
        BY <4>1, <1>1
      <4>3. CASE i \in 1..a.len
        <5>1. i <= a.len
          BY <4>3, <1>1
        <5>2. rest[i] = x[i]
          BY <5>1, <4>1, <3>5
        <5> QED BY <5>2, <4>3, <3>2
      <4>4. CASE ~(i <= a.len) /\ i - a.len = 1
        <5>1. rest[i] = y[1]
          BY <4>4, <4>1, <3>5
        <5> QED BY <5>1, <3>3
      <4> QED BY <4>2, <4>3, <4>4
    <3> QED BY <3>5, <3>7
  <2>3. CASE ~head /\ a.framing # "chunked"
    <3>1. rest = [i \in 1..a.len |-> T("data")]
      BY <2>3
    <3> HIDE DEF rest
    <3>2. T("data") \in TokenSet /\ T("data").kind = "data"
      BY <1>2 DEF Kinds
    <3>3. rest \in Seq(TokenSet)
      <4>1. rest \in [1..a.len -> TokenSet]
        BY <3>1, <3>2
      <4> QED BY <4>1, <1>1, SeqDef
    <3>4. \A i \in DOMAIN rest : rest[i].kind = "data"
      BY <3>1, <3>2
    <3> QED BY <3>3, <3>4
  <2> QED BY <2>1, <2>2, <2>3
<1> HIDE DEF rest
<1>9. Linked(rest)
  BY <1>8 DEF Linked, Follows
<1>10. q4 \in Seq(TokenSet) /\ Linked(q4) /\ q4 # <<>> /\ q4[1].kind = "status"
  BY <1>7 DEF EndsIn
<1>11. rest # <<>> => Follows(q4[Len(q4)].kind, q4[Len(q4)].answer, rest[1])
  <2> SUFFICES ASSUME rest # <<>> PROVE rest[1].kind \in {"data", "chunk", "last"}
    BY DEF Follows
  <2>1. 1 \in DOMAIN rest
    BY <1>8, EmptySeq, LenProperties
  <2> QED BY <2>1, <1>8
<1>12. Linked(q4 \o rest)
  BY <1>8, <1>9, <1>10, <1>11, LinkedConcat
<1>13. q4 \o rest # <<>> /\ (q4 \o rest)[1] = q4[1]
  BY <1>8, <1>10, FirstOfConcat
<1>14. q4 \o rest \in Seq(TokenSet)
  BY <1>8, <1>10, ConcatProperties
<1> QED BY <1>3, <1>10, <1>12, <1>13, <1>14

\* The asker of the response that is due is a fetch.
LEMMA AskerIsFetch ==
    ASSUME NEW n \in Connection, Asked(n)
    PROVE  Asker(n) \in Fetches
<1> DEFINE p == n.answered * RequestLen
<1>1. n.answered \in Nat /\ n.units \in Seq(Fetches) /\ RequestLen \in Nat \ {0}
  BY BoundsAssumption DEF Connection
<1>2. p \in Nat
  BY <1>1
<1>3. p + 1 \in DOMAIN n.units
  <2>1. DOMAIN n.units = 1..Len(n.units) /\ Len(n.units) \in Nat
    BY <1>1, LenProperties
  <2>2. p + 1 + 0 \in DOMAIN n.units \/ p + 1 + (RequestLen - 1) \in DOMAIN n.units
    BY DEF Asked
  <2> HIDE DEF p
  <2> QED BY <2>1, <2>2, <1>1, <1>2
<1>4. n.units[p + 1] \in Fetches
  BY <1>1, <1>3, ElementOfSeq, LenProperties
<1> QED BY <1>4 DEF Asker

\* Putting something after a wire, or after what precedes it, is the same.
LEMMA ServerInv ==
    ASSUME Inv, NEW c \in DOMAIN net.conns, Server(c)
    PROVE  Inv'
<1> DEFINE m == net.conns[c]
<1>1. net \in Net /\ InvOf(net) /\ m \in Connection
  BY Parts DEF Inv, InvOf
<1>2. m.in \in Seq(TokenSet) /\ m.out \in Seq(TokenSet) /\ <<>> \in Seq(TokenSet)
      /\ Wire(m) \in Seq(TokenSet) /\ Linked(Wire(m))
  BY <1>1, EmptySeq, TokensOf DEF Connection, InvOf, WiresOK
<1>3. net \in [http : [Fetches -> Http], conns : Seq(Connection), cache : Seq(Nat)]
  BY <1>1 DEF Net
<1>4. ASSUME NEW n \in Connection, net' = [net EXCEPT !.conns[c] = n],
             n.data = m.data, n.open = m.open, n.told = m.told,
             \A l \in Seq(TokenSet) : Linked(l \o Wire(m)) => Linked(l \o Wire(n)),
             Wire(n) # <<>> => \/ Wire(m) # <<>> /\ Wire(n)[1] = Wire(m)[1]
                               \/ Wire(n)[1].kind = "status"
      PROVE  Inv'
  <2>1. InvOf([net EXCEPT !.conns[c] = n])
    BY <1>1, <1>4, PutWire
  <2> QED BY <2>1, <1>4 DEF Inv
<1>5. CASE ServerAnswers(c)
  <2>1. /\ m.out = <<>> /\ Asked(m)
        /\ \E a \in Answers :
              net' = [net EXCEPT
                 !.conns[c].answered = @ + 1,
                 !.conns[c].out = Tokens(<<Asker(m), c>>, a, net.http[Asker(m)].head)]
    BY <1>5 DEF ServerAnswers, Become
  <2>2. PICK a \in Answers :
              net' = [net EXCEPT
                 !.conns[c].answered = @ + 1,
                 !.conns[c].out = Tokens(<<Asker(m), c>>, a, net.http[Asker(m)].head)]
    BY <2>1
  <2> DEFINE z == Tokens(<<Asker(m), c>>, a, net.http[Asker(m)].head)
             n == [m EXCEPT !.answered = m.answered + 1, !.out = z]
  <2>3. z \in Seq(TokenSet) /\ Linked(z) /\ z # <<>> /\ z[1].kind = "status"
    <3>1. Asker(m) \in Fetches /\ c \in Nat
      BY <1>1, <2>1, AskerIsFetch, Parts
    <3>2. net.http[Asker(m)].head \in BOOLEAN
      BY <3>1, <1>1, Parts DEF Http
    <3> QED BY <3>1, <3>2, TokensLinked
  <2>4. net' = [net EXCEPT !.conns[c] = n]
    <3> HIDE DEF z
    <3>1. net' = [net EXCEPT !.conns[c].answered = @ + 1, !.conns[c].out = z]
      BY <2>2 DEF z
    <3> QED BY <3>1, <1>3
  <2> HIDE DEF z, m
  <2>5. n \in Connection
    <3>1. m.answered + 1 \in Nat
      BY <1>1 DEF Connection
    <3> QED BY <3>1, <1>1, <2>3 DEF Connection
  <2>6. /\ n.data = m.data /\ n.open = m.open /\ n.told = m.told /\ n.in = m.in
        /\ n.out = z
    BY <1>1 DEF Connection
  <2> HIDE DEF n
  <2>7. Wire(m) = m.in /\ Wire(n) = m.in \o z
    BY <1>2, <2>1, <2>6, ConcatEmptySeq DEF Wire, m
  <2>8. ASSUME NEW l \in Seq(TokenSet), Linked(l \o Wire(m)) PROVE Linked(l \o Wire(n))
    <3>1. l \o Wire(n) = (l \o m.in) \o z
      <4>1. m.in \in Seq(TokenSet) /\ z \in Seq(TokenSet)
        BY <1>2, <2>3 DEF m
      <4>2. (l \o m.in) \o z = l \o (m.in \o z)
        BY <4>1, TokenAssoc
      <4> QED BY <4>2, <2>7
    <3>2. l \o m.in \in Seq(TokenSet) /\ Linked(l \o m.in)
      BY <1>2, <2>7, <2>8, ConcatProperties
    <3>3. \A kind, answer : Follows(kind, answer, z[1])
      BY <2>3 DEF Follows
    <3> QED BY <3>1, <3>2, <3>3, <2>3, LinkedConcat
  <2>9. \/ Wire(m) # <<>> /\ Wire(n)[1] = Wire(m)[1]
        \/ Wire(n)[1].kind = "status"
    <3>1. CASE m.in = <<>>
      <4>1. Wire(n) = z
        BY <3>1, <2>3, <2>7, ConcatEmptySeq
      <4> QED BY <4>1, <2>3
    <3>2. CASE m.in # <<>>
      <4>1. (m.in \o z)[1] = m.in[1]
        BY <3>2, <1>2, <2>3, FirstOfConcat
      <4> QED BY <4>1, <3>2, <2>7
    <3> QED BY <3>1, <3>2
  <2> QED BY <2>4, <2>5, <2>6, <2>8, <2>9, <1>4
<1>6. CASE Arrives(c)
  <2> DEFINE i == Append(m.in, Head(m.out))
             o == Tail(m.out)
             n == [m EXCEPT !.in = i, !.out = o]
  <2>1. m.out # <<>> /\ net' = [net EXCEPT !.conns[c].in = Append(@, Head(m.out)),
                                           !.conns[c].out = Tail(@)]
    BY <1>6 DEF Arrives, Become
  <2>2. /\ Head(m.out) \in TokenSet /\ o \in Seq(TokenSet)
        /\ i \in Seq(TokenSet) /\ i = m.in \o <<Head(m.out)>>
    <3>1. Head(m.out) \in TokenSet /\ o \in Seq(TokenSet)
      BY <1>2, <2>1, HeadTailProperties
    <3> QED BY <3>1, <1>2, AppendProperties, AppendIsConcat
  <2>3. net' = [net EXCEPT !.conns[c] = n]
    <3>1. [m EXCEPT !.in = i].out = m.out
      BY <1>1 DEF Connection
    <3> QED BY <3>1, <2>1, <1>3
  <2> HIDE DEF m, i, o
  <2>4. n \in Connection
    BY <1>1, <2>2 DEF Connection
  <2>5. /\ n.data = m.data /\ n.open = m.open /\ n.told = m.told /\ n.in = i
        /\ n.out = o
    BY <1>1 DEF Connection
  <2> HIDE DEF n
  <2>6. Wire(n) = Wire(m)
    <3> DEFINE b == <<Head(m.out)>>
    <3>1. b \in Seq(TokenSet)
      BY <2>2
    <3>2. m.out = b \o o
      BY <1>2, <2>1, HeadTailProperties, SubSeqFull DEF o, m
    <3> HIDE DEF b
    <3>3. m.in \in Seq(TokenSet)
      BY <1>2 DEF m
    <3>4. (m.in \o b) \o o = m.in \o (b \o o)
      BY <3>1, <3>3, <2>2, TokenAssoc
    <3> QED BY <3>2, <3>4, <2>2, <2>5 DEF Wire, b
  <2> QED BY <2>3, <2>4, <2>5, <2>6, <1>4
<1>7. ASSUME NEW fin \in {"eof", "reset"}, NEW i \in {m.in, <<>>},
             net' = [net EXCEPT !.conns[c] = [m EXCEPT !.fin = fin, !.out = <<>>, !.in = i]]
      PROVE  Inv'
  <2> DEFINE n == [m EXCEPT !.fin = fin, !.out = <<>>, !.in = i]
  <2>1. net' = [net EXCEPT !.conns[c] = n] /\ i \in Seq(TokenSet)
    BY <1>2, <1>7
  <2> HIDE DEF m
  <2>2. n \in Connection
    BY <1>1, <1>2, <2>1 DEF Connection
  <2>3. /\ n.data = m.data /\ n.open = m.open /\ n.told = m.told /\ n.in = i
        /\ n.out = <<>>
    BY <1>1 DEF Connection
  <2> HIDE DEF n
  <2>4. Wire(n) = i
    BY <2>1, <2>3, ConcatEmptySeq DEF Wire
  <2>5. ASSUME NEW l \in Seq(TokenSet), Linked(l \o Wire(m)) PROVE Linked(l \o Wire(n))
    <3>1. m.in \in Seq(TokenSet) /\ m.out \in Seq(TokenSet)
      BY <1>2 DEF m
    <3>2. (l \o m.in) \o m.out = l \o Wire(m) /\ l \o m.in \in Seq(TokenSet)
      <4>1. (l \o m.in) \o m.out = l \o (m.in \o m.out)
        BY <3>1, TokenAssoc
      <4>2. l \o m.in \in Seq(TokenSet)
        BY <3>1, ConcatProperties
      <4> QED BY <4>1, <4>2 DEF Wire
    <3>3. Linked(l \o m.in)
      BY <3>1, <3>2, <2>5, LinkedParts
    <3>4. Linked(l)
      BY <2>5, <1>2, LinkedParts DEF m
    <3>5. l \o <<>> = l
      BY ConcatEmptySeq
    <3> QED BY <3>3, <3>4, <3>5, <2>4, <1>7 DEF m
  <2>6. Wire(n) # <<>> => Wire(m) # <<>> /\ Wire(n)[1] = Wire(m)[1]
    <3> SUFFICES ASSUME Wire(n) # <<>> PROVE Wire(m) # <<>> /\ Wire(n)[1] = Wire(m)[1]
      OBVIOUS
    <3>1. i = m.in /\ m.in # <<>>
      BY <2>4, <1>7 DEF m
    <3> QED BY ZenonT(40), <3>1, <2>4, <1>2, FirstOfConcat DEF Wire, m
  <2> QED BY <2>1, <2>2, <2>3, <2>5, <2>6, <1>4
<1>8. CASE ServerCloses(c)
  <2>1. net' = [net EXCEPT !.conns[c].fin = "eof", !.conns[c].out = <<>>]
    BY <1>8 DEF ServerCloses, Become
  <2>2. [m EXCEPT !.fin = "eof", !.out = <<>>] = [m EXCEPT !.fin = "eof", !.out = <<>>, !.in = m.in]
    <3> HIDE DEF m
    <3> QED BY <1>1 DEF Connection
  <2>3. net' = [net EXCEPT !.conns[c] = [m EXCEPT !.fin = "eof", !.out = <<>>]]
    BY <2>1, <1>3
  <2>4. net' = [net EXCEPT !.conns[c] = [m EXCEPT !.fin = "eof", !.out = <<>>, !.in = m.in]]
    BY <2>2, <2>3
  <2> QED BY <2>4, <1>7
<1>9. CASE ServerResets(c)
  <2>1. net' = [net EXCEPT !.conns[c].fin = "reset", !.conns[c].out = <<>>,
                          !.conns[c].in = <<>>]
    BY <1>9 DEF ServerResets, Become
  <2> QED BY ZenonT(40), <2>1, <1>3, <1>7
<1> QED BY <1>5, <1>6, <1>8, <1>9 DEF Server

-----------------------------------------------------------------------------
(* The events of a fetch. *)

\* What a connection is marked with does not matter here.
LEMMA MarkInv ==
    ASSUME NEW s, InvOf(s), NEW c \in DOMAIN s.conns, NEW b \in BOOLEAN
    PROVE  /\ InvOf([s EXCEPT !.conns[c].error = b])
           /\ InvOf([s EXCEPT !.conns[c].eof = b])
           /\ InvOf([s EXCEPT !.conns[c].timedout = b])
           /\ [s EXCEPT !.conns[c].error = b].http = s.http
           /\ [s EXCEPT !.conns[c].eof = b].http = s.http
           /\ [s EXCEPT !.conns[c].timedout = b].http = s.http
           /\ [s EXCEPT !.conns[c].timedout = b].cache = s.cache
<1> DEFINE m == s.conns[c]
           error == [m EXCEPT !.error = b]
           eof == [m EXCEPT !.eof = b]
           timedout == [m EXCEPT !.timedout = b]
           Same(n) == /\ n.data = m.data /\ n.open = m.open /\ n.told = m.told
                      /\ n.in = m.in /\ n.out = m.out
<1>1. s \in Net /\ m \in Connection
  BY Parts DEF InvOf
<1>2. s \in [http : [Fetches -> Http], conns : Seq(Connection), cache : Seq(Nat)]
  BY <1>1 DEF Net
<1>3. /\ [s EXCEPT !.conns[c].error = b] = [s EXCEPT !.conns[c] = error]
      /\ [s EXCEPT !.conns[c].eof = b] = [s EXCEPT !.conns[c] = eof]
      /\ [s EXCEPT !.conns[c].timedout = b] = [s EXCEPT !.conns[c] = timedout]
  OBVIOUS
<1> HIDE DEF m
<1>4. error \in Connection /\ eof \in Connection /\ timedout \in Connection
  BY <1>1 DEF Connection
<1>5. Same(error) /\ Same(eof) /\ Same(timedout)
  BY <1>1 DEF Connection
<1>6. ASSUME NEW n \in Connection, Same(n) PROVE InvOf([s EXCEPT !.conns[c] = n])
  <2>1. Wire(n) = Wire(m)
    BY <1>6 DEF Wire
  <2> QED BY <2>1, <1>6, PutWire DEF m
<1> HIDE DEF error, eof, timedout
<1>7. \A n \in Connection : /\ [s EXCEPT !.conns[c] = n].http = s.http
                            /\ [s EXCEPT !.conns[c] = n].cache = s.cache
  BY <1>1, PutConn
<1> HIDE DEF Same
<1> QED BY <1>3, <1>4, <1>5, <1>6, <1>7

\* A fetch changes that has no connection.
LEMMA PutIdle ==
    ASSUME NEW s, NEW f \in Fetches, InvOf(s), NEW h \in Http, HttpOK(h),
           s.http[f].conn = NoConn, h.conn = NoConn,
           h.keepalive = s.http[f].keepalive
    PROVE  InvOf([s EXCEPT !.http[f] = h]) /\ [s EXCEPT !.http[f] = h].http[f] = h
<1>1. AlmostInv(s, f) /\ s \in Net
  BY InvIsAlmost DEF InvOf
<1>2. [s EXCEPT !.http[f] = h].http[f] = h
  BY <1>1, PutHttp
<1>3. InvOf([s EXCEPT !.http[f] = h])
  BY <1>1, PutFetch
<1> QED BY <1>2, <1>3

LEMMA ExtFetchInv ==
    ASSUME Inv, NEW f \in Fetches, ngx_js_ext_fetch(f)
    PROVE  Inv'
<1> DEFINE k == net.http[f]
<1>1. InvOf(net) /\ net \in Net /\ k \in Http /\ HttpOK(k) /\ k.phase = "none"
  BY Parts DEF Inv, InvOf, ngx_js_ext_fetch
<1>2. net \in [http : [Fetches -> Http], conns : Seq(Connection), cache : Seq(Nat)]
  BY <1>1 DEF Net
<1>3. k.conn = NoConn /\ k.left = <<>> /\ k.naddr = 0 /\ ~k.head
      /\ k.size <= Limit /\ k.length <= Limit
  BY <1>1 DEF HttpOK
<1>4. CASE net' = [net EXCEPT !.http[f].phase = "rejected"]
  <2> DEFINE h == [k EXCEPT !.phase = "rejected"]
  <2>1. net' = [net EXCEPT !.http[f] = h]
    BY <1>4, <1>2
  <2> HIDE DEF k
  <2>2. h \in Http
    BY <1>1 DEF Http, Phases
  <2>3. /\ h.phase = "rejected" /\ h.conn = k.conn /\ h.left = k.left
        /\ h.keepalive = k.keepalive /\ h.process = k.process /\ h.answer = k.answer
    BY <1>1 DEF Http
  <2> HIDE DEF h
  <2>4. HttpOK(h)
    BY <2>3, <1>1, <1>3 DEF HttpOK
  <2>5. InvOf([net EXCEPT !.http[f] = h])
    BY <2>2, <2>3, <2>4, <1>1, <1>3, PutIdle DEF k
  <2> QED BY <2>1, <2>5 DEF Inv
<1> DEFINE Asking(host, m) ==
              [net EXCEPT !.http[f].host = host, !.http[f].head = (m = "HEAD")]
           Resolve(s) == net' = [s EXCEPT !.http[f].phase = "resolving"]
           Connect(s) == \E o \in Starts :
              net' = ngx_js_http_connect([s EXCEPT !.http[f].naddrs = 1], f, o)
<1>5. CASE \E host \in Hosts, m \in Methods :
              Resolve(Asking(host, m)) \/ Connect(Asking(host, m))
  <2>1. PICK host \in Hosts, m \in Methods :
              Resolve(Asking(host, m)) \/ Connect(Asking(host, m))
    BY <1>5
  <2> DEFINE b == m = "HEAD"
             s == [net EXCEPT !.http[f].host = host, !.http[f].head = b]
             h == [k EXCEPT !.host = host, !.head = b, !.phase = "resolving"]
             g == [k EXCEPT !.host = host, !.head = b, !.naddrs = 1]
  <2>2. \/ net' = [s EXCEPT !.http[f].phase = "resolving"]
        \/ \E o \in Starts : net' = ngx_js_http_connect([s EXCEPT !.http[f].naddrs = 1], f, o)
    BY <2>1
  <2>3. b \in BOOLEAN
    OBVIOUS
  <2> HIDE DEF b
  <2>4. /\ [s EXCEPT !.http[f].phase = "resolving"] = [net EXCEPT !.http[f] = h]
        /\ [s EXCEPT !.http[f].naddrs = 1] = [net EXCEPT !.http[f] = g]
    BY <1>2
  <2> HIDE DEF k, s
  <2>5. h \in Http /\ g \in Http
    BY ZenonT(40), <2>3, <1>1 DEF Http, Phases
  <2>6. /\ h.phase = "resolving" /\ g.phase = "none" /\ g.naddrs = 1
        /\ h.conn = k.conn /\ h.left = k.left /\ h.naddr = k.naddr
        /\ h.size = k.size /\ h.length = k.length
        /\ h.keepalive = k.keepalive /\ h.process = k.process /\ h.answer = k.answer
        /\ g.conn = k.conn /\ g.left = k.left /\ g.naddr = k.naddr
        /\ g.size = k.size /\ g.length = k.length
        /\ g.keepalive = k.keepalive /\ g.process = k.process /\ g.answer = k.answer
    BY <1>1 DEF Http
  <2> HIDE DEF h, g
  <2>7. CASE net' = [s EXCEPT !.http[f].phase = "resolving"]
    <3>1. HttpOK(h)
      BY <2>6, <1>1, <1>3 DEF HttpOK
    <3>2. InvOf([net EXCEPT !.http[f] = h])
      BY <3>1, <2>5, <2>6, <1>1, <1>3, PutIdle DEF k
    <3> QED BY <3>2, <2>4, <2>7 DEF Inv
  <2>8. ASSUME NEW o \in Starts,
               net' = ngx_js_http_connect([s EXCEPT !.http[f].naddrs = 1], f, o)
        PROVE  Inv'
    <3> DEFINE t == [net EXCEPT !.http[f] = g]
    <3>1. AlmostInv(t, f) /\ t.http[f] = g
      <4>1. net.http[f].keepalive => Keepalive > 0
        BY <1>1 DEF HttpOK, k
      <4>2. /\ OwnersOf(t, Fetches) /\ WiresOK(t) /\ t \in Net /\ t.http[f] = g
            /\ \A d \in Fetches \ {f} : HttpOK(t.http[d]) /\ StreamOK(t, d)
        <5>1. /\ t \in Net /\ t.conns = net.conns /\ t.cache = net.cache
              /\ t.http[f] = g
              /\ \A d \in Fetches \ {f} : t.http[d] = net.http[d]
          BY <2>5, <1>1, PutHttp
        <5> HIDE DEF t
        <5>2. /\ OwnersOf(t, Fetches)
              /\ \A d \in Fetches \ {f} : HttpOK(t.http[d]) /\ StreamOK(t, d)
          BY <5>1, <2>6, <1>1, Touched DEF InvOf, k
        <5>3. WiresOK(t)
          BY <5>1, <1>1 DEF WiresOK, InvOf
        <5> QED BY <5>1, <5>2, <5>3
      <4> HIDE DEF t
      <4> QED BY <4>1, <4>2, <2>6, <1>1 DEF AlmostInv, HttpOK, k
    <3>2. o.sent \in 0..RequestLen
      BY DEF Starts
    <3> HIDE DEF t
    <3>3. g.conn = NoConn /\ g.left = <<>> /\ g.naddr < g.naddrs /\ g.size <= Limit
          /\ g.length <= Limit
      BY <2>6, <1>3
    <3>4. InvOf(ngx_js_http_connect(t, f, o))
      BY <3>1, <3>2, <3>3, ConnectInv
    <3>5. net' = ngx_js_http_connect(t, f, o)
      <4>1. [s EXCEPT !.http[f].naddrs = 1] = t
        BY <2>4 DEF t
      <4> QED BY <4>1, <2>8
    <3> QED BY <3>4, <3>5 DEF Inv
  <2> QED BY <2>2, <2>7, <2>8
<1>6. \/ net' = [net EXCEPT !.http[f].phase = "rejected"]
      \/ \E host \in Hosts, m \in Methods :
            \/ Resolve(Asking(host, m))
            \/ MayConnect(Asking(host, m), f) /\ Connect(Asking(host, m))
  BY DEF ngx_js_ext_fetch, Become
<1> HIDE DEF Asking, Resolve, Connect
<1> QED BY <1>4, <1>5, <1>6

LEMMA ResolveInv ==
    ASSUME Inv, NEW f \in Fetches, ngx_js_http_resolve_handler(f)
    PROVE  Inv'
<1> DEFINE k == net.http[f]
<1>1. InvOf(net) /\ net \in Net /\ k \in Http /\ HttpOK(k) /\ k.phase = "resolving"
  BY Parts DEF Inv, InvOf, ngx_js_http_resolve_handler
<1>2. k.conn = NoConn /\ k.left = <<>> /\ k.naddr = 0
      /\ k.size <= Limit /\ (k.head \/ k.length <= Limit)
  BY <1>1 DEF HttpOK
<1>3. ASSUME NEW o \in Ends, net' = ngx_js_fetch_error(net, f, o) PROVE Inv'
  <2>1. AlmostInv(net, f)
    BY <1>1, InvIsAlmost
  <2>2. InvOf(ngx_js_fetch_done(net, f, "rejected", o))
    BY <2>1, FetchDone
  <2> QED BY <2>2, <1>3 DEF Inv, ngx_js_fetch_error
<1>4. ASSUME NEW n \in 1..MaxAddrs, NEW o \in Starts,
             net' = ngx_js_http_connect([net EXCEPT !.http[f].naddrs = n], f, o)
      PROVE  Inv'
  <2> DEFINE g == [k EXCEPT !.naddrs = n]
             t == [net EXCEPT !.http[f] = g]
  <2>1. net' = ngx_js_http_connect(t, f, o)
    BY <1>4
  <2> HIDE DEF k
  <2>2. g \in Http /\ n \in Nat /\ n > 0
    <3>1. n \in Nat /\ n > 0
      BY BoundsAssumption
    <3> QED BY <3>1, <1>1 DEF Http
  <2>3. /\ g.naddrs = n /\ g.phase = k.phase /\ g.head = k.head
        /\ g.conn = k.conn /\ g.left = k.left /\ g.naddr = k.naddr
        /\ g.size = k.size /\ g.length = k.length
        /\ g.keepalive = k.keepalive /\ g.process = k.process /\ g.answer = k.answer
    BY <1>1 DEF Http
  <2> HIDE DEF g
  <2>4. HttpOK(g)
    BY <2>3, <1>1, <1>2 DEF HttpOK
  <2>5. InvOf(t) /\ t.http[f] = g
    BY <2>2, <2>3, <2>4, <1>1, <1>2, PutIdle DEF k
  <2> HIDE DEF t
  <2>6. AlmostInv(t, f)
    BY <2>5, InvIsAlmost
  <2>7. o.sent \in 0..RequestLen
    BY DEF Starts
  <2>8. g.conn = NoConn /\ g.left = <<>> /\ g.naddr < g.naddrs /\ g.size <= Limit
        /\ (g.head \/ g.length <= Limit)
    BY <2>2, <2>3, <1>2
  <2>9. InvOf(ngx_js_http_connect(t, f, o))
    BY <2>5, <2>6, <2>7, <2>8, ConnectInv
  <2> QED BY <2>1, <2>9 DEF Inv
<1>5. \/ \E o \in Ends : net' = ngx_js_fetch_error(net, f, o)
      \/ /\ MayConnect(net, f)
         /\ \E n \in 1..MaxAddrs, o \in Starts :
               net' = ngx_js_http_connect([net EXCEPT !.http[f].naddrs = n], f, o)
  BY DEF ngx_js_http_resolve_handler, Become
<1> QED BY <1>3, <1>4, <1>5

\* The connection of a fetch that is under way.
LEMMA ActiveConn ==
    ASSUME Inv, NEW f \in Fetches, net.http[f].phase = "active"
    PROVE  /\ net \in Net /\ InvOf(net) /\ net.http[f] \in Http /\ HttpOK(net.http[f])
           /\ net.http[f].conn # NoConn /\ net.http[f].conn \in DOMAIN net.conns
           /\ net.http[f].size <= Limit /\ (net.http[f].head \/ net.http[f].length <= Limit)
<1>1. InvOf(net) /\ net \in Net /\ HttpOK(net.http[f]) /\ net.http[f] \in Http
  BY Parts DEF Inv, InvOf
<1>2. net.http[f].conn # NoConn
  BY <1>1 DEF HttpOK
<1>3. net.http[f].conn \in DOMAIN net.conns
  BY <1>1, <1>2 DEF InvOf, OwnersOf
<1>4. net.http[f].size <= Limit /\ (net.http[f].head \/ net.http[f].length <= Limit)
  BY <1>1 DEF HttpOK
<1> QED BY <1>1, <1>2, <1>3, <1>4

\* An error is seen on the connection: the next address.
LEMMA ErrorInv ==
    ASSUME Inv, NEW f \in Fetches, net.http[f].phase = "active",
           \E o \in Retries :
              net' = ngx_js_http_next([net EXCEPT !.conns[net.http[f].conn].error = TRUE], f, o)
    PROVE  Inv'
<1> DEFINE c == net.http[f].conn
           t == [net EXCEPT !.conns[c].error = TRUE]
<1>1. PICK o \in Retries : net' = ngx_js_http_next(t, f, o)
  OBVIOUS
<1>2. InvOf(net) /\ c \in DOMAIN net.conns
  BY ActiveConn
<1> HIDE DEF c
<1>3. InvOf(t) /\ t.http = net.http
  BY <1>2, MarkInv
<1> HIDE DEF t
<1>4. InvOf(ngx_js_http_next(t, f, o))
  BY <1>3, NextAddrInv DEF Retries
<1> QED BY <1>1, <1>4 DEF Inv

LEMMA WriteInv ==
    ASSUME Inv, NEW f \in Fetches, ngx_js_http_write_handler(f)
    PROVE  Inv'
<1>1. net.http[f].phase = "active"
  BY DEF ngx_js_http_write_handler
<1>2. ASSUME NEW n \in 0..(IF net.http[f].chain THEN net.http[f].unsent ELSE 0),
             net' = Send(net, f, n)
      PROVE  Inv'
  <2>1. InvOf(net) /\ net.http[f].conn # NoConn /\ net.http[f].unsent \in 0..RequestLen
    BY <1>1, ActiveConn DEF Http
  <2>2. n \in 0..net.http[f].unsent
    BY <2>1, BoundsAssumption
  <2>3. InvOf(Send(net, f, n))
    BY <2>1, <2>2, SendInv
  <2> QED BY <2>3, <1>2 DEF Inv
<1>3. \/ \E n \in 0..(IF net.http[f].chain THEN net.http[f].unsent ELSE 0) :
            net' = Send(net, f, n)
      \/ \E o \in Retries :
            net' = ngx_js_http_next([net EXCEPT !.conns[net.http[f].conn].error = TRUE], f, o)
  BY DEF ngx_js_http_write_handler, Become
<1> QED BY <1>1, <1>2, <1>3, ErrorInv

LEMMA TimeoutInv ==
    ASSUME Inv, NEW f \in Fetches, Timeout(f)
    PROVE  Inv'
<1> DEFINE c == net.http[f].conn
           t == [net EXCEPT !.conns[c].timedout = TRUE]
<1>1. net.http[f].phase = "active" /\ \E o \in Ends : net' = ngx_js_fetch_error(t, f, o)
  BY DEF Timeout, Become
<1>2. PICK o \in Ends : net' = ngx_js_fetch_error(t, f, o)
  BY <1>1
<1>3. InvOf(net) /\ c \in DOMAIN net.conns
  BY <1>1, ActiveConn
<1> HIDE DEF c
<1>4. InvOf(t)
  BY <1>3, MarkInv
<1> HIDE DEF t
<1>5. InvOf(ngx_js_fetch_done(t, f, "rejected", o))
  BY <1>4, InvIsAlmost, FetchDone
<1> QED BY <1>2, <1>5 DEF Inv, ngx_js_fetch_error

LEMMA DestroyInv ==
    ASSUME Inv, NEW f \in Fetches, Destroy(f)
    PROVE  Inv'
<1>1. PICK o \in Ends : net' = ngx_js_fetch_destructor(net, f, o)
  BY DEF Destroy, Become
<1>2. InvOf(net) /\ HttpOK(net.http[f]) /\ net.http[f].phase # "rejected"
  BY DEF Inv, InvOf, Destroy, Pending
<1>3. AlmostInv(net, f) /\ net.http[f].size <= Limit
      /\ (net.http[f].head \/ net.http[f].length <= Limit)
  BY <1>2, InvIsAlmost DEF HttpOK
<1>4. InvOf(ngx_js_fetch_done(net, f, "aborted", o))
  BY <1>3, FetchDone
<1> QED BY <1>1, <1>4 DEF Inv, ngx_js_fetch_destructor

LEMMA KeepaliveEventInv ==
    ASSUME Inv, NEW c \in DOMAIN net.conns, KeepaliveEvent(c)
    PROVE  Inv'
<1> DEFINE late == net.conns[c].in = <<>> /\ net.conns[c].fin = "no"
           s == [net EXCEPT !.conns[c].timedout = late]
           t == ngx_js_http_keepalive_close_handler(s, c)
<1>1. net' = t /\ net.conns[c].data = Cache
  BY DEF KeepaliveEvent, Become
<1>2. InvOf(net) /\ late \in BOOLEAN
  BY DEF Inv
<1> HIDE DEF late
<1>3. InvOf(s) /\ s.http = net.http /\ s.cache = net.cache
  BY <1>2, MarkInv
<1> HIDE DEF s
<1>4. c \in Range(s.cache)
  BY <1>1, <1>2, <1>3 DEF InvOf, OwnersOf
<1>5. s \in Net /\ OwnersOf(s, Fetches) /\ WiresOK(s)
  BY <1>3 DEF InvOf
<1>6. t \in Net /\ OwnersOf(t, Fetches) /\ t.http = s.http /\ SameWires(s, t)
  BY <1>4, <1>5, CloseHandlerOwned
<1> HIDE DEF t
<1>7. WiresOK(t)
  BY <1>5, <1>6, WiresKept
<1>8. ASSUME NEW g \in Fetches PROVE HttpOK(t.http[g]) /\ StreamOK(t, g)
  <2>1. HttpOK(s.http[g]) /\ StreamOK(s, g)
        /\ s.http[g].conn \in DOMAIN s.conns \cup {NoConn}
    BY <1>3 DEF InvOf, OwnersOf
  <2> QED BY <2>1, <1>5, <1>6, StreamKept
<1>9. InvOf(t)
  BY <1>6, <1>7, <1>8 DEF InvOf
<1> QED BY <1>1, <1>9 DEF Inv

-----------------------------------------------------------------------------
(* Responses. *)

\* What was received and what is still to come make up what was on the wire.
LEMMA SplitWire ==
    ASSUME NEW l \in Seq(TokenSet), NEW q \in Seq(TokenSet), NEW z \in Seq(TokenSet),
           NEW n \in 1..Len(q)
    PROVE  LET p == SubSeq(q, 1, n)
               d == SubSeq(q, n + 1, Len(q))
           IN  /\ p \in Seq(TokenSet) /\ d \in Seq(TokenSet)
               /\ (l \o p) \o (d \o z) = l \o (q \o z)
               /\ Linked(q \o z) => Linked(d \o z)
<1> DEFINE p == SubSeq(q, 1, n)
           d == SubSeq(q, n + 1, Len(q))
<1>1. Len(q) \in Nat /\ n \in Nat /\ n <= Len(q)
  BY LenProperties
<1>2. n \in 0..Len(q) /\ n \in Int /\ n \in (1 - 1)..Len(q) /\ 1 \in 1..(Len(q) + 1)
      /\ Len(q) \in n..Len(q)
  BY <1>1
<1>3. \A i \in 1..n : q[i] \in TokenSet
  <2>1. \A i \in 1..n : i \in 1..Len(q)
    BY <1>1
  <2> QED BY <2>1, ElementOfSeq
<1>4. p \in Seq(TokenSet)
  BY <1>2, <1>3, SubSeqProperties
<1>5. d \in Seq(TokenSet) /\ (Linked(q \o z) => Linked(d \o z))
  BY <1>2, DroppedProperties
<1>6. p \o d = q
  <2> DEFINE S == TokenSet
  <2>1. q \in Seq(S)
    OBVIOUS
  <2> HIDE DEF S
  <2>2. SubSeq(q, 1, n) \o SubSeq(q, n + 1, Len(q)) = SubSeq(q, 1, Len(q))
    BY <2>1, <1>2, ConcatAdjacentSubSeq
  <2>3. SubSeq(q, 1, Len(q)) = q
    BY <2>1, SubSeqFull
  <2> QED BY <2>2, <2>3
<1> HIDE DEF p, d
<1>7. d \o z \in Seq(TokenSet)
  BY <1>5, ConcatProperties
<1>8. (l \o p) \o (d \o z) = l \o (p \o (d \o z))
  BY ZenonT(40), <1>4, <1>7, TokenAssoc
<1>9. p \o (d \o z) = q \o z
  BY <1>4, <1>5, <1>6, TokenAssoc
<1> QED BY <1>4, <1>5, <1>8, <1>9 DEF p, d

\* What is received can be parsed.
LEMMA ReceivedParsable ==
    ASSUME NEW s, InvOf(s), NEW f \in Fetches, s.http[f].phase = "active",
           NEW n \in 1..Len(s.conns[s.http[f].conn].in)
    PROVE  LET k == s.http[f]
               c == s.conns[k.conn]
               h == [k EXCEPT !.buffer = "response", !.left = k.left \o SubSeq(c.in, 1, n)]
               d == SubSeq(c.in, n + 1, Len(c.in))
           IN  /\ Parsable(h, d \o c.out) /\ Steady(k, h) /\ h.keepalive = k.keepalive
               /\ d \in Seq(TokenSet) /\ Linked(d \o c.out)
<1> DEFINE k == s.http[f]
           c == s.conns[k.conn]
           p == SubSeq(c.in, 1, n)
           d == SubSeq(c.in, n + 1, Len(c.in))
           l == k.left \o p
           h == [k EXCEPT !.buffer = "response", !.left = l]
           w == d \o c.out
<1>1. s \in Net /\ k \in Http /\ HttpOK(k) /\ StreamOK(s, f)
  BY Parts DEF InvOf
<1>2. k.conn # NoConn /\ k.conn \in DOMAIN s.conns
  BY <1>1 DEF HttpOK, InvOf, OwnersOf
<1>3. /\ k.left \in Seq(TokenSet) /\ c.in \in Seq(TokenSet) /\ c.out \in Seq(TokenSet)
  BY <1>1, <1>2, TokensOf
<1>4. Linked(c.in \o c.out)
  BY <1>2 DEF InvOf, WiresOK, Wire
<1>5. /\ Linked(k.left \o (c.in \o c.out))
      /\ k.process = "headers" => Midway(k, k.left \o (c.in \o c.out))
  BY <1>1, <1>2 DEF StreamOK, Wire
<1>6. n \in 1..Len(c.in)
  OBVIOUS
<1> HIDE DEF k, c
<1>7. /\ p \in Seq(TokenSet) /\ d \in Seq(TokenSet) /\ Linked(w)
      /\ l \o w = k.left \o (c.in \o c.out)
  BY ZenonT(40), <1>3, <1>4, <1>6, SplitWire
<1> HIDE DEF p, d
<1>8. l \in Seq(TokenSet) /\ w \in Seq(TokenSet)
  BY <1>3, <1>7, ConcatProperties
<1> HIDE DEF l, w
<1>9. h \in Http
  BY <1>1, <1>8 DEF Http
<1>10. /\ h.left = l /\ Steady(k, h) /\ h.process = k.process /\ h.size = k.size
       /\ h.length = k.length /\ h.answer = k.answer /\ h.keepalive = k.keepalive
  BY <1>1 DEF Http, Steady
<1> HIDE DEF h
<1>11. Bounded(h) /\ BodyOK(h)
  <2>1. k.phase = "active"
    BY DEF k
  <2> QED BY <2>1, <1>1, <1>10 DEF HttpOK, Bounded, BodyOK, Steady
<1>12. h.process = "headers" => Midway(h, h.left \o w)
  BY <1>5, <1>7, <1>10 DEF Midway
<1>13. Parsable(h, w)
  BY <1>5, <1>7, <1>8, <1>9, <1>10, <1>11, <1>12 DEF Parsable
<1> QED BY <1>7, <1>10, <1>13 DEF k, c, p, d, l, h, w

\* The fetch and the connection after n tokens were parsed.
LEMMA ReceivedStep ==
    ASSUME NEW s, InvOf(s), NEW f \in Fetches, s.http[f].phase = "active",
           NEW d \in Seq(TokenSet), NEW r,
           LET k == s.http[f]
               c == s.conns[k.conn]
           IN  /\ Linked(d \o c.out)
               /\ r.h \in Http /\ Steady(k, r.h) /\ BodyOK(r.h)
               /\ r.h.keepalive => k.keepalive
               /\ r.rc # "ERROR" =>
                     /\ Bounded(r.h)
                     /\ Linked(r.h.left \o (d \o c.out))
                     /\ r.h.process = "headers" => Midway(r.h, r.h.left \o (d \o c.out))
    PROVE  LET k == s.http[f]
               c == s.conns[k.conn]
               rest == [c EXCEPT !.in = d, !.told = c.told \/ SaysLast(r.h)]
               t == [s EXCEPT !.http[f] = r.h, !.conns[k.conn] = rest]
           IN  /\ AlmostInv(t, f) /\ t.http[f] = r.h
               /\ r.rc # "ERROR" => InvOf(t)
<1> DEFINE k == s.http[f]
           i == k.conn
           c == s.conns[i]
           b == c.told \/ SaysLast(r.h)
           rest == [c EXCEPT !.in = d, !.told = b]
           u == [s EXCEPT !.http[f] = r.h]
           t == [s EXCEPT !.http[f] = r.h, !.conns[i] = rest]
           w == d \o c.out
<1>1. s \in Net /\ OwnersOf(s, Fetches) /\ WiresOK(s) /\ k \in Http /\ HttpOK(k)
      /\ \A g \in Fetches : HttpOK(s.http[g]) /\ StreamOK(s, g)
  BY Parts DEF InvOf
<1>2. i # NoConn /\ i \in DOMAIN s.conns
  BY <1>1 DEF HttpOK, OwnersOf
<1>3. c \in Connection
  BY <1>1, <1>2, Parts
<1>4. b \in BOOLEAN /\ (b # c.told => ~r.h.keepalive)
  <2>1. SaysLast(r.h) => ~r.h.keepalive
    BY DEF SaysLast, BodyOK
  <2>2. c.told \in BOOLEAN
    BY <1>3 DEF Connection
  <2> QED BY <2>1, <2>2
<1> HIDE DEF b
<1>5. rest \in Connection
  <2> HIDE DEF c
  <2> QED BY <1>3, <1>4 DEF Connection
<1>6. /\ rest.in = d /\ rest.told = b /\ rest.out = c.out /\ rest.data = c.data
      /\ rest.open = c.open
  <2> HIDE DEF c
  <2> QED BY <1>3 DEF Connection
<1> HIDE DEF rest
<1>7. /\ u \in Net /\ u.conns = s.conns /\ u.cache = s.cache /\ u.http[f] = r.h
      /\ \A g \in Fetches \ {f} : u.http[g] = s.http[g]
  BY <1>1, PutHttp
<1>8. t = [u EXCEPT !.conns[i] = rest]
  OBVIOUS
<1> HIDE DEF u, i, t
<1>9. /\ t \in Net /\ t.http = u.http /\ t.cache = u.cache
      /\ Len(t.conns) = Len(u.conns) /\ t.conns[i] = rest
      /\ \A e \in DOMAIN u.conns \ {i} : t.conns[e] = u.conns[e]
  <2>1. i \in DOMAIN u.conns
    BY <1>2, <1>7
  <2>2. [u EXCEPT !.conns[i] = rest].http = u.http
        /\ [u EXCEPT !.conns[i] = rest] \in Net
        /\ [u EXCEPT !.conns[i] = rest].cache = u.cache
        /\ Len([u EXCEPT !.conns[i] = rest].conns) = Len(u.conns)
        /\ [u EXCEPT !.conns[i] = rest].conns[i] = rest
        /\ \A e \in DOMAIN u.conns \ {i} : [u EXCEPT !.conns[i] = rest].conns[e] = u.conns[e]
    BY <2>1, <1>5, <1>7, PutConn
  <2> QED BY <2>2, <1>8
<1>10. DOMAIN t.conns = DOMAIN s.conns
  BY <1>1, <1>7, <1>9, Parts
<1>11. t.http[f] = r.h /\ t.cache = s.cache
       /\ (\A g \in Fetches \ {f} : t.http[g] = s.http[g])
       /\ \A e \in DOMAIN s.conns \ {i} : t.conns[e] = s.conns[e]
  BY <1>7, <1>9
<1>12. r.h.conn = i /\ r.h.phase = "active"
  BY DEF Steady, i
<1>13. /\ OwnersOf(t, Fetches)
       /\ \A g \in Fetches \ {f} : HttpOK(t.http[g]) /\ StreamOK(t, g)
  <2>1. t.http[f].conn = s.http[f].conn /\ (t.http[f].keepalive => s.http[f].keepalive)
    BY <1>11, <1>12 DEF i
  <2>2. \A e \in DOMAIN s.conns :
           /\ t.conns[e].data = s.conns[e].data
           /\ t.conns[e].open = s.conns[e].open
           /\ \/ t.conns[e].told = s.conns[e].told
              \/ e = s.http[f].conn /\ ~t.http[f].keepalive
           /\ \/ e = s.http[f].conn
              \/ t.conns[e].in = s.conns[e].in /\ t.conns[e].out = s.conns[e].out
    <3> TAKE e \in DOMAIN s.conns
    <3>1. CASE e = i
      <4>1. t.conns[e] = rest
        BY <3>1, <1>9
      <4>2. rest.told = c.told \/ ~t.http[f].keepalive
        BY <1>4, <1>6, <1>11
      <4>3. c = s.conns[e] /\ e = s.http[f].conn
        BY <3>1 DEF i
      <4> HIDE DEF c
      <4> QED BY <4>1, <4>2, <4>3, <1>6
    <3>2. CASE e # i
      BY <3>2, <1>11
    <3> QED BY <3>1, <3>2
  <2> QED BY <2>1, <2>2, <1>1, <1>9, <1>10, <1>11, Touched
<1>14. WiresOK(t)
  <2>1. Linked(Wire(t.conns[i]))
    <3>1. Wire(t.conns[i]) = w
      BY <1>6, <1>9 DEF Wire
    <3>2. Linked(w)
      BY DEF i
    <3> QED BY <3>1, <3>2
  <2> QED BY <2>1, <1>1, <1>10, <1>11 DEF WiresOK
<1>15. AlmostInv(t, f)
  <2>1. r.h.keepalive => Keepalive > 0
    BY <1>1 DEF HttpOK
  <2> QED BY <2>1, <1>9, <1>11, <1>13, <1>14 DEF AlmostInv, BodyOK
<1>16. ASSUME r.rc # "ERROR" PROVE InvOf(t)
  <2>1. HttpOK(r.h)
    <3>1. r.h.naddr < r.h.naddrs /\ (r.h.keepalive => Keepalive > 0)
      BY <1>1 DEF HttpOK, Steady
    <3>2. Bounded(r.h) /\ BodyOK(r.h)
      BY <1>16
    <3> QED BY <3>1, <3>2, <1>2, <1>12 DEF HttpOK, Bounded, BodyOK
  <2>2. StreamOK(t, f)
    <3>1. Wire(t.conns[i]) = w
      BY <1>6, <1>9 DEF Wire
    <3>2. Linked(r.h.left \o w) /\ (r.h.process = "headers" => Midway(r.h, r.h.left \o w))
      BY <1>16 DEF i
    <3> HIDE DEF w
    <3> QED BY <3>1, <3>2, <1>11, <1>12 DEF StreamOK
  <2> QED BY <2>1, <2>2, <1>9, <1>11, <1>13, <1>14 DEF InvOf
<1> QED BY <1>11, <1>15, <1>16 DEF t, i, rest, b, c, k

LEMMA ReceivedInv ==
    ASSUME Inv, NEW f \in Fetches, net.http[f].phase = "active",
           NEW n \in 1..Len(net.conns[net.http[f].conn].in), Received(f, n)
    PROVE  Inv'
<1> DEFINE k == net.http[f]
           c == net.conns[k.conn]
           d == SubSeq(c.in, n + 1, Len(c.in))
           h == [k EXCEPT !.buffer = "response", !.left = k.left \o SubSeq(c.in, 1, n)]
           r == process(h)
           rest == [c EXCEPT !.in = d, !.told = c.told \/ SaysLast(r.h)]
           t == [net EXCEPT !.http[f] = r.h, !.conns[k.conn] = rest]
<1>1. \/ r.rc = "ERROR" /\ \E o \in Ends : net' = ngx_js_fetch_error(t, f, o)
      \/ r.rc = "DONE" /\ \E o \in Ends : net' = Finish(t, f, o)
      \/ r.rc \in {"AGAIN", "OK"} /\ net' = t
  BY DEF Received, Become
<1>2. InvOf(net)
  BY DEF Inv
<1>3. /\ Parsable(h, d \o c.out) /\ Steady(k, h) /\ h.keepalive = k.keepalive
      /\ d \in Seq(TokenSet) /\ Linked(d \o c.out)
  BY <1>2, ReceivedParsable
<1> HIDE DEF h, d
<1>4. Parsed(h, d \o c.out, r)
  BY <1>3, ProcessOK
<1> HIDE DEF r
<1>5. /\ r.h \in Http /\ Steady(k, r.h) /\ BodyOK(r.h)
      /\ r.h.keepalive => k.keepalive
      /\ r.rc # "ERROR" =>
            /\ Bounded(r.h)
            /\ Linked(r.h.left \o (d \o c.out))
            /\ r.h.process = "headers" => Midway(r.h, r.h.left \o (d \o c.out))
  BY <1>3, <1>4 DEF Parsed, Steady
<1>6. AlmostInv(t, f) /\ t.http[f] = r.h /\ (r.rc # "ERROR" => InvOf(t))
  BY <1>2, <1>3, <1>5, ReceivedStep
<1> HIDE DEF t
<1>7. ASSUME NEW o, net' = ngx_js_fetch_error(t, f, o) PROVE Inv'
  <2>1. InvOf(ngx_js_fetch_done(t, f, "rejected", o))
    BY <1>6, FetchDone
  <2> QED BY <2>1, <1>7 DEF Inv, ngx_js_fetch_error
<1>8. ASSUME NEW o, r.rc = "DONE", net' = Finish(t, f, o) PROVE Inv'
  <2>1. r.h.size <= Limit /\ (r.h.head \/ r.h.length <= Limit)
    BY <1>5, <1>8 DEF Bounded
  <2>2. InvOf(Finish(t, f, o))
    BY <2>1, <1>6, FinishInv
  <2> QED BY <2>2, <1>8 DEF Inv
<1>9. ASSUME r.rc \in {"AGAIN", "OK"}, net' = t PROVE Inv'
  BY <1>6, <1>9 DEF Inv
<1> QED BY <1>1, <1>7, <1>8, <1>9

LEMMA ReadInv ==
    ASSUME Inv, NEW f \in Fetches, ngx_js_http_read_handler(f)
    PROVE  Inv'
<1> DEFINE c == net.http[f].conn
           t == [net EXCEPT !.conns[c].eof = TRUE]
<1>1. net.http[f].phase = "active"
  BY DEF ngx_js_http_read_handler
<1>2. \/ \E n \in 1..Len(net.conns[c].in) : Received(f, n)
      \/ \E o \in Ends : net' = Finish(t, f, o)
      \/ \E o \in Retries :
            net' = ngx_js_http_next([net EXCEPT !.conns[c].error = TRUE], f, o)
      \/ \E o \in Ends : net' = ngx_js_fetch_error(t, f, o)
  BY DEF ngx_js_http_read_handler, Become
<1>3. /\ InvOf(net) /\ c \in DOMAIN net.conns
      /\ net.http[f].size <= Limit /\ (net.http[f].head \/ net.http[f].length <= Limit)
  BY <1>1, ActiveConn
<1>4. InvOf(t) /\ t.http = net.http
  <2> HIDE DEF c
  <2> QED BY <1>3, MarkInv
<1>5. AlmostInv(t, f)
  BY <1>4, InvIsAlmost
<1> HIDE DEF t
<1>6. ASSUME NEW o, net' = Finish(t, f, o) PROVE Inv'
  <2>1. InvOf(Finish(t, f, o))
    BY <1>3, <1>4, <1>5, FinishInv
  <2> QED BY <2>1, <1>6 DEF Inv
<1>7. ASSUME NEW o, net' = ngx_js_fetch_error(t, f, o) PROVE Inv'
  <2>1. InvOf(ngx_js_fetch_done(t, f, "rejected", o))
    BY <1>5, FetchDone
  <2> QED BY <2>1, <1>7 DEF Inv, ngx_js_fetch_error
<1> QED BY <1>1, <1>2, <1>6, <1>7, ReceivedInv, ErrorInv

-----------------------------------------------------------------------------
(* The specification. *)

LEMMA InitInv == Init => Inv
<1> SUFFICES ASSUME Init PROVE InvOf(net)
  BY DEF Inv
<1> DEFINE h == ngx_js_fetch_alloc
<1>1. net = [http |-> [f \in Fetches |-> h], conns |-> <<>>, cache |-> <<>>]
  BY DEF Init
<1>2. /\ <<>> \in Seq(TokenSet) /\ <<>> \in Seq(Connection) /\ <<>> \in Seq(Nat)
      /\ DOMAIN <<>> = {} /\ Len(<<>>) = 0
  BY EmptySeq
<1>3. Keepalive \in Nat /\ RequestLen \in Nat
  BY BoundsAssumption
<1>4. h \in Http
  <2>1. RequestLen \in 0..RequestLen /\ (Keepalive > 0) \in BOOLEAN /\ Unknown \in Int
        /\ NoConn \in Nat
    BY <1>3 DEF Unknown, NoConn
  <2> QED BY <2>1, <1>2 DEF Http, ngx_js_fetch_alloc, Phases
<1>5. /\ h.phase = "none" /\ h.conn = NoConn /\ h.left = <<>> /\ h.naddr = 0
      /\ h.size = 0 /\ h.length = Unknown /\ h.head = FALSE /\ h.process = "status"
      /\ h.keepalive <=> Keepalive > 0
  BY DEF ngx_js_fetch_alloc
<1> HIDE DEF h
<1>6. /\ net.http = [f \in Fetches |-> h] /\ net.conns = <<>> /\ net.cache = <<>>
  BY <1>1
<1>7. net \in Net
  BY <1>1, <1>2, <1>4 DEF Net
<1>8. Range(net.cache) = {} /\ DOMAIN net.conns = {} /\ Len(net.cache) = 0
      /\ DOMAIN net.cache = {}
  BY <1>2, <1>6 DEF Range
<1>9. OwnersOf(net, Fetches)
  <2>1. IsInjective(net.cache) /\ Len(net.cache) <= Keepalive
    BY <1>3, <1>8 DEF IsInjective
  <2> QED BY <2>1, <1>5, <1>6, <1>8 DEF OwnersOf
<1>10. WiresOK(net)
  BY <1>8 DEF WiresOK
<1>11. HttpOK(h)
  <2>1. h.size <= Limit /\ h.length <= Limit
    BY <1>5, LimitProperties DEF Unknown
  <2> QED BY <2>1, <1>5 DEF HttpOK
<1>12. \A f \in Fetches : HttpOK(net.http[f]) /\ StreamOK(net, f)
  BY <1>5, <1>6, <1>11 DEF StreamOK
<1> QED BY <1>7, <1>9, <1>10, <1>12 DEF InvOf

LEMMA NextInv == Inv /\ [Next]_vars => Inv'
<1> SUFFICES ASSUME Inv, [Next]_vars PROVE Inv'
  OBVIOUS
<1>1. CASE UNCHANGED vars
  BY <1>1 DEF Inv, vars
<1>2. ASSUME NEW f \in Fetches, ngx_js_ext_fetch(f) PROVE Inv'
  BY <1>2, ExtFetchInv
<1>3. ASSUME NEW f \in Fetches, Client(f) PROVE Inv'
  BY <1>3, ResolveInv, WriteInv, ReadInv, TimeoutInv DEF Client
<1>4. ASSUME NEW f \in Fetches, Destroy(f) PROVE Inv'
  BY <1>4, DestroyInv
<1>5. ASSUME NEW c \in DOMAIN net.conns, KeepaliveEvent(c) PROVE Inv'
  BY <1>5, KeepaliveEventInv
<1>6. ASSUME NEW c \in DOMAIN net.conns, Server(c) PROVE Inv'
  BY <1>6, ServerInv
<1> QED BY <1>1, <1>2, <1>3, <1>4, <1>5, <1>6 DEF Next

\* The inductive invariant: whose every connection is, and that the tokens on
\* every connection, with those a fetch has not gone over yet, are in the
\* order in which servers send them.
THEOREM InvHolds == Spec => []Inv
<1> QED BY InitInv, NextInv, PTL DEF Spec

\* Every open connection is either of one fetch under way or in the cache, in
\* every state, for any number of fetches, hosts, connections and answers.
THEOREM ConnectionsAlwaysOwned == Spec => []ConnectionsOwned
<1>1. Inv => ConnectionsOwned
  <2> SUFFICES ASSUME Inv PROVE ConnectionsOwned
    OBVIOUS
  <2>1. InvOf(net) /\ net \in Net /\ OwnersOf(net, Fetches)
    BY DEF Inv, InvOf
  <2>2. TypeOK
    <3>1. ASSUME NEW f \in Fetches
          PROVE  LET h == net.http[f]
                 IN  /\ h.phase \in {"none", "resolving", "active", "fulfilled",
                                     "rejected", "aborted"}
                     /\ h.conn \in ConnIds \cup {NoConn}
                     /\ h.phase = "active" => h.naddr < h.naddrs
                     /\ h.unsent \in 0..RequestLen
                     /\ h.phase # "rejected" => h.size <= Max({MaxBody, MaxChunked})
      <4>1. net.http[f] \in Http /\ HttpOK(net.http[f])
        BY <2>1, Parts DEF InvOf
      <4>2. net.http[f].conn \in ConnIds \cup {NoConn}
        BY <2>1 DEF OwnersOf, ConnIds
      <4>3. net.http[f].phase \in Phases /\ net.http[f].unsent \in 0..RequestLen
        BY <4>1 DEF Http
      <4> QED BY <4>1, <4>2, <4>3 DEF HttpOK, Limit, Phases
    <3>2. \A i \in DOMAIN net.cache : net.cache[i] \in ConnIds
      BY <2>1 DEF OwnersOf, Range, ConnIds
    <3> QED BY <3>1, <3>2 DEF TypeOK
  <2>3. \A f \in Fetches : net.http[f].phase = "active" <=> net.http[f].conn # NoConn
    BY <2>1 DEF InvOf, HttpOK
  <2> QED BY <2>1, <2>2, <2>3 DEF ConnectionsOwned, OwnersOf, ConnIds
<1> QED BY <1>1, InvHolds, PTL

\* No connection is in the cache after a response on it said that it is the
\* last one.
THEOREM LastIsAlwaysLast == Spec => []LastIsLast
<1>1. Inv => LastIsLast
  <2> SUFFICES ASSUME Inv, NEW i \in DOMAIN net.cache PROVE ~net.conns[net.cache[i]].told
    BY DEF LastIsLast
  <2> DEFINE c == net.cache[i]
  <2>1. OwnersOf(net, Fetches)
    BY DEF Inv, InvOf
  <2>2. c \in Range(net.cache) /\ c \in DOMAIN net.conns
    BY <2>1 DEF OwnersOf, Range
  <2>3. net.conns[c].data = Cache
    BY <2>1, <2>2 DEF OwnersOf
  <2> HIDE DEF c
  <2>4. ~net.conns[c].told
    BY <2>1, <2>2, <2>3, FetchesAssumption DEF OwnersOf
  <2> QED BY <2>4 DEF c
<1> QED BY <1>1, InvHolds, PTL

====
