------------------------- MODULE HttpRequestProofs -------------------------
(***************************************************************************)
(* That js_access decides: a request passes the access phase only when the *)
(* function, and everything it waits for, is over and let it through.      *)
(***************************************************************************)
EXTENDS HttpRequest, SequenceTheorems, TLAPS

-----------------------------------------------------------------------------
(* The shape of the state.                                                 *)

StateFields == {"ctx", "r", "stack"}

CtxFields ==
    {"vm", "status", "redirect", "filter", "done", "inProgress", "read",
     "form", "readEvent", "data", "events", "eventId", "rejected", "buf",
     "lastOut", "requestBody", "retval"}

RequestFields ==
    {"loc", "phase", "weh", "posted", "run", "count", "body", "subs",
     "detached", "headerSent", "last", "buffered", "error", "term", "failed",
     "granted", "orphans", "freed"}

FrameFields == {"fn", "id", "pend", "head", "in", "out", "then"}

LocationFields ==
    {"vm", "access", "content", "header", "body", "set", "close", "errorPage"}

\* What requestText and requestBuffer keep.
Kept == {"null", "text", "buffer"}

Shaped(s) ==
    /\ DOMAIN s = StateFields
    /\ DOMAIN s.ctx = CtxFields
    /\ DOMAIN s.r = RequestFields
    /\ DOMAIN s.r.loc = LocationFields
    /\ s.stack \in Seq(Range(s.stack))
    /\ s.ctx.requestBody \in Kept

-----------------------------------------------------------------------------
(* The inductive invariant.                                                *)

\* The calls whose return lets the access phase decide.
Deciding == {"access", "resolve"}

Functions_ == ScriptFns \cup {"output", "filter", "phase"}

\* What becomes of the result of an output call.
Continuations == {"send", "return", "finish", "finalize"}

\* A filter is called by an output call and its script by the filter; what
\* decides was called by no other call.
Nested(q) ==
    \A i \in 1..Len(q) :
       /\ DOMAIN q[i] = FrameFields
       /\ q[i].fn \in Functions_
       /\ q[i].fn = "output" => q[i].then \in Continuations
       /\ q[i].fn \in {"header", "filter"} => i > 1 /\ q[i - 1].fn = "output"
       /\ q[i].fn = "body" => i > 1 /\ q[i - 1].fn = "filter"
       /\ q[i].fn \in Deciding => i = 1

Undecided(s) == \A i \in 1..Len(s.stack) : s.stack[i].fn \notin Deciding

\* Nothing decides before the access phase, while the body is read, and after
\* the function has failed.
Closed(s) ==
    /\ s.r.phase = "rewrite" =>
          ~s.r.failed /\ s.r.body # "reading" /\ s.r.weh # "access" /\ Undecided(s)
    /\ s.r.body = "reading" => ~s.r.failed /\ s.r.weh # "access" /\ Undecided(s)
    /\ s.r.failed => Undecided(s)

Sound(s) == Shaped(s) /\ Nested(s.stack) /\ Closed(s)

\* A function that failed is answered, and its request finalized, before the
\* handler of the access phase can run again.
Answering(s) ==
    s.r.failed /\ s.r.weh = "access" =>
       /\ Len(s.stack) > 0
       /\ s.stack[1].fn = "output" /\ s.stack[1].then = "finalize"

Safe(s) == Sound(s) /\ Answering(s)

-----------------------------------------------------------------------------
(* The stack.                                                              *)

\* A sequence is one of its own elements.
LEMMA OwnElements ==
    ASSUME NEW S, NEW q \in Seq(S)
    PROVE  q \in Seq(Range(q))
<1> DEFINE n == Len(q)
<1>1. n \in Nat /\ DOMAIN q = 1..n /\ q \in [1..n -> S]
  BY LenProperties
<1> HIDE DEF n
<1>2. q \in [1..n -> Range(q)]
  BY <1>1 DEF Range
<1> QED BY <1>1, <1>2

\* A call more.
LEMMA Pushed ==
    ASSUME NEW q, q \in Seq(Range(q)), NEW f
    PROVE  LET p == Append(q, f)
           IN  /\ p \in Seq(Range(p)) /\ Len(q) \in Nat /\ Len(p) = Len(q) + 1
               /\ \A i \in 1..Len(q) : p[i] = q[i]
               /\ p[Len(q) + 1] = f
<1> DEFINE S == Range(q) \cup {f}
           p == Append(q, f)
<1>1. q \in Seq(S) /\ f \in S
  BY SeqMonotonic, Range(q) \subseteq S
<1> HIDE DEF S
<1>2. /\ p \in Seq(S) /\ Len(p) = Len(q) + 1
      /\ \A i \in 1..Len(q) : p[i] = q[i]
      /\ p[Len(q) + 1] = f
      /\ Len(q) \in Nat
  BY <1>1, AppendProperties, LenProperties
<1>3. p \in Seq(Range(p))
  BY <1>2, OwnElements
<1> QED BY <1>2, <1>3

\* The innermost call returns.
LEMMA Popped ==
    ASSUME NEW q, q \in Seq(Range(q)), Len(q) > 0
    PROVE  LET p == SubSeq(q, 1, Len(q) - 1)
           IN  /\ p \in Seq(Range(p)) /\ Len(q) \in Nat /\ Len(p) = Len(q) - 1
               /\ \A i \in 1..Len(p) : i \in 1..Len(q) /\ p[i] = q[i]
<1> DEFINE n == Len(q)
           p == SubSeq(q, 1, n - 1)
<1>1. n \in Nat
  BY LenProperties
<1>2. \A i \in 1..(n - 1) : q[i] \in Range(q)
  BY LenProperties, <1>1 DEF Range
<1> HIDE DEF n
<1>3. p \in Seq(Range(q)) /\ Len(p) = n - 1 /\ \A i \in 1..(n - 1) : p[i] = q[i]
  <2>1. n - 1 \in Int /\ 1 \in Int /\ n > 0
    BY <1>1 DEF n
  <2>2. /\ p \in Seq(Range(q))
        /\ Len(p) = IF 1 <= n - 1 THEN n - 1 - 1 + 1 ELSE 0
        /\ \A i \in 1..(n - 1 - 1 + 1) : p[i] = q[1 + i - 1]
    BY <2>1, <1>2, SubSeqProperties
  <2>3. \A i \in 1..(n - 1) : 1 + i - 1 = i
    BY <2>1
  <2>4. n - 1 - 1 + 1 = n - 1
    BY <2>1
  <2> HIDE DEF p
  <2>5. Len(p) = n - 1
    BY <2>1, <2>2, <1>1
  <2> QED BY <2>2, <2>3, <2>4, <2>5
<1>4. p \in Seq(Range(p))
  BY <1>3, OwnElements
<1>5. \A i \in 1..(n - 1) : i \in 1..n
  BY <1>1
<1> QED BY <1>1, <1>3, <1>4, <1>5 DEF n

\* A call goes on with other locals.
LEMMA Replaced ==
    ASSUME NEW S, NEW q \in Seq(S), NEW k \in 1..Len(q), NEW f \in S
    PROVE  /\ [q EXCEPT ![k] = f] \in Seq(Range([q EXCEPT ![k] = f]))
           /\ Len(q) \in Nat /\ Len([q EXCEPT ![k] = f]) = Len(q)
           /\ \A i \in 1..Len(q) : [q EXCEPT ![k] = f][i] = IF i = k THEN f ELSE q[i]
<1> DEFINE p == [q EXCEPT ![k] = f]
<1>1. /\ p \in Seq(S) /\ Len(p) = Len(q) /\ Len(q) \in Nat
      /\ \A i \in 1..Len(q) : p[i] = IF i = k THEN f ELSE q[i]
  BY ExceptSeq, LenProperties
<1> HIDE DEF p
<1>2. p \in Seq(Range(p))
  BY <1>1, OwnElements
<1> QED BY <1>1, <1>2 DEF p

-----------------------------------------------------------------------------
(* What leaves the calls in progress alone.                                *)

\* t differs from s in what the access phase does not look at, or for good.
Keeps(s, t) ==
    /\ DOMAIN t = StateFields /\ DOMAIN t.ctx = CtxFields
    /\ DOMAIN t.r = RequestFields /\ DOMAIN t.r.loc = LocationFields
    /\ t.stack = s.stack
    /\ t.r.phase \in {s.r.phase, "static"}
    /\ t.r.weh = s.r.weh \/ t.r.weh # "access"
    /\ t.r.body = s.r.body
    /\ t.r.failed = s.r.failed
    /\ t.r.granted = s.r.granted
    /\ t.ctx.requestBody \in Kept

\* t has let through what s has, no more.
Same(s, t) == t.r.granted = s.r.granted

LEMMA KeepsSound ==
    ASSUME NEW s, NEW t, Keeps(s, t)
    PROVE  /\ Sound(s) => Sound(t)
           /\ Safe(s) => Safe(t)
           /\ Same(s, t)
<1>1. Shaped(s) => Shaped(t)
  BY DEF Shaped, Keeps
<1>2. Closed(s) => Closed(t)
  BY DEF Closed, Keeps, Undecided
<1>3. Sound(s) => Sound(t)
  BY <1>1, <1>2 DEF Sound, Keeps
<1>4. Answering(s) => Answering(t)
  BY DEF Answering, Keeps
<1>5. Same(s, t)
  BY DEF Same, Keeps
<1> QED BY <1>3, <1>4, <1>5 DEF Safe

\* A call that decides nothing, made where it may be.
Fits(s, f) ==
    /\ DOMAIN f = FrameFields
    /\ f.fn \in Functions_ \ Deciding
    /\ f.fn = "output" => f.then \in Continuations
    /\ f.fn \in {"header", "filter"} => Len(s.stack) > 0 /\ Top(s).fn = "output"
    /\ f.fn = "body" => Len(s.stack) > 0 /\ Top(s).fn = "filter"

LEMMA PushSound ==
    ASSUME NEW s, NEW f, Sound(s)
    PROVE  LET t == Push(s, f)
           IN  /\ t.ctx = s.ctx /\ t.r = s.r /\ Shaped(t) /\ Same(s, t)
               /\ Len(s.stack) \in Nat /\ Len(t.stack) = Len(s.stack) + 1
               /\ \A i \in 1..Len(s.stack) : t.stack[i] = s.stack[i]
               /\ t.stack[Len(s.stack) + 1] = f /\ Top(t) = f
               /\ Fits(s, f) => Sound(t)
               /\ Fits(s, f) /\ Safe(s) => Safe(t)
<1> DEFINE t == Push(s, f)
           n == Len(s.stack)
<1>1. Shaped(s)
  BY DEF Sound
<1>2. DOMAIN t = StateFields /\ t.ctx = s.ctx /\ t.r = s.r /\ t.stack = Append(s.stack, f)
  BY <1>1 DEF Push, Shaped, StateFields
<1> HIDE DEF t
<1>3. /\ t.stack \in Seq(Range(t.stack)) /\ n \in Nat /\ Len(t.stack) = n + 1
      /\ \A i \in 1..n : t.stack[i] = s.stack[i]
      /\ t.stack[n + 1] = f
  BY <1>1, <1>2, Pushed DEF Shaped
<1>4. Shaped(t) /\ Same(s, t)
  BY <1>1, <1>2, <1>3 DEF Shaped, Same
<1>5. ASSUME Fits(s, f) PROVE Nested(t.stack)
  <2>1. Nested(s.stack) /\ (n > 0 => n \in 1..n)
    BY <1>3 DEF Sound
  <2>0. n \in Nat
    BY <1>3
  <2>3. \A i \in 1..n : t.stack[i] = s.stack[i]
    BY <1>3
  <2> HIDE DEF n
  <2>2. ASSUME NEW i \in 1..(n + 1)
        PROVE  /\ DOMAIN t.stack[i] = FrameFields
               /\ t.stack[i].fn \in Functions_
               /\ t.stack[i].fn = "output" => t.stack[i].then \in Continuations
               /\ t.stack[i].fn \in {"header", "filter"} =>
                     i > 1 /\ t.stack[i - 1].fn = "output"
               /\ t.stack[i].fn = "body" => i > 1 /\ t.stack[i - 1].fn = "filter"
               /\ t.stack[i].fn \in Deciding => i = 1
    <3>1. CASE i \in 1..n
      <4>1. i > 1 => i - 1 \in 1..n
        BY <2>0, <3>1
      <4>2. t.stack[i] = s.stack[i] /\ (i > 1 => t.stack[i - 1] = s.stack[i - 1])
        BY <2>3, <3>1, <4>1
      <4> QED BY <2>1, <3>1, <4>2 DEF Nested, n
    <3>2. CASE i = n + 1
      <4>1. t.stack[i] = f /\ (n > 0 => t.stack[i - 1] = s.stack[n])
        BY <1>3, <2>1, <3>2
      <4>2. n > 0 => i > 1
        BY <1>3, <3>2
      <4> QED BY <1>5, <4>1, <4>2 DEF Fits, Top, n
    <3> QED BY <1>3, <3>1, <3>2
  <2> QED BY <1>3, <2>2 DEF Nested
<1>6. ASSUME Fits(s, f) PROVE Undecided(s) => Undecided(t)
  BY <1>3, <1>6 DEF Undecided, Fits
<1>7. Fits(s, f) => Sound(t)
  BY <1>2, <1>4, <1>5, <1>6 DEF Sound, Closed
<1>8. Answering(s) => Answering(t)
  <2>1. n > 0 => Len(t.stack) > 0 /\ t.stack[1] = s.stack[1]
    BY <1>3
  <2> QED BY <1>2, <2>1 DEF Answering
<1>9. Top(t) = f
  BY <1>3 DEF Top
<1> QED BY <1>2, <1>3, <1>4, <1>7, <1>8, <1>9 DEF Safe, t

\* A call goes on with other locals.
LEMMA ReplaceSound ==
    ASSUME NEW s, NEW k \in 1..Len(s.stack), NEW f, NEW t, Sound(s),
           DOMAIN t = StateFields, t.ctx = s.ctx, t.r = s.r,
           t.stack = [s.stack EXCEPT ![k] = f],
           DOMAIN f = FrameFields, f.fn = s.stack[k].fn, f.then = s.stack[k].then
    PROVE  /\ Sound(t) /\ Len(t.stack) = Len(s.stack) /\ Same(s, t)
           /\ Safe(s) => Safe(t)
<1> DEFINE n == Len(s.stack)
<1>1. Shaped(s) /\ Nested(s.stack)
  BY DEF Sound
<1>2. /\ t.stack \in Seq(Range(t.stack)) /\ n \in Nat /\ Len(t.stack) = n
      /\ \A i \in 1..n : t.stack[i] = IF i = k THEN f ELSE s.stack[i]
  <2> DEFINE S == Range(s.stack) \cup {f}
  <2>1. s.stack \in Seq(S) /\ f \in S
    BY <1>1, SeqMonotonic, Range(s.stack) \subseteq S DEF Shaped
  <2> HIDE DEF S
  <2> QED BY <2>1, Replaced
<1>3. Shaped(t) /\ Same(s, t)
  BY <1>1, <1>2 DEF Shaped, Same
<1>4. \A i \in 1..n : i > 1 => i - 1 \in 1..n
  BY <1>2
<1>5. \A i \in 1..n : t.stack[i].fn = s.stack[i].fn /\ t.stack[i].then = s.stack[i].then
  BY <1>2
<1>6. \A i \in 1..n : DOMAIN t.stack[i] = FrameFields
  BY <1>1, <1>2 DEF Nested
<1>7. n > 0 => 1 \in 1..n
  BY <1>2
<1> HIDE DEF n
<1>8. Nested(t.stack)
  BY <1>1, <1>2, <1>4, <1>5, <1>6 DEF Nested, n
<1>9. Undecided(s) <=> Undecided(t)
  BY <1>2, <1>5 DEF Undecided, n
<1>10. Sound(t)
  BY <1>3, <1>8, <1>9 DEF Sound, Closed
<1>11. Answering(s) => Answering(t)
  BY <1>2, <1>5, <1>7 DEF Answering, n
<1> QED BY <1>2, <1>3, <1>10, <1>11 DEF Safe, n

LEMMA SetTopSound ==
    ASSUME NEW s, NEW f, Sound(s), Len(s.stack) > 0,
           DOMAIN f = FrameFields, f.fn = Top(s).fn, f.then = Top(s).then
    PROVE  LET t == SetTop(s, f)
           IN  /\ Sound(t) /\ Len(t.stack) = Len(s.stack) /\ Same(s, t)
               /\ t.ctx = s.ctx /\ t.r = s.r
               /\ Safe(s) => Safe(t)
<1> DEFINE t == SetTop(s, f)
           k == Len(s.stack)
<1>1. k \in 1..Len(s.stack)
  BY LenProperties DEF Sound, Shaped
<1>2. /\ DOMAIN t = StateFields /\ t.ctx = s.ctx /\ t.r = s.r
      /\ t.stack = [s.stack EXCEPT ![k] = f]
  BY DEF SetTop, Sound, Shaped, StateFields
<1>3. f.fn = s.stack[k].fn /\ f.then = s.stack[k].then
  BY DEF Top
<1> HIDE DEF t, k
<1>4. /\ Sound(t) /\ Len(t.stack) = Len(s.stack) /\ Same(s, t)
      /\ Safe(s) => Safe(t)
  BY <1>1, <1>2, <1>3, ReplaceSound
<1> QED BY <1>2, <1>4 DEF t

\* sendBuffer() extends the chain of the body filter.
LEMMA AppendOutSound ==
    ASSUME NEW s, NEW buf, Safe(s)
    PROVE  Safe(AppendOut(s, buf)) /\ Same(s, AppendOut(s, buf))
<1> DEFINE t == AppendOut(s, buf)
           k == s.ctx.lastOut
           f == [s.stack[k] EXCEPT !.out = Append(@, buf)]
<1>1. /\ DOMAIN t = StateFields /\ t.ctx = s.ctx /\ t.r = s.r
      /\ t.stack = [s.stack EXCEPT ![k] = f]
  BY DEF AppendOut, Safe, Sound, Shaped, StateFields
<1>2. s.stack \in Seq(Range(s.stack)) /\ DOMAIN s.stack = 1..Len(s.stack)
  BY LenProperties DEF Safe, Sound, Shaped
<1>3. CASE k \in 1..Len(s.stack)
  <2>1. DOMAIN s.stack[k] = FrameFields
    BY <1>3 DEF Safe, Sound, Nested
  <2>2. DOMAIN f = FrameFields /\ f.fn = s.stack[k].fn /\ f.then = s.stack[k].then
    BY <2>1 DEF FrameFields
  <2> HIDE DEF t, f, k
  <2> QED BY <1>1, <1>3, <2>2, ReplaceSound DEF Safe, t
<1>4. CASE k \notin 1..Len(s.stack)
  <2>1. t.stack = s.stack
    <3> HIDE DEF t, f, k
    <3>1. s.stack \in [1..Len(s.stack) -> Range(s.stack)]
      BY <1>2 DEF Range
    <3> QED BY <1>1, <1>2, <1>4, <3>1
  <2> HIDE DEF t, f, k
  <2>2. Keeps(s, t)
    BY <1>1, <2>1 DEF Keeps, Safe, Sound, Shaped
  <2> QED BY <2>2, KeepsSound DEF t
<1> QED BY <1>3, <1>4

\* The innermost call returns.
LEMMA PopSound ==
    ASSUME NEW s, Sound(s), Len(s.stack) > 0
    PROVE  LET t == Pop(s)
           IN  /\ t.ctx = s.ctx /\ t.r = s.r /\ Sound(t) /\ Same(s, t)
               /\ Len(s.stack) \in Nat /\ Len(t.stack) = Len(s.stack) - 1
               /\ \A i \in 1..Len(t.stack) : i \in 1..Len(s.stack) /\ t.stack[i] = s.stack[i]
               /\ Len(t.stack) = 0 => Undecided(t)
               /\ Top(s) = s.stack[Len(t.stack) + 1]
               /\ Len(s.stack) > 1 => Top(t) = s.stack[Len(s.stack) - 1]
               /\ Safe(s) /\ (Top(s).fn # "output" \/ Top(s).then # "finalize") => Safe(t)
               /\ Safe(s) /\ Len(t.stack) > 0 => Safe(t)
<1> DEFINE t == Pop(s)
           n == Len(s.stack)
<1>1. Shaped(s) /\ Nested(s.stack)
  BY DEF Sound
<1>2. DOMAIN t = StateFields /\ t.ctx = s.ctx /\ t.r = s.r /\ t.stack = SubSeq(s.stack, 1, n - 1)
  BY <1>1 DEF Pop, Shaped, StateFields
<1> HIDE DEF t
<1>3. /\ t.stack \in Seq(Range(t.stack)) /\ n \in Nat /\ Len(t.stack) = n - 1
      /\ \A i \in 1..Len(t.stack) : i \in 1..n /\ t.stack[i] = s.stack[i]
  BY <1>1, <1>2, Popped DEF Shaped
<1>4. Shaped(t) /\ Same(s, t)
  BY <1>1, <1>2, <1>3 DEF Shaped, Same
<1>5. \A i \in 1..Len(t.stack) : i > 1 => i - 1 \in 1..Len(t.stack)
  BY <1>3
<1>6. n > 0 /\ n \in 1..n /\ 1 \in 1..n /\ Len(t.stack) + 1 = n
  BY <1>3
<1>7. Len(t.stack) > 0 => 1 \in 1..Len(t.stack) /\ n - 1 \in 1..Len(t.stack)
  BY <1>3
<1>8. ~(Len(t.stack) > 0) => 1 = n
  <2>1. n \in Nat /\ n > 0 /\ Len(t.stack) = n - 1
    BY <1>3, <1>6
  <2> HIDE DEF n
  <2> QED BY <2>1
<1>9. Len(t.stack) = 0 => 1..Len(t.stack) = {}
  BY <1>3
<1>10. n > 1 => Len(t.stack) > 0
  BY <1>3
<1> HIDE DEF n
<1>11. Nested(t.stack)
  BY <1>1, <1>3, <1>5 DEF Nested, n
<1>12. Undecided(s) => Undecided(t)
  BY <1>3 DEF Undecided, n
<1>13. Sound(t)
  BY <1>2, <1>4, <1>11, <1>12 DEF Sound, Closed
<1>14. Len(t.stack) = 0 => Undecided(t)
  BY <1>9 DEF Undecided
<1>15. Top(s) = s.stack[Len(t.stack) + 1]
  BY <1>6 DEF Top, n
<1>16. n > 1 => Top(t) = s.stack[n - 1]
  BY <1>3, <1>7, <1>10 DEF Top, n
<1>17. Safe(s) /\ Len(t.stack) > 0 => Safe(t)
  BY <1>2, <1>3, <1>7, <1>13 DEF Safe, Answering
<1>18. Safe(s) /\ (Top(s).fn # "output" \/ Top(s).then # "finalize") => Safe(t)
  <2> SUFFICES ASSUME Safe(s), Top(s).fn # "output" \/ Top(s).then # "finalize",
                      ~(Len(t.stack) > 0)
               PROVE  Safe(t)
    BY <1>17
  <2>1. Top(s) = s.stack[1]
    BY <1>8 DEF Top, n
  <2>2. ~(s.r.failed /\ s.r.weh = "access")
    BY <2>1 DEF Safe, Answering
  <2> QED BY <1>2, <1>13, <2>2 DEF Safe, Answering
<1> QED BY ONLY <1>2, <1>3, <1>4, <1>13, <1>14, <1>15, <1>16, <1>17, <1>18 DEF t, n

-----------------------------------------------------------------------------
(* The parts of nginx.                                                     *)

\* t has let through what s has, no more, and waits for what s does or not at all.
Goes(s, t) ==
    /\ t.r.granted = s.r.granted /\ t.r.failed = s.r.failed
    /\ t.ctx.events \in {s.ctx.events, {}}

LEMMA FrameProperties ==
    /\ \A fn : DOMAIN Frame(fn) = FrameFields /\ Frame(fn).fn = fn
    /\ \A head, in, then :
          LET f == [Frame("output") EXCEPT !.head = head, !.then = then, !.in = in]
          IN  DOMAIN f = FrameFields /\ f.fn = "output" /\ f.then = then
    /\ \A head, in, then :
          LET f == [Frame("output") EXCEPT !.head = head, !.in = in, !.then = then]
          IN  DOMAIN f = FrameFields /\ f.fn = "output" /\ f.then = then
    /\ \A fn, id : LET f == [Frame(fn) EXCEPT !.id = id]
                   IN  DOMAIN f = FrameFields /\ f.fn = fn
    /\ \A fn, pend : LET f == [Frame(fn) EXCEPT !.pend = pend]
                     IN  DOMAIN f = FrameFields /\ f.fn = fn
    /\ \A fn, in : LET f == [Frame(fn) EXCEPT !.in = in]
                   IN  DOMAIN f = FrameFields /\ f.fn = fn
    /\ \A fn, then : LET f == [Frame(fn) EXCEPT !.then = then]
                     IN  DOMAIN f = FrameFields /\ f.fn = fn /\ f.then = then
BY DEF Frame, FrameFields

LEMMA OutputFits ==
    ASSUME NEW s, NEW f, DOMAIN f = FrameFields, f.fn = "output", f.then \in Continuations
    PROVE  Fits(s, f)
BY DEF Fits, Functions_, Deciding

LEMMA FreshCtxProperties ==
    /\ DOMAIN FreshCtx = CtxFields /\ FreshCtx.events = {} /\ FreshCtx.redirect = "none"
    /\ FreshCtx.requestBody \in Kept
BY DEF FreshCtx, CtxFields, Kept

LEMMA CleanupCtxSound ==
    ASSUME NEW s, Sound(s)
    PROVE  Keeps(s, CleanupCtx(s)) /\ Goes(s, CleanupCtx(s))
<1> DEFINE c == [FreshCtx EXCEPT !.rejected = s.ctx.rejected]
           t == [s EXCEPT !.ctx = c, !.r.freed = TRUE, !.r.count = 0]
<1>1. DOMAIN c = CtxFields /\ c.events = {} /\ c.requestBody \in Kept
  BY FreshCtxProperties DEF CtxFields
<1>2. t = CleanupCtx(s)
  BY DEF CleanupCtx
<1> HIDE DEF c
<1>3. Keeps(s, t) /\ Goes(s, t)
  BY <1>1 DEF Keeps, Goes, Sound, Shaped, StateFields, RequestFields
<1> HIDE DEF t
<1> QED BY <1>2, <1>3

LEMMA FinalizeConnectionSound ==
    ASSUME NEW s, Sound(s)
    PROVE  Keeps(s, FinalizeConnection(s)) /\ Goes(s, FinalizeConnection(s))
<1>1. CASE s.r.count = 1
  BY <1>1, CleanupCtxSound DEF FinalizeConnection
<1>2. CASE s.r.count # 1
  <2> DEFINE t == [s EXCEPT !.r.count = @ - 1]
  <2>1. Keeps(s, t) /\ Goes(s, t)
    BY DEF Keeps, Goes, Sound, Shaped, StateFields, RequestFields
  <2>2. FinalizeConnection(s) = t
    BY <1>2 DEF FinalizeConnection
  <2> HIDE DEF t
  <2> QED BY <2>1, <2>2
<1> QED BY <1>1, <1>2

LEMMA TerminateSound ==
    ASSUME NEW s, Sound(s)
    PROVE  /\ Keeps(s, Terminate(s)) /\ Goes(s, Terminate(s))
           /\ Terminate(s).r.weh = "terminate"
BY DEF Terminate, Keeps, Goes, Sound, Shaped, StateFields, RequestFields

LEMMA InitVmSound ==
    ASSUME NEW s, Sound(s)
    PROVE  /\ Keeps(s, InitVm(s)) /\ Goes(s, InitVm(s))
           /\ InitVm(s).r = s.r
BY DEF InitVm, Keeps, Goes, Sound, Shaped, StateFields, CtxFields

LEMMA StaticContentSound ==
    ASSUME NEW s, Sound(s)
    PROVE  LET t == StaticContent(s)
           IN  Safe(t) /\ Goes(s, t) /\ t.r.body = s.r.body
<1> DEFINE f == [Frame("output") EXCEPT !.head = TRUE, !.then = "finalize",
                   !.in = <<Buf(1, FALSE, FALSE), Buf(1, TRUE, FALSE)>>]
           u == [s EXCEPT !.r.phase = "static", !.r.weh = "empty"]
           t == StaticContent(s)
<1>1. t = Push(u, f)
  BY DEF StaticContent
<1>2. DOMAIN f = FrameFields /\ f.fn = "output" /\ f.then = "finalize"
  BY FrameProperties
<1>3. Keeps(s, u) /\ Goes(s, u) /\ u.r.weh = "empty"
  BY DEF Keeps, Goes, Sound, Shaped, StateFields, RequestFields
<1> HIDE DEF f, u, t
<1>4. Sound(u) /\ Fits(u, f)
  BY <1>2, <1>3, KeepsSound, OutputFits DEF Continuations
<1>5. Sound(t) /\ t.ctx = u.ctx /\ t.r = u.r
  BY <1>1, <1>4, PushSound
<1>6. Answering(t)
  BY <1>3, <1>5 DEF Answering
<1> QED BY <1>3, <1>5, <1>6 DEF Safe, Goes, Keeps, t

LEMMA InternalRedirectSound ==
    ASSUME NEW s, Sound(s)
    PROVE  LET t == InternalRedirect(s)
           IN  /\ Safe(t) /\ t.r.granted = s.r.granted /\ t.r.failed = s.r.failed
               /\ t.ctx.events = {} /\ t.r.body = s.r.body
<1> DEFINE u == [s EXCEPT !.ctx = FreshCtx, !.r.orphans = @ \cup s.ctx.events]
<1>1. Keeps(s, u) /\ u.ctx.events = {}
  BY FreshCtxProperties DEF Keeps, Sound, Shaped, StateFields, RequestFields
<1>2. InternalRedirect(s) = StaticContent(u)
  BY DEF InternalRedirect
<1> HIDE DEF u
<1>3. Sound(u)
  BY <1>1, KeepsSound
<1>4. Safe(StaticContent(u)) /\ Goes(u, StaticContent(u)) /\ StaticContent(u).r.body = u.r.body
  BY <1>3, StaticContentSound
<1> QED BY <1>1, <1>2, <1>4 DEF Goes, Keeps

LEMMA SpecialResponseSound ==
    ASSUME NEW s, Sound(s), NEW code
    PROVE  LET t == SpecialResponse(s, code)
           IN  /\ Sound(t) /\ Goes(s, t)
               /\ Safe(s) \/ Len(s.stack) = 0 => Safe(t)
<1> DEFINE t == SpecialResponse(s, code)
<1>1. CASE s.r.loc.errorPage /\ ~s.r.headerSent
  <2> DEFINE u == [s EXCEPT !.r.loc.errorPage = FALSE]
  <2>1. Keeps(s, u) /\ Goes(s, u)
    BY DEF Keeps, Goes, Sound, Shaped, StateFields, RequestFields, LocationFields
  <2>2. t = InternalRedirect(u)
    BY <1>1 DEF SpecialResponse
  <2> HIDE DEF u, t
  <2>3. Sound(u)
    BY <2>1, KeepsSound
  <2>4. Safe(t) /\ Goes(u, t)
    BY <2>2, <2>3, InternalRedirectSound DEF Goes
  <2> QED BY <2>1, <2>4 DEF Goes, Safe, t
<1>2. CASE ~(s.r.loc.errorPage /\ ~s.r.headerSent)
  <2> DEFINE f == [Frame("output") EXCEPT !.head = TRUE, !.then = "finalize",
                     !.in = <<Buf(1, TRUE, FALSE)>>]
  <2>1. t = Push(s, f)
    BY <1>2 DEF SpecialResponse
  <2>2. DOMAIN f = FrameFields /\ f.fn = "output" /\ f.then = "finalize"
    BY FrameProperties
  <2> HIDE DEF f, t
  <2>3. Fits(s, f)
    BY <2>2, OutputFits DEF Continuations
  <2>4. /\ Sound(t) /\ t.ctx = s.ctx /\ t.r = s.r
        /\ Safe(s) => Safe(t)
        /\ Len(s.stack) \in Nat /\ Len(t.stack) = Len(s.stack) + 1
        /\ t.stack[Len(s.stack) + 1] = f
    BY <2>1, <2>3, PushSound
  <2>5. Len(s.stack) = 0 => Answering(t)
    BY <2>2, <2>4 DEF Answering
  <2> QED BY <2>4, <2>5 DEF Goes, Safe, t
<1> QED BY <1>1, <1>2

LEMMA FinalizeRequestSound ==
    ASSUME NEW s, Sound(s), NEW rc
    PROVE  LET t == FinalizeRequest(s, rc)
           IN  /\ Sound(t) /\ Goes(s, t)
               /\ Safe(s) => Safe(t)
               /\ Len(s.stack) = 0 /\ rc # "DONE" => Safe(t)
               /\ rc \in {"OK", "AGAIN", "ERROR"} => Safe(t)
<1> DEFINE t == FinalizeRequest(s, rc)
<1>1. CASE rc = "DONE"
  <2>1. t = FinalizeConnection(s)
    BY <1>1 DEF FinalizeRequest
  <2>2. Keeps(s, t) /\ Goes(s, t)
    BY <2>1, FinalizeConnectionSound
  <2> HIDE DEF t
  <2> QED BY <1>1, <2>2, KeepsSound DEF t
<1>2. CASE rc = "DECLINED"
  <2>1. t = StaticContent(s)
    BY <1>2 DEF FinalizeRequest
  <2>2. Safe(t) /\ Goes(s, t)
    BY <2>1, StaticContentSound
  <2> HIDE DEF t
  <2> QED BY <2>2 DEF t, Safe
<1>3. CASE rc \notin {"DONE", "DECLINED"} /\ (rc = "ERROR" \/ s.r.error)
  <2>1. t = Terminate(s)
    BY <1>3 DEF FinalizeRequest
  <2>2. Keeps(s, t) /\ Goes(s, t) /\ t.r.weh = "terminate"
    BY <2>1, TerminateSound
  <2> HIDE DEF t
  <2>3. Sound(t) /\ Answering(t)
    BY <2>2, KeepsSound DEF Answering
  <2> QED BY <2>2, <2>3 DEF t, Safe
<1>4. CASE rc \notin {"DONE", "DECLINED"} /\ ~(rc = "ERROR" \/ s.r.error) /\ rc \in Codes
  <2>1. t = SpecialResponse(s, rc)
    BY <1>4 DEF FinalizeRequest
  <2>2. Sound(t) /\ Goes(s, t) /\ (Safe(s) \/ Len(s.stack) = 0 => Safe(t))
    BY <2>1, SpecialResponseSound
  <2>3. rc \notin {"OK", "AGAIN", "ERROR"}
    BY <1>4 DEF Codes
  <2> HIDE DEF t
  <2> QED BY <2>2, <2>3 DEF t
<1>5. CASE rc \notin {"DONE", "DECLINED"} /\ ~(rc = "ERROR" \/ s.r.error) /\ rc \notin Codes
  <2>1. CASE Postponed(s)
    <3> DEFINE u == [s EXCEPT !.r.weh = "writer"]
    <3>1. t = u
      BY <1>5, <2>1 DEF FinalizeRequest
    <3>2. Keeps(s, u) /\ Goes(s, u) /\ u.r.weh = "writer"
      BY DEF Keeps, Goes, Sound, Shaped, StateFields, RequestFields
    <3> HIDE DEF t, u
    <3>3. Sound(u) /\ Answering(u)
      BY <3>2, KeepsSound DEF Answering
    <3> QED BY <3>1, <3>2, <3>3 DEF t, Safe
  <2>2. CASE ~Postponed(s)
    <3> DEFINE u == [s EXCEPT !.r.weh = "empty"]
    <3>1. t = FinalizeConnection(u)
      BY <1>5, <2>2 DEF FinalizeRequest
    <3>2. Keeps(s, u) /\ Goes(s, u) /\ u.r.weh = "empty"
      BY DEF Keeps, Goes, Sound, Shaped, StateFields, RequestFields
    <3> HIDE DEF t, u
    <3>3. Sound(u)
      BY <3>2, KeepsSound
    <3>4. Keeps(u, t) /\ Goes(u, t)
      BY <3>1, <3>3, FinalizeConnectionSound
    <3>5. Sound(t) /\ t.r.weh # "access"
      BY <3>2, <3>3, <3>4, KeepsSound DEF Keeps
    <3>6. Goes(s, t)
      BY <3>2, <3>4 DEF Goes
    <3> QED BY <3>5, <3>6 DEF t, Safe, Answering
  <2> QED BY <2>1, <2>2
<1> QED BY <1>1, <1>2, <1>3, <1>4, <1>5

-----------------------------------------------------------------------------
(* js_content.                                                             *)

LEMMA JsInternalRedirectSound ==
    ASSUME NEW s, Sound(s), Safe(s) \/ Len(s.stack) = 0
    PROVE  LET t == JsInternalRedirect(s)
           IN  Safe(t) /\ Goes(s, t)
<1>1. CASE s.r.headerSent
  <2>1. JsInternalRedirect(s) = FinalizeRequest(s, "OK")
    BY <1>1 DEF JsInternalRedirect
  <2> QED BY <2>1, FinalizeRequestSound
<1>2. CASE ~s.r.headerSent /\ s.ctx.redirect = "unsafe"
  <2>1. JsInternalRedirect(s) = FinalizeRequest(s, "500")
    BY <1>2 DEF JsInternalRedirect
  <2> QED BY <2>1, FinalizeRequestSound
<1>3. CASE ~s.r.headerSent /\ s.ctx.redirect # "unsafe"
  <2>1. JsInternalRedirect(s) = InternalRedirect(s)
    BY <1>3 DEF JsInternalRedirect
  <2> QED BY <2>1, InternalRedirectSound DEF Goes
<1> QED BY <1>1, <1>2, <1>3

LEMMA ContentFinalizeSound ==
    ASSUME NEW s, Safe(s)
    PROVE  LET t == ContentFinalize(s)
           IN  Safe(t) /\ Goes(s, t)
BY JsInternalRedirectSound, FinalizeRequestSound DEF ContentFinalize, Safe

LEMMA ContentEventHandlerSound ==
    ASSUME NEW s, Safe(s)
    PROVE  LET t == ContentEventHandler(s)
           IN  Safe(t) /\ Goes(s, t)
<1> DEFINE t == ContentEventHandler(s)
<1>1. CASE ~s.r.loc.vm
  BY <1>1, FinalizeRequestSound DEF ContentEventHandler, Safe
<1>2. CASE s.r.loc.vm
  <2> DEFINE v == InitVm(s)
             u == [v EXCEPT !.ctx.status = "500"]
  <2>1. t = Push(u, Frame("content"))
    BY <1>2 DEF ContentEventHandler
  <2>2. Keeps(s, v) /\ Goes(s, v) /\ v.r = s.r
    BY InitVmSound DEF Safe
  <2> HIDE DEF v
  <2>3. Safe(v)
    BY <2>2, KeepsSound
  <2>4. Keeps(v, u) /\ Goes(v, u)
    BY <2>3 DEF Keeps, Goes, Safe, Sound, Shaped, StateFields, CtxFields
  <2> HIDE DEF u, t
  <2>5. Safe(u)
    BY <2>3, <2>4, KeepsSound
  <2>6. Fits(u, Frame("content"))
    BY FrameProperties DEF Fits, Functions_, ScriptFns, Deciding
  <2>7. Safe(t) /\ t.ctx = u.ctx /\ t.r = u.r
    BY <2>1, <2>5, <2>6, PushSound DEF Safe
  <2> QED BY <2>2, <2>4, <2>7 DEF Goes, t
<1> QED BY <1>1, <1>2

LEMMA ContentReturnedSound ==
    ASSUME NEW s, Safe(s), NEW threw
    PROVE  LET t == ContentReturned(s, threw)
           IN  Safe(t) /\ Goes(s, t)
<1> DEFINE t == ContentReturned(s, threw)
<1>1. CASE threw
  BY <1>1, FinalizeRequestSound DEF ContentReturned, Safe
<1>2. CASE ~threw /\ s.ctx.events # {}
  <2> DEFINE u == [s EXCEPT !.r.weh = "content"]
  <2>1. t = u
    BY <1>2 DEF ContentReturned
  <2>2. Keeps(s, u) /\ Goes(s, u)
    BY DEF Keeps, Goes, Safe, Sound, Shaped, StateFields, RequestFields
  <2> HIDE DEF u, t
  <2> QED BY <2>1, <2>2, KeepsSound DEF t
<1>3. CASE ~threw /\ ~(s.ctx.events # {})
  <2>1. t = ContentFinalize(s)
    BY <1>3 DEF ContentReturned
  <2> QED BY <2>1, ContentFinalizeSound
<1> QED BY <1>1, <1>2, <1>3

LEMMA ContentWriteEventHandlerSound ==
    ASSUME NEW s, Safe(s)
    PROVE  LET t == ContentWriteEventHandler(s)
           IN  Safe(t) /\ Goes(s, t)
BY ContentFinalizeSound, FinalizeRequestSound DEF ContentWriteEventHandler, Safe, Goes

-----------------------------------------------------------------------------
(* js_access.                                                              *)

\* No call is in progress, and the function may run or let the request through.
Bare(s) ==
    /\ Shaped(s) /\ Len(s.stack) = 0
    /\ ~s.r.failed /\ s.r.body # "reading" /\ s.r.phase # "rewrite"

\* If the request passes, everything is over and nothing has been answered.
Decides(s, t) ==
    t.r.granted /\ ~s.r.granted =>
       /\ t.ctx.events = {} /\ ~t.r.failed
       /\ ~s.r.headerSent /\ s.ctx.redirect = "none"
       /\ s.ctx.status \in {"OK", "DECLINED"}

LEMMA BareSafe ==
    ASSUME NEW s, Bare(s)
    PROVE  Safe(s)
<1>1. 1..Len(s.stack) = {}
  BY DEF Bare
<1> QED BY <1>1 DEF Safe, Sound, Bare, Nested, Closed, Answering, Undecided

LEMMA GoesDecides ==
    ASSUME NEW s, NEW t, Goes(s, t)
    PROVE  Decides(s, t)
BY DEF Goes, Decides

LEMMA ContentHandlerSound ==
    ASSUME NEW s, Bare(s), NEW read
    PROVE  LET t == ContentHandler(s, read)
           IN  Safe(t) /\ Goes(s, t)
<1> DEFINE t == ContentHandler(s, read)
           b == [s EXCEPT !.r.count = @ + 1, !.r.body = "read"]
           c == Push(b, Frame("phase"))
           d == [c EXCEPT !.r.weh = "empty"]
           e == [s EXCEPT !.r.weh = "empty"]
           g == [e EXCEPT !.r.body = "reading"]
<1>1. CASE s.r.body = "read" \/ read = "sync"
  <2>1. t = ContentEventHandler(d)
    BY <1>1 DEF ContentHandler
  <2>2. Bare(b) /\ Goes(s, b)
    BY DEF Bare, Goes, Shaped, StateFields, RequestFields
  <2> HIDE DEF b
  <2>3. Fits(b, Frame("phase"))
    BY FrameProperties DEF Fits, Functions_, ScriptFns, Deciding
  <2>4. Safe(c) /\ c.ctx = b.ctx /\ c.r = b.r
    BY <2>2, <2>3, BareSafe, PushSound DEF Safe
  <2> HIDE DEF c
  <2>5. Keeps(c, d) /\ Goes(c, d)
    BY <2>4 DEF Keeps, Goes, Safe, Sound, Shaped, StateFields, RequestFields
  <2> HIDE DEF d, t
  <2>6. Safe(d)
    BY <2>4, <2>5, KeepsSound
  <2>7. Safe(t) /\ Goes(d, t)
    BY <2>1, <2>6, ContentEventHandlerSound
  <2> QED BY <2>2, <2>4, <2>5, <2>7 DEF Goes, t
<1>2. Bare(e) /\ Goes(s, e)
  BY DEF Bare, Goes, Shaped, StateFields, RequestFields
<1>3. CASE ~(s.r.body = "read" \/ read = "sync") /\ read = "error"
  <2>1. t = FinalizeRequest(e, "413")
    BY <1>3 DEF ContentHandler
  <2> HIDE DEF e, t
  <2>2. Safe(t) /\ Goes(e, t)
    BY <1>2, <2>1, BareSafe, FinalizeRequestSound DEF Safe
  <2> QED BY <1>2, <2>2 DEF Goes, t
<1>4. CASE ~(s.r.body = "read" \/ read = "sync") /\ read # "error"
  <2>1. t = g
    BY <1>4 DEF ContentHandler
  <2>2. Goes(s, g) /\ Shaped(g) /\ Len(g.stack) = 0 /\ g.r.weh = "empty" /\ ~g.r.failed
        /\ g.r.phase # "rewrite"
    BY DEF Bare, Goes, Shaped, StateFields, RequestFields
  <2> HIDE DEF g, t
  <2>3. 1..Len(g.stack) = {}
    BY <2>2
  <2>4. Safe(g)
    BY <2>2, <2>3 DEF Safe, Sound, Nested, Closed, Answering, Undecided
  <2> QED BY <2>1, <2>2, <2>4 DEF t
<1> QED BY <1>1, <1>3, <1>4

\* The function of the access phase, or its wait for the body, is the first call.
LEMMA PushDeciding ==
    ASSUME NEW s, Bare(s), NEW f, DOMAIN f = FrameFields, f.fn \in Deciding
    PROVE  Safe(Push(s, f)) /\ Goes(s, Push(s, f))
<1> DEFINE t == Push(s, f)
<1>1. /\ t.ctx = s.ctx /\ t.r = s.r /\ Shaped(t)
      /\ Len(t.stack) = Len(s.stack) + 1 /\ t.stack[Len(s.stack) + 1] = f
  BY BareSafe, PushSound DEF Safe
<1> HIDE DEF t
<1>2. Len(t.stack) = 1 /\ t.stack[1] = f
  BY <1>1 DEF Bare
<1>3. Nested(t.stack)
  BY <1>2 DEF Nested, Deciding, Functions_, ScriptFns
<1>4. Closed(t)
  BY <1>1 DEF Closed, Bare
<1>5. Answering(t)
  BY <1>1 DEF Answering, Bare
<1> QED BY <1>1, <1>3, <1>4, <1>5 DEF Safe, Sound, Goes, t

LEMMA ContentPhaseSound ==
    ASSUME NEW s, Bare(s), NEW read
    PROVE  LET t == ContentPhase(s, read)
           IN  Safe(t) /\ ~t.r.failed /\ t.ctx.events \in {s.ctx.events, {}}
<1> DEFINE t == ContentPhase(s, read)
           u == [s EXCEPT !.r.phase = "content", !.r.granted = TRUE]
<1>1. Bare(u) /\ u.ctx = s.ctx
  BY DEF Bare, Shaped, StateFields, RequestFields
<1>2. t = IF s.r.loc.content THEN ContentHandler(u, read) ELSE StaticContent(u)
  BY DEF ContentPhase, Bare, Shaped, StateFields, RequestFields
<1> HIDE DEF t, u
<1>3. Safe(t) /\ Goes(u, t)
  BY <1>1, <1>2, ContentHandlerSound, StaticContentSound, BareSafe DEF Safe
<1> QED BY <1>1, <1>3 DEF Goes, Bare, t

LEMMA AccessPhaseSound ==
    ASSUME NEW s, Bare(s), s.ctx.events = {}, ~s.r.headerSent, s.ctx.redirect = "none",
           NEW read
    PROVE  LET t == AccessPhase(s, s.ctx.status, read)
           IN  Safe(t) /\ Decides(s, t)
<1> DEFINE rc == s.ctx.status
           t == AccessPhase(s, rc, read)
<1>1. CASE rc \in {"OK", "DECLINED"}
  <2>1. t = ContentPhase(s, read)
    BY <1>1 DEF AccessPhase
  <2>2. Safe(t) /\ ~t.r.failed /\ t.ctx.events = {}
    BY <2>1, ContentPhaseSound
  <2> HIDE DEF t
  <2> QED BY <1>1, <2>2 DEF Decides, t
<1>2. CASE rc \in {"AGAIN", "DONE"}
  <2>1. t = s
    BY <1>2 DEF AccessPhase
  <2> QED BY <2>1, BareSafe DEF Decides
<1>3. CASE rc \notin {"OK", "DECLINED", "AGAIN", "DONE"}
  <2>1. t = FinalizeRequest(s, rc)
    BY <1>3 DEF AccessPhase
  <2>2. Safe(t) /\ Goes(s, t)
    BY <2>1, BareSafe, FinalizeRequestSound DEF Safe
  <2> HIDE DEF t
  <2> QED BY <2>2, GoesDecides DEF t
<1> QED BY <1>1, <1>2, <1>3

LEMMA AccessFinalizeSound ==
    ASSUME NEW s, Bare(s), s.ctx.events = {}, NEW read
    PROVE  LET t == AccessFinalize(s, read)
           IN  Safe(t) /\ Decides(s, t)
<1> DEFINE t == AccessFinalize(s, read)
<1>1. CASE s.ctx.redirect # "none"
  <2>1. t = JsInternalRedirect(s)
    BY <1>1 DEF AccessFinalize
  <2>2. Safe(t) /\ Goes(s, t)
    BY <2>1, BareSafe, JsInternalRedirectSound DEF Safe
  <2> HIDE DEF t
  <2> QED BY <2>2, GoesDecides DEF t
<1>2. CASE s.ctx.redirect = "none" /\ s.r.headerSent
  <2>1. t = FinalizeRequest(s, "OK")
    BY <1>2 DEF AccessFinalize
  <2>2. Safe(t) /\ Goes(s, t)
    BY <2>1, BareSafe, FinalizeRequestSound DEF Safe
  <2> HIDE DEF t
  <2> QED BY <2>2, GoesDecides DEF t
<1>3. CASE s.ctx.redirect = "none" /\ ~s.r.headerSent
  <2>1. t = AccessPhase(s, s.ctx.status, read)
    BY <1>3 DEF AccessFinalize
  <2> QED BY <1>3, <2>1, AccessPhaseSound
<1> QED BY <1>1, <1>2, <1>3

LEMMA AccessHandlerSound ==
    ASSUME NEW s, Bare(s), NEW read
    PROVE  LET t == AccessHandler(s, read)
           IN  Safe(t) /\ Decides(s, t)
<1> DEFINE t == AccessHandler(s, read)
           u == [s EXCEPT !.ctx.inProgress = FALSE]
<1>1. /\ Bare(u) /\ Goes(s, u) /\ u.r = s.r
      /\ u.ctx.redirect = s.ctx.redirect /\ u.ctx.status = s.ctx.status
      /\ u.ctx.events = s.ctx.events
  BY DEF Bare, Goes, Shaped, StateFields, CtxFields
<1>2. CASE ~s.r.loc.vm
  <2>1. t = FinalizeRequest(s, "ERROR")
    BY <1>2 DEF AccessHandler
  <2>2. Safe(t) /\ Goes(s, t)
    BY <2>1, BareSafe, FinalizeRequestSound DEF Safe
  <2> HIDE DEF t
  <2> QED BY <2>2, GoesDecides DEF t
<1>3. CASE s.r.loc.vm /\ s.ctx.inProgress /\ Pending(s)
  <2>1. t = s
    BY <1>3 DEF AccessHandler
  <2> QED BY <2>1, BareSafe DEF Decides
<1>4. CASE s.r.loc.vm /\ s.ctx.inProgress /\ ~Pending(s) /\ s.ctx.rejected
  <2>1. t = FinalizeRequest(u, "500")
    BY <1>4 DEF AccessHandler
  <2> HIDE DEF t, u
  <2>2. Safe(t) /\ Goes(u, t)
    BY <1>1, <2>1, BareSafe, FinalizeRequestSound DEF Safe
  <2> QED BY <1>1, <2>2 DEF Goes, Decides, t
<1>5. CASE s.r.loc.vm /\ s.ctx.inProgress /\ ~Pending(s) /\ ~s.ctx.rejected
  <2>1. t = AccessFinalize(u, read)
    BY <1>5 DEF AccessHandler
  <2> HIDE DEF t, u
  <2>2. u.ctx.events = {}
    BY <1>1, <1>5 DEF Pending
  <2>3. Safe(t) /\ Decides(u, t)
    BY <1>1, <2>1, <2>2, AccessFinalizeSound
  <2> QED BY <1>1, <2>3 DEF Decides, t
<1>6. CASE s.r.loc.vm /\ ~s.ctx.inProgress
  <2> DEFINE v == InitVm(s)
             w == [v EXCEPT !.ctx.status = "OK"]
  <2>1. t = Push(w, Frame("access"))
    BY <1>6 DEF AccessHandler
  <2>2. Keeps(s, v) /\ Goes(s, v) /\ v.r = s.r
    BY InitVmSound, BareSafe DEF Safe
  <2> HIDE DEF v
  <2>3. Bare(v)
    BY <2>2 DEF Keeps, Bare, Shaped
  <2>4. Bare(w) /\ Goes(v, w)
    BY <2>3 DEF Bare, Goes, Shaped, StateFields, CtxFields
  <2> HIDE DEF w, t
  <2>5. Safe(t) /\ Goes(w, t)
    BY <2>1, <2>4, PushDeciding, FrameProperties DEF Deciding
  <2>6. Goes(s, t)
    BY <2>2, <2>4, <2>5 DEF Goes
  <2> QED BY <2>5, <2>6, GoesDecides DEF t
<1> QED BY <1>2, <1>3, <1>4, <1>5, <1>6

LEMMA AccessDoneSound ==
    ASSUME NEW s, Bare(s), NEW read
    PROVE  LET t == AccessDone(s, read)
           IN  Safe(t) /\ Decides(s, t)
<1> DEFINE t == AccessDone(s, read)
           u == [s EXCEPT !.ctx.inProgress = TRUE, !.r.weh = "access"]
<1>1. CASE Pending(s)
  <2>1. t = u
    BY <1>1 DEF AccessDone
  <2>2. Bare(u) /\ Goes(s, u)
    BY DEF Bare, Goes, Shaped, StateFields, CtxFields, RequestFields
  <2> HIDE DEF t, u
  <2> QED BY <2>1, <2>2, BareSafe, GoesDecides DEF t
<1>2. CASE ~Pending(s)
  <2>1. t = AccessFinalize(s, read)
    BY <1>2 DEF AccessDone
  <2> QED BY <1>2, <2>1, AccessFinalizeSound DEF Pending
<1> QED BY <1>1, <1>2

LEMMA AccessWriteEventHandlerSound ==
    ASSUME NEW s, Bare(s), NEW read
    PROVE  LET t == AccessWriteEventHandler(s, read)
           IN  Safe(t) /\ Decides(s, t)
<1> DEFINE t == AccessWriteEventHandler(s, read)
<1>1. CASE Pending(s) \/ (s.ctx.redirect = "none" /\ ~s.r.headerSent /\ s.ctx.status = "DONE")
  <2>1. t = s
    BY <1>1 DEF AccessWriteEventHandler
  <2> QED BY <2>1, BareSafe DEF Decides
<1>2. CASE ~Pending(s) /\ s.ctx.redirect # "none"
  <2>1. t = JsInternalRedirect(s)
    BY <1>2 DEF AccessWriteEventHandler
  <2> HIDE DEF t
  <2>2. Safe(t) /\ Goes(s, t)
    BY <2>1, BareSafe, JsInternalRedirectSound DEF Safe
  <2> QED BY <2>2, GoesDecides DEF t
<1>3. CASE ~Pending(s) /\ s.ctx.redirect = "none" /\ s.r.headerSent
  <2>1. t = FinalizeRequest(s, "OK")
    BY <1>3 DEF AccessWriteEventHandler
  <2> HIDE DEF t
  <2>2. Safe(t) /\ Goes(s, t)
    BY <2>1, BareSafe, FinalizeRequestSound DEF Safe
  <2> QED BY <2>2, GoesDecides DEF t
<1>4. CASE /\ ~Pending(s) /\ s.ctx.redirect = "none" /\ ~s.r.headerSent
           /\ s.ctx.status # "DONE"
  <2>1. t = AccessHandler(s, read)
    BY <1>4 DEF AccessWriteEventHandler
  <2> QED BY <2>1, AccessHandlerSound
<1> QED BY <1>1, <1>2, <1>3, <1>4

-----------------------------------------------------------------------------
(* The body a js_access function reads.                                    *)

\* What the decision looks at is the same.
Alike(s, t) ==
    /\ t.r.granted = s.r.granted /\ t.r.headerSent = s.r.headerSent
    /\ t.ctx.redirect = s.ctx.redirect /\ t.ctx.status = s.ctx.status

LEMMA AlikeDecides ==
    ASSUME NEW s, NEW u, NEW t, Alike(s, u), Decides(u, t)
    PROVE  Decides(s, t)
BY DEF Alike, Decides

LEMMA DelEventBare ==
    ASSUME NEW s, NEW id
    PROVE  LET t == DelEvent(s, id)
           IN  /\ Bare(s) => Bare(t) /\ Alike(s, t)
               /\ Sound(s) => Keeps(s, t)
BY DEF DelEvent, Bare, Alike, Keeps, Sound, Shaped, StateFields, CtxFields

LEMMA BodyReadAbortBare ==
    ASSUME NEW s, Bare(s)
    PROVE  Bare(BodyReadAbort(s)) /\ Alike(s, BodyReadAbort(s))
<1> DEFINE u == DelEvent(s, s.ctx.readEvent)
           t == [u EXCEPT !.ctx.readEvent = 0, !.ctx.read = "IDLE"]
<1>1. Bare(u) /\ Alike(s, u)
  BY DelEventBare
<1>2. BodyReadAbort(s) = t
  BY DEF BodyReadAbort
<1> HIDE DEF u
<1>3. Bare(t) /\ Alike(u, t)
  BY <1>1 DEF Bare, Alike, Shaped, StateFields, CtxFields
<1> HIDE DEF t
<1> QED BY <1>1, <1>2, <1>3 DEF Alike

LEMMA EventFinalizeSound ==
    ASSUME NEW s, Safe(s), NEW rc
    PROVE  LET t == EventFinalize(s, rc)
           IN  Safe(t) /\ Goes(s, t)
<1> DEFINE t == EventFinalize(s, rc)
           u == [s EXCEPT !.r.posted = @ + 1, !.r.run = TRUE]
<1>1. CASE rc = "ERROR"
  BY <1>1, FinalizeRequestSound DEF EventFinalize, Safe
<1>2. CASE rc # "ERROR"
  <2>1. t = u
    BY <1>2 DEF EventFinalize
  <2>2. Keeps(s, u) /\ Goes(s, u)
    BY DEF Keeps, Goes, Safe, Sound, Shaped, StateFields, RequestFields
  <2> HIDE DEF t, u
  <2> QED BY <2>1, <2>2, KeepsSound DEF t
<1> QED BY <1>1, <1>2

LEMMA CollectBodyBare ==
    ASSUME NEW s
    PROVE  /\ Bare(s) => Bare(CollectBody(s)) /\ Alike(s, CollectBody(s))
           /\ Sound(s) => Keeps(s, CollectBody(s)) /\ Goes(s, CollectBody(s))
BY DEF CollectBody, Bare, Alike, Keeps, Goes, Sound, Shaped, StateFields, CtxFields

LEMMA AccessBodyDoneSound ==
    ASSUME NEW s, Bare(s), NEW collect
    PROVE  LET t == AccessBodyDone(s, collect)
           IN  /\ Safe(t) /\ t.r.granted = s.r.granted
               /\ collect = "error" => Bare(t) /\ Alike(s, t)
<1> DEFINE t == AccessBodyDone(s, collect)
<1>1. CASE collect = "error"
  <2> DEFINE u == BodyReadAbort(s)
  <2>1. t = Terminate(u)
    BY <1>1 DEF AccessBodyDone, EventFinalize, FinalizeRequest
  <2>2. Bare(u) /\ Alike(s, u)
    BY BodyReadAbortBare
  <2> HIDE DEF u
  <2>3. Bare(Terminate(u)) /\ Alike(u, Terminate(u))
    BY <2>2 DEF Terminate, Bare, Alike, Shaped, StateFields, RequestFields
  <2> HIDE DEF t
  <2> QED BY <2>1, <2>2, <2>3, BareSafe DEF Alike, t
<1>2. CASE collect # "error"
  <2> DEFINE u == CollectBody(s)
             f == [Frame("resolve") EXCEPT !.id = s.ctx.readEvent]
  <2>1. t = Push(u, f)
    BY <1>2 DEF AccessBodyDone
  <2>2. Bare(u) /\ Alike(s, u)
    BY CollectBodyBare
  <2>3. DOMAIN f = FrameFields /\ f.fn = "resolve"
    BY FrameProperties
  <2> HIDE DEF u, f, t
  <2>4. Safe(t) /\ Goes(u, t)
    BY <2>1, <2>2, <2>3, PushDeciding DEF Deciding
  <2> QED BY <1>2, <2>2, <2>4 DEF Alike, Goes, t
<1> QED BY <1>1, <1>2

LEMMA AccessReturnedSound ==
    ASSUME NEW s, Bare(s), NEW threw, NEW read
    PROVE  LET t == AccessReturned(s, threw, read)
           IN  Safe(t) /\ Decides(s, t)
<1> DEFINE t == AccessReturned(s, threw, read)
           e == [s EXCEPT !.r.failed = TRUE]
           b == [s EXCEPT !.r.body = "read"]
           w == [s EXCEPT !.ctx.read = "IN_PROGRESS", !.ctx.inProgress = TRUE,
                          !.r.body = "reading", !.r.weh = "empty"]
<1>1. CASE threw
  <2>1. t = FinalizeRequest(e, "500")
    BY <1>1 DEF AccessReturned
  <2>2. Shaped(e) /\ Len(e.stack) = 0 /\ e.r.phase # "rewrite" /\ e.r.body # "reading"
        /\ e.r.granted = s.r.granted
    BY DEF Bare, Shaped, StateFields, RequestFields
  <2> HIDE DEF e, t
  <2>3. 1..Len(e.stack) = {}
    BY <2>2
  <2>4. Sound(e)
    BY <2>2, <2>3 DEF Sound, Nested, Closed, Undecided
  <2>5. Safe(t) /\ Goes(e, t)
    BY <2>1, <2>2, <2>4, FinalizeRequestSound
  <2> QED BY <2>2, <2>5 DEF Goes, Decides, t
<1>2. CASE ~threw /\ s.ctx.read # "DEFERRED"
  <2>1. t = AccessDone(s, read)
    BY <1>2 DEF AccessReturned
  <2> QED BY <2>1, AccessDoneSound
<1>3. CASE ~threw /\ s.ctx.read = "DEFERRED" /\ read = "error"
  <2> DEFINE u == BodyReadAbort(s)
  <2>1. t = FinalizeRequest(u, "413")
    BY <1>3 DEF AccessReturned
  <2>2. Bare(u) /\ Alike(s, u)
    BY BodyReadAbortBare
  <2> HIDE DEF u, t
  <2>3. Safe(t) /\ Goes(u, t)
    BY <2>1, <2>2, BareSafe, FinalizeRequestSound DEF Safe
  <2> QED BY <2>2, <2>3 DEF Goes, Alike, Decides, t
<1>4. Bare(b) /\ Alike(s, b)
  BY DEF Bare, Alike, Shaped, StateFields, RequestFields
<1>5. CASE ~threw /\ s.ctx.read = "DEFERRED" /\ read = "sync"
  <2>1. t = AccessBodyDone(b, "ok")
    BY <1>5 DEF AccessReturned
  <2> HIDE DEF b, t
  <2>2. Safe(t) /\ t.r.granted = b.r.granted
    BY <1>4, <2>1, AccessBodyDoneSound
  <2> QED BY <1>4, <2>2 DEF Alike, Decides, t
<1>6. CASE ~threw /\ s.ctx.read = "DEFERRED" /\ read = "unreadable"
  <2> DEFINE u == AccessBodyDone(b, "error")
  <2>1. t = AccessDone(u, "sync")
    BY <1>6 DEF AccessReturned
  <2> HIDE DEF b, t
  <2>2. Bare(u) /\ Alike(b, u)
    BY <1>4, AccessBodyDoneSound
  <2> HIDE DEF u
  <2>3. Safe(t) /\ Decides(u, t)
    BY <2>1, <2>2, AccessDoneSound
  <2> QED BY <1>4, <2>2, <2>3 DEF Alike, Decides, t
<1>7. CASE /\ ~threw /\ s.ctx.read = "DEFERRED"
           /\ read # "error" /\ read # "sync" /\ read # "unreadable"
  <2>1. t = w
    BY <1>7 DEF AccessReturned
  <2>2. Shaped(w) /\ Len(w.stack) = 0 /\ ~w.r.failed /\ w.r.weh = "empty"
        /\ w.r.phase # "rewrite" /\ w.r.granted = s.r.granted
    BY DEF Bare, Shaped, StateFields, RequestFields, CtxFields
  <2> HIDE DEF w, t
  <2>3. 1..Len(w.stack) = {}
    BY <2>2
  <2>4. Safe(w)
    BY <2>2, <2>3 DEF Safe, Sound, Nested, Closed, Answering, Undecided
  <2> QED BY <2>1, <2>2, <2>4 DEF Decides, t
<1> QED BY <1>1, <1>2, <1>3, <1>5, <1>6, <1>7

LEMMA BodyResolvedSound ==
    ASSUME NEW s, Bare(s), NEW id, NEW read
    PROVE  LET t == BodyResolved(s, id, read)
           IN  Safe(t) /\ Decides(s, t)
<1> DEFINE t == BodyResolved(s, id, read)
           d == DelEvent(s, id)
           u == [d EXCEPT !.ctx.readEvent = 0]
           v == [u EXCEPT !.ctx.read = "IDLE"]
           w == [v EXCEPT !.r.weh = "access"]
<1>1. Bare(d) /\ Alike(s, d)
  BY DelEventBare
<1>2. t = IF s.ctx.read = "DEFERRED" THEN AccessDone(v, read)
          ELSE IF Pending(u) THEN w ELSE AccessWriteEventHandler(v, read)
  BY DEF BodyResolved, AccessBodyFinalize
<1> HIDE DEF d, t
<1>3. Bare(u) /\ Alike(d, u)
  BY <1>1 DEF Bare, Alike, Shaped, StateFields, CtxFields
<1> HIDE DEF u
<1>4. Bare(v) /\ Alike(u, v)
  BY <1>3 DEF Bare, Alike, Shaped, StateFields, CtxFields
<1> HIDE DEF v
<1>5. Bare(w) /\ Alike(v, w)
  BY <1>4 DEF Bare, Alike, Shaped, StateFields, RequestFields
<1> HIDE DEF w
<1>6. CASE s.ctx.read = "DEFERRED"
  <2>1. Safe(t) /\ Decides(v, t)
    BY <1>2, <1>4, <1>6, AccessDoneSound
  <2> QED BY <1>1, <1>3, <1>4, <2>1, AlikeDecides DEF t
<1>7. CASE s.ctx.read # "DEFERRED" /\ Pending(u)
  <2>1. t = w
    BY <1>2, <1>7
  <2> QED BY <1>1, <1>3, <1>4, <1>5, <2>1, BareSafe DEF Alike, Decides, t
<1>8. CASE s.ctx.read # "DEFERRED" /\ ~Pending(u)
  <2>1. Safe(t) /\ Decides(v, t)
    BY <1>2, <1>4, <1>8, AccessWriteEventHandlerSound
  <2> QED BY <1>1, <1>3, <1>4, <2>1, AlikeDecides DEF t
<1> QED BY <1>6, <1>7, <1>8

-----------------------------------------------------------------------------
(* Filters.                                                                *)

\* The innermost call is an output call.
Sending(s) == Safe(s) /\ Len(s.stack) > 0 /\ Top(s).fn = "output"

LEMMA TopProperties ==
    ASSUME NEW s, Sound(s), Len(s.stack) > 0
    PROVE  /\ Len(s.stack) \in 1..Len(s.stack) /\ Len(s.stack) \in Nat
           /\ DOMAIN Top(s) = FrameFields
           /\ Top(s).fn \in Functions_
           /\ Top(s).fn = "output" => Top(s).then \in Continuations
           /\ Top(s).fn \in {"header", "filter"} =>
                 Len(s.stack) > 1 /\ Top(Pop(s)).fn = "output"
           /\ Top(s).fn = "body" => Len(s.stack) > 1 /\ Top(Pop(s)).fn = "filter"
           /\ Top(s).fn \in Deciding => Len(s.stack) = 1 /\ ~Undecided(s)
<1> DEFINE n == Len(s.stack)
<1>1. n \in 1..n /\ n \in Nat
  BY LenProperties DEF Sound, Shaped
<1>2. n > 1 => Top(Pop(s)) = s.stack[n - 1]
  BY PopSound
<1> HIDE DEF n
<1>3. Nested(s.stack)
  BY DEF Sound
<1> QED BY <1>1, <1>2, <1>3 DEF Nested, Top, Undecided, n

LEMMA OutputDoneSound ==
    ASSUME NEW s, Sending(s), NEW rc \in {"ERROR", "AGAIN", "OK"}
    PROVE  LET t == OutputDone(s, rc)
           IN  Safe(t) /\ Same(s, t)
<1> DEFINE t == OutputDone(s, rc)
           p == Pop(s)
<1>1. Sound(p) /\ Same(s, p) /\ (Top(s).then # "finalize" => Safe(p))
  BY PopSound DEF Sending, Safe
<1>2. Top(s).then \in Continuations
  BY TopProperties DEF Sending, Safe
<1> HIDE DEF p
<1>3. CASE Top(s).then = "send"
  <2>1. t = p
    BY <1>3 DEF OutputDone, p
  <2> QED BY <1>1, <1>3, <2>1
<1>4. CASE Top(s).then = "return"
  <2> DEFINE u == [p EXCEPT !.ctx.status = rc]
  <2>1. t = u
    BY <1>4 DEF OutputDone, p
  <2>2. Keeps(p, u)
    BY <1>1 DEF Keeps, Sound, Shaped, StateFields, CtxFields
  <2> HIDE DEF u, t
  <2> QED BY <1>1, <1>4, <2>1, <2>2, KeepsSound DEF Same, t
<1>5. CASE Top(s).then = "finish"
  <2> DEFINE u == [p EXCEPT !.ctx.status = "OK"]
  <2>1. t = IF rc = "ERROR" THEN p ELSE u
    BY <1>5 DEF OutputDone, p
  <2>2. Keeps(p, u)
    BY <1>1 DEF Keeps, Sound, Shaped, StateFields, CtxFields
  <2> HIDE DEF u, t
  <2> QED BY <1>1, <1>5, <2>1, <2>2, KeepsSound DEF Same, t
<1>6. CASE Top(s).then = "finalize"
  <2>1. t = FinalizeRequest(p, rc)
    BY <1>6 DEF OutputDone, p
  <2> HIDE DEF t
  <2>2. Safe(t) /\ Goes(p, t)
    BY <1>1, <2>1, FinalizeRequestSound
  <2> QED BY <1>1, <2>2 DEF Goes, Same, t
<1> QED BY <1>2, <1>3, <1>4, <1>5, <1>6 DEF Continuations

LEMMA HeaderSentSound ==
    ASSUME NEW s, Sending(s)
    PROVE  LET t == HeaderSent(s)
           IN  Safe(t) /\ Same(s, t)
<1> DEFINE u == [s EXCEPT !.r.headerSent = TRUE]
           f == [Top(s) EXCEPT !.head = FALSE]
<1>1. HeaderSent(s) = SetTop(u, f)
  BY DEF HeaderSent
<1>2. Keeps(s, u)
  BY DEF Keeps, Sending, Safe, Sound, Shaped, StateFields, RequestFields
<1>3. DOMAIN f = FrameFields /\ f.fn = Top(s).fn /\ f.then = Top(s).then
  BY TopProperties DEF Sending, Safe, FrameFields
<1> HIDE DEF u, f
<1>4. Safe(u) /\ Same(s, u) /\ u.stack = s.stack
  BY <1>2, KeepsSound DEF Sending, Keeps
<1>5. Top(u) = Top(s) /\ Len(u.stack) > 0
  BY <1>4 DEF Top, Sending
<1>6. Safe(SetTop(u, f)) /\ Same(u, SetTop(u, f))
  BY <1>3, <1>4, <1>5, SetTopSound DEF Safe
<1> QED BY <1>1, <1>4, <1>6 DEF Same

LEMMA HeaderFilterSound ==
    ASSUME NEW s, Sending(s)
    PROVE  LET t == HeaderFilter(s)
           IN  Safe(t) /\ Same(s, t)
<1> DEFINE t == HeaderFilter(s)
<1>1. CASE ~s.r.loc.header
  BY <1>1, HeaderSentSound DEF HeaderFilter
<1>2. CASE s.r.loc.header /\ ~s.r.loc.vm
  BY <1>2, OutputDoneSound DEF HeaderFilter
<1>3. CASE s.r.loc.header /\ s.r.loc.vm
  <2> DEFINE v == InitVm(s)
             u == [v EXCEPT !.ctx.filter = TRUE]
             f == [Frame("header") EXCEPT !.pend = Pending(s)]
  <2>1. t = Push(u, f)
    BY <1>3 DEF HeaderFilter
  <2>2. Keeps(s, v) /\ Safe(s)
    BY InitVmSound DEF Sending, Safe
  <2>3. DOMAIN f = FrameFields /\ f.fn = "header"
    BY FrameProperties
  <2> HIDE DEF v, f
  <2>4. Safe(v) /\ Same(s, v) /\ v.stack = s.stack
    BY <2>2, KeepsSound DEF Keeps
  <2>5. Keeps(v, u)
    BY <2>4 DEF Keeps, Safe, Sound, Shaped, StateFields, CtxFields
  <2> HIDE DEF u, t
  <2>6. Safe(u) /\ Same(s, u) /\ u.stack = s.stack
    BY <2>4, <2>5, KeepsSound DEF Keeps, Same
  <2>7. Fits(u, f)
    BY <2>3, <2>6 DEF Fits, Functions_, ScriptFns, Deciding, Sending, Top
  <2> QED BY <2>1, <2>6, <2>7, PushSound DEF Safe, Same, t
<1> QED BY <1>1, <1>2, <1>3

LEMMA NextBodyFilterSound ==
    ASSUME NEW s, Sending(s), NEW chain, NEW slow
    PROVE  LET t == NextBodyFilter(s, chain, slow)
           IN  Safe(t) /\ Same(s, t)
<1> DEFINE u == [s EXCEPT !.r.last = @ \/ \E i \in DOMAIN chain : chain[i].last,
                          !.r.buffered = @ \/ slow]
           f == [Top(s) EXCEPT !.in = <<>>]
<1>1. NextBodyFilter(s, chain, slow) = SetTop(u, f)
  BY DEF NextBodyFilter
<1>2. Keeps(s, u)
  BY DEF Keeps, Sending, Safe, Sound, Shaped, StateFields, RequestFields
<1>3. DOMAIN f = FrameFields /\ f.fn = Top(s).fn /\ f.then = Top(s).then
  BY TopProperties DEF Sending, Safe, FrameFields
<1> HIDE DEF u, f
<1>4. Safe(u) /\ Same(s, u) /\ u.stack = s.stack
  BY <1>2, KeepsSound DEF Sending, Keeps
<1>5. Top(u) = Top(s) /\ Len(u.stack) > 0
  BY <1>4 DEF Top, Sending
<1>6. Safe(SetTop(u, f)) /\ Same(u, SetTop(u, f))
  BY <1>3, <1>4, <1>5, SetTopSound DEF Safe
<1> QED BY <1>1, <1>4, <1>6 DEF Same

LEMMA BodyFilterSound ==
    ASSUME NEW s, Sending(s), NEW slow
    PROVE  LET t == BodyFilter(s, slow)
           IN  Safe(t) /\ Same(s, t)
<1> DEFINE t == BodyFilter(s, slow)
<1>1. CASE ~s.r.loc.body \/ s.ctx.done
  BY <1>1, NextBodyFilterSound DEF BodyFilter
<1>2. CASE ~(~s.r.loc.body \/ s.ctx.done) /\ ~s.r.loc.vm
  BY <1>2, OutputDoneSound DEF BodyFilter
<1>3. CASE ~(~s.r.loc.body \/ s.ctx.done) /\ s.r.loc.vm
  <2> DEFINE v == InitVm(s)
             u == [v EXCEPT !.ctx.filter = TRUE, !.ctx.lastOut = Len(s.stack) + 1]
             f == [Frame("filter") EXCEPT !.in = Top(s).in]
  <2>1. t = Push(u, f)
    BY <1>3 DEF BodyFilter
  <2>2. Keeps(s, v) /\ Safe(s)
    BY InitVmSound DEF Sending, Safe
  <2>3. DOMAIN f = FrameFields /\ f.fn = "filter"
    BY FrameProperties
  <2> HIDE DEF v, f
  <2>4. Safe(v) /\ Same(s, v) /\ v.stack = s.stack
    BY <2>2, KeepsSound DEF Keeps
  <2>5. Keeps(v, u)
    BY <2>4 DEF Keeps, Safe, Sound, Shaped, StateFields, CtxFields
  <2> HIDE DEF u, t
  <2>6. Safe(u) /\ Same(s, u) /\ u.stack = s.stack
    BY <2>4, <2>5, KeepsSound DEF Keeps, Same
  <2>7. Fits(u, f)
    BY <2>3, <2>6 DEF Fits, Functions_, ScriptFns, Deciding, Sending, Top
  <2> QED BY <2>1, <2>6, <2>7, PushSound DEF Safe, Same, t
<1> QED BY <1>1, <1>2, <1>3

LEMMA OutputTurnSound ==
    ASSUME NEW s, Sending(s), NEW slow
    PROVE  LET t == OutputTurn(s, slow)
           IN  Safe(t) /\ Same(s, t)
BY OutputDoneSound, HeaderFilterSound, BodyFilterSound DEF OutputTurn

LEMMA FilterTurnSound ==
    ASSUME NEW s, Safe(s), Len(s.stack) > 0, Top(s).fn = "filter", NEW slow
    PROVE  LET t == FilterTurn(s, slow)
           IN  Safe(t) /\ Same(s, t)
<1> DEFINE t == FilterTurn(s, slow)
           f == Top(s)
           p == Pop(s)
<1>1. Len(s.stack) > 1 /\ Top(p).fn = "output" /\ DOMAIN f = FrameFields
  BY TopProperties DEF Safe
<1>2. Safe(p) /\ Same(s, p) /\ Len(p.stack) > 0 /\ Len(s.stack) \in Nat
  BY <1>1, PopSound DEF Safe
<1>3. Sending(p)
  BY <1>1, <1>2 DEF Sending
<1> HIDE DEF p
<1>4. CASE f.in = <<>> /\ (f.out # <<>> \/ s.r.buffered)
  <2>1. t = NextBodyFilter(p, f.out, slow)
    BY <1>4 DEF FilterTurn, p
  <2> HIDE DEF t
  <2>2. Safe(t) /\ Same(p, t)
    BY <1>3, <2>1, NextBodyFilterSound
  <2> QED BY <1>2, <2>2 DEF Same, t
<1>5. CASE f.in = <<>> /\ ~(f.out # <<>> \/ s.r.buffered)
  <2> DEFINE g == [Top(p) EXCEPT !.in = <<>>]
  <2>1. t = SetTop(p, g)
    BY <1>5 DEF FilterTurn, p
  <2>2. DOMAIN g = FrameFields /\ g.fn = Top(p).fn /\ g.then = Top(p).then
    BY <1>2, TopProperties DEF Safe, FrameFields
  <2> HIDE DEF g, t
  <2>3. Safe(t) /\ Same(p, t)
    BY <1>2, <2>1, <2>2, SetTopSound DEF Safe
  <2> QED BY <1>2, <2>3 DEF Same, t
<1>6. CASE f.in # <<>> /\ s.ctx.done
  <2> DEFINE g == [f EXCEPT !.in = Tail(@), !.out = Append(@, Head(f.in))]
  <2>1. t = SetTop(s, g)
    BY <1>6 DEF FilterTurn
  <2>2. DOMAIN g = FrameFields /\ g.fn = f.fn /\ g.then = f.then
    BY <1>1 DEF FrameFields
  <2> HIDE DEF g, t
  <2> QED BY <2>1, <2>2, SetTopSound DEF Safe, t
<1>7. CASE f.in # <<>> /\ ~s.ctx.done
  <2> DEFINE u == [s EXCEPT !.ctx.buf = Head(f.in)]
             g == [Frame("body") EXCEPT !.pend = Pending(s)]
  <2>1. t = Push(u, g)
    BY <1>7 DEF FilterTurn
  <2>2. Keeps(s, u)
    BY DEF Keeps, Safe, Sound, Shaped, StateFields, CtxFields
  <2>3. DOMAIN g = FrameFields /\ g.fn = "body"
    BY FrameProperties
  <2> HIDE DEF u, g, t
  <2>4. Safe(u) /\ Same(s, u) /\ u.stack = s.stack
    BY <2>2, KeepsSound DEF Keeps
  <2>5. Fits(u, g)
    BY <2>3, <2>4 DEF Fits, Functions_, ScriptFns, Deciding, Top
  <2> QED BY <2>1, <2>4, <2>5, PushSound DEF Safe, Same, t
<1> QED BY <1>4, <1>5, <1>6, <1>7

LEMMA HeaderReturnedSound ==
    ASSUME NEW s, Sending(s), NEW frame, NEW threw
    PROVE  LET t == HeaderReturned(s, frame, threw)
           IN  Safe(t) /\ Same(s, t)
BY OutputDoneSound, HeaderSentSound DEF HeaderReturned

LEMMA BodyReturnedSound ==
    ASSUME NEW s, Safe(s), Len(s.stack) > 0, Top(s).fn = "filter", NEW frame, NEW threw
    PROVE  LET t == BodyReturned(s, frame, threw)
           IN  Safe(t) /\ Same(s, t)
<1> DEFINE t == BodyReturned(s, frame, threw)
           f == Top(s)
           p == Pop(s)
<1>1. Len(s.stack) > 1 /\ Top(p).fn = "output" /\ DOMAIN f = FrameFields
  BY TopProperties DEF Safe
<1>2. Safe(p) /\ Same(s, p) /\ Len(p.stack) > 0 /\ Len(s.stack) \in Nat
  BY <1>1, PopSound DEF Safe
<1>3. Sending(p)
  BY <1>1, <1>2 DEF Sending
<1> HIDE DEF p
<1>4. CASE threw \/ (~frame.pend /\ s.ctx.events # {})
  <2>1. t = OutputDone(p, "ERROR")
    BY <1>4 DEF BodyReturned, p
  <2> HIDE DEF t
  <2>2. Safe(t) /\ Same(p, t)
    BY <1>3, <2>1, OutputDoneSound
  <2> QED BY <1>2, <2>2 DEF Same, t
<1>5. CASE ~(threw \/ (~frame.pend /\ s.ctx.events # {}))
  <2> DEFINE g == [f EXCEPT !.in = Tail(@)]
  <2>1. t = SetTop(s, g)
    BY <1>5 DEF BodyReturned
  <2>2. DOMAIN g = FrameFields /\ g.fn = f.fn /\ g.then = f.then
    BY <1>1 DEF FrameFields
  <2> HIDE DEF g, t
  <2> QED BY <2>1, <2>2, SetTopSound DEF Safe, t
<1> QED BY <1>4, <1>5

-----------------------------------------------------------------------------
(* The methods of r.                                                       *)

\* A method leaves what the access phase decides as it is.
Harmless(s, res) == Safe(res.s) /\ Same(s, res.s)

LEMMA DoesHarmless ==
    ASSUME NEW s, Safe(s)
    PROVE  /\ Harmless(s, Throws(s)) /\ Harmless(s, Does(s))
           /\ \A u : Keeps(s, u) => Harmless(s, Does(u))
BY KeepsSound DEF Harmless, Does, Throws, Same

LEMMA OutputsHarmless ==
    ASSUME NEW s, Safe(s), NEW head, NEW chain, NEW then \in Continuations
    PROVE  Harmless(s, Outputs(s, head, chain, then))
<1> DEFINE f == [Frame("output") EXCEPT !.head = head, !.in = chain, !.then = then]
<1>1. Outputs(s, head, chain, then).s = Push(s, f)
  BY DEF Outputs, Does
<1>2. DOMAIN f = FrameFields /\ f.fn = "output" /\ f.then = then
  BY FrameProperties
<1> HIDE DEF f
<1>3. Safe(Push(s, f)) /\ Same(s, Push(s, f))
  BY <1>2, OutputFits, PushSound DEF Safe
<1> QED BY <1>1, <1>3 DEF Harmless

LEMMA AddEventKeeps ==
    ASSUME NEW s, Safe(s), NEW kind
    PROVE  Keeps(s, AddEvent(s, kind)) /\ Safe(AddEvent(s, kind))
<1>1. Keeps(s, AddEvent(s, kind))
  BY DEF AddEvent, Keeps, Safe, Sound, Shaped, StateFields, CtxFields
<1> QED BY <1>1, KeepsSound

LEMMA TimersHarmless ==
    ASSUME NEW s, Safe(s), NEW op
    PROVE  /\ Harmless(s, NjsSetTimeout(s, op)) /\ Harmless(s, QjsSetTimeout(s, op))
           /\ Harmless(s, NjsClearTimeout(s, op)) /\ Harmless(s, QjsClearTimeout(s, op))
<1>1. Keeps(s, AddEvent(s, "timer")) /\ Keeps(s, DelEvent(s, op.a))
  BY AddEventKeeps, DelEventBare DEF Safe
<1> QED BY <1>1, DoesHarmless DEF NjsSetTimeout, QjsSetTimeout, NjsClearTimeout, QjsClearTimeout

\* Fields of the context that the access phase reads only when it decides.
LEMMA ContextHarmless ==
    ASSUME NEW s, Safe(s), NEW v, NEW w
    PROVE  /\ Keeps(s, [s EXCEPT !.ctx.status = v])
           /\ Keeps(s, [s EXCEPT !.ctx.redirect = v, !.ctx.status = w])
           /\ Keeps(s, [s EXCEPT !.ctx.retval = v])
           /\ Keeps(s, [s EXCEPT !.ctx.done = v])
           /\ \A body \in Kept : Keeps(s, [s EXCEPT !.ctx.requestBody = body])
           /\ Keeps(s, [s EXCEPT !.ctx.rejected = v])
BY DEF Keeps, Safe, Sound, Shaped, StateFields, CtxFields

LEMMA AnswersHarmless ==
    ASSUME NEW s, Safe(s), NEW op
    PROVE  /\ Harmless(s, NjsReturn(s, op)) /\ Harmless(s, QjsReturn(s, op))
           /\ Harmless(s, NjsDecline(s, op)) /\ Harmless(s, QjsDecline(s, op))
           /\ Harmless(s, NjsSendHeader(s, op)) /\ Harmless(s, QjsSendHeader(s, op))
           /\ Harmless(s, NjsSend(s, op)) /\ Harmless(s, QjsSend(s, op))
           /\ Harmless(s, NjsFinish(s, op)) /\ Harmless(s, QjsFinish(s, op))
           /\ Harmless(s, NjsInternalRedirect(s, op))
           /\ Harmless(s, QjsInternalRedirect(s, op))
           /\ Harmless(s, NjsSetReturnValue(s, op))
           /\ Harmless(s, QjsSetReturnValue(s, op))
<1>1. \A code : Harmless(s, Does([s EXCEPT !.ctx.status = code]))
  BY ContextHarmless, DoesHarmless
<1>2. Harmless(s, SendResponse(s, op.a))
  BY <1>1, OutputsHarmless DEF SendResponse, Continuations
<1>3. Harmless(s, NjsReturn(s, op))
  BY <1>1, <1>2, DoesHarmless DEF NjsReturn
<1>4. Harmless(s, QjsReturn(s, op))
  BY <1>1, <1>2, DoesHarmless DEF QjsReturn
<1>5. Harmless(s, NjsDecline(s, op)) /\ Harmless(s, QjsDecline(s, op))
  BY <1>1 DEF NjsDecline, QjsDecline
<1>6. Harmless(s, NjsSendHeader(s, op)) /\ Harmless(s, QjsSendHeader(s, op))
  BY OutputsHarmless DEF NjsSendHeader, QjsSendHeader, Continuations
<1>7. \A chain : Harmless(s, Outputs(s, FALSE, chain, "send"))
  BY OutputsHarmless DEF Continuations
<1>8. Harmless(s, NjsSend(s, op))
  BY <1>7, DoesHarmless DEF NjsSend
<1>9. Harmless(s, QjsSend(s, op))
  BY <1>7, DoesHarmless DEF QjsSend
<1>10. Harmless(s, NjsFinish(s, op)) /\ Harmless(s, QjsFinish(s, op))
  BY OutputsHarmless DEF NjsFinish, QjsFinish, Continuations
<1>11. \A v : Harmless(s, Does([s EXCEPT !.ctx.redirect = v, !.ctx.status = "DONE"]))
  BY ContextHarmless, DoesHarmless
<1>12. Harmless(s, NjsInternalRedirect(s, op))
  BY <1>11, DoesHarmless DEF NjsInternalRedirect
<1>13. Harmless(s, QjsInternalRedirect(s, op))
  BY <1>11, DoesHarmless DEF QjsInternalRedirect
<1>14. Harmless(s, NjsSetReturnValue(s, op)) /\ Harmless(s, QjsSetReturnValue(s, op))
  BY ContextHarmless, DoesHarmless DEF NjsSetReturnValue, QjsSetReturnValue
<1> QED BY ONLY <1>3, <1>4, <1>5, <1>6, <1>8, <1>9, <1>10, <1>12, <1>13, <1>14

LEMMA FilterMethodsHarmless ==
    ASSUME NEW s, Safe(s), NEW op
    PROVE  /\ Harmless(s, NjsDone(s, op)) /\ Harmless(s, QjsDone(s, op))
           /\ Harmless(s, NjsSendBuffer(s, op)) /\ Harmless(s, QjsSendBuffer(s, op))
<1>1. Harmless(s, NjsDone(s, op)) /\ Harmless(s, QjsDone(s, op))
  BY ContextHarmless, DoesHarmless DEF NjsDone, QjsDone
<1>2. \A buf : Harmless(s, Does(AppendOut(s, buf)))
  BY AppendOutSound DEF Harmless, Does
<1>3. Harmless(s, NjsSendBuffer(s, op))
  BY <1>2, DoesHarmless DEF NjsSendBuffer
<1>4. Harmless(s, QjsSendBuffer(s, op))
  BY <1>2, DoesHarmless DEF QjsSendBuffer
<1> QED BY <1>1, <1>3, <1>4

LEMMA BodyMethodsHarmless ==
    ASSUME NEW s, Safe(s), NEW op, op.name = "requestBody" => op.a \in Kept
    PROVE  /\ Harmless(s, NjsReadRequestBody(s, op))
           /\ Harmless(s, QjsReadRequestBody(s, op))
           /\ Harmless(s, NjsReadRequestForm(s, op))
           /\ Harmless(s, QjsReadRequestForm(s, op))
           /\ op.name = "requestBody" =>
                 /\ Harmless(s, NjsGetRequestBody(s, op))
                 /\ Harmless(s, QjsGetRequestBody(s, op))
<1> DEFINE c == CollectBody(s)
           a == AddEvent(s, "read")
           d(form) == [a EXCEPT !.ctx.readEvent = s.ctx.eventId,
                                !.ctx.read = "DEFERRED", !.ctx.form = form]
           g == [c EXCEPT !.ctx.requestBody = op.a]
<1>1. Keeps(s, c) /\ Safe(c) /\ Same(s, c)
  BY CollectBodyBare, KeepsSound DEF Safe
<1>2. Safe(a) /\ Same(s, a)
  BY AddEventKeeps, KeepsSound
<1> HIDE DEF a
<1>3. ASSUME NEW form PROVE Harmless(s, Does(d(form)))
  <2>1. Keeps(a, d(form))
    BY <1>2 DEF Keeps, Safe, Sound, Shaped, StateFields, CtxFields
  <2> HIDE DEF d
  <2>2. Safe(d(form)) /\ Same(a, d(form))
    BY <1>2, <2>1, KeepsSound
  <2> QED BY <1>2, <2>2 DEF Harmless, Does, Same
<1>4. /\ Harmless(s, Throws(c)) /\ Harmless(s, Does(c))
      /\ Harmless(s, Throws(s)) /\ Harmless(s, Does(s))
  BY <1>1, DoesHarmless DEF Harmless, Throws, Does
<1>5. Harmless(s, NjsBodyToValue(c, op)) /\ Harmless(s, QjsBodyToValue(c, op))
  BY <1>4 DEF NjsBodyToValue, QjsBodyToValue
<1>6. ASSUME op.a \in Kept PROVE Harmless(s, Does(g))
  <2> HIDE DEF c
  <2>1. Keeps(c, g)
    BY <1>1, <1>6, ContextHarmless
  <2> HIDE DEF g
  <2>2. Safe(g) /\ Same(c, g)
    BY <1>1, <2>1, KeepsSound
  <2> QED BY <1>1, <2>2 DEF Harmless, Does, Same
<1>7. Harmless(s, NjsReadRequestBody(s, op))
  BY <1>3, <1>4, <1>5 DEF NjsReadRequestBody, a
<1>8. Harmless(s, QjsReadRequestBody(s, op))
  BY <1>3, <1>4, <1>5 DEF QjsReadRequestBody, a
<1>9. Harmless(s, NjsReadRequestForm(s, op))
  BY <1>3, <1>4, <1>5 DEF NjsReadRequestForm, a
<1>10. Harmless(s, QjsReadRequestForm(s, op))
  BY <1>3, <1>4, <1>5 DEF QjsReadRequestForm, a
<1>11. op.name = "requestBody" =>
          Harmless(s, NjsGetRequestBody(s, op)) /\ Harmless(s, QjsGetRequestBody(s, op))
  BY <1>4, <1>6 DEF NjsGetRequestBody, QjsGetRequestBody
<1> QED BY ONLY <1>7, <1>8, <1>9, <1>10, <1>11

LEMMA SubrequestsHarmless ==
    ASSUME NEW s, Safe(s), NEW op
    PROVE  Harmless(s, NjsSubrequest(s, op)) /\ Harmless(s, QjsSubrequest(s, op))
<1>1. ASSUME NEW kind PROVE Harmless(s, Does(StartSubrequest(s, kind)))
  <2>1. CASE kind = "detached"
    <3> DEFINE u == [s EXCEPT !.r.count = @ + 1, !.r.detached = @ + 1]
    <3>1. Keeps(s, u)
      BY DEF Keeps, Safe, Sound, Shaped, StateFields, RequestFields
    <3>2. StartSubrequest(s, kind) = u
      BY <2>1 DEF StartSubrequest
    <3> HIDE DEF u
    <3> QED BY <3>1, <3>2, DoesHarmless
  <2>2. CASE kind # "detached"
    <3> DEFINE a == AddEvent(s, kind)
               u == [a EXCEPT !.r.count = @ + 1, !.r.subs = @ \cup {s.ctx.eventId}]
    <3>1. Safe(a) /\ Same(s, a)
      BY AddEventKeeps, KeepsSound
    <3>2. StartSubrequest(s, kind) = u
      BY <2>2 DEF StartSubrequest
    <3> HIDE DEF a
    <3>3. Keeps(a, u)
      BY <3>1 DEF Keeps, Safe, Sound, Shaped, StateFields, RequestFields
    <3> HIDE DEF u
    <3>4. Safe(u) /\ Same(a, u)
      BY <3>1, <3>3, KeepsSound
    <3> QED BY <3>1, <3>2, <3>4 DEF Harmless, Does, Same
  <2> QED BY <2>1, <2>2
<1>2. Harmless(s, NjsSubrequest(s, op))
  BY <1>1, DoesHarmless DEF NjsSubrequest
<1>3. Harmless(s, QjsSubrequest(s, op))
  BY <1>1, DoesHarmless DEF QjsSubrequest
<1> QED BY <1>2, <1>3

LEMMA MethodHarmless ==
    ASSUME NEW s, Safe(s), NEW op \in Calls
    PROVE  Harmless(s, CallMethod(s, op))
<1>1. op.name \in Methods /\ (op.name = "requestBody" => op.a \in Kept)
  BY CallsAssumption DEF Kept
<1>2. CASE op.name = "setTimeout"
  BY <1>2, TimersHarmless DEF CallMethod, Njs, Qjs
<1>3. CASE op.name = "clearTimeout"
  BY <1>3, TimersHarmless DEF CallMethod, Njs, Qjs
<1>4. CASE op.name = "return"
  BY <1>4, AnswersHarmless DEF CallMethod, Njs, Qjs
<1>5. CASE op.name = "decline"
  BY <1>5, AnswersHarmless DEF CallMethod, Njs, Qjs
<1>6. CASE op.name = "sendHeader"
  BY <1>6, AnswersHarmless DEF CallMethod, Njs, Qjs
<1>7. CASE op.name = "send"
  BY <1>7, AnswersHarmless DEF CallMethod, Njs, Qjs
<1>8. CASE op.name = "finish"
  BY <1>8, AnswersHarmless DEF CallMethod, Njs, Qjs
<1>9. CASE op.name = "internalRedirect"
  BY <1>9, AnswersHarmless DEF CallMethod, Njs, Qjs
<1>10. CASE op.name = "setReturnValue"
  BY <1>10, AnswersHarmless DEF CallMethod, Njs, Qjs
<1>11. CASE op.name = "done"
  BY <1>11, FilterMethodsHarmless DEF CallMethod, Njs, Qjs
<1>12. CASE op.name = "sendBuffer"
  BY <1>12, FilterMethodsHarmless DEF CallMethod, Njs, Qjs
<1>13. CASE op.name = "readRequest"
  BY <1>1, <1>13, BodyMethodsHarmless DEF CallMethod, Njs, Qjs
<1>14. CASE op.name = "readRequestForm"
  BY <1>1, <1>14, BodyMethodsHarmless DEF CallMethod, Njs, Qjs
<1>15. CASE op.name = "requestBody"
  BY <1>1, <1>15, BodyMethodsHarmless DEF CallMethod, Njs, Qjs
<1>16. CASE op.name = "subrequest"
  BY <1>16, SubrequestsHarmless DEF CallMethod, Njs, Qjs
<1> QED BY ONLY <1>1, <1>2, <1>3, <1>4, <1>5, <1>6, <1>7, <1>8, <1>9, <1>10, <1>11, <1>12, <1>13, <1>14, <1>15, <1>16 DEF Methods

-----------------------------------------------------------------------------
(* The actions.                                                            *)

Inv == Safe(State)

\* What a step may do to a location with js_access.
Granted ==
    r.loc.access /\ r'.granted /\ ~r.granted =>
       /\ ctx'.events = {} /\ ~r'.failed
       /\ ~r.headerSent /\ ctx.redirect = "none"
       /\ ctx.status \in {"OK", "DECLINED"}

LEMMA StateFieldsOf ==
    /\ DOMAIN State = StateFields
    /\ State.ctx = ctx /\ State.r = r /\ State.stack = stack
BY DEF State, StateFields

LEMMA SafeFields ==
    ASSUME NEW s, NEW t, DOMAIN t = StateFields,
           t.ctx = s.ctx, t.r = s.r, t.stack = s.stack
    PROVE  Safe(s) => Safe(t)
BY DEF Safe, Sound, Shaped, Closed, Answering, Undecided

LEMMA BecomeSafe ==
    ASSUME NEW t, Safe(t), Become(t)
    PROVE  Inv'
<1>1. /\ DOMAIN State' = StateFields
      /\ (State').ctx = t.ctx /\ (State').r = t.r /\ (State').stack = t.stack
  BY DEF State, StateFields, Become
<1> QED BY <1>1, SafeFields DEF Inv

LEMMA BecomeGranted ==
    ASSUME NEW t, Become(t), Same(State, t) \/ Goes(State, t) \/ Decides(State, t)
    PROVE  Granted
BY StateFieldsOf DEF Granted, Decides, Same, Goes, Become

LEMMA WriteEventHandlerSound ==
    ASSUME NEW s, Safe(s), Len(s.stack) = 0, NEW read
    PROVE  LET t == WriteEventHandler(s, read)
           IN  Safe(t) /\ Decides(s, t)
<1> DEFINE t == WriteEventHandler(s, read)
<1>1. CASE s.r.weh = "terminate"
  <2>1. t = CleanupCtx(s)
    BY <1>1 DEF WriteEventHandler
  <2>2. Keeps(s, t) /\ Goes(s, t)
    BY <2>1, CleanupCtxSound DEF Safe
  <2> HIDE DEF t
  <2> QED BY <2>2, KeepsSound, GoesDecides DEF t
<1>2. CASE s.r.weh = "access"
  <2>1. t = AccessWriteEventHandler(s, read)
    BY <1>2 DEF WriteEventHandler
  <2>2. ~s.r.failed
    BY <1>2 DEF Safe, Answering
  <2>3. Bare(s)
    BY <1>2, <2>2 DEF Bare, Safe, Sound, Closed
  <2> QED BY <2>1, <2>3, AccessWriteEventHandlerSound
<1>3. CASE s.r.weh = "content"
  <2>1. t = ContentWriteEventHandler(s)
    BY <1>3 DEF WriteEventHandler
  <2> HIDE DEF t
  <2> QED BY <2>1, ContentWriteEventHandlerSound, GoesDecides DEF t
<1>4. CASE s.r.weh = "writer" /\ ~Postponed(s)
  <2>1. t = FinalizeRequest(s, "OK")
    BY <1>4 DEF WriteEventHandler
  <2> HIDE DEF t
  <2> QED BY <2>1, FinalizeRequestSound, GoesDecides DEF t, Safe
<1>5. CASE /\ s.r.weh \notin {"terminate", "access", "content"}
           /\ ~(s.r.weh = "writer" /\ ~Postponed(s))
  <2>1. t = s
    BY <1>5 DEF WriteEventHandler
  <2> QED BY <2>1 DEF Decides
<1> QED BY <1>1, <1>2, <1>3, <1>4, <1>5

\* Fields of the request that the access phase does not look at.
LEMMA RequestKeeps ==
    ASSUME NEW s, Safe(s), NEW v, NEW w
    PROVE  /\ Keeps(s, [s EXCEPT !.r.run = v]) /\ Goes(s, [s EXCEPT !.r.run = v])
           /\ Keeps(s, [s EXCEPT !.r.error = v]) /\ Goes(s, [s EXCEPT !.r.error = v])
           /\ Keeps(s, [s EXCEPT !.r.posted = v])
           /\ Alike(s, [s EXCEPT !.r.posted = v])
           /\ Keeps(s, [s EXCEPT !.r.buffered = v, !.r.run = w])
           /\ Alike(s, [s EXCEPT !.r.buffered = v, !.r.run = w])
BY DEF Keeps, Goes, Alike, Safe, Sound, Shaped, StateFields, RequestFields

LEMMA IdleStack ==
    ASSUME stack = <<>>
    PROVE  Len(stack) = 0 /\ Len(State.stack) = 0
BY StateFieldsOf

LEMMA ActiveStack ==
    ASSUME Inv, stack # <<>>
    PROVE  Len(State.stack) > 0
<1>1. stack \in Seq(Range(stack))
  BY StateFieldsOf DEF Inv, Safe, Sound, Shaped
<1> QED BY <1>1, EmptySeq, LenProperties, StateFieldsOf

LEMMA InitSafe == Init => Inv
<1> SUFFICES ASSUME Init PROVE Inv
  OBVIOUS
<1>1. PICK l \in Locations :
         r = [loc |-> l, phase |-> "rewrite", weh |-> "phases", posted |-> 0,
              run |-> FALSE, count |-> 1, body |-> "none", subs |-> {},
              detached |-> 0, headerSent |-> FALSE, last |-> FALSE,
              buffered |-> FALSE, error |-> FALSE, term |-> FALSE,
              failed |-> FALSE, granted |-> FALSE, orphans |-> {},
              freed |-> FALSE]
  BY DEF Init
<1>2. DOMAIN l = LocationFields
  BY LocationsAssumption DEF LocationFields
<1>3. /\ DOMAIN r = RequestFields /\ r.loc = l /\ r.phase = "rewrite" /\ r.weh = "phases"
      /\ r.body = "none" /\ r.failed = FALSE
  BY <1>1 DEF RequestFields
<1>4. stack = <<>> /\ DOMAIN ctx = CtxFields /\ ctx.requestBody \in Kept
  BY FreshCtxProperties DEF Init
<1>5. stack \in Seq(Range(stack)) /\ Len(stack) = 0 /\ 1..Len(stack) = {}
  BY <1>4, EmptySeq
<1> QED BY <1>2, <1>3, <1>4, <1>5, StateFieldsOf
        DEF Inv, Safe, Sound, Shaped, Nested, Closed, Answering, Undecided

LEMMA RewriteVariableStep ==
    ASSUME Inv, RewriteVariable
    PROVE  Inv' /\ Granted
<1> DEFINE v == InitVm(State)
           u == [v EXCEPT !.r.run = TRUE]
           f == [Frame("variable") EXCEPT !.then = "rewrite"]
           t == Push(u, f)
<1>1. Become(t)
  BY DEF RewriteVariable
<1>2. Safe(v) /\ Goes(State, v)
  BY InitVmSound, KeepsSound DEF Inv, Safe
<1> HIDE DEF v
<1>3. Safe(u) /\ Goes(v, u)
  BY <1>2, RequestKeeps, KeepsSound
<1> HIDE DEF u
<1>4. DOMAIN f = FrameFields /\ f.fn = "variable"
  BY FrameProperties
<1> HIDE DEF f
<1>5. Fits(u, f)
  BY <1>4 DEF Fits, Functions_, ScriptFns, Deciding
<1>6. Safe(t) /\ Same(u, t)
  BY <1>3, <1>5, PushSound DEF Safe
<1> HIDE DEF t
<1>7. Same(State, t)
  BY <1>2, <1>3, <1>6 DEF Same, Goes
<1> QED BY <1>1, <1>6, <1>7, BecomeSafe, BecomeGranted

LEMMA RunPhasesStep ==
    ASSUME Inv, RunPhases
    PROVE  Inv' /\ Granted
<1> DEFINE s == [State EXCEPT !.r.phase = "access", !.r.run = TRUE]
<1>1. PICK read \in Reads :
         Become(IF r.loc.access THEN AccessHandler(s, read) ELSE ContentPhase(s, read))
  BY DEF RunPhases
<1>2. stack = <<>> /\ r.phase = "rewrite"
  BY DEF RunPhases, Idle
<1>3. /\ Shaped(State) /\ ~r.failed /\ r.body # "reading" /\ Len(State.stack) = 0
  BY <1>2, IdleStack, StateFieldsOf DEF Inv, Safe, Sound, Closed
<1>4. Bare(s) /\ Alike(State, s)
  BY <1>3, StateFieldsOf DEF Bare, Alike, Shaped, StateFields, RequestFields
<1> HIDE DEF s
<1>5. CASE r.loc.access
  <2> DEFINE t == AccessHandler(s, read)
  <2>1. Become(t)
    BY <1>1, <1>5
  <2>2. Safe(t) /\ Decides(s, t)
    BY <1>4, AccessHandlerSound
  <2> HIDE DEF t
  <2>3. Decides(State, t)
    BY <1>4, <2>2, AlikeDecides
  <2> QED BY <2>1, <2>2, <2>3, BecomeSafe, BecomeGranted
<1>6. CASE ~r.loc.access
  <2> DEFINE t == ContentPhase(s, read)
  <2>1. Become(t)
    BY <1>1, <1>6
  <2>2. Safe(t)
    BY <1>4, ContentPhaseSound
  <2> HIDE DEF t
  <2> QED BY <1>6, <2>1, <2>2, BecomeSafe DEF Granted
<1> QED BY <1>5, <1>6

LEMMA ScriptCallsStep ==
    ASSUME Inv, ScriptCalls
    PROVE  Inv' /\ Granted
<1>1. PICK op \in Calls : Become(CallMethod(State, op).s)
  BY DEF ScriptCalls
<1>2. Safe(CallMethod(State, op).s) /\ Same(State, CallMethod(State, op).s)
  BY MethodHarmless DEF Inv, Harmless
<1> QED BY <1>1, <1>2, BecomeSafe, BecomeGranted

LEMMA ScriptRejectsStep ==
    ASSUME Inv, ScriptRejects
    PROVE  Inv' /\ Granted
<1> DEFINE t == [State EXCEPT !.ctx.rejected = TRUE]
<1>1. Become(t)
  BY DEF ScriptRejects
<1>2. Safe(t) /\ Same(State, t)
  BY ContextHarmless, KeepsSound DEF Inv
<1> HIDE DEF t
<1> QED BY <1>1, <1>2, BecomeSafe, BecomeGranted

LEMMA ScriptReadsVariableStep ==
    ASSUME Inv, ScriptReadsVariable
    PROVE  Inv' /\ Granted
<1> DEFINE f == [Frame("variable") EXCEPT !.pend = Pending(State)]
           t == Push(State, f)
<1>1. Become(t)
  BY DEF ScriptReadsVariable
<1>2. DOMAIN f = FrameFields /\ f.fn = "variable"
  BY FrameProperties
<1> HIDE DEF f
<1>3. Fits(State, f)
  BY <1>2 DEF Fits, Functions_, ScriptFns, Deciding
<1>4. Safe(t) /\ Same(State, t)
  BY <1>3, PushSound DEF Inv, Safe
<1> HIDE DEF t
<1> QED BY <1>1, <1>4, BecomeSafe, BecomeGranted

LEMMA VariableReturnedSound ==
    ASSUME NEW s, Safe(s), NEW frame, NEW threw
    PROVE  LET t == VariableReturned(s, frame, threw)
           IN  Safe(t) /\ Goes(s, t)
<1> DEFINE t == VariableReturned(s, frame, threw)
           u == [s EXCEPT !.r.phase = "static"]
<1>1. t = FinalizeRequest(u, "500") \/ t = s
  BY DEF VariableReturned
<1>2. Keeps(s, u) /\ Goes(s, u)
  BY DEF Keeps, Goes, Safe, Sound, Shaped, StateFields, RequestFields
<1> HIDE DEF t, u
<1>3. Safe(u)
  BY <1>2, KeepsSound
<1>4. Safe(FinalizeRequest(u, "500")) /\ Goes(u, FinalizeRequest(u, "500"))
  BY <1>3, FinalizeRequestSound DEF Safe
<1> QED BY <1>1, <1>2, <1>4 DEF Goes, t

LEMMA EventReturnedSound ==
    ASSUME NEW s, Safe(s), NEW id, NEW threw
    PROVE  /\ Safe(TimerReturned(s, id, threw)) /\ Same(s, TimerReturned(s, id, threw))
           /\ Safe(ReplyReturned(s, id)) /\ Same(s, ReplyReturned(s, id))
<1> DEFINE d == DelEvent(s, id)
           u == [d EXCEPT !.r.posted = @ + 1, !.r.run = TRUE, !.r.subs = @ \ {id}]
<1>1. Keeps(s, d) /\ Safe(d) /\ Same(s, d)
  BY DelEventBare, KeepsSound DEF Safe
<1>2. TimerReturned(s, id, threw) = EventFinalize(d, IF threw THEN "ERROR" ELSE "OK")
  BY DEF TimerReturned
<1>3. ReplyReturned(s, id) = FinalizeConnection(u)
  BY DEF ReplyReturned
<1> HIDE DEF d
<1>4. Safe(TimerReturned(s, id, threw)) /\ Goes(d, TimerReturned(s, id, threw))
  BY <1>1, <1>2, EventFinalizeSound
<1>5. Keeps(d, u)
  BY <1>1 DEF Keeps, Safe, Sound, Shaped, StateFields, RequestFields
<1> HIDE DEF u
<1>6. Safe(u) /\ Same(d, u)
  BY <1>1, <1>5, KeepsSound
<1>7. Keeps(u, FinalizeConnection(u)) /\ Safe(FinalizeConnection(u))
  BY <1>6, FinalizeConnectionSound, KeepsSound DEF Safe
<1> QED BY <1>1, <1>3, <1>4, <1>6, <1>7 DEF Goes, Same, Keeps

LEMMA ScriptReturnsStep ==
    ASSUME Inv, ScriptReturns
    PROVE  Inv' /\ Granted
<1> DEFINE f == Top(State)
           s == Pop(State)
<1>1. PICK threw \in BOOLEAN, read \in Reads :
         Become(CASE f.fn = "access" -> AccessReturned(s, threw, read)
                  [] f.fn = "content" -> ContentReturned(s, threw)
                  [] f.fn = "header" -> HeaderReturned(s, f, threw)
                  [] f.fn = "body" -> BodyReturned(s, f, threw)
                  [] f.fn = "timer" -> TimerReturned(s, f.id, threw)
                  [] f.fn = "reply" -> ReplyReturned(s, f.id)
                  [] f.fn = "resolve" -> BodyResolved(s, f.id, read)
                  [] f.fn = "variable" -> VariableReturned(s, f, threw))
  BY DEF ScriptReturns
<1>2. Len(State.stack) > 0 /\ f.fn \in ScriptFns
  BY ActiveStack DEF ScriptReturns
<1>3. /\ s.ctx = ctx /\ s.r = r /\ Sound(s) /\ Same(State, s)
      /\ Len(State.stack) \in Nat /\ Len(s.stack) = Len(State.stack) - 1
      /\ f.fn # "output" => Safe(s)
  BY <1>2, PopSound, StateFieldsOf DEF Inv, Safe
<1>4. /\ f.fn = "header" => Len(State.stack) > 1 /\ Top(s).fn = "output"
      /\ f.fn = "body" => Len(State.stack) > 1 /\ Top(s).fn = "filter"
      /\ f.fn \in Deciding => Len(State.stack) = 1 /\ ~Undecided(State)
  BY <1>2, TopProperties DEF Inv, Safe
<1>5. f.fn \in Deciding => Bare(s)
  <2> SUFFICES ASSUME f.fn \in Deciding PROVE Bare(s)
    OBVIOUS
  <2>1. Len(s.stack) = 0
    BY <1>3, <1>4
  <2>2. ~r.failed /\ r.body # "reading" /\ r.phase # "rewrite"
    BY <1>4, StateFieldsOf DEF Inv, Safe, Sound, Closed
  <2> QED BY <1>3, <2>1, <2>2 DEF Bare, Sound
<1>6. Safe(s)
  BY <1>2, <1>3 DEF ScriptFns
<1>7. Alike(State, s)
  BY <1>3, StateFieldsOf DEF Alike
<1>8. Len(State.stack) > 1 => Len(s.stack) > 0
  BY <1>3
<1> HIDE DEF s
<1>9. ASSUME NEW t, Become(t), Safe(t), Same(s, t) \/ Goes(s, t) \/ Decides(s, t)
      PROVE  Inv' /\ Granted
  <2>1. Decides(s, t)
    BY <1>9, GoesDecides DEF Same, Decides
  <2> QED BY <1>7, <1>9, <2>1, AlikeDecides, BecomeSafe, BecomeGranted
<1> HIDE DEF f
<1>10. CASE f.fn = "access"
  <2> DEFINE t == AccessReturned(s, threw, read)
  <2>1. Become(t)
    BY <1>1, <1>10
  <2>2. Safe(t) /\ Decides(s, t)
    BY <1>5, <1>10, AccessReturnedSound DEF Deciding
  <2> HIDE DEF t
  <2> QED BY <2>1, <2>2, <1>9
<1>11. CASE f.fn = "content"
  <2> DEFINE t == ContentReturned(s, threw)
  <2>1. Become(t)
    BY <1>1, <1>11
  <2>2. Safe(t) /\ Goes(s, t)
    BY <1>6, ContentReturnedSound
  <2> HIDE DEF t
  <2> QED BY <2>1, <2>2, <1>9
<1>12. CASE f.fn = "header"
  <2> DEFINE t == HeaderReturned(s, f, threw)
  <2>1. Become(t)
    BY <1>1, <1>12
  <2>2. Safe(t) /\ Same(s, t)
    BY <1>4, <1>6, <1>8, <1>12, HeaderReturnedSound DEF Sending
  <2> HIDE DEF t
  <2> QED BY <2>1, <2>2, <1>9
<1>13. CASE f.fn = "body"
  <2> DEFINE t == BodyReturned(s, f, threw)
  <2>1. Become(t)
    BY <1>1, <1>13
  <2>2. Safe(t) /\ Same(s, t)
    BY <1>4, <1>6, <1>8, <1>13, BodyReturnedSound
  <2> HIDE DEF t
  <2> QED BY <2>1, <2>2, <1>9
<1>14. CASE f.fn = "timer"
  <2> DEFINE t == TimerReturned(s, f.id, threw)
  <2>1. Become(t)
    BY <1>1, <1>14
  <2>2. Safe(t) /\ Same(s, t)
    BY <1>6, EventReturnedSound
  <2> HIDE DEF t
  <2> QED BY <2>1, <2>2, <1>9
<1>15. CASE f.fn = "reply"
  <2> DEFINE t == ReplyReturned(s, f.id)
  <2>1. Become(t)
    BY <1>1, <1>15
  <2>2. Safe(t) /\ Same(s, t)
    BY <1>6, EventReturnedSound
  <2> HIDE DEF t
  <2> QED BY <2>1, <2>2, <1>9
<1>16. CASE f.fn = "resolve"
  <2> DEFINE t == BodyResolved(s, f.id, read)
  <2>1. Become(t)
    BY <1>1, <1>16
  <2>2. Safe(t) /\ Decides(s, t)
    BY <1>5, <1>16, BodyResolvedSound DEF Deciding
  <2> HIDE DEF t
  <2> QED BY <2>1, <2>2, <1>9
<1>17. CASE f.fn = "variable"
  <2> DEFINE t == VariableReturned(s, f, threw)
  <2>1. Become(t)
    BY <1>1, <1>17
  <2>2. Safe(t) /\ Goes(s, t)
    BY <1>6, VariableReturnedSound
  <2> HIDE DEF t
  <2> QED BY <2>1, <2>2, <1>9
<1> QED BY <1>2, <1>10, <1>11, <1>12, <1>13, <1>14, <1>15, <1>16, <1>17 DEF ScriptFns

LEMMA CodeRunsStep ==
    ASSUME Inv, CodeRuns
    PROVE  Inv' /\ Granted
<1> DEFINE f == Top(State)
<1>1. PICK slow \in BOOLEAN :
         Become(CASE f.fn = "output" -> OutputTurn(State, slow)
                  [] f.fn = "filter" -> FilterTurn(State, slow)
                  [] f.fn = "phase" -> FinalizeConnection(Pop(State)))
  BY DEF CodeRuns
<1>2. Len(State.stack) > 0 /\ f.fn \notin ScriptFns
  BY ActiveStack DEF CodeRuns
<1>3. f.fn \in Functions_ /\ Safe(State)
  BY <1>2, TopProperties DEF Inv, Safe
<1>4. CASE f.fn = "output"
  <2> DEFINE t == OutputTurn(State, slow)
  <2>1. Become(t)
    BY <1>1, <1>4
  <2>2. Safe(t) /\ Same(State, t)
    BY <1>2, <1>3, <1>4, OutputTurnSound DEF Sending
  <2> HIDE DEF t
  <2> QED BY <2>1, <2>2, BecomeSafe, BecomeGranted
<1>5. CASE f.fn = "filter"
  <2> DEFINE t == FilterTurn(State, slow)
  <2>1. Become(t)
    BY <1>1, <1>5
  <2>2. Safe(t) /\ Same(State, t)
    BY <1>2, <1>3, <1>5, FilterTurnSound
  <2> HIDE DEF t
  <2> QED BY <2>1, <2>2, BecomeSafe, BecomeGranted
<1>6. CASE f.fn = "phase"
  <2> DEFINE p == Pop(State)
             t == FinalizeConnection(p)
  <2>1. Become(t)
    BY <1>1, <1>6
  <2>2. Safe(p) /\ Same(State, p)
    BY <1>2, <1>3, <1>6, PopSound DEF Safe
  <2> HIDE DEF p
  <2>3. Keeps(p, t)
    BY <2>2, FinalizeConnectionSound DEF Safe
  <2> HIDE DEF t
  <2>4. Safe(t) /\ Same(State, t)
    BY <2>2, <2>3, KeepsSound DEF Same
  <2> QED BY <2>1, <2>4, BecomeSafe, BecomeGranted
<1> HIDE DEF f
<1> QED BY <1>2, <1>3, <1>4, <1>5, <1>6 DEF Functions_

LEMMA RunPostedStep ==
    ASSUME Inv, RunPosted
    PROVE  Inv' /\ Granted
<1> DEFINE u == [State EXCEPT !.r.run = FALSE]
           s == [State EXCEPT !.r.posted = @ - 1]
<1>1. PICK read \in Reads :
         Become(IF r.posted = 0 THEN u ELSE WriteEventHandler(s, read))
  BY DEF RunPosted
<1>2. Len(State.stack) = 0 /\ Safe(State)
  BY IdleStack DEF RunPosted, Inv
<1>3. CASE r.posted = 0
  <2>1. Become(u)
    BY <1>1, <1>3
  <2>2. Safe(u) /\ Goes(State, u)
    BY <1>2, RequestKeeps, KeepsSound
  <2> HIDE DEF u
  <2> QED BY <2>1, <2>2, BecomeSafe, BecomeGranted
<1>4. CASE r.posted # 0
  <2> DEFINE t == WriteEventHandler(s, read)
  <2>1. Become(t)
    BY <1>1, <1>4
  <2>2. Keeps(State, s) /\ Alike(State, s)
    BY <1>2, RequestKeeps
  <2> HIDE DEF s
  <2>3. Safe(s) /\ Len(s.stack) = 0
    BY <1>2, <2>2, KeepsSound DEF Keeps
  <2>4. Safe(t) /\ Decides(s, t)
    BY <2>3, WriteEventHandlerSound
  <2> HIDE DEF t
  <2>5. Decides(State, t)
    BY <2>2, <2>4, AlikeDecides
  <2> QED BY <2>1, <2>4, <2>5, BecomeSafe, BecomeGranted
<1> QED BY <1>3, <1>4

LEMMA ConnectionStep ==
    ASSUME Inv, ConnectionEvent \/ ClientCloses
    PROVE  Inv' /\ Granted
<1> DEFINE u == [State EXCEPT !.r.run = TRUE]
           v == [State EXCEPT !.r.error = TRUE]
<1>1. Become(u) \/ Become(v)
  BY DEF ConnectionEvent, ClientCloses
<1>2. Safe(u) /\ Goes(State, u) /\ Safe(v) /\ Goes(State, v)
  BY RequestKeeps, KeepsSound DEF Inv
<1> HIDE DEF u, v
<1> QED BY <1>1, <1>2, BecomeSafe, BecomeGranted

LEMMA TimerFiresStep ==
    ASSUME Inv, TimerFires
    PROVE  Inv' /\ Granted
<1>1. PICK e : Become(Push(State, [Frame("timer") EXCEPT !.id = e.id]))
  BY DEF TimerFires
<1> DEFINE f == [Frame("timer") EXCEPT !.id = e.id]
           t == Push(State, f)
<1>2. Become(t)
  BY <1>1
<1>3. DOMAIN f = FrameFields /\ f.fn = "timer"
  BY FrameProperties
<1> HIDE DEF f
<1>4. Fits(State, f)
  BY <1>3 DEF Fits, Functions_, ScriptFns, Deciding
<1>5. Safe(t) /\ Same(State, t)
  BY <1>4, PushSound DEF Inv, Safe
<1> HIDE DEF t
<1> QED BY <1>2, <1>5, BecomeSafe, BecomeGranted

LEMMA SubrequestDoneStep ==
    ASSUME Inv, SubrequestDone
    PROVE  Inv' /\ Granted
<1> DEFINE s == [State EXCEPT !.r.run = TRUE]
<1>1. PICK id \in r.subs, rc \in {"OK", "ERROR"} :
         Become(IF rc = "ERROR" \/ r.error THEN Terminate(s)
                ELSE Push(s, [Frame("reply") EXCEPT !.id = id]))
  BY DEF SubrequestDone
<1>2. Safe(s) /\ Goes(State, s)
  BY RequestKeeps, KeepsSound DEF Inv
<1> HIDE DEF s
<1>3. CASE rc = "ERROR" \/ r.error
  <2> DEFINE t == Terminate(s)
  <2>1. Become(t)
    BY <1>1, <1>3
  <2>2. Safe(t) /\ Goes(s, t)
    BY <1>2, TerminateSound, KeepsSound DEF Safe
  <2> HIDE DEF t
  <2>3. Goes(State, t)
    BY <1>2, <2>2 DEF Goes
  <2> QED BY <2>1, <2>2, <2>3, BecomeSafe, BecomeGranted
<1>4. CASE ~(rc = "ERROR" \/ r.error)
  <2> DEFINE f == [Frame("reply") EXCEPT !.id = id]
             t == Push(s, f)
  <2>1. Become(t)
    BY <1>1, <1>4
  <2>2. DOMAIN f = FrameFields /\ f.fn = "reply"
    BY FrameProperties
  <2> HIDE DEF f
  <2>3. Fits(s, f)
    BY <2>2 DEF Fits, Functions_, ScriptFns, Deciding
  <2>4. Safe(t) /\ Same(s, t)
    BY <1>2, <2>3, PushSound DEF Safe
  <2> HIDE DEF t
  <2>5. Same(State, t)
    BY <1>2, <2>4 DEF Goes, Same
  <2> QED BY <2>1, <2>4, <2>5, BecomeSafe, BecomeGranted
<1> QED BY <1>3, <1>4

LEMMA DetachedDoneStep ==
    ASSUME Inv, DetachedDone
    PROVE  Inv' /\ Granted
<1> DEFINE s == [State EXCEPT !.r.detached = @ - 1, !.r.run = TRUE]
           t == FinalizeConnection(s)
<1>1. Become(t)
  BY DEF DetachedDone
<1>2. Keeps(State, s) /\ Goes(State, s)
  BY DEF Keeps, Goes, Inv, Safe, Sound, Shaped, StateFields, RequestFields
<1> HIDE DEF s
<1>3. Safe(s)
  BY <1>2, KeepsSound DEF Inv
<1>4. Safe(t) /\ Goes(s, t)
  BY <1>3, FinalizeConnectionSound, KeepsSound DEF Safe
<1> HIDE DEF t
<1>5. Goes(State, t)
  BY <1>2, <1>4 DEF Goes
<1> QED BY <1>1, <1>4, <1>5, BecomeSafe, BecomeGranted

LEMMA BodyComesStep ==
    ASSUME Inv, BodyComes
    PROVE  Inv' /\ Granted
<1> DEFINE s == [State EXCEPT !.r.body = "read", !.r.run = TRUE]
<1>1. PICK rc \in {"OK", "ERROR"}, collect \in {"ok", "error"} :
         Become(IF rc = "ERROR" THEN FinalizeRequest(s, "413")
                ELSE IF r.phase = "access" THEN AccessBodyDone(s, collect)
                ELSE ContentEventHandler(s))
  BY DEF BodyComes
<1>2. stack = <<>> /\ r.body = "reading"
  BY DEF BodyComes, Idle
<1>3. /\ Shaped(State) /\ ~r.failed /\ r.phase # "rewrite" /\ Len(State.stack) = 0
  BY <1>2, IdleStack, StateFieldsOf DEF Inv, Safe, Sound, Closed
<1>4. Bare(s) /\ Same(State, s)
  BY <1>3, StateFieldsOf DEF Bare, Same, Shaped, StateFields, RequestFields
<1> HIDE DEF s
<1>5. CASE rc = "ERROR"
  <2> DEFINE t == FinalizeRequest(s, "413")
  <2>1. Become(t)
    BY <1>1, <1>5
  <2>2. Safe(t) /\ Goes(s, t)
    BY <1>4, BareSafe, FinalizeRequestSound DEF Safe
  <2> HIDE DEF t
  <2>3. Same(State, t)
    BY <1>4, <2>2 DEF Goes, Same
  <2> QED BY <2>1, <2>2, <2>3, BecomeSafe, BecomeGranted
<1>6. CASE rc # "ERROR" /\ r.phase = "access"
  <2> DEFINE t == AccessBodyDone(s, collect)
  <2>1. Become(t)
    BY <1>1, <1>6
  <2>2. Safe(t) /\ t.r.granted = s.r.granted
    BY <1>4, AccessBodyDoneSound
  <2> HIDE DEF t
  <2>3. Same(State, t)
    BY <1>4, <2>2 DEF Same
  <2> QED BY <2>1, <2>2, <2>3, BecomeSafe, BecomeGranted
<1>7. CASE rc # "ERROR" /\ r.phase # "access"
  <2> DEFINE t == ContentEventHandler(s)
  <2>1. Become(t)
    BY <1>1, <1>7
  <2>2. Safe(t) /\ Goes(s, t)
    BY <1>4, BareSafe, ContentEventHandlerSound
  <2> HIDE DEF t
  <2>3. Same(State, t)
    BY <1>4, <2>2 DEF Goes, Same
  <2> QED BY <2>1, <2>2, <2>3, BecomeSafe, BecomeGranted
<1> QED BY <1>5, <1>6, <1>7

LEMMA ClientReadsStep ==
    ASSUME Inv, ClientReads
    PROVE  Inv' /\ Granted
<1> DEFINE s == [State EXCEPT !.r.buffered = FALSE, !.r.run = TRUE]
           u == [State EXCEPT !.r.run = TRUE]
<1>1. PICK timedout \in BOOLEAN :
         Become(IF timedout THEN Terminate(u) ELSE WriteEventHandler(s, "sync"))
  BY DEF ClientReads
<1>2. Len(State.stack) = 0 /\ Safe(State)
  BY IdleStack DEF ClientReads, Idle, Inv
<1>3. CASE timedout
  <2> DEFINE t == Terminate(u)
  <2>1. Become(t)
    BY <1>1, <1>3
  <2>2. Safe(u) /\ Goes(State, u)
    BY <1>2, RequestKeeps, KeepsSound
  <2> HIDE DEF u
  <2>3. Safe(t) /\ Goes(u, t)
    BY <2>2, TerminateSound, KeepsSound DEF Safe
  <2> HIDE DEF t
  <2>4. Goes(State, t)
    BY <2>2, <2>3 DEF Goes
  <2> QED BY <2>1, <2>3, <2>4, BecomeSafe, BecomeGranted
<1>4. CASE ~timedout
  <2> DEFINE t == WriteEventHandler(s, "sync")
  <2>1. Become(t)
    BY <1>1, <1>4
  <2>2. Keeps(State, s) /\ Alike(State, s)
    BY <1>2, RequestKeeps
  <2> HIDE DEF s
  <2>3. Safe(s) /\ Len(s.stack) = 0
    BY <1>2, <2>2, KeepsSound DEF Keeps
  <2>4. Safe(t) /\ Decides(s, t)
    BY <2>3, WriteEventHandlerSound
  <2> HIDE DEF t
  <2>5. Decides(State, t)
    BY <2>2, <2>4, AlikeDecides
  <2> QED BY <2>1, <2>4, <2>5, BecomeSafe, BecomeGranted
<1> QED BY <1>3, <1>4

LEMMA NextSafe ==
    ASSUME Inv, [Next]_vars
    PROVE  Inv' /\ (Granted \/ UNCHANGED vars)
<1>1. CASE RewriteVariable
  BY <1>1, RewriteVariableStep
<1>2. CASE RunPhases
  BY <1>2, RunPhasesStep
<1>3. CASE ScriptCalls
  BY <1>3, ScriptCallsStep
<1>4. CASE ScriptRejects
  BY <1>4, ScriptRejectsStep
<1>5. CASE ScriptReadsVariable
  BY <1>5, ScriptReadsVariableStep
<1>6. CASE ScriptReturns
  BY <1>6, ScriptReturnsStep
<1>7. CASE CodeRuns
  BY <1>7, CodeRunsStep
<1>8. CASE RunPosted
  BY <1>8, RunPostedStep
<1>9. CASE ConnectionEvent \/ ClientCloses
  BY <1>9, ConnectionStep
<1>10. CASE TimerFires
  BY <1>10, TimerFiresStep
<1>11. CASE SubrequestDone
  BY <1>11, SubrequestDoneStep
<1>12. CASE DetachedDone
  BY <1>12, DetachedDoneStep
<1>13. CASE BodyComes
  BY <1>13, BodyComesStep
<1>14. CASE ClientReads
  BY <1>14, ClientReadsStep
<1>15. CASE UNCHANGED vars
  BY <1>15 DEF vars, Inv, State
<1> QED BY <1>1, <1>2, <1>3, <1>4, <1>5, <1>6, <1>7, <1>8, <1>9, <1>10, <1>11, <1>12,
           <1>13, <1>14, <1>15 DEF Next, Steps

-----------------------------------------------------------------------------
(* The theorems.                                                           *)

\* Whatever the scripts of a location call, the function of the access phase
\* and its wait for the body are the outermost call in progress, filters are
\* called by those that send, and nothing can decide after it failed.
THEOREM InvHolds == Spec => []Inv
<1>1. Inv /\ [Next]_vars => Inv'
  BY NextSafe
<1> QED BY InitSafe, <1>1, PTL DEF Spec

\* A request passes the access phase only when the js_access function and
\* everything it waits for are over, it did not throw, and it neither answered
\* nor redirected the request (ngx_http_js_access_handler,
\* ngx_http_js_access_write_event_handler, ngx_http_js_access_finalize).
THEOREM AccessAlwaysDecides == Spec => AccessDecides
<1>1. Inv /\ [Next]_vars =>
         [~r.granted /\ r'.granted /\ r.loc.access =>
            /\ ctx'.events = {} /\ ~r'.failed
            /\ ~r.headerSent /\ ctx.redirect = "none"
            /\ ctx.status \in {"OK", "DECLINED"}]_vars
  BY NextSafe DEF Granted
<1> QED BY InvHolds, <1>1, PTL DEF Spec, AccessDecides

-----------------------------------------------------------------------------
(* Both engines.                                                           *)

\* The arguments that both engines take for the same: QuickJS converts the
\* delay of a timer, takes an empty uri, resets the flags that sendBuffer()'s
\* options leave out, makes text of null, and takes null for no callback.
Comparable(op) ==
    /\ op.name = "setTimeout" => op.b # "symbol"
    /\ op.name = "internalRedirect" => op.a \notin Nullish \cup {""}
    /\ op.name = "sendBuffer" =>
          /\ op.a \notin Nullish
          /\ \/ op.b = "none" /\ op.c = "none"
             \/ {op.b, op.c} \cap {"none", "absent"} = {}
    /\ op.name = "subrequest" => op.b # "null"

LEMMA TimersAgree ==
    ASSUME NEW s, NEW op, Comparable(op)
    PROVE  /\ op.name = "setTimeout" => NjsSetTimeout(s, op) = QjsSetTimeout(s, op)
           /\ NjsClearTimeout(s, op) = QjsClearTimeout(s, op)
BY DEF Comparable, NjsSetTimeout, QjsSetTimeout, NjsClearTimeout, QjsClearTimeout

LEMMA SendsAgree ==
    ASSUME NEW s, NEW op
    PROVE  NjsSend(s, op) = QjsSend(s, op)
<1> DEFINE parts == [i \in DOMAIN op.a |-> QjsString(op.a[i])]
           sent == {i \in DOMAIN op.a : NjsString(op.a[i]) # ""}
           chain == [i \in 1..Cardinality(sent) |-> Buf(1, FALSE, FALSE)]
<1>1. \A v : NjsString(v) = QjsString(v)
  BY DEF NjsString, QjsString
<1>2. {i \in DOMAIN parts : parts[i] # ""} = sent
  BY <1>1
<1>3. (\E i \in DOMAIN parts : parts[i] = "bad")
         <=> (\E i \in sent : NjsString(op.a[i]) = "bad")
  BY <1>1
<1>4. NjsSend(s, op) =
          IF s.ctx.filter \/ \E i \in sent : NjsString(op.a[i]) = "bad"
          THEN Throws(s) ELSE Outputs(s, FALSE, chain, "send")
  BY DEF NjsSend
<1>5. QjsSend(s, op) =
          IF s.ctx.filter THEN Throws(s)
          ELSE IF \E i \in DOMAIN parts : parts[i] = "bad" THEN Throws(s)
          ELSE Outputs(s, FALSE, chain, "send")
  BY <1>2 DEF QjsSend
<1> HIDE DEF parts, sent, chain
<1>6. CASE s.ctx.filter
  BY <1>4, <1>5, <1>6
<1>7. CASE ~s.ctx.filter /\ \E i \in sent : NjsString(op.a[i]) = "bad"
  BY <1>3, <1>4, <1>5, <1>7
<1>8. CASE ~s.ctx.filter /\ ~\E i \in sent : NjsString(op.a[i]) = "bad"
  BY <1>3, <1>4, <1>5, <1>8
<1> QED BY <1>6, <1>7, <1>8

LEMMA AnswersAgree ==
    ASSUME NEW s, NEW op, Comparable(op)
    PROVE  /\ NjsReturn(s, op) = QjsReturn(s, op)
           /\ NjsDecline(s, op) = QjsDecline(s, op)
           /\ NjsSendHeader(s, op) = QjsSendHeader(s, op)
           /\ NjsFinish(s, op) = QjsFinish(s, op)
           /\ op.name = "internalRedirect" =>
                 NjsInternalRedirect(s, op) = QjsInternalRedirect(s, op)
           /\ NjsSetReturnValue(s, op) = QjsSetReturnValue(s, op)
<1>1. /\ \A v : NjsString(v) = QjsString(v)
      /\ \A v : NjsInteger(v) = QjsInteger(v)
  BY DEF NjsString, QjsString, NjsInteger, QjsInteger
<1>2. NjsReturn(s, op) = QjsReturn(s, op)
  BY <1>1 DEF NjsReturn, QjsReturn
<1>3. op.name = "internalRedirect" =>
          NjsInternalRedirect(s, op) = QjsInternalRedirect(s, op)
  <2> SUFFICES ASSUME op.name = "internalRedirect"
               PROVE  NjsInternalRedirect(s, op) = QjsInternalRedirect(s, op)
    OBVIOUS
  <2>1. NjsString(op.a) # "" /\ QjsString(op.a) # ""
    BY DEF Comparable, NjsString, QjsString
  <2>2. CASE s.ctx.filter
    BY <2>2 DEF NjsInternalRedirect, QjsInternalRedirect
  <2>3. CASE ~s.ctx.filter /\ NjsString(op.a) = "bad"
    BY <1>1, <2>3 DEF NjsInternalRedirect, QjsInternalRedirect
  <2>4. CASE ~s.ctx.filter /\ NjsString(op.a) # "bad"
    <3>1. QjsString(op.a) # "bad"
      BY <1>1, <2>4
    <3>2. QjsInternalRedirect(s, op) =
              Does([s EXCEPT !.ctx.redirect = op.a, !.ctx.status = "DONE"])
      BY <2>1, <2>4, <3>1 DEF QjsInternalRedirect
    <3> QED BY <2>1, <2>4, <3>2 DEF NjsInternalRedirect
  <2> QED BY <2>2, <2>3, <2>4
<1>4. /\ NjsDecline(s, op) = QjsDecline(s, op)
      /\ NjsSendHeader(s, op) = QjsSendHeader(s, op)
      /\ NjsFinish(s, op) = QjsFinish(s, op)
      /\ NjsSetReturnValue(s, op) = QjsSetReturnValue(s, op)
  BY DEF NjsDecline, QjsDecline, NjsSendHeader, QjsSendHeader, NjsFinish, QjsFinish,
         NjsSetReturnValue, QjsSetReturnValue
<1> QED BY ONLY <1>2, <1>3, <1>4

LEMMA FilterMethodsAgree ==
    ASSUME NEW s, NEW op, Comparable(op)
    PROVE  /\ NjsDone(s, op) = QjsDone(s, op)
           /\ op.name = "sendBuffer" => NjsSendBuffer(s, op) = QjsSendBuffer(s, op)
<1>1. NjsDone(s, op) = QjsDone(s, op)
  BY DEF NjsDone, QjsDone
<1>2. op.name = "sendBuffer" => NjsSendBuffer(s, op) = QjsSendBuffer(s, op)
  <2> SUFFICES ASSUME op.name = "sendBuffer"
               PROVE  NjsSendBuffer(s, op) = QjsSendBuffer(s, op)
    OBVIOUS
  <2>1. NjsString(op.a) = op.a
    BY DEF Comparable, NjsString
  <2>2. CASE op.b = "none" /\ op.c = "none"
    BY <2>1, <2>2 DEF NjsSendBuffer, QjsSendBuffer
  <2>3. CASE {op.b, op.c} \cap {"none", "absent"} = {}
    <3>1. op.b \notin {"none", "absent"} /\ op.c \notin {"none", "absent"}
      BY <2>3
    <3> QED BY <2>1, <3>1 DEF NjsSendBuffer, QjsSendBuffer
  <2> QED BY <2>2, <2>3 DEF Comparable
<1> QED BY <1>1, <1>2

LEMMA BodyMethodsAgree ==
    ASSUME NEW s, s.ctx.requestBody \in Kept, NEW op
    PROVE  /\ NjsReadRequestBody(s, op) = QjsReadRequestBody(s, op)
           /\ NjsReadRequestForm(s, op) = QjsReadRequestForm(s, op)
           /\ op.a \in {"text", "buffer"} =>
                 NjsGetRequestBody(s, op) = QjsGetRequestBody(s, op)
<1>1. \A t : NjsBodyToValue(t, op) = QjsBodyToValue(t, op)
  BY DEF NjsBodyToValue, QjsBodyToValue
<1>2. NjsReadRequestBody(s, op) = QjsReadRequestBody(s, op)
  BY <1>1 DEF NjsReadRequestBody, QjsReadRequestBody
<1>3. NjsReadRequestForm(s, op) = QjsReadRequestForm(s, op)
  BY <1>1 DEF NjsReadRequestForm, QjsReadRequestForm, NjsFormMaxKeys, QjsFormMaxKeys
<1>4. ASSUME op.a \in {"text", "buffer"}
      PROVE  NjsGetRequestBody(s, op) = QjsGetRequestBody(s, op)
  <2>1. s.ctx.requestBody = op.a
           <=> /\ (op.a = "text") = (s.ctx.requestBody = "text")
               /\ s.ctx.requestBody # "null"
    BY <1>4 DEF Kept
  <2> QED BY <2>1 DEF NjsGetRequestBody, QjsGetRequestBody
<1> QED BY <1>2, <1>3, <1>4

LEMMA SubrequestsAgree ==
    ASSUME NEW s, NEW op, Comparable(op), op.name = "subrequest"
    PROVE  NjsSubrequest(s, op) = QjsSubrequest(s, op)
BY DEF Comparable, NjsSubrequest, QjsSubrequest, Nullish

\* Every method, wherever it is called.
LEMMA MethodsAgree ==
    ASSUME NEW s, s.ctx.requestBody \in Kept, NEW op \in Calls, Comparable(op)
    PROVE  Njs(s, op) = Qjs(s, op)
<1>1. /\ op.name \in Methods
      /\ op.name = "requestBody" => op.a \in {"text", "buffer"}
  BY CallsAssumption
<1>2. CASE op.name = "setTimeout"
  BY <1>2, TimersAgree DEF Njs, Qjs
<1>3. CASE op.name = "clearTimeout"
  BY <1>3, TimersAgree DEF Njs, Qjs
<1>4. CASE op.name = "return"
  BY <1>4, AnswersAgree DEF Njs, Qjs
<1>5. CASE op.name = "decline"
  BY <1>5, AnswersAgree DEF Njs, Qjs
<1>6. CASE op.name = "sendHeader"
  BY <1>6, AnswersAgree DEF Njs, Qjs
<1>7. CASE op.name = "send"
  BY <1>7, SendsAgree DEF Njs, Qjs
<1>8. CASE op.name = "finish"
  BY <1>8, AnswersAgree DEF Njs, Qjs
<1>9. CASE op.name = "internalRedirect"
  BY <1>9, AnswersAgree DEF Njs, Qjs
<1>10. CASE op.name = "setReturnValue"
  BY <1>10, AnswersAgree DEF Njs, Qjs
<1>11. CASE op.name = "done"
  BY <1>11, FilterMethodsAgree DEF Njs, Qjs
<1>12. CASE op.name = "sendBuffer"
  BY <1>12, FilterMethodsAgree DEF Njs, Qjs
<1>13. CASE op.name = "readRequest"
  BY <1>13, BodyMethodsAgree DEF Njs, Qjs
<1>14. CASE op.name = "readRequestForm"
  BY <1>14, BodyMethodsAgree DEF Njs, Qjs
<1>15. CASE op.name = "requestBody"
  BY <1>1, <1>15, BodyMethodsAgree DEF Njs, Qjs
<1>16. CASE op.name = "subrequest"
  BY <1>16, SubrequestsAgree DEF Njs, Qjs
<1> QED BY ONLY <1>1, <1>2, <1>3, <1>4, <1>5, <1>6, <1>7, <1>8, <1>9, <1>10, <1>11, <1>12,
                <1>13, <1>14, <1>15, <1>16 DEF Methods

\* Wherever a script is, a call with arguments that both engines take for the
\* same does the same with both: what it leaves behind in the context, in the
\* request and in the calls in progress, and whether it throws
\* (ngx_http_js_ext_* and ngx_http_qjs_ext_*).
THEOREM EnginesAlwaysAgree ==
    ASSUME \A op \in Calls : Comparable(op)
    PROVE  Spec => []EnginesAgree
<1>1. Inv => EnginesAgree
  <2> SUFFICES ASSUME Inv, NEW op \in Calls
               PROVE  Njs(State, op) = Qjs(State, op)
    BY DEF EnginesAgree
  <2>1. State.ctx.requestBody \in Kept
    BY DEF Inv, Safe, Sound, Shaped
  <2> QED BY <2>1, MethodsAgree
<1> QED BY <1>1, InvHolds, PTL

====
