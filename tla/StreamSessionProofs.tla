------------------------ MODULE StreamSessionProofs ------------------------
(***************************************************************************)
(* Proofs about stream sessions: what no callback took goes on once and in *)
(* order, phases pass only when the script has decided, and what a phase   *)
(* waits for, for every server, every call and every number of chunks.     *)
(*                                                                         *)
(* A direction is described by what has gone out (o), what the filter that *)
(* runs has put into its chain (b), the buffers it has still to see (w),   *)
(* the number of chunks that came (c), the chunks callbacks took (T) and   *)
(* whether a callback is looking at the head of w (cb).  Flowing relates   *)
(* them; the lemmas say how each operation moves data between them.        *)
(***************************************************************************)
EXTENDS StreamSession, SequenceTheorems, FiniteSetTheorems, TLAPS

-----------------------------------------------------------------------------
(* Data in sequences of units.                                             *)

Buf == [id : Int, flush : BOOLEAN, last : BOOLEAN]

Up(q) == \A i, j \in 1..Len(q) : i < j /\ q[i] > 0 /\ q[j] > 0 => q[i] < q[j]

Data(q) == {q[i] : i \in {j \in 1..Len(q) : q[j] > 0}}

Before(q, r) == \A x \in Data(q), y \in Data(r) : x < y

Flowing(o, b, w, c, T, cb) ==
    /\ o \in Seq(Int) /\ b \in Seq(Int) /\ w \in Seq(Buf)
    /\ T \subseteq Nat
    /\ Up(o) /\ Up(b) /\ Before(o, b)
    /\ \E k \in Nat :
         /\ c = k + Len(w)
         /\ \A i \in 1..Len(w) : w[i].id = k + i
         /\ Data(o) \cup Data(b) = (1..k) \ T
         /\ IF cb THEN w # <<>> /\ k + 1 \in T /\ \A t \in T : t <= k + 1
                  ELSE \A t \in T : t <= k

\* One sequence after another that it may follow.
LEMMA ConcatUp ==
    ASSUME NEW q \in Seq(Int), NEW r \in Seq(Int), Up(q), Up(r), Before(q, r)
    PROVE  /\ q \o r \in Seq(Int)
           /\ Up(q \o r)
           /\ Data(q \o r) = Data(q) \cup Data(r)
<1> DEFINE m == Len(q)
           z == Len(r)
           p == q \o r
<1>1. m \in Nat /\ z \in Nat
  BY LenProperties
<1>2. /\ p \in Seq(Int) /\ Len(p) = m + z
      /\ \A i \in 1..(m + z) : p[i] = IF i <= m THEN q[i] ELSE r[i - m]
  BY ConcatProperties
<1>3. /\ \A i \in 1..m : q[i] \in Int
      /\ \A i \in 1..z : r[i] \in Int
  BY ElementOfSeq
<1>4. Up(p)
  <2> SUFFICES ASSUME NEW i \in 1..Len(p), NEW j \in 1..Len(p),
                      i < j, p[i] > 0, p[j] > 0
               PROVE  p[i] < p[j]
    BY DEF Up
  <2>1. i \in 1..(m + z) /\ j \in 1..(m + z)
    BY <1>2
  <2>2. CASE j <= m
    <3>1. i \in 1..m /\ j \in 1..m
      BY <2>1, <2>2, <1>1
    <3> QED
      BY <3>1, <2>1, <2>2, <1>1, <1>2 DEF Up
  <2>3. CASE i > m
    <3>1. (i - m) \in 1..z /\ (j - m) \in 1..z /\ i - m < j - m
      BY <2>1, <2>3, <1>1
    <3>2. p[i] = r[i - m] /\ p[j] = r[j - m]
      BY <2>1, <2>3, <1>1, <1>2
    <3> QED
      BY <3>1, <3>2 DEF Up
  <2>4. CASE i <= m /\ j > m
    <3>1. i \in 1..m /\ (j - m) \in 1..z
      BY <2>1, <2>4, <1>1
    <3>2. p[i] = q[i] /\ p[j] = r[j - m]
      BY <2>1, <2>4, <1>1, <1>2
    <3>3. q[i] \in Data(q) /\ r[j - m] \in Data(r)
      BY <3>1, <3>2 DEF Data
    <3> QED
      BY <3>2, <3>3 DEF Before
  <2> QED
    BY <2>1, <2>2, <2>3, <2>4, <1>1
<1>5. Data(p) \subseteq Data(q) \cup Data(r)
  <2> SUFFICES ASSUME NEW i \in 1..Len(p), p[i] > 0
               PROVE  p[i] \in Data(q) \cup Data(r)
    BY DEF Data
  <2>1. i \in 1..(m + z)
    BY <1>2
  <2>2. CASE i <= m
    BY <2>1, <2>2, <1>1, <1>2 DEF Data
  <2>3. CASE i > m
    <3>1. (i - m) \in 1..z /\ p[i] = r[i - m]
      BY <2>1, <2>3, <1>1, <1>2
    <3> QED
      BY <3>1 DEF Data
  <2> QED
    BY <2>1, <2>2, <2>3, <1>1
<1>6. Data(q) \subseteq Data(p)
  <2> SUFFICES ASSUME NEW i \in 1..m, q[i] > 0
               PROVE  q[i] \in Data(p)
    BY DEF Data
  <2>1. i \in 1..(m + z) /\ p[i] = q[i]
    BY <1>1, <1>2
  <2> QED
    BY <2>1, <1>2 DEF Data
<1>7. Data(r) \subseteq Data(p)
  <2> SUFFICES ASSUME NEW i \in 1..z, r[i] > 0
               PROVE  r[i] \in Data(p)
    BY DEF Data
  <2>1. (i + m) \in 1..(m + z) /\ ~(i + m <= m) /\ (i + m) - m = i
    BY <1>1
  <2>2. p[i + m] = r[i]
    BY <2>1, <1>2
  <2> QED
    BY <2>1, <2>2, <1>2 DEF Data
<1> HIDE DEF p
<1>8. p \in Seq(Int) /\ Up(p) /\ Data(p) = Data(q) \cup Data(r)
  BY <1>2, <1>4, <1>5, <1>6, <1>7
<1> QED
  BY <1>8 DEF p

\* No data at all.
LEMMA NoData ==
    ASSUME NEW u \in Seq(Int), \A i \in 1..Len(u) : u[i] <= 0
    PROVE  Data(u) = {} /\ Up(u) /\ \A q : Before(q, u) /\ Before(u, q)
<1>1. \A i \in 1..Len(u) : u[i] \in Int
  BY ElementOfSeq
<1>2. Data(u) = {}
  BY <1>1 DEF Data
<1>3. Up(u)
  BY <1>1 DEF Up
<1> QED
  BY <1>2, <1>3 DEF Before

Silent(u) == u \in Seq(Int) /\ \A i \in 1..Len(u) : u[i] <= 0

\* The empty sequence, a mark, and what is put together of such.
LEMMA SilentParts ==
    /\ Silent(<<>>)
    /\ \A x \in Int : x <= 0 => Silent(<<x>>)
    /\ \A u, v : Silent(u) /\ Silent(v) => Silent(u \o v)
<1>1. Silent(<<>>)
  BY DEF Silent
<1>2. ASSUME NEW x \in Int, x <= 0 PROVE Silent(<<x>>)
  BY <1>2 DEF Silent
<1>3. ASSUME NEW u, NEW v, Silent(u), Silent(v) PROVE Silent(u \o v)
  <2> DEFINE m == Len(u)
             z == Len(v)
  <2>1. /\ u \in Seq(Int) /\ v \in Seq(Int)
        /\ m \in Nat /\ z \in Nat
    BY <1>3, LenProperties DEF Silent
  <2>2. /\ u \o v \in Seq(Int) /\ Len(u \o v) = m + z
        /\ \A i \in 1..(m + z) : (u \o v)[i] = IF i <= m THEN u[i] ELSE v[i - m]
    BY <2>1, ConcatProperties
  <2>3. ASSUME NEW i \in 1..(m + z) PROVE (u \o v)[i] <= 0
    <3>1. CASE i <= m
      BY <3>1, <2>1, <2>2, <1>3 DEF Silent
    <3>2. CASE i > m
      <4>1. (i - m) \in 1..z
        BY <3>2, <2>1
      <4> QED
        BY <4>1, <3>2, <2>1, <2>2, <1>3 DEF Silent
    <3> QED
      BY <3>1, <3>2, <2>1
  <2> QED
    BY <2>2, <2>3 DEF Silent
<1> QED
  BY <1>1, <1>2, <1>3

\* The flags of a buffer are not data.
LEMMA MarksSilent ==
    ASSUME NEW flush, NEW last
    PROVE  /\ Silent(IF flush THEN <<FlushMark>> ELSE <<>>)
           /\ Silent(IF last THEN <<LastMark>> ELSE <<>>)
<1>1. Silent(<<>>) /\ Silent(<<FlushMark>>) /\ Silent(<<LastMark>>)
  BY SilentParts DEF FlushMark, LastMark
<1> QED
  BY <1>1

\* What a script sends is not data that came.
LEMMA UnitsSilent ==
    ASSUME NEW len \in Nat, NEW flush, NEW last
    PROVE  Silent(Units(len, flush, last))
<1> DEFINE made == [i \in 1..len |-> Made]
<1>1. Silent(made)
  <2>1. made \in Seq(Int) /\ Len(made) = len
    BY IsASeq DEF Made
  <2> QED
    BY <2>1 DEF Silent, Made
<1> DEFINE a == IF flush THEN <<FlushMark>> ELSE <<>>
           b == IF last THEN <<LastMark>> ELSE <<>>
<1>2. Silent(a) /\ Silent(b)
  BY MarksSilent
<1>3. Units(len, flush, last) = (made \o a) \o b
  BY DEF Units
<1> HIDE DEF made, a, b
<1> QED
  BY <1>1, <1>2, <1>3, SilentParts

\* A chunk that goes on as it came carries its number and nothing else.
LEMMA ChunkData ==
    ASSUME NEW buf \in Buf, buf.id > 0
    PROVE  /\ Chunk(buf) \in Seq(Int)
           /\ Up(Chunk(buf))
           /\ Data(Chunk(buf)) = {buf.id}
<1> DEFINE x == <<buf.id>>
           a == IF buf.flush THEN <<FlushMark>> ELSE <<>>
           b == IF buf.last THEN <<LastMark>> ELSE <<>>
<1>1. x \in Seq(Int) /\ Up(x) /\ Data(x) = {buf.id}
  <2>1. x \in Seq(Int) /\ Len(x) = 1 /\ x[1] = buf.id
    BY DEF Buf
  <2> HIDE DEF x
  <2>2. Up(x)
    BY <2>1 DEF Up
  <2>3. Data(x) = {buf.id}
    BY <2>1 DEF Data
  <2> QED
    BY <2>1, <2>2, <2>3
<1>2. Silent(a) /\ Silent(b)
  BY MarksSilent
<1>3. Chunk(buf) = (x \o a) \o b
  BY DEF Chunk
<1> HIDE DEF x, a, b
<1>4. /\ a \in Seq(Int) /\ Data(a) = {} /\ Up(a) /\ Before(x, a)
  BY <1>2, NoData DEF Silent
<1>5. x \o a \in Seq(Int) /\ Up(x \o a) /\ Data(x \o a) = {buf.id}
  BY <1>1, <1>4, ConcatUp
<1>6. /\ b \in Seq(Int) /\ Data(b) = {} /\ Up(b) /\ Before(x \o a, b)
  BY <1>2, NoData DEF Silent
<1>7. (x \o a) \o b \in Seq(Int) /\ Up((x \o a) \o b)
      /\ Data((x \o a) \o b) = {buf.id}
  BY <1>5, <1>6, ConcatUp
<1> QED
  BY <1>3, <1>7

-----------------------------------------------------------------------------
(* How data moves.                                                         *)

\* A new session: nothing came, nothing went.
LEMMA FlowStart == Flowing(<<>>, <<>>, <<>>, 0, {}, FALSE)
<1>1. Silent(<<>>)
  BY SilentParts
<1>2. Up(<<>>) /\ Before(<<>>, <<>>) /\ Data(<<>>) = {}
  BY <1>1, NoData DEF Silent
<1>3. /\ 0 = 0 + Len(<<>>)
      /\ \A i \in 1..Len(<<>>) : <<>>[i].id = 0 + i
      /\ Data(<<>>) \cup Data(<<>>) = (1..0) \ {}
      /\ \A t \in {} : t <= 0
  BY <1>2
<1> QED
  BY <1>2, <1>3 DEF Flowing

\* A script sends at once.
LEMMA FlowSent ==
    ASSUME NEW o, NEW b, NEW w, NEW c, NEW T, NEW cb,
           Flowing(o, b, w, c, T, cb), NEW u, Silent(u)
    PROVE  Flowing(o \o u, b, w, c, T, cb)
<1>1. /\ o \in Seq(Int) /\ b \in Seq(Int) /\ Up(o) /\ Before(o, b)
  BY DEF Flowing
<1>2. /\ u \in Seq(Int) /\ Data(u) = {} /\ Up(u) /\ Before(o, u)
  BY NoData DEF Silent
<1>3. /\ o \o u \in Seq(Int) /\ Up(o \o u) /\ Data(o \o u) = Data(o)
  <2>1. /\ o \o u \in Seq(Int) /\ Up(o \o u)
        /\ Data(o \o u) = Data(o) \cup Data(u)
    BY <1>1, <1>2, ConcatUp
  <2> QED
    BY <2>1, <1>2
<1>4. Before(o \o u, b)
  BY <1>1, <1>3 DEF Before
<1> QED
  BY <1>3, <1>4 DEF Flowing

\* A script sends into the chain of the filter.
LEMMA FlowAppended ==
    ASSUME NEW o, NEW b, NEW w, NEW c, NEW T, NEW cb,
           Flowing(o, b, w, c, T, cb), NEW u, Silent(u)
    PROVE  Flowing(o, b \o u, w, c, T, cb)
<1>1. /\ o \in Seq(Int) /\ b \in Seq(Int) /\ Up(b) /\ Before(o, b)
  BY DEF Flowing
<1>2. /\ u \in Seq(Int) /\ Data(u) = {} /\ Up(u) /\ Before(b, u)
  BY NoData DEF Silent
<1>3. /\ b \o u \in Seq(Int) /\ Up(b \o u) /\ Data(b \o u) = Data(b)
  <2>1. /\ b \o u \in Seq(Int) /\ Up(b \o u)
        /\ Data(b \o u) = Data(b) \cup Data(u)
    BY <1>1, <1>2, ConcatUp
  <2> QED
    BY <2>1, <1>2
<1>4. Before(o, b \o u)
  BY <1>1, <1>3 DEF Before
<1> QED
  BY <1>3, <1>4 DEF Flowing

\* The chain of the filter goes out.
LEMMA FlowOut ==
    ASSUME NEW o, NEW b, NEW w, NEW c, NEW T, NEW cb,
           Flowing(o, b, w, c, T, cb)
    PROVE  Flowing(o \o b, <<>>, w, c, T, cb)
<1>1. /\ o \in Seq(Int) /\ b \in Seq(Int) /\ Up(o) /\ Up(b) /\ Before(o, b)
  BY DEF Flowing
<1>2. /\ o \o b \in Seq(Int) /\ Up(o \o b)
      /\ Data(o \o b) = Data(o) \cup Data(b)
  BY <1>1, ConcatUp
<1>3. /\ <<>> \in Seq(Int) /\ Data(<<>>) = {} /\ Up(<<>>)
      /\ Before(o \o b, <<>>)
  BY SilentParts, NoData DEF Silent
<1>4. Data(o \o b) \cup Data(<<>>) = Data(o) \cup Data(b)
  BY <1>2, <1>3
<1> QED
  BY <1>2, <1>3, <1>4 DEF Flowing

\* A buffer nobody looks at goes on as it came.
LEMMA FlowChunk ==
    ASSUME NEW o, NEW b, NEW w, NEW c, NEW T,
           Flowing(o, b, w, c, T, FALSE), w # <<>>
    PROVE  Flowing(o, b \o Chunk(Head(w)), Tail(w), c, T, FALSE)
<1> DEFINE h == Head(w)
           r == Tail(w)
           q == Chunk(h)
           z == Len(w)
           m == Len(r)
<1>1. /\ o \in Seq(Int) /\ b \in Seq(Int) /\ w \in Seq(Buf)
      /\ Up(b) /\ Up(o) /\ Before(o, b)
  BY DEF Flowing
<1>2. PICK k \in Nat :
         /\ c = k + z
         /\ \A i \in 1..z : w[i].id = k + i
         /\ Data(o) \cup Data(b) = (1..k) \ T
         /\ \A t \in T : t <= k
  BY DEF Flowing
<1>3. /\ r \in Seq(Buf) /\ h \in Buf /\ h = w[1] /\ m = z - 1
      /\ z \in Nat /\ z > 0 /\ \A i \in 1..m : r[i] = w[i + 1]
  BY <1>1, HeadTailProperties, LenProperties, EmptySeq
<1> HIDE DEF m, z
<1>4. h.id = k + 1
  BY <1>2, <1>3
<1>5. q \in Seq(Int) /\ Up(q) /\ Data(q) = {k + 1}
  BY <1>3, <1>4, ChunkData
<1>6. Before(b, q) /\ Before(o, q)
  BY <1>2, <1>5 DEF Before
<1>7. /\ b \o q \in Seq(Int) /\ Up(b \o q)
      /\ Data(b \o q) = Data(b) \cup {k + 1}
  BY <1>1, <1>5, <1>6, ConcatUp
<1>8. Before(o, b \o q)
  BY <1>1, <1>5, <1>6, <1>7 DEF Before
<1>9. /\ (k + 1) \in Nat
      /\ c = (k + 1) + m
      /\ \A i \in 1..m : r[i].id = (k + 1) + i
      /\ \A t \in T : t <= k + 1
  <2>1. (k + 1) \in Nat /\ c = (k + 1) + m
    BY <1>2, <1>3
  <2>2. ASSUME NEW i \in 1..m PROVE r[i].id = (k + 1) + i
    <3>1. (i + 1) \in 1..z /\ m \in Int
      BY <1>3
    <3>2. r[i] = w[i + 1] /\ w[i + 1].id = k + (i + 1)
      BY <3>1, <1>2, <1>3
    <3>3. i \in Int /\ k + (i + 1) = (k + 1) + i
      BY <3>1
    <3> QED
      BY <3>2, <3>3
  <2>3. ASSUME NEW t \in T, t <= k PROVE t <= k + 1
    <3>1. t \in Nat
      BY DEF Flowing
    <3> QED
      BY <2>3, <3>1
  <2> QED
    BY <2>1, <2>2, <2>3, <1>2
<1>10. Data(o) \cup Data(b \o q) = (1..(k + 1)) \ T
  <2>1. (k + 1) \notin T
    BY <1>2
  <2>2. 1..(k + 1) = (1..k) \cup {k + 1}
    OBVIOUS
  <2> QED
    BY <2>1, <2>2, <1>2, <1>7
<1> HIDE DEF q, r, h
<1>11. Flowing(o, b \o q, r, c, T, FALSE)
  BY <1>1, <1>3, <1>7, <1>8, <1>9, <1>10 DEF Flowing, m
<1> QED
  BY <1>11 DEF q, r, h

\* A callback looks at a buffer.
LEMMA FlowTake ==
    ASSUME NEW o, NEW b, NEW w, NEW c, NEW T,
           Flowing(o, b, w, c, T, FALSE), w # <<>>
    PROVE  Flowing(o, b, w, c, T \cup {Head(w).id}, TRUE)
<1> DEFINE h == Head(w)
           z == Len(w)
<1>1. w \in Seq(Buf) /\ T \subseteq Nat
  BY DEF Flowing
<1>2. PICK k \in Nat :
         /\ c = k + z
         /\ \A i \in 1..z : w[i].id = k + i
         /\ Data(o) \cup Data(b) = (1..k) \ T
         /\ \A t \in T : t <= k
  BY DEF Flowing
<1>3. h = w[1] /\ z \in Nat /\ z > 0
  BY <1>1, HeadTailProperties, LenProperties, EmptySeq
<1> HIDE DEF z
<1>4. h.id = k + 1
  BY <1>2, <1>3
<1>5. Data(o) \cup Data(b) = (1..k) \ (T \cup {k + 1})
  BY <1>2
<1>6. (k + 1) \in T \cup {k + 1} /\ \A t \in T \cup {k + 1} : t <= k + 1
  BY <1>1, <1>2
<1>7. T \cup {k + 1} \subseteq Nat
  BY <1>1
<1> HIDE DEF h
<1>8. Flowing(o, b, w, c, T \cup {h.id}, TRUE)
  BY <1>2, <1>4, <1>5, <1>6, <1>7 DEF Flowing, z
<1> QED
  BY <1>8 DEF h

\* The callback has seen it.
LEMMA FlowTaken ==
    ASSUME NEW o, NEW b, NEW w, NEW c, NEW T,
           Flowing(o, b, w, c, T, TRUE)
    PROVE  w # <<>> /\ Flowing(o, b, Tail(w), c, T, FALSE)
<1> DEFINE r == Tail(w)
           z == Len(w)
           m == Len(r)
<1>1. w \in Seq(Buf) /\ T \subseteq Nat /\ w # <<>>
  BY DEF Flowing
<1>2. PICK k \in Nat :
         /\ c = k + z
         /\ \A i \in 1..z : w[i].id = k + i
         /\ Data(o) \cup Data(b) = (1..k) \ T
         /\ k + 1 \in T
         /\ \A t \in T : t <= k + 1
  BY DEF Flowing
<1>3. /\ r \in Seq(Buf) /\ m = z - 1
      /\ z \in Nat /\ z > 0 /\ \A i \in 1..m : r[i] = w[i + 1]
  BY <1>1, HeadTailProperties, LenProperties, EmptySeq
<1> HIDE DEF m, z
<1>4. (k + 1) \in Nat /\ c = (k + 1) + m
  BY <1>2, <1>3
<1>5. ASSUME NEW i \in 1..m PROVE r[i].id = (k + 1) + i
  <2>1. (i + 1) \in 1..z /\ m \in Int
    BY <1>3
  <2>2. r[i] = w[i + 1] /\ w[i + 1].id = k + (i + 1)
    BY <2>1, <1>2, <1>3
  <2>3. i \in Int /\ k + (i + 1) = (k + 1) + i
    BY <2>1
  <2> QED
    BY <2>2, <2>3
<1>6. Data(o) \cup Data(b) = (1..(k + 1)) \ T
  <2>1. 1..(k + 1) = (1..k) \cup {k + 1}
    OBVIOUS
  <2> QED
    BY <2>1, <1>2
<1> HIDE DEF r
<1>7. Flowing(o, b, r, c, T, FALSE)
  BY <1>2, <1>3, <1>4, <1>5, <1>6 DEF Flowing, m
<1> QED
  BY <1>1, <1>7 DEF r

\* New chunks come.
LEMMA FlowCome ==
    ASSUME NEW o, NEW c, NEW T, Flowing(o, <<>>, <<>>, c, T, FALSE),
           NEW w \in Seq(Buf), \A i \in 1..Len(w) : w[i].id = c + i
    PROVE  Flowing(o, <<>>, w, c + Len(w), T, FALSE)
<1> DEFINE z == Len(w)
<1>1. PICK k \in Nat :
         /\ c = k + Len(<<>>)
         /\ Data(o) \cup Data(<<>>) = (1..k) \ T
         /\ \A t \in T : t <= k
  BY DEF Flowing
<1>2. z \in Nat /\ c = k
  BY <1>1, LenProperties
<1> HIDE DEF z
<1>3. c + z = k + z /\ \A i \in 1..z : w[i].id = k + i
  BY <1>2 DEF z
<1>4. Flowing(o, <<>>, w, c + z, T, FALSE)
  BY <1>1, <1>3 DEF Flowing, z
<1> QED
  BY <1>4 DEF z

\* All that came has gone, but for what callbacks took.
LEMMA FlowEnd ==
    ASSUME NEW o, NEW c, NEW T, Flowing(o, <<>>, <<>>, c, T, FALSE)
    PROVE  /\ o \in Seq(Int) /\ Up(o)
           /\ Data(o) = (1..c) \ T
<1>1. PICK k \in Nat :
         /\ c = k + Len(<<>>)
         /\ Data(o) \cup Data(<<>>) = (1..k) \ T
  BY DEF Flowing
<1>2. Data(<<>>) = {}
  BY SilentParts, NoData DEF Silent
<1>3. c = k
  BY <1>1
<1> QED
  BY <1>1, <1>2, <1>3 DEF Flowing

Joined(q) == SX!FlattenSeq(q)

Joining(q) == CHOOSE h : h = [i \in 1..Len(q) |->
                                IF i = 1 THEN q[i] ELSE h[i - 1] \o q[i]]

\* How the library concatenates sequences.
LEMMA JoinedByChoice ==
    ASSUME NEW q, Len(q) # 0
    PROVE  Joined(q) = Joining(q)[Len(q)]
BY DEF Joined, Joining, SX!FlattenSeq

\* Chunks that pass a session whose engine could not be made.
LEMMA FlowPassed ==
    ASSUME NEW o, NEW c, NEW T, Flowing(o, <<>>, <<>>, c, T, FALSE),
           NEW w \in Seq(Buf), Len(w) \in {1, 2},
           \A i \in 1..Len(w) : w[i].id = c + i
    PROVE  /\ FlattenChunks(w) \in Seq(Int)
           /\ Flowing(o \o FlattenChunks(w), <<>>, <<>>, c + Len(w), T, FALSE)
<1> DEFINE z == c + Len(w)
           t == Tail(w)
<1>0. PICK q : q = [i \in DOMAIN w |-> Chunk(w[i])]
  OBVIOUS
<1>1. /\ Len(q) = Len(w) /\ \A i \in 1..Len(w) : q[i] = Chunk(w[i])
      /\ DOMAIN w = 1..Len(w) /\ Len(w) \in Nat
  <2>1. DOMAIN w = 1..Len(w) /\ Len(w) \in Nat
    BY LenProperties
  <2> QED
    BY <1>0, <2>1, IsASeq
<1>2. FlattenChunks(w) = IF Len(w) = 1 THEN q[1] ELSE q[1] \o q[2]
  <2>1. FlattenChunks(w) = Joined(q)
    BY <1>0 DEF FlattenChunks, Joined
  <2>2. Len(q) \in {1, 2} /\ Len(q) = Len(w)
    BY <1>1
  <2>3. /\ Len(q) = 1 => Joined(q) = q[1]
        /\ Len(q) = 2 => Joined(q) = q[1] \o q[2]
    <3> DEFINE P(h) == h = [i \in 1..Len(q) |->
                               IF i = 1 THEN q[i] ELSE h[i - 1] \o q[i]]
               f == Joining(q)
               g == [i \in 1..Len(q) |-> IF i = 1 THEN q[1] ELSE q[1] \o q[2]]
    <3>1. Joined(q) = f[Len(q)]
      BY <2>2, JoinedByChoice
    <3>2. P(g)
      <4>1. ASSUME NEW i \in 1..Len(q)
            PROVE  g[i] = IF i = 1 THEN q[i] ELSE g[i - 1] \o q[i]
        BY <2>2
      <4> QED
        BY <4>1
    <3>3. P(f)
      <4>1. f = CHOOSE h : P(h)
        BY DEF Joining
      <4> HIDE DEF P, f, g
      <4> QED
        BY <3>2, <4>1
    <3> HIDE DEF f
    <3>4. \A i \in 1..Len(q) : f[i] = IF i = 1 THEN q[i] ELSE f[i - 1] \o q[i]
      BY <3>3
    <3>5. f[1] = q[1]
      BY <2>2, <3>4
    <3>6. Len(q) = 2 => f[2] = f[1] \o q[2]
      BY <3>4
    <3> QED
      BY <3>1, <3>5, <3>6
  <2> QED
    BY <2>1, <2>2, <2>3
<1>3. /\ w # <<>> /\ Head(w) = w[1] /\ t \in Seq(Buf)
      /\ Len(t) = Len(w) - 1 /\ \A i \in 1..Len(t) : t[i] = w[i + 1]
  BY HeadTailProperties, EmptySeq
<1> HIDE DEF z, t
<1>4. Flowing(o, <<>>, w, z, T, FALSE)
  BY FlowCome DEF z
<1>5. Flowing(o, <<>> \o q[1], t, z, T, FALSE)
  <2>1. q[1] = Chunk(Head(w))
    BY <1>1, <1>3
  <2> QED
    BY <1>3, <1>4, <2>1, FlowChunk DEF t
<1>6. o \in Seq(Int) /\ q[1] \in Seq(Int) /\ <<>> \o q[1] = q[1]
  <2>1. w[1] \in Buf /\ w[1].id > 0
    <3>1. w[1] \in Buf
      BY <1>1, ElementOfSeq
    <3>2. c \in Nat
      <4>1. PICK k \in Nat : c = k + Len(<<>>)
        BY DEF Flowing
      <4> QED
        BY <4>1
    <3> QED
      BY <3>1, <3>2
  <2>2. Chunk(w[1]) \in Seq(Int)
    BY <2>1, ChunkData
  <2>3. q[1] \in Seq(Int) /\ o \in Seq(Int)
    BY <1>1, <2>2 DEF Flowing
  <2> QED
    BY <2>3, ConcatEmptySeq
<1>7. CASE Len(w) = 1
  <2>1. t = <<>>
    BY <1>3, <1>7, EmptySeq
  <2>2. Flowing(o, q[1], <<>>, z, T, FALSE)
    BY <1>5, <1>6, <2>1
  <2>3. Flowing(o \o q[1], <<>>, <<>>, z, T, FALSE)
    BY <2>2, FlowOut
  <2> QED
    BY <2>3, <1>2, <1>6, <1>7 DEF z
<1>8. CASE Len(w) = 2
  <2>1. t # <<>> /\ Head(t) = w[2] /\ Tail(t) = <<>>
    <3>1. Len(t) = 1 /\ t[1] = w[2]
      BY <1>3, <1>8
    <3>2. t # <<>> /\ Tail(t) \in Seq(Buf) /\ Len(Tail(t)) = 0
      BY <1>3, <3>1, HeadTailProperties, EmptySeq
    <3> QED
      BY <3>1, <3>2, <1>3, EmptySeq
  <2>2. Flowing(o, q[1], t, z, T, FALSE)
    BY <1>5, <1>6
  <2>3. q[2] = Chunk(Head(t))
    BY <1>1, <1>8, <2>1
  <2>4. Flowing(o, q[1] \o q[2], <<>>, z, T, FALSE)
    BY <2>1, <2>2, <2>3, FlowChunk
  <2>5. Flowing(o \o (q[1] \o q[2]), <<>>, <<>>, z, T, FALSE)
    BY <2>4, FlowOut
  <2>6. FlattenChunks(w) = q[1] \o q[2]
    BY <1>2, <1>8
  <2>7. Flowing(o \o FlattenChunks(w), <<>>, <<>>, z, T, FALSE)
    BY <2>5, <2>6
  <2>8. q[1] \o q[2] \in Seq(Int)
    BY <2>4 DEF Flowing
  <2> QED
    BY <2>6, <2>7, <2>8 DEF z
<1> QED
  BY <1>7, <1>8

-----------------------------------------------------------------------------
(* Stacks.                                                                 *)

IsSeq(q) == \E S : q \in Seq(S)

\* One more call.
LEMMA Pushed ==
    ASSUME NEW q, IsSeq(q), NEW e
    PROVE  /\ IsSeq(Append(q, e)) /\ Len(q) \in Nat
           /\ Len(Append(q, e)) = Len(q) + 1 /\ Append(q, e) # <<>>
           /\ \A i \in 1..Len(q) : Append(q, e)[i] = q[i]
           /\ Append(q, e)[Len(q) + 1] = e
<1>1. PICK S : q \in Seq(S)
  BY DEF IsSeq
<1>2. PICK U : U = S \cup {e}
  OBVIOUS
<1>3. q \in Seq(U) /\ e \in U
  <2>1. S \subseteq U
    BY <1>2
  <2> QED
    BY <1>1, <1>2, <2>1, SeqMonotonic
<1> QED
  BY <1>3, AppendProperties, LenProperties DEF IsSeq

\* The innermost call has returned.
LEMMA Popped ==
    ASSUME NEW q, IsSeq(q), q # <<>>, NEW p, p = SubSeq(q, 1, Len(q) - 1)
    PROVE  /\ IsSeq(p) /\ Len(q) \in Nat /\ Len(q) > 0
           /\ Len(p) = Len(q) - 1
           /\ p # <<>> <=> Len(q) > 1
           /\ \A i \in 1..Len(p) : p[i] = q[i]
<1>1. PICK S : q \in Seq(S)
  BY DEF IsSeq
<1> DEFINE k == Len(q)
<1>2. k \in Nat /\ k > 0
  BY <1>1, LenProperties, EmptySeq
<1>3. \A i \in 1..(k - 1) : q[i] \in S
  BY <1>1, <1>2, ElementOfSeq
<1> HIDE DEF k
<1>4. /\ SubSeq(q, 1, k - 1) \in Seq(S)
      /\ Len(SubSeq(q, 1, k - 1)) = IF 1 <= k - 1 THEN k - 1 - 1 + 1 ELSE 0
      /\ \A i \in 1..(k - 1 - 1 + 1) : SubSeq(q, 1, k - 1)[i] = q[1 + i - 1]
  <2>1. 1 \in Int /\ k - 1 \in Int
    BY <1>2
  <2> QED
    BY <1>3, <2>1, SubSeqProperties
<1>5. p = SubSeq(q, 1, k - 1)
  BY DEF k
<1>6. /\ p \in Seq(S) /\ Len(p) = k - 1
      /\ \A i \in 1..Len(p) : p[i] = q[i]
  <2>1. p \in Seq(S) /\ Len(p) = k - 1
    BY <1>2, <1>4, <1>5
  <2>2. ASSUME NEW i \in 1..(k - 1) PROVE p[i] = q[i]
    <3>1. i \in 1..(k - 1 - 1 + 1) /\ 1 + i - 1 = i
      BY <1>2
    <3> QED
      BY <3>1, <1>4, <1>5
  <2> QED
    BY <2>1, <2>2
<1>7. p # <<>> <=> k > 1
  <2>1. p = <<>> <=> Len(p) = 0
    BY <1>6, EmptySeq
  <2>2. (p = <<>>) <=> (k - 1 = 0)
    BY <2>1, <1>6
  <2>3. (k - 1 = 0) <=> ~(k > 1)
    BY <1>2
  <2> QED
    BY ONLY <2>2, <2>3
<1> QED
  BY <1>2, <1>6, <1>7 DEF k, IsSeq

\* A frame of the stack is replaced.
LEMMA Replaced ==
    ASSUME NEW q, IsSeq(q), NEW k \in 1..Len(q), NEW e,
           NEW p, p = [q EXCEPT ![k] = e]
    PROVE  /\ IsSeq(p) /\ Len(p) = Len(q) /\ Len(q) \in Nat
           /\ q # <<>> /\ p # <<>>
           /\ \A i \in 1..Len(q) : p[i] = IF i = k THEN e ELSE q[i]
<1>1. PICK S : q \in Seq(S)
  BY DEF IsSeq
<1>2. PICK U : U = S \cup {e}
  OBVIOUS
<1>3. q \in Seq(U) /\ e \in U
  <2>1. S \subseteq U
    BY <1>2
  <2> QED
    BY <1>1, <1>2, <2>1, SeqMonotonic
<1>4. /\ p \in Seq(U) /\ Len(p) = Len(q)
      /\ \A i \in 1..Len(q) : p[i] = IF i = k THEN e ELSE q[i]
  BY <1>3, ExceptSeq, LenProperties
<1>5. Len(q) \in Nat /\ Len(q) > 0
  BY <1>3, LenProperties
<1> QED
  BY <1>3, <1>4, <1>5, EmptySeq DEF IsSeq

-----------------------------------------------------------------------------
(* What holds of the state, and after every handler and every method.      *)

CtxFields == {"status", "ev", "filter", "inProgress", "timers", "buf", "free",
              "busy", "retval"}
NetFields == {"conf", "phase", "posted", "reading", "came", "taken", "out",
              "slow", "spins"}
FrameFields == {"fn", "dir", "in", "out", "bufs", "pend"}

Types == {"unset", "string", "buffer"}
EvState == [fn : BOOLEAN, type : Types]
Conf1 == [access : BOOLEAN, preread : BOOLEAN, filter : BOOLEAN,
          set : BOOLEAN, slow : BOOLEAN, vm : BOOLEAN]
Waiting == {"access", "preread"}

Context(c) ==
    /\ DOMAIN c = CtxFields
    /\ c.status \in Statuses
    /\ c.ev \in [Directions -> EvState]
    /\ \A d \in Directions : c.ev[d].fn => c.ev[d].type # "unset"
    /\ c.filter \in BOOLEAN
    /\ c.inProgress \in BOOLEAN
    /\ c.timers \in Nat

Session(m) ==
    /\ DOMAIN m = NetFields
    /\ m.conf \in Conf1
    /\ m.phase \in Waiting \cup {"content", "closed"}
    /\ m.posted \in BOOLEAN
    /\ m.reading \in BOOLEAN
    /\ m.came \in [Directions -> Nat]
    /\ m.taken \in [Directions -> SUBSET Nat]
    /\ m.out \in [Directions -> Seq(Int)]
    /\ m.slow \in [Directions -> BOOLEAN]

(* The frame at i, and what it may stand on. *)
FrameOK(q, i) ==
    /\ DOMAIN q[i] = FrameFields
    /\ q[i].fn \in ScriptFns \cup {"body"}
    /\ q[i].dir \in Directions
    /\ q[i].fn \in {"phase", "timer", "body"} => i = 1
    /\ q[i].fn = "filter" => i = 2 /\ q[1].fn = "body"
    /\ q[i].fn = "callback" => i = 1 \/ (i = 2 /\ q[1].fn = "body")
    /\ q[i].fn = "variable" => i > 1 /\ i = Len(q)

Frames(q) == IsSeq(q) /\ \A i \in 1..Len(q) : FrameOK(q, i)

Base(s, fns) == s.stack # <<>> /\ s.stack[1].fn \in fns

Phasing(m) == m.phase \in Waiting /\ m.conf[m.phase] /\ m.conf.vm

Places(s) ==
    /\ Base(s, {"phase", "callback"}) => Phasing(s.n)
    /\ Base(s, {"body"}) => s.n.phase = "content"
    /\ s.n.phase = "closed" => s.stack = <<>>
    /\ s.ctx.inProgress => Phasing(s.n)
    /\ ~Base(s, {"body"}) => s.ctx.buf = <<>>

Running(s, d) == Base(s, {"body"}) /\ s.stack[1].dir = d
Chained(s, d) == IF Running(s, d) THEN s.stack[1].out ELSE <<>>
Unseen(s, d) == IF Running(s, d) THEN s.stack[1].in ELSE <<>>
Looking(s, d) == Running(s, d) /\ Len(s.stack) > 1 /\ s.stack[2].fn = "callback"

Flows(s) ==
    s.n.phase # "closed" =>
        \A d \in Directions :
            Flowing(s.n.out[d], Chained(s, d), Unseen(s, d), s.n.came[d],
                    s.n.taken[d], Looking(s, d))

Sound(s) ==
    /\ DOMAIN s = {"ctx", "n", "stack"}
    /\ Context(s.ctx) /\ Session(s.n) /\ Frames(s.stack)
    /\ Places(s) /\ Flows(s)

\* What a new engine's context holds.
LEMMA FreshContext ==
    Context(FreshCtx) /\ FreshCtx.buf = <<>> /\ ~FreshCtx.inProgress
BY DEF Context, FreshCtx, CtxFields, EvState, Types, Unset, Directions, Statuses

\* A session that ends is sound.
LEMMA FinalizeSound ==
    ASSUME NEW s, Sound(s)
    PROVE  Sound(Finalize(s))
<1> DEFINE t == Finalize(s)
<1>1. /\ DOMAIN s = {"ctx", "n", "stack"} /\ Session(s.n)
  BY DEF Sound
<1>2. /\ DOMAIN t = {"ctx", "n", "stack"}
      /\ t.ctx = FreshCtx /\ t.stack = <<>>
      /\ t.n = [s.n EXCEPT !.phase = "closed", !.posted = FALSE]
  BY <1>1 DEF Finalize, Session, NetFields
<1> HIDE DEF t
<1>3. Session(t.n) /\ t.n.phase = "closed"
  BY <1>1, <1>2 DEF Session, NetFields
<1>4. Frames(t.stack)
  <2>1. <<>> \in Seq(Int) /\ Len(<<>>) = 0
    OBVIOUS
  <2> QED
    BY <2>1, <1>2 DEF Frames, IsSeq
<1>5. Places(t) /\ Flows(t)
  BY <1>2, <1>3, FreshContext DEF Places, Flows, Base
<1>6. Sound(t)
  BY <1>2, <1>3, <1>4, <1>5, FreshContext DEF Sound
<1> QED
  BY <1>6 DEF t

(* A method changes neither the phase nor which calls are in progress. *)
Kept(s, t) ==
    Sound(t) /\ t.n.phase = s.n.phase /\ (t.stack = <<>> <=> s.stack = <<>>)

\* Only the context has changed, and nothing that anyone relies on.
LEMMA ContextSound ==
    ASSUME NEW s, Sound(s), NEW t, DOMAIN t = {"ctx", "n", "stack"},
           t.n = s.n, t.stack = s.stack, Context(t.ctx),
           t.ctx.buf = s.ctx.buf, t.ctx.inProgress = s.ctx.inProgress
    PROVE  Kept(s, t)
<1>1. Session(t.n) /\ Frames(t.stack)
  BY DEF Sound
<1>2. Places(t)
  BY DEF Sound, Places, Base
<1>3. Flows(t)
  <2>1. Flows(s)
    BY DEF Sound
  <2>2. \A d : /\ Chained(t, d) = Chained(s, d) /\ Unseen(t, d) = Unseen(s, d)
               /\ Looking(t, d) = Looking(s, d)
    BY DEF Chained, Unseen, Looking, Running, Base
  <2> QED
    BY <2>1, <2>2 DEF Flows
<1>4. Sound(t)
  BY <1>1, <1>2, <1>3 DEF Sound
<1> QED
  BY <1>4 DEF Kept

SetEvent(s, d, e) == [s EXCEPT !.ctx.ev[d] = e]

\* An event is set.
LEMMA EventSound ==
    ASSUME NEW s, Sound(s), NEW d \in Directions, NEW e \in EvState,
           e.fn => e.type # "unset"
    PROVE  /\ Kept(s, SetEvent(s, d, e))
           /\ SetEvent(s, d, e).ctx.ev = [s.ctx.ev EXCEPT ![d] = e]
<1> DEFINE t == SetEvent(s, d, e)
           ev == [s.ctx.ev EXCEPT ![d] = e]
<1>1. /\ DOMAIN s = {"ctx", "n", "stack"} /\ Context(s.ctx)
  BY DEF Sound
<1>2. /\ DOMAIN t = {"ctx", "n", "stack"}
      /\ t.n = s.n /\ t.stack = s.stack
      /\ t.ctx = [s.ctx EXCEPT !.ev = ev]
  BY <1>1 DEF SetEvent, Context, CtxFields
<1>3. /\ ev \in [Directions -> EvState]
      /\ \A b \in Directions : ev[b].fn => ev[b].type # "unset"
  BY <1>1 DEF Context
<1> HIDE DEF t, ev
<1>4. Context(t.ctx) /\ t.ctx.ev = ev
  BY <1>1, <1>2, <1>3 DEF Context, CtxFields
<1>5. t.ctx.buf = s.ctx.buf /\ t.ctx.inProgress = s.ctx.inProgress
  BY <1>1, <1>2 DEF Context, CtxFields
<1>6. Kept(s, t)
  BY <1>2, <1>4, <1>5, ContextSound
<1> QED
  BY <1>4, <1>6 DEF t, ev

SetType(s, d, x) == [s EXCEPT !.ctx.ev[d].type = x]
SetFn(s, d) == [s EXCEPT !.ctx.ev[d].fn = TRUE]
Clear(s, d) == [s EXCEPT !.ctx.ev[d] = Unset]

\* What s.on() and s.off() do to the type.
LEMMA SetTypeSound ==
    ASSUME NEW s, Sound(s), NEW d \in Directions, NEW x \in {"string", "buffer"}
    PROVE  /\ Kept(s, SetType(s, d, x))
           /\ SetType(s, d, x).ctx.ev[d].type = x
           /\ SetType(s, d, x).ctx.ev[d].fn = s.ctx.ev[d].fn
           /\ \A b \in Directions \ {d} :
                 SetType(s, d, x).ctx.ev[b] = s.ctx.ev[b]
<1> DEFINE e == [s.ctx.ev[d] EXCEPT !.type = x]
<1>1. s.ctx.ev \in [Directions -> EvState]
  BY DEF Sound, Context
<1>2. e \in EvState /\ e.type = x /\ e.fn = s.ctx.ev[d].fn
  BY <1>1 DEF EvState, Types
<1>3. SetType(s, d, x) = SetEvent(s, d, e)
  BY DEF SetType, SetEvent
<1> HIDE DEF e
<1>4. e.fn => e.type # "unset"
  BY <1>2
<1>5. /\ Kept(s, SetEvent(s, d, e))
      /\ SetEvent(s, d, e).ctx.ev = [s.ctx.ev EXCEPT ![d] = e]
  BY <1>2, <1>4, EventSound
<1> QED
  BY <1>1, <1>2, <1>3, <1>5

\* What s.on() does with a callback, once the type is set.
LEMMA SetFnSound ==
    ASSUME NEW s, Sound(s), NEW d \in Directions, s.ctx.ev[d].type # "unset"
    PROVE  /\ Kept(s, SetFn(s, d))
           /\ SetFn(s, d).ctx.ev[d].type = s.ctx.ev[d].type
           /\ SetFn(s, d).ctx.ev[d].fn
           /\ \A b \in Directions \ {d} : SetFn(s, d).ctx.ev[b] = s.ctx.ev[b]
<1> DEFINE e == [s.ctx.ev[d] EXCEPT !.fn = TRUE]
<1>1. s.ctx.ev \in [Directions -> EvState]
  BY DEF Sound, Context
<1>2. e \in EvState /\ e.type = s.ctx.ev[d].type /\ e.fn
  BY <1>1 DEF EvState
<1>3. SetFn(s, d) = SetEvent(s, d, e)
  BY DEF SetFn, SetEvent
<1> HIDE DEF e
<1>4. e.fn => e.type # "unset"
  BY <1>2
<1>5. /\ Kept(s, SetEvent(s, d, e))
      /\ SetEvent(s, d, e).ctx.ev = [s.ctx.ev EXCEPT ![d] = e]
  BY <1>2, <1>4, EventSound
<1> QED
  BY <1>1, <1>2, <1>3, <1>5

\* What s.off() does.
LEMMA ClearSound ==
    ASSUME NEW s, Sound(s), NEW d \in Directions
    PROVE  /\ Kept(s, Clear(s, d))
           /\ Clear(s, d).ctx.ev[d] = Unset
           /\ \A b \in Directions \ {d} : Clear(s, d).ctx.ev[b] = s.ctx.ev[b]
<1>1. s.ctx.ev \in [Directions -> EvState]
  BY DEF Sound, Context
<1>2. Unset \in EvState /\ (Unset.fn => Unset.type # "unset")
  BY DEF Unset, EvState, Types
<1>3. Clear(s, d) = SetEvent(s, d, Unset)
  BY DEF Clear, SetEvent
<1>4. /\ Kept(s, SetEvent(s, d, Unset))
      /\ SetEvent(s, d, Unset).ctx.ev = [s.ctx.ev EXCEPT ![d] = Unset]
  BY <1>2, EventSound
<1> QED
  BY <1>1, <1>3, <1>4

-----------------------------------------------------------------------------
(* s.on() and s.off().                                                     *)

(* One type of data, and a callback for each event that has a type. *)
Matching(s, x) ==
    \A d \in Directions :
        /\ s.ctx.ev[d].type \in {"unset", x}
        /\ s.ctx.ev[d].type # "unset" <=> s.ctx.ev[d].fn

Suits(op, x) ==
    /\ op.name \in {"on", "off"} /\ op.a \in DOMAIN EventId =>
          DataType[op.a] = x
    /\ op.name = "on" => op.b = "function"

\* The table of events.
LEMMA EventNames ==
    \A a \in DOMAIN EventId : /\ EventId[a] \in Directions
                              /\ DataType[a] \in {"string", "buffer"}
BY DEF EventId, DataType, Directions

Typed(s, a) == SetType(s, EventId[a], DataType[a])

\* The type of an event that has a name.
LEMMA TypedSound ==
    ASSUME NEW s, Sound(s), NEW a \in DOMAIN EventId
    PROVE  /\ EventId[a] \in Directions /\ DataType[a] \in {"string", "buffer"}
           /\ Kept(s, Typed(s, a))
           /\ Typed(s, a).ctx.ev[EventId[a]].type = DataType[a]
           /\ \A b \in Directions \ {EventId[a]} :
                 Typed(s, a).ctx.ev[b] = s.ctx.ev[b]
<1>1. EventId[a] \in Directions /\ DataType[a] \in {"string", "buffer"}
  BY EventNames
<1>2. \A d \in Directions, x \in {"string", "buffer"} :
         /\ Kept(s, SetType(s, d, x))
         /\ SetType(s, d, x).ctx.ev[d].type = x
         /\ \A b \in Directions \ {d} : SetType(s, d, x).ctx.ev[b] = s.ctx.ev[b]
  BY SetTypeSound
<1> QED
  BY <1>1, <1>2 DEF Typed

\* ngx_stream_js_event and ngx_stream_qjs_event.
LEMMA EventFound ==
    ASSUME NEW s, Sound(s), NEW a,
           NEW e, e = NjsEvent(s, a) \/ e = QjsEvent(s, a)
    PROVE  /\ a \notin DOMAIN EventId => ~e.ok /\ e.s = s
           /\ a \in DOMAIN EventId => e.s = Typed(s, a)
           /\ Kept(s, e.s)
           /\ \A x : a \in DOMAIN EventId /\ Matching(s, x) /\ DataType[a] = x
                => e.ok
<1>0. Kept(s, s)
  BY DEF Kept
<1>1. CASE a \notin DOMAIN EventId
  BY <1>0, <1>1 DEF NjsEvent, QjsEvent
<1>2. CASE a \in DOMAIN EventId
  <2> DEFINE t == Typed(s, a)
  <2>1. /\ e.s = t
        /\ \/ e.ok = \A d \in Directions :
                       t.ctx.ev[d].type \in {"unset", DataType[a]}
           \/ e.ok = ({t.ctx.ev[d].type : d \in Directions} \ {"unset"}
                         = {DataType[a]})
    <3>1. CASE e = NjsEvent(s, a)
      <4>1. e = [s |-> t, ok |-> \A d \in Directions :
                    t.ctx.ev[d].type \in {"unset", DataType[a]}]
        BY <1>2, <3>1 DEF NjsEvent, Typed, SetType
      <4> HIDE DEF t
      <4> QED
        BY <4>1
    <3>2. CASE e = QjsEvent(s, a)
      <4>1. e = [s |-> t, ok |->
                    {t.ctx.ev[d].type : d \in Directions} \ {"unset"}
                         = {DataType[a]}]
        BY <1>2, <3>2 DEF QjsEvent, Typed, SetType
      <4> HIDE DEF t
      <4> QED
        BY <4>1
    <3> QED
      BY <3>1, <3>2
  <2>3. /\ Kept(s, t)
        /\ t.ctx.ev[EventId[a]].type = DataType[a]
        /\ \A b \in Directions \ {EventId[a]} : t.ctx.ev[b] = s.ctx.ev[b]
    BY <1>2, TypedSound
  <2> HIDE DEF t
  <2>4. ASSUME NEW x, Matching(s, x), DataType[a] = x PROVE e.ok
    <3>1. EventId[a] \in Directions /\ x # "unset"
      BY <1>2, <2>4, EventNames
    <3>2. \A d \in Directions : t.ctx.ev[d].type \in {"unset", x}
      BY <2>3, <2>4 DEF Matching
    <3>3. {t.ctx.ev[d].type : d \in Directions} \ {"unset"} = {x}
      BY <2>3, <2>4, <3>1, <3>2
    <3> QED
      BY <2>1, <2>4, <3>2, <3>3
  <2> QED
    BY <1>2, <2>1, <2>3, <2>4 DEF t
<1> QED
  BY <1>1, <1>2

\* Setting the type of an event that has a callback changes nothing that
\* matters, and setting both makes it match again.
LEMMA TypedMatches ==
    ASSUME NEW s, Sound(s), NEW a \in DOMAIN EventId, NEW x, DataType[a] = x,
           Matching(s, x)
    PROVE  /\ Typed(s, a).ctx.ev[EventId[a]].fn => Matching(Typed(s, a), x)
           /\ Matching(SetFn(Typed(s, a), EventId[a]), x)
<1> DEFINE d == EventId[a]
           t == Typed(s, a)
<1>1. d \in Directions /\ DataType[a] \in {"string", "buffer"}
  BY EventNames
<1>2. /\ Sound(t) /\ t.ctx.ev[d].type = x
      /\ \A b \in Directions \ {d} : t.ctx.ev[b] = s.ctx.ev[b]
  BY TypedSound DEF Kept
<1> HIDE DEF t
<1>3. x # "unset"
  BY <1>1
<1>4. t.ctx.ev[d].fn => Matching(t, x)
  BY <1>2, <1>3 DEF Matching
<1>5. /\ SetFn(t, d).ctx.ev[d].type = x
      /\ SetFn(t, d).ctx.ev[d].fn
      /\ \A b \in Directions \ {d} : SetFn(t, d).ctx.ev[b] = t.ctx.ev[b]
  BY <1>1, <1>2, <1>3, SetFnSound
<1>6. Matching(SetFn(t, d), x)
  BY <1>2, <1>3, <1>5 DEF Matching
<1> QED
  BY <1>4, <1>6 DEF t

\* s.on(), in both engines.
LEMMA OnSound ==
    ASSUME NEW s, Sound(s), NEW op, op.name = "on",
           NEW r, r = NjsOn(s, op) \/ r = QjsOn(s, op)
    PROVE  /\ Kept(s, r.s)
           /\ \A x : Matching(s, x) /\ Suits(op, x) => Matching(r.s, x)
<1>1. PICK e : /\ e = NjsEvent(s, op.a) \/ e = QjsEvent(s, op.a)
               /\ \/ r.s = s /\ op.b # "function"
                  \/ r.s = e.s /\ (~e.ok \/ e.s.ctx.ev[EventId[op.a]].fn)
                  \/ r.s = e.s /\ op.b # "function"
                  \/ r.s = SetFn(e.s, EventId[op.a]) /\ e.ok
  <2>1. CASE r = NjsOn(s, op)
    <3> DEFINE e == NjsEvent(s, op.a)
    <3> HIDE DEF e
    <3>1. r = IF op.b # "function" THEN Throws(s)
              ELSE IF ~e.ok \/ e.s.ctx.ev[EventId[op.a]].fn THEN Throws(e.s)
              ELSE Does(SetFn(e.s, EventId[op.a]))
      BY <2>1 DEF NjsOn, SetFn, e
    <3> QED
      BY <3>1 DEF Throws, Does, e
  <2>2. CASE r = QjsOn(s, op)
    <3> DEFINE e == QjsEvent(s, op.a)
    <3> HIDE DEF e
    <3>1. r = IF ~e.ok THEN Throws(e.s)
              ELSE IF e.s.ctx.ev[EventId[op.a]].fn THEN Throws(e.s)
              ELSE IF op.b # "function" THEN Throws(e.s)
              ELSE Does(SetFn(e.s, EventId[op.a]))
      BY <2>2 DEF QjsOn, SetFn, e
    <3> QED
      BY <3>1 DEF Throws, Does, e
  <2> QED
    BY <2>1, <2>2
<1>2. /\ op.a \notin DOMAIN EventId => ~e.ok /\ e.s = s
      /\ op.a \in DOMAIN EventId => e.s = Typed(s, op.a)
      /\ Kept(s, e.s)
      /\ \A x : op.a \in DOMAIN EventId /\ Matching(s, x)
                /\ DataType[op.a] = x => e.ok
  BY <1>1, EventFound
<1>3. Kept(s, s)
  BY DEF Kept
<1>4. ASSUME r.s = SetFn(e.s, EventId[op.a]), e.ok
      PROVE  Kept(s, r.s)
  <2>1. op.a \in DOMAIN EventId /\ e.s = Typed(s, op.a)
    BY <1>2, <1>4
  <2>2. EventId[op.a] \in Directions /\ Sound(e.s)
        /\ e.s.ctx.ev[EventId[op.a]].type # "unset"
    BY <2>1, <1>2, TypedSound DEF Kept
  <2>3. Kept(e.s, r.s)
    BY <2>2, <1>4, SetFnSound
  <2> QED
    BY <2>3, <1>2 DEF Kept
<1>5. Kept(s, r.s)
  BY <1>1, <1>2, <1>3, <1>4
<1>6. ASSUME NEW x, Matching(s, x), Suits(op, x) PROVE Matching(r.s, x)
  <2>1. op.b = "function"
    BY <1>6 DEF Suits
  <2>2. CASE op.a \notin DOMAIN EventId
    BY <2>1, <2>2, <1>1, <1>2, <1>6
  <2>3. CASE op.a \in DOMAIN EventId
    <3>1. DataType[op.a] = x
      BY <2>3, <1>6 DEF Suits
    <3>2. e.ok /\ e.s = Typed(s, op.a)
      BY <2>3, <3>1, <1>2, <1>6
    <3>3. /\ e.s.ctx.ev[EventId[op.a]].fn => Matching(e.s, x)
          /\ Matching(SetFn(e.s, EventId[op.a]), x)
      BY <2>3, <3>1, <3>2, <1>6, TypedMatches
    <3> QED
      BY <3>2, <3>3, <2>1, <1>1
  <2> QED
    BY <2>2, <2>3
<1> QED
  BY <1>5, <1>6

\* s.off(), in both engines.
LEMMA OffSound ==
    ASSUME NEW s, Sound(s), NEW op, op.name = "off",
           NEW r, r = NjsOff(s, op) \/ r = QjsOff(s, op)
    PROVE  /\ Kept(s, r.s)
           /\ \A x : Matching(s, x) /\ Suits(op, x) => Matching(r.s, x)
<1>1. PICK e : /\ e = NjsEvent(s, op.a) \/ e = QjsEvent(s, op.a)
               /\ \/ r.s = e.s /\ ~e.ok
                  \/ r.s = Clear(e.s, EventId[op.a]) /\ e.ok
  <2>1. CASE r = NjsOff(s, op)
    <3> DEFINE e == NjsEvent(s, op.a)
    <3> HIDE DEF e
    <3>1. r = IF ~e.ok THEN Throws(e.s) ELSE Does(Clear(e.s, EventId[op.a]))
      BY <2>1 DEF NjsOff, Clear, e
    <3> QED
      BY <3>1 DEF Throws, Does, e
  <2>2. CASE r = QjsOff(s, op)
    <3> DEFINE e == QjsEvent(s, op.a)
    <3> HIDE DEF e
    <3>1. r = IF e.ok THEN Does(Clear(e.s, EventId[op.a])) ELSE Throws(e.s)
      BY <2>2 DEF QjsOff, Clear, e
    <3> QED
      BY <3>1 DEF Throws, Does, e
  <2> QED
    BY <2>1, <2>2
<1>2. /\ op.a \notin DOMAIN EventId => ~e.ok /\ e.s = s
      /\ op.a \in DOMAIN EventId => e.s = Typed(s, op.a)
      /\ Kept(s, e.s)
      /\ \A x : op.a \in DOMAIN EventId /\ Matching(s, x)
                /\ DataType[op.a] = x => e.ok
  BY <1>1, EventFound
<1>3. ASSUME e.ok
      PROVE  /\ op.a \in DOMAIN EventId /\ EventId[op.a] \in Directions
             /\ Kept(e.s, Clear(e.s, EventId[op.a]))
             /\ Clear(e.s, EventId[op.a]).ctx.ev[EventId[op.a]] = Unset
             /\ \A b \in Directions \ {EventId[op.a]} :
                  Clear(e.s, EventId[op.a]).ctx.ev[b] = e.s.ctx.ev[b]
  <2>1. op.a \in DOMAIN EventId
    BY <1>2, <1>3
  <2>2. EventId[op.a] \in Directions /\ Sound(e.s)
    BY <2>1, <1>2, EventNames DEF Kept
  <2> QED
    BY <2>1, <2>2, ClearSound
<1>4. Kept(s, r.s)
  BY <1>1, <1>2, <1>3 DEF Kept
<1>5. ASSUME NEW x, Matching(s, x), Suits(op, x) PROVE Matching(r.s, x)
  <2>1. CASE op.a \notin DOMAIN EventId
    BY <2>1, <1>1, <1>2, <1>5
  <2>2. CASE op.a \in DOMAIN EventId
    <3>1. DataType[op.a] = x
      BY <2>2, <1>5 DEF Suits
    <3>2. e.ok /\ e.s = Typed(s, op.a)
      BY <2>2, <3>1, <1>2, <1>5
    <3>3. \A b \in Directions \ {EventId[op.a]} : e.s.ctx.ev[b] = s.ctx.ev[b]
      BY <2>2, <3>2, TypedSound
    <3>4. r.s = Clear(e.s, EventId[op.a])
      BY <3>2, <1>1
    <3>5. \A b \in Directions :
             r.s.ctx.ev[b] = IF b = EventId[op.a] THEN Unset ELSE s.ctx.ev[b]
      BY <3>2, <3>3, <3>4, <1>3
    <3> QED
      BY <3>5, <1>5 DEF Matching, Unset
  <2> QED
    BY <2>1, <2>2
<1> QED
  BY <1>4, <1>5

-----------------------------------------------------------------------------
(* Decisions.                                                              *)

Decide(s, x) == [s EXCEPT !.ctx.ev = [d \in Directions |-> Unset],
                          !.ctx.status = x]

\* A decision drops what was waited for.
LEMMA DecideSound ==
    ASSUME NEW s, Sound(s), NEW x \in Statuses
    PROVE  Kept(s, Decide(s, x)) /\ \A y : Matching(Decide(s, x), y)
<1> DEFINE t == Decide(s, x)
           none == [d \in Directions |-> Unset]
<1>1. /\ DOMAIN s = {"ctx", "n", "stack"} /\ Context(s.ctx)
  BY DEF Sound
<1>2. /\ DOMAIN t = {"ctx", "n", "stack"}
      /\ t.n = s.n /\ t.stack = s.stack
      /\ t.ctx = [[s.ctx EXCEPT !.ev = none] EXCEPT !.status = x]
  BY <1>1 DEF Decide, Context, CtxFields
<1>3. /\ none \in [Directions -> EvState]
      /\ \A d \in Directions : none[d] = Unset
  BY DEF Unset, EvState, Types
<1> HIDE DEF t, none
<1>4. /\ Context(t.ctx) /\ t.ctx.ev = none
      /\ t.ctx.buf = s.ctx.buf /\ t.ctx.inProgress = s.ctx.inProgress
  BY <1>1, <1>2, <1>3 DEF Context, CtxFields, Unset
<1>5. Kept(s, t)
  BY <1>2, <1>4, ContextSound
<1>6. ASSUME NEW y PROVE Matching(t, y)
  BY <1>3, <1>4 DEF Matching, Unset
<1> QED
  BY <1>5, <1>6 DEF t

\* s.allow(), s.decline(), s.deny() and s.done(), in both engines.
LEMMA DoneSound ==
    ASSUME NEW s, Sound(s), NEW op, op.name \in Deciders,
           op.a \in {"undefined"} \cup WrongCodes \cup Statuses,
           NEW r, r = NjsDone(s, op) \/ r = QjsDone(s, op)
    PROVE  /\ Kept(s, r.s)
           /\ \A x : Matching(s, x) => Matching(r.s, x)
<1>1. Code(op.name) \in Statuses
  BY DEF Code, Statuses
<1>2. r.s = s \/ \E x \in Statuses : r.s = Decide(s, x)
  <2>1. CASE r = NjsDone(s, op)
    <3> DEFINE x == IF op.a = "undefined" THEN Code(op.name) ELSE op.a
    <3>1. op.a \notin WrongCodes => x \in Statuses
      BY <1>1
    <3>2. r = IF op.a \in WrongCodes \/ s.ctx.filter THEN Throws(s)
              ELSE Does(Decide(s, x))
      BY <2>1 DEF NjsDone, Decide, DropEvents
    <3> HIDE DEF x
    <3> QED
      BY <3>1, <3>2 DEF Throws, Does
  <2>2. CASE r = QjsDone(s, op)
    <3> DEFINE x == IF op.a # "undefined" THEN op.a ELSE Code(op.name)
    <3>1. x \notin WrongCodes => x \in Statuses
      BY <1>1
    <3>2. DropEvents([s EXCEPT !.ctx.status = x]) = Decide(s, x)
      <4>1. DOMAIN s = {"ctx", "n", "stack"} /\ DOMAIN s.ctx = CtxFields
        BY DEF Sound, Context
      <4> QED
        BY <4>1 DEF DropEvents, Decide, CtxFields
    <3>3. r = IF x \in WrongCodes THEN Throws(s)
              ELSE IF s.ctx.filter THEN Throws(s)
              ELSE Does(DropEvents([s EXCEPT !.ctx.status = x]))
      BY <2>2 DEF QjsDone
    <3> HIDE DEF x
    <3> QED
      BY <3>1, <3>2, <3>3 DEF Throws, Does
  <2> QED
    BY <2>1, <2>2
<1>3. Kept(s, s)
  BY DEF Kept
<1> QED
  BY <1>2, <1>3, DecideSound

\* s.setReturnValue(), in both engines.
LEMMA SetReturnValueSound ==
    ASSUME NEW s, Sound(s), NEW op,
           NEW r, r = NjsSetReturnValue(s, op) \/ r = QjsSetReturnValue(s, op)
    PROVE  /\ Kept(s, r.s)
           /\ \A x : Matching(s, x) => Matching(r.s, x)
<1>1. DOMAIN s = {"ctx", "n", "stack"} /\ Context(s.ctx)
  BY DEF Sound
<1>2. r.s = [s EXCEPT !.ctx.retval = op.a]
  BY DEF NjsSetReturnValue, QjsSetReturnValue, Does
<1>3. /\ DOMAIN r.s = {"ctx", "n", "stack"}
      /\ r.s.n = s.n /\ r.s.stack = s.stack
      /\ r.s.ctx = [s.ctx EXCEPT !.retval = op.a]
  BY <1>1, <1>2
<1>4. /\ Context(r.s.ctx) /\ r.s.ctx.ev = s.ctx.ev
      /\ r.s.ctx.buf = s.ctx.buf /\ r.s.ctx.inProgress = s.ctx.inProgress
  BY <1>1, <1>3 DEF Context, CtxFields
<1>5. Kept(s, r.s)
  BY <1>3, <1>4, ContextSound
<1> QED
  BY <1>4, <1>5 DEF Matching

-----------------------------------------------------------------------------
(* Sending.                                                                *)

(* Only the chains of free and busy buffers differ. *)
SameButChains(c, e) ==
    /\ Context(e) /\ e.ev = c.ev /\ e.buf = c.buf /\ e.timers = c.timers
    /\ e.inProgress = c.inProgress /\ e.filter = c.filter
    /\ e.status = c.status

\* ngx_chain_update_chains changes the chains.
LEMMA ChainsEffect ==
    ASSUME NEW s, DOMAIN s = {"ctx", "n", "stack"}, Context(s.ctx),
           NEW d, NEW x,
           NEW t, t = SetChains(s, d, x)
    PROVE  /\ DOMAIN t = {"ctx", "n", "stack"}
           /\ t.n = s.n /\ t.stack = s.stack
           /\ SameButChains(s.ctx, t.ctx)
<1> DEFINE c == [s.ctx EXCEPT !.free = x.free]
           busy == [c.busy EXCEPT ![d] = x.busy]
<1>1. /\ DOMAIN t = {"ctx", "n", "stack"}
      /\ t.n = s.n /\ t.stack = s.stack
      /\ t.ctx = [c EXCEPT !.busy = busy]
  BY DEF SetChains, Context, CtxFields
<1> HIDE DEF busy
<1>2. /\ DOMAIN t.ctx = CtxFields
      /\ t.ctx.ev = s.ctx.ev /\ t.ctx.buf = s.ctx.buf
      /\ t.ctx.timers = s.ctx.timers
      /\ t.ctx.inProgress = s.ctx.inProgress /\ t.ctx.filter = s.ctx.filter
      /\ t.ctx.status = s.ctx.status
  BY <1>1 DEF Context, CtxFields
<1> HIDE DEF c
<1>3. Context(t.ctx)
  BY <1>2 DEF Context
<1> QED
  BY <1>1, <1>2, <1>3 DEF SameButChains

(* Units have gone out. *)
WithOut(m, d, u) == [m EXCEPT !.out[d] = @ \o u]

Sent(m, p, d, u) ==
    /\ Session(p)
    /\ p.out[d] = m.out[d] \o u
    /\ \A b \in Directions \ {d} : p.out[b] = m.out[b]
    /\ \A f \in NetFields \ {"out", "spins"} : p[f] = m[f]

\* The session after units have gone out.
LEMMA OutEffect ==
    ASSUME NEW m, Session(m), NEW d \in Directions, NEW u \in Seq(Int)
    PROVE  Sent(m, WithOut(m, d, u), d, u)
<1> DEFINE out == [m.out EXCEPT ![d] = @ \o u]
<1>1. WithOut(m, d, u) = [m EXCEPT !.out = out]
  BY DEF WithOut
<1>2. m.out \in [Directions -> Seq(Int)] /\ DOMAIN m = NetFields
  BY DEF Session
<1>3. m.out[d] \o u \in Seq(Int)
  BY <1>2, ConcatProperties
<1>4. /\ out \in [Directions -> Seq(Int)] /\ out[d] = m.out[d] \o u
      /\ \A b \in Directions \ {d} : out[b] = m.out[b]
  BY <1>2, <1>3
<1> HIDE DEF out
<1>5. /\ WithOut(m, d, u).out = out
      /\ DOMAIN WithOut(m, d, u) = NetFields
      /\ \A f \in NetFields \ {"out"} : WithOut(m, d, u)[f] = m[f]
  BY <1>1, <1>2 DEF NetFields
<1>6. Session(WithOut(m, d, u))
  BY <1>4, <1>5 DEF Session, NetFields
<1> QED
  BY <1>4, <1>5, <1>6 DEF Sent

\* ngx_stream_js_next_filter: units go out and chains change, or nothing.
LEMMA NextFilterEffect ==
    ASSUME NEW s, DOMAIN s = {"ctx", "n", "stack"}, Context(s.ctx), Session(s.n),
           NEW d \in Directions, NEW u \in Seq(Int), NEW bufs,
           NEW t, t = NextFilter(s, d, u, bufs)
    PROVE  /\ DOMAIN t = {"ctx", "n", "stack"}
           /\ Sent(s.n, t.n, d, u) /\ t.stack = s.stack
           /\ SameButChains(s.ctx, t.ctx)
<1>1. CASE t = s /\ u = <<>>
  <2>1. s.n.out \in [Directions -> Seq(Int)]
    BY DEF Session
  <2>2. s.n.out[d] \o u = s.n.out[d]
    BY <1>1, <2>1, ConcatEmptySeq
  <2> QED
    BY <1>1, <2>2 DEF SameButChains, Sent
<1>2. CASE t # s \/ u # <<>>
  <2> DEFINE v == [s EXCEPT !.n.out[d] = @ \o u]
             x == Recycled([free |-> v.ctx.free, busy |-> v.ctx.busy[d]],
                           v.n.slow[d], bufs)
  <2>1. t = SetChains(v, d, x)
    BY <1>2 DEF NextFilter, UpdateChains
  <2>2. /\ DOMAIN v = {"ctx", "n", "stack"} /\ v.ctx = s.ctx
        /\ v.stack = s.stack /\ v.n = WithOut(s.n, d, u)
    BY DEF WithOut
  <2> HIDE DEF v, x
  <2> QED
    BY <2>1, <2>2, ChainsEffect, OutEffect
<1> QED
  BY <1>1, <1>2

\* Where the body filter runs, if it runs.
LEMMA FilteringBase ==
    ASSUME NEW s, Frames(s.stack)
    PROVE  /\ Base(s, {"body"}) => Filtering(s) = {1}
           /\ ~Base(s, {"body"}) => Filtering(s) = {}
           /\ s.stack # <<>> => 1 \in 1..Len(s.stack)
           /\ DOMAIN s.stack = 1..Len(s.stack) /\ Len(s.stack) \in Nat
<1>1. PICK S : s.stack \in Seq(S)
  BY DEF Frames, IsSeq
<1>2. DOMAIN s.stack = 1..Len(s.stack) /\ Len(s.stack) \in Nat
  BY <1>1, LenProperties
<1>3. s.stack # <<>> <=> Len(s.stack) # 0
  BY <1>1, EmptySeq
<1>4. \A i \in Filtering(s) : i = 1
  BY <1>2 DEF Filtering, Frames, FrameOK
<1>5. 1 \in Filtering(s) <=> Base(s, {"body"})
  BY <1>2, <1>3 DEF Filtering, Base
<1> QED
  BY <1>2, <1>3, <1>4, <1>5

\* Units that are no data went out directly.
LEMMA SentSound ==
    ASSUME NEW s, Sound(s), NEW t, DOMAIN t = {"ctx", "n", "stack"},
           SameButChains(s.ctx, t.ctx), t.stack = s.stack,
           NEW d \in Directions, NEW u, Silent(u), Sent(s.n, t.n, d, u)
    PROVE  Kept(s, t) /\ \A x : Matching(s, x) => Matching(t, x)
<1>1. /\ t.n.phase = s.n.phase /\ t.n.conf = s.n.conf
      /\ t.n.came = s.n.came /\ t.n.taken = s.n.taken
      /\ Session(t.n) /\ Context(t.ctx)
  BY DEF Sent, SameButChains, NetFields
<1>2. Frames(t.stack)
  BY DEF Sound
<1>3. Places(t)
  BY <1>1 DEF Sound, Places, Base, Phasing, SameButChains
<1>4. ASSUME t.n.phase # "closed", NEW b \in Directions
      PROVE  Flowing(t.n.out[b], Chained(t, b), Unseen(t, b), t.n.came[b],
                     t.n.taken[b], Looking(t, b))
  <2>1. Flowing(s.n.out[b], Chained(s, b), Unseen(s, b), s.n.came[b],
                s.n.taken[b], Looking(s, b))
    BY <1>1, <1>4 DEF Sound, Flows
  <2>2. /\ Chained(t, b) = Chained(s, b) /\ Unseen(t, b) = Unseen(s, b)
        /\ Looking(t, b) = Looking(s, b)
    BY DEF Chained, Unseen, Looking, Running, Base
  <2>3. t.n.out[b] = s.n.out[b] \/ t.n.out[b] = s.n.out[b] \o u
    BY DEF Sent
  <2>4. Flowing(s.n.out[b] \o u, Chained(s, b), Unseen(s, b), s.n.came[b],
                s.n.taken[b], Looking(s, b))
    BY <2>1, FlowSent
  <2> QED
    BY <1>1, <2>1, <2>2, <2>3, <2>4
<1>5. Sound(t)
  BY <1>1, <1>2, <1>3, <1>4 DEF Sound, Flows
<1> QED
  BY <1>1, <1>5 DEF Kept, Matching, SameButChains

\* The frame of the body filter, replaced by one like it.
LEMMA BodySound ==
    ASSUME NEW s, Sound(s), Base(s, {"body"}),
           NEW g, DOMAIN g = FrameFields, g.fn = "body", g.dir = s.stack[1].dir,
           NEW t, DOMAIN t = {"ctx", "n", "stack"},
           t.stack = [s.stack EXCEPT ![1] = g],
           Context(t.ctx), t.ctx.inProgress = s.ctx.inProgress,
           Session(t.n), t.n.phase = s.n.phase, t.n.conf = s.n.conf,
           \A d \in Directions :
               Flowing(t.n.out[d],
                       IF g.dir = d THEN g.out ELSE <<>>,
                       IF g.dir = d THEN g.in ELSE <<>>,
                       t.n.came[d], t.n.taken[d], Looking(s, d))
    PROVE  Kept(s, t)
<1>1. /\ IsSeq(s.stack) /\ 1 \in 1..Len(s.stack)
      /\ \A i \in 1..Len(s.stack) : FrameOK(s.stack, i)
      /\ s.stack[1].fn = "body"
  BY FilteringBase DEF Sound, Frames, Base
<1>2. /\ IsSeq(t.stack) /\ Len(t.stack) = Len(s.stack) /\ t.stack # <<>>
      /\ s.stack # <<>> /\ Len(s.stack) \in Nat
      /\ \A i \in 1..Len(s.stack) :
            t.stack[i] = IF i = 1 THEN g ELSE s.stack[i]
  BY <1>1, Replaced
<1>3. t.stack[1] = g
  BY <1>1, <1>2
<1>4. \A i \in 1..Len(t.stack) : FrameOK(t.stack, i)
  <2> SUFFICES ASSUME NEW i \in 1..Len(s.stack) PROVE FrameOK(t.stack, i)
    BY <1>2
  <2>1. FrameOK(s.stack, i) /\ FrameOK(s.stack, 1)
    BY <1>1
  <2>2. CASE i = 1
    BY <2>1, <2>2, <1>1, <1>2, <1>3 DEF FrameOK
  <2>3. CASE i # 1
    <3>1. t.stack[i] = s.stack[i]
      BY <2>3, <1>2
    <3> QED
      BY <2>1, <2>3, <3>1, <1>1, <1>2, <1>3 DEF FrameOK
  <2> QED
    BY <2>2, <2>3
<1>5. Base(t, {"body"}) /\ ~Base(t, {"phase", "callback"})
  BY <1>2, <1>3 DEF Base
<1>6. s.n.phase = "content" /\ (s.ctx.inProgress => Phasing(s.n))
  BY DEF Sound, Places
<1>7. Places(t)
  BY <1>5, <1>6 DEF Places, Phasing
<1>8. ASSUME NEW d \in Directions
      PROVE  /\ Chained(t, d) = IF g.dir = d THEN g.out ELSE <<>>
             /\ Unseen(t, d) = IF g.dir = d THEN g.in ELSE <<>>
             /\ Looking(t, d) = Looking(s, d)
  <2>1. Running(t, d) <=> g.dir = d
    BY <1>3, <1>5 DEF Running
  <2>2. Running(s, d) <=> g.dir = d
    BY DEF Running
  <2>3. Len(s.stack) > 1 => t.stack[2] = s.stack[2]
    <3>1. Len(s.stack) > 1 => 2 \in 1..Len(s.stack)
      BY <1>2
    <3> QED
      BY <3>1, <1>2
  <2> QED
    BY <2>1, <2>2, <2>3, <1>2, <1>3 DEF Chained, Unseen, Looking
<1>9. Flows(t)
  BY <1>8 DEF Flows
<1>10. Sound(t)
  BY <1>2, <1>4, <1>7, <1>9 DEF Sound, Frames
<1> QED
  BY <1>2, <1>10 DEF Kept

\* What flows while the body filter runs.
LEMMA BodyFlow ==
    ASSUME NEW s, Sound(s), Base(s, {"body"}), NEW d \in Directions
    PROVE  LET f == s.stack[1]
           IN  Flowing(s.n.out[d], IF f.dir = d THEN f.out ELSE <<>>,
                       IF f.dir = d THEN f.in ELSE <<>>,
                       s.n.came[d], s.n.taken[d], Looking(s, d))
<1>1. s.n.phase = "content"
  BY DEF Sound, Places
<1>2. Flowing(s.n.out[d], Chained(s, d), Unseen(s, d), s.n.came[d],
              s.n.taken[d], Looking(s, d))
  BY <1>1 DEF Sound, Flows
<1> QED
  BY <1>2 DEF Chained, Unseen, Running

\* Units for the chain of the filter.
LEMMA AppendOutSound ==
    ASSUME NEW s, Sound(s), Base(s, {"body"}), NEW u, Silent(u), NEW bufs,
           NEW t, t = AppendOut(s, u, bufs)
    PROVE  Kept(s, t) /\ \A x : Matching(s, x) => Matching(t, x)
<1> DEFINE f == s.stack[1]
           h == [f EXCEPT !.out = @ \o u]
           g == [h EXCEPT !.bufs = @ \o bufs]
<1>1. /\ DOMAIN s = {"ctx", "n", "stack"} /\ Context(s.ctx) /\ Session(s.n)
      /\ Frames(s.stack) /\ 1 \in DOMAIN s.stack /\ 1 \in 1..Len(s.stack)
      /\ Filtering(s) = {1}
  BY FilteringBase DEF Sound, Base
<1>2. DOMAIN f = FrameFields /\ f.fn = "body"
  BY <1>1 DEF Frames, FrameOK, Base
<1>3. t = [s EXCEPT !.stack[1].out = @ \o u, !.stack[1].bufs = @ \o bufs]
  <2>1. (CHOOSE i \in {1} : TRUE) = 1
    OBVIOUS
  <2> QED
    BY <1>1, <2>1 DEF AppendOut
<1>4. /\ DOMAIN t = {"ctx", "n", "stack"} /\ t.ctx = s.ctx /\ t.n = s.n
      /\ t.stack = [s.stack EXCEPT ![1] = g]
  BY <1>1, <1>2, <1>3 DEF FrameFields
<1>5. /\ DOMAIN g = FrameFields /\ g.fn = "body" /\ g.dir = f.dir
      /\ g.in = f.in /\ g.out = f.out \o u
  BY <1>2 DEF FrameFields
<1>6. ASSUME NEW d \in Directions
      PROVE  Flowing(t.n.out[d], IF g.dir = d THEN g.out ELSE <<>>,
                     IF g.dir = d THEN g.in ELSE <<>>,
                     t.n.came[d], t.n.taken[d], Looking(s, d))
  <2>1. Flowing(s.n.out[d], IF f.dir = d THEN f.out ELSE <<>>,
                IF f.dir = d THEN f.in ELSE <<>>,
                s.n.came[d], s.n.taken[d], Looking(s, d))
    BY BodyFlow
  <2> HIDE DEF g, h, f
  <2>2. CASE f.dir = d
    <3>1. Flowing(s.n.out[d], f.out, f.in, s.n.came[d], s.n.taken[d],
                  Looking(s, d))
      BY <2>1, <2>2
    <3>2. Flowing(s.n.out[d], f.out \o u, f.in, s.n.came[d], s.n.taken[d],
                  Looking(s, d))
      BY <3>1, FlowAppended
    <3> QED
      BY <3>2, <2>2, <1>4, <1>5
  <2>3. CASE f.dir # d
    BY <2>1, <2>3, <1>4, <1>5
  <2> QED
    BY <2>2, <2>3
<1>7. DOMAIN g = FrameFields /\ g.fn = "body" /\ g.dir = s.stack[1].dir
  BY <1>5
<1> HIDE DEF g, h
<1>8. Kept(s, t)
  BY <1>1, <1>4, <1>6, <1>7, BodySound
<1> QED
  BY <1>4, <1>8 DEF Matching

Opts == [given : BOOLEAN, flush : Toggles, last : Toggles, from : Toggles]

\* The direction that sendUpstream(), sendDownstream() or the options name.
LEMMA FromValues ==
    ASSUME NEW b \in Opts
    PROVE  /\ FromOption(b) \in {"unset", "up", "down"}
           /\ \A name : From(name) \in {"unset", "up", "down"}
<1>1. /\ b.given \in BOOLEAN /\ b.from \in {"absent", "true", "false"}
  BY DEF Opts, Toggles
<1>2. FromOption(b) \in {"unset", "up", "down"}
  BY <1>1 DEF FromOption
<1>3. ASSUME NEW name PROVE From(name) \in {"unset", "up", "down"}
  BY DEF From
<1> QED
  BY <1>2, <1>3

\* A change of the chains alone.
LEMMA ChainsSound ==
    ASSUME NEW s, Sound(s), NEW d, NEW x, NEW t, t = SetChains(s, d, x)
    PROVE  /\ Kept(s, t) /\ t.n = s.n /\ t.stack = s.stack
           /\ DOMAIN t = {"ctx", "n", "stack"} /\ SameButChains(s.ctx, t.ctx)
           /\ \A y : Matching(s, y) => Matching(t, y)
<1>1. /\ DOMAIN t = {"ctx", "n", "stack"}
      /\ t.n = s.n /\ t.stack = s.stack
      /\ SameButChains(s.ctx, t.ctx)
  BY ChainsEffect DEF Sound
<1>2. Kept(s, t)
  BY <1>1, ContextSound DEF SameButChains
<1> QED
  BY <1>1, <1>2 DEF SameButChains, Matching

\* A loop of send() that does not end.
LEMMA SpinsSound ==
    ASSUME NEW s, Sound(s), NEW t, t = [s EXCEPT !.n.spins = TRUE]
    PROVE  Kept(s, t) /\ \A x : Matching(s, x) => Matching(t, x)
<1>1. DOMAIN s = {"ctx", "n", "stack"} /\ Context(s.ctx) /\ Session(s.n)
  BY DEF Sound
<1>2. /\ DOMAIN t = {"ctx", "n", "stack"}
      /\ t.ctx = s.ctx /\ t.stack = s.stack
      /\ t.n = [s.n EXCEPT !.spins = TRUE]
  BY <1>1
<1>3. /\ DOMAIN t.n = NetFields
      /\ \A f \in NetFields \ {"spins"} : t.n[f] = s.n[f]
  BY <1>1, <1>2 DEF Session, NetFields
<1>4. Session(t.n)
  BY <1>1, <1>3 DEF Session, NetFields
<1>5. s.n.out["up"] \o <<>> = s.n.out["up"]
  BY <1>1, ConcatEmptySeq DEF Session, Directions
<1>6. Sent(s.n, t.n, "up", <<>>)
  BY <1>3, <1>4, <1>5 DEF Sent, NetFields
<1>7. SameButChains(s.ctx, t.ctx)
  BY <1>1, <1>2 DEF SameButChains
<1>8. Silent(<<>>) /\ "up" \in Directions
  BY SilentParts DEF Directions
<1> QED
  BY <1>2, <1>6, <1>7, <1>8, SentSound

(* What a call of a sender may do. *)
SendDoes(s, t) ==
    \/ t = s
    \/ t = [s EXCEPT !.n.spins = TRUE]
    \/ \E d \in Directions : \E u, bufs :
          Silent(u) /\ t = NextFilter(s, d, u, bufs)
    \/ \E d \in Directions : \E u, x :
          Silent(u) /\ t = [SetChains(s, d, x) EXCEPT !.n.out[d] = @ \o u]
    \/ \E v, d, u, bufs, x :
          /\ Silent(u) /\ Base(s, {"body"}) /\ t = AppendOut(v, u, bufs)
          /\ v = s \/ v = SetChains(s, d, x)

\* And none of it loses anything.
LEMMA SendDoesSound ==
    ASSUME NEW s, Sound(s), NEW t, SendDoes(s, t)
    PROVE  Kept(s, t) /\ \A x : Matching(s, x) => Matching(t, x)
<1>0. /\ DOMAIN s = {"ctx", "n", "stack"} /\ Context(s.ctx) /\ Session(s.n)
      /\ Kept(s, s)
  BY DEF Sound, Kept
<1>1. CASE t = s
  BY <1>0, <1>1
<1>2. CASE t = [s EXCEPT !.n.spins = TRUE]
  BY <1>2, SpinsSound
<1>3. ASSUME NEW d \in Directions, NEW u, NEW bufs, Silent(u),
             t = NextFilter(s, d, u, bufs)
      PROVE  Kept(s, t) /\ \A x : Matching(s, x) => Matching(t, x)
  <2>1. u \in Seq(Int)
    BY <1>3 DEF Silent
  <2>2. /\ DOMAIN t = {"ctx", "n", "stack"} /\ Sent(s.n, t.n, d, u)
        /\ t.stack = s.stack /\ SameButChains(s.ctx, t.ctx)
    BY <2>1, <1>0, <1>3, NextFilterEffect
  <2> QED
    BY <2>2, <1>3, SentSound
<1>4. ASSUME NEW d \in Directions, NEW u, NEW x, Silent(u),
             t = [SetChains(s, d, x) EXCEPT !.n.out[d] = @ \o u]
      PROVE  Kept(s, t) /\ \A y : Matching(s, y) => Matching(t, y)
  <2> DEFINE v == SetChains(s, d, x)
  <2>1. /\ v.n = s.n /\ v.stack = s.stack
        /\ DOMAIN v = {"ctx", "n", "stack"} /\ SameButChains(s.ctx, v.ctx)
    BY ChainsSound
  <2> HIDE DEF v
  <2>2. /\ DOMAIN t = {"ctx", "n", "stack"} /\ t.stack = s.stack
        /\ t.ctx = v.ctx /\ t.n = WithOut(s.n, d, u)
    BY <2>1, <1>4 DEF WithOut, v
  <2>3. u \in Seq(Int)
    BY <1>4 DEF Silent
  <2>4. Sent(s.n, t.n, d, u)
    BY <2>2, <2>3, <1>0, OutEffect
  <2>5. SameButChains(s.ctx, t.ctx)
    BY <2>1, <2>2
  <2>6. Silent(u)
    BY <1>4
  <2> QED
    BY <2>2, <2>4, <2>5, <2>6, SentSound
<1>5. ASSUME NEW v, NEW d, NEW u, NEW bufs, NEW x, Silent(u),
             Base(s, {"body"}), t = AppendOut(v, u, bufs),
             v = s \/ v = SetChains(s, d, x)
      PROVE  Kept(s, t) /\ \A y : Matching(s, y) => Matching(t, y)
  <2>1. /\ Kept(s, v) /\ v.stack = s.stack
        /\ \A y : Matching(s, y) => Matching(v, y)
    BY <1>0, <1>5, ChainsSound
  <2>2. Sound(v) /\ Base(v, {"body"})
    BY <2>1, <1>5 DEF Kept, Base
  <2>3. Kept(v, t) /\ \A y : Matching(v, y) => Matching(t, y)
    BY <2>2, <1>5, AppendOutSound
  <2> QED
    BY <2>1, <2>3 DEF Kept
<1> QED
  BY <1>1, <1>2, <1>3, <1>4, <1>5 DEF SendDoes

(* The calls of send() that Allowed() leaves in. *)
Sendable(s, op) ==
    /\ op.name \in Senders /\ op.a \in Int /\ op.b \in Opts
    /\ op.name = "send" /\ s.ctx.filter /\ Filtering(s) = {} => op.b.given

\* A send() without a direction reaches the chain only while a filter runs.
LEMMA SendNeedsFilter ==
    ASSUME NEW s, Sound(s), NEW op, Sendable(s, op), s.ctx.filter,
           From(op.name) = "unset", ~(op.b.given /\ NoBuf(s))
    PROVE  Base(s, {"body"})
<1>1. op.name = "send"
  BY DEF From, Sendable, Senders
<1>2. Frames(s.stack) /\ (~Base(s, {"body"}) => s.ctx.buf = <<>>)
  BY DEF Sound, Places
<1>3. ~Base(s, {"body"}) => Filtering(s) = {}
  BY <1>2, FilteringBase
<1> QED
  BY <1>1, <1>2, <1>3 DEF Sendable, NoBuf

\* send(), sendUpstream() and sendDownstream() in njs.
LEMMA NjsSendDoes ==
    ASSUME NEW s, Sound(s), NEW op, Sendable(s, op)
    PROVE  SendDoes(s, NjsSend(s, op).s)
<1> DEFINE flush == Option(op.b, "flush", ~NoBuf(s) /\ s.ctx.buf[1].flush)
           last == Option(op.b, "last", ~NoBuf(s) /\ s.ctx.buf[1].last)
           from == IF From(op.name) = "unset" THEN FromOption(op.b)
                   ELSE From(op.name)
           units == Units(op.a, flush, last)
           r == NjsSend(s, op)
<1>1. r = IF ~s.ctx.filter \/ op.a < 0 THEN Throws(s)
          ELSE IF from = "unset" /\ op.b.given /\ NoBuf(s) THEN Throws(s)
          ELSE IF from = "unset" THEN Does(AppendOut(s, units, <<op.a>>))
          ELSE Does(NextFilter(s, from, units, <<op.a>>))
  BY DEF NjsSend
<1>2. /\ op.a \in Int /\ op.b \in Opts
      /\ from \in {"unset", "up", "down"}
      /\ from = "unset" => From(op.name) = "unset"
  BY FromValues DEF Sendable
<1>3. op.a >= 0 => Silent(units)
  <2>1. op.a >= 0 => op.a \in Nat
    BY <1>2
  <2> QED
    BY <2>1, UnitsSilent
<1>4. from # "unset" => from \in Directions
  BY <1>2 DEF Directions
<1> HIDE DEF flush, last, from, units, r
<1>5. CASE r.s = s
  BY <1>5 DEF SendDoes, r
<1>6. CASE /\ s.ctx.filter /\ ~(op.a < 0) /\ from = "unset"
           /\ ~(op.b.given /\ NoBuf(s)) /\ r.s = AppendOut(s, units, <<op.a>>)
  <2>1. Silent(units) /\ Base(s, {"body"})
    BY <1>2, <1>3, <1>6, SendNeedsFilter
  <2> QED
    BY <2>1, <1>6 DEF SendDoes, r
<1>7. CASE /\ ~(op.a < 0) /\ from # "unset"
           /\ r.s = NextFilter(s, from, units, <<op.a>>)
  <2>1. Silent(units) /\ from \in Directions
    BY <1>2, <1>3, <1>4, <1>7
  <2> QED
    BY <2>1, <1>7 DEF SendDoes, r
<1> QED
  BY <1>1, <1>5, <1>6, <1>7 DEF Throws, Does

\* The same in QuickJS.
LEMMA QjsSendDoes ==
    ASSUME NEW s, Sound(s), NEW op, Sendable(s, op)
    PROVE  SendDoes(s, QjsSend(s, op).s)
<1> DEFINE buf == IF NoBuf(s) THEN [flush |-> FALSE, last |-> FALSE]
                  ELSE s.ctx.buf[1]
           flush == Option(op.b, "flush", buf.flush)
           last == Option(op.b, "last", buf.last)
           from == IF From(op.name) # "unset" THEN From(op.name)
                   ELSE FromOption(op.b)
           to == IF from = "unset" THEN "up" ELSE from
           loop == QjsBuffers[[free |-> s.ctx.free, busy |-> s.ctx.busy[to],
                               slow |-> s.n.slow[to], direct |-> from # "unset",
                               len |-> op.a, bufs |-> <<>>]]
           sent == SetChains(s, to, loop.w)
           units == Units(op.a, flush, last)
           r == QjsSend(s, op)
<1>1. r = IF ~s.ctx.filter THEN Throws(s)
          ELSE IF op.b.given /\ from = "unset" /\ NoBuf(s) THEN Throws(s)
          ELSE IF op.a < 0 THEN Throws(s)
          ELSE IF loop.spins THEN Does([s EXCEPT !.n.spins = TRUE])
          ELSE IF from = "unset" THEN Does(AppendOut(sent, units, loop.w.bufs))
          ELSE Does([sent EXCEPT !.n.out[from] = @ \o units])
  BY DEF QjsSend
<1>2. /\ op.a \in Int /\ op.b \in Opts
      /\ from \in {"unset", "up", "down"}
      /\ from = "unset" => From(op.name) = "unset"
  BY FromValues DEF Sendable
<1>3. op.a >= 0 => Silent(units)
  <2>1. op.a >= 0 => op.a \in Nat
    BY <1>2
  <2> QED
    BY <2>1, UnitsSilent
<1>4. from # "unset" => from \in Directions /\ to = from
  BY <1>2 DEF Directions
<1>5. PICK x : sent = SetChains(s, to, x)
  OBVIOUS
<1>6. PICK bufs : bufs = loop.w.bufs
  OBVIOUS
<1>7. PICK spins : spins = loop.spins
  OBVIOUS
<1>8. \/ r.s = s
      \/ r.s = [s EXCEPT !.n.spins = TRUE]
      \/ /\ s.ctx.filter /\ ~(op.a < 0) /\ from = "unset"
         /\ ~(op.b.given /\ NoBuf(s)) /\ r.s = AppendOut(sent, units, bufs)
      \/ /\ ~(op.a < 0) /\ from # "unset"
         /\ r.s = [sent EXCEPT !.n.out[from] = @ \o units]
  <2> HIDE DEF buf, flush, last, from, to, loop, sent, units, r
  <2> QED
    BY <1>1, <1>6, <1>7 DEF Throws, Does
<1> HIDE DEF buf, flush, last, from, to, loop, sent, units, r
<1>9. CASE r.s = s
  BY <1>9 DEF SendDoes, r
<1>10. CASE r.s = [s EXCEPT !.n.spins = TRUE]
  BY <1>10 DEF SendDoes, r
<1>11. CASE /\ s.ctx.filter /\ ~(op.a < 0) /\ from = "unset"
            /\ ~(op.b.given /\ NoBuf(s)) /\ r.s = AppendOut(sent, units, bufs)
  <2>1. Silent(units) /\ Base(s, {"body"})
    BY <1>2, <1>3, <1>11, SendNeedsFilter
  <2> QED
    BY <2>1, <1>5, <1>11 DEF SendDoes, r
<1>12. CASE /\ ~(op.a < 0) /\ from # "unset"
            /\ r.s = [sent EXCEPT !.n.out[from] = @ \o units]
  <2>1. Silent(units) /\ from \in Directions /\ to = from
    BY <1>2, <1>3, <1>4, <1>12
  <2>2. r.s = [SetChains(s, from, x) EXCEPT !.n.out[from] = @ \o units]
    BY <2>1, <1>5, <1>12
  <2> QED
    BY <2>1, <2>2 DEF SendDoes, r
<1> QED
  BY <1>8, <1>9, <1>10, <1>11, <1>12

-----------------------------------------------------------------------------
(* A call of a method.                                                     *)

\* Every method, in both engines, leaves the session sound.
LEMMA CallSound ==
    ASSUME NEW s, Sound(s), NEW op \in Calls,
           op.name = "send" /\ s.ctx.filter /\ Filtering(s) = {} => op.b.given,
           NEW r, r = Njs(s, op) \/ r = Qjs(s, op)
    PROVE  /\ Kept(s, r.s)
           /\ \A x : Matching(s, x) /\ Suits(op, x) => Matching(r.s, x)
<1>1. /\ op.name \in {"on", "off", "setReturnValue"} \cup Deciders \cup Senders
      /\ op.name \in Deciders =>
            op.a \in {"undefined"} \cup WrongCodes \cup Statuses
      /\ op.name \in Senders => op.a \in Int /\ op.b \in Opts
  BY CallsAssumption DEF Opts
<1>2. CASE op.name = "on"
  <2>1. r = NjsOn(s, op) \/ r = QjsOn(s, op)
    BY <1>2 DEF Njs, Qjs
  <2> QED
    BY <1>2, <2>1, OnSound
<1>3. CASE op.name = "off"
  <2>1. r = NjsOff(s, op) \/ r = QjsOff(s, op)
    BY <1>3 DEF Njs, Qjs
  <2> QED
    BY <1>3, <2>1, OffSound
<1>4. CASE op.name = "setReturnValue"
  <2>1. r = NjsSetReturnValue(s, op) \/ r = QjsSetReturnValue(s, op)
    BY <1>4 DEF Njs, Qjs
  <2> QED
    BY <2>1, SetReturnValueSound
<1>5. CASE op.name \in Deciders
  <2>1. r = NjsDone(s, op) \/ r = QjsDone(s, op)
    BY <1>5 DEF Njs, Qjs, Deciders
  <2> QED
    BY <1>1, <1>5, <2>1, DoneSound
<1>6. CASE op.name \in Senders
  <2>1. r = NjsSend(s, op) \/ r = QjsSend(s, op)
    BY <1>6 DEF Njs, Qjs, Senders
  <2>2. Sendable(s, op)
    BY <1>1, <1>6 DEF Sendable
  <2>3. SendDoes(s, r.s)
    BY <2>1, <2>2, NjsSendDoes, QjsSendDoes
  <2> QED
    BY <2>3, SendDoesSound
<1> QED
  BY <1>1, <1>2, <1>3, <1>4, <1>5, <1>6

-----------------------------------------------------------------------------
(* Frames come and go.                                                     *)

(* What may be called from where. *)
Fits(q, f) ==
    /\ q # <<>> => q[Len(q)].fn # "variable"
    /\ \/ q = <<>> /\ f.fn \in {"phase", "timer", "body", "callback"}
       \/ Len(q) = 1 /\ q[1].fn = "body" /\ f.fn \in {"filter", "callback"}
       \/ q # <<>> /\ f.fn = "variable"
    /\ DOMAIN f = FrameFields /\ f.dir \in Directions

Called(q, f) == Append(q, f)

\* A call begins.
LEMMA PushFrames ==
    ASSUME NEW q, Frames(q), NEW f, Fits(q, f), NEW p, p = Called(q, f)
    PROVE  /\ Frames(p) /\ p # <<>> /\ Len(p) = Len(q) + 1
           /\ \A i \in 1..Len(q) : p[i] = q[i]
           /\ p[Len(q) + 1] = f
<1> DEFINE m == Len(q)
<1>1. /\ IsSeq(p) /\ m \in Nat /\ Len(p) = m + 1 /\ p # <<>>
      /\ \A i \in 1..m : p[i] = q[i]
      /\ p[m + 1] = f
  BY Pushed DEF Frames, Called
<1>2. q = <<>> <=> m = 0
  <2>1. PICK S : q \in Seq(S)
    BY DEF Frames, IsSeq
  <2> QED
    BY <2>1, EmptySeq
<1> HIDE DEF m
<1>3. /\ q # <<>> => q[m].fn # "variable"
      /\ \/ q = <<>> /\ f.fn \in {"phase", "timer", "body", "callback"}
         \/ m = 1 /\ q[1].fn = "body" /\ f.fn \in {"filter", "callback"}
         \/ q # <<>> /\ f.fn = "variable"
      /\ \A i \in 1..m : FrameOK(q, i)
      /\ DOMAIN f = FrameFields /\ f.dir \in Directions
  BY DEF m, Frames, Fits
<1>4. m > 0 => 1 \in 1..m /\ p[1] = q[1]
  BY <1>1
<1>5. FrameOK(p, m + 1)
  BY <1>1, <1>2, <1>3, <1>4 DEF FrameOK, ScriptFns
<1>6. ASSUME NEW i \in 1..m PROVE FrameOK(p, i)
  <2>1. /\ FrameOK(q, i) /\ p[i] = q[i] /\ p[1] = q[1] /\ m > 0
    BY <1>1, <1>3, <1>4
  <2>2. q[i].fn # "variable"
    <3>1. CASE i = m
      BY <3>1, <2>1, <1>2, <1>3
    <3>2. CASE i # m
      BY <3>2, <2>1 DEF FrameOK, m
    <3> QED
      BY <3>1, <3>2
  <2> QED
    BY <2>1, <2>2 DEF FrameOK
<1>7. \A i \in 1..(m + 1) : FrameOK(p, i)
  BY <1>1, <1>5, <1>6
<1>8. Frames(p)
  BY <1>1, <1>7 DEF Frames
<1> QED
  BY <1>1, <1>8 DEF m

\* A call returns.
LEMMA PopFrames ==
    ASSUME NEW q, Frames(q), q # <<>>, NEW p, p = SubSeq(q, 1, Len(q) - 1)
    PROVE  /\ Frames(p) /\ Len(q) \in Nat /\ Len(q) > 0 /\ Len(p) = Len(q) - 1
           /\ p # <<>> <=> Len(q) > 1
           /\ \A i \in 1..Len(p) : p[i] = q[i]
<1> DEFINE m == Len(q)
           k == Len(p)
<1>1. /\ IsSeq(p) /\ m \in Nat /\ m > 0
      /\ k = m - 1
      /\ p # <<>> <=> m > 1
      /\ \A i \in 1..k : p[i] = q[i]
  BY Popped DEF Frames
<1>2. \A i \in 1..m : FrameOK(q, i)
  BY DEF Frames
<1> HIDE DEF k
<1>3. ASSUME NEW i \in 1..k PROVE FrameOK(p, i)
  <2>1. i \in 1..m /\ 1 \in 1..k /\ i # m
    BY <1>1
  <2>2. FrameOK(q, i) /\ p[i] = q[i] /\ p[1] = q[1]
    BY <1>1, <1>2, <2>1
  <2> QED
    BY <2>1, <2>2 DEF FrameOK, k
<1>4. Frames(p)
  BY <1>1, <1>3 DEF Frames, k
<1> QED
  BY <1>1, <1>4 DEF k

-----------------------------------------------------------------------------
(* Phases.                                                                 *)

(* Somebody is waited for, if only for a download event or for nobody.     *)
Awaits(s) ==
    s.n.phase # "closed" /\ s.ctx.inProgress /\ ~s.n.posted /\ s.stack = <<>> =>
        s.ctx.timers > 0 \/ s.n.reading \/ PendingEvents(s)

(* What PhaseDecides says of a step from s to t. *)
Passes(s, t) ==
    /\ s.n.phase \in Waiting /\ t.n.phase \notin {s.n.phase, "closed"}
    /\ s.n.conf[s.n.phase] /\ s.n.conf.vm
    => /\ t.ctx.timers = 0 /\ \A d \in Directions : ~t.ctx.ev[d].fn
       /\ t.ctx.status \in {"OK", "DECLINED"} /\ ~t.ctx.inProgress

(* All that a step must do. *)
Good(s, t) ==
    /\ Sound(t) /\ Awaits(t) /\ Passes(s, t)
    /\ \A x : Matching(s, x) => Matching(t, x)

\* A session that ends.
LEMMA FinalizeGood ==
    ASSUME NEW s, Sound(s)
    PROVE  \A r : Good(r, Finalize(s)) <=> \A x : Matching(r, x) =>
                      Matching(Finalize(s), x)
<1>1. DOMAIN s = {"ctx", "n", "stack"} /\ DOMAIN s.n = NetFields
  BY DEF Sound, Session
<1>2. Finalize(s).n.phase = "closed"
  BY <1>1 DEF Finalize, NetFields
<1>3. Sound(Finalize(s))
  BY FinalizeSound
<1> QED
  BY <1>2, <1>3 DEF Good, Awaits, Passes

\* Nothing is set in a session that has ended.
LEMMA FinalizeMatches ==
    ASSUME NEW s, Sound(s), NEW x PROVE Matching(Finalize(s), x)
<1>1. DOMAIN s = {"ctx", "n", "stack"}
  BY DEF Sound
<1>2. Finalize(s).ctx = FreshCtx
  BY <1>1 DEF Finalize
<1> QED
  BY <1>2 DEF Matching, FreshCtx, Unset

\* So a session may end at any time.
LEMMA Finalizes ==
    ASSUME NEW r, NEW s, Sound(s) PROVE Good(r, Finalize(s))
BY FinalizeGood, FinalizeMatches

\* Only what the phases post and read has changed.
LEMMA PostedSound ==
    ASSUME NEW s, Sound(s), NEW t, DOMAIN t = {"ctx", "n", "stack"},
           t.ctx = s.ctx, t.stack = s.stack, Session(t.n),
           \A f \in {"phase", "conf", "came", "taken", "out"} : t.n[f] = s.n[f]
    PROVE  Sound(t) /\ \A x : Matching(s, x) => Matching(t, x)
<1>1. /\ t.n.phase = s.n.phase /\ t.n.conf = s.n.conf /\ t.n.came = s.n.came
      /\ t.n.taken = s.n.taken /\ t.n.out = s.n.out
  OBVIOUS
<1>2. Context(t.ctx) /\ Frames(t.stack)
  BY DEF Sound
<1>3. Places(t)
  BY <1>1 DEF Sound, Places, Base, Phasing
<1>4. \A d : /\ Chained(t, d) = Chained(s, d) /\ Unseen(t, d) = Unseen(s, d)
             /\ Looking(t, d) = Looking(s, d)
  BY DEF Chained, Unseen, Looking, Running, Base
<1>5. Flows(t)
  BY <1>1, <1>4 DEF Sound, Flows
<1> QED
  BY <1>2, <1>3, <1>5 DEF Sound, Matching

NextPhase(s) == [s EXCEPT !.n.phase = PhaseAfter[@], !.n.posted = TRUE,
                          !.n.reading = FALSE]

\* The next phase begins.
LEMMA NextPhaseSound ==
    ASSUME NEW s, Sound(s), s.n.phase \in Waiting, s.stack = <<>>,
           ~s.ctx.inProgress,
           NEW t, t = NextPhase(s)
    PROVE  /\ Sound(t) /\ t.ctx = s.ctx /\ t.n.posted
           /\ \A x : Matching(s, x) => Matching(t, x)
<1>1. DOMAIN s = {"ctx", "n", "stack"} /\ Session(s.n) /\ Context(s.ctx)
      /\ Frames(s.stack) /\ s.ctx.buf = <<>>
  BY DEF Sound, Places, Base
<1> DEFINE p == PhaseAfter[s.n.phase]
<1>2. p \in {"preread", "content"}
  BY DEF PhaseAfter, Waiting
<1> HIDE DEF p
<1>3. /\ DOMAIN t = {"ctx", "n", "stack"} /\ t.ctx = s.ctx /\ t.stack = s.stack
      /\ DOMAIN t.n = NetFields
      /\ t.n.phase = p /\ t.n.posted = TRUE /\ t.n.reading = FALSE
      /\ t.n.conf = s.n.conf /\ t.n.came = s.n.came
      /\ t.n.taken = s.n.taken /\ t.n.out = s.n.out /\ t.n.slow = s.n.slow
  BY <1>1 DEF NextPhase, Session, NetFields, p
<1>4. Session(t.n)
  BY <1>1, <1>2, <1>3 DEF Session, Waiting
<1>5. Places(t)
  BY <1>1, <1>2, <1>3 DEF Places, Base
<1>6. \A d : /\ Chained(t, d) = Chained(s, d) /\ Unseen(t, d) = Unseen(s, d)
             /\ Looking(t, d) = Looking(s, d)
  BY <1>3 DEF Chained, Unseen, Looking, Running, Base
<1>7. Flows(t)
  BY <1>3, <1>6 DEF Sound, Flows, Waiting
<1> QED
  BY <1>1, <1>3, <1>4, <1>5, <1>7 DEF Sound, Matching

\* The answer of a handler.
LEMMA PhaseAnswerGood ==
    ASSUME NEW s, Sound(s), s.n.phase \in Waiting, s.stack = <<>>,
           NEW rc, rc \in {"OK", "DECLINED"} => ~s.ctx.inProgress,
           s.ctx.inProgress => StreamPending(s),
           NEW r, r.n.phase = s.n.phase, r.n.conf = s.n.conf,
           rc \in {"OK", "DECLINED"} => \/ ~Phasing(s.n)
                                        \/ ~StreamPending(s) /\ s.ctx.status = rc,
           \A x : Matching(r, x) => Matching(s, x)
    PROVE  Good(r, PhaseAnswer(s, rc))
<1> DEFINE t == PhaseAnswer(s, rc)
<1>1. CASE rc \in {"OK", "DECLINED"}
  <2>1. t = NextPhase(s)
    BY <1>1 DEF PhaseAnswer, NextPhase
  <2> HIDE DEF t
  <2>2. /\ Sound(t) /\ t.ctx = s.ctx /\ t.n.posted
        /\ \A x : Matching(s, x) => Matching(t, x)
    BY <2>1, <1>1, NextPhaseSound
  <2>3. Awaits(t)
    BY <2>2 DEF Awaits
  <2>4. Passes(r, t)
    <3>1. CASE ~Phasing(s.n)
      BY <3>1 DEF Passes, Phasing
    <3>2. CASE ~StreamPending(s) /\ s.ctx.status = rc
      <4>1. s.ctx.timers = 0
        BY <3>2 DEF StreamPending, Sound, Context
      <4>2. \A d \in Directions : ~s.ctx.ev[d].fn
        BY <3>2 DEF StreamPending, PendingEvents, Sound, Context
      <4> QED
        BY <4>1, <4>2, <3>2, <2>2, <1>1 DEF Passes
    <3> QED
      BY <3>1, <3>2, <1>1
  <2>5. Good(r, t)
    BY <2>2, <2>3, <2>4 DEF Good
  <2> QED
    BY <2>5 DEF t
<1>2. CASE rc \in {"AGAIN", "DONE"}
  <2>1. PICK b \in BOOLEAN : t = [s EXCEPT !.n.reading = b]
    <3>1. rc = "AGAIN" => t = [s EXCEPT !.n.reading = (s.n.phase = "preread")]
      BY DEF PhaseAnswer
    <3>2. rc = "DONE" => t = [s EXCEPT !.n.reading = FALSE]
      BY DEF PhaseAnswer
    <3> HIDE DEF t
    <3> QED
      BY <3>1, <3>2, <1>2
  <2> HIDE DEF t
  <2>2. DOMAIN s = {"ctx", "n", "stack"} /\ Session(s.n)
    BY DEF Sound
  <2>3. /\ DOMAIN t = {"ctx", "n", "stack"} /\ t.ctx = s.ctx
        /\ t.stack = s.stack /\ DOMAIN t.n = NetFields /\ t.n.reading = b
        /\ \A f \in NetFields \ {"reading"} : t.n[f] = s.n[f]
    BY <2>1, <2>2 DEF Session, NetFields
  <2>4. Session(t.n)
    BY <2>2, <2>3 DEF Session, NetFields
  <2>5. Sound(t) /\ \A x : Matching(s, x) => Matching(t, x)
    BY <2>3, <2>4, PostedSound DEF NetFields
  <2>6. Awaits(t)
    BY <2>3 DEF Awaits, StreamPending, PendingEvents
  <2>7. Passes(r, t)
    BY <2>3 DEF Passes, NetFields
  <2>8. Good(r, t)
    BY <2>5, <2>6, <2>7 DEF Good
  <2> QED
    BY <2>8 DEF t
<1>3. CASE rc \notin {"OK", "DECLINED", "AGAIN", "DONE"}
  <2>1. t = Finalize(s)
    BY <1>3 DEF PhaseAnswer
  <2> QED
    BY <2>1, Finalizes
<1> QED
  BY <1>1, <1>2, <1>3

(* The state a step began in, seen from a later one within it. *)
Like(r, s) ==
    /\ r.n.phase = s.n.phase /\ r.n.conf = s.n.conf
    /\ \A x : Matching(r, x) => Matching(s, x)

\* A step that stays in its phase and in a script.
LEMMA StaysGood ==
    ASSUME NEW r, NEW s, Like(r, s), NEW t, Sound(t), t.n.phase = s.n.phase,
           t.stack # <<>> \/ t.n.phase = "content" \/ t.n.posted,
           \A x : Matching(s, x) => Matching(t, x)
    PROVE  Good(r, t)
<1>1. Awaits(t)
  BY DEF Awaits, Sound, Places, Phasing, Waiting
<1> QED
  BY <1>1 DEF Good, Like, Passes

SetProgress(s, b) == [s EXCEPT !.ctx.inProgress = b]

\* The phase is in progress, or no longer.
LEMMA ProgressSound ==
    ASSUME NEW s, Sound(s), NEW b \in BOOLEAN, b => Phasing(s.n),
           NEW t, t = SetProgress(s, b)
    PROVE  /\ Sound(t) /\ t.n = s.n /\ t.stack = s.stack
           /\ t.ctx.inProgress = b /\ t.ctx.status = s.ctx.status
           /\ StreamPending(t) = StreamPending(s)
           /\ \A x : Matching(s, x) => Matching(t, x)
<1>1. DOMAIN s = {"ctx", "n", "stack"} /\ Context(s.ctx)
  BY DEF Sound
<1>2. /\ DOMAIN t = {"ctx", "n", "stack"} /\ t.n = s.n /\ t.stack = s.stack
      /\ DOMAIN t.ctx = CtxFields /\ t.ctx.inProgress = b
      /\ t.ctx.ev = s.ctx.ev /\ t.ctx.timers = s.ctx.timers
      /\ t.ctx.status = s.ctx.status /\ t.ctx.buf = s.ctx.buf
      /\ t.ctx.filter = s.ctx.filter
  BY <1>1 DEF SetProgress, Context, CtxFields
<1>3. Context(t.ctx)
  BY <1>1, <1>2 DEF Context
<1>4. Places(t)
  BY <1>2 DEF Sound, Places, Base
<1>5. \A d : /\ Chained(t, d) = Chained(s, d) /\ Unseen(t, d) = Unseen(s, d)
             /\ Looking(t, d) = Looking(s, d)
  BY <1>2 DEF Chained, Unseen, Looking, Running, Base
<1>6. Flows(t)
  BY <1>2, <1>5 DEF Sound, Flows
<1>7. Sound(t)
  BY <1>2, <1>3, <1>4, <1>6 DEF Sound
<1>8. StreamPending(t) = StreamPending(s)
  BY <1>2 DEF StreamPending, PendingEvents
<1> QED
  BY <1>2, <1>7, <1>8 DEF Matching

\* The end of ngx_stream_js_phase_handler.
LEMMA PhaseCheckedGood ==
    ASSUME NEW s, Sound(s), s.stack = <<>>, Phasing(s.n), NEW r, Like(r, s)
    PROVE  Good(r, PhaseChecked(s))
<1>1. s.n.phase \in Waiting
  BY DEF Phasing
<1>2. CASE StreamPending(s)
  <2> DEFINE t == SetProgress(s, TRUE)
             rc == IF s.ctx.ev["up"].type # "unset" THEN "AGAIN" ELSE "DONE"
  <2>1. PhaseChecked(s) = PhaseAnswer(t, rc)
    BY <1>2 DEF PhaseChecked, SetProgress
  <2>2. rc \notin {"OK", "DECLINED"}
    OBVIOUS
  <2>3. /\ Sound(t) /\ t.n = s.n /\ t.stack = s.stack
        /\ t.ctx.inProgress = TRUE /\ StreamPending(t) = StreamPending(s)
        /\ \A x : Matching(s, x) => Matching(t, x)
    BY ProgressSound
  <2> HIDE DEF t, rc
  <2>4. Good(r, PhaseAnswer(t, rc))
    BY <2>2, <2>3, <1>1, <1>2, PhaseAnswerGood DEF Like
  <2> QED
    BY <2>1, <2>4
<1>3. CASE ~StreamPending(s)
  <2> DEFINE t == SetProgress(s, FALSE)
  <2>1. PhaseChecked(s) = PhaseAnswer(t, s.ctx.status)
    BY <1>3 DEF PhaseChecked, SetProgress
  <2>2. /\ Sound(t) /\ t.n = s.n /\ t.stack = s.stack
        /\ t.ctx.inProgress = FALSE /\ StreamPending(t) = StreamPending(s)
        /\ t.ctx.status = s.ctx.status
        /\ \A x : Matching(s, x) => Matching(t, x)
    BY ProgressSound
  <2> HIDE DEF t
  <2>3. Good(r, PhaseAnswer(t, s.ctx.status))
    BY <2>2, <1>1, <1>3, PhaseAnswerGood DEF Like
  <2> QED
    BY <2>1, <2>3
<1> QED
  BY <1>2, <1>3

\* A script is called while none runs.
LEMMA PushGood ==
    ASSUME NEW s, Sound(s), s.stack = <<>>, s.n.phase # "closed",
           NEW f, DOMAIN f = FrameFields, f.dir \in Directions,
           f.fn \in {"phase", "callback", "timer"},
           f.fn # "timer" => Phasing(s.n),
           NEW r, Like(r, s)
    PROVE  Good(r, Push(s, f))
<1> DEFINE t == Push(s, f)
<1>1. DOMAIN s = {"ctx", "n", "stack"} /\ Frames(s.stack) /\ s.ctx.buf = <<>>
  BY DEF Sound, Places, Base
<1>2. /\ DOMAIN t = {"ctx", "n", "stack"} /\ t.ctx = s.ctx /\ t.n = s.n
      /\ t.stack = Append(s.stack, f)
  BY <1>1 DEF Push
<1> HIDE DEF t
<1>3. Len(s.stack) = 0
  BY EmptySeq
<1>4. Frames(t.stack) /\ t.stack # <<>> /\ t.stack[1] = f
  <2>1. /\ s.stack = <<>> /\ f.fn \in {"phase", "timer", "body", "callback"}
        /\ DOMAIN f = FrameFields /\ f.dir \in Directions
    OBVIOUS
  <2>2. PICK q : q = s.stack
    OBVIOUS
  <2>3. PICK p : p = Called(q, f)
    OBVIOUS
  <2>4. /\ Frames(p) /\ p # <<>> /\ p[Len(q) + 1] = f
    <3>1. Fits(q, f) /\ Frames(q)
      BY <2>1, <2>2, <1>1 DEF Fits
    <3> QED
      BY ONLY <2>3, <3>1, PushFrames
  <2> QED
    BY <2>2, <2>3, <2>4, <1>2, <1>3 DEF Called
<1>5. Places(t)
  BY <1>1, <1>2, <1>4 DEF Sound, Places, Base
<1>6. \A d : /\ Chained(t, d) = Chained(s, d) /\ Unseen(t, d) = Unseen(s, d)
             /\ Looking(t, d) = Looking(s, d)
  BY <1>4 DEF Chained, Unseen, Looking, Running, Base
<1>7. Flows(t)
  BY <1>2, <1>6 DEF Sound, Flows
<1>8. Sound(t)
  BY <1>2, <1>4, <1>5, <1>7 DEF Sound
<1>9. Good(r, t)
  BY <1>2, <1>4, <1>8, StaysGood DEF Matching
<1> QED
  BY <1>9 DEF t

\* A frame has its fields.
LEMMA FrameFieldsOK ==
    ASSUME NEW fn, NEW d \in Directions
    PROVE  /\ DOMAIN Frame(fn) = FrameFields
           /\ Frame(fn).fn = fn /\ Frame(fn).dir \in Directions
           /\ DOMAIN [Frame(fn) EXCEPT !.dir = d] = FrameFields
           /\ [Frame(fn) EXCEPT !.dir = d].fn = fn
           /\ [Frame(fn) EXCEPT !.dir = d].dir = d
BY DEF Frame, FrameFields, Directions

\* The upload callback of a phase, or its end.
LEMMA PhaseEventGood ==
    ASSUME NEW s, Sound(s), s.stack = <<>>, Phasing(s.n), NEW r, Like(r, s)
    PROVE  Good(r, PhaseEvent(s))
<1>1. CASE s.ctx.ev["up"].fn
  <2> DEFINE f == [Frame("callback") EXCEPT !.dir = "up"]
  <2>1. PhaseEvent(s) = Push(s, f)
    BY <1>1 DEF PhaseEvent, RunEvent
  <2>2. DOMAIN f = FrameFields /\ f.fn = "callback" /\ f.dir \in Directions
    BY FrameFieldsOK DEF Directions
  <2>3. s.n.phase # "closed"
    BY DEF Phasing, Waiting
  <2> HIDE DEF f
  <2> QED
    BY <2>1, <2>2, <2>3, PushGood
<1>2. CASE ~s.ctx.ev["up"].fn
  BY <1>2, PhaseCheckedGood DEF PhaseEvent
<1> QED
  BY <1>1, <1>2

\* ngx_stream_js_phase_handler.
LEMMA PhaseHandlerGood ==
    ASSUME NEW s, Sound(s), s.stack = <<>>, s.n.phase \in Waiting,
           NEW r, Like(r, s)
    PROVE  Good(r, PhaseHandler(s))
<1>1. CASE ~s.n.conf[s.n.phase] \/ ~s.n.conf.vm
  <2>1. PhaseHandler(s) = PhaseAnswer(s, "DECLINED")
    BY <1>1 DEF PhaseHandler
  <2>2. ~Phasing(s.n) /\ ~s.ctx.inProgress
    BY <1>1 DEF Phasing, Sound, Places, Context
  <2> QED
    BY <2>1, <2>2, PhaseAnswerGood DEF Like
<1>2. CASE Phasing(s.n) /\ s.ctx.inProgress
  <2>1. PhaseHandler(s) = PhaseEvent(s)
    BY <1>2 DEF PhaseHandler, Phasing
  <2> QED
    BY <2>1, <1>2, PhaseEventGood
<1>3. CASE Phasing(s.n) /\ ~s.ctx.inProgress
  <2> DEFINE t == [s EXCEPT !.ctx.status = "ERROR"]
  <2>1. PhaseHandler(s) = Push(t, Frame("phase"))
    BY <1>3 DEF PhaseHandler, Phasing
  <2>2. DOMAIN s = {"ctx", "n", "stack"} /\ Context(s.ctx)
    BY DEF Sound
  <2>3. /\ DOMAIN t = {"ctx", "n", "stack"} /\ t.n = s.n /\ t.stack = s.stack
        /\ t.ctx = [s.ctx EXCEPT !.status = "ERROR"]
    BY <2>2
  <2> HIDE DEF t
  <2>4. /\ Context(t.ctx) /\ t.ctx.ev = s.ctx.ev /\ t.ctx.buf = s.ctx.buf
        /\ t.ctx.inProgress = s.ctx.inProgress
    BY <2>2, <2>3 DEF Context, CtxFields, Statuses
  <2>5. Kept(s, t)
    BY <2>3, <2>4, ContextSound
  <2>6. Sound(t) /\ Like(r, t) /\ Phasing(t.n) /\ t.n.phase # "closed"
    BY <2>3, <2>4, <2>5, <1>3 DEF Kept, Like, Matching, Phasing, Waiting
  <2>7. /\ DOMAIN Frame("phase") = FrameFields /\ Frame("phase").fn = "phase"
        /\ Frame("phase").dir \in Directions
    BY FrameFieldsOK DEF Directions
  <2> QED
    BY <2>1, <2>3, <2>6, <2>7, PushGood
<1> QED
  BY <1>1, <1>2, <1>3 DEF Phasing

-----------------------------------------------------------------------------
(* Scripts return.                                                         *)

\* A function has returned, but for a callback of the filter.
LEMMA PopSound ==
    ASSUME NEW s, Sound(s), s.stack # <<>>, Top(s).fn # "body",
           Top(s).fn = "callback" => Len(s.stack) = 1,
           NEW t, t = Pop(s)
    PROVE  /\ Sound(t) /\ t.ctx = s.ctx /\ t.n = s.n
           /\ t.stack = <<>> <=> Len(s.stack) = 1
           /\ \A x : Matching(s, x) => Matching(t, x)
<1> DEFINE k == Len(s.stack)
<1>1. DOMAIN s = {"ctx", "n", "stack"} /\ Frames(s.stack)
  BY DEF Sound
<1>2. /\ DOMAIN t = {"ctx", "n", "stack"} /\ t.ctx = s.ctx /\ t.n = s.n
      /\ t.stack = SubSeq(s.stack, 1, Len(s.stack) - 1)
  BY <1>1 DEF Pop
<1>3. /\ Frames(t.stack) /\ k \in Nat /\ k > 0 /\ Len(t.stack) = k - 1
      /\ t.stack # <<>> <=> k > 1
      /\ \A i \in 1..Len(t.stack) : t.stack[i] = s.stack[i]
  BY ZenonT(40), <1>1, <1>2, PopFrames
<1>4. Top(s) = s.stack[k]
  BY DEF Top
<1> HIDE DEF k
<1>5. k > 1 => t.stack[1] = s.stack[1]
  BY <1>3
<1>6. k > 2 => t.stack[2] = s.stack[2]
  BY <1>3
<1>7. Base(t, {"body"}) <=> Base(s, {"body"})
  <2>1. CASE k = 1
    BY <2>1, <1>3, <1>4 DEF Base
  <2>2. CASE k > 1
    BY <2>2, <1>3, <1>5 DEF Base
  <2> QED
    BY <2>1, <2>2, <1>3
<1>8. \A d : Running(t, d) <=> Running(s, d)
  <2>1. Base(s, {"body"}) => k > 1
    BY <1>3, <1>4 DEF Base
  <2> QED
    BY <2>1, <1>5, <1>7 DEF Running
<1>9. Base(s, {"body"}) => t.stack[1] = s.stack[1]
  BY <1>3, <1>4, <1>5 DEF Base
<1>10. \A d : /\ Chained(t, d) = Chained(s, d) /\ Unseen(t, d) = Unseen(s, d)
  BY <1>8, <1>9 DEF Chained, Unseen, Running
<1>11. \A d : Looking(t, d) <=> Looking(s, d)
  <2>1. CASE k = 1
    BY <2>1, <1>3 DEF Looking, k
  <2>2. CASE k = 2
    BY <2>2, <1>3, <1>4 DEF Looking, k
  <2>3. CASE k > 2
    BY <2>3, <1>3, <1>6, <1>8 DEF Looking, k
  <2> QED
    BY <2>1, <2>2, <2>3, <1>3
<1>12. Flows(t)
  <2>1. ASSUME NEW d \in Directions, s.n.phase # "closed"
        PROVE  Flowing(t.n.out[d], Chained(t, d), Unseen(t, d), t.n.came[d],
                       t.n.taken[d], Looking(t, d))
    <3>1. Flowing(s.n.out[d], Chained(s, d), Unseen(s, d), s.n.came[d],
                  s.n.taken[d], Looking(s, d))
      BY <2>1 DEF Sound, Flows
    <3>2. CASE Looking(s, d)
      <4>1. Looking(t, d) = Looking(s, d)
        BY <3>2, <1>11 DEF Looking, Running, Base
      <4> QED
        BY <3>1, <4>1, <1>2, <1>10
    <3>3. CASE ~Looking(s, d)
      <4>1. Looking(t, d) = Looking(s, d)
        BY <3>3, <1>11 DEF Looking, Running, Base
      <4> QED
        BY <3>1, <4>1, <1>2, <1>10
    <3> QED
      BY <3>2, <3>3
  <2> QED
    BY <2>1, <1>2 DEF Flows
<1>13. Places(t)
  <2>1. Base(t, {"phase", "callback"}) => Base(s, {"phase", "callback"})
    BY <1>3, <1>5 DEF Base
  <2>2. s.n.phase = "closed" => t.stack = <<>>
    BY DEF Sound, Places
  <2> QED
    BY <2>1, <2>2, <1>2, <1>7 DEF Sound, Places
<1>14. Sound(t)
  BY <1>2, <1>3, <1>12, <1>13 DEF Sound
<1>15. t.stack = <<>> <=> k = 1
  BY <1>3
<1> QED
  BY <1>2, <1>14, <1>15 DEF Matching, k

\* Where the function on top stands.
LEMMA TopPlace ==
    ASSUME NEW s, Sound(s), s.stack # <<>>
    PROVE  /\ Len(s.stack) \in Nat /\ Len(s.stack) > 0
           /\ Top(s).fn \in ScriptFns \cup {"body"}
           /\ Top(s).fn \in {"phase", "timer", "body"} => Len(s.stack) = 1
           /\ Top(s).fn = "phase" => Phasing(s.n)
           /\ Top(s).fn = "body" => s.n.phase = "content" /\ Base(s, {"body"})
           /\ Top(s).fn = "callback" /\ Len(s.stack) = 1 => Phasing(s.n)
           /\ Top(s).fn \in {"filter", "variable"} => Len(s.stack) # 1
           /\ Top(s).fn = "filter" =>
                 Base(s, {"body"}) /\ s.n.phase = "content"
           /\ Top(s).fn = "callback" /\ Len(s.stack) # 1 =>
                 /\ Len(s.stack) = 2 /\ Base(s, {"body"})
                 /\ s.n.phase = "content"
           /\ s.n.phase # "closed"
<1> DEFINE k == Len(s.stack)
<1>1. Frames(s.stack) /\ Places(s) /\ IsSeq(s.stack)
  BY DEF Sound, Frames
<1>2. k \in Nat /\ k > 0
  BY <1>1, EmptySeq, LenProperties DEF IsSeq
<1>3. Top(s) = s.stack[k]
  BY DEF Top
<1>4. FrameOK(s.stack, k)
  BY <1>1, <1>2 DEF Frames
<1> HIDE DEF k
<1>5. /\ Top(s).fn \in ScriptFns \cup {"body"}
      /\ Top(s).fn \in {"phase", "timer", "body"} => k = 1
      /\ Top(s).fn = "filter" => k = 2 /\ s.stack[1].fn = "body"
      /\ Top(s).fn = "callback" => k = 1 \/ (k = 2 /\ s.stack[1].fn = "body")
      /\ Top(s).fn = "variable" => k # 1
  BY <1>3, <1>4 DEF FrameOK
<1>6. /\ Top(s).fn = "phase" => Base(s, {"phase", "callback"})
      /\ Top(s).fn = "body" => Base(s, {"body"})
      /\ Top(s).fn = "callback" /\ k = 1 => Base(s, {"phase", "callback"})
      /\ Top(s).fn = "filter" => Base(s, {"body"})
      /\ Top(s).fn = "callback" /\ k # 1 => Base(s, {"body"})
  BY <1>3, <1>5 DEF Base
<1>7. /\ Base(s, {"phase", "callback"}) => Phasing(s.n)
      /\ Base(s, {"body"}) => s.n.phase = "content"
      /\ s.n.phase # "closed"
  BY <1>1 DEF Places
<1>8. Len(s.stack) = k
  BY DEF k
<1> QED
  BY <1>2, <1>5, <1>6, <1>7, <1>8

\* A session whose filter runs.
LEMMA BodyStack ==
    ASSUME NEW t, DOMAIN t = {"ctx", "n", "stack"}, Frames(t.stack),
           t.stack # <<>>, NEW g, t.stack[1] = g, g.fn = "body",
           Context(t.ctx), ~t.ctx.inProgress, Session(t.n),
           t.n.phase = "content",
           \A d \in Directions :
               Flowing(t.n.out[d],
                       IF g.dir = d THEN g.out ELSE <<>>,
                       IF g.dir = d THEN g.in ELSE <<>>,
                       t.n.came[d], t.n.taken[d], Looking(t, d))
    PROVE  Sound(t)
<1>1. Base(t, {"body"}) /\ ~Base(t, {"phase", "callback"})
  BY DEF Base
<1>2. Places(t)
  BY <1>1 DEF Places
<1>3. \A d : /\ Chained(t, d) = IF g.dir = d THEN g.out ELSE <<>>
             /\ Unseen(t, d) = IF g.dir = d THEN g.in ELSE <<>>
  BY <1>1 DEF Chained, Unseen, Running
<1>4. Flows(t)
  BY <1>3 DEF Flows
<1> QED
  BY <1>2, <1>4 DEF Sound

\* A session in which nothing runs, after the phases.
LEMMA IdleSound ==
    ASSUME NEW t, DOMAIN t = {"ctx", "n", "stack"}, t.stack = <<>>,
           Context(t.ctx), ~t.ctx.inProgress, t.ctx.buf = <<>>,
           Session(t.n), t.n.phase = "content",
           \A d \in Directions :
               Flowing(t.n.out[d], <<>>, <<>>, t.n.came[d], t.n.taken[d], FALSE)
    PROVE  Sound(t)
<1>1. \A fns : ~Base(t, fns)
  BY DEF Base
<1>2. \A d : Chained(t, d) = <<>> /\ Unseen(t, d) = <<>> /\ Looking(t, d) = FALSE
  BY <1>1 DEF Chained, Unseen, Looking, Running
<1>3. Flows(t)
  BY <1>2 DEF Flows
<1>4. Places(t)
  BY <1>1 DEF Places
<1>5. Frames(t.stack)
  <2>1. <<>> \in Seq({}) /\ Len(<<>>) = 0
    OBVIOUS
  <2> QED
    BY <2>1 DEF Frames, IsSeq
<1> QED
  BY <1>3, <1>4, <1>5 DEF Sound

\* One frame is replaced by one that may stand there.
LEMMA BodyFrames ==
    ASSUME NEW q, Frames(q), Len(q) = 1, q[1].fn = "body",
           NEW g, DOMAIN g = FrameFields, g.fn = "body", g.dir \in Directions,
           NEW p, p = [q EXCEPT ![1] = g]
    PROVE  Frames(p) /\ p # <<>> /\ Len(p) = 1 /\ p[1] = g
<1>1. DOMAIN q = 1..1
  <2>1. PICK S : q \in Seq(S)
    BY DEF Frames, IsSeq
  <2>2. DOMAIN q = 1..Len(q)
    BY ONLY <2>1, LenProperties
  <2> QED
    BY <2>2
<1>2. p = [i \in 1..1 |-> g]
  <2>1. p = [q EXCEPT ![1] = g]
    OBVIOUS
  <2>2. DOMAIN p = 1..1 /\ p[1] = g
    BY ONLY <1>1, <2>1
  <2>3. p = [i \in DOMAIN p |-> p[i]]
    BY ONLY <2>1
  <2>4. \A i \in 1..1 : p[i] = g
    BY ONLY <2>2
  <2> QED
    BY ONLY <2>2, <2>3, <2>4
<1>3. /\ p \in Seq({g}) /\ Len(p) = 1 /\ p[1] = g
  BY ONLY <1>2, IsASeq
<1>4. p # <<>>
  BY ONLY <1>3, EmptySeq
<1>5. FrameOK(p, 1)
  BY <1>3 DEF FrameOK
<1>6. \A i \in 1..Len(p) : i = 1
  BY ONLY <1>3
<1>7. IsSeq(p)
  BY <1>3 DEF IsSeq
<1>8. Frames(p)
  BY ONLY <1>5, <1>6, <1>7 DEF Frames
<1> QED
  BY <1>3, <1>4, <1>8

\* A call that stands on another returns.
LEMMA PopTwo ==
    ASSUME NEW q, Frames(q), Len(q) = 2,
           NEW p, p = SubSeq(q, 1, Len(q) - 1)
    PROVE  Frames(p) /\ Len(p) = 1 /\ p[1] = q[1]
<1>1. Frames(q) /\ q # <<>> /\ p = SubSeq(q, 1, Len(q) - 1)
  <2>1. Len(<<>>) = 0
    OBVIOUS
  <2> QED
    BY <2>1
<1>2. /\ Frames(p) /\ Len(p) = Len(q) - 1
      /\ \A i \in 1..Len(p) : p[i] = q[i]
  BY ONLY <1>1, PopFrames
<1>3. Len(p) = 1
  BY <1>2
<1> QED
  BY <1>2, <1>3

\* The callback of the filter has returned.
LEMMA FilterEventGood ==
    ASSUME NEW s, Sound(s), Len(s.stack) = 2, Base(s, {"body"}),
           s.stack[2].fn = "callback",
           NEW p, p = Pop(s),
           NEW g, DOMAIN g = FrameFields, g.fn = "body",
           g.dir = s.stack[1].dir, g.out = s.stack[1].out,
           g.in = Tail(s.stack[1].in),
           NEW t, t = [p EXCEPT !.stack[1] = g]
    PROVE  Good(s, t)
<1>1. DOMAIN s = {"ctx", "n", "stack"} /\ Frames(s.stack) /\ s.stack # <<>>
  BY DEF Sound, Base
<1>2. /\ DOMAIN p = {"ctx", "n", "stack"} /\ p.ctx = s.ctx /\ p.n = s.n
      /\ p.stack = SubSeq(s.stack, 1, Len(s.stack) - 1)
  BY <1>1 DEF Pop
<1>3. /\ DOMAIN t = {"ctx", "n", "stack"} /\ t.ctx = s.ctx /\ t.n = s.n
      /\ t.stack = [p.stack EXCEPT ![1] = g]
  BY <1>2
<1>4. /\ Frames(p.stack) /\ Len(p.stack) = 1 /\ p.stack[1] = s.stack[1]
  BY <1>1, <1>2, PopTwo
<1>5. s.stack[1].fn = "body" /\ g.dir \in Directions
  <2>1. 1 \in 1..Len(s.stack)
    OBVIOUS
  <2>2. FrameOK(s.stack, 1)
    BY <2>1, <1>1 DEF Frames
  <2> QED
    BY <2>2 DEF FrameOK, Base
<1>6. Frames(t.stack) /\ t.stack # <<>> /\ Len(t.stack) = 1 /\ t.stack[1] = g
  BY <1>3, <1>4, <1>5, BodyFrames
<1>7. ASSUME NEW d \in Directions
      PROVE  Flowing(t.n.out[d],
                     IF g.dir = d THEN g.out ELSE <<>>,
                     IF g.dir = d THEN g.in ELSE <<>>,
                     t.n.came[d], t.n.taken[d], Looking(t, d))
  <2> DEFINE f == s.stack[1]
  <2>1. Flowing(s.n.out[d], IF f.dir = d THEN f.out ELSE <<>>,
                IF f.dir = d THEN f.in ELSE <<>>,
                s.n.came[d], s.n.taken[d], Looking(s, d))
    BY BodyFlow
  <2>2. Looking(t, d) = FALSE
    BY <1>6 DEF Looking
  <2>3. CASE f.dir = d
    <3>1. Looking(s, d) = TRUE
      BY <2>3 DEF Looking, Running
    <3>2. Flowing(s.n.out[d], f.out, f.in, s.n.came[d], s.n.taken[d], TRUE)
      BY <2>1, <2>3, <3>1
    <3>3. Flowing(s.n.out[d], f.out, Tail(f.in), s.n.came[d], s.n.taken[d], FALSE)
      BY <3>2, FlowTaken
    <3> QED
      BY <3>3, <2>2, <2>3, <1>3
  <2>4. CASE f.dir # d
    <3>1. Looking(s, d) = FALSE
      BY <2>4 DEF Looking, Running
    <3> QED
      BY <2>1, <2>2, <2>4, <3>1, <1>3
  <2> QED
    BY <2>3, <2>4
<1>8. /\ Context(t.ctx) /\ Session(t.n) /\ t.n.phase = "content"
      /\ ~t.ctx.inProgress
  BY <1>3 DEF Sound, Places, Phasing, Waiting, Context
<1>9. Sound(t)
  BY <1>3, <1>6, <1>7, <1>8, BodyStack
<1>10. Like(s, s) /\ (\A x : Matching(s, x) => Matching(t, x))
  BY <1>3 DEF Like, Matching
<1> QED
  BY <1>3, <1>6, <1>9, <1>10, StaysGood

\* A session that ends forgets the call that ended it.
LEMMA FinalizePop ==
    ASSUME NEW s, Sound(s)
    PROVE  Finalize(Pop(s)) = Finalize(s)
BY DEF Finalize, Pop, Sound

\* ngx_stream_js_run_event has returned.
LEMMA EventReturnedGood ==
    ASSUME NEW s, Sound(s), s.stack # <<>>, Top(s).fn = "callback",
           NEW threw \in BOOLEAN
    PROVE  Good(s, EventReturned(Pop(s), threw))
<1>1. PICK p : p = Pop(s)
  OBVIOUS
<1>2. CASE threw
  BY <1>2, FinalizePop, Finalizes DEF EventReturned
<1>3. CASE ~threw /\ Len(s.stack) = 1
  <2>1. /\ Sound(p) /\ p.ctx = s.ctx /\ p.n = s.n /\ p.stack = <<>>
        /\ \A x : Matching(s, x) => Matching(p, x)
    BY <1>1, <1>3, PopSound
  <2>2. Phasing(p.n) /\ Like(s, p)
    BY <2>1, <1>3, TopPlace DEF Like
  <2>3. Filtering(p) = {}
    BY <2>1 DEF Filtering
  <2>4. Good(s, PhaseChecked(p))
    BY <2>1, <2>2, PhaseCheckedGood
  <2> QED
    BY <2>3, <2>4, <1>1, <1>3 DEF EventReturned
<1>4. CASE ~threw /\ Len(s.stack) # 1
  <2>1. Len(s.stack) = 2 /\ Base(s, {"body"})
    BY <1>4, TopPlace
  <2>2. s.stack[2].fn = "callback"
    BY <2>1 DEF Top
  <2>3. DOMAIN s = {"ctx", "n", "stack"} /\ Frames(s.stack) /\ s.stack # <<>>
    BY DEF Sound, Base
  <2>4. p.stack = SubSeq(s.stack, 1, Len(s.stack) - 1)
    BY <2>3, <1>1 DEF Pop
  <2>5. /\ IsSeq(p.stack) /\ Len(p.stack) = 1 /\ p.stack[1] = s.stack[1]
    BY <2>1, <2>3, <2>4, PopTwo DEF Frames
  <2>6. PICK g : g = [Top(p) EXCEPT !.in = Tail(@)]
    OBVIOUS
  <2>7. DOMAIN s.stack[1] = FrameFields /\ s.stack[1].fn = "body"
    <3>1. 1 \in 1..Len(s.stack)
      BY <2>1
    <3>2. FrameOK(s.stack, 1)
      BY <3>1, <2>3 DEF Frames
    <3> QED
      BY <3>2, <2>1 DEF FrameOK, Base
  <2>8. /\ DOMAIN g = FrameFields /\ g.fn = "body"
        /\ g.dir = s.stack[1].dir /\ g.out = s.stack[1].out
        /\ g.in = Tail(s.stack[1].in)
    BY <2>5, <2>6, <2>7 DEF Top, FrameFields
  <2>9. PICK t : t = [p EXCEPT !.stack[1] = g]
    OBVIOUS
  <2>10. Good(s, t)
    BY <2>1, <2>2, <2>8, <2>9, <1>1, FilterEventGood
  <2>11. SetTop(p, g) = t
    BY <2>5, <2>9 DEF SetTop
  <2>12. Filtering(p) # {}
    <3>1. 1 \in DOMAIN p.stack
      BY <2>5, LenProperties DEF IsSeq
    <3> QED
      BY <3>1, <2>5, <2>7 DEF Filtering
  <2>13. EventReturned(p, threw) = SetTop(p, g)
    BY <2>6, <2>12, <1>4 DEF EventReturned
  <2> QED
    BY <2>10, <2>11, <2>13, <1>1
<1> QED
  BY <1>2, <1>3, <1>4

\* The js_filter function has returned.
LEMMA FilterReturnedGood ==
    ASSUME NEW s, Sound(s), s.stack # <<>>, Top(s).fn = "filter",
           NEW threw \in BOOLEAN
    PROVE  Good(s, FilterReturned(Pop(s), threw))
<1>1. PICK p : p = Pop(s)
  OBVIOUS
<1>2. /\ Sound(p) /\ p.ctx = s.ctx /\ p.n = s.n /\ p.stack # <<>>
      /\ \A x : Matching(s, x) => Matching(p, x)
  <2>1. Len(s.stack) # 1
    BY TopPlace
  <2> QED
    BY <1>1, <2>1, PopSound
<1>3. CASE threw
  BY <1>1, <1>2, <1>3, Finalizes DEF FilterReturned
<1>4. CASE ~threw
  <2>1. PICK t : t = [p EXCEPT !.ctx.filter = TRUE]
    OBVIOUS
  <2>2. DOMAIN p = {"ctx", "n", "stack"} /\ Context(p.ctx)
    BY <1>2 DEF Sound
  <2>3. /\ DOMAIN t = {"ctx", "n", "stack"} /\ t.n = p.n /\ t.stack = p.stack
        /\ t.ctx = [p.ctx EXCEPT !.filter = TRUE]
    BY <2>1, <2>2
  <2>4. /\ Context(t.ctx) /\ t.ctx.ev = p.ctx.ev /\ t.ctx.buf = p.ctx.buf
        /\ t.ctx.inProgress = p.ctx.inProgress
    BY <2>2, <2>3 DEF Context, CtxFields
  <2>5. Kept(p, t)
    BY <1>2, <2>3, <2>4, ContextSound
  <2>6. Like(s, p) /\ \A x : Matching(p, x) => Matching(t, x)
    BY <1>2, <2>4 DEF Like, Matching
  <2>7. Good(s, t)
    BY <1>2, <2>5, <2>6, StaysGood DEF Kept
  <2> QED
    BY <2>1, <2>7, <1>1, <1>4 DEF FilterReturned
<1> QED
  BY <1>3, <1>4

\* ngx_stream_js_event_finalize.
LEMMA EventFinalizeGood ==
    ASSUME NEW s, Sound(s), s.stack # <<>>, Top(s).fn = "timer",
           NEW threw \in BOOLEAN
    PROVE  Good(s, EventFinalize(Pop(s), threw))
<1>1. PICK p : p = Pop(s)
  OBVIOUS
<1>2. /\ Sound(p) /\ p.ctx = s.ctx /\ p.n = s.n
      /\ \A x : Matching(s, x) => Matching(p, x)
  BY <1>1, PopSound, TopPlace
<1>3. CASE threw
  BY <1>1, <1>2, <1>3, Finalizes DEF EventFinalize
<1>4. CASE ~threw
  <2>1. PICK t : t = [p EXCEPT !.n.posted = TRUE]
    OBVIOUS
  <2>2. DOMAIN p = {"ctx", "n", "stack"} /\ Session(p.n)
    BY <1>2 DEF Sound
  <2>3. /\ DOMAIN t = {"ctx", "n", "stack"} /\ t.ctx = p.ctx
        /\ t.stack = p.stack /\ t.n = [p.n EXCEPT !.posted = TRUE]
    BY <2>1, <2>2
  <2>4. /\ Session(t.n) /\ t.n.posted
        /\ \A f \in {"phase", "conf", "came", "taken", "out"} : t.n[f] = p.n[f]
    BY <2>2, <2>3 DEF Session, NetFields
  <2>5. Sound(t) /\ \A x : Matching(p, x) => Matching(t, x)
    BY <1>2, <2>3, <2>4, PostedSound
  <2>6. Like(s, p) /\ t.n.phase = p.n.phase
    BY <1>2, <2>4 DEF Like
  <2>7. Good(s, t)
    BY <2>4, <2>5, <2>6, StaysGood
  <2> QED
    BY <2>1, <2>7, <1>1, <1>4 DEF EventFinalize
<1> QED
  BY <1>3, <1>4

\* A phase function has returned.
LEMMA PhaseReturnedGood ==
    ASSUME NEW s, Sound(s), s.stack # <<>>, Top(s).fn = "phase",
           NEW threw \in BOOLEAN
    PROVE  Good(s, PhaseReturned(Pop(s), threw))
<1>1. PICK p : p = Pop(s)
  OBVIOUS
<1>2. /\ Sound(p) /\ p.ctx = s.ctx /\ p.n = s.n /\ p.stack = <<>>
      /\ \A x : Matching(s, x) => Matching(p, x)
  BY <1>1, PopSound, TopPlace
<1>3. Phasing(p.n) /\ Like(s, p)
  BY <1>2, TopPlace DEF Like
<1>4. Good(s, Finalize(p)) /\ Good(s, PhaseEvent(p))
  BY <1>2, <1>3, Finalizes, PhaseEventGood
<1> QED
  BY <1>1, <1>4 DEF PhaseReturned

\* The value of a variable has been computed.
LEMMA VariableGood ==
    ASSUME NEW s, Sound(s), s.stack # <<>>, Top(s).fn = "variable"
    PROVE  Good(s, Pop(s))
<1>1. PICK p : p = Pop(s)
  OBVIOUS
<1>2. /\ Sound(p) /\ p.ctx = s.ctx /\ p.n = s.n /\ p.stack # <<>>
      /\ \A x : Matching(s, x) => Matching(p, x)
  <2>1. Len(s.stack) # 1
    BY TopPlace
  <2> QED
    BY <1>1, <2>1, PopSound
<1>3. Like(s, s)
  BY DEF Like
<1> QED
  BY <1>1, <1>2, <1>3, StaysGood

-----------------------------------------------------------------------------
(* Data passes the filter.                                                 *)

WithBuf(c, b) == [c EXCEPT !.buf = b]
PassedOn(q, f) == [q EXCEPT ![1] =
    [f EXCEPT !.in = Tail(@), !.out = @ \o Chunk(Head(f.in))]]

\* A buffer goes on as it came.
LEMMA ChunkGood ==
    ASSUME NEW s, Sound(s), s.stack # <<>>, Top(s).fn = "body",
           NEW f, f = s.stack[1], f.in # <<>>,
           NEW b,
           NEW t, DOMAIN t = {"ctx", "n", "stack"}, t.n = s.n,
           t.ctx = WithBuf(s.ctx, b), t.stack = PassedOn(s.stack, f)
    PROVE  Good(s, t)
<1>1. /\ Context(s.ctx) /\ Session(s.n) /\ Frames(s.stack)
  BY DEF Sound
<1>2. Base(s, {"body"}) /\ Len(s.stack) = 1 /\ s.n.phase = "content"
  BY TopPlace
<1>3. /\ Context(t.ctx) /\ t.ctx.inProgress = s.ctx.inProgress
      /\ t.ctx.ev = s.ctx.ev
  BY <1>1 DEF Context, CtxFields, WithBuf
<1> PICK g : g = [f EXCEPT !.in = Tail(@), !.out = @ \o Chunk(Head(f.in))]
  OBVIOUS
<1>4. DOMAIN f = FrameFields /\ f.fn = "body"
  <2>1. 1 \in 1..Len(s.stack)
    BY <1>2
  <2>2. FrameOK(s.stack, 1)
    BY <2>1, <1>1 DEF Frames
  <2> QED
    BY <2>2, <1>2 DEF FrameOK, Base
<1>5. /\ DOMAIN g = FrameFields /\ g.fn = "body" /\ g.dir = f.dir
      /\ g.in = Tail(f.in) /\ g.out = f.out \o Chunk(Head(f.in))
  BY <1>4 DEF FrameFields
<1>6. ASSUME NEW d \in Directions
      PROVE  Flowing(t.n.out[d],
                     IF g.dir = d THEN g.out ELSE <<>>,
                     IF g.dir = d THEN g.in ELSE <<>>,
                     t.n.came[d], t.n.taken[d], Looking(s, d))
  <2>1. Flowing(s.n.out[d], IF f.dir = d THEN f.out ELSE <<>>,
                IF f.dir = d THEN f.in ELSE <<>>,
                s.n.came[d], s.n.taken[d], Looking(s, d))
    BY <1>2, BodyFlow
  <2>2. Looking(s, d) = FALSE
    BY <1>2 DEF Looking
  <2>3. CASE f.dir = d
    <3>1. Flowing(s.n.out[d], f.out, f.in, s.n.came[d], s.n.taken[d], FALSE)
      BY <2>1, <2>2, <2>3
    <3>2. Flowing(s.n.out[d], f.out \o Chunk(Head(f.in)), Tail(f.in),
                  s.n.came[d], s.n.taken[d], FALSE)
      BY <3>1, FlowChunk
    <3> QED
      BY <3>2, <2>2, <2>3, <1>5
  <2>4. CASE f.dir # d
    BY <2>1, <2>4, <1>5
  <2> QED
    BY <2>3, <2>4
<1>7. Kept(s, t)
  <2>1. /\ g.dir = s.stack[1].dir /\ t.n.phase = s.n.phase
        /\ t.n.conf = s.n.conf /\ Session(t.n)
        /\ DOMAIN g = FrameFields /\ g.fn = "body"
        /\ DOMAIN t = {"ctx", "n", "stack"} /\ Sound(s)
        /\ t.stack = [s.stack EXCEPT ![1] = g]
    BY <1>1, <1>5 DEF PassedOn
  <2> QED
    BY ONLY <2>1, <1>2, <1>3, <1>6, BodySound
<1>8. Like(s, s) /\ \A x : Matching(s, x) => Matching(t, x)
  BY <1>3 DEF Like, Matching
<1> QED
  BY <1>7, <1>8, StaysGood DEF Kept

\* A call that nobody stands on any more.
LEMMA PopOne ==
    ASSUME NEW q, Frames(q), Len(q) = 1,
           NEW p, p = SubSeq(q, 1, Len(q) - 1)
    PROVE  p = <<>>
<1>1. Frames(q) /\ q # <<>> /\ p = SubSeq(q, 1, Len(q) - 1)
  <2>1. Len(<<>>) = 0
    OBVIOUS
  <2> QED
    BY <2>1
<1>2. /\ Frames(p) /\ p # <<>> <=> Len(q) > 1
  BY ONLY <1>1, PopFrames
<1> QED
  BY <1>2

\* The chain goes out, on the other side.
LEMMA OutGood ==
    ASSUME NEW s, Sound(s), s.stack # <<>>, Top(s).fn = "body",
           NEW f, f = s.stack[1], f.in = <<>>,
           NEW t, t = NextFilter([Pop(s) EXCEPT !.ctx.buf = <<>>],
                                 f.dir, f.out, f.bufs)
    PROVE  Good(s, t)
<1>1. /\ DOMAIN s = {"ctx", "n", "stack"}
      /\ Context(s.ctx) /\ Session(s.n) /\ Frames(s.stack)
  BY DEF Sound
<1>2. Base(s, {"body"}) /\ Len(s.stack) = 1 /\ s.n.phase = "content"
  BY TopPlace
<1>3. PICK p : p = [Pop(s) EXCEPT !.ctx.buf = <<>>]
  OBVIOUS
<1>4. /\ DOMAIN p = {"ctx", "n", "stack"} /\ p.n = s.n
      /\ p.ctx = [s.ctx EXCEPT !.buf = <<>>]
      /\ p.stack = SubSeq(s.stack, 1, Len(s.stack) - 1)
  BY <1>1, <1>3 DEF Pop
<1>5. p.stack = <<>>
  BY <1>1, <1>2, <1>4, PopOne
<1>6. /\ Context(p.ctx) /\ p.ctx.ev = s.ctx.ev /\ p.ctx.buf = <<>>
      /\ p.ctx.inProgress = s.ctx.inProgress
  BY <1>1, <1>4 DEF Context, CtxFields
<1>7. f.dir \in Directions
  <2>1. 1 \in 1..Len(s.stack)
    BY <1>2
  <2>2. FrameOK(s.stack, 1)
    BY <2>1, <1>1 DEF Frames
  <2> QED
    BY <2>2 DEF FrameOK
<1>8. ASSUME NEW d \in Directions
      PROVE  /\ f.dir = d => Flowing(s.n.out[d], f.out, <<>>, s.n.came[d],
                                     s.n.taken[d], FALSE)
             /\ f.dir # d => Flowing(s.n.out[d], <<>>, <<>>, s.n.came[d],
                                     s.n.taken[d], FALSE)
  <2>1. Flowing(s.n.out[d], IF f.dir = d THEN f.out ELSE <<>>,
                IF f.dir = d THEN f.in ELSE <<>>,
                s.n.came[d], s.n.taken[d], Looking(s, d))
    BY <1>2, BodyFlow
  <2>2. Looking(s, d) = FALSE
    BY <1>2 DEF Looking
  <2> QED
    BY <2>1, <2>2
<1>9. f.out \in Seq(Int)
  BY <1>7, <1>8 DEF Flowing
<1>10. /\ DOMAIN t = {"ctx", "n", "stack"} /\ t.stack = p.stack
       /\ Sent(p.n, t.n, f.dir, f.out) /\ SameButChains(p.ctx, t.ctx)
  <2>1. Session(p.n)
    BY <1>1, <1>4
  <2>2. t = NextFilter(p, f.dir, f.out, f.bufs)
    BY <1>3
  <2> QED
    <3>1. PICK d : d = f.dir
      OBVIOUS
    <3>2. PICK u : u = f.out
      OBVIOUS
    <3>3. PICK z : z = f.bufs
      OBVIOUS
    <3>4. t = NextFilter(p, d, u, z) /\ d \in Directions /\ u \in Seq(Int)
      BY <2>2, <1>7, <1>9, <3>1, <3>2, <3>3
    <3>5. DOMAIN p = {"ctx", "n", "stack"} /\ Context(p.ctx) /\ Session(p.n)
      BY <2>1, <1>4, <1>6
    <3>6. /\ DOMAIN t = {"ctx", "n", "stack"} /\ t.stack = p.stack
          /\ Sent(p.n, t.n, d, u) /\ SameButChains(p.ctx, t.ctx)
      BY ONLY <3>4, <3>5, NextFilterEffect
    <3> QED
      BY <3>1, <3>2, <3>6
<1>11. /\ Session(t.n) /\ t.n.phase = "content"
       /\ t.n.out[f.dir] = s.n.out[f.dir] \o f.out
       /\ \A b \in Directions \ {f.dir} : t.n.out[b] = s.n.out[b]
       /\ t.n.came = s.n.came /\ t.n.taken = s.n.taken
  <2>0. Sent(s.n, t.n, f.dir, f.out)
    BY <1>4, <1>10
  <2>1. /\ Session(t.n)
        /\ t.n.out[f.dir] = s.n.out[f.dir] \o f.out
        /\ \A b \in Directions \ {f.dir} : t.n.out[b] = s.n.out[b]
    BY ONLY <2>0 DEF Sent
  <2>2. \A x \in {"phase", "came", "taken"} : t.n[x] = s.n[x]
    BY ONLY <2>0 DEF Sent, NetFields
  <2> QED
    BY <2>1, <2>2, <1>2
<1>12. /\ Context(t.ctx) /\ t.ctx.ev = s.ctx.ev /\ t.ctx.buf = <<>>
       /\ t.ctx.inProgress = s.ctx.inProgress
  BY <1>6, <1>10 DEF SameButChains
<1>13. ~s.ctx.inProgress
  BY <1>2 DEF Sound, Places, Phasing, Waiting
<1>14. ASSUME NEW d \in Directions
       PROVE  Flowing(t.n.out[d], <<>>, <<>>, t.n.came[d], t.n.taken[d], FALSE)
  <2>1. CASE f.dir = d
    <3>1. Flowing(s.n.out[d] \o f.out, <<>>, <<>>, s.n.came[d], s.n.taken[d],
                  FALSE)
      BY <2>1, <1>8, FlowOut
    <3> QED
      BY <3>1, <2>1, <1>11
  <2>2. CASE f.dir # d
    BY <2>2, <1>8, <1>11
  <2> QED
    BY <2>1, <2>2
<1>15. Sound(t)
  BY <1>5, <1>10, <1>11, <1>12, <1>13, <1>14, IdleSound
<1>16. Like(s, s) /\ \A x : Matching(s, x) => Matching(t, x)
  BY <1>12 DEF Like, Matching
<1> QED
  BY <1>2, <1>11, <1>15, <1>16, StaysGood

\* A function is called from the filter.
LEMMA PushTwo ==
    ASSUME NEW q, Frames(q), Len(q) = 1, q[1].fn = "body",
           NEW f, DOMAIN f = FrameFields, f.dir \in Directions,
           f.fn \in {"filter", "callback"},
           NEW p, p = Called(q, f)
    PROVE  Frames(p) /\ p # <<>> /\ Len(p) = 2 /\ p[1] = q[1] /\ p[2] = f
<1>1. q # <<>> => q[Len(q)].fn # "variable"
  OBVIOUS
<1>2. Len(q) = 1 /\ q[1].fn = "body" /\ f.fn \in {"filter", "callback"}
  OBVIOUS
<1>3. /\ Frames(p) /\ p # <<>> /\ Len(p) = Len(q) + 1
      /\ \A i \in 1..Len(q) : p[i] = q[i]
      /\ p[Len(q) + 1] = f
  <2>1. Fits(q, f)
    BY <1>1, <1>2 DEF Fits
  <2>2. Frames(q) /\ p = Called(q, f)
    OBVIOUS
  <2> QED
    BY ONLY <2>1, <2>2, PushFrames
<1>4. Len(p) = 2 /\ p[2] = f
  BY <1>3
<1>5. p[1] = q[1]
  BY <1>3
<1> QED
  BY <1>3, <1>4, <1>5

Took(m, d, i) == [m EXCEPT !.taken[d] = @ \cup {i}]

\* A callback is called for a buffer.
LEMMA TakeGood ==
    ASSUME NEW s, Sound(s), s.stack # <<>>, Top(s).fn = "body",
           NEW f, f = s.stack[1], f.in # <<>>, NEW b,
           NEW v, DOMAIN v = {"ctx", "n", "stack"}, v.stack = s.stack,
           v.ctx = WithBuf(s.ctx, b), v.n = Took(s.n, f.dir, Head(f.in).id)
    PROVE  Good(s, RunEvent(v, f.dir))
<1>1. /\ DOMAIN s = {"ctx", "n", "stack"}
      /\ Context(s.ctx) /\ Session(s.n) /\ Frames(s.stack)
  BY DEF Sound
<1>2. Base(s, {"body"}) /\ Len(s.stack) = 1 /\ s.n.phase = "content"
  BY TopPlace
<1>3. PICK g : g = [Frame("callback") EXCEPT !.dir = f.dir]
  OBVIOUS
<1>4. PICK t : t = Push(v, g)
  OBVIOUS
<1>5. /\ DOMAIN t = {"ctx", "n", "stack"} /\ t.ctx = v.ctx /\ t.n = v.n
      /\ t.stack = Append(s.stack, g)
  BY <1>4 DEF Push
<1>6. f.fn = "body" /\ f.dir \in Directions
  <2>1. 1 \in 1..Len(s.stack)
    BY <1>2
  <2>2. FrameOK(s.stack, 1)
    BY <2>1, <1>1 DEF Frames
  <2> QED
    BY <2>2, <1>2 DEF FrameOK, Base
<1>7. DOMAIN g = FrameFields /\ g.fn = "callback" /\ g.dir \in Directions
  BY <1>3, <1>6, FrameFieldsOK
<1>8. /\ Frames(t.stack) /\ t.stack # <<>> /\ Len(t.stack) = 2
      /\ t.stack[1] = f /\ t.stack[2].fn = "callback"
  <2>1. PICK q : q = s.stack
    OBVIOUS
  <2>2. PICK r : r = Called(q, g)
    OBVIOUS
  <2>3. /\ Frames(q) /\ Len(q) = 1 /\ q[1].fn = "body"
        /\ g.fn \in {"filter", "callback"} /\ g.dir \in Directions
        /\ DOMAIN g = FrameFields
    BY <1>1, <1>2, <1>6, <1>7, <2>1
  <2>4. /\ Frames(r) /\ r # <<>> /\ Len(r) = 2 /\ r[1] = q[1] /\ r[2] = g
    BY ONLY <2>2, <2>3, PushTwo
  <2> QED
    BY <1>1, <1>5, <1>7, <2>1, <2>2, <2>4 DEF Called
<1>9. ASSUME NEW d \in Directions
      PROVE  Flowing(s.n.out[d], IF f.dir = d THEN f.out ELSE <<>>,
                     IF f.dir = d THEN f.in ELSE <<>>,
                     s.n.came[d], s.n.taken[d], FALSE)
  <2>1. Flowing(s.n.out[d], IF f.dir = d THEN f.out ELSE <<>>,
                IF f.dir = d THEN f.in ELSE <<>>,
                s.n.came[d], s.n.taken[d], Looking(s, d))
    BY <1>2, BodyFlow
  <2>2. Looking(s, d) = FALSE
    BY <1>2 DEF Looking
  <2> QED
    BY <2>1, <2>2
<1>10. Flowing(s.n.out[f.dir], f.out, f.in, s.n.came[f.dir],
               s.n.taken[f.dir] \cup {Head(f.in).id}, TRUE)
  <2>1. Flowing(s.n.out[f.dir], f.out, f.in, s.n.came[f.dir],
                s.n.taken[f.dir], FALSE)
    BY <1>6, <1>9
  <2> QED
    BY <2>1, FlowTake
<1>11. /\ DOMAIN t.n = NetFields /\ t.n.phase = "content"
       /\ t.n.out = s.n.out /\ t.n.came = s.n.came
       /\ t.n.taken = [s.n.taken EXCEPT ![f.dir] = @ \cup {Head(f.in).id}]
       /\ t.n.conf = s.n.conf /\ t.n.posted = s.n.posted
       /\ t.n.reading = s.n.reading /\ t.n.slow = s.n.slow
  BY <1>1, <1>2, <1>5 DEF Session, NetFields, Took
<1>12. /\ t.n.taken[f.dir] = s.n.taken[f.dir] \cup {Head(f.in).id}
       /\ \A d \in Directions \ {f.dir} : t.n.taken[d] = s.n.taken[d]
       /\ t.n.taken \in [Directions -> SUBSET Nat]
  <2>1. s.n.taken \in [Directions -> SUBSET Nat]
    BY <1>1 DEF Session
  <2>2. PICK T : T = s.n.taken[f.dir] \cup {Head(f.in).id}
    OBVIOUS
  <2>3. T \subseteq Nat
    BY <2>2, <1>10 DEF Flowing
  <2>4. t.n.taken = [s.n.taken EXCEPT ![f.dir] = T]
    BY <2>2, <1>11
  <2>5. t.n.taken \in [Directions -> SUBSET Nat]
    BY <2>1, <2>3, <2>4
  <2>6. t.n.taken[f.dir] = T
    BY <2>1, <2>4, <1>6
  <2>7. \A d \in Directions \ {f.dir} : t.n.taken[d] = s.n.taken[d]
    BY <2>1, <2>4
  <2> QED
    BY <2>2, <2>5, <2>6, <2>7
<1>13. Session(t.n)
  BY <1>1, <1>11, <1>12 DEF Session
<1>14. /\ Context(t.ctx) /\ t.ctx.ev = s.ctx.ev
       /\ t.ctx.inProgress = s.ctx.inProgress
  BY <1>1, <1>5 DEF Context, CtxFields, WithBuf
<1>15. ~s.ctx.inProgress
  BY <1>2 DEF Sound, Places, Phasing, Waiting
<1>16. ASSUME NEW d \in Directions
       PROVE  Flowing(t.n.out[d], IF f.dir = d THEN f.out ELSE <<>>,
                      IF f.dir = d THEN f.in ELSE <<>>,
                      t.n.came[d], t.n.taken[d], Looking(t, d))
  <2>1. Looking(t, d) = (f.dir = d)
    <3>1. Base(t, {"body"})
      BY <1>6, <1>8 DEF Base
    <3>2. Running(t, d) = (f.dir = d)
      BY <3>1, <1>8 DEF Running
    <3>3. Len(t.stack) > 1
      BY <1>8
    <3> QED
      BY <3>2, <3>3, <1>8 DEF Looking
  <2>2. CASE f.dir = d
    BY <2>1, <2>2, <1>10, <1>11, <1>12
  <2>3. CASE f.dir # d
    BY <2>1, <2>3, <1>9, <1>11, <1>12
  <2> QED
    BY <2>2, <2>3
<1>17. Sound(t)
  BY <1>5, <1>6, <1>8, <1>11, <1>13, <1>14, <1>15, <1>16, BodyStack
<1>18. Like(s, s) /\ \A x : Matching(s, x) => Matching(t, x)
  BY <1>14 DEF Like, Matching
<1>19. Good(s, t)
  BY <1>2, <1>8, <1>11, <1>17, <1>18, StaysGood
<1> QED
  BY <1>3, <1>4, <1>19 DEF RunEvent

\* One turn of the body filter.
LEMMA BodyTurnGood ==
    ASSUME NEW s, Sound(s), s.stack # <<>>, Top(s).fn = "body"
    PROVE  Good(s, BodyTurn(s))
<1>1. PICK f : f = s.stack[1]
  OBVIOUS
<1>2. Top(s) = f /\ Len(s.stack) = 1
  BY <1>1, TopPlace DEF Top
<1>3. DOMAIN s = {"ctx", "n", "stack"} /\ DOMAIN s.ctx = CtxFields
      /\ DOMAIN s.n = NetFields
  BY DEF Sound, Context, Session
<1>4. CASE f.in = <<>>
  <2>1. PICK t : t = NextFilter([Pop(s) EXCEPT !.ctx.buf = <<>>],
                                f.dir, f.out, f.bufs)
    OBVIOUS
  <2>2. BodyTurn(s) = t
    BY <2>1, <1>2, <1>4 DEF BodyTurn
  <2> QED
    BY <2>1, <2>2, <1>1, <1>4, OutGood
<1>5. CASE f.in # <<>> /\ s.ctx.ev[f.dir].fn
  <2>1. PICK v : v = [s EXCEPT !.ctx.buf = <<Head(f.in)>>,
                               !.n.taken[f.dir] = @ \cup {Head(f.in).id}]
    OBVIOUS
  <2>2. BodyTurn(s) = RunEvent(v, f.dir)
    BY <2>1, <1>2, <1>5 DEF BodyTurn
  <2>3. /\ DOMAIN v = {"ctx", "n", "stack"} /\ v.stack = s.stack
        /\ v.ctx = WithBuf(s.ctx, <<Head(f.in)>>)
        /\ v.n = Took(s.n, f.dir, Head(f.in).id)
    BY <2>1, <1>3 DEF WithBuf, Took
  <2> QED
    BY <2>2, <2>3, <1>1, <1>5, TakeGood
<1>6. CASE f.in # <<>> /\ ~s.ctx.ev[f.dir].fn
  <2>1. PICK g : g = [f EXCEPT !.in = Tail(@), !.out = @ \o Chunk(Head(f.in))]
    OBVIOUS
  <2>2. PICK v : v = [s EXCEPT !.ctx.buf = <<Head(f.in)>>]
    OBVIOUS
  <2>3. PICK t : t = SetTop(v, g)
    OBVIOUS
  <2>4. BodyTurn(s) = t
    BY <2>1, <2>2, <2>3, <1>2, <1>6 DEF BodyTurn
  <2>5. /\ DOMAIN t = {"ctx", "n", "stack"} /\ t.n = s.n
        /\ t.ctx = WithBuf(s.ctx, <<Head(f.in)>>)
        /\ t.stack = PassedOn(s.stack, f)
    BY <2>1, <2>2, <2>3, <1>2, <1>3 DEF SetTop, WithBuf, PassedOn
  <2> QED
    BY <2>4, <2>5, <1>1, <1>6, ChunkGood
<1> QED
  BY <1>4, <1>5, <1>6

\* Some chunks that come.
LEMMA ChunksOK ==
    ASSUME NEW c \in Nat, NEW k \in 1..2,
           NEW w, w = [i \in 1..k |-> [id |-> c + i, flush |-> i = k,
                                       last |-> c + i = MaxChunks]]
    PROVE  /\ w \in Seq(Buf) /\ Len(w) = k
           /\ \A i \in 1..Len(w) : w[i].id = c + i
<1>1. ASSUME NEW i \in 1..k
      PROVE  [id |-> c + i, flush |-> i = k, last |-> c + i = MaxChunks] \in Buf
  BY DEF Buf
<1>2. k \in Nat
  OBVIOUS
<1>3. w \in Seq(Buf) /\ Len(w) = k
  BY <1>1, <1>2, IsASeq
<1> QED
  BY <1>3

Come(m, d, k) == [m EXCEPT !.came[d] = @ + k]

\* The session when they have come.
LEMMA ComeEffect ==
    ASSUME NEW m, Session(m), NEW d \in Directions, NEW k \in Nat
    PROVE  /\ Session(Come(m, d, k))
           /\ Come(m, d, k).came[d] = m.came[d] + k
           /\ \A b \in Directions \ {d} : Come(m, d, k).came[b] = m.came[b]
           /\ \A x \in NetFields \ {"came"} : Come(m, d, k)[x] = m[x]
<1> DEFINE p == Come(m, d, k)
<1>1. DOMAIN m = NetFields /\ m.came \in [Directions -> Nat]
  BY DEF Session
<1>2. /\ DOMAIN p = NetFields
      /\ \A x \in NetFields \ {"came"} : p[x] = m[x]
      /\ p.came = [m.came EXCEPT ![d] = @ + k]
  BY <1>1 DEF Come, NetFields
<1>3. /\ p.came \in [Directions -> Nat] /\ p.came[d] = m.came[d] + k
      /\ \A b \in Directions \ {d} : p.came[b] = m.came[b]
  BY <1>1, <1>2
<1> HIDE DEF p
<1>4. \A x \in {"conf", "phase", "posted", "reading", "taken", "out", "slow"} :
          p[x] = m[x]
  BY <1>2 DEF NetFields
<1>5. Session(p)
  BY <1>2, <1>3, <1>4 DEF Session
<1>6. /\ Session(p) /\ p.came[d] = m.came[d] + k
      /\ \A b \in Directions \ {d} : p.came[b] = m.came[b]
      /\ \A x \in NetFields \ {"came"} : p[x] = m[x]
  BY <1>2, <1>3, <1>5
<1> QED
  BY <1>6 DEF p

\* Nothing runs after the phases.
LEMMA IdleFlow ==
    ASSUME NEW s, Sound(s), s.stack = <<>>, s.n.phase = "content",
           NEW d \in Directions
    PROVE  /\ Flowing(s.n.out[d], <<>>, <<>>, s.n.came[d], s.n.taken[d], FALSE)
           /\ ~s.ctx.inProgress /\ s.ctx.buf = <<>>
<1>1. \A fns : ~Base(s, fns)
  BY DEF Base
<1>2. Chained(s, d) = <<>> /\ Unseen(s, d) = <<>> /\ Looking(s, d) = FALSE
  BY <1>1 DEF Chained, Unseen, Looking, Running
<1>3. Flowing(s.n.out[d], Chained(s, d), Unseen(s, d), s.n.came[d],
              s.n.taken[d], Looking(s, d))
  BY DEF Sound, Flows
<1>4. ~s.ctx.inProgress /\ s.ctx.buf = <<>>
  BY <1>1 DEF Sound, Places, Phasing, Waiting
<1> QED
  BY <1>2, <1>3, <1>4

\* Chunks pass a session without an engine.
LEMMA PassGood ==
    ASSUME NEW s, Sound(s), s.stack = <<>>, s.n.phase = "content",
           NEW d \in Directions, NEW w \in Seq(Buf), Len(w) \in {1, 2},
           \A i \in 1..Len(w) : w[i].id = s.n.came[d] + i,
           NEW v, DOMAIN v = {"ctx", "n", "stack"}, v.ctx = s.ctx,
           v.stack = <<>>, v.n = Come(s.n, d, Len(w)),
           NEW t, t = NextFilter(v, d, FlattenChunks(w), <<>>)
    PROVE  Good(s, t)
<1>1. Context(s.ctx) /\ Session(s.n)
  BY DEF Sound
<1>2. ~s.ctx.inProgress /\ s.ctx.buf = <<>>
  BY IdleFlow
<1>3. PICK u : u = FlattenChunks(w)
  OBVIOUS
<1>4. /\ u \in Seq(Int)
      /\ Flowing(s.n.out[d] \o u, <<>>, <<>>, s.n.came[d] + Len(w),
                 s.n.taken[d], FALSE)
  <2>1. Flowing(s.n.out[d], <<>>, <<>>, s.n.came[d], s.n.taken[d], FALSE)
    BY IdleFlow
  <2> QED
    BY <2>1, <1>3, FlowPassed
<1>5. Len(w) \in Nat
  OBVIOUS
<1>6. /\ Session(v.n) /\ v.n.came[d] = s.n.came[d] + Len(w)
      /\ \A b \in Directions \ {d} : v.n.came[b] = s.n.came[b]
      /\ \A x \in {"phase", "out", "taken"} : v.n[x] = s.n[x]
  <2>1. PICK k : k = Len(w)
    OBVIOUS
  <2>2. PICK m : m = s.n
    OBVIOUS
  <2>3. PICK p : p = v.n
    OBVIOUS
  <2>4. p = Come(m, d, k) /\ k \in Nat /\ Session(m) /\ d \in Directions
    BY <2>1, <2>2, <2>3, <1>5, <1>1
  <2>5. /\ Session(p) /\ p.came[d] = m.came[d] + k
        /\ \A b \in Directions \ {d} : p.came[b] = m.came[b]
        /\ \A x \in NetFields \ {"came"} : p[x] = m[x]
    BY ONLY SMTT(20), <2>4, ComeEffect
  <2>6. \A x \in {"phase", "out", "taken"} : p[x] = m[x]
    BY ONLY <2>5 DEF NetFields
  <2> QED
    BY <2>1, <2>2, <2>3, <2>5, <2>6
<1>7. /\ DOMAIN t = {"ctx", "n", "stack"} /\ t.stack = v.stack
      /\ Sent(v.n, t.n, d, u) /\ SameButChains(v.ctx, t.ctx)
  <2>1. PICK z : z = <<>>
    OBVIOUS
  <2>2. t = NextFilter(v, d, u, z) /\ d \in Directions /\ u \in Seq(Int)
    BY <2>1, <1>3, <1>4
  <2>3. DOMAIN v = {"ctx", "n", "stack"} /\ Context(v.ctx) /\ Session(v.n)
    BY <1>1, <1>6
  <2> QED
    BY ONLY <2>2, <2>3, NextFilterEffect
<1>8. /\ Session(t.n) /\ t.n.out[d] = v.n.out[d] \o u
      /\ \A b \in Directions \ {d} : t.n.out[b] = v.n.out[b]
      /\ \A x \in {"phase", "came", "taken"} : t.n[x] = v.n[x]
  BY ONLY <1>7 DEF Sent, NetFields
<1>9. /\ Context(t.ctx) /\ t.ctx.ev = s.ctx.ev /\ t.ctx.buf = <<>>
      /\ t.ctx.inProgress = s.ctx.inProgress
  BY <1>2, <1>7 DEF SameButChains
<1>10. ASSUME NEW b \in Directions
       PROVE  Flowing(t.n.out[b], <<>>, <<>>, t.n.came[b], t.n.taken[b], FALSE)
  <2>1. CASE b = d
    BY <2>1, <1>4, <1>6, <1>8
  <2>2. CASE b # d
    <3>1. Flowing(s.n.out[b], <<>>, <<>>, s.n.came[b], s.n.taken[b], FALSE)
      BY IdleFlow
    <3> QED
      BY <3>1, <2>2, <1>6, <1>8
  <2> QED
    BY <2>1, <2>2
<1>11. t.n.phase = "content" /\ t.stack = <<>>
  BY <1>6, <1>7, <1>8
<1>12. Sound(t)
  BY <1>2, <1>7, <1>8, <1>9, <1>10, <1>11, IdleSound
<1>13. Like(s, s) /\ \A x : Matching(s, x) => Matching(t, x)
  BY <1>9 DEF Like, Matching
<1> QED
  BY <1>11, <1>12, <1>13, StaysGood

BodyCalled(v, d, w) == Push(v, [Frame("body") EXCEPT !.dir = d, !.in = w])

\* Chunks come to the filter.
LEMMA ComeGood ==
    ASSUME NEW s, Sound(s), s.stack = <<>>, s.n.phase = "content",
           NEW d \in Directions, NEW w \in Seq(Buf), Len(w) \in {1, 2},
           \A i \in 1..Len(w) : w[i].id = s.n.came[d] + i,
           NEW v, DOMAIN v = {"ctx", "n", "stack"}, v.ctx = s.ctx,
           v.stack = <<>>, v.n = Come(s.n, d, Len(w)),
           NEW t, t = BodyCalled(v, d, w)
    PROVE  Sound(t) /\ t.ctx = s.ctx /\ t.n = v.n /\ t.n.phase = "content"
           /\ Len(t.stack) = 1 /\ t.stack[1].fn = "body"
<1> PICK g : g = [Frame("body") EXCEPT !.dir = d, !.in = w]
  OBVIOUS
<1>1. Context(s.ctx) /\ Session(s.n) /\ Frames(s.stack)
  BY DEF Sound
<1>2. ~s.ctx.inProgress
  BY IdleFlow
<1>3. Len(w) \in Nat
  OBVIOUS
<1>4. /\ Session(v.n) /\ v.n.came[d] = s.n.came[d] + Len(w)
      /\ \A b \in Directions \ {d} : v.n.came[b] = s.n.came[b]
      /\ \A x \in {"phase", "out", "taken"} : v.n[x] = s.n[x]
  <2>1. PICK k : k = Len(w)
    OBVIOUS
  <2>2. PICK m : m = s.n
    OBVIOUS
  <2>3. PICK p : p = v.n
    OBVIOUS
  <2>4. p = Come(m, d, k) /\ k \in Nat /\ Session(m) /\ d \in Directions
    BY <2>1, <2>2, <2>3, <1>3, <1>1
  <2>5. /\ Session(p) /\ p.came[d] = m.came[d] + k
        /\ \A b \in Directions \ {d} : p.came[b] = m.came[b]
        /\ \A x \in NetFields \ {"came"} : p[x] = m[x]
    BY ONLY SMTT(20), <2>4, ComeEffect
  <2>6. \A x \in {"phase", "out", "taken"} : p[x] = m[x]
    BY ONLY <2>5 DEF NetFields
  <2> QED
    BY <2>1, <2>2, <2>3, <2>5, <2>6
<1>5. /\ DOMAIN g = FrameFields /\ g.fn = "body" /\ g.dir = d
      /\ g.in = w /\ g.out = <<>>
  BY DEF Frame, FrameFields
<1>6. /\ DOMAIN t = {"ctx", "n", "stack"} /\ t.ctx = s.ctx /\ t.n = v.n
      /\ t.stack = Append(<<>>, g)
  BY DEF Push, BodyCalled
<1>7. Frames(t.stack) /\ t.stack # <<>> /\ Len(t.stack) = 1 /\ t.stack[1] = g
  <2>1. PICK q : q = <<>>
    OBVIOUS
  <2>2. PICK p : p = Called(q, g)
    OBVIOUS
  <2>3. Frames(q) /\ Fits(q, g)
    BY <2>1, <1>1, <1>5 DEF Fits
  <2>4. /\ Frames(p) /\ p # <<>> /\ Len(p) = Len(q) + 1
        /\ p[Len(q) + 1] = g
    BY ONLY <2>2, <2>3, PushFrames
  <2>5. Len(q) = 0
    BY <2>1
  <2> QED
    <3>1. t.stack = p
      BY <2>1, <2>2, <1>6 DEF Called
    <3>2. Len(p) = 1 /\ p[1] = g
      BY <2>4, <2>5
    <3> QED
      BY <2>4, <3>1, <3>2
<1>8. ASSUME NEW b \in Directions
      PROVE  Flowing(t.n.out[b], IF g.dir = b THEN g.out ELSE <<>>,
                     IF g.dir = b THEN g.in ELSE <<>>,
                     t.n.came[b], t.n.taken[b], Looking(t, b))
  <2>1. Looking(t, b) = FALSE
    BY <1>7 DEF Looking
  <2>2. Flowing(s.n.out[b], <<>>, <<>>, s.n.came[b], s.n.taken[b], FALSE)
    BY IdleFlow
  <2>3. CASE b = d
    <3>1. Flowing(s.n.out[d], <<>>, w, s.n.came[d] + Len(w), s.n.taken[d], FALSE)
      BY <2>2, <2>3, FlowCome
    <3>2. Flowing(t.n.out[b], g.out, g.in, t.n.came[b], t.n.taken[b], FALSE)
      BY <3>1, <2>3, <1>4, <1>5, <1>6
    <3>3. g.dir = b
      BY <2>3, <1>5
    <3> QED
      BY ONLY <3>2, <3>3, <2>1
  <2>4. CASE b # d
    <3>1. Flowing(t.n.out[b], <<>>, <<>>, t.n.came[b], t.n.taken[b], FALSE)
      BY <2>2, <2>4, <1>4, <1>6
    <3>2. g.dir # b
      BY <2>4, <1>5
    <3> QED
      BY <3>1, <3>2, <2>1
  <2> QED
    BY <2>3, <2>4
<1>9. t.n.phase = "content" /\ Session(t.n)
  <2>1. t.n.phase = v.n.phase /\ v.n.phase = s.n.phase
    BY <1>4, <1>6
  <2> QED
    BY <2>1, <1>4, <1>6
<1>10. Sound(t)
  <2>1. /\ DOMAIN t = {"ctx", "n", "stack"} /\ Context(t.ctx)
        /\ ~t.ctx.inProgress /\ g.fn = "body"
    BY <1>1, <1>2, <1>5, <1>6
  <2> QED
    BY ONLY <2>1, <1>7, <1>8, <1>9, BodyStack
<1> QED
  BY <1>5, <1>6, <1>7, <1>9, <1>10

\* The js_filter function is called.
LEMMA FilterCalled ==
    ASSUME NEW s, Sound(s), Len(s.stack) = 1, s.stack[1].fn = "body",
           NEW t, t = Push(s, Frame("filter"))
    PROVE  Sound(t) /\ t.ctx = s.ctx /\ t.n = s.n /\ t.stack # <<>>
<1>1. /\ DOMAIN s = {"ctx", "n", "stack"}
      /\ Context(s.ctx) /\ Session(s.n) /\ Frames(s.stack)
  BY DEF Sound
<1>2. Base(s, {"body"})
  <2>1. s.stack # <<>>
    <3>1. Len(<<>>) = 0
      OBVIOUS
    <3> QED
      BY <3>1
  <2> QED
    BY <2>1 DEF Base
<1>3. s.n.phase = "content" /\ ~s.ctx.inProgress
  BY <1>2 DEF Sound, Places, Phasing, Waiting
<1>4. PICK f : f = s.stack[1]
  OBVIOUS
<1>5. PICK h : h = Frame("filter")
  OBVIOUS
<1>6. DOMAIN h = FrameFields /\ h.fn = "filter" /\ h.dir \in Directions
  BY <1>5, FrameFieldsOK DEF Directions
<1>7. /\ DOMAIN t = {"ctx", "n", "stack"} /\ t.ctx = s.ctx /\ t.n = s.n
      /\ t.stack = Append(s.stack, h)
  BY <1>1, <1>5 DEF Push
<1>8. /\ Frames(t.stack) /\ t.stack # <<>> /\ Len(t.stack) = 2
      /\ t.stack[1] = f /\ t.stack[2] = h
  <2>1. PICK q : q = s.stack
    OBVIOUS
  <2>2. PICK r : r = Called(q, h)
    OBVIOUS
  <2>3. /\ Frames(q) /\ Len(q) = 1 /\ q[1].fn = "body"
        /\ h.fn \in {"filter", "callback"} /\ h.dir \in Directions
        /\ DOMAIN h = FrameFields
    BY <1>1, <1>6, <2>1
  <2>4. /\ Frames(r) /\ r # <<>> /\ Len(r) = 2 /\ r[1] = q[1] /\ r[2] = h
    BY ONLY <2>2, <2>3, PushTwo
  <2>5. t.stack = r
    BY <1>7, <2>1, <2>2 DEF Called
  <2> QED
    BY <1>4, <2>1, <2>4, <2>5
<1>9. ASSUME NEW d \in Directions
      PROVE  Flowing(t.n.out[d], IF f.dir = d THEN f.out ELSE <<>>,
                     IF f.dir = d THEN f.in ELSE <<>>,
                     t.n.came[d], t.n.taken[d], Looking(t, d))
  <2>1. Flowing(s.n.out[d], IF f.dir = d THEN f.out ELSE <<>>,
                IF f.dir = d THEN f.in ELSE <<>>,
                s.n.came[d], s.n.taken[d], Looking(s, d))
    BY <1>2, <1>4, BodyFlow
  <2>2. Looking(s, d) = FALSE
    BY DEF Looking
  <2>3. Looking(t, d) = FALSE
    BY <1>6, <1>8 DEF Looking
  <2> QED
    BY <2>1, <2>2, <2>3, <1>7
<1>10. Sound(t)
  <2>1. /\ Context(t.ctx) /\ ~t.ctx.inProgress /\ Session(t.n)
        /\ t.n.phase = "content" /\ f.fn = "body"
    BY <1>1, <1>3, <1>4, <1>7
  <2> QED
    BY ONLY <2>1, <1>7, <1>8, <1>9, BodyStack
<1> QED
  BY <1>7, <1>8, <1>10

\* ngx_stream_js_body_filter.
LEMMA BodyFilterGood ==
    ASSUME NEW s, Sound(s), s.stack = <<>>, s.n.phase = "content",
           NEW d \in Directions, NEW w \in Seq(Buf), Len(w) \in {1, 2},
           \A i \in 1..Len(w) : w[i].id = s.n.came[d] + i,
           NEW v, DOMAIN v = {"ctx", "n", "stack"}, v.ctx = s.ctx,
           v.stack = <<>>, v.n = Come(s.n, d, Len(w))
    PROVE  Good(s, BodyFilter(v, d, w))
<1>1. PICK b : b = BodyCalled(v, d, w)
  OBVIOUS
<1>3. /\ Sound(b) /\ b.ctx = s.ctx /\ b.n = v.n /\ b.n.phase = "content"
      /\ Len(b.stack) = 1 /\ b.stack[1].fn = "body"
  BY <1>1, ComeGood
<1>4. ASSUME NEW t, Sound(t), t.ctx = s.ctx, t.n = v.n, t.stack # <<>>
      PROVE  Good(s, t)
  <2>1. t.n.phase = s.n.phase
    BY <1>3, <1>4
  <2>2. Like(s, s) /\ \A x : Matching(s, x) => Matching(t, x)
    BY <1>4 DEF Like, Matching
  <2> QED
    BY <2>1, <2>2, <1>4, StaysGood
<1>5. CASE ~v.n.conf.vm
  <2>1. PICK t : t = NextFilter(v, d, FlattenChunks(w), <<>>)
    OBVIOUS
  <2>2. Good(s, t)
    BY <2>1, PassGood
  <2> QED
    BY <2>1, <2>2, <1>5 DEF BodyFilter
<1>6. CASE v.n.conf.vm /\ v.ctx.filter
  <2>1. BodyFilter(v, d, w) = b
    BY <1>1, <1>6 DEF BodyFilter, BodyCalled
  <2>2. b.stack # <<>>
    <3>1. Len(<<>>) = 0
      OBVIOUS
    <3> QED
      BY <3>1, <1>3
  <2> QED
    BY <2>1, <2>2, <1>3, <1>4
<1>7. CASE v.n.conf.vm /\ ~v.ctx.filter
  <2>1. PICK t : t = Push(b, Frame("filter"))
    OBVIOUS
  <2>2. BodyFilter(v, d, w) = t
    BY <2>1, <1>1, <1>7 DEF BodyFilter, BodyCalled
  <2>3. Sound(t) /\ t.ctx = b.ctx /\ t.n = b.n /\ t.stack # <<>>
    BY <2>1, <1>3, FilterCalled
  <2> QED
    BY <2>2, <2>3, <1>3, <1>4
<1> QED
  BY <1>5, <1>6, <1>7

-----------------------------------------------------------------------------
(* The steps of the specification.                                         *)

(* What every step does.  A call of a method may set an event that does    *)
(* not match, unless the scripts' calls suit each other.                   *)
Safe(s, t) ==
    /\ Sound(t) /\ Awaits(t) /\ Passes(s, t)
    /\ \A x : Matching(s, x) /\ (\A op \in Calls : Suits(op, x)) =>
                  Matching(t, x)

\* The variables of the specification are the fields of the state.
LEMMA StateFields ==
    /\ DOMAIN State = {"ctx", "n", "stack"}
    /\ State.ctx = ctx /\ State.n = n /\ State.stack = stack
BY DEF State

\* States with the same fields.
LEMMA SameFields ==
    ASSUME NEW s, Sound(s), NEW t, DOMAIN t = {"ctx", "n", "stack"},
           t.ctx = s.ctx, t.n = s.n, t.stack = s.stack
    PROVE  Sound(t)
<1>1. \A fns : Base(t, fns) <=> Base(s, fns)
  BY DEF Base
<1>2. Places(t)
  BY <1>1 DEF Sound, Places
<1>3. \A d : /\ Chained(t, d) = Chained(s, d) /\ Unseen(t, d) = Unseen(s, d)
             /\ Looking(t, d) = Looking(s, d)
  BY DEF Chained, Unseen, Looking, Running, Base
<1>4. Flows(t)
  BY <1>3 DEF Sound, Flows
<1> QED
  BY <1>2, <1>4 DEF Sound

\* The state becomes what a handler returns.
LEMMA BecomeSafe ==
    ASSUME NEW s, Good(State, s), Become(s) PROVE Safe(State, State')
<1>1. /\ DOMAIN State' = {"ctx", "n", "stack"}
      /\ State'.ctx = s.ctx /\ State'.n = s.n /\ State'.stack = s.stack
  BY DEF Become, State
<1> DEFINE u == State
           t == State'
<1>2. Good(u, s)
  OBVIOUS
<1>3. /\ DOMAIN t = {"ctx", "n", "stack"}
      /\ t.ctx = s.ctx /\ t.n = s.n /\ t.stack = s.stack
  BY <1>1
<1> HIDE DEF u, t
<1>4. Sound(s) /\ Awaits(s) /\ Passes(u, s)
      /\ \A x : Matching(u, x) => Matching(s, x)
  BY <1>2 DEF Good
<1>5. Sound(t)
  BY <1>3, <1>4, SameFields
<1>6. Awaits(t) /\ Passes(u, t)
  BY <1>3, <1>4 DEF Awaits, Passes, PendingEvents
<1>7. \A x : Matching(s, x) => Matching(t, x)
  BY <1>3 DEF Matching
<1>8. Safe(u, t)
  BY <1>4, <1>5, <1>6, <1>7 DEF Safe
<1> QED
  BY <1>8 DEF u, t

\* A script calls a method.
LEMMA ScriptCallsSafe ==
    ASSUME Sound(State), ScriptCalls PROVE Safe(State, State')
<1> DEFINE u == State
           t == State'
<1>1. PICK op \in Calls :
          /\ Allowed(op)
          /\ Become(IF engine = "njs" THEN Njs(State, op).s
                    ELSE Qjs(State, op).s)
  BY DEF ScriptCalls
<1>2. PICK r : r = IF engine = "njs" THEN Njs(State, op) ELSE Qjs(State, op)
  OBVIOUS
<1>3. Become(r.s)
  BY <1>1, <1>2
<1>4. op.name = "send" /\ State.ctx.filter /\ Filtering(State) = {} => op.b.given
  BY <1>1, StateFields DEF Allowed
<1>5. r = Njs(u, op) \/ r = Qjs(u, op)
  BY <1>2
<1>6. Sound(u) /\ (op.name = "send" /\ u.ctx.filter /\ Filtering(u) = {}
                       => op.b.given)
  BY <1>4
<1>7. u.stack # <<>>
  BY StateFields DEF ScriptCalls, InScript
<1>8. /\ DOMAIN t = {"ctx", "n", "stack"}
      /\ t.ctx = r.s.ctx /\ t.n = r.s.n /\ t.stack = r.s.stack
  BY <1>3 DEF Become, State
<1> HIDE DEF u, t
<1>9. /\ Kept(u, r.s)
      /\ \A x : Matching(u, x) /\ Suits(op, x) => Matching(r.s, x)
  BY <1>5, <1>6, CallSound
<1>10. /\ Sound(r.s) /\ r.s.n.phase = u.n.phase /\ r.s.stack # <<>>
  BY <1>7, <1>9 DEF Kept
<1>11. Sound(t)
  BY <1>8, <1>10, SameFields
<1>12. Awaits(t) /\ Passes(u, t)
  BY <1>8, <1>10 DEF Awaits, Passes
<1>13. \A x : Matching(r.s, x) => Matching(t, x)
  BY <1>8 DEF Matching
<1>14. \A x : Matching(u, x) /\ (\A o \in Calls : Suits(o, x)) => Matching(t, x)
  BY <1>9, <1>13
<1>15. Safe(u, t)
  BY <1>11, <1>12, <1>14 DEF Safe
<1> QED
  BY <1>15 DEF u, t

\* setTimeout().
LEMMA WaitsGood ==
    ASSUME NEW s, Sound(s), s.stack # <<>>,
           NEW t, t = [s EXCEPT !.ctx.timers = @ + 1]
    PROVE  Good(s, t)
<1>1. DOMAIN s = {"ctx", "n", "stack"} /\ Context(s.ctx)
  BY DEF Sound
<1>2. /\ DOMAIN t = {"ctx", "n", "stack"} /\ t.n = s.n /\ t.stack = s.stack
      /\ t.ctx = [s.ctx EXCEPT !.timers = @ + 1]
  BY <1>1
<1>3. /\ Context(t.ctx) /\ t.ctx.ev = s.ctx.ev /\ t.ctx.buf = s.ctx.buf
      /\ t.ctx.inProgress = s.ctx.inProgress
  BY <1>1, <1>2 DEF Context, CtxFields
<1>4. Kept(s, t)
  BY <1>2, <1>3, ContextSound
<1>5. Like(s, s) /\ \A x : Matching(s, x) => Matching(t, x)
  BY <1>3 DEF Like, Matching
<1> QED
  BY <1>4, <1>5, StaysGood DEF Kept

\* ngx_stream_js_variable_set.
LEMMA ReadsGood ==
    ASSUME NEW s, Sound(s), s.stack # <<>>, Top(s).fn # "variable",
           NEW h, DOMAIN h = FrameFields, h.fn = "variable",
           h.dir \in Directions,
           NEW t, t = Push(s, h)
    PROVE  Good(s, t)
<1>1. DOMAIN s = {"ctx", "n", "stack"} /\ Frames(s.stack)
  BY DEF Sound
<1>2. /\ DOMAIN t = {"ctx", "n", "stack"} /\ t.ctx = s.ctx /\ t.n = s.n
      /\ t.stack = Append(s.stack, h)
  BY <1>1 DEF Push
<1>3. PICK k : k = Len(s.stack)
  OBVIOUS
<1>4. k \in Nat /\ k > 0
  BY <1>3, TopPlace
<1>5. /\ Frames(t.stack) /\ t.stack # <<>> /\ Len(t.stack) = k + 1
      /\ \A i \in 1..k : t.stack[i] = s.stack[i]
      /\ t.stack[k + 1] = h
  <2>1. PICK q : q = s.stack
    OBVIOUS
  <2>2. PICK r : r = Called(q, h)
    OBVIOUS
  <2>3. Frames(q) /\ Fits(q, h)
    BY <2>1, <1>1 DEF Fits, Top
  <2>4. /\ Frames(r) /\ r # <<>> /\ Len(r) = Len(q) + 1
        /\ \A i \in 1..Len(q) : r[i] = q[i]
        /\ r[Len(q) + 1] = h
    BY ONLY <2>2, <2>3, PushFrames
  <2>5. t.stack = r
    BY <1>2, <2>1, <2>2 DEF Called
  <2> QED
    BY <1>3, <2>1, <2>4, <2>5
<1>6. t.stack[1] = s.stack[1]
  BY <1>4, <1>5
<1>7. k > 1 => t.stack[2] = s.stack[2]
  BY <1>4, <1>5
<1>8. \A fns : Base(t, fns) <=> Base(s, fns)
  BY <1>5, <1>6 DEF Base
<1>9. \A d : /\ Running(t, d) = Running(s, d)
             /\ Chained(t, d) = Chained(s, d) /\ Unseen(t, d) = Unseen(s, d)
  BY <1>6, <1>8 DEF Chained, Unseen, Running, Base
<1>10. \A d : Looking(t, d) = Looking(s, d)
  <2>1. CASE k = 1
    <3>1. t.stack[2].fn # "callback"
      BY <2>1, <1>5
    <3>2. ~(k > 1)
      BY ONLY <2>1
    <3> QED
      BY ONLY <3>1, <3>2, <1>3 DEF Looking
  <2>2. CASE k > 1
    <3>1. Len(t.stack) > 1 /\ Len(s.stack) > 1
      BY <2>2, <1>3, <1>4, <1>5
    <3> QED
      BY <3>1, <2>2, <1>7, <1>9 DEF Looking
  <2> QED
    BY <2>1, <2>2, <1>4
<1>11. Flows(t)
  BY <1>2, <1>9, <1>10 DEF Sound, Flows
<1>12. Places(t)
  BY <1>2, <1>8 DEF Sound, Places
<1>13. Sound(t)
  BY <1>2, <1>5, <1>11, <1>12 DEF Sound
<1>14. Like(s, s) /\ \A x : Matching(s, x) => Matching(t, x)
  BY <1>2 DEF Like, Matching
<1> QED
  BY <1>2, <1>5, <1>13, <1>14, StaysGood

\* The posted read event runs the phases.
LEMMA PhasesRunGood ==
    ASSUME NEW s, Sound(s), s.stack = <<>>, s.n.phase # "closed",
           NEW v, v = [s EXCEPT !.n.posted = FALSE]
    PROVE  /\ s.n.phase = "content" \/ s.n.reading => Good(s, v)
           /\ s.n.phase # "content" => Good(s, PhaseHandler(v))
<1>1. DOMAIN s = {"ctx", "n", "stack"} /\ Session(s.n)
  BY DEF Sound
<1>2. /\ DOMAIN v = {"ctx", "n", "stack"} /\ v.ctx = s.ctx
      /\ v.stack = s.stack /\ v.n = [s.n EXCEPT !.posted = FALSE]
  BY <1>1
<1>3. /\ Session(v.n) /\ v.n.reading = s.n.reading
      /\ \A f \in {"phase", "conf", "came", "taken", "out"} : v.n[f] = s.n[f]
  BY <1>1, <1>2 DEF Session, NetFields
<1>4. Sound(v) /\ \A x : Matching(s, x) => Matching(v, x)
  BY ONLY Sound(s), <1>2, <1>3, PostedSound
<1>5. v.n.phase = s.n.phase /\ v.n.conf = s.n.conf
  BY <1>3
<1>6. Like(s, v) /\ Like(s, s)
  BY <1>4, <1>5 DEF Like
<1>7. CASE s.n.phase = "content"
  <2>1. Good(s, v)
    BY <1>4, <1>5, <1>6, <1>7, StaysGood
  <2> QED
    BY <2>1, <1>7
<1>8. CASE s.n.phase # "content"
  <2>1. v.n.phase \in Waiting
    BY <1>1, <1>5, <1>8 DEF Session
  <2>2. Good(s, PhaseHandler(v))
    BY <2>1, <1>2, <1>4, <1>6, PhaseHandlerGood
  <2>3. s.n.reading => Good(s, v)
    <3>1. s.n.reading => Awaits(v)
      BY <1>3 DEF Awaits
    <3>2. Passes(s, v)
      BY <1>5 DEF Passes
    <3> QED
      BY <3>1, <3>2, <1>4 DEF Good
  <2> QED
    BY <2>2, <2>3, <1>8
<1> QED
  BY <1>7, <1>8

\* The peer stops or begins to read.
LEMMA PeerGood ==
    ASSUME NEW s, Sound(s), s.n.phase = "content",
           NEW t, t = [s EXCEPT !.n.slow["up"] = ~@]
    PROVE  Good(s, t)
<1>1. DOMAIN s = {"ctx", "n", "stack"} /\ Session(s.n)
  BY DEF Sound
<1>2. /\ DOMAIN t = {"ctx", "n", "stack"} /\ t.ctx = s.ctx
      /\ t.stack = s.stack /\ t.n = [s.n EXCEPT !.slow["up"] = ~@]
  BY <1>1
<1>3. PICK w : w = [s.n.slow EXCEPT !["up"] = ~@]
  OBVIOUS
<1>4. w \in [Directions -> BOOLEAN]
  BY <1>1, <1>3 DEF Session
<1>5. t.n = [s.n EXCEPT !.slow = w]
  BY <1>1, <1>2, <1>3 DEF Session, NetFields
<1>6. /\ Session(t.n)
      /\ \A f \in {"phase", "conf", "came", "taken", "out"} : t.n[f] = s.n[f]
  BY <1>1, <1>4, <1>5 DEF Session, NetFields
<1>7. Sound(t) /\ \A x : Matching(s, x) => Matching(t, x)
  BY <1>2, <1>6, PostedSound
<1>8. Like(s, s) /\ t.n.phase = s.n.phase
  BY <1>6 DEF Like
<1> QED
  BY <1>7, <1>8, StaysGood

\* A timer fires.
LEMMA TimerGood ==
    ASSUME NEW s, Sound(s), s.stack = <<>>, s.n.phase # "closed",
           s.ctx.timers > 0,
           NEW v, v = [s EXCEPT !.ctx.timers = @ - 1]
    PROVE  Good(s, Push(v, Frame("timer")))
<1>1. DOMAIN s = {"ctx", "n", "stack"} /\ Context(s.ctx)
  BY DEF Sound
<1>2. /\ DOMAIN v = {"ctx", "n", "stack"} /\ v.n = s.n /\ v.stack = s.stack
      /\ v.ctx = [s.ctx EXCEPT !.timers = @ - 1]
  BY <1>1
<1>3. /\ Context(v.ctx) /\ v.ctx.ev = s.ctx.ev /\ v.ctx.buf = s.ctx.buf
      /\ v.ctx.inProgress = s.ctx.inProgress
  BY <1>1, <1>2 DEF Context, CtxFields
<1>4. Kept(s, v)
  BY <1>2, <1>3, ContextSound
<1>5. Like(s, v)
  BY <1>2, <1>3 DEF Like, Matching
<1>6. PICK f : f = Frame("timer")
  OBVIOUS
<1>7. DOMAIN f = FrameFields /\ f.fn = "timer" /\ f.dir \in Directions
  BY <1>6, FrameFieldsOK DEF Directions
<1>8. Good(s, Push(v, f))
  BY <1>2, <1>4, <1>5, <1>7, PushGood DEF Kept
<1> QED
  BY <1>6, <1>8

\* A script returns.
LEMMA ScriptReturnsSafe ==
    ASSUME Sound(State), ScriptReturns PROVE Safe(State, State')
<1>1. PICK u : u = State
  OBVIOUS
<1>2. PICK threw \in BOOLEAN :
          LET fn == Top(u).fn
              s == Pop(u)
          IN  Become(CASE fn = "phase" -> PhaseReturned(s, threw)
                       [] fn = "callback" -> EventReturned(s, threw)
                       [] fn = "filter" -> FilterReturned(s, threw)
                       [] fn = "timer" -> EventFinalize(s, threw)
                       [] fn = "variable" -> s)
  BY <1>1 DEF ScriptReturns
<1>3. Sound(u) /\ u.stack # <<>> /\ Top(u).fn \in ScriptFns
  BY <1>1, StateFields DEF ScriptReturns, InScript
<1>4. \E t : Good(u, t) /\ Become(t)
  <2>1. CASE Top(u).fn = "phase"
    BY <2>1, <1>2, <1>3, PhaseReturnedGood
  <2>2. CASE Top(u).fn = "callback"
    BY <2>2, <1>2, <1>3, EventReturnedGood
  <2>3. CASE Top(u).fn = "filter"
    BY <2>3, <1>2, <1>3, FilterReturnedGood
  <2>4. CASE Top(u).fn = "timer"
    BY <2>4, <1>2, <1>3, EventFinalizeGood
  <2>5. CASE Top(u).fn = "variable"
    BY <2>5, <1>2, <1>3, VariableGood
  <2> QED
    BY <2>1, <2>2, <2>3, <2>4, <2>5, <1>3 DEF ScriptFns
<1> QED
  BY <1>1, <1>4, BecomeSafe

\* Every step of the specification.
LEMMA NextSafe ==
    ASSUME Sound(State), Next PROVE Safe(State, State')
<1>1. PICK u : u = State
  OBVIOUS
<1>2. /\ Sound(u) /\ DOMAIN u = {"ctx", "n", "stack"}
      /\ u.ctx = ctx /\ u.n = n /\ u.stack = stack
  BY <1>1, StateFields
<1>3. CASE ScriptCalls
  BY <1>3, ScriptCallsSafe
<1>4. CASE ScriptReturns
  BY <1>4, ScriptReturnsSafe
<1>5. ASSUME NEW t, Good(u, t), Become(t) PROVE Safe(State, State')
  BY <1>1, <1>5, BecomeSafe
<1>6. CASE ScriptWaits
  <2>1. PICK t : t = [u EXCEPT !.ctx.timers = @ + 1]
    OBVIOUS
  <2>2. Become(t) /\ u.stack # <<>>
    BY <2>1, <1>1, <1>2, <1>6 DEF ScriptWaits, InScript
  <2> QED
    BY <2>1, <2>2, <1>2, <1>5, WaitsGood
<1>7. CASE ScriptReadsVariable
  <2>1. PICK h : h = [Frame("variable") EXCEPT !.pend = StreamPending(u)]
    OBVIOUS
  <2>2. PICK t : t = Push(u, h)
    OBVIOUS
  <2>3. Become(t) /\ u.stack # <<>> /\ Top(u).fn # "variable"
    BY <2>1, <2>2, <1>1, <1>2, <1>7 DEF ScriptReadsVariable, InScript
  <2>4. DOMAIN h = FrameFields /\ h.fn = "variable" /\ h.dir \in Directions
    BY <2>1 DEF Frame, FrameFields, Directions
  <2>5. Good(u, t)
    BY <2>2, <2>3, <2>4, <1>2, ReadsGood
  <2> QED
    BY <2>3, <2>5, <1>5
<1>8. CASE FilterRuns
  <2>1. Become(BodyTurn(u)) /\ u.stack # <<>> /\ Top(u).fn = "body"
    BY <1>1, <1>2, <1>8 DEF FilterRuns
  <2> QED
    BY <2>1, <1>2, <1>5, BodyTurnGood
<1>9. CASE PhasesRun
  <2>1. PICK v : v = [u EXCEPT !.n.posted = FALSE]
    OBVIOUS
  <2>2. /\ u.stack = <<>> /\ u.n.phase # "closed"
        /\ Become(IF u.n.phase = "content" \/ u.n.reading THEN v
                  ELSE PhaseHandler(v))
    BY <2>1, <1>1, <1>2, <1>9 DEF PhasesRun, Idle
  <2>3. /\ u.n.phase = "content" \/ u.n.reading => Good(u, v)
        /\ u.n.phase # "content" => Good(u, PhaseHandler(v))
    BY <2>1, <2>2, <1>2, PhasesRunGood
  <2>4. CASE u.n.phase = "content" \/ u.n.reading
    BY <2>2, <2>3, <2>4, <1>5
  <2>5. CASE ~(u.n.phase = "content" \/ u.n.reading)
    BY <2>2, <2>3, <2>5, <1>5
  <2> QED
    BY <2>4, <2>5
<1>10. CASE ClientSends
  <2>1. Become(PhaseHandler(u)) /\ u.stack = <<>> /\ u.n.phase \in Waiting
    BY <1>1, <1>2, <1>10 DEF ClientSends, Idle, Waiting
  <2>2. Like(u, u)
    BY DEF Like
  <2> QED
    BY <2>1, <2>2, <1>2, <1>5, PhaseHandlerGood
<1>11. CASE PrereadTimeout
  <2>1. Become(Finalize(u))
    BY <1>1, <1>11 DEF PrereadTimeout
  <2> QED
    BY <2>1, <1>2, <1>5, Finalizes
<1>12. CASE DataComes
  <2>1. u.stack = <<>> /\ u.n.phase = "content"
    BY <1>2, <1>12 DEF DataComes, Idle
  <2>2. PICK d \in Directions, k \in 1..2 :
            Become(BodyFilter([u EXCEPT !.n.came[d] = @ + k], d,
                     [i \in 1..k |-> [id |-> u.n.came[d] + i, flush |-> i = k,
                                      last |-> u.n.came[d] + i = MaxChunks]]))
    BY ZenonT(40), <1>1, <1>2, <1>12 DEF DataComes
  <2>3. PICK v : v = [u EXCEPT !.n.came[d] = @ + k]
    OBVIOUS
  <2>4. PICK c : c = u.n.came[d]
    OBVIOUS
  <2>5. PICK w : w = [i \in 1..k |-> [id |-> c + i, flush |-> i = k,
                                      last |-> c + i = MaxChunks]]
    OBVIOUS
  <2>6. Become(BodyFilter(v, d, w))
    BY <2>2, <2>3, <2>4, <2>5
  <2>7. c \in Nat /\ DOMAIN u.n = NetFields
    BY <2>4, <1>2 DEF Sound, Session
  <2>8. /\ w \in Seq(Buf) /\ Len(w) = k
        /\ \A i \in 1..Len(w) : w[i].id = c + i
    BY <2>5, <2>7, ChunksOK
  <2>9. /\ DOMAIN v = {"ctx", "n", "stack"} /\ v.ctx = u.ctx
        /\ v.stack = <<>> /\ v.n = Come(u.n, d, Len(w))
    BY <2>1, <2>3, <2>7, <2>8, <1>2 DEF Come
  <2>10. Len(w) \in {1, 2}
    BY <2>8
  <2>11. Good(u, BodyFilter(v, d, w))
    BY <2>1, <2>4, <2>8, <2>9, <2>10, <1>2, BodyFilterGood
  <2> QED
    BY <2>6, <2>11, <1>5
<1>13. CASE PeerTurns
  <2>1. PICK t : t = [u EXCEPT !.n.slow["up"] = ~@]
    OBVIOUS
  <2>2. Become(t) /\ u.n.phase = "content"
    BY <2>1, <1>1, <1>2, <1>13 DEF PeerTurns
  <2> QED
    BY <2>1, <2>2, <1>2, <1>5, PeerGood
<1>14. CASE TimerFires
  <2>1. PICK v : v = [u EXCEPT !.ctx.timers = @ - 1]
    OBVIOUS
  <2>2. /\ Become(Push(v, Frame("timer"))) /\ u.stack = <<>>
        /\ u.n.phase # "closed" /\ u.ctx.timers > 0
    BY <2>1, <1>1, <1>2, <1>14 DEF TimerFires, Idle
  <2>3. Good(u, Push(v, Frame("timer")))
    BY <2>1, <2>2, <1>2, TimerGood
  <2> QED
    BY <2>2, <2>3, <1>5
<1> QED
  BY <1>3, <1>4, <1>6, <1>7, <1>8, <1>9, <1>10, <1>11, <1>12, <1>13, <1>14
     DEF Next, Steps

-----------------------------------------------------------------------------
(* The theorems.                                                           *)

IInv == Sound(State) /\ Awaits(State)

\* A session that begins.
LEMMA InitSound == ASSUME Init PROVE IInv
<1>1. PICK u : u = State
  OBVIOUS
<1>2. PICK c \in Confs :
          n = [conf |-> c, phase |-> "access", posted |-> TRUE,
               reading |-> FALSE, came |-> [d \in Directions |-> 0],
               taken |-> [d \in Directions |-> {}],
               out |-> [d \in Directions |-> <<>>],
               slow |-> [d \in Directions |-> FALSE],
               spins |-> FALSE]
  BY DEF Init
<1>3. /\ DOMAIN u = {"ctx", "n", "stack"} /\ u.ctx = FreshCtx /\ u.n = n
      /\ u.stack = <<>>
  BY <1>1, StateFields DEF Init
<1>4. c \in Conf1
  BY ConfsAssumption DEF Conf1
<1>5. /\ DOMAIN u.n = NetFields /\ u.n.conf = c /\ u.n.phase = "access"
      /\ u.n.posted = TRUE /\ u.n.reading = FALSE
      /\ u.n.came = [d \in Directions |-> 0]
      /\ u.n.taken = [d \in Directions |-> {}]
      /\ u.n.out = [d \in Directions |-> <<>>]
      /\ u.n.slow = [d \in Directions |-> FALSE]
  BY <1>2, <1>3 DEF NetFields
<1>6. Session(u.n)
  <2>1. u.n.came \in [Directions -> Nat]
    BY ONLY <1>5
  <2>2. u.n.taken \in [Directions -> SUBSET Nat]
    BY ONLY <1>5
  <2>3. u.n.out \in [Directions -> Seq(Int)]
    BY ONLY <1>5
  <2>4. u.n.slow \in [Directions -> BOOLEAN]
    BY ONLY <1>5
  <2> QED
    BY <2>1, <2>2, <2>3, <2>4, <1>4, <1>5 DEF Session, Waiting
<1>7. \A fns : ~Base(u, fns)
  BY <1>3 DEF Base
<1>8. Places(u)
  BY <1>3, <1>5, <1>7, FreshContext DEF Places
<1>9. Frames(u.stack)
  <2>1. <<>> \in Seq({}) /\ Len(<<>>) = 0
    OBVIOUS
  <2> QED
    BY <2>1, <1>3 DEF Frames, IsSeq
<1>10. \A d : Chained(u, d) = <<>> /\ Unseen(u, d) = <<>>
              /\ Looking(u, d) = FALSE
  BY <1>7 DEF Chained, Unseen, Looking, Running
<1>11. \A d \in Directions :
           /\ u.n.out[d] = <<>> /\ u.n.came[d] = 0 /\ u.n.taken[d] = {}
  BY <1>5
<1>12. Flows(u)
  BY <1>10, <1>11, FlowStart DEF Flows
<1>13. Sound(u)
  BY <1>3, <1>6, <1>8, <1>9, <1>12, FreshContext DEF Sound
<1>14. Awaits(u)
  BY <1>5 DEF Awaits
<1> QED
  BY <1>1, <1>13, <1>14 DEF IInv

\* Steps of the specification keep the invariant.
LEMMA InvariantKept == IInv /\ [Next]_vars => IInv'
<1> SUFFICES ASSUME IInv, [Next]_vars PROVE IInv'
  OBVIOUS
<1>1. CASE Next
  BY <1>1, NextSafe DEF IInv, Safe
<1>2. CASE UNCHANGED vars
  <2>1. State' = State
    BY <1>2 DEF vars, State
  <2>2. /\ Sound(State') <=> Sound(State)
        /\ Awaits(State') <=> Awaits(State)
    BY <2>1
  <2> QED
    BY <2>2 DEF IInv
<1> QED
  BY <1>1, <1>2

\* The session is well formed in every state.
LEMMA Invariant == Spec => []IInv
<1>1. Init => IInv
  BY InitSound
<1> QED
  BY <1>1, InvariantKept, PTL DEF Spec

\* A well formed session has its type.
LEMMA SoundTyped == IInv => TypeOK
<1> SUFFICES ASSUME IInv PROVE TypeOK
  OBVIOUS
<1>1. PICK u : u = State
  OBVIOUS
<1>2. /\ Sound(u) /\ u.ctx = ctx /\ u.n = n /\ u.stack = stack
  BY <1>1, StateFields DEF IInv
<1>3. Context(ctx) /\ Session(n) /\ Frames(u.stack)
  BY <1>2 DEF Sound
<1>4. /\ ctx.status \in Statuses
      /\ n.phase \in {"access", "preread", "content", "closed"}
  BY <1>3 DEF Context, Session, Waiting
<1>5. \A d \in Directions : ctx.ev[d].type \in {"unset", "string", "buffer"}
  BY <1>3 DEF Context, EvState, Types
<1>6. Filtering(u) = {1} \/ Filtering(u) = {}
  BY <1>3, FilteringBase
<1>7. Cardinality(Filtering(u)) <= 1
  <2>1. Cardinality({1}) = 1
    BY FS_Singleton
  <2>2. Cardinality({}) = 0
    BY FS_EmptySet
  <2> QED
    BY <1>6, <2>1, <2>2
<1> QED
  BY <1>1, <1>4, <1>5, <1>7 DEF TypeOK

(***************************************************************************)
(* The state of a session has its type, and one direction at a time is     *)
(* filtered (ngx_stream_js_body_filter is not entered while it runs).      *)
(***************************************************************************)
THEOREM TypeCorrect == Spec => []TypeOK
BY Invariant, SoundTyped, PTL

\* What has gone out when nothing runs.
LEMMA SoundLost == IInv => NothingLost
<1> SUFFICES ASSUME IInv, Idle, NEW d \in Directions
             PROVE  LET out == n.out[d]
                        data == {i \in DOMAIN out : out[i] > 0}
                    IN  /\ \A i, j \in data : i < j => out[i] < out[j]
                        /\ {out[i] : i \in data} = (1..n.came[d]) \ n.taken[d]
  BY DEF NothingLost
<1>1. PICK u : u = State
  OBVIOUS
<1>2. /\ Sound(u) /\ u.n = n /\ u.stack = <<>> /\ u.n.phase # "closed"
  BY <1>1, StateFields DEF IInv, Idle
<1>3. \A fns : ~Base(u, fns)
  BY <1>2 DEF Base
<1>4. Chained(u, d) = <<>> /\ Unseen(u, d) = <<>> /\ Looking(u, d) = FALSE
  BY <1>3 DEF Chained, Unseen, Looking, Running
<1>5. PICK o : o = n.out[d]
  OBVIOUS
<1>6. Flowing(o, <<>>, <<>>, n.came[d], n.taken[d], FALSE)
  <2>1. Flowing(u.n.out[d], Chained(u, d), Unseen(u, d), u.n.came[d],
                u.n.taken[d], Looking(u, d))
    BY <1>2 DEF Sound, Flows
  <2> QED
    BY <2>1, <1>2, <1>4, <1>5
<1>7. o \in Seq(Int) /\ Up(o) /\ Data(o) = (1..n.came[d]) \ n.taken[d]
  BY ZenonT(40), <1>6, FlowEnd
<1>8. DOMAIN o = 1..Len(o)
  BY <1>7, LenProperties
<1>9. \A i, j \in {k \in DOMAIN o : o[k] > 0} : i < j => o[i] < o[j]
  BY <1>7, <1>8 DEF Up
<1>10. {o[i] : i \in {k \in DOMAIN o : o[k] > 0}} = (1..n.came[d]) \ n.taken[d]
  BY <1>7, <1>8 DEF Data
<1> QED
  BY <1>5, <1>9, <1>10

(***************************************************************************)
(* Whenever no script and no filter runs, what no callback took has gone   *)
(* to the other side, once and in order (ngx_stream_js_next_filter).       *)
(***************************************************************************)
THEOREM DataIsKept == Spec => []NothingLost
BY Invariant, SoundLost, PTL

\* A step that ends a phase.
LEMMA StepDecides ==
    IInv /\ [Next]_vars =>
        [n.phase \in {"access", "preread"} /\ n'.phase = PhaseAfter[n.phase]
         /\ n.conf[n.phase] /\ n.conf.vm =>
            /\ ctx'.timers = 0 /\ \A d \in Directions : ~ctx'.ev[d].fn
            /\ ctx'.status \in {"OK", "DECLINED"} /\ ~ctx'.inProgress]_vars
<1> SUFFICES ASSUME IInv, Next,
                    n.phase \in {"access", "preread"},
                    n'.phase = PhaseAfter[n.phase],
                    n.conf[n.phase], n.conf.vm
             PROVE  /\ ctx'.timers = 0 /\ \A d \in Directions : ~ctx'.ev[d].fn
                    /\ ctx'.status \in {"OK", "DECLINED"} /\ ~ctx'.inProgress
  OBVIOUS
<1>1. Passes(State, State')
  BY NextSafe DEF IInv, Safe
<1>2. /\ State.n = n /\ State'.n = n' /\ State'.ctx = ctx'
  BY DEF State
<1>3. n'.phase \notin {n.phase, "closed"}
  BY DEF PhaseAfter
<1> QED
  BY <1>1, <1>2, <1>3 DEF Passes, Waiting

(***************************************************************************)
(* A phase with a function passes only when the function has decided so    *)
(* and nothing it set is pending (ngx_stream_js_phase_handler).            *)
(***************************************************************************)
THEOREM PhasesDecide == Spec => PhaseDecides
<1>1. IInv /\ [Next]_vars =>
        [n.phase \in {"access", "preread"} /\ n'.phase = PhaseAfter[n.phase]
         /\ n.conf[n.phase] /\ n.conf.vm =>
            /\ ctx'.timers = 0 /\ \A d \in Directions : ~ctx'.ev[d].fn
            /\ ctx'.status \in {"OK", "DECLINED"} /\ ~ctx'.inProgress]_vars
  BY StepDecides
<1> QED
  BY <1>1, Invariant, PTL DEF Spec, PhaseDecides

(* Scripts set and clear events of one type of data, with callbacks. *)
OneType(x) == \A op \in Calls : Suits(op, x)

MInv(x) == IInv /\ Matching(State, x)

\* With calls of one type an event that is waited for has its callback.
LEMMA MatchingKept ==
    ASSUME NEW CONSTANT x, OneType(x) PROVE MInv(x) /\ [Next]_vars => MInv(x)'
<1> SUFFICES ASSUME MInv(x), [Next]_vars PROVE MInv(x)'
  OBVIOUS
<1>1. IInv'
  BY InvariantKept DEF MInv
<1>2. CASE Next
  <2>1. Matching(State', x)
    BY <1>2, NextSafe DEF MInv, IInv, Safe, OneType
  <2> QED
    BY <2>1, <1>1 DEF MInv
<1>3. CASE UNCHANGED vars
  <2>1. State' = State
    BY <1>3 DEF vars, State
  <2>2. Matching(State', x) <=> Matching(State, x)
    BY <2>1
  <2> QED
    BY <2>2, <1>1 DEF MInv
<1> QED
  BY <1>2, <1>3

\* Nothing is set in the beginning.
LEMMA InitMatches == ASSUME NEW x, Init PROVE MInv(x)
<1>1. State.ctx = FreshCtx
  BY DEF Init, State
<1>2. \A d \in Directions : FreshCtx.ev[d] = Unset
  BY DEF FreshCtx
<1>3. Matching(State, x)
  BY <1>1, <1>2 DEF Matching, Unset
<1> QED
  BY <1>3, InitSound DEF MInv

\* So what a phase waits for is there.
LEMMA MatchingWaits == ASSUME NEW x PROVE MInv(x) => WaitsForSomething
<1> SUFFICES ASSUME MInv(x) PROVE WaitsForSomething
  OBVIOUS
<1>1. TypeOK
  BY SoundTyped DEF MInv
<1>2. ASSUME Idle, ctx.inProgress, ~n.posted, ~DownloadOnly
      PROVE  ctx.timers > 0 \/ n.reading \/ ctx.ev["up"].fn
  <2>1. /\ State.ctx = ctx /\ State.n = n /\ State.stack = stack
    BY StateFields
  <2>2. Awaits(State) /\ Matching(State, x)
    BY DEF MInv, IInv
  <2>3. ctx.timers > 0 \/ n.reading \/ PendingEvents(State)
    BY <2>1, <2>2, <1>2 DEF Awaits, Idle
  <2>4. PendingEvents(State) => \E d \in Directions : ctx.ev[d].fn
    BY <2>1, <2>2 DEF PendingEvents, Matching
  <2>5. ctx.ev["down"].fn => ctx.ev["up"].fn
    <3>1. ctx.ev["up"] \in EvState
      <4>1. Context(State.ctx)
        BY DEF MInv, IInv, Sound
      <4> QED
        BY <4>1, <2>1 DEF Context, Directions
    <3>2. ~ctx.ev["up"].fn => ctx.ev["up"].type = "unset"
      BY <2>1, <2>2 DEF Matching, Directions
    <3>3. ~ctx.ev["up"].fn => ctx.ev["up"] = Unset
      BY <3>1, <3>2 DEF EvState, Unset
    <3> QED
      BY <3>3, <1>2 DEF DownloadOnly
  <2> QED
    BY <2>3, <2>4, <2>5 DEF Directions
<1> QED
  BY <1>1, <1>2 DEF WaitsForSomething

(***************************************************************************)
(* When the calls of the scripts set events of one type of data and give   *)
(* functions as callbacks, a phase that waits has a timer, the read of the *)
(* preread phase, or an upload callback, unless it has a download callback *)
(* and nothing else (ngx_stream_pending).  Without the hypothesis an       *)
(* s.on() that throws leaves a type that no callback answers.              *)
(***************************************************************************)
THEOREM WaitsAreAnswered ==
    ASSUME NEW CONSTANT x, OneType(x) PROVE Spec => []WaitsForSomething
<1>1. Init => MInv(x)
  BY InitMatches
<1>2. MInv(x) /\ [Next]_vars => MInv(x)'
  BY MatchingKept
<1>3. MInv(x) => WaitsForSomething
  BY MatchingWaits
<1> QED
  BY <1>1, <1>2, <1>3, PTL DEF Spec

====
