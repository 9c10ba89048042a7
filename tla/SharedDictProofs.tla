-------------------------- MODULE SharedDictProofs --------------------------
(***************************************************************************)
(* Proofs that the trees and the slab of a shared dictionary stay          *)
(* consistent, for every zone, number of workers and size of the values.   *)
(*                                                                         *)
(* TreesAgree and NoLeak do not hold in the middle of an operation:        *)
(* ngx_js_dict_update() unlinks a node from the expire tree while it       *)
(* allocates, and ngx_js_dict_add_value() holds a block that no node owns  *)
(* yet.  Consistent(s, X, R) is what holds there: the keys of X are out of *)
(* the expire tree and the slab units of R are reserved.  It is preserved  *)
(* by every internal step, and Consistent(s, {}, {}) is the invariant.     *)
(*                                                                         *)
(* The second part is about what the calls do to the entries: the readers  *)
(* agree, a failed call spoils nothing, incr() keeps expiry times, and the *)
(* zone implements ExpiringMap.  The argument is about sets of entries     *)
(* that go without being asked for, by expiry or by eviction.              *)
(* Dropped(s, t, S) says that t is s without the entries of S; allocations *)
(* drop sets of entries that come first in the expire tree, and two such   *)
(* sets in a row make one.                                                 *)
(***************************************************************************)
EXTENDS SharedDict, FiniteSetTheorems, TLAPS

Consistent(s, X, R) ==
    /\ s \in Zone
    /\ X \subseteq Live(s)
    /\ s.rbtree_expire = IF Timeout > 0 THEN Live(s) \ X ELSE {}
    /\ R \subseteq s.used
    /\ \A k \in Live(s) : Blocks(s.rbtree[k]) \subseteq s.used \ R
    /\ \A c \in s.used \ R : \E k \in Live(s) : c \in Blocks(s.rbtree[k])
    /\ \A k \in Live(s) : s.rbtree[k].node \notin s.rbtree[k].data
    /\ \A j, k \in Live(s) :
          j # k => Blocks(s.rbtree[j]) \cap Blocks(s.rbtree[k]) = {}

\* The fields of a zone after ngx_js_dict_node_free().
LEMMA FreeFields ==
    ASSUME NEW s \in Zone, NEW S \in SUBSET Keys,
           NEW t, t = ngx_js_dict_node_free(s, S)
    PROVE  /\ t \in Zone
           /\ \A k \in Keys : t.rbtree[k] = IF k \in S THEN NULL ELSE s.rbtree[k]
           /\ t.rbtree_expire = s.rbtree_expire \ S
           /\ t.used = s.used \ UNION {Blocks(s.rbtree[k]) : k \in S}
           /\ t.dirty = s.dirty
           /\ Live(t) = Live(s) \ S
BY NullAssumption DEF ngx_js_dict_node_free, Zone, Live

\* Freeing nodes of the zone keeps it consistent.
LEMMA FreeConsistent ==
    ASSUME NEW s, NEW X, NEW R, Consistent(s, X, R),
           NEW S \in SUBSET Live(s), S \cap X = {}
    PROVE  Consistent(ngx_js_dict_node_free(s, S), X, R)
<1> DEFINE t == ngx_js_dict_node_free(s, S)
<1>1. s \in Zone /\ S \in SUBSET Keys
  BY DEF Consistent, Live
<1>2. /\ t \in Zone
      /\ \A k \in Keys : t.rbtree[k] = IF k \in S THEN NULL ELSE s.rbtree[k]
      /\ t.rbtree_expire = s.rbtree_expire \ S
      /\ t.used = s.used \ UNION {Blocks(s.rbtree[k]) : k \in S}
      /\ Live(t) = Live(s) \ S
  BY <1>1, FreeFields
<1>3. \A k \in Live(t) : k \in Keys /\ k \in Live(s) /\ t.rbtree[k] = s.rbtree[k]
  BY <1>2 DEF Live
<1> HIDE DEF t
<1>4. X \subseteq Live(t) /\ t.rbtree_expire = IF Timeout > 0 THEN Live(t) \ X ELSE {}
  BY <1>2 DEF Consistent
<1>5. \A k \in Live(t) : Blocks(t.rbtree[k]) \subseteq t.used \ R
  <2> SUFFICES ASSUME NEW k \in Live(t), NEW c \in Blocks(t.rbtree[k])
               PROVE  c \in t.used \ R
    OBVIOUS
  <2>1. c \in s.used \ R
    BY <1>3 DEF Consistent
  <2>2. \A j \in S : c \notin Blocks(s.rbtree[j])
    BY <1>2, <1>3 DEF Consistent
  <2> QED
    BY <2>1, <2>2, <1>2
<1>6. \A c \in t.used \ R : \E k \in Live(t) : c \in Blocks(t.rbtree[k])
  <2> SUFFICES ASSUME NEW c \in t.used \ R
               PROVE  \E k \in Live(t) : c \in Blocks(t.rbtree[k])
    OBVIOUS
  <2>1. c \in s.used \ R
    BY <1>2
  <2>2. PICK k \in Live(s) : c \in Blocks(s.rbtree[k])
    BY <2>1 DEF Consistent
  <2>3. k \notin S
    BY <1>2, <2>2
  <2> QED
    BY <2>2, <2>3, <1>2, <1>3
<1>7. R \subseteq t.used
  <2> SUFFICES ASSUME NEW c \in R PROVE c \in t.used
    OBVIOUS
  <2>1. \A j \in S : c \notin Blocks(s.rbtree[j])
    BY DEF Consistent
  <2> QED
    BY <2>1, <1>2 DEF Consistent
<1>8. /\ \A k \in Live(t) : t.rbtree[k].node \notin t.rbtree[k].data
      /\ \A j, k \in Live(t) :
            j # k => Blocks(t.rbtree[j]) \cap Blocks(t.rbtree[k]) = {}
  BY <1>3 DEF Consistent
<1> QED
  BY <1>2, <1>4, <1>5, <1>6, <1>7, <1>8 DEF Consistent, t

\* ngx_js_dict_alloc() keeps a zone consistent, whatever it evicts, keeps the
\* nodes that are out of the expire tree, and returns unused slab units.
LEMMA AllocConsistent ==
    ASSUME NEW s, NEW X, NEW R, Consistent(s, X, R),
           NEW n, NEW a \in ngx_js_dict_alloc(s, n)
    PROVE  /\ Consistent(a.zone, X, R)
           /\ a.p \subseteq Chunk \ a.zone.used
           /\ a.zone.dirty = s.dirty
           /\ \A j \in Keys : a.zone.rbtree[j] \in {NULL, s.rbtree[j]}
           /\ \A k \in X : a.zone.rbtree[k] = s.rbtree[k]
<1>1. PICK S \in (IF Evict THEN EvictedBy(s, n) ELSE {{}}) :
         a = Allocated(ngx_js_dict_node_free(s, S), n)
  BY DEF ngx_js_dict_alloc
<1>0. /\ a.zone = ngx_js_dict_node_free(s, S)
      /\ a.p = IF Fitting(a.zone, n) = {} THEN {}
               ELSE CHOOSE p \in Fitting(a.zone, n) : TRUE
  BY <1>1 DEF Allocated
<1>2. s \in Zone /\ s.rbtree_expire \subseteq Live(s) \ X /\ X \subseteq Keys
  BY DEF Consistent, Live
<1>3. S \in SUBSET Live(s) /\ S \cap X = {} /\ S \in SUBSET Keys
  BY <1>2 DEF EvictedBy, Live
<1>4. Consistent(a.zone, X, R)
  BY <1>0, <1>3, FreeConsistent
<1>5. a.p \subseteq Chunk \ a.zone.used
  <2>1. CASE Fitting(a.zone, n) = {}
    BY <1>0, <2>1
  <2>2. CASE Fitting(a.zone, n) # {}
    <3>1. a.p \in Fitting(a.zone, n)
      BY <1>0, <2>2
    <3> QED
      BY <3>1 DEF Fitting
  <2> QED
    BY <2>1, <2>2
<1>6. /\ a.zone.dirty = s.dirty
      /\ \A k \in Keys : a.zone.rbtree[k] = IF k \in S THEN NULL ELSE s.rbtree[k]
  BY <1>0, <1>2, <1>3, FreeFields
<1> QED
  BY <1>2, <1>3, <1>4, <1>5, <1>6

\* A block of unused slab units can be reserved ...
LEMMA ReserveConsistent ==
    ASSUME NEW s, NEW X, NEW R, Consistent(s, X, R),
           NEW p \in SUBSET (Chunk \ s.used),
           NEW Q, Q = R \cup p, NEW t, t = Reserve(s, p)
    PROVE  /\ Consistent(t, X, Q)
           /\ t.rbtree = s.rbtree
           /\ t.dirty = s.dirty
<1>1. /\ t \in Zone
      /\ t.rbtree = s.rbtree
      /\ t.rbtree_expire = s.rbtree_expire
      /\ t.used = s.used \cup p
      /\ t.dirty = s.dirty
  BY DEF Reserve, Zone, Consistent
<1>2. Live(t) = Live(s)
  BY <1>1 DEF Live
<1>3. t.used \ Q = s.used \ R
  BY <1>1
<1> QED
  BY <1>1, <1>2, <1>3 DEF Consistent

\* ... and given back.
LEMMA ReleaseConsistent ==
    ASSUME NEW s, NEW X, NEW R, NEW p, Consistent(s, X, R), p \subseteq R,
           NEW t, t = Release(s, p)
    PROVE  /\ Consistent(t, X, R \ p)
           /\ t.rbtree = s.rbtree
           /\ t.dirty = s.dirty
<1>1. /\ t \in Zone
      /\ t.rbtree = s.rbtree
      /\ t.rbtree_expire = s.rbtree_expire
      /\ t.used = s.used \ p
      /\ t.dirty = s.dirty
  BY DEF Release, Zone, Consistent
<1>2. Live(t) = Live(s)
  BY <1>1 DEF Live
<1>3. t.used \ (R \ p) = s.used \ R
  BY <1>1 DEF Consistent
<1> QED
  BY <1>1, <1>2, <1>3 DEF Consistent

\* A node built from all the reserved units becomes the node of a key that
\* had none.
LEMMA InsertConsistent ==
    ASSUME NEW s, NEW R, NEW k \in Keys, Consistent(s, {}, R),
           s.rbtree[k] = NULL,
           NEW nd \in Node, Blocks(nd) = R, nd.node \notin nd.data,
           NEW now \in Nat, NEW timeout \in Nat,
           NEW t, t = Insert(s, k, nd, now, timeout)
    PROVE  Consistent(t, {}, {})
<1> DEFINE new == [nd EXCEPT !.expire = IF Timeout > 0 THEN now + timeout ELSE @]
<1>1. /\ new \in Node
      /\ new.node = nd.node
      /\ new.data = nd.data
  BY TimeAssumption DEF Node
<1>2. Blocks(new) = R /\ new.node \notin new.data
  BY <1>1 DEF Blocks
<1> HIDE DEF new
<1>3. /\ t \in Zone
      /\ \A j \in Keys : t.rbtree[j] = IF j = k THEN new ELSE s.rbtree[j]
      /\ t.rbtree_expire =
            IF Timeout > 0 THEN s.rbtree_expire \cup {k} ELSE s.rbtree_expire
      /\ t.used = s.used
  BY <1>1 DEF Insert, Zone, Consistent, new
<1>4. Live(t) = Live(s) \cup {k} /\ k \notin Live(s)
  BY <1>1, <1>3, NullAssumption DEF Live
<1>5. \A j \in Live(s) : j \in Keys /\ t.rbtree[j] = s.rbtree[j]
  BY <1>3, <1>4 DEF Live
<1>6. t.rbtree[k] = new
  BY <1>3
<1>7. \A j \in Live(t) : Blocks(t.rbtree[j]) \subseteq t.used
  BY <1>2, <1>3, <1>4, <1>5, <1>6 DEF Consistent
<1>8. \A c \in t.used : \E j \in Live(t) : c \in Blocks(t.rbtree[j])
  <2> SUFFICES ASSUME NEW c \in t.used
               PROVE  \E j \in Live(t) : c \in Blocks(t.rbtree[j])
    OBVIOUS
  <2>1. CASE c \in R
    BY <2>1, <1>2, <1>4, <1>6
  <2>2. CASE c \notin R
    <3>1. PICK j \in Live(s) : c \in Blocks(s.rbtree[j])
      BY <2>2, <1>3 DEF Consistent
    <3> QED
      BY <3>1, <1>4, <1>5
  <2> QED
    BY <2>1, <2>2
<1>9. \A j \in Live(t) : t.rbtree[j].node \notin t.rbtree[j].data
  BY <1>2, <1>4, <1>5, <1>6 DEF Consistent
<1>10. \A i, j \in Live(t) :
          i # j => Blocks(t.rbtree[i]) \cap Blocks(t.rbtree[j]) = {}
  <2>1. \A j \in Live(s) : Blocks(s.rbtree[j]) \cap R = {}
    BY DEF Consistent
  <2> QED
    BY <2>1, <1>2, <1>4, <1>5, <1>6 DEF Consistent
<1>11. t.rbtree_expire = IF Timeout > 0 THEN Live(t) ELSE {}
  BY <1>3, <1>4 DEF Consistent
<1> QED
  BY <1>3, <1>7, <1>8, <1>9, <1>10, <1>11 DEF Consistent

\* The node of k, whose new value is in the reserved units, replaces the one
\* it was, whose value has been freed.
LEMMA ReplaceConsistent ==
    ASSUME NEW s, NEW k \in Keys, NEW X, X = {k}, NEW p,
           Consistent(s, X, p), k \in Live(s),
           NEW new \in Node, new.node = s.rbtree[k].node, new.data = p,
           NEW t \in Zone,
           \A j \in Keys : t.rbtree[j] = IF j = k THEN new ELSE s.rbtree[j],
           t.rbtree_expire =
              IF Timeout > 0 THEN s.rbtree_expire \cup {k} ELSE s.rbtree_expire,
           t.used = s.used \ s.rbtree[k].data
    PROVE  Consistent(t, {}, {})
<1> DEFINE q == s.rbtree[k].data
<1>1. Live(t) = Live(s)
  BY NullAssumption DEF Live
<1>2. \A j \in Live(s) : j # k => j \in Keys /\ t.rbtree[j] = s.rbtree[j]
  BY DEF Live
<1>3. t.rbtree[k] = new
  OBVIOUS
<1>4. Blocks(s.rbtree[k]) = {new.node} \cup q /\ Blocks(new) = {new.node} \cup p
  BY DEF Blocks
<1>5. /\ p \subseteq s.used
      /\ q \cap p = {}
      /\ new.node \in s.used \ p
      /\ new.node \notin q
  BY <1>4 DEF Consistent
<1>6. \A j \in Live(t) : Blocks(t.rbtree[j]) \subseteq t.used
  <2> SUFFICES ASSUME NEW j \in Live(t) PROVE Blocks(t.rbtree[j]) \subseteq t.used
    OBVIOUS
  <2>1. CASE j = k
    BY <2>1, <1>3, <1>4, <1>5
  <2>2. CASE j # k
    <3>1. Blocks(s.rbtree[j]) \cap Blocks(s.rbtree[k]) = {}
      BY <2>2, <1>1 DEF Consistent
    <3>2. Blocks(s.rbtree[j]) \subseteq s.used
      BY <1>1 DEF Consistent
    <3> QED
      BY <3>1, <3>2, <2>2, <1>1, <1>2, <1>4
  <2> QED
    BY <2>1, <2>2
<1>7. \A c \in t.used : \E j \in Live(t) : c \in Blocks(t.rbtree[j])
  <2> SUFFICES ASSUME NEW c \in t.used
               PROVE  \E j \in Live(t) : c \in Blocks(t.rbtree[j])
    OBVIOUS
  <2>1. CASE c \in p
    BY <2>1, <1>1, <1>3, <1>4
  <2>2. CASE c \notin p
    <3>1. PICK j \in Live(s) : c \in Blocks(s.rbtree[j])
      BY <2>2 DEF Consistent
    <3>2. CASE j = k
      BY <3>1, <3>2, <1>1, <1>3, <1>4
    <3>3. CASE j # k
      BY <3>1, <3>3, <1>1, <1>2
    <3> QED
      BY <3>2, <3>3
  <2> QED
    BY <2>1, <2>2
<1>8. \A j \in Live(t) : t.rbtree[j].node \notin t.rbtree[j].data
  BY <1>1, <1>2, <1>3, <1>5 DEF Consistent
<1>9. \A i, j \in Live(t) :
          i # j => Blocks(t.rbtree[i]) \cap Blocks(t.rbtree[j]) = {}
  <2>1. \A j \in Live(s) : j # k => Blocks(s.rbtree[j]) \cap ({new.node} \cup p) = {}
    BY <1>4 DEF Consistent
  <2> QED
    BY <2>1, <1>1, <1>2, <1>3, <1>4 DEF Consistent
<1>10. t.rbtree_expire = IF Timeout > 0 THEN Live(t) ELSE {}
  <2>1. (Live(s) \ {k}) \cup {k} = Live(s)
    OBVIOUS
  <2>2. s.rbtree_expire = IF Timeout > 0 THEN Live(s) \ {k} ELSE {}
    BY DEF Consistent
  <2> QED
    BY <2>1, <2>2, <1>1
<1>11. Live(t) \ {} = Live(t) /\ t.used \ {} = t.used
  OBVIOUS
<1> QED
  BY <1>6, <1>7, <1>8, <1>9, <1>10, <1>11, SMTT(60) DEF Consistent

\* The node of k gets a new value or expiry time in place.
LEMMA KeepConsistent ==
    ASSUME NEW s, NEW k \in Keys, NEW X, X \subseteq {k},
           Consistent(s, X, {}), k \in Live(s),
           NEW new \in Node,
           new.node = s.rbtree[k].node, new.data = s.rbtree[k].data,
           NEW t \in Zone,
           \A j \in Keys : t.rbtree[j] = IF j = k THEN new ELSE s.rbtree[j],
           t.rbtree_expire = IF Timeout > 0 THEN Live(s) ELSE {},
           t.used = s.used
    PROVE  Consistent(t, {}, {})
<1>1. Live(t) = Live(s)
  BY NullAssumption DEF Live
<1>2. \A j \in Live(s) :
         /\ Blocks(t.rbtree[j]) = Blocks(s.rbtree[j])
         /\ t.rbtree[j].node = s.rbtree[j].node
         /\ t.rbtree[j].data = s.rbtree[j].data
  BY DEF Live, Blocks
<1> QED
  BY <1>1, <1>2 DEF Consistent

\* ngx_js_dict_add_value() leaves the zone consistent, whether it succeeds
\* or not.
LEMMA AddConsistent ==
    ASSUME NEW s, Consistent(s, {}, {}), NEW k \in Keys, s.rbtree[k] = NULL,
           NEW v \in Values, NEW timeout \in Nat, NEW now \in Nat,
           NEW r \in ngx_js_dict_add_value(s, k, v, timeout, now)
    PROVE  Consistent(r.zone, {}, {}) /\ r.ok \in BOOLEAN
<1> DEFINE due == IF Timeout > 0 THEN ngx_js_dict_expire(s, now) ELSE s
<1>1. Consistent(due, {}, {}) /\ due.rbtree[k] = NULL
  <2> DEFINE S == {j \in s.rbtree_expire : s.rbtree[j].expire <= now}
  <2>1. s \in Zone /\ S \in SUBSET Live(s) /\ S \in SUBSET Keys
    BY DEF Consistent, Live
  <2>2. CASE Timeout > 0
    <3>1. due = ngx_js_dict_node_free(s, S)
      BY <2>2 DEF ngx_js_dict_expire
    <3> HIDE DEF due, S
    <3>2. Consistent(due, {}, {})
      BY <3>1, <2>1, FreeConsistent
    <3>3. due.rbtree[k] = NULL
      BY <3>1, <2>1, FreeFields
    <3> QED
      BY <3>2, <3>3
  <2>3. CASE ~(Timeout > 0)
    BY <2>3
  <2> QED
    BY <2>2, <2>3
<1>2. PICK a \in ngx_js_dict_alloc(due, 1) :
         r \in IF a.p = {} THEN {Outcome(a.zone, FALSE)}
               ELSE AddNode(a, k, v, timeout, now)
  BY DEF ngx_js_dict_add_value
<1> HIDE DEF due
<1>3. /\ Consistent(a.zone, {}, {})
      /\ a.p \subseteq Chunk \ a.zone.used
      /\ a.zone.rbtree[k] = NULL
  BY <1>1, AllocConsistent
<1>4. CASE a.p = {}
  <2>1. r = [zone |-> a.zone, ok |-> FALSE]
    BY <1>2, <1>4 DEF Outcome
  <2> QED
    BY <2>1, <1>3
<1>5. CASE a.p # {}
  <2>1. PICK c \in a.p :
           r \in IF DictType = "string"
                 THEN AddString(Reserve(a.zone, {c}), k, c, v, timeout, now)
                 ELSE AddNumber(Reserve(a.zone, {c}), k, c, v, timeout, now)
    BY <1>2, <1>5 DEF AddNode
  <2> DEFINE h == Reserve(a.zone, {c})
  <2>2. Consistent(h, {}, {c}) /\ h.rbtree[k] = NULL /\ c \in Chunk
    <3>1. {c} \subseteq Chunk \ a.zone.used /\ {} \cup {c} = {c}
      BY <1>3
    <3> QED
      BY <3>1, <1>3, ReserveConsistent
  <2> HIDE DEF h
  <2>3. CASE DictType = "string"
    <3>1. PICK b \in ngx_js_dict_alloc(h, SizeOf[v]) :
             r = IF b.p = {}
                 THEN Outcome(Release(b.zone, {c}), FALSE)
                 ELSE Outcome(Insert(Reserve(b.zone, b.p), k,
                                 [node |-> c, data |-> b.p, value |-> v,
                                  expire |-> 0], now, timeout), TRUE)
      BY <2>1, <2>3 DEF AddString, h
    <3>2. /\ Consistent(b.zone, {}, {c})
          /\ b.p \subseteq Chunk \ b.zone.used
          /\ b.zone.rbtree[k] = NULL
      BY <2>2, AllocConsistent
    <3>3. CASE b.p = {}
      <4>1. r = [zone |-> Release(b.zone, {c}), ok |-> FALSE]
        BY <3>1, <3>3 DEF Outcome
      <4>2. Consistent(Release(b.zone, {c}), {}, {c} \ {c})
        BY <3>2, ReleaseConsistent
      <4> QED
        BY <4>1, <4>2
    <3>4. CASE b.p # {}
      <4> DEFINE nd == [node |-> c, data |-> b.p, value |-> v, expire |-> 0]
                 g == Reserve(b.zone, b.p)
      <4>1. r = [zone |-> Insert(g, k, nd, now, timeout), ok |-> TRUE]
        BY <3>1, <3>4 DEF Outcome
      <4>2. Consistent(g, {}, {c} \cup b.p) /\ g.rbtree[k] = NULL
        <5>1. Consistent(g, {}, {c} \cup b.p) /\ g.rbtree = b.zone.rbtree
          BY <3>2, ReserveConsistent
        <5> QED
          BY <5>1, <3>2
      <4>3. /\ nd \in Node
            /\ Blocks(nd) = {c} \cup b.p
            /\ nd.node \notin nd.data
        <5>1. c \in b.zone.used
          BY <3>2 DEF Consistent
        <5> QED
          BY <5>1, <3>2, <2>2 DEF Node, Blocks
      <4> HIDE DEF nd, g
      <4>4. Consistent(Insert(g, k, nd, now, timeout), {}, {})
        BY <4>2, <4>3, InsertConsistent
      <4> QED
        BY <4>1, <4>4
    <3> QED
      BY <3>3, <3>4
  <2>4. CASE DictType # "string"
    <3> DEFINE nd == [node |-> c, data |-> {}, value |-> v, expire |-> 0]
    <3>1. r = [zone |-> Insert(h, k, nd, now, timeout), ok |-> TRUE]
      BY <2>1, <2>4 DEF AddNumber, Outcome, h
    <3>2. nd \in Node /\ Blocks(nd) = {c} /\ nd.node \notin nd.data
      BY <2>2 DEF Node, Blocks
    <3> HIDE DEF nd
    <3>3. Consistent(Insert(h, k, nd, now, timeout), {}, {})
      BY <2>2, <3>2, InsertConsistent
    <3> QED
      BY <3>1, <3>3
  <2> QED
    BY <2>3, <2>4
<1> QED
  BY <1>4, <1>5

\* ngx_js_dict_update() leaves the zone consistent, whether it succeeds or
\* not: the node it updates cannot be evicted under it.
LEMMA UpdateConsistent ==
    ASSUME NEW s, Consistent(s, {}, {}), NEW k \in Live(s),
           NEW v \in Values, NEW timeout \in Nat, NEW now \in Nat,
           NEW r \in ngx_js_dict_update(s, k, v, timeout, now)
    PROVE  Consistent(r.zone, {}, {}) /\ r.ok \in BOOLEAN
<1> DEFINE u == Unlink(s, k)
<1>1. k \in Keys /\ s \in Zone /\ s.rbtree[k] \in Node
  BY DEF Consistent, Live, Zone
<1>2. /\ u \in Zone
      /\ u.rbtree = s.rbtree
      /\ u.used = s.used
      /\ u.rbtree_expire = s.rbtree_expire \ {k}
      /\ Live(u) = Live(s)
  BY <1>1 DEF Unlink, Zone, Live
<1>3. Consistent(u, {k}, {})
  BY <1>1, <1>2 DEF Consistent
<1>4. CASE DictType = "string"
  <2>1. PICK b \in ngx_js_dict_alloc(u, SizeOf[v]) :
           r = IF b.p = {}
               THEN Outcome(Relink(b.zone, k), FALSE)
               ELSE Outcome(Insert(Release(Reserve(b.zone, b.p), b.zone.rbtree[k].data),
                                   k,
                                   [b.zone.rbtree[k] EXCEPT !.data = b.p, !.value = v],
                                   now, timeout), TRUE)
    BY <1>4 DEF ngx_js_dict_update
  <2>2. /\ Consistent(b.zone, {k}, {})
        /\ b.p \subseteq Chunk \ b.zone.used
        /\ b.zone.rbtree[k] = s.rbtree[k]
    <3> HIDE DEF u
    <3> QED
      BY <1>2, <1>3, AllocConsistent
  <2>3. CASE b.p = {}
    <3> DEFINE t == Relink(b.zone, k)
    <3>1. r.zone = t /\ r.ok = FALSE
      BY <2>1, <2>3 DEF Outcome
    <3>2. b.zone \in Zone /\ k \in Live(b.zone)
      BY <2>2 DEF Consistent
    <3>3. /\ t \in Zone
          /\ t.rbtree = b.zone.rbtree
          /\ t.used = b.zone.used
          /\ t.rbtree_expire =
               IF Timeout > 0 THEN b.zone.rbtree_expire \cup {k} ELSE b.zone.rbtree_expire
          /\ Live(t) = Live(b.zone)
      BY <3>2, <1>1 DEF Relink, Zone, Live
    <3>4. t.rbtree_expire = IF Timeout > 0 THEN Live(t) ELSE {}
      <4> HIDE DEF t
      <4>1. (Live(b.zone) \ {k}) \cup {k} = Live(b.zone)
        BY <3>2
      <4>2. b.zone.rbtree_expire = IF Timeout > 0 THEN Live(b.zone) \ {k} ELSE {}
        BY <2>2 DEF Consistent
      <4> QED
        BY <4>1, <4>2, <3>3
    <3> HIDE DEF t
    <3>5. Consistent(t, {}, {})
      BY SMTT(20), <3>3, <3>4, <2>2 DEF Consistent
    <3> QED
      BY <3>1, <3>5
  <2>4. CASE b.p # {}
    <3> DEFINE old == b.zone.rbtree[k]
               g == Reserve(b.zone, b.p)
               nd == [old EXCEPT !.data = b.p, !.value = v]
               t == Insert(Release(g, old.data), k, nd, now, timeout)
               new == [nd EXCEPT !.expire = IF Timeout > 0 THEN now + timeout ELSE @]
    <3>1. r.zone = t /\ r.ok = TRUE
      BY <2>1, <2>4 DEF Outcome
    <3>2. old \in Node /\ b.zone \in Zone /\ k \in Live(b.zone)
      BY <2>2, <1>1 DEF Consistent
    <3>3. Consistent(g, {k}, b.p) /\ g.rbtree = b.zone.rbtree
      <4>1. {} \cup b.p = b.p
        OBVIOUS
      <4> QED
        BY <2>2, <4>1, ReserveConsistent
    <3>4. g \in Zone /\ k \in Live(g) /\ g.rbtree[k] = old
      BY <3>3 DEF Consistent
    <3>5. nd \in Node /\ nd.node = old.node /\ nd.data = b.p
      BY <3>2, <2>2 DEF Node
    <3>6. new \in Node /\ new.node = old.node /\ new.data = b.p
      <4> HIDE DEF nd
      <4> QED
        BY <3>5, TimeAssumption DEF Node
    <3>7. /\ t \in Zone
          /\ \A j \in Keys : t.rbtree[j] = IF j = k THEN new ELSE g.rbtree[j]
          /\ t.rbtree_expire =
               IF Timeout > 0 THEN g.rbtree_expire \cup {k} ELSE g.rbtree_expire
          /\ t.used = g.used \ old.data
      <4> HIDE DEF g, nd, old
      <4> USE DEF new
      <4>1. new \in Node
        BY <3>6
      <4> QED
        BY <4>1, <3>4, <1>1 DEF Insert, Release, Zone
    <3> HIDE DEF t, g, nd, old, new
    <3>8. Consistent(t, {}, {})
      <4>1. /\ new.node = g.rbtree[k].node
            /\ t.used = g.used \ g.rbtree[k].data
        BY <3>4, <3>6, <3>7
      <4> QED
        BY SMTT(20), <3>3, <3>4, <3>6, <3>7, <1>1, <4>1, ReplaceConsistent
    <3> QED
      BY <3>1, <3>8
  <2> QED
    BY <2>3, <2>4
<1>5. CASE DictType # "string"
  <2> DEFINE nd == [s.rbtree[k] EXCEPT !.value = v]
             new == [nd EXCEPT !.expire = IF Timeout > 0 THEN now + timeout ELSE @]
             t == Insert(u, k, nd, now, timeout)
  <2>1. r.zone = t /\ r.ok = TRUE
    BY <1>5 DEF ngx_js_dict_update, Outcome
  <2>2. nd \in Node /\ nd.node = s.rbtree[k].node /\ nd.data = s.rbtree[k].data
    BY <1>1 DEF Node
  <2>3. new \in Node /\ new.node = s.rbtree[k].node /\ new.data = s.rbtree[k].data
    <3> HIDE DEF nd
    <3> QED
      BY <2>2, TimeAssumption DEF Node
  <2>4. /\ t \in Zone
        /\ \A j \in Keys : t.rbtree[j] = IF j = k THEN new ELSE u.rbtree[j]
        /\ t.rbtree_expire =
             IF Timeout > 0 THEN u.rbtree_expire \cup {k} ELSE u.rbtree_expire
        /\ t.used = u.used
    <3> HIDE DEF nd, u
    <3>1. new \in Node
      BY <2>3
    <3> QED
      BY <3>1, <1>1, <1>2 DEF Insert, Zone
  <2>5. u.rbtree_expire = IF Timeout > 0 THEN Live(u) \ {k} ELSE {}
    BY <1>3 DEF Consistent
  <2>6. (Live(u) \ {k}) \cup {k} = Live(u)
    BY <1>2
  <2> HIDE DEF t, nd, new, u
  <2>7. t.rbtree_expire = IF Timeout > 0 THEN Live(u) ELSE {}
    BY <2>4, <2>5, <2>6
  <2>8. Consistent(t, {}, {})
    <3>1. /\ new.node = u.rbtree[k].node /\ new.data = u.rbtree[k].data
          /\ k \in Live(u) /\ {k} \subseteq {k}
      BY <2>3, <1>2
    <3> QED
      BY <1>1, <1>3, <2>3, <2>4, <2>7, <3>1, KeepConsistent
  <2> QED
    BY <2>1, <2>8
<1> QED
  BY <1>4, <1>5

-----------------------------------------------------------------------------
(* The invariant of the specification. *)

Inv ==
    /\ Consistent(sh, {}, {})
    /\ clock \in Nat
    /\ cached \in [Workers -> Nat]
    /\ \A w \in Workers : cached[w] <= clock

\* Consistent(s, {}, {}) is the conjunction of the two properties of a zone.
LEMMA ConsistentMeaning ==
    ASSUME NEW s, Consistent(s, {}, {})
    PROVE  s \in Zone /\ TreesAgreeIn(s) /\ NoLeakIn(s)
<1>1. s \in Zone /\ TreesAgreeIn(s)
  BY DEF Consistent, TreesAgreeIn
<1>2. s.used = UNION {Blocks(s.rbtree[k]) : k \in Live(s)}
  BY DEF Consistent
<1> QED
  BY <1>1, <1>2 DEF Consistent, NoLeakIn

-----------------------------------------------------------------------------
(* The calls of both engines, set(), add(), replace(), incr(), delete(),     *)
(* pop() and clear(), come down to five kinds of step.                       *)

\* What a call that has not run out of memory returns.
Returned(ret) == ret # MemoryError /\ ret # ConversionError

AddStep(w, op, k, v, timeout, ret) ==
    /\ sh.rbtree[k] = NULL
    /\ \E r \in ngx_js_dict_add_value(sh, k, v, timeout, cached[w]) :
          Commit(w, op, k, r, ret)

UpdateStep(w, op, k, v, timeout, ret) ==
    /\ k \in Live(sh)
    /\ \E r \in ngx_js_dict_update(sh, k, v, timeout, cached[w]) :
          Commit(w, op, k, r, ret)

RemoveStep(w, op, k, S, ret) ==
    /\ S \in SUBSET Live(sh)
    /\ Commit(w, op, k, Outcome(ngx_js_dict_node_free(sh, S), TRUE), ret)

IncrStep(w, k, delta, timeout) ==
    /\ k \in Live(sh)
    /\ TimeoutArg(timeout)
    /\ Increment(w, k, delta, timeout)

IdleStep(w, op, k, ret) == ret # MemoryError /\ Declined(w, op, k, ret)

CallStep(w) ==
    \/ \E op, ret : \E k \in Keys : IdleStep(w, op, k, ret)
    \/ \E op, ret : \E k \in Keys, v \in Values, timeout \in Nat :
          /\ Returned(ret)
          /\ AddStep(w, op, k, v, timeout, ret) \/ UpdateStep(w, op, k, v, timeout, ret)
    \/ \E op, ret : \E k \in Keys : Returned(ret) /\ RemoveStep(w, op, k, {k}, ret)
    \/ RemoveStep(w, "clear", NULL, Live(sh), Undefined)
    \/ \E k \in Keys, delta \in Deltas, timeout \in Nat : IncrStep(w, k, delta, timeout)

\* The values of a call are none of its errors.
LEMMA ValuesReturned ==
    /\ \A v : Returned(Val(v))
    /\ \A b : Returned(Bool(b))
    /\ Returned(Undefined)
    /\ Returned(HeapError)
    /\ ConversionError # MemoryError
BY DEF Returned, Val, Bool, Undefined, HeapError, MemoryError, ConversionError

\* set(), add() and replace().
LEMMA SetCases ==
    ASSUME Inv, NEW w \in Workers, NEW op, NEW k \in Keys, NEW v \in Values,
           NEW timeout \in Nat,
           ngx_js_dict_set(w, op, k, v, timeout) \/ ngx_qjs_dict_set(w, op, k, v, timeout)
    PROVE  CallStep(w)
<1>1. \/ \E ret : IdleStep(w, op, k, ret)
      \/ AddStep(w, op, k, v, timeout, Bool(TRUE))
      \/ UpdateStep(w, op, k, v, timeout, Bool(TRUE))
  <2>1. CASE ngx_js_dict_set(w, op, k, v, timeout)
    <3>1. Bool(FALSE) # MemoryError
      BY ValuesReturned DEF Returned
    <3> QED
      BY <2>1, <3>1 DEF ngx_js_dict_set, IdleStep, AddStep, UpdateStep, Live
  <2>2. CASE ngx_qjs_dict_set(w, op, k, v, timeout)
    <3>1. Bool(FALSE) # MemoryError /\ ConversionError # MemoryError
      BY ValuesReturned DEF Returned
    <3> QED
      BY <2>2, <3>1
        DEF ngx_qjs_dict_set, ngx_qjs_dict_add, ngx_qjs_dict_update, Unconverted,
            IdleStep, AddStep, UpdateStep, Live
  <2> QED
    BY <2>1, <2>2
<1>2. Returned(Bool(TRUE))
  BY ValuesReturned
<1> QED
  BY <1>1, <1>2 DEF CallStep

\* incr().
LEMMA IncrCases ==
    ASSUME Inv, NEW w \in Workers, NEW k \in Keys, NEW delta \in Deltas, NEW init,
           NEW t \in TimeoutArgs, TimeoutArg(t),
           \/ ngx_js_dict_incr(w, k, delta, init, t)
           \/ ngx_qjs_dict_incr(w, k, delta, init, t)
    PROVE  CallStep(w)
<1>1. OrDefault(t) \in Nat /\ t \in Nat
  BY TimeAssumption DEF OrDefault
<1>2. CASE sh.rbtree[k] = NULL
  <2>1. /\ init + delta \in Values
        /\ AddStep(w, "incr", k, init + delta, OrDefault(t), Val(init + delta))
    BY <1>2 DEF ngx_js_dict_incr, ngx_qjs_dict_incr, ngx_qjs_dict_add, AddStep
  <2>2. Returned(Val(init + delta))
    BY ValuesReturned
  <2> QED
    BY <1>1, <2>1, <2>2 DEF CallStep
<1>3. CASE sh.rbtree[k] # NULL
  <2>1. IncrStep(w, k, delta, t)
    BY <1>3 DEF ngx_js_dict_incr, ngx_qjs_dict_incr, IncrStep, Live
  <2> QED
    BY <1>1, <2>1 DEF CallStep
<1> QED
  BY <1>2, <1>3

\* delete() and pop().
LEMMA DeleteCases ==
    ASSUME Inv, NEW w \in Workers, NEW op, NEW k \in Keys,
           ngx_js_dict_delete(w, op, k) \/ ngx_qjs_dict_delete(w, op, k)
    PROVE  CallStep(w)
<1>1. CASE sh.rbtree[k] = NULL
  <2>1. Undefined # MemoryError /\ Bool(FALSE) # MemoryError
    BY ValuesReturned DEF Returned
  <2>2. \E ret : IdleStep(w, op, k, ret)
    BY <1>1, <2>1 DEF ngx_js_dict_delete, ngx_qjs_dict_delete, IdleStep
  <2> QED
    BY <2>2 DEF CallStep
<1>2. CASE sh.rbtree[k] # NULL
  <2>1. Remove(w, op, k)
    BY <1>2 DEF ngx_js_dict_delete, ngx_qjs_dict_delete
  <2>2. PICK ret \in IF op = "pop" THEN Popped(sh.rbtree[k], cached[w]) ELSE {Bool(TRUE)} :
           Commit(w, op, k, Outcome(ngx_js_dict_node_free(sh, {k}), TRUE), ret)
    BY <2>1 DEF Remove
  <2>3. Returned(ret)
    BY ValuesReturned DEF Popped
  <2>4. {k} \in SUBSET Live(sh)
    BY <1>2 DEF Live
  <2> QED
    BY <2>2, <2>3, <2>4 DEF CallStep, RemoveStep
<1> QED
  BY <1>1, <1>2

\* Every call of either engine is a step of one of the five kinds.
LEMMA CallCases ==
    ASSUME Inv, NEW w \in Workers, NjsCall(w) \/ QjsCall(w)
    PROVE  CallStep(w)
<1>1. ASSUME NEW k \in Keys,
             njs_js_ext_shared_dict_set(w, k) \/ ngx_qjs_ext_shared_dict_set(w, k)
      PROVE  CallStep(w)
  <2>1. \A t \in TimeoutArgs : OrDefault(t) \in Nat
    BY TimeAssumption DEF OrDefault
  <2> QED
    BY <1>1, <2>1, SetCases
      DEF njs_js_ext_shared_dict_set, ngx_qjs_ext_shared_dict_set
<1>2. ASSUME NEW k \in Keys,
             njs_js_ext_shared_dict_incr(w, k) \/ ngx_qjs_ext_shared_dict_incr(w, k)
      PROVE  CallStep(w)
  BY <1>2, IncrCases DEF njs_js_ext_shared_dict_incr, ngx_qjs_ext_shared_dict_incr
<1>3. ASSUME NEW k \in Keys,
             \/ njs_js_ext_shared_dict_delete(w, k) \/ ngx_qjs_ext_shared_dict_delete(w, k)
             \/ njs_js_ext_shared_dict_pop(w, k) \/ ngx_qjs_ext_shared_dict_pop(w, k)
      PROVE  CallStep(w)
  BY <1>3, DeleteCases
    DEF njs_js_ext_shared_dict_delete, ngx_qjs_ext_shared_dict_delete,
        njs_js_ext_shared_dict_pop, ngx_qjs_ext_shared_dict_pop
<1>4. ASSUME njs_js_ext_shared_dict_clear(w) \/ ngx_qjs_ext_shared_dict_clear(w)
      PROVE  CallStep(w)
  <2>1. (IF Timeout > 0 THEN sh.rbtree_expire ELSE Live(sh)) = Live(sh)
    BY DEF Inv, Consistent
  <2> QED
    BY <1>4, <2>1
      DEF njs_js_ext_shared_dict_clear, ngx_qjs_ext_shared_dict_clear, CallStep,
          RemoveStep
<1> QED
  BY <1>1, <1>2, <1>3, <1>4 DEF NjsCall, QjsCall

-----------------------------------------------------------------------------
(* The invariant is inductive. *)

\* Every call ends in Commit or leaves the zone alone.
LEMMA CommitInv ==
    ASSUME Inv, NEW w, NEW op, NEW k, NEW r, NEW ret,
           Consistent(r.zone, {}, {}), r.ok \in BOOLEAN,
           Commit(w, op, k, r, ret)
    PROVE  /\ Inv'
           /\ sh'.rbtree = r.zone.rbtree
           /\ sh'.rbtree_expire = r.zone.rbtree_expire
           /\ res'.key = k
           /\ res'.ret = IF r.ok THEN ret ELSE MemoryError
<1>1. /\ sh' \in Zone
      /\ sh'.rbtree = r.zone.rbtree
      /\ sh'.rbtree_expire = r.zone.rbtree_expire
      /\ sh'.used = r.zone.used
  BY DEF Commit, Consistent, Zone
<1>2. Live(sh') = Live(r.zone)
  BY <1>1 DEF Live
<1>3. Consistent(sh', {}, {})
  BY <1>1, <1>2 DEF Consistent
<1> QED
  BY <1>1, <1>3 DEF Inv, Commit, Return

\* A call that is declined or fails before it touches the zone.
LEMMA DeclinedInv ==
    ASSUME Inv, NEW w, NEW op, NEW k, NEW ret, Declined(w, op, k, ret)
    PROVE  Inv'
BY DEF Inv, Declined

\* The removal of nodes by delete(), pop() and clear().
LEMMA RemoveInv ==
    ASSUME Inv, NEW w, NEW op, NEW k, NEW S, NEW ret, RemoveStep(w, op, k, S, ret)
    PROVE  /\ Inv'
           /\ res'.ret = ret
           /\ \A j \in Keys : sh'.rbtree[j] = IF j \in S THEN NULL ELSE sh.rbtree[j]
<1> DEFINE z == ngx_js_dict_node_free(sh, S)
           r == Outcome(z, TRUE)
<1>1. r.zone = z /\ r.ok = TRUE
  BY DEF Outcome
<1>2. Consistent(sh, {}, {}) /\ sh \in Zone /\ S \in SUBSET Live(sh) /\ S \in SUBSET Keys
  BY DEF Inv, Consistent, RemoveStep, Live
<1>3. Consistent(z, {}, {})
  <2>1. S \cap {} = {}
    OBVIOUS
  <2> QED
    BY <1>2, <2>1, FreeConsistent
<1>4. \A j \in Keys : z.rbtree[j] = IF j \in S THEN NULL ELSE sh.rbtree[j]
  BY <1>2, FreeFields
<1>5. Commit(w, op, k, r, ret)
  BY DEF RemoveStep
<1> HIDE DEF r, z
<1>6. Inv' /\ sh'.rbtree = z.rbtree /\ res'.ret = ret
  BY <1>1, <1>3, <1>5, CommitInv
<1> QED
  BY <1>4, <1>6

\* A step that adds a node or updates one.
LEMMA StoreInv ==
    ASSUME Inv, NEW w \in Workers, NEW op, NEW k \in Keys, NEW v \in Values,
           NEW timeout \in Nat, NEW ret,
           AddStep(w, op, k, v, timeout, ret) \/ UpdateStep(w, op, k, v, timeout, ret)
    PROVE  Inv'
<1>1. cached[w] \in Nat /\ Consistent(sh, {}, {})
  BY DEF Inv
<1>2. PICK r : /\ \/ /\ sh.rbtree[k] = NULL
                     /\ r \in ngx_js_dict_add_value(sh, k, v, timeout, cached[w])
                  \/ /\ k \in Live(sh)
                     /\ r \in ngx_js_dict_update(sh, k, v, timeout, cached[w])
               /\ Commit(w, op, k, r, ret)
  BY DEF AddStep, UpdateStep
<1>3. Consistent(r.zone, {}, {}) /\ r.ok \in BOOLEAN
  BY <1>1, <1>2, AddConsistent, UpdateConsistent
<1> QED
  BY <1>2, <1>3, CommitInv

\* incr() of a node that exists: a new value in place, or a new value and a
\* new place in the expire tree.
LEMMA IncrInv ==
    ASSUME Inv, NEW w \in Workers, NEW k \in Keys, NEW delta,
           NEW t \in Nat, IncrStep(w, k, delta, t)
    PROVE  /\ Inv'
           /\ Returned(res'.ret)
           /\ \A j \in Keys : j # k => sh'.rbtree[j] = sh.rbtree[j]
           /\ sh'.rbtree[k] \in Node
           /\ t = 0 => sh'.rbtree[k].expire = sh.rbtree[k].expire
<1>1. cached[w] \in Nat
  BY DEF Inv
<1>2. Consistent(sh, {}, {}) /\ sh \in Zone
  BY DEF Inv, Consistent
<1> DEFINE z == Incremented(k, delta, t, cached[w])
           r == Outcome(z, TRUE)
           nd == [sh.rbtree[k] EXCEPT !.value = @ + delta]
           new == IF t # 0
                  THEN [nd EXCEPT !.expire = IF Timeout > 0 THEN cached[w] + t ELSE @]
                  ELSE nd
<1>3. /\ Commit(w, "incr", k, r, Val(sh.rbtree[k].value + delta))
      /\ sh.rbtree[k].value + delta \in Values
      /\ t # 0 => Timeout > 0
  BY DEF IncrStep, Increment, TimeoutArg
<1>4. k \in Live(sh) /\ sh.rbtree[k] \in Node
  BY <1>2 DEF IncrStep, Live, Zone
<1>5. /\ nd \in Node
      /\ nd.node = sh.rbtree[k].node
      /\ nd.data = sh.rbtree[k].data
      /\ nd.expire = sh.rbtree[k].expire
  BY <1>3, <1>4 DEF Node
<1>6. /\ new \in Node
      /\ new.node = sh.rbtree[k].node
      /\ new.data = sh.rbtree[k].data
      /\ t = 0 => new.expire = sh.rbtree[k].expire
  <2> HIDE DEF nd
  <2> QED
    BY <1>5, <1>1 DEF Node
<1>7. /\ z \in Zone
      /\ \A j \in Keys : z.rbtree[j] = IF j = k THEN new ELSE sh.rbtree[j]
      /\ z.used = sh.used
      /\ z.rbtree_expire = IF t # 0 THEN sh.rbtree_expire \cup {k} ELSE sh.rbtree_expire
  <2>1. CASE t # 0
    <3>1. z = Insert(sh, k, nd, cached[w], t)
      BY <2>1 DEF Incremented
    <3>2. new = [nd EXCEPT !.expire = IF Timeout > 0 THEN cached[w] + t ELSE @]
      BY <2>1
    <3> HIDE DEF z, nd, new
    <3> QED
      BY <3>1, <3>2, <2>1, <1>2, <1>3, <1>6 DEF Insert, Zone
  <2>2. CASE t = 0
    <3>1. z = [sh EXCEPT !.rbtree[k] = nd] /\ new = nd
      BY <2>2 DEF Incremented
    <3> HIDE DEF z, nd, new
    <3> QED
      BY <3>1, <2>2, <1>2, <1>6 DEF Zone
  <2> QED
    BY <2>1, <2>2
<1>8. sh.rbtree_expire = IF Timeout > 0 THEN Live(sh) ELSE {}
  BY <1>2 DEF Consistent
<1> HIDE DEF z, nd, new
<1>9. z.rbtree_expire = IF Timeout > 0 THEN Live(sh) ELSE {}
  BY <1>3, <1>4, <1>7, <1>8
<1>10. Consistent(z, {}, {})
  <2>1. {} \subseteq {k}
    OBVIOUS
  <2> QED
    BY <2>1, <1>2, <1>4, <1>6, <1>7, <1>9, KeepConsistent
<1>11. r.zone = z /\ r.ok = TRUE
  BY DEF Outcome
<1> HIDE DEF r
<1>12. /\ Inv'
       /\ sh'.rbtree = z.rbtree
       /\ res'.ret = Val(sh.rbtree[k].value + delta)
  BY <1>3, <1>10, <1>11, CommitInv
<1>13. Returned(res'.ret)
  BY <1>12, ValuesReturned
<1> QED
  BY <1>6, <1>7, <1>12, <1>13

\* Init establishes the invariant and every step of the specification
\* preserves it.
LEMMA InvInductive ==
    /\ Init => Inv
    /\ Inv /\ [Next]_vars => Inv'
<1>1. ASSUME Init PROVE Inv
  <2>1. sh \in Zone /\ Live(sh) = {} /\ sh.used = {} /\ sh.rbtree_expire = {}
    BY <1>1 DEF Init, Zone, Live
  <2>2. Consistent(sh, {}, {})
    BY <2>1 DEF Consistent
  <2> QED
    BY <2>2, <1>1 DEF Init, Inv
<1>2. ASSUME Inv, [Next]_vars PROVE Inv'
  <2>1. ASSUME NEW w \in Workers, NjsCall(w) \/ QjsCall(w) PROVE Inv'
    <3>1. CallStep(w)
      BY <1>2, <2>1, CallCases
    <3> QED
      BY <1>2, <3>1, DeclinedInv, StoreInv, RemoveInv, IncrInv DEF CallStep, IdleStep
  <2>2. ASSUME NEW w \in Workers, TimeUpdate(w) PROVE Inv'
    BY <1>2, <2>2 DEF TimeUpdate, Inv
  <2>3. ASSUME Tick PROVE Inv'
    BY <1>2, <2>3 DEF Tick, Inv
  <2>4. CASE UNCHANGED vars
    BY <1>2, <2>4 DEF vars, Inv
  <2> QED
    BY <1>2, <2>1, <2>2, <2>3, <2>4 DEF Next
<1> QED
  BY <1>1, <1>2

\* The inductive invariant holds in every reachable state of a zone.
THEOREM InvHolds == Spec => []Inv
BY InvInductive, PTL DEF Spec

\* The state of the dictionary has its type, and no worker's cached time is
\* ahead of the clock.
THEOREM TypeCorrect == Spec => []TypeOK
<1>1. Inv => TypeOK
  BY ConsistentMeaning DEF Inv, TypeOK
<1> QED
  BY <1>1, InvHolds, PTL

\* The tree of keys and the expire tree always hold the same nodes.
THEOREM TreesAlwaysAgree == Spec => []TreesAgree
<1>1. Inv => TreesAgree
  BY ConsistentMeaning DEF Inv, TreesAgree
<1> QED
  BY <1>1, InvHolds, PTL

\* Every slab unit in use is owned by exactly one node: nothing leaks and
\* nothing is freed twice.
THEOREM NothingLeaks == Spec => []NoLeak
<1>1. Inv => NoLeak
  BY ConsistentMeaning DEF Inv, NoLeak
<1> QED
  BY <1>1, InvHolds, PTL

-----------------------------------------------------------------------------
(* Readers. *)

\* The two ways in which the code asks whether a node has expired agree.
LEMMA FreshMeaning ==
    ASSUME Inv, NEW w \in Workers, NEW k \in Live(sh)
    PROVE  Fresh(sh.rbtree[k], cached[w])
              <=> ~(Timeout > 0 /\ cached[w] >= sh.rbtree[k].expire)
<1>1. sh.rbtree[k].expire \in Nat /\ cached[w] \in Nat
  BY DEF Inv, Consistent, Zone, Node, Live
<1> QED
  BY <1>1, TimeAssumption DEF Fresh

\* A walk that may go as far as there are nodes meets all of them.
LEMMA WalkedAll ==
    ASSUME NEW L \in SUBSET Keys, NEW S \in Walked(L, Cardinality(L))
    PROVE  S = L
<1>1. IsFiniteSet(L) /\ Cardinality(L) \in Nat
  BY KeysAssumption, FS_Subset, FS_CardinalityType
<1>2. S \in SUBSET L
  BY DEF Walked
<1>3. \/ Cardinality(S) = Cardinality(L)
      \/ S = L
  BY <1>1 DEF Walked
<1> QED
  BY <1>1, <1>2, <1>3, FS_Subset

\* The readers of one worker agree with each other and between the engines.
THEOREM ReadersAlwaysAgree == Spec => []ReadersAgree
<1>1. ASSUME Inv, NEW w \in Workers
      PROVE  /\ \A k \in Keys :
                  /\ has(w, k) <=> ngx_js_dict_get(w, k) # Undefined
                  /\ Timeout > 0 => (has(w, k) <=> ttl(w, k) # Undefined)
                  /\ ngx_qjs_dict_get(w, k) = ngx_js_dict_get(w, k)
                  /\ ngx_qjs_ext_shared_dict_has(w, k) <=> has(w, k)
                  /\ ngx_qjs_ext_shared_dict_ttl(w, k) = ttl(w, k)
             /\ keys(w, -1) = {{k \in Keys : has(w, k)}}
             /\ \A n \in 0..Cardinality(Keys), L \in items(w, size(w)) :
                  \A S \in keys(w, n) : \A k \in S : <<k, ngx_js_dict_get(w, k)>> \in L
             /\ \A n \in -1..Cardinality(Keys) :
                  /\ ngx_qjs_ext_shared_dict_keys(w, n) = keys(w, n)
                  /\ ngx_qjs_ext_shared_dict_items(w, n) = items(w, n)
             /\ ngx_qjs_ext_shared_dict_size(w) = size(w)
  <2>1. cached[w] \in Nat /\ \A k \in Live(sh) : k \in Keys /\ sh.rbtree[k].expire \in Nat
    BY <1>1 DEF Inv, Consistent, Zone, Node, Live
  <2>2. \A v : Val(v) # Undefined
    BY DEF Val, Undefined
  <2>3. Listed(w) \in SUBSET Keys /\ QjsListed(w) = Listed(w)
    BY <1>1, FreshMeaning DEF Listed, QjsListed, Live
  <2>4. \A k \in Listed(w) : ngx_js_dict_get(w, k) = Val(sh.rbtree[k].value)
    BY DEF Listed, Live, ngx_js_dict_get
  <2>5. ASSUME NEW k \in Keys
        PROVE  /\ has(w, k) <=> ngx_js_dict_get(w, k) # Undefined
               /\ Timeout > 0 => (has(w, k) <=> ttl(w, k) # Undefined)
               /\ ngx_qjs_dict_get(w, k) = ngx_js_dict_get(w, k)
               /\ ngx_qjs_ext_shared_dict_has(w, k) <=> has(w, k)
               /\ ngx_qjs_ext_shared_dict_ttl(w, k) = ttl(w, k)
    <3>1. CASE sh.rbtree[k] = NULL
      BY <3>1, TimeAssumption
        DEF has, ngx_js_dict_get, ttl, ngx_qjs_dict_get, ngx_qjs_ext_shared_dict_has,
            ngx_qjs_ext_shared_dict_ttl
    <3>2. CASE sh.rbtree[k] # NULL
      <4>1. sh.rbtree[k].expire \in Nat
        BY <3>2, <2>1 DEF Live
      <4> QED
        BY <3>2, <4>1, <2>1, <2>2, TimeAssumption
          DEF has, ngx_js_dict_get, ttl, ngx_qjs_dict_get, ngx_qjs_ext_shared_dict_has,
              ngx_qjs_ext_shared_dict_ttl
    <3> QED
      BY <3>1, <3>2
  <2>6. keys(w, -1) = {{k \in Keys : has(w, k)}}
    <3>1. Listed(w) = {k \in Keys : has(w, k)}
      BY DEF Listed, has, Live
    <3>2. keys(w, -1) = {Listed(w)}
      BY DEF keys, Walked
    <3> QED
      BY <3>1, <3>2
  <2>7. ASSUME NEW n \in 0..Cardinality(Keys), NEW L \in items(w, size(w)),
               NEW S \in keys(w, n), NEW k \in S
        PROVE  <<k, ngx_js_dict_get(w, k)>> \in L
    <3>1. PICK T \in keys(w, size(w)) : L = {<<j, Val(sh.rbtree[j].value)>> : j \in T}
      BY DEF items
    <3>2. T = Listed(w)
      BY <2>3, WalkedAll DEF keys, size
    <3>3. k \in Listed(w)
      BY DEF keys, Walked
    <3> QED
      BY <3>1, <3>2, <3>3, <2>4
  <2>8. \A n \in -1..Cardinality(Keys) :
           /\ ngx_qjs_ext_shared_dict_keys(w, n) = keys(w, n)
           /\ ngx_qjs_ext_shared_dict_items(w, n) = items(w, n)
    BY <2>3 DEF ngx_qjs_ext_shared_dict_keys, keys, ngx_qjs_ext_shared_dict_items, items
  <2>9. ngx_qjs_ext_shared_dict_size(w) = size(w)
    BY <2>3 DEF ngx_qjs_ext_shared_dict_size, size
  <2> QED
    BY <2>5, <2>6, <2>7, <2>8, <2>9
<1>2. Inv => ReadersAgree
  BY <1>1 DEF ReadersAgree
<1> QED
  BY <1>2, InvHolds, PTL

-----------------------------------------------------------------------------
(* Entries that go. *)

\* t is s without the nodes of S.
Dropped(s, t, S) ==
    /\ S \in SUBSET s.rbtree_expire
    /\ \A j \in Keys : t.rbtree[j] = IF j \in S THEN NULL ELSE s.rbtree[j]
    /\ t.rbtree_expire = s.rbtree_expire \ S

\* Two sets that come first, one after the other, are one set that comes first.
LEMMA DroppedTwice ==
    ASSUME NEW s, NEW t, NEW u, NEW S, NEW T, s.rbtree_expire \subseteq Keys,
           Dropped(s, t, S), ExpirePrefix(s, S), Dropped(t, u, T), ExpirePrefix(t, T)
    PROVE  Dropped(s, u, S \cup T) /\ ExpirePrefix(s, S \cup T)
<1>1. Dropped(s, u, S \cup T)
  BY DEF Dropped
<1>2. ASSUME NEW k \in S \cup T, NEW j \in s.rbtree_expire \ (S \cup T)
      PROVE  s.rbtree[k].expire <= s.rbtree[j].expire
  <2>1. CASE k \in S
    BY <2>1 DEF ExpirePrefix
  <2>2. CASE k \in T
    <3>1. k \in t.rbtree_expire /\ j \in t.rbtree_expire \ T
      BY <2>2 DEF Dropped
    <3>2. t.rbtree[k] = s.rbtree[k] /\ t.rbtree[j] = s.rbtree[j]
      BY <3>1 DEF Dropped
    <3>3. t.rbtree[k].expire <= t.rbtree[j].expire
      BY <3>1, <2>2 DEF ExpirePrefix
    <3> QED
      BY <3>2, <3>3
  <2> QED
    BY <2>1, <2>2
<1> QED
  BY <1>1, <1>2 DEF ExpirePrefix

\* ngx_js_dict_alloc() drops what comes first in the expire tree, nothing in a
\* zone without evict, and in a zone with evict everything before it fails.
LEMMA AllocDrops ==
    ASSUME NEW s \in Zone, NEW n \in Nat \ {0}, NEW a \in ngx_js_dict_alloc(s, n)
    PROVE  \E S : /\ Dropped(s, a.zone, S)
                  /\ ExpirePrefix(s, S)
                  /\ ~Evict => S = {}
                  /\ Evict /\ a.p = {} => S = s.rbtree_expire
<1>1. PICK S \in (IF Evict THEN EvictedBy(s, n) ELSE {{}}) :
         a = Allocated(ngx_js_dict_node_free(s, S), n)
  BY DEF ngx_js_dict_alloc
<1>2. /\ a.zone = ngx_js_dict_node_free(s, S)
      /\ a.p = IF Fitting(a.zone, n) = {} THEN {}
               ELSE CHOOSE p \in Fitting(a.zone, n) : TRUE
  BY <1>1 DEF Allocated
<1>3. S \in SUBSET s.rbtree_expire /\ S \in SUBSET Keys
  BY DEF EvictedBy, Zone
<1>4. Dropped(s, a.zone, S)
  BY <1>2, <1>3, FreeFields DEF Dropped
<1>5. ExpirePrefix(s, S)
  BY DEF EvictedBy, ExpirePrefix
<1>6. ASSUME Evict, a.p = {} PROVE S = s.rbtree_expire
  <2>1. S = s.rbtree_expire \/ ~Fails(s, S, n)
    BY <1>6 DEF EvictedBy
  <2>2. CASE ~Fails(s, S, n)
    <3>1. Fitting(a.zone, n) # {}
      BY <2>2, <1>2 DEF Fails
    <3>2. a.p \in Fitting(a.zone, n)
      BY <3>1, <1>2
    <3>3. Cardinality({}) = n
      BY <3>2, <1>6 DEF Fitting
    <3> QED
      BY <3>3, FS_EmptySet
  <2> QED
    BY <2>1, <2>2
<1> QED
  BY <1>4, <1>5, <1>6

\* The entries of S are entries a call about k may forget: they come before
\* all the others and, in a zone without evict, they have expired.
Forgotten(s, k, S, now) ==
    /\ S \in SUBSET (s.rbtree_expire \ {k})
    /\ \A i \in S, j \in s.rbtree_expire \ (S \cup {k}) :
          s.rbtree[i].expire <= s.rbtree[j].expire
    /\ ~Evict => \A i \in S : s.rbtree[i].expire <= now

\* ngx_js_dict_expire() drops what comes first, all of it expired.
LEMMA ExpireDrops ==
    ASSUME NEW s, Consistent(s, {}, {}), NEW now \in Nat,
           NEW t, t = IF Timeout > 0 THEN ngx_js_dict_expire(s, now) ELSE s
    PROVE  /\ Consistent(t, {}, {})
           /\ \E S : /\ Dropped(s, t, S)
                     /\ ExpirePrefix(s, S)
                     /\ \A j \in S : s.rbtree[j].expire <= now
<1> DEFINE S == {j \in s.rbtree_expire : s.rbtree[j].expire <= now}
<1>1. s \in Zone /\ s.rbtree_expire \subseteq Live(s) /\ Live(s) \subseteq Keys
  BY DEF Consistent, Live
<1>2. \A j \in s.rbtree_expire : s.rbtree[j].expire \in Nat
  BY <1>1 DEF Live, Zone, Node
<1>3. CASE Timeout > 0
  <2>1. t = ngx_js_dict_node_free(s, S)
    BY <1>3 DEF ngx_js_dict_expire
  <2>2. S \in SUBSET Live(s) /\ S \in SUBSET Keys /\ S \cap {} = {} /\ S \in SUBSET s.rbtree_expire
    BY <1>1
  <2>3. ExpirePrefix(s, S)
    BY <1>2 DEF ExpirePrefix
  <2>4. \A j \in S : s.rbtree[j].expire <= now
    OBVIOUS
  <2> HIDE DEF S
  <2>5. Consistent(t, {}, {})
    BY <2>1, <2>2, FreeConsistent
  <2>6. Dropped(s, t, S)
    BY <1>1, <2>1, <2>2, FreeFields DEF Dropped
  <2> QED
    BY <2>3, <2>4, <2>5, <2>6
<1>4. CASE ~(Timeout > 0)
  <2>1. t = s
    BY <1>4
  <2>2. Dropped(s, t, {}) /\ ExpirePrefix(s, {})
    BY <2>1 DEF Dropped, ExpirePrefix
  <2> QED
    BY <2>1, <2>2
<1> QED
  BY <1>3, <1>4

\* A call that stores a new key: what it drops, and what it leaves of the
\* entries when it fails.
LEMMA AddDrops ==
    ASSUME NEW s, Consistent(s, {}, {}), NEW k \in Keys, s.rbtree[k] = NULL,
           NEW v \in Values, NEW timeout \in Nat, NEW now \in Nat,
           NEW r \in ngx_js_dict_add_value(s, k, v, timeout, now)
    PROVE  \E S : /\ Forgotten(s, k, S, now)
                  /\ \A j \in Keys \ {k} :
                        r.zone.rbtree[j] = IF j \in S THEN NULL ELSE s.rbtree[j]
                  /\ r.ok \in BOOLEAN
                  /\ r.ok => r.zone.rbtree[k] \in Node
                  /\ ~r.ok => r.zone.rbtree[k] = NULL
                  /\ ~r.ok /\ Evict => S = s.rbtree_expire
<1> DEFINE due == IF Timeout > 0 THEN ngx_js_dict_expire(s, now) ELSE s
<1>1. s \in Zone /\ s.rbtree_expire \subseteq Keys /\ k \notin s.rbtree_expire
  BY DEF Consistent, Live, Zone
<1>2. Consistent(due, {}, {}) /\ due \in Zone
  BY ZenonT(40), ExpireDrops DEF Consistent
<1>3. PICK S0 : /\ Dropped(s, due, S0)
                /\ ExpirePrefix(s, S0)
                /\ \A j \in S0 : s.rbtree[j].expire <= now
  BY ExpireDrops
<1>4. PICK a \in ngx_js_dict_alloc(due, 1) :
         r \in IF a.p = {} THEN {Outcome(a.zone, FALSE)}
               ELSE AddNode(a, k, v, timeout, now)
  BY DEF ngx_js_dict_add_value
<1> HIDE DEF due
<1>5. PICK S1 : /\ Dropped(due, a.zone, S1)
                /\ ExpirePrefix(due, S1)
                /\ ~Evict => S1 = {}
                /\ Evict /\ a.p = {} => S1 = due.rbtree_expire
  <2>1. 1 \in Nat \ {0}
    OBVIOUS
  <2> QED
    BY <1>2, <2>1, AllocDrops
<1>6. /\ Consistent(a.zone, {}, {})
      /\ a.p \subseteq Chunk \ a.zone.used
  BY <1>2, AllocConsistent
<1> DEFINE S == S0 \cup S1
<1>7. Dropped(s, a.zone, S) /\ ExpirePrefix(s, S)
  BY <1>1, <1>3, <1>5, DroppedTwice
<1>8. ~Evict => \A j \in S : s.rbtree[j].expire <= now
  BY <1>3, <1>5
<1>9. Evict /\ a.p = {} => S = s.rbtree_expire
  BY <1>3, <1>5 DEF Dropped
<1> HIDE DEF S
<1>10. CASE a.p = {}
  <2>1. r.zone = a.zone /\ r.ok = FALSE
    BY <1>4, <1>10 DEF Outcome
  <2>2. Forgotten(s, k, S, now)
    BY <1>1, <1>7, <1>8 DEF Forgotten, Dropped, ExpirePrefix
  <2>3. \A j \in Keys : r.zone.rbtree[j] = IF j \in S THEN NULL ELSE s.rbtree[j]
    BY <2>1, <1>7 DEF Dropped
  <2> QED
    BY <2>1, <2>2, <2>3, <1>9, <1>10
<1>11. CASE a.p # {}
  <2>1. PICK c \in a.p :
           r \in IF DictType = "string"
                 THEN AddString(Reserve(a.zone, {c}), k, c, v, timeout, now)
                 ELSE AddNumber(Reserve(a.zone, {c}), k, c, v, timeout, now)
    BY <1>4, <1>11 DEF AddNode
  <2> DEFINE h == Reserve(a.zone, {c})
  <2>2. /\ h \in Zone
        /\ h.rbtree = a.zone.rbtree
        /\ h.rbtree_expire = a.zone.rbtree_expire
        /\ c \in Chunk
    BY <1>6 DEF Reserve, Zone, Consistent
  <2>3. Dropped(s, h, S)
    BY <2>2, <1>7 DEF Dropped
  <2> HIDE DEF h
  <2>4. CASE DictType = "string"
    <3>1. PICK b \in ngx_js_dict_alloc(h, SizeOf[v]) :
             r = IF b.p = {}
                 THEN Outcome(Release(b.zone, {c}), FALSE)
                 ELSE Outcome(Insert(Reserve(b.zone, b.p), k,
                                 [node |-> c, data |-> b.p, value |-> v,
                                  expire |-> 0], now, timeout), TRUE)
      BY <2>1, <2>4 DEF AddString, h
    <3>2. PICK S2 : /\ Dropped(h, b.zone, S2)
                    /\ ExpirePrefix(h, S2)
                    /\ ~Evict => S2 = {}
                    /\ Evict /\ b.p = {} => S2 = h.rbtree_expire
      <4>1. SizeOf[v] \in Nat \ {0}
        BY <2>4, SizeAssumption
      <4> QED
        BY <4>1, <2>2, AllocDrops
    <3>3. b.zone \in Zone /\ b.p \subseteq Chunk
      <4>1. Consistent(h, {}, {c})
        <5>1. {c} \subseteq Chunk \ a.zone.used /\ {} \cup {c} = {c}
          BY <1>6
        <5> QED
          BY <5>1, <1>6, ReserveConsistent DEF h
      <4>2. Consistent(b.zone, {}, {c}) /\ b.p \subseteq Chunk \ b.zone.used
        BY <4>1, AllocConsistent
      <4> QED
        BY <4>2 DEF Consistent
    <3> DEFINE U == S \cup S2
    <3>4. Dropped(s, b.zone, U) /\ ExpirePrefix(s, U)
      BY <1>1, <1>7, <2>3, <3>2, DroppedTwice
    <3>5. ~Evict => \A j \in U : s.rbtree[j].expire <= now
      BY <1>8, <3>2
    <3>6. Evict /\ b.p = {} => U = s.rbtree_expire
      BY <2>3, <3>2 DEF Dropped
    <3> HIDE DEF U
    <3>7. Forgotten(s, k, U, now)
      BY <1>1, <3>4, <3>5 DEF Forgotten, Dropped, ExpirePrefix
    <3>8. CASE b.p = {}
      <4>1. r.zone = Release(b.zone, {c}) /\ r.ok = FALSE
        BY <3>1, <3>8 DEF Outcome
      <4>2. r.zone.rbtree = b.zone.rbtree
        BY <4>1, <3>3 DEF Release, Zone
      <4>3. \A j \in Keys : r.zone.rbtree[j] = IF j \in U THEN NULL ELSE s.rbtree[j]
        BY <4>2, <3>4 DEF Dropped
      <4> QED
        BY <4>1, <4>3, <3>6, <3>7, <3>8
    <3>9. CASE b.p # {}
      <4> DEFINE nd == [node |-> c, data |-> b.p, value |-> v, expire |-> 0]
                 new == [nd EXCEPT !.expire = IF Timeout > 0 THEN now + timeout ELSE @]
      <4>1. r.zone = Insert(Reserve(b.zone, b.p), k, nd, now, timeout) /\ r.ok = TRUE
        BY <3>1, <3>9 DEF Outcome
      <4>2. new \in Node
        BY <2>2, <3>3 DEF Node
      <4>3. \A j \in Keys : r.zone.rbtree[j] = IF j = k THEN new ELSE b.zone.rbtree[j]
        <5> HIDE DEF nd
        <5> QED
          BY <4>1, <3>3 DEF Insert, Reserve, Zone
      <4> HIDE DEF nd, new
      <4>4. \A j \in Keys \ {k} : r.zone.rbtree[j] = IF j \in U THEN NULL ELSE s.rbtree[j]
        BY <4>3, <3>4 DEF Dropped
      <4> QED
        BY <4>1, <4>2, <4>3, <4>4, <3>7
    <3> QED
      BY <3>8, <3>9
  <2>5. CASE DictType # "string"
    <3> DEFINE nd == [node |-> c, data |-> {}, value |-> v, expire |-> 0]
               new == [nd EXCEPT !.expire = IF Timeout > 0 THEN now + timeout ELSE @]
    <3>1. r.zone = Insert(h, k, nd, now, timeout) /\ r.ok = TRUE
      BY <2>1, <2>5 DEF AddNumber, Outcome, h
    <3>2. new \in Node
      BY <2>2 DEF Node
    <3>3. \A j \in Keys : r.zone.rbtree[j] = IF j = k THEN new ELSE h.rbtree[j]
      <4> HIDE DEF nd
      <4> QED
        BY <3>1, <2>2 DEF Insert, Zone
    <3> HIDE DEF nd, new
    <3>4. \A j \in Keys \ {k} : r.zone.rbtree[j] = IF j \in S THEN NULL ELSE s.rbtree[j]
      BY <3>3, <2>3 DEF Dropped
    <3>5. Forgotten(s, k, S, now)
      BY <1>1, <1>7, <1>8 DEF Forgotten, Dropped, ExpirePrefix
    <3> QED
      BY <3>1, <3>2, <3>3, <3>4, <3>5
  <2> QED
    BY <2>4, <2>5
<1> QED
  BY <1>10, <1>11

\* A call that updates the node of k: the node itself is not dropped, and is
\* as it was when the call fails.
LEMMA UpdateDrops ==
    ASSUME NEW s, Consistent(s, {}, {}), NEW k \in Live(s),
           NEW v \in Values, NEW timeout \in Nat, NEW now \in Nat,
           NEW r \in ngx_js_dict_update(s, k, v, timeout, now)
    PROVE  \E S : /\ Forgotten(s, k, S, now)
                  /\ \A j \in Keys \ {k} :
                        r.zone.rbtree[j] = IF j \in S THEN NULL ELSE s.rbtree[j]
                  /\ r.ok \in BOOLEAN
                  /\ r.ok => r.zone.rbtree[k] \in Node
                  /\ ~r.ok => r.zone.rbtree[k] = s.rbtree[k]
                  /\ ~r.ok /\ Evict => S = s.rbtree_expire \ {k}
<1> DEFINE u == Unlink(s, k)
<1>1. k \in Keys /\ s \in Zone /\ s.rbtree[k] \in Node
  BY DEF Consistent, Live, Zone
<1>2. /\ u \in Zone
      /\ u.rbtree = s.rbtree
      /\ u.used = s.used
      /\ u.rbtree_expire = s.rbtree_expire \ {k}
      /\ Live(u) = Live(s)
  BY <1>1 DEF Unlink, Zone, Live
<1>3. Consistent(u, {k}, {})
  BY <1>1, <1>2 DEF Consistent
<1>4. CASE DictType = "string"
  <2>1. PICK b \in ngx_js_dict_alloc(u, SizeOf[v]) :
           r = IF b.p = {}
               THEN Outcome(Relink(b.zone, k), FALSE)
               ELSE Outcome(Insert(Release(Reserve(b.zone, b.p), b.zone.rbtree[k].data),
                                   k,
                                   [b.zone.rbtree[k] EXCEPT !.data = b.p, !.value = v],
                                   now, timeout), TRUE)
    BY <1>4 DEF ngx_js_dict_update
  <2> HIDE DEF u
  <2>2. PICK S : /\ Dropped(u, b.zone, S)
                 /\ ExpirePrefix(u, S)
                 /\ ~Evict => S = {}
                 /\ Evict /\ b.p = {} => S = u.rbtree_expire
    <3>1. SizeOf[v] \in Nat \ {0}
      BY <1>4, SizeAssumption
    <3> QED
      BY <3>1, <1>2, AllocDrops
  <2>3. b.zone \in Zone /\ b.p \subseteq Chunk /\ b.zone.rbtree[k] = s.rbtree[k]
    <3>1. /\ Consistent(b.zone, {k}, {})
          /\ b.p \subseteq Chunk \ b.zone.used
          /\ b.zone.rbtree[k] = u.rbtree[k]
      BY <1>3, AllocConsistent
    <3> QED
      BY <3>1, <1>2 DEF Consistent
  <2>4. Forgotten(s, k, S, now)
    <3>1. S \in SUBSET (s.rbtree_expire \ {k})
      BY <2>2, <1>2 DEF Dropped
    <3>2. \A i \in S, j \in s.rbtree_expire \ (S \cup {k}) :
             s.rbtree[i].expire <= s.rbtree[j].expire
      BY <2>2, <1>2 DEF ExpirePrefix
    <3> QED
      BY <3>1, <3>2, <2>2 DEF Forgotten
  <2>5. \A j \in Keys : b.zone.rbtree[j] = IF j \in S THEN NULL ELSE s.rbtree[j]
    BY <2>2, <1>2 DEF Dropped
  <2>6. CASE b.p = {}
    <3>1. r.zone = Relink(b.zone, k) /\ r.ok = FALSE
      BY <2>1, <2>6 DEF Outcome
    <3>2. r.zone.rbtree = b.zone.rbtree
      BY <3>1, <2>3 DEF Relink, Zone
    <3> QED
      BY <3>1, <3>2, <2>2, <2>3, <2>4, <2>5, <2>6, <1>2
  <2>7. CASE b.p # {}
    <3> DEFINE nd == [b.zone.rbtree[k] EXCEPT !.data = b.p, !.value = v]
               new == [nd EXCEPT !.expire = IF Timeout > 0 THEN now + timeout ELSE @]
               q == b.zone.rbtree[k].data
    <3>1. /\ r.zone = Insert(Release(Reserve(b.zone, b.p), q), k, nd, now, timeout)
          /\ r.ok = TRUE
      BY <2>1, <2>7 DEF Outcome
    <3>2. nd \in Node
      BY <2>3, <1>1 DEF Node
    <3>3. new \in Node
      <4> HIDE DEF nd
      <4> QED
        BY <3>2 DEF Node
    <3>4. \A j \in Keys : r.zone.rbtree[j] = IF j = k THEN new ELSE b.zone.rbtree[j]
      <4> HIDE DEF nd, q
      <4> QED
        BY <3>1, <2>3 DEF Insert, Reserve, Release, Zone
    <3> HIDE DEF nd, new, q
    <3> QED
      BY <3>1, <3>3, <3>4, <2>4, <2>5, <1>1
  <2> QED
    BY <2>6, <2>7
<1>5. CASE DictType # "string"
  <2> DEFINE nd == [s.rbtree[k] EXCEPT !.value = v]
             new == [nd EXCEPT !.expire = IF Timeout > 0 THEN now + timeout ELSE @]
  <2>1. r.zone = Insert(u, k, nd, now, timeout) /\ r.ok = TRUE
    BY <1>5 DEF ngx_js_dict_update, Outcome
  <2>2. nd \in Node
    BY <1>1 DEF Node
  <2>3. new \in Node
    <3> HIDE DEF nd
    <3> QED
      BY <2>2 DEF Node
  <2>4. \A j \in Keys : r.zone.rbtree[j] = IF j = k THEN new ELSE s.rbtree[j]
    <3> HIDE DEF nd, u
    <3> QED
      BY <2>1, <1>2 DEF Insert, Zone
  <2>5. Forgotten(s, k, {}, now)
    BY DEF Forgotten
  <2> HIDE DEF nd, new, u
  <2> QED
    BY <2>1, <2>3, <2>4, <2>5, <1>1
<1> QED
  BY <1>4, <1>5

-----------------------------------------------------------------------------
(* The steps of the specification. *)

\* What a step that adds or updates the node of k does to the entries.
LEMMA StoreDrops ==
    ASSUME Inv, NEW w \in Workers, NEW op, NEW k \in Keys, NEW v \in Values,
           NEW timeout \in Nat, NEW ret,
           AddStep(w, op, k, v, timeout, ret) \/ UpdateStep(w, op, k, v, timeout, ret)
    PROVE  \E S : /\ Forgotten(sh, k, S, cached[w])
                  /\ \A j \in Keys \ {k} :
                        sh'.rbtree[j] = IF j \in S THEN NULL ELSE sh.rbtree[j]
                  /\ res'.key = k
                  /\ UNCHANGED clock
                  /\ \/ res'.ret = ret /\ sh'.rbtree[k] \in Node
                     \/ /\ res'.ret = MemoryError
                        /\ sh'.rbtree[k] = sh.rbtree[k]
                        /\ Evict => S = sh.rbtree_expire \ {k}
<1>1. cached[w] \in Nat /\ Consistent(sh, {}, {})
  BY DEF Inv
<1>2. PICK r : /\ \/ /\ sh.rbtree[k] = NULL
                     /\ r \in ngx_js_dict_add_value(sh, k, v, timeout, cached[w])
                  \/ /\ k \in Live(sh)
                     /\ r \in ngx_js_dict_update(sh, k, v, timeout, cached[w])
               /\ Commit(w, op, k, r, ret)
  BY DEF AddStep, UpdateStep
<1>3. Consistent(r.zone, {}, {}) /\ r.ok \in BOOLEAN
  BY <1>1, <1>2, AddConsistent, UpdateConsistent
<1>4. PICK S : /\ Forgotten(sh, k, S, cached[w])
               /\ \A j \in Keys \ {k} :
                     r.zone.rbtree[j] = IF j \in S THEN NULL ELSE sh.rbtree[j]
               /\ r.ok => r.zone.rbtree[k] \in Node
               /\ ~r.ok => r.zone.rbtree[k] = sh.rbtree[k]
               /\ ~r.ok /\ Evict => S = sh.rbtree_expire \ {k}
  <2>1. CASE sh.rbtree[k] = NULL
    <3>1. r \in ngx_js_dict_add_value(sh, k, v, timeout, cached[w])
      BY <1>2, <2>1 DEF Live
    <3>2. sh.rbtree_expire \ {k} = sh.rbtree_expire
      BY <1>1, <2>1 DEF Consistent, Live
    <3> QED
      BY <3>1, <3>2, <1>1, <2>1, AddDrops
  <2>2. CASE sh.rbtree[k] # NULL
    <3>1. k \in Live(sh) /\ r \in ngx_js_dict_update(sh, k, v, timeout, cached[w])
      BY <1>2, <2>2
    <3> QED
      BY <3>1, <1>1, UpdateDrops
  <2> QED
    BY <2>1, <2>2
<1>5. /\ sh'.rbtree = r.zone.rbtree
      /\ res'.key = k
      /\ res'.ret = IF r.ok THEN ret ELSE MemoryError
  BY <1>2, <1>3, CommitInv
<1>6. UNCHANGED clock
  BY <1>2 DEF Commit
<1> QED
  BY <1>3, <1>4, <1>5, <1>6

\* After a call that found the zone out of memory nothing is left to evict.
NothingLeft ==
    Evict /\ res.ret = MemoryError => sh.rbtree_expire \subseteq {res.key}

KeepsEntry ==
    res'.ret \in {MemoryError, ConversionError} =>
        /\ sh'.rbtree[res'.key] = sh.rbtree[res'.key]
        /\ Evict /\ res'.ret = MemoryError => sh'.rbtree_expire \subseteq {res'.key}

\* Every step keeps the node of a call that fails, and evicts all it can
\* before it fails.
LEMMA KeepsEntryStep ==
    ASSUME Inv, NothingLeft, Next
    PROVE  KeepsEntry
<1>1. ASSUME NEW w \in Workers, CallStep(w) PROVE KeepsEntry
  <2>1. ASSUME NEW op, NEW ret, NEW k \in Keys, IdleStep(w, op, k, ret)
        PROVE  KeepsEntry
    BY <2>1 DEF IdleStep, Declined, Return, KeepsEntry
  <2>2. ASSUME NEW op, NEW ret, NEW k \in Keys, NEW v \in Values, NEW timeout \in Nat,
               Returned(ret),
               AddStep(w, op, k, v, timeout, ret) \/ UpdateStep(w, op, k, v, timeout, ret)
        PROVE  KeepsEntry
    <3>1. Consistent(sh, {}, {}) /\ Consistent(sh', {}, {})
      BY <2>2, StoreInv DEF Inv
    <3>2. PICK S : /\ Forgotten(sh, k, S, cached[w])
                   /\ \A j \in Keys \ {k} :
                         sh'.rbtree[j] = IF j \in S THEN NULL ELSE sh.rbtree[j]
                   /\ res'.key = k
                   /\ UNCHANGED clock
                   /\ \/ res'.ret = ret /\ sh'.rbtree[k] \in Node
                      \/ /\ res'.ret = MemoryError
                         /\ sh'.rbtree[k] = sh.rbtree[k]
                         /\ Evict => S = sh.rbtree_expire \ {k}
      BY <2>2, StoreDrops
    <3>3. CASE res'.ret = ret
      BY <2>2, <3>3, ValuesReturned DEF Returned, KeepsEntry
    <3>4. CASE res'.ret # ret
      <4>1. ASSUME Evict PROVE sh'.rbtree_expire \subseteq {k}
        <5>1. Timeout > 0 /\ S = sh.rbtree_expire \ {k}
          BY <3>2, <3>4, <4>1, ZoneAssumption
        <5>2. sh.rbtree_expire = Live(sh) /\ sh'.rbtree_expire = Live(sh')
          BY <3>1, <5>1 DEF Consistent
        <5>3. ASSUME NEW j \in Live(sh'), j # k PROVE FALSE
          <6>1. j \in Keys \ {k} /\ sh'.rbtree[j] # NULL
            BY <5>3 DEF Live
          <6>2. j \notin S /\ j \in Live(sh)
            BY <6>1, <3>2 DEF Live
          <6> QED
            BY <6>1, <6>2, <5>1, <5>2
        <5> QED
          BY <5>2, <5>3
      <4> QED
        BY <3>2, <3>4, <4>1 DEF KeepsEntry
    <3> QED
      BY <3>3, <3>4
  <2>3. ASSUME NEW op, NEW ret, NEW k, NEW S, Returned(ret), RemoveStep(w, op, k, S, ret)
        PROVE  KeepsEntry
    BY <2>3, RemoveInv DEF Returned, KeepsEntry
  <2>4. ASSUME NEW k \in Keys, NEW delta \in Deltas, NEW timeout \in Nat,
               IncrStep(w, k, delta, timeout)
        PROVE  KeepsEntry
    BY <2>4, IncrInv DEF Returned, KeepsEntry
  <2> QED
    BY <1>1, <2>1, <2>2, <2>3, <2>4, ValuesReturned DEF CallStep
<1>2. ASSUME UNCHANGED <<sh, res>> PROVE KeepsEntry
  BY <1>2 DEF NothingLeft, KeepsEntry
<1> QED
  BY <1>1, <1>2, CallCases DEF Next, Tick, TimeUpdate

\* A call that throws for lack of memory leaves the node of its key as it was
\* and, when it gave up on a zone with evict, has left nothing to evict.
THEOREM FailedCallsKeepEntries == Spec => FailedCallKeepsEntry
<1>1. Init => NothingLeft
  <2>1. Undefined # MemoryError
    BY ValuesReturned DEF Returned
  <2> QED
    BY <2>1 DEF Init, NothingLeft
<1>2. Inv /\ NothingLeft /\ [Next]_vars => NothingLeft'
  <2>1. ASSUME Inv, NothingLeft, Next PROVE NothingLeft'
    BY <2>1, KeepsEntryStep DEF NothingLeft, KeepsEntry
  <2>2. ASSUME NothingLeft, UNCHANGED vars PROVE NothingLeft'
    BY <2>2 DEF NothingLeft, vars
  <2> QED
    BY <2>1, <2>2
<1>3. Inv /\ NothingLeft /\ [Next]_vars => [KeepsEntry]_vars
  BY KeepsEntryStep
<1>4. FailedCallKeepsEntry <=> [][KeepsEntry]_vars
  BY DEF FailedCallKeepsEntry, KeepsEntry
<1> QED
  BY <1>1, <1>2, <1>3, <1>4, InvHolds, PTL DEF Spec

KeepsExpiry ==
    \A w \in Workers, k \in Keys, d \in Deltas, i \in Inits :
        /\ ngx_js_dict_incr(w, k, d, i, 0) \/ ngx_qjs_dict_incr(w, k, d, i, 0)
        /\ sh.rbtree[k] # NULL
        => sh'.rbtree[k].expire = sh.rbtree[k].expire

\* incr() without a timeout argument leaves the expiry time of a node alone.
THEOREM IncrNeverMovesExpiry == Spec => IncrKeepsExpiry
<1>1. Inv => KeepsExpiry
  <2> SUFFICES ASSUME Inv, NEW w \in Workers, NEW k \in Keys, NEW d \in Deltas,
                      NEW i \in Inits, sh.rbtree[k] # NULL,
                      ngx_js_dict_incr(w, k, d, i, 0) \/ ngx_qjs_dict_incr(w, k, d, i, 0)
               PROVE  sh'.rbtree[k].expire = sh.rbtree[k].expire
    BY DEF KeepsExpiry
  <2>1. IncrStep(w, k, d, 0)
    BY DEF ngx_js_dict_incr, ngx_qjs_dict_incr, IncrStep, TimeoutArg, Live
  <2> QED
    BY <2>1, IncrInv
<1>2. Inv /\ [Next]_vars => [KeepsExpiry]_vars
  BY <1>1
<1>3. IncrKeepsExpiry <=> [][KeepsExpiry]_vars
  BY DEF IncrKeepsExpiry, KeepsExpiry
<1> QED
  BY <1>2, <1>3, InvHolds, PTL DEF Spec

-----------------------------------------------------------------------------
(* The refinement. *)

\* A step that adds or updates the node of k stores that key, or fails, and
\* forgets entries that ExpiringMap lets it forget.
LEMMA StoreRefines ==
    ASSUME Inv, NEW w \in Workers, NEW op, NEW ret, NEW k \in Keys, NEW v \in Values,
           NEW timeout \in Nat,
           AddStep(w, op, k, v, timeout, ret) \/ UpdateStep(w, op, k, v, timeout, ret)
    PROVE  Map!Next
<1>1. PICK S : /\ Forgotten(sh, k, S, cached[w])
               /\ \A j \in Keys \ {k} :
                     sh'.rbtree[j] = IF j \in S THEN NULL ELSE sh.rbtree[j]
               /\ res'.key = k
               /\ UNCHANGED clock
               /\ \/ res'.ret = ret /\ sh'.rbtree[k] \in Node
                  \/ /\ res'.ret = MemoryError
                     /\ sh'.rbtree[k] = sh.rbtree[k]
                     /\ Evict => S = sh.rbtree_expire \ {k}
  BY StoreDrops
<1>2. /\ sh \in Zone
      /\ sh.rbtree_expire = IF Timeout > 0 THEN Live(sh) ELSE {}
      /\ cached[w] \in Nat /\ clock \in Nat /\ cached[w] <= clock
  BY DEF Inv, Consistent
<1>3. Map!Present = Live(sh)
  <2>1. \A j \in Live(sh) : [value |-> sh.rbtree[j].value, expire |-> sh.rbtree[j].expire] # NULL
    BY <1>2, EntryAssumption DEF Live, Zone, Node
  <2> QED
    BY <2>1 DEF Map!Present, Entries, Live
<1>4. S \in SUBSET (Map!Present \ {k})
  BY <1>1, <1>2, <1>3 DEF Forgotten
<1>5. Map!Forgettable(k, S)
  <2>1. S # {} => Timeout > 0
    BY <1>1, <1>2 DEF Forgotten
  <2>2. \A j \in Live(sh) : j \in Keys /\ Entries[j].expire = sh.rbtree[j].expire
                            /\ sh.rbtree[j].expire \in Nat
    BY <1>2 DEF Entries, Live, Zone, Node
  <2>3. ASSUME NEW j \in S, NEW i \in Map!Present \ (S \cup {k})
        PROVE  Entries[j].expire <= Entries[i].expire
    <3>1. Live(sh) = sh.rbtree_expire
      BY <2>1, <1>2
    <3>2. sh.rbtree[j].expire <= sh.rbtree[i].expire
      BY <3>1, <1>1, <1>3 DEF Forgotten
    <3> QED
      BY <3>2, <2>2, <1>3, <1>4
  <2>4. ASSUME ~Evict, NEW j \in S PROVE Entries[j].expire <= clock
    <3>1. sh.rbtree[j].expire <= cached[w]
      BY <2>4, <1>1 DEF Forgotten
    <3> QED
      BY <3>1, <2>2, <1>2, <1>3, <1>4
  <2> QED
    BY <2>1, <2>3, <2>4 DEF Map!Forgettable
<1>6. \A j \in Keys \ {k} : Entries'[j] = IF j \in S THEN NULL ELSE Entries[j]
  BY <1>1 DEF Entries
<1>7. CASE sh'.rbtree[k] \in Node
  <2>1. Entries'[k] \in Map!Entry
    BY <1>7, NullAssumption DEF Entries, Node, Map!Entry
  <2>2. Entries' = [Map!Forget(S) EXCEPT ![k] = Entries'[k]]
    BY ZenonT(40), <1>6 DEF Entries, Map!Forget
  <2> QED
    BY <2>1, <2>2, <1>1, <1>4, <1>5 DEF Map!Next, Map!Store
<1>8. CASE sh'.rbtree[k] = sh.rbtree[k]
  <2>1. Entries' = Map!Forget(S)
    <3>1. Entries'[k] = Entries[k] /\ k \notin S
      BY <1>8, <1>4 DEF Entries
    <3> QED
      BY <3>1, <1>6 DEF Entries, Map!Forget
  <2> QED
    BY <2>1, <1>1, <1>4, <1>5 DEF Map!Next, Map!Fail
<1> QED
  BY <1>1, <1>7, <1>8

\* delete() and pop() remove a key.
LEMMA RemoveRefines ==
    ASSUME Inv, NEW w, NEW op, NEW ret, NEW k \in Keys, RemoveStep(w, op, k, {k}, ret)
    PROVE  Map!Next
<1>1. \A j \in Keys : sh'.rbtree[j] = IF j \in {k} THEN NULL ELSE sh.rbtree[j]
  BY RemoveInv
<1>2. UNCHANGED clock
  BY DEF RemoveStep, Commit
<1>3. Entries' = Map!Forget({k})
  BY <1>1 DEF Entries, Map!Forget
<1> QED
  BY <1>2, <1>3 DEF Map!Next, Map!Remove

\* clear() removes all of them.
LEMMA ClearRefines ==
    ASSUME Inv, NEW w, RemoveStep(w, "clear", NULL, Live(sh), Undefined)
    PROVE  Map!Next
<1> DEFINE S == Live(sh)
<1>1. \A j \in Keys : sh.rbtree[j] # NULL => j \in S
  BY DEF Live
<1>2. RemoveStep(w, "clear", NULL, S, Undefined)
  OBVIOUS
<1> HIDE DEF S
<1>3. \A j \in Keys : sh'.rbtree[j] = IF j \in S THEN NULL ELSE sh.rbtree[j]
  BY <1>2, RemoveInv
<1>4. UNCHANGED clock
  BY DEF RemoveStep, Commit
<1>5. Entries' = [j \in Keys |-> NULL]
  BY <1>1, <1>3 DEF Entries
<1> QED
  BY <1>4, <1>5 DEF Map!Next, Map!Clear

\* incr() of a node that exists stores its key and forgets nothing.
LEMMA IncrRefines ==
    ASSUME Inv, NEW w \in Workers, NEW k \in Keys, NEW delta, NEW timeout \in Nat,
           IncrStep(w, k, delta, timeout)
    PROVE  Map!Next
<1>1. /\ \A j \in Keys : j # k => sh'.rbtree[j] = sh.rbtree[j]
      /\ sh'.rbtree[k] \in Node
  BY IncrInv
<1>2. UNCHANGED clock
  BY DEF IncrStep, Increment, Commit
<1>3. {} \in SUBSET (Map!Present \ {k}) /\ Map!Forgettable(k, {})
  BY DEF Map!Forgettable
<1>4. Entries'[k] \in Map!Entry
  BY <1>1, NullAssumption DEF Entries, Node, Map!Entry
<1>5. Entries' = [Map!Forget({}) EXCEPT ![k] = Entries'[k]]
  BY <1>1 DEF Entries, Map!Forget
<1> QED
  BY <1>2, <1>3, <1>4, <1>5 DEF Map!Next, Map!Store

\* A shared dictionary is a map that changes one key at a time and forgets
\* other entries only in the order of expiry: when they have expired, or by
\* eviction.
THEOREM DictionaryImplementsMap == Spec => ImplementsMap
<1>1. Init => Map!Init
  BY DEF Init, Map!Init, Entries
<1>2. ASSUME Inv, [Next]_vars PROVE [Map!Next]_<<Entries, clock>>
  <2>1. ASSUME NEW w \in Workers, CallStep(w) PROVE [Map!Next]_<<Entries, clock>>
    <3>1. ASSUME NEW op, NEW ret, NEW k \in Keys, IdleStep(w, op, k, ret)
          PROVE  UNCHANGED <<Entries, clock>>
      BY <3>1 DEF IdleStep, Declined, Entries
    <3>2. RemoveStep(w, "clear", NULL, Live(sh), Undefined) => Map!Next
      BY <1>2, ClearRefines
    <3>3. \A op, ret : \A k \in Keys : RemoveStep(w, op, k, {k}, ret) => Map!Next
      BY <1>2, RemoveRefines
    <3> QED
      BY <1>2, <2>1, <3>1, <3>2, <3>3, StoreRefines, IncrRefines DEF CallStep
  <2>2. ASSUME Tick PROVE [Map!Next]_<<Entries, clock>>
    <3>1. clock' > clock /\ UNCHANGED Entries
      BY <1>2, <2>2 DEF Tick, Entries, Inv
    <3> QED
      BY <3>1 DEF Map!Next, Map!Advance
  <2>3. ASSUME NEW w \in Workers, TimeUpdate(w) PROVE UNCHANGED <<Entries, clock>>
    BY <2>3 DEF TimeUpdate, Entries
  <2>4. ASSUME UNCHANGED vars PROVE UNCHANGED <<Entries, clock>>
    BY <2>4 DEF vars, Entries
  <2> QED
    BY <1>2, <2>1, <2>2, <2>3, <2>4, CallCases DEF Next
<1> QED
  BY <1>1, <1>2, InvHolds, PTL DEF Spec, ImplementsMap, Map!Spec

====
