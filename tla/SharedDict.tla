----------------------------- MODULE SharedDict -----------------------------
(***************************************************************************)
(* The shared dictionary of nginx/ngx_js_shared_dict.c: a key/value store  *)
(* in a shared memory zone, used by every worker process through the njs   *)
(* and the QuickJS bindings.                                               *)
(*                                                                         *)
(* An operation reads the worker's cached time, takes the zone's rwlock,   *)
(* does all of its work and releases the lock.  A worker is single         *)
(* threaded and its cached time moves only in its event loop, so one call  *)
(* is one atomic step whose "now" is cached[w].  The cached times of two   *)
(* workers differ: each lags behind the clock by its own amount.           *)
(*                                                                         *)
(* A node is reachable from two trees, by key (rbtree) and by expiry time  *)
(* (rbtree_expire, only in a zone declared with timeout=), and owns slab   *)
(* memory: the node itself and, in a dictionary of strings, a separate     *)
(* block for the value.                                                    *)
(***************************************************************************)
EXTENDS Integers, FiniteSets

CONSTANTS
    Workers,        \* worker processes
    Engines,        \* script engines in use: "njs", "qjs" (js_engine)
    Keys,           \* keys used by the scripts
    Values,         \* values stored; numbers when DictType = "number"
    SizeOf,         \* slab units that a string value needs
    Chunk,          \* slab units of the zone
    DictType,       \* type= of the zone: "string" or "number"
    Timeout,        \* timeout= of the zone in milliseconds, 0 for none
    TimeoutArgs,    \* per-call timeouts the scripts pass; 0 is "undefined"
    Evict,          \* the zone is declared with evict
    EvictBatch,     \* entries one ngx_js_dict_evict() call removes (16)
    Deltas, Inits,  \* arguments of incr()
    MaxTime,        \* bound on the clock
    NULL            \* the null pointer

ASSUME TypeAssumption ==
    /\ DictType \in {"string", "number"}
    /\ Engines \subseteq {"njs", "qjs"}
ASSUME TimeAssumption ==
    /\ Timeout \in Nat
    /\ TimeoutArgs \subseteq Nat
    /\ MaxTime \in Nat
ASSUME ZoneAssumption ==          \* "evict requires timeout="
    /\ Evict \in BOOLEAN
    /\ Evict => Timeout > 0
    /\ EvictBatch \in Nat \ {0}
ASSUME SizeAssumption == DictType = "string" => SizeOf \in [Values -> Nat \ {0}]
ASSUME KeysAssumption == IsFiniteSet(Keys)
ASSUME NumberAssumption ==
    DictType = "number" => (Values \cup Deltas \cup Inits) \subseteq Int

(***************************************************************************)
(* A node: its own slab unit, the units of its value, the value, and the   *)
(* key of its entry in the expire tree.                                    *)
(***************************************************************************)
Node == [node : Chunk, data : SUBSET Chunk, value : Values, expire : Nat]

\* The null pointer is not a node, nor what scripts see of one.
ASSUME NullAssumption == NULL \notin Node
ASSUME EntryAssumption == NULL \notin [value : Values, expire : Nat]

VARIABLES
    sh,       \* the zone: rbtree, rbtree_expire, used (the slab), dirty
    clock,    \* wall clock time
    cached,   \* ngx_timeofday() of each worker
    res       \* the last call: [op, by, key, ret]

vars == <<sh, clock, cached, res>>

(***************************************************************************)
(* The content of the zone.  rbtree maps every key to its node or to NULL, *)
(* rbtree_expire is the set of keys whose node is in the expire tree,      *)
(* whose order is the order of their expire fields, and used is the set of *)
(* slab units in use.                                                      *)
(***************************************************************************)
Zone == [rbtree : [Keys -> Node \cup {NULL}],
         rbtree_expire : SUBSET Keys,
         used : SUBSET Chunk,
         dirty : BOOLEAN]

Live(s) == {k \in Keys : s.rbtree[k] # NULL}
Blocks(nd) == {nd.node} \cup nd.data

\* ngx_rbtree_delete() from both trees and ngx_js_dict_node_free(), for every
\* node of the keys in S.
ngx_js_dict_node_free(s, S) ==
    [s EXCEPT !.rbtree = [k \in Keys |-> IF k \in S THEN NULL ELSE @[k]],
              !.rbtree_expire = @ \ S,
              !.used = @ \ UNION {Blocks(s.rbtree[k]) : k \in S}]

\* ngx_js_dict_expire(): the expire tree is walked from its minimum until
\* the first entry that is not due at now.
ngx_js_dict_expire(s, now) ==
    ngx_js_dict_node_free(s,
        {k \in s.rbtree_expire : s.rbtree[k].expire <= now})

-----------------------------------------------------------------------------
(* Slab allocation, with eviction. *)

\* The blocks of n units that ngx_slab_alloc_locked() can return.
Fitting(s, n) == {p \in SUBSET (Chunk \ s.used) : Cardinality(p) = n}

\* Mutant: eviction starts from the entries that expire last.
ExpireSuffix(s, S) ==
    \A k \in S, j \in s.rbtree_expire \ S :
        s.rbtree[k].expire >= s.rbtree[j].expire

\* S is a prefix of the expire tree in the order of expiry.  Entries that
\* expire at the same time may come in any order.
ExpirePrefix(s, S) ==
    \A k \in S, j \in s.rbtree_expire \ S :
        s.rbtree[k].expire <= s.rbtree[j].expire

Fails(s, S, n) == Fitting(ngx_js_dict_node_free(s, S), n) = {}

\* The sets of keys the loop of ngx_js_dict_alloc() may have evicted when it
\* ends: whole batches from the front of the expire tree, just enough of
\* them for the allocation to succeed, or everything.
EvictedBy(s, n) ==
    {S \in SUBSET s.rbtree_expire :
        /\ ExpirePrefix(s, S)
        /\ \/ S = s.rbtree_expire
           \/ ~Fails(s, S, n) /\ Cardinality(S) % EvictBatch = 0
        /\ S # {} =>
             \E T \in SUBSET S :
                /\ ExpirePrefix(s, T)
                /\ Cardinality(T) =
                     ((Cardinality(S) - 1) \div EvictBatch) * EvictBatch
                /\ Fails(s, T, n)}

\* What ngx_slab_alloc_locked() returns for n units: a block, {} for NULL.
Allocated(s, n) ==
    [zone |-> s,
     p |-> IF Fitting(s, n) = {} THEN {} ELSE CHOOSE p \in Fitting(s, n) : TRUE]

\* ngx_js_dict_alloc(): the zone after it, and the block it returns.
ngx_js_dict_alloc(s, n) ==
    {Allocated(ngx_js_dict_node_free(s, S), n) :
        S \in IF Evict THEN EvictedBy(s, n) ELSE {{}}}

-----------------------------------------------------------------------------
(* Internal operations: the set of their outcomes [zone, ok]. *)

Outcome(s, b) == [zone |-> s, ok |-> b]

Reserve(s, p) == [s EXCEPT !.used = @ \cup p]
Release(s, p) == [s EXCEPT !.used = @ \ p]

\* The node nd becomes the node of k and, in a zone with timeout=, an entry of
\* the expire tree, due at now + timeout.
Insert(s, k, nd, now, timeout) ==
    [s EXCEPT !.rbtree[k] =
                [nd EXCEPT !.expire = IF Timeout > 0 THEN now + timeout ELSE @],
              !.rbtree_expire = IF Timeout > 0 THEN @ \cup {k} ELSE @]

\* Mutant: a failed update does not put the node back.
RelinkForgotten(s, k) == s

\* The node k leaves the expire tree, or comes back to it.
Unlink(s, k) == [s EXCEPT !.rbtree_expire = @ \ {k}]
Relink(s, k) ==
    [s EXCEPT !.rbtree_expire = IF Timeout > 0 THEN @ \cup {k} ELSE @]

\* Mutant: the node is not freed when there is no memory for its value.
AddStringLeaks(s, k, c, v, timeout, now) ==
    {IF b.p = {}
     THEN Outcome(b.zone, FALSE)
     ELSE Outcome(Insert(Reserve(b.zone, b.p), k,
                         [node |-> c, data |-> b.p, value |-> v, expire |-> 0],
                         now, timeout), TRUE) :
        b \in ngx_js_dict_alloc(s, SizeOf[v])}

\* The second allocation of ngx_js_dict_add_value(), for a string; when it
\* fails the node c just allocated is freed.
AddString(s, k, c, v, timeout, now) ==
    {IF b.p = {}
     THEN Outcome(Release(b.zone, {c}), FALSE)
     ELSE Outcome(Insert(Reserve(b.zone, b.p), k,
                         [node |-> c, data |-> b.p, value |-> v, expire |-> 0],
                         now, timeout), TRUE) :
        b \in ngx_js_dict_alloc(s, SizeOf[v])}

AddNumber(s, k, c, v, timeout, now) ==
    {Outcome(Insert(s, k,
                    [node |-> c, data |-> {}, value |-> v, expire |-> 0],
                    now, timeout), TRUE)}

\* The node takes one slab unit.
AddNode(a, k, v, timeout, now) ==
    UNION {IF DictType = "string"
           THEN AddString(Reserve(a.zone, {c}), k, c, v, timeout, now)
           ELSE AddNumber(Reserve(a.zone, {c}), k, c, v, timeout, now) :
             c \in a.p}

ngx_js_dict_add_value(s, k, v, timeout, now) ==
    LET due == IF Timeout > 0 THEN ngx_js_dict_expire(s, now) ELSE s
    IN  UNION {IF a.p = {} THEN {Outcome(a.zone, FALSE)}
               ELSE AddNode(a, k, v, timeout, now) :
                 a \in ngx_js_dict_alloc(due, 1)}

\* Mutant: the old value is freed before memory for the new one is allocated.
UpdateFreesFirst(s, k, v, timeout, now) ==
    IF DictType = "string"
    THEN {LET old == b.zone.rbtree[k]
          IN  IF b.p = {}
              THEN Outcome([Relink(b.zone, k) EXCEPT !.rbtree[k].data = {}], FALSE)
              ELSE Outcome(Insert(Reserve(b.zone, b.p), k,
                                  [old EXCEPT !.data = b.p, !.value = v],
                                  now, timeout), TRUE) :
            b \in ngx_js_dict_alloc(Release(Unlink(s, k), s.rbtree[k].data),
                                    SizeOf[v])}
    ELSE {Outcome(Insert(Unlink(s, k), k, [s.rbtree[k] EXCEPT !.value = v],
                         now, timeout), TRUE)}

\* ngx_js_dict_update() and ngx_qjs_dict_update(): the node is out of the
\* expire tree while memory for its new value is allocated.
ngx_js_dict_update(s, k, v, timeout, now) ==
    IF DictType = "string"
    THEN {LET old == b.zone.rbtree[k]
          IN  IF b.p = {}
              THEN Outcome(Relink(b.zone, k), FALSE)
              ELSE Outcome(Insert(Release(Reserve(b.zone, b.p), old.data), k,
                                  [old EXCEPT !.data = b.p, !.value = v],
                                  now, timeout), TRUE) :
            b \in ngx_js_dict_alloc(Unlink(s, k), SizeOf[v])}
    ELSE {Outcome(Insert(Unlink(s, k), k, [s.rbtree[k] EXCEPT !.value = v],
                         now, timeout), TRUE)}

-----------------------------------------------------------------------------
(* Operations of the JavaScript object, one action for each engine.  A call  *)
(* that throws before it takes the lock changes nothing and is not an        *)
(* action: a value of the wrong type, a timeout argument for a zone without  *)
(* timeout= or below 1, incr() of a dictionary of strings, a key that cannot *)
(* be converted for lack of memory in the script's heap.                     *)

\* What a call returns or throws.  A lack of memory in the zone is thrown as
\* SharedMemoryError, by incr() of njs as a plain Error: MemoryError stands for
\* both.  QuickJS converts the value after it has taken the lock and throws
\* SharedMemoryError when that fails: ConversionError has another cause.
Val(v) == <<"value", v>>
Undefined == <<"undefined">>
Bool(b) == <<"boolean", b>>
TypeError == <<"TypeError">>
HeapError == <<"InternalError">>
MemoryError == <<"no memory", "zone">>
ConversionError == <<"no memory", "heap">>

\* now < node->expire.key, or the zone has no timeout=.
Fresh(nd, now) == Timeout = 0 \/ now < nd.expire

Return(w, op, k, ret) == res' = [op |-> op, by |-> w, key |-> k, ret |-> ret]

\* The end of a modifying call: a success marks the zone dirty, an outcome
\* without memory is reported and leaves the flag alone.
Commit(w, op, k, r, ret) ==
    /\ sh' = [r.zone EXCEPT !.dirty = @ \/ r.ok]
    /\ Return(w, op, k, IF r.ok THEN ret ELSE MemoryError)
    /\ UNCHANGED <<clock, cached>>

\* A call that finds nothing to do.
Declined(w, op, k, ret) ==
    /\ Return(w, op, k, ret)
    /\ UNCHANGED <<sh, clock, cached>>

\* A call without a timeout argument uses the timeout of the zone.
TimeoutArg(t) == t # 0 => Timeout > 0
OrDefault(t) == IF t # 0 THEN t ELSE Timeout

\* ngx_js_dict_set(): set() is called with no flag, add() with MUST_NOT_EXIST
\* and replace() with MUST_EXIST.
ngx_js_dict_set(w, op, k, v, timeout) ==
    LET nd == sh.rbtree[k]
        missing == nd = NULL
        declined == \/ missing /\ op = "replace"
                    \/ ~missing /\ op = "add" /\ Fresh(nd, cached[w])
    IN  \/ declined /\ Declined(w, op, k, Bool(FALSE))
        \/ /\ ~declined
           /\ \E r \in IF missing
                       THEN ngx_js_dict_add_value(sh, k, v, timeout, cached[w])
                       ELSE ngx_js_dict_update(sh, k, v, timeout, cached[w]) :
                 Commit(w, op, k, r, Bool(TRUE))

njs_js_ext_shared_dict_set(w, k) ==
    \E op \in {"set", "add", "replace"}, v \in Values, t \in TimeoutArgs :
        TimeoutArg(t) /\ ngx_js_dict_set(w, op, k, v, OrDefault(t))

\* The value is a string that cannot be converted.
Unconverted(w, op, k) == DictType = "string" /\ Declined(w, op, k, ConversionError)

ngx_qjs_dict_add(w, op, k, v, timeout, ret) ==
    \E r \in ngx_js_dict_add_value(sh, k, v, timeout, cached[w]) : Commit(w, op, k, r, ret)

\* As ngx_js_dict_update().  The value is converted while the node is out of
\* the expire tree, and the node is put back where it was when that fails.
ngx_qjs_dict_update(w, op, k, v, timeout) ==
    \/ Unconverted(w, op, k)
    \/ \E r \in ngx_js_dict_update(sh, k, v, timeout, cached[w]) :
          Commit(w, op, k, r, Bool(TRUE))

ngx_qjs_dict_set(w, op, k, v, timeout) ==
    LET nd == sh.rbtree[k]
    IN  \/ /\ nd = NULL
           /\ \/ op = "replace" /\ Declined(w, op, k, Bool(FALSE))
              \/ op # "replace" /\ Unconverted(w, op, k)
              \/ op # "replace" /\ ngx_qjs_dict_add(w, op, k, v, timeout, Bool(TRUE))
        \/ /\ nd # NULL
           /\ IF op = "add" /\ Fresh(nd, cached[w])
              THEN Declined(w, op, k, Bool(FALSE))
              ELSE ngx_qjs_dict_update(w, op, k, v, timeout)

ngx_qjs_ext_shared_dict_set(w, k) ==
    \E op \in {"set", "add", "replace"}, v \in Values, t \in TimeoutArgs :
        TimeoutArg(t) /\ ngx_qjs_dict_set(w, op, k, v, OrDefault(t))

\* What pop() returns.  The value is copied to the script's heap when it has
\* not expired; the copy of a string may fail for lack of memory there, and
\* the node is removed all the same.
Popped(nd, now) ==
    IF ~Fresh(nd, now) THEN {Undefined}
    ELSE {Val(nd.value)} \cup (IF DictType = "string" THEN {HeapError} ELSE {})

\* delete() and pop(): the node goes, whether it has expired or not.
Remove(w, op, k) ==
    \E ret \in IF op = "pop" THEN Popped(sh.rbtree[k], cached[w]) ELSE {Bool(TRUE)} :
        Commit(w, op, k, Outcome(ngx_js_dict_node_free(sh, {k}), TRUE), ret)

\* A missing key is reported as false by delete() in njs, and as undefined in
\* QuickJS.
ngx_js_dict_delete(w, op, k) ==
    \/ /\ sh.rbtree[k] = NULL
       /\ Declined(w, op, k, IF op = "pop" THEN Undefined ELSE Bool(FALSE))
    \/ sh.rbtree[k] # NULL /\ Remove(w, op, k)

ngx_qjs_dict_delete(w, op, k) ==
    \/ sh.rbtree[k] = NULL /\ Declined(w, op, k, Undefined)
    \/ sh.rbtree[k] # NULL /\ Remove(w, op, k)

njs_js_ext_shared_dict_delete(w, k) == ngx_js_dict_delete(w, "delete", k)
njs_js_ext_shared_dict_pop(w, k) == ngx_js_dict_delete(w, "pop", k)
ngx_qjs_ext_shared_dict_delete(w, k) == ngx_qjs_dict_delete(w, "delete", k)
ngx_qjs_ext_shared_dict_pop(w, k) == ngx_qjs_dict_delete(w, "pop", k)

\* Mutant: incr() gives the node the timeout of the zone.
IncrementedAnew(k, delta, timeout, now) ==
    LET nd == [sh.rbtree[k] EXCEPT !.value = @ + delta]
    IN  Insert(sh, k, nd, now, OrDefault(timeout))

\* The node of k after incr(): the expiry time is not looked at, and it is
\* renewed only when the call has a timeout argument.
Incremented(k, delta, timeout, now) ==
    LET nd == [sh.rbtree[k] EXCEPT !.value = @ + delta]
    IN  IF timeout # 0 THEN Insert(sh, k, nd, now, timeout)
        ELSE [sh EXCEPT !.rbtree[k] = nd]

\* incr() of a key that exists.  Values is the range of numbers the model
\* covers.
Increment(w, k, delta, timeout) ==
    LET sum == sh.rbtree[k].value + delta
    IN  /\ sum \in Values
        /\ Commit(w, "incr", k, Outcome(Incremented(k, delta, timeout, cached[w]), TRUE),
                  Val(sum))

ngx_js_dict_incr(w, k, delta, init, timeout) ==
    \/ /\ sh.rbtree[k] = NULL
       /\ init + delta \in Values
       /\ \E r \in ngx_js_dict_add_value(sh, k, init + delta, OrDefault(timeout),
                                         cached[w]) :
             Commit(w, "incr", k, r, Val(init + delta))
    \/ sh.rbtree[k] # NULL /\ Increment(w, k, delta, timeout)

\* A number is converted without allocating memory.
ngx_qjs_dict_incr(w, k, delta, init, timeout) ==
    IF sh.rbtree[k] = NULL
    THEN /\ init + delta \in Values
         /\ ngx_qjs_dict_add(w, "incr", k, init + delta, OrDefault(timeout),
                             Val(init + delta))
    ELSE Increment(w, k, delta, timeout)

njs_js_ext_shared_dict_incr(w, k) ==
    /\ DictType = "number"
    /\ \E d \in Deltas, i \in Inits, t \in TimeoutArgs :
          TimeoutArg(t) /\ ngx_js_dict_incr(w, k, d, i, t)

ngx_qjs_ext_shared_dict_incr(w, k) ==
    /\ DictType = "number"
    /\ \E d \in Deltas, i \in Inits, t \in TimeoutArgs :
          TimeoutArg(t) /\ ngx_qjs_dict_incr(w, k, d, i, t)

\* clear(): through the expire tree in a zone with timeout=, through the tree
\* of keys in one without.
njs_js_ext_shared_dict_clear(w) ==
    LET walked == IF Timeout > 0 THEN sh.rbtree_expire ELSE Live(sh)
    IN  Commit(w, "clear", NULL, Outcome(ngx_js_dict_node_free(sh, walked), TRUE),
               Undefined)

ngx_qjs_ext_shared_dict_clear(w) ==
    \E walked \in {IF Timeout > 0 THEN sh.rbtree_expire ELSE Live(sh)} :
        Commit(w, "clear", NULL, Outcome(ngx_js_dict_node_free(sh, walked), TRUE),
               Undefined)

-----------------------------------------------------------------------------
(* Operations that only read, as functions of the state: what a call by      *)
(* worker w returns, in njs and in QuickJS.                                  *)

ngx_js_dict_get(w, k) ==
    IF sh.rbtree[k] = NULL THEN Undefined
    ELSE IF Timeout > 0 /\ cached[w] >= sh.rbtree[k].expire THEN Undefined
    ELSE Val(sh.rbtree[k].value)

\* Mutant: the last millisecond counts as alive.
HasLate(w, k) ==
    /\ sh.rbtree[k] # NULL
    /\ ~(Timeout > 0 /\ cached[w] > sh.rbtree[k].expire)

has(w, k) ==
    /\ sh.rbtree[k] # NULL
    /\ ~(Timeout > 0 /\ cached[w] >= sh.rbtree[k].expire)

ttl(w, k) ==
    IF Timeout = 0 THEN TypeError
    ELSE IF sh.rbtree[k] # NULL /\ cached[w] < sh.rbtree[k].expire
    THEN Val(sh.rbtree[k].expire - cached[w])
    ELSE Undefined

\* The nodes that keys(), items() and size() do not skip; keys() and items()
\* stop after max_count of them, in the order of the hash of the key.
Listed(w) ==
    {k \in Live(sh) : ~(Timeout > 0 /\ cached[w] >= sh.rbtree[k].expire)}

\* The sets of nodes of L a walk may have met when it ends.  A count that is
\* negative, or the large number it is converted to, stops nothing.
Walked(L, max_count) ==
    {S \in SUBSET L :
        IF max_count < 0 THEN S = L
        ELSE \/ Cardinality(S) = max_count
             \/ Cardinality(S) < max_count /\ S = L}

keys(w, max_count) == Walked(Listed(w), max_count)

items(w, max_count) ==
    {{<<k, Val(sh.rbtree[k].value)>> : k \in S} : S \in keys(w, max_count)}

size(w) == Cardinality(Listed(w))

ngx_qjs_dict_get(w, k) ==
    IF sh.rbtree[k] # NULL /\ (Timeout > 0 => cached[w] < sh.rbtree[k].expire)
    THEN Val(sh.rbtree[k].value)
    ELSE Undefined

ngx_qjs_ext_shared_dict_has(w, k) ==
    LET nd == sh.rbtree[k]
        node == IF nd # NULL /\ Timeout > 0 /\ cached[w] >= nd.expire THEN NULL ELSE nd
    IN  node # NULL

ngx_qjs_ext_shared_dict_ttl(w, k) ==
    LET nd == sh.rbtree[k]
    IN  IF Timeout = 0 THEN TypeError
        ELSE IF nd = NULL \/ cached[w] >= nd.expire THEN Undefined
        ELSE Val(nd.expire - cached[w])

\* The walk of the tree of keys that skips what has expired.
QjsListed(w) == {k \in Keys : sh.rbtree[k] # NULL /\ Fresh(sh.rbtree[k], cached[w])}

ngx_qjs_ext_shared_dict_keys(w, max_count) == Walked(QjsListed(w), max_count)

ngx_qjs_ext_shared_dict_items(w, max_count) ==
    {{<<k, Val(sh.rbtree[k].value)>> : k \in S} : S \in Walked(QjsListed(w), max_count)}

ngx_qjs_ext_shared_dict_size(w) == Cardinality(QjsListed(w))

-----------------------------------------------------------------------------
(* Time, external to this code: the clock advances, and a worker's event     *)
(* loop refreshes its cached time.                                           *)

Tick ==
    /\ clock < MaxTime
    /\ clock' = clock + 1
    /\ UNCHANGED <<sh, cached, res>>

TimeUpdate(w) ==
    /\ cached[w] < clock
    /\ cached' = [cached EXCEPT ![w] = clock]
    /\ UNCHANGED <<sh, clock, res>>

Init ==
    /\ sh = [rbtree |-> [k \in Keys |-> NULL], rbtree_expire |-> {},
             used |-> {}, dirty |-> FALSE]
    /\ clock = 0
    /\ cached = [w \in Workers |-> 0]
    /\ res = [op |-> "init", by |-> NULL, key |-> NULL, ret |-> Undefined]

\* The calls of the two engines.
NjsCall(w) ==
    /\ "njs" \in Engines
    /\ \/ \E k \in Keys : \/ njs_js_ext_shared_dict_set(w, k)
                          \/ njs_js_ext_shared_dict_incr(w, k)
                          \/ njs_js_ext_shared_dict_delete(w, k)
                          \/ njs_js_ext_shared_dict_pop(w, k)
       \/ njs_js_ext_shared_dict_clear(w)

QjsCall(w) ==
    /\ "qjs" \in Engines
    /\ \/ \E k \in Keys : \/ ngx_qjs_ext_shared_dict_set(w, k)
                          \/ ngx_qjs_ext_shared_dict_incr(w, k)
                          \/ ngx_qjs_ext_shared_dict_delete(w, k)
                          \/ ngx_qjs_ext_shared_dict_pop(w, k)
       \/ ngx_qjs_ext_shared_dict_clear(w)

Next ==
    \/ \E w \in Workers : NjsCall(w) \/ QjsCall(w) \/ TimeUpdate(w)
    \/ Tick

Spec == Init /\ [][Next]_vars

-----------------------------------------------------------------------------
(* Properties of a zone, for any state its operations pass through. *)

\* The expire tree holds exactly the nodes of the tree of keys, or nothing in
\* a zone without timeout=: neither ngx_js_dict_expire() nor
\* ngx_js_dict_evict() can meet a freed node, or miss one.
TreesAgreeIn(s) == s.rbtree_expire = IF Timeout > 0 THEN Live(s) ELSE {}

\* Every slab unit in use belongs to one node, and to one only.
NoLeakIn(s) ==
    /\ s.used = UNION {Blocks(s.rbtree[k]) : k \in Live(s)}
    /\ \A k \in Live(s) : s.rbtree[k].node \notin s.rbtree[k].data
    /\ \A j, k \in Live(s) :
          j # k => Blocks(s.rbtree[j]) \cap Blocks(s.rbtree[k]) = {}

\* The state has its type.
TypeOK ==
    /\ sh \in Zone
    /\ clock \in Nat
    /\ cached \in [Workers -> Nat]
    /\ \A w \in Workers : cached[w] <= clock

\* Whatever the operations do in whatever order, with allocations failing and
\* nodes evicted between them, the tree of keys and the expire tree hold the
\* same nodes (ngx_js_dict_update() takes the node out while it allocates).
TreesAgree == TreesAgreeIn(sh)

\* No slab memory is lost, and none is freed while a node still uses it: the
\* error paths of ngx_js_dict_add_value() and ngx_js_dict_update() included.
NoLeak == NoLeakIn(sh)

\* get(), has(), ttl(), keys(), items() and size() called by one worker agree
\* on which keys exist, at the very millisecond of expiry too, and each of
\* them says the same in both engines.
ReadersAgree ==
    \A w \in Workers :
        /\ \A k \in Keys :
              /\ has(w, k) <=> ngx_js_dict_get(w, k) # Undefined
              /\ Timeout > 0 => (has(w, k) <=> ttl(w, k) # Undefined)
              /\ ngx_qjs_dict_get(w, k) = ngx_js_dict_get(w, k)
              /\ ngx_qjs_ext_shared_dict_has(w, k) <=> has(w, k)
              /\ ngx_qjs_ext_shared_dict_ttl(w, k) = ttl(w, k)
        /\ keys(w, -1) = {{k \in Keys : has(w, k)}}
        /\ \A n \in 0..Cardinality(Keys), L \in items(w, size(w)) :
              \A S \in keys(w, n) : \A k \in S : <<k, ngx_js_dict_get(w, k)>> \in L
        /\ \A n \in -1..Cardinality(Keys) :
              /\ ngx_qjs_ext_shared_dict_keys(w, n) = keys(w, n)
              /\ ngx_qjs_ext_shared_dict_items(w, n) = items(w, n)
        /\ ngx_qjs_ext_shared_dict_size(w) = size(w)

\* A call that throws for lack of memory leaves the node of its key as it was,
\* whatever it evicted on the way; and when the zone with evict was at fault,
\* nothing was left to evict: the only node that may remain is the one being
\* updated.
FailedCallKeepsEntry ==
    [][res'.ret \in {MemoryError, ConversionError} =>
          /\ sh'.rbtree[res'.key] = sh.rbtree[res'.key]
          /\ Evict /\ res'.ret = MemoryError => sh'.rbtree_expire \subseteq {res'.key}]_vars

\* incr() without a timeout argument never moves the expiry time of a node
\* that exists, in either engine.
IncrKeepsExpiry ==
    [][\A w \in Workers, k \in Keys, d \in Deltas, i \in Inits :
          /\ ngx_js_dict_incr(w, k, d, i, 0) \/ ngx_qjs_dict_incr(w, k, d, i, 0)
          /\ sh.rbtree[k] # NULL
          => sh'.rbtree[k].expire = sh.rbtree[k].expire]_vars

\* The dictionary as a map from keys to values with an expiry time.
Entries ==
    [k \in Keys |-> IF sh.rbtree[k] = NULL THEN NULL
                    ELSE [value |-> sh.rbtree[k].value,
                          expire |-> sh.rbtree[k].expire]]

Map == INSTANCE ExpiringMap WITH store <- Entries, Expires <- Timeout > 0

\* The dictionary is a map that changes one key at a time and forgets entries
\* by itself only when they have expired or, with evict, in the order in
\* which they expire.
ImplementsMap == Map!Spec

====
