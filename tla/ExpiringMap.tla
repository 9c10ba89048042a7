---------------------------- MODULE ExpiringMap ----------------------------
(***************************************************************************)
(* What a shared dictionary promises to the scripts: a map from keys to    *)
(* values, each with an expiry time.  One call changes one key, or clears  *)
(* the map.  Besides, a call that stores something may forget other        *)
(* entries: the ones that have expired and, in a zone with evict, the ones *)
(* next to expire.                                                         *)
(***************************************************************************)
EXTENDS Naturals

CONSTANTS Keys, Values, Expires, Evict, NULL

VARIABLES store, clock

Entry == [value : Values, expire : Nat]

Present == {k \in Keys : store[k] # NULL}

\* The entries that a call about key k may forget.
Forgettable(k, S) ==
    /\ S # {} => Expires
    /\ \A j \in S, i \in Present \ (S \cup {k}) : store[j].expire <= store[i].expire
    /\ ~Evict => \A j \in S : store[j].expire <= clock

Forget(S) == [j \in Keys |-> IF j \in S THEN NULL ELSE store[j]]

Store(k) ==
    \E S \in SUBSET (Present \ {k}) :
        /\ Forgettable(k, S)
        /\ store'[k] \in Entry
        /\ store' = [Forget(S) EXCEPT ![k] = store'[k]]

Fail(k) ==
    \E S \in SUBSET (Present \ {k}) : Forgettable(k, S) /\ store' = Forget(S)

Remove(k) == store' = Forget({k})

Clear == store' = [k \in Keys |-> NULL]

Advance == clock' > clock /\ UNCHANGED store

Init == store = [k \in Keys |-> NULL] /\ clock = 0

Next ==
    \/ /\ Clear \/ \E k \in Keys : Store(k) \/ Fail(k) \/ Remove(k)
       /\ UNCHANGED clock
    \/ Advance

Spec == Init /\ [][Next]_<<store, clock>>

====
