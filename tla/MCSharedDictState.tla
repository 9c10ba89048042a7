------------------------- MODULE MCSharedDictState -------------------------
(* Instances of SharedDictState for TLC. *)
EXTENDS SharedDictState

CONSTANTS w1, w2, w3

====
