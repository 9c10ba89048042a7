---------------------------- MODULE MCHttpClient ----------------------------
(* Instances of HttpClient for TLC. *)
EXTENDS HttpClient, TLC

CONSTANTS f1, f2, h1, h2

A(v11, close, framing, len) ==
    [v11 |-> v11, close |-> close, framing |-> framing, len |-> len]

\* Responses within the limits.
Proper == {A(TRUE, FALSE, "length", 1), A(TRUE, FALSE, "chunked", 1),
           A(FALSE, FALSE, "none", 1), A(TRUE, TRUE, "length", 0)}
Empty == {A(TRUE, FALSE, "length", 0)}

\* Fetches are interchangeable, and so are hosts.
Symmetry == Permutations(Fetches) \cup Permutations(Hosts)
====
