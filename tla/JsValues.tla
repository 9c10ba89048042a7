------------------------------ MODULE JsValues ------------------------------
(***************************************************************************)
(* Trees and values that the code generator, the interpreter and the       *)
(* reference semantics of scripts share.                                   *)
(***************************************************************************)
EXTENDS Integers, Sequences, FiniteSets, SequencesExt

\* njs_parser_node_t: a token type, two children and the token's own data.
NIL == [t |-> "NIL"]
Node(t, l, r, u) == [t |-> t, l |-> l, r |-> r, u |-> u]

\* njs_value_t: a type and what the type holds.
Undefined == <<"undefined", 0>>
Num(n) == <<"number", n>>
NaN == <<"nan", 0>>
Bool(b) == <<"boolean", b>>
Error(type) == <<"error", type>>
Invalid(n) == <<"invalid", n>>
IsValid(v) == v[1] # "invalid"

\* njs_is_true(), njs_value_to_number().
IsTrue(v) == v \notin {Undefined, Num(0), Bool(FALSE), NaN}
ToNumber(v) == IF v[1] = "number" THEN v ELSE NaN

\* The operators that programs use.
Compute(op, x, y) ==
    LET m == ToNumber(x)
        n == ToNumber(y)
        nan == NaN \in {m, n}
    IN CASE op = "ADDITION" -> IF nan THEN NaN ELSE Num(m[2] + n[2])
         [] op = "SUBTRACTION" -> IF nan THEN NaN ELSE Num(m[2] - n[2])
         [] op = "LESS" -> Bool(~nan /\ m[2] < n[2])
         [] op = "STRICT_EQUAL" -> Bool(x = y /\ x # NaN)
         [] op \in {"INCREMENT", "POST_INCREMENT"} -> IF nan THEN NaN ELSE Num(m[2] + 1)
         [] op \in {"DECREMENT", "POST_DECREMENT"} -> IF nan THEN NaN ELSE Num(m[2] - 1)
         [] op = "LOGICAL_NOT" -> Bool(~IsTrue(x))
         [] op = "UNARY_NEGATION" -> IF nan THEN NaN ELSE Num(-m[2])
         [] op = "VOID" -> Undefined
         [] op = "TYPEOF" -> <<"string", IF x = NaN THEN "number" ELSE x[1]>>

\* The elements of a set, in some order, and keys in the order of for-in.
RECURSIVE Listed(_)
Listed(S) == IF S = {} THEN <<>> ELSE LET x == CHOOSE x \in S : TRUE IN <<x>> \o Listed(S \ {x})
RECURSIVE SortedKeys(_)
SortedKeys(S) == IF S = {} THEN <<>>
                 ELSE LET k == CHOOSE k \in S : \A m \in S : k[2] <= m[2]
                      IN <<k>> \o SortedKeys(S \ {k})

Primitives == {"NUMBER", "STRING"}
BinaryTokens == {"ADDITION", "SUBTRACTION", "LESS", "STRICT_EQUAL", "IN", "PROPERTY",
                 "PROPERTY_REF"}
UnaryTokens == {"LOGICAL_NOT", "UNARY_NEGATION", "VOID", "TYPEOF"}
LogicalTokens == {"LOGICAL_AND", "LOGICAL_OR", "COALESCE"}
IncDecTokens == {"INCREMENT", "DECREMENT", "POST_INCREMENT", "POST_DECREMENT"}
\* When && || ?? and their assignments keep their left side: by their opcode.
ShortCut(op, v) == CASE op = "TEST_IF_TRUE" -> IsTrue(v)
                     [] op = "TEST_IF_FALSE" -> ~IsTrue(v)
                     [] op = "COALESCE" -> v # Undefined
====
