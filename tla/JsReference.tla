----------------------------- MODULE JsReference -----------------------------
(***************************************************************************)
(* What a script means: an evaluator over the parser's tree, in the terms  *)
(* of the ECMAScript specification (completions, environments, a fresh     *)
(* binding of let per block and per iteration), against which the          *)
(* generator and the interpreter are checked.  Nothing here is taken from  *)
(* the way the bytecode works.                                             *)
(***************************************************************************)
EXTENDS JsValues

\* A completion: k is normal, throw, break, continue or return; s the store.
Completion(k, v, label, s) == [k |-> k, v |-> v, label |-> label, s |-> s]
Normal(v, s) == Completion("normal", v, "", s)
Throw(v, s) == Completion("throw", v, "", s)
Then(r, F(_)) == IF r.k = "normal" THEN F(r) ELSE r

\* The names let, const and catch bind in a tree, inner functions left out.
RECURSIVE Declared(_)
Declared(n) ==
    IF n = NIL \/ n.t \in {"FUNCTION_EXPRESSION", "NAME", "BREAK", "CONTINUE"} \cup Primitives THEN {}
    ELSE (IF n.t \in {"LET", "CONST"} THEN {n.l.u} ELSE {}) \cup Declared(n.l) \cup Declared(n.r)

\* The store and the environment with new cells for the names in `names'.
Bind(s, e, names, value(_)) ==
    LET order == Listed(names)
    IN [s |-> [s EXCEPT !.cells = @ \o [k \in 1..Len(order) |-> value(order[k])]],
        e |-> [x \in DOMAIN e \cup names |->
                 IF x \in names THEN Len(s.cells) + (CHOOSE k \in 1..Len(order) : order[k] = x)
                 ELSE e[x]]]
Scope(s, e, n) == Bind(s, e, Declared(n), LAMBDA x : Invalid(0))
Fresh(s, e, names) == Bind(s, e, names, LAMBDA x : s.cells[e[x]])
Holding(s, e, v) == Bind(s, e, {"@value"}, LAMBDA x : v)

ReadName(s, e, x) ==
    IF s.kinds[x] = "global"
    THEN IF x \in DOMAIN s.globals THEN Normal(s.globals[x], s) ELSE Throw(Error("ReferenceError"), s)
    ELSE IF IsValid(s.cells[e[x]]) THEN Normal(s.cells[e[x]], s)
    ELSE IF s.kinds[x] \in {"let", "const"} THEN Throw(Error("ReferenceError"), s)
    ELSE Normal(Undefined, s)

Initialize(s, e, x, v) == [s EXCEPT !.cells[e[x]] = v]

\* An assignment to a name: its value is the completion's.
WriteName(s, e, x, v) ==
    Then(ReadName(s, e, x), LAMBDA r :
        IF s.kinds[x] = "const" THEN Throw(Error("TypeError"), s)
        ELSE IF s.kinds[x] = "global" THEN Normal(v, [s EXCEPT !.globals[x] = v])
        ELSE Normal(v, Initialize(s, e, x, v)))

ReadProp(s, o, k) ==
    IF o = Undefined THEN Throw(Error("TypeError"), s)
    ELSE IF o[1] = "object" /\ k \in DOMAIN s.objects[o[2]] THEN Normal(s.objects[o[2]][k], s)
    ELSE Normal(Undefined, s)
WriteProp(s, o, k, v) ==
    IF o = Undefined THEN Throw(Error("TypeError"), s)
    ELSE IF o[1] = "object" THEN Normal(v, [s EXCEPT !.objects[o[2]] = (k :> v) @@ @])
    ELSE Normal(v, s)

RECURSIVE Eval(_, _, _)

\* A reference is <<"name", x>> or <<"prop", object, key>>.
Reference(n, s, e) ==
    IF n.t = "NAME" THEN Normal(<<"name", n.u>>, s)
    ELSE Then(Eval(n.l, s, e), LAMBDA o :
         Then(Eval(n.r, o.s, e), LAMBDA k : Normal(<<"prop", o.v, k.v>>, k.s)))
GetRef(s, e, r) == IF r[1] = "name" THEN ReadName(s, e, r[2]) ELSE ReadProp(s, r[2], r[3])
PutRef(s, e, r, v) == IF r[1] = "name" THEN WriteName(s, e, r[2], v) ELSE WriteProp(s, r[2], r[3], v)

RECURSIVE EvalArgs(_, _, _, _)
EvalArgs(arg, s, e, done) ==
    IF arg = NIL THEN Normal(done, s)
    ELSE Then(Eval(arg.l, s, e), LAMBDA a : EvalArgs(arg.r, a.s, e, Append(done, a.v)))

Invoke(f, args, s) ==
    IF f[1] # "function" THEN Throw(Error("TypeError"), s)
    ELSE LET n == f[2].node
             at(x) == SelectInSeq(n.u.params, LAMBDA p : p = x)
             b == Bind(s, f[2].env, n.u.locals,
                       LAMBDA x : IF at(x) # 0
                                  THEN IF at(x) <= Len(args) THEN args[at(x)] ELSE Undefined
                                  ELSE Invalid(0))
             r == Eval(n.r, b.s, b.e)
         IN CASE r.k = "return" -> Normal(r.v, r.s)
              [] r.k = "throw" -> r
              [] OTHER -> Normal(Undefined, r.s)

-----------------------------------------------------------------------------
(* Loops.                                                                  *)

Mine(r, n) == r.label \in {"", n.u}
GoesOn(r, n) == r.k = "normal" \/ (r.k = "continue" /\ Mine(r, n))
LeftLoop(r, n) == IF r.k = "break" /\ Mine(r, n) THEN Normal(Undefined, r.s) ELSE r
LeftLabelled(r, n) == IF r.k = "break" /\ n.u # "" /\ r.label = n.u THEN Normal(Undefined, r.s) ELSE r

\* while (cond) body, and do body while (cond) when the test comes last.
RECURSIVE Loop(_, _, _, _)
Loop(n, s, e, testFirst) ==
    LET body(s1) == LET b == Scope(s1, e, n.l)
                        r == Eval(n.l, b.s, b.e)
                    IN IF GoesOn(r, n) THEN Loop(n, r.s, e, TRUE) ELSE LeftLoop(r, n)
    IN IF testFirst
       THEN Then(Eval(n.r, s, e), LAMBDA c : IF IsTrue(c.v) THEN body(c.s) ELSE Normal(Undefined, c.s))
       ELSE body(s)

\* for (init; cond; update) body: every iteration has copies of the bindings.
RECURSIVE ForLoop(_, _, _)
ForLoop(n, s, e) ==
    LET cond == n.r.l
        turn == n.r.r
        names == Declared(n.l)
        body(s1) == LET b == Scope(s1, e, turn.l)
                        r == Eval(turn.l, b.s, b.e)
                        next == Fresh(r.s, e, names)
                    IN IF GoesOn(r, n)
                       THEN Then(Eval(turn.r, next.s, next.e), LAMBDA u : ForLoop(n, u.s, next.e))
                       ELSE LeftLoop(r, n)
    IN IF cond = NIL THEN body(s)
       ELSE Then(Eval(cond, s, e), LAMBDA c : IF IsTrue(c.v) THEN body(c.s) ELSE Normal(Undefined, c.s))

\* for (left in object) body over the keys there were.
RECURSIVE ForInLoop(_, _, _, _)
ForInLoop(n, keys, s, e) ==
    LET left == n.l.l
        declared == left.t = "STATEMENT"
        name == left.r.l.u
        b0 == Scope(s, e, left)
        b == Scope(b0.s, b0.e, n.r)
        set == IF declared THEN Normal(Undefined, Initialize(b.s, b.e, name, Head(keys)))
               ELSE Then(Reference(left, b.s, b.e), LAMBDA r : PutRef(r.s, b.e, r.v, Head(keys)))
        turn == Then(set, LAMBDA r : Eval(n.r, r.s, b.e))
    IN IF keys = <<>> THEN Normal(Undefined, s)
       ELSE IF GoesOn(turn, n) THEN ForInLoop(n, Tail(keys), turn.s, e) ELSE LeftLoop(turn, n)

Keys(s, o) == IF o[1] # "object" THEN <<>>
              ELSE SortedKeys(DOMAIN s.objects[o[2]])

-----------------------------------------------------------------------------
(* switch and try.                                                         *)

\* The branches from the one that is chosen on: the first equal, or default.
RECURSIVE Select(_, _, _, _, _)
Select(branch, v, s, e, default) ==
    IF branch = NIL THEN Normal(default, s)
    ELSE IF branch.t = "DEFAULT" THEN Select(branch.l, v, s, e, branch)
    ELSE Then(Eval(branch.r.l, s, e), LAMBDA c :
         IF Compute("STRICT_EQUAL", v, c.v) = Bool(TRUE) THEN Normal(branch, c.s)
         ELSE Select(branch.l, v, c.s, e, default))
RECURSIVE FallThrough(_, _, _)
FallThrough(branch, s, e) ==
    IF branch = NIL THEN Normal(Undefined, s)
    ELSE Then(Eval(IF branch.t = "DEFAULT" THEN branch.r ELSE branch.r.r, s, e),
              LAMBDA r : FallThrough(branch.l, r.s, e))

CatchClause(c, r, e) ==
    LET b == Bind(r.s, e, {c.l.u}, LAMBDA x : r.v) IN Eval(c.r, b.s, b.e)
TryClauses(n, s, e) ==
    LET body == Eval(n.l, s, e)
        catch == IF n.r.t = "CATCH" THEN n.r ELSE n.r.l
        caught == IF body.k = "throw" /\ catch # NIL THEN CatchClause(catch, body, e) ELSE body
        final == Eval(n.r.r, caught.s, e)
    IN IF n.r.t = "CATCH" THEN caught
       ELSE IF final.k = "normal" THEN [caught EXCEPT !.s = final.s] ELSE final

-----------------------------------------------------------------------------

\* The value of an expression, the completion of a statement.
Eval(n, s, e) ==
    IF n = NIL THEN Normal(Undefined, s) ELSE
    CASE n.t = "STATEMENT" -> Then(Eval(n.l, s, e), LAMBDA r : Eval(n.r, r.s, e))
      [] n.t = "BLOCK" ->
           LET b == Scope(s, e, Node("STATEMENT", n.l, n.r, ""))
           IN LeftLabelled(Eval(Node("STATEMENT", n.l, n.r, ""), b.s, b.e), n)
      [] n.t \in {"VAR", "LET", "CONST"} ->
           IF n.r = NIL
           THEN Normal(Undefined, IF n.t = "VAR" THEN s ELSE Initialize(s, e, n.l.u, Undefined))
           ELSE Then(Eval(n.r, s, e), LAMBDA r : Normal(Undefined, Initialize(r.s, e, n.l.u, r.v)))
      [] n.t = "IF" ->
           Then(Eval(n.l, s, e), LAMBDA c :
                LET two == n.r.t = "BRANCHING"
                IN LeftLabelled(IF IsTrue(c.v) THEN Eval(IF two THEN n.r.l ELSE n.r, c.s, e)
                                ELSE IF two THEN Eval(n.r.r, c.s, e) ELSE Normal(Undefined, c.s), n))
      [] n.t = "SWITCH" ->
           Then(Eval(n.l, s, e), LAMBDA v :
                LET b == Scope(v.s, e, n.r)
                IN LeftLoop(Then(Select(n.r, v.v, b.s, b.e, NIL),
                                 LAMBDA r : FallThrough(r.v, r.s, b.e)), n))
      [] n.t = "WHILE" -> Loop(n, s, e, TRUE)
      [] n.t = "DO" -> Loop(n, s, e, FALSE)
      [] n.t = "FOR" ->
           LET b == Scope(s, e, n.l)
           IN Then(Eval(n.l, b.s, b.e), LAMBDA i :
                   LET f == Fresh(i.s, b.e, Declared(n.l)) IN ForLoop(n, f.s, f.e))
      [] n.t = "FOR_IN" -> Then(Eval(n.l.r, s, e), LAMBDA o : ForInLoop(n, Keys(o.s, o.v), o.s, e))
      [] n.t \in {"BREAK", "CONTINUE"} ->
           Completion(IF n.t = "BREAK" THEN "break" ELSE "continue", Undefined, n.u, s)
      [] n.t = "RETURN" -> Then(Eval(n.r, s, e), LAMBDA r : Completion("return", r.v, "", r.s))
      [] n.t = "THROW" -> Then(Eval(n.r, s, e), LAMBDA r : Throw(r.v, r.s))
      [] n.t = "TRY" -> TryClauses(n, s, e)
      [] n.t = "COMMA" -> Then(Eval(n.l, s, e), LAMBDA r : Eval(n.r, r.s, e))
      [] n.t = "CONDITIONAL" ->
           Then(Eval(n.l, s, e), LAMBDA c : Eval(IF IsTrue(c.v) THEN n.r.l ELSE n.r.r, c.s, e))
      [] n.t = "ASSIGNMENT" ->
           Then(Reference(n.l, s, e), LAMBDA r :
           Then(Eval(n.r, r.s, e), LAMBDA v : PutRef(v.s, e, r.v, v.v)))
      [] n.t = "OPERATION_ASSIGNMENT" ->
           Then(Reference(n.l, s, e), LAMBDA r :
           Then(GetRef(r.s, e, r.v), LAMBDA old :
           Then(Eval(n.r, old.s, e), LAMBDA v : PutRef(v.s, e, r.v, Compute(n.u, old.v, v.v)))))
      [] n.t = "LOGICAL_ASSIGNMENT" ->
           Then(Reference(n.l, s, e), LAMBDA r :
           Then(GetRef(r.s, e, r.v), LAMBDA old :
                IF ShortCut(n.u, old.v) THEN old
                ELSE Then(Eval(n.r, old.s, e), LAMBDA v : PutRef(v.s, e, r.v, v.v))))
      [] n.t \in IncDecTokens ->
           Then(Reference(n.l, s, e), LAMBDA r :
           Then(GetRef(r.s, e, r.v), LAMBDA old :
           Then(PutRef(old.s, e, r.v, Compute(n.u, old.v, Num(0))), LAMBDA new :
                Normal(IF n.t \in {"INCREMENT", "DECREMENT"} THEN new.v ELSE ToNumber(old.v), new.s))))
      [] n.t \in {"PROPERTY", "PROPERTY_REF"} ->
           Then(Reference(n, s, e), LAMBDA r : GetRef(r.s, e, r.v))
      [] n.t = "IN" ->
           Then(Eval(n.l, s, e), LAMBDA k :
           Then(Eval(n.r, k.s, e), LAMBDA o :
                IF o.v[1] = "object" THEN Normal(Bool(k.v \in DOMAIN o.s.objects[o.v[2]]), o.s)
                ELSE Throw(Error("TypeError"), o.s)))
      [] n.t \in BinaryTokens \ {"IN", "PROPERTY", "PROPERTY_REF"} ->
           Then(Eval(n.l, s, e), LAMBDA x :
           Then(Eval(n.r, x.s, e), LAMBDA y : Normal(Compute(n.u, x.v, y.v), y.s)))
      [] n.t \in LogicalTokens ->
           Then(Eval(n.l, s, e), LAMBDA x : IF ShortCut(n.u, x.v) THEN x ELSE Eval(n.r, x.s, e))
      [] n.t = "OPTIONAL_CHAIN" ->
           Then(Eval(n.l, s, e), LAMBDA x :
                LET h == Holding(x.s, e, x.v)
                IN IF x.v = Undefined THEN x ELSE Eval(n.r, h.s, h.e))
      [] n.t \in UnaryTokens ->
           IF n.t = "TYPEOF" /\ n.l.t = "NAME" /\ s.kinds[n.l.u] = "global"
              /\ n.l.u \notin DOMAIN s.globals
           THEN Normal(<<"string", "undefined">>, s)
           ELSE Then(Eval(n.l, s, e), LAMBDA x : Normal(Compute(n.u, x.v, Num(0)), x.s))
      [] n.t \in Primitives -> Normal(n.u, s)
      [] n.t \in {"OBJECT_VALUE", "OPTIONAL_PRESERVE"} -> Normal(s.cells[e["@value"]], s)
      [] n.t = "OBJECT" ->
           LET o == <<"object", Len(s.objects) + 1>>
               h == Holding([s EXCEPT !.objects = Append(@, <<>>)], e, o)
           IN Then(Eval(n.l, h.s, h.e), LAMBDA r : Normal(o, r.s))
      [] n.t = "FUNCTION_EXPRESSION" -> Normal(<<"function", [node |-> n, env |-> e]>>, s)
      [] n.t = "NAME" -> ReadName(s, e, n.u)
      [] n.t \in {"FUNCTION_CALL", "METHOD_CALL"} ->
           Then(Eval(n.l, s, e), LAMBDA f :
           Then(EvalArgs(n.r, f.s, e, <<>>), LAMBDA a : Invoke(f.v, a.v, a.s)))

\* The function body with the local variables `locals', called once.
Run(kinds, locals, body, globals) ==
    LET s == [cells |-> <<>>, objects |-> <<>>, globals |-> globals, kinds |-> kinds]
        b == Bind(s, <<>>, locals, LAMBDA x : Invalid(0))
    IN Eval(body, b.s, b.e)
====
