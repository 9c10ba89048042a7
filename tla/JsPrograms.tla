----------------------------- MODULE JsPrograms -----------------------------
(***************************************************************************)
(* Small scripts, as the trees the parser makes of them: constructors, and *)
(* the families every member of which is parsed, compiled and run.         *)
(***************************************************************************)
EXTENDS JsValues

N(x) == Node("NAME", NIL, NIL, x)
C(k) == Node("NUMBER", NIL, NIL, Num(k))
Bin(op, x, y) == Node(op, x, y, op)
Get(o, k) == Node("PROPERTY", o, k, "PROPERTY_GET")
Ref(n) == IF n.t = "PROPERTY" THEN [n EXCEPT !.t = "PROPERTY_REF"] ELSE n
Set(x, v) == Node("ASSIGNMENT", Ref(x), v, "")
OpSet(op, x, v) == Node("OPERATION_ASSIGNMENT", Ref(x), v, op)
LogSet(op, x, v) == Node("LOGICAL_ASSIGNMENT", Ref(x), v, op)
Step(t, x) == Node(t, Ref(x), NIL, t)
Un(t, x) == Node(t, x, NIL, t)
And(x, y) == Node("LOGICAL_AND", x, y, "TEST_IF_FALSE")
Or(x, y) == Node("LOGICAL_OR", x, y, "TEST_IF_TRUE")
Coalesce(x, y) == Node("COALESCE", x, y, "COALESCE")
Cond(c, x, y) == Node("CONDITIONAL", c, Node("BRANCHING", x, y, ""), "")
Comma(x, y) == Node("COMMA", x, y, "")
Chain(x, k) == Node("OPTIONAL_CHAIN", x, Get(Node("OPTIONAL_PRESERVE", NIL, NIL, ""), k), "")
RECURSIVE Args(_)
Args(es) == IF es = <<>> THEN NIL ELSE Node("ARGUMENT", Head(es), Args(Tail(es)), "")
CallF(f, es) == Node("FUNCTION_CALL", f, Args(es), "")
CallM(o, k, es) == Node("METHOD_CALL", Ref(Get(o, k)), Args(es), "")
RECURSIVE Seq1(_)
Seq1(stmts) == CASE stmts = <<>> -> NIL
                 [] Last(stmts) = NIL -> Seq1(Front(stmts))
                 [] OTHER -> Node("STATEMENT", Seq1(Front(stmts)), Last(stmts), "")
Block(label, stmts) == Node("BLOCK", Seq1(stmts), NIL, label)
B(stmts) == Block("", stmts)
Var1(x, e) == Seq1(<<Node("VAR", N(x), e, "")>>)
Let(x, e) == Seq1(<<Node("LET", N(x), e, "")>>)
Const1(x, e) == Seq1(<<Node("CONST", N(x), e, "")>>)
If(c, s) == Node("IF", c, s, "")
IfElse(c, s, t) == Node("IF", c, Node("BRANCHING", s, t, ""), "")
While(label, c, s) == Node("WHILE", s, c, label)
Do(label, s, c) == Node("DO", s, c, label)
For(label, i, c, u, s) == Node("FOR", i, Node("", c, Node("", s, u, ""), ""), label)
ForIn(label, left, o, s) ==
    Node("FOR_IN", Node("IN", Ref(left), o, IF left.t = "STATEMENT" THEN "" ELSE "PROPERTY_IN"), s, label)
Break(l) == Node("BREAK", NIL, NIL, l)
Continue(l) == Node("CONTINUE", NIL, NIL, l)
Ret(e) == Node("RETURN", NIL, e, "")
ThrowN(e) == Node("THROW", NIL, e, "")
Catch1(stmts) == Node("CATCH", N("e"), B(stmts), "")
Try1(body, final) == Node("TRY", B(body), final, "")
Fin(catch, stmts) == Node("FINALLY", catch, B(stmts), "")
Switch(label, e, branches) == Node("SWITCH", e, branches, label)

\* The names a function body declares, in any of its blocks.
RECURSIVE DeclaredIn(_)
DeclaredIn(n) ==
    CASE n = NIL \/ n.t \in {"NAME", "FUNCTION_EXPRESSION"} -> {}
      [] n.t = "FUNCTION_DECLARATION" -> {n.l.u}
      [] n.t \in {"VAR", "LET", "CONST", "CATCH"} -> {n.l.u} \cup DeclaredIn(n.r)
      [] OTHER -> DeclaredIn(n.l) \cup DeclaredIn(n.r)
\* A body that does not end with a "return" gets one.
Body(stmts) == IF stmts # <<>> /\ Last(stmts).t = "RETURN" THEN Seq1(stmts)
               ELSE Node("STATEMENT", Seq1(stmts), Ret(NIL), "")
Fun(params, stmts) ==
    Node("FUNCTION_EXPRESSION", NIL, Body(stmts),
         [params |-> params, locals |-> ToSet(params) \cup DeclaredIn(Seq1(stmts))])
RECURSIVE Props(_)
Props(kvs) == IF kvs = <<>> THEN NIL
              ELSE Node("STATEMENT", Props(Front(kvs)),
                        Node("ASSIGNMENT", Node("PROPERTY_INIT", Node("OBJECT_VALUE", NIL, NIL, ""),
                                                C(Last(kvs)[1]), ""), Last(kvs)[2], ""), "")
Obj(kvs) == Node("OBJECT", Props(kvs), NIL, "")

Kinds == [x \in {"a", "b", "f", "g", "h", "o", "p", "q"} |-> "var"]
         @@ [x \in {"i", "x", "y"} |-> "let"] @@ ("c" :> "const") @@ ("e" :> "catch")
         @@ [x \in {"G", "H"} |-> "global"]
\* A function's body, with its variables declared first.
Declare(names) == FoldSeq(LAMBDA x, chain : Node("STATEMENT", chain, Node("VAR", N(x), NIL, ""), ""), NIL, names)
Program(stmts) ==
    LET all == <<Declare(<<"a", "b", "f", "g", "h", "o">>)>> \o stmts
    IN [kinds |-> Kinds, locals |-> DeclaredIn(Seq1(all)), body |-> Body(all)]

Bump(x) == Step("POST_INCREMENT", N(x))
\* b counts in base 2 what happened.
Log(k) == Set(N("b"), Bin("ADDITION", Bin("ADDITION", N("b"), N("b")), C(k)))

-----------------------------------------------------------------------------
(* Expressions with side effects in every position.                        *)

\* function (p) { a = p; return a + 1 }
Setter == Fun(<<"p">>, <<Set(N("a"), N("p")), Ret(Bin("ADDITION", N("a"), C(1)))>>)

Pure == {N("a"), C(2), N("G"), Get(N("o"), C(1)), Un("UNARY_NEGATION", N("a")), N("c")}
Effects == {Bump("a"), Step("DECREMENT", N("a")), Set(N("a"), C(5)),
            OpSet("ADDITION", N("a"), N("a")), CallF(N("f"), <<N("a")>>),
            CallM(N("o"), C(2), <<C(7)>>), Set(Get(N("o"), N("a")), Bump("a")),
            OpSet("SUBTRACTION", Get(N("o"), N("a")), Bump("a")),
            LogSet("COALESCE", Get(N("o"), C(9)), Set(N("a"), C(4))),
            LogSet("TEST_IF_FALSE", N("a"), Bump("a")), Step("INCREMENT", Get(N("o"), C(1))),
            Step("POST_DECREMENT", Get(N("o"), N("a"))), Set(N("G"), Bump("a")),
            Step("POST_INCREMENT", N("G")), Set(N("o"), C(0)),
            Cond(N("a"), Bump("a"), N("b")), Chain(N("o"), Set(N("a"), C(1))), Chain(N("b"), Bump("a")),
            And(Bump("a"), Set(N("a"), C(3))), Or(N("b"), Bump("a")), Coalesce(N("b"), Bump("a"))}

\* (x, y) as the operands of what reads both.
Uses(x, y) == {Bin("ADDITION", x, y), Bin("LESS", x, y), Get(x, y), And(x, y), Cond(x, y, x),
               CallF(N("f"), <<x, y>>), CallF(N("g"), <<x, y>>), CallM(N("o"), C(3), <<x, y>>),
               Obj(<< <<1, x>>, <<2, y>> >>), Node("IN", x, y, "PROPERTY_IN"),
               Set(Get(N("o"), x), y), OpSet("ADDITION", Get(N("o"), x), y)}

\* var a = 1, o = {1: 3, 2: f, 3: g}, f = Setter, g = (p, q) => p - q, c = 8
Prologue == <<Var1("a", C(1)), Var1("f", Setter),
              Var1("g", Fun(<<"p", "q">>, <<Ret(Bin("SUBTRACTION", N("p"), N("q")))>>)),
              Const1("c", C(8)),
              Var1("o", Obj(<< <<1, C(3)>>, <<2, N("f")>>, <<3, N("g")>> >>))>>
Result1(e) == <<Set(N("h"), e), Ret(Obj(<< <<1, N("h")>>, <<2, N("a")>>, <<3, N("b")>> >>))>>

\* One operand, or the target of an assignment that its value changes.
Alone(y) == {Set(N("a"), y), OpSet("SUBTRACTION", N("a"), y), LogSet("TEST_IF_TRUE", N("b"), y),
             LogSet("COALESCE", N("G"), y), OpSet("ADDITION", N("G"), y), LogSet("COALESCE", N("c"), y),
             Un("LOGICAL_NOT", y), Un("VOID", y), Un("TYPEOF", y), Comma(N("a"), y),
             LogSet("TEST_IF_FALSE", Get(N("o"), N("a")), y), Step("INCREMENT", Get(y, C(1))),
             CallM(y, C(2), <<N("a")>>), Chain(y, C(1))}

Expressions ==
    {Program(Prologue \o Result1(e)) :
        e \in UNION {Uses(x, y) : x \in Pure, y \in Effects} \cup UNION {Alone(y) : y \in Effects}
              \cup UNION {Uses(x, y) : x \in {Bump("a"), CallF(N("f"), <<N("a")>>)}, y \in Effects}}

-----------------------------------------------------------------------------
(* Loops, switch and try.                                                  *)

Exits == {NIL, Break(""), Continue(""), Ret(C(50)), ThrowN(C(60))}
\* Every turn but one does nothing special.
On1(s) == IF s = NIL THEN Log(1) ELSE If(Bin("STRICT_EQUAL", N("a"), C(1)), s)
On2(s) == If(Bin("STRICT_EQUAL", N("a"), C(2)), s)

Loops1(body) ==
    LET stmts == <<Step("INCREMENT", N("a"))>> \o body
        test == Bin("LESS", N("a"), C(3))
    IN {While("", test, B(stmts)), Do("", B(stmts), test),
        For("", Var1("a", C(0)), test, NIL, B(stmts)),
        For("", NIL, NIL, Log(3), B(<<If(Bin("LESS", C(2), N("a")), Break(""))>> \o stmts)),
        ForIn("", N("h"), N("o"), B(stmts))}

TryBodies ==
    {<<Try1(<<On1(s), Log(1)>>, Catch1(<<Log(2), t>>))>> : s \in Exits, t \in Exits}
    \cup {<<Try1(<<On1(s), Log(1)>>, Fin(NIL, <<Log(2), t>>))>> : s \in Exits, t \in Exits}
    \cup {<<Try1(<<On1(s)>>, Fin(Catch1(<<Log(1), On1(t)>>), <<Log(2), u>>))>> :
            s \in Exits, t \in Exits, u \in {NIL, On1(Continue("")), Break(""), Ret(C(51)), ThrowN(C(61))}}
    \cup {<<IfElse(Bin("LESS", N("a"), C(2)), B(<<Log(1), s>>), B(<<Log(2), t>>))>> : s \in Exits, t \in Exits}

TryLoops == {Program(<<Var1("a", C(0)), Var1("b", C(0)), Var1("o", Obj(<< <<1, C(1)>>, <<2, C(2)>> >>)),
                       l, Ret(N("b"))>>)
               : l \in UNION {Loops1(body) : body \in TryBodies}}

\* try inside try, and in a function of its own.
NestedTries ==
    LET wrap(inner) ==
            {Try1(<<inner, Log(3)>>, Catch1(<<Log(4)>>)), Try1(<<inner, Log(3)>>, Fin(NIL, <<Log(4)>>)),
             Try1(<<ThrowN(C(70))>>, Fin(Catch1(<<inner, Log(3)>>), <<Log(4)>>)),
             Try1(<<ThrowN(C(70))>>, Fin(Catch1(<<Log(3)>>), <<inner, Log(4)>>))}
        inner == {Try1(<<On1(s), Log(1)>>, Catch1(<<Log(2)>>)) : s \in Exits}
                 \cup {Try1(<<On1(s), Log(1)>>, Fin(NIL, <<Log(2)>>)) : s \in Exits}
                 \cup {Try1(<<On1(s), Log(1)>>, Fin(Catch1(<<ThrowN(C(62))>>), <<Log(2)>>)) : s \in Exits}
    IN {Program(<<Var1("a", C(0)), Var1("b", C(0)), Var1("o", Obj(<<>>)), l, Ret(N("b"))>>)
          : l \in {While("", Bin("LESS", N("a"), C(3)), B(<<Step("INCREMENT", N("a")), w>>))
                     : w \in UNION {wrap(t) : t \in inner}}}

\* The function f ends in some way inside the try of its caller.
CallsInTries ==
    {Program(<<Var1("a", C(0)), Var1("b", C(0)),
               Var1("f", Fun(<<"p">>, <<Try1(<<If(N("p"), s), Log(1)>>, f), Log(2), Ret(C(9))>>)),
               Try1(<<Set(N("h"), CallF(N("f"), <<C(1)>>)), Log(3)>>, Catch1(<<Log(4)>>)),
               Set(N("h"), CallF(N("f"), <<C(0)>>)), Ret(Bin("ADDITION", N("b"), N("h")))>>)
       : s \in {Ret(C(50)), ThrowN(C(60)), CallF(N("o"), <<>>)},
         f \in {Catch1(<<Log(5)>>), Catch1(<<Ret(C(51))>>), Catch1(<<ThrowN(C(61))>>),
                Fin(NIL, <<Log(5)>>), Fin(NIL, <<Ret(C(51))>>), Fin(Catch1(<<ThrowN(C(61))>>), <<Log(5)>>)}}

\* switch: where default stands, what falls through, what leaves.
Case1(k, stmts) == [t |-> "CASE", k |-> k, s |-> stmts]
RECURSIVE Branches(_)
Branches(bs) ==
    IF bs = <<>> THEN NIL
    ELSE IF Head(bs).t = "DEFAULT" THEN Node("DEFAULT", Branches(Tail(bs)), Seq1(Head(bs).s), "")
    ELSE Node("", Branches(Tail(bs)), Node("", Head(bs).k, Seq1(Head(bs).s), ""), "")
Switches ==
    LET default(s) == [t |-> "DEFAULT", s |-> <<Log(3), s>>]
        one(s) == Case1(C(1), <<Log(1), s>>)
        two(s) == Case1(Bump("b"), <<Log(2), s>>)
        switch(bs) == Switch("", N("a"), Branches(bs))
        exits == {NIL, Break(""), Continue(""), Ret(C(50))}
    IN {Program(<<Var1("a", C(0)), Var1("b", C(0)),
                  While("", Bin("LESS", N("a"), C(3)), B(<<Step("INCREMENT", N("a")), switch(bs), Log(4)>>)),
                  Ret(N("b"))>>)
          : bs \in UNION {{<<one(s), two(t), default(u)>>, <<default(u), one(s), two(t)>>,
                           <<one(s), default(u), two(t)>>, <<two(t), one(s)>>}
                            : s \in exits, t \in exits, u \in exits}}

\* Bindings: closures over loops and blocks, names before their declaration.
Thunk(e) == Fun(<<>>, <<Ret(e)>>)
Collect(x) == Set(Get(N("o"), Bump("a")), Thunk(x))
Sum == Bin("ADDITION", CallM(N("o"), C(0), <<>>), Bin("ADDITION", CallM(N("o"), C(1), <<>>),
                                                      CallM(N("o"), C(1), <<>>)))
LetLoops ==
    LET less(x) == Bin("LESS", N(x), C(2))
        bodies == {<<Collect(N("i"))>>, <<Let("x", Bin("ADDITION", N("i"), C(3))), Collect(N("x"))>>,
                   <<Let("x", NIL), Set(N("x"), N("i")), Collect(Step("INCREMENT", N("x")))>>,
                   <<Collect(N("i")), OpSet("ADDITION", N("i"), C(0))>>,
                   <<Collect(N("i")), If(Bin("STRICT_EQUAL", N("i"), C(1)), Break(""))>>,
                   <<Const1("c", N("i")), Collect(N("c"))>>,
                   <<Const1("c", N("i")), Try1(<<Set(N("c"), C(1))>>, Catch1(<<Collect(N("e"))>>)), Collect(N("c"))>>,
                   <<Let("x", N("i")), Collect(Step("POST_INCREMENT", N("x"))), Step("INCREMENT", N("x"))>>}
    IN {Program(<<Var1("a", C(0)), Var1("o", Obj(<<>>)), l, Ret(Obj(<< <<1, Sum>>, <<2, N("a")>> >>))>>)
          : l \in UNION {{For("", Let("i", C(0)), less("i"), Bump("i"), B(body)),
                          ForIn("", Let("i", NIL), Obj(<< <<0, C(7)>>, <<1, C(8)>> >>), B(body)),
                          While("", less("a"), B(<<Let("i", N("a"))>> \o body)),
                          Do("", B(<<Let("i", N("a"))>> \o body), less("a"))} : body \in bodies}}

BeforeInit ==
    LET uses == {N("x"), Bin("ADDITION", N("x"), C(1)), Set(N("x"), C(3)), OpSet("ADDITION", N("x"), C(1)),
                 Bump("x"), Un("TYPEOF", N("x")), Un("TYPEOF", N("H")), N("H"), Set(N("H"), C(1)),
                 CallF(Thunk(N("x")), <<>>), CallF(Fun(<<>>, <<N("x"), Ret(N("x"))>>), <<>>),
                 CallF(Thunk(Set(N("x"), C(4))), <<>>),
                 LogSet("COALESCE", N("x"), C(1)), And(C(0), N("x")), Get(N("x"), C(1)), CallF(N("x"), <<>>)}
        first(e) == {<<Set(N("h"), e), Let("x", C(7))>>, <<Let("x", C(7)), Set(N("h"), e)>>,
                     <<Var1("f", Thunk(e)), Try1(<<Set(N("h"), CallF(N("f"), <<>>))>>, Catch1(<<Set(N("g"), N("e"))>>)),
                       Let("x", C(7)), Set(N("h"), CallF(N("f"), <<>>))>>,
                     <<Const1("c", C(1)), If(N("c"), B(<<Let("x", C(6)), Set(N("h"), e)>>)), Let("y", N("c"))>>}
    IN {Program(<<Try1(<<B(stmts)>>, Catch1(<<Set(N("b"), N("e"))>>)),
                  Ret(Obj(<< <<1, N("h")>>, <<2, N("b")>>, <<3, N("g")>> >>))>>)
          : stmts \in UNION {first(e) : e \in uses}}

\* break and continue to a label, for-in over a property, updates in conditions.
Labels ==
    LET inner(s) == {While("", Bin("LESS", N("a"), C(9)), B(<<Step("INCREMENT", N("a")), Log(1), On2(s)>>)),
                     ForIn("", Get(N("o"), C(5)), N("o"), B(<<Step("INCREMENT", N("a")), Log(1), On2(s)>>)),
                     Switch("", N("a"), Branches(<<[t |-> "DEFAULT", s |-> <<Log(1), On2(s)>>]>>)),
                     Block("k", <<Log(1), On2(s), Log(5)>>)}
    IN {Program(<<Var1("a", C(0)), Var1("b", C(0)), Var1("o", Obj(<< <<1, C(1)>>, <<2, C(2)>> >>)),
                  l, Ret(N("b"))>>)
          : l \in UNION {{While("l", Bin("LESS", N("a"), C(4)), B(<<Step("INCREMENT", N("a")), w, Log(2)>>)),
                          For("l", NIL, Bin("LESS", Step("INCREMENT", N("a")), C(4)), Log(3), B(<<w, Log(2)>>)),
                          Do("l", B(<<w, Log(2)>>), Bin("LESS", Bump("a"), C(4))),
                          ForIn("l", N("h"), N("o"), B(<<w, Log(2)>>))}
                           : w \in UNION {inner(s) : s \in {Break("l"), Continue("l"), Break(""), Continue("")}}}}

Programs1 == Expressions \cup TryLoops \cup NestedTries \cup CallsInTries \cup Switches
             \cup LetLoops \cup BeforeInit \cup Labels
====
