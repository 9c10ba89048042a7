----------------------------- MODULE MCJsParser -----------------------------
(* Texts of scripts, the way the grammar writes them and one token off.    *)
EXTENDS JsPrograms, JsSyntax
P == INSTANCE JsParser

Refused == [t |-> "REFUSED"]
Unparsed == [error |-> "", node |-> NIL]

VARIABLES sample, parsed
vars == <<sample, parsed>>

\* function main() { ... }
MainTree(body) ==
    Node("FUNCTION_DECLARATION", N("main"), body, [params |-> <<>>, locals |-> DeclaredIn(body)])
Script(body) == Seq1(<<MainTree(body)>>)
Sample(body) == [toks |-> StatementText(MainTree(body)), tree |-> Script(body), module |-> FALSE]

-----------------------------------------------------------------------------
(* Every operator as the operand of every other.                           *)

Str(s) == Node("STRING", NIL, NIL, <<"string", s>>)
Field(o, name) == Node("PROPERTY", o, Str(name), "PROPERTY_ATOM_GET")
IsChain(n) == n.t = "OPTIONAL_CHAIN" /\ n.r.t = "PROPERTY"
Receiving(n) == IF IsChain(n) THEN [n EXCEPT !.r = Ref(@)] ELSE Ref(n)
CallAny(f, es) == IF f.t = "PROPERTY" THEN Node("METHOD_CALL", Ref(f), Args(es), "")
                  ELSE Node("FUNCTION_CALL", Receiving(f), Args(es), IF IsChain(f) THEN "this" ELSE "")
New(f, es) == [CallAny(f, es) EXCEPT !.u = "new"]
Deleted(n) == [n EXCEPT !.t = "PROPERTY_DELETE", !.u = "PROPERTY_DELETE"]
Delete(n) == CASE n.t = "PROPERTY" -> Deleted(n)
               [] IsChain(n) -> Un("DELETE", [n EXCEPT !.r = Deleted(@)])
               [] OTHER -> Un("DELETE", n)
List(es) == Node("ARRAY", Props([k \in DOMAIN es |-> <<k - 1, es[k]>>]), NIL, <<Len(es), FALSE>>)
BinaryOps == {"BITWISE_OR", "BITWISE_XOR", "BITWISE_AND", "EQUAL", "LESS", "LEFT_SHIFT", "ADDITION", "MULTIPLICATION", "EXPONENTIATION"}
\* Every expression with x in one of its places.
Around(x) ==
    LET y == N("b")
    IN UNION {{Bin(op, x, y), Bin(op, y, x)} : op \in BinaryOps}
       \cup {Node("IN", x, y, "PROPERTY_IN"), Node("IN", y, x, "PROPERTY_IN"), Node("INSTANCEOF", x, y, "INSTANCE_OF"),
             And(x, y), And(y, x), Or(x, y), Or(y, x), Coalesce(x, y), Coalesce(y, x), Cond(x, y, y), Cond(y, x, y),
             Cond(y, y, x), Comma(x, y), Comma(y, x), Set(y, x), OpSet("ADDITION", y, x), LogSet("COALESCE", y, x),
             Un("LOGICAL_NOT", x), Un("TYPEOF", x), Un("UNARY_NEGATION", x), Un("UNARY_PLUS", x), Delete(x),
             Get(x, y), Get(y, x), Field(x, "k"), CallAny(x, <<y>>), CallF(y, <<x, y>>), New(x, <<>>), New(y, <<x>>),
             Obj(<< <<1, x>> >>), List(<<y, x>>), Fun(<<"p">>, <<Ret(x)>>), Chain(x, y), Chain(y, x)}
       \cup (IF x.t \in {"NAME", "PROPERTY"}
             THEN {Set(x, y), OpSet("EXPONENTIATION", x, y), Step("INCREMENT", x), Step("POST_DECREMENT", x)} ELSE {})
Nested == UNION {Around(x) : x \in Around(N("a"))}
\* What follows "new" with its arguments is never an optional chain here
\* (njs_parser_left_hand_side_expression_optional() refuses it).
ChainOfNew(n) == n.t = "OPTIONAL_CHAIN" /\ n.l.t \in Calls /\ n.l.u = "new"
ExpressionTrees == {Body(<<e>>) : e \in {n \in Nested : ~ChainOfNew(n)}}

-----------------------------------------------------------------------------
(* Declarations of one name, in scopes in and next to each other.          *)

FunctionNamed(t, x, params, stmts) ==
    [Fun(params, stmts) EXCEPT !.t = t, !.l = N(x), !.u.locals = IF t = "FUNCTION_EXPRESSION" THEN @ \cup {x} ELSE @]
Declarations == {Var1("x", NIL), Var1("x", C(1)), Let("x", C(1)), Const1("x", C(1)),
                 FunctionNamed("FUNCTION_DECLARATION", "x", <<>>, <<>>)}
Catch1Of(x, d) == Node("TRY", B(<<>>), Node("CATCH", N(x), B(<<d>>), ""), "")
WhileOf(d) == While("", N("a"), d)
SwitchOf(d) == Switch("", N("a"), Branches(<<Case1(C(1), <<d>>), Case1(C(2), <<Let("x", NIL)>>)>>))
Headed == {d \in Declarations : d.t = "STATEMENT"}
Scopes(d) == {d, B(<<d>>), Catch1Of("x", d), Catch1Of("e", d), WhileOf(d),
              FunctionNamed("FUNCTION_EXPRESSION", "f", <<"x">>, <<d>>), FunctionNamed("FUNCTION_EXPRESSION", "x", <<>>, <<d>>)}
             \cup (IF VarNames(d) = {} THEN {SwitchOf(d)} ELSE {})
             \cup {For("", h, N("x"), NIL, B(<<d>>)) : h \in Headed}
             \cup {ForIn("", h, N("a"), B(<<d>>)) : h \in {Var1("x", NIL), Let("x", NIL)}}
\* Two things the parser does not do as it should (njs_variable_scope_find()),
\* and no script here does: it lets a "var" of a block through that comes before
\* a lexical declaration of its name, and refuses a function in a block that
\* hides a name of a block around.
IsLexical(d) == d.t = "STATEMENT" /\ d.r.t # "VAR"
VarFirst(s, d) == VarNames(s) # {} /\ VarNames(d) = {}
Hides(s, inner, d) == /\ inner.t = "FUNCTION_DECLARATION" /\ s.t \in {"BLOCK", "TRY", "SWITCH", "FOR", "FOR_IN"}
                      /\ IsLexical(d) \/ (s.t = "FOR" /\ IsLexical(s.l)) \/ (s.t = "FOR_IN" /\ IsLexical(s.l.l))
DeclarationTrees ==
    LET inBlock(s, d) == IF VarFirst(s, d) THEN {} ELSE {Body(<<B(<<s, d>>)>>)}
        two(s, d) == {Body(<<s, d>>), Body(<<d, s>>)} \cup inBlock(s, d)
        scopes(d1, d2) == {s \in Scopes(d1) : ~Hides(s, d1, d2)}
    IN UNION {UNION {two(s, d2) : s \in scopes(d1, d2)} : d1 \in Declarations, d2 \in Declarations}

-----------------------------------------------------------------------------
(* Texts with a line end more, and texts with a token wrong.               *)

Seeds ==
    LET a == N("a")
        b == N("b")
        c == N("c")
    IN {Body(<<s>>) : s \in
        {If(a, B(<<b>>)), IfElse(a, b, If(c, a)), While("", a, Step("POST_INCREMENT", b)), Do("", B(<<a>>), b),
         For("", Var1("i", b), Bin("LESS", a, b), Step("INCREMENT", a), B(<<c>>)), For("", NIL, NIL, NIL, NIL),
         For("", Set(a, Cond(b, a, c)), b, NIL, c), ForIn("", Let("i", NIL), a, b), ForIn("", Get(a, b), c, B(<<Break("")>>)),
         Block("l", <<If(a, Break("l"))>>), While("l", a, B(<<Continue("l")>>)),
         Switch("", a, Branches(<<Case1(b, <<c, Break("")>>), [t |-> "DEFAULT", s |-> <<a>>]>>)),
         Try1(<<a>>, Fin(Catch1(<<b>>), <<c>>)), Try1(<<ThrowN(a)>>, Catch1(<<b>>)), Ret(Comma(a, b)),
         Seq1(<<Node("VAR", N("x"), a, ""), Node("VAR", N("y"), Bin("ADDITION", b, c), "")>>), Const1("x", Get(a, b)),
         Set(Field(a, "k"), Fun(<<"p", "q">>, <<N("p")>>)), CallF(Fun(<<>>, <<>>), <<a, List(<<b, c>>)>>),
         Set(a, Obj(<< <<1, b>>, <<2, CallAny(Field(c, "k"), <<>>)>> >>)), Coalesce(Chain(a, b), Chain(c, a)),
         And(Or(a, b), Bin("EXPONENTIATION", a, Un("TYPEOF", b))), New(Field(a, "k"), <<b>>),
         OpSet("ADDITION", a, Bin("MULTIPLICATION", Bin("ADDITION", a, b), Un("UNARY_NEGATION", c)))}}

Restricted(toks, k) ==
    \/ toks[k - 1].t \in {"RETURN", "THROW", "BREAK", "CONTINUE"}
    \/ toks[k].t \in {"INCREMENT", "DECREMENT"}
LineEndSamples ==
    UNION {{[Sample(t) EXCEPT !.toks[k].nl = TRUE] : k \in {j \in 2..Len(Sample(t).toks) : ~Restricted(Sample(t).toks, j)}} : t \in Seeds}

Strays == {Name("a"), Keyword("IF"), Keyword("VAR"), Keyword("IN"), T("COMMA"), T("ADDITION"), T("CONDITIONAL"),
           T("COLON"), T("ASSIGNMENT"), T("OPEN_PARENTHESIS"), T("CLOSE_PARENTHESIS"), T("OPEN_BRACE"),
           T("CLOSE_BRACE"), T("OPEN_BRACKET"), T("DOT"), EndOfStatement, Keyword("ELSE"), Keyword("CASE")}
Wrong(toks) ==
    {RemoveAt(toks, k) : k \in 6..(Len(toks) - 1)}
    \cup {SubSeq(toks, 1, k - 1) \o s \o SubSeq(toks, k, Len(toks)) : k \in 6..Len(toks), s \in Strays}
WrongSamples(trees) ==
    {[toks |-> w, tree |-> NIL, module |-> FALSE] : w \in UNION {Wrong(StatementText(MainTree(t))) : t \in trees}}
IsSwitch(tree) == tree.l # NIL /\ tree.l.r.t = "SWITCH"

-----------------------------------------------------------------------------
(* What the trees do not show: arrows, methods, modules.                   *)

ArrowSamples ==
    LET text(e) == LET body == Operand(e, AssignmentLevel)
                   IN IF Head(body).t = "OPEN_BRACE" THEN InParens(body) ELSE body
        arrow(e) == [toks |-> Name("h") \o T("ASSIGNMENT") \o Name("p") \o T("ARROW") \o text(e) \o EndOfStatement,
                     tree |-> Seq1(<<Set(N("h"), Fun(<<"p">>, <<Ret(e)>>))>>), module |-> FALSE]
        block(s) == [toks |-> Name("h") \o T("ASSIGNMENT") \o InParens(Name("p") \o T("COMMA") \o Name("q"))
                              \o T("ARROW") \o InBraces(StatementText(s)) \o EndOfStatement,
                     tree |-> Seq1(<<Set(N("h"), Fun(<<"p", "q">>, <<s>>))>>), module |-> FALSE]
    IN {arrow(e) : e \in Around(N("a")) \ {Delete(N("a"))}} \cup {block(s) : s \in {If(N("p"), B(<<N("q")>>)), Ret(N("p"))}}

Import(x) == Keyword("IMPORT") \o Name(x) \o Keyword("FROM") \o Word("STRING", "m") \o EndOfStatement
ImportTree(x) == Node("IMPORT", N(x), NIL, "m")
Export(e) == Keyword("EXPORT") \o Keyword("DEFAULT") \o Text(e) \o EndOfStatement
ExportTree(e) == Node("EXPORT", NIL, e, "")
\* Imports come first and the export last, wherever they stand.
ModuleSamples ==
    LET say == CallF(N("f"), <<N("x")>>)
        module(texts, trees) == [toks |-> FlattenSeq(texts), tree |-> Seq1(trees), module |-> TRUE]
        sayText == StatementText(say)
        x == ImportTree("x")
        y == ImportTree("y")
        e == ExportTree(N("x"))
    IN {module(<<sayText, Import("x"), Export(N("x"))>>, <<x, say, e>>),
        module(<<Import("x"), Export(N("x")), sayText>>, <<x, say, e>>),
        module(<<Export(N("x")), sayText, Import("x"), Import("y")>>, <<x, y, say, e>>),
        [module(<<Export(N("x")), Export(N("y"))>>, <<>>) EXCEPT !.tree = Refused],
        [module(<<sayText, Import("x")>>, <<>>) EXCEPT !.tree = Refused],
        [module(<<Import("x"), Import("x"), Export(N("x"))>>, <<>>) EXCEPT !.tree = Refused],
        [module(<<InBraces(Import("x")), Export(N("x"))>>, <<>>) EXCEPT !.tree = Refused]}

-----------------------------------------------------------------------------

Layouts(p) == {Sample(p.body), [Sample(p.body) EXCEPT !.toks = LineEnds(@)]}
\* The scripts that are run and have more than an expression to read.
Texts == NestedTries \cup CallsInTries \cup Switches \cup LetLoops \cup Labels
AllSamples ==
    {Sample(t) : t \in ExpressionTrees \cup DeclarationTrees} \cup UNION {Layouts(p) : p \in Texts}
    \cup LineEndSamples \cup ArrowSamples \cup ModuleSamples \cup WrongSamples({t \in Seeds : ~IsSwitch(t)})

CONSTANT Samples
Init == sample \in Samples /\ parsed = Unparsed
Next == /\ parsed = Unparsed
        /\ \E p \in {P!Parse(sample.toks, sample.module)} : parsed' = [error |-> p.error, node |-> p.node]
        /\ UNCHANGED sample
Spec == Init /\ [][Next]_vars

\* The text of a script is read back as the script: every operator inside
\* every other with no more parentheses than the grammar needs, every statement
\* with its semicolons or its line ends.  A script with an early error (a name
\* or a label declared twice, a jump to no label) is refused, and no other
\* script is (njs_parser.c, njs_variable_scope_find()).
ReadsBack ==
    parsed # Unparsed /\ sample.tree # NIL =>
        IF sample.tree = Refused \/ EarlyError(sample.tree, {}) THEN parsed.error # ""
        ELSE parsed.error = "" /\ parsed.node = sample.tree

\* No token is dropped: what a text is read as has the text's tokens in their
\* order, but for punctuation, also when the text has a token too few or too many.
Content(toks) ==
    LET kept == SelectSeq(toks, LAMBDA t : t.t \notin {"OPEN_PARENTHESIS", "CLOSE_PARENTHESIS", "OPEN_BRACE",
                                                       "CLOSE_BRACE", "SEMICOLON", "COMMA"})
        word(t) == IF t.t # "NUMBER" /\ t.t = t.v THEN "NAME" ELSE t.t
    IN [k \in DOMAIN kept |-> <<word(kept[k]), kept[k].v>>]
NothingDropped ==
    parsed # Unparsed /\ parsed.error = "" /\ sample.tree = NIL =>
        Content(Statements(parsed.node)) = Content(sample.toks)

\* What the parser accepts it has read whole, and as it was meant: texts that are
\* written from a tree are read back as that tree, others lose no token
\* (njs_parser.c).
TextsAreRead == ReadsBack /\ NothingDropped
====
