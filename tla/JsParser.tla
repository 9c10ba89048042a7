------------------------------ MODULE JsParser ------------------------------
(***************************************************************************)
(* The parser of src/njs_parser.c: from tokens to the tree that JsGenerator *)
(* compiles.                                                               *)
(*                                                                         *)
(* The source is a machine with an explicit stack of states: a state       *)
(* replaces itself (njs_parser_next), leaves a state to run after it       *)
(* (njs_parser_after), ends (njs_parser_stack_pop), or gives up            *)
(* (njs_parser_reject), which skips the states that were left as optional. *)
(* Here a state is an operator that returns the parser as it is when the   *)
(* state has ended, and what it left to run is applied to that.  A node    *)
(* that the source fills in through a pointer is built when it is complete.*)
(*                                                                         *)
(* Tokens come without their characters: njs_lexer.c is here with its      *)
(* look-ahead and its stack of brackets.  Not parsed: templates, regular   *)
(* expressions.                                                            *)
(***************************************************************************)
EXTENDS JsValues

-----------------------------------------------------------------------------
(* The lexer.                                                              *)

Token(t, v, nl) == [t |-> t, v |-> v, nl |-> nl]
End == Token("END", "", FALSE)
TokenAt(p, i) == IF i > Len(p.toks) THEN End ELSE p.toks[i]
Tok(p) == TokenAt(p, p.pos).t
Val(p) == TokenAt(p, p.pos).v
\* lexer->prev_type: the token before, or LINE_END.
AfterNewLine(p) == TokenAt(p, p.pos).nl
PrevType(p) == IF p.pos = 1 THEN "" ELSE IF AfterNewLine(p) THEN "LINE_END" ELSE p.toks[p.pos - 1].t

\* njs_lexer_in_stack_push(), njs_lexer_in_stack_pop(): whether "in" is
\* refused, for every bracket that is open where the lexer is.
InStackPush(p) == [p EXCEPT !.ins = Append(@, FALSE)]
InStackPop(p) == IF Len(p.ins) > 1 THEN [p EXCEPT !.ins = Front(@)] ELSE p
InFail(p) == Last(p.ins)
InFailSet(p, flag) == [p EXCEPT !.ins[Len(p.ins)] = flag]

Opening == {"OPEN_PARENTHESIS", "OPEN_BRACKET", "OPEN_BRACE"}
Closing == {"CLOSE_PARENTHESIS", "CLOSE_BRACKET", "CLOSE_BRACE"}
InStack(p, t) == IF t \in Opening THEN InStackPush(p) ELSE IF t \in Closing THEN InStackPop(p) ELSE p

\* njs_lexer_next_token(): tokens are read once, however often they are looked at.
RECURSIVE ReadTo(_, _)
ReadTo(p, i) ==
    IF p.read >= i THEN p
    ELSE ReadTo(InStack([p EXCEPT !.read = @ + 1], TokenAt(p, p.read + 1).t), i)
\* njs_lexer_peek_token(): the parser that has looked k tokens ahead.
Peek(p, k) == ReadTo(p, p.pos + k)
Ahead(p, k) == TokenAt(p, p.pos + k)
\* njs_lexer_consume_token(), and njs_lexer_token() of the next state.
Consume(p, n) == ReadTo([p EXCEPT !.pos = @ + n], p.pos + n)
Eat(p) == Consume(p, 1)

\* njs_lexer_token_is_binding_identifier(), njs_lexer_token_is_identifier_name().
SoftKeywords == {"ARGUMENTS", "ASYNC", "EVAL", "FROM", "OF"}
Reserved == {"AWAIT", "YIELD", "BREAK", "CASE", "CATCH", "CLASS", "CONST", "CONTINUE", "DEBUGGER", "DEFAULT",
             "DELETE", "DO", "ELSE", "EXPORT", "FALSE", "FINALLY", "FOR", "FUNCTION", "IF", "IMPORT",
             "IN", "INSTANCEOF", "LET", "NEW", "NULL", "RETURN", "SUPER", "SWITCH", "THIS", "THROW",
             "TRUE", "TRY", "TYPEOF", "VAR", "VOID", "WHILE", "WITH"}
IsBinding(t) == t \in {"NAME", "YIELD", "AWAIT"} \cup SoftKeywords
IsIdentifierName(t) == t = "NAME" \/ t \in SoftKeywords \cup Reserved
Restricted == {"ARGUMENTS", "EVAL"}

-----------------------------------------------------------------------------
(* States.                                                                 *)

WithNode(p, n) == [p EXCEPT !.node = n]
Pop(p) == [p EXCEPT !.ret = "OK"]
\* njs_parser_failed(), njs_parser_not_supported(), an error of its own.
Failed(p) == [p EXCEPT !.error = "SyntaxError"]
\* njs_parser_reject().
Reject(p) == [p EXCEPT !.ret = "REJECT"]

\* njs_parser_after() with an optional and with a mandatory state.
After(p, State(_)) == IF p.error # "" \/ p.ret \in {"REJECT", "DONE"} THEN p ELSE State(p)
AfterAlways(p, State(_)) ==
    IF p.error # "" \/ p.ret = "DONE" THEN p ELSE State(IF p.ret = "REJECT" THEN [p EXCEPT !.ret = "DECLINED"] ELSE p)

\* A token that must come now.
Expect(p, t) == IF Tok(p) # t THEN Failed(p) ELSE Eat(p)

\* njs_parser_expect_semicolon().
NoSemicolonNeeded(p) == Tok(p) \in {"END", "CLOSE_BRACE"} \/ AfterNewLine(p)
Semicolon(p) == IF Tok(p) = "SEMICOLON" THEN Eat(p)
                ELSE IF NoSemicolonNeeded(p) THEN p ELSE Failed(p)

\* Mutant: any node will do, also one of an expression that was given up.
CloseParenthesisBlind(p) == IF p.node = NIL THEN Failed(p) ELSE Expect(Pop(p), "CLOSE_PARENTHESIS")
CloseParenthesis(p) == IF p.ret # "OK" THEN Failed(p) ELSE Expect(p, "CLOSE_PARENTHESIS")

-----------------------------------------------------------------------------
(* Scopes and the names they declare (njs_variable.c).  The innermost scope *)
(* is the first.                                                           *)

\* njs_parser_scope_begin(), njs_parser_scope_end().
ScopeBegin(p, type) ==
    [p EXCEPT !.scopes = <<[type |-> type, id |-> p.nscopes + 1, vars |-> [x \in {} |-> 0], labels |-> {},
                            top |-> NIL, async |-> FALSE, arrow |-> FALSE, params |-> <<>>, locals |-> {}]>> \o @,
              !.nscopes = @ + 1]
Declared(scope) == scope.locals \cup DOMAIN scope.vars
ScopeEnd(p) ==
    [p EXCEPT !.scopes = IF p.scopes[1].type = "BLOCK"
                         THEN [Tail(@) EXCEPT ![1].locals = @ \cup Declared(p.scopes[1])] ELSE Tail(@)]

\* njs_function_scope(): the place of the first one, from the k-th scope on.
FunctionScope(p, k) == CHOOSE i \in k..Len(p.scopes) :
                          p.scopes[i].type # "BLOCK" /\ \A j \in k..(i - 1) : p.scopes[j].type = "BLOCK"

\* Mutant: a "var" in a catch block meets the parameter of the catch.
VariableScopeCatch(p, k, name, type) ==
    SelectInSeq([i \in 1..FunctionScope(p, k) |-> i], LAMBDA i : i >= k /\ name \in DOMAIN p.scopes[i].vars)
\* njs_variable_scope(): the scope that has the name, 0 for none in this function.
VariableScope(p, k, name, type) ==
    SelectInSeq([i \in 1..FunctionScope(p, k) |-> i],
                LAMBDA i : /\ i >= k
                           /\ name \in DOMAIN p.scopes[i].vars
                           /\ ~(p.scopes[i].vars[name].type = "catch" /\ type = "var"))

\* njs_variable_scope_find(): the scope the k-th scope declares a name in, 0
\* when the name has been declared.
DeclaringScope(p, k, name, type, at) ==
    LET var == p.scopes[at].vars[name]
        root == IF type = "function" THEN k ELSE IF at = 0 THEN FunctionScope(p, k) ELSE at
        function == "function" \in {type, IF at = 0 THEN "" ELSE var.type}
    IN CASE type \in {"let", "const"} -> IF at = k /\ ~var.self THEN 0 ELSE k
         [] type = "catch" -> k
         [] at = 0 -> root
         [] var.type \in {"let", "const"} -> 0
         [] function /\ var.block /\ var.original = p.scopes[root].id -> 0
         [] ~function -> at
         [] root = k /\ k = Len(p.scopes) /\ p.module -> 0
         [] OTHER -> root
VariableScopeFind(p, k, name, type) == DeclaringScope(p, k, name, type, VariableScope(p, k, name, type))

\* njs_variable_scope_add(): a name that is there stays as it is.
VariableScopeAdd(p, at, k, name, type, self) ==
    IF name \in DOMAIN p.scopes[at].vars THEN p
    ELSE [p EXCEPT !.scopes[at].vars = (name :> [type |-> type, original |-> p.scopes[k].id,
                                                block |-> p.scopes[k].type = "BLOCK", self |-> self]) @@ @]
AddedAt(p, at, k, name, type) == IF at = 0 THEN Failed(p) ELSE VariableScopeAdd(p, at, k, name, type, FALSE)
VariableAdd(p, k, name, type) == AddedAt(p, VariableScopeFind(p, k, name, type), k, name, type)
\* njs_variable_function_add(): the latest function of a name is the one.
VariableFunctionAdd(p, name) ==
    LET retyped(q, at) == IF q.error # "" THEN q ELSE [q EXCEPT !.scopes[at].vars[name].type = "function"]
        add(at) == retyped(AddedAt(p, at, 1, name, "function"), at)
    IN add(VariableScopeFind(p, 1, name, "function"))

\* njs_label_find(): labels of the functions around count too.
LabelFound(p, label) == \E i \in DOMAIN p.scopes : label \in p.scopes[i].labels

-----------------------------------------------------------------------------
(* Nodes.                                                                  *)

NameNode(x) == Node("NAME", NIL, NIL, x)
StringNode(s) == Node("STRING", NIL, NIL, <<"string", s>>)
NumberNode(n) == Node("NUMBER", NIL, NIL, Num(n))
IsLvalue(n) == n.t \in {"NAME", "PROPERTY", "PROPERTY_REF"}

\* njs_parser_property_ref(), njs_parser_lvalue_ref().
PropertyRef(n) == IF n.t = "PROPERTY" THEN [n EXCEPT !.t = "PROPERTY_REF"] ELSE n
IsProperty(n) == n.t \in {"PROPERTY", "PROPERTY_REF"}

\* njs_parser_optional_chain_receiver(): a.b and a?.b, whose a is "this".
HasReceiver(n) == IsProperty(n) \/ (n.t = "OPTIONAL_CHAIN" /\ IsProperty(n.r))
Receiver(n) == IF IsProperty(n) THEN PropertyRef(n) ELSE PropertyRef(n.r)
ReceiverRef(n) == IF n.t = "OPTIONAL_CHAIN" /\ IsProperty(n.r)
                  THEN [n EXCEPT !.r = PropertyRef(@)] ELSE PropertyRef(n)

\* njs_parser_create_call(): u says whether it is called by "new", and what else is "this".
CreateCall(n, args, ctor) ==
    IF IsProperty(n) THEN Node("METHOD_CALL", PropertyRef(n), args, IF ctor THEN "new" ELSE "")
    ELSE Node("FUNCTION_CALL", ReceiverRef(n), args,
              IF ctor THEN "new" ELSE IF HasReceiver(n) THEN "this" ELSE "")

\* njs_parser_object_property(), njs_parser_property_accessor().
ObjectProperty(parent, key, value, proto) ==
    [parent EXCEPT !.l = Node("STATEMENT", @,
        Node("ASSIGNMENT", Node(IF proto THEN "PROTO_INIT" ELSE "PROPERTY_INIT",
                                Node("OBJECT_VALUE", NIL, NIL, ""), key, ""), value, ""), "")]
PropertyAccessor(parent, key, value, accessor) ==
    [parent EXCEPT !.l = Node("STATEMENT", @,
        Node(accessor, Node("", Node("OBJECT_VALUE", NIL, NIL, ""), key, ""), value, ""), "")]
\* njs_parser_array_item(): u has the length, and whether the array ends with a hole.
ArrayItem(array, value) ==
    [ObjectProperty(array, NumberNode(array.u[1]), value, FALSE) EXCEPT !.u = <<@[1] + 1, FALSE>>]

\* njs_parser_reference(): a name, "this" or "arguments".
Reference(p) ==
    LET own == FunctionScope(p, 1)
        fs == {i \in own..Len(p.scopes) : p.scopes[i].type # "BLOCK" /\ ~p.scopes[i].arrow}
        f == CHOOSE i \in fs : \A j \in fs : i <= j
    IN CASE Tok(p) = "THIS" -> WithNode(p, Node("THIS", NIL, NIL, "this"))
         [] Tok(p) = "NULL" -> WithNode(p, Node("NULL", NIL, NIL, ""))
         [] Tok(p) = "ARGUMENTS" ->
              IF f = Len(p.scopes) THEN Failed(p)
              ELSE WithNode(VariableAdd(p, f, Val(p), "var"), Node("ARGUMENTS", NIL, NIL, Val(p)))
         [] OTHER -> WithNode(p, NameNode(Val(p)))

-----------------------------------------------------------------------------
(* The states that states of every kind lead to; each is defined below.    *)

RECURSIVE StateAfter(_, _)
AssignmentExpression(p) == StateAfter(p, "assignment_expression")
LeftHandSide(p) == StateAfter(p, "left_hand_side_expression")
StatementList(p) == StateAfter(p, "statement_list")
StatementWithoutNode(p) == StateAfter(p, "statement_wo_node")
Primary(p) == StateAfter(p, "primary_expression")

\* njs_parser_expression(), njs_parser_expression_comma().
RECURSIVE ExpressionComma(_)
ExpressionComma(p) ==
    IF Tok(p) # "COMMA" THEN p
    ELSE After(AssignmentExpression(Eat(p)), LAMBDA q : ExpressionComma(WithNode(q, Node("COMMA", p.node, q.node, ""))))
Expression(p) == After(AssignmentExpression(p), ExpressionComma)

-----------------------------------------------------------------------------
(* Functions.                                                              *)

\* njs_parser_formal_parameters(): a parameter may have the name of its function.
FormalParameter(p) ==
    LET scope == p.scopes[1]
        q == [p EXCEPT !.scopes[1].params = Append(@, Val(p))]
    IN IF Val(p) \notin DOMAIN scope.vars THEN Eat(VariableAdd(q, 1, Val(p), "var"))
       ELSE IF ~scope.vars[Val(p)].self THEN Failed(p)
       ELSE Eat([q EXCEPT !.scopes[1].vars[Val(p)].self = FALSE])
\* njs_parser_formal_parameters_after(): nothing follows a rest parameter.
RECURSIVE FormalParameters(_)
FormalParameters(p) ==
    LET rest == Tok(p) = "ELLIPSIS"
        q == IF rest THEN Eat(p) ELSE p
    IN CASE Tok(p) \in {"OPEN_BRACE", "OPEN_BRACKET"} -> Failed(p)
         [] ~IsBinding(Tok(q)) -> IF rest THEN Failed(q) ELSE p
         [] OTHER -> After(FormalParameter(q), LAMBDA r :
                         CASE Tok(r) # "COMMA" -> r
                           [] rest -> Failed(r)
                           [] OTHER -> FormalParameters(Eat(r)))

\* njs_parser_return_set().
ReturnSet(top, expr) == Node("STATEMENT", top, Node("RETURN", NIL, expr, ""), "")
FunctionNode(p, n, body) ==
    [n EXCEPT !.r = body, !.u = [params |-> p.scopes[1].params, locals |-> Declared(p.scopes[1])]]

\* njs_parser_function_lambda_body_after(): a body that does not end with a
\* "return" gets one.
LambdaBodyAfter(p, n) ==
    LET top == p.scopes[1].top
        last == IF top = NIL THEN NIL ELSE IF top.r # NIL THEN top.r ELSE top.l
        body == IF last.t = "RETURN" THEN top ELSE ReturnSet(top, NIL)
    IN IF Tok(p) # "CLOSE_BRACE" THEN Failed(p)
       ELSE Pop(Eat(ScopeEnd(WithNode(p, FunctionNode(p, n, body)))))
\* "{" is consumed.
LambdaBody(p, n) ==
    IF Tok(p) = "CLOSE_BRACE" THEN LambdaBodyAfter(p, n)
    ELSE After(StatementList(WithNode(p, NIL)), LAMBDA q : LambdaBodyAfter(q, n))

\* njs_parser_function_parse(), njs_parser_function_lambda_args_after(): "(" is consumed.
FunctionBody(p, n) ==
    After(FormalParameters(p), LAMBDA q :
        After(Expect(q, "CLOSE_PARENTHESIS"), LAMBDA r :
            After(Expect(r, "OPEN_BRACE"), LAMBDA s : LambdaBody(s, n))))

\* njs_parser_function_expression(), njs_parser_function_expression_after(): in
\* its own scope, its name is a constant that any declaration replaces.
FunctionExpression(p, type) ==
    LET begun == [ScopeBegin(p, "FUNCTION") EXCEPT !.scopes[1].async = type = "ASYNC_FUNCTION_EXPRESSION"]
        named == IsBinding(Tok(p))
        name == IF named THEN NameNode(Val(p)) ELSE NIL
        q == IF named THEN Eat(VariableScopeAdd(begun, 1, 1, Val(p), "function", TRUE)) ELSE begun
    IN After(Expect(q, "OPEN_PARENTHESIS"), LAMBDA r : FunctionBody(r, Node(type, name, NIL, "")))

\* njs_parser_function_declaration(), njs_parser_function_declaration_after(): "function" is consumed.
FunctionDeclaration(p, type) ==
    IF ~IsBinding(Tok(p)) \/ Tok(p) \in Restricted THEN Failed(p)
    ELSE After(Expect(Eat(p), "OPEN_PARENTHESIS"), LAMBDA q :
             After(VariableFunctionAdd(q, Val(p)), LAMBDA r :
                 FunctionBody([ScopeBegin(r, "FUNCTION") EXCEPT !.scopes[1].async = type = "ASYNC_FUNCTION_DECLARATION"],
                              Node(type, NameNode(Val(p)), NIL, ""))))

\* njs_parser_arrow_function(), njs_parser_arrow_function_arrow(), njs_parser_arrow_function_body_after().
Arrow(p, n) ==
    After(Expect(p, "ARROW"), LAMBDA q :
        IF Tok(q) = "OPEN_BRACE" THEN LambdaBody(Eat(q), n)
        ELSE After(AssignmentExpression(WithNode(q, NIL)), LAMBDA r :
                 ScopeEnd(WithNode(r, FunctionNode(r, n, ReturnSet(r.scopes[1].top, r.node))))))
ArrowFunction(p) ==
    LET async == Tok(p) = "ASYNC"
        q == [ScopeBegin(IF async THEN Eat(p) ELSE p, "FUNCTION") EXCEPT !.scopes[1].async = async, !.scopes[1].arrow = TRUE]
        n == Node(IF async THEN "ASYNC_FUNCTION_EXPRESSION" ELSE "FUNCTION_EXPRESSION", NIL, NIL, "")
    IN CASE Tok(q) = "OPEN_PARENTHESIS" ->
              After(FormalParameters(Eat(q)), LAMBDA r :
                  After(Expect(r, "CLOSE_PARENTHESIS"), LAMBDA s : Arrow(s, n)))
         [] IsBinding(Tok(q)) -> After(FormalParameter(q), LAMBDA r : Arrow(r, n))
         [] OTHER -> Failed(q)

-----------------------------------------------------------------------------
(* Expressions.                                                            *)

\* njs_parser_array_element_list(), njs_parser_array_after().
RECURSIVE ArrayElementList(_, _)
ArrayElementList(p, array) ==
    CASE Tok(p) = "CLOSE_BRACKET" -> WithNode(Eat(p), array)
      [] Tok(p) = "COMMA" -> ArrayElementList(Eat(p), [array EXCEPT !.u = <<@[1] + 1, TRUE>>])
      [] Tok(p) = "ELLIPSIS" -> Failed(p)
      [] OTHER ->
           AfterAlways(AssignmentExpression(p), LAMBDA q :
               IF q.ret # "OK" THEN Failed(q)
               ELSE CASE Tok(q) = "COMMA" -> ArrayElementList(Eat(q), ArrayItem(array, q.node))
                      [] Tok(q) = "CLOSE_BRACKET" -> ArrayElementList(q, ArrayItem(array, q.node))
                      [] OTHER -> Failed(q))

\* njs_parser_property_name_node().
PropertyNameNode(token) ==
    IF token.t = "NUMBER" THEN NumberNode(token.v) ELSE StringNode(token.v)

\* njs_parser_property_definition_after(): only a plain key sets the prototype, and once.
PropertyDefinitionAfter(p, object, key, plain) ==
    LET proto == plain /\ key.t = "STRING" /\ key.u = <<"string", "__proto__">>
        with == ObjectProperty(object, key, p.node, proto)
    IN IF proto /\ object.u = "proto" THEN Failed(p)
       ELSE WithNode(p, IF proto THEN [with EXCEPT !.u = "proto"] ELSE with)

\* njs_parser_property_name(): the key and the colon are consumed.
PropertyValue(p, object, key, plain) ==
    After(AssignmentExpression(p), LAMBDA q : PropertyDefinitionAfter(q, object, key, plain))

\* njs_parser_method_definition(), njs_parser_function_lambda(): "(" is consumed.
Method(p, async) ==
    FunctionBody([ScopeBegin(p, "FUNCTION") EXCEPT !.scopes[1].async = async],
                 Node(IF async THEN "ASYNC_FUNCTION" ELSE "FUNCTION", NIL, NIL, ""))
MethodValue(p, object, key, async) ==
    After(Method(p, async), LAMBDA q : PropertyDefinitionAfter(q, object, key, FALSE))

\* njs_parser_computed_property_name_handler(), after "[".
ComputedName(p, object, async) ==
    After(AssignmentExpression(p), LAMBDA q :
        After(Expect(q, "CLOSE_BRACKET"), LAMBDA r :
            CASE ~async /\ Tok(r) = "COLON" -> PropertyValue(Eat(r), object, q.node, FALSE)
              [] Tok(r) = "OPEN_PARENTHESIS" -> MethodValue(Eat(r), object, q.node, async)
              [] OTHER -> Failed(r)))

\* njs_parser_property_definition_ident(): { name }.
PropertyIdent(p, object) ==
    After(Reference(p), LAMBDA q :
        IF Tok(Eat(q)) = "ASSIGNMENT" THEN Failed(q)
        ELSE PropertyDefinitionAfter(Eat(q), object, StringNode(Val(p)), FALSE))

\* njs_parser_get_after(), njs_parser_set_after(): a getter has no parameters, a setter one.
AccessorBody(p, object, key, accessor) ==
    After(Expect(p, "OPEN_PARENTHESIS"), LAMBDA q :
        After(Method(q, FALSE), LAMBDA r :
            IF Len(r.node.u.params) # (IF accessor = "PROPERTY_GETTER" THEN 0 ELSE 1) THEN Failed(r)
            ELSE WithNode(r, PropertyAccessor(object, key, r.node, accessor))))

\* njs_parser_get_set(), njs_parser_get_set_after().
GetSet(p, object) ==
    LET q == Peek(p, 1)
        name == Ahead(p, 1)
        accessor == IF Val(p) = "get" THEN "PROPERTY_GETTER" ELSE "PROPERTY_SETTER"
    IN CASE name.t = "OPEN_BRACKET" ->
              After(AssignmentExpression(Consume(q, 2)), LAMBDA r :
                  After(Expect(r, "CLOSE_BRACKET"), LAMBDA s : AccessorBody(s, object, r.node, accessor)))
         [] name.t \in {"STRING", "NUMBER"} \/ IsIdentifierName(name.t) ->
              AccessorBody(Consume(q, 2), object, PropertyNameNode(name), accessor)
         [] OTHER -> PropertyIdent(q, object)

\* njs_parser_property_definition().
PropertyDefinition(p, object) ==
    LET q == Peek(p, 1)
        next == Ahead(p, 1).t
        r == Peek(q, 2)
        third == Ahead(p, 2).t
        key == PropertyNameNode(TokenAt(p, p.pos))
    IN CASE Tok(p) = "CLOSE_BRACE" -> WithNode(p, object)
         [] Tok(p) \in {"STRING", "NUMBER"} ->
              CASE next = "COLON" -> PropertyValue(Consume(q, 2), object, key, TRUE)
                [] next = "OPEN_PARENTHESIS" -> MethodValue(Consume(q, 2), object, key, FALSE)
                [] OTHER -> Failed(q)
         [] Tok(p) = "OPEN_BRACKET" -> ComputedName(Eat(p), object, FALSE)
         [] Tok(p) = "ELLIPSIS" -> Failed(p)
         [] Tok(p) = "ASYNC" ->
              CASE next = "OPEN_BRACKET" -> ComputedName(Consume(q, 2), object, TRUE)
                [] next = "COLON" -> PropertyValue(Consume(q, 2), object, key, TRUE)
                [] ~IsIdentifierName(next) -> Failed(q)
                [] third = "OPEN_PARENTHESIS" ->
                     MethodValue(Consume(r, 3), object, PropertyNameNode(Ahead(p, 1)), TRUE)
                [] OTHER -> Failed(r)
         [] ~IsIdentifierName(Tok(p)) -> Reject(p)
         [] next = "COLON" -> PropertyValue(Consume(q, 2), object, key, TRUE)
         [] next = "OPEN_PARENTHESIS" -> MethodValue(Consume(q, 2), object, key, FALSE)
         [] Tok(p) \in Reserved -> Failed(q)
         [] Val(p) \in {"get", "set"} -> GetSet(q, object)
         [] OTHER -> PropertyIdent(q, object)

\* njs_parser_property_definition_list(): the object so far is the node.
RECURSIVE PropertyDefinitionList(_)
PropertyDefinitionList(p) ==
    After(PropertyDefinition(p, p.node), LAMBDA q :
        IF Tok(q) # "COMMA" THEN q ELSE PropertyDefinitionList(Eat(q)))

\* njs_parser_object_literal(), njs_parser_object_literal_after().
ObjectLiteral(p) ==
    After(PropertyDefinitionList(WithNode(p, Node("OBJECT", NIL, NIL, ""))), LAMBDA q :
        Expect(IF Tok(q) = "COMMA" THEN Eat(q) ELSE q, "CLOSE_BRACE"))

FunctionPrimary(p, type) == IF Tok(p) = "MULTIPLICATION" THEN Failed(p) ELSE FunctionExpression(p, type)
\* A class, an async function, an expression in parentheses, or a name.
ReferencePrimary(p) ==
    LET q == Peek(p, 1)
        next == Ahead(p, 1)
    IN CASE Tok(p) = "CLASS" -> Failed(p)
         [] Tok(p) = "ASYNC" /\ next.t = "FUNCTION" /\ ~next.nl ->
              FunctionPrimary(Consume(q, 2), "ASYNC_FUNCTION_EXPRESSION")
         [] Tok(p) = "OPEN_PARENTHESIS" -> AfterAlways(Expression(Eat(p)), CloseParenthesis)
         [] Tok(p) \in {"THIS", "NULL"} \/ IsBinding(Tok(p)) ->
              After(Reference(IF Tok(p) = "ASYNC" THEN q ELSE p), Eat)
         [] OTHER -> Reject(p)
\* njs_parser_primary_expression_test(): what a token alone tells.
PrimaryState(p) ==
    LET literal(n) == WithNode(Eat(p), n)
    IN CASE Tok(p) \in {"TRUE", "FALSE"} -> literal(Node(Tok(p), NIL, NIL, Bool(Tok(p) = "TRUE")))
         [] Tok(p) = "NUMBER" -> literal(NumberNode(Val(p)))
         [] Tok(p) = "STRING" -> literal(StringNode(Val(p)))
         [] Tok(p) = "OPEN_BRACKET" -> ArrayElementList(Eat(p), Node("ARRAY", NIL, NIL, <<0, FALSE>>))
         [] Tok(p) = "OPEN_BRACE" -> ObjectLiteral(Eat(p))
         [] Tok(p) = "FUNCTION" -> FunctionPrimary(Eat(p), "FUNCTION_EXPRESSION")
         [] OTHER -> ReferencePrimary(p)

\* njs_parser_arguments(), njs_parser_argument_list(), njs_parser_argument_list_after(),
\* njs_parser_parenthesis_or_comma(): "(" is consumed; the list is the node.
RECURSIVE ArgumentList(_, _)
ArgumentList(p, args) ==
    After(AssignmentExpression(p), LAMBDA q :
        LET all == Append(args, q.node)
        IN CASE Tok(q) = "CLOSE_PARENTHESIS" -> WithNode(Eat(q), all)
             [] Tok(q) # "COMMA" -> Failed(q)
             [] Tok(Eat(q)) = "CLOSE_PARENTHESIS" -> WithNode(Consume(q, 2), all)
             [] OTHER -> ArgumentList(Eat(q), all))
RECURSIVE ArgumentNodes(_)
ArgumentNodes(args) == IF args = <<>> THEN NIL ELSE Node("ARGUMENT", Head(args), ArgumentNodes(Tail(args)), "")
Arguments(p) ==
    After(IF Tok(p) = "CLOSE_PARENTHESIS" THEN WithNode(Eat(p), <<>>) ELSE ArgumentList(p, <<>>),
          LAMBDA q : WithNode(q, ArgumentNodes(q.node)))

\* A call of the node whose "(" is the token.
CallNode(p, n, ctor) == After(Arguments(Eat(p)), LAMBDA q : WithNode(q, CreateCall(n, q.node, ctor)))

\* njs_parser_property(): "[ Expression ]" or ". name"; nothing else is taken.
StartsProperty(p) == Tok(p) \in {"OPEN_BRACKET", "DOT"}
Property(p, n) ==
    IF Tok(p) = "OPEN_BRACKET"
    THEN After(Expression(Eat(p)), LAMBDA q :
             After(Expect(q, "CLOSE_BRACKET"), LAMBDA r : WithNode(r, Node("PROPERTY", n, q.node, "PROPERTY_GET"))))
    ELSE LET q == Peek(p, 1)
         IN IF IsIdentifierName(Ahead(p, 1).t)
            THEN WithNode(Consume(q, 2), Node("PROPERTY", n, StringNode(Ahead(p, 1).v), "PROPERTY_ATOM_GET"))
            ELSE Failed(q)

\* njs_parser_member_expression_next().
RECURSIVE MemberNext(_)
MemberNext(p) == IF StartsProperty(p) THEN After(Property(p, p.node), MemberNext) ELSE p

\* njs_parser_member_expression_new(), njs_parser_member_expression_new_next(),
\* njs_parser_member_expression_new_after(): "new" is consumed.
NewAfter(p) == IF Tok(p) = "OPEN_PARENTHESIS" THEN CallNode(p, p.node, TRUE)
               ELSE WithNode(p, CreateCall(p.node, NIL, TRUE))
MemberNew(p) ==
    IF Tok(p) \in {"DOT", "SUPER", "IMPORT"} THEN Failed(p)
    ELSE After(After(Primary(p), MemberNext), NewAfter)

\* njs_parser_member_expression().
Member(p) ==
    CASE Tok(p) \in {"SUPER", "IMPORT"} -> Failed(p)
      [] Tok(p) = "NEW" -> After(MemberNew(Eat(p)), MemberNext)
      [] OTHER -> After(Primary(p), MemberNext)

\* njs_parser_new_expression(), njs_parser_new_expression_after(): new new f()().
RECURSIVE NewExpression(_)
NewExpression(p) == IF Tok(p) # "NEW" THEN MemberNew(p) ELSE After(NewExpression(Eat(p)), NewAfter)

\* njs_parser_call_or_property_after(), njs_parser_optional_chain_after().
RECURSIVE CallOrProperty(_)
CallOrProperty(p) ==
    CASE Tok(p) = "OPEN_PARENTHESIS" -> After(CallNode(p, p.node, FALSE), CallOrProperty)
      [] StartsProperty(p) -> After(Property(p, p.node), CallOrProperty)
      [] OTHER -> p

\* njs_parser_optional_chain(): what follows "?." in the chain of the node n.
\* A method called through the chain keeps the object of n as "this".
Preserve == Node("OPTIONAL_PRESERVE", NIL, NIL, "")
OptionalChain(p, n) ==
    After(CASE Tok(p) = "OPEN_PARENTHESIS" ->
                 After(Arguments(Eat(p)), LAMBDA q :
                     WithNode(q, IF HasReceiver(n)
                                 THEN Node("METHOD_CALL", Receiver(n), q.node, "preserve")
                                 ELSE CreateCall(Preserve, q.node, FALSE)))
            [] Tok(p) = "OPEN_BRACKET" -> Property(p, Preserve)
            [] IsIdentifierName(Tok(p)) ->
                 WithNode(Eat(p), Node("PROPERTY", Preserve, StringNode(Val(p)), "PROPERTY_ATOM_GET"))
            [] OTHER -> Failed(p),
          CallOrProperty)

\* njs_parser_optional_expression_after().
RECURSIVE OptionalExpressionAfter(_)
OptionalExpressionAfter(p) ==
    LET q == Peek(p, 1)
        call == Tok(Consume(q, 2)) = "OPEN_PARENTHESIS"
        left == IF call THEN ReceiverRef(p.node) ELSE p.node
    IN CASE Tok(p) # "CONDITIONAL" -> p
         [] Ahead(p, 1).t # "DOT" -> q
         [] OTHER -> After(OptionalChain(Consume(q, 2), p.node), LAMBDA r :
                         OptionalExpressionAfter(WithNode(r, Node("OPTIONAL_CHAIN", left, r.node, ""))))

\* njs_parser_left_hand_side_expression_after(), njs_parser_left_hand_side_expression_optional():
\* after a call, what follows is an optional chain or a plain one, never both.
IsCtor(n) == \/ n.t \in {"METHOD_CALL", "FUNCTION_CALL"} /\ n.u = "new"
             \/ n.t = "ARRAY" /\ n.u[2]
LeftHandSideAfter(p) ==
    CASE Tok(p) = "OPEN_PARENTHESIS" ->
           After(CallNode(p, p.node, FALSE), LAMBDA q :
               IF Tok(q) = "CONDITIONAL" THEN OptionalExpressionAfter(q) ELSE CallOrProperty(q))
      [] Tok(p) = "CONDITIONAL" ->
           IF Ahead(p, 1).t = "DOT" /\ IsCtor(p.node) THEN Failed(p) ELSE OptionalExpressionAfter(Peek(p, 1))
      [] OTHER -> p

\* njs_parser_left_hand_side_expression().
LeftHandSideState(p) ==
    LET q == Peek(p, 1)
    IN CASE Tok(p) = "NEW" /\ Ahead(p, 1).t = "NEW" -> After(NewExpression(Eat(q)), LeftHandSideAfter)
         [] Tok(p) \in {"SUPER", "IMPORT"} -> Failed(q)
         [] OTHER -> After(Member(IF Tok(p) = "NEW" THEN q ELSE p), LeftHandSideAfter)

\* njs_parser_update_expression_post(): no line end before ++ and --.
PostTypes == ("INCREMENT" :> "POST_INCREMENT") @@ ("DECREMENT" :> "POST_DECREMENT")
UpdatePost(p) ==
    LET n == p.node
    IN CASE Tok(p) \notin {"INCREMENT", "DECREMENT"} \/ AfterNewLine(p) -> p
         [] ~IsLvalue(n) -> Failed(p)
         [] OTHER -> WithNode(Eat(p), Node(PostTypes[Tok(p)], PropertyRef(n), NIL, PostTypes[Tok(p)]))

\* njs_parser_update_expression(), njs_parser_update_expression_unary().
UpdateExpression(p) ==
    IF Tok(p) \in {"INCREMENT", "DECREMENT"}
    THEN After(LeftHandSide(Eat(p)), LAMBDA q :
             IF IsLvalue(q.node) THEN WithNode(q, Node(Tok(p), PropertyRef(q.node), NIL, Tok(p))) ELSE Failed(q))
    ELSE After(LeftHandSide(p), UpdatePost)

\* njs_parser_unary_expression_next(): numbers keep their sign, delete needs a property.
UnaryNext(p, type) ==
    LET n == p.node
        delete(m) == [m EXCEPT !.t = "PROPERTY_DELETE", !.u = "PROPERTY_DELETE"]
        wrap(m) == WithNode(p, Node(type, m, NIL, type))
    IN CASE Tok(p) = "EXPONENTIATION" -> Failed(p)
         [] n.t = "NUMBER" /\ type = "UNARY_PLUS" -> p
         [] n.t = "NUMBER" /\ type = "UNARY_NEGATION" -> WithNode(p, NumberNode(-n.u[2]))
         [] type = "DELETE" /\ IsProperty(n) -> WithNode(p, delete(n))
         [] type = "DELETE" /\ n.t = "OPTIONAL_CHAIN" /\ IsProperty(n.r) -> wrap([n EXCEPT !.r = delete(@)])
         [] type = "DELETE" /\ n.t = "NAME" -> Failed(p)
         [] OTHER -> wrap(n)

\* njs_parser_unary_expression(); `under' says that another unary operator is
\* around it.  njs_parser_unary_expression_after(), njs_parser_exponentiation_expression_match():
\* "**" takes an operand that is under none.
UnaryTypes == [t \in {"DELETE", "VOID", "TYPEOF", "LOGICAL_NOT", "BITWISE_NOT", "ADDITION", "SUBTRACTION"} |->
                 CASE t = "ADDITION" -> "UNARY_PLUS" [] t = "SUBTRACTION" -> "UNARY_NEGATION" [] OTHER -> t]
RECURSIVE Exponentiation(_), UnaryExpression(_, _)
UnaryExpression(p, under) ==
    CASE Tok(p) \in DOMAIN UnaryTypes ->
           After(UnaryExpression(Eat(p), TRUE), LAMBDA q : UnaryNext(q, UnaryTypes[Tok(p)]))
      [] Tok(p) = "AWAIT" ->
           IF ~p.scopes[FunctionScope(p, 1)].async THEN Failed(p)
           ELSE AfterAlways(UnaryExpression(Eat(p), under), LAMBDA q :
                    IF q.ret # "OK" THEN Failed(q) ELSE WithNode(q, Node("AWAIT", NIL, q.node, "")))
      [] OTHER ->
           After(UpdateExpression(p), LAMBDA q :
               IF under \/ Tok(q) # "EXPONENTIATION" THEN q
               ELSE After(Exponentiation(Eat(q)), LAMBDA r :
                        WithNode(r, Node("EXPONENTIATION", q.node, r.node, "EXPONENTIATION"))))

\* njs_parser_exponentiation_expression(): in the head of a "for" the first
\* operand may have been parsed already.
Exponentiation(p) == IF p.useLhs THEN UpdatePost([p EXCEPT !.useLhs = FALSE]) ELSE UnaryExpression(p, FALSE)

\* The levels of binary operators, from the innermost one: each token and its operation.
Multiplicative == [t \in {"MULTIPLICATION", "DIVISION", "REMAINDER"} |-> t]
Additive == [t \in {"ADDITION", "SUBTRACTION"} |-> t]
Shift == [t \in {"RIGHT_SHIFT", "LEFT_SHIFT", "UNSIGNED_RIGHT_SHIFT"} |-> t]
Relational == [t \in {"LESS", "GREATER", "LESS_OR_EQUAL", "GREATER_OR_EQUAL"} |-> t]
              @@ ("INSTANCEOF" :> "INSTANCE_OF") @@ ("IN" :> "PROPERTY_IN")
Equality == [t \in {"EQUAL", "NOT_EQUAL", "STRICT_EQUAL", "STRICT_NOT_EQUAL"} |-> t]
BitwiseAnd == "BITWISE_AND" :> "BITWISE_AND"
BitwiseXor == "BITWISE_XOR" :> "BITWISE_XOR"
BitwiseOr == "BITWISE_OR" :> "BITWISE_OR"
LogicalAnd == "LOGICAL_AND" :> "TEST_IF_FALSE"
LogicalOr == "LOGICAL_OR" :> "TEST_IF_TRUE"
Levels == <<Multiplicative, Additive, Shift, Relational, Equality, BitwiseAnd, BitwiseXor, BitwiseOr,
            LogicalAnd, LogicalOr>>
BitwiseOrLevel == 8

\* The operators of a level associate to the left; "in" may be refused
\* (njs_parser_relational_expression_match()).
RECURSIVE Binary(_, _), BinaryMatch(_, _)
Binary(p, k) == IF k = 0 THEN Exponentiation(p) ELSE After(Binary(p, k - 1), LAMBDA q : BinaryMatch(q, k))
BinaryMatch(p, k) ==
    CASE Tok(p) \notin DOMAIN Levels[k] -> p
      [] Tok(p) = "IN" /\ InFail(p) -> Failed(p)
      [] OTHER -> After(Binary(Eat(p), k - 1), LAMBDA q :
                      BinaryMatch(WithNode(q, Node(Tok(p), p.node, q.node, Levels[k][Tok(p)])), k))

\* njs_parser_coalesce_expression(): `last' is its latest operand.  && and || must be in parentheses.
RECURSIVE Coalesce(_, _)
Coalesce(p, last) ==
    CASE Tok(p) # "COALESCE" -> p
      [] PrevType(p) # "CLOSE_PARENTHESIS" /\ last.t \in {"LOGICAL_OR", "LOGICAL_AND"} -> Failed(p)
      [] OTHER -> After(Binary(Eat(p), BitwiseOrLevel), LAMBDA q :
                      Coalesce(WithNode(q, Node("COALESCE", p.node, q.node, "COALESCE")), q.node))
ShortCircuit(p) == After(Binary(p, Len(Levels)), LAMBDA q : Coalesce(q, q.node))

\* njs_parser_conditional_question_mark(), njs_parser_conditional_colon(): "in"
\* is allowed before the colon.
QuestionMark(p) ==
    IF Tok(p) # "CONDITIONAL" THEN p
    ELSE After(AssignmentExpression(Eat(InStackPush(p))), LAMBDA q :
             IF Tok(q) # "COLON" THEN Failed(q)
             ELSE After(AssignmentExpression(Eat(InStackPop(q))), LAMBDA r :
                      WithNode(r, Node("CONDITIONAL", p.node, Node("BRANCHING", q.node, r.node, ""), ""))))
Conditional(p) == After(ShortCircuit(p), QuestionMark)

\* njs_parser_match_arrow_expression(): the tokens up to "=>", 0 for none.
RECURSIVE ArrowParameters(_, _, _)
ArrowParameters(p, k, rest) ==
    LET t == Ahead(p, k).t
        name == IF t = "ELLIPSIS" THEN k + 1 ELSE k
        comma == IF Ahead(p, name + 1).t = "COMMA" THEN name + 2 ELSE name + 1
    IN CASE t = "CLOSE_PARENTHESIS" -> [ok |-> TRUE, at |-> k]
         [] rest -> [ok |-> FALSE, at |-> k]
         [] ~IsBinding(Ahead(p, name).t) -> [ok |-> FALSE, at |-> name]
         [] OTHER -> ArrowParameters(p, comma, t = "ELLIPSIS")
MatchArrow(p) ==
    LET k == IF Tok(p) = "ASYNC" THEN 1 ELSE 0
        first == Ahead(p, k)
        list == ArrowParameters(p, k + 1, FALSE)
        arrow(j) == LET next == Ahead(p, j + 1) IN [ok |-> next.t = "ARROW" /\ ~next.nl, at |-> IF next.nl THEN j ELSE j + 1]
    IN CASE k = 1 /\ first.nl -> [ok |-> FALSE, at |-> 0]
         [] IsBinding(first.t) -> arrow(k)
         [] first.t # "OPEN_PARENTHESIS" -> [ok |-> FALSE, at |-> k]
         [] ~list.ok -> list
         [] OTHER -> arrow(list.at)

\* njs_parser_assignment_operator(): the operation of each token.
OperationAssignments ==
    [op \in {"MULTIPLICATION", "DIVISION", "REMAINDER", "ADDITION", "SUBTRACTION", "LEFT_SHIFT", "RIGHT_SHIFT",
             "UNSIGNED_RIGHT_SHIFT", "BITWISE_AND", "BITWISE_XOR", "BITWISE_OR", "EXPONENTIATION"} |-> op]
LogicalAssignments == ("LOGICAL_OR" :> "TEST_IF_TRUE") @@ ("LOGICAL_AND" :> "TEST_IF_FALSE")
                      @@ ("COALESCE" :> "COALESCE")
AssignmentNode(token, x, v) ==
    CASE token.t = "ASSIGNMENT" -> Node("ASSIGNMENT", x, v, "")
      [] token.v \in DOMAIN OperationAssignments -> Node("OPERATION_ASSIGNMENT", x, v, OperationAssignments[token.v])
      [] token.v \in DOMAIN LogicalAssignments -> Node("LOGICAL_ASSIGNMENT", x, v, LogicalAssignments[token.v])
AssignmentOperator(p) ==
    CASE Tok(p) \notin {"ASSIGNMENT", "OPERATION_ASSIGNMENT"} -> p
      [] ~IsLvalue(p.node) -> Failed(p)
      [] OTHER -> After(AssignmentExpression(Eat(p)), LAMBDA q :
                      WithNode(q, AssignmentNode(TokenAt(p, p.pos), PropertyRef(p.node), q.node)))

\* njs_parser_assignment_expression().
AssignmentExpressionState(p) ==
    LET arrow == MatchArrow(p)
        q == Peek(p, arrow.at)
    IN IF ~p.useLhs /\ arrow.ok THEN ArrowFunction(q)
       ELSE After(Conditional(IF p.useLhs THEN p ELSE q), AssignmentOperator)

-----------------------------------------------------------------------------
(* Statements.                                                             *)

\* njs_parser_statement_after(): the chain of statements grows, imports go
\* after the imports before them.
IsHoisted(n) == n.t = "IMPORT"
RECURSIVE HoistInto(_, _)
HoistInto(chain, n) ==
    IF chain = NIL \/ IsHoisted(chain.r) THEN Node("STATEMENT", chain, n, "")
    ELSE [chain EXCEPT !.l = HoistInto(@, n)]
StatementAfter(p, chain) ==
    LET top == IF IsHoisted(p.node) THEN HoistInto(p.scopes[1].top, p.node)
               ELSE Node("STATEMENT", chain, p.node, "")
    IN Pop([WithNode(p, top) EXCEPT !.scopes[1].top = top])

\* njs_parser_initializer(), njs_parser_initializer_after().
Initializer(p, type, name) ==
    LET declaration(e) == Node("STATEMENT", NIL, Node(type, NameNode(name), e, ""), "")
    IN IF Tok(p) # "ASSIGNMENT" THEN WithNode(p, declaration(NIL))
       ELSE After(AssignmentExpression(Eat(WithNode(p, NIL))), LAMBDA q : WithNode(q, declaration(q.node)))

\* njs_parser_variable_node(): a name in the scope of a declaration.
VariableNode(p, name, type) ==
    LET declared(q, at) == IF q.error = "" /\ q.scopes[at].vars[name].self
                           THEN [q EXCEPT !.scopes[at].vars[name].type = type, !.scopes[at].vars[name].self = FALSE] ELSE q
        add(at) == declared(AddedAt(p, at, 1, name, type), at)
    IN add(VariableScopeFind(p, 1, name, type))

\* njs_parser_variable_declaration(): parser->var_type is what the latest declaration set.
DeclarationTypes == ("let" :> "LET") @@ ("const" :> "CONST") @@ ("var" :> "VAR")
VariableDeclaration(p) ==
    CASE ~IsBinding(Tok(p)) \/ Tok(p) \in Restricted -> Failed(p)
      [] OTHER -> After(VariableNode(p, Val(p), p.varType), LAMBDA q :
                      Initializer(Eat(q), DeclarationTypes[p.varType], Val(p)))

\* njs_parser_variable_declaration_list(), njs_parser_variable_declaration_list_next().
RECURSIVE VariableDeclarationNext(_, _)
VariableDeclarationNext(p, before) ==
    LET chain == IF before = NIL THEN p.node ELSE [p.node EXCEPT !.l = before]
    IN IF Tok(p) # "COMMA" THEN WithNode(p, chain)
       ELSE After(VariableDeclaration(Eat(p)), LAMBDA q : VariableDeclarationNext(q, chain))
VariableDeclarationList(p) == After(VariableDeclaration(p), LAMBDA q : VariableDeclarationNext(q, NIL))

\* njs_parser_variable_statement(), njs_parser_lexical_declaration(): the keyword is consumed.
VariableStatement(p, type) == After(VariableDeclarationList([p EXCEPT !.varType = type]), Semicolon)

\* njs_parser_declaration(), njs_parser_hoistable_declaration(): whether a declaration comes now.
LexicalTypes == ("LET" :> "let") @@ ("CONST" :> "const")
IsDeclaration(p) ==
    \/ Tok(p) \in {"FUNCTION", "CLASS"}
    \/ Tok(p) = "ASYNC" /\ Ahead(p, 1).t = "FUNCTION" /\ ~Ahead(p, 1).nl
    \/ Tok(p) \in DOMAIN LexicalTypes /\ Ahead(p, 1).t \in {"OPEN_BRACE", "OPEN_BRACKET", "NAME"} \cup Reserved \cup SoftKeywords
Declaration(p) ==
    LET declaration(q) == After(q, LAMBDA r : StatementAfter(r, p.node))
    IN CASE Tok(p) = "FUNCTION" -> declaration(FunctionDeclaration(Eat(p), "FUNCTION_DECLARATION"))
         [] Tok(p) = "ASYNC" -> declaration(FunctionDeclaration(Consume(Peek(p, 1), 2), "ASYNC_FUNCTION_DECLARATION"))
         [] Tok(p) \in DOMAIN LexicalTypes /\ Ahead(p, 1).t \notin Reserved ->
              declaration(VariableStatement(Eat(Peek(p, 1)), LexicalTypes[Tok(p)]))
         [] OTHER -> Failed(p)

\* njs_parser_export(), njs_parser_export_after(): the only export is "default".
Export(p) ==
    LET name == Ahead(p, 1)
        q == Consume(p, 1)
    IN CASE ~p.module -> Failed(p)
         [] Tok(p) = "DEFAULT" ->
              After(AssignmentExpression(q), LAMBDA r :
                  After(Semicolon(r), LAMBDA s : WithNode(s, Node("EXPORT", NIL, r.node, ""))))
         [] /\ Tok(p) = "OPEN_BRACE" /\ name.t = "NAME" /\ Ahead(p, 2) = Token("NAME", "as", Ahead(p, 2).nl)
            /\ Ahead(p, 3).t = "DEFAULT" /\ Ahead(p, 4).t = "CLOSE_BRACE" ->
              WithNode(Consume(Peek(q, 3), 4), Node("EXPORT", NIL, NameNode(name.v), ""))
         [] OTHER -> Failed(p)
\* njs_parser_import(): a default import of a module that can be loaded.
Import(p) ==
    IF Len(p.scopes) # 1 \/ Tok(p) # "NAME" THEN Failed(p)
    ELSE After(VariableNode(p, Val(p), "let"), LAMBDA q :
             After(Expect(Eat(q), "FROM"), LAMBDA r :
                 After(Expect(r, "STRING"), LAMBDA s :
                     After(Semicolon(s), LAMBDA t : WithNode(t, Node("IMPORT", NameNode(Val(p)), NIL, Val(r)))))))

\* njs_parser_statement(): an empty statement leaves no node; the script may
\* end only between two statements of its own.
Statement(p, outermost) ==
    LET statement(q) == After(q, LAMBDA r : StatementAfter(r, p.node))
    IN CASE Tok(p) = "END" -> IF outermost THEN [p EXCEPT !.ret = "DONE"] ELSE Reject(p)
         [] Tok(p) = "SEMICOLON" -> Eat(p)
         [] Tok(p) = "EXPORT" -> statement(Export(Eat(p)))
         [] Tok(p) = "IMPORT" -> statement(Import(Eat(p)))
         [] OTHER -> statement(StatementWithoutNode(p))

\* njs_parser_statement_list(), njs_parser_statement_list_next(): a list ends at
\* "}", or after its first statement where none can begin.
StatementListItem(p, outermost) ==
    LET q == IF Tok(p) \in {"ASYNC", "LET", "CONST"} THEN Peek(p, 1) ELSE p
    IN IF IsDeclaration(q) THEN Declaration(q) ELSE Statement(q, outermost)
RECURSIVE StatementListNext(_, _, _)
StatementListNext(p, before, outermost) ==
    CASE p.ret # "OK" -> IF Tok(p) = "CLOSE_BRACE" THEN Failed(p) ELSE WithNode(p, before)
      [] Tok(p) = "CLOSE_BRACE" -> p
      [] OTHER -> AfterAlways(StatementListItem(p, outermost), LAMBDA q : StatementListNext(q, p.node, outermost))
StatementListState(p, outermost) ==
    After(StatementListItem(p, outermost), LAMBDA q : StatementListNext(q, NIL, outermost))

\* njs_parser_block_statement(), njs_parser_block_statement_close_brace(): "{" is consumed.
CloseBlock(p) ==
    IF p.ret # "OK" \/ Tok(p) # "CLOSE_BRACE" THEN Failed(p)
    ELSE Eat(ScopeEnd(WithNode(p, Node("BLOCK", p.node, NIL, ""))))
BlockBody(p) == IF Tok(p) = "CLOSE_BRACE" THEN CloseBlock(WithNode(p, NIL))
                ELSE AfterAlways(StatementList(WithNode(p, NIL)), CloseBlock)
BlockStatement(p) == BlockBody(ScopeBegin(p, "BLOCK"))
OpenBlock(p) == After(Expect(p, "OPEN_BRACE"), BlockStatement)

\* njs_parser_expression_parenthesis().
ExpressionParenthesis(p) ==
    After(Expect(p, "OPEN_PARENTHESIS"), LAMBDA q : AfterAlways(Expression(WithNode(q, NIL)), CloseParenthesis))

\* A statement in a statement, after what has been parsed of the outer one.
SubStatement(p) == StatementWithoutNode(WithNode(p, NIL))

\* njs_parser_if_statement(), njs_parser_if_close_parenthesis(), njs_parser_else_statement().
IfStatement(p) ==
    After(Expect(p, "OPEN_PARENTHESIS"), LAMBDA q :
        After(Expression(WithNode(q, NIL)), LAMBDA c :
            After(Expect(c, "CLOSE_PARENTHESIS"), LAMBDA r :
                After(SubStatement(r), LAMBDA then :
                    IF Tok(then) # "ELSE" THEN WithNode(then, Node("IF", c.node, then.node, ""))
                    ELSE After(SubStatement(Eat(then)), LAMBDA else :
                             WithNode(else, Node("IF", c.node, Node("BRANCHING", then.node, else.node, ""), "")))))))

\* njs_parser_iteration_statement_do(), njs_parser_do_while_semicolon(), njs_parser_iteration_statement_while().
DoStatement(p) ==
    After(SubStatement(p), LAMBDA q :
        After(Expect(q, "WHILE"), LAMBDA r :
            After(ExpressionParenthesis(r), LAMBDA s : WithNode(s, Node("DO", q.node, s.node, "")))))
WhileStatement(p) ==
    After(ExpressionParenthesis(p), LAMBDA q :
        After(SubStatement(q), LAMBDA r : WithNode(r, Node("WHILE", r.node, q.node, ""))))

\* njs_parser_for_expression(), njs_parser_for_expression_end(), njs_parser_for_end():
\* the condition is the node.
ForBody(p, init, cond, update) ==
    After(Expect(p, "CLOSE_PARENTHESIS"), LAMBDA q :
        After(SubStatement(q), LAMBDA r :
            WithNode(r, Node("FOR", init, Node("", cond, Node("", r.node, update, ""), ""), ""))))
ForExpression(p, init) ==
    After(Expect(p, "SEMICOLON"), LAMBDA q :
        IF Tok(q) = "CLOSE_PARENTHESIS" THEN ForBody(q, init, p.node, NIL)
        ELSE After(Expression(WithNode(q, NIL)), LAMBDA r : ForBody(r, init, p.node, r.node)))
\* The condition after the ";" that is the token.
ForCondition(p, init) ==
    LET q == Peek(p, 1)
    IN IF Ahead(p, 1).t = "SEMICOLON" THEN ForExpression(WithNode(Eat(q), NIL), init)
       ELSE After(Expression(WithNode(Eat(q), NIL)), LAMBDA r : ForExpression(r, init))

\* njs_parser_for_var_in_of_expression().
ForVarInOf(p) == IF Tok(p) = "SEMICOLON" THEN ForCondition(InFailSet(p, FALSE), p.node) ELSE Failed(p)

\* njs_parser_for_var_in_statement(), njs_parser_for_in_statement_statement(): the
\* object is the node.
ForIn(p, left, op) ==
    IF p.ret # "OK" THEN Failed(p)
    ELSE After(Expect(p, "CLOSE_PARENTHESIS"), LAMBDA q :
             After(SubStatement(q), LAMBDA r :
                 WithNode(r, Node("FOR_IN", Node("IN", left, p.node, op), r.node, ""))))

\* njs_parser_expression_continue_op(), njs_parser_expression_continue_assign_comma(): the
\* rest of an expression whose left-hand side is the node.
ContinueExpression(p) ==
    IF Tok(p) = "CONDITIONAL"
    THEN AfterAlways(QuestionMark(p), LAMBDA q :
             IF q.ret # "OK" THEN Failed(q) ELSE After(AssignmentOperator(q), ExpressionComma))
    ELSE Expression([p EXCEPT !.useLhs = TRUE])

\* njs_parser_for_expression_map_continue().
ForMapContinue(p) ==
    CASE Tok(p) # "IN" -> After(ContinueExpression(InFailSet(p, TRUE)), ForVarInOf)
      [] ~IsLvalue(p.node) -> Failed(p)
      [] OTHER -> AfterAlways(Expression(Eat(p)), LAMBDA q : ForIn(q, PropertyRef(p.node), "PROPERTY_IN"))
\* njs_parser_for_expression_map_reparse(): no left-hand side began here.
ForMapReparse(p) ==
    CASE p.ret # "OK" /\ p.node # NIL -> Failed(p)
      [] p.node = NIL -> After(Expression(Pop(InFailSet(p, TRUE))), ForMapContinue)
      [] OTHER -> ForMapContinue(p)

\* njs_parser_for_var_binding_or_var_list(): the keyword is consumed.
ForVar(p, type) ==
    LET q == Peek(p, 1)
        name == Val(p)
        left == Node("STATEMENT", NIL, Node(DeclarationTypes[type], NameNode(name), NIL, ""), "")
    IN CASE ~IsBinding(Tok(p)) \/ Tok(p) \in Restricted -> Failed(p)
         [] Ahead(p, 1).t # "IN" ->
              After(VariableDeclarationList(InFailSet([q EXCEPT !.varType = type], TRUE)), ForVarInOf)
         [] OTHER -> After(VariableNode(q, name, type), LAMBDA r :
                         After(Expression(Consume(r, 2)), LAMBDA s : ForIn(s, left, "")))

\* njs_parser_iteration_statement_for_map().
ForMap(p) ==
    LET arrow == MatchArrow(p)
    IN CASE Tok(p) = "SEMICOLON" -> ForCondition(p, NIL)
         [] Tok(p) \in {"VAR", "LET", "CONST"} ->
              ForVar(Eat(Peek(p, 1)), IF Tok(p) = "VAR" THEN "var" ELSE LexicalTypes[Tok(p)])
         [] Tok(p) = "AWAIT" -> After(Expression(p), ForVarInOf)
         [] arrow.ok -> After(Expression(Peek(p, arrow.at)), ForVarInOf)
         [] OTHER -> AfterAlways(LeftHandSide(Peek(p, arrow.at)), ForMapReparse)

\* njs_parser_iteration_statement_for(), njs_parser_iteration_statement_for_end().
ForStatement(p) ==
    After(Expect(p, "OPEN_PARENTHESIS"), LAMBDA q :
        After(ForMap(WithNode(ScopeBegin(q, "BLOCK"), NIL)), ScopeEnd))

\* njs_parser_break_continue(): a ";" after a label is left for later.
BreakContinue(p, type) ==
    LET q == WithNode(p, Node(type, NIL, NIL, ""))
    IN CASE Tok(p) = "SEMICOLON" -> Eat(q)
         [] IsBinding(Tok(p)) /\ ~AfterNewLine(p) ->
              IF LabelFound(p, Val(p)) THEN Eat(WithNode(p, Node(type, NIL, NIL, Val(p)))) ELSE Failed(p)
         [] NoSemicolonNeeded(p) -> q
         [] OTHER -> Failed(p)

\* njs_parser_return_statement(), njs_parser_return_statement_after().
ReturnStatement(p) ==
    LET return(q, e) == WithNode(q, Node("RETURN", NIL, e, ""))
    IN CASE \A i \in DOMAIN p.scopes : p.scopes[i].type # "FUNCTION" -> Failed(p)
         [] Tok(p) = "SEMICOLON" -> Eat(return(p, NIL))
         [] AfterNewLine(p) \/ Tok(p) = "CLOSE_BRACE" -> return(p, NIL)
         [] OTHER -> AfterAlways(Expression(WithNode(p, NIL)), LAMBDA q :
                         IF q.ret # "OK" THEN Failed(q) ELSE After(Semicolon(q), LAMBDA r : return(r, r.node)))

\* njs_parser_throw_statement().
ThrowStatement(p) ==
    IF AfterNewLine(p) THEN Failed(p)
    ELSE After(Expression(WithNode(p, NIL)), LAMBDA q :
             After(Semicolon(q), LAMBDA r : WithNode(r, Node("THROW", NIL, r.node, ""))))

\* njs_parser_switch_case_def() and what follows it, for the branches from the
\* token on: a body that ends where no statement begins must end in the scope of the switch.
RECURSIVE SwitchCases(_, _)
SwitchBody(p) ==
    After(Expect(p, "COLON"), LAMBDA q :
        IF Tok(q) \in {"CASE", "DEFAULT", "CLOSE_BRACE"} THEN WithNode(q, NIL)
        ELSE After(StatementList(WithNode(q, NIL)), LAMBDA r :
                 IF r.ret # "OK" /\ r.scopes[1].id # p.scopes[1].id THEN Failed(r) ELSE Pop(r)))
SwitchCases(p, default) ==
    CASE Tok(p) = "CASE" ->
           After(Expression(Eat(WithNode(p, NIL))), LAMBDA c :
               After(SwitchBody(c), LAMBDA body :
                   After(SwitchCases(body, default), LAMBDA rest :
                       WithNode(rest, Node("", rest.node, Node("", c.node, body.node, ""), "")))))
      [] Tok(p) = "DEFAULT" /\ default ->
           After(SwitchBody(Eat(WithNode(p, NIL))), LAMBDA body :
               After(SwitchCases(body, FALSE), LAMBDA rest :
                   WithNode(rest, Node("DEFAULT", rest.node, body.node, ""))))
      [] Tok(p) = "CLOSE_BRACE" -> Eat(WithNode(p, NIL))
      [] OTHER -> Failed(p)
SwitchStatement(p) ==
    After(ExpressionParenthesis(p), LAMBDA q :
        After(Expect(q, "OPEN_BRACE"), LAMBDA r :
            After(SwitchCases(ScopeBegin(r, "BLOCK"), TRUE), LAMBDA s :
                ScopeEnd(WithNode(s, Node("SWITCH", q.node, s.node, ""))))))

\* njs_parser_labelled_statement(), njs_parser_labelled_statement_after().
HasLabel == {"BLOCK", "IF", "DO", "WHILE", "FOR", "FOR_IN", "SWITCH"}
Labelled(n, label) == CASE n = NIL -> Node("BLOCK", NIL, NIL, label)
                        [] n.t \in HasLabel -> [n EXCEPT !.u = label]
                        [] OTHER -> n
LabelledStatement(p) ==
    LET q == [Consume(p, 2) EXCEPT !.scopes[1].labels = @ \cup {Val(p)}]
    IN IF LabelFound(p, Val(p)) \/ Tok(q) = "FUNCTION" THEN Failed(p)
       ELSE After(SubStatement(q), LAMBDA r :
                [WithNode(r, Labelled(r.node, Val(p))) EXCEPT !.scopes[1].labels = @ \ {Val(p)}])

\* njs_parser_try_statement(), njs_parser_catch_or_finally(), njs_parser_catch_after(),
\* njs_parser_catch_finally(): "catch" needs its parameter.
Finally(p, body, catch) ==
    AfterAlways(OpenBlock(Eat(WithNode(p, NIL))), LAMBDA q :
        IF q.ret # "OK" THEN Failed(q)
        ELSE WithNode(q, Node("TRY", body, Node("FINALLY", catch, q.node, ""), "")))
CatchParameter(p) ==
    IF ~IsBinding(Tok(p)) THEN Failed(p)
    ELSE After(VariableAdd(p, 1, Val(p), "catch"), LAMBDA q : Expect(Eat(q), "CLOSE_PARENTHESIS"))
CatchOrFinally(p) ==
    LET begun == ScopeBegin(Eat(p), "BLOCK")
        param == Eat(begun)
    IN CASE Tok(p) = "FINALLY" -> Finally(p, p.node, NIL)
         [] Tok(p) # "CATCH" \/ Tok(begun) # "OPEN_PARENTHESIS" -> Failed(p)
         [] OTHER ->
              After(CatchParameter(param), LAMBDA q :
                  After(Expect(q, "OPEN_BRACE"), LAMBDA r :
                      After(BlockBody(r), LAMBDA s :
                          LET catch == Node("CATCH", NameNode(Val(param)), s.node, "")
                          IN IF Tok(s) = "FINALLY" THEN Finally(s, p.node, catch)
                             ELSE WithNode(s, Node("TRY", p.node, catch, "")))))
TryStatement(p) == After(OpenBlock(WithNode(p, NIL)), CatchOrFinally)

\* njs_parser_debugger_statement().
DebuggerStatement(p) ==
    IF Tok(p) \notin {"SEMICOLON", "END"} THEN Failed(p) ELSE Eat(WithNode(p, Node("DEBUGGER", NIL, NIL, "")))

\* njs_parser_expression_statement(): what looks like a declaration is none here.
ExpressionStatement(p) ==
    LET next == Ahead(p, 1)
        q == IF Tok(p) \in {"ASYNC", "LET", "CONST"} THEN Peek(p, 1) ELSE p
    IN CASE Tok(p) \in {"FUNCTION", "CLASS"} -> Failed(p)
         [] Tok(p) = "OPEN_BRACE" -> Reject(p)
         [] Tok(p) = "ASYNC" /\ next.t = "FUNCTION" /\ ~next.nl -> Failed(p)
         [] Tok(p) \in {"LET", "CONST"} /\ next.t \in {"NAME", "OPEN_BRACKET"} -> Failed(p)
         [] OTHER -> After(Expression(WithNode(q, NIL)), Semicolon)

\* njs_parser_statement_wo_node().
StatementWithoutNodeState(p) ==
    CASE Tok(p) = "OPEN_BRACE" -> BlockStatement(Eat(p))
      [] Tok(p) = "VAR" -> VariableStatement(Eat(p), "var")
      [] Tok(p) = "SEMICOLON" -> Eat(p)
      [] Tok(p) = "IF" -> IfStatement(Eat(p))
      [] Tok(p) = "DO" -> DoStatement(Eat(p))
      [] Tok(p) = "WHILE" -> WhileStatement(Eat(p))
      [] Tok(p) = "FOR" -> ForStatement(Eat(p))
      [] Tok(p) = "SWITCH" -> SwitchStatement(Eat(p))
      [] Tok(p) \in {"CONTINUE", "BREAK"} -> BreakContinue(Eat(p), Tok(p))
      [] Tok(p) = "RETURN" -> ReturnStatement(Eat(p))
      [] Tok(p) \in {"WITH", "END"} -> Failed(p)
      [] Tok(p) = "THROW" -> ThrowStatement(Eat(p))
      [] Tok(p) = "TRY" -> TryStatement(Eat(p))
      [] Tok(p) = "DEBUGGER" -> DebuggerStatement(Eat(p))
      [] IsBinding(Tok(p)) /\ Ahead(p, 1).t = "COLON" -> LabelledStatement(Peek(p, 1))
      [] IsBinding(Tok(p)) -> ExpressionStatement(Peek(p, 1))
      [] OTHER -> ExpressionStatement(p)

StateAfter(p, state) ==
    CASE state = "assignment_expression" -> AssignmentExpressionState(p)
      [] state = "left_hand_side_expression" -> LeftHandSideState(p)
      [] state = "primary_expression" -> PrimaryState(p)
      [] state \in {"script", "statement_list"} -> StatementListState(p, state = "script")
      [] state = "statement_wo_node" -> StatementWithoutNodeState(p)

-----------------------------------------------------------------------------
(* Scripts.                                                                *)

\* njs_parser_export_sink(): the one export becomes the last statement.
RECURSIVE Statements(_), Without(_, _)
Statements(chain) == IF chain = NIL THEN <<>> ELSE Append(Statements(chain.l), chain.r)
Without(chain, n) == IF chain.r = n THEN chain.l ELSE [chain EXCEPT !.l = Without(@, n)]
ExportSink(p) ==
    LET exports == SelectSeq(Statements(p.scopes[1].top), LAMBDA n : n.t = "EXPORT")
    IN IF Len(exports) # 1 THEN Failed(p)
       ELSE WithNode(p, Node("STATEMENT", Without(p.scopes[1].top, exports[1]), exports[1], ""))

\* njs_parser_init() and njs_parser(): the tree, or an error.
ParserInit(toks, module) ==
    ReadTo(ScopeBegin([toks |-> toks, pos |-> 1, read |-> 0, ins |-> <<FALSE>>, node |-> NIL, ret |-> "OK",
                       error |-> "", scopes |-> <<>>, nscopes |-> 0, useLhs |-> FALSE, varType |-> "var",
                       module |-> module],
                      IF module THEN "FUNCTION" ELSE "GLOBAL"), 1)
ParserEnd(p) ==
    CASE p.error # "" -> p
      [] p.ret # "DONE" -> Failed(p)
      [] p.module -> ExportSink(p)
      [] OTHER -> WithNode(p, p.scopes[1].top)
Parse(toks, module) == ParserEnd(StateAfter(ParserInit(toks, module), "script"))
====
