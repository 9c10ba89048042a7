------------------------------ MODULE JsSyntax ------------------------------
(***************************************************************************)
(* The text of a tree and its early errors, by the grammar of ECMAScript:  *)
(* what the parser is checked against.  Nothing here follows the way the   *)
(* parser works.                                                           *)
(***************************************************************************)
EXTENDS JsValues

T(t) == <<[t |-> t, v |-> "", nl |-> FALSE]>>
Word(t, v) == <<[t |-> t, v |-> v, nl |-> FALSE]>>
Name(x) == Word("NAME", x)
Open == T("OPEN_PARENTHESIS")
Close == T("CLOSE_PARENTHESIS")
InParens(text) == Open \o text \o Close
InBraces(text) == T("OPEN_BRACE") \o text \o T("CLOSE_BRACE")
InBrackets(text) == T("OPEN_BRACKET") \o text \o T("CLOSE_BRACKET")
\* A semicolon that a line end can stand for.
EndOfStatement == Word("SEMICOLON", "end")

-----------------------------------------------------------------------------
(* Expressions: how tightly each binds, and its text.                      *)

BinaryLevels ==
    [t \in {"LOGICAL_OR", "COALESCE"} |-> 4] @@ ("LOGICAL_AND" :> 5) @@ ("BITWISE_OR" :> 6)
    @@ ("BITWISE_XOR" :> 7) @@ ("BITWISE_AND" :> 8)
    @@ [t \in {"EQUAL", "NOT_EQUAL", "STRICT_EQUAL", "STRICT_NOT_EQUAL"} |-> 9]
    @@ [t \in {"LESS", "GREATER", "LESS_OR_EQUAL", "GREATER_OR_EQUAL", "INSTANCEOF", "IN"} |-> 10]
    @@ [t \in {"LEFT_SHIFT", "RIGHT_SHIFT", "UNSIGNED_RIGHT_SHIFT"} |-> 11]
    @@ [t \in {"ADDITION", "SUBTRACTION"} |-> 12]
    @@ [t \in {"MULTIPLICATION", "DIVISION", "REMAINDER"} |-> 13]
AssignmentLevel == 2
BitwiseOrOperand == 6
UnaryLevel == 15
CallLevel == 17
MemberLevel == 18
UnaryWords == [t \in {"DELETE", "VOID", "TYPEOF", "LOGICAL_NOT", "BITWISE_NOT"} |-> t]
              @@ ("UNARY_PLUS" :> "ADDITION") @@ ("UNARY_NEGATION" :> "SUBTRACTION")
Assigning == {"ASSIGNMENT", "OPERATION_ASSIGNMENT", "LOGICAL_ASSIGNMENT"}
PropertyNodes == {"PROPERTY", "PROPERTY_REF", "PROPERTY_DELETE"}
Calls == {"FUNCTION_CALL", "METHOD_CALL"}

RECURSIVE Level(_)
Level(n) ==
    CASE n.t = "COMMA" -> 1
      [] n.t \in Assigning -> AssignmentLevel
      [] n.t = "CONDITIONAL" -> 3
      [] n.t \in DOMAIN BinaryLevels -> BinaryLevels[n.t]
      [] n.t = "EXPONENTIATION" -> 14
      [] n.t \in DOMAIN UnaryWords \cup {"AWAIT", "PROPERTY_DELETE"} \/ (n.t = "NUMBER" /\ n.u[2] < 0) -> UnaryLevel
      [] n.t \in {"INCREMENT", "DECREMENT"} -> UnaryLevel
      [] n.t \in {"POST_INCREMENT", "POST_DECREMENT"} -> 16
      [] n.t = "OPTIONAL_CHAIN" -> CallLevel
      [] n.t \in Calls -> IF n.u = "new" THEN MemberLevel ELSE CallLevel
      [] n.t \in PropertyNodes -> IF n.l.t = "OPTIONAL_CHAIN" THEN MemberLevel
                                  ELSE IF Level(n.l) < CallLevel THEN MemberLevel ELSE Level(n.l)
      [] n.t = "OPTIONAL_PRESERVE" -> CallLevel
      [] OTHER -> 19

\* The text of a node, as an expression or as a statement.
RECURSIVE Written(_, _)
Text(n) == Written(n, "expression")
StatementText(n) == Written(n, "statement")

\* In parentheses when it binds less than its place needs.
Operand(n, level) == IF Level(n) < level THEN InParens(Text(n)) ELSE Text(n)
\* What a call or a property is taken of: a chain would go on.
Base(n, level) == IF n.t = "OPTIONAL_CHAIN" THEN InParens(Text(n)) ELSE Operand(n, level)

RECURSIVE ArgumentTexts(_)
ArgumentTexts(a) == IF a = NIL THEN <<>> ELSE <<Operand(a.l, AssignmentLevel)>> \o ArgumentTexts(a.r)
RECURSIVE Listing(_)
Listing(texts) == IF Len(texts) < 2 THEN FlattenSeq(texts) ELSE Head(texts) \o T("COMMA") \o Listing(Tail(texts))
ArgumentsText(a) == InParens(Listing(ArgumentTexts(a)))

Selector(n) == IF n.u = "PROPERTY_ATOM_GET" \/ (n.t = "PROPERTY_DELETE" /\ n.r.t = "STRING") THEN T("DOT") \o Name(n.r.u[2]) ELSE InBrackets(Text(n.r))
PropertyText(n) == Base(n.l, CallLevel) \o Selector(n)
CallText(n) == IF n.u = "new" THEN Word("NEW", "new") \o Base(n.l, MemberLevel) \o ArgumentsText(n.r)
               ELSE Base(n.l, CallLevel) \o ArgumentsText(n.r)

\* The rest of a chain, from its "?.".
RECURSIVE ChainText(_)
ChainText(n) ==
    CASE n.t \in Calls /\ (n.l.t = "OPTIONAL_PRESERVE" \/ n.u = "preserve") -> T("CONDITIONAL") \o T("DOT") \o ArgumentsText(n.r)
      [] n.t \in Calls -> ChainText(n.l) \o ArgumentsText(n.r)
      [] n.l.t = "OPTIONAL_PRESERVE" ->
           T("CONDITIONAL") \o T("DOT") \o (IF n.u = "PROPERTY_ATOM_GET" THEN Tail(Selector(n)) ELSE Selector(n))
      [] OTHER -> ChainText(n.l) \o Selector(n)

Statements(chain) ==
    LET RECURSIVE all(_)
        all(c) == IF c = NIL THEN <<>> ELSE all(c.l) \o StatementText(c.r)
    IN all(chain)
\* A "return" at the end may be the one that every body has.
BodyText(body) == InBraces(IF body.r = Node("RETURN", NIL, NIL, "") THEN Statements(body.l) ELSE Statements(body))
FunctionText(n) == Word("FUNCTION", "function") \o (IF n.l = NIL THEN <<>> ELSE Name(n.l.u))
                   \o InParens(Listing([k \in DOMAIN n.u.params |-> Name(n.u.params[k])])) \o BodyText(n.r)

KeyText(k) == CASE k.t = "NUMBER" -> Word("NUMBER", k.u[2])
                [] k.t = "STRING" -> Name(k.u[2])
                [] OTHER -> InBrackets(Operand(k, AssignmentLevel))
Definition(n) == KeyText(n.l.r) \o T("COLON") \o Operand(n.r, AssignmentLevel)
RECURSIVE Definitions(_)
Definitions(chain) == IF chain = NIL THEN <<>> ELSE Append(Definitions(chain.l), Definition(chain.r))
RECURSIVE Elements(_)
Elements(chain) == IF chain = NIL THEN <<>> ELSE Append(Elements(chain.l), Operand(chain.r.r, AssignmentLevel))

\* && and || next to ?? are in parentheses.
CoalesceOperand(n) == IF n.t = "COALESCE" THEN Text(n) ELSE Operand(n, BitwiseOrOperand)
BinaryText(n) ==
    LET level == BinaryLevels[n.t]
    IN CASE n.t = "COALESCE" -> CoalesceOperand(n.l) \o T("COALESCE") \o Operand(n.r, BitwiseOrOperand)
         [] n.l.t = "COALESCE" /\ n.t \in LogicalTokens -> InParens(Text(n.l)) \o T(n.t) \o Operand(n.r, level + 1)
         [] OTHER -> Operand(n.l, level) \o (IF n.t \in {"IN", "INSTANCEOF"} THEN Word(n.t, n.t) ELSE T(n.t))
                     \o Operand(n.r, level + 1)

LogicalOf == ("TEST_IF_TRUE" :> "LOGICAL_OR") @@ ("TEST_IF_FALSE" :> "LOGICAL_AND") @@ ("COALESCE" :> "COALESCE")
AssigningToken(n) == CASE n.t = "ASSIGNMENT" -> T("ASSIGNMENT")
                       [] n.t = "OPERATION_ASSIGNMENT" -> Word("OPERATION_ASSIGNMENT", n.u)
                       [] n.t = "LOGICAL_ASSIGNMENT" -> Word("OPERATION_ASSIGNMENT", LogicalOf[n.u])
PostToken == ("POST_INCREMENT" :> "INCREMENT") @@ ("POST_DECREMENT" :> "DECREMENT")

ExpressionForm(n) ==
    CASE n.t = "NAME" -> Name(n.u)
      [] n.t = "NUMBER" -> IF n.u[2] < 0 THEN T("SUBTRACTION") \o Word("NUMBER", -n.u[2]) ELSE Word("NUMBER", n.u[2])
      [] n.t \in {"TRUE", "FALSE", "NULL", "THIS"} -> Word(n.t, n.t)
      [] n.t = "STRING" -> Word("STRING", n.u[2])
      [] n.t = "COMMA" -> Operand(n.l, 1) \o T("COMMA") \o Operand(n.r, AssignmentLevel)
      [] n.t \in Assigning -> Operand(n.l, CallLevel) \o AssigningToken(n) \o Operand(n.r, AssignmentLevel)
      [] n.t = "CONDITIONAL" ->
           Operand(n.l, 4) \o T("CONDITIONAL") \o Operand(n.r.l, AssignmentLevel) \o T("COLON")
           \o Operand(n.r.r, AssignmentLevel)
      [] n.t \in DOMAIN BinaryLevels -> BinaryText(n)
      [] n.t = "EXPONENTIATION" -> Operand(n.l, 16) \o T(n.t) \o Operand(n.r, 14)
      [] n.t = "PROPERTY_DELETE" -> Word("DELETE", "delete") \o PropertyText(n)
      [] n.t = "AWAIT" -> Word("AWAIT", "await") \o Operand(n.r, UnaryLevel)
      [] n.t \in DOMAIN UnaryWords -> T(UnaryWords[n.t]) \o Operand(n.l, UnaryLevel)
      [] n.t \in {"INCREMENT", "DECREMENT"} -> T(n.t) \o Operand(n.l, UnaryLevel)
      [] n.t \in DOMAIN PostToken -> Operand(n.l, CallLevel) \o T(PostToken[n.t])
      [] n.t = "OPTIONAL_CHAIN" -> Operand(n.l, CallLevel) \o ChainText(n.r)
      [] n.t \in Calls -> CallText(n)
      [] n.t \in PropertyNodes -> PropertyText(n)
      [] n.t = "OBJECT" -> InBraces(Listing(Definitions(n.l)))
      [] n.t = "ARRAY" -> InBrackets(Listing(Elements(n.l)))
      [] n.t = "FUNCTION_EXPRESSION" -> FunctionText(n)

-----------------------------------------------------------------------------
(* Statements.                                                             *)

Keyword(t) == Word(t, t)
\* A statement may not begin as a block or a function does.
ExpressionText(n) ==
    LET text == Text(n) IN IF Head(text).t \in {"OPEN_BRACE", "FUNCTION"} THEN InParens(text) ELSE text
LabelText(label) == IF label = "" THEN <<>> ELSE Name(label) \o T("COLON")
Optional(n) == IF n = NIL THEN <<>> ELSE Text(n)

\* var, let and const: the names of the chain share their keyword.
DeclarationNodes == {"VAR", "LET", "CONST"}
Declarator(n) == Name(n.l.u) \o (IF n.r = NIL THEN <<>> ELSE T("ASSIGNMENT") \o Operand(n.r, AssignmentLevel))
RECURSIVE Declarators(_)
Declarators(chain) == IF chain = NIL THEN <<>> ELSE Append(Declarators(chain.l), Declarator(chain.r))
IsDeclarations(n) == n.t = "STATEMENT"
DeclarationText(chain) == Keyword(chain.r.t) \o Listing(Declarators(chain))

\* What an "if" with an "else" may have before the "else": no open "if".
RECURSIVE EndsOpen(_)
EndsOpen(n) ==
    CASE n.t = "IF" -> n.r.t # "BRANCHING" \/ EndsOpen(n.r.r)
      [] n.t = "WHILE" -> EndsOpen(n.l)
      [] n.t = "FOR" -> EndsOpen(n.r.r.l)
      [] n.t = "FOR_IN" -> EndsOpen(n.r)
      [] OTHER -> FALSE
SubText(n) == IF n = NIL THEN T("SEMICOLON") ELSE StatementText(n)

RECURSIVE BranchesText(_)
BranchesText(b) ==
    CASE b = NIL -> <<>>
      [] b.t = "DEFAULT" -> Keyword("DEFAULT") \o T("COLON") \o Statements(b.r) \o BranchesText(b.l)
      [] OTHER -> Keyword("CASE") \o Text(b.r.l) \o T("COLON") \o Statements(b.r.r) \o BranchesText(b.l)

CatchText(c) == IF c = NIL THEN <<>>
                ELSE Keyword("CATCH") \o InParens(Name(c.l.u)) \o StatementText(c.r)
TryText(n) ==
    Keyword("TRY") \o StatementText(n.l)
    \o (IF n.r.t = "CATCH" THEN CatchText(n.r)
        ELSE CatchText(n.r.l) \o Keyword("FINALLY") \o StatementText(n.r.r))

ForText(n) ==
    LET init == IF n.l # NIL /\ IsDeclarations(n.l) THEN DeclarationText(n.l) ELSE Optional(n.l)
    IN Keyword("FOR") \o InParens(init \o T("SEMICOLON") \o Optional(n.r.l) \o T("SEMICOLON") \o Optional(n.r.r.r))
       \o SubText(n.r.r.l)
ForInText(n) ==
    LET left == n.l.l
    IN Keyword("FOR") \o InParens((IF IsDeclarations(left) THEN DeclarationText(left) ELSE Text(left))
                                  \o Keyword("IN") \o Text(n.l.r)) \o SubText(n.r)

StatementForm(n) ==
    CASE n.t = "BLOCK" -> LabelText(n.u) \o InBraces(Statements(n.l))
      [] IsDeclarations(n) -> DeclarationText(n) \o EndOfStatement
      [] n.t = "FUNCTION_DECLARATION" -> FunctionText(n)
      [] n.t = "IF" ->
           LabelText(n.u) \o Keyword("IF") \o InParens(Text(n.l))
           \o (IF n.r = NIL \/ n.r.t # "BRANCHING" THEN SubText(n.r)
               ELSE SubText(n.r.l) \o Keyword("ELSE") \o SubText(n.r.r))
      [] n.t = "WHILE" -> LabelText(n.u) \o Keyword("WHILE") \o InParens(Text(n.r)) \o SubText(n.l)
      [] n.t = "DO" -> LabelText(n.u) \o Keyword("DO") \o SubText(n.l) \o Keyword("WHILE") \o InParens(Text(n.r))
                       \o EndOfStatement
      [] n.t = "FOR" -> LabelText(n.u) \o ForText(n)
      [] n.t = "FOR_IN" -> LabelText(n.u) \o ForInText(n)
      [] n.t = "SWITCH" -> LabelText(n.u) \o Keyword("SWITCH") \o InParens(Text(n.l)) \o InBraces(BranchesText(n.r))
      [] n.t \in {"BREAK", "CONTINUE"} ->
           Keyword(n.t) \o (IF n.u = "" THEN <<>> ELSE Name(n.u)) \o EndOfStatement
      [] n.t \in {"RETURN", "THROW"} -> Keyword(n.t) \o Optional(n.r) \o EndOfStatement
      [] n.t = "TRY" -> TryText(n)
      [] OTHER -> ExpressionText(n) \o EndOfStatement

Written(n, form) == IF form = "expression" THEN ExpressionForm(n) ELSE StatementForm(n)

\* A script: its statements, its line ends written as semicolons or not.
LineEnds(toks) ==
    LET ends(k) == toks[k].t = "SEMICOLON" /\ toks[k].v = "end"
        kept == SelectSeq([k \in DOMAIN toks |-> k], LAMBDA k : ~ends(k))
    IN [j \in DOMAIN kept |-> [toks[kept[j]] EXCEPT !.nl = kept[j] > 1 /\ ends(kept[j] - 1)]]

-----------------------------------------------------------------------------
(* Early errors.                                                           *)

\* The names a list of statements declares in its block, and those of "var"
\* in any block of it.
RECURSIVE Lexical(_, _), VarNames(_), Names(_)
Names(chain) == IF chain = NIL THEN <<>> ELSE Append(Names(chain.l), chain.r.l.u)
Lexical(chain, functions) ==
    IF chain = NIL THEN <<>>
    ELSE Lexical(chain.l, functions)
         \o CASE chain.r.t = "FUNCTION_DECLARATION" -> IF functions THEN <<chain.r.l.u>> ELSE <<>>
              [] IsDeclarations(chain.r) /\ chain.r.r.t # "VAR" -> Names(chain.r)
              [] OTHER -> <<>>
VarNames(n) ==
    CASE n = NIL \/ n.t \in {"NAME", "FUNCTION_EXPRESSION", "FUNCTION_DECLARATION"} -> {}
      [] n.t = "VAR" -> {n.l.u}
      [] OTHER -> VarNames(n.l) \cup VarNames(n.r)
\* The functions a body declares at its own level count as "var".
RECURSIVE FunctionNames(_)
FunctionNames(chain) ==
    IF chain = NIL THEN {}
    ELSE FunctionNames(chain.l) \cup (IF chain.r.t = "FUNCTION_DECLARATION" THEN {chain.r.l.u} ELSE {})

Clash(lexical, others) == ~IsInjective(lexical) \/ ToSet(lexical) \cap others # {}

RECURSIVE BranchNames(_)
BranchNames(b) == CASE b = NIL -> <<>>
                    [] b.t = "DEFAULT" -> Lexical(b.r, TRUE) \o BranchNames(b.l)
                    [] OTHER -> Lexical(b.r.r, TRUE) \o BranchNames(b.l)
BodyClash(n) == Clash(Lexical(n.r, FALSE), VarNames(n.r) \cup FunctionNames(n.r) \cup ToSet(n.u.params))
                \/ ~IsInjective(n.u.params)

\* A declaration where only a statement may be.
IsOnlyDeclaration(n) == n.t = "FUNCTION_DECLARATION" \/ (IsDeclarations(n) /\ n.r.t # "VAR")
Jumps == {"BREAK", "CONTINUE"}
HasLabelNode == {"BLOCK", "IF", "DO", "WHILE", "FOR", "FOR_IN", "SWITCH"}

\* labels: those around.
RECURSIVE EarlyError(_, _)
EarlyError(n, labels) ==
    LET mine == IF n # NIL /\ n.t \in HasLabelNode /\ n.u # "" THEN {n.u} ELSE {}
        inside == labels \cup mine
        within == EarlyError(n.l, inside) \/ EarlyError(n.r, inside)
        sub(m) == m # NIL /\ IsOnlyDeclaration(m)
    IN CASE n = NIL \/ n.t \in {"NAME", "NUMBER", "STRING"} -> FALSE
         [] n.t \in {"FUNCTION_EXPRESSION", "FUNCTION_DECLARATION"} -> BodyClash(n) \/ EarlyError(n.r, {})
         [] n.t \in Jumps -> n.u # "" /\ n.u \notin labels
         [] mine \cap labels # {} -> TRUE
         [] n.t = "DELETE" /\ n.l.t = "NAME" -> TRUE
         [] n.t = "BLOCK" -> Clash(Lexical(n.l, TRUE), VarNames(n.l)) \/ within
         [] n.t = "CATCH" -> n.l.u \in ToSet(Lexical(n.r.l, TRUE)) \/ within
         [] n.t = "SWITCH" -> Clash(BranchNames(n.r), VarNames(n.r)) \/ within
         [] n.t = "FOR" /\ n.l # NIL /\ IsDeclarations(n.l) ->
              (n.l.r.t # "VAR" /\ Clash(Names(n.l), VarNames(n.r.r.l))) \/ sub(n.r.r.l) \/ within
         [] n.t = "FOR" -> sub(n.r.r.l) \/ within
         [] n.t = "FOR_IN" -> (IsDeclarations(n.l.l) /\ n.l.l.r.t # "VAR" /\ n.l.l.r.l.u \in VarNames(n.r)) \/ sub(n.r) \/ within
         [] n.t \in {"WHILE", "DO"} -> sub(n.l) \/ within
         [] n.t = "IF" -> (IF n.r.t = "BRANCHING" THEN sub(n.r.l) \/ sub(n.r.r) ELSE sub(n.r)) \/ within
         [] OTHER -> within
====
