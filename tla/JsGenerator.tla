----------------------------- MODULE JsGenerator -----------------------------
(***************************************************************************)
(* The code generator of src/njs_generator.c: from the tree the parser     *)
(* builds to the bytecode of one function.                                 *)
(*                                                                         *)
(* The generator is one recursive walk over the tree.  The source writes   *)
(* it with an explicit stack of continuations (njs_generator_after); here  *)
(* Gen calls itself and what follows a call is what the continuation does. *)
(* Offsets are instruction numbers, 0 an offset nobody has set.            *)
(*                                                                         *)
(* Not generated: regular expressions, template literals, accessors,       *)
(* import and export, await, optional method calls.                        *)
(***************************************************************************)
EXTENDS JsValues

-----------------------------------------------------------------------------
(* Indexes and values.                                                     *)

\* njs_index_t: where an operand lives.
None == <<"none", 0>>
Var(name) == <<"var", name>>
Temp(n) == <<"temp", n>>
Const(v) == <<"const", v>>

\* What a node leaves behind when it has been generated: node->index,
\* node->temporary, and whether the index is that of a variable the node names.
Result(i, tmp, alias) == [i |-> i, tmp |-> tmp, alias |-> alias]
NoResult == Result(None, FALSE, FALSE)
\* njs_generate_argument_uses_index() looks through children with the same index.
Aliases(i, l, r) == \E c \in {l, r} : c.i = i /\ c.alias
ResultOf(i, tmp, l, r) == Result(i, tmp, Aliases(i, l, r))

\* An instruction: its operands and its two jump targets.
Instr(op, a, b, c) == [op |-> op, a |-> a, b |-> b, c |-> c, to |-> 0, to2 |-> 0]
JumpTo(op, a, to) == [Instr(op, a, None, None) EXCEPT !.to = to]

Assignments == {"ASSIGNMENT", "OPERATION_ASSIGNMENT", "LOGICAL_ASSIGNMENT"} \cup IncDecTokens
PropertyTokens == {"PROPERTY", "PROPERTY_REF"}

\* njs_parser_has_side_effect(): an assignment or a call somewhere below.
RECURSIVE HasSideEffect(_)
HasSideEffect(n) ==
    /\ n # NIL
    /\ \/ n.t \in Assignments
       \/ n.t \in {"FUNCTION_CALL", "METHOD_CALL"}
       \/ HasSideEffect(n.l)
       \/ HasSideEffect(n.r)

\* Names a tree mentions, inner functions included or on their own.
RECURSIVE NamesIn(_)
NamesIn(n) == IF n = NIL THEN {}
              ELSE (IF n.t = "NAME" THEN {n.u} ELSE {}) \cup NamesIn(n.l) \cup NamesIn(n.r)
RECURSIVE Closed(_)
Closed(n) == IF n = NIL THEN {}
             ELSE IF n.t = "FUNCTION_EXPRESSION" THEN NamesIn(n.r) \ n.u.locals
             ELSE Closed(n.l) \cup Closed(n.r)

-----------------------------------------------------------------------------
(* The generator's state.                                                  *)

\* njs_generator_init() and njs_generate_scope(): a function with the
\* variables `own'; var->init and the variables' kinds outlive the function.
Start(kinds, own, init) ==
    [code |-> <<>>, items |-> 0, cache |-> <<>>, block |-> <<>>, kinds |-> kinds,
     own |-> own, init |-> init, disable |-> FALSE, object |-> <<>>, error |-> "",
     i |-> None, r |-> NoResult]

Emit(g, instr) == [g EXCEPT !.code = Append(@, instr)]
Here(g) == Len(g.code) + 1
LastAt(g) == Len(g.code)
\* njs_code_set_jump_offset(): the jump at `at' leads to the next instruction.
SetJump(g, at) == [g EXCEPT !.code[at].to = Here(g)]
Move(g, dst, src) == Emit(g, Instr("MOVE", dst, src, None))
MoveUnlessSame(g, dst, src) == IF dst = src THEN g ELSE Move(g, dst, src)
With(g, r) == [g EXCEPT !.r = r]
Done(g) == With(g, NoResult)
Fail(g, what) == [g EXCEPT !.error = what]

\* njs_generate_temp_index_get(): the index released last, or a new one.
TempIndex(g) ==
    IF g.cache # <<>>
    THEN [g EXCEPT !.cache = Front(@), !.i = Last(g.cache)]
    ELSE [g EXCEPT !.items = @ + 1, !.i = Temp(g.items + 1)]
NodeTempIndex(g) == LET h == TempIndex(g) IN With(h, Result(h.i, TRUE, FALSE))

\* njs_generate_index_release(), njs_generate_node_index_release().
ReleaseIndex(g, i) == [g EXCEPT !.cache = Append(@, i)]
Release(g, r) == IF r.tmp THEN ReleaseIndex(g, r.i) ELSE g
ReleaseChildren(g, l, r) == Release(Release(g, l), r)

\* njs_generate_dest_index(): the children's indexes are free again, and the
\* result goes to the destination the parent asks for or to a temporary.
DestIndex(g, dest, l, r) ==
    LET h == ReleaseChildren(g, l, r)
    IN IF dest # None /\ ~h.disable
       THEN With(h, ResultOf(dest, FALSE, l, r))
       ELSE LET t == TempIndex(h) IN With(t, ResultOf(t.i, TRUE, l, r))

\* njs_generate_object_dest_index(): only an empty object is built in place.
ObjectDestIndex(g, dest, empty) ==
    IF dest # None /\ empty THEN With(g, Result(dest, FALSE, FALSE)) ELSE NodeTempIndex(g)

-----------------------------------------------------------------------------
(* Blocks and the jumps that leave them.                                   *)

\* njs_generate_start_block(): the innermost block is the first.
StartBlock(g, type, label) ==
    [g EXCEPT !.block = <<[type |-> type, label |-> label, cont |-> <<>>,
                           exit |-> <<>>, index |-> None]>> \o @]

Patch(at, field, label) == [at |-> at, field |-> field, label |-> label]

\* njs_generate_patch(): the jumps on the list lead to the next instruction.
RECURSIVE PatchList(_, _)
PatchList(g, list) ==
    IF list = <<>> THEN g
    ELSE LET p == Head(list)
             h == IF p.field = "to" THEN [g EXCEPT !.code[p.at].to = Here(g)]
                  ELSE [g EXCEPT !.code[p.at].to2 = Here(g)]
         IN PatchList(h, Tail(list))
PatchContinuation(g) == PatchList(g, g.block[1].cont)
PatchBlockExit(g) == PatchList([g EXCEPT !.block = Tail(@)], g.block[1].exit)

\* njs_generate_lookup_block(): 0 when there is none.
Loops == {"LOOP"}
All == {"LOOP", "SWITCH"}
LookupBlock(blocks, mask, label) ==
    LET types == IF label = "@return" THEN {"TRY"} ELSE mask
        named(b) == label \in {"", "@return"} \/ b.label = label
    IN SelectInSeq(blocks, LAMBDA b : b.type \in types /\ named(b))

\* njs_generate_find_block(): a "try" on the way to the destination comes first.
FindBlock(blocks, mask, label) ==
    LET types == IF mask = All /\ label # "" THEN mask \cup {"BLOCK"} ELSE mask
        dest == LookupBlock(blocks, types, label)
        try == SelectInSeq(blocks, LAMBDA b : b.type = "TRY")
    IN IF try # 0 /\ try < dest THEN try ELSE dest

\* njs_generate_jump_destination(): two jumps out of a "try" that agree, the
\* label "?" being one nobody has set.
SameDestination(blocks, mask, label1, label2) ==
    \/ "?" \in {label1, label2}
    \/ LookupBlock(blocks, mask, label1) = LookupBlock(blocks, mask, label2)

\* njs_generate_make_continuation_patch(), njs_generate_make_exit_patch().
ContinuationPatch(g, b, p) == [g EXCEPT !.block[b].cont = <<p>> \o @]
ExitPatch(g, b, p) == [g EXCEPT !.block[b].exit = <<p>> \o @]

Beyond(g, b) == SubSeq(g.block, b + 1, Len(g.block))
Unsupported == "instructions with different labels from try-catch block are not supported"

ContinueStatement(g, n) ==
    LET b == FindBlock(g.block, Loops, n.u)
        block == g.block[b]
        h == Emit(g, Instr("JUMP", None, None, None))
    IN IF b = 0 THEN Fail(g, "Illegal continue statement")
       ELSE IF /\ block.type = "TRY" /\ block.cont # <<>>
               /\ ~SameDestination(Beyond(g, b), Loops, block.cont[1].label, n.u)
            THEN Fail(g, Unsupported)
       ELSE Done(ContinuationPatch(h, b, Patch(LastAt(h), "to", n.u)))

BreakStatement(g, n) ==
    LET b == FindBlock(g.block, All, n.u)
        block == g.block[b]
        h == Emit(g, Instr("JUMP", None, None, None))
    IN IF b = 0 THEN Fail(g, "Illegal break statement")
       ELSE IF /\ block.type = "TRY" /\ block.exit # <<>>
               /\ ~SameDestination(Beyond(g, b), All, block.exit[1].label, n.u)
            THEN Fail(g, Unsupported)
       ELSE Done(ExitPatch(h, b, Patch(LastAt(h), "to", n.u)))

-----------------------------------------------------------------------------
(* Names.                                                                  *)

RECURSIVE Gen(_, _, _)

\* njs_generate_global_reference(): the property of the global object, and an
\* error after it that a property found jumps over.
GlobalReference(g, name, exception) ==
    LET t == TempIndex(g)
        h == Emit(t, Instr(IF exception THEN "GLOBAL_GET" ELSE "GLOBAL_PROPERTY_GET",
                           t.i, Const(name), None))
    IN With(IF exception THEN Emit(h, Instr("ERROR", None, None, None)) ELSE h,
            Result(t.i, FALSE, FALSE))
GlobalPropertySet(g, name, i) ==
    IF g.kinds[name] = "global" THEN Emit(g, Instr("GLOBAL_SET", i, Const(name), None)) ELSE g

Lexical(g, name) == g.kinds[name] \in {"let", "const"}
NameResult(name) == Result(Var(name), FALSE, TRUE)
NotInitialized(g, name) == Emit(g, Instr("NOT_INITIALIZED", Var(name), None, None))

\* njs_generate_name().
GenName(g, name) ==
    IF g.kinds[name] = "global" THEN GlobalReference(g, name, TRUE)
    ELSE With(IF name \notin g.init /\ Lexical(g, name) /\ g.disable
              THEN NotInitialized(g, name) ELSE g,
              NameResult(name))

\* njs_generate_variable().
GenVariable(g, name, exception) ==
    IF g.kinds[name] = "global" THEN GlobalReference(g, name, exception)
    ELSE With(IF name \notin g.init /\ Lexical(g, name) /\ ~g.disable /\ name \in g.own
              THEN NotInitialized(g, name) ELSE g,
              NameResult(name))

AssignmentError(g, name) == Emit(g, Instr("ASSIGNMENT_ERROR", Var(name), None, None))

\* njs_generate_wo_dest().
GenWithoutDest(g, n) ==
    LET h == Gen([g EXCEPT !.disable = TRUE], n, None) IN [h EXCEPT !.disable = FALSE]

\* njs_generate_var_statement() and njs_generate_let(): var, let and const.
\* njs_generate_variable_wo_dest() emits nothing for a name that is declared.
VarStatement(g, n) ==
    LET name == n.l.u
        lexical == Lexical(g, name)
        let(h) == IF lexical THEN Emit(h, Instr("LET", Var(name), None, None)) ELSE h
        init(h) == [h EXCEPT !.init = @ \cup {name}]
        start == [g EXCEPT !.disable = FALSE]
        e == IF lexical THEN GenWithoutDest(start, n.r) ELSE Gen(start, n.r, Var(name))
    IN IF n.r = NIL
       THEN IF g.kinds[name] = "const"
            THEN Fail(g, "missing initializer in const declaration")
            ELSE Done(init(let(start)))
       ELSE MoveUnlessSame(init(let(e)), Var(name), e.r.i)

-----------------------------------------------------------------------------
(* Statements.                                                             *)

\* njs_generate_children().
GenChildren(g, n) == LET l == Gen(g, n.l, None) IN Gen(Release(l, l.r), n.r, None)

\* njs_generate_statement(): a statement after the ones on its left.
Statement(g, n) ==
    LET name == n.r.u
        test == IF name \notin g.init /\ Lexical(g, name)
                THEN Emit(g, Instr("INITIALIZATION_TEST", Var(name), None, None)) ELSE g
        h == GenChildren(g, n)
    IN IF n.r.t = "NAME"
       THEN IF n.l = NIL THEN Done(test) ELSE Done(GenChildren(test, n.l))
       ELSE Done(Release(h, h.r))

BlockStatement(g, n) == PatchBlockExit(Statement(StartBlock(g, "BLOCK", n.u), n))

IfStatement(g, n) ==
    LET c == Gen(StartBlock(g, "BLOCK", n.u), n.l, None)
        jump == Release(Emit(c, Instr("IF_FALSE_JUMP", None, c.r.i, None)), c.r)
        at == LastAt(jump)
        then == Gen(jump, n.r.l, None)
        over == Emit(Release(then, then.r), Instr("JUMP", None, None, None))
        else == Gen(SetJump(over, at), n.r.r, None)
        only == Gen(jump, n.r, None)
    IN Done(PatchBlockExit(
           IF n.r # NIL /\ n.r.t = "BRANCHING"
           THEN SetJump(Release(else, else.r), LastAt(over))
           ELSE SetJump(Release(only, only.r), at)))

\* njs_generate_switch_statement(): the tests first, then the bodies.
RECURSIVE SwitchCases(_, _, _, _)
SwitchCases(g, branch, index, ats) ==
    IF branch = NIL THEN [g |-> g, ats |-> ats]
    ELSE IF branch.t = "DEFAULT" THEN SwitchCases(g, branch.l, index, ats)
    ELSE LET c == Gen(g, branch.r.l, None)
             h == Release(Emit(c, Instr("IF_EQUAL_JUMP", None, index, c.r.i)), c.r)
         IN SwitchCases(h, branch.l, index, Append(ats, LastAt(h)))

\* njs_generate_switch_default(): the bodies, in order.
RECURSIVE SwitchBodies(_, _, _, _)
SwitchBodies(g, branch, jump, ats) ==
    IF branch = NIL THEN g
    ELSE IF branch.t = "DEFAULT"
         THEN SwitchBodies(Gen(SetJump(g, jump), branch.r, None), branch.l, jump, ats)
         ELSE SwitchBodies(Gen(SetJump(g, Head(ats)), branch.r.r, None),
                           branch.l, jump, Tail(ats))

SwitchStatement(g, n) ==
    LET e == Gen(g, n.l, None)
        t == TempIndex(e)
        index == IF e.r.tmp THEN e.r.i ELSE t.i
        h == StartBlock(IF e.r.tmp THEN e ELSE Move(t, t.i, e.r.i), "SWITCH", n.u)
        cases == SwitchCases(h, n.r, index, <<>>)
        jump == Emit(ReleaseIndex(cases.g, index), Instr("JUMP", None, None, None))
        at == LastAt(jump)
        bodies == SwitchBodies(jump, n.r, at, cases.ats)
    IN Done(PatchBlockExit(IF bodies.code[at].to = 0 THEN SetJump(bodies, at) ELSE bodies))

\* The end of a loop: back to `loop' while the condition at c holds.
LoopEnd(c, loop) ==
    Done(Release(PatchBlockExit(Emit(c, [Instr("IF_TRUE_JUMP", None, c.r.i, None)
                                            EXCEPT !.to = loop])), c.r))

WhileStatement(g, n) ==
    LET j == StartBlock(Emit(g, Instr("JUMP", None, None, None)), "LOOP", n.u)
        body == Gen(j, n.l, None)
        c == Gen(SetJump(PatchContinuation(body), LastAt(j)), n.r, None)
    IN LoopEnd(c, Here(j))

DoWhileStatement(g, n) ==
    LET body == Gen(StartBlock(g, "LOOP", n.u), n.l, None)
    IN LoopEnd(Gen(PatchContinuation(body), n.r, None), Here(g))

\* njs_generate_for_let_update(): a new binding of each captured variable.
RECURSIVE ForLetUpdate(_, _, _)
ForLetUpdate(g, n, closed) ==
    IF n = NIL \/ n.t # "STATEMENT" \/ n.r.t \notin {"LET", "CONST"} THEN g
    ELSE ForLetUpdate(IF n.r.l.u \in closed
                      THEN Emit(g, Instr("LET_UPDATE", Var(n.r.l.u), None, None)) ELSE g,
                      n.l, closed)

\* FOR(init, (condition, (body, update))).
ForStatement(g, n) ==
    LET init == Gen(StartBlock(g, "LOOP", n.u), n.l, None)
        cond == n.r.l
        start == Release(init, init.r)
        j == IF cond # NIL THEN Emit(start, Instr("JUMP", None, None, None)) ELSE start
        body == Gen(j, n.r.r.l, None)
        update == ForLetUpdate(body, n.l, Closed(n))
        u == Gen(PatchContinuation(update), n.r.r.r, None)
        v == Release(u, u.r)
    IN IF cond # NIL
       THEN LoopEnd(Gen(SetJump(v, LastAt(j)), cond, None), Here(j))
       ELSE Done(PatchBlockExit(Emit(v, JumpTo("JUMP", None, Here(j)))))

\* FOR_IN(IN(left, object), body): the object, the iterator and the index the
\* next key goes to, in a record; left is a declaration STATEMENT(NIL, LET(name)),
\* a name or a property.
ForInObject(g, n) ==
    LET left == n.l.l
        declared == left.t = "STATEMENT"
        name == IF declared THEN left.r.l.u ELSE left.u
        o == Gen(StartBlock(g, "LOOP", n.u), n.l.r, None)
        known == IF declared THEN [o EXCEPT !.init = @ \cup {name}] ELSE o
        next == TempIndex(known)
        value == IF left.t \in PropertyTokens THEN TempIndex(next) ELSE [next EXCEPT !.i = Var(name)]
    IN [g |-> Emit(value, Instr("PROPERTY_FOREACH", next.i, o.r.i, None)),
        object |-> o.r, next |-> next.i, value |-> value.i]

\* njs_generate_for_in_set_prop_block(): the key becomes the property's value.
ForInSetProperty(g, left, value) ==
    LET o == Gen(g, left.l, None)
        k == Gen(o, left.r, None)
    IN Emit(k, Instr("PROPERTY_SET", value, o.r.i, k.r.i))

\* njs_generate_for_in_body(): the next key, or the end.
ForInNext(g, f) ==
    LET at == LastAt(f.g)
        iterate == Emit(SetJump(PatchContinuation(g), at),
                        [Instr("PROPERTY_NEXT", f.value, f.object.i, f.next) EXCEPT !.to = at + 1])
    IN Done(ReleaseIndex(Release(PatchBlockExit(iterate), f.object), f.next))

ForInStatement(g, n) ==
    LET left == n.l.l
        f == ForInObject(g, n)
        start == IF left.t \in PropertyTokens THEN ForInSetProperty(f.g, left, f.value) ELSE f.g
        body == Gen(start, n.r, None)
    IN ForInNext(ForLetUpdate(body, left, Closed(n)), f)

-----------------------------------------------------------------------------
(* Expressions.                                                            *)

CommaExpression(g, n) ==
    LET l == Gen(g, n.l, None)
        r == Gen(Release(l, l.r), n.r, None)
    IN With(r, ResultOf(r.r.i, FALSE, l.r, r.r))

\* CONDITIONAL(condition, (then, else)): both branches aim at one index.
CondExpression(g, n, dest) ==
    LET c == Gen(g, n.l, None)
        jump == Emit(c, Instr("IF_FALSE_JUMP", None, c.r.i, None))
        d == DestIndex(jump, dest, c.r, NoResult)
        then == Gen(d, n.r.l, d.r.i)
        over == Emit(Release(MoveUnlessSame(then, d.r.i, then.r.i), then.r),
                     Instr("JUMP", None, None, None))
        else == Gen(SetJump(over, LastAt(jump)), n.r.r, d.r.i)
    IN With(Release(SetJump(MoveUnlessSame(else, d.r.i, else.r.i), LastAt(over)), else.r), d.r)

\* A wrong Binary: the left side's variable is read after the right side.
BinaryLate(g, n, dest) ==
    LET l == Gen(g, n.l, None)
        r == Gen(l, n.r, None)
        d == DestIndex(r, dest, l.r, r.r)
    IN Emit(d, Instr(n.u, d.r.i, IF n.t = "IN" THEN r.r.i ELSE l.r.i,
                     IF n.t = "IN" THEN l.r.i ELSE r.r.i))

\* njs_generate_3addr_operation(): a name on the left is copied when the right
\* side may change it.
Binary(g, n, dest) ==
    LET l == Gen(g, n.l, None)
        copy == n.l.t = "NAME" /\ HasSideEffect(n.r)
        t == NodeTempIndex(l)
        kept == IF copy THEN Move(t, t.i, l.r.i) ELSE l
        r == Gen(kept, n.r, None)
        swap == n.t = "IN"
        d == DestIndex(r, dest, kept.r, r.r)
    IN Emit(d, Instr(n.u, d.r.i, IF swap THEN r.r.i ELSE kept.r.i,
                     IF swap THEN kept.r.i ELSE r.r.i))

\* njs_generate_2addr_operation(), njs_generate_typeof_operation().
Unary(g, n, dest) ==
    LET l == IF n.t = "TYPEOF" /\ n.l.t = "NAME" THEN GenVariable(g, n.l.u, FALSE)
             ELSE Gen(g, n.l, None)
        d == DestIndex(l, dest, l.r, NoResult)
    IN Emit(d, Instr(n.u, d.r.i, l.r.i, None))

\* njs_generate_test_jump_expression(): && || ??.
TestJumpExpression(g, n) ==
    LET l == Gen(g, n.l, None)
        d == NodeTempIndex(l)
        j == Emit(d, Instr(n.u, d.i, l.r.i, None))
        r == Gen(j, n.r, d.i)
        h == SetJump(MoveUnlessSame(r, d.i, r.r.i), LastAt(j))
    IN With(ReleaseChildren(h, l.r, r.r), ResultOf(d.i, TRUE, l.r, r.r))

\* njs_generate_optional_chain(): OPTIONAL_CHAIN(left, right), the right side
\* reading the left one's value where it says OPTIONAL_PRESERVE.
OptionalChain(g, n) ==
    LET l == Gen(g, n.l, None)
        d == NodeTempIndex(l)
        j == Emit(d, Instr("OPTIONAL_CHAIN", d.i, l.r.i, None))
        r == Gen([j EXCEPT !.object = <<l.r.i>> \o @], n.r, None)
        h == SetJump(MoveUnlessSame(r, d.i, r.r.i), LastAt(j))
    IN With(ReleaseChildren([h EXCEPT !.object = Tail(@)], l.r, r.r),
            ResultOf(d.i, TRUE, l.r, r.r))

\* njs_generate_preserve_property_lvalue(): one side of a property that
\* `expr' may change under it.
Preserve(g, child, r, expr) ==
    IF HasSideEffect(expr) /\ child.t = "NAME"
    THEN LET t == NodeTempIndex(g) IN Move(t, t.i, r.i)
    ELSE With(g, r)

\* njs_generate_property_index(): a key that is no literal becomes one once.
PropertyIndex(g, object, key, keyNode) ==
    IF keyNode.t \in Primitives THEN [g EXCEPT !.i = key]
    ELSE LET t == TempIndex(g) IN Emit(t, Instr("TO_PROPERTY_KEY_CHK", t.i, key, object))

\* An assignment to a name, whose value may be computed in place.
AssignmentName(g, n) ==
    LET name == n.l.u
        v == GenVariable(g, name, TRUE)
        e == Gen(v, n.r, v.r.i)
        m == MoveUnlessSame(e, v.r.i, e.r.i)
    IN IF g.kinds[name] = "const" THEN Done(AssignmentError(v, name))
       ELSE With(GlobalPropertySet(m, name, v.r.i), ResultOf(e.r.i, e.r.tmp, v.r, e.r))

\* An assignment to a property, or a property of an object literal.
AssignmentProperty(g, n) ==
    LET o == Gen(g, n.l.l, None)
        k == Gen(o, n.l.r, None)
        o1 == Preserve(k, n.l.l, o.r, n.r)
        k1 == Preserve(o1, n.l.r, k.r, n.r)
        e == Gen(k1, n.r, None)
        op == IF n.l.t = "PROPERTY_INIT" THEN "PROPERTY_INIT" ELSE "PROPERTY_SET"
        h == Emit(e, Instr(op, e.r.i, o1.r.i, k1.r.i))
    IN With(ReleaseChildren(h, o1.r, k1.r), ResultOf(e.r.i, e.r.tmp, NoResult, e.r))

Assignment(g, n) == IF n.l.t = "NAME" THEN AssignmentName(g, n) ELSE AssignmentProperty(g, n)

\* njs_generate_operation_assignment() of a name.
OperationAssignmentName(g, n) ==
    LET name == n.l.u
        v == GenVariable(g, name, TRUE)
        t == TempIndex(v)
        copy == HasSideEffect(n.r)
        index == IF copy THEN t.i ELSE v.r.i
        e == Gen(IF copy THEN Move(t, t.i, v.r.i) ELSE v, n.r, None)
        h == GlobalPropertySet(Emit(e, Instr(n.u, v.r.i, index, e.r.i)), name, v.r.i)
    IN IF g.kinds[name] = "const" THEN Done(AssignmentError(v, name))
       ELSE With(Release(IF copy THEN ReleaseIndex(h, index) ELSE h, e.r),
                 ResultOf(v.r.i, FALSE, v.r, e.r))

\* njs_generate_property_lvalue() and njs_generate_read_property_assignment():
\* object, key and the property's value, in a record.
ReadProperty(g, n) ==
    LET o == Gen(g, n.l.l, None)
        k == Gen(o, n.l.r, None)
        o1 == Preserve(k, n.l.l, o.r, n.r)
        k1 == Preserve(o1, n.l.r, k.r, n.r)
        p == PropertyIndex(k1, o1.r.i, k1.r.i, n.l.r)
        t == TempIndex(p)
    IN [g |-> Emit(t, Instr("PROPERTY_GET", t.i, o1.r.i, p.i)),
        object |-> o1.r, key |-> k1.r, prop |-> p.i, value |-> t.i]

\* The property p is read and its operand is e.
OperationAssignmentEnd(p, e, n) ==
    LET h == Emit(Emit(e, Instr(n.u, p.value, p.value, e.r.i)),
                  Instr("PROPERTY_SET", p.value, p.object.i, p.prop))
    IN With(Release(ReleaseChildren(h, p.object, p.key), e.r),
            ResultOf(p.value, TRUE, NoResult, e.r))

OperationAssignmentProperty(p, n) == OperationAssignmentEnd(p, Gen(p.g, n.r, None), n)

OperationAssignment(g, n) ==
    IF n.l.t = "NAME" THEN OperationAssignmentName(g, n)
    ELSE OperationAssignmentProperty(ReadProperty(g, n), n)

\* njs_generate_logical_assignment(): &&= ||= ??=.
LogicalAssignmentName(g, n) ==
    LET name == n.l.u
        v == GenVariable(g, name, TRUE)
        j == Emit(v, Instr(n.u, v.r.i, v.r.i, None))
        e == Gen(j, n.r, None)
        h == GlobalPropertySet(MoveUnlessSame(e, v.r.i, e.r.i), name, v.r.i)
    IN IF g.kinds[name] = "const"
       THEN With(SetJump(AssignmentError(j, name), LastAt(j)), v.r)
       ELSE With(Release(SetJump(h, LastAt(j)), e.r), ResultOf(v.r.i, FALSE, v.r, e.r))

\* p is the property, j the code up to the jump over the right side e.
LogicalAssignmentEnd(p, j, e) ==
    LET h == Emit(MoveUnlessSame(e, p.value, e.r.i),
                  Instr("PROPERTY_SET", p.value, p.object.i, p.prop))
    IN With(Release(ReleaseChildren(SetJump(h, LastAt(j)), p.object, p.key), e.r),
            ResultOf(p.value, TRUE, NoResult, e.r))

LogicalAssignmentProperty(p, n) ==
    LET j == Emit(p.g, Instr(n.u, p.value, p.value, None))
    IN LogicalAssignmentEnd(p, j, Gen(j, n.r, None))

LogicalAssignment(g, n) ==
    IF n.l.t = "NAME" THEN LogicalAssignmentName(g, n)
    ELSE LogicalAssignmentProperty(ReadProperty(g, n), n)

\* njs_generate_inc_dec_operation(): ++ and --, before or after.
IncDecName(g, n, dest) ==
    LET name == n.l.u
        v == GenVariable(g, name, TRUE)
        d == DestIndex(v, dest, v.r, NoResult)
    IN IF g.kinds[name] = "const" THEN Done(AssignmentError(v, name))
       ELSE GlobalPropertySet(Emit(d, Instr(n.u, d.r.i, v.r.i, v.r.i)), name, v.r.i)

IncDecProperty(g, n, dest) ==
    LET o == Gen(g, n.l.l, None)
        k == Gen(o, n.l.r, None)
        direct == dest \notin {None, o.r.i, k.r.i}
        d == IF direct THEN With(k, Result(dest, FALSE, FALSE)) ELSE NodeTempIndex(k)
        p == PropertyIndex(d, o.r.i, k.r.i, n.l.r)
        post == n.t \in {"POST_INCREMENT", "POST_DECREMENT"}
        t == TempIndex(p)
        index == IF post THEN t.i ELSE d.r.i
        get == Emit(IF post THEN t ELSE p, Instr("PROPERTY_GET", index, o.r.i, p.i))
        set == Emit(Emit(get, Instr(n.u, d.r.i, index, index)),
                    Instr("PROPERTY_SET", index, o.r.i, p.i))
    IN With(ReleaseChildren(IF post THEN ReleaseIndex(set, index) ELSE set, o.r, k.r), d.r)

IncDec(g, n, dest) == IF n.l.t = "NAME" THEN IncDecName(g, n, dest) ELSE IncDecProperty(g, n, dest)

\* njs_generate_object(): the initializers find the object as OBJECT_VALUE.
ObjectLiteral(g, n, dest) ==
    LET d == ObjectDestIndex(g, dest, n.l = NIL)
        o == Emit(d, Instr("OBJECT", d.r.i, None, None))
        h == Gen([o EXCEPT !.object = <<d.r.i>> \o @], n.l, None)
    IN With([h EXCEPT !.object = Tail(@)], d.r)

\* njs_function_lambda_t: what the generator g made of a function.
Lambda(g, params, closures) ==
    [code |-> g.code, items |-> g.items, params |-> params, locals |-> g.own,
     closures |-> {c \in closures : g.kinds[c] # "global"}]

\* njs_generate_function() and njs_generate_function_scope(): the body in a
\* generator of its own; u has the parameters and the local variables.
FunctionExpression(g, n, dest) ==
    LET body == Gen(Start(g.kinds, n.u.locals, g.init), n.r, None)
        lambda == Lambda(body, n.u.params, NamesIn(n.r) \ n.u.locals)
        d == ObjectDestIndex([g EXCEPT !.init = body.init, !.error = body.error], dest, TRUE)
    IN Emit(d, Instr("FUNCTION", d.r.i, Const(lambda), None))

-----------------------------------------------------------------------------
(* Calls.                                                                  *)

\* njs_generate_capture_stable_value().
CaptureStable(g, r) ==
    IF r.tmp THEN With(g, r) ELSE LET t == NodeTempIndex(g) IN Move(t, t.i, r.i)

\* njs_generate_argument_aliases_mutable_slot().
AliasesMutableSlot(g, r) ==
    ~r.tmp /\ r.alias /\ ~(r.i[1] = "var" /\ g.kinds[r.i[2]] = "const")

\* njs_generate_argument_may_observe_effect(), for an argument or a later one.
RECURSIVE SuffixMayObserveEffect(_, _)
SuffixMayObserveEffect(g, arg) ==
    /\ arg # NIL
    /\ \/ /\ arg.l.t \notin Primitives
          /\ arg.l.t = "NAME" => g.kinds[arg.l.u] = "global"
       \/ SuffixMayObserveEffect(g, arg.r)

\* njs_generate_call_argument_expressions(): each argument has an index of its
\* own to aim at, and is copied if it is a variable a later one may change.
RECURSIVE CallArguments(_, _, _)
CallArguments(g, arg, indexes) ==
    IF arg = NIL THEN [g |-> g, indexes |-> indexes]
    ELSE LET e == Gen([g EXCEPT !.items = @ + 1], arg.l, Temp(g.items + 1))
             c == IF AliasesMutableSlot(e, e.r) /\ SuffixMayObserveEffect(e, arg.r)
                  THEN CaptureStable(e, e.r) ELSE e
         IN CallArguments(c, arg.r, Append(indexes, c.r.i))

RECURSIVE PutArguments(_, _)
PutArguments(g, indexes) ==
    IF indexes = <<>> THEN g
    ELSE PutArguments(Emit(g, Instr("PUT_ARG", None, Head(indexes), None)), Tail(indexes))

\* njs_generate_call().
Call(g, callee, dest) ==
    LET d == DestIndex(g, dest, callee, NoResult)
    IN Emit(d, Instr("FUNCTION_CALL", d.r.i, None, None))

FunctionCall(g, n, dest) ==
    LET f == Gen(g, n.l, None)
        callee == CaptureStable(f, f.r)
        args == CallArguments(callee, n.r, <<>>)
        frame == Emit(args.g, Instr("FUNCTION_FRAME", None, callee.r.i, None))
    IN Call(PutArguments(frame, args.indexes), callee.r, dest)

\* METHOD_CALL(PROPERTY_REF(object, key), arguments).
MethodCall(g, n, dest) ==
    LET o == Gen(g, n.l.l, None)
        k == Gen(o, n.l.r, None)
        this == IF n.r = NIL THEN With(k, o.r) ELSE CaptureStable(k, o.r)
        f == NodeTempIndex(this)
        get == Emit(f, Instr("PROPERTY_GET", f.i, this.r.i, k.r.i))
        args == CallArguments(get, n.r, <<>>)
        frame == Emit(args.g, Instr("METHOD_FRAME", None, f.i, this.r.i))
    IN Call(PutArguments(frame, args.indexes), f.r, dest)

-----------------------------------------------------------------------------
(* return, throw and try.                                                  *)

\* A return inside "try" saves its value in the exit value of the outermost one.
ReturnStatement(g, n) ==
    LET e == Gen(g, n.r, None)
        index == IF n.r = NIL THEN Const(Undefined) ELSE e.r.i
        b == LookupBlock(g.block, {"TRY"}, "")
        try == g.block[b]
        top == SelectLastInSeq(g.block, LAMBDA x : x.type = "TRY")
        h == Emit(e, Instr("TRY_RETURN", g.block[top].index, index, None))
    IN IF b = 0 THEN Done(Emit(e, Instr("RETURN", None, index, None)))
       ELSE IF /\ try.exit # <<>>
               /\ ~SameDestination(Beyond(g, b), All, try.exit[1].label, "@return")
            THEN Fail(g, Unsupported)
       ELSE Done(ExitPatch(h, b, Patch(LastAt(h), "to", "@return")))

ThrowStatement(g, n) ==
    LET e == Gen(g, n.r, None)
    IN Done(Emit(e, Instr("THROW", None, e.r.i, None)))

LabelOf(list) == IF list = <<>> THEN "?" ELSE list[1].label

\* The end of a "try" or "catch" body: break and continue come by trampolines
\* back to the TRY_END.
LeaveTry(g) ==
    LET block == g.block[1]
        end == Emit(g, Instr("TRY_END", None, None, None))
        brk == Emit(PatchList(end, block.exit), JumpTo("TRY_BREAK", block.index, LastAt(end)))
        h == IF block.exit # <<>> THEN brk ELSE end
        cont == Emit(PatchList(h, block.cont), JumpTo("TRY_CONTINUE", block.index, LastAt(end)))
    IN [(IF block.cont # <<>> THEN cont ELSE h) EXCEPT !.block = Tail(@)]

\* FINALLY, whose two offsets become jumps of the blocks around the "try".
Finally(g, exception, exit, cont, brk) ==
    LET f == Emit(g, Instr("FINALLY", exception, exit, None))
        at == LastAt(f)
        c == FindBlock(f.block, Loops, cont)
        h == IF cont = "?" THEN f ELSE ContinuationPatch(f, c, Patch(at, "to2", cont))
        b == FindBlock(h.block, All, brk)
        any == FindBlock(h.block, All, "")
    IN IF brk = "?" THEN h
       ELSE IF b # 0 THEN ExitPatch(h, b, Patch(at, "to", brk))
       ELSE IF any # 0 THEN ExitPatch(h, any, Patch(at, "to", ""))
       ELSE h

\* The handler right behind a body and its trampolines; the try at `at' leads here.
Catch(g, at, index) ==
    LET h == Emit(SetJump(g, at), Instr("CATCH", index, None, None))
    IN [h EXCEPT !.code[LastAt(h)].to = Here(h)]

\* The "try" body between TRY_START and its TRY_END; try holds the jumps that
\* left it, `start' and `end' say where the two instructions are.
TryBody(g, n) ==
    LET e == TempIndex(g)
        x == TempIndex(e)
        start == Emit(x, Instr("TRY_START", e.i, x.i, None))
        inside == StartBlock(start, "TRY", "")
        body == Gen([inside EXCEPT !.block[1].index = x.i], n.l, None)
    IN [g |-> LeaveTry(body), exception |-> e.i, exit |-> x.i, try |-> body.block[1],
        start |-> LastAt(start), end |-> Len(body.code) + 1]

\* njs_generate_try_catch(): a "catch" without a "finally".
TryCatch(b, n) ==
    LET only == Gen(Catch(b.g, b.start, Var(n.r.l.u)), n.r.r, None)
        joined == SetJump(only, b.end)
        left == b.try.cont # <<>> \/ b.try.exit # <<>>
    IN Done(ReleaseIndex(IF left THEN Finally(joined, b.exception, b.exit, LabelOf(b.try.cont),
                                              LabelOf(b.try.exit))
                         ELSE joined, b.exception))

\* njs_generate_try_finally(): a "catch" whose own handler is the "finally";
\* catch holds the jumps that left it.
CatchFinally(b, n) ==
    LET handler == Catch(b.g, b.start, Var(n.r.l.l.u))
        guarded == StartBlock(handler, "TRY", "")
        caught == Gen([guarded EXCEPT !.block[1].index = b.exit], n.r.l.r, None)
        last == Catch(LeaveTry(caught), LastAt(handler), b.exception)
    IN [g |-> SetJump(SetJump(last, Len(caught.code) + 1), b.end), catch |-> caught.block[1]]

\* njs_generate_try_end(): the "finally" block, and where the jumps go on.
TryEnd(b, c, n) ==
    LET final == Gen(c.g, n.r.r, None)
        conts == {LabelOf(b.try.cont), LabelOf(c.catch.cont)}
        exits == {LabelOf(b.try.exit), LabelOf(c.catch.exit)}
        label(ls, l) == IF l # "?" THEN l ELSE CHOOSE m \in ls : m # "?" \/ ls = {"?"}
        agree(mask, ls) == \A l, m \in ls : SameDestination(final.block, mask, l, m)
    IN IF ~agree(Loops, conts) \/ ~agree(All \cup {"TRY"}, exits)
       THEN Fail(final, Unsupported)
       ELSE Done(ReleaseIndex(Finally(final, b.exception, b.exit,
                                      label(conts, LabelOf(b.try.cont)),
                                      label(exits, LabelOf(b.try.exit))), b.exception))

\* What follows the body b: TRY(body, CATCH(name, block)) or
\* TRY(body, FINALLY(NIL or CATCH, block)).
TryHandlers(b, n) ==
    LET alone == [g |-> SetJump(Catch(b.g, b.start, b.exception), b.end), catch |-> b.try]
    IN IF n.r.t = "CATCH" THEN TryCatch(b, n)
       ELSE TryEnd(b, IF n.r.l # NIL THEN CatchFinally(b, n) ELSE alone, n)

TryStatement(g, n) == TryHandlers(TryBody(g, n), n)

-----------------------------------------------------------------------------

\* njs_generate(): the code of a node, its result aimed at dest.
Gen(g, n, dest) ==
    IF g.error # "" \/ n = NIL THEN Done(g) ELSE
    CASE n.t \in {"VAR", "LET", "CONST"} -> VarStatement(g, n)
      [] n.t = "IF" -> IfStatement(g, n)
      [] n.t = "CONDITIONAL" -> CondExpression(g, n, dest)
      [] n.t = "SWITCH" -> SwitchStatement(g, n)
      [] n.t = "WHILE" -> WhileStatement(g, n)
      [] n.t = "DO" -> DoWhileStatement(g, n)
      [] n.t = "FOR" -> ForStatement(g, n)
      [] n.t = "FOR_IN" -> ForInStatement(g, n)
      [] n.t = "CONTINUE" -> ContinueStatement(g, n)
      [] n.t = "BREAK" -> BreakStatement(g, n)
      [] n.t = "STATEMENT" -> Statement(g, n)
      [] n.t = "BLOCK" -> BlockStatement(g, n)
      [] n.t = "COMMA" -> CommaExpression(g, n)
      [] n.t = "ASSIGNMENT" -> Assignment(g, n)
      [] n.t = "OPERATION_ASSIGNMENT" -> OperationAssignment(g, n)
      [] n.t = "LOGICAL_ASSIGNMENT" -> LogicalAssignment(g, n)
      [] n.t \in BinaryTokens -> Binary(g, n, dest)
      [] n.t \in LogicalTokens -> TestJumpExpression(g, n)
      [] n.t = "OPTIONAL_CHAIN" -> OptionalChain(g, n)
      [] n.t \in UnaryTokens -> Unary(g, n, dest)
      [] n.t \in IncDecTokens -> IncDec(g, n, dest)
      [] n.t \in Primitives -> With(g, Result(Const(n.u), FALSE, FALSE))
      [] n.t \in {"OBJECT_VALUE", "OPTIONAL_PRESERVE"}
            -> With(g, Result(Head(g.object), FALSE, FALSE))
      [] n.t = "OBJECT" -> ObjectLiteral(g, n, dest)
      [] n.t = "FUNCTION_EXPRESSION" -> FunctionExpression(g, n, dest)
      [] n.t = "NAME" -> GenName(g, n.u)
      [] n.t = "FUNCTION_CALL" -> FunctionCall(g, n, dest)
      [] n.t = "METHOD_CALL" -> MethodCall(g, n, dest)
      [] n.t = "RETURN" -> ReturnStatement(g, n)
      [] n.t = "TRY" -> TryStatement(g, n)
      [] n.t = "THROW" -> ThrowStatement(g, n)

\* The code of a function: njs_generate_scope().
Generate(kinds, own, body) == Gen(Start(kinds, own, {}), body, None)
====
