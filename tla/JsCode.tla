------------------------------- MODULE JsCode -------------------------------
(***************************************************************************)
(* The generator and the interpreter together, against what scripts mean.  *)
(***************************************************************************)
EXTENDS JsVm, JsReference

\* A function counts as a function, whatever it was made of.
Shown(v) == IF v[1] = "function" THEN <<"function", 0>> ELSE v
ShownObjects(os) == [k \in DOMAIN os |-> [p \in DOMAIN os[k] |-> Shown(os[k][p])]]

Expected == Run(program.kinds, program.locals, program.body, [x \in {"G"} |-> Num(1)])

\* A script ends as ECMAScript says it does: it returns or throws the same
\* value, and leaves the same objects and the same global object behind, for
\* every mix of loops, switch, try, closures and side effects in expressions
\* (njs_generator.c and njs_vmcode.c together).  A script the
\* generator refuses ends nowhere.
MeansTheSame ==
    outcome # <<>> /\ outcome[1] # "syntax" =>
        LET x == Expected
        IN /\ outcome = <<IF x.k = "throw" THEN "throw" ELSE "return", Shown(x.v)>>
           /\ ShownObjects(objects) = ShownObjects(x.s.objects)
           /\ globals = x.s.globals

\* Every jump the patch lists left leads to an instruction, and the handler of
\* every open "try" is a CATCH: no jump of a block, a trampoline or a FINALLY
\* is forgotten (njs_generate_patch(), njs_vmcode_try_start()).
JumpsLand ==
    \A k \in DOMAIN frames :
        /\ frames[k].pc \in DOMAIN frames[k].code
        /\ \A t \in ToSet(frames[k].tries) :
              /\ t \in DOMAIN frames[k].code
              /\ frames[k].code[t].op = "CATCH"

\* A function that is about to return has left every "try" it entered: a jump,
\* a return or an exception out of a "try", in any nesting, goes by its TRY_END
\* or CATCH exactly once.
TriesAreLeft ==
    \A k \in DOMAIN frames :
        frames[k].pc \in DOMAIN frames[k].code /\ frames[k].code[frames[k].pc].op = "RETURN"
            => frames[k].tries = <<>>

\* A temporary that is free is free once, and no block outlives its statement:
\* an index released twice would be two live values in one place
\* (njs_generate_node_index_release(), njs_generate_temp_index_get()).
IndexesAreFreeOnce ==
    outcome # <<>> =>
        LET g == Generate(program.kinds, program.locals, program.body)
        IN IsInjective(g.cache) /\ g.block = <<>>

\* The code of every script holds together while it runs, whatever leaves its
\* blocks and however: jumps land, "try" statements are left, and temporaries
\* are free once.
CodeHolds == JumpsLand /\ TriesAreLeft /\ IndexesAreFreeOnce
====
