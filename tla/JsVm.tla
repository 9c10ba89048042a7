-------------------------------- MODULE JsVm --------------------------------
(***************************************************************************)
(* The interpreter of src/njs_vmcode.c running the code JsGenerator makes: *)
(* one action per instruction, frames and the handlers of their "try"      *)
(* statements, and what src/njs_function.c does for a call.                *)
(*                                                                         *)
(* njs_vmcode_interpreter() calls itself for a call in the script; here    *)
(* `frames' is the stack of those activations, the running one first.      *)
(***************************************************************************)
EXTENDS JsGenerator, Functions

CONSTANT Programs   \* records [body, kinds, locals] the generator is given

VARIABLES
    program,  \* the function that is run
    frames,   \* the frames of the calls, vm->active_frame first
    call,     \* vm->top_frame while its arguments are put: <<>> or <<frame>>
    cells,    \* the values the frames' variables point to
    objects,  \* the properties of every object
    globals,  \* the properties of the global object
    outcome   \* <<>> while the script runs, then how it ended

vars == <<program, frames, call, cells, objects, globals, outcome>>

-----------------------------------------------------------------------------
(* The running instruction and its operands.                               *)

Frame == frames[1]
Code == Frame.code
This == Code[Frame.pc]
Running == outcome = <<>> /\ frames # <<>>
At(ops) == Running /\ This.op \in ops

\* njs_scope_value().
ValueOf(i) == CASE i[1] = "const" -> i[2]
                [] i[1] = "temp" -> Frame.temps[i[2]]
                [] i[1] = "var" -> cells[Frame.vars[i[2]]]

\* njs_scope_valid_value(): a variable before its initialization is an error,
\* anything else that is not valid is undefined.
Uninitialized(i) == /\ i[1] = "var"
                    /\ program.kinds[i[2]] \in {"let", "const"}
                    /\ ~IsValid(ValueOf(i))
Operand(i) == IF IsValid(ValueOf(i)) THEN ValueOf(i) ELSE Undefined
Ready == \A i \in {This.a, This.b, This.c} : ~Uninitialized(i)

\* Store v at i, in the running frame, and go on at pc.
Store(i, v, pc) ==
    /\ frames' = [frames EXCEPT ![1].pc = pc,
                                ![1].temps = IF i[1] = "temp" THEN [@ EXCEPT ![i[2]] = v] ELSE @]
    /\ cells' = IF i[1] = "var" THEN [cells EXCEPT ![Frame.vars[i[2]]] = v] ELSE cells
Goto(pc) == frames' = [frames EXCEPT ![1].pc = pc]
Next1 == Frame.pc + 1

\* The error: label of the interpreter: the handler of the nearest frame that
\* has one runs next, the frames before it are gone.
Raise(v) ==
    LET n == SelectInSeq(frames, LAMBDA f : f.tries # <<>>)
    IN /\ frames' = IF n = 0 THEN <<>>
                    ELSE <<[frames[n] EXCEPT !.pc = frames[n].tries[1], !.exception = v]>>
                         \o SubSeq(frames, n + 1, Len(frames))
       /\ outcome' = IF n = 0 THEN <<"throw", v>> ELSE <<>>
       /\ call' = <<>>

Quiet == UNCHANGED <<program, call, objects, globals, outcome>>

-----------------------------------------------------------------------------
(* Frames.                                                                 *)

\* njs_function_lambda_frame() and njs_function_lambda_call(): new cells for
\* the function's own variables, the cells of its closures as they are.
FrameOf(lambda, closures, first, dst) ==
    LET own == Listed(lambda.locals)
    IN [code |-> lambda.code, pc |-> 1, tries |-> <<>>, exception |-> Undefined, dst |-> dst,
        temps |-> [n \in 1..lambda.items |-> Invalid(0)],
        vars |-> [x \in lambda.locals \cup lambda.closures |->
                     IF x \in lambda.closures THEN closures[x]
                     ELSE first + (CHOOSE k \in 1..Len(own) : own[k] = x)]]
NewCells(lambda, args) ==
    LET own == Listed(lambda.locals)
        arg(x) == SelectInSeq(lambda.params, LAMBDA p : p = x)
    IN [k \in 1..Len(own) |->
          CASE arg(own[k]) = 0 -> Invalid(0)
            [] arg(own[k]) > Len(args) -> Undefined
            [] OTHER -> args[arg(own[k])]]

\* The function under test, compiled and called without arguments.
Started(p) ==
    LET g == Generate(p.kinds, p.locals, p.body)
        lambda == Lambda(g, <<>>, {})
    IN IF g.error # "" THEN [frames |-> <<>>, cells |-> <<>>, outcome |-> <<"syntax", g.error>>]
       ELSE [frames |-> <<FrameOf(lambda, <<>>, 0, None)>>, cells |-> NewCells(lambda, <<>>),
             outcome |-> <<>>]
Init ==
    /\ program \in Programs
    /\ \E start \in {Started(program)} :
          frames = start.frames /\ cells = start.cells /\ outcome = start.outcome
    /\ call = <<>> /\ objects = <<>> /\ globals = [x \in {"G"} |-> Num(1)]

-----------------------------------------------------------------------------
(* Instructions that move, compute and jump.                               *)

MoveInstr == At({"MOVE"}) /\ Ready /\ Store(This.a, Operand(This.b), Next1) /\ Quiet

ComputeInstr ==
    /\ At({"ADDITION", "SUBTRACTION", "LESS", "STRICT_EQUAL", "LOGICAL_NOT", "UNARY_NEGATION",
           "VOID", "TYPEOF"})
    /\ Ready
    /\ Store(This.a, Compute(This.op, Operand(This.b),
                             IF This.c = None THEN Num(0) ELSE Operand(This.c)), Next1)
    /\ Quiet

\* The variable gets its new value before the result does.
IncDecInstr ==
    /\ At({"INCREMENT", "DECREMENT", "POST_INCREMENT", "POST_DECREMENT"})
    /\ Ready
    /\ LET old == ToNumber(Operand(This.b))
           new == Compute(This.op, old, Num(0))
           result == IF This.op \in {"POST_INCREMENT", "POST_DECREMENT"} THEN old ELSE new
           temps == IF This.b[1] = "temp" THEN [Frame.temps EXCEPT ![This.b[2]] = new]
                    ELSE Frame.temps
           cells1 == IF This.b[1] = "var" THEN [cells EXCEPT ![Frame.vars[This.b[2]]] = new]
                     ELSE cells
       IN /\ frames' = [frames EXCEPT ![1].pc = Next1,
                            ![1].temps = IF This.a[1] = "temp"
                                         THEN [temps EXCEPT ![This.a[2]] = result] ELSE temps]
          /\ cells' = IF This.a[1] = "var"
                      THEN [cells1 EXCEPT ![Frame.vars[This.a[2]]] = result] ELSE cells1
    /\ Quiet

\* TEST_IF_TRUE, TEST_IF_FALSE, COALESCE: the value is the result either way.
TestJumpInstr ==
    /\ At({"TEST_IF_TRUE", "TEST_IF_FALSE", "COALESCE"})
    /\ Ready
    /\ LET v == Operand(This.b)
       IN Store(This.a, v, IF ShortCut(This.op, v) THEN This.to ELSE Next1)
    /\ Quiet

OptionalChainInstr ==
    /\ At({"OPTIONAL_CHAIN"}) /\ Ready
    /\ IF Operand(This.b) = Undefined THEN Store(This.a, Undefined, This.to)
       ELSE Goto(Next1) /\ UNCHANGED cells
    /\ Quiet

JumpInstr ==
    /\ At({"JUMP", "IF_TRUE_JUMP", "IF_FALSE_JUMP", "IF_EQUAL_JUMP"}) /\ Ready
    /\ LET jump == CASE This.op = "JUMP" -> TRUE
                     [] This.op = "IF_TRUE_JUMP" -> IsTrue(Operand(This.b))
                     [] This.op = "IF_FALSE_JUMP" -> ~IsTrue(Operand(This.b))
                     [] This.op = "IF_EQUAL_JUMP" -> Operand(This.b) = Operand(This.c)
       IN Goto(IF jump THEN This.to ELSE Next1)
    /\ UNCHANGED cells /\ Quiet

-----------------------------------------------------------------------------
(* Objects and their properties.                                           *)

Property(o, k) ==
    IF o[1] = "object" /\ k \in DOMAIN objects[o[2]] THEN objects[o[2]][k] ELSE Undefined

PropertyGetInstr ==
    /\ At({"PROPERTY_GET"}) /\ Ready
    /\ Operand(This.b) # Undefined
    /\ Store(This.a, Property(Operand(This.b), Operand(This.c)), Next1)
    /\ Quiet

\* A property of something that is no object is set on nothing.
PropertySetInstr ==
    /\ At({"PROPERTY_SET", "PROPERTY_INIT"}) /\ Ready
    /\ LET o == Operand(This.b)
       IN /\ o # Undefined
          /\ objects' = IF o[1] # "object" THEN objects
                        ELSE [objects EXCEPT ![o[2]] = (Operand(This.c) :> Operand(This.a)) @@ @]
    /\ Goto(Next1)
    /\ UNCHANGED <<program, call, cells, globals, outcome>>

ToPropertyKeyInstr ==
    /\ At({"TO_PROPERTY_KEY_CHK"}) /\ Ready
    /\ Operand(This.c) # Undefined
    /\ Store(This.a, Operand(This.b), Next1)
    /\ Quiet

\* A property of undefined.
CannotProperty ==
    /\ At({"PROPERTY_GET", "PROPERTY_SET", "PROPERTY_INIT", "TO_PROPERTY_KEY_CHK"}) /\ Ready
    /\ Operand(IF This.op = "TO_PROPERTY_KEY_CHK" THEN This.c ELSE This.b) = Undefined
    /\ Raise(Error("TypeError"))
    /\ UNCHANGED <<program, cells, objects, globals>>

\* The key "k in o".
InInstr ==
    /\ At({"PROPERTY_IN"}) /\ Ready
    /\ LET o == Operand(This.b)
       IN IF o[1] = "object"
          THEN Store(This.a, Bool(Operand(This.c) \in DOMAIN objects[o[2]]), Next1) /\ Quiet
          ELSE Raise(Error("TypeError")) /\ UNCHANGED <<program, cells, objects, globals>>

ObjectInstr ==
    /\ At({"OBJECT"}) /\ Ready
    /\ objects' = Append(objects, <<>>)
    /\ Store(This.a, <<"object", Len(objects) + 1>>, Next1)
    /\ UNCHANGED <<program, call, globals, outcome>>

\* njs_vmcode_property_foreach(): the keys, taken when the loop starts.
ForeachInstr ==
    /\ At({"PROPERTY_FOREACH"}) /\ Ready
    /\ LET o == Operand(This.b)
           keys == IF o[1] = "object"
                   THEN SortedKeys(DOMAIN objects[o[2]]) ELSE <<>>
       IN Store(This.a, <<"foreach", keys>>, This.to)
    /\ Quiet

NextInstr ==
    /\ At({"PROPERTY_NEXT"})
    /\ LET keys == ValueOf(This.c)[2]
           rest == [Frame.temps EXCEPT ![This.c[2]] = <<"foreach", Tail(keys)>>]
       IN IF keys = <<>> THEN Goto(Next1) /\ UNCHANGED cells
          ELSE /\ frames' = [frames EXCEPT ![1].pc = This.to,
                     ![1].temps = IF This.a[1] = "temp"
                                  THEN [rest EXCEPT ![This.a[2]] = Head(keys)] ELSE rest]
               /\ cells' = IF This.a[1] = "var"
                           THEN [cells EXCEPT ![Frame.vars[This.a[2]]] = Head(keys)] ELSE cells
    /\ Quiet

\* GLOBAL_GET jumps over the ERROR behind it when the property is there.
GlobalInstr ==
    /\ At({"GLOBAL_GET", "GLOBAL_PROPERTY_GET", "GLOBAL_SET"}) /\ Ready
    /\ LET name == This.b[2]
           found == name \in DOMAIN globals
       IN \/ /\ This.op # "GLOBAL_SET"
             /\ Store(This.a, IF found THEN globals[name] ELSE Undefined,
                      IF found /\ This.op = "GLOBAL_GET" THEN Next1 + 1 ELSE Next1)
             /\ UNCHANGED globals
          \/ /\ This.op = "GLOBAL_SET"
             /\ globals' = (name :> Operand(This.a)) @@ globals
             /\ Goto(Next1) /\ UNCHANGED cells
    /\ UNCHANGED <<program, call, objects, outcome>>


-----------------------------------------------------------------------------
(* Functions and calls.                                                    *)

\* njs_vmcode_function() and njs_function_capture_closure(): a function holds
\* the cells its closures have now.
FunctionInstr ==
    /\ At({"FUNCTION"}) /\ Ready
    /\ LET lambda == This.b[2]
       IN Store(This.a, <<"function", [lambda |-> lambda,
                                       closures |-> [x \in lambda.closures |-> Frame.vars[x]]]>>,
                Next1)
    /\ Quiet

\* njs_function_frame_create().
FrameInstr ==
    /\ At({"FUNCTION_FRAME", "METHOD_FRAME"}) /\ Ready
    /\ LET f == Operand(This.b)
       IN IF f[1] = "function"
          THEN /\ call' = <<[function |-> f[2], args |-> <<>>]>>
               /\ Goto(Next1) /\ UNCHANGED outcome
          ELSE Raise(Error("TypeError"))
    /\ UNCHANGED <<program, cells, objects, globals>>

PutArgInstr ==
    /\ At({"PUT_ARG"}) /\ Ready
    /\ call' = [call EXCEPT ![1].args = Append(@, Operand(This.b))]
    /\ Goto(Next1)
    /\ UNCHANGED <<program, cells, objects, globals, outcome>>

\* njs_function_frame_invoke(): the place of the result is found before the call.
CallInstr ==
    /\ At({"FUNCTION_CALL"}) /\ Ready
    /\ LET f == call[1].function
           dst == IF This.a[1] = "var" THEN <<"cell", Frame.vars[This.a[2]]>> ELSE This.a
       IN /\ cells' = cells \o NewCells(f.lambda, call[1].args)
          /\ frames' = <<FrameOf(f.lambda, f.closures, Len(cells), dst)>>
                       \o [frames EXCEPT ![1].pc = Next1]
    /\ call' = <<>>
    /\ UNCHANGED <<program, objects, globals, outcome>>

\* njs_vmcode_return(): the frame is gone, its caller has the value.
Return(v) ==
    LET dst == Frame.dst
        rest == Tail(frames)
    IN IF rest = <<>>
       THEN /\ frames' = <<>> /\ outcome' = <<"return", v>> /\ UNCHANGED cells
       ELSE /\ frames' = IF dst[1] = "temp" THEN [rest EXCEPT ![1].temps[dst[2]] = v] ELSE rest
            /\ cells' = IF dst[1] = "cell" THEN [cells EXCEPT ![dst[2]] = v] ELSE cells
            /\ UNCHANGED outcome

ReturnInstr == At({"RETURN"}) /\ Ready /\ Return(Operand(This.b))
               /\ UNCHANGED <<program, call, objects, globals>>

-----------------------------------------------------------------------------
(* Exceptions.                                                             *)

\* njs_vmcode_try_start().
TryStartInstr ==
    /\ At({"TRY_START"})
    /\ frames' = [frames EXCEPT ![1].pc = Next1, ![1].tries = <<This.to>> \o @,
                      ![1].temps = [@ EXCEPT ![This.a[2]] = Invalid(0), ![This.b[2]] = Invalid(0)]]
    /\ UNCHANGED cells /\ Quiet

TryReturnInstr == At({"TRY_RETURN"}) /\ Ready /\ Store(This.a, Operand(This.b), This.to) /\ Quiet

\* njs_vmcode_try_break(): a value that is already returned stays.
TryBreakInstr ==
    /\ At({"TRY_BREAK"})
    /\ Store(This.a, IF IsValid(ValueOf(This.a)) THEN ValueOf(This.a) ELSE Invalid(1), This.to)
    /\ Quiet

\* njs_vmcode_try_continue() overwrites the number of whatever is there.
TryContinueInstr ==
    /\ At({"TRY_CONTINUE"})
    /\ LET v == ValueOf(This.a)
       IN Store(This.a, IF v[1] \in {"number", "invalid"} THEN <<v[1], -1>> ELSE v, This.to)
    /\ Quiet

\* A wrong TryEndInstr: the handler stays.
TryEndInstrKept ==
    /\ At({"TRY_END"})
    /\ frames' = [frames EXCEPT ![1].pc = This.to]
    /\ UNCHANGED cells /\ Quiet

\* njs_vmcode_try_end().
TryEndInstr ==
    /\ At({"TRY_END"})
    /\ frames' = [frames EXCEPT ![1].pc = This.to, ![1].tries = Tail(@)]
    /\ UNCHANGED cells /\ Quiet

\* CATCH stores the exception; its handler is the one of "finally" from here on.
CatchInstr ==
    /\ At({"CATCH"}) /\ Ready
    /\ LET tries == IF This.to = Next1 THEN Tail(Frame.tries)
                    ELSE <<This.to>> \o Tail(Frame.tries)
           v == Frame.exception
       IN /\ frames' = [frames EXCEPT ![1].pc = Next1, ![1].tries = tries,
                            ![1].temps = IF This.a[1] = "temp" THEN [@ EXCEPT ![This.a[2]] = v] ELSE @]
          /\ cells' = IF This.a[1] = "var" THEN [cells EXCEPT ![Frame.vars[This.a[2]]] = v] ELSE cells
    /\ Quiet

\* njs_vmcode_finally().
FinallyInstr ==
    /\ At({"FINALLY"})
    /\ LET exception == ValueOf(This.a)
           exit == ValueOf(This.b)
           to == IF exit[2] > 0 THEN This.to ELSE This.to2
       IN CASE IsValid(exception) -> Raise(exception) /\ UNCHANGED cells
            [] ~IsValid(exception) /\ IsValid(exit) -> Return(exit) /\ UNCHANGED call
            [] OTHER -> IF exit[2] # 0 /\ to = 0
                        THEN Raise(Error("InternalError")) /\ UNCHANGED cells
                        ELSE Goto(IF exit[2] = 0 THEN Next1 ELSE to)
                             /\ UNCHANGED <<cells, call, outcome>>
    /\ UNCHANGED <<program, objects, globals>>

ThrowInstr == At({"THROW"}) /\ Ready /\ Raise(Operand(This.b))
              /\ UNCHANGED <<program, cells, objects, globals>>

-----------------------------------------------------------------------------
(* Declarations, and the instructions that only fail.                      *)

\* LET takes a new cell when its variable has a value, LET_UPDATE always.
LetInstr ==
    /\ At({"LET", "LET_UPDATE"})
    /\ LET x == This.a[2]
           old == cells[Frame.vars[x]]
           fresh == This.op = "LET_UPDATE" \/ IsValid(old)
           new == IF This.op = "LET" THEN Undefined ELSE old
       IN /\ cells' = IF fresh THEN Append(cells, new) ELSE [cells EXCEPT ![Frame.vars[x]] = new]
          /\ frames' = [frames EXCEPT ![1].pc = Next1,
                                      ![1].vars[x] = IF fresh THEN Len(cells) + 1 ELSE @]
    /\ Quiet

InitializationTestInstr ==
    /\ At({"INITIALIZATION_TEST"}) /\ ~Uninitialized(This.a)
    /\ Goto(Next1) /\ UNCHANGED cells /\ Quiet

\* njs_vmcode_operand() fails for a variable before its initialization.
NeedNoOperand == {"LET", "LET_UPDATE", "TRY_START", "TRY_BREAK", "TRY_CONTINUE", "TRY_END",
                  "FINALLY", "PROPERTY_NEXT", "NOT_INITIALIZED", "ASSIGNMENT_ERROR", "ERROR"}
ReferenceError ==
    /\ Running
    /\ This.op \in {"NOT_INITIALIZED", "ERROR"} \/ (This.op \notin NeedNoOperand /\ ~Ready)
    /\ Raise(Error("ReferenceError"))
    /\ UNCHANGED <<program, cells, objects, globals>>

AssignmentErrorInstr ==
    /\ At({"ASSIGNMENT_ERROR"})
    /\ Raise(Error("TypeError"))
    /\ UNCHANGED <<program, cells, objects, globals>>

\* The script has ended.
Terminated == ~Running /\ UNCHANGED vars

Next == \/ MoveInstr \/ ComputeInstr \/ IncDecInstr \/ TestJumpInstr \/ OptionalChainInstr
        \/ JumpInstr \/ PropertyGetInstr \/ PropertySetInstr \/ ToPropertyKeyInstr
        \/ CannotProperty \/ InInstr \/ ObjectInstr \/ ForeachInstr \/ NextInstr \/ GlobalInstr
        \/ FunctionInstr \/ FrameInstr \/ PutArgInstr \/ CallInstr \/ ReturnInstr
        \/ TryStartInstr \/ TryReturnInstr \/ TryBreakInstr \/ TryContinueInstr \/ TryEndInstr
        \/ CatchInstr \/ FinallyInstr \/ ThrowInstr \/ LetInstr \/ InitializationTestInstr
        \/ ReferenceError \/ AssignmentErrorInstr \/ Terminated

Spec == Init /\ [][Next]_vars
====
