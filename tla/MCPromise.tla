------------------------------ MODULE MCPromise ------------------------------
(* Values for the constants of Promise. *)
EXTENDS Promise, TLC

One == Value("plain", 1)
Two == Value("plain", 2)
Thenable == Value("thenable", 1)
Trap == Value("trap", 1)

\* Operations that happen n times at most, the others never.
Only(b, values, handlers, lists) ==
    [left |-> b @@ [op \in OpNames |-> 0],
     values |-> values, handlers |-> handlers, lists |-> lists]

Chains == Only([new |-> 1, settle |-> 2, then |-> 2],
               {One, Thenable, Trap}, {"fn", "none"}, {})
Aggregates == Only([new |-> 2, settle |-> 2, aggregate |-> 1], {One}, {"fn"}, {0, 2})
Asyncs == Only([new |-> 1, settle |-> 1, async |-> 2, await |-> 1], {One}, {"fn"}, {})
Finallys == Only([new |-> 1, static |-> 1, settle |-> 1, finally |-> 1],
                 {One, Two}, {"fn", "none"}, {})
Rejections == Only([static |-> 2, then |-> 2, event |-> 1], {One}, {"fn", "none"}, {})
Mixed == Only([new |-> 1, static |-> 1, settle |-> 1, then |-> 2],
              {One}, {"fn", "none"}, {})
Throws == Only([new |-> 1, settle |-> 1, then |-> 2, event |-> 2], {One}, {"fn"}, {})

AllPrograms == {Chains, Aggregates, Asyncs, Finallys, Rejections, Mixed, Throws}
====
