-------------------------- MODULE MCStreamSession ---------------------------
(***************************************************************************)
(* StreamSession for TLC: the configurations and the calls scripts make.   *)
(***************************************************************************)
EXTENDS StreamSession

Conf(access, preread, filter, set) ==
    [access |-> access, preread |-> preread, filter |-> filter, set |-> set,
     slow |-> filter, vm |-> TRUE]

Call(name, a, b) == [name |-> name, a |-> a, b |-> b]

Options(flush, last, from) ==
    [given |-> TRUE, flush |-> flush, last |-> last, from |-> from]

NoOptions == [Options("absent", "absent", "absent") EXCEPT !.given = FALSE]

MCConfs == {Conf(TRUE, TRUE, FALSE, FALSE), Conf(FALSE, TRUE, FALSE, FALSE),
            Conf(FALSE, FALSE, TRUE, FALSE), Conf(TRUE, FALSE, FALSE, TRUE),
            [Conf(TRUE, TRUE, TRUE, FALSE) EXCEPT !.vm = FALSE]}

Decisions ==
         {Call(m, "undefined", "") : m \in {"allow", "decline", "deny"}}
    \cup {Call("done", a, "") : a \in {"403", "504", "NaN"}}
    \cup {Call("setReturnValue", "value", "")}

Strings == {Call("on", e, "function") : e \in {"upload", "download", "data"}}
      \cup {Call("off", e, "") : e \in {"upload", "download", "data"}}

Sends ==
         {Call("send", a, NoOptions) : a \in {-1, 1}}
    \cup {Call("send", 1, Options("true", "absent", f)) :
             f \in {"absent", "true", "false"}}
    \cup {Call("sendUpstream", 1, Options("absent", "false", "absent")),
          Call("sendUpstream", 2, Options("absent", "absent", "absent")),
          Call("sendDownstream", 1, Options("absent", "true", "absent"))}

MCCalls == Decisions \cup Strings \cup Sends
=============================================================================
