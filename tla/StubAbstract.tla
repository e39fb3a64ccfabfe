--------------------------- MODULE StubAbstract ----------------------------
(***************************************************************************)
(* What Stub.Activate promises (spec section 4.7), as one atomic step per *)
(* call: the stub's RemoteContext goes from unset to one context at most   *)
(* once and never changes afterwards; a call either fails while the stub  *)
(* is unset, or returns with the caller seeing the stub's context.         *)
(***************************************************************************)
CONSTANTS Callers, Contexts, NULL, ERR

VARIABLES ctx, seen

Init ==
    /\ ctx = NULL
    /\ seen = [c \in Callers |-> NULL]

(* a call that creates the context *)
Create(c, x) ==
    /\ ctx = NULL
    /\ ctx' = x
    /\ seen' = [seen EXCEPT ![c] = x]

(* a call that attaches to the context already there *)
Attach(c) ==
    /\ ctx # NULL
    /\ seen' = [seen EXCEPT ![c] = ctx]
    /\ UNCHANGED ctx

(* a call whose factory fails, leaving the stub unset *)
Fail(c) ==
    /\ ctx = NULL
    /\ seen' = [seen EXCEPT ![c] = ERR]
    /\ UNCHANGED ctx

Next == \E c \in Callers : (\E x \in Contexts : Create(c, x)) \/ Attach(c) \/ Fail(c)

Spec == Init /\ [][Next]_<<ctx, seen>>
=============================================================================
