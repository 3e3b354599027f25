----------------------------- MODULE RpcContract -----------------------------
(***************************************************************************)
(* What the runtime promises a host about answers (runtime/src/rpc/        *)
(* server.rs): a frame that wants an answer gets at most one; while stdout *)
(* works, the process does not end before every accepted frame has its     *)
(* answer on stdout.                                                       *)
(***************************************************************************)
CONSTANT Frames

VARIABLES
    open,      \* accepted frames whose answer the host has not got
    answered,  \* frames whose answer the host has got
    link       \* "up", "broken" once stdout has failed, "closed" at exit

vars == <<open, answered, link>>

Init == open = {} /\ answered = {} /\ link = "up"

Accept(t) ==
    /\ link # "closed"
    /\ t \notin open \cup answered
    /\ open' = open \cup {t}
    /\ UNCHANGED <<answered, link>>

Answer(t) ==
    /\ link = "up"
    /\ t \in open
    /\ open' = open \ {t}
    /\ answered' = answered \cup {t}
    /\ UNCHANGED link

Break ==
    /\ link = "up"
    /\ link' = "broken"
    /\ UNCHANGED <<open, answered>>

Close ==
    /\ link = "up"
    /\ open = {}
    /\ link' = "closed"
    /\ UNCHANGED <<open, answered>>

Next == (\E t \in Frames : Accept(t) \/ Answer(t)) \/ Break \/ Close

Spec == Init /\ [][Next]_vars
=============================================================================
