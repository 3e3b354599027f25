---------------------------- MODULE FrameChannel ----------------------------
(***************************************************************************)
(* What framing promises the runtime (runtime/src/rpc/codec.rs, "Read one  *)
(* complete JSON-RPC frame"): every frame the host has written comes out,  *)
(* complete, once and in order.                                            *)
(***************************************************************************)
EXTENDS Naturals, Sequences

CONSTANT Bodies     \* the bodies of the frames the host writes

VARIABLES
    sent,       \* bodies that have arrived on stdin
    received    \* bodies handed to a handler

vars == <<sent, received>>

Init == sent = <<>> /\ received = <<>>

Send ==
    /\ \E n \in Len(sent) + 1 .. Len(Bodies) : sent' = SubSeq(Bodies, 1, n)
    /\ UNCHANGED received

Receive ==
    /\ Len(received) < Len(sent)
    /\ received' = Append(received, sent[Len(received) + 1])
    /\ UNCHANGED sent

Spec == Init /\ [][Send \/ Receive]_vars /\ WF_vars(Receive)
=============================================================================
