---------------------------- MODULE MCRpcClient ----------------------------
(* Instances of RpcClient for TLC. *)
EXTENDS RpcClient

\* The run of the VS Code client looks at sessions that run a component only
\* when initialize and the loads have been answered.
SetUpFirst ==
    (\E q \in Ids : method[q] = "export") =>
        \A q \in Ids : method[q] \in {"initialize", "load"} => got[q] = AnswerTo(q)
=============================================================================
