----------------------------- MODULE VsCodeHost -----------------------------
(***************************************************************************)
(* What runs in and around a VS Code window beside the store: components   *)
(* in the extension host, the runtime process, and a dev session with the  *)
(* server that feeds it.  They share the event loop and no state, so each  *)
(* behaviour exercises one part, and the others stay as they began.        *)
(***************************************************************************)
EXTENDS ComponentHost, RuntimeService, DevSession

VARIABLE part

vars == <<part, componentVars, serviceVars, sessionVars>>

Parts == {"components", "runtime", "session"}

\* A part that is not exercised need begin in one way only.
Init ==
    /\ part \in Parts
    /\ ComponentInit /\ ServiceInit /\ SessionInit
    /\ part # "components" => cmd = CHOOSE w \in CommandLists : TRUE
    /\ part # "runtime" => ask = CHOOSE w \in CallLists : TRUE

Components == /\ part = "components" /\ ComponentNext
              /\ UNCHANGED <<part, serviceVars, sessionVars>>
Service    == /\ part = "runtime" /\ ServiceNext
              /\ UNCHANGED <<part, componentVars, sessionVars>>
Session    == /\ part = "session" /\ SessionNext
              /\ UNCHANGED <<part, componentVars, serviceVars>>

Next == Components \/ Service \/ Session

Spec == Init /\ [][Next]_vars /\ (part = "session" => SessionFairness)

-----------------------------------------------------------------------------
(* Properties.                                                              *)

\* The state of every part keeps its type.
TypeOK == /\ part \in Parts
          /\ ComponentTypeOK /\ ServiceTypeOK /\ SessionTypeOK

\* In a dev session, every change reaches the window: ChangesReachWindow.
ServedInTime == part = "session" => ChangesReachWindow
=============================================================================
