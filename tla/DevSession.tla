----------------------------- MODULE DevSession -----------------------------
(***************************************************************************)
(* A dev session: DevServer, and DevWindow at the other end of its socket. *)
(* Messages arrive in the order they were sent; those that are under way   *)
(* when the window closes the socket still do.                             *)
(***************************************************************************)
EXTENDS DevServer, DevWindow, Sequences

VARIABLES
    wire,       \* what has been sent to the window and not handled
    madeFrom    \* the version each bundle it has received was made from

sessionVars == <<serverVars, windowVars, wire, madeFrom>>

SessionInit ==
    /\ ServerInit /\ WindowInit
    /\ wire = <<>>
    /\ madeFrom = [n \in Bundles |-> 0]

Sends(m) == wire' = IF socket = "open" THEN Append(wire, m) ELSE wire

-----------------------------------------------------------------------------
(* The server.                                                              *)

Build ==
    \E packed \in BOOLEAN :
        /\ BuildEnds(packed)
        /\ Sends(IF packed THEN <<"reload", reading>> ELSE <<"error">>)

\* A window that connects is sent the bundle there is.
Accept ==
    /\ session = "attached"
    /\ Connect
    /\ wire' = IF state # 0 THEN Append(wire, <<"reload", state>>) ELSE wire

Shutdown == Stop /\ Sends(<<"shutdown">>)

ServerSteps ==
    /\ \/ Build \/ Accept \/ Shutdown
       \/ /\ \/ Edit \/ Scanned \/ Reported \/ Rebuild \/ ReadSources \/ Listen \/ Close
             \/ Disconnect
          /\ UNCHANGED wire
    /\ UNCHANGED <<windowVars, madeFrom>>

-----------------------------------------------------------------------------
(* The window.                                                              *)

Arrives(kind) == wire # <<>> /\ Head(wire)[1] = kind /\ wire' = Tail(wire)

ReloadArrives ==
    /\ Arrives("reload")
    /\ Reload
    /\ madeFrom' = [madeFrom EXCEPT ![received'] = Head(wire)[2]]
    /\ UNCHANGED serverVars

ErrorArrives ==
    /\ Arrives("error")
    /\ BuildError
    /\ UNCHANGED <<serverVars, madeFrom>>

ShutdownArrives ==
    /\ Arrives("shutdown")
    /\ IF session = "attached" THEN EndSession ELSE UNCHANGED windowVars
    /\ UNCHANGED <<serverVars, madeFrom>>

\* The user stops the session: the socket is closed.
UserStops ==
    /\ EndSession
    /\ socket' = "closed"
    /\ UNCHANGED <<watchState, buildState, server, wire, madeFrom>>

Renders ==
    /\ \E n \in Bundles : \/ RenderFails(n) \/ Wipe(n) \/ Show(n)
                          \/ \E f \in FilesOf[n] : Write(n, f)
    /\ UNCHANGED <<serverVars, wire, madeFrom>>

WindowSteps ==
    \/ Attach /\ UNCHANGED <<serverVars, wire, madeFrom>>
    \/ ReloadArrives \/ ErrorArrives \/ ShutdownArrives \/ UserStops \/ Renders

SessionGone == server = "down" /\ UNCHANGED sessionVars

SessionNext == ServerSteps \/ WindowSteps \/ SessionGone

\* The watcher reports, the timer fires, builds end, the port is bound, what is
\* sent arrives and renders go on.  Nobody need edit, connect or stop anything.
SessionFairness ==
    /\ WF_sessionVars(Reported /\ ServerSteps) /\ WF_sessionVars(Rebuild /\ ServerSteps)
    /\ WF_sessionVars(ReadSources /\ ServerSteps) /\ WF_sessionVars(Build /\ ServerSteps)
    /\ WF_sessionVars(Listen /\ ServerSteps)
    /\ WF_sessionVars(ReloadArrives \/ ErrorArrives \/ ShutdownArrives)
    /\ WF_sessionVars(Renders)

-----------------------------------------------------------------------------
(* Properties.                                                              *)

SessionTypeOK ==
    /\ ServerTypeOK /\ WindowTypeOK
    /\ \A i \in DOMAIN wire : wire[i][1] \in {"reload", "error", "shutdown"}
    /\ madeFrom \in [Bundles -> 0 .. MaxEdits]

\* Every change the watcher sees, whenever it comes, is in a build that ends; and
\* from some time on a window that is connected shows no page from before it
\* (unless no bundle could be made since), whether it connected before or after
\* the build.  The exceptions are known: renders that overlap, and a window that
\* can take no more reloads of the bound.
ChangesReachWindow ==
    \A v \in 1 .. MaxEdits :
        due >= v ~> []\/ ~Alive \/ raced \/ received = MaxReloads
                      \/ /\ outcome >= v
                         /\ (socket = "open" /\ view = "page" /\ state >= v)
                               => madeFrom[page] >= v
=============================================================================
