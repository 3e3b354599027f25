------------------------------ MODULE DevWindow ------------------------------
(***************************************************************************)
(* The window that shows an extension under development                    *)
(* (hosts/vscode/src/dev-session.ts): it is attached to DevServer and      *)
(* renders every bundle it is sent.  A render unpacks the bundle into one  *)
(* directory, file by file, reads the page back from there and shows it.   *)
(* The handler of a message does not wait for the handler of the one       *)
(* before.                                                                 *)
(***************************************************************************)
EXTENDS Naturals, FiniteSets

CONSTANTS
    MaxReloads, \* bound on the bundles a window is sent
    FilesOf     \* the files of each bundle; "page" is its main.ui

ASSUME FilesAssumption ==
    /\ MaxReloads \in Nat \ {0}
    /\ \A n \in 1 .. MaxReloads : FilesOf[n] # {} /\ IsFiniteSet(FilesOf[n])

VARIABLES
    session,    \* "none", "attached", or "stopped"
    received,   \* bundles received so far
    render,     \* what the handler of each is doing
    unwritten,  \* the files it has still to write
    dir,        \* <<file, bundle>>: what is in the directory
    view,       \* what the view shows: "page", or which message
    page,       \* the bundle whose page was shown last, 0 before the first
    commands,   \* the bundle whose commands are registered, 0 when none are
    raced       \* a render overlapped with another or with the end of the session

windowVars == <<session, received, render, unwritten, dir, view, page, commands, raced>>

Bundles == 1 .. MaxReloads
Rendering == {n \in Bundles : render[n] \notin {"none", "done"}}

WindowInit ==
    /\ session = "none"
    /\ received = 0
    /\ render = [n \in Bundles |-> "none"]
    /\ unwritten = [n \in Bundles |-> {}]
    /\ dir = {}
    /\ view = "idle" /\ page = 0 /\ commands = 0
    /\ raced = FALSE

\* attachToRunningSession.
Attach ==
    /\ session = "none"
    /\ session' = "attached"
    /\ view' = "waiting"
    /\ UNCHANGED <<received, render, unwritten, dir, page, commands, raced>>

\* A reload: what it decodes to is rendered.  A message that is on its way when
\* the socket is closed still arrives.
Reload ==
    LET n == received + 1
    IN  /\ session # "none"
        /\ n \in Bundles
        /\ received' = n
        /\ render' = [render EXCEPT ![n] = "decode"]
        /\ raced' = (raced \/ Rendering # {} \/ session = "stopped")
        /\ UNCHANGED <<session, unwritten, dir, view, page, commands>>

\* The build has failed: the message takes the place of the page.
BuildError ==
    /\ session # "none"
    /\ view' = "error"
    /\ raced' = (raced \/ Rendering # {} \/ session = "stopped")
    /\ UNCHANGED <<session, received, render, unwritten, dir, page, commands>>

Doing(n, here, next) ==
    /\ render[n] = here
    /\ render' = [render EXCEPT ![n] = next]

\* A bundle that cannot be decoded, a file that cannot be written, a page that
\* is empty: the message says so.
RenderFails(n) ==
    /\ render[n] \in {"decode", "write"}
    /\ Doing(n, render[n], "done")
    /\ view' = "error"
    /\ UNCHANGED <<session, received, unwritten, dir, page, commands, raced>>

NoWipe(n) ==
    /\ Doing(n, "decode", "write")
    /\ unwritten' = [unwritten EXCEPT ![n] = FilesOf[n]]
    /\ UNCHANGED <<session, received, dir, view, page, commands, raced>>
\* renderInner removes the directory ...
Wipe(n) ==
    /\ Doing(n, "decode", "write")
    /\ dir' = {}
    /\ unwritten' = [unwritten EXCEPT ![n] = FilesOf[n]]
    /\ UNCHANGED <<session, received, view, page, commands, raced>>

\* ... writes the files of the bundle into it ...
Write(n, f) ==
    /\ f \in unwritten[n]
    /\ Doing(n, "write", "write")
    /\ dir' = {x \in dir : x[1] # f} \cup {<<f, n>>}
    /\ unwritten' = [unwritten EXCEPT ![n] = @ \ {f}]
    /\ UNCHANGED <<session, received, view, page, commands, raced>>

\* ... and shows the page that is there by then, with the commands of its own
\* bundle; registerExtensionCommands does nothing without a session.
Show(n) ==
    LET there == {x[2] : x \in {y \in dir : y[1] = "page"}}
    IN  /\ unwritten[n] = {}
        /\ Doing(n, "write", "done")
        /\ IF there = {} THEN view' = "error" /\ UNCHANGED <<page, commands>>
           ELSE /\ view' = "page" /\ page' \in there
                /\ commands' = IF session = "attached" THEN n ELSE commands
        /\ UNCHANGED <<session, received, unwritten, dir, raced>>

\* dispose: by the user, or when the server says it shuts down.
EndSession ==
    /\ session = "attached"
    /\ session' = "stopped"
    /\ view' = "idle" /\ commands' = 0
    /\ raced' = (raced \/ Rendering # {})
    /\ UNCHANGED <<received, render, unwritten, dir, page>>

-----------------------------------------------------------------------------
(* Properties.                                                              *)

WindowTypeOK ==
    /\ session \in {"none", "attached", "stopped"}
    /\ received \in 0 .. MaxReloads /\ commands \in 0 .. MaxReloads /\ raced \in BOOLEAN
    /\ render \in [Bundles -> {"none", "decode", "write", "done"}]
    /\ unwritten \in [Bundles -> SUBSET UNION {FilesOf[n] : n \in Bundles}]
    /\ \A n \in Bundles : unwritten[n] \subseteq FilesOf[n]
    /\ \A x \in dir : x[2] \in Bundles /\ x[1] \in FilesOf[x[2]]
    /\ view \in {"idle", "waiting", "error", "page"} /\ page \in 0 .. MaxReloads

\* Renders that do not overlap: a page that is shown is the one of the last
\* bundle received, its directory holds the files of that bundle and no others,
\* and its commands are the ones registered; a session that has ended shows
\* nothing.
ShownIsWhole ==
    (~raced /\ Rendering = {}) =>
        /\ view = "page" => /\ page = received /\ commands = received
                            /\ dir = {<<f, page>> : f \in FilesOf[page]}
        /\ session = "stopped" => view = "idle" /\ commands = 0
=============================================================================
