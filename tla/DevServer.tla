------------------------------ MODULE DevServer ------------------------------
(***************************************************************************)
(* oxp dev (packages/cli/src/commands/dev.ts): it watches a project,       *)
(* rebuilds its bundle 100 ms after the last change, and sends it to the   *)
(* windows that are connected, of which one is modelled: they share only   *)
(* what is broadcast.  A rebuild asked for while one runs is done after    *)
(* it.  A bundle is named by the version of the sources it was made from;  *)
(* a build that reads them while they change counts as the oldest version  *)
(* it may have read, and ends.                                             *)
(***************************************************************************)
EXTENDS Naturals

CONSTANT MaxEdits   \* bound on the versions of the sources

ASSUME EditsAssumption == MaxEdits \in Nat \ {0}

VARIABLES
    sources,    \* version of the sources
    watching,   \* the watcher has scanned the project
    due,        \* the last version it has to report
    changed,    \* it has not reported it yet
    timer,      \* the debounce timer is set
    building, pendingRebuild,
    reading,    \* the version the build has read, 0 before it does
    outcome,    \* the version the last build to end has read
    state,      \* the bundle that is served, 0 when there is none
    server,     \* "starting", "binding" the port, "up", "stopping", or "down"
    socket      \* of the window: "none", "open" or "closed"

watchState == <<sources, watching, due, changed>>
buildState == <<timer, building, pendingRebuild, reading, outcome, state>>
wireState  == <<server, socket>>
serverVars == <<watchState, buildState, wireState>>

\* The initial build is under way.
ServerInit ==
    /\ sources = 1 /\ watching = FALSE /\ due = 1 /\ changed = FALSE
    /\ timer = FALSE /\ building = TRUE /\ pendingRebuild = FALSE
    /\ reading = 0 /\ outcome = 0 /\ state = 0
    /\ server = "starting"
    /\ socket = "none"

Alive == server \notin {"stopping", "down"}

-----------------------------------------------------------------------------
(* The project.                                                             *)

\* ignoreInitial: what changes before the scan has come to it is not reported.
Edit ==
    /\ sources < MaxEdits
    /\ sources' = sources + 1
    /\ IF watching THEN due' = sources' /\ changed' = TRUE
                   ELSE UNCHANGED <<due, changed>>
    /\ UNCHANGED <<watching, buildState, wireState>>

Scanned ==
    /\ ~watching
    /\ watching' = TRUE
    /\ UNCHANGED <<sources, due, changed, buildState, wireState>>

Reported ==
    /\ changed /\ Alive
    /\ changed' = FALSE
    /\ timer' = TRUE
    /\ UNCHANGED <<sources, watching, due, building, pendingRebuild, reading, outcome, state,
                   wireState>>

-----------------------------------------------------------------------------
(* Builds.                                                                  *)

RebuildForgets ==
    /\ timer
    /\ timer' = FALSE
    /\ building' = TRUE
    /\ UNCHANGED <<pendingRebuild, reading, outcome, state, watchState, wireState>>
\* rebuild, when the timer fires.
Rebuild ==
    /\ timer
    /\ timer' = FALSE
    /\ building' = TRUE
    /\ pendingRebuild' = (pendingRebuild \/ building)
    /\ UNCHANGED <<reading, outcome, state, watchState, wireState>>

\* The build hook and packBundle read the sources.
ReadSources ==
    /\ building /\ reading = 0
    /\ reading' = sources
    /\ UNCHANGED <<timer, building, pendingRebuild, outcome, state, watchState, wireState>>

\* The hook fails, or packing does, or there is a new bundle.  A rebuild that was
\* asked for begins at once; the port is bound when the initial build and those
\* have ended.
BuildEnds(packed) ==
    /\ building /\ reading # 0
    /\ state' = IF packed THEN reading ELSE state
    /\ outcome' = reading
    /\ reading' = 0
    /\ building' = pendingRebuild
    /\ pendingRebuild' = FALSE
    /\ server' = IF server = "starting" /\ ~pendingRebuild THEN "binding" ELSE server
    /\ UNCHANGED <<timer, watchState, socket>>

\* listenWithFallback ends with a port that is free.
Listen ==
    /\ server = "binding"
    /\ server' = "up"
    /\ UNCHANGED <<watchState, buildState, socket>>

-----------------------------------------------------------------------------
(* Windows.                                                                 *)

Connect ==
    /\ server = "up" /\ socket = "none"
    /\ socket' = "open"
    /\ UNCHANGED <<watchState, buildState, server>>

Disconnect ==
    /\ socket = "open"
    /\ socket' = "closed"
    /\ UNCHANGED <<watchState, buildState, server>>

\* SIGINT: shutdown is broadcast, and 50 ms later all sockets are closed.
Stop ==
    /\ server = "up"
    /\ server' = "stopping"
    /\ UNCHANGED <<watchState, buildState, socket>>

Close ==
    /\ server = "stopping"
    /\ server' = "down"
    /\ socket' = "closed"
    /\ UNCHANGED <<watchState, buildState>>

-----------------------------------------------------------------------------
(* Properties.                                                              *)

ServerTypeOK ==
    /\ sources \in 1 .. MaxEdits /\ due \in 1 .. sources
    /\ watching \in BOOLEAN /\ changed \in BOOLEAN /\ timer \in BOOLEAN
    /\ building \in BOOLEAN /\ pendingRebuild \in BOOLEAN
    /\ reading \in 0 .. sources /\ outcome \in 0 .. sources /\ state \in 0 .. outcome
    /\ server \in {"starting", "binding", "up", "stopping", "down"}
    /\ socket \in {"none", "open", "closed"}
=============================================================================
