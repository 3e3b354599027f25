---------------------------- MODULE ComponentHost ----------------------------
(***************************************************************************)
(* The components a host runs in its own process: RuntimeManager           *)
(* (packages/host-core/src/activator.ts) over the jco backend              *)
(* (packages/host-runtime/src/jco-backend.ts), driven by the commands of   *)
(* the VS Code host (hosts/vscode/src/extension.ts).  A command is an      *)
(* async function: commands interleave at every await.                     *)
(*                                                                         *)
(* A call of a component ends, throws, or exceeds its time, which marks    *)
(* the component dead.  A component that never comes back to the event     *)
(* loop stops the whole host, timer included, and is left out.             *)
(***************************************************************************)
EXTENDS Naturals, FiniteSets

CONSTANTS
    Commands,   \* commands given to the host
    CommandLists, \* what those commands may be, functions on Commands
    None,
    Exts,
    Perms,
    Provided    \* permissions the host has a provider for

\* The record of an installed extension.  runs: it has a component; granted is
\* None when it was installed without the consent flow.
Record == [version : Nat, runs : BOOLEAN, granted : {None} \cup SUBSET Perms]

ASSUME ComponentCommands ==
    \A w \in CommandLists :
        /\ DOMAIN w = Commands
        /\ \A c \in Commands :
              /\ w[c].kind # "shutdown" => w[c].ext \in Exts
              /\ w[c].kind = "install" => w[c].record \in Record
ASSUME ComponentNone == None \notin Exts \cup Commands \cup Record

VARIABLES
    cmd,        \* what each command is
    stage,      \* where it is, or how it ended
    held,       \* the record it has read
    overlapped, \* some command took a step while another was under way
    installed,  \* the record of each extension, None when there is none
    dirs,       \* <<extension, version>>: directories in the store
    backend,    \* RuntimeManager.runtime is set
    active,     \* RuntimeManager.active: the component of each extension
    life,       \* each component, named by the command that made it
    alive,      \* components not marked dead
    released,   \* components whose directory has been removed
    leaving,    \* components a command is tearing down
    threw       \* commands of which a component did not leave in order

commandState == <<cmd, stage, held, overlapped>>
managerState == <<installed, dirs, backend, active>>
components   == <<life, alive, released, leaving, threw>>
componentVars == <<commandState, managerState, components>>

ComponentInit ==
    /\ cmd \in CommandLists
    /\ stage = [c \in Commands |-> "start"]
    /\ held = [c \in Commands |-> None]
    /\ overlapped = FALSE
    /\ installed = [e \in Exts |-> None]
    /\ dirs = {}
    /\ backend = FALSE
    /\ active = [e \in Exts |-> None]
    /\ life = [c \in Commands |-> "none"]
    /\ alive = {} /\ released = {}
    /\ leaving = [c \in Commands |-> {}]
    /\ threw = {}

Over == {"ok", "refused", "failed"}
Busy(c) == stage[c] \notin Over \cup {"start"}

Move(c, here, next) ==
    /\ stage[c] = here
    /\ stage' = [stage EXCEPT ![c] = next]
    /\ overlapped' = (overlapped \/ \E d \in Commands \ {c} : Busy(d))
    /\ UNCHANGED cmd

Ext(c) == cmd[c].ext
GrantsOf(i) == held[i].granted

-----------------------------------------------------------------------------
(* Commands that activate.                                                  *)

\* installCommand: the store has the new record (HostStore) and the grants of
\* the consent flow, and the command goes on with that record.  The directory of
\* an older version stays.
Install(c) ==
    /\ cmd[c].kind = "install"
    /\ Move(c, "start", IF cmd[c].record.runs THEN "check" ELSE "ok")
    /\ installed' = [installed EXCEPT ![Ext(c)] = cmd[c].record]
    /\ dirs' = dirs \cup {<<Ext(c), cmd[c].record.version>>}
    /\ held' = [held EXCEPT ![c] = cmd[c].record]
    /\ UNCHANGED <<backend, active, components>>

\* activateCommand reads the record first.
Lookup(c) ==
    LET r == installed[Ext(c)]
    IN  /\ cmd[c].kind = "activate"
        /\ Move(c, "start", IF r # None /\ r.runs THEN "check" ELSE "refused")
        /\ held' = [held EXCEPT ![c] = r]
        /\ UNCHANGED <<managerState, components>>

\* activate: an extension in the map is active already.
Check(c) ==
    /\ Move(c, "check", IF active[Ext(c)] # None THEN "ok" ELSE "load")
    /\ UNCHANGED <<held, managerState, components>>

\* ensureRuntime; the backend may fail to load.
EnsureRuntime(c) ==
    /\ \/ Move(c, "load", "read") /\ backend' = TRUE
       \/ ~backend /\ Move(c, "load", "failed") /\ UNCHANGED backend
    /\ UNCHANGED <<held, installed, dirs, active, components>>

\* The component is read from the directory of the version in the record; a
\* record without grants is refused, and buildBroker throws for a permission
\* the host has no provider for.
ReadComponent(c) ==
    LET there == <<Ext(c), held[c].version>> \in dirs
        next == CASE ~there                         -> "failed"
                  [] there /\ GrantsOf(c) = None    -> "refused"
                  [] there /\ GrantsOf(c) # None    ->
                       IF GrantsOf(c) \subseteq Provided THEN "instantiate" ELSE "failed"
    IN  /\ Move(c, "read", next)
        /\ UNCHANGED <<held, managerState, components>>

\* instantiate: when it fails the directory it has made is removed.
Instantiate(c) ==
    /\ \/ /\ Move(c, "instantiate", "activating")
          /\ life' = [life EXCEPT ![c] = "made"]
          /\ alive' = alive \cup {c}
       \/ /\ Move(c, "instantiate", "failed")
          /\ UNCHANGED <<life, alive>>
    /\ UNCHANGED <<held, managerState, released, leaving, threw>>

\* The component has activated: it goes into the map, whatever is there.
Activated(c) ==
    /\ Move(c, "activating", "ok")
    /\ life' = [life EXCEPT ![c] = "activated"]
    /\ active' = [active EXCEPT ![Ext(c)] = c]
    /\ UNCHANGED <<held, installed, dirs, backend, alive, released, leaving, threw>>

\* It has thrown, or run out of time: it is dead, disposed of, and not in the map.
ActivationFails(c) ==
    /\ Move(c, "activating", "failed")
    /\ life' = [life EXCEPT ![c] = "failed"]
    /\ alive' = alive \ {c}
    /\ released' = released \cup {c}
    /\ UNCHANGED <<held, managerState, leaving, threw>>

-----------------------------------------------------------------------------
(* Commands that deactivate.                                                *)

\* uninstallCommand and deactivateCommand read the record first; the first one
\* asks the user.
Confirm(c) ==
    /\ cmd[c].kind \in {"deactivate", "uninstall"}
    /\ Move(c, "start", IF installed[Ext(c)] = None THEN "refused" ELSE "leave")
    /\ UNCHANGED <<held, managerState, components>>

\* deactivate takes the component out of the map before it tells it.
Leave(c) ==
    LET i == active[Ext(c)]
    IN  /\ Move(c, "leave", IF i = None THEN "gone" ELSE "leaving")
        /\ active' = [active EXCEPT ![Ext(c)] = None]
        /\ leaving' = [leaving EXCEPT ![c] = IF i = None THEN {} ELSE {i}]
        /\ UNCHANGED <<held, installed, dirs, backend, life, alive, released, threw>>

\* disposeAll, when the window closes: all that is in the map, at once.
LeaveAll(c) ==
    /\ cmd[c].kind = "shutdown"
    /\ Move(c, "start", "leaving")
    /\ active' = [e \in Exts |-> None]
    /\ leaving' = [leaving EXCEPT ![c] = {active[e] : e \in Exts} \ {None}]
    /\ UNCHANGED <<held, installed, dirs, backend, life, alive, released, threw>>

Kept(i, how) ==
    /\ life' = [life EXCEPT ![i] = how]
    /\ IF how = "left" THEN UNCHANGED <<alive, released>>
       ELSE alive' = alive \ {i} /\ released' = released \cup {i}
\* It is disposed of, however it has left.
Disposed(i, how) ==
    /\ life' = [life EXCEPT ![i] = how]
    /\ alive' = alive \ {i}
    /\ released' = released \cup {i}

\* A component leaves in order, throws or runs out of time.  It is not dead
\* before: only invokeCommand could have ended it, and no host calls that.
Left(c, i) ==
    /\ i \in leaving[c]
    /\ Move(c, "leaving", "leaving")
    /\ \E how \in {"left", "failed"} :
          /\ Disposed(i, how)
          /\ threw' = IF how = "left" THEN threw ELSE threw \cup {c}
    /\ leaving' = [leaving EXCEPT ![c] = @ \ {i}]
    /\ UNCHANGED <<held, managerState>>

\* The error of deactivate ends the command; disposeAll ignores it.
AllLeft(c) ==
    /\ leaving[c] = {}
    /\ Move(c, "leaving", IF c \in threw /\ cmd[c].kind # "shutdown" THEN "failed" ELSE "gone")
    /\ UNCHANGED <<held, managerState, components>>

GoneUnrecorded(c) ==
    /\ Move(c, "gone", "ok")
    /\ IF cmd[c].kind = "uninstall" /\ installed[Ext(c)] # None
         THEN dirs' = dirs \ {<<Ext(c), installed[Ext(c)].version>>}
         ELSE UNCHANGED dirs
    /\ UNCHANGED <<held, installed, backend, active, components>>
\* uninstallCommand goes on to the store, which removes what it finds by now.
Gone(c) ==
    /\ Move(c, "gone", "ok")
    /\ IF cmd[c].kind = "uninstall" /\ installed[Ext(c)] # None
         THEN /\ installed' = [installed EXCEPT ![Ext(c)] = None]
              /\ dirs' = dirs \ {<<Ext(c), installed[Ext(c)].version>>}
         ELSE UNCHANGED <<installed, dirs>>
    /\ UNCHANGED <<held, backend, active, components>>

ComponentDone == (\A c \in Commands : stage[c] \in Over) /\ UNCHANGED componentVars

ComponentNext ==
    \/ \E c \in Commands :
          \/ Install(c) \/ Lookup(c) \/ Check(c) \/ EnsureRuntime(c) \/ ReadComponent(c)
          \/ Instantiate(c) \/ Activated(c) \/ ActivationFails(c)
          \/ Confirm(c) \/ Leave(c) \/ LeaveAll(c) \/ AllLeft(c) \/ Gone(c)
          \/ \E i \in Commands : Left(c, i)
    \/ ComponentDone
-----------------------------------------------------------------------------
(* Properties.                                                              *)

ComponentTypeOK ==
    /\ cmd \in CommandLists /\ overlapped \in BOOLEAN /\ backend \in BOOLEAN
    /\ held \in [Commands -> {None} \cup Record]
    /\ installed \in [Exts -> {None} \cup Record]
    /\ \A e \in Exts : installed[e] # None => <<e, installed[e].version>> \in dirs
    /\ active \in [Exts -> Commands \cup {None}]
    /\ life \in [Commands -> {"none", "made", "activated", "left", "failed"}]
    /\ alive \subseteq Commands /\ released \subseteq Commands /\ threw \subseteq Commands
    /\ leaving \in [Commands -> SUBSET Commands]

\* Whatever overlaps, what the map has for an extension is a component of this
\* extension that has activated and can be called.  After commands that did not
\* overlap, nothing else is left over, however components failed, threw or hung:
\* each one that was made is in the map or its directory has been removed, and
\* what has been uninstalled does not run.
ComponentsAccounted ==
    /\ \A e \in Exts : active[e] # None =>
           /\ Ext(active[e]) = e /\ life[active[e]] = "activated"
           /\ active[e] \in alive \ released
    /\ (~overlapped /\ \A c \in Commands : ~Busy(c)) =>
           /\ \A i \in Commands : life[i] # "none" =>
                  IF active[Ext(i)] = i THEN installed[Ext(i)] # None
                                        ELSE i \in released \ alive
=============================================================================
