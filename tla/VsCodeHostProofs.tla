-------------------------- MODULE VsCodeHostProofs --------------------------
(***************************************************************************)
(* Theorems about the three parts of VsCodeHost: for any number of         *)
(* commands, calls of the runtime, processes, edits and reloads, however   *)
(* they overlap.  Each part has an inductive invariant of its own, and a   *)
(* step of one part leaves those of the others alone.                      *)
(***************************************************************************)
EXTENDS VsCodeHost, TLAPS

-----------------------------------------------------------------------------
(* Components.                                                              *)

Making  == {"check", "load", "read", "instantiate", "activating"}
Removal == {"deactivate", "uninstall"}

\* What the steps of a command have done to its component, and what it tears
\* down: components that are settled and that the map has let go of.
CommandOK(c) ==
    /\ stage[c] \in Making \/ life[c] # "none" => cmd[c].kind \in {"install", "activate"}
    /\ stage[c] = "leave" => cmd[c].kind \in Removal
    /\ stage[c] \in {"leaving", "gone"} => cmd[c].kind \in Removal \cup {"shutdown"}
    /\ stage[c] \notin {"ok", "failed"} => c \notin released
    /\ stage[c] = "activating" => c \in alive
    /\ leaving[c] # {} => stage[c] = "leaving"
    /\ \A i \in leaving[c] :
          stage[i] = "ok" /\ life[i] # "none" /\ \A e \in Exts : active[e] # i

CommandInv == \A c \in Commands : CommandOK(c)

MapOK(e) ==
    active[e] # None =>
        /\ stage[active[e]] = "ok" /\ life[active[e]] = "activated"
        /\ Ext(active[e]) = e /\ active[e] \in alive \ released

MapInv == \A e \in Exts : MapOK(e)

\* Where a component is that has been made: in the map, disposed of, or in the
\* hands of a command.
Accounted(i) ==
    life[i] # "none" => \/ active[Ext(i)] = i \/ i \in released \ alive
                        \/ stage[i] = "activating"
                        \/ \E c \in Commands : i \in leaving[c]

\* What a command under way has found in the map and the store still holds.
FindsOK(c) ==
    /\ stage[c] \in Making => installed[Ext(c)] # None
    /\ stage[c] \in Making \ {"check"} => active[Ext(c)] = None
    /\ stage[c] \in {"leaving", "gone"} /\ cmd[c].kind \in Removal => active[Ext(c)] = None

\* All that as long as commands have not overlapped.
SerialInv ==
    ~overlapped =>
        /\ \A c, d \in Commands : Busy(c) /\ Busy(d) => c = d
        /\ \A c \in Commands : FindsOK(c) /\ Accounted(c)
        /\ \A e \in Exts : active[e] # None => installed[e] # None

Stages    == Over \cup Making \cup {"start", "leave", "leaving", "gone"}
StageType == stage \in [Commands -> Stages]

ComponentType == ComponentTypeOK /\ StageType

LEMMA KindFacts ==
    ASSUME ComponentTypeOK, NEW c \in Commands
    PROVE  /\ cmd[c].kind # "shutdown" => Ext(c) \in Exts
           /\ cmd[c].kind = "install" => cmd[c].record \in Record
           /\ None \notin Commands /\ None \notin Exts
BY ComponentCommands, ComponentNone DEF ComponentTypeOK, Ext

LEMMA InitComponentType == ComponentInit => ComponentType
BY DEF ComponentInit, ComponentType, ComponentTypeOK, StageType, Stages, Over

\* How a step moves its command.
LEMMA Moved ==
    ASSUME StageType, NEW c \in Commands, NEW here, NEW next, Move(c, here, next),
           next \in Stages
    PROVE  /\ StageType' /\ cmd' = cmd /\ stage[c] = here /\ stage'[c] = next
           /\ \A d \in Commands \ {c} : stage'[d] = stage[d]
           /\ ~overlapped' => ~overlapped /\ \A d \in Commands \ {c} : ~Busy(d)
           /\ overlapped \in BOOLEAN => overlapped' \in BOOLEAN
BY DEF Move, StageType

LEMMA ReadMoves ==
    ASSUME NEW c \in Commands, ReadComponent(c)
    PROVE  \E next \in {"failed", "refused", "instantiate"} : Move(c, "read", next)
BY DEF ReadComponent

\* The command a step moves, and where.
Moves(c) == \E here, next \in Stages : Move(c, here, next)

LEMMA EachMoves ==
    ASSUME NEW c \in Commands,
           \/ Install(c) \/ Lookup(c) \/ Check(c) \/ EnsureRuntime(c) \/ ReadComponent(c)
           \/ Instantiate(c) \/ Activated(c) \/ ActivationFails(c)
           \/ Confirm(c) \/ Leave(c) \/ LeaveAll(c) \/ AllLeft(c) \/ Gone(c)
           \/ \E i \in Commands : Left(c, i)
    PROVE  Moves(c)
<1> USE DEF Moves, Stages, Over, Making
<1>1. CASE Install(c) \/ Lookup(c) \/ Check(c)
  BY <1>1 DEF Install, Lookup, Check
<1>2. CASE EnsureRuntime(c) \/ Instantiate(c) \/ Activated(c) \/ ActivationFails(c)
  BY <1>2 DEF EnsureRuntime, Instantiate, Activated, ActivationFails
<1>3. CASE ReadComponent(c)
  BY <1>3, ReadMoves
<1>4. CASE Confirm(c) \/ Leave(c) \/ LeaveAll(c) \/ AllLeft(c) \/ Gone(c)
  BY <1>4 DEF Confirm, Leave, LeaveAll, AllLeft, Gone
<1>5. CASE \E i \in Commands : Left(c, i)
  BY <1>5 DEF Left
<1> QED
  BY <1>1, <1>2, <1>3, <1>4, <1>5

LEMMA StepComponentType == ComponentType /\ CommandInv /\ ComponentNext => ComponentType'
<1> SUFFICES ASSUME ComponentType, CommandInv, ComponentNext PROVE ComponentType'
  OBVIOUS
<1>0. CASE UNCHANGED componentVars
  BY <1>0 DEF ComponentType, ComponentTypeOK, StageType, componentVars, commandState,
              managerState, components
<1>1. ASSUME NEW c \in Commands,
             \/ Install(c) \/ Lookup(c) \/ Check(c) \/ EnsureRuntime(c) \/ ReadComponent(c)
             \/ Instantiate(c) \/ Activated(c) \/ ActivationFails(c)
             \/ Confirm(c) \/ Leave(c) \/ LeaveAll(c) \/ AllLeft(c) \/ Gone(c)
             \/ \E i \in Commands : Left(c, i)
      PROVE  ComponentType'
  <2> USE DEF ComponentType, ComponentTypeOK
  <2>1. StageType' /\ cmd' \in CommandLists /\ overlapped' \in BOOLEAN
    BY <1>1, EachMoves, Moved DEF Moves, Stages
  <2>2. CASE Install(c)
    <3>1. Ext(c) \in Exts /\ cmd[c].record \in Record
      BY <2>2, KindFacts DEF Install
    <3> QED
      BY <2>1, <2>2, <3>1 DEF Install, components
  <2>3. CASE Lookup(c)
    <3>1. held' = [held EXCEPT ![c] = installed[Ext(c)]] /\ cmd[c].kind = "activate"
          /\ UNCHANGED <<managerState, components>>
      BY <2>3 DEF Lookup
    <3>2. installed[Ext(c)] \in {None} \cup Record
      BY <3>1, KindFacts
    <3> QED
      BY <2>1, <3>1, <3>2 DEF managerState, components
  <2>4. CASE Check(c) \/ EnsureRuntime(c) \/ ReadComponent(c) \/ Confirm(c) \/ AllLeft(c)
    BY <2>1, <2>4 DEF Check, EnsureRuntime, ReadComponent, Confirm, AllLeft, managerState,
                      components
  <2>5. CASE Instantiate(c)
    BY <2>1, <2>5 DEF Instantiate, managerState
  <2>6. CASE Activated(c)
    BY <2>1, <2>6 DEF Activated
  <2>7. CASE ActivationFails(c)
    BY <2>1, <2>7 DEF ActivationFails, managerState
  <2>8. CASE Leave(c)
    <3>1. cmd[c].kind \in Removal
      BY <2>8, Moved DEF CommandInv, CommandOK, Leave, Stages
    <3>2. active[Ext(c)] \in Commands \cup {None}
      BY <3>1, KindFacts DEF Removal
    <3> QED
      BY <2>1, <2>8, <3>2 DEF Leave
  <2>9. CASE LeaveAll(c)
    <3>1. {active[e] : e \in Exts} \ {None} \in SUBSET Commands
      OBVIOUS
    <3> QED
      BY <2>1, <2>9, <3>1 DEF LeaveAll
  <2>10. CASE Gone(c)
    BY <2>1, <2>10 DEF Gone, components
  <2>11. ASSUME NEW i \in Commands, Left(c, i) PROVE ComponentType'
    BY <2>1, <2>11 DEF Left, Disposed, managerState
  <2> QED
    BY <1>1, <2>2, <2>3, <2>4, <2>5, <2>6, <2>7, <2>8, <2>9, <2>10, <2>11
<1> QED
  BY <1>0, <1>1 DEF ComponentNext, ComponentDone

\* A command moves on, and no component does.
LEMMA QuietMove ==
    ASSUME ComponentType, CommandInv, MapInv, NEW c \in Commands,
           NEW here \in Stages \ Over, NEW next \in Stages \ {"activating"},
           Move(c, here, next),
           UNCHANGED <<active, life, alive, released, leaving>>,
           next \in Making => cmd[c].kind \in {"install", "activate"},
           next = "leave" => cmd[c].kind \in Removal,
           next \in {"leaving", "gone"} => cmd[c].kind \in Removal \cup {"shutdown"},
           leaving[c] # {} => next = "leaving"
    PROVE  CommandInv' /\ MapInv'
<1>1. /\ cmd' = cmd /\ stage[c] = here /\ here \notin {"ok", "failed"} /\ stage'[c] = next
      /\ \A d \in Commands \ {c} : stage'[d] = stage[d]
  BY Moved DEF ComponentType, Over
<1>2. ASSUME NEW d \in Commands PROVE CommandOK(d)'
  <2>1. CommandOK(d) /\ leaving[d] \subseteq Commands
    BY DEF CommandInv, ComponentType, ComponentTypeOK
  <2>2. \A i \in leaving[d] : stage'[i] = "ok"
    BY <1>1, <2>1 DEF CommandOK
  <2>3. CASE d # c
    BY <1>1, <2>1, <2>2, <2>3 DEF CommandOK
  <2>4. CASE d = c
    BY <1>1, <2>1, <2>2, <2>4 DEF CommandOK
  <2> QED
    BY <2>3, <2>4
<1>3. ASSUME NEW e \in Exts PROVE MapOK(e)'
  <2>1. MapOK(e) /\ active[e] \in Commands \cup {None}
    BY DEF MapInv, ComponentType, ComponentTypeOK
  <2> QED
    BY <1>1, <2>1 DEF MapOK, Ext
<1> QED
  BY <1>2, <1>3 DEF CommandInv, MapInv

LEMMA StepCommand ==
    ComponentType /\ CommandInv /\ MapInv /\ ComponentNext => CommandInv' /\ MapInv'
<1> SUFFICES ASSUME ComponentType, CommandInv, MapInv, ComponentNext
             PROVE  CommandInv' /\ MapInv'
  OBVIOUS
<1>0. ASSUME NEW c \in Commands PROVE CommandOK(c) /\ StageType /\ ComponentTypeOK
  BY DEF CommandInv, ComponentType
<1>1. ASSUME NEW c \in Commands,
             \/ Install(c) \/ Lookup(c) \/ Check(c) \/ EnsureRuntime(c) \/ ReadComponent(c)
             \/ Confirm(c) \/ AllLeft(c) \/ Gone(c)
      PROVE  CommandInv' /\ MapInv'
  <2>1. UNCHANGED <<active, life, alive, released, leaving>>
    BY <1>1 DEF Install, Lookup, Check, EnsureRuntime, ReadComponent, Confirm, AllLeft, Gone,
                managerState, components
  <2>2. /\ Making \subseteq Stages /\ Over \subseteq Stages
        /\ {"start", "leave", "leaving", "gone"} \subseteq Stages
        /\ Over = {"ok", "refused", "failed"} /\ "load" \in Making /\ "check" \in Making
        /\ Making = {"check", "load", "read", "instantiate", "activating"}
    BY DEF Stages, Making, Over
  <2>3. PICK here \in {"start", "check", "load", "read", "leaving", "gone"},
             next \in Stages \ {"activating"} :
          /\ Move(c, here, next)
          /\ next \in Making => \/ here = "start" /\ cmd[c].kind \in {"install", "activate"}
                                \/ here \in Making
          /\ next = "leave" => cmd[c].kind \in Removal
          /\ next \in {"leaving", "gone"} => here = "leaving"
          /\ here = "leaving" => leaving[c] = {}
    <3>1. CASE Install(c)
      BY <2>2, <3>1 DEF Install
    <3>2. CASE Lookup(c)
      BY <2>2, <3>2 DEF Lookup
    <3>3. CASE Check(c)
      BY <2>2, <3>3 DEF Check
    <3>4. CASE EnsureRuntime(c)
      BY <2>2, <3>4 DEF EnsureRuntime
    <3>5. CASE ReadComponent(c)
      BY <2>2, <3>5, ReadMoves
    <3>6. CASE Confirm(c)
      BY <2>2, <3>6 DEF Confirm, Removal
    <3>7. CASE AllLeft(c)
      BY <2>2, <3>7 DEF AllLeft
    <3>8. CASE Gone(c)
      BY <2>2, <3>8 DEF Gone
    <3> QED
      BY <1>1, <3>1, <3>2, <3>3, <3>4, <3>5, <3>6, <3>7, <3>8
  <2>4. stage[c] = here
    BY <2>3 DEF Move
  <2>5. here \in Stages \ Over
    BY <2>2, <2>3
  <2>6. leaving[c] = {}
    BY <1>0, <2>3, <2>4 DEF CommandOK
  <2>7. next \in Making => cmd[c].kind \in {"install", "activate"}
    BY <1>0, <2>3, <2>4 DEF CommandOK
  <2>8. next \in {"leaving", "gone"} => cmd[c].kind \in Removal \cup {"shutdown"}
    BY <1>0, <2>3, <2>4 DEF CommandOK
  <2> QED
    BY <2>1, <2>3, <2>5, <2>6, <2>7, <2>8, QuietMove
<1>2. ASSUME NEW c \in Commands, Instantiate(c) \/ ActivationFails(c)
      PROVE  CommandInv' /\ MapInv'
  <2>1. PICK here \in {"instantiate", "activating"}, next \in {"activating", "failed"} :
          /\ Move(c, here, next)
          /\ here = "instantiate" => released' = released
          /\ here = "activating" => next = "failed"
          /\ next = "activating" => c \in alive'
    BY <1>2 DEF Instantiate, ActivationFails
  <2>2. /\ UNCHANGED <<active, leaving>> /\ released' \subseteq released \cup {c}
        /\ \A d \in Commands \ {c} : /\ life'[d] = life[d]
                                     /\ d \in alive' <=> d \in alive
                                     /\ d \in released' <=> d \in released
    BY <1>0, <1>2 DEF Instantiate, ActivationFails, managerState, ComponentTypeOK
  <2>3. /\ cmd' = cmd /\ stage[c] = here /\ stage'[c] = next
        /\ \A d \in Commands \ {c} : stage'[d] = stage[d]
    BY <1>0, <2>1 DEF Move, StageType
  <2>4. cmd[c].kind \in {"install", "activate"} /\ leaving[c] = {}
    BY <1>0, <2>3 DEF CommandOK, Making
  <2>5. ASSUME NEW d \in Commands PROVE CommandOK(d)'
    <3>0. CommandOK(d) /\ leaving[d] \subseteq Commands
      BY <1>0 DEF ComponentTypeOK
    <3>1. \A i \in leaving[d] : stage'[i] = "ok" /\ life'[i] # "none"
      <4>1. \A i \in leaving[d] : i \in Commands \ {c}
        BY <2>1, <2>3, <3>0 DEF CommandOK
      <4> QED
        BY <2>2, <2>3, <3>0, <4>1 DEF CommandOK
    <3>2. CASE d # c
      BY <1>0, <2>2, <2>3, <3>1, <3>2 DEF CommandOK
    <3>3. next = "activating" => c \notin released'
      BY <1>0, <2>1, <2>3 DEF CommandOK
    <3>4. CASE d = c
      <4>1. next \notin {"leave", "leaving", "gone", "ok"} /\ leaving'[c] = {}
        BY <2>1, <2>2, <2>4
      <4> QED
        BY <2>1, <2>3, <2>4, <3>3, <3>4, <4>1 DEF CommandOK
    <3> QED
      BY <3>2, <3>4
  <2>6. ASSUME NEW e \in Exts PROVE MapOK(e)'
    <3>1. MapOK(e) /\ active[e] \in Commands \cup {None}
      BY DEF MapInv, ComponentType, ComponentTypeOK
    <3>2. active[e] # c
      BY <2>1, <2>3, <3>1, KindFacts DEF MapOK, ComponentType
    <3> QED
      BY <2>2, <2>3, <3>1, <3>2 DEF MapOK, Ext
  <2> QED
    BY <2>5, <2>6 DEF CommandInv, MapInv
<1>3. ASSUME NEW c \in Commands, Activated(c) PROVE CommandInv' /\ MapInv'
  <2>1. /\ cmd' = cmd /\ stage[c] = "activating" /\ stage'[c] = "ok"
        /\ \A d \in Commands \ {c} : stage'[d] = stage[d]
    BY <1>0, <1>3 DEF Activated, Move, StageType
  <2>2. /\ UNCHANGED <<alive, released, leaving>>
        /\ life' = [life EXCEPT ![c] = "activated"] /\ active' = [active EXCEPT ![Ext(c)] = c]
    BY <1>3 DEF Activated
  <2>3. /\ cmd[c].kind \in {"install", "activate"} /\ leaving[c] = {}
        /\ c \in alive \ released /\ \A d \in Commands : c \notin leaving[d]
    BY <1>0, <2>1 DEF CommandOK, Making
  <2>4. ASSUME NEW d \in Commands PROVE CommandOK(d)'
    <3>1. \A i \in leaving[d] : /\ stage'[i] = "ok" /\ life'[i] # "none"
                                /\ \A e \in Exts : active'[e] # i
      BY <1>0, <2>1, <2>2, <2>3 DEF CommandOK, ComponentTypeOK
    <3>2. CASE d # c
      BY <1>0, <2>1, <2>2, <3>1, <3>2 DEF CommandOK, ComponentTypeOK
    <3>3. CASE d = c
      BY <1>0, <2>1, <2>2, <2>3, <3>1, <3>3 DEF CommandOK, Making
    <3> QED
      BY <3>2, <3>3
  <2>5. ASSUME NEW e \in Exts PROVE MapOK(e)'
    <3>1. MapOK(e) /\ active[e] \in Commands \cup {None}
      BY DEF MapInv, ComponentType, ComponentTypeOK
    <3>2. active'[e] = IF e = Ext(c) THEN c ELSE active[e]
      BY <1>0, <2>2 DEF ComponentTypeOK
    <3>3. \A d \in Commands : life'[d] = IF d = c THEN "activated" ELSE life[d]
      BY <1>0, <2>2 DEF ComponentTypeOK
    <3> QED
      BY <2>1, <2>2, <2>3, <3>1, <3>2, <3>3 DEF MapOK, Ext
  <2> QED
    BY <2>4, <2>5 DEF CommandInv, MapInv
<1>4. ASSUME NEW c \in Commands, Leave(c) \/ LeaveAll(c) PROVE CommandInv' /\ MapInv'
  <2>1. PICK here \in {"leave", "start"}, next \in {"leaving", "gone"} :
          /\ Move(c, here, next)
          /\ here = "start" => cmd[c].kind = "shutdown" /\ next = "leaving"
          /\ leaving'[c] # {} => next = "leaving"
    BY <1>0, <1>4 DEF Leave, LeaveAll, ComponentTypeOK
  <2>2. /\ cmd' = cmd /\ stage[c] = here /\ stage'[c] = next
        /\ \A d \in Commands \ {c} : stage'[d] = stage[d]
    BY <1>0, <2>1 DEF Move, StageType
  <2>3. /\ UNCHANGED <<life, alive, released>>
        /\ \A d \in Commands \ {c} : leaving'[d] = leaving[d]
        /\ \A e \in Exts : active'[e] # None => active'[e] = active[e]
    BY <1>0, <1>4 DEF Leave, LeaveAll, ComponentTypeOK
  <2>4. cmd[c].kind \in Removal \cup {"shutdown"}
    BY <1>0, <2>1, <2>2 DEF CommandOK
  <2>5. /\ \A i \in leaving'[c] : stage[i] = "ok" /\ life[i] # "none" /\ i \in Commands
        /\ \A i \in leaving'[c], e \in Exts : active'[e] # i
    <3>1. CASE Leave(c)
      <4>1. cmd[c].kind \in Removal
        BY <1>0, <3>1 DEF CommandOK, Leave, Move
      <4>2. Ext(c) \in Exts /\ MapOK(Ext(c)) /\ active[Ext(c)] \in Commands \cup {None}
        BY <1>0, <4>1, KindFacts DEF Removal, MapInv, ComponentTypeOK
      <4>3. /\ leaving'[c] = IF active[Ext(c)] = None THEN {} ELSE {active[Ext(c)]}
            /\ active' = [active EXCEPT ![Ext(c)] = None]
        BY <1>0, <3>1 DEF Leave, ComponentTypeOK
      <4>4. ASSUME active[Ext(c)] # None, NEW e \in Exts PROVE active'[e] # active[Ext(c)]
        <5>1. MapOK(e) /\ active'[e] = IF e = Ext(c) THEN None ELSE active[e]
          BY <1>0, <4>3 DEF MapInv, ComponentTypeOK
        <5> QED
          BY <4>2, <4>4, <5>1 DEF MapOK
      <4> QED
        BY <1>0, <4>2, <4>3, <4>4, KindFacts DEF MapOK
    <3>2. CASE LeaveAll(c)
      <4>1. leaving'[c] = {active[e] : e \in Exts} \ {None} /\ \A e \in Exts : active'[e] = None
        BY <1>0, <3>2 DEF LeaveAll, ComponentTypeOK
      <4> QED
        BY <1>0, <4>1 DEF MapInv, MapOK, ComponentTypeOK
    <3> QED
      BY <1>4, <3>1, <3>2
  <2>6. ASSUME NEW d \in Commands PROVE CommandOK(d)'
    <3>1. CASE d # c
      <4>1. \A i \in leaving[d] : stage'[i] = "ok" /\ i \in Commands
        BY <1>0, <2>1, <2>2 DEF CommandOK, ComponentTypeOK
      <4>2. \A i \in leaving[d], e \in Exts : active'[e] # i
        BY <1>0, <2>3, <4>1, KindFacts DEF CommandOK
      <4> QED
        BY <1>0, <2>2, <2>3, <3>1, <4>1, <4>2 DEF CommandOK
    <3>2. CASE d = c
      <4>1. \A i \in leaving'[c] : stage'[i] = "ok"
        BY <2>1, <2>2, <2>5
      <4> QED
        BY <1>0, <2>1, <2>2, <2>3, <2>4, <2>5, <3>2, <4>1 DEF CommandOK, Making
    <3> QED
      BY <3>1, <3>2
  <2>7. ASSUME NEW e \in Exts PROVE MapOK(e)'
    <3>1. MapOK(e) /\ active[e] \in Commands \cup {None}
      BY DEF MapInv, ComponentType, ComponentTypeOK
    <3> QED
      BY <2>1, <2>2, <2>3, <3>1 DEF MapOK, Ext
  <2> QED
    BY <2>6, <2>7 DEF CommandInv, MapInv
<1>5. ASSUME NEW c \in Commands, NEW i \in Commands, Left(c, i) PROVE CommandInv' /\ MapInv'
  <2>1. /\ i \in leaving[c] /\ cmd' = cmd /\ stage' = stage /\ UNCHANGED active
        /\ leaving' = [leaving EXCEPT ![c] = leaving[c] \ {i}]
        /\ alive' = alive \ {i} /\ released' = released \cup {i}
        /\ \A d \in Commands \ {i} : life'[d] = life[d]
    BY <1>0, <1>5 DEF Left, Move, Disposed, managerState, StageType, ComponentTypeOK
  <2>2. /\ stage[i] = "ok" /\ \A e \in Exts : active[e] # i
        /\ \A d \in Commands : leaving'[d] \subseteq leaving[d]
    BY <1>0, <2>1 DEF CommandOK, ComponentTypeOK
  <2>3. cmd[i].kind \in {"install", "activate"} /\ life'[i] # "none"
    BY <1>0, <1>5, <2>1 DEF CommandOK, Left, Disposed, ComponentTypeOK
  <2>5. ASSUME NEW d \in Commands PROVE CommandOK(d)'
    <3>0. \A j \in leaving'[d] : j \in leaving[d] /\ life'[j] # "none"
      BY <1>0, <2>1, <2>2, <2>3 DEF CommandOK, ComponentTypeOK
    <3>1. CASE d # i
      BY <1>0, <2>1, <2>2, <3>0, <3>1 DEF CommandOK
    <3>2. CASE d = i
      BY <1>0, <2>1, <2>2, <2>3, <3>0, <3>2 DEF CommandOK, Making
    <3> QED
      BY <3>1, <3>2
  <2>6. ASSUME NEW e \in Exts PROVE MapOK(e)'
    <3>1. MapOK(e) /\ active[e] \in Commands \cup {None}
      BY DEF MapInv, ComponentType, ComponentTypeOK
    <3> QED
      BY <2>1, <2>2, <3>1 DEF MapOK, Ext
  <2> QED
    BY <2>5, <2>6 DEF CommandInv, MapInv
<1>6. CASE UNCHANGED componentVars
  BY <1>6 DEF componentVars, commandState, managerState, components, CommandInv, CommandOK,
              MapInv, MapOK, Ext
<1> QED
  BY <1>1, <1>2, <1>3, <1>4, <1>5, <1>6 DEF ComponentNext, ComponentDone

\* Only the command that moves can be under way when commands do not overlap.
LEMMA AloneMoves ==
    ASSUME ComponentType, NEW c \in Commands, Moves(c), ~overlapped'
    PROVE  /\ ~overlapped /\ cmd' = cmd
           /\ \A d \in Commands \ {c} : ~Busy(d) /\ ~Busy(d)' /\ stage'[d] = stage[d]
<1>1. PICK here, next \in Stages : Move(c, here, next)
  BY DEF Moves
<1> QED
  BY <1>1, Moved DEF ComponentType, Busy

LEMMA SerialMove ==
    ASSUME ComponentType, NEW c \in Commands, Moves(c), ~overlapped',
           FindsOK(c)', \A d \in Commands : Accounted(d)',
           (\A e \in Exts : active[e] # None => installed[e] # None)'
    PROVE  SerialInv'
<1>1. \A d \in Commands \ {c} : ~Busy(d)'
  BY AloneMoves
<1>2. \A d \in Commands : FindsOK(d)'
  BY <1>1 DEF FindsOK, Busy, Making, Over
<1> QED
  BY <1>1, <1>2 DEF SerialInv

LEMMA StepSerial ==
    ComponentType /\ CommandInv /\ MapInv /\ SerialInv /\ ComponentNext => SerialInv'
<1> SUFFICES ASSUME ComponentType, CommandInv, MapInv, SerialInv, ComponentNext, ~overlapped'
             PROVE  SerialInv'
  BY DEF SerialInv
<1>0. ASSUME NEW c \in Commands, Moves(c)
      PROVE  /\ ~overlapped /\ cmd' = cmd
             /\ \A d \in Commands \ {c} : ~Busy(d) /\ stage'[d] = stage[d]
             /\ FindsOK(c) /\ CommandOK(c) /\ StageType /\ ComponentTypeOK
             /\ \A d \in Commands : Accounted(d)
             /\ \A e \in Exts : active[e] # None => installed[e] # None
             /\ \A d \in Commands : leaving[d] # {} => d = c
  <2>1. \A d \in Commands : leaving[d] # {} => Busy(d)
    BY DEF CommandInv, CommandOK, Busy, Over
  <2> QED
    BY <1>0, <2>1, AloneMoves DEF SerialInv, CommandInv, ComponentType
<1>1. ASSUME NEW c \in Commands,
             \/ Install(c) \/ Lookup(c) \/ Check(c) \/ EnsureRuntime(c) \/ ReadComponent(c)
             \/ Confirm(c) \/ AllLeft(c)
      PROVE  SerialInv'
  <2>0. Moves(c)
    BY <1>1, EachMoves
  <2>1. UNCHANGED <<active, life, alive, released, leaving>> /\ cmd' = cmd
    BY <1>1 DEF Install, Lookup, Check, EnsureRuntime, ReadComponent, Confirm, AllLeft, Move,
                managerState, components
  <2>2. \/ installed' = installed
        \/ /\ installed' = [installed EXCEPT ![Ext(c)] = cmd[c].record]
           /\ cmd[c].record \in Record /\ Install(c)
    <3>1. CASE Install(c)
      BY <1>0, <2>0, <3>1, KindFacts DEF Install
    <3> QED
      BY <1>1, <3>1 DEF Lookup, Check, EnsureRuntime, ReadComponent, Confirm, AllLeft,
                        managerState
  <2>3. \A e \in Exts : installed[e] # None => installed'[e] # None
    BY <1>0, <2>0, <2>2, ComponentNone DEF ComponentTypeOK
  <2>4. FindsOK(c)'
    <3>1. CASE Install(c)
      <4>1. Ext(c) \in Exts /\ installed'[Ext(c)] # None
        BY <1>0, <2>0, <2>2, <3>1, KindFacts, ComponentNone DEF Install, ComponentTypeOK
      <4>2. stage'[c] \in {"check", "ok"}
        BY <1>0, <2>0, <3>1 DEF Install, Move, StageType
      <4> QED
        BY <2>1, <4>1, <4>2 DEF FindsOK, Ext, Making
    <3>2. CASE Lookup(c)
      <4>1. /\ stage'[c] = IF installed[Ext(c)] # None /\ installed[Ext(c)].runs
                           THEN "check" ELSE "refused"
            /\ installed' = installed
        BY <1>0, <2>0, <3>2 DEF Lookup, Move, StageType, managerState
      <4> QED
        BY <2>1, <4>1 DEF FindsOK, Ext, Making
    <3>3. CASE Check(c) \/ EnsureRuntime(c) \/ ReadComponent(c)
      <4>1. stage[c] \in Making /\ (stage[c] = "check" => Check(c)) /\ installed' = installed
        BY <3>3, ReadMoves DEF Check, EnsureRuntime, Move, Making, ReadComponent, managerState
      <4>2. Check(c) => stage'[c] = IF active[Ext(c)] # None THEN "ok" ELSE "load"
        BY <1>0, <2>0 DEF Check, Move, StageType
      <4>3. EnsureRuntime(c) \/ ReadComponent(c) =>
               stage'[c] \in {"read", "failed", "refused", "instantiate"}
        BY <1>0, <2>0, ReadMoves DEF EnsureRuntime, Move, StageType
      <4> QED
        BY <1>0, <2>0, <2>1, <3>3, <4>1, <4>2, <4>3 DEF FindsOK, Ext, Making
    <3>4. CASE Confirm(c)
      <4>1. stage'[c] \in {"refused", "leave"}
        BY <1>0, <2>0, <3>4 DEF Confirm, Move, StageType
      <4> QED
        BY <4>1 DEF FindsOK, Making
    <3>5. CASE AllLeft(c)
      <4>1. stage[c] = "leaving" /\ stage'[c] \in {"failed", "gone"}
        BY <1>0, <2>0, <3>5 DEF AllLeft, Move, StageType
      <4> QED
        BY <1>0, <2>0, <2>1, <4>1 DEF FindsOK, Ext, Making
    <3> QED
      BY <1>1, <3>1, <3>2, <3>3, <3>4, <3>5
  <2>5. ASSUME NEW d \in Commands PROVE Accounted(d)'
    <3>1. stage[c] # "activating"
      BY <1>1, ReadMoves DEF Install, Lookup, Check, EnsureRuntime, Confirm, AllLeft, Move
    <3>2. stage[d] = "activating" => stage'[d] = "activating"
      BY <1>0, <2>0, <3>1
    <3> QED
      BY <1>0, <2>0, <2>1, <3>2 DEF Accounted, Ext
  <2> QED
    BY <1>0, <2>0, <2>1, <2>3, <2>4, <2>5, SerialMove
<1>2. ASSUME NEW c \in Commands, Gone(c) PROVE SerialInv'
  <2>0. Moves(c) /\ stage[c] = "gone" /\ stage'[c] = "ok"
    BY <1>2, EachMoves DEF Gone, Move, ComponentType, StageType
  <2>1. UNCHANGED <<active, life, alive, released, leaving>> /\ cmd' = cmd
    BY <1>2 DEF Gone, Move, components
  <2>2. \A e \in Exts : active[e] # None => installed'[e] # None
    BY <1>0, <1>2, <2>0, KindFacts DEF Gone, FindsOK, Removal, ComponentTypeOK
  <2>3. FindsOK(c)'
    BY <2>0 DEF FindsOK, Making
  <2>4. ASSUME NEW d \in Commands PROVE Accounted(d)'
    BY <1>0, <2>0, <2>1 DEF Accounted, Ext
  <2> QED
    BY <1>0, <2>0, <2>1, <2>2, <2>3, <2>4, SerialMove
<1>3. ASSUME NEW c \in Commands, Instantiate(c) \/ ActivationFails(c) PROVE SerialInv'
  <2>0. Moves(c) /\ stage[c] \in {"instantiate", "activating"}
        /\ stage'[c] \in {"activating", "failed"}
    BY <1>3, EachMoves DEF Instantiate, ActivationFails, Move, ComponentType, StageType
  <2>1. UNCHANGED <<installed, active, leaving>> /\ cmd' = cmd
    BY <1>3 DEF Instantiate, ActivationFails, Move, managerState
  <2>2. FindsOK(c)'
    BY <1>0, <2>0, <2>1 DEF FindsOK, Making, Ext
  <2>3. ASSUME NEW d \in Commands PROVE Accounted(d)'
    <3>1. CASE d = c
      <4>1. \/ stage'[c] = "activating" \/ c \in released' \ alive'
            \/ life'[c] = life[c] /\ UNCHANGED <<alive, released>> /\ stage[c] = "instantiate"
        BY <1>0, <1>3, <2>0 DEF Instantiate, ActivationFails, Move, StageType
      <4> QED
        BY <1>0, <2>0, <2>1, <3>1, <4>1 DEF Accounted, Ext
    <3>2. CASE d # c
      <4>1. /\ life'[d] = life[d] /\ stage'[d] = stage[d]
            /\ d \in released \ alive => d \in released' \ alive'
        BY <1>0, <1>3, <2>0, <3>2 DEF Instantiate, ActivationFails, ComponentTypeOK
      <4> QED
        BY <1>0, <2>0, <2>1, <4>1 DEF Accounted, Ext
    <3> QED
      BY <3>1, <3>2
  <2> QED
    BY <1>0, <2>0, <2>1, <2>2, <2>3, SerialMove
<1>4. ASSUME NEW c \in Commands, Activated(c) PROVE SerialInv'
  <2>0. Moves(c) /\ stage[c] = "activating" /\ stage'[c] = "ok"
    BY <1>4, EachMoves DEF Activated, Move, ComponentType, StageType
  <2>1. /\ UNCHANGED <<installed, alive, released, leaving>> /\ cmd' = cmd
        /\ active' = [active EXCEPT ![Ext(c)] = c] /\ life' = [life EXCEPT ![c] = "activated"]
    BY <1>4 DEF Activated, Move
  <2>2. /\ Ext(c) \in Exts /\ installed[Ext(c)] # None /\ active[Ext(c)] = None
        /\ \A e \in Exts : active'[e] = IF e = Ext(c) THEN c ELSE active[e]
    BY <1>0, <2>0, <2>1, KindFacts DEF FindsOK, CommandOK, Making, ComponentTypeOK
  <2>3. FindsOK(c)'
    BY <2>0 DEF FindsOK, Making
  <2>4. ASSUME NEW d \in Commands PROVE Accounted(d)'
    <3>1. CASE d = c
      BY <2>1, <2>2, <3>1 DEF Accounted, Ext
    <3>2. CASE d # c
      <4>1. life'[d] = life[d] /\ stage'[d] = stage[d]
        BY <1>0, <2>0, <2>1, <3>2 DEF ComponentTypeOK
      <4>2. life[d] # "none" => Ext(d) \in Exts
        BY KindFacts DEF CommandInv, CommandOK, ComponentType
      <4>3. active[Ext(d)] = d /\ Ext(d) \in Exts => active'[Ext(d)] = d
        BY <2>2, KindFacts DEF ComponentType
      <4> QED
        BY <1>0, <2>0, <2>1, <4>1, <4>2, <4>3 DEF Accounted, Ext
    <3> QED
      BY <3>1, <3>2
  <2> QED
    BY <1>0, <2>0, <2>1, <2>2, <2>3, <2>4, SerialMove
<1>5. ASSUME NEW c \in Commands, Leave(c) \/ LeaveAll(c) PROVE SerialInv'
  <2>0. Moves(c) /\ stage[c] \in {"leave", "start"} /\ stage'[c] \in {"leaving", "gone"}
        /\ leaving[c] = {}
    BY <1>5, EachMoves DEF Leave, LeaveAll, Move, ComponentType, StageType, CommandInv, CommandOK
  <2>1. /\ UNCHANGED <<installed, life, alive, released>> /\ cmd' = cmd
        /\ \A e \in Exts : active'[e] # None => active'[e] = active[e]
    BY <1>0, <1>5, <2>0 DEF Leave, LeaveAll, Move, ComponentTypeOK
  <2>2. FindsOK(c)'
    <3>1. cmd[c].kind \in Removal => active'[Ext(c)] = None
      BY <1>0, <1>5, <2>0, KindFacts DEF Leave, LeaveAll, Removal, ComponentTypeOK
    <3> QED
      BY <2>0, <2>1, <3>1 DEF FindsOK, Making, Ext
  <2>3. \A e \in Exts : active[e] # None => active'[e] = active[e] \/ active[e] \in leaving'[c]
    BY <1>0, <1>5, <2>0 DEF Leave, LeaveAll, ComponentTypeOK
  <2>4. ASSUME NEW d \in Commands PROVE Accounted(d)'
    <3>1. life[d] # "none" => Ext(d) \in Exts
      BY KindFacts DEF CommandInv, CommandOK, ComponentType
    <3>2. d # None /\ (stage[d] = "activating" => stage'[d] = "activating")
      BY <1>0, <2>0, KindFacts DEF ComponentType
    <3>3. \A x \in Commands : d \notin leaving[x]
      BY <1>0, <2>0
    <3> QED
      BY <1>0, <2>0, <2>1, <2>3, <3>1, <3>2, <3>3 DEF Accounted, Ext
  <2> QED
    BY <1>0, <2>0, <2>1, <2>2, <2>4, SerialMove
<1>6. ASSUME NEW c \in Commands, NEW i \in Commands, Left(c, i) PROVE SerialInv'
  <2>0. Moves(c) /\ stage[c] = "leaving" /\ stage' = stage
    BY <1>6, EachMoves DEF Left, Move, ComponentType, StageType
  <2>1. /\ UNCHANGED <<installed, active>> /\ cmd' = cmd
        /\ leaving' = [leaving EXCEPT ![c] = leaving[c] \ {i}]
        /\ alive' = alive \ {i} /\ released' = released \cup {i}
        /\ \A d \in Commands \ {i} : life'[d] = life[d]
    BY <1>0, <1>6, <2>0 DEF Left, Move, Disposed, managerState, ComponentTypeOK
  <2>2. FindsOK(c)'
    BY <1>0, <2>0, <2>1 DEF FindsOK, Ext
  <2>3. ASSUME NEW d \in Commands PROVE Accounted(d)'
    <3>1. d # i => \A x \in Commands : d \in leaving[x] => d \in leaving'[x]
      BY <1>0, <2>0, <2>1 DEF ComponentTypeOK
    <3>2. CASE d = i
      BY <2>1, <3>2 DEF Accounted
    <3>3. CASE d # i
      BY <1>0, <2>0, <2>1, <3>1, <3>3 DEF Accounted, Ext
    <3> QED
      BY <3>2, <3>3
  <2> QED
    BY <1>0, <2>0, <2>1, <2>2, <2>3, SerialMove
<1>7. CASE UNCHANGED componentVars
  BY <1>7 DEF componentVars, commandState, managerState, components, SerialInv, FindsOK,
              Accounted, Busy, Ext
<1> QED
  BY <1>1, <1>2, <1>3, <1>4, <1>5, <1>6, <1>7 DEF ComponentNext, ComponentDone

ComponentInv == ComponentType /\ CommandInv /\ MapInv /\ SerialInv

LEMMA InitComponents == ComponentInit => ComponentInv
<1>1. ComponentInit => CommandInv /\ MapInv
  BY DEF ComponentInit, CommandInv, CommandOK, MapInv, MapOK, Making
<1>2. ComponentInit => SerialInv
  BY DEF ComponentInit, SerialInv, FindsOK, Accounted, Busy, Making
<1> QED
  BY <1>1, <1>2, InitComponentType DEF ComponentInv

LEMMA StepComponents == ComponentInv /\ (ComponentNext \/ UNCHANGED componentVars) => ComponentInv'
<1>1. CASE ComponentNext
  BY <1>1, StepComponentType, StepCommand, StepSerial DEF ComponentInv
<1>2. CASE UNCHANGED componentVars
  BY <1>2 DEF ComponentInv, ComponentType, ComponentTypeOK, StageType, CommandInv, CommandOK,
              MapInv, MapOK, SerialInv, FindsOK, Accounted, Busy, Ext,
              componentVars, commandState, managerState, components
<1> QED
  BY <1>1, <1>2

LEMMA ComponentsSafe == ComponentInv => ComponentTypeOK /\ ComponentsAccounted
<1> SUFFICES ASSUME ComponentInv PROVE ComponentTypeOK /\ ComponentsAccounted
  OBVIOUS
<1>1. ComponentTypeOK
  BY DEF ComponentInv, ComponentType
<1>2. ASSUME NEW e \in Exts, active[e] # None
      PROVE  /\ Ext(active[e]) = e /\ life[active[e]] = "activated"
             /\ active[e] \in alive \ released
  BY <1>2 DEF ComponentInv, MapInv, MapOK
<1>3. ASSUME ~overlapped, \A c \in Commands : ~Busy(c), NEW i \in Commands, life[i] # "none"
      PROVE  IF active[Ext(i)] = i THEN installed[Ext(i)] # None ELSE i \in released \ alive
  <2>1. Ext(i) \in Exts /\ i # None
    BY <1>1, <1>3, KindFacts DEF ComponentInv, CommandInv, CommandOK
  <2>2. stage[i] # "activating" /\ \A c \in Commands : leaving[c] = {}
    BY <1>3 DEF ComponentInv, CommandInv, CommandOK, Busy, Over
  <2> QED
    BY <1>3, <2>1, <2>2 DEF ComponentInv, SerialInv, Accounted
<1> QED
  BY <1>1, <1>2, <1>3 DEF ComponentsAccounted

-----------------------------------------------------------------------------
(* The runtime service.                                                     *)

Waiting == {"starting", "asked", "closing"}

\* A call that waits talks to the process the service has a client for, and so
\* did the one that has loaded an instance the service lists.
CallerOK(c) ==
    /\ place[c] \in Waiting => target[c] = client /\ client # 0
    /\ place[c] = "starting" => Needs(c)
    /\ place[c] = "closing" => ask[c].kind = "dispose"
    /\ target[c] <= spawned
    /\ c \in instances => place[c] = "ok" /\ target[c] = client /\ client # 0
    /\ ask[c].kind = "dispose" /\ place[c] = "ok" => target[c] \notin running \ killed

Method(c)  == IF ask[c].kind = "dispose" THEN "shutdown" ELSE ask[c].kind
FrameOK(f) == f[1] \in Callers /\ f[2] \in {"initialize", Method(f[1])}

CallersInv == \A c \in Callers : CallerOK(c)
FramesInv  == \A f \in stdin \cup stdout : FrameOK(f)

ServiceInv == /\ ServiceTypeOK /\ CallersInv /\ FramesInv
              /\ running \subseteq {client} /\ client <= spawned

LEMMA AskFacts ==
    ASSUME ServiceTypeOK, NEW c \in Callers
    PROVE  /\ ask[c].kind \in Requests \cup {"unload", "event", "dispose"}
           /\ Method(c) # "initialize" /\ (Method(c) = "shutdown" <=> ask[c].kind = "dispose")
           /\ Needs(c) => ask[c].kind # "dispose"
           /\ Method(c) = "load" => ask[c].kind = "load"
<1>1. ask[c].kind \in Requests \cup {"unload", "event", "dispose"}
  BY ServiceCalls DEF ServiceTypeOK
<1> QED
  BY <1>1 DEF Method, Needs, Requests

LEMMA InitService == ServiceInit => ServiceInv
BY ServiceBound DEF ServiceInit, ServiceInv, ServiceTypeOK, CallersInv, CallerOK, FramesInv,
                    Waiting, Procs

LEMMA ServiceStutter == ServiceInv /\ UNCHANGED serviceVars => ServiceInv'
BY DEF ServiceInv, ServiceTypeOK, CallersInv, CallerOK, Needs, FramesInv, FrameOK, Method,
       serviceVars, serviceState, processState

\* A step of one call c.  What it may do to the others: nothing.
LEMMA CallMoves ==
    ASSUME ServiceInv, NEW c \in Callers, NEW next \in Ends \cup Waiting,
           ask' = ask, place' = [place EXCEPT ![c] = next],
           \A d \in Callers \ {c} : target'[d] = target[d],
           client' = client, spawned' = spawned, running' \subseteq running,
           killed \subseteq killed',
           instances' \subseteq instances \cup {c},
           CallerOK(c)'
    PROVE  CallersInv'
<1> SUFFICES ASSUME NEW d \in Callers, d # c PROVE CallerOK(d)'
  BY DEF CallersInv
<1>1. CallerOK(d) /\ place'[d] = place[d]
  BY DEF ServiceInv, CallersInv, ServiceTypeOK
<1> QED
  BY <1>1 DEF CallerOK, Needs

\* Frames come from the calls they belong to.
LEMMA FramesMove ==
    ASSUME ServiceInv, ask' = ask,
           \A f \in stdin' \cup stdout' : f \in stdin \cup stdout \/ FrameOK(f)
    PROVE  FramesInv'
BY DEF ServiceInv, FramesInv, FrameOK, Method

LEMMA WrittenFrames ==
    ASSUME NEW c \in Callers, NEW p, NEW method \in {"initialize", Method(c)},
           NEW f \in Written(c, p, method)
    PROVE  f \in stdin \/ FrameOK(f)
BY DEF Written, FrameOK

LEMMA StepUse ==
    ASSUME ServiceInv, NEW c \in Callers, Needs(c), NEW p, p = client, client # 0,
           NEW here \in {"start", "starting"}, Use(c, p, here), stdout' \subseteq stdout
    PROVE  ServiceInv'
<1>0. ServiceTypeOK /\ CallersInv /\ running \subseteq {client} /\ client <= spawned
  BY DEF ServiceInv
<1>1. /\ ask' = ask /\ UNCHANGED <<client, spawned, running, killed, loaded>>
      /\ target' = [target EXCEPT ![c] = p] /\ stdin' = Written(c, p, ask[c].kind)
      /\ instances' \subseteq instances
  BY DEF Use
<1>2. /\ place[c] = here
      /\ place' = [place EXCEPT ![c] = IF ask[c].kind = "unload" THEN "ok" ELSE "asked"]
  BY DEF Use, Step
<1>3. ask[c].kind = Method(c) /\ ask[c].kind # "dispose"
  BY <1>0, AskFacts DEF Method
<1>4. ServiceTypeOK'
  BY <1>0, <1>1, <1>2 DEF ServiceTypeOK, Ends
<1>5. CallerOK(c)'
  <2>1. place'[c] \in {"ok", "asked"} /\ target'[c] = client /\ c \notin instances
    BY <1>0, <1>1, <1>2 DEF ServiceTypeOK, CallersInv, CallerOK
  <2> QED
    BY <1>0, <1>1, <1>3, <2>1 DEF CallerOK, ServiceTypeOK
<1>6. CallersInv'
  BY <1>0, <1>1, <1>2, <1>5, CallMoves DEF ServiceTypeOK, Ends, Waiting
<1>7. FramesInv'
  BY <1>1, <1>3, WrittenFrames, FramesMove
<1> QED
  BY <1>0, <1>1, <1>4, <1>6, <1>7 DEF ServiceInv

LEMMA StepService == ServiceInv /\ ServiceNext => ServiceInv'
<1> SUFFICES ASSUME ServiceInv, ServiceNext PROVE ServiceInv'
  OBVIOUS
<1>0. ServiceTypeOK /\ CallersInv /\ FramesInv /\ running \subseteq {client} /\ client <= spawned
  BY DEF ServiceInv
<1>1. ASSUME NEW c \in Callers, NoBinary(c) \/ Expire(c) PROVE ServiceInv'
  <2>1. /\ UNCHANGED <<ask, target, client, instances, processState>>
        /\ place[c] \notin Ends
    BY <1>1 DEF NoBinary, Expire, Step, Ends
  <2>2. PICK next \in {"failed", "closing"} :
           /\ place' = [place EXCEPT ![c] = next]
           /\ next = "closing" => ask[c].kind = "dispose" /\ place[c] \in Waiting
    BY <1>1 DEF NoBinary, Expire, Step, Waiting
  <2>3. ServiceTypeOK'
    BY <1>0, <2>1, <2>2 DEF ServiceTypeOK, Ends, processState
  <2>4. CallerOK(c)'
    BY <1>0, <2>1, <2>2 DEF ServiceTypeOK, CallersInv, CallerOK, Ends, Waiting, processState
  <2>5. CallersInv'
    BY <1>0, <2>1, <2>2, <2>4, CallMoves DEF Ends, Waiting, processState
  <2> QED
    BY <1>0, <2>1, <2>3, <2>5, FramesMove DEF ServiceInv, processState
<1>2. ASSUME NEW c \in Callers, Spawn(c) PROVE ServiceInv'
  <2>1. /\ client = 0 /\ running' = running \cup {spawned'} /\ spawned' = spawned + 1
        /\ client' = spawned' /\ spawned' \in Procs /\ Needs(c) /\ place[c] = "start"
        /\ target' = [target EXCEPT ![c] = spawned'] /\ place' = [place EXCEPT ![c] = "starting"]
        /\ UNCHANGED <<ask, instances, killed, stdout, loaded>>
        /\ stdin' = stdin \cup {<<c, "initialize">>}
    BY <1>0, <1>2, ServiceBound DEF Spawn, Step, Procs, ServiceTypeOK
  <2>2. running' = {spawned'} /\ spawned \in Nat /\ instances = {}
    <3>1. \A d \in Callers : d \notin instances
      BY <1>0, <2>1 DEF CallersInv, CallerOK
    <3>2. instances \subseteq Callers /\ spawned \in Nat /\ 0 \notin running
      BY <1>0 DEF ServiceTypeOK
    <3> QED
      BY <1>0, <2>1, <3>1, <3>2
  <2>3. ServiceTypeOK'
    BY <1>0, <2>1, <2>2, ServiceBound DEF ServiceTypeOK, Procs
  <2>4. ASSUME NEW d \in Callers PROVE CallerOK(d)'
    <3>1. CallerOK(d) /\ target[d] \in Nat
      BY <1>0 DEF CallersInv, ServiceTypeOK
    <3>2. CASE d = c
      <4>1. place'[d] = "starting" /\ target'[d] = spawned'
        BY <1>0, <2>1, <3>2 DEF ServiceTypeOK
      <4> QED
        BY <1>0, <2>1, <2>2, <3>2, <4>1, AskFacts DEF CallerOK, Needs
    <3>3. CASE d # c
      <4>1. place'[d] = place[d] /\ target'[d] = target[d]
        BY <1>0, <2>1, <3>3 DEF ServiceTypeOK
      <4>2. target[d] <= spawned' /\ target[d] # spawned'
        BY <2>1, <2>2, <3>1 DEF CallerOK
      <4> QED
        BY <2>1, <2>2, <3>1, <4>1, <4>2 DEF CallerOK, Needs
    <3> QED
      BY <3>2, <3>3
  <2>5. FramesInv'
    BY <2>1, FramesMove DEF FrameOK
  <2> QED
    BY <2>1, <2>2, <2>3, <2>4, <2>5 DEF ServiceInv, CallersInv
<1>3. ASSUME NEW c \in Callers, UseClient(c) PROVE ServiceInv'
  BY <1>3, StepUse DEF UseClient
<1>4. ASSUME NEW c \in Callers, SendEvent(c) \/ Dispose(c) PROVE ServiceInv'
  <2>1. /\ UNCHANGED <<ask, client, instances, spawned, running, killed, stdout, loaded>>
        /\ place[c] = "start" /\ target' = [target EXCEPT ![c] = client]
    BY <1>4 DEF SendEvent, Dispose, Step
  <2>2. PICK next \in {"ok", "asked"} :
           /\ place' = [place EXCEPT ![c] = next]
           /\ next = "asked" => client # 0
           /\ next = "ok" => client = 0 \/ ask[c].kind # "dispose"
    BY <1>4 DEF SendEvent, Dispose, Step
  <2>3. stdin' = stdin \/ stdin' = Written(c, client, Method(c))
    BY <1>4 DEF SendEvent, Dispose, Method
  <2>4. ServiceTypeOK'
    BY <1>0, <2>1, <2>2 DEF ServiceTypeOK, Ends
  <2>5. CallerOK(c)'
    <3>1. place'[c] = next /\ target'[c] = client /\ c \notin instances /\ 0 \notin running
      BY <1>0, <2>1, <2>2 DEF ServiceTypeOK, CallersInv, CallerOK
    <3> QED
      BY <1>0, <2>1, <2>2, <3>1 DEF CallerOK, Waiting
  <2>6. CallersInv'
    BY <1>0, <2>1, <2>2, <2>5, CallMoves DEF ServiceTypeOK, Ends, Waiting
  <2>7. FramesInv'
    BY <2>1, <2>3, WrittenFrames, FramesMove
  <2> QED
    BY <1>0, <2>1, <2>4, <2>6, <2>7 DEF ServiceInv
<1>5. ASSUME NEW m \in stdout, Settle(m) PROVE ServiceInv'
  <2>1. /\ FrameOK(m) /\ m[1] \in Callers /\ stdout' \subseteq stdout
        /\ m[2] \in {"initialize", Method(m[1])}
    BY <1>0, <1>5 DEF Settle, FramesInv, FrameOK
  <2>2. CASE ~Awaits(m)
    <3>1. UNCHANGED <<serviceState, spawned, running, killed, stdin, loaded>>
      BY <1>5, <2>2 DEF Settle
    <3>2. ServiceTypeOK' /\ CallersInv'
      BY <1>0, <3>1 DEF ServiceTypeOK, CallersInv, CallerOK, Needs, serviceState
    <3> QED
      BY <1>0, <2>1, <3>1, <3>2, FramesMove DEF ServiceInv, serviceState
  <2>3. CASE Awaits(m) /\ m[2] = "initialize"
    <3>1. Use(m[1], target[m[1]], "starting") /\ place[m[1]] = "starting"
      BY <1>5, <2>3 DEF Settle, Awaits
    <3>2. target[m[1]] = client /\ client # 0 /\ Needs(m[1])
      BY <1>0, <2>1, <3>1 DEF CallersInv, CallerOK, Waiting
    <3> QED
      BY <2>1, <3>1, <3>2, StepUse
  <2>4. CASE Awaits(m) /\ m[2] # "initialize"
    <3>1. place[m[1]] = "asked" /\ m[2] = Method(m[1])
      BY <2>1, <2>4 DEF Awaits
    <3>2. PICK next \in {"closing", "ok", "failed"} :
             /\ place' = [place EXCEPT ![m[1]] = next]
             /\ next = "closing" <=> m[2] = "shutdown"
             /\ instances' \subseteq (IF next = "ok" THEN instances \cup {m[1]} ELSE instances)
             /\ UNCHANGED <<ask, target, client, spawned, running, killed, stdin, loaded>>
      <4>1. CASE m[2] = "shutdown"
        BY <1>5, <2>4, <4>1 DEF Settle, Step
      <4>2. CASE m[2] # "shutdown"
        BY <1>5, <2>4, <4>2 DEF Settle, Step
      <4> QED
        BY <4>1, <4>2
    <3>3. ServiceTypeOK'
      BY <1>0, <2>1, <3>2 DEF ServiceTypeOK, Ends
    <3>4. CallerOK(m[1])'
      <4>1. place'[m[1]] = next /\ CallerOK(m[1]) /\ m[1] \notin instances
        BY <1>0, <2>1, <3>1, <3>2 DEF ServiceTypeOK, CallersInv, CallerOK
      <4>2. next = "closing" <=> ask[m[1]].kind = "dispose"
        BY <1>0, <2>1, <3>1, <3>2, AskFacts
      <4> QED
        BY <3>1, <3>2, <4>1, <4>2 DEF CallerOK, Waiting
    <3>5. CallersInv'
      BY <2>1, <3>2, <3>4, CallMoves DEF Ends, Waiting
    <3> QED
      BY <1>0, <2>1, <3>2, <3>3, <3>5, FramesMove DEF ServiceInv
  <2> QED
    BY <2>2, <2>3, <2>4
<1>6. ASSUME NEW c \in Callers, Kill(c) PROVE ServiceInv'
  <2>1. /\ UNCHANGED <<ask, target, client, instances, spawned, running, stdin, stdout, loaded>>
        /\ place[c] = "closing" /\ place' = [place EXCEPT ![c] = "ok"]
        /\ killed' = killed \cup {target[c]}
    BY <1>6 DEF Kill, Step
  <2>2. ServiceTypeOK'
    BY <1>0, <2>1 DEF ServiceTypeOK, Ends
  <2>3. CallerOK(c)'
    BY <1>0, <2>1 DEF ServiceTypeOK, CallersInv, CallerOK, Waiting
  <2>4. CallersInv'
    BY <1>0, <2>1, <2>3, CallMoves DEF Ends, Waiting
  <2> QED
    BY <1>0, <2>1, <2>2, <2>4, FramesMove DEF ServiceInv
<1>7. ASSUME NEW p \in Procs, Exit(p) PROVE ServiceInv'
  <2>1. /\ UNCHANGED <<ask, target, processState>> /\ client = p /\ p \notin running
        /\ client' = 0 /\ instances' = {} /\ running = {}
    BY <1>0, <1>7 DEF Exit
  <2>2. ASSUME NEW d \in Callers
        PROVE  /\ place'[d] \in Ends \cup {"start"}
               /\ place'[d] = "ok" => place[d] = "ok" \/ target[d] = p
    <3>1. CASE place[d] \notin Waiting
      <4>1. place'[d] = place[d] /\ place[d] \in Ends \cup {"start"}
        BY <1>0, <1>7, <3>1 DEF Exit, ServiceTypeOK, Waiting
      <4> QED
        BY <4>1
    <3>2. CASE place[d] \in Waiting
      <4>1. target[d] = p
        BY <1>0, <2>1, <3>2 DEF CallersInv, CallerOK
      <4>2. place'[d] \in {"ok", "failed"}
        BY <1>7, <3>2, <4>1 DEF Exit, Waiting
      <4> QED
        BY <4>1, <4>2 DEF Ends
    <3> QED
      BY <3>1, <3>2
  <2>3. place' \in [Callers -> Ends \cup {"start", "starting", "asked", "closing"}]
    BY <1>7, <2>2 DEF Exit
  <2>4. ServiceTypeOK'
    BY <1>0, <2>1, <2>3, ServiceBound DEF ServiceTypeOK, processState, Ends
  <2>5. CallersInv'
    BY <1>0, <2>1, <2>2 DEF CallersInv, CallerOK, Needs, processState, Ends, Waiting
  <2> QED
    BY <1>0, <2>1, <2>4, <2>5, FramesMove DEF ServiceInv, processState, ServiceTypeOK
<1>8. ASSUME NEW p \in Procs, Die(p) PROVE ServiceInv'
  <2>1. /\ UNCHANGED <<serviceState, spawned, killed, stdout, loaded>>
        /\ running' = running \ {p} /\ stdin' \subseteq stdin
    BY <1>8 DEF Die
  <2>2. ServiceTypeOK' /\ CallersInv'
    BY <1>0, <2>1 DEF ServiceTypeOK, CallersInv, CallerOK, Needs, serviceState
  <2> QED
    BY <1>0, <2>1, <2>2, FramesMove DEF ServiceInv, serviceState
<1>9. ASSUME NEW f \in stdin, NEW error \in BOOLEAN, Handle(f, error) PROVE ServiceInv'
  <2>1. /\ UNCHANGED <<serviceState, spawned, running, killed>> /\ FrameOK(f)
        /\ stdin' \subseteq stdin /\ stdout' \subseteq stdout \cup {<<f[1], f[2], error>>}
    BY <1>0, <1>9 DEF Handle, FramesInv
  <2>2. loaded' \in [Procs -> SUBSET Callers]
    BY <1>0, <1>9, <2>1 DEF Handle, ServiceTypeOK, FrameOK
  <2>3. ServiceTypeOK' /\ CallersInv'
    BY <1>0, <2>1, <2>2 DEF ServiceTypeOK, CallersInv, CallerOK, Needs, serviceState
  <2>4. FrameOK(<<f[1], f[2], error>>)
    BY <2>1 DEF FrameOK
  <2> QED
    BY <1>0, <2>1, <2>3, <2>4, FramesMove DEF ServiceInv, serviceState
<1>10. CASE ServiceDone
  BY <1>10, ServiceStutter DEF ServiceDone
<1> QED
  BY <1>1, <1>2, <1>3, <1>4, <1>5, <1>6, <1>7, <1>8, <1>9, <1>10 DEF ServiceNext

LEMMA ServiceSafe == ServiceInv => ServiceTypeOK /\ RuntimeAccounted
BY DEF ServiceInv, ServiceTypeOK, CallersInv, CallerOK, RuntimeAccounted

-----------------------------------------------------------------------------
(* The dev session.                                                         *)

\* Renders that have not raced: one at most, of the last bundle received, in a
\* session that is attached, alone in its directory; and between renders the
\* window shows what the last one has left.
QuietInv ==
    ~raced =>
        /\ Rendering \subseteq {received}
        /\ Rendering # {} => session = "attached"
        /\ \A n \in Bundles : render[n] = "write" =>
               dir = {<<f, n>> : f \in FilesOf[n] \ unwritten[n]}
        /\ view = "page" /\ Rendering = {} =>
               /\ page = received /\ commands = received
               /\ dir = {<<f, received>> : f \in FilesOf[received]}
        /\ session = "stopped" => view = "idle" /\ commands = 0
        /\ session = "none" => view # "page"

\* A build reads no older version than the last one to end.
BuildInv == reading # 0 => outcome <= reading

Messages == ({"reload"} \X (0 .. MaxEdits)) \cup {<<"error">>, <<"shutdown">>}
WireInv  == wire \in Seq(Messages)

SessionInv == SessionTypeOK /\ WireInv /\ BuildInv /\ QuietInv

WindowStep == \/ Attach \/ Reload \/ BuildError \/ EndSession
              \/ \E n \in Bundles : \/ RenderFails(n) \/ Wipe(n) \/ Show(n)
                                    \/ \E f \in FilesOf[n] : Write(n, f)

LEMMA InitWindow == WindowInit => WindowTypeOK /\ QuietInv
<1> SUFFICES ASSUME WindowInit PROVE WindowTypeOK /\ QuietInv
  OBVIOUS
<1>1. Rendering = {} /\ \A n \in Bundles : render[n] # "write"
  BY DEF WindowInit, Rendering
<1>2. WindowTypeOK
  <2>1. 0 \in 0 .. MaxReloads
    BY FilesAssumption
  <2> QED
    BY <2>1 DEF WindowInit, WindowTypeOK
<1>3. QuietInv
  BY <1>1 DEF WindowInit, QuietInv
<1> QED
  BY <1>2, <1>3

LEMMA StepWindowType == WindowTypeOK /\ WindowStep => WindowTypeOK'
<1> SUFFICES ASSUME WindowTypeOK, WindowStep PROVE WindowTypeOK'
  OBVIOUS
<1> USE DEF WindowTypeOK
<1>0. ASSUME NEW n \in Bundles PROVE FilesOf[n] \in SUBSET UNION {FilesOf[m] : m \in Bundles}
  OBVIOUS
<1>1. CASE Attach \/ BuildError \/ EndSession
  <2>1. /\ UNCHANGED <<received, render, unwritten, dir, page>>
        /\ session' \in {session, "attached", "stopped"} /\ commands' \in {commands, 0}
        /\ view' \in {"idle", "waiting", "error"} /\ raced' \in BOOLEAN
    BY <1>1 DEF Attach, BuildError, EndSession
  <2> QED
    BY <2>1, FilesAssumption
<1>2. CASE Reload
  BY <1>2, FilesAssumption DEF Reload, Bundles
<1>3. ASSUME NEW n \in Bundles, RenderFails(n) PROVE WindowTypeOK'
  BY <1>3 DEF RenderFails, Doing
<1>4. ASSUME NEW n \in Bundles, Wipe(n) PROVE WindowTypeOK'
  BY <1>0, <1>4 DEF Wipe, Doing
<1>5. ASSUME NEW n \in Bundles, NEW f \in FilesOf[n], Write(n, f) PROVE WindowTypeOK'
  <2>1. /\ render' = [render EXCEPT ![n] = "write"]
        /\ dir' = {x \in dir : x[1] # f} \cup {<<f, n>>}
        /\ unwritten' = [unwritten EXCEPT ![n] = unwritten[n] \ {f}]
        /\ UNCHANGED <<session, received, view, page, commands, raced>>
    BY <1>5 DEF Write, Doing
  <2>2. \A x \in dir' : x[2] \in Bundles /\ x[1] \in FilesOf[x[2]]
    BY <2>1
  <2> QED
    BY <2>1, <2>2
<1>6. ASSUME NEW n \in Bundles, Show(n) PROVE WindowTypeOK'
  <2>1. /\ render' = [render EXCEPT ![n] = "done"] /\ view' \in {"error", "page"}
        /\ page' = page \/ \E x \in dir : page' = x[2]
        /\ commands' \in {n, commands}
        /\ UNCHANGED <<session, received, unwritten, dir, raced>>
    BY <1>6 DEF Show, Doing
  <2>2. page' \in 0 .. MaxReloads /\ commands' \in 0 .. MaxReloads
    BY <2>1, FilesAssumption DEF Bundles
  <2> QED
    BY <2>1, <2>2
<1> QED
  BY <1>1, <1>2, <1>3, <1>4, <1>5, <1>6 DEF WindowStep

LEMMA StepQuiet == WindowTypeOK /\ QuietInv /\ WindowStep => QuietInv'
<1> SUFFICES ASSUME WindowTypeOK, QuietInv, WindowStep, ~raced' PROVE QuietInv'
  BY DEF QuietInv
<1> USE DEF QuietInv
<1>0. /\ render \in [Bundles -> {"none", "decode", "write", "done"}]
      /\ \A n \in Bundles : n \in Rendering <=> render[n] \in {"decode", "write"}
  BY DEF WindowTypeOK, Rendering
<1>1. CASE Attach
  BY <1>0, <1>1 DEF Attach, Rendering
<1>2. CASE BuildError
  BY <1>0, <1>2 DEF BuildError, Rendering
<1>3. CASE EndSession
  BY <1>0, <1>3 DEF EndSession, Rendering
<1>4. CASE Reload
  <2>1. /\ Rendering = {} /\ session = "attached" /\ session' = session /\ ~raced
        /\ received' \in Bundles /\ render' = [render EXCEPT ![received'] = "decode"]
    BY <1>4 DEF Reload, WindowTypeOK
  <2>2. Rendering' = {received'} /\ \A n \in Bundles : render'[n] # "write"
    BY <1>0, <2>1 DEF Rendering
  <2> QED
    BY <2>1, <2>2
<1>5. ASSUME NEW n \in Bundles, RenderFails(n) PROVE QuietInv'
  <2>1. /\ render[n] \in {"decode", "write"} /\ render' = [render EXCEPT ![n] = "done"]
        /\ view' = "error" /\ UNCHANGED <<session, received, dir, unwritten, commands, raced>>
    BY <1>5 DEF RenderFails, Doing
  <2>2. Rendering' \subseteq Rendering /\ n \in Rendering
        /\ \A m \in Bundles : render'[m] = "write" => render[m] = "write"
    BY <1>0, <2>1 DEF Rendering
  <2> QED
    BY <2>1, <2>2
<1>6. ASSUME NEW n \in Bundles, Wipe(n) PROVE QuietInv'
  <2>1. /\ render[n] = "decode" /\ render' = [render EXCEPT ![n] = "write"] /\ dir' = {}
        /\ unwritten' = [unwritten EXCEPT ![n] = FilesOf[n]]
        /\ UNCHANGED <<session, received, view, page, commands, raced>>
    BY <1>6 DEF Wipe, Doing
  <2>2. Rendering' = Rendering /\ n \in Rendering /\ n = received
    BY <1>0, <2>1 DEF Rendering
  <2>3. \A m \in Bundles : render'[m] = "write" => m = n
    BY <1>0, <2>1, <2>2
  <2>4. unwritten'[n] = FilesOf[n]
    BY <2>1 DEF WindowTypeOK
  <2> QED
    BY <2>1, <2>2, <2>3, <2>4
<1>7. ASSUME NEW n \in Bundles, NEW f \in FilesOf[n], Write(n, f) PROVE QuietInv'
  <2>1. /\ render[n] = "write" /\ render' = [render EXCEPT ![n] = "write"]
        /\ f \in unwritten[n] /\ dir' = {x \in dir : x[1] # f} \cup {<<f, n>>}
        /\ unwritten' = [unwritten EXCEPT ![n] = unwritten[n] \ {f}]
        /\ UNCHANGED <<session, received, view, page, commands, raced>>
    BY <1>7 DEF Write, Doing
  <2>2. Rendering' = Rendering /\ n \in Rendering /\ n = received /\ render' = render
    BY <1>0, <2>1 DEF Rendering
  <2>3. \A m \in Bundles : render'[m] = "write" => m = n
    <3>1. \A m \in Bundles : render[m] = "write" => m \in Rendering
      BY <1>0
    <3> QED
      BY <2>1, <2>2, <3>1
  <2>4. dir = {<<g, n>> : g \in FilesOf[n] \ unwritten[n]}
    BY <2>1
  <2>5. dir' = {<<g, n>> : g \in FilesOf[n] \ unwritten'[n]}
    <3>1. unwritten'[n] = unwritten[n] \ {f} /\ unwritten[n] \subseteq FilesOf[n]
      BY <2>1 DEF WindowTypeOK
    <3>2. \A x : x \in dir' <=> (x \in dir /\ x[1] # f) \/ x = <<f, n>>
      BY <2>1
    <3>3. \A x : x \in dir <=> \E g \in FilesOf[n] \ unwritten[n] : x = <<g, n>>
      BY <2>4
    <3>4. \A g : <<g, n>>[1] = g
      OBVIOUS
    <3>5. \A x : x \in dir' <=> \E g \in FilesOf[n] \ unwritten'[n] : x = <<g, n>>
      BY <2>1, <3>1, <3>2, <3>3, <3>4
    <3> QED
      BY <3>5
  <2> QED
    BY <2>1, <2>2, <2>3, <2>5
<1>8. ASSUME NEW n \in Bundles, Show(n) PROVE QuietInv'
  <2>1. /\ render[n] = "write" /\ render' = [render EXCEPT ![n] = "done"]
        /\ unwritten[n] = {} /\ UNCHANGED <<session, received, unwritten, dir, raced>>
    BY <1>8 DEF Show, Doing
  <2>2. /\ Rendering' = {} /\ n = received /\ session = "attached"
        /\ \A m \in Bundles : render'[m] # "write"
    BY <1>0, <2>1 DEF Rendering
  <2>3. dir = {<<g, n>> : g \in FilesOf[n]}
    BY <2>1, <2>2
  <2>4. view' = "page" => page' = n /\ commands' = n
    <3>1. \A x \in dir : x[2] = n
      BY <2>3
    <3> QED
      BY <1>8, <2>2, <3>1 DEF Show
  <2> QED
    BY <2>1, <2>2, <2>3, <2>4
<1> QED
  BY <1>1, <1>2, <1>3, <1>4, <1>5, <1>6, <1>7, <1>8 DEF WindowStep

LEMMA WindowStutter == UNCHANGED windowVars => (WindowTypeOK /\ QuietInv => WindowTypeOK' /\ QuietInv')
BY DEF windowVars, WindowTypeOK, QuietInv, Rendering

ServerStep == Edit \/ Scanned \/ Reported \/ Rebuild \/ ReadSources \/ (\E b \in BOOLEAN : BuildEnds(b))
              \/ Listen \/ Connect \/ Disconnect \/ Stop \/ Close

\* The versions a server knows, apart from its flags.
VersionsInv ==
    /\ sources \in 1 .. MaxEdits /\ due \in 1 .. sources
    /\ reading \in 0 .. sources /\ outcome \in 0 .. sources /\ state \in 0 .. outcome
    /\ BuildInv

ServerFlags ==
    /\ watching \in BOOLEAN /\ changed \in BOOLEAN /\ timer \in BOOLEAN
    /\ building \in BOOLEAN /\ pendingRebuild \in BOOLEAN
    /\ server \in {"starting", "binding", "up", "stopping", "down"}
    /\ socket \in {"none", "open", "closed"}

LEMMA ServerParts == ServerTypeOK /\ BuildInv <=> (VersionsInv /\ ServerFlags)
BY DEF ServerTypeOK, VersionsInv, ServerFlags

LEMMA InitServer == ServerInit => ServerTypeOK /\ BuildInv
<1>1. ServerInit => VersionsInv
  BY EditsAssumption DEF ServerInit, VersionsInv, BuildInv
<1>2. ServerInit => ServerFlags
  BY DEF ServerInit, ServerFlags
<1> QED
  BY <1>1, <1>2, ServerParts

LEMMA StepVersions == VersionsInv /\ ServerStep => VersionsInv'
<1> SUFFICES ASSUME VersionsInv, ServerStep PROVE VersionsInv'
  OBVIOUS
<1> USE EditsAssumption DEF VersionsInv, BuildInv
<1>1. CASE Edit
  <2>1. /\ sources < MaxEdits /\ sources' = sources + 1 /\ (due' = sources' \/ due' = due)
        /\ UNCHANGED <<reading, outcome, state>>
    BY <1>1 DEF Edit, buildState
  <2> QED
    BY <2>1
<1>2. CASE ReadSources
  <2>1. /\ reading' = sources /\ UNCHANGED <<sources, due, outcome, state>>
    BY <1>2 DEF ReadSources, watchState
  <2> QED
    BY <2>1
<1>3. ASSUME NEW b \in BOOLEAN, BuildEnds(b) PROVE VersionsInv'
  <2>1. /\ reading # 0 /\ reading' = 0 /\ outcome' = reading
        /\ (state' = reading \/ state' = state) /\ UNCHANGED <<sources, due>>
    BY <1>3 DEF BuildEnds, watchState
  <2> QED
    BY <2>1
<1>4. CASE Scanned \/ Reported \/ Rebuild \/ Listen \/ Connect \/ Disconnect \/ Stop \/ Close
  <2>1. UNCHANGED <<sources, due, reading, outcome, state>>
    BY <1>4 DEF Scanned, Reported, Rebuild, Listen, Connect, Disconnect, Stop, Close,
                watchState, buildState
  <2> QED
    BY <2>1
<1> QED
  BY <1>1, <1>2, <1>3, <1>4 DEF ServerStep

LEMMA StepFlags == ServerFlags /\ ServerStep => ServerFlags'
<1> SUFFICES ASSUME ServerFlags, ServerStep PROVE ServerFlags'
  OBVIOUS
<1> USE DEF ServerFlags
<1>1. CASE Edit
  <2>1. changed' \in {TRUE, changed}
    BY <1>1 DEF Edit
  <2> QED
    BY <1>1, <2>1, Zenon DEF Edit, buildState, wireState
<1>2. CASE Scanned \/ Reported
  BY <1>2, Zenon DEF Scanned, Reported, buildState, wireState
<1>3. CASE Rebuild \/ ReadSources
  BY <1>3, Zenon DEF Rebuild, ReadSources, watchState, wireState
<1>4. ASSUME NEW b \in BOOLEAN, BuildEnds(b) PROVE ServerFlags'
  <2>1. server' \in {"binding", server}
    BY <1>4 DEF BuildEnds
  <2>2. /\ building' = pendingRebuild /\ pendingRebuild' = FALSE
        /\ UNCHANGED <<watching, changed, timer, socket>>
    BY <1>4, Zenon DEF BuildEnds, watchState
  <2> QED
    BY <2>1, <2>2
<1>5. CASE Listen \/ Connect \/ Disconnect \/ Stop \/ Close
  BY <1>5, Zenon DEF Listen, Connect, Disconnect, Stop, Close, watchState, buildState
<1> QED
  BY <1>1, <1>2, <1>3, <1>4, <1>5 DEF ServerStep

LEMMA StepServer == ServerTypeOK /\ BuildInv /\ ServerStep => ServerTypeOK' /\ BuildInv'
<1>1. VersionsInv' /\ ServerFlags' => ServerTypeOK' /\ BuildInv'
  BY DEF ServerTypeOK, VersionsInv, ServerFlags
<1> QED
  BY <1>1, ServerParts, StepVersions, StepFlags

LEMMA ServerStutter ==
    UNCHANGED serverVars => (ServerTypeOK /\ BuildInv => ServerTypeOK' /\ BuildInv')
BY DEF serverVars, watchState, buildState, wireState, ServerTypeOK, BuildInv

LEMMA MessageTypes ==
    /\ \A v \in 0 .. MaxEdits : <<"reload", v>> \in Messages
    /\ <<"error">> \in Messages /\ <<"shutdown">> \in Messages
    /\ \A m \in Messages : /\ m[1] \in {"reload", "error", "shutdown"}
                           /\ m[1] = "reload" => m[2] \in 0 .. MaxEdits
BY DEF Messages

LEMMA WireTypes ==
    /\ WireInv => \A i \in DOMAIN wire : wire[i][1] \in {"reload", "error", "shutdown"}
    /\ WireInv' => \A i \in DOMAIN wire' : wire'[i][1] \in {"reload", "error", "shutdown"}
BY MessageTypes DEF WireInv

LEMMA InitSession == SessionInit => SessionInv
<1> SUFFICES ASSUME SessionInit PROVE SessionInv
  OBVIOUS
<1>1. WireInv /\ madeFrom \in [Bundles -> 0 .. MaxEdits]
  BY EditsAssumption DEF SessionInit, WireInv
<1> QED
  BY <1>1, WireTypes, InitServer, InitWindow DEF SessionInit, SessionInv, SessionTypeOK

LEMMA StepSession == SessionInv /\ SessionNext => SessionInv'
<1> SUFFICES ASSUME SessionInv, SessionNext PROVE SessionInv'
  OBVIOUS
<1>0. /\ ServerTypeOK /\ BuildInv /\ WindowTypeOK /\ QuietInv /\ WireInv
      /\ madeFrom \in [Bundles -> 0 .. MaxEdits]
  BY DEF SessionInv, SessionTypeOK
<1>1. CASE ServerSteps
  <2>1. UNCHANGED <<windowVars, madeFrom>>
    BY <1>1 DEF ServerSteps
  <2>2. ServerStep
    BY <1>1 DEF ServerSteps, ServerStep, Build, Accept, Shutdown
  <2>3. \/ wire' = wire
        \/ \E m \in Messages : wire' = Append(wire, m)
    <3>1. state \in 0 .. MaxEdits /\ reading \in 0 .. MaxEdits
      BY <1>0, EditsAssumption DEF ServerTypeOK
    <3> QED
      BY <1>1, <3>1, MessageTypes DEF ServerSteps, Build, Accept, Shutdown, Sends
  <2>4. WireInv'
    BY <1>0, <2>3 DEF WireInv
  <2> QED
    BY <1>0, <2>1, <2>2, <2>4, StepServer, WindowStutter, WireTypes
       DEF SessionInv, SessionTypeOK
<1>2. CASE WindowSteps
  <2>1. WindowStep \/ UNCHANGED windowVars
    BY <1>2 DEF WindowSteps, WindowStep, ReloadArrives, ErrorArrives, ShutdownArrives, UserStops,
                Renders
  <2>2. UNCHANGED serverVars \/ UserStops
    BY <1>2 DEF WindowSteps, ReloadArrives, ErrorArrives, ShutdownArrives, Renders
  <2>3. ServerTypeOK' /\ BuildInv'
    <3>1. CASE UserStops
      BY <1>0, <3>1 DEF UserStops, watchState, buildState, ServerTypeOK, BuildInv
    <3> QED
      BY <1>0, <2>2, <3>1, ServerStutter
  <2>4. \/ wire' = wire
        \/ wire # <<>> /\ wire' = Tail(wire)
    BY <1>2 DEF WindowSteps, ReloadArrives, ErrorArrives, ShutdownArrives, UserStops,
                Renders, Arrives
  <2>5. WireInv'
    BY <1>0, <2>4 DEF WireInv
  <2>6. madeFrom' \in [Bundles -> 0 .. MaxEdits]
    <3>1. CASE ReloadArrives
      <4>1. wire # <<>> /\ Head(wire)[1] = "reload"
            /\ madeFrom' = [madeFrom EXCEPT ![received'] = Head(wire)[2]]
        BY <3>1 DEF ReloadArrives, Arrives
      <4>2. Head(wire) \in Messages
        BY <1>0, <4>1 DEF WireInv
      <4> QED
        BY <1>0, <4>1, <4>2, MessageTypes
    <3> QED
      BY <1>0, <1>2, <3>1 DEF WindowSteps, ErrorArrives, ShutdownArrives, UserStops, Renders
  <2> QED
    BY <1>0, <2>1, <2>3, <2>5, <2>6, StepWindowType, StepQuiet, WindowStutter, WireTypes
       DEF SessionInv, SessionTypeOK
<1>3. CASE UNCHANGED sessionVars
  BY <1>0, <1>3, ServerStutter, WindowStutter, WireTypes
     DEF sessionVars, SessionInv, SessionTypeOK, WireInv
<1> QED
  BY <1>1, <1>2, <1>3 DEF SessionNext, SessionGone

LEMMA SessionSafe == SessionInv => SessionTypeOK /\ ShownIsWhole
<1>1. QuietInv => ShownIsWhole
  BY DEF QuietInv, ShownIsWhole
<1> QED
  BY <1>1 DEF SessionInv

-----------------------------------------------------------------------------
(* The host.                                                                *)

HostInv == part \in Parts /\ ComponentInv /\ ServiceInv /\ SessionInv

LEMMA HostInvariant == Spec => []HostInv
<1>1. Init => HostInv
  BY InitComponents, InitService, InitSession DEF Init, HostInv
<1>2. HostInv /\ [Next]_vars => HostInv'
  <2> SUFFICES ASSUME HostInv, [Next]_vars PROVE HostInv'
    OBVIOUS
  <2>1. part' = part
    BY DEF Next, Components, Service, Session, vars
  <2>2. \/ ComponentNext \/ UNCHANGED componentVars
    BY DEF Next, Components, Service, Session, vars
  <2>3. \/ ServiceNext \/ UNCHANGED serviceVars
    BY DEF Next, Components, Service, Session, vars
  <2>4. \/ SessionNext \/ UNCHANGED sessionVars
    BY DEF Next, Components, Service, Session, vars
  <2>5. UNCHANGED sessionVars /\ SessionInv => SessionInv'
    BY ServerStutter, WindowStutter, WireTypes DEF sessionVars, SessionInv, SessionTypeOK, WireInv
  <2> QED
    BY <2>1, <2>2, <2>3, <2>4, <2>5, StepComponents, StepService, ServiceStutter, StepSession
       DEF HostInv
<1> QED
  BY <1>1, <1>2, PTL DEF Spec

\* For any number of commands that overlap in any way, what the map has for an
\* extension is a component of it that has activated and can be called; after
\* commands one at a time, no component is left over, however it failed.
THEOREM ComponentsAccountedHolds == Spec => []ComponentsAccounted
BY HostInvariant, ComponentsSafe, PTL DEF HostInv

\* For any number of calls and processes: the service knows every process it has
\* spawned that is still there, lists only instances of the process it talks to,
\* and does not return from dispose before the process it found is gone.
THEOREM RuntimeAccountedHolds == Spec => []RuntimeAccounted
BY HostInvariant, ServiceSafe, PTL DEF HostInv

\* For any number of reloads and any bundles: unless renders have overlapped, a
\* page that is shown is whole, the last one received, and with its commands.
THEOREM ShownIsWholeHolds == Spec => []ShownIsWhole
BY HostInvariant, SessionSafe, PTL DEF HostInv

\* The parts of the host keep their types.
THEOREM HostTypeCorrect == Spec => []TypeOK
<1>1. HostInv => TypeOK
  BY ComponentsSafe, ServiceSafe, SessionSafe DEF HostInv, TypeOK
<1> QED
  BY <1>1, HostInvariant, PTL
=============================================================================
