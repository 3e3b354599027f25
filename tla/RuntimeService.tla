--------------------------- MODULE RuntimeService ---------------------------
(***************************************************************************)
(* How the VS Code host runs the oxp-runtime process                       *)
(* (hosts/vscode/src/runtime-rpc-service.ts): it is spawned when a call    *)
(* needs it, greeted with initialize, and its death is learnt from the     *)
(* exit event.  Calls interleave at every await.  The client of the        *)
(* process is RpcClient; here an answer settles the call it answers, a     *)
(* deadline may pass at any time, and the exit event fails what is open.   *)
(*                                                                         *)
(* proc and rpc are set and cleared together, and the promise in starting  *)
(* is overtaken by rpc before anybody can see it: one variable stands for  *)
(* the three.  An instance is named by the call that has loaded it.        *)
(***************************************************************************)
EXTENDS Naturals, FiniteSets

CONSTANTS
    Callers,    \* calls of the service
    CallLists,  \* what those calls may be, functions on Callers
    MaxProcs    \* bound on the processes spawned

Requests == {"load", "activate", "deactivate", "command"}

ASSUME ServiceCalls ==
    \A w \in CallLists :
        /\ DOMAIN w = Callers
        /\ \A c \in Callers : w[c].kind \in Requests \cup {"unload", "event", "dispose"}
ASSUME ServiceBound == MaxProcs \in Nat \ {0}

VARIABLES
    ask,        \* what each call is
    place,      \* where it is, or how it ended
    target,     \* the process it talks to, 0 while it has none
    client,     \* the process the service has a client for, or 0
    instances,  \* instances the service lists
    spawned,    \* processes spawned so far
    running,    \* those that are still there
    killed,     \* those that were sent SIGKILL
    stdin,      \* frames a process has not handled: <<call, method>>
    stdout,     \* answers the client has not read: <<call, method, error>>
    loaded      \* instances each process has

serviceState == <<ask, place, target, client, instances>>
processState == <<spawned, running, killed, stdin, stdout, loaded>>
serviceVars  == <<serviceState, processState>>

Procs == 1 .. MaxProcs
Ends  == {"ok", "failed"}

ServiceInit ==
    /\ ask \in CallLists
    /\ place = [c \in Callers |-> "start"]
    /\ target = [c \in Callers |-> 0]
    /\ client = 0 /\ instances = {}
    /\ spawned = 0 /\ running = {} /\ killed = {}
    /\ stdin = {} /\ stdout = {}
    /\ loaded = [p \in Procs |-> {}]

Step(c, here, next) == place[c] = here /\ place' = [place EXCEPT ![c] = next]

\* What is written to a process that is gone is lost.
Written(c, p, method) == IF p \in running THEN stdin \cup {<<c, method>>} ELSE stdin

-----------------------------------------------------------------------------
(* The service.                                                             *)

Needs(c) == ask[c].kind \in Requests \cup {"unload"}

\* ensureStarted: a client is used as it is, whether or not initialize has been
\* answered; without one a process is spawned, unless there is no binary.
NoBinary(c) ==
    /\ Needs(c) /\ client = 0
    /\ Step(c, "start", "failed")
    /\ UNCHANGED <<ask, target, client, instances, processState>>

Spawn(c) ==
    /\ Needs(c) /\ client = 0
    /\ spawned < MaxProcs
    /\ Step(c, "start", "starting")
    /\ spawned' = spawned + 1
    /\ running' = running \cup {spawned'}
    /\ client' = spawned'
    /\ target' = [target EXCEPT ![c] = spawned']
    /\ stdin' = stdin \cup {<<c, "initialize">>}
    /\ UNCHANGED <<ask, instances, killed, stdout, loaded>>

\* What a call does with the client of process p.
Use(c, p, here) ==
    /\ target' = [target EXCEPT ![c] = p]
    /\ stdin' = Written(c, p, ask[c].kind)
    /\ IF ask[c].kind = "unload"
         THEN Step(c, here, "ok") /\ instances' = instances \ {ask[c].instance}
         ELSE Step(c, here, "asked") /\ UNCHANGED instances
    /\ UNCHANGED <<ask, client, spawned, running, killed, loaded>>

UseClient(c) == Needs(c) /\ client # 0 /\ Use(c, client, "start") /\ UNCHANGED stdout

\* sendEvent does not start a process.
SendEvent(c) ==
    /\ ask[c].kind = "event"
    /\ Step(c, "start", "ok")
    /\ target' = [target EXCEPT ![c] = client]
    /\ stdin' = Written(c, client, "event")
    /\ UNCHANGED <<ask, client, instances, spawned, running, killed, stdout, loaded>>

\* An answer settles the request that is open; a late one is dropped.
Awaits(m) == \/ m[2] = "initialize" /\ place[m[1]] = "starting"
             \/ m[2] # "initialize" /\ place[m[1]] = "asked"

Settle(m) ==
    /\ m \in stdout
    /\ stdout' = stdout \ {m}
    /\ LET c == m[1] IN
       CASE ~Awaits(m) -> UNCHANGED <<serviceState, spawned, running, killed, stdin, loaded>>
         [] Awaits(m) /\ m[2] = "initialize" -> Use(c, target[c], "starting")
         [] Awaits(m) /\ m[2] = "shutdown" ->
              /\ Step(c, "asked", "closing")
              /\ UNCHANGED <<ask, target, client, instances, spawned, running, killed, stdin, loaded>>
         [] OTHER ->
              /\ Step(c, "asked", IF m[3] THEN "failed" ELSE "ok")
              /\ instances' = IF m[2] = "load" /\ ~m[3] THEN instances \cup {c} ELSE instances
              /\ UNCHANGED <<ask, target, client, spawned, running, killed, stdin, loaded>>

\* The deadline of a request.  The client of a process that has not answered
\* initialize stays.
Expire(c) ==
    /\ place[c] \in {"starting", "asked"}
    /\ place' = [place EXCEPT ![c] = IF ask[c].kind = "dispose" THEN "closing" ELSE "failed"]
    /\ UNCHANGED <<ask, target, client, instances, processState>>

\* dispose: shutdown, exit and the end of stdin, and then the exit or a kill.
Dispose(c) ==
    /\ ask[c].kind = "dispose"
    /\ target' = [target EXCEPT ![c] = client]
    /\ IF client = 0
         THEN Step(c, "start", "ok") /\ UNCHANGED stdin
         ELSE Step(c, "start", "asked") /\ stdin' = Written(c, client, "shutdown")
    /\ UNCHANGED <<ask, client, instances, spawned, running, killed, stdout, loaded>>

\* The signal is sent, and nobody waits for it to arrive.
Kill(c) ==
    /\ Step(c, "closing", "ok")
    /\ killed' = killed \cup {target[c]}
    /\ UNCHANGED <<ask, target, client, instances, spawned, running, stdin, stdout, loaded>>

ExitKeepsInstances(p) ==
    /\ p \notin running
    /\ client = p /\ p # 0
    /\ client' = 0
    /\ place' = [c \in Callers |->
           IF target[c] # p \/ place[c] \notin {"starting", "asked", "closing"} THEN place[c]
           ELSE IF ask[c].kind = "dispose" THEN "ok" ELSE "failed"]
    /\ UNCHANGED <<ask, target, instances, processState>>
\* The exit event: nothing of the process is kept, and what waits for it is told.
Exit(p) ==
    /\ p \notin running
    /\ client = p /\ p # 0
    /\ client' = 0
    /\ instances' = {}
    /\ place' = [c \in Callers |->
           IF target[c] # p \/ place[c] \notin {"starting", "asked", "closing"} THEN place[c]
           ELSE IF ask[c].kind = "dispose" THEN "ok" ELSE "failed"]
    /\ UNCHANGED <<ask, target, processState>>

-----------------------------------------------------------------------------
(* The process: Runtime, as far as the service can tell.                    *)

\* Frames are handled in any order; those of a process that died are gone.  A
\* request about an extension may fail, and does when the instance is unknown.
Handle(f, error) ==
    LET c == f[1]
        p == target[c]
        unknown == f[2] \in Requests \ {"load"} /\ ask[c].instance \notin loaded[p]
    IN  /\ f \in stdin /\ p \in running
        /\ unknown => error
        /\ error => f[2] \in Requests
        /\ stdin' = stdin \ {f}
        /\ loaded' = CASE f[2] = "load" /\ ~error -> [loaded EXCEPT ![p] = @ \cup {c}]
                       [] f[2] = "unload"         -> [loaded EXCEPT ![p] = @ \ {ask[c].instance}]
                       [] OTHER                   -> loaded
        /\ stdout' = IF f[2] \in {"unload", "event"} THEN stdout
                                              ELSE stdout \cup {<<c, f[2], error>>}
        /\ UNCHANGED <<serviceState, spawned, running, killed>>

\* It may die at any time, and does so when its stdin has ended.
Die(p) ==
    /\ p \in running
    /\ running' = running \ {p}
    /\ stdin' = {f \in stdin : target[f[1]] # p}
    /\ UNCHANGED <<serviceState, spawned, killed, stdout, loaded>>

ServiceDone == (\A c \in Callers : place[c] \in Ends) /\ UNCHANGED serviceVars

ServiceNext ==
    \/ \E c \in Callers : \/ NoBinary(c) \/ Spawn(c) \/ UseClient(c) \/ SendEvent(c)
                          \/ Expire(c) \/ Dispose(c) \/ Kill(c)
    \/ \E m \in stdout : Settle(m)
    \/ \E f \in stdin, error \in BOOLEAN : Handle(f, error)
    \/ \E p \in Procs : Exit(p) \/ Die(p)
    \/ ServiceDone

-----------------------------------------------------------------------------
(* Properties.                                                              *)

ServiceTypeOK ==
    /\ ask \in CallLists
    /\ place \in [Callers -> Ends \cup {"start", "starting", "asked", "closing"}]
    /\ target \in [Callers -> 0 .. MaxProcs] /\ client \in 0 .. MaxProcs
    /\ instances \subseteq Callers
    /\ spawned \in 0 .. MaxProcs /\ running \subseteq 1 .. spawned
    /\ killed \subseteq 0 .. MaxProcs
    /\ loaded \in [Procs -> SUBSET Callers]

\* Whatever calls overlap, time out or are cut short by the death of a process:
\* the service knows every process it has spawned that is still there, an
\* instance it lists was loaded by the process it talks to and not by an earlier
\* one, and dispose does not return before the process it found is gone or has
\* been sent SIGKILL.
RuntimeAccounted ==
    /\ running \subseteq {client}
    /\ \A i \in instances : target[i] = client /\ client # 0
    /\ \A c \in Callers : (ask[c].kind = "dispose" /\ place[c] = "ok") =>
           target[c] \notin running \ killed
=============================================================================
