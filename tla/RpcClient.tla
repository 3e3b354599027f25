------------------------------ MODULE RpcClient ------------------------------
(***************************************************************************)
(* The JSON-RPC client of a host over the stdio of the oxp-runtime         *)
(* process: hosts/jetbrains/.../protocol/RpcClient.kt and its mirror       *)
(* hosts/vscode/src/rpc-client.ts.  Both number their requests from 1, as  *)
(* the runtime numbers the calls of its components, and each keeps a map   *)
(* from the ids of open requests to their callers.                         *)
(*                                                                         *)
(* The runtime is RpcContract, which Runtime implements, together with the *)
(* calls of components.  A pipe is a sequence of whole frames, and a write *)
(* does not block.  An answer is the same whether it carries a result or   *)
(* an error.  Requests are initialize, loads, and the exports of a loaded  *)
(* component (activate, command, deactivate).  Notifications of either     *)
(* side carry no id and are left out, but for the export an event enters.  *)
(* Bounds: MaxRequests requests, MaxCalls calls of components.             *)
(***************************************************************************)
EXTENDS Naturals, Sequences, FiniteSets

CONSTANTS
    Client,      \* "jetbrains" or "vscode"
    MaxRequests,
    MaxCalls

ASSUME ClientAssumption == Client \in {"jetbrains", "vscode"}
ASSUME BoundAssumption  == MaxRequests \in Nat /\ MaxCalls \in Nat

VARIABLES
    \* the client
    nextId,    \* id of the next request
    method,    \* what each request asks for
    caller,    \* what the caller of each request is doing
    pending,   \* ids in the map
    deferred,  \* what the promise of each request was completed with
    got,       \* what its caller got
    reader,    \* "reading", or "ended" with the stream
    answering, \* calls of the runtime whose handler is running
    \* the pipes
    stdin, stdout,
    \* the runtime
    open, answered, link, \* see RpcContract
    calls,     \* calls of components so far
    replied,   \* calls the runtime has had an answer to
    expired,   \* calls whose component waits no longer
    since      \* the last request made before each call

client  == <<nextId, method, caller, pending, deferred, got, reader, answering>>
runtime == <<open, answered, link, calls, replied, expired, since>>
vars    == <<client, stdin, stdout, runtime>>

Ids     == 1 .. MaxRequests
Methods == {"initialize", "load", "export"}
CallIds == 1 .. MaxCalls

Peer == INSTANCE RpcContract WITH Frames <- Ids

Threaded == Client = "jetbrains"
Alive    == link = "up"

Frame   == [kind : {"request", "response"}, id : Ids]
             \cup [kind : {"call", "reply"}, id : CallIds]
Nothing == [by |-> "none"]
Timeout == [by |-> "timeout"]
Closed  == [by |-> "closed"]
Outcome == [by : {"none", "timeout", "closed"}] \cup [by : {"frame"}, frame : Frame]

Init ==
    /\ nextId = 1
    /\ method = [q \in Ids |-> "none"]
    /\ caller = [q \in Ids |-> "idle"]
    /\ pending = {}
    /\ deferred = [q \in Ids |-> Nothing]
    /\ got = [q \in Ids |-> Nothing]
    /\ reader = "reading" /\ answering = {}
    /\ stdin = <<>> /\ stdout = <<>>
    /\ Peer!Init
    /\ calls = 0 /\ replied = {} /\ expired = {}
    /\ since = [c \in CallIds |-> 0]

-----------------------------------------------------------------------------
(* Requests.                                                                *)

\* VS Code runs a request, a chunk of stdout or a timer to its end before the
\* next: no other step of the client comes between Register and Send.
Free == Threaded \/ \A q \in Ids : caller[q] # "sending"

ResponseTo(q) == [kind |-> "response", id |-> q]
AnswerTo(q)   == [by |-> "frame", frame |-> ResponseTo(q)]

\* Whoever starts the process requests initialize at once.  Whoever finds the
\* client may load, before the answer too, and only the answer to a load names
\* an instance to run.
MayAsk(q, m) ==
    /\ m = "initialize" <=> q = 1
    /\ m = "export" => \E p \in Ids : method[p] = "load" /\ got[p] = AnswerTo(p)

\* request takes an id and enters it in the map ...
Register(q, m) ==
    /\ Free
    /\ q = nextId /\ q \in Ids
    /\ MayAsk(q, m)
    /\ nextId' = nextId + 1
    /\ method' = [method EXCEPT ![q] = m]
    /\ caller' = [caller EXCEPT ![q] = "sending"]
    /\ pending' = pending \cup {q}
    /\ UNCHANGED <<deferred, got, reader, answering, stdin, stdout, runtime>>

\* ... and writes the frame.  What is written to a process that is gone is
\* lost; in Java the write throws.
Send(q) ==
    /\ caller[q] = "sending"
    /\ Alive \/ ~Threaded
    /\ caller' = [caller EXCEPT ![q] = "waiting"]
    /\ stdin' = IF Alive THEN Append(stdin, [kind |-> "request", id |-> q]) ELSE stdin
    /\ UNCHANGED <<nextId, method, pending, deferred, got, reader, answering, stdout, runtime>>

LeaveEntry(q, r) ==
    /\ caller' = [caller EXCEPT ![q] = "returned"]
    /\ got' = [got EXCEPT ![q] = r]
    /\ pending' = IF r = Timeout THEN pending ELSE pending \ {q}
\* The caller goes on with outcome r; the finally block of requestRaw, or the
\* code that settles the promise, drops the map entry.
Leave(q, r) ==
    /\ caller' = [caller EXCEPT ![q] = "returned"]
    /\ got' = [got EXCEPT ![q] = r]
    /\ pending' = pending \ {q}

SendFails(q) ==
    /\ caller[q] = "sending"
    /\ Threaded /\ ~Alive
    /\ Leave(q, Closed)
    /\ UNCHANGED <<nextId, method, deferred, reader, answering, stdin, stdout, runtime>>

Return(q) ==
    /\ Free
    /\ caller[q] = "waiting"
    /\ deferred[q] # Nothing
    /\ Leave(q, deferred[q])
    /\ UNCHANGED <<nextId, method, deferred, reader, answering, stdin, stdout, runtime>>

\* The deadline passes.  VS Code clears the timer when it settles the promise;
\* withTimeout may win over an answer that has come but not been picked up.
Expire(q) ==
    /\ Free
    /\ caller[q] = "waiting"
    /\ Threaded \/ q \in pending
    /\ Leave(q, Timeout)
    /\ UNCHANGED <<nextId, method, deferred, reader, answering, stdin, stdout, runtime>>

-----------------------------------------------------------------------------
(* The reader of stdout.                                                    *)

ByIdAlone(f) == TRUE
ByResult(f) == f.kind = "reply"
\* RpcClient.kt takes a frame for an answer when it has an id and no method,
\* rpc-client.ts when it has an id.
IsAnswer(f) == f.kind = "response" \/ ~Threaded

\* stdout is read until it ends; the events of a Node process come in any
\* order, so that output may follow the exit.
Reading == Free /\ (reader = "reading" \/ ~Threaded) /\ stdout # <<>>

\* An answer takes the entry out of the map and completes its promise; one
\* whose id is not there comes too late and is dropped.
Settle ==
    /\ Reading
    /\ IsAnswer(Head(stdout))
    /\ stdout' = Tail(stdout)
    /\ LET f == Head(stdout) IN
         /\ pending' = pending \ {f.id}
         /\ deferred' = [q \in Ids |->
              IF q = f.id /\ q \in pending /\ deferred[q] = Nothing
              THEN [by |-> "frame", frame |-> f] ELSE deferred[q]]
    /\ UNCHANGED <<nextId, method, caller, got, reader, answering, stdin, runtime>>

\* A call of the runtime is handled by a coroutine of its own ...
Serve ==
    /\ Reading
    /\ ~IsAnswer(Head(stdout))
    /\ stdout' = Tail(stdout)
    /\ answering' = answering \cup {Head(stdout).id}
    /\ UNCHANGED <<nextId, method, caller, pending, deferred, got, reader, stdin, runtime>>

\* ... that writes the answer, unless the process is gone.
Reply(c) ==
    /\ c \in answering
    /\ answering' = answering \ {c}
    /\ stdin' = IF Alive THEN Append(stdin, [kind |-> "reply", id |-> c]) ELSE stdin
    /\ UNCHANGED <<nextId, method, caller, pending, deferred, got, reader, stdout, runtime>>

\* Where the reader of RpcClient.kt sees the end of the stream.
ExitSeen == ~Alive
AtEnd == ~Alive /\ stdout = <<>>

FailNone == {}
Failed == {q \in pending : deferred[q] = Nothing}

\* The stream has ended: whoever is in the map is told so.  The reader of
\* RpcClient.kt leaves the entries to their callers; failAll clears the map,
\* once when the process exits and once when its stdout ends.
StreamEnds ==
    /\ Free
    /\ ~Alive
    /\ IF Threaded THEN reader = "reading" /\ AtEnd
                   ELSE reader = "reading" \/ pending # {}
    /\ reader' = "ended"
    /\ deferred' = [q \in Ids |-> IF q \in Failed THEN Closed ELSE deferred[q]]
    /\ pending' = IF Threaded THEN pending ELSE {}
    /\ UNCHANGED <<nextId, method, caller, got, answering, stdin, stdout, runtime>>

-----------------------------------------------------------------------------
(* The runtime.                                                             *)

Accept ==
    /\ Alive /\ stdin # <<>>
    /\ stdin' = Tail(stdin)
    /\ LET f == Head(stdin) IN
       \/ f.kind = "request" /\ Peer!Accept(f.id) /\ UNCHANGED replied
       \/ /\ f.kind = "reply"
          /\ replied' = replied \cup {f.id}
          /\ UNCHANGED <<open, answered, link>>
    /\ UNCHANGED <<client, stdout, calls, expired, since>>

\* An export may be refused, and so answered, while its component waits.
Answer(q) ==
    /\ Peer!Answer(q)
    /\ stdout' = Append(stdout, [kind |-> "response", id |-> q])
    /\ UNCHANGED <<client, stdin, calls, replied, expired, since>>

Loaded  == {q \in answered : method[q] = "load"}
Entered == {q \in open \cup answered : method[q] = "export"}
Waiting == 1 .. calls \ (replied \cup expired)

\* A loaded component is inside an export and its worker does not wait for a
\* call: it runs the export of an open request, or has done so before and now
\* runs that of an event, which comes from what it rendered then, by a
\* notification that leaves nothing open.
InsideExport == /\ Cardinality(Waiting) < Cardinality(Entered)
                /\ Cardinality(Waiting) < Cardinality(Loaded)

\* A component inside an export calls the host.  The ids of calls are the
\* runtime's own, whichever component makes them.
Call ==
    /\ Alive
    /\ InsideExport
    /\ calls < MaxCalls
    /\ calls' = calls + 1
    /\ stdout' = Append(stdout, [kind |-> "call", id |-> calls + 1])
    /\ since' = [since EXCEPT ![calls + 1] = nextId - 1]
    /\ UNCHANGED <<client, stdin, open, answered, link, replied, expired>>

\* The worker gives up, after 30 seconds or more.  The timers of requests are of
\* 15 at most in VS Code and of 30 in Java: an older request is over by then.
GiveUp(c) ==
    /\ Alive
    /\ c \in Waiting
    /\ \A q \in 1 .. since[c] : caller[q] = "returned"
    /\ expired' = expired \cup {c}
    /\ UNCHANGED <<client, stdin, stdout, open, answered, link, calls, replied, since>>

\* The process ends: killed at any time, or by itself with nothing open.
Gone ==
    /\ Peer!Break \/ Peer!Close
    /\ UNCHANGED <<client, stdin, stdout, calls, replied, expired, since>>

-----------------------------------------------------------------------------
Done == /\ \A q \in Ids : caller[q] = "returned"
        /\ ~Alive /\ reader = "ended" /\ answering = {}
        /\ UNCHANGED vars

Next ==
    \/ \E q \in Ids, m \in Methods : Register(q, m)
    \/ \E q \in Ids : Send(q) \/ SendFails(q) \/ Return(q) \/ Expire(q)
    \/ Settle \/ Serve \/ (\E c \in CallIds : Reply(c)) \/ StreamEnds
    \/ Accept \/ (\E q \in Ids : Answer(q)) \/ Gone
    \/ Call \/ (\E c \in CallIds : GiveUp(c))
    \/ Done

Spec == Init /\ [][Next]_vars

\* The threads of the client run, the handlers of a host return, and a runtime
\* that lives reads its stdin and answers (EveryRequestAnswered of Runtime).
\* No timer is assumed to fire, and no request, call or exit to happen.
FairSpec ==
    /\ Spec
    /\ \A q \in Ids : WF_vars(Send(q)) /\ WF_vars(SendFails(q)) /\ WF_vars(Return(q))
    /\ WF_vars(Settle) /\ WF_vars(Serve) /\ WF_vars(StreamEnds) /\ WF_vars(Accept)
    /\ \A c \in CallIds : WF_vars(Reply(c))
    /\ \A q \in Ids : WF_vars(Answer(q))

-----------------------------------------------------------------------------
(* Properties.                                                              *)

\* The client, the pipes and the runtime keep their types, and what the client
\* answers are calls that were made.
TypeOK ==
    /\ nextId \in 1 .. MaxRequests + 1
    /\ method \in [Ids -> Methods \cup {"none"}]
    /\ caller \in [Ids -> {"idle", "sending", "waiting", "returned"}]
    /\ pending \subseteq Ids
    /\ deferred \in [Ids -> Outcome] /\ got \in [Ids -> Outcome]
    /\ reader \in {"reading", "ended"} /\ answering \subseteq 1 .. calls
    /\ stdin \in Seq(Frame) /\ stdout \in Seq(Frame)
    /\ open \subseteq Ids /\ answered \subseteq Ids
    /\ link \in {"up", "broken", "closed"}
    /\ calls \in 0 .. MaxCalls /\ replied \subseteq CallIds /\ expired \subseteq CallIds
    /\ since \in [CallIds -> 0 .. MaxRequests]

\* What settles a request is the runtime's answer to that very request: never
\* the answer to an earlier one that has timed out, and never a call of a
\* component that happens to carry the same id.
SettledByOwnAnswer ==
    \A q \in Ids :
        /\ deferred[q].by = "frame" =>
              deferred[q].frame = [kind |-> "response", id |-> q] /\ q \in answered
        /\ got[q].by = "frame" => got[q] = deferred[q]

\* The map holds callers that are still there and no others, and a caller that
\* nobody has an outcome for can still be reached through it.
PendingMatchesOpen ==
    \A q \in Ids :
        /\ q \in pending => caller[q] \in {"sending", "waiting"}
        /\ (caller[q] = "waiting" /\ deferred[q] = Nothing) => q \in pending

\* A request that was answered while the process lived is not reported to its
\* caller as a closed channel: what is on stdout is read before the end.
AnswerBeatsClose ==
    \A q \in answered : got[q] # Closed

\* Every request that was made is settled: by its answer while the runtime
\* lives, and by the end of the stream when it dies, whatever the order of the
\* registration, the write, the death and the end.  The timer is not needed.
EveryRequestSettles ==
    \A q \in Ids : caller[q] = "sending" ~> caller[q] = "returned"

\* Every call of a component is answered as long as the runtime lives.
CallsAnswered ==
    \A c \in CallIds : calls >= c ~> (c \in replied \/ ~Alive)
=============================================================================
