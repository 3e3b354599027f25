------------------------------- MODULE Runtime -------------------------------
(***************************************************************************)
(* The oxp-runtime process (runtime/src): a reader loop on stdin that      *)
(* spawns one concurrent task per JSON-RPC frame, the state those tasks    *)
(* share under one mutex, one worker task per loaded extension with a      *)
(* bounded queue of calls, the calls a component makes back into the host, *)
(* and a single writer task that drains a bounded channel to stdout.       *)
(*                                                                         *)
(* Frames are numbered in the order they are read, and the number of a     *)
(* frame names its task.  The worker of an extension is named by the frame *)
(* that loaded it.  What the host writes to stdin is chosen when it is     *)
(* read: any frame a host could have sent given what it has seen on stdout.*)
(* A step that runs under the state mutex, or between two awaits of one    *)
(* task, is one action.                                                    *)
(*                                                                         *)
(* Bounds: MaxFrames frames are read, and one export of a component makes  *)
(* at most MaxImports calls to the host before it returns (wasm.rs sets no *)
(* fuel or epoch limit: that an export returns is an assumption).          *)
(***************************************************************************)
EXTENDS Naturals, Sequences, FiniteSets

CONSTANTS
    Exts,       \* extensions a host may load, each with its version
    Hash,       \* the 16-bit hash of <extension id>:<version> in instance ids
    Caps,       \* capability strings of the handshake
    MaxFrames,  \* bound on the frames read from stdin
    MaxImports, \* bound on the host calls one export makes
    QueueCap,   \* capacity of a worker's queue (16 in wasm.rs)
    OutCap,     \* capacity of the outbound channel (64 in server.rs)
    IdWrap,     \* period of the counter in instance ids (256 in extension.rs)
    Script      \* the kinds of frame the host may send as its n-th frame

ASSUME HashAssumption  == Hash \in [Exts -> Nat]
ASSUME BoundAssumption == MaxFrames \in Nat /\ MaxImports \in Nat
ASSUME CapAssumption   == QueueCap \in Nat \ {0} /\ OutCap \in Nat \ {0}
ASSUME WrapAssumption  == IdWrap \in Nat \ {0}
ASSUME ScriptAssumption == Script \in [1 .. MaxFrames -> SUBSET STRING]

VARIABLES
    \* the reader loop and the tasks it spawns
    reader,         \* control state of serve_stdio
    nread,          \* frames read so far
    frame,          \* what each frame carries
    pc,             \* control state of the task of each frame
    target,         \* worker whose handle the task holds, or 0
    number,         \* value a load took from the instance counter
    holds,          \* oneshot sender a response task took out of the map
    \* state::Inner and the instance counter
    handshake, instances, activated, exitRequested, shutdownRequested,
    nextCallback, pending, counter,
    \* workers
    worker, queue, serving, used, callId, channel, ran,
    \* the outbound channel and the writer
    outbound, writer, written

tasks     == <<reader, nread, frame, pc, target, number, holds>>
inner     == <<handshake, instances, activated, exitRequested,
               shutdownRequested, nextCallback, pending, counter>>
workers   == <<worker, queue, serving, used, callId, channel, ran>>
transport == <<outbound, writer, written>>
vars      == <<tasks, inner, workers, transport>>

-----------------------------------------------------------------------------
Frames      == 1 .. MaxFrames
FrameOrNone == 0 .. MaxFrames
InstanceIds == {Hash[x] : x \in Exts} \X (0 .. IdWrap - 1)

\* A question is one host call of a component: the call being served and the
\* ordinal of the import.  It stands for the oneshot pair of the call.
Questions  == Frames \X (1 .. MaxImports)
NoQuestion == <<0, 0>>

InstanceCalls == {"activate", "command", "deactivate", "event"}
InstanceNotes == {"unload", "reload", "grant"}

NoFrame == [kind |-> "none"]
Frame ==
    [kind : {"none", "shutdown", "exit", "malformed", "unknown"}]
      \cup [kind : {"initialize"}, compatible : BOOLEAN, caps : SUBSET Caps]
      \cup [kind : {"load"}, ext : Exts, requires : SUBSET Caps]
      \cup [kind : InstanceCalls \cup InstanceNotes, inst : InstanceIds]
      \cup [kind : {"response"}, id : Nat, question : Questions]

\* Frames that get an answer: requests, and frames that do not parse.
Answerable == {"initialize", "load", "activate", "command", "deactivate",
               "shutdown", "unknown", "malformed"}

Message ==
    [kind : {"note", "shutdown"}]
      \cup [kind : {"response"}, of : Frames, ok : BOOLEAN]
      \cup [kind : {"call"}, id : Nat, question : Questions]

\* Control points of a handler: between spawn and end it is instantiating a
\* component, about to insert the instance, enqueue a call or a Shutdown, awaiting
\* a reply, about to set a flag, to deliver an answer, or to push its response.
TaskStates ==
    {"unread", "start", "instantiate", "insert", "send", "await", "flag_ok",
     "flag_err", "stop", "deliver", "answer_ok", "answer_err", "done"}

\* A worker is in recv, inside an export, about to send a host call, awaiting
\* the answer to one, or out of its loop.
WorkerStates == {"none", "idle", "running", "calling", "waiting", "gone"}

IdWithoutCounter(t) == <<Hash[frame[t].ext], 0>>
IdOf(t) == <<Hash[frame[t].ext], number[t] % IdWrap>>

Read(t)       == t <= nread
Finished(t)   == pc[t] = "done"
HasResponse(t, S) == \E m \in S : m.kind = "response" /\ m.of = t

Init ==
    /\ reader = "reading"
    /\ nread = 0
    /\ frame  = [t \in Frames |-> NoFrame]
    /\ pc     = [t \in Frames |-> "unread"]
    /\ target = [t \in Frames |-> 0]
    /\ number = [t \in Frames |-> 0]
    /\ holds  = [t \in Frames |-> NoQuestion]
    /\ handshake = {}
    /\ instances = [i \in InstanceIds |-> 0]
    /\ activated = [i \in InstanceIds |-> FALSE]
    /\ exitRequested = FALSE
    /\ shutdownRequested = FALSE
    /\ nextCallback = 1
    /\ pending = {}
    /\ counter = 0
    /\ worker  = [w \in Frames |-> "none"]
    /\ queue   = [w \in Frames |-> <<>>]
    /\ serving = [w \in Frames |-> 0]
    /\ used    = [w \in Frames |-> 0]
    /\ callId  = [w \in Frames |-> 0]
    /\ channel = [w \in Frames |-> NoQuestion]
    /\ ran     = [w \in Frames |-> FALSE]
    /\ outbound = <<>>
    /\ writer   = "writing"
    /\ written  = {}

-----------------------------------------------------------------------------
(* The outbound channel: mpsc::channel(64) with one consumer.               *)

OutboundClosed == writer # "writing"
OutboundReady  == OutboundClosed \/ Len(outbound) < OutCap

\* tx.send(m): waits for room; on a closed channel the message is lost.
Push(m) ==
    /\ OutboundReady
    /\ outbound' = IF OutboundClosed THEN outbound ELSE Append(outbound, m)

\* The writer takes one message and writes it to stdout, or stops.
WriterWrite ==
    /\ writer = "writing"
    /\ outbound # <<>>
    /\ outbound' = Tail(outbound)
    /\ CASE Head(outbound).kind = "shutdown" ->
                writer' = "stopped" /\ UNCHANGED written
         [] Head(outbound).kind = "note" -> UNCHANGED <<writer, written>>
         [] OTHER -> /\ written' = written \cup {Head(outbound)}
                     /\ UNCHANGED writer
    /\ UNCHANGED <<tasks, inner, workers>>

\* stdout fails while a message is written: the writer breaks out of its loop,
\* the receiver is dropped and with it everything queued.
WriterFail ==
    /\ writer = "writing"
    /\ outbound # <<>>
    /\ Head(outbound).kind # "shutdown"
    /\ writer' = "failed"
    /\ outbound' = <<>>
    /\ UNCHANGED <<written, tasks, inner, workers>>

-----------------------------------------------------------------------------
(* The reader loop.                                                         *)

\* Instance ids the host has been told, and host calls it has not answered.
Loaded ==
    {t \in Frames : /\ frame[t].kind = "load"
                    /\ [kind |-> "response", of |-> t, ok |-> TRUE] \in written}
KnownIds == {IdOf(t) : t \in Loaded}
OpenCalls ==
    {m \in written : /\ m.kind = "call"
                     /\ \A t \in Frames : frame[t].kind = "response"
                                            => frame[t].question # m.question}

\* A complete frame f: a task is spawned for it.
Spawn(f) ==
    /\ reader = "reading"
    /\ nread < MaxFrames
    /\ f.kind \in Script[nread + 1]
    /\ nread' = nread + 1
    /\ frame' = [frame EXCEPT ![nread + 1] = f]
    /\ pc' = [pc EXCEPT ![nread + 1] = "start"]
    /\ reader' = "checking"
    /\ UNCHANGED <<target, number, holds, inner, workers, transport>>

ReadControl(k) == Spawn([kind |-> k])
ReadInitialize == \E b \in BOOLEAN, c \in SUBSET Caps :
                     Spawn([kind |-> "initialize", compatible |-> b, caps |-> c])
ReadLoad       == \E x \in Exts, c \in SUBSET Caps :
                     Spawn([kind |-> "load", ext |-> x, requires |-> c])
ReadForInstance(k) == \E i \in KnownIds : Spawn([kind |-> k, inst |-> i])
ReadResponse   == \E m \in OpenCalls :
                     Spawn([kind |-> "response", id |-> m.id,
                            question |-> m.question])

\* Some task may hold the state mutex: a handler, or a worker at a host call.
Contended == \/ \E t \in Frames : Read(t) /\ ~Finished(t)
             \/ \E w \in Frames : worker[w] \in {"running", "waiting"}

\* should_exit: the flag is read with try_lock, and contention reads as false.
CheckExit ==
    /\ reader = "checking"
    /\ \/ exitRequested /\ reader' = "draining"
       \/ (exitRequested => Contended) /\ reader' = "reading"
    /\ UNCHANGED <<nread, frame, pc, target, number, holds,
                   inner, workers, transport>>

\* End of input, or a read error.
CloseInput ==
    /\ reader = "reading"
    /\ reader' = "draining"
    /\ UNCHANGED <<nread, frame, pc, target, number, holds,
                   inner, workers, transport>>

DrainedAtOnce ==
    /\ reader = "draining"
    /\ Push([kind |-> "shutdown"])
    /\ reader' = "joining"
    /\ UNCHANGED <<nread, frame, pc, target, number, holds,
                   inner, workers, writer, written>>

\* Every handler has finished: stop the writer behind what is queued.
Drained ==
    /\ reader = "draining"
    /\ \A t \in Frames : Read(t) => Finished(t)
    /\ Push([kind |-> "shutdown"])
    /\ reader' = "joining"
    /\ UNCHANGED <<nread, frame, pc, target, number, holds,
                   inner, workers, writer, written>>

ExitUnjoined ==
    /\ reader = "joining"
    /\ reader' = "exited"
    /\ UNCHANGED <<nread, frame, pc, target, number, holds,
                   inner, workers, transport>>

Exit ==
    /\ reader = "joining"
    /\ writer # "writing"
    /\ reader' = "exited"
    /\ UNCHANGED <<nread, frame, pc, target, number, holds,
                   inner, workers, transport>>

-----------------------------------------------------------------------------
(* Handler tasks.                                                           *)

\* Task t moves from one control point to another.
Step(t, from, to) == pc[t] = from /\ pc' = [pc EXCEPT ![t] = to]

Outcome(ok) == IF ok THEN "answer_ok" ELSE "answer_err"

\* spawn_handler: push the response of a finished request, and end.
Respond(t) ==
    /\ pc[t] \in {"answer_ok", "answer_err"}
    /\ Push([kind |-> "response", of |-> t, ok |-> pc[t] = "answer_ok"])
    /\ pc' = [pc EXCEPT ![t] = "done"]
    /\ UNCHANGED <<reader, nread, frame, target, number, holds,
                   inner, workers, writer, written>>

\* An unknown method, or a frame that is not a JSON-RPC message.
Reject(t) ==
    /\ frame[t].kind \in {"unknown", "malformed"}
    /\ Step(t, "start", "answer_err")
    /\ UNCHANGED <<reader, nread, frame, target, number, holds,
                   inner, workers, transport>>

\* handle_initialize: refuse another major version, else record the host.
Initialize(t) ==
    /\ frame[t].kind = "initialize"
    /\ Step(t, "start", Outcome(frame[t].compatible))
    /\ handshake' = IF frame[t].compatible THEN {frame[t].caps} ELSE handshake
    /\ UNCHANGED <<reader, nread, frame, target, number, holds, instances,
                   activated, exitRequested, shutdownRequested, nextCallback,
                   pending, counter, workers, transport>>

\* handle_shutdown: a flag, and the answer at once.
Shutdown(t) ==
    /\ frame[t].kind = "shutdown"
    /\ Step(t, "start", "answer_ok")
    /\ shutdownRequested' = TRUE
    /\ UNCHANGED <<reader, nread, frame, target, number, holds, handshake,
                   instances, activated, exitRequested, nextCallback, pending,
                   counter, workers, transport>>

\* handle_exit: a flag the reader looks at after the next frame.
ExitNotice(t) ==
    /\ frame[t].kind = "exit"
    /\ Step(t, "start", "done")
    /\ exitRequested' = TRUE
    /\ UNCHANGED <<reader, nread, frame, target, number, holds, handshake,
                   instances, activated, shutdownRequested, nextCallback,
                   pending, counter, workers, transport>>

\* handle_load up to the first await of spawn_worker: the handshake must be
\* there and advertise what the bundle requires, the bundle path must resolve,
\* and the counter gives the id.
LoadBegin(t) ==
    /\ frame[t].kind = "load"
    /\ \/ /\ \E caps \in handshake : frame[t].requires \subseteq caps
          /\ Step(t, "start", "instantiate")
          /\ number' = [number EXCEPT ![t] = counter]
          /\ counter' = counter + 1
       \/ /\ Step(t, "start", "answer_err")
          /\ UNCHANGED <<number, counter>>
    /\ UNCHANGED <<reader, nread, frame, target, holds, handshake, instances,
                   activated, exitRequested, shutdownRequested, nextCallback,
                   pending, workers, transport>>

\* spawn_worker: the component cannot be read, decoded or instantiated, or
\* its worker starts.
LoadInstantiate(t) ==
    /\ \/ /\ Step(t, "instantiate", "insert")
          /\ worker' = [worker EXCEPT ![t] = "idle"]
          /\ target' = [target EXCEPT ![t] = t]
       \/ /\ Step(t, "instantiate", "answer_err")
          /\ UNCHANGED <<worker, target>>
    /\ UNCHANGED <<reader, nread, frame, number, holds, inner, queue, serving,
                   used, callId, channel, ran, transport>>

\* The instance enters the map; a previous entry with the id is replaced.
LoadInsert(t) ==
    /\ Step(t, "insert", "answer_ok")
    /\ instances' = [instances EXCEPT ![IdOf(t)] = t]
    /\ activated' = [activated EXCEPT ![IdOf(t)] = FALSE]
    /\ target' = [target EXCEPT ![t] = 0]
    /\ UNCHANGED <<reader, nread, frame, number, holds, handshake,
                   exitRequested, shutdownRequested, nextCallback, pending,
                   counter, workers, transport>>

\* What a handler does once its call on a worker has failed to be served.
AfterDrop(t) == IF frame[t].kind = "event" THEN "done" ELSE "answer_err"

\* ... and once the worker has replied.
FlagBeforeResult(t, ok) ==
    CASE frame[t].kind = "activate"   -> "flag_ok"
      [] frame[t].kind = "deactivate" -> IF ok THEN "flag_ok" ELSE "flag_err"
      [] frame[t].kind = "event"      -> "done"
      [] OTHER                        -> Outcome(ok)
AfterReply(t, ok) ==
    CASE frame[t].kind = "activate"   -> IF ok THEN "flag_ok" ELSE "answer_err"
      [] frame[t].kind = "deactivate" -> IF ok THEN "flag_ok" ELSE "flag_err"
      [] frame[t].kind = "event"      -> "done"
      [] OTHER                        -> Outcome(ok)

\* snapshot: clone the worker's handle out of the map.
Snapshot(t) ==
    /\ frame[t].kind \in InstanceCalls
    /\ LET w == instances[frame[t].inst]
       IN  /\ Step(t, "start", IF w = 0 THEN AfterDrop(t) ELSE "send")
           /\ target' = [target EXCEPT ![t] = w]
    /\ UNCHANGED <<reader, nread, frame, number, holds, inner, workers,
                   transport>>

SendCallRetries(t) ==
    LET w == target[t] IN
    /\ pc[t] = "send"
    /\ \/ /\ worker[w] # "gone"
          /\ Len(queue[w]) < QueueCap
          /\ queue' = [queue EXCEPT ![w] = Append(@, t)]
          /\ pc' = [pc EXCEPT ![t] = "await"]
       \/ worker[w] = "gone" /\ UNCHANGED <<queue, pc>>
    /\ UNCHANGED <<reader, nread, frame, target, number, holds, inner, worker,
                   serving, used, callId, channel, ran, transport>>

\* WorkerHandle::activate, command, event, deactivate: enqueue the call, or
\* find the worker gone.
SendCall(t) ==
    LET w == target[t] IN
    /\ pc[t] = "send"
    /\ \/ /\ worker[w] # "gone"
          /\ Len(queue[w]) < QueueCap
          /\ queue' = [queue EXCEPT ![w] = Append(@, t)]
          /\ pc' = [pc EXCEPT ![t] = "await"]
          /\ UNCHANGED target
       \/ /\ worker[w] = "gone"
          /\ pc' = [pc EXCEPT ![t] = AfterDrop(t)]
          /\ target' = [target EXCEPT ![t] = 0]
          /\ UNCHANGED queue
    /\ UNCHANGED <<reader, nread, frame, number, holds, inner, worker, serving,
                   used, callId, channel, ran, transport>>

\* handle_activate and handle_deactivate after the reply: the flag of whatever
\* instance has the id now.
SetActivated(t) ==
    LET i == frame[t].inst IN
    /\ pc[t] \in {"flag_ok", "flag_err"}
    /\ pc' = [pc EXCEPT ![t] = Outcome(pc[t] = "flag_ok")]
    /\ activated' = [activated EXCEPT
                        ![i] = instances[i] # 0 /\ frame[t].kind = "activate"]
    /\ target' = [target EXCEPT ![t] = 0]
    /\ UNCHANGED <<reader, nread, frame, number, holds, handshake, instances,
                   exitRequested, shutdownRequested, nextCallback, pending,
                   counter, workers, transport>>

\* handle_unload: take the instance out of the map ...
Unload(t) ==
    LET i == frame[t].inst IN
    /\ frame[t].kind = "unload"
    /\ Step(t, "start", IF instances[i] = 0 THEN "done" ELSE "stop")
    /\ target' = [target EXCEPT ![t] = instances[i]]
    /\ instances' = [instances EXCEPT ![i] = 0]
    /\ activated' = [activated EXCEPT ![i] = FALSE]
    /\ UNCHANGED <<reader, nread, frame, number, holds, handshake,
                   exitRequested, shutdownRequested, nextCallback, pending,
                   counter, workers, transport>>

StopWorkerLeaks(t) ==
    /\ Step(t, "stop", "done")
    /\ UNCHANGED <<reader, nread, frame, target, number, holds, inner, workers,
                   transport>>

\* ... and queue a Shutdown (the number 0) behind the calls already there.
StopWorker(t) ==
    LET w == target[t] IN
    /\ Step(t, "stop", "done")
    /\ \/ /\ worker[w] # "gone"
          /\ Len(queue[w]) < QueueCap
          /\ queue' = [queue EXCEPT ![w] = Append(@, 0)]
       \/ worker[w] = "gone" /\ UNCHANGED queue
    /\ target' = [target EXCEPT ![t] = 0]
    /\ UNCHANGED <<reader, nread, frame, number, holds, inner, worker, serving,
                   used, callId, channel, ran, transport>>

\* handle_reload only looks the instance up; handle_grant edits a permission
\* list nothing reads.
Ignore(t) ==
    /\ frame[t].kind \in {"reload", "grant"}
    /\ Step(t, "start", "done")
    /\ UNCHANGED <<reader, nread, frame, target, number, holds, inner, workers,
                   transport>>

\* handle_inbound_response: take the sender registered under the id ...
TakeCallback(t) ==
    /\ frame[t].kind = "response"
    /\ LET found == {p \in pending : p.id = frame[t].id} IN
       /\ Step(t, "start", IF found = {} THEN "done" ELSE "deliver")
       /\ holds' = [holds EXCEPT ![t] = IF found = {} THEN NoQuestion
                                        ELSE (CHOOSE p \in found : TRUE).question]
       /\ pending' = pending \ found
    /\ UNCHANGED <<reader, nread, frame, target, number, handshake, instances,
                   activated, exitRequested, shutdownRequested, nextCallback,
                   counter, workers, transport>>

\* The question worker w waits on.
QuestionBefore(w) == <<serving[w], used[w] - 1>>
Question(w) == <<serving[w], used[w]>>
Asking(w)   == worker[w] \in {"calling", "waiting"}

\* ... and send the payload to it.  A receiver that timed out is gone.
Deliver(t) ==
    /\ Step(t, "deliver", "done")
    /\ channel' = [w \in Frames |->
                      IF Asking(w) /\ Question(w) = holds[t]
                        THEN frame[t].question ELSE channel[w]]
    /\ holds' = [holds EXCEPT ![t] = NoQuestion]
    /\ UNCHANGED <<reader, nread, frame, target, number, inner, worker, queue,
                   serving, used, callId, ran, transport>>

-----------------------------------------------------------------------------
(* Workers: one task per component, one export at a time.                   *)

Up == reader # "exited"

ReceiveStrands(w) ==
    /\ Up
    /\ worker[w] = "idle"
    /\ queue[w] # <<>>
    /\ worker' = [worker EXCEPT ![w] = IF Head(queue[w]) = 0 THEN "gone"
                                                            ELSE "running"]
    /\ serving' = [serving EXCEPT ![w] = Head(queue[w])]
    /\ queue' = [queue EXCEPT ![w] = Tail(@)]
    /\ UNCHANGED <<tasks, inner, used, callId, channel, ran, transport>>

\* recv: the next call, or Shutdown.  Leaving the loop drops the queue, and the
\* handlers behind it see their reply dropped.
Receive(w) ==
    /\ Up
    /\ worker[w] = "idle"
    /\ queue[w] # <<>>
    /\ \/ /\ Head(queue[w]) # 0
          /\ worker' = [worker EXCEPT ![w] = "running"]
          /\ serving' = [serving EXCEPT ![w] = Head(queue[w])]
          /\ queue' = [queue EXCEPT ![w] = Tail(@)]
          /\ UNCHANGED <<pc, target>>
       \/ /\ Head(queue[w]) = 0
          /\ worker' = [worker EXCEPT ![w] = "gone"]
          /\ queue' = [queue EXCEPT ![w] = <<>>]
          /\ LET dropped == {t \in Frames : pc[t] = "await" /\ target[t] = w}
             IN  /\ pc' = [t \in Frames |->
                             IF t \in dropped THEN AfterDrop(t) ELSE pc[t]]
                 /\ target' = [t \in Frames |->
                                 IF t \in dropped THEN 0 ELSE target[t]]
          /\ UNCHANGED serving
    /\ UNCHANGED <<reader, nread, frame, number, holds, inner, used, callId,
                   channel, ran, transport>>

\* recv returns None once every handle has been dropped.
Abandon(w) ==
    /\ Up
    /\ worker[w] = "idle"
    /\ queue[w] = <<>>
    /\ \A i \in InstanceIds : instances[i] # w
    /\ \A t \in Frames : target[t] # w
    /\ worker' = [worker EXCEPT ![w] = "gone"]
    /\ UNCHANGED <<tasks, inner, queue, serving, used, callId, channel, ran,
                   transport>>

\* A fire-and-forget import: log, ui.render, ui.set_status.
Notify(w) ==
    /\ worker[w] = "running"
    /\ used[w] < MaxImports
    /\ Push([kind |-> "note"])
    /\ used' = [used EXCEPT ![w] = @ + 1]
    /\ UNCHANGED <<tasks, inner, worker, queue, serving, callId, channel, ran,
                   writer, written>>

Forget(id) == {p \in pending : p.id # id}

AllocateSameId(w) ==
    /\ worker[w] = "running"
    /\ used[w] < MaxImports
    /\ worker' = [worker EXCEPT ![w] = "calling"]
    /\ used' = [used EXCEPT ![w] = @ + 1]
    /\ callId' = [callId EXCEPT ![w] = 1]
    /\ pending' = Forget(1) \cup {[id |-> 1,
                                  question |-> <<serving[w], used[w] + 1>>]}
    /\ UNCHANGED <<tasks, handshake, instances, activated, exitRequested,
                   shutdownRequested, nextCallback, counter, queue, serving,
                   channel, ran, transport>>

\* HostRpc::allocate: a fresh id, and the sender registered under it.
Allocate(w) ==
    /\ worker[w] = "running"
    /\ used[w] < MaxImports
    /\ worker' = [worker EXCEPT ![w] = "calling"]
    /\ used' = [used EXCEPT ![w] = @ + 1]
    /\ callId' = [callId EXCEPT ![w] = nextCallback]
    /\ nextCallback' = nextCallback + 1
    /\ pending' = Forget(nextCallback)
                    \cup {[id |-> nextCallback,
                           question |-> <<serving[w], used[w] + 1>>]}
    /\ UNCHANGED <<tasks, handshake, instances, activated, exitRequested,
                   shutdownRequested, counter, queue, serving, channel, ran,
                   transport>>

\* A host import of the component (wasm.rs): fire and forget, or a round trip.
Import(w) == Notify(w) \/ Allocate(w)

\* The request goes out, or the channel is closed and the entry is cleaned up.
CallHost(w) ==
    /\ worker[w] = "calling"
    /\ Push([kind |-> "call", id |-> callId[w], question |-> Question(w)])
    /\ worker' = [worker EXCEPT
                    ![w] = IF OutboundClosed THEN "running" ELSE "waiting"]
    /\ callId' = [callId EXCEPT ![w] = IF OutboundClosed THEN 0 ELSE @]
    /\ pending' = IF OutboundClosed THEN Forget(callId[w]) ELSE pending
    /\ channel' = [channel EXCEPT ![w] = IF OutboundClosed THEN NoQuestion ELSE @]
    /\ UNCHANGED <<tasks, handshake, instances, activated, exitRequested,
                   shutdownRequested, nextCallback, counter, queue, serving,
                   used, ran, writer, written>>

\* The answer arrives ...
Answered(w) ==
    /\ worker[w] = "waiting"
    /\ channel[w] # NoQuestion
    /\ worker' = [worker EXCEPT ![w] = "running"]
    /\ callId' = [callId EXCEPT ![w] = 0]
    /\ channel' = [channel EXCEPT ![w] = NoQuestion]
    /\ UNCHANGED <<tasks, inner, queue, serving, used, ran, transport>>

TimeoutLeaks(w) ==
    /\ worker[w] = "waiting"
    /\ channel[w] = NoQuestion
    /\ worker' = [worker EXCEPT ![w] = "running"]
    /\ callId' = [callId EXCEPT ![w] = 0]
    /\ UNCHANGED <<tasks, inner, queue, serving, used, channel, ran, transport>>

NoTimeout(w) == worker[w] = "waiting" /\ UNCHANGED vars

\* ... or the deadline passes first, and the entry is removed.
Timeout(w) ==
    /\ worker[w] = "waiting"
    /\ channel[w] = NoQuestion
    /\ worker' = [worker EXCEPT ![w] = "running"]
    /\ callId' = [callId EXCEPT ![w] = 0]
    /\ pending' = Forget(callId[w])
    /\ UNCHANGED <<tasks, handshake, instances, activated, exitRequested,
                   shutdownRequested, nextCallback, counter, queue, serving,
                   used, channel, ran, transport>>

\* The export returns (ok), or returns an error or traps; the handler gets the
\* reply.
Return(w, ok) ==
    LET t == serving[w] IN
    /\ worker[w] = "running"
    /\ worker' = [worker EXCEPT ![w] = "idle"]
    /\ serving' = [serving EXCEPT ![w] = 0]
    /\ used' = [used EXCEPT ![w] = 0]
    /\ ran' = [ran EXCEPT ![w] = @ \/ (ok /\ frame[t].kind = "activate")]
    /\ pc' = [pc EXCEPT ![t] = AfterReply(t, ok)]
    /\ target' = [target EXCEPT ![t] = IF AfterReply(t, ok) \in {"flag_ok", "flag_err"}
                                         THEN @ ELSE 0]
    /\ UNCHANGED <<reader, nread, frame, number, holds, inner, queue, callId,
                   channel, transport>>

-----------------------------------------------------------------------------
ReaderStep ==
    \/ \E k \in {"shutdown", "exit", "malformed", "unknown"} : ReadControl(k)
    \/ ReadInitialize
    \/ ReadLoad
    \/ \E k \in InstanceCalls \cup InstanceNotes : ReadForInstance(k)
    \/ ReadResponse
    \/ CheckExit
    \/ CloseInput
    \/ Drained
    \/ Exit

TaskStep(t) ==
    \/ Reject(t) \/ Initialize(t) \/ Shutdown(t) \/ ExitNotice(t)
    \/ LoadBegin(t) \/ LoadInstantiate(t) \/ LoadInsert(t)
    \/ Snapshot(t) \/ SendCall(t) \/ SetActivated(t)
    \/ Unload(t) \/ StopWorker(t) \/ Ignore(t)
    \/ TakeCallback(t) \/ Deliver(t)
    \/ Respond(t)

WorkerStep(w) ==
    \/ Receive(w) \/ Abandon(w)
    \/ Import(w) \/ CallHost(w) \/ Answered(w) \/ Timeout(w)
    \/ \E ok \in BOOLEAN : Return(w, ok)

Stopped == reader = "exited" /\ UNCHANGED vars

Next ==
    \/ ReaderStep
    \/ \E t \in Frames : TaskStep(t)
    \/ \E w \in Frames : WorkerStep(w)
    \/ WriterWrite \/ WriterFail
    \/ Stopped

\* The runtime's own steps are taken: tokio polls a ready task, a timer fires,
\* an export returns, and the host keeps reading stdout.  Nothing obliges the
\* host to send a frame, to answer a call or to close stdin.
Fairness ==
    /\ WF_vars(CheckExit) /\ WF_vars(Drained) /\ WF_vars(Exit)
    /\ WF_vars(WriterWrite)
    /\ \A t \in Frames : WF_vars(TaskStep(t))
    /\ \A w \in Frames : WF_vars(WorkerStep(w))

Spec     == Init /\ [][Next]_vars
FairSpec == Spec /\ Fairness

-----------------------------------------------------------------------------
(* Properties.                                                              *)

TasksTypeOK ==
    /\ reader \in {"reading", "checking", "draining", "joining", "exited"}
    /\ nread \in 0 .. MaxFrames
    /\ frame \in [Frames -> Frame]
    /\ pc \in [Frames -> TaskStates]
    /\ target \in [Frames -> FrameOrNone]
    /\ number \in [Frames -> Nat]
    /\ holds \in [Frames -> Questions \cup {NoQuestion}]

InnerTypeOK ==
    /\ handshake \in SUBSET (SUBSET Caps)
    /\ instances \in [InstanceIds -> FrameOrNone]
    /\ activated \in [InstanceIds -> BOOLEAN]
    /\ exitRequested \in BOOLEAN /\ shutdownRequested \in BOOLEAN
    /\ nextCallback \in Nat
    /\ pending \in SUBSET [id : Nat, question : Questions]
    /\ counter \in Nat

WorkersTypeOK ==
    /\ worker \in [Frames -> WorkerStates]
    /\ queue \in [Frames -> Seq(FrameOrNone)]
    /\ serving \in [Frames -> FrameOrNone]
    /\ used \in [Frames -> 0 .. MaxImports]
    /\ callId \in [Frames -> Nat]
    /\ channel \in [Frames -> Questions \cup {NoQuestion}]
    /\ ran \in [Frames -> BOOLEAN]

TransportTypeOK ==
    /\ outbound \in Seq(Message)
    /\ writer \in {"writing", "failed", "stopped"}
    /\ written \in SUBSET Message

\* Every variable of the reader, the shared state, the workers and the writer
\* keeps its type: what serve_stdio, state::Inner and the workers can hold.
TypeOK == TasksTypeOK /\ InnerTypeOK /\ WorkersTypeOK /\ TransportTypeOK

\* Every awaited reply can still come: a handler that awaits its worker is
\* being served by it or is once in its queue, the worker is still in its loop,
\* and a worker holds only calls whose handler awaits it.  Leaving the loop on
\* Shutdown (wasm.rs) must not strand a handler.
NoLostReply ==
    /\ \A t \in Frames : pc[t] = "await" =>
         LET w == target[t]
             places == {n \in 1 .. Len(queue[w]) : queue[w][n] = t}
         IN  /\ worker[w] # "gone"
             /\ IF serving[w] = t THEN places = {} ELSE Cardinality(places) = 1
    /\ \A w \in Frames :
         /\ serving[w] # 0 => pc[serving[w]] = "await" /\ target[serving[w]] = w
         /\ \A n \in 1 .. Len(queue[w]) :
              queue[w][n] # 0 => pc[queue[w][n]] = "await" /\ target[queue[w][n]] = w

\* Every entry of pending_callbacks belongs to a worker that is waiting on
\* exactly that id.
NoLeakedCallback ==
    \A p \in pending : \E w \in Frames :
        Asking(w) /\ callId[w] = p.id /\ Question(w) = p.question

\* A waiting worker can always be woken by an answer: its sender is in the map,
\* or in the hands of a response handler, or the payload is there.  So the
\* "host dropped response" arm of host_rpc.rs is dead code.
WaiterReachable ==
    \A w \in Frames : Asking(w) =>
        \/ [id |-> callId[w], question |-> Question(w)] \in pending
        \/ \E t \in Frames : pc[t] = "deliver" /\ holds[t] = Question(w)
        \/ channel[w] # NoQuestion

\* pending_callbacks leaks nothing and loses nobody, whatever the order of
\* answers, timeouts and a failing stdout.
CallbacksMatchWaiters == NoLeakedCallback /\ WaiterReachable

\* A component gets the answer to the question it asked: an answer that comes
\* after the deadline never wakes a later call.
AnswerMatchesQuestion ==
    \A w \in Frames : channel[w] # NoQuestion =>
        Asking(w) /\ channel[w] = Question(w)

\* An instance marked activated has a component whose activate export has
\* returned Ok, within one period of the id counter: the flag is set after an
\* await, on whatever instance has the id then.
ActivatedMeansRan ==
    counter <= IdWrap =>
        \A i \in InstanceIds : activated[i] => instances[i] # 0 /\ ran[instances[i]]

\* Within one period of the id counter a load never takes over the id of an
\* instance that is still loaded: the entry of an id changes only by appearing
\* and disappearing.
NeverRebound ==
    [][counter' <= IdWrap =>
         \A i \in InstanceIds :
            instances[i] # 0 => instances'[i] \in {0, instances[i]}]_vars

\* Once the handlers have been drained nothing is in flight: no worker is in an
\* export, no call is queued, and nobody waits for the host.
QuietAfterDrain ==
    reader \in {"joining", "exited"} =>
        /\ pending = {}
        /\ \A w \in Frames :
             /\ worker[w] \in {"none", "idle", "gone"}
             /\ \A n \in 1 .. Len(queue[w]) : queue[w][n] = 0

\* The promise about answers, with the answers the host has read off stdout.
OpenFrames     == {t \in Frames : /\ Read(t)
                                  /\ frame[t].kind \in Answerable
                                  /\ ~HasResponse(t, written)}
AnsweredFrames == {t \in Frames : HasResponse(t, written)}
Link == IF writer = "failed" THEN "broken"
        ELSE IF reader = "exited" THEN "closed" ELSE "up"

Contract == INSTANCE RpcContract
                WITH open <- OpenFrames, answered <- AnsweredFrames, link <- Link

\* The runtime implements RpcContract: no answer is given twice or unasked, and
\* the process does not exit, stdout working, before every frame it accepted is
\* answered on stdout ("Drain in-flight handlers so their responses make it to
\* stdout", server.rs).
ImplementsContract == Contract!Spec

\* Every frame that wants an answer gets it on stdout unless stdout fails:
\* no host call, full queue, unload or exit leaves a handler waiting for ever.
EveryRequestAnswered ==
    \A t \in Frames : t \in OpenFrames ~> (t \in AnsweredFrames \/ writer = "failed")

\* Once stdin has ended the process exits, whatever its components wait for.
DrainTerminates == reader = "draining" ~> reader = "exited"

\* The worker of an extension that is no longer in the map stops, however many
\* handlers were using it when it was unloaded.
UnloadedWorkerStops ==
    \A w \in Frames :
        (worker[w] = "idle" /\ pc[w] = "done" /\ \A i \in InstanceIds : instances[i] # w)
            ~> (worker[w] = "gone" \/ reader = "exited")

\* spec/v1/host-runtime-rpc.md 5.8: "Runtime must drain in-flight RPCs before
\* responding to `shutdown`".
ShutdownAnsweredLast ==
    \A t \in AnsweredFrames : frame[t].kind = "shutdown" =>
        \A u \in OpenFrames : u > t
=============================================================================
