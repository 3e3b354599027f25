---------------------------- MODULE RuntimeProofs ----------------------------
(***************************************************************************)
(* Theorems about Runtime, for any number of frames, any capacities, any   *)
(* script of the host.  The type invariant comes with two facts it needs   *)
(* to be inductive: a worker inside an export serves a frame (ServingInv), *)
(* and some control points belong to one kind of frame (KindInv).  On it   *)
(* rest NeverRebound, about the ids of instances, and NoLostReply and      *)
(* ActivatedMeansRan, about the calls handlers make on workers.            *)
(***************************************************************************)
EXTENDS Runtime, TLAPS, FiniteSetTheorems, SequenceTheorems

Busy(w) == worker[w] \in {"running", "calling", "waiting"}

ServingInv ==
    \A w \in Frames :
        /\ Busy(w) => serving[w] \in Frames
        /\ Asking(w) => used[w] \in 1 .. MaxImports

\* The control points only one kind of frame gets to.
KindInv ==
    \A t \in Frames :
        /\ pc[t] \in {"instantiate", "insert"} => frame[t].kind = "load"
        /\ pc[t] = "deliver" => frame[t].kind = "response"

TypeInv == TypeOK /\ ServingInv /\ KindInv

-----------------------------------------------------------------------------
(* What a group of variables that does not change keeps.                    *)

LEMMA TasksStutter == TasksTypeOK /\ UNCHANGED tasks => TasksTypeOK'
BY DEF TasksTypeOK, tasks

LEMMA InnerStutter == InnerTypeOK /\ UNCHANGED inner => InnerTypeOK'
BY DEF InnerTypeOK, inner

LEMMA WorkersStutter == WorkersTypeOK /\ UNCHANGED workers => WorkersTypeOK'
BY DEF WorkersTypeOK, workers

LEMMA TransportStutter == TransportTypeOK /\ UNCHANGED transport => TransportTypeOK'
BY DEF TransportTypeOK, transport

LEMMA ServingStutter == ServingInv /\ UNCHANGED <<worker, serving, used>> => ServingInv'
BY DEF ServingInv, Busy, Asking

LEMMA KindStutter == KindInv /\ UNCHANGED <<pc, frame>> => KindInv'
BY DEF KindInv

-----------------------------------------------------------------------------
(* Types of the pieces of a frame.                                          *)

LEMMA FrameIsSlot == Frames \subseteq FrameOrNone /\ 0 \in FrameOrNone
                     /\ FrameOrNone \ {0} \subseteq Frames
BY BoundAssumption DEF Frames, FrameOrNone

LEMMA IdType ==
    ASSUME TypeOK, NEW t \in Frames, frame[t].kind = "load"
    PROVE  IdOf(t) \in InstanceIds
<1>1. frame[t] \in Frame
  BY DEF TypeOK, TasksTypeOK
<1>2. frame[t].ext \in Exts
  BY <1>1 DEF Frame, InstanceCalls, InstanceNotes
<1>3. number[t] \in Nat
  BY DEF TypeOK, TasksTypeOK
<1>4. number[t] % IdWrap \in 0 .. IdWrap - 1
  BY <1>3, WrapAssumption
<1> QED
  BY <1>2, <1>4, HashAssumption DEF IdOf, InstanceIds

LEMMA InstType ==
    ASSUME TasksTypeOK, NEW t \in Frames,
           frame[t].kind \in InstanceCalls \cup InstanceNotes
    PROVE  frame[t].inst \in InstanceIds
<1>1. frame[t] \in Frame
  BY DEF TasksTypeOK
<1> QED
  BY <1>1 DEF Frame, InstanceCalls, InstanceNotes

LEMMA AnswerType ==
    ASSUME TasksTypeOK, NEW t \in Frames, frame[t].kind = "response"
    PROVE  frame[t].id \in Nat /\ frame[t].question \in Questions
<1>1. frame[t] \in Frame
  BY DEF TasksTypeOK
<1> QED
  BY <1>1 DEF Frame, InstanceCalls, InstanceNotes

LEMMA PcType ==
    ASSUME TasksTypeOK, NEW t, NEW v \in TaskStates, pc' = [pc EXCEPT ![t] = v]
    PROVE  pc' \in [Frames -> TaskStates]
BY DEF TasksTypeOK

LEMMA StateTypes ==
    /\ {"unread", "start", "instantiate", "insert", "send", "await", "flag_ok",
        "flag_err", "stop", "deliver", "answer_ok", "answer_err", "done"} = TaskStates
    /\ {"none", "idle", "running", "calling", "waiting", "gone"} = WorkerStates
    /\ \A ok : Outcome(ok) \in TaskStates
    /\ \A t : AfterDrop(t) \in TaskStates
    /\ \A t, ok : AfterReply(t, ok) \in TaskStates
BY DEF TaskStates, WorkerStates, Outcome, AfterDrop, AfterReply

\* A message pushed on the outbound channel keeps its type.
LEMMA PushType ==
    ASSUME TransportTypeOK, NEW m \in Message, Push(m), UNCHANGED <<writer, written>>
    PROVE  TransportTypeOK'
BY DEF TransportTypeOK, Push

\* A call or a Shutdown appended to a worker's queue keeps the queues' type.
LEMMA EnqueueType ==
    ASSUME WorkersTypeOK, NEW w, NEW x \in FrameOrNone
    PROVE  [queue EXCEPT ![w] = Append(@, x)] \in [Frames -> Seq(FrameOrNone)]
<1>1. \A s \in Seq(FrameOrNone) : Append(s, x) \in Seq(FrameOrNone)
  OBVIOUS
<1> HIDE DEF FrameOrNone
<1>2. \A v \in Frames : queue[v] \in Seq(FrameOrNone)
  BY DEF WorkersTypeOK
<1>3. w \in Frames => Append(queue[w], x) \in Seq(FrameOrNone)
  BY <1>1, <1>2
<1> QED
  BY <1>2, <1>3 DEF WorkersTypeOK

-----------------------------------------------------------------------------
LEMMA InitType == Init => TypeInv
<1> SUFFICES ASSUME Init PROVE TypeInv
  OBVIOUS
<1>1. TasksTypeOK
  <2>1. NoFrame \in Frame
    BY DEF NoFrame, Frame
  <2>2. frame \in [Frames -> Frame]
    BY <2>1 DEF Init
  <2>3. nread \in 0 .. MaxFrames
    BY BoundAssumption DEF Init
  <2> QED
    BY <2>2, <2>3, FrameIsSlot DEF Init, TasksTypeOK, TaskStates
<1>2. InnerTypeOK
  BY FrameIsSlot DEF Init, InnerTypeOK
<1>3. WorkersTypeOK
  <2>1. used \in [Frames -> 0 .. MaxImports]
    BY BoundAssumption DEF Init
  <2>2. queue \in [Frames -> Seq(FrameOrNone)]
    BY DEF Init
  <2> QED
    BY <2>1, <2>2, FrameIsSlot DEF Init, WorkersTypeOK, WorkerStates
<1>4. TransportTypeOK
  BY DEF Init, TransportTypeOK
<1>5. ServingInv /\ KindInv
  BY DEF Init, ServingInv, KindInv, Busy, Asking
<1> QED
  BY <1>1, <1>2, <1>3, <1>4, <1>5 DEF TypeInv, TypeOK

LEMMA SpawnType ==
    ASSUME TypeInv, NEW f \in Frame, Spawn(f)
    PROVE  TypeInv'
<1> USE DEF TypeInv, TypeOK
<1>1. nread + 1 \in Frames /\ nread' \in 0 .. MaxFrames
  BY BoundAssumption DEF TasksTypeOK, Spawn, Frames
<1>2. frame' \in [Frames -> Frame]
  BY <1>1 DEF TasksTypeOK, Spawn
<1>3. pc' \in [Frames -> TaskStates]
  BY StateTypes, PcType DEF Spawn
<1>4. TasksTypeOK'
  BY <1>1, <1>2, <1>3 DEF TasksTypeOK, Spawn
<1>5. InnerTypeOK' /\ WorkersTypeOK' /\ TransportTypeOK'
  BY InnerStutter, WorkersStutter, TransportStutter DEF Spawn
<1>6. ServingInv'
  BY ServingStutter DEF Spawn, workers
<1>7. KindInv'
  BY <1>1 DEF TasksTypeOK, KindInv, Spawn
<1> QED
  BY <1>4, <1>5, <1>6, <1>7

LEMMA ReaderType == TypeInv /\ ReaderStep => TypeInv'
<1> SUFFICES ASSUME TypeInv, ReaderStep PROVE TypeInv'
  OBVIOUS
<1> USE DEF TypeInv, TypeOK
<1>1. ASSUME NEW k \in {"shutdown", "exit", "malformed", "unknown"}, ReadControl(k)
      PROVE  TypeInv'
  <2>1. [kind |-> k] \in Frame
    BY DEF Frame
  <2> QED
    BY <1>1, <2>1, SpawnType DEF ReadControl
<1>2. CASE ReadInitialize
  <2>1. PICK b \in BOOLEAN, c \in SUBSET Caps :
            Spawn([kind |-> "initialize", compatible |-> b, caps |-> c])
    BY <1>2 DEF ReadInitialize
  <2>2. [kind |-> "initialize", compatible |-> b, caps |-> c] \in Frame
    BY DEF Frame
  <2> QED
    BY <2>1, <2>2, SpawnType
<1>3. CASE ReadLoad
  <2>1. PICK x \in Exts, c \in SUBSET Caps :
            Spawn([kind |-> "load", ext |-> x, requires |-> c])
    BY <1>3 DEF ReadLoad
  <2>2. [kind |-> "load", ext |-> x, requires |-> c] \in Frame
    BY DEF Frame
  <2> QED
    BY <2>1, <2>2, SpawnType
<1>4. ASSUME NEW k \in InstanceCalls \cup InstanceNotes, ReadForInstance(k)
      PROVE  TypeInv'
  <2>1. KnownIds \subseteq InstanceIds
    BY IdType DEF KnownIds, Loaded
  <2>2. PICK i \in InstanceIds : Spawn([kind |-> k, inst |-> i])
    BY <1>4, <2>1 DEF ReadForInstance
  <2>3. [kind |-> k, inst |-> i] \in Frame
    BY DEF Frame
  <2> QED
    BY <2>2, <2>3, SpawnType
<1>5. CASE ReadResponse
  <2>1. PICK m \in OpenCalls :
            Spawn([kind |-> "response", id |-> m.id, question |-> m.question])
    BY <1>5 DEF ReadResponse
  <2>2. m \in Message /\ m.kind = "call"
    BY DEF OpenCalls, TransportTypeOK
  <2>3. m.id \in Nat /\ m.question \in Questions
    BY <2>2 DEF Message
  <2>4. [kind |-> "response", id |-> m.id, question |-> m.question] \in Frame
    BY <2>3 DEF Frame
  <2> QED
    BY <2>1, <2>4, SpawnType
<1>6. CASE CheckExit \/ CloseInput \/ Drained \/ Exit
  <2>1. TasksTypeOK' /\ UNCHANGED <<pc, frame>>
    BY <1>6 DEF CheckExit, CloseInput, Drained, Exit, TasksTypeOK
  <2>2. UNCHANGED <<inner, workers>>
    BY <1>6 DEF CheckExit, CloseInput, Drained, Exit
  <2>3. TransportTypeOK'
    <3>1. CASE UNCHANGED transport
      BY <3>1, TransportStutter
    <3>2. CASE Drained
      BY <3>2, PushType DEF Drained, Message
    <3> QED
      BY <1>6, <3>1, <3>2 DEF CheckExit, CloseInput, Exit
  <2> QED
    BY <2>1, <2>2, <2>3, InnerStutter, WorkersStutter, KindStutter, ServingStutter
    DEF workers
<1> QED
  BY <1>1, <1>2, <1>3, <1>4, <1>5, <1>6 DEF ReaderStep

LEMMA WriterType == TypeInv /\ (WriterWrite \/ WriterFail) => TypeInv'
<1> SUFFICES ASSUME TypeInv, WriterWrite \/ WriterFail PROVE TypeInv'
  OBVIOUS
<1> USE DEF TypeInv, TypeOK
<1>1. TransportTypeOK'
  <2>1. CASE WriterWrite
    <3>1. Tail(outbound) \in Seq(Message) /\ Head(outbound) \in Message
      BY <2>1 DEF WriterWrite, TransportTypeOK
    <3>2. /\ outbound' = Tail(outbound)
          /\ written' = written \/ written' = written \cup {Head(outbound)}
          /\ writer' \in {writer, "stopped"}
      BY <2>1 DEF WriterWrite
    <3> QED
      BY <3>1, <3>2 DEF TransportTypeOK
  <2>2. CASE WriterFail
    BY <2>2 DEF WriterFail, TransportTypeOK
  <2> QED
    BY <2>1, <2>2
<1>2. UNCHANGED <<tasks, inner, workers>>
  BY DEF WriterWrite, WriterFail
<1> QED
  BY <1>1, <1>2, TasksStutter, InnerStutter, WorkersStutter, ServingStutter, KindStutter
  DEF tasks, workers

-----------------------------------------------------------------------------
(* One handler step, one group of variables at a time.                      *)

LEMMA TaskTasksType ==
    ASSUME TypeInv, NEW t \in Frames, TaskStep(t)
    PROVE  TasksTypeOK'
<1> USE DEF TypeInv, TypeOK, Step
<1>0. t \in FrameOrNone /\ 0 \in FrameOrNone
  BY FrameIsSlot
<1>1. CASE Reject(t) \/ Shutdown(t) \/ ExitNotice(t) \/ Ignore(t)
  <2>1. PICK v \in TaskStates : pc' = [pc EXCEPT ![t] = v]
    BY <1>1, StateTypes DEF Reject, Shutdown, ExitNotice, Ignore
  <2>2. pc' \in [Frames -> TaskStates]
    BY <2>1, PcType
  <2> QED
    BY <1>1, <2>2 DEF Reject, Shutdown, ExitNotice, Ignore, TasksTypeOK
<1>2. CASE Initialize(t)
  <2>1. pc' \in [Frames -> TaskStates]
    BY <1>2, StateTypes, PcType DEF Initialize
  <2> QED
    BY <1>2, <2>1 DEF Initialize, TasksTypeOK
<1>3. CASE LoadBegin(t)
  <2>1. pc' \in [Frames -> TaskStates]
    BY <1>3, StateTypes, PcType DEF LoadBegin
  <2>2. number' \in [Frames -> Nat]
    BY <1>3 DEF LoadBegin, TasksTypeOK, InnerTypeOK
  <2> QED
    BY <1>3, <2>1, <2>2 DEF LoadBegin, TasksTypeOK
<1>4. CASE LoadInstantiate(t)
  <2>1. pc' \in [Frames -> TaskStates]
    BY <1>4, StateTypes, PcType DEF LoadInstantiate
  <2>2. target' \in [Frames -> FrameOrNone]
    BY <1>4, <1>0 DEF LoadInstantiate, TasksTypeOK
  <2> QED
    BY <1>4, <2>1, <2>2 DEF LoadInstantiate, TasksTypeOK
<1>5. CASE LoadInsert(t)
  <2>1. pc' \in [Frames -> TaskStates]
    BY <1>5, StateTypes, PcType DEF LoadInsert
  <2> QED
    BY <1>5, <2>1, <1>0 DEF LoadInsert, TasksTypeOK
<1>6. CASE Snapshot(t)
  <2>1. frame[t].inst \in InstanceIds
    BY <1>6, InstType DEF Snapshot
  <2>2. target' \in [Frames -> FrameOrNone]
    BY <1>6, <2>1 DEF Snapshot, TasksTypeOK, InnerTypeOK
  <2>3. PICK v \in TaskStates : pc' = [pc EXCEPT ![t] = v]
    BY <1>6, StateTypes DEF Snapshot
  <2>4. pc' \in [Frames -> TaskStates]
    BY <2>3, PcType
  <2> QED
    BY <1>6, <2>2, <2>4 DEF Snapshot, TasksTypeOK
<1>7. CASE SendCall(t)
  <2>1. PICK v \in TaskStates : pc' = [pc EXCEPT ![t] = v]
    BY <1>7, StateTypes DEF SendCall
  <2>2. pc' \in [Frames -> TaskStates]
    BY <2>1, PcType
  <2>3. target' \in [Frames -> FrameOrNone]
    BY <1>7, <1>0 DEF SendCall, TasksTypeOK
  <2> QED
    BY <1>7, <2>2, <2>3 DEF SendCall, TasksTypeOK
<1>8. CASE SetActivated(t)
  <2>1. pc' \in [Frames -> TaskStates]
    BY <1>8, StateTypes, PcType DEF SetActivated
  <2>2. target' \in [Frames -> FrameOrNone]
    BY <1>8, <1>0 DEF SetActivated, TasksTypeOK
  <2> QED
    BY <1>8, <2>1, <2>2 DEF SetActivated, TasksTypeOK
<1>9. CASE Unload(t)
  <2>1. frame[t].inst \in InstanceIds
    BY <1>9, InstType DEF Unload, InstanceNotes
  <2>2. target' \in [Frames -> FrameOrNone]
    BY <1>9, <2>1 DEF Unload, TasksTypeOK, InnerTypeOK
  <2>3. PICK v \in TaskStates : pc' = [pc EXCEPT ![t] = v]
    BY <1>9, StateTypes DEF Unload
  <2>4. pc' \in [Frames -> TaskStates]
    BY <2>3, PcType
  <2> QED
    BY <1>9, <2>2, <2>4 DEF Unload, TasksTypeOK
<1>10. CASE StopWorker(t)
  <2>1. pc' \in [Frames -> TaskStates]
    BY <1>10, StateTypes, PcType DEF StopWorker
  <2>2. target' \in [Frames -> FrameOrNone]
    BY <1>10, <1>0 DEF StopWorker, TasksTypeOK
  <2> QED
    BY <1>10, <2>1, <2>2 DEF StopWorker, TasksTypeOK
<1>11. CASE TakeCallback(t)
  <2> DEFINE found == {p \in pending : p.id = frame[t].id}
  <2>1. found # {} => (CHOOSE p \in found : TRUE) \in pending
    OBVIOUS
  <2>2. found # {} => (CHOOSE p \in found : TRUE).question \in Questions
    BY <2>1 DEF InnerTypeOK
  <2>3. holds' \in [Frames -> Questions \cup {NoQuestion}]
    BY <1>11, <2>2 DEF TakeCallback, TasksTypeOK
  <2>4. PICK v \in TaskStates : pc' = [pc EXCEPT ![t] = v]
    BY <1>11, StateTypes DEF TakeCallback
  <2>5. pc' \in [Frames -> TaskStates]
    BY <2>4, PcType
  <2> QED
    BY <1>11, <2>3, <2>5 DEF TakeCallback, TasksTypeOK
<1>12. CASE Deliver(t)
  <2>1. pc' \in [Frames -> TaskStates]
    BY <1>12, StateTypes, PcType DEF Deliver
  <2>2. holds' \in [Frames -> Questions \cup {NoQuestion}]
    BY <1>12 DEF Deliver, TasksTypeOK
  <2> QED
    BY <1>12, <2>1, <2>2 DEF Deliver, TasksTypeOK
<1>13. CASE Respond(t)
  <2>1. pc' \in [Frames -> TaskStates]
    BY <1>13, StateTypes, PcType DEF Respond
  <2> QED
    BY <1>13, <2>1 DEF Respond, TasksTypeOK
<1> QED
  BY <1>1, <1>2, <1>3, <1>4, <1>5, <1>6, <1>7, <1>8, <1>9, <1>10, <1>11, <1>12,
     <1>13 DEF TaskStep

LEMMA TaskInnerType ==
    ASSUME TypeInv, NEW t \in Frames, TaskStep(t)
    PROVE  InnerTypeOK'
<1> USE DEF TypeInv, TypeOK, Step
<1>0. t \in FrameOrNone /\ 0 \in FrameOrNone
  BY FrameIsSlot
<1>1. CASE Reject(t) \/ LoadInstantiate(t) \/ Snapshot(t) \/ SendCall(t)
             \/ StopWorker(t) \/ Ignore(t) \/ Deliver(t) \/ Respond(t)
  BY <1>1, InnerStutter DEF Reject, LoadInstantiate, Snapshot, SendCall, StopWorker,
                            Ignore, Deliver, Respond
<1>2. CASE Initialize(t)
  <2>1. frame[t] \in Frame /\ frame[t].kind = "initialize"
    BY <1>2 DEF TasksTypeOK, Initialize
  <2>2. frame[t].caps \in SUBSET Caps
    BY <2>1 DEF Frame, InstanceCalls, InstanceNotes
  <2> QED
    BY <1>2, <2>2 DEF Initialize, InnerTypeOK
<1>3. CASE Shutdown(t) \/ ExitNotice(t)
  BY <1>3 DEF Shutdown, ExitNotice, InnerTypeOK
<1>4. CASE LoadBegin(t)
  BY <1>4 DEF LoadBegin, InnerTypeOK
<1>5. CASE LoadInsert(t)
  BY <1>5, <1>0 DEF LoadInsert, InnerTypeOK
<1>6. CASE SetActivated(t)
  <2>1. activated' \in [InstanceIds -> BOOLEAN]
    BY <1>6 DEF SetActivated, InnerTypeOK
  <2> QED
    BY <1>6, <2>1 DEF SetActivated, InnerTypeOK
<1>7. CASE Unload(t)
  BY <1>7, <1>0 DEF Unload, InnerTypeOK
<1>8. CASE TakeCallback(t)
  BY <1>8 DEF TakeCallback, InnerTypeOK
<1> QED
  BY <1>1, <1>2, <1>3, <1>4, <1>5, <1>6, <1>7, <1>8 DEF TaskStep

LEMMA TaskWorkersType ==
    ASSUME TypeInv, NEW t \in Frames, TaskStep(t)
    PROVE  WorkersTypeOK' /\ ServingInv'
<1> USE DEF TypeInv, TypeOK
<1>1. CASE LoadInstantiate(t)
  <2>1. worker' \in [Frames -> WorkerStates]
    BY <1>1, StateTypes DEF LoadInstantiate, WorkersTypeOK
  <2>2. WorkersTypeOK'
    BY <1>1, <2>1 DEF LoadInstantiate, WorkersTypeOK
  <2>3. ServingInv'
    BY <1>1 DEF LoadInstantiate, WorkersTypeOK, ServingInv, Busy, Asking
  <2> QED
    BY <2>2, <2>3
<1>2. CASE SendCall(t)
  <2>1. queue' = queue \/ queue' = [queue EXCEPT ![target[t]] = Append(@, t)]
    BY <1>2 DEF SendCall
  <2>2. t \in FrameOrNone
    BY FrameIsSlot
  <2>3. [queue EXCEPT ![target[t]] = Append(@, t)] \in [Frames -> Seq(FrameOrNone)]
    BY <2>2, EnqueueType
  <2>4. queue' \in [Frames -> Seq(FrameOrNone)]
    BY <2>1, <2>3 DEF WorkersTypeOK
  <2>5. UNCHANGED <<worker, serving, used, callId, channel, ran>>
    BY <1>2 DEF SendCall
  <2> QED
    BY <2>4, <2>5, ServingStutter DEF WorkersTypeOK
<1>3. CASE StopWorker(t)
  <2>1. queue' = queue \/ queue' = [queue EXCEPT ![target[t]] = Append(@, 0)]
    BY <1>3 DEF StopWorker
  <2>2. 0 \in FrameOrNone
    BY FrameIsSlot
  <2>3. [queue EXCEPT ![target[t]] = Append(@, 0)] \in [Frames -> Seq(FrameOrNone)]
    BY <2>2, EnqueueType
  <2>4. queue' \in [Frames -> Seq(FrameOrNone)]
    BY <2>1, <2>3 DEF WorkersTypeOK
  <2>5. UNCHANGED <<worker, serving, used, callId, channel, ran>>
    BY <1>3 DEF StopWorker
  <2> QED
    BY <2>4, <2>5, ServingStutter DEF WorkersTypeOK
<1>4. CASE Deliver(t)
  <2>1. frame[t].question \in Questions
    BY <1>4, AnswerType DEF Deliver, Step, KindInv
  <2>2. channel' \in [Frames -> Questions \cup {NoQuestion}]
    BY <1>4, <2>1 DEF Deliver, WorkersTypeOK
  <2>3. UNCHANGED <<worker, queue, serving, used, callId, ran>>
    BY <1>4 DEF Deliver
  <2> QED
    BY <2>2, <2>3, ServingStutter DEF WorkersTypeOK
<1>5. CASE ~(LoadInstantiate(t) \/ SendCall(t) \/ StopWorker(t) \/ Deliver(t))
  <2>1. UNCHANGED workers
    BY <1>5 DEF TaskStep, Reject, Initialize, Shutdown, ExitNotice, LoadBegin,
                LoadInsert, Snapshot, SetActivated, Unload, Ignore, TakeCallback, Respond
  <2> QED
    BY <2>1, WorkersStutter, ServingStutter DEF workers
<1> QED
  BY <1>1, <1>2, <1>3, <1>4, <1>5

LEMMA TaskTransportType ==
    ASSUME TypeInv, NEW t \in Frames, TaskStep(t)
    PROVE  TransportTypeOK'
<1> USE DEF TypeInv, TypeOK
<1>1. CASE Respond(t)
  <2>1. [kind |-> "response", of |-> t, ok |-> pc[t] = "answer_ok"] \in Message
    BY DEF Message
  <2> QED
    BY <1>1, <2>1, PushType DEF Respond
<1>2. CASE ~Respond(t)
  <2>1. UNCHANGED transport
    BY <1>2 DEF TaskStep, Reject, Initialize, Shutdown, ExitNotice, LoadBegin,
                LoadInstantiate, LoadInsert, Snapshot, SendCall, SetActivated, Unload,
                StopWorker, Ignore, TakeCallback, Deliver
  <2> QED
    BY <2>1, TransportStutter
<1> QED
  BY <1>1, <1>2

LEMMA TaskKind ==
    ASSUME TypeInv, NEW t \in Frames, TaskStep(t)
    PROVE  KindInv'
<1> USE DEF TypeInv, TypeOK, TasksTypeOK, KindInv, Step, Outcome, AfterDrop
<1>1. CASE LoadBegin(t) \/ LoadInstantiate(t) \/ LoadInsert(t)
  BY <1>1 DEF LoadBegin, LoadInstantiate, LoadInsert
<1>2. CASE Snapshot(t) \/ SendCall(t) \/ SetActivated(t)
  BY <1>2 DEF Snapshot, SendCall, SetActivated
<1>3. CASE Unload(t) \/ StopWorker(t) \/ Ignore(t)
  BY <1>3 DEF Unload, StopWorker, Ignore
<1>4. CASE TakeCallback(t) \/ Deliver(t) \/ Respond(t)
  BY <1>4 DEF TakeCallback, Deliver, Respond
<1>5. CASE Reject(t) \/ Initialize(t) \/ Shutdown(t) \/ ExitNotice(t)
  BY <1>5 DEF Reject, Initialize, Shutdown, ExitNotice
<1> QED
  BY <1>1, <1>2, <1>3, <1>4, <1>5 DEF TaskStep

-----------------------------------------------------------------------------
(* One worker step.                                                         *)

LEMMA WorkerTasksType ==
    ASSUME TypeInv, NEW w \in Frames, WorkerStep(w)
    PROVE  TasksTypeOK'
<1> USE DEF TypeInv, TypeOK
<1>1. CASE Receive(w)
  <2>1. pc' \in [Frames -> TaskStates]
    BY <1>1, StateTypes DEF Receive, TasksTypeOK
  <2>2. target' \in [Frames -> FrameOrNone]
    BY <1>1, FrameIsSlot DEF Receive, TasksTypeOK
  <2> QED
    BY <1>1, <2>1, <2>2 DEF Receive, TasksTypeOK
<1>2. ASSUME NEW ok \in BOOLEAN, Return(w, ok) PROVE TasksTypeOK'
  <2>1. pc' \in [Frames -> TaskStates]
    BY <1>2, StateTypes, PcType DEF Return
  <2>2. target' \in [Frames -> FrameOrNone]
    BY <1>2, FrameIsSlot DEF Return, TasksTypeOK
  <2> QED
    BY <1>2, <2>1, <2>2 DEF Return, TasksTypeOK
<1>3. CASE Abandon(w) \/ Import(w) \/ CallHost(w) \/ Answered(w) \/ Timeout(w)
  BY <1>3, TasksStutter DEF Abandon, Import, Notify, Allocate, CallHost, Answered, Timeout
<1> QED
  BY <1>1, <1>2, <1>3 DEF WorkerStep

LEMMA WorkerInnerType ==
    ASSUME TypeInv, NEW w \in Frames, WorkerStep(w)
    PROVE  InnerTypeOK'
<1> USE DEF TypeInv, TypeOK
<1>1. CASE Allocate(w)
  <2>1. <<serving[w], used[w] + 1>> \in Questions
    BY <1>1, BoundAssumption
    DEF Allocate, Questions, ServingInv, Busy, WorkersTypeOK
  <2>2. [id |-> nextCallback, question |-> <<serving[w], used[w] + 1>>]
            \in [id : Nat, question : Questions]
    BY <2>1 DEF InnerTypeOK
  <2>3. pending' \in SUBSET [id : Nat, question : Questions]
    BY <1>1, <2>2 DEF Allocate, Forget, InnerTypeOK
  <2> QED
    BY <1>1, <2>3 DEF Allocate, InnerTypeOK
<1>2. CASE CallHost(w) \/ Timeout(w)
  <2>1. pending' \subseteq pending
    BY <1>2 DEF CallHost, Timeout, Forget
  <2>2. UNCHANGED <<handshake, instances, activated, exitRequested,
                    shutdownRequested, nextCallback, counter>>
    BY <1>2 DEF CallHost, Timeout
  <2> QED
    BY <2>1, <2>2 DEF InnerTypeOK
<1>3. ASSUME NEW ok \in BOOLEAN, Return(w, ok) PROVE InnerTypeOK'
  BY <1>3, InnerStutter DEF Return
<1>4. CASE Receive(w) \/ Abandon(w) \/ Notify(w) \/ Answered(w)
  BY <1>4, InnerStutter DEF Receive, Abandon, Notify, Answered
<1> QED
  BY <1>1, <1>2, <1>3, <1>4 DEF WorkerStep, Import

LEMMA WorkerWorkersType ==
    ASSUME TypeInv, NEW w \in Frames, WorkerStep(w)
    PROVE  WorkersTypeOK'
<1> USE DEF TypeInv, TypeOK
<1>0. 0 \in FrameOrNone
  BY FrameIsSlot
<1>1. CASE Receive(w)
  <2>1. queue[w] \in Seq(FrameOrNone) /\ queue[w] # <<>>
    BY <1>1 DEF Receive, WorkersTypeOK
  <2>2. Head(queue[w]) \in FrameOrNone /\ Tail(queue[w]) \in Seq(FrameOrNone)
    BY <2>1
  <2>3. worker' \in [Frames -> WorkerStates]
    BY <1>1, StateTypes DEF Receive, WorkersTypeOK
  <2>4. queue' \in [Frames -> Seq(FrameOrNone)]
    <3>1. PICK rest \in Seq(FrameOrNone) : queue' = [queue EXCEPT ![w] = rest]
      <4>1. <<>> \in Seq(FrameOrNone)
        OBVIOUS
      <4> QED
        BY <1>1, <2>2, <4>1 DEF Receive
    <3> QED
      BY <3>1 DEF WorkersTypeOK
  <2>5. serving' \in [Frames -> FrameOrNone]
    BY <1>1, <2>2 DEF Receive, WorkersTypeOK
  <2> QED
    BY <1>1, <2>3, <2>4, <2>5 DEF Receive, WorkersTypeOK
<1>2. CASE Abandon(w)
  <2>1. worker' \in [Frames -> WorkerStates]
    BY <1>2, StateTypes DEF Abandon, WorkersTypeOK
  <2> QED
    BY <1>2, <2>1 DEF Abandon, WorkersTypeOK
<1>3. CASE Notify(w)
  <2>1. used' \in [Frames -> 0 .. MaxImports]
    BY <1>3, BoundAssumption DEF Notify, WorkersTypeOK
  <2> QED
    BY <1>3, <2>1 DEF Notify, WorkersTypeOK
<1>4. CASE Allocate(w)
  <2>1. /\ worker' \in [Frames -> WorkerStates]
        /\ callId' \in [Frames -> Nat]
    BY <1>4, StateTypes DEF Allocate, WorkersTypeOK, InnerTypeOK
  <2>2. used' \in [Frames -> 0 .. MaxImports]
    BY <1>4, BoundAssumption DEF Allocate, WorkersTypeOK
  <2> QED
    BY <1>4, <2>1, <2>2 DEF Allocate, WorkersTypeOK
<1>5. CASE CallHost(w)
  <2>1. worker' \in [Frames -> WorkerStates]
    BY <1>5, StateTypes DEF CallHost, WorkersTypeOK
  <2>2. callId' \in [Frames -> Nat]
    BY <1>5 DEF CallHost, WorkersTypeOK
  <2> QED
    BY <1>5, <2>1, <2>2 DEF CallHost, WorkersTypeOK
<1>6. CASE Answered(w)
  <2>1. /\ worker' \in [Frames -> WorkerStates]
        /\ callId' \in [Frames -> Nat]
        /\ channel' \in [Frames -> Questions \cup {NoQuestion}]
    BY <1>6, StateTypes DEF Answered, WorkersTypeOK
  <2> QED
    BY <1>6, <2>1 DEF Answered, WorkersTypeOK
<1>7. CASE Timeout(w)
  <2>1. /\ worker' \in [Frames -> WorkerStates]
        /\ callId' \in [Frames -> Nat]
    BY <1>7, StateTypes DEF Timeout, WorkersTypeOK
  <2> QED
    BY <1>7, <2>1 DEF Timeout, WorkersTypeOK
<1>8. ASSUME NEW ok \in BOOLEAN, Return(w, ok) PROVE WorkersTypeOK'
  <2>1. worker' \in [Frames -> WorkerStates]
    BY <1>8, StateTypes DEF Return, WorkersTypeOK
  <2>2. /\ serving' \in [Frames -> FrameOrNone]
        /\ used' \in [Frames -> 0 .. MaxImports]
    BY <1>8, <1>0, BoundAssumption DEF Return, WorkersTypeOK
  <2>3. ran' \in [Frames -> BOOLEAN]
    BY <1>8 DEF Return, WorkersTypeOK
  <2> QED
    BY <1>8, <2>1, <2>2, <2>3 DEF Return, WorkersTypeOK
<1> QED
  BY <1>1, <1>2, <1>3, <1>4, <1>5, <1>6, <1>7, <1>8 DEF WorkerStep, Import

LEMMA WorkerTransportType ==
    ASSUME TypeInv, NEW w \in Frames, WorkerStep(w)
    PROVE  TransportTypeOK'
<1> USE DEF TypeInv, TypeOK
<1>1. CASE Notify(w)
  BY <1>1, PushType DEF Notify, Message
<1>2. CASE CallHost(w)
  <2>1. Question(w) \in Questions
    BY <1>2 DEF CallHost, Question, Questions, ServingInv, Busy, Asking
  <2>2. [kind |-> "call", id |-> callId[w], question |-> Question(w)] \in Message
    BY <2>1 DEF Message, WorkersTypeOK
  <2> QED
    BY <1>2, <2>2, PushType DEF CallHost
<1>3. ASSUME NEW ok \in BOOLEAN, Return(w, ok) PROVE TransportTypeOK'
  BY <1>3, TransportStutter DEF Return
<1>4. CASE Receive(w) \/ Abandon(w) \/ Allocate(w) \/ Answered(w) \/ Timeout(w)
  BY <1>4, TransportStutter DEF Receive, Abandon, Allocate, Answered, Timeout
<1> QED
  BY <1>1, <1>2, <1>3, <1>4 DEF WorkerStep, Import

LEMMA WorkerServing ==
    ASSUME TypeInv, NEW w \in Frames, WorkerStep(w)
    PROVE  ServingInv'
<1> USE DEF TypeInv, TypeOK, WorkersTypeOK, ServingInv, Busy, Asking
<1>1. CASE Receive(w)
  <2>1. queue[w] \in Seq(FrameOrNone) /\ queue[w] # <<>>
    BY <1>1 DEF Receive
  <2>2. Head(queue[w]) # 0 => Head(queue[w]) \in Frames
    BY <2>1, FrameIsSlot
  <2> QED
    BY <1>1, <2>2 DEF Receive
<1>2. CASE Abandon(w) \/ Answered(w) \/ Timeout(w)
  BY <1>2 DEF Abandon, Answered, Timeout
<1>3. CASE Notify(w)
  BY <1>3 DEF Notify
<1>4. CASE Allocate(w)
  BY <1>4, BoundAssumption DEF Allocate
<1>5. CASE CallHost(w)
  BY <1>5 DEF CallHost
<1>6. ASSUME NEW ok \in BOOLEAN, Return(w, ok) PROVE ServingInv'
  BY <1>6 DEF Return
<1> QED
  BY <1>1, <1>2, <1>3, <1>4, <1>5, <1>6 DEF WorkerStep, Import

LEMMA WorkerKind ==
    ASSUME TypeInv, NEW w \in Frames, WorkerStep(w)
    PROVE  KindInv'
<1> USE DEF TypeInv, TypeOK, TasksTypeOK, KindInv
<1>1. CASE Receive(w)
  BY <1>1 DEF Receive, AfterDrop
<1>2. ASSUME NEW ok \in BOOLEAN, Return(w, ok) PROVE KindInv'
  <2>1. AfterReply(serving[w], ok) \notin {"instantiate", "insert", "deliver"}
    BY DEF AfterReply, Outcome
  <2> QED
    BY <1>2, <2>1 DEF Return
<1>3. CASE Abandon(w) \/ Import(w) \/ CallHost(w) \/ Answered(w) \/ Timeout(w)
  BY <1>3 DEF Abandon, Import, Notify, Allocate, CallHost, Answered, Timeout, tasks
<1> QED
  BY <1>1, <1>2, <1>3 DEF WorkerStep

LEMMA StepType == TypeInv /\ [Next]_vars => TypeInv'
<1> SUFFICES ASSUME TypeInv, [Next]_vars PROVE TypeInv'
  OBVIOUS
<1>1. CASE UNCHANGED vars
  BY <1>1, TasksStutter, InnerStutter, WorkersStutter, TransportStutter,
     ServingStutter, KindStutter
  DEF TypeInv, TypeOK, vars, tasks, workers
<1>2. ASSUME NEW t \in Frames, TaskStep(t) PROVE TypeInv'
  BY <1>2, TaskTasksType, TaskInnerType, TaskWorkersType, TaskTransportType, TaskKind
  DEF TypeInv, TypeOK
<1>3. ASSUME NEW w \in Frames, WorkerStep(w) PROVE TypeInv'
  BY <1>3, WorkerTasksType, WorkerInnerType, WorkerWorkersType, WorkerTransportType,
     WorkerServing, WorkerKind
  DEF TypeInv, TypeOK
<1>4. CASE Stopped
  BY <1>1, <1>4 DEF Stopped
<1> QED
  BY <1>1, <1>2, <1>3, <1>4, ReaderType, WriterType DEF Next

LEMMA TypeInvariant == Spec => []TypeInv
BY InitType, StepType, PTL DEF Spec

\* Every variable keeps its type in every reachable state: the runtime never
\* holds a handle, an id or a message the code could not have made.
THEOREM TypeCorrect == Spec => []TypeOK
<1>1. TypeInv => TypeOK
  BY DEF TypeInv
<1> QED
  BY <1>1, TypeInvariant, PTL

-----------------------------------------------------------------------------
(* NeverRebound: within one period of the counter an instance id that is    *)
(* bound is never bound to another worker.  The inductive invariant IdInv   *)
(* says who owns which number of the counter and that the map binds an id   *)
(* to the worker the id was made for.                                       *)

\* A load that has a number of the counter.
Took(t) == pc[t] \in {"instantiate", "insert"} \/ worker[t] # "none"

\* A task before its first step has no worker, only frames that were read do.
BornInv ==
    \A t \in Frames :
        /\ pc[t] \in {"start", "instantiate"} => t <= nread /\ worker[t] = "none"
        /\ Took(t) => t <= nread /\ pc[t] # "start" /\ frame[t].kind = "load"
        /\ pc[t] = "insert" => worker[t] # "none"

\* Numbers are handed out once.
NumberInv ==
    /\ \A t \in Frames : Took(t) => number[t] < counter
    /\ \A t, u \in Frames : Took(t) /\ Took(u) /\ number[t] = number[u] => t = u

\* The map binds an id to the worker the id was made for.
BoundInv ==
    \A i \in InstanceIds : instances[i] # 0 =>
        /\ worker[instances[i]] # "none"
        /\ pc[instances[i]] # "insert"
        /\ IdOf(instances[i]) = i

IdInv == BornInv /\ NumberInv /\ BoundInv

LEMMA InitIds == Init => IdInv
BY DEF Init, IdInv, BornInv, NumberInv, BoundInv, Took

LEMMA BoundIsFrame ==
    ASSUME TypeInv, NEW i \in InstanceIds, instances[i] # 0
    PROVE  instances[i] \in Frames
BY FrameIsSlot DEF TypeInv, TypeOK, InnerTypeOK

\* Steps that touch neither the workers' existence nor the ids.
LEMMA IdStutter ==
    ASSUME TypeInv, IdInv,
           UNCHANGED <<nread, frame, number, instances, counter>>,
           \A t \in Frames : worker'[t] # "none" <=> worker[t] # "none",
           \A t \in Frames : pc'[t] = pc[t]
                               \/ pc'[t] \notin {"start", "instantiate", "insert"}
    PROVE  IdInv'
<1>1. \A t \in Frames : Took(t)' => Took(t)
  BY DEF Took
<1>2. BornInv' /\ NumberInv'
  BY <1>1 DEF IdInv, BornInv, NumberInv, Took
<1>3. BoundInv'
  BY BoundIsFrame DEF IdInv, BoundInv, IdOf
<1> QED
  BY <1>2, <1>3 DEF IdInv

LEMMA SpawnIds ==
    ASSUME TypeInv, IdInv, NEW f, Spawn(f)
    PROVE  IdInv'
<1> DEFINE n == nread + 1
<1>1. n \in Frames /\ nread \in Nat /\ ~Took(n)
  BY BoundAssumption
  DEF Spawn, TypeInv, TypeOK, TasksTypeOK, IdInv, BornInv, Frames
<1>2. \A t \in Frames : t # n => frame'[t] = frame[t] /\ pc'[t] = pc[t]
  BY DEF Spawn, TypeInv, TypeOK, TasksTypeOK
<1>3. pc'[n] = "start" /\ nread' = n
  BY <1>1 DEF Spawn, TypeInv, TypeOK, TasksTypeOK
<1>4. UNCHANGED <<worker, number, counter, instances>>
  BY DEF Spawn, inner, workers
<1>5. \A t \in Frames : (Took(t)' <=> Took(t)) /\ (Took(t) => t # n)
  BY <1>1, <1>2, <1>3, <1>4 DEF Took
<1>6. BornInv'
  BY <1>1, <1>2, <1>3, <1>4, <1>5 DEF IdInv, BornInv, Frames, Took
<1>7. NumberInv'
  BY <1>4, <1>5 DEF IdInv, NumberInv
<1>8. BoundInv'
  <2> SUFFICES ASSUME NEW i \in InstanceIds, instances[i] # 0
               PROVE  /\ worker[instances[i]] # "none"
                      /\ pc'[instances[i]] # "insert"
                      /\ IdOf(instances[i])' = i
    BY <1>4 DEF BoundInv
  <2>1. instances[i] \in Frames /\ instances[i] # n
    BY <1>1, BoundIsFrame DEF IdInv, BoundInv, Took
  <2> QED
    BY <1>2, <1>4, <2>1 DEF IdInv, BoundInv, IdOf
<1> QED
  BY <1>6, <1>7, <1>8 DEF IdInv

LEMMA TaskIds ==
    ASSUME TypeInv, IdInv, NEW t \in Frames, TaskStep(t)
    PROVE  IdInv'
<1> USE DEF TypeInv, TypeOK, Step
<1>1. CASE LoadBegin(t)
  <2>1. CASE pc'[t] = "instantiate"
    <3>1. /\ pc[t] = "start" /\ pc' = [pc EXCEPT ![t] = "instantiate"]
          /\ number' = [number EXCEPT ![t] = counter] /\ counter' = counter + 1
          /\ UNCHANGED <<nread, frame, instances, worker>>
          /\ frame[t].kind = "load"
      BY <1>1, <2>1 DEF LoadBegin, TasksTypeOK, workers
    <3>2. ~Took(t) /\ \A u \in Frames : u # t => (Took(u)' <=> Took(u))
      BY <3>1 DEF IdInv, BornInv, Took, TasksTypeOK
    <3>3. BornInv'
      BY <3>1, <3>2 DEF IdInv, BornInv, Took, TasksTypeOK
    <3>4. NumberInv'
      BY <3>1, <3>2 DEF IdInv, NumberInv, TasksTypeOK, InnerTypeOK
    <3>5. BoundInv'
      <4> SUFFICES ASSUME NEW i \in InstanceIds, instances[i] # 0
                   PROVE  /\ worker[instances[i]] # "none"
                          /\ pc'[instances[i]] # "insert"
                          /\ IdOf(instances[i])' = i
        BY <3>1 DEF BoundInv
      <4>1. instances[i] \in Frames /\ instances[i] # t
        BY <3>2, BoundIsFrame DEF IdInv, BoundInv, Took
      <4> QED
        BY <3>1, <4>1 DEF IdInv, BoundInv, IdOf, TasksTypeOK
    <3> QED
      BY <3>3, <3>4, <3>5 DEF IdInv
  <2>2. CASE pc'[t] # "instantiate"
    <3>1. /\ pc' = [pc EXCEPT ![t] = "answer_err"]
          /\ UNCHANGED <<nread, frame, number, instances, counter, worker>>
      BY <1>1, <2>2 DEF LoadBegin, TasksTypeOK, workers
    <3> QED
      BY <3>1, IdStutter DEF TasksTypeOK
  <2> QED
    BY <2>1, <2>2
<1>2. CASE LoadInstantiate(t)
  <2>1. Took(t) /\ \A u \in Frames : Took(u)' => Took(u)
    BY <1>2 DEF LoadInstantiate, Took, TasksTypeOK, WorkersTypeOK
  <2>2. UNCHANGED <<nread, frame, number, instances, counter>>
    BY <1>2 DEF LoadInstantiate, inner
  <2>3. BornInv'
    BY <1>2, <2>1, <2>2 DEF LoadInstantiate, IdInv, BornInv, Took, TasksTypeOK,
                            WorkersTypeOK
  <2>4. NumberInv'
    BY <2>1, <2>2 DEF IdInv, NumberInv
  <2>5. BoundInv'
    <3> SUFFICES ASSUME NEW i \in InstanceIds, instances[i] # 0
                 PROVE  /\ worker'[instances[i]] # "none"
                        /\ pc'[instances[i]] # "insert"
                        /\ IdOf(instances[i])' = i
      BY <2>2 DEF BoundInv
    <3>1. instances[i] \in Frames /\ instances[i] # t
      BY <1>2, BoundIsFrame DEF LoadInstantiate, IdInv, BoundInv, BornInv
    <3> QED
      BY <1>2, <2>2, <3>1 DEF LoadInstantiate, IdInv, BoundInv, IdOf, TasksTypeOK,
                              WorkersTypeOK
  <2> QED
    BY <2>3, <2>4, <2>5 DEF IdInv
<1>3. CASE LoadInsert(t)
  <2>1. /\ pc[t] = "insert" /\ pc' = [pc EXCEPT ![t] = "answer_ok"]
        /\ instances' = [instances EXCEPT ![IdOf(t)] = t]
        /\ UNCHANGED <<nread, frame, number, counter, worker>>
    BY <1>3 DEF LoadInsert, workers
  <2>2. \A u \in Frames : Took(u)' => Took(u)
    BY <2>1 DEF Took, TasksTypeOK
  <2>3. BornInv' /\ NumberInv'
    BY <2>1, <2>2 DEF IdInv, BornInv, NumberInv, Took, TasksTypeOK
  <2>4. BoundInv'
    <3> SUFFICES ASSUME NEW i \in InstanceIds, instances'[i] # 0
                 PROVE  /\ worker[instances'[i]] # "none"
                        /\ pc'[instances'[i]] # "insert"
                        /\ IdOf(instances'[i]) = i
      BY <2>1 DEF BoundInv, IdOf
    <3>1. CASE i = IdOf(t)
      <4>1. instances'[i] = t
        BY <2>1, <3>1 DEF InnerTypeOK
      <4>2. worker[t] # "none"
        BY <2>1 DEF IdInv, BornInv
      <4> QED
        BY <2>1, <3>1, <4>1, <4>2 DEF TasksTypeOK
    <3>2. CASE i # IdOf(t)
      <4>1. instances'[i] = instances[i]
        BY <2>1, <3>2 DEF InnerTypeOK
      <4>2. instances[i] \in Frames
        BY <4>1, BoundIsFrame
      <4> QED
        BY <2>1, <4>1, <4>2 DEF IdInv, BoundInv, TasksTypeOK
    <3> QED
      BY <3>1, <3>2
  <2> QED
    BY <2>3, <2>4 DEF IdInv
<1>4. CASE Unload(t)
  <2>1. /\ UNCHANGED <<nread, frame, number, counter, worker>>
        /\ instances' = [instances EXCEPT ![frame[t].inst] = 0]
    BY <1>4 DEF Unload, workers
  <2>2. \A u \in Frames : pc'[u] = pc[u]
                            \/ pc'[u] \notin {"start", "instantiate", "insert"}
    BY <1>4 DEF Unload, TasksTypeOK
  <2>3. BornInv' /\ NumberInv'
    BY <2>1, <2>2 DEF IdInv, BornInv, NumberInv, Took
  <2>4. BoundInv'
    <3> SUFFICES ASSUME NEW i \in InstanceIds, instances'[i] # 0
                 PROVE  /\ worker[instances'[i]] # "none"
                        /\ pc'[instances'[i]] # "insert"
                        /\ IdOf(instances'[i]) = i
      BY <2>1 DEF BoundInv, IdOf
    <3>1. instances'[i] = instances[i]
      BY <2>1 DEF InnerTypeOK
    <3>2. instances[i] \in Frames
      BY <3>1, BoundIsFrame
    <3> QED
      BY <2>1, <2>2, <3>1, <3>2 DEF IdInv, BoundInv
  <2> QED
    BY <2>3, <2>4 DEF IdInv
<1>5. CASE Reject(t) \/ Initialize(t) \/ Shutdown(t) \/ ExitNotice(t) \/ Ignore(t)
           \/ Snapshot(t) \/ SendCall(t) \/ SetActivated(t) \/ StopWorker(t)
           \/ TakeCallback(t) \/ Deliver(t) \/ Respond(t)
  <2>1. UNCHANGED <<nread, frame, number, instances, counter, worker>>
    BY <1>5 DEF Reject, Initialize, Shutdown, ExitNotice, Ignore, Snapshot, SendCall,
                SetActivated, StopWorker, TakeCallback, Deliver, Respond, inner, workers
  <2>2. \E v : pc' = [pc EXCEPT ![t] = v] /\ v \notin {"start", "instantiate", "insert"}
    <3>1. CASE Reject(t) \/ Shutdown(t) \/ ExitNotice(t) \/ Ignore(t) \/ TakeCallback(t)
               \/ Deliver(t) \/ StopWorker(t) \/ Respond(t)
      BY <3>1 DEF Reject, Shutdown, ExitNotice, Ignore, TakeCallback, Deliver,
                  StopWorker, Respond
    <3>2. /\ \A ok : Outcome(ok) \notin {"start", "instantiate", "insert"}
          /\ AfterDrop(t) \notin {"start", "instantiate", "insert"}
      BY DEF Outcome, AfterDrop
    <3>3. CASE Initialize(t)
      BY <3>2, <3>3 DEF Initialize
    <3>4. CASE Snapshot(t)
      <4>1. PICK v \in {AfterDrop(t), "send"} : pc' = [pc EXCEPT ![t] = v]
        BY <3>4 DEF Snapshot
      <4> QED
        BY <3>2, <4>1
    <3>5. CASE SendCall(t)
      BY <3>2, <3>5 DEF SendCall
    <3>6. CASE SetActivated(t)
      BY <3>2, <3>6 DEF SetActivated
    <3> QED
      BY <1>5, <3>1, <3>3, <3>4, <3>5, <3>6
  <2> QED
    BY <2>1, <2>2, IdStutter DEF TasksTypeOK
<1> QED
  BY <1>1, <1>2, <1>3, <1>4, <1>5 DEF TaskStep

LEMMA WorkerIds ==
    ASSUME TypeInv, IdInv, NEW w \in Frames, WorkerStep(w)
    PROVE  IdInv'
<1> USE DEF TypeInv, TypeOK
<1>1. UNCHANGED <<nread, frame, number, instances, counter>>
  BY DEF WorkerStep, Receive, Abandon, Import, Notify, Allocate, CallHost, Answered,
         Timeout, Return, tasks, inner
<1>2. \A t \in Frames : worker'[t] # "none" <=> worker[t] # "none"
  BY DEF WorkerStep, Receive, Abandon, Import, Notify, Allocate, CallHost, Answered,
         Timeout, Return, WorkersTypeOK
<1>3. \A t \in Frames : pc'[t] = pc[t] \/ pc'[t] \notin {"start", "instantiate", "insert"}
  <2>1. CASE Receive(w)
    BY <2>1 DEF Receive, AfterDrop
  <2>2. ASSUME NEW ok \in BOOLEAN, Return(w, ok)
        PROVE  \A t \in Frames : pc'[t] = pc[t]
                                   \/ pc'[t] \notin {"start", "instantiate", "insert"}
    <3>1. AfterReply(serving[w], ok) \notin {"start", "instantiate", "insert"}
      BY DEF AfterReply, Outcome
    <3> QED
      BY <2>2, <3>1 DEF Return, TasksTypeOK
  <2>3. CASE Abandon(w) \/ Import(w) \/ CallHost(w) \/ Answered(w) \/ Timeout(w)
    BY <2>3 DEF Abandon, Import, Notify, Allocate, CallHost, Answered, Timeout, tasks
  <2> QED
    BY <2>1, <2>2, <2>3 DEF WorkerStep
<1> QED
  BY <1>1, <1>2, <1>3, IdStutter

LEMMA ReaderIds ==
    ASSUME TypeInv, IdInv, ReaderStep \/ WriterWrite \/ WriterFail \/ UNCHANGED vars
    PROVE  IdInv'
<1>1. CASE \E f : Spawn(f)
  BY <1>1, SpawnIds
<1>2. CASE ~\E f : Spawn(f)
  <2>1. CheckExit \/ CloseInput \/ Drained \/ Exit \/ WriterWrite \/ WriterFail
          \/ UNCHANGED vars
    BY <1>2 DEF ReaderStep, ReadControl, ReadInitialize, ReadLoad, ReadForInstance,
                ReadResponse
  <2>2. UNCHANGED <<nread, frame, pc, number, instances, counter, worker>>
    BY <2>1 DEF CheckExit, CloseInput, Drained, Exit, WriterWrite, WriterFail, vars,
                tasks, inner, workers
  <2> QED
    BY <2>2, IdStutter
<1> QED
  BY <1>1, <1>2

LEMMA StepIds == TypeInv /\ IdInv /\ [Next]_vars => IdInv'
BY TaskIds, WorkerIds, ReaderIds DEF Next, Stopped

LEMMA IdInvariant == Spec => []IdInv
BY InitIds, StepIds, TypeInvariant, PTL DEF Spec

\* The only step that binds an id takes one no loaded instance has.
LEMMA BindsFreshId ==
    ASSUME TypeInv, IdInv, NEW t \in Frames, LoadInsert(t), counter <= IdWrap
    PROVE  instances[IdOf(t)] = 0
<1> DEFINE i == IdOf(t)
<1> SUFFICES ASSUME instances[i] # 0 PROVE FALSE
  OBVIOUS
<1>1. pc[t] = "insert" /\ Took(t) /\ frame[t].kind = "load"
  BY DEF LoadInsert, Step, Took, IdInv, BornInv
<1>2. i \in InstanceIds
  BY <1>1, IdType DEF TypeInv
<1>3. PICK u \in Frames : u = instances[i]
  BY <1>2, BoundIsFrame
<1>4. Took(u) /\ IdOf(u) = i /\ u # t
  BY <1>1, <1>2, <1>3 DEF IdInv, BoundInv, Took
<1>5. number[t] \in Nat /\ number[u] \in Nat /\ counter \in Nat
  BY <1>3 DEF TypeInv, TypeOK, TasksTypeOK, InnerTypeOK
<1>6. number[t] < IdWrap /\ number[u] < IdWrap
  BY <1>1, <1>4, <1>5, WrapAssumption DEF IdInv, NumberInv
<1>7. number[t] % IdWrap = number[t] /\ number[u] % IdWrap = number[u]
  BY <1>5, <1>6, WrapAssumption
<1>8. number[t] = number[u]
  BY <1>4, <1>7 DEF IdOf
<1> QED
  BY <1>1, <1>4, <1>8 DEF IdInv, NumberInv

\* For every bound on frames, queues and the counter: within one period of the
\* counter next_instance_suffix draws from, no load replaces an instance that is
\* loaded, whatever loads, unloads and calls are in flight.
THEOREM NeverReboundHolds == Spec => NeverRebound
<1> DEFINE Kept == counter' <= IdWrap =>
                     \A i \in InstanceIds :
                       instances[i] # 0 => instances'[i] \in {0, instances[i]}
<1>1. ASSUME TypeInv, IdInv, [Next]_vars PROVE [Kept]_vars
  <2> SUFFICES ASSUME Next, counter' <= IdWrap, NEW i \in InstanceIds,
                      instances[i] # 0
               PROVE  instances'[i] \in {0, instances[i]}
    BY <1>1
  <2>1. CASE UNCHANGED instances
    BY <2>1
  <2>2. ASSUME NEW t \in Frames, LoadInsert(t)
        PROVE  instances'[i] \in {0, instances[i]}
    <3>1. UNCHANGED counter /\ instances' = [instances EXCEPT ![IdOf(t)] = t]
      BY <2>2 DEF LoadInsert
    <3>2. instances[IdOf(t)] = 0
      BY <1>1, <2>2, <3>1, BindsFreshId
    <3> QED
      BY <1>1, <3>1, <3>2 DEF TypeInv, TypeOK, InnerTypeOK
  <2>3. ASSUME NEW t \in Frames, Unload(t)
        PROVE  instances'[i] \in {0, instances[i]}
    BY <1>1, <2>3 DEF Unload, TypeInv, TypeOK, InnerTypeOK
  <2>4. UNCHANGED instances \/ \E t \in Frames : LoadInsert(t) \/ Unload(t)
    <3>1. ASSUME NEW t \in Frames, TaskStep(t)
          PROVE  UNCHANGED instances \/ LoadInsert(t) \/ Unload(t)
      BY <3>1 DEF TaskStep, Reject, Initialize, Shutdown, ExitNotice, LoadBegin,
                  LoadInstantiate, Snapshot, SendCall, SetActivated, StopWorker,
                  Ignore, TakeCallback, Deliver, Respond, inner
    <3>2. ASSUME NEW w \in Frames, WorkerStep(w) PROVE UNCHANGED instances
      BY <3>2 DEF WorkerStep, Receive, Abandon, Import, Notify, Allocate, CallHost,
                  Answered, Timeout, Return, inner
    <3>3. CASE ReaderStep \/ WriterWrite \/ WriterFail \/ Stopped
      BY <3>3 DEF ReaderStep, ReadControl, ReadInitialize, ReadLoad, ReadForInstance,
                  ReadResponse, Spawn, CheckExit, CloseInput, Drained, Exit,
                  WriterWrite, WriterFail, Stopped, vars, inner
    <3> QED
      BY <3>1, <3>2, <3>3 DEF Next
  <2> QED
    BY <2>1, <2>2, <2>3, <2>4
<1> QED
  BY <1>1, TypeInvariant, IdInvariant, PTL DEF Spec, NeverRebound

-----------------------------------------------------------------------------
(* The calls handlers make on workers.                                      *)

\* Frames that have not been read have no task.
FreshInv == \A t \in Frames : t > nread => pc[t] = "unread"

\* A task that calls a worker holds its handle.
HandleInv == \A t \in Frames : pc[t] \in {"send", "await"} => target[t] \in Frames

\* A worker that is not inside an export serves nobody.
IdleInv == \A w \in Frames : ~Busy(w) => serving[w] = 0

Places(w)    == 1 .. Len(queue[w])
Queued(w, t) == \E n \in Places(w) : queue[w][n] = t
Once(w, t)   == \A m, n \in Places(w) : queue[w][m] = t /\ queue[w][n] = t => m = n

\* A handler that awaits is served or queued, once, by a worker in its loop.
AwaitInv ==
    \A t \in Frames : pc[t] = "await" =>
        /\ worker[target[t]] # "gone"
        /\ serving[target[t]] = t <=> ~Queued(target[t], t)
        /\ Once(target[t], t)

\* What a worker serves or has in its queue is a handler that awaits it.
HolderInv ==
    \A w, t \in Frames :
        serving[w] = t \/ Queued(w, t) => pc[t] = "await" /\ target[t] = w

ReplyInv == FreshInv /\ HandleInv /\ IdleInv /\ AwaitInv /\ HolderInv

-----------------------------------------------------------------------------
LEMMA InitReply == Init => ReplyInv
<1> SUFFICES ASSUME Init PROVE ReplyInv
  OBVIOUS
<1>1. \A w \in Frames : Places(w) = {}
  BY DEF Init, Places
<1> QED
  BY <1>1 DEF Init, ReplyInv, FreshInv, HandleInv, IdleInv, AwaitInv, HolderInv, Queued,
              Busy, Frames

LEMMA QueueType ==
    ASSUME TypeInv, NEW w \in Frames
    PROVE  /\ queue[w] \in Seq(FrameOrNone)
           /\ Len(queue[w]) \in Nat
           /\ \A n \in Places(w) : queue[w][n] \in FrameOrNone
<1>1. queue[w] \in Seq(FrameOrNone)
  BY DEF TypeInv, TypeOK, WorkersTypeOK
<1> QED
  BY <1>1 DEF Places

\* Steps that leave the queues and what is served alone, and start and end no
\* wait of a handler.
LEMMA ReplyStutter ==
    ASSUME TypeInv, ReplyInv, FreshInv',
           UNCHANGED <<queue, serving>>,
           \A w \in Frames : /\ worker'[w] = "gone" => worker[w] = "gone"
                             /\ ~Busy(w)' => serving[w] = 0,
           \A t \in Frames :
               \/ pc'[t] = pc[t] /\ target'[t] = target[t]
               \/ /\ pc[t] # "await" /\ pc'[t] # "await"
                  /\ pc'[t] = "send" => target'[t] \in Frames
    PROVE  ReplyInv'
<1>1. \A w : Places(w)' = Places(w)
  BY DEF Places
<1>2. \A w, t : Queued(w, t)' = Queued(w, t) /\ Once(w, t)' = Once(w, t)
  BY <1>1 DEF Queued, Once
<1>3. HandleInv' /\ IdleInv'
  BY DEF ReplyInv, HandleInv, IdleInv
<1>4. AwaitInv'
  BY <1>2 DEF ReplyInv, AwaitInv, HandleInv
<1>5. HolderInv'
  BY <1>2 DEF ReplyInv, HolderInv
<1> QED
  BY <1>3, <1>4, <1>5 DEF ReplyInv

\* A task that has been read and changes its state is still one that was read.
LEMMA FreshStep ==
    ASSUME TypeInv, ReplyInv, UNCHANGED nread, NEW t \in Frames, pc[t] # "unread",
           \A u \in Frames \ {t} : pc'[u] = pc[u]
    PROVE  FreshInv'
BY DEF ReplyInv, FreshInv

-----------------------------------------------------------------------------
(* Tasks.                                                                   *)

LEMMA SpawnReply ==
    ASSUME TypeInv, ReplyInv, NEW f, Spawn(f)
    PROVE  ReplyInv'
<1> DEFINE n == nread + 1
<1>1. n \in Frames /\ nread \in Nat /\ pc[n] = "unread"
  BY BoundAssumption
  DEF Spawn, TypeInv, TypeOK, TasksTypeOK, ReplyInv, FreshInv, Frames
<1>2. pc' = [pc EXCEPT ![n] = "start"] /\ nread' = n
      /\ UNCHANGED <<target, worker, queue, serving>>
  BY DEF Spawn, workers
<1>3. FreshInv'
  BY <1>1, <1>2 DEF ReplyInv, FreshInv, TypeInv, TypeOK, TasksTypeOK, Frames
<1>4. \A t \in Frames : t # n => pc'[t] = pc[t]
  BY <1>2 DEF TypeInv, TypeOK, TasksTypeOK
<1>5. pc'[n] = "start"
  BY <1>1, <1>2 DEF TypeInv, TypeOK, TasksTypeOK
<1>6. \A w \in Frames : ~Busy(w)' => serving[w] = 0
  BY <1>2 DEF ReplyInv, IdleInv, Busy
<1> QED
  BY <1>1, <1>2, <1>3, <1>4, <1>5, <1>6, ReplyStutter

LEMMA ReaderReply ==
    ASSUME TypeInv, ReplyInv, ReaderStep \/ WriterWrite \/ WriterFail \/ UNCHANGED vars
    PROVE  ReplyInv'
<1>1. CASE \E f : Spawn(f)
  BY <1>1, SpawnReply
<1>2. CASE ~\E f : Spawn(f)
  <2>1. CheckExit \/ CloseInput \/ Drained \/ Exit \/ WriterWrite \/ WriterFail
          \/ UNCHANGED vars
    BY <1>2 DEF ReaderStep, ReadControl, ReadInitialize, ReadLoad, ReadForInstance,
                ReadResponse
  <2>2. UNCHANGED <<nread, pc, target, worker, queue, serving>>
    BY <2>1 DEF CheckExit, CloseInput, Drained, Exit, WriterWrite, WriterFail, vars,
                tasks, inner, workers
  <2>3. FreshInv'
    BY <2>2 DEF ReplyInv, FreshInv
  <2>4. \A w \in Frames : ~Busy(w)' => serving[w] = 0
    BY <2>2 DEF ReplyInv, IdleInv, Busy
  <2> QED
    BY <2>2, <2>3, <2>4, ReplyStutter
<1> QED
  BY <1>1, <1>2

\* A call or a Shutdown is queued behind what is there.
LEMMA Enqueued ==
    ASSUME TypeInv, NEW w \in Frames, NEW x \in FrameOrNone,
           queue' = [queue EXCEPT ![w] = Append(@, x)]
    PROVE  /\ \A v \in Frames \ {w} : queue'[v] = queue[v]
           /\ Len(queue'[w]) = Len(queue[w]) + 1
           /\ queue'[w][Len(queue[w]) + 1] = x
           /\ \A n \in Places(w) : queue'[w][n] = queue[w][n]
<1>1. queue[w] \in Seq(FrameOrNone) /\ queue \in [Frames -> Seq(FrameOrNone)]
  BY DEF TypeInv, TypeOK, WorkersTypeOK
<1>2. queue'[w] = Append(queue[w], x)
  BY <1>1
<1> QED
  BY <1>1, <1>2 DEF Places

LEMMA EnqueuedPlaces ==
    ASSUME TypeInv, NEW w \in Frames, NEW x \in FrameOrNone,
           queue' = [queue EXCEPT ![w] = Append(@, x)]
    PROVE  /\ queue' # queue
           /\ \A v, u \in Frames :
                /\ Queued(v, u)' <=> Queued(v, u) \/ (v = w /\ u = x)
                /\ Once(v, u) /\ (v # w \/ u # x \/ ~Queued(v, u)) => Once(v, u)'
<1>1. /\ \A v \in Frames \ {w} : queue'[v] = queue[v]
      /\ Len(queue'[w]) = Len(queue[w]) + 1 /\ Len(queue[w]) \in Nat
      /\ queue'[w][Len(queue[w]) + 1] = x
      /\ \A n \in Places(w) : queue'[w][n] = queue[w][n]
  BY Enqueued, QueueType
<1>2. Places(w)' = Places(w) \cup {Len(queue[w]) + 1} /\ Len(queue[w]) + 1 \notin Places(w)
  BY <1>1 DEF Places
<1>3. \A v \in Frames \ {w}, u \in Frames : /\ Queued(v, u)' <=> Queued(v, u)
                                            /\ Once(v, u)' <=> Once(v, u)
  BY <1>1 DEF Queued, Once, Places
<1>4. \A u \in Frames : Queued(w, u)' <=> Queued(w, u) \/ u = x
  BY <1>1, <1>2 DEF Queued
<1>5. \A u \in Frames : Once(w, u) /\ (u # x \/ ~Queued(w, u)) => Once(w, u)'
  <2> SUFFICES ASSUME NEW u \in Frames, Once(w, u), u # x \/ ~Queued(w, u),
                      NEW m \in Places(w)', NEW n \in Places(w)',
                      queue'[w][m] = u, queue'[w][n] = u
               PROVE  m = n
    BY DEF Once
  <2> QED
    BY <1>1, <1>2 DEF Once, Queued
<1> QED
  BY <1>1, <1>3, <1>4, <1>5

\* SendCall: the task goes from "send" to the end of its worker's queue.
LEMMA SendReply ==
    ASSUME TypeInv, ReplyInv, NEW t \in Frames, SendCall(t)
    PROVE  ReplyInv'
<1>1. PICK w \in Frames : w = target[t]
  BY DEF SendCall, ReplyInv, HandleInv
<1>2. pc[t] = "send" /\ UNCHANGED <<nread, worker, serving>>
      /\ pc \in [Frames -> TaskStates] /\ target \in [Frames -> FrameOrNone]
  BY DEF SendCall, TypeInv, TypeOK, TasksTypeOK
<1>3. \A v \in Frames : ~Busy(v)' => serving[v] = 0
  BY <1>2 DEF ReplyInv, IdleInv, Busy
<1>4. CASE /\ worker[w] = "gone" /\ UNCHANGED queue
           /\ pc' = [pc EXCEPT ![t] = AfterDrop(t)] /\ target' = [target EXCEPT ![t] = 0]
  <2>1. \A u \in Frames \ {t} : pc'[u] = pc[u] /\ target'[u] = target[u]
    BY <1>2, <1>4
  <2>2. pc'[t] \notin {"send", "await"}
    BY <1>2, <1>4 DEF AfterDrop
  <2>3. FreshInv'
    BY <1>2, <2>1, FreshStep
  <2> QED
    BY <1>2, <1>3, <1>4, <2>1, <2>2, <2>3, ReplyStutter
<1>5. CASE /\ worker[w] # "gone" /\ UNCHANGED target
           /\ queue' = [queue EXCEPT ![w] = Append(@, t)]
           /\ pc' = [pc EXCEPT ![t] = "await"]
  <2>1. (\A u \in Frames \ {t} : pc'[u] = pc[u]) /\ pc'[t] = "await"
    BY <1>2, <1>5
  <2>2. \A v \in Frames : ~Queued(v, t) /\ serving[v] # t
    BY <1>2 DEF ReplyInv, HolderInv
  <2>3. \A v, u \in Frames :
           /\ Queued(v, u)' <=> Queued(v, u) \/ (v = w /\ u = t)
           /\ Once(v, u) => Once(v, u)'
    <3>1. \A v, u \in Frames :
             /\ Queued(v, u)' <=> Queued(v, u) \/ (v = w /\ u = t)
             /\ Once(v, u) /\ (v # w \/ u # t \/ ~Queued(v, u)) => Once(v, u)'
      BY <1>5, EnqueuedPlaces, FrameIsSlot
    <3> QED
      BY <2>2, <3>1
  <2>4. FreshInv'
    BY <1>2, <2>1, FreshStep
  <2>5. HandleInv' /\ IdleInv'
    BY <1>2, <1>3, <1>5, <2>1 DEF ReplyInv, HandleInv, IdleInv
  <2>6. AwaitInv'
    <3> SUFFICES ASSUME NEW u \in Frames, pc'[u] = "await",
                        NEW v \in Frames, v = target[u]
                 PROVE  /\ worker[v] # "gone"
                        /\ serving[v] = u <=> ~Queued(v, u)'
                        /\ Once(v, u)'
      BY <1>2, <1>5, <2>5 DEF AwaitInv, HandleInv, Queued, Once, Places
    <3>1. CASE u = t
      <4>1. Once(v, u) /\ v = w
        BY <1>1, <2>2, <3>1 DEF Once, Queued
      <4> QED
        BY <1>5, <2>2, <2>3, <3>1, <4>1
    <3>2. CASE u # t
      BY <2>1, <2>3, <3>2 DEF ReplyInv, AwaitInv
    <3> QED
      BY <3>1, <3>2
  <2>7. HolderInv'
    BY <1>1, <1>2, <1>5, <2>1, <2>3 DEF ReplyInv, HolderInv
  <2> QED
    BY <2>4, <2>5, <2>6, <2>7 DEF ReplyInv
<1> QED
  BY <1>1, <1>4, <1>5 DEF SendCall

\* StopWorker: a Shutdown is nobody's place.
LEMMA StopReply ==
    ASSUME TypeInv, ReplyInv, NEW t \in Frames, StopWorker(t)
    PROVE  ReplyInv'
<1>1. /\ pc[t] = "stop" /\ UNCHANGED <<nread, worker, serving>>
      /\ \A u \in Frames \ {t} : pc'[u] = pc[u] /\ target'[u] = target[u]
      /\ pc'[t] = "done"
  BY DEF StopWorker, Step, TypeInv, TypeOK, TasksTypeOK
<1>2. \A v \in Frames : ~Busy(v)' => serving[v] = 0
  BY <1>1 DEF ReplyInv, IdleInv, Busy
<1>3. FreshInv'
  BY <1>1, FreshStep
<1>4. \A v, u \in Frames : (Queued(v, u)' <=> Queued(v, u)) /\ (Once(v, u) => Once(v, u)')
  <2>1. CASE UNCHANGED queue
    BY <2>1 DEF Queued, Once, Places
  <2>2. CASE ~UNCHANGED queue
    <3>1. PICK w : w = target[t]
      OBVIOUS
    <3>2. queue' = [queue EXCEPT ![w] = Append(@, 0)]
      BY <2>2, <3>1 DEF StopWorker
    <3>3. w \in Frames
      BY <2>2, <3>2 DEF TypeInv, TypeOK, WorkersTypeOK
    <3>4. \A u \in Frames : u # 0
      BY DEF Frames
    <3> QED
      BY <3>2, <3>3, <3>4, EnqueuedPlaces, FrameIsSlot
  <2> QED
    BY <2>1, <2>2
<1>5. HandleInv' /\ IdleInv'
  BY <1>1, <1>2 DEF ReplyInv, HandleInv, IdleInv
<1>6. AwaitInv'
  BY <1>1, <1>4 DEF ReplyInv, AwaitInv, HandleInv
<1>7. HolderInv'
  BY <1>1, <1>4 DEF ReplyInv, HolderInv
<1> QED
  BY <1>3, <1>5, <1>6, <1>7 DEF ReplyInv

LEMMA TaskReply ==
    ASSUME TypeInv, ReplyInv, IdInv, NEW t \in Frames, TaskStep(t)
    PROVE  ReplyInv'
<1> USE DEF TypeInv, TypeOK, Step
<1>1. CASE SendCall(t) \/ StopWorker(t)
  BY <1>1, SendReply, StopReply
<1>2. CASE ~(SendCall(t) \/ StopWorker(t))
  <2>1. UNCHANGED <<nread, queue, serving>>
    BY <1>2 DEF TaskStep, Reject, Initialize, Shutdown, ExitNotice, LoadBegin,
                LoadInstantiate, LoadInsert, Snapshot, SetActivated, Unload, Ignore,
                TakeCallback, Deliver, Respond, inner, workers
  <2>2. \A w \in Frames : \/ worker'[w] = worker[w]
                          \/ worker[w] = "none" /\ worker'[w] = "idle"
    <3>1. CASE LoadInstantiate(t)
      <4>1. worker[t] = "none" /\ worker \in [Frames -> WorkerStates]
        BY <3>1 DEF LoadInstantiate, WorkersTypeOK, IdInv, BornInv
      <4>2. UNCHANGED worker \/ worker' = [worker EXCEPT ![t] = "idle"]
        BY <3>1 DEF LoadInstantiate
      <4> QED
        BY <4>1, <4>2
    <3>2. CASE ~LoadInstantiate(t)
      <4>1. UNCHANGED worker
        BY <1>2, <3>2 DEF TaskStep, Reject, Initialize, Shutdown, ExitNotice, LoadBegin,
                  LoadInsert, Snapshot, SetActivated, Unload, Ignore,
                  TakeCallback, Deliver, Respond, workers
      <4> QED
        BY <4>1
    <3> QED
      BY <3>1, <3>2
  <2>3. /\ pc[t] \notin {"unread", "send", "await"} /\ pc'[t] # "await"
        /\ pc'[t] = "send" => target'[t] \in Frames
        /\ \A u \in Frames \ {t} : pc'[u] = pc[u] /\ target'[u] = target[u]
    <3>1. CASE Snapshot(t)
      <4>1. PICK w : w = instances[frame[t].inst]
        OBVIOUS
      <4>2. w = 0 \/ w \in Frames
        <5>1. frame[t].inst \in InstanceIds
          BY <3>1, InstType DEF Snapshot
        <5> QED
          BY <4>1, <5>1, FrameIsSlot DEF InnerTypeOK
      <4>3. /\ pc[t] = "start" /\ target' = [target EXCEPT ![t] = w]
            /\ pc' = [pc EXCEPT ![t] = IF w = 0 THEN AfterDrop(t) ELSE "send"]
        BY <3>1, <4>1 DEF Snapshot
      <4>4. AfterDrop(t) \notin {"send", "await"}
        BY DEF AfterDrop
      <4> QED
        BY <4>2, <4>3, <4>4 DEF TasksTypeOK
    <3>2. CASE Reject(t) \/ Shutdown(t) \/ ExitNotice(t) \/ Ignore(t) \/ TakeCallback(t)
               \/ Deliver(t) \/ Respond(t) \/ LoadBegin(t) \/ LoadInstantiate(t)
               \/ LoadInsert(t) \/ Unload(t)
      BY <3>2 DEF Reject, Shutdown, ExitNotice, Ignore, TakeCallback, Deliver, Respond,
                  LoadBegin, LoadInstantiate, LoadInsert, Unload, TasksTypeOK
    <3>3. CASE Initialize(t) \/ SetActivated(t)
      BY <3>3 DEF Initialize, SetActivated, Outcome, TasksTypeOK
    <3> QED
      BY <1>2, <3>1, <3>2, <3>3 DEF TaskStep
  <2>4. FreshInv'
    BY <2>1, <2>3, FreshStep
  <2>5. \A w \in Frames : /\ worker'[w] = "gone" => worker[w] = "gone"
                          /\ ~Busy(w)' => serving[w] = 0
    BY <2>2 DEF ReplyInv, IdleInv, Busy
  <2> QED
    BY <2>1, <2>3, <2>4, <2>5, ReplyStutter
<1> QED
  BY <1>1, <1>2

-----------------------------------------------------------------------------
(* Workers.                                                                 *)

\* What is left of a queue when its head has been taken.
LEMMA Dequeued ==
    ASSUME TypeInv, NEW w \in Frames, queue[w] # <<>>,
           queue' = [queue EXCEPT ![w] = Tail(@)],
           \A u \in Frames : Once(w, u)
    PROVE  /\ \A v \in Frames \ {w}, u \in Frames : /\ Queued(v, u)' <=> Queued(v, u)
                                                    /\ Once(v, u)' <=> Once(v, u)
           /\ \A u \in Frames : /\ Queued(w, u)' <=> Queued(w, u) /\ u # Head(queue[w])
                                /\ Once(w, u)'
           /\ Head(queue[w]) \in Frames => Queued(w, Head(queue[w]))
<1>1. queue[w] \in Seq(FrameOrNone) /\ queue \in [Frames -> Seq(FrameOrNone)]
  BY DEF TypeInv, TypeOK, WorkersTypeOK
<1>2. queue'[w] = Tail(queue[w]) /\ \A v \in Frames \ {w} : queue'[v] = queue[v]
  BY <1>1
<1>3. /\ Len(queue[w]) \in Nat \ {0} /\ Head(queue[w]) = queue[w][1]
      /\ Len(queue'[w]) = Len(queue[w]) - 1
      /\ \A n \in 1 .. Len(queue[w]) - 1 : queue'[w][n] = queue[w][n + 1]
  <2>1. Len(queue[w]) \in Nat \ {0} /\ Head(queue[w]) = queue[w][1]
    BY <1>1
  <2>2. /\ Len(Tail(queue[w])) = Len(queue[w]) - 1
        /\ \A n \in 1 .. Len(Tail(queue[w])) : Tail(queue[w])[n] = queue[w][n + 1]
    BY <1>1, HeadTailProperties
  <2> QED
    BY <1>2, <2>1, <2>2
<1>4. \A v \in Frames \ {w}, u \in Frames : /\ Queued(v, u)' <=> Queued(v, u)
                                            /\ Once(v, u)' <=> Once(v, u)
  BY <1>2 DEF Queued, Once, Places
<1>5. 1 \in Places(w) /\ \A n \in Places(w)' : n + 1 \in Places(w) /\ n + 1 # 1
  BY <1>3 DEF Places
<1>6. ASSUME NEW u \in Frames
      PROVE  /\ Queued(w, u)' <=> Queued(w, u) /\ u # Head(queue[w])
             /\ Once(w, u)'
  <2>1. ASSUME Queued(w, u)' PROVE Queued(w, u) /\ u # Head(queue[w])
    <3>1. PICK n \in Places(w)' : queue'[w][n] = u
      BY <2>1 DEF Queued
    <3>2. queue[w][n + 1] = u /\ n + 1 \in Places(w) /\ n + 1 # 1
      BY <1>3, <1>5, <3>1 DEF Places
    <3> QED
      BY <1>3, <1>5, <3>2 DEF Queued, Once
  <2>2. ASSUME Queued(w, u), u # Head(queue[w]) PROVE Queued(w, u)'
    <3>1. PICK n \in Places(w) : queue[w][n] = u
      BY <2>2 DEF Queued
    <3>2. n # 1 /\ n - 1 \in Places(w)'
      BY <1>3, <2>2, <3>1 DEF Places
    <3>3. queue'[w][n - 1] = u
      BY <1>3, <3>1, <3>2 DEF Places
    <3> QED
      BY <3>2, <3>3 DEF Queued
  <2>3. Once(w, u)'
    <3> SUFFICES ASSUME NEW m \in Places(w)', NEW n \in Places(w)',
                        queue'[w][m] = u, queue'[w][n] = u
                 PROVE  m = n
      BY DEF Once
    <3>1. /\ queue[w][m + 1] = u /\ m + 1 \in Places(w)
          /\ queue[w][n + 1] = u /\ n + 1 \in Places(w)
      BY <1>3, <1>5 DEF Places
    <3>2. m + 1 = n + 1
      BY <3>1 DEF Once
    <3> QED
      BY <3>2, <1>3 DEF Places
  <2> QED
    BY <2>1, <2>2, <2>3
<1>7. Head(queue[w]) \in Frames => Queued(w, Head(queue[w]))
  BY <1>3, <1>5 DEF Queued
<1> QED
  BY <1>4, <1>6, <1>7

\* No task has two places in one queue, waiting or not.
LEMMA AllOnce ==
    ASSUME ReplyInv, NEW w \in Frames, NEW t \in Frames
    PROVE  Once(w, t)
<1>1. CASE Queued(w, t)
  BY <1>1 DEF ReplyInv, HolderInv, AwaitInv
<1>2. CASE ~Queued(w, t)
  BY <1>2 DEF Queued, Once
<1> QED
  BY <1>1, <1>2

\* The task a worker takes out of its queue is served by it; a Shutdown drops
\* those that wait for it.
LEMMA ReceiveReply ==
    ASSUME TypeInv, ReplyInv, NEW w \in Frames, Receive(w)
    PROVE  ReplyInv'
<1>1. /\ worker[w] = "idle" /\ queue[w] # <<>> /\ serving[w] = 0
      /\ UNCHANGED nread
      /\ worker \in [Frames -> WorkerStates] /\ serving \in [Frames -> FrameOrNone]
      /\ queue \in [Frames -> Seq(FrameOrNone)]
  BY DEF Receive, ReplyInv, IdleInv, Busy, TypeInv, TypeOK, WorkersTypeOK
<1>2. \A v, u \in Frames : Once(v, u)
  BY AllOnce
<1>3. PICK h : h = Head(queue[w])
  OBVIOUS
<1>4. CASE /\ h # 0 /\ UNCHANGED <<pc, target>>
           /\ worker' = [worker EXCEPT ![w] = "running"]
           /\ serving' = [serving EXCEPT ![w] = h]
           /\ queue' = [queue EXCEPT ![w] = Tail(@)]
  <2>1. h \in Frames
    <3>1. h \in FrameOrNone
      BY <1>1, <1>3, HeadTailProperties
    <3> QED
      BY <1>4, <3>1, FrameIsSlot
  <2>2. /\ \A v \in Frames \ {w}, u \in Frames : /\ Queued(v, u)' <=> Queued(v, u)
                                                 /\ Once(v, u)' <=> Once(v, u)
        /\ \A u \in Frames : (Queued(w, u)' <=> Queued(w, u) /\ u # h) /\ Once(w, u)'
        /\ Queued(w, h)
    BY <1>1, <1>2, <1>3, <1>4, <2>1, Dequeued
  <2>3. pc[h] = "await" /\ target[h] = w
    BY <2>1, <2>2 DEF ReplyInv, HolderInv
  <2>4. /\ serving'[w] = h /\ \A v \in Frames \ {w} : serving'[v] = serving[v]
        /\ worker'[w] = "running" /\ \A v \in Frames \ {w} : worker'[v] = worker[v]
    BY <1>1, <1>4
  <2>5. FreshInv' /\ HandleInv'
    BY <1>1, <1>4 DEF ReplyInv, FreshInv, HandleInv
  <2>6. IdleInv'
    BY <2>4 DEF ReplyInv, IdleInv, Busy
  <2>7. AwaitInv'
    <3> SUFFICES ASSUME NEW u \in Frames, pc[u] = "await", NEW v \in Frames, v = target[u]
                 PROVE  /\ worker'[v] # "gone"
                        /\ serving'[v] = u <=> ~Queued(v, u)'
                        /\ Once(v, u)'
      BY <1>4, <2>5 DEF AwaitInv, HandleInv
    <3>1. /\ worker[v] # "gone"
          /\ serving[v] = u <=> ~Queued(v, u)
      BY DEF ReplyInv, AwaitInv
    <3>2. CASE v = w
      <4>1. u # 0
        BY DEF Frames
      <4> QED
        BY <1>1, <2>2, <2>4, <3>1, <3>2, <4>1
    <3>3. CASE v # w
      BY <1>2, <2>2, <2>4, <3>1, <3>3
    <3> QED
      BY <3>2, <3>3
  <2>8. HolderInv'
    BY <1>4, <2>2, <2>3, <2>4 DEF ReplyInv, HolderInv
  <2> QED
    BY <2>5, <2>6, <2>7, <2>8 DEF ReplyInv
<1>5. CASE /\ worker' = [worker EXCEPT ![w] = "gone"]
           /\ queue' = [queue EXCEPT ![w] = <<>>]
           /\ LET dropped == {t \in Frames : pc[t] = "await" /\ target[t] = w}
              IN  /\ pc' = [t \in Frames |-> IF t \in dropped THEN AfterDrop(t) ELSE pc[t]]
                  /\ target' = [t \in Frames |-> IF t \in dropped THEN 0 ELSE target[t]]
           /\ UNCHANGED serving
  <2>1. \A u \in Frames : \/ /\ pc[u] = "await" /\ target[u] = w
                             /\ pc'[u] = AfterDrop(u)
                          \/ /\ ~(pc[u] = "await" /\ target[u] = w)
                             /\ pc'[u] = pc[u] /\ target'[u] = target[u]
    BY <1>5
  <2>2. \A u : AfterDrop(u) \notin {"unread", "send", "await"}
    BY DEF AfterDrop
  <2>3. /\ \A v \in Frames \ {w} : queue'[v] = queue[v] /\ worker'[v] = worker[v]
        /\ queue'[w] = <<>> /\ worker'[w] = "gone"
    BY <1>1, <1>5
  <2>4. Places(w)' = {}
    BY <2>3 DEF Places
  <2>5. /\ \A v \in Frames \ {w}, u \in Frames : /\ Queued(v, u)' <=> Queued(v, u)
                                                 /\ Once(v, u)' <=> Once(v, u)
        /\ \A u \in Frames : ~Queued(w, u)'
    <3>1. \A u \in Frames : ~Queued(w, u)'
      BY <2>4 DEF Queued
    <3>2. \A v \in Frames \ {w}, u \in Frames : /\ Queued(v, u)' <=> Queued(v, u)
                                                /\ Once(v, u)' <=> Once(v, u)
      BY <2>3 DEF Queued, Once, Places
    <3> QED
      BY <3>1, <3>2
  <2>6. FreshInv'
    BY <1>1, <2>1 DEF ReplyInv, FreshInv, TypeInv, TypeOK, TasksTypeOK
  <2>7. HandleInv'
    BY <2>1, <2>2 DEF ReplyInv, HandleInv
  <2>8. IdleInv'
    BY <1>1, <1>5, <2>3 DEF ReplyInv, IdleInv, Busy
  <2>9. AwaitInv'
    <3> SUFFICES ASSUME NEW u \in Frames, pc'[u] = "await", NEW v \in Frames, v = target'[u]
                 PROVE  /\ worker'[v] # "gone"
                        /\ serving'[v] = u <=> ~Queued(v, u)'
                        /\ Once(v, u)'
      BY <2>7 DEF AwaitInv, HandleInv
    <3>1. pc[u] = "await" /\ target[u] = v /\ v # w
      BY <2>1, <2>2
    <3> QED
      BY <1>5, <2>3, <2>5, <3>1 DEF ReplyInv, AwaitInv
  <2>10. HolderInv'
    <3> SUFFICES ASSUME NEW v \in Frames, NEW u \in Frames, serving[v] = u \/ Queued(v, u)'
                 PROVE  pc'[u] = "await" /\ target'[u] = v
      BY <1>5 DEF HolderInv
    <3>1. v # w
      <4>1. u # 0
        BY DEF Frames
      <4> QED
        BY <1>1, <2>5, <4>1
    <3> QED
      BY <2>1, <2>5, <3>1 DEF ReplyInv, HolderInv
  <2> QED
    BY <2>6, <2>7, <2>8, <2>9, <2>10 DEF ReplyInv
<1> QED
  BY <1>3, <1>4, <1>5 DEF Receive

\* The reply of an export ends the wait of the task that was served.
LEMMA ReturnReply ==
    ASSUME TypeInv, ReplyInv, NEW w \in Frames, NEW ok \in BOOLEAN, Return(w, ok)
    PROVE  ReplyInv'
<1>1. PICK t : t = serving[w]
  OBVIOUS
<1>2. /\ worker[w] = "running" /\ t \in Frames
      /\ UNCHANGED <<nread, queue>>
      /\ worker' = [worker EXCEPT ![w] = "idle"]
      /\ serving' = [serving EXCEPT ![w] = 0]
      /\ pc' = [pc EXCEPT ![t] = AfterReply(t, ok)]
      /\ \A u \in Frames \ {t} : target'[u] = target[u]
  BY <1>1 DEF Return, TypeInv, TypeOK, TasksTypeOK, ServingInv, Busy
<1>3. AfterReply(t, ok) \notin {"unread", "send", "await"}
  BY DEF AfterReply, Outcome
<1>4. /\ \A u \in Frames \ {t} : pc'[u] = pc[u]
      /\ pc'[t] \notin {"unread", "send", "await"}
      /\ serving'[w] = 0 /\ \A v \in Frames \ {w} : serving'[v] = serving[v]
      /\ worker'[w] = "idle" /\ \A v \in Frames \ {w} : worker'[v] = worker[v]
  BY <1>2, <1>3 DEF TypeInv, TypeOK, TasksTypeOK, WorkersTypeOK
<1>5. pc[t] = "await" /\ target[t] = w
  BY <1>1, <1>2 DEF ReplyInv, HolderInv
<1>6. \A v \in Frames : ~Queued(v, t) /\ (serving[v] = t => v = w)
  BY <1>1, <1>2, <1>5 DEF ReplyInv, HolderInv, AwaitInv
<1>7. \A v, u \in Frames : /\ Queued(v, u)' <=> Queued(v, u)
                           /\ Once(v, u)' <=> Once(v, u)
  BY <1>2 DEF Queued, Once, Places
<1>8. FreshInv' /\ HandleInv'
  BY <1>2, <1>4, <1>5 DEF ReplyInv, FreshInv, HandleInv
<1>9. IdleInv'
  BY <1>4 DEF ReplyInv, IdleInv, Busy
<1>10. AwaitInv'
  <2> SUFFICES ASSUME NEW u \in Frames, pc'[u] = "await", NEW v \in Frames, v = target'[u]
               PROVE  /\ worker'[v] # "gone"
                      /\ serving'[v] = u <=> ~Queued(v, u)'
                      /\ Once(v, u)'
    BY <1>8 DEF AwaitInv, HandleInv
  <2>1. u # t /\ pc[u] = "await" /\ target[u] = v
    BY <1>2, <1>4
  <2>2. serving'[v] = u <=> serving[v] = u
    <3>1. u # 0
      BY DEF Frames
    <3> QED
      BY <1>1, <1>4, <2>1, <3>1
  <2> QED
    BY <1>4, <1>7, <2>1, <2>2 DEF ReplyInv, AwaitInv
<1>11. HolderInv'
  <2> SUFFICES ASSUME NEW v \in Frames, NEW u \in Frames, serving'[v] = u \/ Queued(v, u)'
               PROVE  pc'[u] = "await" /\ target'[u] = v
    BY DEF HolderInv
  <2>1. u # 0
    BY DEF Frames
  <2>2. u # t /\ (serving[v] = u \/ Queued(v, u))
    BY <1>4, <1>6, <1>7, <2>1
  <2> QED
    BY <1>2, <1>4, <2>2 DEF ReplyInv, HolderInv
<1> QED
  BY <1>8, <1>9, <1>10, <1>11 DEF ReplyInv

LEMMA WorkerReply ==
    ASSUME TypeInv, ReplyInv, NEW w \in Frames, WorkerStep(w)
    PROVE  ReplyInv'
<1>1. CASE Receive(w) \/ \E ok \in BOOLEAN : Return(w, ok)
  BY <1>1, ReceiveReply, ReturnReply
<1>2. CASE Abandon(w)
  <2>1. /\ UNCHANGED <<nread, pc, target, queue, serving>>
        /\ worker' = [worker EXCEPT ![w] = "gone"] /\ worker[w] = "idle"
        /\ \A t \in Frames : target[t] # w
    BY <1>2 DEF Abandon, tasks
  <2>2. /\ \A v \in Frames \ {w} : worker'[v] = worker[v]
        /\ worker'[w] = "gone"
    BY <2>1 DEF TypeInv, TypeOK, WorkersTypeOK
  <2>3. \A v, u \in Frames : Queued(v, u)' = Queued(v, u) /\ Once(v, u)' = Once(v, u)
    BY <2>1 DEF Queued, Once, Places
  <2>4. FreshInv' /\ HandleInv' /\ HolderInv'
    BY <2>1, <2>3 DEF ReplyInv, FreshInv, HandleInv, HolderInv
  <2>5. IdleInv'
    BY <2>1, <2>2 DEF ReplyInv, IdleInv, Busy
  <2>6. AwaitInv'
    BY <2>1, <2>2, <2>3 DEF ReplyInv, AwaitInv, HandleInv
  <2> QED
    BY <2>4, <2>5, <2>6 DEF ReplyInv
<1>3. CASE Import(w) \/ CallHost(w) \/ Answered(w) \/ Timeout(w)
  <2>1. UNCHANGED <<nread, pc, target, queue, serving>>
    BY <1>3 DEF Import, Notify, Allocate, CallHost, Answered, Timeout, tasks
  <2>2. \A v \in Frames : \/ worker'[v] = worker[v]
                          \/ /\ Busy(v) /\ worker'[v] \in {"running", "calling", "waiting"}
    BY <1>3 DEF Import, Notify, Allocate, CallHost, Answered, Timeout, Busy, TypeInv,
                TypeOK, WorkersTypeOK
  <2>3. \A v \in Frames : /\ worker'[v] = "gone" => worker[v] = "gone"
                          /\ ~Busy(v)' => serving[v] = 0
    BY <2>2 DEF ReplyInv, IdleInv, Busy
  <2>4. FreshInv'
    BY <2>1 DEF ReplyInv, FreshInv
  <2> QED
    BY <2>1, <2>3, <2>4, ReplyStutter
<1> QED
  BY <1>1, <1>2, <1>3 DEF WorkerStep

LEMMA StepReply == TypeInv /\ IdInv /\ ReplyInv /\ [Next]_vars => ReplyInv'
BY ReaderReply, TaskReply, WorkerReply DEF Next, Stopped

LEMMA ReplyInvariant == Spec => []ReplyInv
BY InitReply, StepReply, TypeInvariant, IdInvariant, PTL DEF Spec

\* For any number of frames and any capacity of the queues: no handler waits for
\* a reply that cannot come, whatever unloads, Shutdowns and dropped handles end
\* the workers in the meantime.
THEOREM NoLostReplyHolds == Spec => []NoLostReply
<1>1. ASSUME TypeInv, ReplyInv PROVE NoLostReply
  <2>1. ASSUME NEW t \in Frames, pc[t] = "await",
               NEW w \in Frames, w = target[t]
        PROVE  LET places == {n \in 1 .. Len(queue[w]) : queue[w][n] = t}
               IN  /\ worker[w] # "gone"
                   /\ IF serving[w] = t THEN places = {} ELSE Cardinality(places) = 1
    <3> DEFINE places == {n \in 1 .. Len(queue[w]) : queue[w][n] = t}
    <3>1. worker[w] # "gone" /\ (serving[w] = t <=> ~Queued(w, t)) /\ Once(w, t)
      BY <1>1, <2>1 DEF ReplyInv, AwaitInv
    <3>2. CASE serving[w] = t
      BY <3>1, <3>2 DEF Queued, Places
    <3>3. CASE serving[w] # t
      <4>1. PICK n : places = {n}
        BY <3>1, <3>3 DEF Queued, Once, Places
      <4> QED
        BY <3>1, <3>3, <4>1, FS_Singleton
    <3> QED
      BY <3>2, <3>3
  <2>2. \A w \in Frames :
           /\ serving[w] # 0 => pc[serving[w]] = "await" /\ target[serving[w]] = w
           /\ \A n \in 1 .. Len(queue[w]) :
                queue[w][n] # 0 => pc[queue[w][n]] = "await" /\ target[queue[w][n]] = w
    <3> SUFFICES ASSUME NEW w \in Frames
                 PROVE  /\ serving[w] # 0 => pc[serving[w]] = "await" /\ target[serving[w]] = w
                        /\ \A n \in Places(w) : queue[w][n] # 0 =>
                              pc[queue[w][n]] = "await" /\ target[queue[w][n]] = w
      BY DEF Places
    <3>1. serving[w] \in FrameOrNone /\ \A n \in Places(w) : queue[w][n] \in FrameOrNone
      BY <1>1, QueueType DEF TypeInv, TypeOK, WorkersTypeOK
    <3> QED
      BY <1>1, <3>1, FrameIsSlot DEF ReplyInv, HolderInv, Queued
  <2>3. \A t \in Frames : pc[t] = "await" => target[t] \in Frames
    BY <1>1 DEF ReplyInv, HandleInv
  <2>4. \A t \in Frames : pc[t] = "await" =>
           LET w == target[t]
               places == {n \in 1 .. Len(queue[w]) : queue[w][n] = t}
           IN  /\ worker[w] # "gone"
               /\ IF serving[w] = t THEN places = {} ELSE Cardinality(places) = 1
    BY <2>1, <2>3
  <2> QED
    BY <2>2, <2>4 DEF NoLostReply
<1> QED
  BY <1>1, TypeInvariant, ReplyInvariant, PTL

-----------------------------------------------------------------------------
(* ActivatedMeansRan.  handle_activate marks whatever instance has the id   *)
(* after its reply came back: that it is the one whose worker replied       *)
(* follows from the handle it cloned before (CallingInv) and from ids       *)
(* naming one worker within one period of the counter (OneWorker).          *)

Calling == {"send", "await", "flag_ok", "flag_err"}

MadeFor(w, i) == w \in Frames /\ worker[w] # "none" /\ IdOf(w) = i

\* A handler that calls a worker has the handle of one made for its instance id;
\* when it is about to mark an instance activated, the export of that worker has
\* returned Ok.
CallOK(t) ==
    pc[t] \in Calling =>
        /\ frame[t].kind \in InstanceCalls
        /\ MadeFor(target[t], frame[t].inst)
        /\ pc[t] = "flag_ok" /\ frame[t].kind = "activate" => ran[target[t]]
        /\ pc[t] = "flag_err" => frame[t].kind # "activate"

CallingInv == \A t \in Frames : CallOK(t)

ActivationInv == CallingInv /\ ActivatedMeansRan

LEMMA InitActivation == Init => ActivationInv
BY DEF Init, ActivationInv, CallingInv, CallOK, ActivatedMeansRan, Calling

\* Within one period of the counter an id names one worker.
LEMMA OneWorker ==
    ASSUME TypeInv, IdInv, counter <= IdWrap, NEW i,
           NEW v, NEW w, MadeFor(v, i), MadeFor(w, i)
    PROVE  v = w
<1>1. v \in Frames /\ w \in Frames /\ Took(v) /\ Took(w) /\ IdOf(v) = IdOf(w)
  BY DEF MadeFor, Took
<1>2. number[v] \in Nat /\ number[w] \in Nat /\ counter \in Nat
  BY <1>1 DEF TypeInv, TypeOK, TasksTypeOK, InnerTypeOK
<1>3. number[v] < IdWrap /\ number[w] < IdWrap
  BY <1>1, <1>2, WrapAssumption DEF IdInv, NumberInv
<1>4. number[v] % IdWrap = number[v] /\ number[w] % IdWrap = number[w]
  BY <1>2, <1>3, WrapAssumption
<1>5. number[v] = number[w]
  BY <1>1, <1>4 DEF IdOf
<1> QED
  BY <1>1, <1>5 DEF IdInv, NumberInv

\* A worker keeps its id and its past, and the counter does not go back.
Kept ==
    /\ \A w, i : MadeFor(w, i) => MadeFor(w, i)'
    /\ \A w \in Frames : ran[w] => ran'[w]
    /\ counter' <= IdWrap => counter <= IdWrap

LEMMA KeptIf ==
    ASSUME TypeInv, IdInv,
           \A w \in Frames : worker[w] # "none" =>
               worker'[w] # "none" /\ number'[w] = number[w] /\ frame'[w] = frame[w],
           \A w \in Frames : ran[w] => ran'[w],
           counter' \in {counter, counter + 1}
    PROVE  Kept
<1>1. \A w, i : MadeFor(w, i) => MadeFor(w, i)'
  BY DEF MadeFor, IdOf
<1>2. counter \in Nat /\ IdWrap \in Nat
  BY WrapAssumption DEF TypeInv, TypeOK, InnerTypeOK
<1> QED
  BY <1>1, <1>2 DEF Kept

LEMMA TaskKept ==
    ASSUME TypeInv, IdInv, NEW t \in Frames, TaskStep(t)
    PROVE  Kept
<1> USE DEF TypeInv, TypeOK, Step
<1>1. UNCHANGED <<frame, ran>>
  BY DEF TaskStep, Reject, Initialize, Shutdown, ExitNotice, LoadBegin, LoadInstantiate,
         LoadInsert, Snapshot, SendCall, SetActivated, Unload, StopWorker, Ignore,
         TakeCallback, Deliver, Respond, workers
<1>2. CASE LoadBegin(t)
  <2>1. worker[t] = "none" /\ UNCHANGED worker
    BY <1>2 DEF LoadBegin, IdInv, BornInv, workers
  <2>2. /\ \A w \in Frames \ {t} : number'[w] = number[w]
        /\ counter' \in {counter, counter + 1}
    BY <1>2 DEF LoadBegin, TasksTypeOK
  <2> QED
    BY <1>1, <2>1, <2>2, KeptIf
<1>3. CASE ~LoadBegin(t)
  <2>1. UNCHANGED <<number, counter>>
    BY <1>3 DEF TaskStep, Reject, Initialize, Shutdown, ExitNotice, LoadInstantiate,
                LoadInsert, Snapshot, SendCall, SetActivated, Unload, StopWorker, Ignore,
                TakeCallback, Deliver, Respond, inner
  <2>2. \A w \in Frames : worker[w] # "none" => worker'[w] # "none"
    <3>1. CASE LoadInstantiate(t)
      BY <3>1 DEF LoadInstantiate, WorkersTypeOK
    <3>2. CASE ~LoadInstantiate(t)
      BY <1>3, <3>2 DEF TaskStep, Reject, Initialize, Shutdown, ExitNotice, LoadInsert,
                  Snapshot, SendCall, SetActivated, Unload, StopWorker, Ignore,
                  TakeCallback, Deliver, Respond, workers
    <3> QED
      BY <3>1, <3>2
  <2> QED
    BY <1>1, <2>1, <2>2, KeptIf
<1> QED
  BY <1>2, <1>3

LEMMA WorkerKept ==
    ASSUME TypeInv, IdInv, NEW w \in Frames, WorkerStep(w)
    PROVE  Kept
<1> USE DEF TypeInv, TypeOK
<1>1. UNCHANGED <<frame, number, counter>>
  BY DEF WorkerStep, Receive, Abandon, Import, Notify, Allocate, CallHost, Answered,
         Timeout, Return, tasks, inner
<1>2. \A v \in Frames : worker[v] # "none" => worker'[v] # "none"
  BY DEF WorkerStep, Receive, Abandon, Import, Notify, Allocate, CallHost, Answered,
         Timeout, Return, WorkersTypeOK
<1>3. \A v \in Frames : ran[v] => ran'[v]
  <2>1. ASSUME NEW ok \in BOOLEAN, Return(w, ok) PROVE \A v \in Frames : ran[v] => ran'[v]
    BY <2>1 DEF Return, WorkersTypeOK
  <2>2. CASE UNCHANGED ran
    BY <2>2
  <2>3. UNCHANGED ran \/ \E ok \in BOOLEAN : Return(w, ok)
    BY DEF WorkerStep, Receive, Abandon, Import, Notify, Allocate, CallHost, Answered,
           Timeout
  <2> QED
    BY <2>1, <2>2, <2>3
<1> QED
  BY <1>1, <1>2, <1>3, KeptIf

-----------------------------------------------------------------------------
\* The calls that a step neither starts nor ends go on as they were.
LEMMA CallsKept ==
    ASSUME TypeInv, ActivationInv, Kept,
           \A t \in Frames :
               \/ pc'[t] \notin Calling
               \/ CallOK(t)'
               \/ /\ target'[t] = target[t] /\ frame'[t] = frame[t]
                  /\ pc'[t] = pc[t] \/ (pc[t] = "send" /\ pc'[t] = "await")
    PROVE  CallingInv'
<1> SUFFICES ASSUME NEW t \in Frames, pc'[t] \in Calling, ~CallOK(t)'
             PROVE  CallOK(t)'
  BY DEF CallingInv, CallOK
<1>1. /\ target'[t] = target[t] /\ frame'[t] = frame[t] /\ pc[t] \in Calling
      /\ pc'[t] = pc[t] \/ (pc[t] = "send" /\ pc'[t] = "await")
  BY DEF Calling
<1>2. CallOK(t) /\ target[t] \in Frames
  BY <1>1 DEF ActivationInv, CallingInv, CallOK, MadeFor
<1>3. PICK w, i : w = target[t] /\ i = frame[t].inst
  OBVIOUS
<1>4. MadeFor(w, i)'
  BY <1>1, <1>2, <1>3 DEF Kept, CallOK
<1>5. MadeFor(target[t], frame[t].inst)'
  BY <1>1, <1>3, <1>4 DEF MadeFor, IdOf
<1> QED
  BY <1>1, <1>2, <1>5 DEF CallOK, Kept

LEMMA MapKept ==
    ASSUME TypeInv, ActivationInv, Kept, UNCHANGED <<instances, activated>>
    PROVE  ActivatedMeansRan'
BY BoundIsFrame DEF ActivationInv, ActivatedMeansRan, Kept

\* snapshot clones a handle that the map binds to the id.
LEMMA SnapshotKeeps ==
    ASSUME TypeInv, IdInv, ActivationInv, NEW t \in Frames, Snapshot(t)
    PROVE  ActivationInv'
<1>1. Kept
  BY TaskKept DEF TaskStep
<1>2. PICK w, i : i = frame[t].inst /\ w = instances[i]
  OBVIOUS
<1>3. /\ frame[t].kind \in InstanceCalls /\ i \in InstanceIds
      /\ UNCHANGED <<frame, instances, activated>>
      /\ \A u \in Frames \ {t} : pc'[u] = pc[u] /\ target'[u] = target[u]
      /\ target'[t] = w /\ pc'[t] = IF w = 0 THEN AfterDrop(t) ELSE "send"
  BY <1>2, InstType
  DEF Snapshot, Step, TypeInv, TypeOK, TasksTypeOK, inner
<1>4. CASE w = 0
  <2>1. pc'[t] \notin Calling
    BY <1>3, <1>4 DEF Calling, AfterDrop
  <2> QED
    BY <1>1, <1>3, <2>1, CallsKept, MapKept DEF ActivationInv
<1>5. CASE w # 0
  <2>1. MadeFor(w, i)
    BY <1>2, <1>3, <1>5, BoundIsFrame DEF IdInv, BoundInv, MadeFor
  <2>2. MadeFor(w, i)'
    BY <1>1, <2>1 DEF Kept
  <2>3. target'[t] = w /\ frame'[t].inst = i /\ frame'[t].kind \in InstanceCalls
        /\ pc'[t] = "send"
    BY <1>2, <1>3, <1>5
  <2>4. CallOK(t)'
    BY <2>2, <2>3 DEF CallOK, MadeFor, IdOf
  <2> QED
    BY <1>1, <1>3, <2>4, CallsKept, MapKept DEF ActivationInv
<1> QED
  BY <1>4, <1>5

\* handle_activate and handle_deactivate set the flag of whatever has the id.
LEMMA SetActivatedKeeps ==
    ASSUME TypeInv, IdInv, ActivationInv, NEW t \in Frames, SetActivated(t)
    PROVE  ActivationInv'
<1>1. Kept
  BY TaskKept DEF TaskStep
<1>2. PICK i : i = frame[t].inst
  OBVIOUS
<1>3. /\ pc[t] \in {"flag_ok", "flag_err"} /\ UNCHANGED <<frame, instances, counter, ran>>
      /\ \A u \in Frames \ {t} : pc'[u] = pc[u] /\ target'[u] = target[u]
      /\ pc'[t] = Outcome(pc[t] = "flag_ok")
      /\ activated' = [activated EXCEPT
                         ![i] = instances[i] # 0 /\ frame[t].kind = "activate"]
  BY <1>2 DEF SetActivated, TypeInv, TypeOK, TasksTypeOK, workers
<1>4. pc'[t] \notin Calling
  BY <1>3 DEF Outcome, Calling
<1>5. CallOK(t) /\ pc[t] \in Calling
  BY <1>3 DEF ActivationInv, CallingInv, Calling
<1>6. ActivatedMeansRan'
  <2> SUFFICES ASSUME counter <= IdWrap, NEW j \in InstanceIds, activated'[j]
               PROVE  instances[j] # 0 /\ ran[instances[j]]
    BY <1>3 DEF ActivatedMeansRan
  <2>1. CASE j # i
    BY <1>3, <2>1 DEF ActivationInv, ActivatedMeansRan, TypeInv, TypeOK, InnerTypeOK
  <2>2. CASE j = i
    <3>1. instances[i] # 0 /\ frame[t].kind = "activate"
      BY <1>3, <2>2 DEF TypeInv, TypeOK, InnerTypeOK
    <3>2. pc[t] = "flag_ok" /\ ran[target[t]] /\ MadeFor(target[t], i)
      BY <1>2, <1>3, <1>5, <3>1 DEF CallOK
    <3>3. MadeFor(instances[i], i)
      BY <2>2, <3>1, BoundIsFrame DEF IdInv, BoundInv, MadeFor
    <3>4. instances[i] = target[t]
      BY <3>2, <3>3, OneWorker
    <3> QED
      BY <2>2, <3>1, <3>2, <3>4
  <2> QED
    BY <2>1, <2>2
<1> QED
  BY <1>1, <1>3, <1>4, <1>6, CallsKept DEF ActivationInv

\* An instance enters or leaves the map with the flag off.
LEMMA MapKeeps ==
    ASSUME TypeInv, IdInv, ActivationInv, NEW t \in Frames, LoadInsert(t) \/ Unload(t)
    PROVE  ActivationInv'
<1>1. Kept
  BY TaskKept DEF TaskStep
<1>2. /\ UNCHANGED <<frame, counter, ran>>
      /\ \A u \in Frames \ {t} : pc'[u] = pc[u] /\ target'[u] = target[u]
      /\ pc'[t] \notin Calling
  BY DEF LoadInsert, Unload, Step, TypeInv, TypeOK, TasksTypeOK, workers, Calling
<1>3. \A j \in InstanceIds : activated'[j] => activated[j] /\ instances'[j] = instances[j]
  BY DEF LoadInsert, Unload, TypeInv, TypeOK, InnerTypeOK
<1>4. ActivatedMeansRan'
  BY <1>2, <1>3 DEF ActivationInv, ActivatedMeansRan
<1> QED
  BY <1>1, <1>2, <1>4, CallsKept DEF ActivationInv

LEMMA TaskActivation ==
    ASSUME TypeInv, IdInv, ActivationInv, NEW t \in Frames, TaskStep(t)
    PROVE  ActivationInv'
<1> USE DEF Step
<1>1. CASE Snapshot(t) \/ SetActivated(t) \/ LoadInsert(t) \/ Unload(t)
  BY <1>1, SnapshotKeeps, SetActivatedKeeps, MapKeeps
<1>2. CASE ~(Snapshot(t) \/ SetActivated(t) \/ LoadInsert(t) \/ Unload(t))
  <2>1. Kept
    BY TaskKept
  <2>2. UNCHANGED <<frame, instances, activated>>
    BY <1>2 DEF TaskStep, Reject, Initialize, Shutdown, ExitNotice, LoadBegin,
                LoadInstantiate, SendCall, StopWorker, Ignore, TakeCallback, Deliver,
                Respond, inner
  <2>3. CASE SendCall(t)
    <3>1. \A u \in Frames \ {t} : pc'[u] = pc[u] /\ target'[u] = target[u]
      BY <2>3 DEF SendCall, TypeInv, TypeOK, TasksTypeOK
    <3>2. \/ pc[t] = "send" /\ pc'[t] = "await" /\ target'[t] = target[t]
          \/ pc'[t] \notin Calling
      BY <2>3 DEF SendCall, AfterDrop, Calling, TypeInv, TypeOK, TasksTypeOK
    <3> QED
      BY <2>1, <2>2, <3>1, <3>2, CallsKept, MapKept DEF ActivationInv
  <2>4. CASE ~SendCall(t)
    <3>1. \A u \in Frames \ {t} : pc'[u] = pc[u] /\ target'[u] = target[u]
      BY <1>2, <2>4
      DEF TaskStep, Reject, Initialize, Shutdown, ExitNotice, LoadBegin, LoadInstantiate,
          StopWorker, Ignore, TakeCallback, Deliver, Respond, TypeInv, TypeOK, TasksTypeOK
    <3>2. pc'[t] \notin Calling
      BY <1>2, <2>4
      DEF TaskStep, Reject, Initialize, Shutdown, ExitNotice, LoadBegin, LoadInstantiate,
          StopWorker, Ignore, TakeCallback, Deliver, Respond, TypeInv, TypeOK,
          TasksTypeOK, Outcome, Calling
    <3> QED
      BY <2>1, <2>2, <3>1, <3>2, CallsKept, MapKept DEF ActivationInv
  <2> QED
    BY <2>3, <2>4
<1> QED
  BY <1>1, <1>2

-----------------------------------------------------------------------------
\* A reply of Ok to activate is the end of an export that ran.
LEMMA ReturnActivation ==
    ASSUME TypeInv, IdInv, ReplyInv, ActivationInv,
           NEW w \in Frames, NEW ok \in BOOLEAN, Return(w, ok)
    PROVE  ActivationInv'
<1>1. Kept
  BY WorkerKept DEF WorkerStep
<1>2. PICK t : t = serving[w]
  OBVIOUS
<1>3. t \in Frames /\ pc[t] = "await" /\ target[t] = w
  BY <1>2 DEF Return, TypeInv, ServingInv, Busy, ReplyInv, HolderInv
<1>4. /\ UNCHANGED <<frame, instances, activated>>
      /\ pc'[t] = AfterReply(t, ok)
      /\ target'[t] = IF AfterReply(t, ok) \in {"flag_ok", "flag_err"} THEN w ELSE 0
      /\ ran'[w] = (ran[w] \/ (ok /\ frame[t].kind = "activate"))
      /\ \A u \in Frames \ {t} : pc'[u] = pc[u] /\ target'[u] = target[u]
  BY <1>2, <1>3 DEF Return, TypeInv, TypeOK, TasksTypeOK, WorkersTypeOK, inner
<1>5. CallOK(t)'
  <2> SUFFICES ASSUME pc'[t] \in Calling PROVE CallOK(t)'
    BY DEF CallOK
  <2>1. pc'[t] \in {"flag_ok", "flag_err"}
    BY <1>4 DEF AfterReply, Outcome, Calling
  <2>2. PICK i : i = frame[t].inst
    OBVIOUS
  <2>3. MadeFor(w, i) /\ frame[t].kind \in InstanceCalls
    BY <1>3, <2>2 DEF ActivationInv, CallingInv, CallOK, Calling
  <2>4. MadeFor(w, i)'
    BY <1>1, <2>3 DEF Kept
  <2>5. target'[t] = w /\ frame'[t] = frame[t]
    BY <1>4, <2>1
  <2>6. MadeFor(target[t], frame[t].inst)'
    BY <2>2, <2>4, <2>5 DEF MadeFor, IdOf
  <2>7. pc'[t] = "flag_ok" /\ frame[t].kind = "activate" => ok
    BY <1>4 DEF AfterReply
  <2>8. pc'[t] = "flag_err" => frame[t].kind # "activate"
    BY <1>4 DEF AfterReply
  <2> QED
    BY <1>4, <2>3, <2>5, <2>6, <2>7, <2>8 DEF CallOK
<1> QED
  BY <1>1, <1>4, <1>5, CallsKept, MapKept DEF ActivationInv

LEMMA WorkerActivation ==
    ASSUME TypeInv, IdInv, ReplyInv, ActivationInv, NEW w \in Frames, WorkerStep(w)
    PROVE  ActivationInv'
<1>1. CASE \E ok \in BOOLEAN : Return(w, ok)
  BY <1>1, ReturnActivation
<1>2. CASE ~\E ok \in BOOLEAN : Return(w, ok)
  <2>1. Kept
    BY WorkerKept
  <2>2. UNCHANGED <<frame, instances, activated>>
    BY <1>2 DEF WorkerStep, Receive, Abandon, Import, Notify, Allocate, CallHost,
                Answered, Timeout, tasks, inner
  <2>3. \A u \in Frames : \/ pc'[u] = pc[u] /\ target'[u] = target[u]
                          \/ pc'[u] \notin Calling
    <3>1. CASE Receive(w)
      BY <3>1 DEF Receive, AfterDrop, Calling
    <3>2. CASE ~Receive(w)
      BY <1>2, <3>2 DEF WorkerStep, Abandon, Import, Notify, Allocate, CallHost,
                        Answered, Timeout, tasks
    <3> QED
      BY <3>1, <3>2
  <2> QED
    BY <2>1, <2>2, <2>3, CallsKept, MapKept DEF ActivationInv
<1> QED
  BY <1>1, <1>2

LEMMA ReaderActivation ==
    ASSUME TypeInv, IdInv, ReplyInv, ActivationInv,
           ReaderStep \/ WriterWrite \/ WriterFail \/ UNCHANGED vars
    PROVE  ActivationInv'
<1>1. ASSUME NEW f, Spawn(f) PROVE ActivationInv'
  <2>1. PICK n : n = nread + 1
    OBVIOUS
  <2>2. n \in Frames /\ pc[n] = "unread" /\ worker[n] = "none"
    BY <1>1, <2>1, BoundAssumption
    DEF Spawn, TypeInv, TypeOK, TasksTypeOK, ReplyInv, FreshInv, Frames, IdInv, BornInv,
        Took
  <2>3. /\ \A u \in Frames \ {n} : frame'[u] = frame[u] /\ pc'[u] = pc[u]
        /\ pc'[n] = "start"
        /\ UNCHANGED <<target, number, worker, ran, counter, instances, activated>>
    BY <1>1, <2>1, <2>2 DEF Spawn, TypeInv, TypeOK, TasksTypeOK, inner, workers
  <2>4. Kept
    BY <2>2, <2>3, KeptIf
  <2>5. pc'[n] \notin Calling
    BY <2>3 DEF Calling
  <2> QED
    BY <2>3, <2>4, <2>5, CallsKept, MapKept DEF ActivationInv
<1>2. CASE ~\E f : Spawn(f)
  <2>1. CheckExit \/ CloseInput \/ Drained \/ Exit \/ WriterWrite \/ WriterFail
          \/ UNCHANGED vars
    BY <1>2 DEF ReaderStep, ReadControl, ReadInitialize, ReadLoad, ReadForInstance,
                ReadResponse
  <2>2. UNCHANGED <<frame, pc, target, number, worker, ran, counter, instances, activated>>
    BY <2>1 DEF CheckExit, CloseInput, Drained, Exit, WriterWrite, WriterFail, vars,
                tasks, inner, workers
  <2>3. Kept
    BY <2>2, KeptIf
  <2> QED
    BY <2>2, <2>3, CallsKept, MapKept DEF ActivationInv
<1> QED
  BY <1>1, <1>2

LEMMA StepActivation ==
    TypeInv /\ IdInv /\ ReplyInv /\ ActivationInv /\ [Next]_vars => ActivationInv'
BY TaskActivation, WorkerActivation, ReaderActivation DEF Next, Stopped

LEMMA ActivationInvariant == Spec => []ActivationInv
BY InitActivation, StepActivation, TypeInvariant, IdInvariant, ReplyInvariant, PTL DEF Spec

\* For any number of frames, extensions and workers: within one period of the
\* counter an instance is marked activated only if the activate export of its own
\* component has returned Ok, whatever unloads and loads come between the reply
\* and the mark.
THEOREM ActivatedMeansRanHolds == Spec => []ActivatedMeansRan
<1>1. ActivationInv => ActivatedMeansRan
  BY DEF ActivationInv
<1> QED
  BY <1>1, ActivationInvariant, PTL
=============================================================================
