------------------------ MODULE RuntimeCallbackProofs ------------------------
(***************************************************************************)
(* CallbacksMatchWaiters and AnswerMatchesQuestion for any number of       *)
(* frames and host calls.  The argument: an id is allocated once, so       *)
(* wherever it turns up it stands for one question (PairInv); a call that  *)
(* is served asks each question once, so a sender in the hands of a        *)
(* response handler can only be for the question its worker waits on, or   *)
(* for one that is past (HoldInv).                                         *)
(* QuietAfterDrain follows with one fact about the reader (DrainInv).      *)
(***************************************************************************)
EXTENDS RuntimeProofs

\* A host call on its way to the host, or read by it.
OnWire(id, q) ==
    \/ \E n \in 1 .. Len(outbound) :
          outbound[n].kind = "call" /\ outbound[n].id = id /\ outbound[n].question = q
    \/ \E m \in written : m.kind = "call" /\ m.id = id /\ m.question = q

\* The id stands for the question in some part of the state.
Entered(id, q) == \E p \in pending : p.id = id /\ p.question = q
Asks(id, q) == \E w \in Frames : Asking(w) /\ callId[w] = id /\ Question(w) = q
Answers(id, q) == \E t \in Frames : /\ frame[t].kind = "response"
                                    /\ frame[t].id = id /\ frame[t].question = q
Pair(id, q) == Entered(id, q) \/ Asks(id, q) \/ OnWire(id, q) \/ Answers(id, q)

PairInv ==
    /\ \A id \in Nat, q \in Questions : Pair(id, q) => id < nextCallback
    /\ \A id \in Nat, q, r \in Questions : Pair(id, q) /\ Pair(id, r) => q = r

\* Two workers never wait on one id.
AskInv == \A v, w \in Frames :
              Asking(v) /\ Asking(w) /\ callId[v] = callId[w] => v = w

\* A question that cannot be asked again: its call is being served and has gone
\* as far, or has returned.
Past(q) ==
    \/ \E w \in Frames : serving[w] = q[1] /\ q[2] <= used[w]
    \/ pc[q[1]] \in {"flag_ok", "flag_err", "answer_ok", "answer_err", "done"}

\* What a response handler holds is the sender of the question its frame
\* answers; that question is past, and its entry is no longer in the map.
HoldInv ==
    \A t \in Frames : pc[t] = "deliver" =>
        /\ holds[t] = frame[t].question
        /\ Past(holds[t])
        /\ \A w \in Frames : Asking(w) /\ Question(w) = holds[t] =>
              \A p \in pending : p.id # callId[w]

\* Nor is the entry of a question whose answer has been delivered.
TakenInv ==
    \A w \in Frames : Asking(w) /\ channel[w] # NoQuestion =>
        \A p \in pending : p.id # callId[w]

CallbackInv ==
    /\ PairInv /\ AskInv /\ HoldInv /\ TakenInv
    /\ NoLeakedCallback /\ WaiterReachable /\ AnswerMatchesQuestion

-----------------------------------------------------------------------------
(* Types.                                                                   *)

LEMMA EntryType ==
    ASSUME TypeInv, NEW p \in pending
    PROVE  /\ p.id \in Nat /\ p.question \in Questions
           /\ p = [id |-> p.id, question |-> p.question]
BY DEF TypeInv, TypeOK, InnerTypeOK

LEMMA QuestionType ==
    ASSUME TypeInv, NEW w \in Frames
    PROVE  /\ callId[w] \in Nat
           /\ Asking(w) => Question(w) \in Questions
BY DEF TypeInv, TypeOK, WorkersTypeOK, ServingInv, Busy, Asking, Question, Questions

LEMMA NoQuestionIsNone == NoQuestion \notin Questions
BY DEF NoQuestion, Questions, Frames

\* A call is served by one worker, which waits on one question.
LEMMA OneAsker ==
    ASSUME TypeInv, ReplyInv, NEW v \in Frames, NEW w \in Frames,
           Asking(v), Asking(w), Question(v) = Question(w)
    PROVE  v = w
<1>1. serving[v] = serving[w] /\ serving[v] \in Frames
  BY DEF Question, TypeInv, ServingInv, Asking, Busy
<1> QED
  BY <1>1 DEF ReplyInv, HolderInv

LEMMA InitCallback == Init => CallbackInv
<1> SUFFICES ASSUME Init PROVE CallbackInv
  OBVIOUS
<1>1. \A id, q : ~Pair(id, q)
  BY DEF Init, Pair, Entered, Asks, OnWire, Answers, Asking, NoFrame
<1> QED
  BY <1>1 DEF Init, CallbackInv, PairInv, AskInv, HoldInv, TakenInv, NoLeakedCallback,
              WaiterReachable, AnswerMatchesQuestion, Asking

-----------------------------------------------------------------------------
(* Steps that neither allocate, take nor deliver.                           *)

LEMMA CallbackStutter ==
    ASSUME TypeInv, ReplyInv, CallbackInv,
           UNCHANGED <<nextCallback, pending, holds, callId, channel>>,
           \A w \in Frames : (Asking(w)' <=> Asking(w))
                             /\ (Asking(w) => Question(w)' = Question(w)),
           \A id \in Nat, q \in Questions : Pair(id, q)' => Pair(id, q),
           \A t \in Frames : (pc'[t] = "deliver" <=> pc[t] = "deliver")
                             /\ (pc[t] = "deliver" => frame'[t] = frame[t]),
           \A q \in Questions : Past(q) => Past(q)'
    PROVE  CallbackInv'
<1>1. PairInv'
  BY DEF CallbackInv, PairInv
<1>2. AskInv' /\ TakenInv' /\ NoLeakedCallback' /\ AnswerMatchesQuestion'
  BY DEF CallbackInv, AskInv, TakenInv, NoLeakedCallback, AnswerMatchesQuestion
<1>3. WaiterReachable'
  BY DEF CallbackInv, WaiterReachable
<1>4. HoldInv'
  <2> SUFFICES ASSUME NEW t \in Frames, pc'[t] = "deliver"
               PROVE  /\ holds[t] = frame'[t].question
                      /\ Past(holds[t])'
                      /\ \A w \in Frames : Asking(w)' /\ Question(w)' = holds[t] =>
                            \A p \in pending : p.id # callId[w]
    BY DEF HoldInv, Past
  <2>1. pc[t] = "deliver" /\ holds[t] = frame[t].question /\ Past(holds[t])
        /\ frame'[t] = frame[t]
    BY DEF CallbackInv, HoldInv
  <2>2. holds[t] \in Questions
    BY <2>1, AnswerType DEF TypeInv, TypeOK, KindInv
  <2>3. Past(holds[t])'
    <3>1. PICK q \in Questions : q = holds[t]
      BY <2>2
    <3>2. Past(q)'
      BY <2>1, <3>1
    <3>3. holds'[t] = q
      BY <3>1
    <3> QED
      BY <3>2, <3>3 DEF Past
  <2> QED
    BY <2>1, <2>3 DEF CallbackInv, HoldInv
<1> QED
  BY <1>1, <1>2, <1>3, <1>4 DEF CallbackInv

Ended(t) == pc[t] \in {"flag_ok", "flag_err", "answer_ok", "answer_err", "done"}

\* The past stays past while calls go on and those that have returned stay so.
LEMMA PastKept ==
    ASSUME TypeInv, NEW q \in Questions,
           \A w \in Frames : serving[w] # 0 => /\ serving'[w] = serving[w]
                                               /\ used[w] <= used'[w] /\ used'[w] \in Nat,
           \A t \in Frames : Ended(t) => Ended(t)',
           Past(q)
    PROVE  Past(q)'
<1>1. q[1] \in Frames /\ q[2] \in Nat /\ q[1] # 0
  BY DEF Questions, Frames
<1>2. CASE \E w \in Frames : serving[w] = q[1] /\ q[2] <= used[w]
  <2>1. PICK w \in Frames : serving[w] = q[1] /\ q[2] <= used[w]
    BY <1>2
  <2>2. used[w] \in Nat
    BY BoundAssumption DEF TypeInv, TypeOK, WorkersTypeOK
  <2>3. serving'[w] = q[1] /\ q[2] <= used'[w]
    BY <1>1, <2>1, <2>2
  <2> QED
    BY <2>3 DEF Past
<1>3. CASE Ended(q[1])
  BY <1>1, <1>3 DEF Past, Ended
<1> QED
  BY <1>2, <1>3 DEF Past, Ended

LEMMA SamePairs ==
    ASSUME \A w \in Frames : (Asking(w)' <=> Asking(w))
                             /\ (Asking(w) => Question(w)' = Question(w)),
           UNCHANGED <<pending, callId>>,
           \A t \in Frames : frame'[t] = frame[t] \/ frame'[t].kind # "response",
           \A id \in Nat, q \in Questions : OnWire(id, q)' => OnWire(id, q) \/ Asks(id, q)
    PROVE  \A id \in Nat, q \in Questions : Pair(id, q)' => Pair(id, q)
<1> SUFFICES ASSUME NEW id \in Nat, NEW q \in Questions, Pair(id, q)'
             PROVE  Pair(id, q)
  OBVIOUS
<1>1. CASE Entered(id, q)'
  BY <1>1 DEF Entered, Pair
<1>2. CASE Asks(id, q)'
  BY <1>2 DEF Asks, Pair
<1>3. CASE OnWire(id, q)'
  BY <1>3 DEF Pair
<1>4. CASE Answers(id, q)'
  BY <1>4 DEF Answers, Pair
<1> QED
  BY <1>1, <1>2, <1>3, <1>4 DEF Pair

\* What is pushed on the outbound channel is on the wire.
LEMMA PushWire ==
    ASSUME TypeInv, NEW m, Push(m), UNCHANGED written, NEW id, NEW q, OnWire(id, q)'
    PROVE  OnWire(id, q) \/ (m.kind = "call" /\ m.id = id /\ m.question = q)
<1>1. outbound \in Seq(Message)
  BY DEF TypeInv, TypeOK, TransportTypeOK
<1>2. CASE outbound' = outbound
  BY <1>2 DEF OnWire
<1>3. CASE outbound' = Append(outbound, m)
  <2>1. /\ Len(outbound') = Len(outbound) + 1 /\ Len(outbound) \in Nat
        /\ outbound'[Len(outbound) + 1] = m
        /\ \A n \in 1 .. Len(outbound) : outbound'[n] = outbound[n]
    BY <1>1, <1>3, AppendProperties
  <2>2. 1 .. Len(outbound') = 1 .. Len(outbound) \cup {Len(outbound) + 1}
    BY <2>1
  <2> QED
    BY <2>1, <2>2 DEF OnWire
<1> QED
  BY <1>2, <1>3 DEF Push

\* The writer moves a message from the channel to what has been written.
LEMMA WriterWire ==
    ASSUME TypeInv, WriterWrite \/ WriterFail, NEW id, NEW q, OnWire(id, q)'
    PROVE  OnWire(id, q)
<1>1. outbound \in Seq(Message) /\ outbound # <<>>
  BY DEF TypeInv, TypeOK, TransportTypeOK, WriterWrite, WriterFail
<1>2. /\ Len(outbound) \in Nat \ {0} /\ Head(outbound) = outbound[1]
      /\ Len(Tail(outbound)) = Len(outbound) - 1
      /\ \A n \in 1 .. Len(outbound) - 1 : Tail(outbound)[n] = outbound[n + 1]
  <2>1. Len(outbound) \in Nat \ {0} /\ Head(outbound) = outbound[1]
    BY <1>1
  <2>2. /\ Len(Tail(outbound)) = Len(outbound) - 1
        /\ \A n \in 1 .. Len(Tail(outbound)) : Tail(outbound)[n] = outbound[n + 1]
    BY <1>1, HeadTailProperties
  <2> QED
    BY <2>1, <2>2
<1>3. CASE WriterWrite
  <2>1. outbound' = Tail(outbound) /\ written' \subseteq written \cup {Head(outbound)}
    BY <1>3 DEF WriterWrite
  <2>2. \A n \in 1 .. Len(outbound') : /\ outbound'[n] = outbound[n + 1]
                                       /\ n + 1 \in 1 .. Len(outbound)
    BY <1>2, <2>1
  <2>3. 1 \in 1 .. Len(outbound)
    BY <1>2
  <2> QED
    BY <1>2, <2>1, <2>2, <2>3 DEF OnWire
<1>4. CASE WriterFail
  <2>1. outbound' = <<>> /\ written' = written
    BY <1>4 DEF WriterFail
  <2>2. 1 .. Len(outbound') = {}
    BY <2>1
  <2> QED
    BY <2>1, <2>2 DEF OnWire
<1> QED
  BY <1>3, <1>4

LEMMA SpawnCallback ==
    ASSUME TypeInv, ReplyInv, CallbackInv, NEW f, Spawn(f),
           f.kind = "response" => \A id \in Nat, q \in Questions :
                                      f.id = id /\ f.question = q => Pair(id, q)
    PROVE  CallbackInv'
<1> DEFINE n == nread + 1
<1>1. n \in Frames /\ pc[n] = "unread"
  BY BoundAssumption
  DEF Spawn, TypeInv, TypeOK, TasksTypeOK, ReplyInv, FreshInv, Frames
<1>2. /\ pc' = [pc EXCEPT ![n] = "start"] /\ frame' = [frame EXCEPT ![n] = f]
      /\ UNCHANGED <<nextCallback, pending, holds, callId, channel, worker, serving, used,
                     outbound, written>>
  BY DEF Spawn, inner, workers, transport
<1>3. /\ \A t \in Frames : t # n => pc'[t] = pc[t] /\ frame'[t] = frame[t]
      /\ pc'[n] = "start" /\ frame'[n] = f
  BY <1>1, <1>2 DEF TypeInv, TypeOK, TasksTypeOK
<1>4. \A w \in Frames : (Asking(w)' <=> Asking(w))
                        /\ (Asking(w) => Question(w)' = Question(w))
  BY <1>2 DEF Asking, Question
<1>5. \A id \in Nat, q \in Questions : Pair(id, q)' => Pair(id, q)
  <2> SUFFICES ASSUME NEW id \in Nat, NEW q \in Questions, Pair(id, q)'
               PROVE  Pair(id, q)
    OBVIOUS
  <2>1. CASE Entered(id, q)' \/ OnWire(id, q)'
    BY <1>2, <2>1 DEF Entered, OnWire, Pair
  <2>2. CASE Asks(id, q)'
    BY <1>2, <1>4, <2>2 DEF Asks, Pair
  <2>3. CASE Answers(id, q)'
    BY <1>3, <2>3 DEF Answers, Pair
  <2> QED
    BY <2>1, <2>2, <2>3 DEF Pair
<1>6. \A q \in Questions : Past(q) => Past(q)'
  <2>1. \A w \in Frames : used[w] \in Nat
    BY BoundAssumption DEF TypeInv, TypeOK, WorkersTypeOK
  <2>2. \A w \in Frames : serving[w] # 0 => /\ serving'[w] = serving[w]
                                            /\ used[w] <= used'[w] /\ used'[w] \in Nat
    BY <1>2, <2>1
  <2>3. \A t \in Frames : Ended(t) => Ended(t)'
    BY <1>1, <1>3 DEF Ended
  <2> QED
    BY <2>2, <2>3, PastKept
<1>7. \A t \in Frames : (pc'[t] = "deliver" <=> pc[t] = "deliver")
                        /\ (pc[t] = "deliver" => frame'[t] = frame[t])
  BY <1>1, <1>3
<1> QED
  BY <1>2, <1>4, <1>5, <1>6, <1>7, CallbackStutter

LEMMA ReaderCallback ==
    ASSUME TypeInv, ReplyInv, CallbackInv,
           ReaderStep \/ WriterWrite \/ WriterFail \/ UNCHANGED vars
    PROVE  CallbackInv'
<1>1. CASE ReadResponse
  <2>1. PICK m \in OpenCalls : Spawn([kind |-> "response", id |-> m.id,
                                      question |-> m.question])
    BY <1>1 DEF ReadResponse
  <2>2. OnWire(m.id, m.question)
    BY <2>1 DEF OpenCalls, OnWire
  <2>3. PICK f : f = [kind |-> "response", id |-> m.id, question |-> m.question]
    OBVIOUS
  <2>4. Spawn(f) /\ \A id \in Nat, q \in Questions :
                       f.id = id /\ f.question = q => Pair(id, q)
    BY <2>1, <2>2, <2>3 DEF Pair
  <2> QED
    BY <2>4, SpawnCallback
<1>2. CASE \E f : f.kind # "response" /\ Spawn(f)
  BY <1>2, SpawnCallback
<1>3. ASSUME ReaderStep
      PROVE  \/ ReadResponse \/ CheckExit \/ CloseInput \/ Drained \/ Exit
             \/ \E f : f.kind # "response" /\ Spawn(f)
  <2>1. ASSUME NEW k \in {"shutdown", "exit", "malformed", "unknown"}, ReadControl(k)
        PROVE  \E f : f.kind # "response" /\ Spawn(f)
    <3>1. [kind |-> k].kind # "response"
      BY <2>1
    <3> QED
      BY <2>1, <3>1 DEF ReadControl
  <2>2. ReadInitialize => \E f : f.kind # "response" /\ Spawn(f)
    <3>1. \A b, c : [kind |-> "initialize", compatible |-> b, caps |-> c].kind # "response"
      OBVIOUS
    <3> QED
      BY <3>1 DEF ReadInitialize
  <2>3. ReadLoad => \E f : f.kind # "response" /\ Spawn(f)
    <3>1. \A x, c : [kind |-> "load", ext |-> x, requires |-> c].kind # "response"
      OBVIOUS
    <3> QED
      BY <3>1 DEF ReadLoad
  <2>4. ASSUME NEW k \in InstanceCalls \cup InstanceNotes, ReadForInstance(k)
        PROVE  \E f : f.kind # "response" /\ Spawn(f)
    <3>1. \A i : [kind |-> k, inst |-> i].kind # "response"
      BY <2>4 DEF InstanceCalls, InstanceNotes
    <3> QED
      BY <2>4, <3>1 DEF ReadForInstance
  <2> QED
    BY <1>3, <2>1, <2>2, <2>3, <2>4 DEF ReaderStep
<1>4. CASE CheckExit \/ CloseInput \/ Drained \/ Exit \/ WriterWrite \/ WriterFail
           \/ UNCHANGED vars
  <2>1. UNCHANGED <<nextCallback, pending, holds, callId, channel, worker, serving, used,
                    pc, frame>>
    BY <1>4 DEF CheckExit, CloseInput, Drained, Exit, WriterWrite, WriterFail, vars,
                tasks, inner, workers
  <2>2. \A w \in Frames : (Asking(w)' <=> Asking(w))
                          /\ (Asking(w) => Question(w)' = Question(w))
    BY <2>1 DEF Asking, Question
  <2>3. \A id \in Nat, q \in Questions : OnWire(id, q)' => OnWire(id, q)
    <3>1. CASE WriterWrite \/ WriterFail
      BY <3>1, WriterWire
    <3>2. CASE Drained
      <4>1. Push([kind |-> "shutdown"]) /\ UNCHANGED written
        BY <3>2 DEF Drained
      <4>2. [kind |-> "shutdown"].kind # "call"
        OBVIOUS
      <4> QED
        BY <4>1, <4>2, PushWire
    <3>3. CASE CheckExit \/ CloseInput \/ Exit \/ UNCHANGED vars
      <4>1. UNCHANGED <<outbound, written>>
        BY <3>3 DEF CheckExit, CloseInput, Exit, vars, transport
      <4> QED
        BY <4>1 DEF OnWire
    <3> QED
      BY <1>4, <3>1, <3>2, <3>3
  <2>4. \A id \in Nat, q \in Questions : Pair(id, q)' => Pair(id, q)
    BY <2>1, <2>2, <2>3, SamePairs
  <2>5. \A q \in Questions : Past(q) => Past(q)'
    BY <2>1 DEF Past
  <2> QED
    BY <2>1, <2>2, <2>4, <2>5, CallbackStutter
<1> QED
  BY <1>1, <1>2, <1>3, <1>4

-----------------------------------------------------------------------------
(* Tasks.                                                                   *)

\* The handlers of other frames than answers leave the map and the ids alone.
LEMMA OtherTask ==
    ASSUME TypeInv, IdInv, NEW t \in Frames, TaskStep(t),
           ~TakeCallback(t), ~Deliver(t)
    PROVE  /\ UNCHANGED <<nextCallback, pending, holds, callId, channel, serving, used,
                          frame, written>>
           /\ \A u \in Frames \ {t} : pc'[u] = pc[u]
           /\ pc[t] # "deliver" /\ pc'[t] # "deliver"
           /\ Ended(t) => Ended(t)'
           /\ \A w \in Frames : Asking(w)' <=> Asking(w)
           /\ outbound' = outbound \/ \E m : m.kind # "call" /\ Push(m)
<1> USE DEF TypeInv, TypeOK, Step
<1>1. UNCHANGED <<nextCallback, pending, holds, callId, channel, serving, used, frame,
                  written>>
  BY DEF TaskStep, Reject, Initialize, Shutdown, ExitNotice, LoadBegin, LoadInstantiate,
         LoadInsert, Snapshot, SendCall, SetActivated, Unload, StopWorker, Ignore,
         Respond, inner, workers, transport
<1>2. /\ \A u \in Frames \ {t} : pc'[u] = pc[u]
      /\ pc[t] # "deliver" /\ pc'[t] # "deliver"
      /\ Ended(t) => Ended(t)'
  <2>1. CASE Snapshot(t) \/ SendCall(t)
    BY <2>1 DEF Snapshot, SendCall, AfterDrop, TasksTypeOK, Ended
  <2>2. CASE Initialize(t) \/ SetActivated(t)
    BY <2>2 DEF Initialize, SetActivated, Outcome, TasksTypeOK, Ended
  <2>3. CASE Reject(t) \/ Shutdown(t) \/ ExitNotice(t) \/ Ignore(t) \/ Respond(t)
             \/ LoadBegin(t) \/ LoadInstantiate(t) \/ LoadInsert(t) \/ Unload(t)
             \/ StopWorker(t)
    BY <2>3 DEF Reject, Shutdown, ExitNotice, Ignore, Respond, LoadBegin,
                LoadInstantiate, LoadInsert, Unload, StopWorker, TasksTypeOK, Ended
  <2> QED
    BY <2>1, <2>2, <2>3 DEF TaskStep
<1>3. \A w \in Frames : Asking(w)' <=> Asking(w)
  <2>1. CASE LoadInstantiate(t)
    <3>1. worker[t] = "none" /\ worker \in [Frames -> WorkerStates]
      BY <2>1 DEF LoadInstantiate, WorkersTypeOK, IdInv, BornInv
    <3>2. UNCHANGED worker \/ worker' = [worker EXCEPT ![t] = "idle"]
      BY <2>1 DEF LoadInstantiate
    <3> QED
      BY <3>1, <3>2 DEF Asking
  <2>2. CASE ~LoadInstantiate(t)
    <3>1. UNCHANGED worker
      BY <2>2 DEF TaskStep, Reject, Initialize, Shutdown, ExitNotice, LoadBegin,
                  LoadInsert, Snapshot, SendCall, SetActivated, Unload, StopWorker,
                  Ignore, Respond, workers
    <3> QED
      BY <3>1 DEF Asking
  <2> QED
    BY <2>1, <2>2
<1>4. outbound' = outbound \/ \E m : m.kind # "call" /\ Push(m)
  <2>1. CASE Respond(t)
    <3>1. PICK m : m = [kind |-> "response", of |-> t, ok |-> pc[t] = "answer_ok"]
      OBVIOUS
    <3>2. m.kind # "call" /\ Push(m)
      BY <2>1, <3>1 DEF Respond
    <3> QED
      BY <3>2
  <2>2. CASE ~Respond(t)
    BY <2>2 DEF TaskStep, Reject, Initialize, Shutdown, ExitNotice, LoadBegin,
                LoadInstantiate, LoadInsert, Snapshot, SendCall, SetActivated, Unload,
                StopWorker, Ignore, transport
  <2> QED
    BY <2>1, <2>2
<1> QED
  BY <1>1, <1>2, <1>3, <1>4

LEMMA OtherTaskCallback ==
    ASSUME TypeInv, IdInv, ReplyInv, CallbackInv, NEW t \in Frames, TaskStep(t),
           ~TakeCallback(t), ~Deliver(t)
    PROVE  CallbackInv'
<1>1. /\ UNCHANGED <<nextCallback, pending, holds, callId, channel, serving, used,
                     frame, written>>
      /\ \A u \in Frames \ {t} : pc'[u] = pc[u]
      /\ pc[t] # "deliver" /\ pc'[t] # "deliver"
      /\ Ended(t) => Ended(t)'
      /\ \A w \in Frames : Asking(w)' <=> Asking(w)
      /\ outbound' = outbound \/ \E m : m.kind # "call" /\ Push(m)
  BY OtherTask
<1>2. \A w \in Frames : (Asking(w)' <=> Asking(w))
                        /\ (Asking(w) => Question(w)' = Question(w))
  BY <1>1 DEF Question
<1>3. \A id \in Nat, q \in Questions : OnWire(id, q)' => OnWire(id, q)
  <2>1. CASE outbound' = outbound
    BY <1>1, <2>1 DEF OnWire
  <2>2. ASSUME NEW m, m.kind # "call", Push(m)
        PROVE  \A id \in Nat, q \in Questions : OnWire(id, q)' => OnWire(id, q)
    BY <1>1, <2>2, PushWire
  <2> QED
    BY <1>1, <2>1, <2>2
<1>4. \A id \in Nat, q \in Questions : Pair(id, q)' => Pair(id, q)
  BY <1>1, <1>2, <1>3, SamePairs
<1>5. \A q \in Questions : Past(q) => Past(q)'
  <2>1. \A w \in Frames : serving[w] # 0 => /\ serving'[w] = serving[w]
                                            /\ used[w] <= used'[w] /\ used'[w] \in Nat
    BY <1>1, BoundAssumption DEF TypeInv, TypeOK, WorkersTypeOK
  <2>2. \A u \in Frames : Ended(u) => Ended(u)'
    BY <1>1 DEF Ended
  <2> QED
    BY <2>1, <2>2, PastKept
<1>6. \A u \in Frames : (pc'[u] = "deliver" <=> pc[u] = "deliver")
                        /\ (pc[u] = "deliver" => frame'[u] = frame[u])
  BY <1>1
<1> QED
  BY <1>1, <1>2, <1>4, <1>5, <1>6, CallbackStutter

\* The sender of an answered call leaves the map.  Its entry is the only one of
\* the frame's id, and the question is the one the frame answers.
LEMMA TakeCallbackKeeps ==
    ASSUME TypeInv, ReplyInv, CallbackInv, NEW t \in Frames, TakeCallback(t)
    PROVE  CallbackInv'
<1>1. PICK found : found = {p \in pending : p.id = frame[t].id}
  OBVIOUS
<1>2. /\ frame[t].kind = "response" /\ pc[t] = "start" /\ pending' = pending \ found
      /\ UNCHANGED <<nextCallback, callId, channel, worker, serving, used, frame,
                     outbound, written>>
      /\ \A u \in Frames \ {t} : pc'[u] = pc[u] /\ holds'[u] = holds[u]
      /\ pc'[t] = IF found = {} THEN "done" ELSE "deliver"
      /\ holds'[t] = IF found = {} THEN NoQuestion ELSE (CHOOSE p \in found : TRUE).question
  BY <1>1 DEF TakeCallback, Step, TypeInv, TypeOK, TasksTypeOK, workers, transport
<1>3. frame[t].id \in Nat /\ frame[t].question \in Questions
      /\ Pair(frame[t].id, frame[t].question)
  BY <1>2, AnswerType DEF TypeInv, TypeOK, Pair, Answers
<1>4. \A p \in found : p = [id |-> frame[t].id, question |-> frame[t].question]
  <2> SUFFICES ASSUME NEW p \in found
               PROVE  p = [id |-> frame[t].id, question |-> frame[t].question]
    OBVIOUS
  <2>1. p \in pending /\ p.id = frame[t].id
    BY <1>1
  <2>2. p.question \in Questions /\ p = [id |-> p.id, question |-> p.question]
    BY <2>1, EntryType
  <2>3. Pair(frame[t].id, p.question)
    BY <2>1 DEF Pair, Entered
  <2> QED
    BY <1>3, <2>1, <2>2, <2>3 DEF CallbackInv, PairInv
<1>5. found # {} => holds'[t] = frame[t].question
  BY <1>2, <1>4
<1>6. \A w \in Frames : Asking(w)' = Asking(w) /\ Question(w)' = Question(w)
  BY <1>2 DEF Asking, Question
<1>7. PairInv'
  <2>1. \A id, q : Pair(id, q)' => Pair(id, q)
    BY <1>2, <1>6 DEF Pair, Entered, Asks, OnWire, Answers
  <2> QED
    BY <1>2, <2>1 DEF CallbackInv, PairInv
<1>8. AskInv' /\ TakenInv' /\ NoLeakedCallback' /\ AnswerMatchesQuestion'
  BY <1>2, <1>6 DEF CallbackInv, AskInv, TakenInv, NoLeakedCallback, AnswerMatchesQuestion
<1>9. WaiterReachable'
  <2> SUFFICES ASSUME NEW w \in Frames, Asking(w)
               PROVE  \/ [id |-> callId[w], question |-> Question(w)] \in pending'
                      \/ \E u \in Frames : pc'[u] = "deliver" /\ holds'[u] = Question(w)
                      \/ channel[w] # NoQuestion
    BY <1>2, <1>6 DEF WaiterReachable
  <2>1. CASE [id |-> callId[w], question |-> Question(w)] \in found
    BY <1>2, <1>4, <1>5, <2>1
  <2>2. CASE [id |-> callId[w], question |-> Question(w)] \notin found
    BY <1>2, <2>2 DEF CallbackInv, WaiterReachable
  <2> QED
    BY <2>1, <2>2
<1>10. \A q \in Questions : Past(q) => Past(q)'
  <2>1. \A w \in Frames : serving[w] # 0 => /\ serving'[w] = serving[w]
                                            /\ used[w] <= used'[w] /\ used'[w] \in Nat
    BY <1>2, BoundAssumption DEF TypeInv, TypeOK, WorkersTypeOK
  <2>2. \A u \in Frames : Ended(u) => Ended(u)'
    BY <1>2 DEF Ended
  <2> QED
    BY <2>1, <2>2, PastKept
<1>11. HoldInv'
  <2> SUFFICES ASSUME NEW u \in Frames, pc'[u] = "deliver",
                      NEW q, q = holds'[u]
               PROVE  /\ q = frame[u].question
                      /\ Past(q)'
                      /\ \A w \in Frames : Asking(w) /\ Question(w) = q =>
                            \A p \in pending' : p.id # callId[w]
    BY <1>2, <1>6 DEF HoldInv, Past
  <2>1. CASE u = t
    <3>1. q = frame[t].question /\ found # {}
      BY <1>2, <1>5, <2>1
    <3>2. PICK v \in Frames : Asking(v) /\ callId[v] = frame[t].id /\ Question(v) = q
      <4>1. PICK p \in found : TRUE
        BY <3>1
      <4>2. p \in pending /\ p.id = frame[t].id /\ p.question = q
        BY <1>1, <1>4, <3>1, <4>1
      <4> QED
        BY <4>2 DEF CallbackInv, NoLeakedCallback
    <3>3. Past(q)
      <4>1. serving[v] = q[1] /\ used[v] = q[2] /\ used[v] \in Nat
        BY <3>2, BoundAssumption DEF Question, TypeInv, TypeOK, WorkersTypeOK
      <4> QED
        BY <4>1 DEF Past
    <3>4. \A w \in Frames : Asking(w) /\ Question(w) = q => callId[w] = frame[t].id
      BY <3>2, OneAsker
    <3> QED
      BY <1>1, <1>2, <1>3, <1>10, <2>1, <3>1, <3>3, <3>4
  <2>2. CASE u # t
    <3>1. pc[u] = "deliver" /\ q = holds[u]
      BY <1>2, <2>2
    <3>2. q = frame[u].question /\ Past(q) /\ q \in Questions
      BY <3>1, AnswerType DEF CallbackInv, HoldInv, Past, TypeInv, TypeOK, KindInv
    <3> QED
      BY <1>2, <1>10, <3>1, <3>2 DEF CallbackInv, HoldInv
  <2> QED
    BY <2>1, <2>2
<1> QED
  BY <1>7, <1>8, <1>9, <1>11 DEF CallbackInv

\* The payload reaches the worker that waits on the question, if one still does.
LEMMA DeliverKeeps ==
    ASSUME TypeInv, ReplyInv, CallbackInv, NEW t \in Frames, Deliver(t)
    PROVE  CallbackInv'
<1>1. /\ pc[t] = "deliver" /\ pc'[t] = "done"
      /\ UNCHANGED <<nextCallback, pending, callId, worker, serving, used, frame,
                     outbound, written>>
      /\ \A u \in Frames \ {t} : pc'[u] = pc[u] /\ holds'[u] = holds[u]
      /\ \A w \in Frames : channel'[w] = IF Asking(w) /\ Question(w) = holds[t]
                                           THEN frame[t].question ELSE channel[w]
  BY DEF Deliver, Step, TypeInv, TypeOK, TasksTypeOK, inner, transport
<1>2. /\ holds[t] = frame[t].question /\ frame[t].question # NoQuestion
      /\ \A w \in Frames : Asking(w) /\ Question(w) = holds[t] =>
            \A p \in pending : p.id # callId[w]
  BY <1>1, AnswerType, NoQuestionIsNone
  DEF CallbackInv, HoldInv, TypeInv, TypeOK, KindInv
<1>3. \A w \in Frames : Asking(w)' = Asking(w) /\ Question(w)' = Question(w)
  BY <1>1 DEF Asking, Question
<1>4. PairInv'
  <2>1. \A id, q : Pair(id, q)' => Pair(id, q)
    BY <1>1, <1>3 DEF Pair, Entered, Asks, OnWire, Answers
  <2> QED
    BY <1>1, <2>1 DEF CallbackInv, PairInv
<1>5. AskInv' /\ NoLeakedCallback'
  BY <1>1, <1>3 DEF CallbackInv, AskInv, NoLeakedCallback
<1>6. TakenInv' /\ AnswerMatchesQuestion'
  BY <1>1, <1>2, <1>3 DEF CallbackInv, TakenInv, AnswerMatchesQuestion
<1>7. WaiterReachable'
  BY <1>1, <1>2, <1>3 DEF CallbackInv, WaiterReachable
<1>8. \A q \in Questions : Past(q) => Past(q)'
  <2>1. \A w \in Frames : serving[w] # 0 => /\ serving'[w] = serving[w]
                                            /\ used[w] <= used'[w] /\ used'[w] \in Nat
    BY <1>1, BoundAssumption DEF TypeInv, TypeOK, WorkersTypeOK
  <2>2. \A u \in Frames : Ended(u) => Ended(u)'
    BY <1>1 DEF Ended
  <2> QED
    BY <2>1, <2>2, PastKept
<1>9. HoldInv'
  <2> SUFFICES ASSUME NEW u \in Frames, pc'[u] = "deliver", NEW q, q = holds'[u]
               PROVE  /\ q = frame[u].question
                      /\ Past(q)'
                      /\ \A w \in Frames : Asking(w) /\ Question(w) = q =>
                            \A p \in pending : p.id # callId[w]
    BY <1>1, <1>3 DEF HoldInv, Past
  <2>1. u # t /\ pc[u] = "deliver" /\ q = holds[u]
    BY <1>1
  <2>2. q = frame[u].question /\ Past(q) /\ q \in Questions
    BY <2>1, AnswerType DEF CallbackInv, HoldInv, Past, TypeInv, TypeOK, KindInv
  <2> QED
    BY <1>8, <2>1, <2>2 DEF CallbackInv, HoldInv
<1> QED
  BY <1>4, <1>5, <1>6, <1>7, <1>9 DEF CallbackInv

-----------------------------------------------------------------------------
(* Workers.                                                                 *)

\* What a worker is served is waited for, so it has not ended.
LEMMA ServedWaits ==
    ASSUME TypeInv, ReplyInv, NEW w \in Frames, Busy(w)
    PROVE  /\ serving[w] \in Frames /\ pc[serving[w]] = "await"
           /\ \A v \in Frames : serving[v] = serving[w] => v = w
BY DEF TypeInv, ServingInv, ReplyInv, HolderInv

LEMMA ReceiveCallback ==
    ASSUME TypeInv, ReplyInv, CallbackInv, NEW w \in Frames, Receive(w) \/ Abandon(w)
    PROVE  CallbackInv'
<1>1. /\ worker[w] = "idle" /\ worker'[w] \in {"running", "gone"}
      /\ \A v \in Frames \ {w} : worker'[v] = worker[v] /\ serving'[v] = serving[v]
      /\ UNCHANGED <<nextCallback, pending, holds, callId, channel, used, frame, outbound,
                     written>>
      /\ serving[w] = 0
  BY DEF Receive, Abandon, TypeInv, TypeOK, WorkersTypeOK, ReplyInv, IdleInv, Busy, inner,
         tasks, transport
<1>2. \A u \in Frames : \/ pc'[u] = pc[u]
                        \/ pc[u] = "await" /\ pc'[u] = AfterDrop(u)
  BY DEF Receive, Abandon, tasks
<1>3. \A v \in Frames : (Asking(v)' <=> Asking(v))
                        /\ (Asking(v) => Question(v)' = Question(v))
  BY <1>1 DEF Asking, Question
<1>4. \A id \in Nat, q \in Questions : OnWire(id, q)' => OnWire(id, q)
  BY <1>1 DEF OnWire
<1>5. \A id \in Nat, q \in Questions : Pair(id, q)' => Pair(id, q)
  BY <1>1, <1>3, <1>4, SamePairs
<1>6. \A q \in Questions : Past(q) => Past(q)'
  <2>1. \A v \in Frames : serving[v] # 0 => /\ serving'[v] = serving[v]
                                            /\ used[v] <= used'[v] /\ used'[v] \in Nat
    BY <1>1, BoundAssumption DEF TypeInv, TypeOK, WorkersTypeOK
  <2>2. \A u \in Frames : Ended(u) => Ended(u)'
    BY <1>2 DEF Ended
  <2> QED
    BY <2>1, <2>2, PastKept
<1>7. \A u \in Frames : (pc'[u] = "deliver" <=> pc[u] = "deliver")
                        /\ (pc[u] = "deliver" => frame'[u] = frame[u])
  BY <1>1, <1>2 DEF AfterDrop
<1> QED
  BY <1>1, <1>3, <1>5, <1>6, <1>7, CallbackStutter

LEMMA NotifyCallback ==
    ASSUME TypeInv, ReplyInv, CallbackInv, NEW w \in Frames, Notify(w)
    PROVE  CallbackInv'
<1>1. /\ ~Asking(w) /\ used'[w] = used[w] + 1 /\ used'[w] \in Nat
      /\ \A v \in Frames \ {w} : used'[v] = used[v]
      /\ UNCHANGED <<nextCallback, pending, holds, callId, channel, worker, serving, pc,
                     frame>>
  BY BoundAssumption DEF Notify, Asking, TypeInv, TypeOK, WorkersTypeOK, inner, tasks
<1>2. \A v \in Frames : (Asking(v)' <=> Asking(v))
                        /\ (Asking(v) => Question(v)' = Question(v))
  BY <1>1 DEF Asking, Question
<1>3. \A id \in Nat, q \in Questions : OnWire(id, q)' => OnWire(id, q)
  <2>1. PICK m : m = [kind |-> "note"]
    OBVIOUS
  <2>2. m.kind # "call" /\ Push(m) /\ UNCHANGED written
    BY <2>1 DEF Notify
  <2> QED
    BY <2>2, PushWire
<1>4. \A id \in Nat, q \in Questions : Pair(id, q)' => Pair(id, q)
  BY <1>1, <1>2, <1>3, SamePairs
<1>5. \A q \in Questions : Past(q) => Past(q)'
  <2>1. \A v \in Frames : used[v] \in Nat
    BY BoundAssumption DEF TypeInv, TypeOK, WorkersTypeOK
  <2>2. \A v \in Frames : serving[v] # 0 => /\ serving'[v] = serving[v]
                                            /\ used[v] <= used'[v] /\ used'[v] \in Nat
    BY <1>1, <2>1
  <2>3. \A u \in Frames : Ended(u) => Ended(u)'
    BY <1>1 DEF Ended
  <2> QED
    BY <2>2, <2>3, PastKept
<1> QED
  BY <1>1, <1>2, <1>4, <1>5, CallbackStutter

LEMMA ReturnCallback ==
    ASSUME TypeInv, ReplyInv, CallbackInv, NEW w \in Frames, NEW ok \in BOOLEAN,
           Return(w, ok)
    PROVE  CallbackInv'
<1>1. PICK t : t = serving[w]
  OBVIOUS
<1>2. t \in Frames /\ pc[t] = "await" /\ \A v \in Frames : serving[v] = t => v = w
  BY <1>1, ServedWaits DEF Return, Busy
<1>3. /\ worker[w] = "running" /\ worker'[w] = "idle"
      /\ \A v \in Frames \ {w} : /\ worker'[v] = worker[v] /\ serving'[v] = serving[v]
                                 /\ used'[v] = used[v]
      /\ \A u \in Frames \ {t} : pc'[u] = pc[u]
      /\ pc'[t] = AfterReply(t, ok)
      /\ UNCHANGED <<nextCallback, pending, holds, callId, channel, frame, outbound, written>>
  BY <1>1, <1>2 DEF Return, TypeInv, TypeOK, WorkersTypeOK, TasksTypeOK, inner, transport
<1>4. pc'[t] \in {"flag_ok", "flag_err", "answer_ok", "answer_err", "done"}
  BY <1>3 DEF AfterReply, Outcome
<1>5. \A v \in Frames : (Asking(v)' <=> Asking(v))
                        /\ (Asking(v) => Question(v)' = Question(v))
  BY <1>3 DEF Asking, Question
<1>6. \A id \in Nat, q \in Questions : OnWire(id, q)' => OnWire(id, q)
  BY <1>3 DEF OnWire
<1>7. \A id \in Nat, q \in Questions : Pair(id, q)' => Pair(id, q)
  BY <1>3, <1>5, <1>6, SamePairs
<1>8. \A q \in Questions : Past(q) => Past(q)'
  <2> SUFFICES ASSUME NEW q \in Questions, Past(q) PROVE Past(q)'
    OBVIOUS
  <2>1. q[1] \in Frames
    BY DEF Questions
  <2>2. CASE q[1] = t
    BY <1>4, <2>2 DEF Past
  <2>3. CASE q[1] # t
    BY <1>1, <1>3, <2>1, <2>3 DEF Past
  <2> QED
    BY <2>2, <2>3
<1>9. \A u \in Frames : (pc'[u] = "deliver" <=> pc[u] = "deliver")
                        /\ (pc[u] = "deliver" => frame'[u] = frame[u])
  BY <1>2, <1>3, <1>4
<1> QED
  BY <1>3, <1>5, <1>7, <1>8, <1>9, CallbackStutter

\* A worker stops waiting, and its entry is not in the map any more.
LEMMA SettleCallback ==
    ASSUME TypeInv, ReplyInv, CallbackInv, NEW w \in Frames, Asking(w),
           ~Asking(w)', channel'[w] = NoQuestion,
           \A v \in Frames \ {w} : /\ worker'[v] = worker[v] /\ callId'[v] = callId[v]
                                   /\ channel'[v] = channel[v],
           pending' = Forget(callId[w]),
           UNCHANGED <<nextCallback, holds, serving, used, pc, frame>>,
           \A id \in Nat, q \in Questions : OnWire(id, q)' => OnWire(id, q)
    PROVE  CallbackInv'
<1>1. \A v \in Frames : Asking(v)' => /\ v # w /\ Asking(v) /\ Question(v)' = Question(v)
                                      /\ callId'[v] = callId[v]
  BY DEF Asking, Question
<1>2. pending' \subseteq pending /\ \A p \in pending' : p.id # callId[w]
  BY DEF Forget
<1>3. PairInv'
  <2>1. ASSUME NEW id \in Nat, NEW q \in Questions, Pair(id, q)'
        PROVE  Pair(id, q)
    <3>1. Entered(id, q)' => Entered(id, q)
      BY <1>2 DEF Entered
    <3>2. Asks(id, q)' => Asks(id, q)
      BY <1>1 DEF Asks
    <3>3. Answers(id, q)' => Answers(id, q)
      BY DEF Answers
    <3> QED
      BY <2>1, <3>1, <3>2, <3>3 DEF Pair
  <2> QED
    BY <2>1 DEF CallbackInv, PairInv
<1>4. AskInv'
  BY <1>1 DEF CallbackInv, AskInv
<1>5. TakenInv'
  BY <1>1, <1>2 DEF CallbackInv, TakenInv
<1>6. AnswerMatchesQuestion'
  <2> SUFFICES ASSUME NEW v \in Frames, channel'[v] # NoQuestion
               PROVE  Asking(v)' /\ channel'[v] = Question(v)'
    BY DEF AnswerMatchesQuestion
  <2>1. v # w /\ Asking(v) /\ channel'[v] = Question(v)
    BY DEF CallbackInv, AnswerMatchesQuestion
  <2> QED
    BY <2>1 DEF Asking, Question
<1>7. NoLeakedCallback'
  <2> SUFFICES ASSUME NEW p \in pending'
               PROVE  \E v \in Frames : /\ Asking(v)' /\ callId'[v] = p.id
                                        /\ Question(v)' = p.question
    BY DEF NoLeakedCallback
  <2>1. PICK v \in Frames : Asking(v) /\ callId[v] = p.id /\ Question(v) = p.question
    BY <1>2 DEF CallbackInv, NoLeakedCallback
  <2>2. v # w
    BY <1>2, <2>1
  <2>3. Asking(v)' /\ Question(v)' = Question(v)
    BY <2>1, <2>2 DEF Asking, Question
  <2> QED
    BY <2>1, <2>2, <2>3
<1>8. WaiterReachable'
  <2> SUFFICES ASSUME NEW v \in Frames, Asking(v)'
               PROVE  \/ [id |-> callId'[v], question |-> Question(v)'] \in pending'
                      \/ \E t \in Frames : pc[t] = "deliver" /\ holds[t] = Question(v)'
                      \/ channel'[v] # NoQuestion
    BY DEF WaiterReachable
  <2>1. v # w /\ Asking(v) /\ Question(v)' = Question(v) /\ callId'[v] = callId[v]
    BY <1>1
  <2>2. callId[v] # callId[w]
    BY <2>1 DEF CallbackInv, AskInv
  <2>3. [id |-> callId[v], question |-> Question(v)] \in pending
           => [id |-> callId[v], question |-> Question(v)] \in pending'
    BY <2>2 DEF Forget
  <2>4. \/ [id |-> callId[v], question |-> Question(v)] \in pending
        \/ \E t \in Frames : pc[t] = "deliver" /\ holds[t] = Question(v)
        \/ channel[v] # NoQuestion
    BY <2>1 DEF CallbackInv, WaiterReachable
  <2> QED
    BY <2>1, <2>3, <2>4
<1>9. HoldInv'
  <2> SUFFICES ASSUME NEW t \in Frames, pc[t] = "deliver"
               PROVE  /\ holds[t] = frame[t].question
                      /\ Past(holds[t])'
                      /\ \A v \in Frames : Asking(v)' /\ Question(v)' = holds[t] =>
                            \A p \in pending' : p.id # callId'[v]
    BY DEF HoldInv, Past
  <2>1. /\ holds[t] = frame[t].question /\ Past(holds[t])
        /\ \A v \in Frames : Asking(v) /\ Question(v) = holds[t] =>
              \A p \in pending : p.id # callId[v]
    BY DEF CallbackInv, HoldInv
  <2>2. Past(holds[t])'
    BY <2>1 DEF Past
  <2> QED
    BY <1>1, <1>2, <2>1, <2>2
<1> QED
  BY <1>3, <1>4, <1>5, <1>6, <1>7, <1>8, <1>9 DEF CallbackInv

LEMMA AnsweredCallback ==
    ASSUME TypeInv, ReplyInv, CallbackInv, NEW w \in Frames, Answered(w) \/ Timeout(w)
    PROVE  CallbackInv'
<1>1. /\ worker[w] = "waiting" /\ worker'[w] = "running" /\ channel'[w] = NoQuestion
      /\ \A v \in Frames \ {w} : /\ worker'[v] = worker[v] /\ callId'[v] = callId[v]
                                 /\ channel'[v] = channel[v]
      /\ UNCHANGED <<nextCallback, holds, serving, used, pc, frame, outbound, written>>
  BY DEF Answered, Timeout, TypeInv, TypeOK, WorkersTypeOK, inner, tasks, transport
<1>2. Asking(w) /\ ~Asking(w)'
  BY <1>1 DEF Asking
<1>3. pending' = Forget(callId[w])
  <2>1. CASE Answered(w)
    <3>1. channel[w] # NoQuestion /\ pending' = pending
      BY <2>1 DEF Answered, inner
    <3>2. \A p \in pending : p.id # callId[w]
      BY <1>2, <3>1 DEF CallbackInv, TakenInv
    <3> QED
      BY <3>1, <3>2 DEF Forget
  <2>2. CASE Timeout(w)
    BY <2>2 DEF Timeout
  <2> QED
    BY <2>1, <2>2
<1>4. \A id \in Nat, q \in Questions : OnWire(id, q)' => OnWire(id, q)
  BY <1>1 DEF OnWire
<1> QED
  BY <1>1, <1>2, <1>3, <1>4, SettleCallback

LEMMA CallHostCallback ==
    ASSUME TypeInv, ReplyInv, CallbackInv, NEW w \in Frames, CallHost(w)
    PROVE  CallbackInv'
<1>1. /\ worker[w] = "calling" /\ Asking(w)
      /\ worker \in [Frames -> WorkerStates] /\ callId \in [Frames -> Nat]
      /\ channel \in [Frames -> Questions \cup {NoQuestion}]
      /\ UNCHANGED <<nextCallback, holds, serving, used, pc, frame, written>>
  BY DEF CallHost, Asking, TypeInv, TypeOK, WorkersTypeOK, tasks
<1>2. CASE OutboundClosed
  <2>1. /\ worker' = [worker EXCEPT ![w] = "running"]
        /\ callId' = [callId EXCEPT ![w] = 0]
        /\ pending' = Forget(callId[w])
        /\ channel' = [channel EXCEPT ![w] = NoQuestion]
        /\ outbound' = outbound
    BY <1>2 DEF CallHost, Push
  <2>2. ~Asking(w)' /\ channel'[w] = NoQuestion
    BY <1>1, <2>1 DEF Asking
  <2>3. \A v \in Frames \ {w} : /\ worker'[v] = worker[v] /\ callId'[v] = callId[v]
                                /\ channel'[v] = channel[v]
    BY <1>1, <2>1
  <2>4. \A id \in Nat, q \in Questions : OnWire(id, q)' => OnWire(id, q)
    BY <1>1, <2>1 DEF OnWire
  <2> QED
    BY <1>1, <2>1, <2>2, <2>3, <2>4, SettleCallback
<1>3. CASE ~OutboundClosed
  <2>1. /\ worker' = [worker EXCEPT ![w] = "waiting"]
        /\ callId' = [callId EXCEPT ![w] = @]
        /\ pending' = pending
        /\ channel' = [channel EXCEPT ![w] = @]
    BY <1>3 DEF CallHost
  <2>2. callId' = callId /\ channel' = channel
    BY <1>1, <2>1
  <2>3. \A v \in Frames : (Asking(v)' <=> Asking(v))
                          /\ (Asking(v) => Question(v)' = Question(v))
    BY <1>1, <2>1 DEF Asking, Question
  <2>4. \A id \in Nat, q \in Questions : OnWire(id, q)' => OnWire(id, q) \/ Asks(id, q)
    <3>1. PICK m : m = [kind |-> "call", id |-> callId[w], question |-> Question(w)]
      OBVIOUS
    <3>2. Push(m) /\ UNCHANGED written /\ m.id = callId[w] /\ m.question = Question(w)
      BY <3>1 DEF CallHost
    <3>3. \A id \in Nat, q \in Questions :
             OnWire(id, q)' => OnWire(id, q) \/ (m.id = id /\ m.question = q)
      BY <3>2, PushWire
    <3> QED
      BY <1>1, <3>2, <3>3 DEF Asks
  <2>5. \A t \in Frames : frame'[t] = frame[t] \/ frame'[t].kind # "response"
    BY <1>1
  <2>6. \A id \in Nat, q \in Questions : Pair(id, q)' => Pair(id, q)
    BY <2>1, <2>2, <2>3, <2>4, <2>5, SamePairs
  <2>7. \A q \in Questions : Past(q) => Past(q)'
    BY <1>1 DEF Past
  <2>8. \A t \in Frames : (pc'[t] = "deliver" <=> pc[t] = "deliver")
                          /\ (pc[t] = "deliver" => frame'[t] = frame[t])
    BY <1>1
  <2> QED
    BY <1>1, <2>1, <2>2, <2>3, <2>6, <2>7, <2>8, CallbackStutter
<1> QED
  BY <1>2, <1>3

\* A fresh id is registered for a question nobody has asked before.
LEMMA AllocateCallback ==
    ASSUME TypeInv, ReplyInv, CallbackInv, NEW w \in Frames, Allocate(w)
    PROVE  CallbackInv'
<1>1. PICK k : k = nextCallback
  OBVIOUS
<1>2. PICK r : r = <<serving[w], used[w] + 1>>
  OBVIOUS
<1>3. /\ worker[w] = "running" /\ worker'[w] = "calling" /\ callId'[w] = k
      /\ \A v \in Frames \ {w} : /\ worker'[v] = worker[v] /\ callId'[v] = callId[v]
                                 /\ used'[v] = used[v]
      /\ used'[w] = used[w] + 1 /\ nextCallback' = k + 1 /\ k \in Nat
      /\ UNCHANGED <<holds, serving, channel, pc, frame, outbound, written>>
  BY <1>1 DEF Allocate, TypeInv, TypeOK, WorkersTypeOK, InnerTypeOK, tasks, transport
<1>4. /\ serving[w] \in Frames /\ pc[serving[w]] = "await"
      /\ \A v \in Frames : serving[v] = serving[w] => v = w
  BY <1>3, ServedWaits DEF Busy
<1>5. used[w] \in Nat /\ used[w] < MaxImports /\ r \in Questions
  BY <1>2, <1>4, BoundAssumption
  DEF Allocate, TypeInv, TypeOK, WorkersTypeOK, Questions
<1>6. \A id \in Nat, q \in Questions : Pair(id, q) => id < k
  BY <1>1 DEF CallbackInv, PairInv
<1>7. \A p \in pending : p.id < k
  <2> SUFFICES ASSUME NEW p \in pending PROVE p.id < k
    OBVIOUS
  <2>1. p.id \in Nat /\ p.question \in Questions
    BY EntryType
  <2> QED
    BY <1>6, <2>1 DEF Pair, Entered
<1>8. pending' = pending \cup {[id |-> k, question |-> r]}
  <2>1. pending' = Forget(k) \cup {[id |-> k, question |-> r]}
    BY <1>1, <1>2 DEF Allocate
  <2>2. \A p \in pending : p.id # k
    <3> SUFFICES ASSUME NEW p \in pending PROVE p.id # k
      OBVIOUS
    <3>1. p.id \in Nat /\ p.id < k
      BY <1>7, EntryType
    <3> QED
      BY <1>3, <3>1
  <2> QED
    BY <2>1, <2>2 DEF Forget
<1>9. \A v \in Frames \ {w} : (Asking(v)' <=> Asking(v)) /\ Question(v)' = Question(v)
  BY <1>3 DEF Asking, Question
<1>10. ~Asking(w) /\ Asking(w)' /\ Question(w)' = r /\ channel[w] = NoQuestion
  <2>1. ~Asking(w) /\ Asking(w)' /\ Question(w)' = r
    BY <1>2, <1>3 DEF Asking, Question
  <2> QED
    BY <2>1 DEF CallbackInv, AnswerMatchesQuestion
<1>11. \A v \in Frames : Asking(v) => callId[v] \in Nat /\ callId[v] < k
  <2> SUFFICES ASSUME NEW v \in Frames, Asking(v) PROVE callId[v] \in Nat /\ callId[v] < k
    OBVIOUS
  <2>1. callId[v] \in Nat /\ Question(v) \in Questions
    BY QuestionType
  <2> QED
    BY <1>6, <2>1 DEF Pair, Asks
<1>12. \A v \in Frames : Asking(v)' => v = w \/ (v # w /\ Asking(v) /\ callId'[v] = callId[v]
                                                 /\ callId[v] # k)
  <2> SUFFICES ASSUME NEW v \in Frames, Asking(v)', v # w
               PROVE  Asking(v) /\ callId'[v] = callId[v] /\ callId[v] # k
    OBVIOUS
  <2>1. Asking(v) /\ callId'[v] = callId[v]
    BY <1>3, <1>9
  <2>2. callId[v] \in Nat /\ callId[v] < k
    BY <1>11, <2>1
  <2> QED
    BY <1>3, <2>1, <2>2
<1>13. \A id \in Nat, q \in Questions :
          Pair(id, q)' => Pair(id, q) \/ (id = k /\ q = r)
  <2> SUFFICES ASSUME NEW id \in Nat, NEW q \in Questions, Pair(id, q)'
               PROVE  Pair(id, q) \/ (id = k /\ q = r)
    OBVIOUS
  <2>1. Entered(id, q)' => Entered(id, q) \/ (id = k /\ q = r)
    BY <1>8 DEF Entered
  <2>2. Asks(id, q)' => Asks(id, q) \/ (id = k /\ q = r)
    BY <1>3, <1>9, <1>10 DEF Asks
  <2>3. (OnWire(id, q)' => OnWire(id, q)) /\ (Answers(id, q)' => Answers(id, q))
    BY <1>3 DEF OnWire, Answers
  <2> QED
    BY <2>1, <2>2, <2>3 DEF Pair
<1>14. PairInv'
  <2>1. \A id \in Nat, q \in Questions : Pair(id, q)' => id < k + 1
    <3> SUFFICES ASSUME NEW id \in Nat, NEW q \in Questions, Pair(id, q)'
                 PROVE  id < k + 1
      OBVIOUS
    <3>1. id < k \/ id = k
      BY <1>6, <1>13
    <3> QED
      BY <1>3, <3>1
  <2>2. \A id \in Nat, q, s \in Questions : Pair(id, q)' /\ Pair(id, s)' => q = s
    <3> SUFFICES ASSUME NEW id \in Nat, NEW q \in Questions, NEW s \in Questions,
                        Pair(id, q)', Pair(id, s)'
                 PROVE  q = s
      OBVIOUS
    <3>1. CASE id = k
      <4>1. ~(id < k)
        BY <1>3, <3>1
      <4> QED
        BY <1>6, <1>13, <4>1
    <3>2. CASE id # k
      BY <1>13, <3>2 DEF CallbackInv, PairInv
    <3> QED
      BY <3>1, <3>2
  <2> QED
    BY <1>3, <2>1, <2>2 DEF PairInv
<1>15. AskInv'
  BY <1>3, <1>12 DEF CallbackInv, AskInv
<1>16. TakenInv'
  <2> SUFFICES ASSUME NEW v \in Frames, Asking(v)', channel[v] # NoQuestion,
                      NEW p \in pending'
               PROVE  p.id # callId'[v]
    BY <1>3 DEF TakenInv
  <2>1. Asking(v) /\ callId'[v] = callId[v] /\ callId[v] # k
    BY <1>10, <1>12
  <2> QED
    BY <1>8, <2>1 DEF CallbackInv, TakenInv
<1>17. NoLeakedCallback'
  <2> SUFFICES ASSUME NEW p \in pending'
               PROVE  \E v \in Frames : /\ Asking(v)' /\ callId'[v] = p.id
                                        /\ Question(v)' = p.question
    BY DEF NoLeakedCallback
  <2>1. CASE p = [id |-> k, question |-> r]
    BY <1>3, <1>10, <2>1
  <2>2. CASE p \in pending
    <3>1. PICK v \in Frames : Asking(v) /\ callId[v] = p.id /\ Question(v) = p.question
      BY <2>2 DEF CallbackInv, NoLeakedCallback
    <3>2. v # w
      BY <1>10, <3>1
    <3> QED
      BY <1>3, <1>9, <3>1, <3>2
  <2> QED
    BY <1>8, <2>1, <2>2
<1>18. WaiterReachable'
  <2> SUFFICES ASSUME NEW v \in Frames, Asking(v)'
               PROVE  \/ [id |-> callId'[v], question |-> Question(v)'] \in pending'
                      \/ \E t \in Frames : pc[t] = "deliver" /\ holds[t] = Question(v)'
                      \/ channel[v] # NoQuestion
    BY <1>3 DEF WaiterReachable
  <2>1. CASE v = w
    BY <1>3, <1>8, <1>10, <2>1
  <2>2. CASE v # w
    <3>1. Asking(v) /\ Question(v)' = Question(v) /\ callId'[v] = callId[v]
      BY <1>3, <1>9, <2>2
    <3>2. \/ [id |-> callId[v], question |-> Question(v)] \in pending
          \/ \E t \in Frames : pc[t] = "deliver" /\ holds[t] = Question(v)
          \/ channel[v] # NoQuestion
      BY <3>1 DEF CallbackInv, WaiterReachable
    <3> QED
      BY <1>8, <3>1, <3>2
  <2> QED
    BY <2>1, <2>2
<1>19. AnswerMatchesQuestion'
  <2> SUFFICES ASSUME NEW v \in Frames, channel[v] # NoQuestion
               PROVE  Asking(v)' /\ channel[v] = Question(v)'
    BY <1>3 DEF AnswerMatchesQuestion
  <2>1. v # w /\ Asking(v) /\ channel[v] = Question(v)
    BY <1>10 DEF CallbackInv, AnswerMatchesQuestion
  <2> QED
    BY <1>9, <2>1
<1>20. HoldInv'
  <2> SUFFICES ASSUME NEW t \in Frames, pc[t] = "deliver", NEW q, q = holds[t]
               PROVE  /\ q = frame[t].question
                      /\ Past(q)'
                      /\ \A v \in Frames : Asking(v)' /\ Question(v)' = q =>
                            \A p \in pending' : p.id # callId'[v]
    BY <1>3 DEF HoldInv, Past
  <2>1. /\ q = frame[t].question /\ Past(q) /\ q \in Questions
        /\ \A v \in Frames : Asking(v) /\ Question(v) = q =>
              \A p \in pending : p.id # callId[v]
    BY AnswerType DEF CallbackInv, HoldInv, TypeInv, TypeOK, KindInv, Past
  <2>2. Past(q)'
    <3>1. \A v \in Frames : used[v] \in Nat
      BY BoundAssumption DEF TypeInv, TypeOK, WorkersTypeOK
    <3>2. \A v \in Frames : used[v] <= used'[v] /\ used'[v] \in Nat
      <4> SUFFICES ASSUME NEW v \in Frames PROVE used[v] <= used'[v] /\ used'[v] \in Nat
        OBVIOUS
      <4>1. used[v] \in Nat /\ (used'[v] = used[v] \/ used'[v] = used[v] + 1)
        BY <1>3, <3>1
      <4> QED
        BY <4>1
    <3>3. \A v \in Frames : serving[v] # 0 => /\ serving'[v] = serving[v]
                                              /\ used[v] <= used'[v] /\ used'[v] \in Nat
      BY <1>3, <3>2
    <3>4. \A u \in Frames : Ended(u) => Ended(u)'
      BY <1>3 DEF Ended
    <3> QED
      BY <2>1, <3>3, <3>4, PastKept
  <2>3. q # r
    <3> SUFFICES ASSUME q = r PROVE FALSE
      OBVIOUS
    <3>1. q[1] = serving[w] /\ q[2] = used[w] + 1
      BY <1>2
    <3>2. PICK v \in Frames : serving[v] = q[1] /\ q[2] <= used[v]
      BY <1>4, <2>1, <3>1 DEF Past
    <3>3. v = w
      BY <1>4, <3>1, <3>2
    <3> QED
      BY <1>5, <3>1, <3>2, <3>3
  <2>4. ASSUME NEW v \in Frames, Asking(v)', Question(v)' = q, NEW p \in pending'
        PROVE  p.id # callId'[v]
    <3>1. v # w
      BY <1>10, <2>3, <2>4
    <3>2. Asking(v) /\ Question(v) = q /\ callId'[v] = callId[v] /\ callId[v] # k
      BY <1>9, <1>12, <2>4, <3>1
    <3> QED
      BY <1>8, <2>1, <2>4, <3>2
  <2> QED
    BY <2>1, <2>2, <2>4
<1> QED
  BY <1>14, <1>15, <1>16, <1>17, <1>18, <1>19, <1>20 DEF CallbackInv

-----------------------------------------------------------------------------
LEMMA TaskCallback ==
    ASSUME TypeInv, IdInv, ReplyInv, CallbackInv, NEW t \in Frames, TaskStep(t)
    PROVE  CallbackInv'
BY OtherTaskCallback, TakeCallbackKeeps, DeliverKeeps

LEMMA WorkerCallback ==
    ASSUME TypeInv, ReplyInv, CallbackInv, NEW w \in Frames, WorkerStep(w)
    PROVE  CallbackInv'
BY ReceiveCallback, NotifyCallback, AllocateCallback, CallHostCallback,
   AnsweredCallback, ReturnCallback DEF WorkerStep, Import

LEMMA StepCallback ==
    TypeInv /\ IdInv /\ ReplyInv /\ CallbackInv /\ [Next]_vars => CallbackInv'
BY ReaderCallback, TaskCallback, WorkerCallback DEF Next, Stopped

LEMMA CallbackInvariant == Spec => []CallbackInv
BY InitCallback, StepCallback, TypeInvariant, IdInvariant, ReplyInvariant, PTL DEF Spec

\* For any number of frames, host calls and capacities: the map of pending
\* callbacks holds the entries of the workers that wait and no other, and an
\* answer can still reach every worker that waits, in whatever order answers,
\* deadlines and a failing stdout come.
THEOREM CallbacksMatchWaitersHolds == Spec => []CallbacksMatchWaiters
<1>1. CallbackInv => CallbacksMatchWaiters
  BY DEF CallbackInv, CallbacksMatchWaiters
<1> QED
  BY <1>1, CallbackInvariant, PTL

\* For any number of frames, host calls and capacities: an answer that arrives
\* late never wakes a later call of the component.
THEOREM AnswerMatchesQuestionHolds == Spec => []AnswerMatchesQuestion
<1>1. CallbackInv => AnswerMatchesQuestion
  BY DEF CallbackInv
<1> QED
  BY <1>1, CallbackInvariant, PTL

-----------------------------------------------------------------------------
(* The drain: what the callbacks and the queues hold once all has ended.    *)

\* The reader joins the writer only when every handler has finished.
DrainInv == reader \in {"joining", "exited"} =>
                \A t \in Frames : Read(t) => Finished(t)

\* A handler that has finished takes no further step, and no worker wakes it.
LEMMA FinishedStays ==
    ASSUME TypeInv, ReplyInv, NEW t \in Frames, Finished(t),
           \/ \E u \in Frames : TaskStep(u)
           \/ \E w \in Frames : WorkerStep(w)
    PROVE  Finished(t)'
<1>1. ASSUME NEW u \in Frames, TaskStep(u)
      PROVE  pc[u] # "done" /\ \A v \in Frames \ {u} : pc'[v] = pc[v]
  BY <1>1 DEF TaskStep, Reject, Initialize, Shutdown, ExitNotice, LoadBegin,
              LoadInstantiate, LoadInsert, Snapshot, SendCall, SetActivated, Unload,
              StopWorker, Ignore, TakeCallback, Deliver, Respond, Step, TypeInv, TypeOK,
              TasksTypeOK
<1>2. ASSUME NEW w \in Frames, WorkerStep(w)
      PROVE  pc'[t] = pc[t] \/ pc[t] = "await"
  <2>1. CASE Receive(w)
    BY <2>1 DEF Receive
  <2>2. ASSUME NEW ok \in BOOLEAN, Return(w, ok)
        PROVE  pc'[t] = pc[t] \/ pc[t] = "await"
    <3>1. Busy(w)
      BY <2>2 DEF Return, Busy
    <3>2. pc[serving[w]] = "await"
      BY <3>1, ServedWaits
    <3>3. pc' = [pc EXCEPT ![serving[w]] = AfterReply(serving[w], ok)]
      BY <2>2 DEF Return
    <3> QED
      BY <3>2, <3>3 DEF TypeInv, TypeOK, TasksTypeOK
  <2>3. CASE Abandon(w) \/ Import(w) \/ CallHost(w) \/ Answered(w) \/ Timeout(w)
    BY <2>3 DEF Abandon, Import, Notify, Allocate, CallHost, Answered, Timeout, tasks
  <2> QED
    BY <1>2, <2>1, <2>2, <2>3 DEF WorkerStep
<1> QED
  BY <1>1, <1>2 DEF Finished

LEMMA StepDrain == TypeInv /\ ReplyInv /\ DrainInv /\ [Next]_vars => DrainInv'
<1> SUFFICES ASSUME TypeInv, ReplyInv, DrainInv, [Next]_vars PROVE DrainInv'
  OBVIOUS
<1>1. CASE \/ \E u \in Frames : TaskStep(u)
           \/ \E w \in Frames : WorkerStep(w)
  <2>1. UNCHANGED <<reader, nread>>
    BY <1>1 DEF TaskStep, Reject, Initialize, Shutdown, ExitNotice, LoadBegin,
                LoadInstantiate, LoadInsert, Snapshot, SendCall, SetActivated, Unload,
                StopWorker, Ignore, TakeCallback, Deliver, Respond, WorkerStep, Receive,
                Abandon, Import, Notify, Allocate, CallHost, Answered, Timeout, Return,
                tasks
  <2> QED
    BY <1>1, <2>1, FinishedStays DEF DrainInv, Read
<1>2. CASE \E f : Spawn(f)
  <2>1. reader' = "checking"
    BY <1>2 DEF Spawn
  <2> QED
    BY <2>1 DEF DrainInv
<1>3. CASE CheckExit \/ CloseInput
  <2>1. reader' \in {"reading", "draining"}
    BY <1>3 DEF CheckExit, CloseInput
  <2> QED
    BY <2>1 DEF DrainInv
<1>4. CASE Drained \/ Exit \/ WriterWrite \/ WriterFail \/ UNCHANGED vars
  <2>1. UNCHANGED <<nread, pc>>
    BY <1>4 DEF Drained, Exit, WriterWrite, WriterFail, vars, tasks
  <2>2. \/ \A t \in Frames : Read(t) => Finished(t)
        \/ reader' \in {"joining", "exited"} => reader \in {"joining", "exited"}
    BY <1>4 DEF Drained, Exit, WriterWrite, WriterFail, vars, tasks
  <2> QED
    BY <2>1, <2>2 DEF DrainInv, Read, Finished
<1> QED
  BY <1>1, <1>2, <1>3, <1>4 DEF Next, Stopped, ReaderStep, ReadControl, ReadInitialize,
     ReadLoad, ReadForInstance, ReadResponse

LEMMA DrainInvariant == Spec => []DrainInv
<1>1. Init => DrainInv
  BY DEF Init, DrainInv
<1> QED
  BY <1>1, StepDrain, TypeInvariant, ReplyInvariant, PTL DEF Spec

\* For any number of frames and host calls: once the handlers are drained no
\* worker is in an export, no call is queued and the map of callbacks is empty.
THEOREM QuietAfterDrainHolds == Spec => []QuietAfterDrain
<1>1. ASSUME TypeInv, ReplyInv, CallbackInv, DrainInv PROVE QuietAfterDrain
  <2> SUFFICES ASSUME reader \in {"joining", "exited"}
               PROVE  /\ pending = {}
                      /\ \A w \in Frames :
                           /\ worker[w] \in {"none", "idle", "gone"}
                           /\ \A n \in 1 .. Len(queue[w]) : queue[w][n] = 0
    BY DEF QuietAfterDrain
  <2>1. \A t \in Frames : pc[t] # "await"
    <3> SUFFICES ASSUME NEW t \in Frames PROVE pc[t] # "await"
      OBVIOUS
    <3>1. t <= nread \/ t > nread
      BY <1>1 DEF TypeInv, TypeOK, TasksTypeOK, Frames
    <3> QED
      BY <1>1, <3>1 DEF DrainInv, Read, Finished, ReplyInv, FreshInv
  <2>2. \A w \in Frames : ~Busy(w)
    BY <1>1, <2>1, ServedWaits
  <2>3. pending = {}
    BY <1>1, <2>2 DEF CallbackInv, NoLeakedCallback, Asking, Busy
  <2>4. \A w \in Frames : worker[w] \in {"none", "idle", "gone"}
    BY <1>1, <2>2 DEF Busy, TypeInv, TypeOK, WorkersTypeOK, WorkerStates
  <2>5. ASSUME NEW w \in Frames, NEW n \in 1 .. Len(queue[w]) PROVE queue[w][n] = 0
    <3>1. queue[w][n] \in FrameOrNone
      BY <1>1, QueueType DEF Places
    <3>2. queue[w][n] \notin Frames
      BY <1>1, <2>1 DEF ReplyInv, HolderInv, Queued, Places
    <3> QED
      BY <3>1, <3>2, FrameIsSlot
  <2> QED
    BY <2>3, <2>4, <2>5
<1> QED
  BY <1>1, TypeInvariant, ReplyInvariant, CallbackInvariant, DrainInvariant, PTL
=============================================================================
