------------------------ MODULE RuntimeContractProofs ------------------------
(***************************************************************************)
(* Runtime implements RpcContract, step by step: the read of a frame that  *)
(* gets an answer accepts it, the write of a response answers it, and the  *)
(* exit of the process closes.  OneAnswerInv makes the second an answer    *)
(* that was asked for and is the first; KeptAnswerInv and LastInv make the *)
(* third wait for all of them: a handler leaves its answer in the channel  *)
(* before it ends, and the message that stops the writer is behind it.     *)
(***************************************************************************)
EXTENDS RuntimeCallbackProofs

\* What each control point says of the frame: only a frame that gets an answer
\* comes to one.
RoleInv ==
    \A t \in Frames :
        /\ pc[t] \in {"send", "await"} => frame[t].kind \in InstanceCalls
        /\ pc[t] \in {"flag_ok", "flag_err"} => frame[t].kind \in {"activate", "deactivate"}
        /\ pc[t] = "stop" => frame[t].kind = "unload"
        /\ pc[t] \in {"answer_ok", "answer_err"} => frame[t].kind \in Answerable

\* The answer to a frame on its way to stdout.
AnswerAt(n, t) == outbound[n].kind = "response" /\ outbound[n].of = t
OnItsWay(t)    == \E n \in 1 .. Len(outbound) : AnswerAt(n, t)

\* An answer was given by a handler that has ended, and it is in one place.
OneAnswerInv ==
    \A t \in Frames :
        /\ OnItsWay(t) \/ HasResponse(t, written) =>
               Finished(t) /\ frame[t].kind \in Answerable
        /\ OnItsWay(t) => ~HasResponse(t, written)
        /\ \A m, n \in 1 .. Len(outbound) : AnswerAt(m, t) /\ AnswerAt(n, t) => m = n

\* A handler that has ended has given its answer, and only a stdout that failed
\* may have lost it.
KeptAnswerInv ==
    \A t \in Frames :
        Finished(t) /\ frame[t].kind \in Answerable =>
            OnItsWay(t) \/ HasResponse(t, written) \/ writer = "failed"

\* The message that stops the writer is behind every answer.
LastInv ==
    /\ \A n \in 1 .. Len(outbound) : outbound[n].kind = "shutdown" =>
           /\ reader \in {"joining", "exited"}
           /\ \A m \in n + 1 .. Len(outbound) : outbound[m].kind # "response"
    /\ writer = "stopped" =>
           /\ reader \in {"joining", "exited"}
           /\ \A n \in 1 .. Len(outbound) : outbound[n].kind # "response"
    /\ reader = "exited" => writer # "writing"

ContractInv == RoleInv /\ OneAnswerInv /\ KeptAnswerInv /\ LastInv

\* What a handler does with its own control point, and with the channel.
Moves(t) ==
    /\ pc[t] \notin {"unread", "done"}
    /\ pc'[t] \in {"send", "await"} => frame[t].kind \in InstanceCalls
    /\ pc'[t] \in {"flag_ok", "flag_err"} => frame[t].kind \in {"activate", "deactivate"}
    /\ pc'[t] = "stop" => frame[t].kind = "unload"
    /\ pc'[t] \in {"answer_ok", "answer_err"} => frame[t].kind \in Answerable

\* The two ways a call on a worker ends.
LEMMA CallEnds ==
    ASSUME NEW t \in Frames, frame[t].kind \in InstanceCalls
    PROVE  /\ AfterDrop(t) \in {"answer_err", "done"}
           /\ AfterDrop(t) = "answer_err" => frame[t].kind \in Answerable
           /\ AfterDrop(t) = "done" => frame[t].kind \notin Answerable
           /\ \A ok \in BOOLEAN :
                 LET v == AfterReply(t, ok)
                 IN  /\ v \in {"flag_ok", "flag_err", "answer_ok", "answer_err", "done"}
                     /\ v \in {"flag_ok", "flag_err"} => frame[t].kind \in {"activate", "deactivate"}
                     /\ v \in {"answer_ok", "answer_err"} => frame[t].kind \in Answerable
                     /\ v = "done" => frame[t].kind \notin Answerable
BY DEF AfterDrop, AfterReply, Outcome, InstanceCalls, Answerable

\* A step of a handler other than the push of its answer ends it only if its
\* frame gets none.
LEMMA TaskMoves ==
    ASSUME TypeInv, RoleInv, NEW t \in Frames, TaskStep(t)
    PROVE  /\ UNCHANGED <<reader, nread, frame, writer, written>>
           /\ \A u \in Frames \ {t} : pc'[u] = pc[u]
           /\ Moves(t)
           /\ \/ /\ outbound' = outbound
                 /\ pc'[t] = "done" => frame[t].kind \notin Answerable
              \/ Respond(t)
<1> USE DEF Moves
<1>0. pc \in [Frames -> TaskStates] /\ KindInv
  BY DEF TypeInv, TypeOK, TasksTypeOK
<1>1. CASE Reject(t)
  BY <1>0, <1>1 DEF Reject, Step, Answerable, inner, workers, transport
<1>2. CASE Initialize(t)
  BY <1>0, <1>2 DEF Initialize, Step, Outcome, Answerable, workers, transport
<1>3. CASE Shutdown(t)
  BY <1>0, <1>3 DEF Shutdown, Step, Answerable, workers, transport
<1>4. CASE ExitNotice(t)
  BY <1>0, <1>4 DEF ExitNotice, Step, Answerable, workers, transport
<1>5. CASE LoadBegin(t)
  BY <1>0, <1>5 DEF LoadBegin, Step, Answerable, workers, transport
<1>6. CASE LoadInstantiate(t)
  <2>1. frame[t].kind = "load"
    BY <1>0, <1>6 DEF LoadInstantiate, Step, KindInv
  <2> QED
    BY <1>0, <1>6, <2>1 DEF LoadInstantiate, Step, Answerable, transport
<1>7. CASE LoadInsert(t)
  <2>1. frame[t].kind = "load"
    BY <1>0, <1>7 DEF LoadInsert, Step, KindInv
  <2> QED
    BY <1>0, <1>7, <2>1 DEF LoadInsert, Step, Answerable, workers, transport
<1>8. CASE Snapshot(t)
  <2>1. frame[t].kind \in InstanceCalls
    BY <1>8 DEF Snapshot
  <2>2. /\ pc[t] = "start"
        /\ \/ pc' = [pc EXCEPT ![t] = AfterDrop(t)]
           \/ pc' = [pc EXCEPT ![t] = "send"]
        /\ UNCHANGED <<reader, nread, frame, writer, written, outbound>>
    BY <1>8 DEF Snapshot, Step, transport
  <2> QED
    BY <1>0, <2>1, <2>2, CallEnds
<1>9. CASE SendCall(t)
  <2>1. frame[t].kind \in InstanceCalls /\ pc[t] = "send"
    BY <1>9 DEF SendCall, RoleInv
  <2>2. /\ \/ pc' = [pc EXCEPT ![t] = AfterDrop(t)]
           \/ pc' = [pc EXCEPT ![t] = "await"]
        /\ UNCHANGED <<reader, nread, frame, writer, written, outbound>>
    BY <1>9 DEF SendCall, transport
  <2> QED
    BY <1>0, <2>1, <2>2, CallEnds
<1>10. CASE SetActivated(t)
  <2>1. frame[t].kind \in {"activate", "deactivate"}
    BY <1>10 DEF SetActivated, RoleInv
  <2> QED
    BY <1>0, <1>10, <2>1 DEF SetActivated, Outcome, Answerable, workers, transport
<1>11. CASE Unload(t)
  BY <1>0, <1>11 DEF Unload, Step, Answerable, workers, transport
<1>12. CASE StopWorker(t)
  <2>1. frame[t].kind = "unload"
    BY <1>12 DEF StopWorker, Step, RoleInv
  <2> QED
    BY <1>0, <1>12, <2>1 DEF StopWorker, Step, Answerable, transport
<1>13. CASE Ignore(t)
  BY <1>0, <1>13 DEF Ignore, Step, Answerable, transport
<1>14. CASE TakeCallback(t)
  BY <1>0, <1>14 DEF TakeCallback, Step, Answerable, transport
<1>15. CASE Deliver(t)
  <2>1. frame[t].kind = "response"
    BY <1>0, <1>15 DEF Deliver, Step, KindInv
  <2> QED
    BY <1>0, <1>15, <2>1 DEF Deliver, Step, Answerable, transport
<1>16. CASE Respond(t)
  BY <1>0, <1>16 DEF Respond
<1> QED
  BY <1>1, <1>2, <1>3, <1>4, <1>5, <1>6, <1>7, <1>8, <1>9, <1>10, <1>11, <1>12, <1>13,
     <1>14, <1>15, <1>16 DEF TaskStep

\* A step of a worker wakes handlers that await it, and pushes no answer.
LEMMA WorkerMoves ==
    ASSUME TypeInv, ReplyInv, RoleInv, NEW w \in Frames, WorkerStep(w)
    PROVE  /\ UNCHANGED <<reader, nread, frame, writer, written>>
           /\ \A t \in Frames :
                 \/ pc'[t] = pc[t]
                 \/ /\ pc[t] = "await" /\ Moves(t)
                    /\ pc'[t] = "done" => frame[t].kind \notin Answerable
           /\ \/ outbound' = outbound
              \/ \E m : m.kind \in {"note", "call"} /\ Push(m)
<1>0. pc \in [Frames -> TaskStates]
  BY DEF TypeInv, TypeOK, TasksTypeOK
<1>1. ASSUME NEW t \in Frames, pc[t] = "await",
             pc'[t] = AfterDrop(t) \/ \E ok \in BOOLEAN : pc'[t] = AfterReply(t, ok)
      PROVE  Moves(t) /\ (pc'[t] = "done" => frame[t].kind \notin Answerable)
  <2>1. frame[t].kind \in InstanceCalls
    BY <1>1 DEF RoleInv
  <2> QED
    BY <1>1, <2>1, CallEnds DEF Moves
<1>2. CASE Receive(w)
  <2>1. /\ UNCHANGED <<reader, nread, frame, writer, written, outbound>>
        /\ \A t \in Frames : pc'[t] = pc[t] \/ (pc[t] = "await" /\ pc'[t] = AfterDrop(t))
    BY <1>2 DEF Receive, transport
  <2> QED
    BY <1>1, <2>1
<1>3. ASSUME NEW ok \in BOOLEAN, Return(w, ok)
      PROVE  /\ UNCHANGED <<reader, nread, frame, writer, written, outbound>>
             /\ \A t \in Frames : pc'[t] = pc[t] \/ (pc[t] = "await" /\ pc'[t] = AfterReply(t, ok))
  <2>1. Busy(w)
    BY <1>3 DEF Return, Busy
  <2>2. pc[serving[w]] = "await" /\ serving[w] \in Frames
    BY <2>1, ServedWaits
  <2>3. /\ pc' = [pc EXCEPT ![serving[w]] = AfterReply(serving[w], ok)]
        /\ UNCHANGED <<reader, nread, frame, writer, written, outbound>>
    BY <1>3 DEF Return, transport
  <2> QED
    BY <1>0, <2>2, <2>3
<1>4. CASE Abandon(w) \/ Answered(w) \/ Timeout(w)
  BY <1>4 DEF Abandon, Answered, Timeout, tasks, transport
<1>5. CASE Import(w)
  BY <1>5 DEF Import, Notify, Allocate, tasks, transport
<1>6. CASE CallHost(w)
  <2>1. /\ Push([kind |-> "call", id |-> callId[w], question |-> Question(w)])
        /\ UNCHANGED <<reader, nread, frame, pc, writer, written>>
    BY <1>6 DEF CallHost, tasks
  <2> QED
    BY <2>1
<1>7. CASE \E ok \in BOOLEAN : Return(w, ok)
  BY <1>1, <1>3, <1>7
<1> QED
  BY <1>2, <1>4, <1>5, <1>6, <1>7 DEF WorkerStep

-----------------------------------------------------------------------------
(* What a step does to the answers on their way.                            *)

LEMMA OutboundType ==
    ASSUME TypeInv
    PROVE  outbound \in Seq(Message) /\ Len(outbound) \in Nat
BY DEF TypeInv, TypeOK, TransportTypeOK

LEMMA Pushed ==
    ASSUME TypeInv, NEW m, Push(m)
    PROVE  \/ outbound' = outbound /\ writer # "writing"
           \/ /\ writer = "writing"
              /\ Len(outbound') = Len(outbound) + 1
              /\ outbound'[Len(outbound) + 1] = m
              /\ \A n \in 1 .. Len(outbound) : outbound'[n] = outbound[n]
              /\ 1 .. Len(outbound') = 1 .. Len(outbound) \cup {Len(outbound) + 1}
<1>1. outbound \in Seq(Message) /\ Len(outbound) \in Nat
  BY OutboundType
<1>2. CASE writer # "writing"
  BY <1>2 DEF Push, OutboundClosed
<1>3. CASE writer = "writing"
  <2>1. outbound' = Append(outbound, m)
    BY <1>3 DEF Push, OutboundClosed
  <2>2. /\ Len(outbound') = Len(outbound) + 1
        /\ outbound'[Len(outbound) + 1] = m
        /\ \A n \in 1 .. Len(outbound) : outbound'[n] = outbound[n]
    BY <1>1, <2>1, AppendProperties
  <2>3. 1 .. Len(outbound') = 1 .. Len(outbound) \cup {Len(outbound) + 1}
    BY <1>1, <2>2
  <2> QED
    BY <1>3, <2>2, <2>3
<1> QED
  BY <1>2, <1>3

\* A message that is no answer changes nothing about the answers.
LEMMA OtherPushed ==
    ASSUME TypeInv,
           outbound' = outbound \/ \E m : m.kind # "response" /\ Push(m)
    PROVE  \A t \in Frames :
              /\ OnItsWay(t)' <=> OnItsWay(t)
              /\ \A n \in 1 .. Len(outbound') :
                    AnswerAt(n, t)' => n \in 1 .. Len(outbound) /\ AnswerAt(n, t)
<1>1. CASE outbound' = outbound
  BY <1>1 DEF OnItsWay, AnswerAt
<1>2. ASSUME NEW m, m.kind # "response", Push(m), outbound' # outbound
      PROVE  \A t \in Frames :
                /\ OnItsWay(t)' <=> OnItsWay(t)
                /\ \A n \in 1 .. Len(outbound') :
                      AnswerAt(n, t)' => n \in 1 .. Len(outbound) /\ AnswerAt(n, t)
  <2>1. /\ outbound'[Len(outbound) + 1] = m
        /\ \A n \in 1 .. Len(outbound) : outbound'[n] = outbound[n]
        /\ 1 .. Len(outbound') = 1 .. Len(outbound) \cup {Len(outbound) + 1}
    BY <1>2, Pushed
  <2> QED
    BY <1>2, <2>1 DEF OnItsWay, AnswerAt
<1> QED
  BY <1>1, <1>2

\* A step that gives no answer and ends no handler that owes one.
LEMMA AnswersKept ==
    ASSUME TypeInv, OneAnswerInv, KeptAnswerInv,
           written' = written,
           writer = "failed" => writer' = "failed",
           outbound' = outbound \/ \E m : m.kind # "response" /\ Push(m),
           \A t \in Frames : Finished(t) => Finished(t)' /\ frame'[t] = frame[t],
           \A t \in Frames : Finished(t)' /\ ~Finished(t) => frame'[t].kind \notin Answerable
    PROVE  OneAnswerInv' /\ KeptAnswerInv'
<1>1. ASSUME NEW t \in Frames
      PROVE  /\ OnItsWay(t)' <=> OnItsWay(t)
             /\ HasResponse(t, written)' <=> HasResponse(t, written)
             /\ \A n \in 1 .. Len(outbound') :
                   AnswerAt(n, t)' => n \in 1 .. Len(outbound) /\ AnswerAt(n, t)
  BY OtherPushed DEF HasResponse
<1>2. OneAnswerInv'
  <2> SUFFICES ASSUME NEW t \in Frames
               PROVE  /\ (OnItsWay(t)' \/ HasResponse(t, written)') =>
                             Finished(t)' /\ frame'[t].kind \in Answerable
                      /\ OnItsWay(t)' => ~HasResponse(t, written)'
                      /\ \A m, n \in 1 .. Len(outbound') :
                            AnswerAt(m, t)' /\ AnswerAt(n, t)' => m = n
    BY DEF OneAnswerInv, AnswerAt
  <2>1. /\ OnItsWay(t) \/ HasResponse(t, written) =>
               Finished(t) /\ frame[t].kind \in Answerable
        /\ OnItsWay(t) => ~HasResponse(t, written)
        /\ \A m, n \in 1 .. Len(outbound) : AnswerAt(m, t) /\ AnswerAt(n, t) => m = n
    BY DEF OneAnswerInv
  <2> QED
    BY <1>1, <2>1
<1>3. KeptAnswerInv'
  <2> SUFFICES ASSUME NEW t \in Frames, Finished(t)', frame'[t].kind \in Answerable
               PROVE  OnItsWay(t)' \/ HasResponse(t, written)' \/ writer' = "failed"
    BY DEF KeptAnswerInv
  <2>1. Finished(t) /\ frame'[t] = frame[t]
    OBVIOUS
  <2>2. OnItsWay(t) \/ HasResponse(t, written) \/ writer = "failed"
    BY <2>1 DEF KeptAnswerInv
  <2> QED
    BY <1>1, <2>2
<1> QED
  BY <1>2, <1>3

\* The push of an answer.
LEMMA RespondAnswers ==
    ASSUME TypeInv, ReplyInv, DrainInv, ContractInv, NEW t \in Frames, TaskStep(t), Respond(t)
    PROVE  OneAnswerInv' /\ KeptAnswerInv' /\ LastInv'
<1> DEFINE a == [kind |-> "response", of |-> t, ok |-> pc[t] = "answer_ok"]
<1>1. /\ pc[t] \in {"answer_ok", "answer_err"} /\ ~Finished(t)
      /\ frame[t].kind \in Answerable
      /\ Push(a)
      /\ UNCHANGED <<reader, nread, frame, writer, written>>
  BY DEF Respond, Finished, ContractInv, RoleInv
<1>2. pc \in [Frames -> TaskStates] /\ nread \in Nat /\ t \in Nat
  BY DEF TypeInv, TypeOK, TasksTypeOK, Frames
<1>3. pc' = [pc EXCEPT ![t] = "done"]
  BY DEF Respond
<1>4. /\ Finished(t)' /\ \A u \in Frames \ {t} : Finished(u)' <=> Finished(u)
  BY <1>2, <1>3 DEF Finished
<1>5. Read(t)
  BY <1>1, <1>2 DEF ReplyInv, FreshInv, Read
<1>6. reader \notin {"joining", "exited"}
  BY <1>1, <1>5 DEF DrainInv
<1>7. /\ writer \in {"writing", "failed"}
      /\ \A n \in 1 .. Len(outbound) : outbound[n].kind # "shutdown"
  BY <1>6 DEF ContractInv, LastInv, TypeInv, TypeOK, TransportTypeOK
<1>8. ~OnItsWay(t) /\ ~HasResponse(t, written)
  BY <1>1 DEF ContractInv, OneAnswerInv
<1>9. ASSUME NEW u \in Frames PROVE HasResponse(u, written)' <=> HasResponse(u, written)
  BY <1>1 DEF HasResponse
<1>10. a.kind = "response" /\ a.of = t
  OBVIOUS
<1> HIDE DEF a
<1>11. CASE outbound' = outbound /\ writer = "failed"
  <2>1. \A u \in Frames : OnItsWay(u)' <=> OnItsWay(u)
    BY <1>11 DEF OnItsWay, AnswerAt
  <2>2. OneAnswerInv'
    BY <1>1, <1>4, <1>8, <1>9, <1>11, <2>1 DEF ContractInv, OneAnswerInv, AnswerAt
  <2>3. KeptAnswerInv'
    BY <1>1, <1>11 DEF KeptAnswerInv
  <2>4. LastInv'
    BY <1>1, <1>6, <1>11 DEF ContractInv, LastInv
  <2> QED
    BY <2>2, <2>3, <2>4
<1>12. CASE /\ outbound'[Len(outbound) + 1] = a
            /\ \A n \in 1 .. Len(outbound) : outbound'[n] = outbound[n]
            /\ 1 .. Len(outbound') = 1 .. Len(outbound) \cup {Len(outbound) + 1}
  <2>1. OnItsWay(t)' /\ \A n \in 1 .. Len(outbound') : AnswerAt(n, t)' => n = Len(outbound) + 1
    BY <1>8, <1>10, <1>12 DEF OnItsWay, AnswerAt
  <2>2. ASSUME NEW u \in Frames \ {t}
        PROVE  /\ OnItsWay(u)' <=> OnItsWay(u)
               /\ \A n \in 1 .. Len(outbound') :
                     AnswerAt(n, u)' => n \in 1 .. Len(outbound) /\ AnswerAt(n, u)
    BY <1>10, <1>12 DEF OnItsWay, AnswerAt
  <2>3. OneAnswerInv'
    <3> SUFFICES ASSUME NEW u \in Frames
                 PROVE  /\ (OnItsWay(u)' \/ HasResponse(u, written)') =>
                               Finished(u)' /\ frame'[u].kind \in Answerable
                        /\ OnItsWay(u)' => ~HasResponse(u, written)'
                        /\ \A m, n \in 1 .. Len(outbound') :
                              AnswerAt(m, u)' /\ AnswerAt(n, u)' => m = n
      BY DEF OneAnswerInv, AnswerAt
    <3>1. CASE u = t
      BY <1>1, <1>4, <1>8, <1>9, <2>1, <3>1
    <3>2. CASE u # t
      <4>1. /\ OnItsWay(u) \/ HasResponse(u, written) =>
                   Finished(u) /\ frame[u].kind \in Answerable
            /\ OnItsWay(u) => ~HasResponse(u, written)
            /\ \A m, n \in 1 .. Len(outbound) : AnswerAt(m, u) /\ AnswerAt(n, u) => m = n
        BY DEF ContractInv, OneAnswerInv
      <4> QED
        BY <1>1, <1>4, <1>9, <2>2, <3>2, <4>1
    <3> QED
      BY <3>1, <3>2
  <2>4. KeptAnswerInv'
    <3> SUFFICES ASSUME NEW u \in Frames, Finished(u)', frame'[u].kind \in Answerable
                 PROVE  OnItsWay(u)' \/ HasResponse(u, written)' \/ writer' = "failed"
      BY DEF KeptAnswerInv
    <3>1. CASE u = t
      BY <2>1, <3>1
    <3>2. CASE u # t
      BY <1>1, <1>4, <1>9, <2>2, <3>2 DEF ContractInv, KeptAnswerInv
    <3> QED
      BY <3>1, <3>2
  <2>5. \A n \in 1 .. Len(outbound') : outbound'[n].kind # "shutdown"
    BY <1>7, <1>10, <1>12
  <2>6. LastInv'
    BY <1>1, <1>6, <1>7, <2>5 DEF LastInv
  <2> QED
    BY <2>3, <2>4, <2>6
<1> QED
  BY <1>1, <1>7, <1>11, <1>12, Pushed

\* A step that neither stops the writer nor ends the reader.
LEMMA LastKept ==
    ASSUME TypeInv, LastInv,
           writer' = writer,
           reader \in {"joining", "exited"} => reader' \in {"joining", "exited"},
           reader' = "exited" => reader = "exited",
           outbound' = outbound \/ \E m : m.kind \in {"note", "call"} /\ Push(m)
    PROVE  LastInv'
<1>1. CASE outbound' = outbound
  BY <1>1 DEF LastInv
<1>2. ASSUME NEW m, m.kind \in {"note", "call"}, Push(m), outbound' # outbound
      PROVE  LastInv'
  <2>1. /\ writer = "writing"
        /\ outbound'[Len(outbound) + 1] = m
        /\ \A n \in 1 .. Len(outbound) : outbound'[n] = outbound[n]
        /\ 1 .. Len(outbound') = 1 .. Len(outbound) \cup {Len(outbound) + 1}
        /\ Len(outbound') = Len(outbound) + 1
    BY <1>2, Pushed
  <2>2. ASSUME NEW n \in 1 .. Len(outbound'), outbound'[n].kind = "shutdown"
        PROVE  /\ reader' \in {"joining", "exited"}
               /\ \A k \in n + 1 .. Len(outbound') : outbound'[k].kind # "response"
    <3>1. n \in 1 .. Len(outbound) /\ outbound[n].kind = "shutdown"
      BY <1>2, <2>1, <2>2
    <3>2. ASSUME NEW k \in n + 1 .. Len(outbound') PROVE outbound'[k].kind # "response"
      <4>1. k \in n + 1 .. Len(outbound) \/ k = Len(outbound) + 1
        BY <2>1, <3>1, OutboundType
      <4>2. CASE k \in n + 1 .. Len(outbound)
        <5>1. k \in 1 .. Len(outbound)
          BY <3>1, <4>2, OutboundType
        <5> QED
          BY <2>1, <3>1, <4>2, <5>1 DEF LastInv
      <4> QED
        BY <1>2, <2>1, <4>1, <4>2
    <3> QED
      BY <3>1, <3>2 DEF LastInv
  <2> QED
    BY <2>1, <2>2 DEF LastInv
<1> QED
  BY <1>1, <1>2

LEMMA RoleKept ==
    ASSUME TypeInv, RoleInv,
           \A t \in Frames : \/ pc'[t] = pc[t] /\ frame'[t] = frame[t]
                             \/ Moves(t) /\ frame'[t] = frame[t]
                             \/ pc'[t] = "start"
    PROVE  RoleInv'
<1> SUFFICES ASSUME NEW t \in Frames
             PROVE  /\ pc'[t] \in {"send", "await"} => frame'[t].kind \in InstanceCalls
                    /\ pc'[t] \in {"flag_ok", "flag_err"} =>
                          frame'[t].kind \in {"activate", "deactivate"}
                    /\ pc'[t] = "stop" => frame'[t].kind = "unload"
                    /\ pc'[t] \in {"answer_ok", "answer_err"} => frame'[t].kind \in Answerable
  BY DEF RoleInv
<1> QED
  BY DEF RoleInv, Moves

LEMMA TaskContract ==
    ASSUME TypeInv, ReplyInv, DrainInv, ContractInv, NEW t \in Frames, TaskStep(t)
    PROVE  ContractInv'
<1>1. /\ UNCHANGED <<reader, nread, frame, writer, written>>
      /\ \A u \in Frames \ {t} : pc'[u] = pc[u]
      /\ Moves(t)
      /\ \/ /\ outbound' = outbound
            /\ pc'[t] = "done" => frame[t].kind \notin Answerable
         \/ Respond(t)
  BY TaskMoves DEF ContractInv
<1>2. RoleInv'
  BY <1>1, RoleKept DEF ContractInv
<1>3. CASE Respond(t)
  BY <1>2, <1>3, RespondAnswers DEF ContractInv
<1>4. CASE outbound' = outbound /\ (pc'[t] = "done" => frame[t].kind \notin Answerable)
  <2>1. \A u \in Frames : Finished(u) => Finished(u)' /\ frame'[u] = frame[u]
    BY <1>1, FinishedStays
  <2>2. \A u \in Frames : Finished(u)' /\ ~Finished(u) => frame'[u].kind \notin Answerable
    BY <1>1, <1>4 DEF Finished
  <2>3. OneAnswerInv' /\ KeptAnswerInv'
    BY <1>1, <1>4, <2>1, <2>2, AnswersKept DEF ContractInv
  <2>4. LastInv'
    BY <1>1, <1>4, LastKept DEF ContractInv
  <2> QED
    BY <1>2, <2>3, <2>4 DEF ContractInv
<1> QED
  BY <1>1, <1>3, <1>4

LEMMA WorkerContract ==
    ASSUME TypeInv, ReplyInv, ContractInv, NEW w \in Frames, WorkerStep(w)
    PROVE  ContractInv'
<1>1. /\ UNCHANGED <<reader, nread, frame, writer, written>>
      /\ \A t \in Frames :
            \/ pc'[t] = pc[t]
            \/ /\ pc[t] = "await" /\ Moves(t)
               /\ pc'[t] = "done" => frame[t].kind \notin Answerable
      /\ \/ outbound' = outbound
         \/ \E m : m.kind \in {"note", "call"} /\ Push(m)
  BY WorkerMoves DEF ContractInv
<1>2. RoleInv'
  BY <1>1, RoleKept DEF ContractInv
<1>3. \A t \in Frames : Finished(t) => Finished(t)' /\ frame'[t] = frame[t]
  BY <1>1, FinishedStays
<1>4. \A t \in Frames : Finished(t)' /\ ~Finished(t) => frame'[t].kind \notin Answerable
  BY <1>1 DEF Finished
<1>5. outbound' = outbound \/ \E m : m.kind # "response" /\ Push(m)
  BY <1>1
<1>6. OneAnswerInv' /\ KeptAnswerInv'
  BY <1>1, <1>3, <1>4, <1>5, AnswersKept DEF ContractInv
<1>7. LastInv'
  BY <1>1, LastKept DEF ContractInv
<1> QED
  BY <1>2, <1>6, <1>7 DEF ContractInv

LEMMA ReaderContract ==
    ASSUME TypeInv, ReplyInv, ContractInv, ReaderStep \/ UNCHANGED vars
    PROVE  ContractInv'
<1>0. /\ pc \in [Frames -> TaskStates] /\ frame \in [Frames -> Frame] /\ nread \in Nat
      /\ \A t \in Frames : t \in Nat
  BY DEF TypeInv, TypeOK, TasksTypeOK, Frames
<1>1. ASSUME NEW f, Spawn(f) PROVE ContractInv'
  <2> DEFINE n == nread + 1
  <2>1. /\ reader = "reading" /\ reader' = "checking" /\ n \in Frames
        /\ frame' = [frame EXCEPT ![n] = f] /\ pc' = [pc EXCEPT ![n] = "start"]
        /\ UNCHANGED <<outbound, writer, written>>
    BY <1>0, <1>1, BoundAssumption DEF Spawn, transport, Frames, TypeInv, TypeOK, TasksTypeOK
  <2>2. pc[n] = "unread"
    BY <1>0, <2>1 DEF ReplyInv, FreshInv
  <2>3. \A t \in Frames : t # n => pc'[t] = pc[t] /\ frame'[t] = frame[t]
    BY <1>0, <2>1
  <2>4. pc'[n] = "start"
    BY <1>0, <2>1
  <2>5. RoleInv'
    BY <2>3, <2>4, RoleKept DEF ContractInv
  <2>6. /\ \A t \in Frames : Finished(t) => Finished(t)' /\ frame'[t] = frame[t]
        /\ \A t \in Frames : Finished(t)' /\ ~Finished(t) => frame'[t].kind \notin Answerable
    BY <2>2, <2>3, <2>4 DEF Finished
  <2>7. OneAnswerInv' /\ KeptAnswerInv'
    BY <2>1, <2>6, AnswersKept DEF ContractInv
  <2>8. LastInv'
    BY <2>1, LastKept DEF ContractInv
  <2> QED
    BY <2>5, <2>7, <2>8 DEF ContractInv
<1>2. CASE CheckExit \/ CloseInput \/ UNCHANGED vars
  <2>1. /\ UNCHANGED <<frame, pc, outbound, writer, written>>
        /\ reader \in {"joining", "exited"} => reader' \in {"joining", "exited"}
        /\ reader' = "exited" => reader = "exited"
    BY <1>2 DEF CheckExit, CloseInput, vars, tasks, transport
  <2>2. RoleInv'
    BY <2>1, RoleKept DEF ContractInv
  <2>3. OneAnswerInv' /\ KeptAnswerInv'
    BY <2>1, AnswersKept DEF ContractInv, Finished
  <2>4. LastInv'
    BY <2>1, LastKept DEF ContractInv
  <2> QED
    BY <2>2, <2>3, <2>4 DEF ContractInv
<1>3. CASE Drained
  <2> DEFINE m == [kind |-> "shutdown"]
  <2>1. /\ UNCHANGED <<frame, pc, writer, written>>
        /\ reader = "draining" /\ reader' = "joining" /\ Push(m)
        /\ m.kind = "shutdown"
    BY <1>3 DEF Drained
  <2> HIDE DEF m
  <2>2. RoleInv'
    BY <2>1, RoleKept DEF ContractInv
  <2>3. OneAnswerInv' /\ KeptAnswerInv'
    BY <2>1, AnswersKept DEF ContractInv, Finished
  <2>4. writer # "stopped" /\ \A k \in 1 .. Len(outbound) : outbound[k].kind # "shutdown"
    BY <2>1 DEF ContractInv, LastInv
  <2>5. ASSUME outbound' = outbound PROVE LastInv'
    BY <2>1, <2>4, <2>5 DEF LastInv
  <2>6. ASSUME /\ outbound'[Len(outbound) + 1] = m
               /\ \A k \in 1 .. Len(outbound) : outbound'[k] = outbound[k]
               /\ 1 .. Len(outbound') = 1 .. Len(outbound) \cup {Len(outbound) + 1}
               /\ Len(outbound') = Len(outbound) + 1
        PROVE  LastInv'
    <3>1. \A k \in 1 .. Len(outbound') :
             outbound'[k].kind = "shutdown" => k = Len(outbound) + 1
      BY <2>4, <2>6
    <3>2. (Len(outbound) + 1) + 1 .. Len(outbound') = {}
      BY <2>6, OutboundType
    <3> QED
      BY <2>1, <2>4, <3>1, <3>2 DEF LastInv
  <2>7. LastInv'
    BY <2>1, <2>5, <2>6, Pushed
  <2> QED
    BY <2>2, <2>3, <2>7 DEF ContractInv
<1>4. CASE Exit
  <2>1. /\ UNCHANGED <<frame, pc, outbound, writer, written>>
        /\ reader = "joining" /\ reader' = "exited" /\ writer # "writing"
    BY <1>4 DEF Exit, transport
  <2>2. RoleInv'
    BY <2>1, RoleKept DEF ContractInv
  <2>3. OneAnswerInv' /\ KeptAnswerInv'
    BY <2>1, AnswersKept DEF ContractInv, Finished
  <2>4. LastInv'
    BY <2>1 DEF ContractInv, LastInv
  <2> QED
    BY <2>2, <2>3, <2>4 DEF ContractInv
<1> QED
  BY <1>1, <1>2, <1>3, <1>4 DEF ReaderStep, ReadControl, ReadInitialize, ReadLoad,
     ReadForInstance, ReadResponse

\* The writer takes the message at the head of the channel.
LEMMA Taken ==
    ASSUME TypeInv, outbound # <<>>
    PROVE  /\ Len(outbound) >= 1 /\ Head(outbound) = outbound[1]
           /\ Len(Tail(outbound)) = Len(outbound) - 1
           /\ \A n \in 1 .. Len(outbound) - 1 :
                 Tail(outbound)[n] = outbound[n + 1] /\ n + 1 \in 1 .. Len(outbound)
<1>1. outbound \in Seq(Message) /\ Len(outbound) \in Nat
  BY OutboundType
<1>2. Len(outbound) >= 1 /\ Head(outbound) = outbound[1]
  BY <1>1
<1>3. /\ Len(Tail(outbound)) = Len(outbound) - 1
      /\ \A n \in 1 .. Len(Tail(outbound)) : Tail(outbound)[n] = outbound[n + 1]
  BY <1>1, HeadTailProperties
<1> QED
  BY <1>1, <1>2, <1>3

\* An answer the writer takes goes from the channel to stdout; the rest stay.
LEMMA TakenAnswers ==
    ASSUME TypeInv, ContractInv, WriterWrite, NEW t \in Frames
    PROVE  /\ OnItsWay(t)' => OnItsWay(t) /\ ~AnswerAt(1, t)
           /\ OnItsWay(t) => OnItsWay(t)' \/ AnswerAt(1, t)
           /\ HasResponse(t, written)' <=> (HasResponse(t, written) \/ AnswerAt(1, t))
           /\ \A n \in 1 .. Len(outbound') :
                 AnswerAt(n, t)' => n + 1 \in 1 .. Len(outbound) /\ AnswerAt(n + 1, t)
<1>1. outbound # <<>> /\ outbound' = Tail(outbound) /\ Len(outbound) \in Nat
  BY OutboundType DEF WriterWrite
<1>2. /\ Len(outbound) >= 1 /\ Head(outbound) = outbound[1]
      /\ Len(outbound') = Len(outbound) - 1
      /\ \A n \in 1 .. Len(outbound) - 1 :
            outbound'[n] = outbound[n + 1] /\ n + 1 \in 1 .. Len(outbound)
  BY <1>1, Taken
<1>3. \A n \in 1 .. Len(outbound') :
         AnswerAt(n, t)' => n + 1 \in 1 .. Len(outbound) /\ AnswerAt(n + 1, t)
  BY <1>2 DEF AnswerAt
<1>4. \A n \in 2 .. Len(outbound) : n - 1 \in 1 .. Len(outbound') /\ n - 1 + 1 = n
  BY <1>1, <1>2
<1>5. \A n \in 2 .. Len(outbound) : AnswerAt(n, t) => AnswerAt(n - 1, t)'
  BY <1>1, <1>2, <1>4 DEF AnswerAt
<1>6. OnItsWay(t) => OnItsWay(t)' \/ AnswerAt(1, t)
  <2> SUFFICES ASSUME NEW n \in 1 .. Len(outbound), AnswerAt(n, t), ~AnswerAt(1, t)
               PROVE  OnItsWay(t)'
    BY DEF OnItsWay
  <2>1. n \in 2 .. Len(outbound)
    BY <1>1
  <2> QED
    BY <1>4, <1>5, <2>1 DEF OnItsWay, AnswerAt
<1>7. OnItsWay(t)' => OnItsWay(t) /\ ~AnswerAt(1, t)
  <2> SUFFICES ASSUME NEW n \in 1 .. Len(outbound'), AnswerAt(n, t)'
               PROVE  OnItsWay(t) /\ ~AnswerAt(1, t)
    BY DEF OnItsWay, AnswerAt
  <2>1. n + 1 \in 1 .. Len(outbound) /\ AnswerAt(n + 1, t) /\ 1 \in 1 .. Len(outbound)
    BY <1>1, <1>2, <1>3
  <2>2. n + 1 # 1
    BY <1>1, <1>2
  <2> QED
    BY <2>1, <2>2 DEF OnItsWay, ContractInv, OneAnswerInv
<1>8. HasResponse(t, written)' <=> (HasResponse(t, written) \/ AnswerAt(1, t))
  <2>1. CASE Head(outbound).kind \in {"shutdown", "note"}
    <3>1. written' = written
      BY <2>1 DEF WriterWrite
    <3> QED
      BY <1>2, <2>1, <3>1 DEF HasResponse, AnswerAt
  <2>2. CASE Head(outbound).kind \notin {"shutdown", "note"}
    <3>1. written' = written \cup {Head(outbound)}
      BY <2>2 DEF WriterWrite
    <3> QED
      BY <1>2, <3>1 DEF HasResponse, AnswerAt
  <2> QED
    BY <2>1, <2>2
<1> QED
  BY <1>3, <1>6, <1>7, <1>8

LEMMA WriteContract ==
    ASSUME TypeInv, ReplyInv, ContractInv, WriterWrite
    PROVE  ContractInv'
<1>1. /\ UNCHANGED <<reader, nread, frame, pc>> /\ writer = "writing"
      /\ outbound # <<>> /\ outbound' = Tail(outbound) /\ Len(outbound) \in Nat
  BY OutboundType DEF WriterWrite, tasks
<1>2. RoleInv'
  BY <1>1, RoleKept DEF ContractInv
<1>3. OneAnswerInv'
  <2> SUFFICES ASSUME NEW t \in Frames
               PROVE  /\ (OnItsWay(t)' \/ HasResponse(t, written)') =>
                             Finished(t)' /\ frame'[t].kind \in Answerable
                      /\ OnItsWay(t)' => ~HasResponse(t, written)'
                      /\ \A m, n \in 1 .. Len(outbound') :
                            AnswerAt(m, t)' /\ AnswerAt(n, t)' => m = n
    BY DEF OneAnswerInv, AnswerAt
  <2>1. /\ OnItsWay(t) \/ HasResponse(t, written) =>
               Finished(t) /\ frame[t].kind \in Answerable
        /\ OnItsWay(t) => ~HasResponse(t, written)
        /\ \A m, n \in 1 .. Len(outbound) : AnswerAt(m, t) /\ AnswerAt(n, t) => m = n
    BY DEF ContractInv, OneAnswerInv
  <2>2. /\ OnItsWay(t)' => OnItsWay(t) /\ ~AnswerAt(1, t)
        /\ HasResponse(t, written)' <=> (HasResponse(t, written) \/ AnswerAt(1, t))
        /\ \A n \in 1 .. Len(outbound') :
              AnswerAt(n, t)' => n + 1 \in 1 .. Len(outbound) /\ AnswerAt(n + 1, t)
    BY TakenAnswers
  <2>3. AnswerAt(1, t) => OnItsWay(t)
    BY <1>1, Taken DEF OnItsWay
  <2>4. Finished(t)' <=> Finished(t)
    BY <1>1 DEF Finished
  <2>5. \A m, n \in 1 .. Len(outbound') : m + 1 = n + 1 => m = n
    OBVIOUS
  <2> QED
    BY <1>1, <2>1, <2>2, <2>3, <2>4, <2>5
<1>4. KeptAnswerInv'
  <2> SUFFICES ASSUME NEW t \in Frames, Finished(t)', frame'[t].kind \in Answerable
               PROVE  OnItsWay(t)' \/ HasResponse(t, written)'
    BY DEF KeptAnswerInv
  <2>1. Finished(t) /\ frame[t].kind \in Answerable
    BY <1>1 DEF Finished
  <2>2. OnItsWay(t) \/ HasResponse(t, written)
    BY <1>1, <2>1 DEF ContractInv, KeptAnswerInv
  <2> QED
    BY <2>2, TakenAnswers
<1>5. LastInv'
  <2>1. /\ Head(outbound) = outbound[1] /\ 1 \in 1 .. Len(outbound)
        /\ Len(outbound') = Len(outbound) - 1
        /\ \A n \in 1 .. Len(outbound') :
              outbound'[n] = outbound[n + 1] /\ n + 1 \in 1 .. Len(outbound)
    BY <1>1, Taken
  <2>2. \A n \in 1 .. Len(outbound) : outbound[n].kind = "shutdown" =>
           /\ reader \in {"joining", "exited"}
           /\ \A m \in n + 1 .. Len(outbound) : outbound[m].kind # "response"
    BY DEF ContractInv, LastInv
  <2>3. reader # "exited"
    BY <1>1 DEF ContractInv, LastInv
  <2>4. ASSUME NEW n \in 1 .. Len(outbound'), outbound'[n].kind = "shutdown"
        PROVE  /\ reader' \in {"joining", "exited"}
               /\ \A m \in n + 1 .. Len(outbound') : outbound'[m].kind # "response"
    <3>1. outbound[n + 1].kind = "shutdown" /\ n + 1 \in 1 .. Len(outbound)
      BY <2>1, <2>4
    <3>2. ASSUME NEW m \in n + 1 .. Len(outbound') PROVE outbound'[m].kind # "response"
      <4>1. m \in 1 .. Len(outbound') /\ m + 1 \in (n + 1) + 1 .. Len(outbound)
        BY <1>1, <2>1
      <4> QED
        BY <2>1, <2>2, <3>1, <4>1
    <3> QED
      BY <1>1, <2>2, <3>1, <3>2
  <2>5. ASSUME writer' = "stopped"
        PROVE  /\ reader' \in {"joining", "exited"}
               /\ \A n \in 1 .. Len(outbound') : outbound'[n].kind # "response"
    <3>1. outbound[1].kind = "shutdown"
      BY <1>1, <2>1, <2>5 DEF WriterWrite
    <3>2. \A n \in 1 .. Len(outbound') : n + 1 \in 1 + 1 .. Len(outbound)
      BY <1>1, <2>1
    <3> QED
      BY <1>1, <2>1, <2>2, <3>1, <3>2
  <2> QED
    BY <1>1, <2>3, <2>4, <2>5 DEF LastInv
<1> QED
  BY <1>2, <1>3, <1>4, <1>5 DEF ContractInv

LEMMA FailContract ==
    ASSUME TypeInv, ReplyInv, ContractInv, WriterFail
    PROVE  ContractInv'
<1>1. /\ UNCHANGED <<reader, nread, frame, pc, written>> /\ writer = "writing"
      /\ writer' = "failed" /\ outbound' = <<>> /\ 1 .. Len(outbound') = {}
  BY DEF WriterFail, tasks
<1>2. RoleInv'
  BY <1>1, RoleKept DEF ContractInv
<1>3. \A t \in Frames : /\ ~OnItsWay(t)'
                        /\ HasResponse(t, written)' <=> HasResponse(t, written)
                        /\ Finished(t)' <=> Finished(t)
  BY <1>1 DEF OnItsWay, HasResponse, Finished
<1>4. OneAnswerInv'
  BY <1>1, <1>3 DEF ContractInv, OneAnswerInv
<1>5. KeptAnswerInv'
  BY <1>1 DEF KeptAnswerInv
<1>6. LastInv'
  BY <1>1 DEF LastInv
<1> QED
  BY <1>2, <1>4, <1>5, <1>6 DEF ContractInv

LEMMA InitContract == Init => ContractInv
<1> SUFFICES ASSUME Init PROVE ContractInv
  OBVIOUS
<1>1. /\ \A t \in Frames : pc[t] = "unread"
      /\ outbound = <<>> /\ 1 .. Len(outbound) = {} /\ written = {}
      /\ writer = "writing" /\ reader = "reading"
  BY DEF Init
<1> QED
  BY <1>1 DEF ContractInv, RoleInv, OneAnswerInv, KeptAnswerInv, LastInv, OnItsWay,
     HasResponse, Finished

LEMMA StepContract == TypeInv /\ ReplyInv /\ DrainInv /\ ContractInv /\ [Next]_vars => ContractInv'
BY TaskContract, WorkerContract, ReaderContract, WriteContract, FailContract
   DEF Next, Stopped

LEMMA ContractInvariant == Spec => []ContractInv
BY InitContract, StepContract, TypeInvariant, ReplyInvariant, DrainInvariant, PTL DEF Spec

-----------------------------------------------------------------------------
(* The refinement mapping, step by step.                                    *)

LEMMA InitRefines == Init => Contract!Init
<1> SUFFICES ASSUME Init PROVE Contract!Init
  OBVIOUS
<1>1. nread = 0 /\ written = {} /\ writer = "writing" /\ reader = "reading"
  BY DEF Init
<1>2. \A t \in Frames : ~(t <= 0)
  BY DEF Frames
<1>3. OpenFrames = {} /\ AnsweredFrames = {} /\ Link = "up"
  BY <1>1, <1>2 DEF OpenFrames, AnsweredFrames, Link, HasResponse, Read
<1> QED
  BY <1>3 DEF Contract!Init

\* What the contract does not see.
LEMMA Unseen ==
    ASSUME UNCHANGED <<nread, frame, writer, written>>,
           reader' = "exited" <=> reader = "exited"
    PROVE  UNCHANGED Contract!vars
BY DEF Contract!vars, OpenFrames, AnsweredFrames, Link, HasResponse, Read

\* A frame that is read is accepted, if it gets an answer.
LEMMA SpawnRefines ==
    ASSUME TypeInv, ReplyInv, ContractInv, NEW f, Spawn(f)
    PROVE  [Contract!Next]_(Contract!vars)
<1> DEFINE n == nread + 1
<1>1. /\ frame \in [Frames -> Frame] /\ nread \in Nat /\ \A t \in Frames : t \in Nat
      /\ pc \in [Frames -> TaskStates]
  BY DEF TypeInv, TypeOK, TasksTypeOK, Frames
<1>2. /\ reader = "reading" /\ reader' = "checking" /\ n \in Frames
      /\ frame' = [frame EXCEPT ![n] = f] /\ nread' = n
      /\ UNCHANGED <<writer, written>>
  BY <1>1, BoundAssumption DEF Spawn, transport, Frames
<1>3. Link' = Link /\ Link # "closed"
  BY <1>2 DEF Link
<1>4. AnsweredFrames' = AnsweredFrames
  BY <1>2 DEF AnsweredFrames, HasResponse
<1>5. pc[n] = "unread"
  BY <1>1, <1>2 DEF ReplyInv, FreshInv
<1>6. ~HasResponse(n, written)
  BY <1>2, <1>5 DEF ContractInv, OneAnswerInv, Finished
<1>7. \A t \in Frames : Read(t)' <=> (Read(t) \/ t = n)
  BY <1>1, <1>2 DEF Read
<1>8. ~Read(n)
  BY <1>1, <1>2 DEF Read
<1>9. \A t \in Frames : t # n => frame'[t] = frame[t]
  BY <1>1, <1>2
<1>10. \A t \in Frames : HasResponse(t, written)' <=> HasResponse(t, written)
  BY <1>2 DEF HasResponse
<1> HIDE DEF n
<1>11. CASE frame'[n].kind \in Answerable
  <2>1. OpenFrames' = OpenFrames \cup {n}
    BY <1>2, <1>6, <1>7, <1>9, <1>10, <1>11 DEF OpenFrames
  <2>2. n \notin OpenFrames \cup AnsweredFrames
    BY <1>6, <1>8 DEF OpenFrames, AnsweredFrames
  <2>3. Contract!Accept(n)
    BY <1>3, <1>4, <2>1, <2>2 DEF Contract!Accept
  <2> QED
    BY <1>2, <2>3 DEF Contract!Next
<1>12. CASE frame'[n].kind \notin Answerable
  <2>1. OpenFrames' = OpenFrames
    BY <1>2, <1>7, <1>8, <1>9, <1>10, <1>12 DEF OpenFrames
  <2> QED
    BY <1>3, <1>4, <2>1 DEF Contract!vars
<1> QED
  BY <1>11, <1>12

\* What the writer writes answers a frame, or nobody.
LEMMA WriteRefines ==
    ASSUME TypeInv, ReplyInv, ContractInv, WriterWrite
    PROVE  [Contract!Next]_(Contract!vars)
<1>1. /\ UNCHANGED <<reader, nread, frame, pc>> /\ writer = "writing" /\ writer' # "failed"
      /\ outbound # <<>>
  BY DEF WriterWrite, tasks
<1>2. reader # "exited"
  BY <1>1 DEF ContractInv, LastInv
<1>3. Link = "up" /\ Link' = "up"
  BY <1>1, <1>2 DEF Link
<1>4. \A t \in Frames :
         HasResponse(t, written)' <=> (HasResponse(t, written) \/ AnswerAt(1, t))
  BY TakenAnswers
<1>5. CASE \E t \in Frames : AnswerAt(1, t)
  <2>1. PICK t \in Frames : AnswerAt(1, t)
    BY <1>5
  <2>2. \A u \in Frames : AnswerAt(1, u) => u = t
    BY <2>1 DEF AnswerAt
  <2>3. OnItsWay(t)
    BY <1>1, <2>1, Taken, OutboundType DEF OnItsWay
  <2>4. Finished(t) /\ frame[t].kind \in Answerable /\ ~HasResponse(t, written)
    BY <2>3 DEF ContractInv, OneAnswerInv
  <2>5. Read(t)
    BY <2>4 DEF ReplyInv, FreshInv, Finished, Read, TypeInv, TypeOK, TasksTypeOK, Frames
  <2>6. t \in OpenFrames
    BY <2>4, <2>5 DEF OpenFrames
  <2>7. OpenFrames' = OpenFrames \ {t}
    BY <1>1, <1>4, <2>1, <2>2 DEF OpenFrames, Read
  <2>8. AnsweredFrames' = AnsweredFrames \cup {t}
    BY <1>4, <2>1, <2>2 DEF AnsweredFrames
  <2>9. Contract!Answer(t)
    BY <1>3, <2>6, <2>7, <2>8 DEF Contract!Answer
  <2> QED
    BY <2>9 DEF Contract!Next
<1>6. CASE ~\E t \in Frames : AnswerAt(1, t)
  <2>1. OpenFrames' = OpenFrames /\ AnsweredFrames' = AnsweredFrames
    BY <1>1, <1>4, <1>6 DEF OpenFrames, AnsweredFrames, Read
  <2> QED
    BY <1>3, <2>1 DEF Contract!vars
<1> QED
  BY <1>5, <1>6

\* The process exits with its promise kept, or with stdout broken.
LEMMA ExitRefines ==
    ASSUME TypeInv, DrainInv, ContractInv, Exit
    PROVE  [Contract!Next]_(Contract!vars)
<1>1. /\ reader = "joining" /\ reader' = "exited" /\ writer \in {"failed", "stopped"}
      /\ UNCHANGED <<nread, frame, writer, written>>
  BY DEF Exit, transport, TypeInv, TypeOK, TransportTypeOK
<1>2. OpenFrames' = OpenFrames /\ AnsweredFrames' = AnsweredFrames
  BY <1>1 DEF OpenFrames, AnsweredFrames, HasResponse, Read
<1>3. CASE writer = "failed"
  BY <1>1, <1>2, <1>3 DEF Link, Contract!vars
<1>4. CASE writer = "stopped"
  <2>1. Link = "up" /\ Link' = "closed"
    BY <1>1, <1>4 DEF Link
  <2>2. ASSUME NEW t \in Frames, t \in OpenFrames
        PROVE  FALSE
    <3>1. Read(t) /\ frame[t].kind \in Answerable /\ ~HasResponse(t, written)
      BY <2>2 DEF OpenFrames
    <3>2. Finished(t)
      BY <1>1, <3>1 DEF DrainInv
    <3>3. OnItsWay(t)
      BY <1>4, <3>1, <3>2 DEF ContractInv, KeptAnswerInv
    <3>4. ~OnItsWay(t)
      BY <1>4 DEF ContractInv, LastInv, OnItsWay, AnswerAt
    <3> QED
      BY <3>3, <3>4
  <2>3. OpenFrames = {}
    BY <2>2 DEF OpenFrames
  <2>4. Contract!Close
    BY <1>2, <2>1, <2>3 DEF Contract!Close
  <2> QED
    BY <2>4 DEF Contract!Next
<1> QED
  BY <1>1, <1>3, <1>4

LEMMA StepRefines ==
    TypeInv /\ ReplyInv /\ DrainInv /\ ContractInv /\ [Next]_vars
        => [Contract!Next]_(Contract!vars)
<1> SUFFICES ASSUME TypeInv, ReplyInv, DrainInv, ContractInv, [Next]_vars
             PROVE  [Contract!Next]_(Contract!vars)
  OBVIOUS
<1>1. ASSUME NEW t \in Frames, TaskStep(t) PROVE UNCHANGED Contract!vars
  <2>1. UNCHANGED <<reader, nread, frame, writer, written>>
    BY <1>1, TaskMoves DEF ContractInv
  <2> QED
    BY <2>1, Unseen
<1>2. ASSUME NEW w \in Frames, WorkerStep(w) PROVE UNCHANGED Contract!vars
  <2>1. UNCHANGED <<reader, nread, frame, writer, written>>
    BY <1>2, WorkerMoves DEF ContractInv
  <2> QED
    BY <2>1, Unseen
<1>3. CASE \E f : Spawn(f)
  BY <1>3, SpawnRefines
<1>4. CASE CheckExit \/ CloseInput \/ Drained \/ UNCHANGED vars
  <2>1. /\ UNCHANGED <<nread, frame, writer, written>>
        /\ reader' = "exited" <=> reader = "exited"
    BY <1>4 DEF CheckExit, CloseInput, Drained, vars, tasks, transport
  <2> QED
    BY <2>1, Unseen
<1>5. CASE Exit
  BY <1>5, ExitRefines
<1>6. CASE WriterWrite
  BY <1>6, WriteRefines
<1>7. CASE WriterFail
  <2>1. /\ UNCHANGED <<reader, nread, frame, written>> /\ writer = "writing"
        /\ writer' = "failed" /\ reader # "exited"
    BY <1>7 DEF WriterFail, tasks, ContractInv, LastInv
  <2>2. OpenFrames' = OpenFrames /\ AnsweredFrames' = AnsweredFrames
    BY <2>1 DEF OpenFrames, AnsweredFrames, HasResponse, Read
  <2>3. Link = "up" /\ Link' = "broken"
    BY <2>1 DEF Link
  <2> QED
    BY <2>2, <2>3 DEF Contract!Break, Contract!Next
<1> QED
  BY <1>1, <1>2, <1>3, <1>4, <1>5, <1>6, <1>7 DEF Next, Stopped, ReaderStep, ReadControl,
     ReadInitialize, ReadLoad, ReadForInstance, ReadResponse

\* The runtime implements RpcContract, for any number of frames, workers and any
\* capacities: no frame gets an answer it did not ask for, or two; and serve_stdio
\* does not exit, stdout working, before the answer to every frame it accepted has
\* been written.
THEOREM ImplementsContractHolds == Spec => ImplementsContract
<1>1. Init => Contract!Init
  BY InitRefines
<1>2. TypeInv /\ ReplyInv /\ DrainInv /\ ContractInv /\ [Next]_vars
         => [Contract!Next]_(Contract!vars)
  BY StepRefines
<1> QED
  BY <1>1, <1>2, TypeInvariant, ReplyInvariant, DrainInvariant, ContractInvariant, PTL
     DEF Spec, ImplementsContract, Contract!Spec
=============================================================================
