--------------------------- MODULE RpcClientProofs ---------------------------
(***************************************************************************)
(* Theorems about RpcClient for any number of requests and of calls, and   *)
(* pipes of any length.  TypeOK and PendingMatchesOpen hold of both        *)
(* clients; SettledByOwnAnswer and AnswerBeatsClose of the one that tells  *)
(* answers from calls and reads stdout to its end (RpcClient.kt): TLC      *)
(* finds the other one violating the former.                               *)
(***************************************************************************)
EXTENDS RpcClient, SequenceTheorems, TLAPS

\* A frame is in a pipe.
On(s, f) == \E n \in 1 .. Len(s) : s[n] = f

LEMMA OnEmpty == \A f : ~On(<<>>, f)
BY DEF On

LEMMA OnAppend ==
    ASSUME NEW S, NEW s \in Seq(S), NEW m, NEW f
    PROVE  On(Append(s, m), f) <=> On(s, f) \/ f = m
<1>1. /\ Len(Append(s, m)) = Len(s) + 1 /\ Len(s) \in Nat
      /\ Append(s, m)[Len(s) + 1] = m
      /\ \A n \in 1 .. Len(s) : Append(s, m)[n] = s[n]
  <2>1. s \in Seq(S \cup {m}) /\ m \in S \cup {m}
    OBVIOUS
  <2> QED
    BY <2>1, AppendProperties
<1>2. 1 .. Len(s) + 1 = 1 .. Len(s) \cup {Len(s) + 1}
  BY <1>1
<1> QED
  BY <1>1, <1>2 DEF On

LEMMA OnTail ==
    ASSUME NEW S, NEW s \in Seq(S), s # <<>>, NEW f
    PROVE  On(s, f) <=> f = Head(s) \/ On(Tail(s), f)
<1>1. Len(s) \in Nat \ {0} /\ Head(s) = s[1]
  OBVIOUS
<1>2. /\ Len(Tail(s)) = Len(s) - 1
      /\ \A n \in 1 .. Len(Tail(s)) : Tail(s)[n] = s[n + 1]
  BY HeadTailProperties
<1>3. 1 \in 1 .. Len(s) /\ \A n \in 1 .. Len(s) : n = 1 \/ n - 1 \in 1 .. Len(Tail(s))
  BY <1>1, <1>2
<1>4. \A n \in 1 .. Len(Tail(s)) : n + 1 \in 1 .. Len(s)
  BY <1>1, <1>2
<1>5. ASSUME On(s, f), f # Head(s) PROVE On(Tail(s), f)
  <2>1. PICK n \in 1 .. Len(s) : s[n] = f
    BY <1>5 DEF On
  <2>2. n - 1 \in 1 .. Len(Tail(s)) /\ n - 1 + 1 = n
    BY <1>1, <1>3, <1>5, <2>1
  <2> QED
    BY <1>2, <2>1, <2>2 DEF On
<1> QED
  BY <1>1, <1>2, <1>3, <1>4, <1>5 DEF On

-----------------------------------------------------------------------------
(* Types.                                                                   *)

LEMMA OutcomeTypes ==
    /\ Nothing \in Outcome /\ Timeout \in Outcome /\ Closed \in Outcome
    /\ \A f \in Frame : [by |-> "frame", frame |-> f] \in Outcome
    /\ Nothing # Timeout /\ Nothing # Closed /\ Timeout # Closed
    /\ Nothing.by = "none" /\ Timeout.by = "timeout" /\ Closed.by = "closed"
BY DEF Outcome, Nothing, Timeout, Closed

LEMMA FrameTypes ==
    /\ \A q \in Ids : /\ [kind |-> "request", id |-> q] \in Frame
                      /\ [kind |-> "response", id |-> q] \in Frame
    /\ \A c \in CallIds : /\ [kind |-> "call", id |-> c] \in Frame
                          /\ [kind |-> "reply", id |-> c] \in Frame
    /\ \A f \in Frame : /\ f.kind \in {"request", "response"} => f.id \in Ids
                        /\ f.kind \in {"call", "reply"} => f.id \in CallIds
                        /\ f = [kind |-> f.kind, id |-> f.id]
BY DEF Frame

\* The two ends of a pipe: what is written comes last, what is read was first.
LEMMA PipeAppend ==
    ASSUME NEW s \in Seq(Frame), NEW m \in Frame
    PROVE  /\ Append(s, m) \in Seq(Frame)
           /\ \A f : On(Append(s, m), f) <=> On(s, f) \/ f = m
BY AppendProperties, OnAppend

LEMMA PipeTail ==
    ASSUME NEW s \in Seq(Frame), s # <<>>
    PROVE  /\ Head(s) \in Frame /\ Tail(s) \in Seq(Frame)
           /\ \A f : On(s, f) <=> f = Head(s) \/ On(Tail(s), f)
BY HeadTailProperties, OnTail

\* What comes out of stdout is a response, or a call that was made.
OutInv == \A f : On(stdout, f) =>
              f.kind = "response" \/ (f.kind = "call" /\ f.id \in 1 .. calls)

TypeInv == TypeOK /\ OutInv

LEMMA InitType == Init => TypeInv
BY BoundAssumption, OutcomeTypes, OnEmpty DEF Init, TypeInv, OutInv, TypeOK, Peer!Init, Ids

LEMMA StepType == TypeInv /\ [Next]_vars => TypeInv'
<1> SUFFICES ASSUME TypeInv, [Next]_vars PROVE TypeInv'
  OBVIOUS
<1> USE DEF TypeInv, TypeOK
<1>0. ASSUME NEW q \in Ids, NEW m \in Methods, Register(q, m) PROVE TypeInv'
  <2>1. UNCHANGED <<deferred, got, reader, answering, stdin, stdout, runtime>>
    BY <1>0 DEF Register
  <2>2. nextId' \in 1 .. MaxRequests + 1 /\ method' \in [Ids -> Methods \cup {"none"}]
    BY <1>0, BoundAssumption DEF Register, Ids
  <2>3. /\ caller' \in [Ids -> {"idle", "sending", "waiting", "returned"}]
        /\ pending' \subseteq Ids
    BY <1>0 DEF Register
  <2> QED
    BY <2>1, <2>2, <2>3 DEF OutInv, On, runtime
<1>1. ASSUME NEW q \in Ids, Send(q) \/ SendFails(q) \/ Return(q) \/ Expire(q)
      PROVE  TypeInv'
  <2>1. UNCHANGED <<nextId, method, stdout, runtime, deferred, reader, answering>>
    BY <1>1 DEF Send, SendFails, Return, Expire
  <2>3. /\ caller' \in [Ids -> {"idle", "sending", "waiting", "returned"}]
        /\ pending' \subseteq Ids /\ got' \in [Ids -> Outcome]
    <3>1. CASE Send(q)
      BY <3>1 DEF Send
    <3>2. CASE SendFails(q) \/ Return(q) \/ Expire(q)
      <4>1. PICK r \in Outcome : Leave(q, r)
        BY <3>2, OutcomeTypes DEF SendFails, Return, Expire
      <4> QED
        BY <4>1 DEF Leave
    <3> QED
      BY <1>1, <3>1, <3>2
  <2>4. stdin' \in Seq(Frame)
    <3>1. PICK f \in Frame : stdin' = stdin \/ stdin' = Append(stdin, f)
      BY <1>1, FrameTypes DEF Send, SendFails, Return, Expire
    <3> QED
      BY <3>1, PipeAppend
  <2> QED
    BY <2>1, <2>3, <2>4 DEF OutInv, On, runtime
<1>2. CASE Settle \/ Serve
  <2>1. /\ stdout # <<>> /\ stdout' = Tail(stdout)
        /\ UNCHANGED <<nextId, method, caller, got, reader, stdin, runtime>>
    BY <1>2 DEF Settle, Serve, Reading
  <2>2. Head(stdout) \in Frame /\ stdout' \in Seq(Frame)
    BY <2>1, PipeTail
  <2>3. OutInv' /\ calls' = calls
    BY <2>1, PipeTail DEF OutInv, runtime
  <2>4. CASE Settle
    <3>1. pending' \subseteq Ids /\ answering' = answering
          /\ deferred' \in [Ids -> Outcome]
      BY <2>2, <2>4, OutcomeTypes DEF Settle
    <3> QED
      BY <2>1, <2>2, <2>3, <3>1 DEF runtime
  <2>5. CASE Serve
    <3>1. On(stdout, Head(stdout))
      BY <2>1, PipeTail
    <3>2. Head(stdout).id \in 1 .. calls
      BY <2>5, <3>1 DEF Serve, IsAnswer, OutInv
    <3> QED
      BY <2>1, <2>2, <2>3, <2>5, <3>2 DEF Serve, runtime
  <2> QED
    BY <1>2, <2>4, <2>5
<1>3. ASSUME NEW c \in CallIds, Reply(c) PROVE TypeInv'
  <2>1. stdin' \in Seq(Frame) /\ answering' \subseteq answering
    BY <1>3, FrameTypes, PipeAppend DEF Reply
  <2> QED
    BY <1>3, <2>1 DEF Reply, OutInv, On, runtime
<1>4. CASE StreamEnds
  <2>1. deferred' \in [Ids -> Outcome] /\ pending' \subseteq Ids
    BY <1>4, OutcomeTypes DEF StreamEnds
  <2> QED
    BY <1>4, <2>1 DEF StreamEnds, OutInv, On, runtime
<1>5. CASE Accept
  <2>1. Head(stdin) \in Frame /\ stdin' \in Seq(Frame)
    BY <1>5, PipeTail DEF Accept
  <2> QED
    BY <1>5, <2>1, FrameTypes DEF Accept, OutInv, On, client, Peer!Accept
<1>6. ASSUME NEW q \in Ids, Answer(q) PROVE TypeInv'
  <2>1. PICK m \in Frame : m.kind = "response" /\ stdout' = Append(stdout, m)
    BY <1>6, FrameTypes DEF Answer
  <2>2. stdout' \in Seq(Frame) /\ \A f : On(stdout', f) <=> On(stdout, f) \/ f = m
    BY <2>1, PipeAppend
  <2>3. OutInv'
    <3>1. calls' = calls
      BY <1>6 DEF Answer
    <3> QED
      BY <2>1, <2>2, <3>1 DEF OutInv
  <2> QED
    BY <1>6, <2>2, <2>3 DEF Answer, client, Peer!Answer
<1>7. CASE Call
  <2>1. /\ calls + 1 \in CallIds /\ calls' = calls + 1 /\ calls' \in 0 .. MaxCalls
        /\ 1 .. calls \subseteq 1 .. calls' /\ calls' \in 1 .. calls'
    BY <1>7, BoundAssumption DEF Call, CallIds
  <2>2. PICK m \in Frame : /\ m.kind = "call" /\ m.id = calls'
                            /\ stdout' = Append(stdout, m)
    BY <1>7, <2>1, FrameTypes DEF Call
  <2>3. stdout' \in Seq(Frame) /\ \A f : On(stdout', f) <=> On(stdout, f) \/ f = m
    BY <2>2, PipeAppend
  <2>4. OutInv'
    <3>1. \A f : On(stdout, f) => f.kind = "response" \/ (f.kind = "call" /\ f.id \in 1 .. calls')
      BY <2>1 DEF OutInv
    <3> QED
      BY <2>1, <2>2, <2>3, <3>1 DEF OutInv
  <2>5. since' \in [CallIds -> 0 .. MaxRequests]
    <3>1. nextId - 1 \in 0 .. MaxRequests
      BY BoundAssumption
    <3>2. since' = [since EXCEPT ![calls + 1] = nextId - 1]
      BY <1>7 DEF Call
    <3> QED
      BY <3>1, <3>2
  <2> QED
    BY <1>7, <2>1, <2>3, <2>4, <2>5 DEF Call, client
<1>8. ASSUME Gone \/ \E c \in CallIds : GiveUp(c) PROVE TypeInv'
  <2>1. /\ UNCHANGED <<client, stdin, stdout, open, answered, calls, replied, since>>
        /\ link' \in {"up", "broken", "closed"} /\ expired' \subseteq CallIds
    BY <1>8 DEF Gone, GiveUp, Peer!Break, Peer!Close
  <2> QED
    BY <2>1 DEF client, OutInv, On
<1>9. CASE UNCHANGED vars
  BY <1>9 DEF vars, client, runtime, OutInv, On
<1> QED
  BY <1>0, <1>1, <1>2, <1>3, <1>4, <1>5, <1>6, <1>7, <1>8, <1>9 DEF Next, Done

LEMMA TypeInvariant == Spec => []TypeInv
BY InitType, StepType, PTL DEF Spec

\* For any number of requests and calls, the client, the pipes and the runtime
\* keep their types, whichever of the two clients it is.
THEOREM ClientTypeCorrect == Spec => []TypeOK
<1>1. TypeInv => TypeOK
  BY DEF TypeInv
<1> QED
  BY <1>1, TypeInvariant, PTL

-----------------------------------------------------------------------------
(* The map of open requests.                                                *)

\* Where a request stands: ids are handed out in turn, an outcome waits for
\* its caller, and a caller still there is in the map or has an outcome.
CallerOK(q) ==
    /\ caller[q] = "idle" <=> q >= nextId
    /\ caller[q] = "idle" => deferred[q] = Nothing
    /\ caller[q] # "returned" => got[q] = Nothing
    /\ q \in pending => caller[q] \in {"sending", "waiting"}
    /\ caller[q] \in {"sending", "waiting"} /\ deferred[q] = Nothing => q \in pending

CallerInv == \A q \in Ids : CallerOK(q)

LEMMA InitCaller == Init => CallerInv
BY BoundAssumption DEF Init, CallerInv, CallerOK, Ids

LEMMA StepCaller == TypeInv /\ CallerInv /\ [Next]_vars => CallerInv'
<1> SUFFICES ASSUME TypeInv, CallerInv, [Next]_vars, NEW q \in Ids
             PROVE  CallerOK(q)'
  BY DEF CallerInv
<1> USE DEF CallerOK
<1>0. CallerOK(q) /\ q \in Nat /\ nextId \in Nat
  BY BoundAssumption DEF CallerInv, TypeInv, TypeOK, Ids
<1>1. ASSUME NEW p \in Ids, NEW m \in Methods, Register(p, m) PROVE CallerOK(q)'
  <2>1. /\ p = nextId /\ nextId' = nextId + 1 /\ UNCHANGED <<deferred, got>>
        /\ caller'[q] = IF q = p THEN "sending" ELSE caller[q]
        /\ q \in pending' <=> q \in pending \/ q = p
    BY <1>1 DEF Register, TypeInv, TypeOK
  <2> QED
    BY <1>0, <2>1
<1>2. ASSUME NEW p \in Ids, Send(p) PROVE CallerOK(q)'
  <2>1. /\ UNCHANGED <<nextId, pending, deferred, got>> /\ caller[p] = "sending"
        /\ caller'[q] = IF q = p THEN "waiting" ELSE caller[q]
    BY <1>2 DEF Send, TypeInv, TypeOK
  <2> QED
    BY <1>0, <2>1
<1>3. ASSUME NEW p \in Ids, SendFails(p) \/ Return(p) \/ Expire(p) PROVE CallerOK(q)'
  <2>1. /\ UNCHANGED <<nextId, deferred>> /\ caller[p] \in {"sending", "waiting"}
        /\ caller'[q] = IF q = p THEN "returned" ELSE caller[q]
        /\ q # p => got'[q] = got[q]
        /\ q \in pending' <=> q \in pending /\ q # p
    BY <1>3 DEF SendFails, Return, Expire, Leave, TypeInv, TypeOK
  <2> QED
    BY <1>0, <2>1
<1>4. CASE Settle
  <2>1. UNCHANGED <<nextId, caller, got>>
    BY <1>4 DEF Settle
  <2>2. /\ q \in pending' <=> q \in pending /\ q # Head(stdout).id
        /\ \/ deferred'[q] = deferred[q]
              /\ (q = Head(stdout).id /\ q \in pending => deferred[q] # Nothing)
           \/ deferred'[q] # Nothing /\ q \in pending
    BY <1>4, OutcomeTypes DEF Settle, Nothing
  <2> QED
    BY <1>0, <2>1, <2>2
<1>5. CASE StreamEnds
  <2>1. UNCHANGED <<nextId, caller, got>>
    BY <1>5 DEF StreamEnds
  <2>2. /\ q \in pending' => q \in pending
        /\ deferred'[q] = IF q \in pending /\ deferred[q] = Nothing
                          THEN Closed ELSE deferred[q]
    BY <1>5 DEF StreamEnds, Failed, TypeInv, TypeOK
  <2> QED
    BY <1>0, <2>1, <2>2, OutcomeTypes
<1>6. CASE UNCHANGED <<nextId, caller, pending, deferred, got>>
  BY <1>0, <1>6
<1>7. ASSUME Serve \/ (\E c \in CallIds : Reply(c)) \/ Accept
             \/ (\E p \in Ids : Answer(p)) \/ Call \/ (\E c \in CallIds : GiveUp(c))
             \/ Gone \/ UNCHANGED vars
      PROVE  UNCHANGED <<nextId, caller, pending, deferred, got>>
  BY <1>7 DEF Serve, Reply, Accept, Answer, Call, GiveUp, Gone, vars, client
<1> QED
  BY <1>1, <1>2, <1>3, <1>4, <1>5, <1>6, <1>7 DEF Next, Done

LEMMA CallerInvariant == Spec => []CallerInv
BY InitCaller, StepCaller, TypeInvariant, PTL DEF Spec, InitType

\* Whatever the order of registrations, writes, answers, timers, the exit and
\* the end of stdout, and for any number of requests: a map entry always has a
\* caller that is still there, and a caller without an outcome its map entry.
THEOREM PendingNeverStale == Spec => []PendingMatchesOpen
<1>1. CallerInv => PendingMatchesOpen
  BY DEF CallerInv, CallerOK, PendingMatchesOpen
<1> QED
  BY <1>1, CallerInvariant, PTL

-----------------------------------------------------------------------------
(* The runtime sees only requests that were sent.                           *)

SentOK(q) ==
    On(stdin, [kind |-> "request", id |-> q]) \/ q \in open \cup answered
        => caller[q] \in {"waiting", "returned"}

SentInv == \A q \in Ids : SentOK(q)

LEMMA InitSent == Init => SentInv
BY OnEmpty DEF Init, SentInv, SentOK, Peer!Init

LEMMA StepSent == TypeInv /\ CallerInv /\ SentInv /\ [Next]_vars => SentInv'
<1> SUFFICES ASSUME TypeInv, CallerInv, SentInv, [Next]_vars, NEW q \in Ids
             PROVE  SentOK(q)'
  BY DEF SentInv
<1> USE DEF SentOK
<1>0. SentOK(q) /\ TypeOK
  BY DEF SentInv, TypeInv
<1>1. ASSUME NEW p \in Ids, NEW m \in Methods, Register(p, m) PROVE SentOK(q)'
  <2>1. UNCHANGED <<stdin, open, answered>>
    BY <1>1 DEF Register, runtime
  <2>2. caller[p] = "idle" /\ caller' = [caller EXCEPT ![p] = "sending"]
    BY <1>0, <1>1 DEF Register, CallerInv, CallerOK, TypeOK
  <2>3. caller[q] \in {"waiting", "returned"} => caller'[q] \in {"waiting", "returned"}
    BY <1>0, <2>2 DEF TypeOK
  <2> QED
    BY <1>0, <2>1, <2>3 DEF On
<1>2. ASSUME NEW p \in Ids, SendFails(p) \/ Return(p) \/ Expire(p) PROVE SentOK(q)'
  <2>1. UNCHANGED <<stdin, open, answered>>
    BY <1>2 DEF SendFails, Return, Expire, runtime
  <2>2. caller[q] \in {"waiting", "returned"} => caller'[q] \in {"waiting", "returned"}
    BY <1>0, <1>2 DEF SendFails, Return, Expire, Leave, TypeOK
  <2> QED
    BY <1>0, <2>1, <2>2 DEF On
<1>3. ASSUME NEW p \in Ids, Send(p) PROVE SentOK(q)'
  <2>1. UNCHANGED <<open, answered>>
        /\ caller'[q] = IF q = p THEN "waiting" ELSE caller[q]
    BY <1>0, <1>3 DEF Send, TypeOK, runtime
  <2>2. PICK m \in Frame : m.id = p /\ (stdin' = stdin \/ stdin' = Append(stdin, m))
    BY <1>3, FrameTypes DEF Send
  <2>3. q # p => m # [kind |-> "request", id |-> q]
    BY <2>2
  <2>4. \A f : On(stdin', f) => On(stdin, f) \/ f = m
    BY <1>0, <2>2, PipeAppend DEF TypeOK
  <2> QED
    BY <1>0, <2>1, <2>3, <2>4
<1>4. ASSUME NEW c \in CallIds, Reply(c) PROVE SentOK(q)'
  <2>1. UNCHANGED <<caller, open, answered>>
    BY <1>4 DEF Reply, runtime
  <2>2. PICK m \in Frame : m.kind = "reply" /\ (stdin' = stdin \/ stdin' = Append(stdin, m))
    BY <1>4, FrameTypes DEF Reply
  <2>3. m # [kind |-> "request", id |-> q]
    BY <2>2
  <2>4. \A f : On(stdin', f) => On(stdin, f) \/ f = m
    <3>1. stdin \in Seq(Frame)
      BY <1>0 DEF TypeOK
    <3>2. CASE stdin' = stdin
      BY <3>2
    <3>3. CASE stdin' = Append(stdin, m)
      BY <3>1, <3>3, PipeAppend
    <3> QED
      BY <2>2, <3>2, <3>3
  <2> QED
    BY <1>0, <2>1, <2>3, <2>4
<1>5. CASE Accept
  <2>1. stdin # <<>> /\ stdin' = Tail(stdin) /\ UNCHANGED <<caller, answered>>
    BY <1>5 DEF Accept, client, Peer!Accept
  <2>2. /\ Head(stdin) \in Frame
        /\ \A f : On(stdin, f) <=> f = Head(stdin) \/ On(stdin', f)
    BY <1>0, <2>1, PipeTail DEF TypeOK
  <2>3. q \in open' => \/ q \in open
                       \/ Head(stdin) = [kind |-> "request", id |-> q]
    BY <1>5, <2>2, FrameTypes DEF Accept, Peer!Accept
  <2> QED
    BY <1>0, <2>1, <2>2, <2>3
<1>6. ASSUME NEW p \in Ids, Answer(p) PROVE SentOK(q)'
  <2>1. UNCHANGED <<stdin, caller>> /\ open' \cup answered' = open \cup answered
    BY <1>6 DEF Answer, client, Peer!Answer
  <2> QED
    BY <1>0, <2>1 DEF On
<1>7. ASSUME \/ Settle \/ Serve \/ StreamEnds \/ Call \/ Gone
             \/ (\E c \in CallIds : GiveUp(c)) \/ UNCHANGED vars
      PROVE  SentOK(q)'
  <2>1. UNCHANGED <<stdin, caller, open, answered>>
    BY <1>7 DEF Settle, Serve, StreamEnds, Call, GiveUp, Gone, vars, client, runtime,
                Peer!Break, Peer!Close
  <2> QED
    BY <1>0, <2>1 DEF On
<1> QED
  BY <1>2, <1>3, <1>4, <1>5, <1>6, <1>7, <1>1 DEF Next, Done

LEMMA SentInvariant == Spec => []SentInv
BY InitSent, StepSent, TypeInvariant, CallerInvariant, PTL DEF Spec

-----------------------------------------------------------------------------
(* Answers, for the client that tells them from calls.                      *)

\* An answer given is on stdout, has completed the promise, or comes too late;
\* a channel is reported closed only to those who will never have an answer.
AnswerOK(q) ==
    /\ deferred[q] \in {Nothing, Closed, AnswerTo(q)}
    /\ got[q] \in {Nothing, Timeout, Closed, deferred[q]}
    /\ On(stdout, ResponseTo(q)) \/ deferred[q] = AnswerTo(q) => q \in answered
    /\ q \in answered => \/ On(stdout, ResponseTo(q))
                         \/ deferred[q] = AnswerTo(q)
                         \/ caller[q] = "returned"
    /\ deferred[q] = Closed \/ got[q] = Closed => ~Alive /\ q \notin answered

AnswerInv == \A q \in Ids : AnswerOK(q)

LEMMA AnswerTypes ==
    \A q : /\ AnswerTo(q) # Nothing /\ AnswerTo(q) # Closed /\ AnswerTo(q) # Timeout
           /\ AnswerTo(q).by = "frame" /\ AnswerTo(q).frame = ResponseTo(q)
BY DEF AnswerTo, Nothing, Closed, Timeout

LEMMA InitAnswer == Init => AnswerInv
BY OnEmpty, OutcomeTypes, AnswerTypes DEF Init, AnswerInv, AnswerOK, Peer!Init

LEMMA StepAnswer ==
    ASSUME Threaded
    PROVE  TypeInv /\ CallerInv /\ SentInv /\ AnswerInv /\ [Next]_vars => AnswerInv'
<1> SUFFICES ASSUME TypeInv, CallerInv, SentInv, AnswerInv, [Next]_vars, NEW q \in Ids
             PROVE  AnswerOK(q)'
  BY DEF AnswerInv
<1> USE DEF AnswerOK
<1>0. /\ TypeOK /\ CallerOK(q) /\ SentOK(q) /\ AnswerOK(q)
  BY DEF TypeInv, CallerInv, SentInv, AnswerInv
<1>1. ASSUME NEW p \in Ids, (\E m \in Methods : Register(p, m)) \/ Send(p)
      PROVE  AnswerOK(q)'
  <2>1. UNCHANGED <<stdout, deferred, got, answered, link>>
    BY <1>1 DEF Register, Send, runtime
  <2>2. CallerOK(p)
    BY DEF CallerInv
  <2>3. caller[q] = "returned" => caller'[q] = "returned"
    BY <1>0, <1>1, <2>2 DEF Register, Send, TypeOK, CallerOK
  <2> QED
    BY <1>0, <2>1, <2>3 DEF On, Alive
<1>2. ASSUME NEW p \in Ids, SendFails(p) \/ Return(p) \/ Expire(p) PROVE AnswerOK(q)'
  <2>1. UNCHANGED <<stdout, deferred, answered, link>>
    BY <1>2 DEF SendFails, Return, Expire, runtime
  <2>2. q # p => caller'[q] = caller[q] /\ got'[q] = got[q]
    BY <1>0, <1>2 DEF SendFails, Return, Expire, Leave, TypeOK
  <2>3. CASE q # p
    BY <1>0, <2>1, <2>2, <2>3 DEF On, Alive
  <2>4. CASE q = p
    <3>1. /\ caller'[q] = "returned"
          /\ \/ got'[q] = Closed /\ caller[q] = "sending" /\ ~Alive
             \/ got'[q] = Timeout
             \/ got'[q] = deferred[q]
      BY <1>0, <1>2, <2>4 DEF SendFails, Return, Expire, Leave, TypeOK
    <3>2. got'[q] = Closed => ~Alive /\ q \notin answered
      BY <1>0, <3>1, OutcomeTypes DEF SentOK
    <3> QED
      BY <1>0, <2>1, <3>1, <3>2 DEF On, Alive
  <2> QED
    BY <2>3, <2>4
<1>3. CASE Settle
  <2>1. /\ stdout # <<>> /\ stdout' = Tail(stdout) /\ Head(stdout).kind = "response"
        /\ UNCHANGED <<caller, got, answered, link>>
    BY <1>3 DEF Settle, Reading, IsAnswer, runtime
  <2>2. /\ Head(stdout) \in Frame
        /\ \A f : On(stdout, f) <=> f = Head(stdout) \/ On(stdout', f)
    BY <1>0, <2>1, PipeTail DEF TypeOK
  <2>3. Head(stdout) = ResponseTo(Head(stdout).id)
    BY <2>1, <2>2, FrameTypes DEF ResponseTo
  <2>4. deferred'[q] = IF q = Head(stdout).id /\ q \in pending /\ deferred[q] = Nothing
                       THEN AnswerTo(q) ELSE deferred[q]
    BY <1>3, <2>3 DEF Settle, AnswerTo
  <2>5. CASE q # Head(stdout).id
    <3>1. ResponseTo(q) # Head(stdout)
      BY <2>5 DEF ResponseTo
    <3> QED
      BY <1>0, <2>1, <2>2, <2>4, <2>5, <3>1 DEF Alive
  <2>6. CASE q = Head(stdout).id
    <3>1. q \in answered /\ deferred[q] # Closed
      BY <1>0, <2>2, <2>3, <2>6
    <3>2. caller[q] = "returned" \/ deferred'[q] = AnswerTo(q)
      BY <1>0, <2>4, <2>6, <3>1 DEF CallerOK, SentOK
    <3>3. got[q] = Nothing \/ deferred'[q] = deferred[q]
      BY <1>0, <2>4 DEF CallerOK
    <3> QED
      BY <1>0, <2>1, <2>4, <3>1, <3>2, <3>3, AnswerTypes DEF Alive
  <2> QED
    BY <2>5, <2>6
<1>4. CASE Serve
  <2>1. /\ stdout # <<>> /\ stdout' = Tail(stdout) /\ Head(stdout).kind # "response"
        /\ UNCHANGED <<caller, deferred, got, answered, link>>
    BY <1>4 DEF Serve, Reading, IsAnswer, runtime
  <2>2. \A f : On(stdout, f) <=> f = Head(stdout) \/ On(stdout', f)
    BY <1>0, <2>1, PipeTail DEF TypeOK
  <2>3. ResponseTo(q) # Head(stdout)
    BY <2>1 DEF ResponseTo
  <2> QED
    BY <1>0, <2>1, <2>2, <2>3 DEF Alive
<1>5. CASE StreamEnds
  <2>1. /\ ~Alive /\ stdout = <<>>
        /\ UNCHANGED <<caller, got, stdout, answered, link>>
        /\ deferred'[q] = IF q \in pending /\ deferred[q] = Nothing
                          THEN Closed ELSE deferred[q]
    BY <1>5 DEF StreamEnds, AtEnd, Failed, runtime
  <2>2. ~On(stdout, ResponseTo(q))
    BY <2>1, OnEmpty
  <2>3. got[q] = Nothing \/ deferred'[q] = deferred[q]
    BY <1>0, <2>1 DEF CallerOK
  <2>4. q \in pending /\ deferred[q] = Nothing => q \notin answered
    BY <1>0, <2>2, AnswerTypes DEF CallerOK
  <2> QED
    BY <1>0, <2>1, <2>2, <2>3, <2>4, AnswerTypes, OutcomeTypes DEF On, Alive
<1>6. ASSUME NEW p \in Ids, Answer(p) PROVE AnswerOK(q)'
  <2>1. /\ UNCHANGED <<caller, deferred, got, link>> /\ Alive
        /\ stdout' = Append(stdout, ResponseTo(p)) /\ ResponseTo(p) \in Frame
        /\ answered' = answered \cup {p}
    BY <1>6, FrameTypes DEF Answer, client, Peer!Answer, Alive, ResponseTo
  <2>2. \A f : On(stdout', f) <=> On(stdout, f) \/ f = ResponseTo(p)
    BY <1>0, <2>1, PipeAppend DEF TypeOK
  <2>3. q # p => ResponseTo(q) # ResponseTo(p)
    BY DEF ResponseTo
  <2> QED
    BY <1>0, <2>1, <2>2, <2>3 DEF Alive
<1>7. CASE Call
  <2>1. UNCHANGED <<caller, deferred, got, answered, link>>
    BY <1>7 DEF Call, client
  <2>2. calls + 1 \in CallIds
    BY <1>0, <1>7, BoundAssumption DEF Call, CallIds, TypeOK
  <2>3. PICK m \in Frame : m.kind = "call" /\ stdout' = Append(stdout, m)
    BY <1>7, <2>2, FrameTypes DEF Call
  <2>4. \A f : On(stdout', f) <=> On(stdout, f) \/ f = m
    BY <1>0, <2>3, PipeAppend DEF TypeOK
  <2>5. ResponseTo(q) # m
    BY <2>3 DEF ResponseTo
  <2> QED
    BY <1>0, <2>1, <2>4, <2>5 DEF Alive
<1>8. CASE Gone
  <2>1. UNCHANGED <<caller, deferred, got, stdout, answered>> /\ ~Alive'
    BY <1>8 DEF Gone, client, Peer!Break, Peer!Close, Alive
  <2> QED
    BY <1>0, <2>1 DEF On
<1>9. ASSUME Accept \/ (\E c \in CallIds : Reply(c) \/ GiveUp(c)) \/ UNCHANGED vars
      PROVE  AnswerOK(q)'
  <2>1. UNCHANGED <<caller, deferred, got, stdout, answered, link>>
    BY <1>9 DEF Accept, Reply, GiveUp, vars, client, runtime, Peer!Accept
  <2> QED
    BY <1>0, <2>1 DEF On, Alive
<1> QED
  BY <1>1, <1>2, <1>3, <1>4, <1>5, <1>6, <1>7, <1>8, <1>9 DEF Next, Done

LEMMA AnswerInvariant == ASSUME Threaded PROVE Spec => []AnswerInv
BY InitAnswer, StepAnswer, TypeInvariant, CallerInvariant, SentInvariant, PTL DEF Spec

\* The client of the JetBrains host never takes a late answer, the answer to
\* another request or a call of a component with the same id for the answer to
\* a request, however many of each there are.
THEOREM AnswersNeverConfused ==
    ASSUME Threaded PROVE Spec => []SettledByOwnAnswer
<1>1. AnswerInv => SettledByOwnAnswer
  BY OutcomeTypes, AnswerTypes DEF AnswerInv, AnswerOK, SettledByOwnAnswer, ResponseTo
<1> QED
  BY <1>1, AnswerInvariant, PTL

\* It reads stdout to its end before it reports the end: nobody whose request
\* was answered is told that the channel closed.
THEOREM AnswerNeverLost == ASSUME Threaded PROVE Spec => []AnswerBeatsClose
<1>1. TypeInv /\ AnswerInv => AnswerBeatsClose
  BY DEF TypeInv, TypeOK, AnswerInv, AnswerOK, AnswerBeatsClose
<1> QED
  BY <1>1, AnswerInvariant, TypeInvariant, PTL
=============================================================================
