----------------------------- MODULE FrameReader -----------------------------
(***************************************************************************)
(* FrameReader::read_frame (runtime/src/rpc/codec.rs) under the biased     *)
(* select! of the reader loop (rpc/server.rs): a handler that finishes     *)
(* cancels the read that is pending, and what the cancelled read had taken *)
(* out of the buffer is gone with it.                                      *)
(*                                                                         *)
(* stdin is a sequence of tokens <<text, frame>>: the two halves of a      *)
(* header, the end of a line as "cr" and "lf", and the units of a body     *)
(* (JSON text holds no line feed).                                         *)
(* It arrives in chunks: one of the Cuttings says where they may end.  The *)
(* reader takes what has arrived one token at a time, in one poll; between *)
(* polls the select! may cancel it.                                        *)
(***************************************************************************)
EXTENDS Naturals, Sequences

CONSTANTS
    Input,      \* the tokens the host writes
    Length,     \* Length[k]: the number the Content-Length of frame k announces
    Cuttings    \* sets of positions of Input: where the chunks of one host may end

ASSUME LengthAssumption == Length \in Seq(Nat \ {0})
ASSUME InputAssumption  ==
    Input \in Seq({"name", "length", "type", "cr", "lf", "body"} \X DOMAIN Length)
ASSUME CuttingsAssumption == Cuttings \subseteq SUBSET (1 .. Len(Input))

\* Token n is the empty line that ends the headers of a frame.
EndsHeaders(n) ==
    /\ Input[n][1] = "lf"
    /\ \/ n > 1 /\ Input[n - 1][1] = "lf"
       \/ n > 2 /\ Input[n - 1][1] = "cr" /\ Input[n - 2][1] = "lf"

\* The host writes complete frames one after the other: nothing ends in the
\* middle of the headers, and after the empty line comes the body, as long as it
\* was announced, before any token of a later frame.
ASSUME FramesAssumption ==
    \A n \in DOMAIN Input :
        /\ Input[n][1] # "body" =>
               n + 1 \in DOMAIN Input /\ Input[n + 1][2] = Input[n][2]
        /\ EndsHeaders(n) =>
               LET k == Input[n][2]
               IN  /\ n + Length[k] <= Len(Input)
                   /\ \A i \in 1 .. Length[k] : Input[n + i] = <<"body", k>>
                   /\ \A i \in n + Length[k] + 1 .. Len(Input) : Input[i][2] > k

\* Token n is the last one of its frame.
FrameEnds == {n \in DOMAIN Input : n = Len(Input) \/ Input[n][2] # Input[n + 1][2]}

\* It writes frame 1, frame 2, and so on to the last, each up to the end of its body.
ASSUME OrderAssumption ==
    /\ Input # <<>> => Input[1][2] = 1 /\ Input[Len(Input)][2] = Len(Length)
    /\ Input = <<>> => Length = <<>>
    /\ \A m, n \in DOMAIN Input : m < n => Input[m][2] <= Input[n][2]
    /\ \A n \in FrameEnds :
          /\ n # Len(Input) => Input[n + 1][2] = Input[n][2] + 1
          /\ \E h \in DOMAIN Input : /\ EndsHeaders(h) /\ Input[h][2] = Input[n][2]
                                    /\ n = h + Length[Input[n][2]]

VARIABLES
    cuts,       \* where the chunks of this host may end
    arrived,    \* tokens that have reached the process
    eof,        \* no more will
    taken,      \* tokens the reader has taken out of the buffer
    line,       \* header_line: texts read since the last end of line
    announced,  \* content_length: the frame whose header gave it, or 0
    part,       \* the await read_frame is at: a header line or the body
    body,       \* tokens of the body read so far
    polling,    \* read_frame is being polled and has not pended yet
    loop,       \* the reader loop: "reading", or how it ended
    frames,     \* the bodies handed to spawn_handler
    running,    \* handlers that run
    finished    \* handlers that have ended and are not yet joined

read     == <<line, announced, part, body>>
handlers == <<running, finished>>
vars     == <<cuts, arrived, eof, taken, read, polling, loop, frames, handlers>>

Init ==
    /\ cuts \in Cuttings
    /\ arrived = 0 /\ eof = FALSE /\ taken = 0
    /\ line = <<>> /\ announced = 0 /\ part = "headers" /\ body = <<>>
    /\ polling = FALSE
    /\ loop = "reading"
    /\ frames = <<>>
    /\ running = 0 /\ finished = 0

\* The locals of a read_frame that has just been called.
Fresh == line' = <<>> /\ announced' = 0 /\ part' = "headers" /\ body' = <<>>

-----------------------------------------------------------------------------
(* The host and the handlers.                                               *)

Arrive ==
    /\ ~eof
    /\ \E c \in cuts : c > arrived /\ arrived' = c
    /\ UNCHANGED <<cuts, eof, taken, read, polling, loop, frames, handlers>>

Close ==
    /\ ~eof
    /\ eof' = TRUE
    /\ UNCHANGED <<cuts, arrived, taken, read, polling, loop, frames, handlers>>

HandlerEnds ==
    /\ running > 0
    /\ running' = running - 1
    /\ finished' = finished + 1
    /\ UNCHANGED <<cuts, arrived, eof, taken, read, polling, loop, frames>>

-----------------------------------------------------------------------------
(* The reader loop.                                                         *)

ReapKeepsLength ==
    /\ loop = "reading"
    /\ ~polling
    /\ finished > 0
    /\ finished' = finished - 1
    /\ line' = <<>> /\ body' = <<>>
    /\ UNCHANGED <<announced, part>>
    /\ UNCHANGED <<cuts, arrived, eof, taken, polling, loop, frames, running>>

\* select! polls join_next first: a finished handler is joined, and the pending
\* read_frame dropped.
Reap ==
    /\ loop = "reading"
    /\ ~polling
    /\ finished > 0
    /\ finished' = finished - 1
    /\ Fresh
    /\ UNCHANGED <<cuts, arrived, eof, taken, polling, loop, frames, running>>

\* read_frame is polled only when no handler is there to join.
Polled == loop = "reading" /\ (polling \/ finished = 0)

\* A header named `what`, and an empty line, with whatever ends the line (if
\* anything does) trimmed.
Header(s, what) ==
    /\ Len(s) >= 2
    /\ s[1] = "name" /\ s[2] = what
    /\ \A i \in 3 .. Len(s) : s[i] \in {"cr", "lf"}
Empty(s) == \A i \in 1 .. Len(s) : s[i] \in {"cr", "lf"}

\* The end of the headers is an empty line, with or without a carriage return.
Blank(s) == s \in {<<"cr", "lf">>, <<"lf">>}

\* What a complete header line s of frame k does to the read.
HeaderLine(s, k) ==
    \/ /\ Blank(s) /\ announced # 0
       /\ part' = "body" /\ UNCHANGED <<announced, loop>>
    \/ /\ Header(s, "length")
       /\ announced' = k /\ UNCHANGED <<part, loop>>
    \/ /\ Header(s, "type") \/ (Empty(s) /\ ~Blank(s))
       /\ UNCHANGED <<announced, part, loop>>
    \/ /\ ~(Blank(s) /\ announced # 0)
       /\ ~Header(s, "length") /\ ~Header(s, "type") /\ ~(Empty(s) /\ ~Blank(s))
       /\ loop' = "failed"
       /\ UNCHANGED <<announced, part>>

\* The poll goes on while there is something to read.
Continue == polling' = (taken' < arrived)

\* One token of a header line: read_line returns at the line feed.
ReadHeader ==
    /\ Polled
    /\ part = "headers"
    /\ taken < arrived
    /\ LET token == Input[taken + 1]
           s     == Append(line, token[1])
       IN  IF token[1] = "lf"
             THEN HeaderLine(s, token[2]) /\ line' = <<>>
             ELSE line' = s /\ UNCHANGED <<announced, part, loop>>
    /\ taken' = taken + 1
    /\ Continue
    /\ UNCHANGED <<cuts, arrived, eof, body, frames, handlers>>

ReadBodyShort ==
    /\ Polled
    /\ part = "body"
    /\ taken < arrived
    /\ taken' = taken + 1
    /\ frames' = Append(frames, Append(body, Input[taken + 1]))
    /\ running' = running + 1
    /\ polling' = FALSE
    /\ Fresh
    /\ UNCHANGED <<cuts, arrived, eof, loop, finished>>

ReadBodyOverrun ==
    /\ Polled
    /\ part = "body"
    /\ taken < arrived
    /\ taken' = taken + 1
    /\ LET b == Append(body, Input[taken + 1])
       IN  IF Len(b) <= Length[announced]
             THEN /\ body' = b
                  /\ Continue
                  /\ UNCHANGED <<line, announced, part, frames, running>>
             ELSE /\ frames' = Append(frames, b)
                  /\ running' = running + 1
                  /\ polling' = FALSE
                  /\ Fresh
    /\ UNCHANGED <<cuts, arrived, eof, loop, finished>>

\* One token of the body: read_exact returns at the announced length, and the
\* frame goes to a handler of its own.
ReadBody ==
    /\ Polled
    /\ part = "body"
    /\ taken < arrived
    /\ taken' = taken + 1
    /\ LET b == Append(body, Input[taken + 1])
       IN  IF Len(b) < Length[announced]
             THEN /\ body' = b
                  /\ Continue
                  /\ UNCHANGED <<line, announced, part, frames, running>>
             ELSE /\ frames' = Append(frames, b)
                  /\ running' = running + 1
                  /\ polling' = FALSE
                  /\ Fresh
    /\ UNCHANGED <<cuts, arrived, eof, loop, finished>>

\* End of input: clean between two header lines, an error inside the body; an
\* unfinished last line counts as a line.
ReadEnd ==
    /\ Polled
    /\ eof
    /\ taken = arrived
    /\ \/ /\ part = "headers" /\ line = <<>>
          /\ loop' = "closed"
          /\ UNCHANGED read
       \/ /\ part = "headers" /\ line # <<>>
          /\ HeaderLine(line, Input[taken][2])
          /\ line' = <<>>
          /\ UNCHANGED body
       \/ /\ part = "body"
          /\ loop' = "failed"
          /\ UNCHANGED read
    /\ polling' = FALSE
    /\ UNCHANGED <<cuts, arrived, eof, taken, frames, handlers>>

Join ==
    /\ loop # "reading"
    /\ finished > 0
    /\ finished' = finished - 1
    /\ UNCHANGED <<cuts, arrived, eof, taken, read, polling, loop, frames, running>>

\* The loop has ended and every handler has been joined.
Stopped == loop # "reading" /\ running = 0 /\ finished = 0 /\ UNCHANGED vars

Next ==
    \/ Arrive \/ Close \/ HandlerEnds
    \/ Reap \/ ReadHeader \/ ReadBody \/ ReadEnd \/ Join
    \/ Stopped

\* The reader task is polled when it is woken, and handlers end.  The host need
\* not write or close anything.
Fairness ==
    /\ WF_vars(Reap \/ ReadHeader \/ ReadBody \/ ReadEnd)
    /\ WF_vars(HandlerEnds)

Spec == Init /\ [][Next]_vars /\ Fairness

-----------------------------------------------------------------------------
(* Properties.                                                              *)

\* Every local of serve_stdio and read_frame keeps its type, and no handler is
\* joined twice.
TypeOK ==
    /\ cuts \in Cuttings
    /\ arrived \in 0 .. Len(Input) /\ taken \in 0 .. arrived
    /\ eof \in BOOLEAN /\ polling \in BOOLEAN
    /\ line \in Seq({"name", "length", "type", "cr", "body"})
    /\ announced \in 0 .. Len(Length)
    /\ part \in {"headers", "body"}
    /\ part = "body" => announced # 0 /\ Len(body) < Length[announced]
    /\ body \in Seq({Input[n] : n \in DOMAIN Input})
    /\ loop \in {"reading", "failed", "closed"}
    /\ frames \in Seq(Seq({Input[n] : n \in DOMAIN Input}))
    /\ running \in Nat /\ finished \in Nat
    /\ running + finished \in 0 .. Len(frames)

\* What the host writes, frame by frame; how many frames the first n tokens hold
\* whole, and which.
Bodies     == [k \in DOMAIN Length |-> [i \in 1 .. Length[k] |-> <<"body", k>>]]
Whole(n)   == IF n = Len(Input) THEN Len(Length) ELSE Input[n + 1][2] - 1
Written(n) == SubSeq(Bodies, 1, Whole(n))

\* While the chunks of a host hold whole frames, every frame that has arrived is
\* handed to a handler, complete, once and in order, however handlers end while
\* the reader waits.  (A host that cuts frames apart is not promised this: it
\* stutters in the contract.)
FramesWhole == cuts \subseteq FrameEnds
Channel == INSTANCE FrameChannel
               WITH sent <- IF FramesWhole THEN Written(arrived) ELSE <<>>,
                    received <- IF FramesWhole THEN frames ELSE <<>>
ImplementsChannel == Channel!Spec

\* Its safety part: nothing is handed over before it has arrived, out of order,
\* twice, or with a frame left out before it.
KeepsToChannel == Channel!Init /\ [][Channel!Send \/ Channel!Receive]_(Channel!vars)

\* Whatever the chunks and whenever a read is cancelled, the reader never takes
\* a piece of one frame for another: each thing it hands over is a frame the host
\* wrote, whole, in the order of the host and none twice.  (It may lose one: two
\* cancelled reads, after a header and after its body, and the reader goes on
\* with the next frame as if nothing had been there.)
FrameOf(b) == b[1][2]
NeverMisreads ==
    /\ \A i \in DOMAIN frames :
           \E k \in DOMAIN Length : FrameOf(frames[i]) = k /\ frames[i] = Bodies[k]
    /\ \A j \in DOMAIN frames : \A i \in 1 .. j - 1 :
           FrameOf(frames[i]) < FrameOf(frames[j])

\* codec.rs on read_frame: "Read one complete JSON-RPC frame".  A stream of
\* complete frames is not refused while it lasts.
ReadsCompleteFrames == loop = "failed" => eof
=============================================================================
