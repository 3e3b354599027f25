-------------------------- MODULE FrameReaderProofs --------------------------
(***************************************************************************)
(* For any stream of complete frames, any chunks and any handlers: the     *)
(* reader of FrameReader is well typed and never takes a piece of one      *)
(* frame for another.                                                      *)
(*                                                                         *)
(* When chunks hold whole frames it also keeps to FrameChannel: no frame   *)
(* is left out (EdgeInv).                                                  *)
(*                                                                         *)
(* The reader keeps no position: a cancelled read leaves it anywhere in    *)
(* the stream.  What saves it is that a length is believed only after a    *)
(* whole header line and used only after an empty one, and that both can   *)
(* only be met where the host wrote them.  ReadInv says where the reader   *)
(* is once it has a length, and OrderInv that what is left in the stream   *)
(* is later than what was handed over.                                     *)
(***************************************************************************)
EXTENDS FrameReader, SequenceTheorems, TLAPS

\* Nothing more will be taken from the stream.
Over == loop # "reading" \/ (eof /\ taken = arrived)

\* The tokens before the line that is being read.
Start == taken - Len(line)

\* The line holds the tokens that were taken last; a line and a body are never
\* both begun.
LineInv ==
    /\ part = "headers" => body = <<>>
    /\ part = "body" => line = <<>>
    /\ Len(line) <= taken
    /\ \A i \in 1 .. Len(line) : line[i] = Input[Start + i][1]

\* A length was announced by a whole line, and as long as the line after it has no
\* body in it, it is of the same frame.
AnnouncedInv ==
    ~Over /\ part = "headers" /\ announced # 0 =>
        /\ Start >= 1 /\ Input[Start][1] = "lf"
        /\ (\A i \in 1 .. Len(line) : line[i] # "body") => Input[taken][2] = announced

\* A body is read from right after the empty line of the frame that announced it.
BodyStart == taken - Len(body)
BodyInv ==
    part = "body" =>
        /\ BodyStart >= 1 /\ EndsHeaders(BodyStart) /\ Input[BodyStart][2] = announced
        /\ \A i \in 1 .. Len(body) : body[i] = Input[BodyStart + i]

\* The tokens not yet taken, and the frame that was announced, come after every
\* frame handed over.
OrderInv ==
    \A i \in DOMAIN frames :
        /\ \A n \in taken + 1 .. Len(Input) : Input[n][2] > FrameOf(frames[i])
        /\ ~Over /\ announced # 0 => FrameOf(frames[i]) < announced

ReadInv == LineInv /\ AnnouncedInv /\ BodyInv
Inv == TypeOK /\ ReadInv /\ OrderInv /\ NeverMisreads

-----------------------------------------------------------------------------
(* The tokens of the stream.                                                *)

LEMMA TokenType ==
    ASSUME NEW n \in 1 .. Len(Input)
    PROVE  /\ n \in DOMAIN Input
           /\ Input[n] \in {Input[m] : m \in DOMAIN Input}
           /\ Input[n][1] \in {"name", "length", "type", "cr", "lf", "body"}
           /\ Input[n][2] \in 1 .. Len(Length)
           /\ Input[n][2] \in Nat
  <1>1. n \in DOMAIN Input BY InputAssumption
  <1>2. Input[n] \in {"name", "length", "type", "cr", "lf", "body"} \X DOMAIN Length
    BY <1>1, InputAssumption
  <1>3. DOMAIN Length = 1 .. Len(Length) BY LengthAssumption
  <1> QED BY <1>1, <1>2, <1>3, LengthAssumption

\* A token that is not of a body is followed by one of the same frame.
LEMMA SameFrame ==
    ASSUME NEW n \in 1 .. Len(Input), Input[n][1] # "body"
    PROVE  n + 1 \in 1 .. Len(Input) /\ Input[n + 1][2] = Input[n][2]
  <1>1. DOMAIN Input = 1 .. Len(Input) BY InputAssumption
  <1> QED BY <1>1, FramesAssumption

\* What follows the empty line that ends the headers.
LEMMA BodyFollows ==
    ASSUME NEW n \in 1 .. Len(Input), EndsHeaders(n), NEW k, k = Input[n][2]
    PROVE  /\ n + Length[k] <= Len(Input)
           /\ \A i \in 1 .. Length[k] : Input[n + i] = <<"body", k>>
           /\ \A i \in n + Length[k] + 1 .. Len(Input) : Input[i][2] > k
  <1>1. DOMAIN Input = 1 .. Len(Input) BY InputAssumption
  <1> QED BY <1>1, FramesAssumption

\* The stream and the announced lengths are sequences.
LEMMA ConstantTypes ==
    /\ Len(Input) \in Nat /\ Len(Length) \in Nat
    /\ \A k \in 1 .. Len(Length) : Length[k] \in Nat \ {0}
  <1>1. Input \in Seq({"name", "length", "type", "cr", "lf", "body"} \X DOMAIN Length)
    BY InputAssumption
  <1> QED BY <1>1, LengthAssumption

-----------------------------------------------------------------------------
(* A step of the reader, by what it does with the read.                     *)

\* What a complete line does to the length and the part, whatever line it is.
LEMMA HeaderLineKinds ==
    ASSUME NEW s, NEW k, HeaderLine(s, k)
    PROVE  \/ Blank(s) /\ announced # 0 /\ part' = "body" /\ announced' = announced /\ loop' = loop
           \/ Header(s, "length") /\ announced' = k /\ part' = part /\ loop' = loop
           \/ /\ Header(s, "type") \/ Empty(s)
              /\ announced' = announced /\ part' = part /\ loop' = loop
           \/ announced' = announced /\ part' = part /\ loop' = "failed"
  BY DEF HeaderLine

\* The lines that end the headers.
LEMMA BlankShape ==
    ASSUME NEW s, Blank(s)
    PROVE  Len(s) = 1 \/ (Len(s) = 2 /\ s[1] = "cr")
  BY DEF Blank

\* Only a line that ends in a line feed ends the headers.
LEMMA BlankEnds ==
    ASSUME NEW s \in Seq({"name", "length", "type", "cr", "body"})
    PROVE  ~Blank(s)
  <1> SUFFICES ASSUME Blank(s) PROVE FALSE OBVIOUS
  <1>1. CASE s = <<"cr", "lf">>
    <2>1. s[2] = "lf" /\ Len(s) = 2 BY <1>1
    <2>2. s[2] \in {"name", "length", "type", "cr", "body"} BY <2>1
    <2> QED BY <2>1, <2>2
  <1>2. CASE s = <<"lf">>
    <2>1. s[1] = "lf" /\ Len(s) = 1 BY <1>2
    <2>2. s[1] \in {"name", "length", "type", "cr", "body"} BY <2>1
    <2> QED BY <2>1, <2>2
  <1> QED BY <1>1, <1>2 DEF Blank

-----------------------------------------------------------------------------
(* Types.                                                                   *)

LEMMA TypeHeader ==
    ASSUME TypeOK, LineInv, ReadHeader
    PROVE  TypeOK'
  <1>1. taken + 1 \in 1 .. Len(Input) /\ taken + 1 <= arrived
    BY ConstantTypes DEF TypeOK, ReadHeader
  <1> DEFINE token == Input[taken + 1]
             s     == Append(line, token[1])
  <1>2. /\ token[1] \in {"name", "length", "type", "cr", "lf", "body"}
        /\ token[2] \in 1 .. Len(Length)
    BY <1>1, TokenType
  <1>3. /\ cuts' = cuts /\ arrived' = arrived /\ eof' = eof /\ body' = body
        /\ frames' = frames /\ running' = running /\ finished' = finished
        /\ taken' = taken + 1 /\ part = "headers" /\ taken < arrived
    BY DEF ReadHeader, handlers
  <1>7. /\ body = <<>> /\ body' = <<>> /\ Len(body') = 0
        /\ \A k \in 1 .. Len(Length) : 0 < Length[k]
    BY <1>3, ConstantTypes DEF LineInv
  <1>4. polling' \in BOOLEAN BY DEF ReadHeader, Continue
  <1>5. taken' \in 0 .. arrived' BY <1>3 DEF TypeOK
  <1>6. /\ line' \in Seq({"name", "length", "type", "cr", "body"})
        /\ announced' \in 0 .. Len(Length)
        /\ part' \in {"headers", "body"}
        /\ loop' \in {"reading", "failed", "closed"}
        /\ part' = "body" => announced' # 0 /\ Len(body') < Length[announced']
    <2>1. CASE token[1] = "lf"
      <3>1. HeaderLine(s, token[2]) /\ line' = <<>> BY <2>1 DEF ReadHeader
      <3>2. /\ announced' \in 0 .. Len(Length)
            /\ part' \in {"headers", "body"}
            /\ loop' \in {"reading", "failed", "closed"}
            /\ part' = "body" => announced' # 0
        BY <3>1, <1>2, <1>3, HeaderLineKinds, ConstantTypes DEF TypeOK
      <3>3. part' = "body" => announced' \in 1 .. Len(Length) BY <3>2, ConstantTypes
      <3>4. <<>> \in Seq({"name", "length", "type", "cr", "body"}) OBVIOUS
      <3> QED BY <3>1, <3>2, <3>3, <3>4, <1>7
    <2>2. CASE token[1] # "lf"
      <3>1. line' = s /\ UNCHANGED <<announced, part, loop>> BY <2>2 DEF ReadHeader
      <3>2. line \in Seq({"name", "length", "type", "cr", "body"}) BY DEF TypeOK
      <3>3. token[1] \in {"name", "length", "type", "cr", "body"} BY <1>2, <2>2
      <3>4. s \in Seq({"name", "length", "type", "cr", "body"}) BY <3>2, <3>3
      <3> QED BY <3>1, <3>4, <1>3 DEF TypeOK
    <2> QED BY <2>1, <2>2
  <1> QED BY <1>3, <1>4, <1>5, <1>6 DEF TypeOK

\* What ReadBody does: the body grows, or goes to a handler.
LEMMA ReadBodyKinds ==
    ASSUME TypeOK, ReadBody, NEW b, b = Append(body, Input[taken + 1])
    PROVE  /\ loop = "reading" /\ part = "body" /\ taken < arrived /\ taken' = taken + 1
           /\ taken + 1 \in 1 .. Len(Input)
           /\ announced \in 1 .. Len(Length)
           /\ cuts' = cuts /\ arrived' = arrived /\ eof' = eof /\ loop' = loop
           /\ finished' = finished
           /\ b \in Seq({Input[n] : n \in DOMAIN Input}) /\ Len(b) = Len(body) + 1
           /\ \/ /\ Len(b) < Length[announced] /\ body' = b
                 /\ polling' \in BOOLEAN
                 /\ UNCHANGED <<line, announced, part, frames, running>>
              \/ /\ Len(b) = Length[announced]
                 /\ frames' = Append(frames, b) /\ running' = running + 1
                 /\ polling' = FALSE
                 /\ line' = <<>> /\ announced' = 0 /\ part' = "headers" /\ body' = <<>>
  <1>1. /\ loop = "reading" /\ part = "body" /\ taken < arrived /\ taken' = taken + 1
        /\ cuts' = cuts /\ arrived' = arrived /\ eof' = eof /\ loop' = loop
        /\ finished' = finished
    BY DEF ReadBody, Polled
  <1>2. taken + 1 \in 1 .. Len(Input) BY <1>1, ConstantTypes DEF TypeOK
  <1>3. announced \in 1 .. Len(Length) /\ Len(body) < Length[announced]
    BY <1>1, ConstantTypes DEF TypeOK
  <1>4. Input[taken + 1] \in {Input[n] : n \in DOMAIN Input} BY <1>2, TokenType
  <1>5. body \in Seq({Input[n] : n \in DOMAIN Input}) BY DEF TypeOK
  <1>6. b \in Seq({Input[n] : n \in DOMAIN Input}) /\ Len(b) = Len(body) + 1
    BY <1>4, <1>5
  <1>7. Len(b) < Length[announced] \/ Len(b) = Length[announced]
    BY <1>3, <1>5, <1>6, ConstantTypes
  <1>8. IF Len(b) < Length[announced]
          THEN /\ body' = b
               /\ Continue
               /\ UNCHANGED <<line, announced, part, frames, running>>
          ELSE /\ frames' = Append(frames, b)
               /\ running' = running + 1
               /\ polling' = FALSE
               /\ Fresh
    BY DEF ReadBody
  <1>9. CASE Len(b) < Length[announced]
    BY <1>1, <1>2, <1>3, <1>6, <1>8, <1>9 DEF Continue
  <1>10. CASE Len(b) = Length[announced]
    <2>1. ~(Len(b) < Length[announced]) BY <1>3, <1>10, ConstantTypes
    <2> QED BY <1>1, <1>2, <1>3, <1>6, <1>8, <1>10, <2>1 DEF Fresh
  <1> QED BY <1>7, <1>9, <1>10

LEMMA TypeBody ==
    ASSUME TypeOK, LineInv, ReadBody
    PROVE  TypeOK'
  <1> DEFINE b   == Append(body, Input[taken + 1])
             Tok == {Input[n] : n \in DOMAIN Input}
  <1>1. /\ part = "body" /\ taken < arrived /\ taken' = taken + 1
        /\ cuts' = cuts /\ arrived' = arrived /\ eof' = eof /\ loop' = loop
        /\ finished' = finished
        /\ announced \in 1 .. Len(Length)
        /\ b \in Seq(Tok)
    BY ReadBodyKinds
  <1>2. taken' \in 0 .. arrived' BY <1>1 DEF TypeOK
  <1>3. CASE /\ Len(b) < Length[announced] /\ body' = b
             /\ polling' \in BOOLEAN
             /\ UNCHANGED <<line, announced, part, frames, running>>
    BY <1>1, <1>2, <1>3 DEF TypeOK
  <1>4. CASE /\ frames' = Append(frames, b) /\ running' = running + 1
             /\ polling' = FALSE
             /\ line' = <<>> /\ announced' = 0 /\ part' = "headers" /\ body' = <<>>
    <2>1. frames \in Seq(Seq(Tok)) BY DEF TypeOK
    <2>2. frames' \in Seq(Seq(Tok)) /\ Len(frames') = Len(frames) + 1
      BY <1>1, <1>4, <2>1
    <2>3. running' \in Nat /\ finished' \in Nat /\ running' + finished' \in 0 .. Len(frames')
      BY <1>1, <1>4, <2>1, <2>2 DEF TypeOK
    <2>4. /\ <<>> \in Seq({"name", "length", "type", "cr", "body"}) /\ <<>> \in Seq(Tok)
          /\ 0 \in 0 .. Len(Length)
      BY ConstantTypes
    <2> QED BY <1>1, <1>2, <1>4, <2>2, <2>3, <2>4 DEF TypeOK
  <1> QED BY <1>3, <1>4, ReadBodyKinds

\* What ReadEnd does: it ends the loop, or takes an unfinished line as a line.
LEMMA ReadEndKinds ==
    ASSUME TypeOK, LineInv, ReadEnd
    PROVE  /\ loop = "reading" /\ eof /\ taken = arrived /\ polling' = FALSE
           /\ cuts' = cuts /\ arrived' = arrived /\ eof' = eof /\ taken' = taken
           /\ frames' = frames /\ running' = running /\ finished' = finished
           /\ body' = body /\ part' = part
           /\ \/ /\ loop' \in {"closed", "failed"}
                 /\ line' = line /\ announced' = announced
              \/ /\ part = "headers" /\ line' = <<>>
                 /\ announced' \in 0 .. Len(Length)
                 /\ loop' \in {"reading", "failed"}
  <1>1. /\ loop = "reading" /\ eof /\ taken = arrived /\ polling' = FALSE
        /\ cuts' = cuts /\ arrived' = arrived /\ eof' = eof /\ taken' = taken
        /\ frames' = frames /\ running' = running /\ finished' = finished
    BY DEF ReadEnd, Polled, handlers
  <1>2. CASE part = "headers" /\ line = <<>> /\ loop' = "closed" /\ UNCHANGED read
    BY <1>1, <1>2 DEF read
  <1>3. CASE /\ part = "headers" /\ line # <<>>
             /\ HeaderLine(line, Input[taken][2])
             /\ line' = <<>>
             /\ UNCHANGED body
    <2>1. line \in Seq({"name", "length", "type", "cr", "body"}) BY DEF TypeOK
    <2>2. Len(line) >= 1 BY <1>3, <2>1
    <2>3. taken \in 1 .. Len(Input) BY <2>1, <2>2, ConstantTypes DEF TypeOK, LineInv
    <2>4. Input[taken][2] \in 0 .. Len(Length) BY <2>3, TokenType, ConstantTypes
    <2>5. ~Blank(line) BY <2>1, BlankEnds
    <2>6. announced \in 0 .. Len(Length) BY DEF TypeOK
    <2>7. part' = part /\ announced' \in 0 .. Len(Length) /\ loop' \in {"reading", "failed"}
      BY <1>1, <1>3, <2>4, <2>5, <2>6, HeaderLineKinds
    <2> QED BY <1>1, <1>3, <2>7
  <1>4. CASE part = "body" /\ loop' = "failed" /\ UNCHANGED read
    BY <1>1, <1>4 DEF read
  <1> QED BY <1>2, <1>3, <1>4 DEF ReadEnd

LEMMA TypeEnd ==
    ASSUME TypeOK, LineInv, ReadEnd
    PROVE  TypeOK'
  <1> DEFINE Tok == {Input[n] : n \in DOMAIN Input}
  <1>1. /\ cuts' = cuts /\ arrived' = arrived /\ eof' = eof /\ taken' = taken
        /\ frames' = frames /\ running' = running /\ finished' = finished
        /\ body' = body /\ part' = part /\ polling' = FALSE
        /\ announced' \in 0 .. Len(Length)
        /\ loop' \in {"reading", "failed", "closed"}
        /\ line' = line \/ line' = <<>>
    BY ReadEndKinds DEF TypeOK
  <1>2. part' = "body" => announced' = announced
    BY ReadEndKinds
  <1>3. <<>> \in Seq({"name", "length", "type", "cr", "body"}) OBVIOUS
  <1> QED BY <1>1, <1>2, <1>3 DEF TypeOK

\* The steps that do not touch the stream: what they do with the read.
LEMMA OtherKinds ==
    ASSUME TypeOK, Arrive \/ Close \/ HandlerEnds \/ Reap \/ Join \/ UNCHANGED vars
    PROVE  /\ taken' = taken /\ loop' = loop /\ frames' = frames /\ cuts' = cuts
           /\ polling' = polling
           /\ arrived' \in arrived .. Len(Input) /\ eof' \in BOOLEAN
           /\ eof => eof' /\ arrived' = arrived
           /\ running' \in Nat /\ finished' \in Nat
           /\ running' + finished' \in 0 .. running + finished
           /\ \/ UNCHANGED <<line, announced, part, body>>
              \/ line' = <<>> /\ announced' = 0 /\ part' = "headers" /\ body' = <<>>
  <1>1. /\ arrived \in 0 .. Len(Input) /\ eof \in BOOLEAN /\ running \in Nat /\ finished \in Nat
        /\ Len(Input) \in Nat
    BY ConstantTypes DEF TypeOK
  <1>2. CASE Arrive
    <2>1. PICK c \in cuts : c > arrived /\ arrived' = c BY <1>2 DEF Arrive
    <2>2. c \in 1 .. Len(Input) BY CuttingsAssumption DEF TypeOK
    <2> QED BY <1>1, <1>2, <2>1, <2>2 DEF Arrive, read, handlers
  <1>3. CASE Close BY <1>1, <1>3 DEF Close, read, handlers
  <1>4. CASE HandlerEnds BY <1>1, <1>4 DEF HandlerEnds, read
  <1>5. CASE Reap BY <1>1, <1>5 DEF Reap, Fresh
  <1>6. CASE Join BY <1>1, <1>6 DEF Join, read
  <1>7. CASE UNCHANGED vars BY <1>1, <1>7 DEF vars, read, handlers
  <1> QED BY <1>2, <1>3, <1>4, <1>5, <1>6, <1>7

LEMMA TypeOther ==
    ASSUME TypeOK, Arrive \/ Close \/ HandlerEnds \/ Reap \/ Join \/ UNCHANGED vars
    PROVE  TypeOK'
  <1> DEFINE Tok == {Input[n] : n \in DOMAIN Input}
  <1>1. /\ taken' = taken /\ loop' = loop /\ frames' = frames /\ cuts' = cuts
        /\ polling' = polling
        /\ arrived' \in arrived .. Len(Input) /\ eof' \in BOOLEAN
        /\ running' \in Nat /\ finished' \in Nat
        /\ running' + finished' \in 0 .. running + finished
    BY OtherKinds
  <1>2. arrived' \in 0 .. Len(Input) /\ taken' \in 0 .. arrived'
    BY <1>1, ConstantTypes DEF TypeOK
  <1>3. frames \in Seq(Seq(Tok)) BY DEF TypeOK
  <1>4. running' + finished' \in 0 .. Len(frames')
    <2>1. Len(frames) \in Nat BY <1>3
    <2>2. running + finished \in 0 .. Len(frames) BY DEF TypeOK
    <2>3. Len(frames') = Len(frames) BY <1>1
    <2>4. running \in Nat /\ finished \in Nat BY DEF TypeOK
    <2>5. /\ running' \in Nat /\ finished' \in Nat
          /\ running' + finished' \in 0 .. running + finished
      BY <1>1
    <2>6. 0 .. running + finished \subseteq 0 .. Len(frames) BY <2>1, <2>2, <2>4
    <2>7. running' + finished' \in 0 .. Len(frames) BY <2>5, <2>6
    <2> QED BY <2>3, <2>7
  <1>5. /\ <<>> \in Seq({"name", "length", "type", "cr", "body"}) /\ <<>> \in Seq(Tok)
        /\ 0 \in 0 .. Len(Length)
    BY ConstantTypes
  <1>6. /\ line' \in Seq({"name", "length", "type", "cr", "body"})
        /\ announced' \in 0 .. Len(Length)
        /\ part' \in {"headers", "body"}
        /\ part' = "body" => announced' # 0 /\ Len(body') < Length[announced']
        /\ body' \in Seq(Tok)
    <2>1. CASE UNCHANGED <<line, announced, part, body>> BY <2>1 DEF TypeOK
    <2>2. CASE line' = <<>> /\ announced' = 0 /\ part' = "headers" /\ body' = <<>>
      BY <2>2, <1>5
    <2> QED BY <2>1, <2>2, OtherKinds
  <1> QED BY <1>1, <1>2, <1>4, <1>6 DEF TypeOK

-----------------------------------------------------------------------------
(* The line.                                                                *)

\* A step of the reader within the headers.
LEMMA ReadHeaderKinds ==
    ASSUME TypeOK, ReadHeader,
           NEW token, token = Input[taken + 1],
           NEW s, s = Append(line, token[1])
    PROVE  /\ loop = "reading" /\ part = "headers" /\ taken < arrived /\ taken' = taken + 1
           /\ taken \in Nat /\ taken + 1 \in 1 .. Len(Input)
           /\ cuts' = cuts /\ arrived' = arrived /\ eof' = eof
           /\ frames' = frames /\ body' = body
           /\ Len(s) = Len(line) + 1 /\ s[Len(s)] = token[1]
           /\ \A i \in 1 .. Len(line) : s[i] = line[i]
           /\ \/ /\ token[1] # "lf" /\ line' = s
                 /\ UNCHANGED <<announced, part, loop>>
              \/ token[1] = "lf" /\ line' = <<>> /\ HeaderLine(s, token[2])
  <1>1. /\ loop = "reading" /\ part = "headers" /\ taken < arrived /\ taken' = taken + 1
        /\ cuts' = cuts /\ arrived' = arrived /\ eof' = eof
        /\ frames' = frames /\ body' = body
    BY DEF ReadHeader, Polled
  <1>2. taken \in Nat /\ taken + 1 \in 1 .. Len(Input) BY <1>1, ConstantTypes DEF TypeOK
  <1>3. line \in Seq({"name", "length", "type", "cr", "lf", "body"})
    <2>1. line \in Seq({"name", "length", "type", "cr", "body"}) BY DEF TypeOK
    <2> QED BY <2>1
  <1>4. token[1] \in {"name", "length", "type", "cr", "lf", "body"} BY <1>2, TokenType
  <1>5. /\ Len(s) = Len(line) + 1 /\ s[Len(s)] = token[1]
        /\ \A i \in 1 .. Len(line) : s[i] = line[i]
    BY <1>3, <1>4
  <1> QED BY <1>1, <1>2, <1>5 DEF ReadHeader

LEMMA LineStep ==
    ASSUME TypeOK, LineInv, [Next]_vars
    PROVE  LineInv'
  <1>1. taken \in Nat /\ Len(line) \in Nat /\ <<>> \in Seq({}) /\ Len(<<>>) = 0
    BY ConstantTypes DEF TypeOK
  <1>2. CASE ReadHeader
    <2> DEFINE token == Input[taken + 1]
               s     == Append(line, token[1])
    <2>1. /\ taken' = taken + 1 /\ body' = body /\ part = "headers"
          /\ Len(s) = Len(line) + 1 /\ s[Len(s)] = token[1]
          /\ \A i \in 1 .. Len(line) : s[i] = line[i]
      BY <1>2, ReadHeaderKinds
    <2>5. line' = <<>> \/ (line' = s /\ part' = part)
      BY <1>2, ReadHeaderKinds
    <2> HIDE DEF s
    <2>2. body' = <<>> BY <2>1 DEF LineInv
    <2>3. CASE line' = <<>> BY <1>1, <2>1, <2>2, <2>3 DEF LineInv, Start
    <2>4. CASE line' = s /\ part' = part
      <3>1. Len(line') = Len(line) + 1 /\ taken' - Len(line') = Start /\ Len(line') <= taken'
        BY <1>1, <2>1, <2>4 DEF LineInv, Start
      <3>2. ASSUME NEW i \in 1 .. Len(line')
            PROVE  line'[i] = Input[Start + i][1]
        <4>1. CASE i = Len(s)
          <5>1. Start + i = taken + 1 BY <1>1, <2>1, <4>1 DEF Start
          <5> QED BY <2>1, <2>4, <4>1, <5>1
        <4>2. CASE i # Len(s)
          <5>1. i \in 1 .. Len(line) BY <1>1, <3>1, <2>1, <2>4, <4>2
          <5> QED BY <2>1, <2>4, <5>1 DEF LineInv
        <4> QED BY <4>1, <4>2
      <3> QED BY <2>1, <2>2, <2>4, <3>1, <3>2 DEF LineInv, Start
    <2> QED BY <2>3, <2>4, <2>5
  <1>3. CASE ReadBody
    <2>1. /\ part = "body" /\ taken' = taken + 1
          /\ \/ line' = line /\ part' = part
             \/ line' = <<>> /\ part' = "headers" /\ body' = <<>>
      BY <1>3, ReadBodyKinds
    <2>2. line = <<>> /\ line' = <<>> BY <2>1 DEF LineInv
    <2> QED BY <1>1, <2>1, <2>2 DEF LineInv
  <1>4. CASE ReadEnd
    <2>1. /\ taken' = taken /\ part' = part /\ body' = body
          /\ line' = line \/ line' = <<>>
      BY <1>4, ReadEndKinds
    <2>2. CASE line' = line BY <2>1, <2>2 DEF LineInv, Start
    <2>3. CASE line' = <<>>
      <3>1. Len(line') = 0 /\ 1 .. Len(line') = {} /\ taken' \in Nat BY <1>1, <2>1, <2>3
      <3> QED BY <2>1, <2>3, <3>1 DEF LineInv
    <2> QED BY <2>1, <2>2, <2>3
  <1>5. CASE Arrive \/ Close \/ HandlerEnds \/ Reap \/ Join \/ UNCHANGED vars
    <2>1. taken' = taken BY <1>5, OtherKinds
    <2>2. CASE UNCHANGED <<line, announced, part, body>>
      BY <2>1, <2>2 DEF LineInv, Start
    <2>3. CASE line' = <<>> /\ part' = "headers" /\ body' = <<>>
      BY <1>1, <2>1, <2>3 DEF LineInv
    <2> QED BY <1>5, <2>2, <2>3, OtherKinds
  <1> QED BY <1>2, <1>3, <1>4, <1>5 DEF Next, Stopped

-----------------------------------------------------------------------------
(* The announced length.                                                    *)

\* A line the reader can use has no body in it.
LEMMA PlainLine ==
    ASSUME TypeOK,
           NEW x \in {"name", "length", "type", "cr", "lf", "body"},
           NEW s, s = Append(line, x),
           Header(s, "length") \/ Header(s, "type") \/ Empty(s)
    PROVE  \A i \in 1 .. Len(line) : line[i] # "body"
  <1>1. line \in Seq({"name", "length", "type", "cr", "lf", "body"})
    <2>1. line \in Seq({"name", "length", "type", "cr", "body"}) BY DEF TypeOK
    <2> QED BY <2>1
  <1>2. Len(s) = Len(line) + 1 /\ \A i \in 1 .. Len(line) : s[i] = line[i] /\ i \in 1 .. Len(s)
    BY <1>1
  <1>3. ASSUME NEW i \in 1 .. Len(s) PROVE s[i] # "body"
    <2>1. CASE Empty(s) BY <2>1, <1>3 DEF Empty
    <2>2. ASSUME NEW what \in {"length", "type"}, Header(s, what) PROVE s[i] # "body"
      <3>1. i = 1 \/ i = 2 \/ i \in 3 .. Len(s) BY <1>2, <1>1
      <3> QED BY <3>1, <2>2 DEF Header
    <2> QED BY <2>1, <2>2
  <1> QED BY <1>2, <1>3

\* While the line has no body in it, the next token is of the announced frame.
LEMMA NextIsAnnounced ==
    ASSUME TypeOK, LineInv, AnnouncedInv, ~Over, part = "headers", announced # 0,
           taken < arrived,
           \A i \in 1 .. Len(line) : line[i] # "body"
    PROVE  Input[taken + 1][2] = announced
  <1>1. /\ Start >= 1 /\ Input[Start][1] = "lf" /\ Input[taken][2] = announced
    BY DEF AnnouncedInv
  <1>2. /\ Len(line) \in Nat /\ taken \in Nat /\ arrived \in 0 .. Len(Input)
        /\ Len(line) <= taken
    BY ConstantTypes DEF TypeOK, LineInv
  <1>3. taken \in 1 .. Len(Input) BY <1>1, <1>2, ConstantTypes DEF Start
  <1>4. Input[taken][1] # "body"
    <2>1. CASE Len(line) = 0 BY <1>1, <1>2, <2>1 DEF Start
    <2>2. CASE Len(line) # 0
      <3>1. Len(line) \in 1 .. Len(line) /\ Start + Len(line) = taken
        BY <1>2, <2>2 DEF Start
      <3>2. line[Len(line)] = Input[Start + Len(line)][1] BY <3>1 DEF LineInv
      <3> QED BY <3>1, <3>2
    <2> QED BY <2>1, <2>2
  <1> QED BY <1>1, <1>3, <1>4, SameFrame

\* Once nothing more is taken, nothing ever is.
LEMMA OverStays ==
    ASSUME TypeOK, Arrive \/ Close \/ HandlerEnds \/ Reap \/ Join \/ UNCHANGED vars, Over
    PROVE  Over'
  <1>1. taken' = taken /\ loop' = loop /\ (eof => eof' /\ arrived' = arrived) BY OtherKinds
  <1> QED BY <1>1 DEF Over

LEMMA AnnouncedStep ==
    ASSUME TypeOK, LineInv, AnnouncedInv, [Next]_vars
    PROVE  AnnouncedInv'
  <1>1. taken \in Nat /\ Len(line) \in Nat /\ Len(line) <= taken
    BY ConstantTypes DEF TypeOK, LineInv
  <1>2. CASE ReadHeader
    <2> DEFINE token == Input[taken + 1]
               s     == Append(line, token[1])
    <2>1. /\ loop = "reading" /\ part = "headers" /\ taken < arrived /\ taken' = taken + 1
          /\ taken + 1 \in 1 .. Len(Input)
          /\ Len(s) = Len(line) + 1 /\ s[Len(s)] = token[1]
          /\ \A i \in 1 .. Len(line) : s[i] = line[i]
      BY <1>2, ReadHeaderKinds
    <2>2. ~Over BY <2>1, ConstantTypes DEF Over, TypeOK
    <2>3. token[1] \in {"name", "length", "type", "cr", "lf", "body"} BY <2>1, TokenType
    <2>4. CASE /\ token[1] # "lf" /\ line' = s
               /\ UNCHANGED <<announced, part, loop>>
      <3> SUFFICES ASSUME announced # 0
                   PROVE  /\ Start' >= 1 /\ Input[Start'][1] = "lf"
                          /\ (\A i \in 1 .. Len(line') : line'[i] # "body")
                                => Input[taken'][2] = announced'
        BY <2>4 DEF AnnouncedInv
      <3>1. Start' = Start BY <1>1, <2>1, <2>4 DEF Start
      <3>2. Start >= 1 /\ Input[Start][1] = "lf" BY <2>1, <2>2 DEF AnnouncedInv
      <3>3. ASSUME \A i \in 1 .. Len(line') : line'[i] # "body"
            PROVE  Input[taken'][2] = announced'
        <4>1. \A i \in 1 .. Len(line) : i \in 1 .. Len(s) BY <1>1, <2>1
        <4>2. \A i \in 1 .. Len(line) : line[i] # "body" BY <2>1, <2>4, <3>3, <4>1
        <4> QED BY <2>1, <2>2, <2>4, <4>2, NextIsAnnounced
      <3> QED BY <3>1, <3>2, <3>3
    <2>5. CASE token[1] = "lf" /\ line' = <<>> /\ HeaderLine(s, token[2])
      <3>1. Start' = taken' /\ taken' >= 1 /\ Input[taken'][1] = "lf"
        BY <1>1, <2>1, <2>5 DEF Start
      <3> SUFFICES ASSUME ~Over', part' = "headers", announced' # 0
                   PROVE  Input[taken'][2] = announced'
        BY <3>1 DEF AnnouncedInv
      <3>2. CASE Header(s, "length") /\ announced' = token[2]
        BY <2>1, <3>2
      <3>3. CASE (Header(s, "type") \/ Empty(s)) /\ announced' = announced
        <4>1. \A i \in 1 .. Len(line) : line[i] # "body" BY <2>3, <3>3, PlainLine
        <4> QED BY <2>1, <2>2, <3>3, <4>1, NextIsAnnounced
      <3>4. loop' # "failed" BY DEF Over
      <3>5. /\ HeaderLine(s, token[2]) /\ part' # "body" /\ loop' # "failed"
        BY <2>5, <3>4
      <3> HIDE DEF s
      <3> QED BY <3>2, <3>3, <3>5, HeaderLineKinds
    <2> QED BY <1>2, <2>4, <2>5, ReadHeaderKinds
  <1>3. CASE ReadBody
    <2>1. part' = "body" \/ announced' = 0 BY <1>3, ReadBodyKinds
    <2> QED BY <2>1 DEF AnnouncedInv
  <1>4. CASE ReadEnd
    <2>1. Over' BY <1>4, ReadEndKinds DEF Over
    <2> QED BY <2>1 DEF AnnouncedInv
  <1>5. CASE Arrive \/ Close \/ HandlerEnds \/ Reap \/ Join \/ UNCHANGED vars
    <2>1. taken' = taken BY <1>5, OtherKinds
    <2>2. CASE UNCHANGED <<line, announced, part, body>>
      BY <1>5, <2>1, <2>2, OverStays DEF AnnouncedInv, Start
    <2>3. CASE announced' = 0 BY <2>3 DEF AnnouncedInv
    <2> QED BY <1>5, <2>2, <2>3, OtherKinds
  <1> QED BY <1>2, <1>3, <1>4, <1>5 DEF Next, Stopped

-----------------------------------------------------------------------------
(* The body.                                                                *)

\* An empty line after a line that announced a length ends the headers, and the
\* announced frame is the one that follows.
LEMMA BlankEndsHeaders ==
    ASSUME TypeOK, LineInv, AnnouncedInv, ~Over, part = "headers", announced # 0,
           taken < arrived,
           Input[taken + 1][1] = "lf",
           NEW s, s = Append(line, "lf"), Blank(s)
    PROVE  EndsHeaders(taken + 1) /\ Input[taken + 1][2] = announced
  <1>1. /\ taken \in Nat /\ taken + 1 \in 1 .. Len(Input) /\ Len(line) \in Nat
        /\ Len(line) <= taken
    BY ConstantTypes DEF TypeOK, LineInv
  <1>2. Start >= 1 /\ Input[Start][1] = "lf" BY DEF AnnouncedInv
  <1>3. line \in Seq({"name", "length", "type", "cr", "lf", "body"})
    <2>1. line \in Seq({"name", "length", "type", "cr", "body"}) BY DEF TypeOK
    <2> QED BY <2>1
  <1>4. \A i \in 1 .. Len(line) : s[i] = line[i]
    BY <1>3
  <1>7. Len(s) = Len(line) + 1 /\ Len(line) \in Nat
    BY <1>3
  <1>5. CASE Len(s) = 1
    <2>1. Len(line) = 0 BY <1>7, <1>5
    <2>2. Start = taken BY <1>1, <2>1 DEF Start
    <2>3. \A i \in 1 .. Len(line) : line[i] # "body" BY <2>1
    <2>4. Input[taken + 1][2] = announced BY <2>3, NextIsAnnounced
    <2>5. taken + 1 > 1 /\ (taken + 1) - 1 = taken BY <1>1, <1>2, <2>2
    <2>6. Input[(taken + 1) - 1][1] = "lf" BY <1>2, <2>2, <2>5
    <2>7. EndsHeaders(taken + 1) BY <2>5, <2>6 DEF EndsHeaders
    <2> QED BY <2>4, <2>7
  <1>6. CASE Len(s) = 2 /\ s[1] = "cr"
    <2>0. Len(s) = 2 BY <1>6
    <2>10. Len(line) + 1 = 2 /\ Len(line) \in Nat BY <1>7, <2>0
    <2>11. \A n \in Nat : n + 1 = 2 => n = 1 OBVIOUS
    <2>1. Len(line) = 1 BY <2>10, <2>11, Zenon
    <2>2. line[1] = "cr" BY <1>4, <1>6, <2>1
    <2>3. Start = taken - 1 /\ Start + 1 = taken BY <1>1, <2>1 DEF Start
    <2>4. Input[taken][1] = "cr" BY <2>1, <2>2, <2>3 DEF LineInv
    <2>5. \A i \in 1 .. Len(line) : line[i] # "body" BY <2>1, <2>2
    <2>6. Input[taken + 1][2] = announced BY <2>5, NextIsAnnounced
    <2>7. taken + 1 > 2 /\ (taken + 1) - 1 = taken /\ (taken + 1) - 2 = Start
      BY <1>1, <1>2, <2>3
    <2>8. Input[(taken + 1) - 1][1] = "cr" /\ Input[(taken + 1) - 2][1] = "lf"
      BY <1>2, <2>4, <2>7
    <2>9. EndsHeaders(taken + 1) BY <2>7, <2>8 DEF EndsHeaders
    <2> QED BY <2>6, <2>9
  <1> QED BY <1>5, <1>6, BlankShape

LEMMA BodyStep ==
    ASSUME TypeOK, ReadInv, [Next]_vars
    PROVE  BodyInv'
  <1> USE DEF ReadInv
  <1>1. taken \in Nat /\ Len(body) \in Nat
    BY ConstantTypes DEF TypeOK
  <1>2. CASE ReadHeader
    <2> DEFINE token == Input[taken + 1]
               s     == Append(line, token[1])
    <2>1. /\ loop = "reading" /\ part = "headers" /\ taken < arrived /\ taken' = taken + 1
          /\ taken + 1 \in 1 .. Len(Input)
          /\ body' = body
          /\ \/ token[1] # "lf" /\ part' = part
             \/ token[1] = "lf" /\ HeaderLine(s, token[2])
      BY <1>2, ReadHeaderKinds
    <2>2. ~Over BY <2>1, ConstantTypes DEF Over, TypeOK
    <2> SUFFICES ASSUME part' = "body"
                 PROVE  /\ BodyStart' >= 1 /\ EndsHeaders(BodyStart')
                        /\ Input[BodyStart'][2] = announced'
                        /\ \A i \in 1 .. Len(body') : body'[i] = Input[BodyStart' + i]
      BY DEF BodyInv, EndsHeaders
    <2>3. token[1] = "lf" /\ HeaderLine(s, token[2]) BY <2>1
    <2>4. Blank(s) /\ announced # 0 /\ announced' = announced
      <3> HIDE DEF s
      <3> QED BY <2>1, <2>3, HeaderLineKinds
    <2>5. s = Append(line, "lf") BY <2>3
    <2>6. EndsHeaders(taken + 1) /\ Input[taken + 1][2] = announced
      BY <2>1, <2>2, <2>3, <2>4, <2>5, BlankEndsHeaders
    <2>7. Len(body') = 0 /\ 1 .. Len(body') = {} /\ BodyStart' = taken + 1
      BY <1>1, <2>1 DEF LineInv, BodyStart
    <2> QED BY <1>1, <2>4, <2>6, <2>7
  <1>3. CASE ReadBody
    <2> DEFINE b == Append(body, Input[taken + 1])
    <2>1. /\ part = "body" /\ taken' = taken + 1
          /\ part' = "headers" \/ (body' = b /\ announced' = announced)
          /\ Len(b) = Len(body) + 1
      BY <1>3, ReadBodyKinds
    <2>2. CASE part' = "headers" BY <2>2 DEF BodyInv
    <2>3. CASE body' = b /\ announced' = announced
      <3>1. BodyStart' = BodyStart BY <1>1, <2>1, <2>3 DEF BodyStart
      <3>2. /\ BodyStart >= 1 /\ EndsHeaders(BodyStart) /\ Input[BodyStart][2] = announced
            /\ \A i \in 1 .. Len(body) : body[i] = Input[BodyStart + i]
        BY <2>1 DEF BodyInv
      <3>3. body \in Seq({Input[n] : n \in DOMAIN Input}) BY DEF TypeOK
      <3>4. /\ \A i \in 1 .. Len(body) : b[i] = body[i]
            /\ b[Len(b)] = Input[taken + 1]
        BY <2>1, <3>3
      <3>5. ASSUME NEW i \in 1 .. Len(b)
            PROVE  b[i] = Input[BodyStart + i]
        <4>1. CASE i = Len(b)
          <5>1. BodyStart + i = taken + 1 BY <1>1, <2>1, <4>1 DEF BodyStart
          <5> QED BY <3>4, <4>1, <5>1
        <4>2. CASE i # Len(b)
          <5>1. i \in 1 .. Len(body) BY <1>1, <2>1, <4>2
          <5> QED BY <3>2, <3>4, <5>1
        <4> QED BY <4>1, <4>2
      <3> HIDE DEF b
      <3> QED BY <2>3, <3>1, <3>2, <3>5 DEF BodyInv, EndsHeaders
    <2> QED BY <2>1, <2>2, <2>3
  <1>4. CASE ReadEnd
    <2>1. /\ taken' = taken /\ part' = part /\ body' = body
          /\ part = "headers" \/ announced' = announced
      BY <1>4, ReadEndKinds
    <2> QED BY <2>1 DEF BodyInv, BodyStart, EndsHeaders
  <1>5. CASE Arrive \/ Close \/ HandlerEnds \/ Reap \/ Join \/ UNCHANGED vars
    <2>1. taken' = taken BY <1>5, OtherKinds
    <2>2. CASE UNCHANGED <<line, announced, part, body>>
      BY <2>1, <2>2 DEF BodyInv, BodyStart, EndsHeaders
    <2>3. CASE part' = "headers" BY <2>3 DEF BodyInv
    <2> QED BY <1>5, <2>2, <2>3, OtherKinds
  <1> QED BY <1>2, <1>3, <1>4, <1>5 DEF Next, Stopped

-----------------------------------------------------------------------------
(* What is handed over.                                                     *)

\* A body that has the announced length is the body of the announced frame, and
\* what is left of the stream is of later frames.
LEMMA BodyIsWhole ==
    ASSUME TypeOK, ReadInv, ReadBody,
           NEW b, b = Append(body, Input[taken + 1]),
           Len(b) = Length[announced]
    PROVE  /\ announced \in DOMAIN Length
           /\ b = Bodies[announced]
           /\ FrameOf(b) = announced
           /\ \A n \in taken' + 1 .. Len(Input) : Input[n][2] > announced
  <1>1. /\ part = "body" /\ taken' = taken + 1 /\ taken + 1 \in 1 .. Len(Input)
        /\ announced \in 1 .. Len(Length)
        /\ b \in Seq({Input[n] : n \in DOMAIN Input}) /\ Len(b) = Len(body) + 1
    BY ReadBodyKinds
  <1>2. taken \in Nat /\ Len(body) \in Nat /\ body \in Seq({Input[n] : n \in DOMAIN Input})
    BY ConstantTypes DEF TypeOK
  <1>3. /\ BodyStart >= 1 /\ EndsHeaders(BodyStart) /\ Input[BodyStart][2] = announced
        /\ \A i \in 1 .. Len(body) : body[i] = Input[BodyStart + i]
    BY <1>1 DEF ReadInv, BodyInv
  <1>4. BodyStart \in 1 .. Len(Input) /\ taken + 1 = BodyStart + Len(b)
    BY <1>1, <1>2, <1>3, ConstantTypes DEF BodyStart
  <1>5. /\ \A i \in 1 .. Length[announced] : Input[BodyStart + i] = <<"body", announced>>
        /\ \A i \in BodyStart + Length[announced] + 1 .. Len(Input) : Input[i][2] > announced
    BY <1>3, <1>4, BodyFollows
  <1>6. Length[announced] \in Nat /\ 1 <= Length[announced] BY <1>1, ConstantTypes
  <1>7. ASSUME NEW i \in 1 .. Len(b) PROVE b[i] = <<"body", announced>>
    <2>1. CASE i = Len(b)
      <3>1. b[i] = Input[taken + 1] BY <1>1, <1>2, <2>1
      <3>2. taken + 1 = BodyStart + i BY <1>4, <2>1
      <3> QED BY <1>5, <3>1, <3>2
    <2>2. CASE i # Len(b)
      <3>1. i \in 1 .. Len(body) BY <1>1, <1>2, <2>2
      <3>2. b[i] = body[i] BY <1>1, <1>2, <3>1
      <3> QED BY <1>3, <1>5, <3>1, <3>2
    <2> QED BY <2>1, <2>2
  <1>8. b = [i \in 1 .. Len(b) |-> b[i]] BY <1>1
  <1>9. DOMAIN Length = 1 .. Len(Length) BY LengthAssumption
  <1>10. Bodies[announced] = [i \in 1 .. Length[announced] |-> <<"body", announced>>]
    BY <1>1, <1>9 DEF Bodies
  <1>11. b = Bodies[announced] BY <1>7, <1>8, <1>10
  <1>12. 1 \in 1 .. Len(b) BY <1>6
  <1>13. b[1] = <<"body", announced>> BY <1>7, <1>12
  <1> QED BY <1>1, <1>4, <1>5, <1>9, <1>11, <1>13 DEF FrameOf

LEMMA FramesStep ==
    ASSUME TypeOK, ReadInv, OrderInv, NeverMisreads, [Next]_vars
    PROVE  OrderInv' /\ NeverMisreads'
  <1>0. LineInv BY DEF ReadInv
  <1>1. /\ taken \in Nat /\ arrived \in 0 .. Len(Input) /\ taken <= arrived
        /\ DOMAIN frames = 1 .. Len(frames) /\ Len(frames) \in Nat
        /\ Len(Input) \in Nat
    BY ConstantTypes DEF TypeOK
  <1>2. CASE frames' = frames
    <2>1. NeverMisreads' BY <1>2 DEF NeverMisreads, FrameOf, Bodies
    <2>2. taken' = taken \/ taken' = taken + 1
      <3>1. CASE ReadHeader BY <3>1, ReadHeaderKinds
      <3>2. CASE ReadBody BY <3>2, ReadBodyKinds
      <3>3. CASE ReadEnd BY <3>3, <1>0, ReadEndKinds
      <3>4. CASE Arrive \/ Close \/ HandlerEnds \/ Reap \/ Join \/ UNCHANGED vars
        BY <3>4, OtherKinds
      <3> QED BY <3>1, <3>2, <3>3, <3>4 DEF Next, Stopped
    <2>3. \A i \in DOMAIN frames : \A n \in taken' + 1 .. Len(Input) :
             Input[n][2] > FrameOf(frames[i])
      <3>1. taken' + 1 .. Len(Input) \subseteq taken + 1 .. Len(Input) BY <1>1, <2>2
      <3> QED BY <3>1 DEF OrderInv
    <2>4. ASSUME ~Over', announced' # 0, NEW i \in DOMAIN frames
          PROVE  FrameOf(frames[i]) < announced'
      <3>1. CASE ReadHeader
        <4>1. /\ loop = "reading" /\ taken < arrived
              /\ announced' = announced \/ announced' = Input[taken + 1][2]
          BY <3>1, ReadHeaderKinds, HeaderLineKinds
        <4>2. ~Over /\ taken + 1 \in taken + 1 .. Len(Input) BY <1>1, <4>1 DEF Over
        <4>3. Input[taken + 1][2] > FrameOf(frames[i]) BY <4>2 DEF OrderInv
        <4>4. announced' = announced => FrameOf(frames[i]) < announced
          BY <2>4, <4>2 DEF OrderInv
        <4>5. i \in DOMAIN frames /\ Input[taken + 1][2] \in Nat
          BY <1>1, <4>2, TokenType
        <4>6. PICK k \in DOMAIN Length : FrameOf(frames[i]) = k BY DEF NeverMisreads
        <4>7. k \in Nat BY LengthAssumption
        <4> QED BY <4>1, <4>3, <4>4, <4>5, <4>6, <4>7
      <3>2. CASE ReadBody
        <4>1. /\ loop = "reading" /\ taken < arrived /\ announced' = announced
          BY <2>4, <3>2, ReadBodyKinds
        <4>2. ~Over BY <1>1, <4>1 DEF Over
        <4> QED BY <2>4, <4>1, <4>2 DEF OrderInv
      <3>3. CASE ReadEnd
        <4>1. Over' BY <3>3, <1>0, ReadEndKinds DEF Over
        <4> QED BY <2>4, <4>1
      <3>4. CASE Arrive \/ Close \/ HandlerEnds \/ Reap \/ Join \/ UNCHANGED vars
        <4>1. announced' = announced BY <2>4, <3>4, OtherKinds
        <4>2. ~Over BY <2>4, <3>4, OverStays
        <4> QED BY <2>4, <4>1, <4>2 DEF OrderInv
      <3> QED BY <3>1, <3>2, <3>3, <3>4 DEF Next, Stopped
    <2> QED BY <1>2, <2>1, <2>3, <2>4 DEF OrderInv, FrameOf
  <1>3. CASE frames' # frames
    <2>1. ReadBody
      <3>1. CASE ReadHeader BY <1>3, <3>1, ReadHeaderKinds
      <3>2. CASE ReadEnd BY <1>3, <3>2, <1>0, ReadEndKinds
      <3>3. CASE Arrive \/ Close \/ HandlerEnds \/ Reap \/ Join \/ UNCHANGED vars
        BY <1>3, <3>3, OtherKinds
      <3> QED BY <3>1, <3>2, <3>3 DEF Next, Stopped
    <2> DEFINE b == Append(body, Input[taken + 1])
    <2>2. /\ loop = "reading" /\ taken < arrived /\ taken' = taken + 1
          /\ Len(b) = Length[announced] /\ frames' = Append(frames, b)
          /\ announced' = 0 /\ announced \in 1 .. Len(Length)
          /\ b \in Seq({Input[n] : n \in DOMAIN Input})
      BY <1>3, <2>1, ReadBodyKinds
    <2>3. /\ announced \in DOMAIN Length /\ b = Bodies[announced] /\ FrameOf(b) = announced
          /\ \A n \in taken' + 1 .. Len(Input) : Input[n][2] > announced
      BY <2>1, <2>2, BodyIsWhole
    <2>4. ~Over /\ announced # 0 BY <1>1, <2>2 DEF Over
    <2>5. \A i \in DOMAIN frames : FrameOf(frames[i]) < announced BY <2>4 DEF OrderInv
    <2> HIDE DEF b
    <2>6. frames \in Seq(Seq({Input[n] : n \in DOMAIN Input})) BY DEF TypeOK
    <2>7. /\ DOMAIN frames' = 1 .. Len(frames) + 1
          /\ \A i \in 1 .. Len(frames) : frames'[i] = frames[i]
          /\ frames'[Len(frames) + 1] = b
      BY <2>2, <2>6
    <2>8. \A i \in DOMAIN frames' : i \in DOMAIN frames \/ i = Len(frames) + 1
      BY <1>1, <2>7
    <2>9. taken' + 1 .. Len(Input) \subseteq taken + 1 .. Len(Input) BY <1>1, <2>2
    <2>10. \A i \in DOMAIN frames' : \A n \in taken' + 1 .. Len(Input) :
              Input[n][2] > FrameOf(frames'[i])
      BY <1>1, <2>3, <2>7, <2>8, <2>9 DEF OrderInv
    <2>11. OrderInv' BY <2>2, <2>10 DEF OrderInv, FrameOf
    <2>12. \A i \in DOMAIN frames' :
              \E k \in DOMAIN Length : FrameOf(frames'[i]) = k /\ frames'[i] = Bodies[k]
      BY <1>1, <2>3, <2>7, <2>8 DEF NeverMisreads
    <2>13. ASSUME NEW j \in DOMAIN frames', NEW i \in 1 .. j - 1
           PROVE  FrameOf(frames'[i]) < FrameOf(frames'[j])
      <3>1. i \in DOMAIN frames /\ frames'[i] = frames[i] BY <1>1, <2>7
      <3>2. CASE j \in DOMAIN frames
        BY <1>1, <2>7, <3>1, <3>2 DEF NeverMisreads
      <3>3. CASE j = Len(frames) + 1
        BY <2>3, <2>5, <2>7, <3>1, <3>3
      <3> QED BY <2>8, <3>2, <3>3
    <2>14. NeverMisreads' BY <2>12, <2>13 DEF NeverMisreads, FrameOf, Bodies
    <2> QED BY <2>11, <2>14
  <1> QED BY <1>2, <1>3

-----------------------------------------------------------------------------
(* The invariant.                                                           *)

LEMMA InvInit == Init => Inv
  <1> SUFFICES ASSUME Init PROVE Inv OBVIOUS
  <1> DEFINE Tok == {Input[n] : n \in DOMAIN Input}
  <1>1. /\ <<>> \in Seq({"name", "length", "type", "cr", "body"})
        /\ <<>> \in Seq(Tok) /\ <<>> \in Seq(Seq(Tok))
        /\ Len(<<>>) = 0 /\ 1 .. Len(<<>>) = {} /\ DOMAIN <<>> = {}
    OBVIOUS
  <1>2. TypeOK
    <2>1. 0 \in 0 .. Len(Input) /\ 0 \in 0 .. 0 /\ 0 \in 0 .. Len(Length) /\ 0 \in Nat /\ 0 + 0 = 0
      BY ConstantTypes
    <2>2. /\ arrived \in 0 .. Len(Input) /\ taken \in 0 .. arrived
          /\ running \in Nat /\ finished \in Nat /\ announced \in 0 .. Len(Length)
      BY <2>1 DEF Init
    <2>3. running + finished = 0 /\ Len(frames) = 0 BY <1>1, <2>1 DEF Init
    <2>4. running + finished \in 0 .. Len(frames) BY <2>1, <2>3
    <2>5. /\ line \in Seq({"name", "length", "type", "cr", "body"})
          /\ body \in Seq(Tok) /\ frames \in Seq(Seq(Tok))
      BY <1>1 DEF Init
    <2> QED BY <2>2, <2>4, <2>5 DEF Init, TypeOK
  <1>3. LineInv BY <1>1 DEF Init, LineInv
  <1>4. AnnouncedInv BY DEF Init, AnnouncedInv
  <1>5. BodyInv BY DEF Init, BodyInv
  <1>6. frames = <<>> /\ DOMAIN frames = {} BY <1>1 DEF Init
  <1>7. OrderInv BY <1>6 DEF OrderInv
  <1>8. NeverMisreads BY <1>6 DEF NeverMisreads
  <1> QED BY <1>2, <1>3, <1>4, <1>5, <1>7, <1>8 DEF Inv, ReadInv

LEMMA TypeStep ==
    ASSUME TypeOK, LineInv, [Next]_vars
    PROVE  TypeOK'
  <1>1. CASE ReadHeader BY <1>1, TypeHeader
  <1>2. CASE ReadBody BY <1>2, TypeBody
  <1>3. CASE ReadEnd BY <1>3, TypeEnd
  <1>4. CASE Arrive \/ Close \/ HandlerEnds \/ Reap \/ Join \/ UNCHANGED vars
    BY <1>4, TypeOther
  <1> QED BY <1>1, <1>2, <1>3, <1>4 DEF Next, Stopped

LEMMA InvNext == Inv /\ [Next]_vars => Inv'
  <1> SUFFICES ASSUME Inv, [Next]_vars PROVE Inv' OBVIOUS
  <1>1. /\ TypeOK /\ ReadInv /\ OrderInv /\ NeverMisreads
        /\ LineInv /\ AnnouncedInv
    BY DEF Inv, ReadInv
  <1>2. TypeOK' BY <1>1, TypeStep
  <1>3. LineInv' BY <1>1, LineStep
  <1>4. AnnouncedInv' BY <1>1, AnnouncedStep
  <1>5. BodyInv' BY <1>1, BodyStep
  <1>6. OrderInv' /\ NeverMisreads' BY <1>1, FramesStep
  <1> QED BY <1>2, <1>3, <1>4, <1>5, <1>6 DEF Inv, ReadInv

\* The reader (serve_stdio, read_frame) keeps its types for any stream of complete
\* frames, however it is cut into chunks.
THEOREM FrameReaderTypeCorrect == Spec => []TypeOK
  <1>1. Inv => TypeOK BY DEF Inv
  <1> QED BY InvInit, InvNext, <1>1, PTL DEF Spec

\* Wherever the chunks end and however often the select! cancels a read, what the
\* reader hands to a handler is a frame the host wrote, whole, in the host's order
\* and none twice.
THEOREM NeverMisreadsHolds == Spec => []NeverMisreads
  <1>1. Inv => NeverMisreads BY DEF Inv
  <1> QED BY InvInit, InvNext, <1>1, PTL DEF Spec

-----------------------------------------------------------------------------
(* Chunks of whole frames: a cancelled read has nothing to lose.            *)

AtEdge(n) == n = 0 \/ n \in FrameEnds

\* The reader waits only between two frames, where it has read nothing; so the
\* frames it has taken are those it has handed over.
EdgeInv ==
    FramesWhole /\ loop = "reading" =>
        /\ AtEdge(arrived)
        /\ AtEdge(taken) => line = <<>> /\ announced = 0 /\ part = "headers" /\ body = <<>>
        /\ ~AtEdge(taken) => polling
        /\ part = "headers" => \A h \in 1 .. taken :
              EndsHeaders(h) => h + Length[Input[h][2]] <= taken
        /\ Len(frames) = Whole(taken)

\* FramesAssumption and OrderAssumption, by the positions of the stream.
LEMMA StreamOrder ==
    /\ \A m, n \in 1 .. Len(Input) : m < n => Input[m][2] <= Input[n][2]
    /\ Len(Input) = 0 => Len(Length) = 0
    /\ Len(Input) # 0 => Input[1][2] = 1 /\ Input[Len(Input)][2] = Len(Length)
    /\ \A n \in FrameEnds :
          /\ n \in 1 .. Len(Input)
          /\ n # Len(Input) => Input[n + 1][2] = Input[n][2] + 1
          /\ \E h \in 1 .. Len(Input) : /\ EndsHeaders(h) /\ Input[h][2] = Input[n][2]
                                        /\ n = h + Length[Input[n][2]]
  <1>1. DOMAIN Input = 1 .. Len(Input) /\ (Len(Input) = 0 <=> Input = <<>>)
    BY InputAssumption
  <1>2. Length = <<>> => Len(Length) = 0 BY LengthAssumption
  <1> QED BY <1>1, <1>2, OrderAssumption DEF FrameEnds

\* How many frames the first n tokens hold whole.
LEMMA WholeType ==
    ASSUME NEW n \in 0 .. Len(Input)
    PROVE  Whole(n) \in 0 .. Len(Length)
  <1>1. CASE n = Len(Input) BY <1>1, ConstantTypes DEF Whole
  <1>2. CASE n # Len(Input)
    <2>1. n + 1 \in 1 .. Len(Input) BY <1>2, ConstantTypes
    <2>2. Input[n + 1][2] \in 1 .. Len(Length) BY <2>1, TokenType
    <2> QED BY <1>2, <2>2, ConstantTypes DEF Whole
  <1> QED BY <1>1, <1>2

LEMMA WholeGrows ==
    ASSUME NEW m \in 0 .. Len(Input), NEW n \in 0 .. Len(Input), m <= n
    PROVE  Whole(m) <= Whole(n)
  <1>1. Whole(m) \in 0 .. Len(Length) /\ Whole(n) \in 0 .. Len(Length) BY WholeType
  <1>2. CASE n = Len(Input) BY <1>1, <1>2, ConstantTypes DEF Whole
  <1>3. CASE n # Len(Input) /\ m < n
    <2>1. m + 1 \in 1 .. Len(Input) /\ n + 1 \in 1 .. Len(Input) /\ m + 1 < n + 1
          /\ m # Len(Input)
      BY <1>3, ConstantTypes
    <2>2. Input[m + 1][2] <= Input[n + 1][2] BY <2>1, StreamOrder
    <2>3. Input[m + 1][2] \in Nat /\ Input[n + 1][2] \in Nat BY <2>1, TokenType
    <2> QED BY <1>3, <2>1, <2>2, <2>3 DEF Whole
  <1>4. CASE m = n BY <1>1, <1>4
  <1> QED BY <1>2, <1>3, <1>4

\* A token within a frame leaves that frame incomplete, and the last one makes it
\* whole.
LEMMA WholeWithin ==
    ASSUME NEW n \in 0 .. Len(Input), n + 1 \in 1 .. Len(Input), n + 1 \notin FrameEnds
    PROVE  Whole(n + 1) = Whole(n)
  <1>1. n # Len(Input) /\ DOMAIN Input = 1 .. Len(Input) BY InputAssumption, ConstantTypes
  <1>2. n + 1 # Len(Input) /\ Input[n + 1][2] = Input[n + 1 + 1][2] BY <1>1 DEF FrameEnds
  <1> QED BY <1>1, <1>2 DEF Whole

LEMMA WholeAtEnd ==
    ASSUME NEW n \in 0 .. Len(Input), n + 1 \in FrameEnds
    PROVE  /\ Whole(n) = Input[n + 1][2] - 1
           /\ Whole(n + 1) = Input[n + 1][2]
  <1>1. n + 1 \in 1 .. Len(Input) BY StreamOrder
  <1>2. n # Len(Input) BY <1>1, ConstantTypes
  <1>3. CASE n + 1 = Len(Input) BY <1>1, <1>2, <1>3, StreamOrder, ConstantTypes DEF Whole
  <1>4. CASE n + 1 # Len(Input)
    <2>1. Input[n + 1 + 1][2] = Input[n + 1][2] + 1 BY <1>4, StreamOrder
    <2>2. Input[n + 1][2] \in Nat BY <1>1, TokenType
    <2> QED BY <1>2, <1>4, <2>1, <2>2 DEF Whole
  <1> QED BY <1>3, <1>4

\* The bodies of two frames do not overlap: headers end once before a body.
LEMMA OneHeadersEnd ==
    ASSUME NEW g \in 1 .. Len(Input), NEW h \in 1 .. Len(Input), EndsHeaders(g), EndsHeaders(h),
           g < h
    PROVE  g + Length[Input[g][2]] < h
  <1>1. Input[g][2] \in 1 .. Len(Length) BY TokenType
  <1>2. Length[Input[g][2]] \in Nat \ {0} BY <1>1, ConstantTypes
  <1>3. ASSUME h <= g + Length[Input[g][2]] PROVE FALSE
    <2>1. h - g \in 1 .. Length[Input[g][2]] /\ g + (h - g) = h BY <1>2, <1>3
    <2>2. Input[h] = <<"body", Input[g][2]>> BY <2>1, BodyFollows
    <2> QED BY <2>2 DEF EndsHeaders
  <1> QED BY <1>2, <1>3

\* An empty line is read as one, whatever is left of the line it ends.
LEMMA EndsAreBlank ==
    ASSUME TypeOK, LineInv, part = "headers", taken + 1 \in 1 .. Len(Input),
           EndsHeaders(taken + 1), NEW s, s = Append(line, "lf")
    PROVE  Blank(s)
  <1>1. taken \in Nat /\ line \in Seq({"name", "length", "type", "cr", "body"})
    BY ConstantTypes DEF TypeOK
  <1>2. /\ Len(line) \in Nat /\ Len(line) <= taken
        /\ \A i \in 1 .. Len(line) : line[i] = Input[Start + i][1] /\ line[i] # "lf"
    BY <1>1 DEF LineInv
  <1>3. Start \in Nat /\ Start + Len(line) = taken BY <1>1, <1>2 DEF Start
  <1>4. CASE Len(line) = 0
    <2>1. line = <<>> BY <1>1, <1>4
    <2> QED BY <2>1 DEF Blank
  <1>5. CASE Len(line) # 0
    <2>1. Len(line) \in 1 .. Len(line) /\ line[Len(line)] = Input[taken][1]
      BY <1>2, <1>3, <1>5
    <2>2. Input[taken][1] # "lf" /\ taken + 1 - 1 = taken /\ taken + 1 - 2 = taken - 1
      BY <1>1, <1>2, <2>1
    <2>3. taken > 1 /\ Input[taken][1] = "cr" /\ Input[taken - 1][1] = "lf"
      BY <1>1, <2>2 DEF EndsHeaders
    <2>4. Len(line) = 1
      <3>1. ASSUME Len(line) > 1 PROVE FALSE
        <4>1. Len(line) - 1 \in 1 .. Len(line) /\ Start + (Len(line) - 1) = taken - 1
          BY <1>1, <1>2, <1>3, <3>1
        <4>2. line[Len(line) - 1] = Input[taken - 1][1] /\ line[Len(line) - 1] # "lf"
          BY <1>2, <4>1
        <4> QED BY <2>3, <4>2
      <3>2. \A n \in Nat : n # 0 /\ ~(n > 1) => n = 1 OBVIOUS
      <3>3. ~(Len(line) > 1) BY <3>1
      <3> QED BY <1>2, <1>5, <3>2, <3>3, Zenon
    <2>5. line[1] = "cr" BY <2>1, <2>3, <2>4
    <2>6. line \in Seq({"cr", "lf"})
      <3>1. \A i \in 1 .. Len(line) : line[i] \in {"cr", "lf"} BY <2>4, <2>5
      <3> QED BY <1>1, <3>1
    <2>7. /\ s \in Seq({"cr", "lf"}) /\ Len(s) = Len(line) + 1
          /\ s[Len(line) + 1] = "lf" /\ \A i \in 1 .. Len(line) : s[i] = line[i]
      BY <2>6, AppendProperties
    <2>8. Len(s) = 2 /\ s[1] = "cr" /\ s[2] = "lf"
      BY <2>4, <2>5, <2>7
    <2>9. /\ <<"cr", "lf">> \in Seq({"cr", "lf"}) /\ Len(<<"cr", "lf">>) = 2
          /\ <<"cr", "lf">>[1] = "cr" /\ <<"cr", "lf">>[2] = "lf"
      OBVIOUS
    <2>10. s = <<"cr", "lf">>
      <3>1. \A i \in 1 .. 2 : i = 1 \/ i = 2 OBVIOUS
      <3>2. \A i \in 1 .. Len(s) : s[i] = <<"cr", "lf">>[i] BY <2>8, <2>9, <3>1
      <3> QED BY <2>7, <2>8, <2>9, <3>2, SeqEqual
    <2> QED BY <2>10 DEF Blank
  <1> QED BY <1>4, <1>5

\* It takes the reader to the body, or makes it fail.
LEMMA BlankLeaves ==
    ASSUME NEW s, NEW k, Blank(s), HeaderLine(s, k), loop = "reading"
    PROVE  loop' = "failed" \/ part' = "body"
  <1>1. Len(s) >= 1 /\ s[1] \in {"cr", "lf"} BY DEF Blank
  <1>2. ~Header(s, "length") /\ ~Header(s, "type") BY <1>1 DEF Header
  <1> QED BY <1>2 DEF HeaderLine

\* A step within the headers does not reach the end of a frame.
LEMMA HeadersGoOn ==
    ASSUME TypeOK, part = "headers", taken + 1 \in 1 .. Len(Input),
           \A h \in 1 .. taken : EndsHeaders(h) => h + Length[Input[h][2]] <= taken
    PROVE  taken + 1 \notin FrameEnds
  <1>1. SUFFICES ASSUME taken + 1 \in FrameEnds PROVE FALSE
    OBVIOUS
  <1>2. PICK h \in 1 .. Len(Input) : /\ EndsHeaders(h) /\ Input[h][2] = Input[taken + 1][2]
                                     /\ taken + 1 = h + Length[Input[taken + 1][2]]
    BY <1>1, StreamOrder
  <1>3. Input[h][2] \in 1 .. Len(Length) BY TokenType
  <1>4. Length[Input[h][2]] \in Nat \ {0} /\ taken \in Nat
    BY <1>3, ConstantTypes DEF TypeOK
  <1>5. h \in 1 .. taken BY <1>2, <1>4
  <1>6. h + Length[Input[h][2]] <= taken BY <1>2, <1>5
  <1> QED BY <1>2, <1>4, <1>6

\* A step within the body reaches it with the last token and not before, and then
\* every body that has begun is read.
LEMMA BodyGoesOn ==
    ASSUME TypeOK, BodyInv, part = "body", taken + 1 \in 1 .. Len(Input)
    PROVE  /\ taken + 1 \in FrameEnds <=> Len(body) + 1 = Length[announced]
           /\ Input[taken + 1][2] = announced
           /\ Len(body) + 1 = Length[announced] =>
                 \A h \in 1 .. taken + 1 :
                     EndsHeaders(h) => h + Length[Input[h][2]] <= taken + 1
  <1> DEFINE g == BodyStart
  <1>1. /\ g \in Nat /\ g >= 1 /\ EndsHeaders(g) /\ Input[g][2] = announced
        /\ taken \in Nat /\ Len(body) \in Nat /\ g + Len(body) = taken
        /\ announced \in 1 .. Len(Length) /\ Len(body) < Length[announced]
    BY ConstantTypes DEF TypeOK, BodyInv, BodyStart
  <1>2. Length[announced] \in Nat \ {0} BY <1>1, ConstantTypes
  <1>3. g \in 1 .. Len(Input) BY <1>1, ConstantTypes DEF BodyStart
  <1> HIDE DEF g
  <1>4. /\ g + Length[announced] <= Len(Input)
        /\ \A i \in 1 .. Length[announced] : Input[g + i] = <<"body", announced>>
        /\ \A i \in g + Length[announced] + 1 .. Len(Input) : Input[i][2] > announced
    BY <1>1, <1>3, BodyFollows
  <1>5. Input[taken + 1][2] = announced
    <2>1. Len(body) + 1 \in 1 .. Length[announced] /\ g + (Len(body) + 1) = taken + 1
      BY <1>1, <1>2
    <2>2. Input[taken + 1] = <<"body", announced>> BY <1>4, <2>1
    <2> QED BY <2>2
  <1>6. ASSUME taken + 1 \in FrameEnds PROVE Len(body) + 1 = Length[announced]
    <2>1. PICK h \in 1 .. Len(Input) : /\ EndsHeaders(h) /\ Input[h][2] = announced
                                       /\ taken + 1 = h + Length[announced]
      BY <1>5, <1>6, StreamOrder
    <2>2. ~(g < h)
      <3>1. g < h => g + Length[announced] < h BY <1>1, <1>3, <2>1, OneHeadersEnd
      <3> QED BY <1>1, <1>2, <2>1, <3>1
    <2>3. ~(h < g)
      <3>1. h < g => h + Length[announced] < g BY <1>1, <1>3, <2>1, OneHeadersEnd
      <3> QED BY <1>1, <1>2, <2>1, <3>1
    <2>4. h = g BY <1>3, <2>2, <2>3
    <2> QED BY <1>1, <1>2, <2>1, <2>4
  <1>7. ASSUME Len(body) + 1 = Length[announced]
        PROVE  /\ taken + 1 \in FrameEnds
               /\ \A h \in 1 .. taken + 1 :
                     EndsHeaders(h) => h + Length[Input[h][2]] <= taken + 1
    <2>1. taken + 1 = g + Length[announced] BY <1>1, <1>2, <1>7
    <2>2. DOMAIN Input = 1 .. Len(Input) BY InputAssumption
    <2>3. ASSUME taken + 1 # Len(Input) PROVE Input[taken + 1 + 1][2] # Input[taken + 1][2]
      <3>1. taken + 1 + 1 \in g + Length[announced] + 1 .. Len(Input)
        BY <1>1, <1>2, <2>1, <2>3, ConstantTypes
      <3>2. Input[taken + 1 + 1][2] > announced BY <1>4, <3>1
      <3>3. taken + 1 + 1 \in 1 .. Len(Input) BY <1>1, <2>3, ConstantTypes
      <3>4. Input[taken + 1 + 1][2] \in Nat BY <3>3, TokenType
      <3> QED BY <1>1, <1>5, <3>2, <3>4
    <2>4. taken + 1 \in FrameEnds BY <2>2, <2>3 DEF FrameEnds
    <2>5. ASSUME NEW h \in 1 .. taken + 1, EndsHeaders(h)
          PROVE  h + Length[Input[h][2]] <= taken + 1
      <3>1. h \in 1 .. Len(Input) BY <1>1, ConstantTypes
      <3>2. Input[h][2] \in 1 .. Len(Length) BY <3>1, TokenType
      <3>3. Length[Input[h][2]] \in Nat BY <3>2, ConstantTypes
      <3>4. CASE h < g
        <4>1. h + Length[Input[h][2]] < g BY <1>1, <1>3, <2>5, <3>1, <3>4, OneHeadersEnd
        <4> QED BY <1>2, <1>3, <2>1, <3>3, <4>1
      <3>5. CASE h = g BY <1>1, <2>1, <3>5
      <3>6. CASE g < h
        <4>1. g + Length[announced] < h BY <1>1, <1>3, <2>5, <3>1, <3>6, OneHeadersEnd
        <4> QED BY <1>1, <1>2, <2>1, <2>5, <4>1
      <3> QED BY <1>3, <3>1, <3>4, <3>5, <3>6
    <2> QED BY <2>4, <2>5
  <1> QED BY <1>5, <1>6, <1>7

LEMMA EdgeInit == Init => EdgeInv
  <1> SUFFICES ASSUME Init PROVE EdgeInv OBVIOUS
  <1>1. arrived = 0 /\ taken = 0 /\ frames = <<>> /\ 1 .. taken = {}
    BY DEF Init
  <1>2. Whole(0) = 0
    <2>1. CASE Len(Input) = 0 BY <2>1, StreamOrder DEF Whole
    <2>2. CASE Len(Input) # 0 BY <2>2, StreamOrder, ConstantTypes DEF Whole
    <2> QED BY <2>1, <2>2
  <1>3. Len(frames) = Whole(taken) BY <1>1, <1>2
  <1>4. AtEdge(arrived) /\ AtEdge(taken) BY <1>1 DEF AtEdge
  <1> QED BY <1>1, <1>3, <1>4 DEF EdgeInv, Init

LEMMA EdgeHeader ==
    ASSUME TypeOK, LineInv, EdgeInv, ReadHeader
    PROVE  EdgeInv'
  <1> DEFINE token == Input[taken + 1]
             s     == Append(line, token[1])
  <1>1. /\ loop = "reading" /\ part = "headers" /\ taken < arrived /\ taken' = taken + 1
        /\ taken \in Nat /\ taken + 1 \in 1 .. Len(Input)
        /\ cuts' = cuts /\ arrived' = arrived /\ frames' = frames
        /\ \/ token[1] # "lf"
           \/ token[1] = "lf" /\ HeaderLine(s, token[2])
    BY ReadHeaderKinds
  <1>2. polling' = (taken' < arrived) BY DEF ReadHeader, Continue
  <1> SUFFICES ASSUME FramesWhole', loop' = "reading"
               PROVE  /\ AtEdge(arrived')
                      /\ ~AtEdge(taken') /\ polling'
                      /\ part' = "headers" => \A h \in 1 .. taken' :
                             EndsHeaders(h) => h + Length[Input[h][2]] <= taken'
                      /\ Len(frames') = Whole(taken')
    BY DEF EdgeInv, AtEdge, EndsHeaders, Whole
  <1>3. /\ AtEdge(arrived) /\ Len(frames) = Whole(taken)
        /\ \A h \in 1 .. taken : EndsHeaders(h) => h + Length[Input[h][2]] <= taken
    BY <1>1 DEF EdgeInv, FramesWhole
  <1>4. taken + 1 \notin FrameEnds BY <1>1, <1>3, HeadersGoOn
  <1>5. ~AtEdge(taken + 1) BY <1>1, <1>4 DEF AtEdge
  <1>6. arrived \in Nat /\ taken \in 0 .. Len(Input) BY <1>1, ConstantTypes DEF TypeOK
  <1>7. taken + 1 < arrived
    <2>1. taken + 1 # arrived BY <1>3, <1>5
    <2> QED BY <1>1, <1>6, <2>1
  <1>8. ASSUME part' = "headers", NEW h \in 1 .. taken + 1, EndsHeaders(h)
        PROVE  h + Length[Input[h][2]] <= taken + 1
    <2>1. CASE h = taken + 1
      <3>1. token[1] = "lf" BY <1>8, <2>1 DEF EndsHeaders
      <3>2. s = Append(line, "lf") /\ HeaderLine(s, token[2]) BY <1>1, <3>1
      <3>3. Blank(s) BY <1>1, <1>8, <2>1, <3>2, EndsAreBlank
      <3> HIDE DEF s
      <3>4. loop' = "failed" \/ part' = "body" BY <1>1, <3>2, <3>3, BlankLeaves
      <3> QED BY <1>8, <3>4
    <2>2. CASE h \in 1 .. taken
      <3>1. h + Length[Input[h][2]] <= taken BY <1>3, <1>8, <2>2
      <3>2. h \in 1 .. Len(Input) BY <1>1, <1>6, <2>2, ConstantTypes
      <3>3. Input[h][2] \in 1 .. Len(Length) BY <3>2, TokenType
      <3>4. Length[Input[h][2]] \in Nat BY <3>3, ConstantTypes
      <3> QED BY <1>1, <2>2, <3>1, <3>4
    <2> QED BY <1>1, <2>1, <2>2
  <1>9. Whole(taken + 1) = Whole(taken) BY <1>1, <1>4, <1>6, WholeWithin
  <1> QED BY <1>1, <1>2, <1>3, <1>5, <1>7, <1>8, <1>9

\* A frame is handed over when it is whole, and is the next one.
LEMMA EdgeBody ==
    ASSUME TypeOK, ReadInv, EdgeInv, ReadBody, FramesWhole
    PROVE  /\ EdgeInv'
           /\ \/ frames' = frames
              \/ /\ Whole(taken) < Whole(arrived) /\ Len(frames) = Whole(taken)
                 /\ Len(frames) + 1 \in DOMAIN Length
                 /\ frames' = Append(frames, Bodies[Len(frames) + 1])
  <1> DEFINE b == Append(body, Input[taken + 1])
  <1>1. /\ loop = "reading" /\ part = "body" /\ taken < arrived /\ taken' = taken + 1
        /\ taken + 1 \in 1 .. Len(Input)
        /\ cuts' = cuts /\ arrived' = arrived
        /\ b \in Seq({Input[n] : n \in DOMAIN Input}) /\ Len(b) = Len(body) + 1
        /\ \/ /\ Len(b) < Length[announced] /\ part' = part /\ frames' = frames
           \/ /\ Len(b) = Length[announced] /\ frames' = Append(frames, b)
              /\ line' = <<>> /\ announced' = 0 /\ part' = "headers" /\ body' = <<>>
    BY ReadBodyKinds
  <1>2. /\ AtEdge(arrived) /\ Len(frames) = Whole(taken)
    BY <1>1 DEF EdgeInv
  <1>3. /\ arrived \in 0 .. Len(Input) /\ taken \in 0 .. Len(Input) /\ taken \in Nat /\ arrived \in Nat
        /\ Len(frames) \in Nat
    BY <1>1, ConstantTypes DEF TypeOK
  <1>4. /\ taken + 1 \in FrameEnds <=> Len(body) + 1 = Length[announced]
        /\ Input[taken + 1][2] = announced
        /\ Len(body) + 1 = Length[announced] =>
              \A h \in 1 .. taken + 1 : EndsHeaders(h) => h + Length[Input[h][2]] <= taken + 1
    BY <1>1, BodyGoesOn DEF ReadInv
  <1>5. CASE Len(b) < Length[announced] /\ part' = part /\ frames' = frames
    <2>1. announced \in 1 .. Len(Length) BY <1>1, <1>4, TokenType
    <2>2. Length[announced] \in Nat /\ Len(b) \in Nat BY <1>1, <2>1, ConstantTypes
    <2> HIDE DEF b
    <2>3. taken + 1 \notin FrameEnds BY <1>1, <1>4, <1>5, <2>2
    <2>4. ~AtEdge(taken + 1) BY <1>3, <2>3 DEF AtEdge
    <2>5. taken + 1 < arrived
      <3>1. taken + 1 # arrived BY <1>2, <2>4
      <3> QED BY <1>1, <1>3, <3>1
    <2>6. polling'
      <3>1. Continue
        <4>1. Len(Append(body, Input[taken + 1])) < Length[announced] BY <1>5 DEF b
        <4> QED BY <4>1 DEF ReadBody
      <3> QED BY <1>1, <2>5, <3>1 DEF Continue
    <2>7. Whole(taken + 1) = Whole(taken) BY <1>1, <1>3, <2>3, WholeWithin
    <2>8. AtEdge(arrived') /\ ~AtEdge(taken') /\ Len(frames') = Whole(taken') /\ part' = "body"
      BY <1>1, <1>2, <1>5, <2>4, <2>7
    <2>9. EdgeInv' BY <2>6, <2>8 DEF EdgeInv, AtEdge, Whole
    <2> QED BY <1>5, <2>9
  <1>6. CASE /\ Len(b) = Length[announced] /\ frames' = Append(frames, b)
             /\ line' = <<>> /\ announced' = 0 /\ part' = "headers" /\ body' = <<>>
    <2>1. announced \in DOMAIN Length /\ b = Bodies[announced] BY <1>6, BodyIsWhole
    <2>2. announced \in Nat BY <1>1, <1>4, TokenType
    <2> HIDE DEF b
    <2>3. taken + 1 \in FrameEnds BY <1>1, <1>4, <1>6
    <2>4. Whole(taken) = announced - 1 /\ Whole(taken + 1) = announced
      BY <1>3, <1>4, <2>3, WholeAtEnd
    <2>5. Len(frames) + 1 = announced BY <1>2, <1>3, <2>2, <2>4
    <2>6. Whole(taken + 1) <= Whole(arrived)
      <3>1. taken + 1 \in 0 .. Len(Input) /\ taken + 1 <= arrived BY <1>1, <1>3
      <3> QED BY <1>3, <3>1, WholeGrows
    <2>7. Whole(taken) < Whole(arrived)
      <3>1. Whole(arrived) \in Nat BY <1>3, WholeType
      <3> QED BY <2>2, <2>4, <2>6, <3>1
    <2>8. Len(frames') = Whole(taken')
      <3>1. frames \in Seq(Seq({Input[n] : n \in DOMAIN Input})) BY DEF TypeOK
      <3>2. Len(frames') = Len(frames) + 1 BY <1>1, <1>6, <3>1
      <3> QED BY <1>1, <2>4, <2>5, <3>2
    <2>9. AtEdge(arrived') /\ AtEdge(taken') BY <1>1, <1>2, <2>3 DEF AtEdge
    <2>10. \A h \in 1 .. taken' : EndsHeaders(h) => h + Length[Input[h][2]] <= taken'
      BY <1>1, <1>4, <1>6
    <2>11. EdgeInv' BY <1>6, <2>8, <2>9, <2>10 DEF EdgeInv, AtEdge, Whole, EndsHeaders
    <2> QED BY <1>2, <1>6, <2>1, <2>5, <2>7, <2>11
  <1> QED BY <1>1, <1>5, <1>6

LEMMA EdgeOther ==
    ASSUME TypeOK, EdgeInv, Arrive \/ Close \/ HandlerEnds \/ Reap \/ Join \/ UNCHANGED vars
    PROVE  EdgeInv'
  <1>1. /\ taken' = taken /\ loop' = loop /\ frames' = frames /\ cuts' = cuts
        /\ polling' = polling
    BY OtherKinds
  <1> SUFFICES ASSUME FramesWhole, loop = "reading" PROVE EdgeInv'
    BY <1>1 DEF EdgeInv, FramesWhole
  <1>2. /\ AtEdge(arrived)
        /\ AtEdge(taken) => line = <<>> /\ announced = 0 /\ part = "headers" /\ body = <<>>
        /\ ~AtEdge(taken) => polling
        /\ part = "headers" => \A h \in 1 .. taken :
              EndsHeaders(h) => h + Length[Input[h][2]] <= taken
        /\ Len(frames) = Whole(taken)
    BY DEF EdgeInv
  <1>3. AtEdge(arrived')
    <2>1. CASE Arrive BY <2>1 DEF Arrive, FramesWhole, AtEdge
    <2>2. CASE ~Arrive
      <3>1. arrived' = arrived BY <2>2 DEF Close, HandlerEnds, Reap, Join, vars
      <3> QED BY <1>2, <3>1
    <2> QED BY <2>1, <2>2
  <1>4. UNCHANGED <<line, announced, part, body>>
    <2>1. CASE Reap
      <3>1. AtEdge(taken) BY <1>2, <2>1 DEF Reap
      <3> QED BY <1>2, <2>1, <3>1 DEF Reap, Fresh
    <2>2. CASE ~Reap BY <2>2 DEF Arrive, Close, HandlerEnds, Join, vars, read
    <2> QED BY <2>1, <2>2
  <1>5. /\ AtEdge(taken') = AtEdge(taken) /\ Whole(taken') = Whole(taken) BY <1>1
  <1> QED BY <1>1, <1>2, <1>3, <1>4, <1>5 DEF EdgeInv, EndsHeaders

LEMMA EdgeStep ==
    ASSUME TypeOK, ReadInv, EdgeInv, [Next]_vars
    PROVE  EdgeInv'
  <1>1. CASE ReadHeader BY <1>1, EdgeHeader DEF ReadInv
  <1>2. CASE ReadBody
    <2>1. CASE FramesWhole BY <1>2, <2>1, EdgeBody
    <2>2. CASE ~FramesWhole
      <3>1. cuts' = cuts BY <1>2 DEF ReadBody
      <3> QED BY <2>2, <3>1 DEF EdgeInv, FramesWhole
    <2> QED BY <2>1, <2>2
  <1>3. CASE ReadEnd
    <2>1. /\ taken = arrived /\ cuts' = cuts /\ loop = "reading" BY <1>3, ReadEndKinds DEF ReadInv
    <2>2. SUFFICES ASSUME FramesWhole PROVE loop' # "reading"
      BY <2>1 DEF EdgeInv, FramesWhole
    <2>3. line = <<>> /\ part = "headers" BY <2>1, <2>2 DEF EdgeInv
    <2> QED BY <1>3, <2>3 DEF ReadEnd
  <1>4. CASE Arrive \/ Close \/ HandlerEnds \/ Reap \/ Join \/ UNCHANGED vars
    BY <1>4, EdgeOther
  <1> QED BY <1>1, <1>2, <1>3, <1>4 DEF Next, Stopped

-----------------------------------------------------------------------------
(* FrameReader keeps to FrameChannel.                                       *)

LEMMA BodiesType ==
    /\ Len(Bodies) = Len(Length) /\ DOMAIN Bodies = 1 .. Len(Length)
    /\ Bodies \in Seq(Seq({"body"} \X Nat))
  <1>1. DOMAIN Length = 1 .. Len(Length) /\ Len(Length) \in Nat
    BY LengthAssumption, ConstantTypes
  <1>2. ASSUME NEW k \in 1 .. Len(Length)
        PROVE  [i \in 1 .. Length[k] |-> <<"body", k>>] \in Seq({"body"} \X Nat)
    <2>1. Length[k] \in Nat /\ k \in Nat BY ConstantTypes
    <2> QED BY <2>1
  <1>3. Bodies = [k \in 1 .. Len(Length) |-> [i \in 1 .. Length[k] |-> <<"body", k>>]]
    BY <1>1 DEF Bodies
  <1>4. \A k \in 1 .. Len(Length) : Bodies[k] \in Seq({"body"} \X Nat)
    BY <1>2, <1>3
  <1> QED BY <1>1, <1>3, <1>4

\* The frames that have arrived.
LEMMA WrittenType ==
    ASSUME NEW n \in 0 .. Len(Input)
    PROVE  /\ Len(Written(n)) = Whole(n)
           /\ \A i \in 1 .. Whole(n) : Written(n)[i] = Bodies[i]
  <1>1. Whole(n) \in 0 .. Len(Length) BY WholeType
  <1>2. Written(n) = SubSeq(Bodies, 1, Whole(n)) BY DEF Written
  <1> QED BY <1>1, <1>2, BodiesType, ConstantTypes, SubSeqProperties

LEMMA ChannelInit == Init => Channel!Init
  <1> SUFFICES ASSUME Init PROVE Channel!Init OBVIOUS
  <1>1. arrived = 0 /\ frames = <<>> BY DEF Init
  <1>2. Whole(0) = 0
    <2>1. CASE Len(Input) = 0 BY <2>1, StreamOrder DEF Whole
    <2>2. CASE Len(Input) # 0 BY <2>2, StreamOrder, ConstantTypes DEF Whole
    <2> QED BY <2>1, <2>2
  <1>3. Written(0) = <<>>
    <2>1. Written(0) = SubSeq(Bodies, 1, 0) BY <1>2 DEF Written
    <2> QED BY <2>1
  <1> QED BY <1>1, <1>3 DEF Channel!Init

\* Channel!Send is the arrival of the end of a frame, Channel!Receive the last
\* token of its body; every other step leaves both sequences alone.
LEMMA ChannelStep ==
    ASSUME TypeOK, ReadInv, EdgeInv, [Next]_vars
    PROVE  [Channel!Send \/ Channel!Receive]_(Channel!vars)
  <1>1. CASE UNCHANGED <<cuts, arrived, frames>>
    BY <1>1 DEF FramesWhole, Written, Whole, Channel!vars
  <1>2. CASE ~FramesWhole /\ cuts' = cuts
    BY <1>2 DEF FramesWhole, Channel!vars
  <1>3. CASE Arrive /\ FramesWhole
    <2>1. /\ FramesWhole' /\ frames' = frames
          /\ arrived' > arrived /\ arrived' \in cuts
      BY <1>3 DEF Arrive, FramesWhole
    <2>2. arrived \in 0 .. Len(Input) /\ arrived' \in 0 .. Len(Input) /\ arrived <= arrived'
      <3>1. arrived' \in 1 .. Len(Input) BY <2>1, CuttingsAssumption DEF TypeOK
      <3> QED BY <2>1, <3>1, ConstantTypes DEF TypeOK
    <2>3. /\ Whole(arrived) <= Whole(arrived')
          /\ Whole(arrived) \in 0 .. Len(Length) /\ Whole(arrived') \in 0 .. Len(Length)
      BY <2>2, WholeGrows, WholeType
    <2>4. Len(Written(arrived)) = Whole(arrived) BY <2>2, WrittenType
    <2>5. Written(arrived)' = SubSeq(Bodies, 1, Whole(arrived')) BY DEF Written, Whole
    <2>6. CASE Whole(arrived) = Whole(arrived')
      <3>1. Written(arrived)' = Written(arrived) BY <2>5, <2>6 DEF Written
      <3> QED BY <1>3, <2>1, <3>1 DEF Channel!vars
    <2>7. CASE Whole(arrived) # Whole(arrived')
      <3>1. Whole(arrived') \in Len(Written(arrived)) + 1 .. Len(Bodies)
        BY <2>3, <2>4, <2>7, BodiesType, ConstantTypes
      <3> QED BY <1>3, <2>1, <2>5, <3>1 DEF Channel!Send
    <2> QED BY <2>6, <2>7
  <1>4. CASE ReadBody /\ FramesWhole
    <2>1. cuts' = cuts /\ arrived' = arrived BY <1>4 DEF ReadBody
    <2>2. CASE frames' = frames BY <1>1, <2>1, <2>2
    <2>3. CASE /\ Whole(taken) < Whole(arrived) /\ Len(frames) = Whole(taken)
               /\ Len(frames) + 1 \in DOMAIN Length
               /\ frames' = Append(frames, Bodies[Len(frames) + 1])
      <3>1. arrived \in 0 .. Len(Input) /\ taken \in 0 .. Len(Input)
        BY ConstantTypes DEF TypeOK
      <3>2. /\ Len(Written(arrived)) = Whole(arrived)
            /\ \A i \in 1 .. Whole(arrived) : Written(arrived)[i] = Bodies[i]
        BY <3>1, WrittenType
      <3>3. Whole(taken) \in 0 .. Len(Length) /\ Whole(arrived) \in 0 .. Len(Length)
        BY <3>1, WholeType
      <3>4. Len(frames) < Len(Written(arrived)) BY <2>3, <3>2
      <3>5. Len(frames) + 1 \in 1 .. Whole(arrived) BY <2>3, <3>3, ConstantTypes
      <3>6. frames' = Append(frames, Written(arrived)[Len(frames) + 1])
        BY <2>3, <3>2, <3>5
      <3>7. FramesWhole' /\ Written(arrived)' = Written(arrived)
        BY <1>4, <2>1 DEF FramesWhole, Written, Whole
      <3> QED BY <1>4, <3>4, <3>6, <3>7 DEF Channel!Receive
    <2> QED BY <1>4, <2>2, <2>3, EdgeBody
  <1>5. CASE ~(Arrive \/ ReadBody)
    <2>1. UNCHANGED <<cuts, arrived, frames>>
      BY <1>5 DEF Next, Close, HandlerEnds, Reap, ReadHeader, ReadEnd, Join, Stopped, vars
    <2> QED BY <1>1, <2>1
  <1>6. (Arrive \/ ReadBody) => cuts' = cuts BY DEF Arrive, ReadBody
  <1> QED BY <1>2, <1>3, <1>4, <1>5, <1>6

\* While the chunks of a host hold whole frames (one write per frame, as Framing.kt
\* does), a read that the select! cancels has nothing to lose: no frame is handed
\* over before it has arrived, out of order, twice, or after one that was left out.
THEOREM KeepsToChannelHolds == Spec => KeepsToChannel
  <1>1. Inv => TypeOK /\ ReadInv BY DEF Inv
  <1>2. Inv /\ EdgeInv /\ [Next]_vars => EdgeInv' BY <1>1, EdgeStep
  <1>3. Inv /\ EdgeInv /\ [Next]_vars => [Channel!Send \/ Channel!Receive]_(Channel!vars)
    BY <1>1, ChannelStep
  <1> QED BY InvInit, InvNext, EdgeInit, ChannelInit, <1>2, <1>3, PTL
          DEF Spec, KeepsToChannel
=============================================================================
