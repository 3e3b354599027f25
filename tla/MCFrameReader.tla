--------------------------- MODULE MCFrameReader ---------------------------
(* Instances of FrameReader for TLC. *)
EXTENDS FrameReader, SequencesExt

\* Frame k as a host writes it, with header lines in any order and either end
\* of line.
Texts ==
    << <<"name", "length", "cr", "lf", "cr", "lf", "body", "body">>,
       <<"name", "length", "lf", "name", "type", "lf", "lf", "body", "body">>,
       <<"name", "type", "cr", "lf", "name", "length", "cr", "lf", "cr", "lf", "body">>,
       <<"name", "length", "cr", "lf", "cr", "lf", "body">> >>
MCLength == <<2, 2, 1, 1>>
MCInput  == FlattenSeq([k \in DOMAIN Texts |-> [n \in 1 .. Len(Texts[k]) |-> <<Texts[k][n], k>>]])

\* A chunk holds whole frames: one write per frame, as in JetBrains' Framing.
WholeFrames == FrameEnds

\* A chunk may also end before a body: two writes per frame, as in the VS Code
\* RpcClient.
HeadersApart == WholeFrames \cup
    {n \in 1 .. Len(MCInput) - 1 : MCInput[n][1] # "body" /\ MCInput[n + 1][1] = "body"}

\* A chunk may end anywhere: a pipe that fills up, or a frame larger than it.
Anywhere == 1 .. Len(MCInput)

WholeOrAnywhere == {WholeFrames, Anywhere}
OnlyApart       == {HeadersApart}
=============================================================================
