---------------------------- MODULE EdiBuildText ----------------------------
(***************************************************************************)
(* The text of an interchange, said as one expression over its tree, and   *)
(* that edi_interchange_build writes it.                                   *)
(***************************************************************************)
EXTENDS EdiBuild, SequencesExt

EscapedPieces(s) ==
  [k \in DOMAIN s |-> IF MustEscape(s[k]) THEN <<params.escape, s[k]>> ELSE <<s[k]>>]

Escaped(s) == FlattenSeq(EscapedPieces(s))

\* The k-th of several texts, with a separator in front of all but the first.
Led(k, sep, text) == IF k = 1 THEN text ELSE <<sep>> \o text

ValuePieces(x) ==
  [k \in DOMAIN x.values |-> Led(k, params.sub, Escaped(x.values[k].text))]

ElementText(x) == FlattenSeq(ValuePieces(x))

ElementPieces(s) ==
  [k \in DOMAIN s.elements |->
     Led(k, IF k = 2 THEN params.tag ELSE params.data, ElementText(s.elements[k]))]

ElementsText(s) == FlattenSeq(ElementPieces(s))

\* What the first k pieces of the trailer of a header make of the text in front.
TrailerSteps(s) ==
  LET t[k \in 0..Len(params.trailer)] ==
        IF k = 0 THEN s
        ELSE IF params.trailer[k] # "%_" THEN t[k - 1] \o Expansion(params.trailer[k])
        ELSE IF t[k - 1] = <<>> THEN <<>> ELSE Front(t[k - 1])
  IN  t

WithTrailer(s) == TrailerSteps(s)[Len(params.trailer)]

\* The place in front of which a header goes: there is none if the first
\* segment, or its first element, is empty.
HasFirst ==
  segments # <<>> /\ segments[1].elements # <<>> /\ segments[1].elements[1].values # <<>>

StartsWithHeader ==
  /\ params.name # NoName /\ HasFirst
  /\ segments[1].elements[1].type = "simple"
  /\ segments[1].elements[1].values[1].text = params.name

NewHeader ==
  IF params.name # NoName /\ HasFirst /\ ~StartsWithHeader
  THEN WithTrailer(Escaped(params.name)) ELSE <<>>

\* A segment, with a new header in front of the first.
Line(k) == (IF k = 1 THEN NewHeader ELSE <<>>) \o ElementsText(segments[k])

SegmentText(k) ==
  IF k = 1 /\ StartsWithHeader THEN WithTrailer(Line(k)) ELSE Append(Line(k), params.seg)

SegmentPieces == [k \in DOMAIN segments |-> SegmentText(k)]

Text == FlattenSeq(SegmentPieces)

-----------------------------------------------------------------------------
(* Properties *)

\* A result below buflen is the length of the whole text: nothing is left out
\* unnoticed, and a caller can tell a buffer that was too small.  Whenever it
\* fills up, the buffer holds a beginning of the text; a trailer that takes
\* characters back must have been reached first.
WholeOrBeginning ==
  /\ pc = "returned" /\ Len(out) < buflen => out = Text
  /\ (\A k \in DOMAIN params.trailer : params.trailer[k] # "%_") => IsPrefix(out, Text)

=============================================================================
