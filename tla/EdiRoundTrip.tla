---------------------------- MODULE EdiRoundTrip ----------------------------
(***************************************************************************)
(* The parser and the writer together, as the programs under tests/ use    *)
(* them: what edi_parser_parse returns is given to edi_interchange_build,  *)
(* with separators of the same dialect or of another one.                  *)
(***************************************************************************)
EXTENDS EdiParseFields

CONSTANTS
  NoName, OutParams, BufLens,   \* as in EdiBuild
  OutChars                      \* characters of separators, names and trailers

\* What the writer is given is as EdiBuild assumes it.
ASSUME EdiRoundTripAssumption ==
  /\ BufLens \subseteq Nat
  /\ OutParams \subseteq
       [seg : OutChars, data : OutChars, sub : OutChars, tag : OutChars,
        escape : {NUL} \union OutChars, name : {NoName} \union Seq(OutChars),
        trailer : Seq(OutChars \union {"%S", "%E", "%s", "%T", "%R", "%_", "%x"})]

VARIABLES params, buflen, bpc, bc, bd, bi, rest, header, out, touched

\* What Trees and Chars say of the writer's input comes from the parser here.
Build == INSTANCE EdiBuildText
           WITH Trees <- {}, Chars <- {}, pc <- bpc, c <- bc, d <- bd, i <- bi

buffer == <<params, buflen, bpc, bc, bd, bi, rest, header, out, touched>>

InitBoth == Init /\ Build!InitBuild

ParseStep == Next /\ UNCHANGED buffer

BuildStep ==
  /\ pc = "returned" /\ result = "interchange"
  /\ Build!Next
  /\ UNCHANGED <<input, pc, outcome, cursor, copying, segalloc, elalloc, memory>>

NextOfEither == ParseStep \/ BuildStep

SpecBoth == InitBoth /\ [][NextOfEither]_<<vars, buffer>>

-----------------------------------------------------------------------------
(* What the text must be, from the characters of the message alone. *)

InSegment(p) == \E a \in SegmentStarts : Reaches(a, p)

InFirstElement(p) ==
  \E a \in SegmentStarts :
    Reaches(a, p) /\ \A k \in a..(p - 1) : ~Is(k, {dialect.tag})

\* Nothing but the end of the segment follows.
Trailing(p) == Char(p + 1) \in {NUL, dialect.seg}

NewSeparator(p) ==
  IF Char(p) = dialect.sub THEN params.sub
  ELSE IF InFirstElement(p) THEN params.tag ELSE params.data

Piece(p) ==
  IF ~InSegment(p) THEN <<>>
  ELSE IF Is(p, {dialect.seg}) THEN <<params.seg>>
  ELSE IF p \in Boundaries THEN IF Trailing(p) THEN <<>> ELSE <<NewSeparator(p)>>
  ELSE IF Escapes(p) /\ ~Escaped[p] THEN <<>>
  ELSE Build!Escaped(<<Char(p)>>)

Pieces(a, b) == Build!FlattenSeq([k \in 1..(b - a + 1) |-> Piece(a + k - 1)])

FirstStart == Min(SegmentStarts)
FirstEnd ==
  Min({p \in Positions : p >= FirstStart /\ Is(p, {dialect.seg})} \union {Len(message) + 1})
FirstText == Unescaped(FirstStart, FieldEnd(FirstStart))
FirstIsEmpty == FirstEnd = FirstStart

MessageHasHeader ==
  /\ params.name # NoName /\ ~FirstIsEmpty
  /\ FirstText = params.name /\ Char(FieldEnd(FirstStart)) # dialect.sub

HeaderToAdd ==
  IF params.name # NoName /\ ~FirstIsEmpty /\ ~MessageHasHeader
  THEN Build!WithTrailer(Build!Escaped(params.name)) ELSE <<>>

StopsInside == InSegment(Len(message)) /\ ~Is(Len(message), {dialect.seg})

Transcription ==
  IF SegmentStarts = {} THEN <<>>
  ELSE LET first == HeaderToAdd \o Pieces(1, FirstEnd - 1)
       IN  (IF MessageHasHeader THEN Build!WithTrailer(first) ELSE Append(first, params.seg))
             \o Pieces(FirstEnd + 1, Len(message))
             \o (IF StopsInside /\ FirstEnd <= Len(message) THEN <<params.seg>> ELSE <<>>)

-----------------------------------------------------------------------------
(* Properties *)

Built == Parsed /\ bpc = "returned" /\ Len(out) < buflen

\* Parsing and building a message changes its separators to the new ones, at
\* the places where they were; drops newlines between segments, separators at
\* the end of a segment and escape characters that are not needed; adds the
\* header the new dialect asks for, or ends it as the dialect says.
Transcribes == Built => out = Transcription

=============================================================================
