--------------------------- MODULE MCEdiRoundTrip ---------------------------
(***************************************************************************)
(* Instances of EdiRoundTrip: every short message in each of the three     *)
(* dialects, written in each of them, with the headers of the presets cut  *)
(* down to one character.                                                  *)
(***************************************************************************)
EXTENDS EdiRoundTrip

CONSTANTS MaxLen, MaxBuf   \* bounds: characters read, size of the buffer

Dialect(seg_, data_, sub_, tag_, escape_, skip_) ==
  [seg |-> seg_, data |-> data_, sub |-> sub_, tag |-> tag_, escape |-> escape_,
   skip |-> skip_]

EDIFACT   == Dialect("'", "+", ":", "+", "?", 9)   \* behind a UNA segment
TRADACOMS == Dialect("'", "+", ":", "=", "?", 0)
X12       == Dialect("'", ":", "+", ":", NUL, 0)

\* The dialect as parameters for the writer.
Writes(d, name_, trailer_) ==
  [seg |-> d.seg, data |-> d.data, sub |-> d.sub, tag |-> d.tag, escape |-> d.escape,
   name |-> name_, trailer |-> trailer_]

MCDialects  == {EDIFACT, TRADACOMS, X12}
MCOutParams ==
  {Writes(EDIFACT, <<"U">>, <<"%s", "%E", ".", "%R", "%S">>), Writes(EDIFACT, NoName, <<>>),
   Writes(TRADACOMS, NoName, <<>>), Writes(X12, <<"a">>, <<"%_", "%E", "%s", "%S">>)}

MCOutChars == {"U", "a", "'", "+", ":", "=", "?", "."}

MCNewlines == {"lf"}
MCTagChars == {"a"}
Alphabet   == {"a", "lf", "'", "+", ":", "=", "?"}
MCMessages == UNION {[1..n -> Alphabet] : n \in 0..MaxLen}
MCRequests == 1..MaxLen + 1
MCBufLens  == {MaxBuf}

=============================================================================
