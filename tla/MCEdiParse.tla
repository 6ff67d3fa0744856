----------------------------- MODULE MCEdiParse -----------------------------
(***************************************************************************)
(* Instances of EdiParse: every message of up to MaxLen characters of a    *)
(* small alphabet, in dialects of the three families detect.c knows.       *)
(***************************************************************************)
EXTENDS EdiParseFields

CONSTANT MaxLen   \* bound: characters behind the skipped bytes

Dialect(seg_, data_, sub_, tag_, escape_, skip_) ==
  [seg |-> seg_, data |-> data_, sub |-> sub_, tag |-> tag_,
   escape |-> escape_, skip |-> skip_]

EDIFACT   == Dialect("'", "+", ":", "+", "?", 9)    \* behind a UNA segment
TRADACOMS == Dialect("'", "+", ":", "=", "?", 0)
X12       == Dialect("'", "+", ":", "+", NUL, 0)
X12Lines  == Dialect("lf", "+", ":", "+", NUL, 0)   \* one segment to a line

MCNewlines == {"lf"}
MCTagChars == {"a"}
Alphabet   == {"a", "lf", "'", "+", ":", "=", "?"}

MCMessages == UNION {[1..n -> Alphabet] : n \in 0..MaxLen}
MCRequests == 1..MaxLen + 1
AllDialects == {EDIFACT, TRADACOMS, X12, X12Lines}

=============================================================================
