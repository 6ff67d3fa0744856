------------------------------ MODULE EdiBuild ------------------------------
(***************************************************************************)
(* libedi/build.c: edi_interchange_build, which writes an interchange as   *)
(* text into a buffer of the caller, with addescaped and addhdrtrailer.  A *)
(* step writes one character, or decides what to write next.  All breaks   *)
(* on a full buffer lead to the same last lines, here label "end".         *)
(***************************************************************************)
EXTENDS Integers, Sequences

CONSTANTS
  Chars,     \* characters of texts and of formats
  NUL,       \* the character that ends a C string; no escape character
  NoName,    \* parameters without ss_name or without ss_trailer
  Trees,     \* interchanges: sequences of segments
  OutParams, \* separators and escape, and name and trailer of the header
  BufLens    \* sizes of the caller's buffer

Directives == {"%S", "%E", "%s", "%T", "%R", "%_", "%x"}

IsSeq(s) == s \in Seq({s[k] : k \in DOMAIN s})

\* What the writer reads of an element and of a segment.
IsElement(x) ==
  IsSeq(x.values) /\ \A k \in DOMAIN x.values : x.values[k].text \in Seq(Chars)

IsSegment(s) ==
  IsSeq(s.elements) /\ \A k \in DOMAIN s.elements : IsElement(s.elements[k])

ASSUME EdiBuildAssumption ==
  /\ BufLens \subseteq Nat
  /\ \A t \in Trees : IsSeq(t) /\ \A k \in DOMAIN t : IsSegment(t[k])
  /\ OutParams \subseteq
       [seg : Chars, data : Chars, sub : Chars, tag : Chars, escape : {NUL} \union Chars,
        name : {NoName} \union Seq(Chars), trailer : Seq(Chars \union Directives)]

VARIABLES
  segments,          \* msg: segments of elements of values
  params, buflen,
  pc,
  c, d, i,           \* the loops, from 1
  rest,              \* what addescaped or addhdrtrailer has still to write
  header,            \* dohdrtrailer
  out,               \* the characters in the buffer; bufpos is their number
  touched            \* history: how much of the buffer was ever written to

input == <<segments, params, buflen>>
where == <<c, d, i>>
vars  == <<input, pc, where, rest, header, out, touched>>

elements == segments[c].elements
values   == elements[d].values
Full     == Len(out) >= buflen
Fits(n)  == Len(out) + n <= buflen

Touch(n) == touched' = IF n > touched THEN n ELSE touched

Write(s) == out' = out \o s /\ Touch(Len(out) + Len(s))

\* A NUL goes where the next character will.
WriteNUL == UNCHANGED out /\ Touch(Len(out) + 1)

Leave == UNCHANGED <<out, touched>>

Goto(l) == pc' = IF Len(out') >= buflen THEN "end" ELSE l

-----------------------------------------------------------------------------
InitBuild ==
  /\ params \in OutParams /\ buflen \in BufLens
  /\ pc = "segment"
  /\ c = 1 /\ d = 1 /\ i = 1
  /\ rest = <<>> /\ header = FALSE
  /\ out = <<>> /\ touched = 0

Init == segments \in Trees /\ InitBuild

(* The loops over segments, elements and the values of a composite. *)

BeginSegment ==
  /\ pc = "segment" /\ c <= Len(segments)
  /\ pc' = "element" /\ d' = 1
  /\ Leave /\ UNCHANGED <<input, c, i, rest, header>>

BeginElement ==
  /\ pc = "element" /\ d <= Len(elements)
  /\ Leave
  /\ IF values = <<>> THEN Goto("separator") ELSE pc' = "value"
  /\ i' = 1
  /\ UNCHANGED <<input, c, d, rest, header>>

\* Mutant of First: the header is looked for in every segment.
FirstOfSegment == d = 1 /\ i = 1

First == c = 1 /\ d = 1 /\ i = 1

\* A composite is compared as if it were simple, pointers taken for text, and
\* does not match.
IsHeader == elements[d].type = "simple" /\ values[i].text = params.name

LooksForHeader == params.name # NoName /\ First

BeginValue ==
  /\ pc = "value"
  /\ LooksForHeader => IsHeader
  /\ header' = (header \/ LooksForHeader)
  /\ pc' = "text" /\ rest' = values[i].text
  /\ Leave /\ UNCHANGED <<input, where>>

\* An interchange with no header gets one, in front of its first value.
BeginHeader ==
  /\ pc = "value"
  /\ LooksForHeader /\ ~IsHeader
  /\ pc' = "name" /\ rest' = params.name
  /\ Leave /\ UNCHANGED <<input, where, header>>

(* addescaped *)

Special == {params.seg, params.data, params.sub, params.tag, params.escape}

MustEscape(x) == params.escape # NUL /\ x \in Special

\* Mutant of Pair: room for the escape character is taken for room for both.
PairUnchecked(x) == <<params.escape, x>>

\* The escape character is written even if nothing fits behind it.
Pair(x) == IF Fits(2) THEN <<params.escape, x>> ELSE <<params.escape>>

WriteCharacter ==
  /\ pc \in {"name", "text"} /\ rest # <<>> /\ ~Full
  /\ Write(IF MustEscape(Head(rest)) THEN Pair(Head(rest)) ELSE <<Head(rest)>>)
  /\ rest' = Tail(rest)
  /\ UNCHANGED <<input, pc, where, header>>

EndOfText(l) == pc = l /\ (rest = <<>> \/ Full) /\ WriteNUL

EndOfName ==
  /\ EndOfText("name")
  /\ Goto("nameTrailer") /\ rest' = params.trailer
  /\ UNCHANGED <<input, where, header>>

MoreValues == i < Len(values)

\* The value of a simple element, or one of a composite.
EndOfValue ==
  /\ EndOfText("text")
  /\ Goto(IF MoreValues THEN "sub" ELSE "separator")
  /\ UNCHANGED <<input, where, rest, header>>

(* addhdrtrailer, on a format in pieces: directives and plain characters. *)

InTrailer == pc \in {"nameTrailer", "trailer"}

Expansion(x) ==
  CASE x = "%S" -> <<params.seg>>
    [] x = "%E" -> <<params.data>>
    [] x = "%s" -> <<params.sub>>
    [] x = "%T" -> <<params.tag>>
    [] x = "%R" -> <<params.escape>>
    [] x = "%x" -> <<"%", "x">>      \* no directive
    [] OTHER    -> <<x>>

TrailerPiece ==
  /\ InTrailer /\ rest # <<>> /\ ~Full
  /\ Head(rest) # "%_" /\ ~(rest = <<"%">> /\ Fits(2))
  /\ Write(IF Fits(2) THEN Expansion(Head(rest)) ELSE <<Expansion(Head(rest))[1]>>)
  /\ rest' = Tail(rest)
  /\ UNCHANGED <<input, pc, where, header>>

Backspace ==
  /\ InTrailer /\ rest # <<>> /\ ~Full /\ Head(rest) = "%_"
  /\ out' = IF out = <<>> THEN out ELSE SubSeq(out, 1, Len(out) - 1)
  /\ rest' = Tail(rest)
  /\ UNCHANGED <<input, pc, where, header, touched>>

\* With a % at its very end the format is read beyond its NUL.
TrailerOverrun ==
  /\ InTrailer /\ rest = <<"%">> /\ Fits(2)
  /\ pc' = "undefined"
  /\ Leave /\ UNCHANGED <<input, where, rest, header>>

\* Behind the name of a new header comes the first value.
EndOfNewHeader ==
  /\ EndOfText("nameTrailer")
  /\ Goto("text") /\ rest' = values[i].text
  /\ UNCHANGED <<input, where, header>>

EndOfHeader ==
  /\ EndOfText("trailer")
  /\ Goto("segment") /\ c' = c + 1 /\ header' = FALSE
  /\ UNCHANGED <<input, d, i, rest>>

(* Separators and terminators. *)

SubSeparator ==
  /\ pc = "sub"
  /\ Write(<<params.sub>>)
  /\ Goto("value") /\ i' = i + 1
  /\ UNCHANGED <<input, c, d, rest, header>>

\* Mutant of Separator: the tag separator is not told from the others.
SeparatorAlwaysData == params.data

Separator == IF d = 1 THEN params.tag ELSE params.data

\* Mutant of NextElement: the loop over elements does not move on.
SameElement == d

NextElement == d + 1

ElementSeparator ==
  /\ pc = "separator"
  /\ IF d < Len(elements) THEN Write(<<Separator>>) ELSE Leave
  /\ Goto("element") /\ d' = NextElement
  /\ UNCHANGED <<input, c, i, rest, header>>

EndElements ==
  /\ pc = "element" /\ d > Len(elements)
  /\ Leave /\ Goto("terminator")
  /\ UNCHANGED <<input, where, rest, header>>

Terminator ==
  /\ pc = "terminator" /\ ~header
  /\ Write(<<params.seg>>)
  /\ Goto("segment") /\ c' = c + 1
  /\ UNCHANGED <<input, d, i, rest, header>>

\* In a header it is ss_trailer that ends the segment.
HeaderTerminator ==
  /\ pc = "terminator" /\ header
  /\ pc' = "trailer" /\ rest' = params.trailer
  /\ Leave /\ UNCHANGED <<input, where, header>>

EndSegments ==
  /\ pc = "segment" /\ c > Len(segments)
  /\ pc' = "end"
  /\ Leave /\ UNCHANGED <<input, where, rest, header>>

\* bufpos, the number of characters, is the result.
Finish ==
  /\ pc = "end"
  /\ WriteNUL
  /\ pc' = "returned"
  /\ UNCHANGED <<input, where, rest, header>>

-----------------------------------------------------------------------------
Next ==
  \/ BeginSegment \/ BeginElement \/ BeginValue \/ BeginHeader
  \/ WriteCharacter \/ EndOfName \/ EndOfValue
  \/ TrailerPiece \/ Backspace \/ TrailerOverrun \/ EndOfNewHeader \/ EndOfHeader
  \/ SubSeparator \/ ElementSeparator \/ EndElements
  \/ Terminator \/ HeaderTerminator \/ EndSegments \/ Finish

Spec == Init /\ [][Next]_vars

\* The function runs to its return: nothing it waits for.
FairSpec == Spec /\ WF_vars(Next)

-----------------------------------------------------------------------------
(* Properties *)

Labels == {"segment", "element", "value", "name", "nameTrailer", "text", "sub",
           "separator", "terminator", "trailer", "end", "returned", "undefined"}

\* The loops stay inside the tree: wherever a value, an element or a segment is
\* looked at there is one.
TypeOK ==
  /\ segments \in Trees /\ params \in OutParams /\ buflen \in BufLens
  /\ pc \in Labels /\ header \in BOOLEAN
  /\ c \in 1..Len(segments) + 1 /\ d \in Nat \ {0} /\ i \in Nat \ {0}
  /\ pc \notin {"segment", "end", "returned", "undefined"} =>
       /\ c <= Len(segments)
       /\ d <= Len(elements) + 1
       /\ pc \notin {"element", "terminator", "trailer"} => d <= Len(elements)
       /\ pc \notin {"element", "terminator", "trailer", "separator"} => i <= Len(values)
  /\ touched \in Nat /\ Len(out) <= touched

\* No character is ever written outside of the buffer, whatever its size: only
\* the NUL behind the text of a full buffer is.
StaysInside == Len(out) <= buflen /\ touched <= buflen + 1

\* The loops end.
Terminates == <>(pc \in {"returned", "undefined"})

=============================================================================
