--------------------------- MODULE EdiParseFields ---------------------------
(***************************************************************************)
(* What a message means, said without a parser: which characters are       *)
(* escaped, where segments and fields start and stop, and which of them    *)
(* belong together; and that edi_parser_parse builds that tree.            *)
(***************************************************************************)
EXTENDS EdiParse, FiniteSetsExt

Positions == 1..Len(message)

\* A character is escaped by an escape character that is not itself escaped.
\* What may be escaped includes the NUL behind the message.
Escaped ==
  LET f[i \in 1..(Len(message) + 1)] == i > 1 /\ Escapes(i - 1) /\ ~f[i - 1]
  IN  f

Is(i, chars) == Char(i) \in chars /\ ~Escaped[i]

\* A segment starts behind the terminator of another, or at the front, once
\* newlines are passed over.
AtFront(a) ==
  \E j \in 1..a : /\ j = 1 \/ Is(j - 1, {dialect.seg})
                 /\ \A k \in j..(a - 1) : Char(k) \in Newlines

SegmentStarts == {a \in Positions : Char(a) \notin Newlines /\ AtFront(a)}

\* The segment that starts at a has not ended before i.
Reaches(a, i) == a <= i /\ \A k \in a..(i - 1) : ~Is(k, {dialect.seg})

\* The first element of a segment ends at the tag separator, the others at
\* the data separator.
SeparatorAt(a, i) ==
  IF \E k \in a..(i - 1) : Is(k, {dialect.tag}) THEN dialect.data ELSE dialect.tag

\* The characters of a segment at which a field stops.
Boundaries ==
  {i \in Positions : \E a \in SegmentStarts :
     Reaches(a, i) /\ Is(i, {dialect.sub, dialect.seg, SeparatorAt(a, i)})}

\* A separator that is the last character of a segment starts no field.
FieldStarts ==
  {a \in Positions :
     /\ Char(a) # dialect.seg
     /\ \/ a \in SegmentStarts
        \/ a - 1 \in Boundaries /\ Char(a - 1) # dialect.seg}

FieldEnd(a) == Min({i \in Boundaries : i >= a} \union {Len(message) + 1})

\* The text from a to before b, without the characters that escape.
Unescaped(a, b) ==
  LET t[i \in 0..Len(message)] ==
        IF i < a THEN <<>>
        ELSE IF Escaped[i] \/ ~Escapes(i) THEN Append(t[i - 1], message[i])
        ELSE t[i - 1]
  IN  t[b - 1]

-----------------------------------------------------------------------------
(* Properties *)

Parsed ==
  /\ pc = "returned" /\ result = "interchange"
  /\ error.temporary \in {"NONE", "UNTERMINATED"}

AllElements == UNION {Range(segments[i].elements) : i \in DOMAIN segments}
AllValues   == UNION {Range(x.values) : x \in AllElements}
EndOf(v)    == v.from + v.loc.len - 1

\* Every value in the tree, at every moment, is one field of the message from
\* end to end with its escape characters taken out: an escaped separator does
\* not split it, and a terminating NUL fits the bytes that were allocated.
ValuesAreFields ==
  \A v \in AllValues : /\ v.from \in FieldStarts
                       /\ EndOf(v) = FieldEnd(v.from)
                       /\ v.text = Unescaped(v.from, EndOf(v))
                       /\ Len(v.text) < v.loc.len

\* A parse that is not cut short by an allocation finds every field once, and
\* every segment at its offset, the ones with no field included.
NothingIsLost ==
  Parsed =>
    /\ {v.from : v \in AllValues} = FieldStarts
    /\ {s.offset : s \in Range(segments)}
         = {dialect.skip + a - 1 : a \in SegmentStarts}
    /\ \A i \in 2..Len(segments) : segments[i - 1].offset < segments[i].offset

\* Fields are grouped as the separators between them say: those of one element
\* are the ones with nothing but sub-element separators between them.
GroupedBySeparators ==
  \A s \in Range(segments) : \A j \in DOMAIN s.elements :
    LET vs == s.elements[j].values
        first == IF j = 1 THEN s.offset - dialect.skip + 1 ELSE 0
    IN  /\ \A k \in 1..Len(vs) - 1 :
             /\ Char(EndOf(vs[k])) = dialect.sub
             /\ vs[k + 1].from = EndOf(vs[k]) + 1
        /\ j = 1 /\ vs # <<>> => vs[1].from = first
        /\ j > 1 /\ vs # <<>> =>
             LET us == s.elements[j - 1].values
             IN  /\ vs[1].from = EndOf(us[Len(us)]) + 1
                 /\ Char(vs[1].from - 1) \in {dialect.data, dialect.tag}

\* The temporary parser's error is UNTERMINATED exactly when the last segment
\* that starts has no terminator of its own.
UnterminatedExactly ==
  Parsed => (error.temporary = "UNTERMINATED"
               <=> \E a \in SegmentStarts :
                     \A i \in a..Len(message) : ~Is(i, {dialect.seg}))

\* A segment's tag is the first value of its first element.  A segment that
\* has no value (two terminators in a row) has no tag: it is a NULL pointer.
TagIsFirstValue ==
  \A s \in Range(segments) :
    s.tag = IF s.elements = <<>> \/ s.elements[1].values = <<>>
            THEN NoValue ELSE s.elements[1].values[1].loc

\* The tree is the message's: its values are whole fields, none is lost or told
\* twice, they hang in the elements and segments that the separators between
\* them make, and a segment's tag is where the segment has its own.
TreeIsMessage ==
  ValuesAreFields /\ NothingIsLost /\ GroupedBySeparators /\ TagIsFirstValue

=============================================================================
