------------------------------- MODULE EdiXml -------------------------------
(***************************************************************************)
(* libedixml (conv.c, output.c, excep.c) and its user xml/edi2xml.c, over  *)
(* a session of several calls.  What the parser makes of a message is an   *)
(* input, and the tables are given.  The text written is a sequence of     *)
(* pieces of markup of one unit each; what is written of a value carries   *)
(* the place of the value in the message.                                  *)
(***************************************************************************)
EXTENDS Integers, Sequences, SequencesExt

CONSTANTS
  Messages,     \* interchanges: sequences of [tag, elements]; an element is
                \* [type, values], of type "S" or "C"
  NoTag,        \* the NULL tag of a segment without elements
  Segments,     \* tag -> sequence of [optional, composite, name]
  Composites,   \* name -> sequence of [optional, name]
  Elements,     \* name -> [coded, title]
  Codes,        \* <<name, value>> -> title
  Empty,        \* the text without characters
  Undecodable,  \* the texts iconv rejects
  Wide,         \* the texts that take more than twice their room in UTF-8
  Options,      \* settings of edi2xml_opts
  Unit,         \* by how much the buffer grows, 1024 in output.c
  MaxCalls      \* bound on the calls of a session

\* s is a sequence, of whatever it holds.
IsSeq(s) == s \in Seq({s[n] : n \in DOMAIN s})

\* A segment of a message: it has a tag if it has elements.
IsSegment(sg) ==
  /\ IsSeq(sg.elements)
  /\ sg.tag # NoTag => sg.elements # <<>>
  /\ \A n \in DOMAIN sg.elements : IsSeq(sg.elements[n].values)

ASSUME EdiXmlAssumption ==
  /\ Unit \in Nat \ {0} /\ MaxCalls \in Nat
  /\ \A t \in DOMAIN Segments : IsSeq(Segments[t])
  /\ \A c \in DOMAIN Composites : IsSeq(Composites[c]) /\ Composites[c] # <<>>
  /\ \A m \in Messages : IsSeq(m) /\ \A n \in DOMAIN m : IsSegment(m[n])

VARIABLES
  pc,           \* "idle" between calls, "stopped" when there is no going on
  mode,         \* "conv2", "main" of edi2xml.c, or "bare": edi2xml_conv itself
  msg, opts,
  i, k, j,      \* segment, child of the segment, child of the composite
  out,          \* the text in *outbufptr, or on stdout
  outbufptr,    \* "null", "live", or "dangling" once conv2 has returned
  outbufsize,
  conv,         \* "zero" before output_init, "none", "open" or "closed"
  excp,         \* edixml_excp_text: where it was thrown, or NoText
  errOffset,    \* <<call, segment>>
  errSegment,   \* likewise, <<>> if empty
  rc,
  result,       \* what the last call returned
  status,       \* "ok", or what went wrong
  calls,        \* number of calls begun
  owed          \* history: the caller has asked for every failure ("no"), has still
                \* to ask ("yes"), or began a call instead ("overdue")

place    == <<i, k, j>>
buffer   == <<out, outbufptr, outbufsize>>
failure  == <<excp, errOffset, errSegment>>
session  == <<mode, msg, opts, calls>>
vars     == <<pc, session, place, buffer, conv, failure, rc, result, status, owed>>

NoText   == <<>>
NoResult == [kind |-> "none", text |-> <<>>]

seg      == msg[i]
elements == seg.elements

\* data_element_index while the child is k: elements and children advance
\* together, behind the tag if the first element is simple.
FirstData == IF elements[1].type = "S" THEN 2 ELSE 1
di        == FirstData + k - 1
child     == Segments[seg.tag][k]

-----------------------------------------------------------------------------
(* Pieces of markup.  One is formatted from arguments, or is plain text.    *)

Piece(kind, name, at, args) == [kind |-> kind, name |-> name, at |-> at, args |-> args]
Open(ns, n)   == Piece("open",  <<ns, n>>, <<>>, ns # "X")
Close(ns, n)  == Piece("close", <<ns, n>>, <<>>, ns # "X")
Comment       == Piece("comment", <<>>, <<>>, TRUE)
Declaration   == Piece("declaration", <<>>, <<>>, FALSE)
Complaint(at) == Piece("error", <<>>, at, TRUE)

\* The text of the value at a place, in the element it is to be the content of.
Text(name, at) == Piece("text", <<"E", name>>, at, TRUE)

When(condition, piece) == IF condition THEN <<piece>> ELSE <<>>

\* error(): to stderr, and as a comment if the option says so.
Error == When(opts.errors, Complaint(<<i>>))

-----------------------------------------------------------------------------
(* escape_xml and do_conv look at a text only if conv is not -1.            *)

Uses(texts)   == conv # "none" /\ texts # {}
Throws(texts) == conv = "open" /\ texts \intersect Undecodable # {}

\* E2BIG: dst is advanced by its old position instead of being set anew.
Overflows(texts) == conv = "open" /\ texts \intersect Wide # {}

\* What one call of element_to_xml and the like writes: the pieces up to the
\* texts it escapes, those texts, and the pieces behind.
Write(before, texts, after) == [before |-> before, texts |-> texts, after |-> after]
Plain(pieces) == Write(pieces, {}, <<>>)

\* coded_to_xml: the title of a code replaces the value.
Known(name, val)      == Elements[name].coded /\ <<name, val>> \in DOMAIN Codes
Translated(name, val) == Known(name, val) /\ opts.translate

ElementToXml(name, val, at) ==
  LET comment == When(opts.names, Comment)
  IN  IF name \notin DOMAIN Elements THEN Plain(comment \o Error)
      ELSE Write(comment \o <<Open("E", name)>>
                   \o When(Known(name, val) /\ opts.codes, Comment),
                 IF ~Translated(name, val) THEN {val}
                 ELSE IF opts.elements THEN {} ELSE {Codes[<<name, val>>]},
                 <<Text(name, at), Close("E", name)>>)

ElementMissing(name) ==
  Write(<<>>,
        IF opts.names /\ name \in DOMAIN Elements THEN {Elements[name].title} ELSE {},
        When(opts.names, Comment))

-----------------------------------------------------------------------------
(* output() *)

\* *outbufptr grows by units until the text and a NUL fit; stdout does not.
Size(text) ==
  IF outbufptr = "null" THEN outbufsize
  ELSE LET needed == CHOOSE n \in 0..(Len(text) + 1) :
             /\ Len(text) < outbufsize + n * Unit
             /\ n > 0 => Len(text) >= outbufsize + (n - 1) * Unit
       IN  outbufsize + needed * Unit

Emit(pieces) ==
  /\ out' = out \o pieces
  /\ outbufsize' = IF pieces = <<>> THEN outbufsize ELSE Size(out \o pieces)
  /\ UNCHANGED outbufptr

\* A piece that does not fit at first is formatted once more from arguments
\* that are used up; error() always does that.
ReusesArguments(pieces) ==
  \/ \E n \in DOMAIN pieces : pieces[n].kind = "error"
  \/ /\ outbufptr = "live"
     /\ \E n \in DOMAIN pieces :
          /\ pieces[n].args
          /\ LET room == out \o SubSeq(pieces, 1, n - 1)
             IN  room # <<>> /\ Len(room) + 1 >= Size(room)

Breaks(how) ==
  /\ status' = how
  /\ pc' = "stopped"
  /\ UNCHANGED <<session, place, buffer, conv, failure, rc, result, owed>>

\* longjmp to the catch block of edi2xml_conv, which complains and gives up.
Catch ==
  /\ excp' = <<calls, i>>
  /\ errSegment' = errOffset
  /\ rc' = -1
  /\ pc' = "return"
  /\ owed' = IF owed = "no" THEN "yes" ELSE owed
  /\ UNCHANGED <<errOffset, place>>

Stand(p) == i' = p[1] /\ k' = p[2] /\ j' = p[3]

\* All the ways w can go; next is where it goes if nothing is thrown.
Written(w, next, nextPlace) ==
  LET thrown == Throws(w.texts)
      pieces == IF thrown THEN w.before \o Error ELSE w.before \o w.after
  IN  \/ outbufptr = "dangling" /\ pieces # <<>> /\ Breaks("dangling")
      \/ Uses(w.texts) /\ conv \in {"zero", "closed"} /\ Breaks("handle")
      \/ Overflows(w.texts) /\ Breaks("overflow")
      \/ ReusesArguments(pieces) /\ Breaks("arguments")
      \/ thrown /\ excp # NoText /\ Breaks("assert")
      \/ /\ ~(outbufptr = "dangling" /\ pieces # <<>>)
         /\ ~(Uses(w.texts) /\ conv \in {"zero", "closed"})
         /\ ~Overflows(w.texts)
         /\ ~(thrown /\ excp # NoText)
         /\ Emit(pieces)
         /\ IF thrown THEN Catch
            ELSE pc' = next /\ Stand(nextPlace) /\ UNCHANGED <<failure, rc, owed>>
         /\ UNCHANGED <<session, conv, result, status>>

-----------------------------------------------------------------------------
(* The calls *)

Init ==
  /\ pc = "idle"
  /\ mode = "none" /\ msg = <<>> /\ calls = 0
  /\ opts \in Options
  /\ i = 0 /\ k = 0 /\ j = 0
  /\ out = <<>> /\ outbufptr = "null" /\ outbufsize = 0
  /\ conv = "zero"
  /\ excp = NoText /\ errOffset = <<>> /\ errSegment = <<>>
  /\ rc = 0 /\ result = NoResult /\ status = "ok" /\ owed = "no"

\* What every call of edi2xml_conv begins with.  Without an interchange it
\* returns -1 at once.
Convert(m, parsed) ==
  /\ pc = "idle"
  /\ calls < MaxCalls
  /\ calls' = calls + 1
  /\ owed' = IF owed = "yes" THEN "overdue" ELSE owed
  /\ msg' = m
  /\ pc' = IF parsed THEN "segment" ELSE "return"
  /\ rc' = IF parsed THEN 0 ELSE -1
  /\ i' = 1 /\ k' = 0 /\ j' = 0
  /\ errOffset' = <<>> /\ errSegment' = <<>>
  /\ result' = NoResult
  /\ UNCHANGED <<opts, excp, status>>

\* Mutant of HandleAfterInit: output_init leaves the handle alone.
HandleAfterInitKept(enc) == IF enc = "known" THEN "open" ELSE conv

\* output_init, and output_set_enc if there is an encoding; iconv_open knows it
\* or returns -1.
HandleAfterInit(enc) == IF enc = "known" THEN "open" ELSE "none"

OutputInit(enc) ==
  /\ conv' = HandleAfterInit(enc)
  /\ outbufptr' = "live"
  /\ out' = When(enc = "known", Declaration)
  /\ outbufsize' = IF enc = "known" THEN Unit * (1 + (1 \div Unit)) ELSE 0

Conv2(m, parsed, enc) ==
  /\ Convert(m, parsed)
  /\ mode' = "conv2"
  /\ OutputInit(enc)

\* The program: one conversion, and it ends.
Main(m, parsed, enc) ==
  /\ calls = 0
  /\ Convert(m, parsed)
  /\ mode' = "main"
  /\ OutputInit(enc)

\* edi2xml_conv writes to wherever output_init pointed the last time.
Bare(m) ==
  /\ Convert(m, TRUE)
  /\ mode' = "bare"
  /\ out' = <<>>
  /\ UNCHANGED <<outbufptr, outbufsize, conv>>

-----------------------------------------------------------------------------
(* The loop over the segments *)

Goto(next, nextPlace) ==
  /\ pc' = next
  /\ Stand(nextPlace)
  /\ UNCHANGED <<session, buffer, conv, failure, rc, result, status, owed>>

EndOfSegments ==
  /\ pc = "segment" /\ i > Len(msg)
  /\ Goto("return", place)

\* strcmp(NULL, "UNB")
TagIsNull ==
  /\ pc = "segment" /\ i <= Len(msg)
  /\ seg.tag = NoTag
  /\ Breaks("null")

\* Mutant of Offset: only the first segment of a message sets it.
OffsetOfFirst == IF errOffset = <<>> THEN <<calls, i>> ELSE errOffset

Offset == <<calls, i>>

BeginSegment ==
  /\ pc = "segment" /\ i <= Len(msg)
  /\ seg.tag # NoTag
  /\ errOffset' = Offset
  /\ pc' = "open"
  /\ UNCHANGED <<session, place, buffer, conv, excp, errSegment, rc, result, status, owed>>

\* parse_message_header
HeaderParses(sg) ==
  /\ Len(sg.elements) = 3
  /\ sg.elements[3].type = "C"
  /\ Len(sg.elements[3].values) >= 4

Opening ==
  CASE seg.tag = "UNB" -> <<Open("X", "interchange")>>
    [] seg.tag = "UNG" -> <<Open("X", "group")>>
    [] seg.tag = "UNH" -> (IF HeaderParses(seg) THEN <<>> ELSE Error) \o <<Open("X", "message")>>
    [] OTHER -> <<>>

Closing ==
  CASE seg.tag = "UNZ" -> <<Close("X", "interchange")>>
    [] seg.tag = "UNE" -> <<Close("X", "group")>>
    [] seg.tag = "UNT" -> <<Close("X", "message")>>
    [] OTHER -> <<>>

OpenSegment ==
  /\ pc = "open"
  /\ IF seg.tag \in DOMAIN Segments
     THEN Written(Plain(Opening \o When(opts.segments, Comment) \o <<Open("S", seg.tag)>>),
                  "child", <<i, 1, 0>>)
     ELSE Written(Plain(Opening \o Error), "end", place)

CloseSegment ==
  /\ pc = "tail"
  /\ Written(Plain((IF di <= Len(elements) THEN Error ELSE <<>>) \o <<Close("S", seg.tag)>>),
             "end", place)

EndSegment ==
  /\ pc = "end"
  /\ Written(Plain(Closing), "segment", <<i + 1, 0, 0>>)

-----------------------------------------------------------------------------
(* segment_to_xml: the loop over the children *)

\* can_be_truncated: all components but the first are optional.
Truncatable(components) == \A c \in 2..Len(components) : components[c].optional

\* The element is of the child's type, or a composite cut down to one value,
\* which the code then converts.
Fits(c, el) ==
  \/ el.type = IF c.composite THEN "C" ELSE "S"
  \/ c.composite /\ Truncatable(Composites[c.name])

\* Mutant of NextChild: the index stays.
SameChild == <<i, k, 0>>

NextChild == <<i, k + 1, 0>>

AtChild == pc = "child" /\ k <= Len(Segments[seg.tag])
HasData == di <= Len(elements)

EndOfChildren ==
  /\ pc = "child" /\ k > Len(Segments[seg.tag])
  /\ Goto("tail", place)

\* find_edistruct_composite returns NULL, which is followed.
UnknownComposite ==
  /\ AtChild /\ HasData
  /\ child.composite /\ child.name \notin DOMAIN Composites
  /\ Breaks("null")

Usable == child.composite => child.name \in DOMAIN Composites

SkipChild ==
  /\ AtChild /\ child.optional
  /\ ~HasData
  /\ Goto("child", NextChild)

PassOver ==
  /\ AtChild /\ child.optional
  /\ HasData /\ Usable /\ ~Fits(child, elements[di])
  /\ Written(ElementMissing(child.name), "child", NextChild)

\* Mutant of AfterMandatory: it returns instead of leaving the loop.
ReturnAtOnce == "end"

AfterMandatory == "tail"

Mandatory ==
  /\ AtChild /\ ~child.optional
  /\ HasData => Usable /\ ~Fits(child, elements[di])
  /\ Written(Plain(Error), AfterMandatory, place)

SimpleElement ==
  /\ AtChild /\ HasData /\ ~child.composite
  /\ Fits(child, elements[di])
  /\ Written(ElementToXml(child.name, elements[di].values[1], <<i, di, 0>>),
             "child", NextChild)

OpenComposite ==
  /\ AtChild /\ HasData /\ child.composite /\ Usable
  /\ Fits(child, elements[di])
  /\ Written(Plain(When(opts.names, Comment) \o <<Open("C", child.name)>>),
             "value", <<i, k, 1>>)

\* Mutant of Present: a value is taken to be there if any are left.
PresentAnyway(values) == j <= Len(values)

Present(values) == j <= Len(values) /\ values[j] # Empty

Component ==
  /\ pc = "value" /\ j <= Len(Composites[child.name])
  /\ LET name   == Composites[child.name][j].name
         values == elements[di].values
     IN  Written(IF Present(values) THEN ElementToXml(name, values[j], <<i, di, j>>)
                 ELSE ElementMissing(name),
                 "value", <<i, k, j + 1>>)

CloseComposite ==
  /\ pc = "value" /\ j > Len(Composites[child.name])
  /\ Written(Plain(<<Close("C", child.name)>>), "child", NextChild)

-----------------------------------------------------------------------------
(* The returns *)

\* output_shutdown
Shutdown == conv' = IF conv = "open" THEN "closed" ELSE conv

\* *outbufptr is a variable of edi2xml_conv2.
ReturnConv2 ==
  /\ pc = "return" /\ mode = "conv2"
  /\ pc' = "idle"
  /\ Shutdown
  /\ outbufptr' = "dangling"
  /\ result' = IF rc = 0 /\ out # <<>> THEN [kind |-> "text", text |-> out]
                                       ELSE [kind |-> "null", text |-> <<>>]
  /\ UNCHANGED <<session, place, out, outbufsize, failure, rc, status, owed>>

\* What there is is printed whatever rc says.
ReturnMain ==
  /\ pc = "return" /\ mode = "main"
  /\ pc' = "stopped"
  /\ Shutdown
  /\ result' = [kind |-> "text", text |-> out]
  /\ UNCHANGED <<session, place, buffer, failure, rc, status, owed>>

ReturnBare ==
  /\ pc = "return" /\ mode = "bare"
  /\ pc' = "idle"
  /\ UNCHANGED <<session, place, buffer, conv, failure, rc, result, status, owed>>

TextAfterReport == NoText

\* edi2xml_error
Report ==
  /\ pc = "idle" /\ excp # NoText
  /\ result' = [kind |-> "report", text |-> <<excp, errOffset, errSegment>>]
  /\ excp' = TextAfterReport
  /\ owed' = IF owed = "yes" THEN "no" ELSE owed
  /\ UNCHANGED <<pc, session, place, buffer, conv, errOffset, errSegment, rc, status>>

\* Nothing returns after strdup: strlen(NULL).
ReportNothing ==
  /\ pc = "idle" /\ excp = NoText
  /\ Breaks("null")

-----------------------------------------------------------------------------

Step ==
  \/ EndOfSegments \/ TagIsNull \/ BeginSegment \/ OpenSegment \/ CloseSegment \/ EndSegment
  \/ EndOfChildren \/ UnknownComposite \/ SkipChild \/ PassOver \/ Mandatory
  \/ SimpleElement \/ OpenComposite \/ Component \/ CloseComposite
  \/ ReturnConv2 \/ ReturnMain \/ ReturnBare

Call ==
  \/ \E m \in Messages :
       \/ \E enc \in {"none", "unknown", "known"} : Conv2(m, TRUE, enc) \/ Main(m, TRUE, enc)
       \/ Bare(m)
  \/ Conv2(<<>>, FALSE, "none")
  \/ Main(<<>>, FALSE, "none")
  \/ Report
  \/ ReportNothing

Next == Step \/ Call

Spec == Init /\ [][Next]_vars /\ WF_vars(Step)

-----------------------------------------------------------------------------
(* Properties *)

\* The elements that a sequence of pieces leaves open, the last one last.  What
\* is closed without being the last one open leaves Crossed, for good, and so does
\* a text outside the element it is to be the content of.
Crossed == << <<"crossed", "">> >>
Innermost(left, name) == left # <<>> /\ Last(left) = name
Shut(left, name) == IF Innermost(left, name) THEN Front(left) ELSE Crossed
LeftBy(piece, left) ==
  CASE piece.kind = "open"  -> Append(left, piece.name)
    [] piece.kind = "close" -> Shut(left, piece.name)
    [] piece.kind = "text"  -> IF Innermost(left, piece.name) THEN left ELSE Crossed
    [] OTHER -> left
LeftOpen(pieces) ==
  LET left[n \in 0..Len(pieces)] == IF n = 0 THEN <<>> ELSE LeftBy(pieces[n], left[n - 1])
  IN  left[Len(pieces)]

\* The envelopes of a message: each header with its trailer.
Envelope ==
  [UNB |-> Open("X", "interchange"), UNZ |-> Close("X", "interchange"),
   UNG |-> Open("X", "group"),       UNE |-> Close("X", "group"),
   UNH |-> Open("X", "message"),     UNT |-> Close("X", "message")]
Envelopes(m) ==
  [n \in DOMAIN m |-> IF m[n].tag \in DOMAIN Envelope THEN Envelope[m[n].tag] ELSE Comment]

\* A text returned as a success has every element closed in the order it was
\* opened and every value in its element, through all the early exits of the
\* loops, exactly if the envelopes of the message nest: what these leave open,
\* or cross, is all that shows (conv.c:134-251, 297-313).
ReturnedNested ==
  result.kind = "text" /\ rc = 0 => LeftOpen(result.text) = LeftOpen(Envelopes(msg))

\* A segment as its table has it: of the right types, all of it known, nothing
\* left over, and what is missing is optional.
ConformsTo(el, c) ==
  /\ el.type = IF c.composite THEN "C" ELSE "S"
  /\ IF c.composite
     THEN /\ c.name \in DOMAIN Composites
          /\ Len(el.values) <= Len(Composites[c.name])
          /\ \A n \in DOMAIN Composites[c.name] : Composites[c.name][n].name \in DOMAIN Elements
     ELSE c.name \in DOMAIN Elements
Data(sg) == IF sg.elements[1].type = "S" THEN Tail(sg.elements) ELSE sg.elements
Conforms(sg) ==
  /\ sg.tag \in DOMAIN Segments
  /\ sg.tag = "UNH" => HeaderParses(sg)
  /\ Len(Data(sg)) <= Len(Segments[sg.tag])
  /\ \A n \in DOMAIN Segments[sg.tag] :
       IF n <= Len(Data(sg)) THEN ConformsTo(Data(sg)[n], Segments[sg.tag][n])
       ELSE Segments[sg.tag][n].optional

\* The places of the values of sg, the s-th segment, in the order of the message
\* and under the names that the tables give them: of value v in element n of its
\* data, of that element, and of all.
Under(name, at) == <<at, <<"E", name>>>>
Skipped(sg) == Len(sg.elements) - Len(Data(sg))
ValuePlace(sg, s, n, v) ==
  When(Data(sg)[n].values[v] # Empty,
       Under(Composites[Segments[sg.tag][n].name][v].name, <<s, n + Skipped(sg), v>>))
ElementPlaces(sg, s, n) ==
  LET el == Data(sg)[n]
  IN  IF el.type = "S" THEN <<Under(Segments[sg.tag][n].name, <<s, n + Skipped(sg), 0>>)>>
      ELSE FlattenSeq([v \in DOMAIN el.values |-> ValuePlace(sg, s, n, v)])
PlacesOf(sg, s) == FlattenSeq([n \in DOMAIN Data(sg) |-> ElementPlaces(sg, s, n)])

\* The places of the values of segment s that a text has, with their names.
PlaceIn(s, piece) ==
  When(piece.kind = "text" /\ piece.at[1] = s, <<piece.at, piece.name>>)
PlacesIn(s, text) == FlattenSeq([n \in DOMAIN text |-> PlaceIn(s, text[n])])

\* A text complains of segment s.
Complains(s, text) ==
  \E n \in DOMAIN text : text[n].kind = "error" /\ text[n].at = <<s>>

\* Of a segment that conforms to its table every value is written once, in its
\* order and in the element that the tables name for it, and nothing is
\* complained of, whatever the segments around it were like (conv.c:157-250).
ConformingIsWhole ==
  result.kind = "text" /\ rc = 0 =>
    \A s \in DOMAIN msg :
      Conforms(msg[s]) =>
        /\ PlacesIn(s, result.text) = PlacesOf(msg[s], s)
        /\ ~Complains(s, result.text)

\* A report is about one failure: its text, its offset and its extract are of
\* the segment that failed, however many calls succeeded and failed before, as
\* long as each failure was asked for before the next call (conv.c:284, 301,
\* 317 and 346-355).
ReportIsOfOneFailure ==
  result.kind = "report" /\ owed # "overdue" =>
    \A n \in 1..3 : result.text[n] = result.text[1]

\* A conversion by edi2xml_conv2 or by the program meets nothing that calls
\* before it left behind: no closed handle, no buffer of a function that has
\* returned (output.c:18-41), and the assertion in excep.c:12 only if a failure
\* was not asked for.
EarlierCallsDoNotShow ==
  /\ status \in {"handle", "dangling"} => mode = "bare"
  /\ status = "assert" => owed = "overdue"

\* Every call returns, or stops at something that is undefined, whatever the
\* tables and the message are.
CallsReturn == pc \notin {"idle", "stopped"} ~> pc \in {"idle", "stopped"}

=============================================================================
