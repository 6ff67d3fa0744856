----------------------------- MODULE XmlParser -----------------------------
(***************************************************************************)
(* expat/lib/xmlparse.c: a parser that is handed a document in pieces.  It *)
(* keeps the piece of its buffer that is not read yet, the processor that  *)
(* reads on, the elements and internal entities that are open, and calls   *)
(* the handlers of the application, which may stop it from any of them,    *)
(* for good or to resume.  A call of XML_Parse or XML_ResumeParser is one  *)
(* step.  What it reads is told by the tokenizers of XmlTok and the roles  *)
(* of XmlRole; what it should hand over, by XmlDocument.                   *)
(***************************************************************************)
EXTENDS XmlTok, XmlRole, XmlDocument, FiniteSets

CONSTANTS
  Documents,     \* sequences of items
  BlockSizes,    \* how much of a document one call may hand over
  XML_CONTEXT_BYTES,
  INIT_BUFFER_SIZE,
  StopsAt,       \* the handler calls, counted within a call, that may stop the parser
  MaxStops       \* the number of stops

ASSUME ParserAssumption ==
  /\ BlockSizes \subseteq Nat \ {0} /\ StopsAt \subseteq Nat \ {0}
  /\ XML_CONTEXT_BYTES \in Nat /\ INIT_BUFFER_SIZE \in Nat \ {0} /\ MaxStops \in Nat

VARIABLES
  document,      \* the symbols a document is written in, and what it means
  block,         \* the size of the pieces it is handed over in, unless it is the rest
  fed,           \* how many of its symbols were handed over
  parser,        \* the XML_Parser
  returned,      \* what the last call returned
  stops          \* the stops left

vars == <<document, block, fed, parser, returned, stops>>

Symbols == document.symbols
Unsaid  == "?"        \* a byte of the buffer nothing was stored in

Created ==
  [mem |-> <<>>, ptr |-> 1, end |-> 1, allocation |-> 0,
   parsing |-> "INITIALIZED", final |-> FALSE, processor |-> "prolog", errorCode |-> "NONE",
   prolog |-> PrologState(TRUE), doctypeName |-> "", declEntity |-> "", entities |-> <<>>,
   tags |-> <<>>, open |-> <<>>,
   \* Not of the struct: where a processor left off, what the handlers were
   \* told, and what the stop of this call was to be and did.
   at |-> 1, section |-> 0, events |-> <<>>, calls |-> 0, stopAt |-> 0, resumable |-> FALSE,
   late |-> 0, begunInEntity |-> FALSE, aborted |-> FALSE,
   \* Nor these: whether memory that was freed still holds what it held, whether
   \* this call goes on behind an entity it resumed in, and whether a name that
   \* had moved was compared, of a tag such a call read and of another one.
   intact |-> FALSE, behind |-> FALSE, moved |-> FALSE, stale |-> FALSE]

-----------------------------------------------------------------------------
(* Handlers, and how a processor ends.                                      *)

\* Something is begun and not ended in the entity that is read: an element, a
\* section, another entity.
BegunIn(s, events) ==
  LET Count(e) == Len(SelectSeq(s.events \o events, LAMBDA event : event[1] = e))
  IN  /\ s.open # <<>>
      /\ \/ Len(s.open) > 1 \/ Len(s.tags) # s.open[1].level
         \/ Count("cdata") # Count("endcdata")

Called(s, events) ==
  LET n == s.calls + 1
      stop == n = s.stopAt
  IN  [s EXCEPT !.events = @ \o events, !.calls = n,
                !.parsing = IF ~stop THEN @ ELSE IF s.resumable THEN "SUSPENDED" ELSE "FINISHED",
                !.late = IF s.parsing = "PARSING" THEN @ ELSE @ + 1,
                !.begunInEntity = @ \/ (stop /\ BegunIn(s, events)),
                !.aborted = @ \/ (stop /\ ~s.resumable)]

Leave(s, i)    == [s EXCEPT !.at = i]
Fail(s, error) == [s EXCEPT !.errorCode = error]

\* After a token: a processor goes on unless it failed or was stopped.
\* Mutant: only a stop for good is looked for.
HaltsForGood(s) == s.errorCode # "NONE" \/ s.parsing = "FINISHED"

Halts(s) == s.errorCode # "NONE" \/ s.parsing \in {"SUSPENDED", "FINISHED"}
Halted(s, next) ==
  IF s.errorCode # "NONE" THEN s
  ELSE IF s.parsing = "SUSPENDED" THEN Leave(s, next) ELSE Fail(s, "ABORTED")

\* The text that is read, the document's or an open entity's, and the level
\* of elements it may not close.
Outermost == [entity |-> "", level |-> 0]
TextOf(s, c)    == IF c.entity = "" THEN s.mem ELSE s.entities[c.entity].text
EndOfText(s, c) == IF c.entity = "" THEN s.end ELSE Len(s.entities[c.entity].text) + 1
\* Mutant: the last piece is waited for, too.
HaveMoreAlways(s, c) == c.entity = ""
HaveMore(s, c)  == c.entity = "" /\ ~s.final

Slice(text, i, next) == SubSeq(text, i, next - 1)

Pi(s, text, i, next)       == Called(s, <<<<"pi", NameAt(text, i + 2)[1]>>>>)
CommentAt(s, text, i)      == Called(s, <<<<"comment", text[i + 4]>>>>)
Newline(s)                 == Called(s, <<<<"data", "LF">>>>)
Data(s, text, i, next)     == Called(s, Characters(Slice(text, i, next)))

-----------------------------------------------------------------------------
(* Open elements.  The name of one points into the text it was read from,   *)
(* until storeRawNames copies it into the tag.                              *)

TagAt(s, c, i, name) ==
  [name |-> name, in |-> "text", entity |-> c.entity, allocation |-> s.allocation, at |-> i,
   stored |-> <<>>, behind |-> s.behind]

InBuffer(tag) == tag.in = "text" /\ tag.entity = ""
Dangling(s)   == \E i \in DOMAIN s.tags : InBuffer(s.tags[i]) /\ s.tags[i].allocation # s.allocation

RawName(s, tag) ==
  CASE tag.in = "tag" -> tag.stored
    [] tag.entity # "" -> SubSeq(s.entities[tag.entity].text, tag.at, tag.at + Len(tag.name) - 1)
    [] tag.allocation = s.allocation -> SubSeq(s.mem, tag.at, tag.at + Len(tag.name) - 1)
    [] OTHER -> IF s.intact THEN tag.name ELSE <<Unsaid>>     \* memory that was freed

\* From the innermost out, up to one that is stored.
\* Mutant: the innermost name only.
storeInnermost(s) ==
  IF s.tags = <<>> THEN s
  ELSE [s EXCEPT !.tags[Len(s.tags)].in = "tag", !.tags[Len(s.tags)].stored = RawName(s, s.tags[Len(s.tags)])]

storeRawNames(s) ==
  LET Stored == {i \in DOMAIN s.tags : s.tags[i].in = "tag"}
  IN  [s EXCEPT !.tags =
         [i \in DOMAIN @ |->
            IF \A j \in Stored : j < i
            THEN [@[i] EXCEPT !.in = "tag", !.stored = RawName(s, s.tags[i])] ELSE @[i]]]

StartTag(s, c, i) ==
  LET name == NameAt(TextOf(s, c), i + 1)
  IN  Called([s EXCEPT !.tags = Append(@, TagAt(s, c, i + 1, name))], <<<<"start", name[1]>>>>)

\* Mutant: a handler that stops at the start loses the end.
EmptyTagStopped(s, c, i) ==
  LET name == NameAt(TextOf(s, c), i + 1)[1]
      r    == Called(s, <<<<"start", name>>>>)
  IN  IF r.parsing = "SUSPENDED" THEN r ELSE Called(r, <<<<"end", name>>>>)

EmptyTag(s, c, i) ==
  LET name == NameAt(TextOf(s, c), i + 1)[1]
  IN  Called(Called(s, <<<<"start", name>>>>), <<<<"end", name>>>>)

EndTag(s, c, i) ==
  LET tag    == s.tags[Len(s.tags)]
      other  == RawName(s, tag) # tag.name
      popped == [s EXCEPT !.tags = SubSeq(@, 1, Len(@) - 1),
                          !.stale = @ \/ (other /\ ~tag.behind), !.moved = @ \/ (other /\ tag.behind)]
  IN  IF Len(s.tags) = c.level THEN Fail(s, "ASYNC_ENTITY")
      ELSE IF RawName(s, tag) # NameAt(TextOf(s, c), i + 2) THEN Fail(popped, "TAG_MISMATCH")
      ELSE Called(popped, <<<<"end", tag.name[1]>>>>)

-----------------------------------------------------------------------------
(* The epilog, and sections of character data.                              *)

RECURSIVE epilogProcessor(_, _)

AfterEpilog(r, next) == IF Halts(r) THEN Halted(r, next) ELSE epilogProcessor(r, next)

EpilogToken(s, i, t) ==
  CASE t.tok = "PROLOG_S" /\ t.open -> Leave(s, t.next)
    [] t.tok = "NONE"     -> Leave(s, i)
    [] t.tok \in {"PARTIAL", "PARTIAL_CHAR"} /\ ~s.final -> Leave(s, i)
    [] t.tok \in {"PROLOG_S", "PI", "COMMENT"} /\ ~(t.tok = "PROLOG_S" /\ t.open) ->
         AfterEpilog(CASE t.tok = "PI" -> Pi(s, s.mem, i, t.next)
                       [] t.tok = "COMMENT" -> CommentAt(s, s.mem, i)
                       [] OTHER -> s, t.next)
    [] OTHER -> Fail(s, CASE t.tok = "INVALID" -> "INVALID_TOKEN"
                          [] t.tok = "PARTIAL" -> "UNCLOSED_TOKEN"
                          [] t.tok = "PARTIAL_CHAR" -> "PARTIAL_CHAR"
                          [] OTHER -> "JUNK_AFTER_DOC_ELEMENT")

epilogProcessor(s, i) ==
  EpilogToken([s EXCEPT !.processor = "epilog"], i, Token("prolog", s.mem, i, s.end))

\* The field section is set to where the section ended, or to 0.
RECURSIVE doCdataSection(_, _, _)

AfterCdata(r, c, next) == IF Halts(r) THEN Halted(r, next) ELSE doCdataSection(r, c, next)

CdataClosed(s, next) ==
  Leave([s EXCEPT !.section = next, !.errorCode = IF s.parsing = "FINISHED" THEN "ABORTED" ELSE @], next)

CdataToken(s, c, text, i, t) ==
  CASE t.tok = "CDATA_SECT_CLOSE" -> CdataClosed(Called(s, <<<<"endcdata", "">>>>), t.next)
    [] t.tok \in {"DATA_NEWLINE", "DATA_CHARS"} ->
         AfterCdata(IF t.tok = "DATA_NEWLINE" THEN Newline(s) ELSE Data(s, text, i, t.next), c, t.next)
    [] t.tok \in {"PARTIAL", "PARTIAL_CHAR", "NONE"} /\ HaveMore(s, c) -> Leave(s, i)
    [] OTHER -> Fail(s, CASE t.tok = "INVALID" -> "INVALID_TOKEN"
                          [] t.tok = "PARTIAL_CHAR" -> "PARTIAL_CHAR"
                          [] OTHER -> "UNCLOSED_CDATA_SECTION")

doCdataSection(s, c, i) ==
  CdataToken([s EXCEPT !.section = 0], c, TextOf(s, c), i, Token("cdata", TextOf(s, c), i, EndOfText(s, c)))

-----------------------------------------------------------------------------
(* Content.                                                                 *)

Predefined == ("lt" :> "<") @@ ("amp" :> "&")

\* Data that only the end of the text tells is no line end or end of section.
Trailing(s, c) ==
  IF c.level = 0 THEN Fail(s, "NO_ELEMENTS")
  ELSE IF Len(s.tags) # c.level THEN Fail(s, "ASYNC_ENTITY")
  ELSE Leave(s, EndOfText(s, c))

RECURSIVE doContent(_, _, _)
RECURSIVE processInternalEntity(_, _)

Reference(s, name) ==
  CASE name \in DOMAIN Predefined -> Called(s, <<<<"data", Predefined[name]>>>>)
    [] name \notin DOMAIN Predefined \union DOMAIN s.entities -> Fail(s, "UNDEFINED_ENTITY")
    [] OTHER -> IF s.entities[name].open THEN Fail(s, "RECURSIVE_ENTITY_REF")
                ELSE processInternalEntity(s, name)

\* Tokens after which the loop goes on.
ContentToken(s, c, text, i, t) ==
  CASE t.tok = "ENTITY_REF" -> Reference(s, NameAt(text, i + 1)[1])
    [] t.tok \in {"START_TAG_NO_ATTS", "START_TAG_WITH_ATTS"} -> StartTag(s, c, i)
    [] t.tok \in {"EMPTY_ELEMENT_NO_ATTS", "EMPTY_ELEMENT_WITH_ATTS"} -> EmptyTag(s, c, i)
    [] t.tok = "END_TAG" -> EndTag(s, c, i)
    [] t.tok = "CHAR_REF" -> Called(s, <<<<"data", text[t.next - 2]>>>>)
    [] t.tok = "XML_DECL" -> Fail(s, "MISPLACED_XML_PI")
    [] t.tok = "DATA_NEWLINE" -> Newline(s)
    [] t.tok = "DATA_CHARS" -> Data(s, text, i, t.next)
    [] t.tok = "PI" -> Pi(s, text, i, t.next)
    [] t.tok = "COMMENT" -> CommentAt(s, text, i)
    [] t.tok = "CDATA_SECT_OPEN" -> doCdataSection(Called(s, <<<<"cdata", "">>>>), c, t.next)

Elements == {"EMPTY_ELEMENT_NO_ATTS", "EMPTY_ELEMENT_WITH_ATTS", "END_TAG"}

AfterContent(r, c, tok, next) ==
  IF r.errorCode # "NONE" THEN r
  ELSE IF tok = "CDATA_SECT_OPEN" /\ r.section = 0 THEN [r EXCEPT !.processor = "cdataSection"]
  ELSE IF tok \in Elements /\ r.tags = <<>> THEN epilogProcessor(r, next)
  ELSE IF tok = "CDATA_SECT_OPEN"
  THEN IF Halts(r) THEN Halted(r, r.section) ELSE doContent(r, c, r.section)
  ELSE IF Halts(r) THEN Halted(r, next) ELSE doContent(r, c, next)

Content(s, c, text, end, i, t) ==
  IF t.tok \in {"TRAILING_CR", "TRAILING_RSQB", "NONE", "PARTIAL", "PARTIAL_CHAR"} /\ HaveMore(s, c)
  THEN Leave(s, i)
  ELSE
  CASE t.tok \in {"TRAILING_CR", "TRAILING_RSQB", "NONE"} ->
         Trailing(CASE t.tok = "TRAILING_CR" -> Newline(s)
                    [] t.tok = "TRAILING_RSQB" -> Data(s, text, i, end)
                    [] OTHER -> s, c)
    [] t.tok = "INVALID" -> Fail(s, "INVALID_TOKEN")
    [] t.tok = "PARTIAL" -> Fail(s, "UNCLOSED_TOKEN")
    [] t.tok = "PARTIAL_CHAR" -> Fail(s, "PARTIAL_CHAR")
    [] OTHER -> AfterContent(ContentToken(s, c, text, i, t), c, t.tok, t.next)

doContent(s, c, i) ==
  Content(s, c, TextOf(s, c), EndOfText(s, c), i, Token("content", TextOf(s, c), i, EndOfText(s, c)))

Kept(r) == IF r.errorCode = "NONE" THEN storeRawNames(r) ELSE r

contentProcessor(s, i) == Kept(doContent(s, Outermost, i))

AfterSection(r) ==
  IF r.errorCode = "NONE" /\ r.section # 0
  THEN contentProcessor([r EXCEPT !.processor = "content"], r.section) ELSE r

cdataSectionProcessor(s, i) == AfterSection(doCdataSection(s, Outermost, i))

-----------------------------------------------------------------------------
(* Internal entities: a stack of those that are open, with the level their  *)
(* content began on.  One that is stopped within is read on where it was.   *)
(* What is read behind it then is not followed by storeRawNames.            *)

Closed(r, name, rest) == [r EXCEPT !.entities[name].open = FALSE, !.open = rest]
Within(r, name) == r.at # Len(r.entities[name].text) + 1 /\ r.parsing = "SUSPENDED"

Opened(s, c) ==
  [s EXCEPT !.entities[c.entity].open = TRUE, !.entities[c.entity].processed = 0, !.open = <<c>> \o @]

AfterEntity(r, name, rest) ==
  IF r.errorCode # "NONE" THEN r
  ELSE IF Within(r, name)
  THEN [r EXCEPT !.entities[name].processed = r.at - 1, !.processor = "internalEntity"]
  ELSE Closed(r, name, rest)

ReadEntity(s, c) == AfterEntity(doContent(Opened(s, c), c, 1), c.entity, s.open)

processInternalEntity(s, name) == ReadEntity(s, [entity |-> name, level |-> Len(s.tags)])

AfterResumed(r, name, rest, i) ==
  IF r.errorCode # "NONE" THEN r
  ELSE IF Within(r, name) THEN Leave([r EXCEPT !.entities[name].processed = r.at - 1], i)
  ELSE doContent([Closed(r, name, rest) EXCEPT !.processor = "content", !.behind = TRUE], Outermost, i)

internalEntityProcessor(s, i) ==
  IF s.open = <<>> THEN Fail(s, "UNEXPECTED_STATE")
  ELSE AfterResumed(doContent(s, Head(s.open), s.entities[Head(s.open).entity].processed + 1),
                    Head(s.open).entity, Tail(s.open), i)

-----------------------------------------------------------------------------
(* The prolog, as far as these documents have one: XmlEntities and          *)
(* XmlDeclarations have the other roles.                                    *)

Word(text, i, t) ==
  CASE t.tok = "DECL_OPEN" -> text[i + 2] [] t.tok = "POUND_NAME" -> text[i + 1] [] OTHER -> text[i]

AsDeclared(s, text) == [text |-> text, open |-> FALSE, processed |-> 0]

Role(s, role, text, i, next) ==
  CASE role = "DOCTYPE_NAME" -> [s EXCEPT !.doctypeName = text[i]]
    [] role = "DOCTYPE_INTERNAL_SUBSET" ->
         [Called(s, <<<<"doctype", s.doctypeName>>>>) EXCEPT !.doctypeName = ""]
    [] role = "DOCTYPE_CLOSE" ->
         Called(IF s.doctypeName # "" THEN Called(s, <<<<"doctype", s.doctypeName>>>>) ELSE s,
                <<<<"enddoctype", "">>>>)
    [] role = "GENERAL_ENTITY_NAME" ->
         [s EXCEPT !.declEntity = IF text[i] \in DOMAIN Predefined \union DOMAIN s.entities THEN "" ELSE text[i]]
    [] role = "ENTITY_VALUE" /\ s.declEntity # "" ->
         [s EXCEPT !.entities = (s.declEntity :> AsDeclared(s, Slice(text, i + 1, next - 1))) @@ @]
    [] role = "PI" -> Pi(s, text, i, next)
    [] role = "COMMENT" -> CommentAt(s, text, i)
    [] OTHER -> s

RECURSIVE doProlog(_, _)

AfterRole(r, role, tok, i, next) ==
  CASE role = "INSTANCE_START" -> contentProcessor([r EXCEPT !.processor = "content"], i)
    [] role = "ERROR" ->
         Fail(r, IF tok = "PARAM_ENTITY_REF" THEN "PARAM_ENTITY_REF"
                 ELSE IF tok = "XML_DECL" THEN "MISPLACED_XML_PI" ELSE "SYNTAX")
    [] OTHER -> IF Halts(r) THEN Halted(r, next) ELSE doProlog(r, next)

InRole(s, step, i, t) ==
  AfterRole(Role([s EXCEPT !.prolog = step.state], step.role, s.mem, i, t.next), step.role, t.tok, i, t.next)

PrologToken(s, i, t) ==
  IF (t.open \/ t.tok \in {"NONE", "PARTIAL", "PARTIAL_CHAR"}) /\ ~s.final THEN Leave(s, i)
  ELSE
  CASE t.tok = "INVALID" -> Fail(s, "INVALID_TOKEN")
    [] t.tok = "PARTIAL" -> Fail(s, "UNCLOSED_TOKEN")
    [] t.tok = "PARTIAL_CHAR" -> Fail(s, "PARTIAL_CHAR")
    [] t.tok = "NONE" -> Fail(s, "NO_ELEMENTS")
    [] OTHER -> InRole(s, TokenRole(s.prolog, [tok |-> t.tok, word |-> Word(s.mem, i, t)]), i, t)

doProlog(s, i) == PrologToken(s, i, Token("prolog", s.mem, i, s.end))

-----------------------------------------------------------------------------
(* XML_GetBuffer: room for len more, with at most XML_CONTEXT_BYTES kept    *)
(* of what was read, in the buffer that is there or in a larger one.        *)

RECURSIVE Doubled(_, _)
Doubled(size, needed) == IF 2 * size >= needed THEN 2 * size ELSE Doubled(2 * size, needed)

\* Mutant: room is made without the bytes that are kept.
GetBufferShort(s, len) ==
  LET lim == Len(s.mem) + 1
  IN  IF len <= lim - s.end THEN s
      ELSE [s EXCEPT !.mem = SubSeq(@, s.ptr, s.end - 1) \o [i \in 1..(2 * len + 2) |-> Unsaid],
                     !.ptr = 1 + (IF s.ptr - 1 > XML_CONTEXT_BYTES THEN XML_CONTEXT_BYTES ELSE s.ptr - 1),
                     !.end = s.end - s.ptr + 1 + (IF s.ptr - 1 > XML_CONTEXT_BYTES THEN XML_CONTEXT_BYTES ELSE s.ptr - 1),
                     !.allocation = @ + 1]

GetBuffer(s, len) ==
  LET lim    == Len(s.mem) + 1
      keep   == IF s.ptr - 1 > XML_CONTEXT_BYTES THEN XML_CONTEXT_BYTES ELSE s.ptr - 1
      needed == len + (s.end - s.ptr) + keep
      offset == s.ptr - 1 - keep
      kept   == SubSeq(s.mem, s.ptr - keep, s.end - 1)
      size   == Doubled(IF lim = s.ptr THEN INIT_BUFFER_SIZE ELSE lim - s.ptr, needed)
      Moved(mem) == [s EXCEPT !.mem = mem, !.ptr = keep + 1, !.end = s.end - offset]
  IN  IF len <= lim - s.end THEN s
      ELSE IF needed <= lim - 1
      THEN Moved([i \in 1..(lim - 1) |-> IF i <= Len(kept) THEN kept[i] ELSE s.mem[i]])
      ELSE [Moved(kept \o [i \in 1..(size - Len(kept)) |-> Unsaid]) EXCEPT !.allocation = @ + 1]

ParseBuffer(s, piece) ==
  [s EXCEPT !.mem = [i \in DOMAIN @ |-> IF i \in s.end..(s.end + Len(piece) - 1) THEN piece[i - s.end + 1] ELSE @[i]],
            !.end = @ + Len(piece)]

\* The processor runs on what is in the buffer.
Processed(s) ==
  CASE s.processor = "prolog"         -> doProlog(s, s.ptr)
    [] s.processor = "content"        -> contentProcessor(s, s.ptr)
    [] s.processor = "cdataSection"   -> cdataSectionProcessor(s, s.ptr)
    [] s.processor = "internalEntity" -> internalEntityProcessor(s, s.ptr)
    [] s.processor = "epilog"         -> epilogProcessor(s, s.ptr)

Status(r) ==
  IF r.errorCode # "NONE" THEN "ERROR" ELSE IF r.parsing = "SUSPENDED" THEN "SUSPENDED" ELSE "OK"

\* What an application cannot see of a call is forgotten with it.
Ended(r) ==
  LET done == [r EXCEPT !.ptr = IF r.errorCode = "NONE" THEN r.at ELSE @,
                        !.processor = IF r.errorCode # "NONE" THEN "error" ELSE @,
                        !.parsing = IF r.errorCode = "NONE" /\ @ = "PARSING" /\ r.final THEN "FINISHED" ELSE @]
  IN  [done EXCEPT !.at = 1, !.section = 0, !.calls = 0, !.stopAt = 0, !.resumable = FALSE,
                     !.intact = FALSE, !.behind = FALSE]

Run(s, stopAt, resumable) ==
  \E intact \in IF Dangling(s) THEN BOOLEAN ELSE {FALSE} :
  \E r \in {Processed([s EXCEPT !.parsing = "PARSING", !.errorCode = "NONE", !.stopAt = stopAt,
                                !.resumable = resumable, !.late = 0, !.intact = intact])} :
    /\ parser' = Ended(r)
    /\ returned' = Status(r)

-----------------------------------------------------------------------------
(* The application.                                                         *)

Init ==
  /\ \E d \in Documents : document = [symbols |-> Written(d), meaning |-> Meaning(d)]
  /\ block \in BlockSizes /\ fed = 0 /\ parser = Created /\ returned = "OK" /\ stops = MaxStops

Reads  == parser.parsing \in {"INITIALIZED", "PARSING"} /\ parser.processor # "error"
Unread == Len(Symbols) - fed

\* Of each call the handler that stops the parser is chosen, or none (0).
Stopping(stopAt, resumable) ==
  /\ stopAt # 0 => stops > 0
  /\ stopAt = 0 => ~resumable
  /\ stops' = IF stopAt = 0 THEN stops ELSE stops - 1

XML_Parse(len, isFinal, stopAt, resumable) ==
  /\ Reads /\ Stopping(stopAt, resumable)
  /\ isFinal => len = Unread
  /\ len = 0 => isFinal
  /\ len <= Unread
  /\ fed' = fed + len
  /\ LET s == IF len = 0
             THEN parser ELSE ParseBuffer(GetBuffer(parser, len), SubSeq(Symbols, fed + 1, fed + len))
     IN  Run([s EXCEPT !.final = isFinal], stopAt, resumable)
  /\ UNCHANGED <<document, block>>

XML_ResumeParser(stopAt, resumable) ==
  /\ parser.parsing = "SUSPENDED" /\ parser.processor # "error"
  /\ Stopping(stopAt, resumable)
  /\ Run(parser, stopAt, resumable)
  /\ UNCHANGED <<document, block, fed>>

\* A suspended parser takes nothing, but may be stopped for good.
ParseSuspended ==
  /\ parser.parsing = "SUSPENDED" /\ returned = "SUSPENDED"
  /\ parser' = Fail(parser, "SUSPENDED") /\ returned' = "ERROR"
  /\ UNCHANGED <<document, block, fed, stops>>

AbortSuspended ==
  /\ parser.parsing = "SUSPENDED" /\ stops > 0
  /\ parser' = [parser EXCEPT !.parsing = "FINISHED", !.aborted = TRUE]
  /\ stops' = stops - 1 /\ returned' = "OK"
  /\ UNCHANGED <<document, block, fed>>

Next ==
  \/ \E stopAt \in StopsAt \union {0}, resumable \in BOOLEAN :
       \/ \E len \in {0, block, Unread}, isFinal \in BOOLEAN : XML_Parse(len, isFinal, stopAt, resumable)
       \/ XML_ResumeParser(stopAt, resumable)
  \/ ParseSuspended
  \/ AbortSuspended

Spec == Init /\ [][Next]_vars

-----------------------------------------------------------------------------
(* Properties.                                                              *)

Expected == document.meaning
\* Junk after the document element is cut into tokens as the pieces fall.
SameError(code, error) ==
  \/ code = error
  \/ error = "JUNK_AFTER_DOC_ELEMENT" /\ code = "INVALID_TOKEN"
Finished == parser.parsing = "FINISHED" /\ parser.processor # "error" /\ ~parser.aborted

\* However a document is cut into pieces, and wherever a handler stops the
\* parser, the application is told what the document says, in order, nothing
\* twice and nothing that is not in it.  Only a stop within an entity that has
\* something begun in it is forgotten where it was (xmlparse.c:4876-4909).
ToldInOrder ==
  ~parser.begunInEntity =>
    /\ Len(parser.events) <= Len(Expected.events)
    /\ parser.events = SubSeq(Expected.events, 1, Len(parser.events))

\* It is told all of a document when the parser finishes, and the parser
\* finishes only on a document without an error: on the others it reports the
\* error the document has.  Nothing is claimed where a name that had moved was
\* compared: a tag read behind an entity the parser was stopped in keeps its name
\* in the buffer, and a correct document may fail (xmlparse.c:4905-4908).
ToldAll ==
  ~parser.begunInEntity /\ ~parser.moved =>
    /\ Finished => Expected.error = "" /\ parser.events = Expected.events
    /\ parser.processor = "error" /\ ~parser.aborted => SameError(parser.errorCode, Expected.error)

\* However often the buffer moved, it holds what was handed over last, in
\* order: all that is not read and, for XML_GetInputContext, the context
\* before it, as far as anything was read.
BufferIsDocument ==
  LET read == fed - (parser.end - parser.ptr)
  IN  /\ parser.ptr - 1 >= (IF read > XML_CONTEXT_BYTES THEN XML_CONTEXT_BYTES ELSE read)
      /\ parser.end - 1 <= fed
      /\ SubSeq(parser.mem, 1, parser.end - 1) = SubSeq(Symbols, fed - parser.end + 2, fed)

\* An end tag is compared with the name the start tag had: between calls the
\* names of the open elements no longer point into the buffer, which the next
\* call may move or free.  Only those do that were read in a call that resumed
\* within an entity and went on behind it: internalEntityProcessor returns without
\* storeRawNames (xmlparse.c:2049-2096, 2108, 2224 and 4905-4908).
NamesAreKept ==
  /\ ~parser.stale
  /\ parser.processor # "error" =>
       \A i \in DOMAIN parser.tags : InBuffer(parser.tags[i]) => parser.tags[i].behind

\* After a handler stopped the parser, no more handlers are called than the
\* token has left and the one token that two processors read before they look.
StopsSoon == parser.late <= 2

=============================================================================
