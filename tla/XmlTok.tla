------------------------------- MODULE XmlTok -------------------------------
(***************************************************************************)
(* expat/lib/xmltok_impl.c: the tokenizers.  A text is a sequence of       *)
(* symbols: a character, a keyword of the grammar (one symbol, since a     *)
(* text cut within a name is cut as one cut before or after it), or a half *)
(* of a character of two bytes.  Each scanner is the part of an automaton  *)
(* that its loops and switches are: a row gives, for a type of byte, the   *)
(* state the scan goes on in or the token that ends; what a row leaves out *)
(* is an invalid token.                                                    *)
(***************************************************************************)
EXTENDS Naturals, Sequences, TLC

Punctuation ==
  ("<" :> "LT") @@ (">" :> "GT") @@ ("&" :> "AMP") @@ (";" :> "SEMI") @@ ("#" :> "NUM")
  @@ ("q" :> "QUOT") @@ ("'" :> "APOS") @@ ("=" :> "EQUALS") @@ ("?" :> "QUEST") @@ ("!" :> "EXCL")
  @@ ("/" :> "SOL") @@ ("[" :> "LSQB") @@ ("]" :> "RSQB") @@ ("(" :> "LPAR") @@ (")" :> "RPAR")
  @@ ("," :> "COMMA") @@ ("|" :> "VERBAR") @@ ("%" :> "PERCNT") @@ ("*" :> "AST") @@ ("+" :> "PLUS")
  @@ ("-" :> "MINUS") @@ (":" :> "COLON") @@ ("1" :> "DIGIT") @@ ("." :> "NAME") @@ ("$" :> "OTHER")
  @@ (" " :> "S") @@ ("CR" :> "CR") @@ ("LF" :> "LF") @@ ("lead" :> "LEAD2") @@ ("trail" :> "TRAIL")
  @@ ("NUL" :> "NONXML") @@ ("x" :> "X") @@ ("xml" :> "XML_WORD") @@ ("XML" :> "UPPER_XML")
  @@ ("CDATA" :> "CDATA_WORD") @@ ("face" :> "HEX")

\* BYTE_TYPE; q stands for the quotation mark.
ByteType(c) == IF c \in DOMAIN Punctuation THEN Punctuation[c] ELSE "NMSTRT"

Bad        == {"NONXML", "MALFORM", "TRAIL"}
Words      == {"X", "XML_WORD", "UPPER_XML", "CDATA_WORD"}
NmStrtByte == {"NMSTRT", "HEX"} \union Words
NmStrt     == NmStrtByte \union {"LEAD2"}
NameChars  == NmStrt \union {"DIGIT", "NAME", "MINUS"}
White      == {"S", "CR", "LF"}
Valid      == ({Punctuation[c] : c \in DOMAIN Punctuation} \union NameChars) \ Bad

Go(types, state) == [t \in types |-> [to |-> state, tok |-> "", back |-> 0]]

\* The token ends before the byte read (back = 1), after it (0), or further back.
End(types, tok, back) == [t \in types |-> [to |-> "", tok |-> tok, back |-> back]]

Invalid == [to |-> "", tok |-> "INVALID", back |-> 1]

-----------------------------------------------------------------------------
(* Comments, processing instructions and references.                        *)

Comments ==
  LET body == Go({"MINUS"}, "comment2") @@ Go(Valid, "comment1")
  IN  [comment0 |-> Go({"MINUS"}, "comment1"), comment1 |-> body,
       comment2 |-> Go({"MINUS"}, "comment3") @@ body,
       comment3 |-> End({"GT"}, "COMMENT", 0)]

\* After <?: the target xml makes a declaration, and in other letters none.
Instructions ==
  LET Body(body, quest) == Go({"QUEST"}, quest) @@ Go(Valid, body)
      After(body, end) == Go(NameChars, "target") @@ Go(White, body) @@ Go({"QUEST"}, end)
      Close(tok) == End({"GT"}, tok, 0)
  IN  [pi |-> Go({"XML_WORD"}, "xmlTarget") @@ Go({"UPPER_XML"}, "upperTarget") @@ Go(NmStrt, "target"),
       target |-> After("piBody", "piEnd"), xmlTarget |-> After("xmlBody", "xmlEnd"),
       upperTarget |-> Go(NameChars, "target"),
       piEnd |-> Close("PI"), xmlEnd |-> Close("XML_DECL"),
       piBody |-> Body("piBody", "piQuest"),
       piQuest |-> Close("PI") @@ Body("piBody", "piQuest"),
       xmlBody |-> Body("xmlBody", "xmlQuest"),
       xmlQuest |-> Close("XML_DECL") @@ Body("xmlBody", "xmlQuest")]

\* After &, in a text where Entity and Char say what follows the semicolon.
References(where, Entity, Char) ==
  (where \o "ref" :> (Go({"NUM"}, where \o "num") @@ Go(NmStrt, where \o "name")))
  @@ (where \o "name" :> (Entity @@ Go(NameChars, where \o "name")))
  @@ (where \o "num" :> (Go({"X"}, where \o "hex") @@ Go({"DIGIT"}, where \o "digits")))
  @@ (where \o "digits" :> (Char @@ Go({"DIGIT"}, where \o "digits")))
  @@ (where \o "hex" :> Go({"DIGIT", "HEX"}, where \o "hexes"))
  @@ (where \o "hexes" :> (Char @@ Go({"DIGIT", "HEX"}, where \o "hexes")))

-----------------------------------------------------------------------------
(* Tags.                                                                    *)

EndTags ==
  LET Closed == End({"GT"}, "END_TAG", 0)
  IN  [endTag |-> Go(NmStrt, "endName"),
       endName |-> Closed @@ Go(NameChars \union {"COLON"}, "endName") @@ Go(White, "endWhite"),
       endWhite |-> Closed @@ Go(White, "endWhite")]

StartTags ==
  LET After == End({"GT"}, "START_TAG_NO_ATTS", 0) @@ Go({"SOL"}, "tagSol") @@ Go(White, "tagWhite")
  IN  [lt |-> Go(NmStrt, "tag") @@ Go({"EXCL"}, "ltExcl") @@ Go({"QUEST"}, "pi") @@ Go({"SOL"}, "endTag"),
       ltExcl |-> Go({"MINUS"}, "comment0") @@ Go({"LSQB"}, "section"),
       section |-> Go({"CDATA_WORD"}, "sectionWord"),
       sectionWord |-> End({"LSQB"}, "CDATA_SECT_OPEN", 0),
       tag |-> Go(NameChars, "tag") @@ Go({"COLON"}, "tagColon") @@ After,
       tagColon |-> Go(NmStrt, "tagLocal"),
       tagLocal |-> Go(NameChars, "tagLocal") @@ After,
       tagWhite |-> Go(NmStrt, "att") @@ After,
       tagSol |-> End({"GT"}, "EMPTY_ELEMENT_NO_ATTS", 0)]

Value(open, state) ==
  Go({open}, "attEnd") @@ Go({"AMP"}, open \o "ref") @@ Go(Valid \ {"LT"}, state)

Attributes ==
  LET After == Go(White, "attNext") @@ Go({"SOL"}, "attSol") @@ End({"GT"}, "START_TAG_WITH_ATTS", 0)
      Equals == Go({"EQUALS"}, "attEq") @@ Go(White, "attWhite")
      Values == References("QUOT", Go({"SEMI"}, "quoted"), Go({"SEMI"}, "quoted"))
                @@ References("APOS", Go({"SEMI"}, "apostrophed"), Go({"SEMI"}, "apostrophed"))
  IN  [att |-> Go(NameChars, "att") @@ Go({"COLON"}, "attColon") @@ Equals,
       attColon |-> Go(NmStrt, "attLocal"),
       attLocal |-> Go(NameChars, "attLocal") @@ Equals,
       attWhite |-> Equals,
       attEq |-> Go(White, "attEq") @@ Go({"QUOT"}, "quoted") @@ Go({"APOS"}, "apostrophed"),
       quoted |-> Value("QUOT", "quoted"), apostrophed |-> Value("APOS", "apostrophed"),
       attEnd |-> After, attNext |-> Go(NmStrt, "att") @@ After,
       attSol |-> End({"GT"}, "EMPTY_ELEMENT_WITH_ATTS", 0)] @@ Values

-----------------------------------------------------------------------------
(* Content and CDATA sections: data ends before what is not data, and       *)
(* before brackets that may begin the end of a section.                     *)

Contents ==
  LET data == End({"AMP", "LT", "CR", "LF"} \union Bad, "DATA_CHARS", 1)
              @@ Go({"RSQB"}, "data1") @@ Go(Valid, "data")
      two  == Go({"RSQB"}, "data2") @@ End({"GT"}, "INVALID", 1) @@ data
  IN  [content |-> Go({"LT"}, "lt") @@ Go({"AMP"}, "ref") @@ Go({"CR"}, "cr")
                   @@ End({"LF"}, "DATA_NEWLINE", 0) @@ Go({"RSQB"}, "first1") @@ Go(Valid, "data"),
       cr |-> End({"LF"}, "DATA_NEWLINE", 0) @@ End(Valid \union Bad, "DATA_NEWLINE", 1),
       first1 |-> Go({"RSQB"}, "first2") @@ data, first2 |-> two,
       data |-> data, data1 |-> Go({"RSQB"}, "data2") @@ data, data2 |-> two]
      @@ References("", End({"SEMI"}, "ENTITY_REF", 0), End({"SEMI"}, "CHAR_REF", 0))

Sections ==
  LET data == End({"CR", "LF", "RSQB"} \union Bad, "DATA_CHARS", 1) @@ Go(Valid, "cdData")
  IN  [cdata |-> Go({"RSQB"}, "cd1") @@ Go({"CR"}, "cdCR") @@ End({"LF"}, "DATA_NEWLINE", 0)
                 @@ Go(Valid, "cdData"),
       cdCR |-> End({"LF"}, "DATA_NEWLINE", 0) @@ End(Valid \union Bad, "DATA_NEWLINE", 1),
       cd1 |-> Go({"RSQB"}, "cd2") @@ data,
       cd2 |-> End({"GT"}, "CDATA_SECT_CLOSE", 0) @@ End(Valid \union Bad, "DATA_CHARS", 2),
       cdData |-> data]

-----------------------------------------------------------------------------
(* The prolog.                                                              *)

Literals ==
  LET Literal(open, state) == Go({open}, "litEnd") @@ Go(Valid, state)
  IN  [litQUOT |-> Literal("QUOT", "litQUOT"), litAPOS |-> Literal("APOS", "litAPOS"),
       litEnd |-> End(White \union {"GT", "PERCNT", "LSQB"}, "LITERAL", 1)]

PrologDeclarations ==
  [plt |-> Go({"EXCL"}, "decl") @@ Go({"QUEST"}, "pi") @@ End(NmStrt, "INSTANCE_START", 2),
   decl |-> Go({"MINUS"}, "comment0") @@ End({"LSQB"}, "COND_SECT_OPEN", 0) @@ Go(NmStrtByte, "declName"),
   declName |-> Go(NmStrtByte, "declName") @@ Go({"PERCNT"}, "declPercent") @@ End(White, "DECL_OPEN", 1),
   declPercent |-> [t \in White \union {"PERCNT"} |-> [Invalid EXCEPT !.back = 2]]
                   @@ End(Valid \union Bad, "DECL_OPEN", 2)]

PrologMarks ==
  [percent |-> Go(NmStrt, "peName") @@ End(White \union {"PERCNT"}, "PERCENT", 1),
   peName |-> Go(NameChars, "peName") @@ End({"SEMI"}, "PARAM_ENTITY_REF", 0),
   rsqb |-> Go({"RSQB"}, "rsqb2") @@ End(Valid \union Bad, "CLOSE_BRACKET", 1),
   rsqb2 |-> End({"GT"}, "COND_SECT_CLOSE", 0) @@ End(Valid \union Bad, "CLOSE_BRACKET", 2),
   rpar |-> End({"AST"}, "CLOSE_PAREN_ASTERISK", 0) @@ End({"QUEST"}, "CLOSE_PAREN_QUESTION", 0)
            @@ End({"PLUS"}, "CLOSE_PAREN_PLUS", 0)
            @@ End(White \union {"GT", "COMMA", "VERBAR", "RPAR"}, "CLOSE_PAREN", 1),
   pound |-> Go(NmStrt, "poundName"),
   poundName |-> Go(NameChars, "poundName")
                 @@ End(White \union {"RPAR", "GT", "PERCNT", "VERBAR"}, "POUND_NAME", 1)]

PrologNames ==
  LET Ended(tok) ==
        Go(NameChars, tok) @@ End(White \union {"GT", "RPAR", "COMMA", "VERBAR", "LSQB", "PERCNT"}, tok, 1)
      Counted == End({"PLUS"}, "NAME_PLUS", 0) @@ End({"AST"}, "NAME_ASTERISK", 0)
                 @@ End({"QUEST"}, "NAME_QUESTION", 0)
  IN  [NAME |-> Ended("NAME") @@ Counted @@ Go({"COLON"}, "colon"),
       PREFIXED_NAME |-> Ended("PREFIXED_NAME") @@ Counted @@ Go({"COLON"}, "NMTOKEN"),
       NMTOKEN |-> Ended("NMTOKEN") @@ Go({"COLON"}, "NMTOKEN"),
       colon |-> Go(NameChars, "PREFIXED_NAME") @@ Ended("NMTOKEN") @@ Go({"COLON"}, "NMTOKEN")]

\* A carriage return at the end of a buffer is left for a line feed.
Prolog ==
  LET space == Go({"S", "LF"}, "white") @@ Go({"CR"}, "whiteCR")
               @@ End(Valid \union Bad, "PROLOG_S", 1)
  IN  [prolog |-> Go({"QUOT"}, "litQUOT") @@ Go({"APOS"}, "litAPOS") @@ Go({"LT"}, "plt")
                  @@ Go({"CR"}, "firstCR") @@ Go({"S", "LF"}, "white") @@ Go({"PERCNT"}, "percent")
                  @@ End({"COMMA"}, "COMMA", 0) @@ End({"LSQB"}, "OPEN_BRACKET", 0) @@ Go({"RSQB"}, "rsqb")
                  @@ End({"LPAR"}, "OPEN_PAREN", 0) @@ Go({"RPAR"}, "rpar") @@ End({"VERBAR"}, "OR", 0)
                  @@ End({"GT"}, "DECL_CLOSE", 0) @@ Go({"NUM"}, "pound") @@ Go(NmStrt, "NAME")
                  @@ Go(NameChars \union {"COLON"}, "NMTOKEN"),
       white |-> space, whiteCR |-> space, firstCR |-> space]

-----------------------------------------------------------------------------
(* The values of attributes and of entities, whole when they are read.      *)

ValueTexts ==
  LET data == End({"AMP", "CR", "LF"}, "DATA_CHARS", 1)
      Rest(state, stops) == Go((Valid \union Bad) \ stops, state)
      vdata == data @@ End({"S"}, "DATA_CHARS", 1) @@ Rest("vdata", {"LT"})
      edata == data @@ End({"PERCNT"}, "DATA_CHARS", 1) @@ Rest("edata", {})
      first == Go({"AMP"}, "ref") @@ Go({"CR"}, "cr") @@ End({"LF"}, "DATA_NEWLINE", 0)
  IN  [attributeValue |-> first @@ End({"S"}, "ATTRIBUTE_VALUE_S", 0) @@ vdata, vdata |-> vdata,
       entityValue |-> first @@ Go({"PERCNT"}, "evPercent") @@ edata, edata |-> edata,
       evPercent |-> Go(NmStrt, "peName") ]

Scanners ==
  Comments @@ Instructions @@ EndTags @@ StartTags @@ Attributes @@ Contents @@ Sections
  @@ Literals @@ PrologDeclarations @@ PrologMarks @@ PrologNames @@ Prolog @@ ValueTexts

\* What a text is that ends in a state: open says that more might change it.
Ending(tok, back, open) == [tok |-> tok, back |-> back, open |-> open]

AtEnd ==
  [cr |-> Ending("TRAILING_CR", 0, FALSE),
   first1 |-> Ending("TRAILING_RSQB", 0, FALSE), first2 |-> Ending("TRAILING_RSQB", 0, FALSE),
   data |-> Ending("DATA_CHARS", 0, FALSE), data1 |-> Ending("DATA_CHARS", 1, FALSE),
   data2 |-> Ending("DATA_CHARS", 2, FALSE), cdData |-> Ending("DATA_CHARS", 0, FALSE),
   vdata |-> Ending("DATA_CHARS", 0, FALSE), edata |-> Ending("DATA_CHARS", 0, FALSE),
   litEnd |-> Ending("LITERAL", 0, TRUE), rsqb |-> Ending("CLOSE_BRACKET", 0, TRUE),
   rpar |-> Ending("CLOSE_PAREN", 0, TRUE), poundName |-> Ending("POUND_NAME", 0, TRUE),
   NAME |-> Ending("NAME", 0, TRUE), PREFIXED_NAME |-> Ending("PREFIXED_NAME", 0, TRUE),
   NMTOKEN |-> Ending("NMTOKEN", 0, TRUE), firstCR |-> Ending("PROLOG_S", 0, TRUE),
   white |-> Ending("PROLOG_S", 0, FALSE), whiteCR |-> Ending("PROLOG_S", 1, FALSE)]

\* Only these take half a character at the end of a text for the end of the data.
DataLoops == {"first1", "first2", "data", "data1", "data2", "cd1", "cdData"}

Width(type) == IF type = "LEAD2" THEN 2 ELSE 1

RowOf(state, type) == IF type \in DOMAIN Scanners[state] THEN Scanners[state][type] ELSE Invalid

EndsIn(state, i) ==
  IF state \in DOMAIN AtEnd
  THEN [tok |-> AtEnd[state].tok, next |-> i - AtEnd[state].back, open |-> AtEnd[state].open]
  ELSE [tok |-> "PARTIAL", next |-> i, open |-> FALSE]

\* The byte at i of the text that ends before end, read in a state.
RECURSIVE Scan(_, _, _, _)

Taken(text, i, end, state, row, width) ==
  IF row.to = ""
  THEN [tok |-> row.tok, next |-> i + 1 - row.back, open |-> FALSE]
  ELSE IF i + width > end
  THEN [tok |-> IF state \in DataLoops THEN "DATA_CHARS" ELSE "PARTIAL_CHAR", next |-> i, open |-> FALSE]
  ELSE Scan(text, i + width, end, row.to)

Scan(text, i, end, state) ==
  IF i = end THEN EndsIn(state, i)
  ELSE Taken(text, i, end, state, RowOf(state, ByteType(text[i])), Width(ByteType(text[i])))

\* XmlContentTok, XmlCdataSectionTok, XmlPrologTok, XmlAttributeValueTok and XmlEntityValueTok.
Token(tokenizer, text, i, end) ==
  IF i = end THEN [tok |-> "NONE", next |-> i, open |-> FALSE] ELSE Scan(text, i, end, tokenizer)

\* ignoreSectionTok: sections within the ignored one are counted.
RECURSIVE IgnoreSection(_, _, _, _)
IgnoreSection(text, i, end, level) ==
  LET Is(k, c) == i + k < end /\ text[i + k] = c
      Short(k) == i + k >= end
      partial  == [tok |-> "PARTIAL", next |-> i]
      type     == ByteType(text[i])
  IN  IF Short(0) THEN partial
      ELSE IF type \in Bad THEN [tok |-> "INVALID", next |-> i]
      ELSE IF \/ text[i] = "<" /\ (Short(1) \/ (Is(1, "!") /\ Short(2)))
              \/ text[i] = "]" /\ (Short(1) \/ (Is(1, "]") /\ Short(2))) THEN partial
      ELSE IF Short(Width(type) - 1) THEN [tok |-> "PARTIAL_CHAR", next |-> i]
      ELSE IF text[i] = "<" /\ Is(1, "!")
           THEN IF Is(2, "[") THEN IgnoreSection(text, i + 3, end, level + 1)
                ELSE IgnoreSection(text, i + 2, end, level)
      ELSE IF text[i] = "]" /\ Is(1, "]")
           THEN IF ~Is(2, ">") THEN IgnoreSection(text, i + 2, end, level)
                ELSE IF level = 0 THEN [tok |-> "IGNORE_SECT", next |-> i + 3]
                ELSE IgnoreSection(text, i + 3, end, level - 1)
      ELSE IgnoreSection(text, i + Width(type), end, level)

\* XmlNameLength, from i on.
RECURSIVE NameLength(_, _)
NameLength(text, i) ==
  IF i > Len(text) \/ ByteType(text[i]) \notin NameChars \union {"COLON"} THEN 0
  ELSE Width(ByteType(text[i])) + NameLength(text, i + Width(ByteType(text[i])))

NameAt(text, i) == SubSeq(text, i, i + NameLength(text, i) - 1)

=============================================================================
