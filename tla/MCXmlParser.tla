---------------------------- MODULE MCXmlParser ----------------------------
(***************************************************************************)
(* Documents with one item of every kind in their element, with two where  *)
(* the second depends on the first, with entities in one another, and with *)
(* what may and may not stand after the element.                           *)
(***************************************************************************)
EXTENDS XmlParser, SequencesExt

Predef == Text(<<"&", "lt", ";">>, <<"<">>)
Letter(c) == Text(<<c>>, <<c>>)

Items ==
  {Start("c"), EndOf("a"), EndOf("c"), Empty("c"), Instruction, Predef, Ref("e"),
   Text(<<"&", "#", "1", ";">>, <<"1">>), Text(<<"A", "CR", "LF", "]">>, <<"A", "LF", "]">>),
   Text(<<"lead", "trail", "CR", "]", "]">>, <<"lead", "trail", "LF", "]", "]">>),
   Section(<<"A", "CR", "]">>, <<"A", "LF", "]">>), Forbidden(<<"NUL">>)}

Bodies ==
  {<<i>> : i \in Items}
  \union {<<StartAtt("c"), Predef, EndOf("c")>>, <<Start("c"), Letter("A"), EndOf("a")>>,
          <<Section(<<>>, <<>>), Comment, Letter("A")>>, <<Letter("A"), Forbidden(<<"]", "]", ">">>)>>}

Simple == {<<Start("a")>> \o b \o <<EndOf("a")>> : b \in Bodies}
Ends   == {<<Instruction, Empty("a")>> \o e :
             e \in {<<Break, Comment>>, <<Comment>>, <<Letter("A")>>, <<Predef>>, <<Start("a")>>}}

\* Documents that end where nothing may end.
Unfinished ==
  {<<Start("a")>> \o b : b \in {<<>>, <<Start("c"), EndOf("c")>>, <<Letter("]")>>, <<Text(<<"CR">>, <<"LF">>)>>,
     <<Cut(<<"lead">>, <<>>, "PARTIAL_CHAR")>>, <<EndOf("a"), Cut(<<"<", "!">>, <<>>, "UNCLOSED_TOKEN")>>,
     <<Cut(<<"<", "/", "a">>, <<>>, "UNCLOSED_TOKEN")>>,
     <<Cut(<<"<", "!", "[", "CDATA", "[">>, <<<<"cdata", "">>>>, "UNCLOSED_CDATA_SECTION")>>}}
  \union {<<Instruction, Cut(<<"<">>, <<>>, "UNCLOSED_TOKEN")>>, <<Instruction>>, <<Doctype("a", <<>>), Cut(<<"CR">>, <<>>, "NO_ELEMENTS")>>}

Entities ==
  {<< <<"e", <<Letter("A"), Empty("c")>>>> >>, << <<"e", <<Start("c")>>>> >>, << <<"e", <<EndOf("a")>>>> >>,
   << <<"e", <<Letter("A"), Ref("f")>>>>, <<"f", <<Letter("B"), Comment>>>> >>,
   << <<"e", <<Letter("A")>>>>, <<"e", <<Letter("B")>>>> >>,
   << <<"e", <<Ref("f")>>>>, <<"f", <<Ref("e")>>>> >>,
   << <<"e", <<Section(<<"A">>, <<"A">>), Letter("]")>>>> >>}

WithEntities ==
  {<<Doctype("a", e), Start("a"), Ref("e"), EndOf("a")>> : e \in Entities}
  \union {<<Doctype("a", << <<"e", <<Start("c")>>>> >>), Start("a"), Ref("e"), EndOf("c"), EndOf("a")>>}
  \union {<<Doctype("a", << <<"e", <<Letter("A"), Comment>>>> >>), Start("a"), Ref("e"), Start("c")>> \o rest :
             rest \in {<<Letter("B"), EndOf("c"), EndOf("a")>>, <<Letter("B"), EndOf("a"), EndOf("c")>>}}

MCDocuments ==
  Simple \union Unfinished \union {<<Start("a"), Section(<<"A">>, <<"A">>), EndOf("a"), Comment>>}
  \union Ends \union WithEntities \union {<<Doctype("a", <<>>), Comment, Empty("a")>>}

IgnoredPieces == {<<"<", "!", "[">>, <<"]", "]", ">">>, <<"]">>, <<"<", "!">>, <<"z">>, <<"<">>}

\* XML 1.0 [64]: how many conditional sections are open behind the first k symbols.
Nested(text, k) == Cardinality({j \in 3 .. k : SubSeq(text, j - 2, j) = <<"<", "!", "[">>})
Unnested(text, k) == Cardinality({j \in 3 .. k : SubSeq(text, j - 2, j) = <<"]", "]", ">">>})
Closings(text)   == {k \in 1 .. Len(text) : Unnested(text, k) > Nested(text, k)}

\* A run of three "]" hides the end of the section from ignoreSectionTok, which reads them two at a time.
ThreeBrackets(text) == \E j \in 3 .. Len(text) : SubSeq(text, j - 2, j) = <<"]", "]", "]">>

(* ignoreSectionTok ends an ignored section behind the first "]]>" that    *)
(* closes one more than was opened in it, and asks for more input if there *)
(* is none, for every text but those with three brackets in a row.         *)
ASSUME IgnoredSectionsNest ==
  \A n \in 0 .. 5 : \A pieces \in [1 .. n -> IgnoredPieces] :
    LET text == FlattenSeq(pieces)
        scan == IgnoreSection(text, 1, Len(text) + 1, 0)
    IN  ThreeBrackets(text)
        \/ IF Closings(text) = {} THEN scan.tok = "PARTIAL"
           ELSE scan = [tok |-> "IGNORE_SECT", next |-> (CHOOSE k \in Closings(text) : \A l \in Closings(text) : k <= l) + 1]

=============================================================================
