----------------------------- MODULE MCEdiBuild -----------------------------
(***************************************************************************)
(* Instances of EdiBuild: interchanges of two segments, in the styles of   *)
(* the three presets, into buffers too small and large enough.             *)
(***************************************************************************)
EXTENDS EdiBuildText

CONSTANT MaxBuf   \* bound: more than any of the texts

Style(seg_, data_, sub_, tag_, escape_, name_, trailer_) ==
  [seg |-> seg_, data |-> data_, sub |-> sub_, tag |-> tag_, escape |-> escape_,
   name |-> name_, trailer |-> trailer_]

EDIFACT   == Style("'", "+", ":", "+", "?", <<"U">>, <<"%s", "%E", ".", "%R", "%S">>)
TRADACOMS == Style("'", "+", ":", "=", "?", NoName, <<>>)
X12       == Style("~", ":", "*", ":", NUL, <<"I">>, <<"%_", "%E", "%s", "%S">>)
Odd       == Style("'", "+", ":", "=", "?", <<"+">>, <<"%T", "%x", "%">>)

MCChars  == {"'", "+", ":", "?", "=", "~", "*", ".", "%", "U", "I"}
Texts    == {<<>>, <<"U">>, <<"I">>, <<"+", "?">>}
Simple   == {[type |-> "simple", values |-> <<[text |-> t]>>] : t \in Texts}
Short    == [text |-> <<"U">>]
Composites ==
  {[type |-> "composite", values |-> v] : v \in {<<>>, <<Short>>, <<[text |-> <<>>], Short>>}}
Elements == Simple \union Composites
Segments == {[elements |-> es] : es \in {<<>>} \union {<<x>> : x \in Elements}
                                   \union (Elements \X Simple)}

MCTrees == {<<>>} \union {<<s>> : s \in Segments}
             \union {<<s, [elements |-> <<x>>]>> : s \in Segments, x \in Elements}

MCParams  == {EDIFACT, TRADACOMS, X12, Odd}
MCBufLens == 0..MaxBuf

=============================================================================
