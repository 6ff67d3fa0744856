------------------------------ MODULE MCEdiXml ------------------------------
(***************************************************************************)
(* Small instances of EdiXml for TLC.                                      *)
(***************************************************************************)
EXTENDS EdiXml

S(v)  == [type |-> "S", values |-> <<v>>]
C(vs) == [type |-> "C", values |-> vs]
Seg(tag, data) == [tag |-> tag, elements |-> <<S(tag)>> \o data]

Child(optional, composite, name) == [optional |-> optional, composite |-> composite, name |-> name]

\* BGM has a composite that can be truncated, an optional element, a mandatory
\* one, and a composite that cannot be truncated; RFF names a composite and an
\* element that no table has.
SegmentTable ==
  [UNB |-> << >>, UNZ |-> << >>,
   UNH |-> <<Child(FALSE, FALSE, "E1"), Child(FALSE, TRUE, "C4")>>,
   UNT |-> <<Child(TRUE, FALSE, "E1")>>,
   BGM |-> <<Child(TRUE, TRUE, "C2"), Child(TRUE, FALSE, "E1"), Child(FALSE, FALSE, "E2")>>,
   DTM |-> <<Child(FALSE, TRUE, "C3"), Child(TRUE, FALSE, "E2")>>,
   RFF |-> <<Child(TRUE, FALSE, "E9"), Child(TRUE, TRUE, "C9")>>]

Part(optional, name) == [optional |-> optional, name |-> name]
CompositeTable ==
  [C2 |-> <<Part(FALSE, "E1"), Part(TRUE, "E2")>>,
   C3 |-> <<Part(TRUE, "E1"), Part(FALSE, "E2")>>,
   C4 |-> [n \in 1..4 |-> Part(n > 1, "E1")]]

\* E2 is coded, and the title of E1 cannot be decoded.
ElementTable ==
  [E1 |-> [coded |-> FALSE, title |-> "bad"], E2 |-> [coded |-> TRUE, title |-> "t"]]
CodeTable == << <<"E2", "a">>, <<"E2", "b">> >>
Coded == [c \in ToSet(CodeTable) |-> IF c[2] = "a" THEN "t" ELSE "bad"]

NoSegments == <<>>
UNB == Seg("UNB", <<>>)
UNZ == Seg("UNZ", <<>>)
UNH == Seg("UNH", <<S("a"), C(<<"a", "", "", "a">>)>>)
UNT == Seg("UNT", <<>>)
Void == [tag |-> "NULL", elements |-> <<>>]

BGMs == {Seg("BGM", data) : data \in
  {<<>>,
   <<C(<<"a", "a">>), S(""), S("a")>>,      \* as the table has it
   <<C(<<"a", "a">>), S("a"), S("b")>>,     \* a code whose title is bad
   <<C(<<"", "x", "a">>), S("bad")>>,
   <<S("a"), C(<<"a", "a">>), S("x"), S("a")>>,
   <<S("a"), S("wide"), C(<<"a", "a">>)>>}}
DTMs == {Seg("DTM", data) : data \in {<<C(<<"", "a">>)>>, <<S("a")>>, <<C(<<"a", "">>), S("a")>>}}
RFFs == {Seg("RFF", data) : data \in {<<S("a")>>, <<S("a"), S("a")>>}}
Unknown == [tag |-> "XXX", elements |-> <<C(<<"XXX", "a">>)>>]
Headless == [tag |-> "BGM", elements |-> <<C(<<"BGM", "a">>)>>]

MessageSet ==
  {NoSegments, <<UNB, UNH, UNT, UNZ>>, <<UNB, Seg("UNH", <<S("a")>>), UNZ>>, <<UNT>>,
   <<Seg("UNG", <<>>), Unknown, Seg("UNE", <<>>)>>, <<UNH, Void>>, <<Headless>>}
  \union {<<UNH, sg, UNT>> : sg \in BGMs \union DTMs}
  \union {<<sg>> : sg \in RFFs}

Settings(names, others, translate, toElements) ==
  [names |-> names, segments |-> others, codes |-> others, errors |-> others,
   translate |-> translate, elements |-> toElements]
OptionSet ==
  {Settings(FALSE, FALSE, FALSE, FALSE), Settings(TRUE, FALSE, TRUE, FALSE),
   Settings(FALSE, TRUE, TRUE, TRUE)}

Bad  == {"bad"}
Large == {"wide"}

=============================================================================
