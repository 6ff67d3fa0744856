----------------------------- MODULE Expat_proofs -----------------------------
(***************************************************************************)
(* What doProlog of expat/lib/xmlparse.c keeps.  Of content models         *)
(* (XmlDeclarations): their arrays are never written or read outside their *)
(* bounds, whatever tokens come, however many, and whatever sizes the      *)
(* arrays begin with.  Of entities (XmlEntities): none is read within      *)
(* itself, and a reference is refused when XML 1.0 says so, whatever is    *)
(* declared, and whatever the application does of files.                   *)
(***************************************************************************)
EXTENDS XmlDeclarations, XmlEntities, TLAPS

-----------------------------------------------------------------------------
(* Sequences of anything                                                    *)

\* s is a sequence, of whatever it holds.
IsSeq(s) == s \in Seq({s[n] : n \in DOMAIN s})

\* A sequence over a set is one.
LEMMA SeqIsSeq ==
  ASSUME NEW S, NEW s \in Seq(S)
  PROVE  IsSeq(s)
<1>1. Len(s) \in Nat /\ DOMAIN s = 1..Len(s)
  OBVIOUS
<1>2. \A n \in 1..Len(s) : s[n] \in {s[m] : m \in DOMAIN s}
  BY <1>1
<1> QED BY <1>1, <1>2 DEF IsSeq

\* A function on 1..n is a sequence of length n.
LEMMA IsSeqOn ==
  ASSUME NEW S, NEW n \in Nat, NEW s \in [1..n -> S]
  PROVE  IsSeq(s) /\ Len(s) = n
<1>1. s \in Seq(S) /\ Len(s) = n
  OBVIOUS
<1> QED BY <1>1, SeqIsSeq

\* One more
LEMMA IsSeqAppend ==
  ASSUME NEW s, IsSeq(s), NEW e
  PROVE  /\ IsSeq(Append(s, e))
         /\ Len(Append(s, e)) = Len(s) + 1
<1> DEFINE S == {s[n] : n \in DOMAIN s} \union {e}
<1>1. s \in Seq(S) /\ e \in S
  BY DEF IsSeq
<1> HIDE DEF S
<1>2. Append(s, e) \in Seq(S) /\ Len(Append(s, e)) = Len(s) + 1
  BY <1>1
<1> QED BY <1>2, SeqIsSeq

\* Another value at one place
LEMMA IsSeqExcept ==
  ASSUME NEW s, IsSeq(s), NEW x, NEW e
  PROVE  /\ IsSeq([s EXCEPT ![x] = e])
         /\ Len([s EXCEPT ![x] = e]) = Len(s)
<1> DEFINE S == {s[n] : n \in DOMAIN s} \union {e}
<1>1. s \in Seq(S) /\ e \in S
  BY DEF IsSeq
<1> HIDE DEF S
<1>2. Len(s) \in Nat /\ s \in [1..Len(s) -> S]
  BY <1>1
<1>3. [s EXCEPT ![x] = e] \in [1..Len(s) -> S]
  BY <1>1, <1>2
<1> QED BY <1>2, <1>3, IsSeqOn

-----------------------------------------------------------------------------
(* The rows of the handlers                                                 *)

ContentHandlers ==
  {"element1", "element2", "element3", "element4", "element5", "element6", "element7"}

ParticleRoles == {"CONTENT_ELEMENT", "CONTENT_ELEMENT_OPT", "CONTENT_ELEMENT_REP", "CONTENT_ELEMENT_PLUS"}
CloseRoles == {"GROUP_CLOSE", "GROUP_CLOSE_OPT", "GROUP_CLOSE_REP", "GROUP_CLOSE_PLUS"}

DtdHandlers ==
  {"prolog0", "prolog1", "prolog2", "doctype0", "doctype1", "doctype2", "doctype3", "doctype4",
   "doctype5", "internalSubset", "externalSubset0", "externalSubset1", "condSect0", "condSect1",
   "condSect2", "entity0", "entity1", "entity2", "entity3", "entity4", "entity5", "entity6",
   "entity7", "entity8", "entity9", "entity10", "notation0", "notation1", "notation2", "notation3",
   "notation4", "attlist0", "attlist1", "attlist2", "attlist3", "attlist4", "attlist5", "attlist6",
   "attlist7", "attlist8", "attlist9", "element0", "declClose", "error"} \union ContentHandlers

\* The roles at which doProlog does something to the groups
Roles ==
  {"ERROR", "GROUP_OPEN", "GROUP_SEQUENCE", "GROUP_CHOICE", "ELEMENT_NAME", "CONTENT_ANY",
   "CONTENT_EMPTY", "CONTENT_PCDATA"} \union ParticleRoles \union CloseRoles

\* The roles of white space
Spaces ==
  {"NONE", "DOCTYPE_NONE", "ENTITY_NONE", "NOTATION_NONE", "ATTLIST_NONE", "ELEMENT_NONE", "role_none"}

\* White space does nothing to the groups.
LEMMA SpacesDoNothing == Spaces \cap Roles = {}
BY DEF Spaces, Roles, ParticleRoles, CloseRoles

\* The rows of the content models
ContentRow(h, row) ==
  \/ h = "element0" /\ row.to = "element1" /\ row.role = "ELEMENT_NAME"
  \/ h = "element1" /\ row.to = "declClose" /\ row.role \in {"CONTENT_ANY", "CONTENT_EMPTY"}
  \/ h = "element1" /\ row.to = "element2" /\ row.role = "GROUP_OPEN"
  \/ h = "element2" /\ row.to = "element3" /\ row.role = "CONTENT_PCDATA"
  \/ h = "element2" /\ row.to = "element6" /\ row.role = "GROUP_OPEN"
  \/ h = "element6" /\ row.to = Same /\ row.role = "GROUP_OPEN"
  \/ h \in {"element2", "element6"} /\ row.to = "element7" /\ row.role \in ParticleRoles
  \/ h \in {"element3", "element5"} /\ row.to = "declClose" /\ row.role \in CloseRoles
  \/ h \in {"element3", "element5"} /\ row.to = "element4" /\ row.role = "ELEMENT_NONE"
  \/ h = "element4" /\ row.to = "element5" /\ row.role \in ParticleRoles
  \/ h = "element7" /\ row.to = Same /\ row.role \in CloseRoles
  \/ h = "element7" /\ row.to = "element6" /\ row.role \in {"GROUP_SEQUENCE", "GROUP_CHOICE"}

\* Any other row
OtherRow(h, row) ==
  /\ h \notin ContentHandlers
  /\ row.to \in (DtdHandlers \ ContentHandlers) \union {Top, Same}
  /\ row.role \notin Roles

Known(h, row) == ContentRow(h, row) \/ OtherRow(h, row)

\* The rows a handler is given
LEMMA RowFields ==
  /\ \A tok, to, role : \A row \in On(tok, to, role) : row.to = to /\ row.role = role
  /\ \A tok, word, to, role : \A row \in OnWord(tok, word, to, role) : row.to = to /\ row.role = role
  /\ \A to, role : \A row \in OnName(to, role) : row.to = to /\ row.role = role
BY DEF On, OnWord, OnName

\* No content model
LEMMA PrologRows ==
  \A h \in DOMAIN PrologHandlers : \A row \in PrologHandlers[h] : OtherRow(h, row)
<1>1. DOMAIN PrologHandlers = {"prolog0", "prolog1", "prolog2"}
  BY DEF PrologHandlers
<1>2. ASSUME NEW h \in {"prolog0", "prolog1", "prolog2"}, NEW row \in PrologHandlers[h]
      PROVE  /\ row.to \in {"prolog0", "prolog1", "prolog2", "doctype0", "error", Same}
             /\ row.role \in {"PI", "COMMENT", "DOCTYPE_NONE", "NONE", "INSTANCE_START", "XML_DECL"}
  BY <1>2, RowFields DEF PrologHandlers, Misc
<1> QED BY <1>1, <1>2 DEF OtherRow, ContentHandlers, DtdHandlers, Roles, ParticleRoles, CloseRoles, Same

\* No content model
LEMMA DoctypeRows ==
  \A h \in DOMAIN DoctypeHandlers : \A row \in DoctypeHandlers[h] : OtherRow(h, row)
<1>1. DOMAIN DoctypeHandlers = {"doctype0", "doctype1", "doctype2", "doctype3", "doctype4", "doctype5"}
  BY DEF DoctypeHandlers
<1>2. ASSUME NEW h \in DOMAIN DoctypeHandlers, NEW row \in DoctypeHandlers[h]
      PROVE  /\ row.to \in {"doctype1", "internalSubset", "prolog2", "doctype3", "doctype2",
                            "doctype4"}
             /\ row.role \in {"DOCTYPE_NAME", "DOCTYPE_INTERNAL_SUBSET", "DOCTYPE_CLOSE",
                              "DOCTYPE_NONE", "DOCTYPE_PUBLIC_ID", "DOCTYPE_SYSTEM_ID"}
  BY <1>1, <1>2, RowFields DEF DoctypeHandlers, Externals
<1> QED BY <1>1, <1>2 DEF OtherRow, ContentHandlers, DtdHandlers, Roles, ParticleRoles, CloseRoles, Same, Top

\* No content model
LEMMA SubsetRows ==
  \A h \in DOMAIN SubsetHandlers : \A row \in SubsetHandlers[h] : OtherRow(h, row)
<1>1. DOMAIN SubsetHandlers = {"internalSubset", "externalSubset0", "externalSubset1", "condSect0", "condSect1", "condSect2"}
  BY DEF SubsetHandlers
<1>2. ASSUME NEW h \in DOMAIN SubsetHandlers, NEW row \in SubsetHandlers[h]
      PROVE  /\ row.to \in {"entity0", "attlist0", "element0", "notation0", Same, "doctype5",
                            "externalSubset1", "condSect0", "condSect1", "condSect2"}
             /\ row.role \in {"ENTITY_NONE", "ATTLIST_NONE", "ELEMENT_NONE", "NOTATION_NONE", "PI",
                              "COMMENT", "PARAM_ENTITY_REF", "DOCTYPE_NONE", "NONE", "TEXT_DECL",
                              "IGNORE_SECT"}
  BY <1>1, <1>2, RowFields DEF SubsetHandlers, Declarations, Misc
<1> QED BY <1>1, <1>2 DEF OtherRow, ContentHandlers, DtdHandlers, Roles, ParticleRoles, CloseRoles, Same, Top

\* No content model
LEMMA GeneralEntityRows ==
  \A h \in DOMAIN GeneralEntityHandlers : \A row \in GeneralEntityHandlers[h] : OtherRow(h, row)
<1>1. DOMAIN GeneralEntityHandlers = {"entity0", "entity1", "entity2", "entity3", "entity4", "entity5", "entity6"}
  BY DEF GeneralEntityHandlers
<1>2. ASSUME NEW h \in DOMAIN GeneralEntityHandlers, NEW row \in GeneralEntityHandlers[h]
      PROVE  /\ row.to \in {"declClose", "entity1", "entity2", "entity7", "entity4", "entity3",
                            "entity5", "entity6", Top}
             /\ row.role \in {"ENTITY_NONE", "GENERAL_ENTITY_NAME", "PARAM_ENTITY_NAME",
                              "ENTITY_VALUE", "ENTITY_PUBLIC_ID", "ENTITY_SYSTEM_ID",
                              "ENTITY_COMPLETE", "ENTITY_NOTATION_NAME"}
  BY <1>1, <1>2, RowFields DEF GeneralEntityHandlers, EntityValue, EntityComplete, Externals
<1> QED BY <1>1, <1>2 DEF OtherRow, ContentHandlers, DtdHandlers, Roles, ParticleRoles, CloseRoles, Same, Top

\* No content model
LEMMA ParamEntityRows ==
  \A h \in DOMAIN ParamEntityHandlers : \A row \in ParamEntityHandlers[h] : OtherRow(h, row)
<1>1. DOMAIN ParamEntityHandlers = {"entity7", "entity8", "entity9", "entity10"}
  BY DEF ParamEntityHandlers
<1>2. ASSUME NEW h \in DOMAIN ParamEntityHandlers, NEW row \in ParamEntityHandlers[h]
      PROVE  /\ row.to \in {"declClose", "entity9", "entity8", "entity10", Top}
             /\ row.role \in {"ENTITY_VALUE", "ENTITY_NONE", "ENTITY_PUBLIC_ID",
                              "ENTITY_SYSTEM_ID", "ENTITY_COMPLETE"}
  BY <1>1, <1>2, RowFields DEF ParamEntityHandlers, EntityValue, EntityComplete, Externals
<1> QED BY <1>1, <1>2 DEF OtherRow, ContentHandlers, DtdHandlers, Roles, ParticleRoles, CloseRoles, Same, Top

\* No content model
LEMMA NotationRows ==
  \A h \in DOMAIN NotationHandlers : \A row \in NotationHandlers[h] : OtherRow(h, row)
<1>1. DOMAIN NotationHandlers = {"notation0", "notation1", "notation2", "notation3", "notation4"}
  BY DEF NotationHandlers
<1>2. ASSUME NEW h \in DOMAIN NotationHandlers, NEW row \in NotationHandlers[h]
      PROVE  /\ row.to \in {"notation1", "notation2", "notation3", "notation4", "declClose", Top}
             /\ row.role \in {"NOTATION_NAME", "NOTATION_NONE", "NOTATION_PUBLIC_ID",
                              "NOTATION_SYSTEM_ID", "NOTATION_NO_SYSTEM_ID"}
  BY <1>1, <1>2, RowFields DEF NotationHandlers, Externals
<1> QED BY <1>1, <1>2 DEF OtherRow, ContentHandlers, DtdHandlers, Roles, ParticleRoles, CloseRoles, Same, Top

\* No content model
LEMMA AttlistTypeRows ==
  \A h \in DOMAIN AttlistTypeHandlers : \A row \in AttlistTypeHandlers[h] : OtherRow(h, row)
<1>1. DOMAIN AttlistTypeHandlers = {"attlist0", "attlist1", "attlist2"}
  BY DEF AttlistTypeHandlers
<1>2. ASSUME NEW h \in DOMAIN AttlistTypeHandlers, NEW row \in AttlistTypeHandlers[h]
      PROVE  /\ row.to \in {"attlist1", "attlist2", "attlist3", "attlist5", "attlist8", Top}
             /\ row.role \in {"ATTLIST_ELEMENT_NAME", "ATTLIST_NONE", "ATTRIBUTE_NAME",
                              "ATTRIBUTE_TYPE_CDATA", "ATTRIBUTE_TYPE_ID", "ATTRIBUTE_TYPE_IDREF",
                              "ATTRIBUTE_TYPE_IDREFS", "ATTRIBUTE_TYPE_ENTITY",
                              "ATTRIBUTE_TYPE_ENTITIES", "ATTRIBUTE_TYPE_NMTOKEN",
                              "ATTRIBUTE_TYPE_NMTOKENS"}
  BY <1>1, <1>2, RowFields DEF AttlistTypeHandlers, OfType, AttlistNone
<1> QED BY <1>1, <1>2 DEF OtherRow, ContentHandlers, DtdHandlers, Roles, ParticleRoles, CloseRoles, Same, Top

\* No content model
LEMMA AttlistValueRows ==
  \A h \in DOMAIN AttlistValueHandlers : \A row \in AttlistValueHandlers[h] : OtherRow(h, row)
<1>1. DOMAIN AttlistValueHandlers = {"attlist3", "attlist4", "attlist5", "attlist6", "attlist7", "attlist8", "attlist9"}
  BY DEF AttlistValueHandlers
<1>2. ASSUME NEW h \in DOMAIN AttlistValueHandlers, NEW row \in AttlistValueHandlers[h]
      PROVE  /\ row.to \in {"attlist1", "attlist3", "attlist4", "attlist6", "attlist7", "attlist8",
                            "attlist9"}
             /\ row.role \in {"ATTRIBUTE_ENUM_VALUE", "ATTLIST_NONE", "ATTRIBUTE_NOTATION_VALUE",
                              "IMPLIED_ATTRIBUTE_VALUE", "REQUIRED_ATTRIBUTE_VALUE",
                              "DEFAULT_ATTRIBUTE_VALUE", "FIXED_ATTRIBUTE_VALUE"}
  BY <1>1, <1>2, RowFields DEF AttlistValueHandlers, AttlistNone
<1> QED BY <1>1, <1>2 DEF OtherRow, ContentHandlers, DtdHandlers, Roles, ParticleRoles, CloseRoles, Same, Top

\* The content models
LEMMA ElementRows ==
  \A h \in DOMAIN ElementHandlers : \A row \in ElementHandlers[h] : ContentRow(h, row)
<1>1. DOMAIN ElementHandlers = {"element0", "element1", "element2"}
  BY DEF ElementHandlers
<1>2. ASSUME NEW row \in Particles PROVE row.to = "element7" /\ row.role \in ParticleRoles
  BY <1>2, RowFields DEF Particles, ParticleRoles
<1>3. ASSUME NEW row \in ElementHandlers["element0"] PROVE ContentRow("element0", row)
  BY <1>3, RowFields DEF ElementHandlers, ContentRow
<1>4. ASSUME NEW row \in ElementHandlers["element1"] PROVE ContentRow("element1", row)
  BY <1>4, RowFields DEF ElementHandlers, ContentRow
<1>5. ASSUME NEW row \in ElementHandlers["element2"] PROVE ContentRow("element2", row)
  BY <1>2, <1>5, RowFields DEF ElementHandlers, ContentRow
<1> QED BY <1>1, <1>3, <1>4, <1>5

\* Mixed content
LEMMA MixedRows ==
  \A h \in DOMAIN MixedHandlers : \A row \in MixedHandlers[h] : ContentRow(h, row)
<1>1. DOMAIN MixedHandlers = {"element3", "element4", "element5"}
  BY DEF MixedHandlers
<1>2. ASSUME NEW h \in DOMAIN MixedHandlers, NEW row \in MixedHandlers[h]
      PROVE  ContentRow(h, row)
  BY <1>1, <1>2, RowFields DEF MixedHandlers, ContentRow, Shut, ShutAsterisk, ParticleRoles, CloseRoles
<1> QED BY <1>2

\* Groups of children
LEMMA ChildrenRows ==
  \A h \in DOMAIN ChildrenHandlers : \A row \in ChildrenHandlers[h] : ContentRow(h, row)
<1>1. DOMAIN ChildrenHandlers = {"element6", "element7"}
  BY DEF ChildrenHandlers
<1>2. ASSUME NEW row \in Particles PROVE row.to = "element7" /\ row.role \in ParticleRoles
  BY <1>2, RowFields DEF Particles, ParticleRoles
<1>3. ASSUME NEW row \in ChildrenHandlers["element6"] PROVE ContentRow("element6", row)
  BY <1>2, <1>3, RowFields DEF ChildrenHandlers, ContentRow
<1>4. ASSUME NEW row \in ChildrenHandlers["element7"] PROVE ContentRow("element7", row)
  BY <1>4, RowFields DEF ChildrenHandlers, ContentRow, Shut, ShutAsterisk, ShutQuestion, ShutPlus, CloseRoles
<1> QED BY <1>1, <1>3, <1>4

\* The end of a declaration
LEMMA CloseRows ==
  \A h \in DOMAIN CloseHandlers : \A row \in CloseHandlers[h] : OtherRow(h, row) /\ row.to = Top
<1>1. DOMAIN CloseHandlers = {"declClose", "error"}
  BY DEF CloseHandlers
<1>2. ASSUME NEW h \in DOMAIN CloseHandlers, NEW row \in CloseHandlers[h]
      PROVE  row.to = Top /\ row.role = "role_none"
  BY <1>1, <1>2, RowFields DEF CloseHandlers
<1> QED BY <1>1, <1>2 DEF OtherRow, ContentHandlers, DtdHandlers, Roles, ParticleRoles, CloseRoles, Top

\* Every row of a handler is of a content model or of none, and what is said of
\* white space changes no group.
LEMMA RowsKnown ==
  ASSUME NEW h \in DtdHandlers
  PROVE  /\ \A row \in Rows(h) : Known(h, row)
         /\ RoleOfSpace(h) \in Spaces
<1> DEFINE n == CHOOSE m \in DOMAIN Groups : h \in DOMAIN Groups[m].rows
<1>1. DOMAIN Groups = 1..12
  BY DEF Groups
<1>2. /\ Groups[1].rows = PrologHandlers /\ Groups[2].rows = SubsetHandlers
      /\ Groups[3].rows = DoctypeHandlers /\ Groups[4].rows = GeneralEntityHandlers
      /\ Groups[5].rows = ParamEntityHandlers /\ Groups[6].rows = NotationHandlers
      /\ Groups[7].rows = AttlistTypeHandlers /\ Groups[8].rows = AttlistValueHandlers
      /\ Groups[9].rows = ElementHandlers /\ Groups[10].rows = MixedHandlers
      /\ Groups[11].rows = ChildrenHandlers /\ Groups[12].rows = CloseHandlers
  BY DEF Groups, Group
<1>3. \A m \in 1..12 : Groups[m].space \in
        {"NONE", "DOCTYPE_NONE", "ENTITY_NONE", "NOTATION_NONE", "ATTLIST_NONE", "ELEMENT_NONE", "role_none"}
  BY DEF Groups, Group
<1>4. \E m \in 1..12 : h \in DOMAIN Groups[m].rows
  <2>1. /\ DOMAIN PrologHandlers = {"prolog0", "prolog1", "prolog2"}
        /\ DOMAIN SubsetHandlers = {"internalSubset", "externalSubset0", "externalSubset1",
                                    "condSect0", "condSect1", "condSect2"}
        /\ DOMAIN DoctypeHandlers = {"doctype0", "doctype1", "doctype2", "doctype3", "doctype4", "doctype5"}
    BY DEF PrologHandlers, SubsetHandlers, DoctypeHandlers
  <2>2. /\ DOMAIN GeneralEntityHandlers = {"entity0", "entity1", "entity2", "entity3", "entity4",
                                           "entity5", "entity6"}
        /\ DOMAIN ParamEntityHandlers = {"entity7", "entity8", "entity9", "entity10"}
        /\ DOMAIN NotationHandlers = {"notation0", "notation1", "notation2", "notation3", "notation4"}
    BY DEF GeneralEntityHandlers, ParamEntityHandlers, NotationHandlers
  <2>3. /\ DOMAIN AttlistTypeHandlers = {"attlist0", "attlist1", "attlist2"}
        /\ DOMAIN AttlistValueHandlers = {"attlist3", "attlist4", "attlist5", "attlist6", "attlist7",
                                          "attlist8", "attlist9"}
    BY DEF AttlistTypeHandlers, AttlistValueHandlers
  <2>4. /\ DOMAIN ElementHandlers = {"element0", "element1", "element2"}
        /\ DOMAIN MixedHandlers = {"element3", "element4", "element5"}
        /\ DOMAIN ChildrenHandlers = {"element6", "element7"}
        /\ DOMAIN CloseHandlers = {"declClose", "error"}
    BY DEF ElementHandlers, MixedHandlers, ChildrenHandlers, CloseHandlers
  <2>5. \/ h \in DOMAIN PrologHandlers \/ h \in DOMAIN SubsetHandlers \/ h \in DOMAIN DoctypeHandlers
        \/ h \in DOMAIN GeneralEntityHandlers \/ h \in DOMAIN ParamEntityHandlers
        \/ h \in DOMAIN NotationHandlers \/ h \in DOMAIN AttlistTypeHandlers
        \/ h \in DOMAIN AttlistValueHandlers \/ h \in DOMAIN ElementHandlers
        \/ h \in DOMAIN MixedHandlers \/ h \in DOMAIN ChildrenHandlers \/ h \in DOMAIN CloseHandlers
    BY <2>1, <2>2, <2>3, <2>4 DEF DtdHandlers, ContentHandlers
  <2>6. 1..12 = {1, 2, 3, 4, 5, 6, 7, 8, 9, 10, 11, 12}
    OBVIOUS
  <2> QED BY <1>2, <2>5, <2>6, Zenon
<1>5. n \in 1..12 /\ h \in DOMAIN Groups[n].rows
  BY <1>1, <1>4, Zenon
<1>6. Rows(h) = Groups[n].rows[h] /\ RoleOfSpace(h) = Groups[n].space
  BY Zenon DEF Rows, RoleOfSpace, GroupOf
<1> HIDE DEF n
<1>7. \A row \in Rows(h) : Known(h, row)
  <2> TAKE row \in Rows(h)
  <2>1. n \in {1, 2, 3, 4, 5, 6, 7, 8, 9, 10, 11, 12}
    BY <1>5
  <2> QED
    BY <1>2, <1>5, <1>6, <2>1, PrologRows, DoctypeRows, SubsetRows, GeneralEntityRows, ParamEntityRows,
       NotationRows, AttlistTypeRows, AttlistValueRows, ElementRows, MixedRows, ChildrenRows, CloseRows
       DEF Known
<1>8. RoleOfSpace(h) \in Spaces
  BY <1>3, <1>5, <1>6 DEF Spaces
<1> QED BY <1>7, <1>8

-----------------------------------------------------------------------------
(* What a token makes of the prolog state                                   *)

\* How many groups are open
Nesting(s) ==
  IF s.handler \in {"element2", "element3", "element4", "element5"} THEN 1
  ELSE IF s.handler \in {"element6", "element7"} THEN s.level ELSE 0

InContent(s) == s.handler \in ContentHandlers

StateOK(s) ==
  /\ s \in [handler : DtdHandlers, level : Nat, includeLevel : Int, role_none : Spaces,
            documentEntity : BOOLEAN]
  /\ s.handler = "element2" => s.level = 1
  /\ s.handler \in {"element6", "element7"} => s.level >= 1

\* From state s to state n by role r
Moves(s, n, r) ==
  \/ r \notin Roles /\ Nesting(n) = Nesting(s) /\ (InContent(n) <=> InContent(s))
  \/ r = "ERROR" /\ Nesting(n) = 0
  \/ r = "ELEMENT_NAME" /\ ~InContent(s) /\ n.handler = "element1"
  \/ r \in {"CONTENT_ANY", "CONTENT_EMPTY"} /\ Nesting(n) = 0
  \/ r = "GROUP_OPEN" /\ InContent(s) /\ InContent(n) /\ Nesting(n) = Nesting(s) + 1 /\ n.level = Nesting(n)
  \/ r \in {"CONTENT_PCDATA"} \union ParticleRoles
     /\ InContent(s) /\ InContent(n) /\ Nesting(n) = Nesting(s) /\ Nesting(s) >= 1
  \/ r \in {"GROUP_SEQUENCE", "GROUP_CHOICE"}
     /\ InContent(s) /\ InContent(n) /\ Nesting(n) = Nesting(s) /\ n.level = Nesting(s) /\ Nesting(s) >= 1
  \/ r \in CloseRoles
     /\ Nesting(s) >= 1 /\ Nesting(n) = Nesting(s) - 1 /\ (InContent(n) <=> Nesting(s) # 1)

\* As many as are open
LEMMA NestingIsNat == \A s : StateOK(s) => Nesting(s) \in Nat
BY DEF StateOK, Nesting

\* A row of a content model goes as many groups down or up as doProlog does.
LEMMA ContentMoves ==
  ASSUME NEW s, StateOK(s), NEW row, ContentRow(s.handler, row),
         NEW i \in Int,
         NEW n, n = [s EXCEPT
                       !.handler = Resolved(s, row, Level(s, row.role)),
                       !.level = Level(s, row.role),
                       !.includeLevel = i,
                       !.role_none = IF Resolved(s, row, Level(s, row.role)) = "declClose"
                                     THEN RoleOfSpace(s.handler) ELSE @]
  PROVE  StateOK(n) /\ Moves(s, n, row.role) /\ row.role # "role_none"
<1>1. RoleOfSpace(s.handler) \in Spaces
  BY RowsKnown DEF StateOK
<1>2. /\ n.handler = Resolved(s, row, Level(s, row.role)) /\ n.level = Level(s, row.role)
      /\ n.role_none \in Spaces /\ n.includeLevel \in Int /\ n.documentEntity \in BOOLEAN
      /\ n = [handler |-> n.handler, level |-> n.level, includeLevel |-> n.includeLevel,
              role_none |-> n.role_none, documentEntity |-> n.documentEntity]
  BY <1>1 DEF StateOK
<1>3. s.level \in Nat /\ s.handler \in DtdHandlers
  BY DEF StateOK
<1>4. ASSUME n.handler \in DtdHandlers, n.level \in Nat, n.handler = "element2" => n.level = 1,
             n.handler \in {"element6", "element7"} => n.level >= 1
      PROVE  StateOK(n)
  BY <1>2, <1>4 DEF StateOK
<1> DEFINE l == Level(s, row.role)
<1>5. CASE s.handler = "element0" /\ row.to = "element1" /\ row.role = "ELEMENT_NAME"
  <2>1. l = s.level
    BY <1>5 DEF Level
  <2>2. n.handler = "element1"
    BY <1>2, <1>5 DEF Resolved, Top, Same
  <2> QED
    BY <1>2, <1>3, <1>4, <1>5, <2>1, <2>2 DEF Moves, InContent, ContentHandlers, DtdHandlers
<1>6. CASE /\ row.to = "declClose" /\ s.handler = "element1"
           /\ row.role \in {"CONTENT_ANY", "CONTENT_EMPTY"}
  <2>1. l = s.level
    BY <1>6 DEF Level
  <2>2. n.handler = "declClose"
    BY <1>2, <1>6 DEF Resolved, Top, Same
  <2> QED
    BY <1>2, <1>3, <1>4, <1>6, <2>1, <2>2 DEF Moves, Nesting, DtdHandlers
<1>7. CASE row.role = "GROUP_OPEN"
  <2>1. CASE s.handler = "element1" /\ row.to = "element2"
    <3>1. l = 1
      BY <1>7, <2>1 DEF Level
    <3>2. n.handler = "element2"
      BY <1>2, <2>1 DEF Resolved, Top, Same
    <3> QED
      BY <1>2, <1>3, <1>4, <1>7, <2>1, <3>1, <3>2
         DEF Moves, InContent, Nesting, ContentHandlers, DtdHandlers
  <2>2. CASE s.handler = "element2" /\ row.to = "element6"
    <3>1. l = 2
      BY <1>7, <2>2 DEF Level
    <3>2. n.handler = "element6"
      BY <1>2, <2>2 DEF Resolved, Top, Same
    <3> QED
      BY <1>2, <1>3, <1>4, <1>7, <2>2, <3>1, <3>2
         DEF Moves, InContent, Nesting, ContentHandlers, DtdHandlers
  <2>3. CASE s.handler = "element6" /\ row.to = Same
    <3>1. l = s.level + 1
      BY <1>7, <2>3 DEF Level
    <3>2. n.handler = "element6"
      BY <1>2, <2>3 DEF Resolved, Top, Same
    <3> QED
      BY <1>2, <1>3, <1>4, <1>7, <2>3, <3>1, <3>2
         DEF Moves, InContent, Nesting, ContentHandlers, DtdHandlers
  <2> QED BY <1>7, <2>1, <2>2, <2>3 DEF ContentRow, ParticleRoles, CloseRoles
<1>8. CASE s.handler = "element2" /\ row.to = "element3" /\ row.role = "CONTENT_PCDATA"
  <2>1. l = s.level
    BY <1>8 DEF Level
  <2>2. n.handler = "element3"
    BY <1>2, <1>8 DEF Resolved, Top, Same
  <2> QED
    BY <1>2, <1>3, <1>4, <1>8, <2>1, <2>2 DEF Moves, InContent, Nesting, ContentHandlers, DtdHandlers
<1>9. CASE row.role \in ParticleRoles
  <2>1. row.role \notin {"GROUP_OPEN", "ELEMENT_NAME", "CONTENT_ANY", "CONTENT_EMPTY", "CONTENT_PCDATA",
                         "ELEMENT_NONE", "GROUP_SEQUENCE", "GROUP_CHOICE", "role_none"} \union CloseRoles
    BY <1>9 DEF ParticleRoles, CloseRoles
  <2>2. \/ s.handler \in {"element2", "element6"} /\ row.to = "element7"
        \/ s.handler = "element4" /\ row.to = "element5"
    BY <2>1 DEF ContentRow
  <2>3. l = s.level
    BY <2>1, <2>2 DEF Level
  <2>4. n.handler = row.to
    BY <1>2, <2>2 DEF Resolved, Top, Same
  <2>5. /\ InContent(s) /\ InContent(n) /\ Nesting(n) = Nesting(s) /\ Nesting(s) >= 1
    BY <1>2, <2>2, <2>3, <2>4 DEF InContent, Nesting, ContentHandlers, StateOK
  <2> QED
    BY <1>2, <1>3, <1>4, <1>9, <2>1, <2>2, <2>3, <2>4, <2>5 DEF Moves, DtdHandlers, ContentHandlers, StateOK
<1>10. CASE /\ s.handler \in {"element3", "element5"} /\ row.to = "element4"
            /\ row.role = "ELEMENT_NONE"
  <2>1. l = s.level
    BY <1>10 DEF Level
  <2>2. n.handler = "element4"
    BY <1>2, <1>10 DEF Resolved, Top, Same
  <2>3. row.role \notin Roles
    BY <1>10 DEF Roles, ParticleRoles, CloseRoles
  <2> QED
    BY <1>2, <1>3, <1>4, <1>10, <2>1, <2>2, <2>3 DEF Moves, InContent, Nesting, ContentHandlers, DtdHandlers
<1>11. CASE row.role \in CloseRoles
  <2>1. row.role \notin {"GROUP_OPEN", "ELEMENT_NAME", "CONTENT_ANY", "CONTENT_EMPTY", "CONTENT_PCDATA",
                         "ELEMENT_NONE", "GROUP_SEQUENCE", "GROUP_CHOICE", "role_none"} \union ParticleRoles
    BY <1>11 DEF ParticleRoles, CloseRoles
  <2>2. CASE s.handler \in {"element3", "element5"} /\ row.to = "declClose"
    <3>1. l = s.level
      BY <2>1, <2>2 DEF Level
    <3>2. n.handler = "declClose"
      BY <1>2, <2>2 DEF Resolved, Top, Same
    <3> QED
      BY <1>2, <1>3, <1>4, <1>11, <2>1, <2>2, <3>1, <3>2
         DEF Moves, InContent, Nesting, ContentHandlers, DtdHandlers
  <2>3. CASE s.handler = "element7" /\ row.to = Same
    <3>1. l = s.level - 1 /\ s.level >= 1
      BY <2>1, <2>3 DEF Level, StateOK
    <3>2. n.handler = IF l = 0 THEN "declClose" ELSE "element7"
      BY <1>2, <2>3 DEF Resolved, Top, Same
    <3>3. Nesting(s) = s.level /\ Nesting(n) = l
      BY <1>2, <2>3, <3>2 DEF Nesting
    <3>4. InContent(n) <=> l # 0
      BY <3>2 DEF InContent, ContentHandlers
    <3> QED
      BY <1>2, <1>3, <1>4, <1>11, <2>1, <2>3, <3>1, <3>2, <3>3, <3>4
         DEF Moves, ContentHandlers, DtdHandlers
  <2> QED BY <2>1, <2>2, <2>3 DEF ContentRow
<1>12. CASE /\ s.handler = "element7" /\ row.to = "element6"
            /\ row.role \in {"GROUP_SEQUENCE", "GROUP_CHOICE"}
  <2>1. l = s.level
    BY <1>12 DEF Level
  <2>2. n.handler = "element6"
    BY <1>2, <1>12 DEF Resolved, Top, Same
  <2> QED
    BY <1>2, <1>3, <1>4, <1>12, <2>1, <2>2
       DEF Moves, InContent, Nesting, ContentHandlers, DtdHandlers, StateOK
<1> QED BY <1>5, <1>6, <1>7, <1>8, <1>9, <1>10, <1>11, <1>12 DEF ContentRow

\* A row of any other handler leaves the content models alone.
LEMMA OtherMoves ==
  ASSUME NEW s, StateOK(s), NEW row, OtherRow(s.handler, row),
         NEW i \in Int,
         NEW n, n = [s EXCEPT
                       !.handler = Resolved(s, row, Level(s, row.role)),
                       !.level = Level(s, row.role),
                       !.includeLevel = i,
                       !.role_none = IF Resolved(s, row, Level(s, row.role)) = "declClose"
                                     THEN RoleOfSpace(s.handler) ELSE @]
  PROVE  StateOK(n) /\ Moves(s, n, row.role)
<1>1. RoleOfSpace(s.handler) \in Spaces
  BY RowsKnown DEF StateOK
<1>2. /\ n.handler = Resolved(s, row, Level(s, row.role)) /\ n.level = Level(s, row.role)
      /\ n.role_none \in Spaces /\ n.includeLevel \in Int /\ n.documentEntity \in BOOLEAN
      /\ n = [handler |-> n.handler, level |-> n.level, includeLevel |-> n.includeLevel,
              role_none |-> n.role_none, documentEntity |-> n.documentEntity]
  BY <1>1 DEF StateOK
<1>3. s.handler \notin ContentHandlers /\ s.handler \in DtdHandlers /\ s.level \in Nat
  BY DEF OtherRow, StateOK
<1>4. n.level \in Nat
  BY <1>2, <1>3 DEF Level, ContentHandlers
<1>5. n.handler \in DtdHandlers \ ContentHandlers
  <2>1. /\ "internalSubset" \in DtdHandlers \ ContentHandlers /\ "externalSubset1" \in DtdHandlers \ ContentHandlers
        /\ "declClose" \in DtdHandlers \ ContentHandlers
    BY DEF DtdHandlers, ContentHandlers
  <2> QED BY <1>2, <1>3, <2>1 DEF Resolved, OtherRow
<1>6. \A h \in DtdHandlers \ ContentHandlers : h \notin {"element1", "element2", "element3", "element4",
                                                      "element5", "element6", "element7"}
  BY DEF ContentHandlers
<1>7. StateOK(n)
  BY <1>2, <1>4, <1>5, <1>6 DEF StateOK
<1>8. Nesting(n) = 0 /\ Nesting(s) = 0 /\ ~InContent(n) /\ ~InContent(s)
  BY <1>3, <1>5, <1>6 DEF Nesting, InContent
<1> QED BY <1>7, <1>8 DEF Moves, OtherRow

\* A token moves the state as its role says.
LEMMA TokenMoves ==
  ASSUME NEW before, StateOK(before), NEW t
  PROVE  /\ StateOK(TokenRole(before, t).state)
         /\ Moves(before, TokenRole(before, t).state, TokenRole(before, t).role)
<1> DEFINE s == Entered(before, t)
           rows == RowsOn(s, t)
           took == TokenRole(before, t)
<1>1. /\ StateOK(s) /\ Nesting(s) = Nesting(before) /\ (InContent(s) <=> InContent(before))
  <2>1. CASE s = before
    BY <2>1
  <2>2. CASE before.handler = "externalSubset0" /\ s = [before EXCEPT !.handler = "externalSubset1"]
    BY <2>2 DEF StateOK, Nesting, InContent, DtdHandlers, ContentHandlers
  <2> QED BY <2>1, <2>2 DEF Entered
<1>2. \A n, r : Moves(s, n, r) => Moves(before, n, r)
  BY <1>1 DEF Moves
<1> DEFINE row == CHOOSE r \in rows : TRUE
           n == [s EXCEPT
                  !.handler = Resolved(s, row, Level(s, row.role)),
                  !.level = Level(s, row.role),
                  !.includeLevel = IncludeLevel(s, t),
                  !.role_none = IF Resolved(s, row, Level(s, row.role)) = "declClose"
                                THEN RoleOfSpace(s.handler) ELSE @]
<1>0. took =
        IF s.handler = "error" THEN [state |-> s, role |-> "NONE"]
        ELSE IF t.tok = "PROLOG_S" /\ rows = {}
        THEN [state |-> s, role |-> IF s.handler = "declClose" THEN s.role_none ELSE RoleOfSpace(s.handler)]
        ELSE IF rows = {} \/ Refused(s, t) THEN Common(s, t)
        ELSE [state |-> n, role |-> IF row.role = "role_none" THEN s.role_none ELSE row.role]
  BY Zenon DEF TokenRole
<1> HIDE DEF s, took, n, row
<1>3. SUFFICES StateOK(took.state) /\ Moves(s, took.state, took.role)
  BY <1>2 DEF took
<1>4. s.role_none \in Spaces /\ s.handler \in DtdHandlers /\ s.includeLevel \in Int
  BY <1>1 DEF StateOK
<1>5. RoleOfSpace(s.handler) \in Spaces
  BY <1>4, RowsKnown
<1>6. \A r \in Spaces : Moves(s, s, r)
  BY SpacesDoNothing DEF Moves
<1>7. CASE s.handler = "error"
  <2>1. took.state = s /\ took.role = "NONE"
    BY <1>0, <1>7
  <2> QED BY <1>1, <1>6, <2>1 DEF Spaces
<1>8. CASE s.handler # "error" /\ t.tok = "PROLOG_S" /\ rows = {}
  <2>1. took.state = s /\ took.role \in {s.role_none, RoleOfSpace(s.handler)}
    BY <1>0, <1>8
  <2> QED BY <1>1, <1>4, <1>5, <1>6, <2>1
<1>9. CASE s.handler # "error" /\ ~(t.tok = "PROLOG_S" /\ rows = {}) /\ (rows = {} \/ Refused(s, t))
  <2>1. took = Common(s, t)
    BY <1>0, <1>9
  <2>2. CASE took.state = s /\ took.role = "INNER_PARAM_ENTITY_REF"
    BY <1>1, <2>2 DEF Moves, Roles, ParticleRoles, CloseRoles
  <2>3. CASE took.state = [s EXCEPT !.handler = "error"] /\ took.role = "ERROR"
    BY <1>1, <2>3 DEF Moves, StateOK, Nesting, DtdHandlers
  <2> QED BY <2>1, <2>2, <2>3 DEF Common
<1>10. CASE s.handler # "error" /\ rows # {} /\ ~Refused(s, t)
  <2>1. row \in Rows(s.handler)
    BY <1>10, Zenon DEF RowsOn, row
  <2>2. took = [state |-> n, role |-> IF row.role = "role_none" THEN s.role_none ELSE row.role]
    BY <1>0, <1>10, Zenon
  <2>3. took.state = n /\ took.role = IF row.role = "role_none" THEN s.role_none ELSE row.role
    BY <2>2
  <2>4. Known(s.handler, row)
    BY <1>4, <2>1, RowsKnown
  <2>5. IncludeLevel(s, t) \in Int
    BY <1>4 DEF IncludeLevel
  <2>6. CASE ContentRow(s.handler, row)
    <3>1. StateOK(n) /\ Moves(s, n, row.role) /\ row.role # "role_none"
      BY <1>1, <2>5, <2>6, ContentMoves DEF n
    <3> QED BY <2>3, <3>1
  <2>7. CASE OtherRow(s.handler, row)
    <3>1. StateOK(n) /\ Moves(s, n, row.role)
      BY <1>1, <2>5, <2>7, OtherMoves DEF n
    <3>2. row.role = "role_none" => Moves(s, n, s.role_none)
      BY <1>4, <3>1, SpacesDoNothing DEF Moves, Roles, ParticleRoles, CloseRoles
    <3> QED BY <2>3, <3>1, <3>2
  <2> QED BY <2>4, <2>6, <2>7 DEF Known
<1> QED BY <1>7, <1>8, <1>9, <1>10

-----------------------------------------------------------------------------
(* The arrays                                                               *)

\* The operators keep what they do not write.
LEMMA Arrays ==
  /\ \A n \in Nat : DOMAIN Room(n) = 0..(n - 1)
  /\ \A array, n : /\ DOMAIN Enlarged(array, n) = 0..(n - 1)
                   /\ \A x \in 0..(n - 1) : x \in DOMAIN array => Enlarged(array, n)[x] = array[x]
  /\ \A array, x, v : /\ DOMAIN Put(array, x, v) = DOMAIN array
                      /\ x \in DOMAIN array => Put(array, x, v)[x] = v
                      /\ \A y \in DOMAIN array : y # x => Put(array, x, v)[y] = array[y]
BY DEF Room, Enlarged, Put

\* A new child changes no number of entries.
LEMMA AdoptedKeeps ==
  ASSUME NEW parts, IsSeq(parts), NEW p, NEW next
  PROVE  IsSeq(Adopted(parts, p, next)) /\ Len(Adopted(parts, p, next)) = Len(parts)
<1> DEFINE parent == parts[p + 1]
           linked == IF parent.lastchild # 0
                     THEN [parts EXCEPT ![parent.lastchild + 1].nextsib = next] ELSE parts
           first == IF parent.childcnt = 0 THEN next ELSE parent.firstchild
           took == [linked EXCEPT
                      ![p + 1] = [@ EXCEPT !.firstchild = first, !.lastchild = next, !.childcnt = @ + 1]]
<1>1. Adopted(parts, p, next) = took
  BY Zenon DEF Adopted
<1>2. \A f : IsSeq(f) => \A q : IsSeq([f EXCEPT ![q].nextsib = next]) /\ Len([f EXCEPT ![q].nextsib = next]) = Len(f)
  BY IsSeqExcept
<1>3. IsSeq(linked) /\ Len(linked) = Len(parts)
  BY <1>2
<1> HIDE DEF linked, first
<1>4. IsSeq(took) /\ Len(took) = Len(parts)
  BY <1>3, IsSeqExcept
<1> QED BY <1>1, <1>4

-----------------------------------------------------------------------------
(* The invariant                                                            *)

\* While a model is gathered, the entry of each open group is known.
Gathering ==
  /\ InContent(prologState)
  /\ scaffLevel = Nesting(prologState)
  /\ \A n \in 0..(scaffLevel - 1) : n \in DOMAIN scaffIndex /\ scaffIndex[n] \in 0..(scaffCount - 1)
  /\ scaffCount <= scaffSize

\* The connectors and the indices are as many as there is room for, whenever
\* they were enlarged, and there is room for every open group.
ArraysInv ==
  /\ groupSize \in Nat \ {1} /\ scaffSize \in Nat
  /\ Nesting(prologState) > 0 => Nesting(prologState) < groupSize
  /\ DOMAIN groupConnector = 0..(groupSize - 1)
  /\ Unlevelled \/ DOMAIN scaffIndex = 0..(groupSize - 1)
  /\ in_eldecl \in BOOLEAN /\ IsSeq(scaffold)

GroupInv ==
  /\ StateOK(prologState)
  /\ ArraysInv
  /\ in_eldecl /\ errorCode = "NONE" => Gathering

\* The invariant is the property, and says why.
LEMMA GroupInvMeans == GroupInv => GroupsInBounds
<1> SUFFICES ASSUME GroupInv PROVE GroupsInBounds
  OBVIOUS
<1> DEFINE depth == IF prologState.handler \in {"element2", "element3", "element4", "element5"} THEN 1
                    ELSE IF prologState.handler \in {"element6", "element7"} THEN prologState.level ELSE 0
<1>1. depth = Nesting(prologState) /\ depth \in Nat
  BY NestingIsNat DEF Nesting, GroupInv
<1> HIDE DEF depth
<1>2. depth > 0 => depth \in DOMAIN groupConnector
  BY <1>1 DEF GroupInv, ArraysInv
<1>3. in_eldecl /\ errorCode = "NONE" =>
           /\ scaffLevel = depth
           /\ \A n \in 0..(depth - 1) : n \in DOMAIN scaffIndex /\ scaffIndex[n] < scaffCount
           /\ scaffCount <= scaffSize
  <2>1. scaffCount \in Nat
    BY DEF GroupInv, ArraysInv, IsSeq, scaffCount
  <2> HIDE DEF scaffCount
  <2> QED BY <1>1, <2>1 DEF GroupInv, Gathering
<1>4. Unlevelled \/ DOMAIN scaffIndex = DOMAIN groupConnector
  BY DEF GroupInv, ArraysInv
<1> QED BY <1>2, <1>3, <1>4 DEF GroupsInBounds, depth

\* It holds at first.
LEMMA GroupInvInit == Init => GroupInv
<1> SUFFICES ASSUME Init PROVE GroupInv
  OBVIOUS
<1>1. StateOK(prologState) /\ Nesting(prologState) = 0
  BY DEF Init, PrologState, StateOK, Nesting, DtdHandlers, Spaces
<1>2. IsSeq(<<>>)
  BY DEF IsSeq
<1>3. DOMAIN groupConnector = 0..(groupSize - 1)
  BY DEF Init
<1>4. /\ groupSize = 0 /\ scaffSize = 0 /\ scaffIndex = <<>> /\ in_eldecl = FALSE
      /\ IsSeq(scaffold)
  BY <1>2 DEF Init
<1>5. /\ groupSize \in Nat \ {1} /\ scaffSize \in Nat
      /\ Nesting(prologState) > 0 => Nesting(prologState) < groupSize
  BY <1>1, <1>4
<1>6. Unlevelled
  BY <1>4 DEF Unlevelled
<1>7. ArraysInv
  BY <1>3, <1>4, <1>5, <1>6, Zenon DEF ArraysInv
<1> QED BY <1>1, <1>4, <1>7, Zenon DEF GroupInv

\* What every role leaves: the levels and sizes as they were, and no fewer or
\* more entries
Kept ==
  /\ groupSize' = groupSize /\ DOMAIN groupConnector' = DOMAIN groupConnector
  /\ scaffIndex' = scaffIndex /\ scaffSize' = scaffSize

\* A step that enlarges nothing and goes to no deeper group.
LEMMA ArraysKept ==
  ASSUME ArraysInv, Kept, in_eldecl' \in BOOLEAN, IsSeq(scaffold'),
         Nesting(prologState) \in Nat, Nesting(prologState') \in Nat,
         Nesting(prologState') <= Nesting(prologState)
  PROVE  ArraysInv'
<1>1. /\ groupSize' \in Nat \ {1} /\ scaffSize' \in Nat
      /\ Nesting(prologState') > 0 => Nesting(prologState') < groupSize'
  BY DEF ArraysInv, Kept
<1>2. /\ DOMAIN groupConnector' = 0..(groupSize' - 1)
      /\ Unlevelled' \/ DOMAIN scaffIndex' = 0..(groupSize' - 1)
  BY DEF ArraysInv, Kept, Unlevelled
<1>3. Nesting(prologState)' = Nesting(prologState')
  BY DEF Nesting
<1> QED BY <1>1, <1>2, <1>3, Zenon DEF ArraysInv

\* The place of an entry that is written
LEMMA EntriesKept ==
  ASSUME NEW x, NEW e, ArraysInv
  PROVE  IsSeq([scaffold EXCEPT ![x] = e]) /\ Len([scaffold EXCEPT ![x] = e]) = scaffCount /\ scaffCount \in Nat
<1>1. Len(scaffold) \in Nat
  BY DEF ArraysInv, IsSeq
<1> QED BY <1>1, IsSeqExcept DEF ArraysInv, scaffCount

\* One more entry
LEMMA PartAdded ==
  ASSUME ArraysInv, NEW index, NEW entry
  PROVE  /\ IsSeq(WithPart(index, entry))
         /\ Len(WithPart(index, entry)) = scaffCount + 1
         /\ scaffCount \in Nat /\ ScaffoldRoom \in Nat
         /\ scaffCount <= scaffSize => scaffCount + 1 <= ScaffoldRoom
<1>1. IsSeq(scaffold) /\ Len(scaffold) \in Nat
  BY DEF ArraysInv, IsSeq
<1>2. /\ IsSeq(WithPart(index, entry))
      /\ Len(WithPart(index, entry)) = Len(scaffold) + 1
  BY <1>1, AdoptedKeeps, IsSeqAppend DEF WithPart
<1>3. /\ ScaffoldRoom \in Nat
      /\ scaffCount <= scaffSize => scaffCount + 1 <= ScaffoldRoom
  BY <1>1, XmlDeclarationsAssumption DEF ArraysInv, scaffCount, ScaffoldRoom
<1> QED BY <1>1, <1>2, <1>3 DEF scaffCount

-----------------------------------------------------------------------------
(* The roles                                                                *)

\* A token was taken with role r.
Takes(r) ==
  /\ GroupInv /\ errorCode = "NONE"
  /\ StateOK(prologState') /\ Moves(prologState, prologState', r)

\* The operators on the next state
LEMMA Primed ==
  /\ Nesting(prologState)' = Nesting(prologState')
  /\ StateOK(prologState)' <=> StateOK(prologState')
  /\ InContent(prologState)' <=> InContent(prologState')
  /\ scaffCount' = Len(scaffold')
BY DEF Nesting, StateOK, InContent, scaffCount

\* What a step must leave
LEMMA InvariantAfter ==
  ASSUME NEW r, Takes(r), ArraysInv', in_eldecl' /\ errorCode' = "NONE" => Gathering'
  PROVE  GroupInv'
BY Primed, Zenon DEF GroupInv, Takes

\* A step that opens and closes no group, and adds no entry
LEMMA StaysAfter ==
  ASSUME NEW r, Takes(r), Kept, in_eldecl' = in_eldecl, scaffLevel' = scaffLevel,
         IsSeq(scaffold'), Len(scaffold') = scaffCount,
         Nesting(prologState') = Nesting(prologState), InContent(prologState') <=> InContent(prologState)
  PROVE  GroupInv'
<1>1. Nesting(prologState) \in Nat
  BY NestingIsNat DEF Takes, GroupInv
<1>2. ArraysInv'
  BY <1>1, ArraysKept DEF Takes, GroupInv, ArraysInv
<1>3. ASSUME Gathering PROVE Gathering'
  BY <1>3, Primed DEF Gathering, Kept
<1> QED BY <1>2, <1>3, InvariantAfter DEF Takes, GroupInv

\* A step that leaves no group open, nor a model to gather
LEMMA NoneAfter ==
  ASSUME NEW r, Takes(r), Kept, ~(in_eldecl' /\ errorCode' = "NONE"), in_eldecl' \in BOOLEAN,
         IsSeq(scaffold'), Nesting(prologState') <= Nesting(prologState)
  PROVE  GroupInv'
<1>1. Nesting(prologState) \in Nat /\ Nesting(prologState') \in Nat
  BY NestingIsNat DEF Takes, GroupInv
<1>2. ArraysInv'
  BY <1>1, ArraysKept DEF Takes, GroupInv
<1> QED BY <1>2, InvariantAfter

\* A role without an effect here
LEMMA NothingKeeps ==
  ASSUME NEW r, r \notin Roles, Takes(r), Nothing
  PROVE  GroupInv'
<1>1. Nesting(prologState') = Nesting(prologState) /\ (InContent(prologState') <=> InContent(prologState))
  BY DEF Takes, Moves, Roles
<1>2. /\ Kept /\ in_eldecl' = in_eldecl /\ scaffLevel' = scaffLevel
      /\ IsSeq(scaffold') /\ Len(scaffold') = scaffCount
  BY DEF Nothing, Kept, groups, scaff, Takes, GroupInv, ArraysInv, scaffCount
<1> QED BY <1>1, <1>2, StaysAfter

\* A token that is refused
LEMMA FailsKeeps ==
  ASSUME NEW r, Takes(r), NEW code, code # "NONE", Fails(code),
         Nesting(prologState') <= Nesting(prologState)
  PROVE  GroupInv'
<1>1. /\ Kept /\ errorCode' # "NONE" /\ in_eldecl' \in BOOLEAN /\ IsSeq(scaffold')
  BY DEF Fails, Kept, groups, scaff, Takes, GroupInv, ArraysInv
<1> QED BY <1>1, NoneAfter

\* A token that no row is for
LEMMA ErrorKeeps ==
  ASSUME Takes("ERROR"), NEW t, SyntaxError(t)
  PROVE  GroupInv'
<1>1. Nesting(prologState') = 0 /\ Nesting(prologState) \in Nat
  BY NestingIsNat DEF Takes, Moves, Roles, ParticleRoles, CloseRoles, GroupInv
<1> DEFINE code == CASE t.tok = "PARAM_ENTITY_REF" -> "PARAM_ENTITY_REF"
                     [] t.tok = "XML_DECL" -> "MISPLACED_XML_PI"
                     [] t.tok = "END" -> "INCOMPLETE_PE"
                     [] OTHER -> "SYNTAX"
<1>2. code # "NONE" /\ Fails(code)
  BY DEF SyntaxError
<1> HIDE DEF code
<1> QED BY <1>1, <1>2, FailsKeeps

\* A new declaration begins with no group.
LEMMA ElementNameKeeps ==
  ASSUME Takes("ELEMENT_NAME"), ElementName
  PROVE  GroupInv'
<1>1. prologState'.handler = "element1" /\ ~InContent(prologState) /\ Nesting(prologState) \in Nat
  BY NestingIsNat DEF Takes, Moves, Roles, ParticleRoles, CloseRoles, GroupInv
<1>2. Nesting(prologState') = 0 /\ InContent(prologState')
  BY <1>1 DEF Nesting, InContent, ContentHandlers
<1>3. Kept
  BY DEF ElementName, Kept, groups
<1>4. ~in_eldecl
  BY <1>1 DEF Takes, GroupInv, Gathering
<1>5. CASE hasHandler
  <2>1. scaffold' = <<>> /\ scaffLevel' = 0 /\ in_eldecl' = TRUE /\ Len(scaffold') = 0 /\ IsSeq(scaffold')
    BY <1>5 DEF ElementName, IsSeq
  <2>2. ArraysInv'
    BY <1>1, <1>2, <1>3, <2>1, ArraysKept DEF Takes, GroupInv
  <2>3. Gathering'
    <3>1. scaffSize' \in Nat
      BY <1>3 DEF Takes, GroupInv, ArraysInv, Kept
    <3>2. scaffCount' = 0
      BY <2>1, Primed
    <3>3. \A n \in 0..(scaffLevel' - 1) : FALSE
      BY <2>1
    <3> QED BY <1>2, <2>1, <3>1, <3>2, <3>3, Primed DEF Gathering
  <2> QED BY <2>2, <2>3, InvariantAfter
<1>6. CASE ~hasHandler
  <2>1. in_eldecl' = in_eldecl /\ scaffold' = scaffold
    BY <1>6 DEF ElementName
  <2> QED BY <1>1, <1>2, <1>3, <1>4, <2>1, NoneAfter DEF Takes, GroupInv, ArraysInv
<1> QED BY <1>5, <1>6

\* EMPTY or ANY ends what is gathered.
LEMMA ContentSpecKeeps ==
  ASSUME NEW r \in {"CONTENT_ANY", "CONTENT_EMPTY"}, Takes(r), NEW type, ContentSpec(type)
  PROVE  GroupInv'
<1>1. Nesting(prologState') = 0 /\ Nesting(prologState) \in Nat
  BY NestingIsNat DEF Takes, Moves, Roles, ParticleRoles, CloseRoles, GroupInv
<1>2. Kept /\ in_eldecl' = FALSE /\ IsSeq(scaffold')
  BY DEF ContentSpec, Kept, groups, Takes, GroupInv, ArraysInv
<1>3. Nesting(prologState') <= Nesting(prologState)
  BY <1>1
<1>4. in_eldecl' \in BOOLEAN
  BY <1>2, Zenon
<1> QED BY <1>2, <1>3, <1>4, NoneAfter

\* An entry is written, and no level changed.
LEMMA PcdataKeeps ==
  ASSUME Takes("CONTENT_PCDATA"), Pcdata
  PROVE  GroupInv'
<1>1. Nesting(prologState') = Nesting(prologState) /\ InContent(prologState') /\ InContent(prologState)
  BY DEF Takes, Moves, Roles, ParticleRoles, CloseRoles
<1>2. Kept /\ in_eldecl' = in_eldecl /\ scaffLevel' = scaffLevel
  BY DEF Pcdata, Kept, groups
<1>3. IsSeq(scaffold') /\ Len(scaffold') = scaffCount
  <2>1. scaffold' = scaffold \/ \E x, e : scaffold' = [scaffold EXCEPT ![x] = e]
    BY DEF Pcdata
  <2>2. ASSUME NEW x, NEW e, scaffold' = [scaffold EXCEPT ![x] = e]
      PROVE  IsSeq(scaffold') /\ Len(scaffold') = scaffCount
    BY <2>2, EntriesKept, Zenon DEF Takes, GroupInv
  <2>3. IsSeq(scaffold) /\ Len(scaffold) = scaffCount
    BY DEF Takes, GroupInv, ArraysInv, scaffCount
  <2> QED BY <2>1, <2>2, <2>3, Zenon
<1> QED BY <1>1, <1>2, <1>3, StaysAfter

\* A comma
LEMMA SequenceKeeps ==
  ASSUME Takes("GROUP_SEQUENCE"), GroupSequence
  PROVE  GroupInv'
<1>1. /\ Nesting(prologState') = Nesting(prologState) /\ InContent(prologState') /\ InContent(prologState)
      /\ Nesting(prologState) \in Nat
  BY NestingIsNat DEF Takes, Moves, Roles, ParticleRoles, CloseRoles, GroupInv
<1>2. CASE Fails("SYNTAX")
  BY <1>1, <1>2, FailsKeeps
<1>3. CASE /\ groupConnector' = Connected(",")
           /\ UNCHANGED <<groupSize, scaff, model, errorCode>>
  <2>1. Kept /\ in_eldecl' = in_eldecl /\ scaffLevel' = scaffLevel /\ scaffold' = scaffold
    BY <1>3 DEF Kept, Connected, scaff
  <2> QED BY <1>1, <2>1, StaysAfter DEF Takes, GroupInv, ArraysInv, scaffCount
<1> QED BY <1>2, <1>3 DEF GroupSequence

\* A bar
LEMMA ChoiceKeeps ==
  ASSUME Takes("GROUP_CHOICE"), GroupChoice
  PROVE  GroupInv'
<1>1. /\ Nesting(prologState') = Nesting(prologState) /\ InContent(prologState') /\ InContent(prologState)
      /\ Nesting(prologState) \in Nat
  BY NestingIsNat DEF Takes, Moves, Roles, ParticleRoles, CloseRoles, GroupInv
<1>2. CASE Fails("SYNTAX")
  BY <1>1, <1>2, FailsKeeps
<1>3. CASE ~Mixes
  <2>1. Kept /\ in_eldecl' = in_eldecl /\ scaffLevel' = scaffLevel
    BY <1>3 DEF GroupChoice, Kept, Connected
  <2>2. IsSeq(scaffold') /\ Len(scaffold') = scaffCount
    <3>1. scaffold' = scaffold \/ \E x, e : scaffold' = [scaffold EXCEPT ![x] = e]
      BY <1>3 DEF GroupChoice
    <3>2. ASSUME NEW x, NEW e, scaffold' = [scaffold EXCEPT ![x] = e]
        PROVE  IsSeq(scaffold') /\ Len(scaffold') = scaffCount
      BY <3>2, EntriesKept, Zenon DEF Takes, GroupInv
    <3>3. IsSeq(scaffold) /\ Len(scaffold) = scaffCount
      BY DEF Takes, GroupInv, ArraysInv, scaffCount
    <3> QED BY <3>1, <3>2, <3>3, Zenon
  <2> QED BY <1>1, <2>1, <2>2, StaysAfter
<1> QED BY <1>2, <1>3 DEF GroupChoice

\* A name is one more entry, of the group that is open.
LEMMA ContentElementKeeps ==
  ASSUME NEW r \in ParticleRoles, Takes(r), NEW name, ContentElement(r, name)
  PROVE  GroupInv'
<1>1. /\ Nesting(prologState') = Nesting(prologState) /\ InContent(prologState') /\ InContent(prologState)
      /\ Nesting(prologState) \in Nat
  BY NestingIsNat DEF Takes, Moves, Roles, ParticleRoles, CloseRoles, GroupInv
<1>2. /\ groupSize' = groupSize /\ groupConnector' = groupConnector /\ scaffIndex' = scaffIndex
      /\ in_eldecl' = in_eldecl /\ scaffLevel' = scaffLevel /\ errorCode' = errorCode
  BY DEF ContentElement, groups
<1>3. CASE ~in_eldecl
  <2>1. Kept /\ scaffold' = scaffold
    BY <1>2, <1>3 DEF ContentElement, Kept
  <2> QED BY <1>1, <1>2, <2>1, StaysAfter DEF Takes, GroupInv, ArraysInv, scaffCount
<1>4. CASE in_eldecl
  <2>1. /\ IsSeq(scaffold') /\ Len(scaffold') = scaffCount + 1 /\ scaffCount \in Nat
        /\ scaffSize' \in Nat
        /\ scaffCount <= scaffSize => scaffCount + 1 <= scaffSize'
    BY <1>4, PartAdded DEF ContentElement, Takes, GroupInv
  <2>2. ArraysInv'
    <3>1. ArraysInv
      BY DEF Takes, GroupInv
    <3>2. /\ groupSize' \in Nat \ {1} /\ scaffSize' \in Nat
          /\ Nesting(prologState') > 0 => Nesting(prologState') < groupSize'
      BY <1>1, <1>2, <2>1, <3>1 DEF ArraysInv
    <3>3. /\ DOMAIN groupConnector' = 0..(groupSize' - 1)
          /\ Unlevelled' \/ DOMAIN scaffIndex' = 0..(groupSize' - 1)
      BY <1>2, <3>1 DEF ArraysInv, Unlevelled
    <3> QED BY <1>2, <2>1, <3>1, <3>2, <3>3, Primed, Zenon DEF ArraysInv
  <2>3. Gathering
    BY <1>4 DEF Takes, GroupInv
  <2>4. Gathering'
    <3> HIDE DEF scaffCount
    <3>1. ASSUME NEW n \in 0..(scaffLevel' - 1)
          PROVE  n \in DOMAIN scaffIndex' /\ scaffIndex'[n] \in 0..(scaffCount' - 1)
      <4>1. n \in DOMAIN scaffIndex /\ scaffIndex[n] \in 0..(scaffCount - 1)
        BY <1>2, <2>3, <3>1 DEF Gathering
      <4>2. scaffCount' = scaffCount + 1
        BY <2>1, Primed
      <4> QED BY <1>2, <2>1, <4>1, <4>2
    <3>2. scaffCount' <= scaffSize'
      BY <2>1, <2>3, Primed DEF Gathering
    <3> QED BY <1>1, <1>2, <2>3, <3>1, <3>2, Primed DEF Gathering
  <2> QED BY <2>2, <2>4, InvariantAfter
<1> QED BY <1>3, <1>4 DEF Takes, GroupInv, ArraysInv

\* The end of a group: the outermost one ends what is gathered.
LEMMA CloseGroupKeeps ==
  ASSUME NEW r \in CloseRoles, Takes(r), CloseGroup(r)
  PROVE  GroupInv'
<1>1. /\ Nesting(prologState) \in Nat /\ Nesting(prologState) >= 1
      /\ Nesting(prologState') = Nesting(prologState) - 1
      /\ InContent(prologState') <=> Nesting(prologState) # 1
  BY NestingIsNat DEF Takes, Moves, Roles, ParticleRoles, CloseRoles, GroupInv
<1>2. Kept /\ errorCode' = errorCode
  BY DEF CloseGroup, Kept, groups
<1>3. CASE ~in_eldecl
  <2>1. in_eldecl' = in_eldecl /\ scaffold' = scaffold
    BY <1>3 DEF CloseGroup
  <2>2. IsSeq(scaffold') /\ in_eldecl' \in BOOLEAN
    BY <2>1 DEF Takes, GroupInv, ArraysInv
  <2>3. Nesting(prologState') <= Nesting(prologState)
    BY <1>1
  <2> QED BY <1>2, <1>3, <2>1, <2>2, <2>3, NoneAfter
<1>4. CASE in_eldecl
  <2>1. Gathering
    BY <1>4 DEF Takes, GroupInv
  <2>2. /\ scaffLevel' = scaffLevel - 1
        /\ scaffold' = [scaffold EXCEPT ![OpenGroup].quant = Quant(r)]
        /\ in_eldecl' = (scaffLevel # 1)
    BY <1>4 DEF CloseGroup
  <2>3. IsSeq(scaffold') /\ Len(scaffold') = scaffCount
    <3>1. \E x, e : scaffold' = [scaffold EXCEPT ![x] = e]
      BY <2>2
    <3>2. ASSUME NEW x, NEW e, scaffold' = [scaffold EXCEPT ![x] = e]
          PROVE  IsSeq(scaffold') /\ Len(scaffold') = scaffCount
      BY <3>2, EntriesKept, Zenon DEF Takes, GroupInv
    <3> QED BY <3>1, <3>2, Zenon
  <2>4. in_eldecl' \in BOOLEAN
    BY <2>2
  <2>5. ArraysInv'
    <3>1. Nesting(prologState') <= Nesting(prologState) /\ Nesting(prologState') \in Nat
      BY <1>1
    <3> QED BY <1>1, <1>2, <2>3, <2>4, <3>1, ArraysKept DEF Takes, GroupInv
  <2>6. ASSUME in_eldecl' PROVE Gathering'
    <3>1. scaffLevel = Nesting(prologState)
      BY <2>1 DEF Gathering
    <3>2. InContent(prologState') /\ scaffLevel' = Nesting(prologState')
      BY <1>1, <2>2, <2>6, <3>1
    <3>3. \A n \in 0..(scaffLevel' - 1) : n \in DOMAIN scaffIndex' /\ scaffIndex'[n] \in 0..(scaffCount - 1)
      BY <1>1, <1>2, <2>1, <2>2, <3>1 DEF Gathering, Kept
    <3>4. scaffCount <= scaffSize'
      BY <1>2, <2>1 DEF Gathering, Kept
    <3> QED BY <2>3, <3>2, <3>3, <3>4, Primed, Zenon DEF Gathering
  <2> QED BY <2>5, <2>6, InvariantAfter
<1> QED BY <1>3, <1>4 DEF Takes, GroupInv, ArraysInv

\* A group that opens has a place among the connectors, and one among the
\* indices if a model is gathered.
LEMMA GroupOpenKeeps ==
  ASSUME Takes("GROUP_OPEN"), GroupOpen
  PROVE  GroupInv'
<1> DEFINE size == IF level < groupSize THEN groupSize
                   ELSE IF groupSize = 0 THEN InitGroup ELSE 2 * groupSize
           index == IF size = groupSize THEN IndexFor(size) ELSE IndexGrown(size)
           d == Nesting(prologState)
<1>1. /\ d \in Nat /\ Nesting(prologState') = d + 1 /\ level = d + 1
      /\ InContent(prologState') /\ InContent(prologState)
  BY NestingIsNat DEF Takes, Moves, Roles, ParticleRoles, CloseRoles, GroupInv, level
<1>2. ArraysInv
  BY DEF Takes, GroupInv
<1>3. size \in Nat \ {0, 1} /\ d + 1 < size
  <2>1. groupSize \in Nat \ {1} /\ (d > 0 => d < groupSize)
    BY <1>2 DEF ArraysInv
  <2> HIDE DEF d
  <2> QED BY <1>1, <2>1, XmlDeclarationsAssumption
<1>4. /\ groupSize' = size
      /\ groupConnector' = Put(Enlarged(groupConnector, size), level, "none")
      /\ in_eldecl' = in_eldecl /\ errorCode' = errorCode
  BY Zenon DEF GroupOpen
<1>5. DOMAIN groupConnector' = 0..(size - 1)
  <2> HIDE DEF size
  <2> QED BY <1>4, Arrays
<1>6. /\ DOMAIN index = 0..(size - 1)
      /\ ~Unlevelled => \A n \in DOMAIN scaffIndex : n \in DOMAIN index /\ index[n] = scaffIndex[n]
  <2>1. CASE Unlevelled
    <3>1. index = Put(Room(size), 0, 0)
      <4> HIDE DEF size
      <4> QED BY <2>1 DEF IndexFor, IndexGrown
    <3> HIDE DEF size, index
    <3> QED BY <1>3, <2>1, <3>1, Arrays
  <2>2. CASE ~Unlevelled /\ size = groupSize
    <3>1. index = scaffIndex /\ DOMAIN scaffIndex = 0..(size - 1)
      <4> HIDE DEF size
      <4> QED BY <1>2, <2>2 DEF IndexFor, ArraysInv
    <3> HIDE DEF size, index
    <3> QED BY <3>1
  <2>3. CASE ~Unlevelled /\ size # groupSize
    <3>1. index = Enlarged(scaffIndex, size) /\ DOMAIN scaffIndex = 0..(groupSize - 1)
      <4> HIDE DEF size
      <4> QED BY <1>2, <2>3 DEF IndexGrown, ArraysInv
    <3>2. groupSize \in Nat /\ groupSize <= size
      BY <1>2, XmlDeclarationsAssumption DEF ArraysInv
    <3> HIDE DEF size, index
    <3> QED BY <1>3, <3>1, <3>2, Arrays
  <2> QED BY <2>1, <2>2, <2>3
<1>7. \/ /\ in_eldecl
         /\ scaffold' = WithPart(index, Entry("SEQ", "wild", "none"))
         /\ scaffIndex' = Put(index, scaffLevel, scaffCount)
         /\ scaffLevel' = scaffLevel + 1
         /\ scaffSize' = ScaffoldRoom
      \/ /\ ~in_eldecl
         /\ scaffIndex' = (IF Unlevelled \/ size = groupSize THEN scaffIndex ELSE index)
         /\ UNCHANGED <<scaffold, scaffLevel, scaffSize>>
  BY Zenon DEF GroupOpen
<1> HIDE DEF size, index, d
<1>8. CASE /\ ~in_eldecl
           /\ scaffIndex' = (IF Unlevelled \/ size = groupSize THEN scaffIndex ELSE index)
           /\ UNCHANGED <<scaffold, scaffLevel, scaffSize>>
  <2>1. Unlevelled' \/ DOMAIN scaffIndex' = 0..(groupSize' - 1)
    BY <1>2, <1>4, <1>6, <1>8 DEF Unlevelled, ArraysInv
  <2>2. /\ groupSize' \in Nat \ {1} /\ scaffSize' \in Nat
        /\ Nesting(prologState') > 0 => Nesting(prologState') < groupSize'
    BY <1>1, <1>2, <1>3, <1>4, <1>8 DEF ArraysInv
  <2>3. IsSeq(scaffold') /\ in_eldecl' \in BOOLEAN
    BY <1>2, <1>4, <1>8 DEF ArraysInv
  <2>4. ArraysInv'
    BY <1>4, <1>5, <2>1, <2>2, <2>3, Primed, Zenon DEF ArraysInv
  <2> QED BY <1>4, <1>8, <2>4, InvariantAfter
<1>9. CASE /\ in_eldecl
           /\ scaffold' = WithPart(index, Entry("SEQ", "wild", "none"))
           /\ scaffIndex' = Put(index, scaffLevel, scaffCount)
           /\ scaffLevel' = scaffLevel + 1
           /\ scaffSize' = ScaffoldRoom
  <2>1. Gathering
    BY <1>9 DEF Takes, GroupInv
  <2>2. scaffLevel = d
    BY <2>1 DEF Gathering, d
  <2>3. /\ IsSeq(scaffold') /\ Len(scaffold') = scaffCount + 1 /\ scaffCount \in Nat
        /\ scaffSize' \in Nat
        /\ scaffCount <= scaffSize => scaffCount + 1 <= scaffSize'
    BY <1>2, <1>9, PartAdded
  <2> HIDE DEF scaffCount
  <2>4. DOMAIN scaffIndex' = 0..(size - 1)
    BY <1>6, <1>9, Arrays
  <2>5. ArraysInv'
    <3>1. /\ groupSize' \in Nat \ {1}
          /\ Nesting(prologState') > 0 => Nesting(prologState') < groupSize'
      BY <1>1, <1>3, <1>4
    <3>2. in_eldecl' \in BOOLEAN
      BY <1>2, <1>4 DEF ArraysInv
    <3> QED BY <1>4, <1>5, <2>3, <2>4, <3>1, <3>2, Primed, Zenon DEF ArraysInv
  <2>6. ASSUME NEW n \in 0..(scaffLevel' - 1)
        PROVE  n \in DOMAIN scaffIndex' /\ scaffIndex'[n] \in 0..scaffCount
    <3>1. n \in DOMAIN scaffIndex'
      BY <1>1, <1>3, <1>9, <2>2, <2>4, <2>6
    <3>2. CASE n = scaffLevel
      <4>1. n \in DOMAIN index
        BY <1>6, <2>4, <3>1
      <4>2. scaffIndex'[n] = scaffCount
        BY <1>9, <3>2, <4>1, Arrays
      <4> QED BY <2>3, <3>1, <4>2
    <3>3. CASE n # scaffLevel
      <4>1. n \in 0..(scaffLevel - 1)
        BY <1>1, <1>9, <2>2, <2>6, <3>3
      <4>2. n \in DOMAIN scaffIndex /\ scaffIndex[n] \in 0..(scaffCount - 1)
        BY <2>1, <4>1 DEF Gathering
      <4>3. ~Unlevelled
        BY <4>2 DEF Unlevelled
      <4>4. n \in DOMAIN index /\ index[n] = scaffIndex[n]
        BY <1>6, <4>2, <4>3
      <4>5. scaffIndex'[n] = scaffIndex[n]
        BY <1>9, <3>3, <4>4, Arrays
      <4> QED BY <2>3, <3>1, <4>2, <4>5
    <3> QED BY <3>2, <3>3
  <2>7. Gathering'
    <3>1. scaffCount' = scaffCount + 1 /\ scaffCount' - 1 = scaffCount
      BY <2>3, Primed
    <3>2. scaffLevel' = Nesting(prologState')
      BY <1>1, <1>9, <2>2
    <3>3. scaffCount' <= scaffSize'
      BY <2>1, <2>3, <3>1 DEF Gathering
    <3> QED BY <1>1, <2>6, <3>1, <3>2, <3>3, Primed DEF Gathering
  <2> QED BY <2>5, <2>7, InvariantAfter
<1> QED BY <1>7, <1>8, <1>9

-----------------------------------------------------------------------------

\* Whatever token comes, its role keeps the invariant.
LEMMA TokenKeeps ==
  ASSUME GroupInv, NEW t, Token(t)
  PROVE  GroupInv'
<1> DEFINE r == TokenRole(prologState, t).role
<1>1. /\ errorCode = "NONE" /\ prologState' = TokenRole(prologState, t).state
      /\ Does(r, t)
  BY Zenon DEF Token
<1>2. StateOK(prologState') /\ Moves(prologState, prologState', r)
  BY <1>1, TokenMoves DEF GroupInv
<1> HIDE DEF r
<1>3. Takes(r)
  BY <1>1, <1>2 DEF Takes
<1>4. CASE r \notin Roles
  <2>1. Nothing
    BY <1>1, <1>4 DEF Does, Roles, ParticleRoles, CloseRoles
  <2> QED BY <1>3, <1>4, <2>1, NothingKeeps
<1>5. CASE r \in ParticleRoles
  <2>1. ContentElement(r, t.word)
    BY <1>1, <1>5 DEF Does, ParticleRoles
  <2> QED BY <1>3, <1>5, <2>1, ContentElementKeeps
<1>6. CASE r \in CloseRoles
  <2>1. CloseGroup(r)
    BY <1>1, <1>6 DEF Does, CloseRoles
  <2> QED BY <1>3, <1>6, <2>1, CloseGroupKeeps
<1>7. CASE r = "ERROR"
  <2>1. SyntaxError(t)
    BY <1>1, <1>7 DEF Does
  <2> QED BY <1>3, <1>7, <2>1, ErrorKeeps
<1>8. CASE r = "GROUP_OPEN"
  <2>1. GroupOpen
    BY <1>1, <1>8 DEF Does
  <2> QED BY <1>3, <1>8, <2>1, GroupOpenKeeps
<1>9. CASE r = "GROUP_SEQUENCE"
  <2>1. GroupSequence
    BY <1>1, <1>9 DEF Does
  <2> QED BY <1>3, <1>9, <2>1, SequenceKeeps
<1>10. CASE r = "GROUP_CHOICE"
  <2>1. GroupChoice
    BY <1>1, <1>10 DEF Does
  <2> QED BY <1>3, <1>10, <2>1, ChoiceKeeps
<1>11. CASE r = "ELEMENT_NAME"
  <2>1. ElementName
    BY <1>1, <1>11 DEF Does
  <2> QED BY <1>3, <1>11, <2>1, ElementNameKeeps
<1>12. CASE r \in {"CONTENT_ANY", "CONTENT_EMPTY"}
  <2>1. \E type : ContentSpec(type)
    BY <1>1, <1>12 DEF Does
  <2> QED BY <1>3, <1>12, <2>1, ContentSpecKeeps
<1>13. CASE r = "CONTENT_PCDATA"
  <2>1. Pcdata
    BY <1>1, <1>13 DEF Does
  <2> QED BY <1>3, <1>13, <2>1, PcdataKeeps
<1> QED
  BY <1>4, <1>5, <1>6, <1>7, <1>8, <1>9, <1>10, <1>11, <1>12, <1>13 DEF Roles

\* In every state there is room for the groups that are open, the sizes of the
\* two arrays of groups are one, and the entries that are gathered are there:
\* groupSize, groupConnector, scaffIndex, scaffLevel and scaffold of doProlog,
\* from any first sizes and through any number of declarations.
THEOREM GroupInvariant == Spec => []GroupInv
<1>1. Init => GroupInv
  BY GroupInvInit
<1>2. GroupInv /\ [Next]_vars => GroupInv'
  <2> SUFFICES ASSUME GroupInv, [Next]_vars PROVE GroupInv'
    OBVIOUS
  <2>1. CASE Next
    BY <2>1, TokenKeeps DEF Next
  <2>2. CASE UNCHANGED vars
    BY <2>2 DEF vars, groups, scaff, GroupInv, ArraysInv, Gathering, StateOK, Nesting, InContent,
                Unlevelled, scaffCount
  <2> QED BY <2>1, <2>2
<1> QED BY <1>1, <1>2, PTL DEF Spec

\* No connector and no index of a group is ever outside its array, although
\* groupConnector and scaffIndex grow together only if scaffIndex is there.
THEOREM GroupsAreInBounds == Spec => []GroupsInBounds
BY GroupInvariant, GroupInvMeans, PTL

-----------------------------------------------------------------------------
(* The entities of a DTD (XmlEntities): the frames of the stack, and the    *)
(* tables they refer to.                                                    *)

\* Frames that read an entity
Expanding == {"internal", "valueInternal", "file", "valueFile"}

EntityNames == {p.name : p \in Parts}

Frames ==
  [kind   : Expanding \union {"document", "value", "subset"},
   entity : EntityNames \union {NULL},
   text   : Seq(Parts),
   decl   : EntityNames \union {NULL},
   table  : {"param", "general"},
   had    : BOOLEAN]

SystemIds == {p.systemId : p \in Parts}

EntityRecords ==
  [text : Seq(Parts) \union {NULL}, systemId : SystemIds, open : BOOLEAN, is_internal : BOOLEAN]

\* A table of entities: a function from names to entities
IsTable(t) ==
  /\ t = [n \in DOMAIN t |-> t[n]]
  /\ \A n \in DOMAIN t : n \in EntityNames \ {NULL} /\ t[n] \in EntityRecords

\* The values that are read belong to entities that are in their tables.
StackOK(s, param, general) ==
  /\ s \in Seq(Frames) /\ s # <<>>
  /\ \A k \in 1..Len(s) :
       /\ s[k].kind = "document" <=> k = 1
       /\ s[k].kind = "subset" => k = 2
       /\ s[k].kind \in Expanding <=> s[k].entity # NULL
       /\ s[k].decl # NULL => s[k].decl \in DOMAIN (IF s[k].table = "param" THEN param ELSE general)

\* No entity is read within itself.
Apart(s) ==
  \A j, k \in 1..Len(s) :
    s[j].entity # NULL /\ s[k].entity # NULL /\ j # k => s[j].entity # s[k].entity

\* What is marked open is what is read.
Marked(s, param) ==
  /\ \A k \in 1..Len(s) : s[k].entity # NULL => s[k].entity \in DOMAIN param /\ param[s[k].entity].open
  /\ \A n \in DOMAIN param : param[n].open => \E k \in 1..Len(s) : s[k].entity = n

TextsOK ==
  /\ entityValuePool \in Seq(Parts)
  /\ files = [n \in DOMAIN files |-> files[n]]
  /\ \A n \in DOMAIN files : files[n] \in Seq(Parts)

\* OpenIsBeingRead, and what it takes that it stays so.
OpenInv ==
  /\ IsTable(paramEntities) /\ IsTable(generalEntities)
  /\ TextsOK
  /\ StackOK(stack, paramEntities, generalEntities)
  /\ Apart(stack)
  /\ pc # "returned" => Marked(stack, paramEntities)

\* The invariant gives the property.
LEMMA OpenInvMeans == OpenInv => OpenIsBeingRead
<1> SUFFICES ASSUME OpenInv PROVE OpenIsBeingRead
  OBVIOUS
<1>1. DOMAIN stack = 1..Len(stack)
  BY DEF OpenInv, StackOK
<1>2. \A j, k \in {i \in DOMAIN stack : stack[i].entity # NULL} : j # k => stack[j].entity # stack[k].entity
  BY <1>1 DEF OpenInv, Apart
<1>3. ASSUME pc # "returned"
      PROVE  {stack[k].entity : k \in {i \in DOMAIN stack : stack[i].entity # NULL}}
               = {n \in DOMAIN paramEntities : paramEntities[n].open}
  <2>1. Marked(stack, paramEntities)
    BY <1>3 DEF OpenInv
  <2>2. \A n \in DOMAIN paramEntities : n # NULL
    BY DEF OpenInv, IsTable
  <2> QED BY <1>1, <2>1, <2>2 DEF Marked
<1> QED BY <1>2, <1>3 DEF OpenIsBeingRead

\* Entries added, or changed in their texts and marks
LEMMA StackKept ==
  ASSUME NEW s, NEW p, NEW g, NEW q, NEW h,
         StackOK(s, p, g), DOMAIN p \subseteq DOMAIN q, DOMAIN g \subseteq DOMAIN h
  PROVE  StackOK(s, q, h)
  BY DEF StackOK

\* One more frame
LEMMA Pushed ==
  ASSUME NEW s, NEW p, NEW g, StackOK(s, p, g), NEW f \in Frames,
         f.kind # "document",
         f.kind = "subset" => Len(s) = 1,
         f.kind \in Expanding <=> f.entity # NULL,
         f.decl # NULL => f.decl \in DOMAIN (IF f.table = "param" THEN p ELSE g)
  PROVE  StackOK(Append(s, f), p, g)
<1>1. /\ Append(s, f) \in Seq(Frames) /\ Append(s, f) # <<>>
      /\ Len(Append(s, f)) = Len(s) + 1 /\ Len(s) \in Nat \ {0}
      /\ Append(s, f)[Len(s) + 1] = f
      /\ \A k \in 1..Len(s) : Append(s, f)[k] = s[k]
  BY DEF StackOK
<1> DEFINE t == Append(s, f)
<1>2. \A k \in 1..Len(t) : k \in 1..Len(s) \/ k = Len(s) + 1
  BY <1>1
<1> HIDE DEF t
<1> QED BY <1>1, <1>2 DEF StackOK, t

\* One less
LEMMA Popped ==
  ASSUME NEW s, NEW p, NEW g, StackOK(s, p, g), Last(s).kind # "document"
  PROVE  /\ StackOK(Front(s), p, g)
         /\ Len(s) \in Nat /\ Len(s) > 1 /\ Len(Front(s)) = Len(s) - 1
         /\ \A k \in 1..Len(s) - 1 : Front(s)[k] = s[k]
<1>1. Len(s) \in Nat /\ Len(s) > 1
  BY DEF StackOK, Last
<1>2. /\ Front(s) \in Seq(Frames) /\ Len(Front(s)) = Len(s) - 1
      /\ \A k \in 1..Len(s) - 1 : Front(s)[k] = s[k]
  BY <1>1 DEF StackOK, Front
<1>3. Front(s) # <<>>
  BY <1>1, <1>2
<1>4. \A k \in 1..Len(Front(s)) : k \in 1..Len(s) /\ Front(s)[k] = s[k]
  BY <1>1, <1>2
<1> HIDE DEF Front
<1> QED BY <1>1, <1>2, <1>3, <1>4 DEF StackOK

\* s and t are the same but for the text of the last frame.
SameFrames(s, t) ==
  /\ Len(t) = Len(s)
  /\ \A k \in 1..Len(s) :
       /\ t[k].kind = s[k].kind /\ t[k].entity = s[k].entity /\ t[k].decl = s[k].decl
       /\ t[k].table = s[k].table /\ t[k].had = s[k].had

\* Another text in the last frame
LEMMA TextChanged ==
  ASSUME NEW s, NEW p, NEW g, StackOK(s, p, g), NEW x \in Seq(Parts)
  PROVE  /\ StackOK([s EXCEPT ![Len(s)].text = x], p, g)
         /\ SameFrames(s, [s EXCEPT ![Len(s)].text = x])
<1> DEFINE f == [s[Len(s)] EXCEPT !.text = x]
           t == [s EXCEPT ![Len(s)] = f]
<1>1. s \in Seq(Frames) /\ Len(s) \in Nat \ {0} /\ s[Len(s)] \in Frames
  BY DEF StackOK
<1>2. /\ f \in Frames /\ f.kind = s[Len(s)].kind /\ f.entity = s[Len(s)].entity
      /\ f.decl = s[Len(s)].decl /\ f.table = s[Len(s)].table /\ f.had = s[Len(s)].had
  BY <1>1 DEF Frames
<1> HIDE DEF f
<1>3. /\ t \in Seq(Frames) /\ t # <<>> /\ Len(t) = Len(s)
      /\ \A k \in 1..Len(s) : t[k] = IF k = Len(s) THEN f ELSE s[k]
  BY <1>1, <1>2
<1> HIDE DEF t
<1>4. SameFrames(s, t)
  BY <1>2, <1>3 DEF SameFrames
<1>5. StackOK(t, p, g)
  BY <1>1, <1>3, <1>4 DEF StackOK, SameFrames
<1> QED BY <1>4, <1>5 DEF t, f

\* The names that are read, and the marks, do not depend on the text.
LEMMA SameStays ==
  ASSUME NEW s, NEW t, NEW p, SameFrames(s, t)
  PROVE  /\ Apart(s) => Apart(t)
         /\ Marked(s, p) => Marked(t, p)
  BY DEF SameFrames, Apart, Marked

-----------------------------------------------------------------------------
(* Tables and marks *)

\* Another mark
LEMMA MarkedTable ==
  ASSUME NEW p, IsTable(p), NEW n \in DOMAIN p, NEW v \in BOOLEAN
  PROVE  LET q == [p EXCEPT ![n].open = v]
         IN  /\ IsTable(q) /\ DOMAIN q = DOMAIN p
             /\ q[n].open = v
             /\ \A m \in DOMAIN p : m # n => q[m] = p[m]
<1> DEFINE e == [p[n] EXCEPT !.open = v]
           q == [p EXCEPT ![n] = e]
<1>1. p[n] \in EntityRecords
  BY DEF IsTable
<1>2. e \in EntityRecords /\ e.open = v
  BY <1>1 DEF EntityRecords
<1> HIDE DEF e
<1>3. /\ DOMAIN q = DOMAIN p /\ q[n] = e
      /\ \A m \in DOMAIN p : m # n => q[m] = p[m]
      /\ q = [m \in DOMAIN q |-> q[m]]
  OBVIOUS
<1> HIDE DEF q
<1>4. IsTable(q)
  BY <1>2, <1>3 DEF IsTable
<1>5. q = [p EXCEPT ![n].open = v]
  BY DEF q, e
<1> QED BY <1>2, <1>3, <1>4, <1>5

\* Another entry
LEMMA EnteredTable ==
  ASSUME NEW p, IsTable(p), NEW n \in EntityNames \ {NULL}, NEW e \in EntityRecords
  PROVE  LET q == With(p, n, e)
         IN  /\ IsTable(q) /\ DOMAIN q = DOMAIN p \union {n}
             /\ q[n] = e
             /\ \A m \in DOMAIN p : m # n => q[m] = p[m]
<1> DEFINE q == With(p, n, e)
<1>1. q = [m \in {n} \union DOMAIN p |-> IF m = n THEN e ELSE p[m]]
  BY DEF With
<1> HIDE DEF q
<1>2. /\ DOMAIN q = DOMAIN p \union {n} /\ q[n] = e
      /\ \A m \in DOMAIN p : m # n => q[m] = p[m]
      /\ q = [m \in DOMAIN q |-> q[m]]
  BY <1>1
<1>3. IsTable(q)
  BY <1>2 DEF IsTable
<1> QED BY <1>2, <1>3 DEF q

\* A frame that reads no entity
LEMMA PushedPlain ==
  ASSUME NEW s \in Seq(Frames), NEW p, NEW f \in Frames, f.entity = NULL,
         Apart(s), Marked(s, p), \A n \in DOMAIN p : n # NULL
  PROVE  Apart(Append(s, f)) /\ Marked(Append(s, f), p)
<1> DEFINE t == Append(s, f)
<1>1. /\ Len(t) = Len(s) + 1 /\ Len(s) \in Nat /\ t[Len(s) + 1] = f
      /\ \A k \in 1..Len(s) : t[k] = s[k]
  OBVIOUS
<1> HIDE DEF t
<1>2. \A k \in 1..Len(t) : k \in 1..Len(s) \/ t[k].entity = NULL
  BY <1>1
<1>3. \A k \in 1..Len(s) : k \in 1..Len(t)
  BY <1>1
<1>4. Apart(t)
  BY <1>1, <1>2 DEF Apart
<1>5. Marked(t, p)
  BY <1>1, <1>2, <1>3 DEF Marked
<1> QED BY <1>4, <1>5 DEF t

\* A frame that reads an entity which was not open
LEMMA PushedOpen ==
  ASSUME NEW s \in Seq(Frames), NEW p, IsTable(p), NEW f \in Frames, f.entity \in DOMAIN p,
         ~p[f.entity].open, Apart(s), Marked(s, p)
  PROVE  Apart(Append(s, f)) /\ Marked(Append(s, f), [p EXCEPT ![f.entity].open = TRUE])
<1> DEFINE t == Append(s, f)
           q == [p EXCEPT ![f.entity].open = TRUE]
<1>1. /\ Len(t) = Len(s) + 1 /\ Len(s) \in Nat /\ t[Len(s) + 1] = f
      /\ \A k \in 1..Len(s) : t[k] = s[k]
  OBVIOUS
<1>2. /\ DOMAIN q = DOMAIN p /\ q[f.entity].open = TRUE
      /\ \A m \in DOMAIN p : m # f.entity => q[m] = p[m]
  BY MarkedTable
<1> HIDE DEF t, q
<1>3. \A k \in 1..Len(t) : k \in 1..Len(s) \/ k = Len(s) + 1
  BY <1>1
<1>4. \A k \in 1..Len(s) : s[k].entity # f.entity /\ k \in 1..Len(t)
  <2>1. \A k \in 1..Len(s) : s[k].entity # NULL => p[s[k].entity].open
    BY DEF Marked
  <2>2. f.entity # NULL
    BY DEF IsTable
  <2> QED BY <1>1, <2>1, <2>2
<1>5. Apart(t)
  BY <1>1, <1>3, <1>4 DEF Apart
<1>6. Marked(t, q)
  <2>1. \A k \in 1..Len(t) : t[k].entity # NULL => t[k].entity \in DOMAIN q /\ q[t[k].entity].open
    BY <1>1, <1>2, <1>3, <1>4 DEF Marked
  <2>2. ASSUME NEW n \in DOMAIN q, q[n].open
        PROVE  \E k \in 1..Len(t) : t[k].entity = n
    <3>1. CASE n = f.entity
      <4>1. Len(s) + 1 \in 1..Len(t)
        BY <1>1
      <4> QED BY <1>1, <3>1, <4>1
    <3>2. CASE n # f.entity
      <4>1. \E k \in 1..Len(s) : s[k].entity = n
        BY <1>2, <2>2, <3>2 DEF Marked
      <4> QED BY <1>1, <1>4, <4>1
    <3> QED BY <3>1, <3>2
  <2> QED BY <2>1, <2>2 DEF Marked
<1> QED BY <1>5, <1>6 DEF t, q

\* The last frame goes, and with it the mark of what it read.
LEMMA PoppedMarks ==
  ASSUME NEW s, NEW p, NEW g, StackOK(s, p, g), IsTable(p), Last(s).kind # "document",
         Apart(s)
  PROVE  /\ Apart(Front(s))
         /\ Marked(s, p) /\ Last(s).entity = NULL => Marked(Front(s), p)
         /\ Marked(s, p) /\ Last(s).entity # NULL =>
              /\ Last(s).entity \in DOMAIN p
              /\ Marked(Front(s), [p EXCEPT ![Last(s).entity].open = FALSE])
<1> DEFINE t == Front(s)
           n == Last(s).entity
           q == [p EXCEPT ![n].open = FALSE]
<1>1. /\ Len(s) \in Nat /\ Len(s) > 1 /\ Len(t) = Len(s) - 1
      /\ \A k \in 1..Len(s) - 1 : t[k] = s[k]
  BY Popped
<1>2. n = s[Len(s)].entity
  BY DEF Last
<1> HIDE DEF t, n
<1>3. \A k \in 1..Len(t) : k \in 1..Len(s) /\ t[k] = s[k] /\ k # Len(s)
  BY <1>1
<1>4. \A k \in 1..Len(s) : k = Len(s) \/ k \in 1..Len(t)
  BY <1>1
<1>5. Len(s) \in 1..Len(s)
  BY <1>1
<1>6. Apart(t)
  BY <1>3 DEF Apart
<1>7. ASSUME Marked(s, p), n = NULL
      PROVE  Marked(t, p)
  <2>1. \A m \in DOMAIN p : m # NULL
    BY DEF IsTable
  <2> QED BY <1>2, <1>3, <1>4, <1>7, <2>1 DEF Marked
<1>8. ASSUME Marked(s, p), n # NULL
      PROVE  n \in DOMAIN p /\ Marked(t, q)
  <2>1. n \in DOMAIN p
    BY <1>2, <1>5, <1>8 DEF Marked
  <2>2. /\ DOMAIN q = DOMAIN p /\ q[n].open = FALSE
        /\ \A m \in DOMAIN p : m # n => q[m] = p[m]
    BY <2>1, MarkedTable
  <2> HIDE DEF q
  <2>3. \A k \in 1..Len(t) : t[k].entity # NULL => t[k].entity # n
    BY <1>2, <1>3, <1>5, <1>8 DEF Apart
  <2>4. \A k \in 1..Len(t) : t[k].entity # NULL => t[k].entity \in DOMAIN q /\ q[t[k].entity].open
    BY <1>3, <1>8, <2>2, <2>3 DEF Marked
  <2>5. \A m \in DOMAIN q : q[m].open => \E k \in 1..Len(t) : t[k].entity = m
    BY <1>2, <1>3, <1>4, <1>8, <2>2 DEF Marked
  <2> QED BY <2>1, <2>4, <2>5 DEF Marked
<1> QED BY <1>6, <1>7, <1>8 DEF t, n, q

\* An entry that is marked as before, or is new and not marked
LEMMA MarkedEntry ==
  ASSUME NEW s, NEW p, IsTable(p), Marked(s, p), NEW n \in EntityNames \ {NULL}, NEW e \in EntityRecords,
         IF n \in DOMAIN p THEN e.open = p[n].open ELSE ~e.open
  PROVE  Marked(s, With(p, n, e))
<1> DEFINE q == With(p, n, e)
<1>1. /\ IsTable(q) /\ DOMAIN q = DOMAIN p \union {n}
      /\ q[n] = e
      /\ \A m \in DOMAIN p : m # n => q[m] = p[m]
  BY EnteredTable
<1> HIDE DEF q
<1>2. \A m \in DOMAIN p : q[m].open = p[m].open
  BY <1>1
<1>3. Marked(s, q)
  BY <1>1, <1>2 DEF Marked
<1> QED BY <1>3 DEF q

-----------------------------------------------------------------------------
(* Steps keep the invariant *)

\* What a step may leave on the stack
RestOK(rest) ==
  /\ StackOK(rest, paramEntities, generalEntities)
  /\ Apart(rest) /\ Marked(rest, paramEntities)

\* The stack itself, and with another text on top
LEMMA RestsOK ==
  ASSUME OpenInv, pc = "prolog", NEW x \in Seq(Parts)
  PROVE  RestOK(stack) /\ RestOK([stack EXCEPT ![Len(stack)].text = x])
<1>1. StackOK(stack, paramEntities, generalEntities) /\ Apart(stack) /\ Marked(stack, paramEntities)
  BY DEF OpenInv
<1> DEFINE t == [stack EXCEPT ![Len(stack)].text = x]
<1>2. StackOK(t, paramEntities, generalEntities) /\ SameFrames(stack, t)
  BY <1>1, TextChanged
<1> HIDE DEF t
<1>3. Apart(t) /\ Marked(t, paramEntities)
  BY <1>1, <1>2, SameStays
<1> QED BY <1>1, <1>2, <1>3 DEF RestOK, t

\* What is left of the text on top
LEMMA AdvancedOK ==
  ASSUME OpenInv, pc = "prolog", frame.text # <<>>
  PROVE  /\ Head(frame.text) \in Parts
         /\ RestOK(Advanced)
<1>1. stack[Len(stack)] \in Frames
  BY DEF OpenInv, StackOK
<1>2. frame.text \in Seq(Parts)
  BY <1>1 DEF frame, Last, Frames
<1>3. Head(frame.text) \in Parts /\ Tail(frame.text) \in Seq(Parts)
  BY <1>2
<1>4. Advanced = [stack EXCEPT ![Len(stack)].text = Tail(frame.text)]
  BY DEF Advanced, frame, Last
<1> QED BY <1>3, <1>4, RestsOK

\* What a step has to show
LEMMA OpenAfter ==
  ASSUME IsTable(paramEntities'), IsTable(generalEntities'), TextsOK',
         StackOK(stack', paramEntities', generalEntities'), Apart(stack'),
         pc' # "returned" => Marked(stack', paramEntities')
  PROVE  OpenInv'
  BY DEF OpenInv

\* Nothing but the stack changes.
LEMMA StackStep ==
  ASSUME OpenInv, NEW rest, RestOK(rest), stack' = rest, UNCHANGED <<tables, entityValuePool, files>>
  PROVE  OpenInv'
<1>1. TextsOK'
  BY DEF OpenInv, TextsOK
<1>2. paramEntities' = paramEntities /\ generalEntities' = generalEntities
  BY DEF tables
<1>3. StackOK(stack', paramEntities', generalEntities') /\ Apart(stack') /\ Marked(stack', paramEntities')
  BY <1>2 DEF RestOK
<1>4. IsTable(paramEntities') /\ IsTable(generalEntities')
  BY <1>2 DEF OpenInv
<1> QED BY <1>1, <1>3, <1>4, OpenAfter

\* Declarations
LEMMA DeclareKeeps ==
  ASSUME OpenInv, pc = "prolog", NEW piece \in Parts, NEW rest, RestOK(rest), Declare(piece, rest)
  PROVE  OpenInv'
<1> DEFINE name == piece.name
           new  == Entity(piece.systemId)
           binds == Binds(piece.kind, name)
<1>1. piece.kind \in {"param", "general"}
  BY DEF Declare
<1>2. name \in EntityNames \ {NULL} /\ piece.value \in Seq(Parts) /\ piece.systemId \in SystemIds
  BY <1>1, EntitiesAssumption DEF EntityNames, NULL, SystemIds
<1>3. new \in EntityRecords /\ new.open = FALSE
  BY <1>2 DEF Entity, EntityRecords
<1>4. IsTable(paramEntities) /\ IsTable(generalEntities) /\ TextsOK
  BY DEF OpenInv
<1>5. UNCHANGED <<entityValuePool, files>>
  BY DEF Declare
<1>6. TextsOK'
  BY <1>4, <1>5 DEF TextsOK
<1>7. /\ IsTable(paramEntities') /\ IsTable(generalEntities')
      /\ DOMAIN paramEntities \subseteq DOMAIN paramEntities'
      /\ DOMAIN generalEntities \subseteq DOMAIN generalEntities'
      /\ Marked(rest, paramEntities')
      /\ binds => name \in DOMAIN (IF piece.kind = "param" THEN paramEntities' ELSE generalEntities')
  <2>1. CASE ~binds
    <3>1. paramEntities' = paramEntities /\ generalEntities' = generalEntities
      BY <2>1 DEF Declare, tables
    <3> QED BY <1>4, <2>1, <3>1 DEF RestOK
  <2>2. CASE binds /\ piece.kind = "param"
    <3>1. paramEntities' = With(paramEntities, name, new) /\ generalEntities' = generalEntities
      BY <2>2 DEF Declare, Enter
    <3>2. name \notin DOMAIN paramEntities
      BY <2>2 DEF Binds, TableOf
    <3> HIDE DEF name, new, binds
    <3> DEFINE q == With(paramEntities, name, new)
    <3>3. /\ IsTable(q) /\ DOMAIN q = DOMAIN paramEntities \union {name}
          /\ q[name] = new
          /\ \A m \in DOMAIN paramEntities : m # name => q[m] = paramEntities[m]
      BY <1>2, <1>3, <1>4, EnteredTable
    <3>4. Marked(rest, paramEntities')
      BY <1>2, <1>3, <1>4, <3>1, <3>2, MarkedEntry DEF RestOK
    <3> QED BY <1>4, <2>2, <3>1, <3>3, <3>4
  <2>3. CASE binds /\ piece.kind = "general"
    <3>1. generalEntities' = With(generalEntities, name, new) /\ paramEntities' = paramEntities
      BY <2>3 DEF Declare, Enter
    <3> HIDE DEF name, new, binds
    <3> DEFINE q == With(generalEntities, name, new)
    <3>2. /\ IsTable(q) /\ DOMAIN q = DOMAIN generalEntities \union {name}
          /\ q[name] = new
          /\ \A m \in DOMAIN generalEntities : m # name => q[m] = generalEntities[m]
      BY <1>2, <1>3, <1>4, EnteredTable
    <3> QED BY <1>4, <2>3, <3>1, <3>2 DEF RestOK
  <2> QED BY <1>1, <2>1, <2>2, <2>3
<1>8. StackOK(rest, paramEntities', generalEntities') /\ Apart(rest)
  BY <1>7, StackKept DEF RestOK
<1> DEFINE f == [Frame("value", NULL, piece.value) EXCEPT
                   !.decl = IF binds THEN name ELSE NULL, !.table = piece.kind]
<1>9. CASE stack' = rest
  BY <1>6, <1>7, <1>8, <1>9, OpenAfter
<1>10. CASE stack' = Append(rest, f)
  <2>1. /\ f \in Frames /\ f.kind = "value" /\ f.entity = NULL
        /\ f.decl = (IF binds THEN name ELSE NULL) /\ f.table = piece.kind
    BY <1>1, <1>2 DEF Frame, Frames
  <2> HIDE DEF f, name, binds
  <2>2. f.decl # NULL => f.decl \in DOMAIN (IF f.table = "param" THEN paramEntities' ELSE generalEntities')
    BY <1>7, <2>1
  <2>3. StackOK(stack', paramEntities', generalEntities')
    BY <1>8, <1>10, <2>1, <2>2, Pushed DEF Expanding
  <2>4. rest \in Seq(Frames) /\ \A n \in DOMAIN paramEntities' : n # NULL
    BY <1>7, <1>8 DEF StackOK, IsTable
  <2>5. Apart(stack') /\ Marked(stack', paramEntities')
    BY <1>7, <1>8, <1>10, <2>1, <2>4, PushedPlain
  <2> QED BY <1>6, <1>7, <2>3, <2>5, OpenAfter
<1>11. stack' = rest \/ stack' = Append(rest, f)
  BY DEF Declare, GoOn
<1> QED BY <1>9, <1>10, <1>11

\* An entity is opened, and read in a frame of its own.
LEMMA OpenedKeeps ==
  ASSUME OpenInv, NEW rest, RestOK(rest), NEW f \in Frames, f.kind \in Expanding, f.decl = NULL,
         f.entity \in DOMAIN paramEntities, ~paramEntities[f.entity].open,
         stack' = Append(rest, f), paramEntities' = Opened(f.entity, TRUE),
         generalEntities' = generalEntities, TextsOK'
  PROVE  OpenInv'
<1>1. IsTable(paramEntities) /\ IsTable(generalEntities)
  BY DEF OpenInv
<1>2. IsTable(paramEntities') /\ DOMAIN paramEntities' = DOMAIN paramEntities
  BY <1>1, MarkedTable DEF Opened
<1>3. StackOK(rest, paramEntities', generalEntities')
  BY <1>2, StackKept DEF RestOK
<1>4. f.entity # NULL
  BY <1>1 DEF IsTable
<1>5. StackOK(stack', paramEntities', generalEntities')
  BY <1>3, <1>4, Pushed DEF Expanding
<1>6. rest \in Seq(Frames)
  BY <1>3 DEF StackOK
<1>7. Apart(stack') /\ Marked(stack', paramEntities')
  BY <1>1, <1>6, PushedOpen DEF RestOK, Opened
<1> QED BY <1>1, <1>2, <1>5, <1>7, OpenAfter

\* An internal entity
LEMMA InternalKeeps ==
  ASSUME OpenInv, NEW rest, RestOK(rest), NEW kind \in Expanding, NEW name \in DOMAIN paramEntities,
         ~paramEntities[name].open, Internal(kind, name, rest)
  PROVE  OpenInv'
<1> DEFINE x == IF paramEntities[name].text = NULL THEN <<>> ELSE paramEntities[name].text
           f == Frame(kind, name, x)
<1>1. paramEntities[name] \in EntityRecords /\ name \in EntityNames
  BY DEF OpenInv, IsTable
<1>2. x \in Seq(Parts)
  BY <1>1 DEF EntityRecords
<1>3. /\ stack' = Append(rest, f) /\ paramEntities' = Opened(name, TRUE)
      /\ generalEntities' = generalEntities /\ UNCHANGED <<entityValuePool, files>>
  BY DEF Internal, GoOn
<1> HIDE DEF x
<1>4. /\ f \in Frames
      /\ f.kind = kind /\ f.entity = name /\ f.text = x /\ f.decl = NULL /\ f.had = TRUE
  <2>1. kind \in Expanding \union {"value", "subset"} /\ name \in EntityNames \union {NULL}
    BY <1>1
  <2> QED BY <1>2, <2>1 DEF Frame, Frames
<1> HIDE DEF f
<1>5. TextsOK'
  BY <1>3 DEF OpenInv, TextsOK
<1> QED BY <1>3, <1>4, <1>5, OpenedKeeps

\* A file is read, the same each time.
LEMMA FileRead ==
  ASSUME OpenInv, NEW sys, NEW new, NEW rest, ReadFile(sys, new, rest), entityValuePool' = entityValuePool
  PROVE  /\ TextsOK' /\ sys \in DOMAIN files'
         /\ DOMAIN files' = DOMAIN files \union {sys}
         /\ \E x \in Seq(Parts) : stack' = Append(rest, [new EXCEPT !.text = x])
         /\ UNCHANGED ended
<1>1. PICK x \in (IF sys \in DOMAIN files THEN {files[sys]} ELSE Texts) :
         /\ files' = With(files, sys, x)
         /\ GoOn(Append(rest, [new EXCEPT !.text = x]))
  BY DEF ReadFile
<1>2. x \in Seq(Parts)
  <2>1. CASE sys \in DOMAIN files
    BY <1>1, <2>1 DEF OpenInv, TextsOK
  <2>2. CASE sys \notin DOMAIN files
    <3>1. x \in UNION {[1..n -> Pieces] : n \in 0..(MaxPieces - PiecesRead)}
      BY <1>1, <2>2 DEF Texts
    <3>2. PICK n \in 0..(MaxPieces - PiecesRead) : x \in [1..n -> Pieces]
      BY <3>1
    <3>3. n \in Nat /\ x \in [1..n -> Parts]
      BY <3>2, EntitiesAssumption
    <3> QED BY <3>3
  <2> QED BY <2>1, <2>2
<1>3. /\ DOMAIN files' = DOMAIN files \union {sys}
      /\ files' = [n \in DOMAIN files' |-> files'[n]]
      /\ \A n \in DOMAIN files' : files'[n] = IF n = sys THEN x ELSE files[n]
  BY <1>1 DEF With
<1>4. TextsOK'
  BY <1>2, <1>3 DEF OpenInv, TextsOK
<1> QED BY <1>1, <1>2, <1>3, <1>4 DEF GoOn

\* An external entity
LEMMA ExternalKeeps ==
  ASSUME OpenInv, NEW sys, NEW rest, RestOK(rest), NEW kind \in Expanding,
         NEW name \in DOMAIN paramEntities, ~paramEntities[name].open,
         ExternalEntity(sys, Frame(kind, name, <<>>), rest), RestOK(stack)
  PROVE  OpenInv'
<1> DEFINE new == Frame(kind, name, <<>>)
<1>1. name \in EntityNames \ {NULL}
  BY DEF OpenInv, IsTable
<1>2. UNCHANGED <<generalEntities, entityValuePool>>
  BY DEF ExternalEntity
<1>3. CASE HandlerReads(sys, new, rest)
  <2>1. ReadFile(sys, new, rest)
    BY <1>3 DEF HandlerReads
  <2>2. new.entity = name
    BY DEF Frame
  <2>3. paramEntities' = Opened(name, TRUE)
    BY <1>1, <1>3, <2>2 DEF HandlerReads
  <2>4. /\ TextsOK' /\ sys \in DOMAIN files'
        /\ DOMAIN files' = DOMAIN files \union {sys}
        /\ \E x \in Seq(Parts) : stack' = Append(rest, [new EXCEPT !.text = x])
        /\ UNCHANGED ended
    <3> HIDE DEF new
    <3> QED BY <1>2, <2>1, FileRead
  <2>5. PICK x \in Seq(Parts) : stack' = Append(rest, [new EXCEPT !.text = x])
    BY <2>4
  <2> DEFINE f == [new EXCEPT !.text = x]
  <2>6. /\ new \in Frames
        /\ new.kind = kind /\ new.entity = name /\ new.text = <<>> /\ new.decl = NULL /\ new.had = TRUE
    <3>1. kind \in Expanding \union {"value", "subset"} /\ name \in EntityNames \union {NULL}
      BY <1>1
    <3>2. <<>> \in Seq(Parts)
      OBVIOUS
    <3> QED BY <3>1, <3>2 DEF Frame, Frames
  <2> HIDE DEF new
  <2>7. f \in Frames /\ f.kind = kind /\ f.entity = name /\ f.decl = NULL
    BY <2>6 DEF Frames
  <2> HIDE DEF f
  <2>8. stack' = Append(rest, f)
    BY <2>5 DEF f
  <2> QED BY <1>2, <2>3, <2>4, <2>7, <2>8, OpenedKeeps
<1>4. CASE HandlerDeclines(sys, rest) \/ NoHandler(rest)
  <2>1. stack' = rest /\ UNCHANGED <<tables, entityValuePool, files>>
    BY <1>2, <1>4 DEF HandlerDeclines, NoHandler, GoOn, tables
  <2> QED BY <2>1, StackStep
<1>5. CASE HandlerFails(sys)
  <2>1. stack' = stack /\ UNCHANGED <<tables, entityValuePool, files>>
    BY <1>2, <1>5 DEF HandlerFails, Fail, FailIn, tables
  <2> QED BY <2>1, StackStep
<1> QED BY <1>3, <1>4, <1>5 DEF ExternalEntity

\* References between declarations
LEMMA ReferKeeps ==
  ASSUME OpenInv, pc = "prolog", NEW piece, NEW rest, RestOK(rest), Refer(piece, rest)
  PROVE  OpenInv'
<1> DEFINE name == piece.name
<1>1. RestOK(stack)
  BY DEF OpenInv, RestOK
<1>2. CASE NotParsed(rest) \/ Skip(rest)
  <2>1. stack' = rest /\ UNCHANGED <<tables, entityValuePool, files>>
    BY <1>2 DEF NotParsed, Skip, GoOn, FailIn
  <2> QED BY <2>1, StackStep
<1>3. ASSUME NEW code, Errs(code) PROVE OpenInv'
  <2>1. stack' = stack /\ UNCHANGED <<tables, entityValuePool, files>>
    BY <1>3 DEF Errs, Fail, FailIn
  <2> QED BY <1>1, <2>1, StackStep
<1>4. CASE /\ name \in DOMAIN paramEntities /\ ~paramEntities[name].open
           /\ \/ Internal("internal", name, rest)
              \/ ExternalEntity(paramEntities[name].systemId, Frame("file", name, <<>>), rest)
  BY <1>1, <1>4, InternalKeeps, ExternalKeeps DEF Expanding
<1> QED BY <1>2, <1>3, <1>4 DEF Refer

\* One turn of doProlog
LEMMA PrologKeeps ==
  ASSUME OpenInv, pc = "prolog", NEW piece \in Parts, NEW rest, RestOK(rest), doProlog(piece, rest)
  PROVE  OpenInv'
<1>1. CASE Character(piece)
  <2>1. stack' = stack /\ UNCHANGED <<tables, entityValuePool, files>>
    BY <1>1 DEF Character, Errs, Fail, FailIn
  <2>2. RestOK(stack)
    BY DEF OpenInv, RestOK
  <2> QED BY <2>1, <2>2, StackStep
<1> QED BY <1>1, DeclareKeeps, ReferKeeps DEF doProlog

\* The stack stays as it is.
LEMMA StackStays ==
  ASSUME OpenInv, pc # "returned", stack' = stack, UNCHANGED <<tables, entityValuePool, files>>
  PROVE  OpenInv'
<1>1. RestOK(stack)
  BY DEF OpenInv, RestOK
<1> QED BY <1>1, StackStep

\* What is on top of the stack
LEMMA TopTyped ==
  ASSUME OpenInv
  PROVE  /\ frame \in Frames /\ Len(stack) \in Nat \ {0}
         /\ frame = stack[Len(stack)]
         /\ frame.kind \in Expanding <=> frame.entity # NULL
         /\ frame.decl # NULL =>
              frame.decl \in DOMAIN (IF frame.table = "param" THEN paramEntities ELSE generalEntities)
<1>1. Len(stack) \in Nat \ {0} /\ Len(stack) \in 1..Len(stack)
  BY DEF OpenInv, StackOK
<1>2. frame = stack[Len(stack)]
  BY DEF frame, Last
<1> QED BY <1>1, <1>2 DEF OpenInv, StackOK

\* A frame that reads no entity goes.
LEMMA FrontOK ==
  ASSUME OpenInv, pc # "returned", frame.kind # "document", frame.kind \notin Expanding
  PROVE  RestOK(Front(stack))
<1>1. Last(stack).kind # "document" /\ Last(stack).entity = NULL
  BY TopTyped DEF frame
<1>2. /\ StackOK(stack, paramEntities, generalEntities) /\ Apart(stack)
      /\ Marked(stack, paramEntities) /\ IsTable(paramEntities)
  BY DEF OpenInv
<1>3. StackOK(Front(stack), paramEntities, generalEntities)
  BY <1>1, <1>2, Popped
<1>4. Apart(Front(stack)) /\ Marked(Front(stack), paramEntities)
  BY <1>1, <1>2, PoppedMarks
<1> QED BY <1>3, <1>4 DEF RestOK

\* A frame that reads an entity goes, and the mark of the entity.
LEMMA ClosedKeeps ==
  ASSUME OpenInv, pc # "returned", frame.kind \in Expanding, stack' = Front(stack),
         paramEntities' = Opened(frame.entity, FALSE),
         UNCHANGED <<generalEntities, entityValuePool, files>>
  PROVE  OpenInv'
<1>1. Last(stack).kind # "document" /\ Last(stack).entity # NULL /\ frame = Last(stack)
  BY TopTyped DEF frame, Expanding
<1>2. /\ StackOK(stack, paramEntities, generalEntities) /\ Apart(stack)
      /\ Marked(stack, paramEntities) /\ IsTable(paramEntities) /\ IsTable(generalEntities)
  BY DEF OpenInv
<1>3. /\ Apart(stack') /\ frame.entity \in DOMAIN paramEntities
      /\ Marked(stack', paramEntities')
  BY <1>1, <1>2, PoppedMarks DEF Opened
<1>4. IsTable(paramEntities') /\ DOMAIN paramEntities' = DOMAIN paramEntities
  BY <1>2, <1>3, MarkedTable DEF Opened
<1>5. StackOK(stack', paramEntities, generalEntities)
  BY <1>1, <1>2, Popped
<1>6. StackOK(stack', paramEntities', generalEntities')
  BY <1>4, <1>5, StackKept
<1>7. TextsOK'
  BY DEF OpenInv, TextsOK
<1> QED BY <1>2, <1>3, <1>4, <1>6, <1>7, OpenAfter

\* The end of a value: the entity it belongs to keeps its mark.
LEMMA EndOfDeclarationKeeps == OpenInv /\ EndOfDeclaration => OpenInv'
<1> SUFFICES ASSUME OpenInv, EndOfDeclaration PROVE OpenInv'
  OBVIOUS
<1> DEFINE n == frame.decl
           t == TableOf(frame.table)
           e == [t[n] EXCEPT !.text = entityValuePool]
<1>1. /\ pc = "prolog" /\ frame.kind = "value" /\ stack' = Front(stack)
      /\ entityValuePool' = <<>> /\ files' = files
      /\ IF n = NULL THEN UNCHANGED tables ELSE Enter(frame.table, n, e)
  BY DEF EndOfDeclaration, GoOn, texts
<1>2. IsTable(paramEntities) /\ IsTable(generalEntities) /\ TextsOK
  BY DEF OpenInv
<1>3. TextsOK'
  BY <1>1, <1>2 DEF TextsOK
<1>4. RestOK(stack')
  BY <1>1, FrontOK DEF Expanding
<1>5. CASE n = NULL
  <2>1. paramEntities' = paramEntities /\ generalEntities' = generalEntities
    BY <1>1, <1>5 DEF tables
  <2> QED BY <1>2, <1>3, <1>4, <2>1, OpenAfter DEF RestOK
<1>6. CASE n # NULL
  <2>1. frame \in Frames /\ n \in DOMAIN t /\ IsTable(t)
    BY <1>2, <1>6, TopTyped DEF TableOf
  <2>2. t[n] \in EntityRecords /\ n \in EntityNames \ {NULL} /\ entityValuePool \in Seq(Parts)
    BY <1>2, <2>1 DEF IsTable, TextsOK
  <2>3. e \in EntityRecords /\ e.open = t[n].open
    BY <2>2 DEF EntityRecords
  <2> HIDE DEF e
  <2> DEFINE q == With(t, n, e)
  <2>4. /\ IsTable(q) /\ DOMAIN q = DOMAIN t \union {n}
        /\ q[n] = e
        /\ \A m \in DOMAIN t : m # n => q[m] = t[m]
    <3> HIDE DEF n, t
    <3> QED BY <2>1, <2>2, <2>3, EnteredTable, ZenonT(40)
  <2>5. CASE frame.table = "param"
    <3>1. paramEntities' = q /\ generalEntities' = generalEntities /\ t = paramEntities
      BY <1>1, <1>6, <2>5 DEF Enter, TableOf
    <3>2. Marked(stack', paramEntities')
      BY <1>2, <1>4, <2>1, <2>2, <2>3, <3>1, MarkedEntry DEF RestOK
    <3>3. StackOK(stack', paramEntities', generalEntities')
      BY <1>4, <2>4, <3>1, StackKept DEF RestOK
    <3> QED BY <1>2, <1>3, <1>4, <2>4, <3>1, <3>2, <3>3, OpenAfter DEF RestOK
  <2>6. CASE frame.table # "param"
    <3>1. generalEntities' = q /\ paramEntities' = paramEntities /\ t = generalEntities
      BY <1>1, <1>6, <2>6 DEF Enter, TableOf
    <3>2. StackOK(stack', paramEntities', generalEntities')
      BY <1>4, <2>4, <3>1, StackKept DEF RestOK
    <3> QED BY <1>2, <1>3, <1>4, <2>4, <3>1, <3>2, OpenAfter DEF RestOK
  <2> QED BY <2>5, <2>6
<1> QED BY <1>5, <1>6

\* A value, and the references in it
LEMMA InValueKeeps == OpenInv /\ InValue => OpenInv'
<1> SUFFICES ASSUME OpenInv, InValue PROVE OpenInv'
  OBVIOUS
<1> DEFINE piece == Head(frame.text)
           name  == piece.name
<1>1. pc = "prolog" /\ frame.text # <<>> /\ (Store(piece) \/ ReferInValue(piece))
  BY DEF InValue
<1>2. piece \in Parts /\ RestOK(Advanced) /\ RestOK(stack)
  BY <1>1, AdvancedOK DEF OpenInv, RestOK
<1> HIDE DEF piece
<1>3. CASE Store(piece)
  <2>1. Stored(piece) \in Parts
    BY <1>2, EntitiesAssumption DEF Stored
  <2>2. /\ entityValuePool' = Append(entityValuePool, Stored(piece)) /\ files' = files
        /\ paramEntities' = paramEntities /\ generalEntities' = generalEntities
        /\ stack' = Advanced
    BY <1>3 DEF Store, GoOn, tables
  <2>3. TextsOK'
    BY <2>1, <2>2 DEF OpenInv, TextsOK
  <2> QED BY <1>2, <2>2, <2>3, OpenAfter DEF OpenInv, RestOK
<1>4. CASE ReferInValue(piece)
  <2>1. CASE Skip([stack EXCEPT ![Len(stack)].text = <<>>])
    <3>1. RestOK(stack) /\ RestOK([stack EXCEPT ![Len(stack)].text = <<>>])
      <4>1. <<>> \in Seq(Parts)
        OBVIOUS
      <4> QED BY <1>1, <4>1, RestsOK
    <3>2. stack' = [stack EXCEPT ![Len(stack)].text = <<>>] /\ UNCHANGED <<tables, entityValuePool, files>>
      BY <2>1 DEF Skip, GoOn
    <3> QED BY <3>1, <3>2, StackStep
  <2>2. ASSUME NEW code, Errs(code) PROVE OpenInv'
    <3>1. stack' = stack /\ UNCHANGED <<tables, entityValuePool, files>>
      BY <2>2 DEF Errs, Fail, FailIn
    <3> QED BY <1>2, <3>1, StackStep
  <2>3. CASE /\ name \in DOMAIN paramEntities /\ ~paramEntities[name].open
             /\ \/ Internal("valueInternal", name, Advanced)
                \/ ExternalEntity(paramEntities[name].systemId, Frame("valueFile", name, <<>>), Advanced)
    BY <1>2, <2>3, InternalKeeps, ExternalKeeps DEF Expanding
  <2> QED BY <1>4, <2>1, <2>2, <2>3 DEF ReferInValue
<1> QED BY <1>1, <1>3, <1>4

\* What is set or not
FlagsInv == {hasParamEntityRefs, doctypeSysid, useForeignDTD} \subseteq BOOLEAN

\* It stays so.
LEMMA FlagsKept == FlagsInv /\ [EntitiesNext]_entitiesVars => FlagsInv'
<1> SUFFICES ASSUME FlagsInv, [EntitiesNext]_entitiesVars PROVE FlagsInv'
  OBVIOUS
<1> USE DEF FlagsInv
<1>1. ASSUME NEW piece, NEW rest, doProlog(piece, rest) PROVE hasParamEntityRefs' \in BOOLEAN
  BY <1>1 DEF doProlog, Declare, Refer, Character, flags
<1>2. CASE Doctype
  BY <1>2 DEF Doctype
<1>3. CASE InDocument \/ InText
  BY <1>1, <1>3 DEF InDocument, InText, doctype
<1>4. CASE InValue \/ EndOfDeclaration \/ EndOfInternal \/ EndOfFile \/ Reference
  BY <1>4 DEF InValue, EndOfDeclaration, EndOfInternal, EndOfFile, Reference, doctype, flags
<1>5. CASE CloseDoctype
  BY <1>5 DEF CloseDoctype, AfterUnread, doctype
<1>6. CASE EndOfSubset
  BY <1>6 DEF EndOfSubset, AfterUnread, doctype
<1>7. CASE UNCHANGED entitiesVars
  BY <1>7 DEF entitiesVars, doctype, flags
<1> QED BY <1>2, <1>3, <1>4, <1>5, <1>6, <1>7 DEF EntitiesNext

\* The external subset: a frame that reads no entity comes and goes.
LEMMA CloseDoctypeKeeps == OpenInv /\ FlagsInv /\ CloseDoctype => OpenInv'
<1> SUFFICES ASSUME OpenInv, FlagsInv, CloseDoctype PROVE OpenInv'
  OBVIOUS
<1> DEFINE new == [Frame("subset", NULL, <<>>) EXCEPT !.had = hasParamEntityRefs]
<1>1. pc = "prolog" /\ frame.kind = "document" /\ UNCHANGED <<tables, entityValuePool>>
  BY DEF CloseDoctype
<1>2. CASE stack' = stack /\ files' = files
  BY <1>1, <1>2, StackStays
<1>3. CASE ReadFile(Subset, new, stack)
  <2>1. /\ TextsOK' /\ Subset \in DOMAIN files'
        /\ DOMAIN files' = DOMAIN files \union {Subset}
        /\ \E x \in Seq(Parts) : stack' = Append(stack, [new EXCEPT !.text = x])
        /\ UNCHANGED ended
    <3> HIDE DEF new
    <3> QED BY <1>1, <1>3, FileRead
  <2>2. PICK x \in Seq(Parts) : stack' = Append(stack, [new EXCEPT !.text = x])
    BY <2>1
  <2> DEFINE f == [new EXCEPT !.text = x]
  <2>3. new \in Frames /\ new.kind = "subset" /\ new.entity = NULL /\ new.decl = NULL
    <3>1. <<>> \in Seq(Parts) /\ hasParamEntityRefs \in BOOLEAN
      BY DEF FlagsInv
    <3> QED BY <3>1 DEF Frame, Frames
  <2> HIDE DEF new
  <2>4. f \in Frames /\ f.kind = "subset" /\ f.entity = NULL /\ f.decl = NULL
    BY <2>3 DEF Frames
  <2> HIDE DEF f
  <2>5. stack' = Append(stack, f)
    BY <2>2 DEF f
  <2>6. Len(stack) = 1
    <3>1. Len(stack) \in 1..Len(stack) /\ stack[Len(stack)].kind = "document"
      BY <1>1, TopTyped
    <3> QED BY <3>1 DEF OpenInv, StackOK
  <2>7. paramEntities' = paramEntities /\ generalEntities' = generalEntities
    BY <1>1 DEF tables
  <2>8. RestOK(stack) /\ IsTable(paramEntities) /\ IsTable(generalEntities)
    BY <1>1 DEF OpenInv, RestOK
  <2>9. StackOK(stack', paramEntities, generalEntities)
    BY <2>4, <2>5, <2>6, <2>8, Pushed DEF RestOK, Expanding
  <2>10. stack \in Seq(Frames) /\ \A n \in DOMAIN paramEntities : n # NULL
    BY <2>8 DEF RestOK, StackOK, IsTable
  <2>11. Apart(stack') /\ Marked(stack', paramEntities)
    BY <2>4, <2>5, <2>8, <2>10, PushedPlain DEF RestOK
  <2> QED BY <2>1, <2>7, <2>8, <2>9, <2>11, OpenAfter
<1> QED BY <1>1, <1>2, <1>3 DEF CloseDoctype, Content, Fail, FailIn


\* Every other step
LEMMA OtherStepsKeep ==
  OpenInv /\ (Doctype \/ InDocument \/ InText \/ EndOfInternal \/ EndOfFile \/ EndOfSubset \/ Reference)
    => OpenInv'
<1> SUFFICES ASSUME OpenInv,
                    Doctype \/ InDocument \/ InText \/ EndOfInternal \/ EndOfFile \/ EndOfSubset \/ Reference
             PROVE  OpenInv'
  OBVIOUS
<1>1. CASE Doctype
  <2>1. stack' = stack /\ UNCHANGED <<tables, entityValuePool, files>> /\ pc # "returned"
    BY <1>1 DEF Doctype, Fail, FailIn, texts
  <2> QED BY <2>1, StackStays
<1>2. CASE InDocument
  <2>1. PICK piece \in Pieces : pc = "prolog" /\ doProlog(piece, stack)
    BY <1>2 DEF InDocument
  <2>2. piece \in Parts /\ RestOK(stack)
    BY <2>1, EntitiesAssumption DEF OpenInv, RestOK
  <2> QED BY <2>1, <2>2, PrologKeeps
<1>3. CASE InText
  <2>1. pc = "prolog" /\ frame.text # <<>> /\ doProlog(Head(frame.text), Advanced)
    BY <1>3 DEF InText
  <2>2. Head(frame.text) \in Parts /\ RestOK(Advanced)
    BY <2>1, AdvancedOK
  <2> QED BY <2>1, <2>2, PrologKeeps
<1>4. CASE EndOfInternal \/ EndOfFile
  <2>1. /\ pc = "prolog" /\ frame.kind \in Expanding /\ stack' = Front(stack)
        /\ paramEntities' = Opened(frame.entity, FALSE)
        /\ UNCHANGED <<generalEntities, entityValuePool, files>>
    BY <1>4 DEF EndOfInternal, EndOfFile, GoOn, FailIn, texts, Expanding
  <2> QED BY <2>1, ClosedKeeps
<1>5. CASE EndOfSubset
  <2>1. /\ pc = "prolog" /\ frame.kind = "subset" /\ stack' = Front(stack)
        /\ UNCHANGED <<tables, entityValuePool, files>>
    BY <1>5 DEF EndOfSubset, FailIn, Content, texts
  <2>2. RestOK(stack')
    BY <2>1, FrontOK DEF Expanding
  <2> QED BY <2>1, <2>2, StackStep
<1>6. CASE Reference
  <2>1. stack' = stack /\ UNCHANGED <<tables, entityValuePool, files>> /\ pc # "returned"
    BY <1>6 DEF Reference, texts
  <2> QED BY <2>1, StackStays
<1> QED BY <1>1, <1>2, <1>3, <1>4, <1>5, <1>6

\* The document alone, and no entities
LEMMA OpenInit == EntitiesInit => OpenInv /\ FlagsInv
<1> SUFFICES ASSUME EntitiesInit PROVE OpenInv /\ FlagsInv
  OBVIOUS
<1> DEFINE f == Frame("document", NULL, <<>>)
<1>1. FlagsInv
  BY DEF EntitiesInit, FlagsInv
<1>2. /\ f \in Frames /\ f.kind = "document" /\ f.entity = NULL /\ f.decl = NULL
  <2>1. <<>> \in Seq(Parts)
    OBVIOUS
  <2> QED BY <2>1 DEF Frame, Frames
<1>3. stack = <<f>> /\ entityValuePool = <<>>
      /\ paramEntities = <<>> /\ generalEntities = <<>> /\ files = <<>>
  BY DEF EntitiesInit
<1> HIDE DEF f
<1>4. Len(stack) = 1 /\ stack[1] = f /\ stack \in Seq(Frames) /\ stack # <<>>
  BY <1>2, <1>3
<1>5. \A k \in 1..Len(stack) : k = 1
  BY <1>4
<1>6. StackOK(stack, paramEntities, generalEntities)
  BY <1>2, <1>4, <1>5 DEF StackOK, Expanding
<1>7. DOMAIN <<>> = {}
  OBVIOUS
<1>8. IsTable(paramEntities) /\ IsTable(generalEntities)
  BY <1>3, <1>7 DEF IsTable
<1>9. TextsOK
  BY <1>3, <1>7 DEF TextsOK
<1>10. Apart(stack) /\ Marked(stack, paramEntities)
  BY <1>2, <1>3, <1>4, <1>5, <1>7 DEF Apart, Marked
<1> QED BY <1>1, <1>6, <1>8, <1>9, <1>10 DEF OpenInv

\* The frames, their texts and the tables fit together, and what is marked open
\* is what is read: in every state, for all declarations, files and settings.
THEOREM EntitiesInvariant == EntitiesSpec => [](OpenInv /\ FlagsInv)
<1>1. OpenInv /\ FlagsInv /\ [EntitiesNext]_entitiesVars => (OpenInv /\ FlagsInv)'
  <2> SUFFICES ASSUME OpenInv, FlagsInv, [EntitiesNext]_entitiesVars PROVE OpenInv' /\ FlagsInv'
    OBVIOUS
  <2>1. FlagsInv'
    BY FlagsKept
  <2>2. ASSUME UNCHANGED entitiesVars PROVE OpenInv'
    <3>1. /\ paramEntities' = paramEntities /\ generalEntities' = generalEntities
          /\ entityValuePool' = entityValuePool /\ files' = files /\ stack' = stack /\ pc' = pc
      BY <2>2 DEF entitiesVars, tables, texts, ended
    <3>2. TextsOK'
      BY <3>1 DEF OpenInv, TextsOK
    <3> QED BY <3>1, <3>2, OpenAfter DEF OpenInv
  <2>3. OpenInv'
    BY <2>2, CloseDoctypeKeeps, InValueKeeps, EndOfDeclarationKeeps, OtherStepsKeep DEF EntitiesNext
  <2> QED BY <2>1, <2>3
<1> QED BY OpenInit, <1>1, PTL DEF EntitiesSpec

\* No text is read within itself, and the marks are of what is read.
THEOREM OpenIsAlwaysBeingRead == EntitiesSpec => []OpenIsBeingRead
<1>1. OpenInv => OpenIsBeingRead
  BY OpenInvMeans
<1> QED BY EntitiesInvariant, <1>1, PTL

-----------------------------------------------------------------------------
(* What is refused in the content: hasParamEntityRefs tells whether there   *)
(* was anything but the document that may have declared entities.           *)

DocumentRefers == \E k \in DOMAIN document : document[k].kind = "ref"
InSubset == \E k \in 1..Len(stack) : stack[k].kind = "subset"
Reading  == \E k \in 1..Len(stack) : stack[k].entity # NULL

\* While the external subset is read
SubsetInv(had) ==
  /\ hasParamEntityRefs
  /\ had <=> doctypeSysid \/ DocumentRefers
  /\ doctypeSysid \/ useForeignDTD
  /\ paramEntityParsing /\ externalEntityRefHandler
  /\ Subset \in DOMAIN files

\* At the content
Judged == standalone \/ Withdrawn \/ (hasParamEntityRefs <=> ~NothingElse)

RefusalInv ==
  /\ document \in Seq(Parts)
  /\ pc = "doctype" => /\ ~DocumentRefers /\ ~InSubset /\ ~Reading
                       /\ ~hasParamEntityRefs /\ ~doctypeSysid /\ DOMAIN files = {}
  /\ pc = "prolog" /\ ~InSubset => /\ hasParamEntityRefs <=> doctypeSysid \/ DocumentRefers
                                   /\ Reading \/ DOMAIN files # {} => DocumentRefers
  /\ pc = "prolog" => \A k \in 1..Len(stack) : stack[k].kind = "subset" => SubsetInv(stack[k].had)
  /\ pc = "content" => Judged
  /\ pc # "returned" => outcome = "none"
  /\ outcome # "none" =>
       /\ Judged
       /\ outcome = "refused" <=>
            /\ standalone \/ ~hasParamEntityRefs
            /\ General \in DOMAIN generalEntities => ~generalEntities[General].is_internal

\* The invariant gives the property.
LEMMA RefusalInvMeans == RefusalInv => UndeclaredIsRefused
  BY DEF RefusalInv, Judged, UndeclaredIsRefused

\* s and t read the external subset alike.
SubsetsSame(s, t) ==
  /\ \A k \in 1..Len(t) : t[k].kind = "subset" => k \in 1..Len(s) /\ s[k].kind = "subset" /\ t[k].had = s[k].had
  /\ \A k \in 1..Len(s) : s[k].kind = "subset" => k \in 1..Len(t) /\ t[k].kind = "subset"

\* What a step in the prolog has to show
LEMMA RefusalStep ==
  ASSUME RefusalInv, pc = "prolog", pc' \in {"prolog", "returned"}, outcome' = outcome,
         UNCHANGED <<settings, doctype>>, document' \in Seq(Parts),
         hasParamEntityRefs => hasParamEntityRefs',
         hasParamEntityRefs' /\ ~hasParamEntityRefs => InSubset \/ DocumentRefers',
         DocumentRefers => DocumentRefers',
         DocumentRefers' /\ ~DocumentRefers => hasParamEntityRefs' /\ ~InSubset,
         SubsetsSame(stack, stack'),
         Reading' => Reading \/ InSubset \/ DocumentRefers',
         DOMAIN files \subseteq DOMAIN files',
         DOMAIN files' # DOMAIN files => InSubset \/ DocumentRefers'
  PROVE  RefusalInv'
<1>1. /\ standalone' = standalone /\ paramEntityParsing' = paramEntityParsing
      /\ externalEntityRefHandler' = externalEntityRefHandler
      /\ doctypeSysid' = doctypeSysid /\ useForeignDTD' = useForeignDTD
  BY DEF settings, doctype
<1>2. outcome' = "none"
  BY DEF RefusalInv
<1>3. InSubset' <=> InSubset
  BY DEF SubsetsSame, InSubset
<1>4. ASSUME ~InSubset
      PROVE  /\ hasParamEntityRefs' <=> doctypeSysid \/ DocumentRefers'
             /\ Reading' \/ DOMAIN files' # {} => DocumentRefers'
  <2>1. /\ hasParamEntityRefs <=> doctypeSysid \/ DocumentRefers
        /\ Reading \/ DOMAIN files # {} => DocumentRefers
    BY <1>4 DEF RefusalInv
  <2> HIDE DEF DocumentRefers, Reading, InSubset
  <2> QED BY <1>4, <2>1
<1>5. ASSUME NEW k \in 1..Len(stack'), stack'[k].kind = "subset"
      PROVE  SubsetInv(stack[k].had)' /\ stack'[k].had = stack[k].had
  <2>1. k \in 1..Len(stack) /\ stack[k].kind = "subset" /\ stack'[k].had = stack[k].had
    BY <1>5 DEF SubsetsSame
  <2>2. SubsetInv(stack[k].had)
    BY <2>1 DEF RefusalInv
  <2>3. InSubset
    BY <2>1 DEF InSubset
  <2>4. DocumentRefers' <=> DocumentRefers
    BY <2>3
  <2> HIDE DEF DocumentRefers, InSubset
  <2> QED BY <1>1, <2>1, <2>2, <2>3, <2>4 DEF SubsetInv
<1> HIDE DEF DocumentRefers, Reading, InSubset
<1> QED BY <1>1, <1>2, <1>3, <1>4, <1>5 DEF RefusalInv

\* One turn: an error, or what is left on the stack, perhaps with a frame on it.
Turn(rest) ==
  /\ pc' \in {"prolog", "returned"} /\ outcome' = outcome
  /\ DOMAIN files \subseteq DOMAIN files'
  /\ \/ stack' \in {stack, rest}
     \/ \E f : f.kind # "subset" /\ stack' = Append(rest, f)

\* A turn that refers to nothing
Plainly(rest) ==
  /\ Turn(rest) /\ DOMAIN files' = DOMAIN files
  /\ Reading' => Reading

\* The stack, as long as the frames are the same
LEMMA SameReads ==
  ASSUME NEW s, NEW t, SameFrames(s, t)
  PROVE  /\ SubsetsSame(s, t)
         /\ (\E k \in 1..Len(t) : t[k].entity # NULL) => (\E k \in 1..Len(s) : s[k].entity # NULL)
  BY DEF SameFrames, SubsetsSame

\* A frame that is not of the external subset comes.
LEMMA PushReads ==
  ASSUME NEW s \in Seq(Frames), NEW f, f.kind # "subset"
  PROVE  /\ SubsetsSame(s, Append(s, f))
         /\ f.entity = NULL /\ (\E k \in 1..Len(Append(s, f)) : Append(s, f)[k].entity # NULL)
              => (\E k \in 1..Len(s) : s[k].entity # NULL)
<1> DEFINE S == Frames \union {f}
           t == Append(s, f)
<1>1. s \in Seq(S) /\ f \in S
  OBVIOUS
<1> HIDE DEF S
<1>2. /\ Len(s) \in Nat /\ Len(t) = Len(s) + 1 /\ t[Len(s) + 1] = f
      /\ \A k \in 1..Len(s) : t[k] = s[k]
  BY <1>1
<1> HIDE DEF t
<1>3. \A k \in 1..Len(t) : k \in 1..Len(s) \/ k = Len(s) + 1
  BY <1>2
<1>4. \A k \in 1..Len(s) : k \in 1..Len(t)
  BY <1>2
<1>5. SubsetsSame(s, t)
  BY <1>2, <1>3, <1>4 DEF SubsetsSame
<1>6. f.entity = NULL /\ (\E k \in 1..Len(t) : t[k].entity # NULL) => (\E k \in 1..Len(s) : s[k].entity # NULL)
  BY <1>2, <1>3
<1> QED BY <1>5, <1>6 DEF t

\* Like after like
LEMMA SubsetsTrans ==
  ASSUME NEW s, NEW t, NEW u, SubsetsSame(s, t), SubsetsSame(t, u)
  PROVE  SubsetsSame(s, u)
  BY DEF SubsetsSame

\* A turn leaves what is read of the external subset.
LEMMA TurnSubsets ==
  ASSUME OpenInv, NEW rest \in Seq(Frames), SameFrames(stack, rest), Turn(rest)
  PROVE  SubsetsSame(stack, stack')
<1>1. SubsetsSame(stack, stack) /\ SubsetsSame(stack, rest)
  BY SameReads DEF SubsetsSame
<1>2. CASE stack' \in {stack, rest}
  BY <1>1, <1>2
<1>3. ASSUME NEW f, f.kind # "subset", stack' = Append(rest, f)
      PROVE  SubsetsSame(stack, stack')
  <2>1. SubsetsSame(rest, stack')
    BY <1>3, PushReads
  <2> QED BY <1>1, <2>1, SubsetsTrans
<1> QED BY <1>2, <1>3 DEF Turn

\* Declarations refer to nothing.
LEMMA DeclarePlainly ==
  ASSUME OpenInv, pc = "prolog", NEW piece, NEW rest \in Seq(Frames), SameFrames(stack, rest),
         Declare(piece, rest)
  PROVE  Plainly(rest) /\ hasParamEntityRefs' = hasParamEntityRefs
<1> DEFINE f == [Frame("value", NULL, piece.value) EXCEPT
                   !.decl = IF Binds(piece.kind, piece.name) THEN piece.name ELSE NULL,
                   !.table = piece.kind]
<1>1. /\ pc' = pc /\ outcome' = outcome /\ files' = files /\ hasParamEntityRefs' = hasParamEntityRefs
      /\ stack' = rest \/ stack' = Append(rest, f)
  BY DEF Declare, GoOn, ended, flags
<1>2. f.kind = "value" /\ f.entity = NULL
  BY DEF Frame
<1> HIDE DEF f
<1>3. (\E k \in 1..Len(rest) : rest[k].entity # NULL) => Reading
  BY SameReads DEF Reading
<1>4. Turn(rest)
  BY <1>1, <1>2 DEF Turn
<1>5. Reading' => Reading
  <2>1. CASE stack' = rest
    BY <1>3, <2>1 DEF Reading
  <2>2. CASE stack' = Append(rest, f)
    <3>1. (\E k \in 1..Len(stack') : stack'[k].entity # NULL) => (\E k \in 1..Len(rest) : rest[k].entity # NULL)
      BY <1>2, <2>2, PushReads
    <3> QED BY <1>3, <3>1 DEF Reading
  <2> QED BY <1>1, <2>1, <2>2
<1> QED BY <1>1, <1>4, <1>5 DEF Plainly

\* A reference to an internal entity
LEMMA InternalTurns ==
  ASSUME pc = "prolog", NEW kind \in Expanding, NEW name, NEW rest, Internal(kind, name, rest)
  PROVE  Turn(rest)
<1> DEFINE f == Frame(kind, name, IF paramEntities[name].text = NULL THEN <<>> ELSE paramEntities[name].text)
<1>1. pc' = pc /\ outcome' = outcome /\ files' = files /\ stack' = Append(rest, f)
  BY DEF Internal, GoOn, ended
<1>2. f.kind # "subset"
  BY DEF Frame, Expanding
<1> HIDE DEF f
<1> QED BY <1>1, <1>2 DEF Turn

\* A reference that is passed over
LEMMA SkipTurns ==
  ASSUME pc = "prolog", NEW rest, Skip(rest) \/ NotParsed(rest)
  PROVE  Turn(rest) /\ DOMAIN files' = DOMAIN files
  BY DEF Skip, NotParsed, GoOn, FailIn, ended, Turn

\* An error
LEMMA ErrsTurns ==
  ASSUME pc = "prolog", NEW rest, NEW code, Errs(code)
  PROVE  Turn(rest) /\ DOMAIN files' = DOMAIN files /\ stack' = stack
  BY DEF Errs, Fail, FailIn, Turn

\* The handler of the application, or none
LEMMA ExternalTurns ==
  ASSUME OpenInv, pc = "prolog", NEW sys, NEW kind \in Expanding, NEW name, NEW rest,
         ExternalEntity(sys, Frame(kind, name, <<>>), rest)
  PROVE  Turn(rest)
<1> DEFINE new == Frame(kind, name, <<>>)
<1>1. CASE HandlerReads(sys, new, rest)
  <2>1. ReadFile(sys, new, rest) /\ entityValuePool' = entityValuePool
    BY <1>1 DEF HandlerReads, ExternalEntity
  <2>2. new.kind = kind
    BY DEF Frame
  <2>3. DOMAIN new = {"kind", "entity", "text", "decl", "table", "had"}
    BY DEF Frame
  <2> HIDE DEF new
  <2>4. /\ TextsOK' /\ sys \in DOMAIN files'
        /\ DOMAIN files' = DOMAIN files \union {sys}
        /\ \E x \in Seq(Parts) : stack' = Append(rest, [new EXCEPT !.text = x])
        /\ UNCHANGED ended
    BY <2>1, FileRead
  <2>5. PICK x \in Seq(Parts) : stack' = Append(rest, [new EXCEPT !.text = x])
    BY <2>4
  <2>6. [new EXCEPT !.text = x].kind # "subset"
    BY <2>2, <2>3 DEF Expanding
  <2> QED BY <2>4, <2>5, <2>6 DEF Turn, ended
<1>2. CASE HandlerDeclines(sys, rest) \/ NoHandler(rest)
  BY <1>2 DEF HandlerDeclines, NoHandler, GoOn, ended, Turn
<1>3. CASE HandlerFails(sys)
  BY <1>3 DEF HandlerFails, Fail, FailIn, Turn
<1> QED BY <1>1, <1>2, <1>3 DEF ExternalEntity

\* References between declarations
LEMMA ReferTurns ==
  ASSUME OpenInv, pc = "prolog", NEW piece, NEW rest, Refer(piece, rest)
  PROVE  Turn(rest) /\ hasParamEntityRefs' = TRUE /\ piece.kind = "ref"
<1> DEFINE name == piece.name
<1>1. hasParamEntityRefs' = TRUE /\ piece.kind = "ref"
  BY DEF Refer
<1>2. \/ NotParsed(rest) \/ Skip(rest) \/ (\E code : Errs(code))
      \/ Internal("internal", name, rest)
      \/ ExternalEntity(paramEntities[name].systemId, Frame("file", name, <<>>), rest)
  BY DEF Refer
<1>3. "internal" \in Expanding /\ "file" \in Expanding
  BY DEF Expanding
<1> QED BY <1>1, <1>2, <1>3, SkipTurns, ErrsTurns, InternalTurns, ExternalTurns

\* A turn in the prolog: it refers to nothing, or something has been referred to.
LEMMA TurnRefuses ==
  ASSUME OpenInv, RefusalInv, pc = "prolog", NEW rest \in Seq(Frames), SameFrames(stack, rest),
         Turn(rest), UNCHANGED <<settings, doctype>>, document' \in Seq(Parts),
         DocumentRefers => DocumentRefers',
         DocumentRefers' /\ ~DocumentRefers => hasParamEntityRefs' /\ ~InSubset,
         hasParamEntityRefs => hasParamEntityRefs',
         \/ Plainly(rest) /\ hasParamEntityRefs' = hasParamEntityRefs
         \/ InSubset \/ DocumentRefers'
  PROVE  RefusalInv'
<1>1. SubsetsSame(stack, stack')
  BY TurnSubsets
<1>2. pc' \in {"prolog", "returned"} /\ outcome' = outcome /\ DOMAIN files \subseteq DOMAIN files'
  BY DEF Turn
<1>3. CASE Plainly(rest) /\ hasParamEntityRefs' = hasParamEntityRefs
  BY <1>1, <1>2, <1>3, RefusalStep DEF Plainly
<1>4. CASE InSubset \/ DocumentRefers'
  BY <1>1, <1>2, <1>4, RefusalStep
<1> QED BY <1>3, <1>4

\* Inside an entity, one was referred to, or it is the external subset.
LEMMA InsideRefers ==
  ASSUME OpenInv, RefusalInv, pc = "prolog", InEntity \/ frame.kind \in {"internal", "file", "subset"}
  PROVE  InSubset \/ DocumentRefers
<1>1. Len(stack) \in 1..Len(stack) /\ frame = stack[Len(stack)] /\ DOMAIN stack = 1..Len(stack)
  BY TopTyped DEF OpenInv, StackOK
<1>2. \E k \in 1..Len(stack) : stack[k].kind \in Files \/ stack[k].entity # NULL \/ stack[k].kind \in Expanding
  BY <1>1 DEF InEntity, Files, Expanding
<1>3. \A k \in 1..Len(stack) : stack[k].kind \in Files => stack[k].kind = "subset" \/ stack[k].kind \in Expanding
  BY DEF Files, Expanding
<1>4. \A k \in 1..Len(stack) : stack[k].kind \in Expanding <=> stack[k].entity # NULL
  BY DEF OpenInv, StackOK
<1>5. InSubset \/ Reading
  BY <1>2, <1>3, <1>4 DEF InSubset, Reading
<1> HIDE DEF InSubset, Reading, DocumentRefers
<1> QED BY <1>5 DEF RefusalInv

\* The stack and what is left of it
LEMMA RestsSame ==
  ASSUME OpenInv, pc = "prolog"
  PROVE  /\ stack \in Seq(Frames) /\ SameFrames(stack, stack)
         /\ \A x \in Seq(Parts) : /\ [stack EXCEPT ![Len(stack)].text = x] \in Seq(Frames)
                                  /\ SameFrames(stack, [stack EXCEPT ![Len(stack)].text = x])
         /\ frame.text # <<>> => Advanced \in Seq(Frames) /\ SameFrames(stack, Advanced)
<1>1. StackOK(stack, paramEntities, generalEntities)
  BY DEF OpenInv
<1>2. ASSUME NEW x \in Seq(Parts)
      PROVE  /\ [stack EXCEPT ![Len(stack)].text = x] \in Seq(Frames)
             /\ SameFrames(stack, [stack EXCEPT ![Len(stack)].text = x])
  <2> DEFINE t == [stack EXCEPT ![Len(stack)].text = x]
  <2>1. StackOK(t, paramEntities, generalEntities) /\ SameFrames(stack, t)
    BY <1>1, TextChanged
  <2> HIDE DEF t
  <2>2. t \in Seq(Frames)
    BY <2>1 DEF StackOK
  <2> QED BY <2>1, <2>2 DEF t
<1>3. ASSUME frame.text # <<>>
      PROVE  Advanced \in Seq(Frames) /\ SameFrames(stack, Advanced)
  <2>1. frame.text \in Seq(Parts)
    BY TopTyped DEF Frames
  <2>2. Tail(frame.text) \in Seq(Parts)
    BY <1>3, <2>1
  <2>3. Advanced = [stack EXCEPT ![Len(stack)].text = Tail(frame.text)]
    BY DEF Advanced, frame, Last
  <2> QED BY <1>2, <2>2, <2>3
<1>4. stack \in Seq(Frames) /\ SameFrames(stack, stack)
  BY <1>1 DEF StackOK, SameFrames
<1> QED BY <1>2, <1>3, <1>4

\* The document itself is the stack then.
LEMMA AtDocument ==
  ASSUME OpenInv, frame.kind = "document"
  PROVE  Len(stack) = 1 /\ ~InSubset /\ ~Reading
<1>1. Len(stack) \in 1..Len(stack) /\ stack[Len(stack)].kind = "document"
  BY TopTyped
<1>2. Len(stack) = 1
  BY <1>1 DEF OpenInv, StackOK
<1>3. \A k \in 1..Len(stack) : stack[k].kind = "document"
  BY <1>1, <1>2
<1>4. \A k \in 1..Len(stack) : stack[k].entity = NULL
  BY <1>3 DEF OpenInv, StackOK, Expanding
<1> QED BY <1>2, <1>3, <1>4 DEF InSubset, Reading

\* Declarations and references in the document
LEMMA InDocumentRefuses == OpenInv /\ RefusalInv /\ InDocument => RefusalInv'
<1> SUFFICES ASSUME OpenInv, RefusalInv, InDocument PROVE RefusalInv'
  OBVIOUS
<1>1. PICK piece \in Pieces : /\ document' = Append(document, piece) /\ doProlog(piece, stack)
                              /\ pc = "prolog" /\ frame.kind = "document" /\ UNCHANGED <<settings, doctype>>
  BY DEF InDocument
<1>2. document \in Seq(Parts) /\ piece \in Parts
  BY EntitiesAssumption DEF RefusalInv
<1>3. document' \in Seq(Parts) /\ (DocumentRefers' <=> DocumentRefers \/ piece.kind = "ref")
  <2>1. /\ document' \in Seq(Parts) /\ Len(document') = Len(document) + 1 /\ Len(document) \in Nat
        /\ document'[Len(document) + 1] = piece /\ \A k \in 1..Len(document) : document'[k] = document[k]
        /\ DOMAIN document = 1..Len(document) /\ DOMAIN document' = 1..Len(document')
    BY <1>1, <1>2
  <2>2. \A k \in 1..Len(document') : k \in 1..Len(document) \/ k = Len(document) + 1
    BY <2>1
  <2>3. \A k \in 1..Len(document) : k \in 1..Len(document')
    BY <2>1
  <2> QED BY <2>1, <2>2, <2>3 DEF DocumentRefers
<1>4. ~InSubset /\ stack \in Seq(Frames) /\ SameFrames(stack, stack)
  BY <1>1, AtDocument, RestsSame
<1> HIDE DEF DocumentRefers, InSubset
<1>5. CASE Declare(piece, stack)
  <2>1. Plainly(stack) /\ hasParamEntityRefs' = hasParamEntityRefs /\ piece.kind # "ref"
    BY <1>1, <1>4, <1>5, DeclarePlainly DEF Declare
  <2> QED BY <1>1, <1>3, <1>4, <2>1, TurnRefuses DEF Plainly
<1>6. CASE Character(piece)
  <2>1. /\ Turn(stack) /\ DOMAIN files' = DOMAIN files /\ stack' = stack
        /\ hasParamEntityRefs' = hasParamEntityRefs /\ piece.kind # "ref"
    BY <1>1, <1>6, ErrsTurns DEF Character
  <2>2. Plainly(stack)
    BY <2>1 DEF Plainly, Reading
  <2> QED BY <1>1, <1>3, <1>4, <2>1, <2>2, TurnRefuses
<1>7. CASE Refer(piece, stack)
  <2>1. Turn(stack) /\ hasParamEntityRefs' = TRUE /\ piece.kind = "ref"
    BY <1>1, <1>7, ReferTurns
  <2> QED BY <1>1, <1>3, <1>4, <2>1, TurnRefuses
<1> QED BY <1>1, <1>5, <1>6, <1>7 DEF doProlog

\* The document does not change elsewhere.
LEMMA SameDocument ==
  ASSUME RefusalInv, document' = document
  PROVE  document' \in Seq(Parts) /\ (DocumentRefers' <=> DocumentRefers)
  BY DEF RefusalInv, DocumentRefers

\* Declarations and references in an entity or the external subset
LEMMA InTextRefuses == OpenInv /\ RefusalInv /\ InText => RefusalInv'
<1> SUFFICES ASSUME OpenInv, RefusalInv, InText PROVE RefusalInv'
  OBVIOUS
<1> DEFINE piece == Head(frame.text)
<1>1. /\ pc = "prolog" /\ frame.kind \in {"internal", "file", "subset"} /\ frame.text # <<>>
      /\ document' = document /\ doProlog(piece, Advanced) /\ UNCHANGED <<settings, doctype>>
  BY DEF InText
<1>2. document' \in Seq(Parts) /\ (DocumentRefers' <=> DocumentRefers)
  BY <1>1, SameDocument
<1>3. Advanced \in Seq(Frames) /\ SameFrames(stack, Advanced)
  BY <1>1, RestsSame
<1>4. InSubset \/ DocumentRefers
  BY <1>1, InsideRefers
<1> HIDE DEF DocumentRefers, InSubset, piece
<1>5. CASE Declare(piece, Advanced)
  <2>1. Plainly(Advanced) /\ hasParamEntityRefs' = hasParamEntityRefs
    BY <1>1, <1>3, <1>5, DeclarePlainly
  <2> QED BY <1>1, <1>2, <1>3, <1>4, <2>1, TurnRefuses DEF Plainly
<1>6. CASE Character(piece)
  <2>1. Turn(Advanced) /\ hasParamEntityRefs' = hasParamEntityRefs
    BY <1>1, <1>6, ErrsTurns DEF Character
  <2> QED BY <1>1, <1>2, <1>3, <1>4, <2>1, TurnRefuses
<1>7. CASE Refer(piece, Advanced)
  <2>1. Turn(Advanced) /\ hasParamEntityRefs' = TRUE
    BY <1>1, <1>7, ReferTurns
  <2> QED BY <1>1, <1>2, <1>3, <1>4, <2>1, TurnRefuses
<1> QED BY <1>1, <1>5, <1>6, <1>7 DEF doProlog

\* The values of entities
LEMMA InValueRefuses == OpenInv /\ RefusalInv /\ InValue => RefusalInv'
<1> SUFFICES ASSUME OpenInv, RefusalInv, InValue PROVE RefusalInv'
  OBVIOUS
<1> DEFINE piece == Head(frame.text)
           name  == piece.name
           cut   == [stack EXCEPT ![Len(stack)].text = <<>>]
<1>1. /\ pc = "prolog" /\ frame.text # <<>> /\ document' = document
      /\ Store(piece) \/ ReferInValue(piece)
      /\ hasParamEntityRefs' = hasParamEntityRefs
  BY DEF InValue
<1>2. document' \in Seq(Parts) /\ (DocumentRefers' <=> DocumentRefers) /\ UNCHANGED <<settings, doctype>>
  BY <1>1, SameDocument DEF InValue
<1>3. /\ Advanced \in Seq(Frames) /\ SameFrames(stack, Advanced)
      /\ stack \in Seq(Frames) /\ SameFrames(stack, stack)
  BY <1>1, RestsSame
<1>4. cut \in Seq(Frames) /\ SameFrames(stack, cut)
  <2>1. <<>> \in Seq(Parts)
    OBVIOUS
  <2> QED BY <1>1, <2>1, RestsSame
<1> HIDE DEF DocumentRefers, InSubset, piece, cut
<1>5. CASE Store(piece)
  <2>1. pc' = pc /\ outcome' = outcome /\ files' = files /\ stack' = Advanced
    BY <1>5 DEF Store, GoOn, ended
  <2>2. Reading' => Reading
    BY <1>3, <2>1, SameReads DEF Reading
  <2>3. Plainly(Advanced)
    BY <1>1, <2>1, <2>2 DEF Plainly, Turn
  <2> QED BY <1>1, <1>2, <1>3, <2>3, TurnRefuses DEF Plainly
<1>6. CASE ReferInValue(piece) /\ ~InEntity
  <2>1. Errs("PARAM_ENTITY_REF")
    BY <1>6 DEF ReferInValue
  <2>2. Turn(stack) /\ DOMAIN files' = DOMAIN files /\ stack' = stack
    BY <1>1, <2>1, ErrsTurns
  <2>3. Plainly(stack)
    BY <2>2 DEF Plainly, Reading
  <2> QED BY <1>1, <1>2, <1>3, <2>2, <2>3, TurnRefuses
<1>7. CASE ReferInValue(piece) /\ InEntity
  <2>1. InSubset \/ DocumentRefers
    BY <1>1, <1>7, InsideRefers
  <2>2. \/ Skip(cut) \/ (\E code : Errs(code))
        \/ Internal("valueInternal", name, Advanced)
        \/ ExternalEntity(paramEntities[name].systemId, Frame("valueFile", name, <<>>), Advanced)
    BY <1>7 DEF ReferInValue, cut
  <2>3. "valueInternal" \in Expanding /\ "valueFile" \in Expanding
    BY DEF Expanding
  <2>4. Turn(cut) \/ Turn(Advanced)
    BY <1>1, <2>2, <2>3, SkipTurns, ErrsTurns, InternalTurns, ExternalTurns
  <2> QED BY <1>1, <1>2, <1>3, <1>4, <2>1, <2>4, TurnRefuses
<1> QED BY <1>1, <1>5, <1>6, <1>7

\* A frame that is not of the external subset goes.
LEMMA FrontReads ==
  ASSUME OpenInv, frame.kind \notin {"document", "subset"}, stack' = Front(stack)
  PROVE  SubsetsSame(stack, stack') /\ (Reading' => Reading)
<1>1. StackOK(stack, paramEntities, generalEntities) /\ frame = Last(stack) /\ frame = stack[Len(stack)]
  BY TopTyped DEF OpenInv, frame
<1>2. /\ Len(stack) \in Nat /\ Len(stack) > 1 /\ Len(stack') = Len(stack) - 1
      /\ \A k \in 1..Len(stack) - 1 : stack'[k] = stack[k]
  BY <1>1, Popped
<1>3. \A k \in 1..Len(stack') : k \in 1..Len(stack) /\ stack'[k] = stack[k]
  BY <1>2
<1>4. \A k \in 1..Len(stack) : k \in 1..Len(stack') \/ k = Len(stack)
  BY <1>2
<1>5. SubsetsSame(stack, stack')
  BY <1>1, <1>3, <1>4 DEF SubsetsSame
<1>6. Reading' => Reading
  BY <1>3 DEF Reading
<1> QED BY <1>5, <1>6

\* The end of a text that is not the external subset's
LEMMA EndsRefuse ==
  OpenInv /\ RefusalInv /\ (EndOfDeclaration \/ EndOfInternal \/ EndOfFile) => RefusalInv'
<1> SUFFICES ASSUME OpenInv, RefusalInv, EndOfDeclaration \/ EndOfInternal \/ EndOfFile
             PROVE  RefusalInv'
  OBVIOUS
<1>1. /\ pc = "prolog" /\ frame.kind \notin {"document", "subset"} /\ stack' = Front(stack)
      /\ pc' \in {"prolog", "returned"} /\ outcome' = outcome
      /\ UNCHANGED <<settings, doctype>> /\ document' = document /\ files' = files
      /\ hasParamEntityRefs' = hasParamEntityRefs
  BY DEF EndOfDeclaration, EndOfInternal, EndOfFile, GoOn, FailIn, ended, texts, flags
<1>2. document' \in Seq(Parts) /\ (DocumentRefers' <=> DocumentRefers)
  BY <1>1, SameDocument
<1>3. SubsetsSame(stack, stack') /\ (Reading' => Reading)
  BY <1>1, FrontReads
<1> HIDE DEF DocumentRefers, InSubset, Reading
<1> QED BY <1>1, <1>2, <1>3, RefusalStep

\* A document type begins.
LEMMA DoctypeRefuses == OpenInv /\ FlagsInv /\ RefusalInv /\ Doctype => RefusalInv'
<1> SUFFICES ASSUME OpenInv, FlagsInv, RefusalInv, Doctype PROVE RefusalInv'
  OBVIOUS
<1>1. /\ pc = "doctype" /\ pc' \in {"prolog", "returned"} /\ outcome' = outcome /\ stack' = stack
      /\ doctypeSysid' \in BOOLEAN /\ hasParamEntityRefs' = doctypeSysid'
      /\ document' = document /\ files' = files
  BY DEF Doctype, Fail, FailIn, texts
<1>2. document' \in Seq(Parts) /\ (DocumentRefers' <=> DocumentRefers)
  BY <1>1, SameDocument
<1>3. ~DocumentRefers /\ ~InSubset /\ ~Reading /\ DOMAIN files = {} /\ outcome = "none"
  BY <1>1 DEF RefusalInv
<1>4. ~InSubset' /\ ~Reading' /\ \A k \in 1..Len(stack') : stack'[k].kind # "subset"
  BY <1>1, <1>3 DEF InSubset, Reading
<1> HIDE DEF DocumentRefers, InSubset, Reading
<1> QED BY <1>1, <1>2, <1>3, <1>4 DEF RefusalInv

\* A document type ends, and the external subset or the content begins.
LEMMA CloseDoctypeRefuses == OpenInv /\ FlagsInv /\ RefusalInv /\ CloseDoctype => RefusalInv'
<1> SUFFICES ASSUME OpenInv, FlagsInv, RefusalInv, CloseDoctype PROVE RefusalInv'
  OBVIOUS
<1> DEFINE reads == (doctypeSysid \/ useForeignDTD) /\ paramEntityParsing /\ externalEntityRefHandler
           new   == [Frame("subset", NULL, <<>>) EXCEPT !.had = hasParamEntityRefs]
<1>1. /\ pc = "prolog" /\ frame.kind = "document" /\ document' = document
      /\ UNCHANGED <<settings, doctype>> /\ entityValuePool' = entityValuePool
  BY DEF CloseDoctype
<1>2. document' \in Seq(Parts) /\ (DocumentRefers' <=> DocumentRefers)
  BY <1>1, SameDocument
<1>3. ~InSubset /\ ~Reading /\ Len(stack) = 1
  BY <1>1, AtDocument
<1>4. /\ hasParamEntityRefs <=> doctypeSysid \/ DocumentRefers
      /\ DOMAIN files # {} => DocumentRefers
      /\ outcome = "none"
  BY <1>1, <1>3 DEF RefusalInv
<1>5. /\ paramEntityParsing' = paramEntityParsing /\ doctypeSysid' = doctypeSysid
      /\ externalEntityRefHandler' = externalEntityRefHandler /\ useForeignDTD' = useForeignDTD
  BY <1>1 DEF settings, doctype
<1>6. /\ NothingElse' <=> ~DocumentRefers' /\ ~doctypeSysid' /\ ~useForeignDTD'
      /\ Withdrawn' <=> /\ ~standalone' /\ ~DocumentRefers' /\ ~doctypeSysid' /\ useForeignDTD'
                        /\ paramEntityParsing' /\ externalEntityRefHandler' /\ ~paramEntityRead'
  BY DEF NothingElse, Withdrawn, NamesOthers, DocumentRefers
<1>7. CASE Content(stack) /\ files' = files /\ Judged'
  <2>1. pc' = "content" /\ outcome' = "none"
    BY <1>4, <1>7 DEF Content
  <2> QED BY <1>2, <1>7, <2>1 DEF RefusalInv
<1>8. CASE Fail("EXTERNAL_ENTITY_HANDLING")
  <2>1. pc' = "returned" /\ outcome' = "none"
    BY <1>4, <1>8 DEF Fail, FailIn
  <2> QED BY <1>2, <2>1 DEF RefusalInv
<1>9. CASE reads /\ ReadFile(Subset, new, stack) /\ hasParamEntityRefs' = TRUE
  <2>1. new \in Frames /\ new.kind = "subset" /\ new.had = hasParamEntityRefs
    <3>1. <<>> \in Seq(Parts) /\ hasParamEntityRefs \in BOOLEAN
      BY DEF FlagsInv
    <3> QED BY <3>1 DEF Frame, Frames
  <2> HIDE DEF new
  <2>2. /\ TextsOK' /\ Subset \in DOMAIN files'
        /\ DOMAIN files' = DOMAIN files \union {Subset}
        /\ \E x \in Seq(Parts) : stack' = Append(stack, [new EXCEPT !.text = x])
        /\ UNCHANGED ended
    BY <1>1, <1>9, FileRead
  <2>3. PICK x \in Seq(Parts) : stack' = Append(stack, [new EXCEPT !.text = x])
    BY <2>2
  <2> DEFINE f == [new EXCEPT !.text = x]
  <2>4. f \in Frames /\ f.kind = "subset" /\ f.had = hasParamEntityRefs
    BY <2>1 DEF Frames
  <2> HIDE DEF f
  <2>5. stack \in Seq(Frames) /\ stack' = Append(stack, f)
    BY <2>3 DEF OpenInv, StackOK, f
  <2>6. Len(stack') = 2 /\ stack'[2] = f /\ stack'[1] = stack[1]
    <3>1. /\ Len(stack') = Len(stack) + 1 /\ stack'[Len(stack) + 1] = f
          /\ \A k \in 1..Len(stack) : stack'[k] = stack[k]
      BY <2>4, <2>5
    <3>2. 1 \in 1..Len(stack)
      BY <1>3
    <3> QED BY <1>3, <3>1, <3>2
  <2>7. \A k \in 1..Len(stack') : k = 1 \/ k = 2
    BY <2>6
  <2>8. stack[1].kind # "subset"
    BY <1>3 DEF InSubset
  <2>9. InSubset'
    BY <2>4, <2>6 DEF InSubset
  <2>10. pc' = "prolog" /\ outcome' = "none"
    BY <1>1, <1>4, <2>2 DEF ended
  <2>11. ASSUME NEW k \in 1..Len(stack'), stack'[k].kind = "subset"
         PROVE  SubsetInv(stack[k].had)'
    <3>1. stack'[k].had = hasParamEntityRefs
      BY <2>4, <2>6, <2>7, <2>8, <2>11
    <3> HIDE DEF DocumentRefers
    <3> QED BY <1>2, <1>4, <1>5, <1>9, <2>2, <3>1 DEF SubsetInv
  <2> HIDE DEF DocumentRefers, InSubset, Reading
  <2> QED BY <1>2, <2>9, <2>10, <2>11 DEF RefusalInv
<1>10. ASSUME ~reads, hasParamEntityRefs' = (hasParamEntityRefs \/ doctypeSysid \/ useForeignDTD)
       PROVE  Judged'
  <2> HIDE DEF DocumentRefers
  <2> QED BY <1>2, <1>4, <1>5, <1>6, <1>10 DEF Judged
<1>11. ASSUME reads, hasParamEntityRefs' = AfterUnread(hasParamEntityRefs), paramEntityRead' = FALSE
       PROVE  Judged'
  <2> HIDE DEF DocumentRefers
  <2> QED BY <1>2, <1>4, <1>5, <1>6, <1>11 DEF AfterUnread, Judged
<1>12. \/ /\ ~reads /\ Content(stack) /\ files' = files
          /\ hasParamEntityRefs' = (hasParamEntityRefs \/ doctypeSysid \/ useForeignDTD)
       \/ reads /\ ReadFile(Subset, new, stack) /\ hasParamEntityRefs' = TRUE
       \/ /\ reads /\ Content(stack) /\ files' = files
          /\ hasParamEntityRefs' = AfterUnread(hasParamEntityRefs) /\ paramEntityRead' = FALSE
       \/ Fail("EXTERNAL_ENTITY_HANDLING")
  BY DEF CloseDoctype
<1> HIDE DEF reads, new, DocumentRefers
<1> QED BY <1>7, <1>8, <1>9, <1>10, <1>11, <1>12

\* The external subset ends.
LEMMA EndOfSubsetRefuses == OpenInv /\ FlagsInv /\ RefusalInv /\ EndOfSubset => RefusalInv'
<1> SUFFICES ASSUME OpenInv, FlagsInv, RefusalInv, EndOfSubset PROVE RefusalInv'
  OBVIOUS
<1>1. /\ pc = "prolog" /\ frame.kind = "subset" /\ document' = document /\ files' = files
      /\ UNCHANGED <<settings, doctype>> /\ paramEntityRead' = paramEntityRead
      /\ hasParamEntityRefs' = (IF paramEntityRead THEN hasParamEntityRefs ELSE AfterUnread(frame.had))
      /\ pc' \in {"content", "returned"} /\ outcome' = outcome
  BY DEF EndOfSubset, FailIn, Content, texts
<1>2. document' \in Seq(Parts) /\ (DocumentRefers' <=> DocumentRefers)
  BY <1>1, SameDocument
<1>3. Len(stack) \in 1..Len(stack) /\ frame = stack[Len(stack)]
  BY TopTyped
<1>4. SubsetInv(frame.had) /\ outcome = "none"
  BY <1>1, <1>3 DEF RefusalInv
<1>5. /\ paramEntityParsing' = paramEntityParsing /\ doctypeSysid' = doctypeSysid
      /\ externalEntityRefHandler' = externalEntityRefHandler /\ useForeignDTD' = useForeignDTD
  BY <1>1 DEF settings, doctype
<1>6. /\ NothingElse' <=> ~DocumentRefers' /\ ~doctypeSysid' /\ ~useForeignDTD'
      /\ Withdrawn' <=> /\ ~standalone' /\ ~DocumentRefers' /\ ~doctypeSysid' /\ useForeignDTD'
                        /\ paramEntityParsing' /\ externalEntityRefHandler' /\ ~paramEntityRead'
  BY DEF NothingElse, Withdrawn, NamesOthers, DocumentRefers
<1> HIDE DEF DocumentRefers
<1>7. Judged'
  BY <1>1, <1>2, <1>4, <1>5, <1>6 DEF Judged, SubsetInv, AfterUnread
<1> QED BY <1>1, <1>2, <1>4, <1>7 DEF RefusalInv

\* The reference in the content
LEMMA ReferenceRefuses == RefusalInv /\ Reference => RefusalInv'
<1> SUFFICES ASSUME RefusalInv, Reference PROVE RefusalInv'
  OBVIOUS
<1>1. /\ pc = "content" /\ pc' = "returned"
      /\ standalone' = standalone /\ hasParamEntityRefs' = hasParamEntityRefs
      /\ generalEntities' = generalEntities /\ document' = document
      /\ UNCHANGED <<settings, doctype, tables, flags, texts>>
  BY DEF Reference, settings, flags, tables, texts
<1>2. Judged' <=> Judged
  BY <1>1 DEF Judged, Withdrawn, NothingElse, NamesOthers, settings, doctype, flags, texts
<1>3. document' \in Seq(Parts) /\ Judged
  BY <1>1, SameDocument DEF RefusalInv
<1>4. outcome' = "refused" <=>
        /\ standalone \/ ~hasParamEntityRefs
        /\ General \in DOMAIN generalEntities => ~generalEntities[General].is_internal
  BY DEF Reference, MayBeSkipped
<1> QED BY <1>1, <1>2, <1>3, <1>4 DEF RefusalInv

\* Nothing is there, and nothing is read.
LEMMA RefusalInit == EntitiesInit => RefusalInv
<1> SUFFICES ASSUME EntitiesInit PROVE RefusalInv
  OBVIOUS
<1> DEFINE f == Frame("document", NULL, <<>>)
<1>1. f.kind = "document" /\ f.entity = NULL
  BY DEF Frame
<1>2. /\ stack = <<f>> /\ document = <<>> /\ files = <<>> /\ pc = "doctype" /\ outcome = "none"
      /\ hasParamEntityRefs = FALSE /\ doctypeSysid = FALSE
  BY DEF EntitiesInit
<1> HIDE DEF f
<1>3. Len(stack) = 1 /\ stack[1] = f /\ DOMAIN document = {} /\ DOMAIN files = {}
  BY <1>2
<1>4. \A k \in 1..Len(stack) : stack[k] = f
  BY <1>3
<1>5. ~DocumentRefers /\ ~InSubset /\ ~Reading
  BY <1>1, <1>3, <1>4 DEF DocumentRefers, InSubset, Reading
<1>6. document \in Seq(Parts)
  BY <1>2
<1> HIDE DEF DocumentRefers, InSubset, Reading
<1> QED BY <1>2, <1>3, <1>5, <1>6 DEF RefusalInv

\* hasParamEntityRefs keeps telling whether anything but the document itself may
\* have declared entities: through references inside one another, an external
\* subset that is read, left out or fails, and a foreign DTD that is not withdrawn.
THEOREM RefusalInvariant == EntitiesSpec => []RefusalInv
<1>1. OpenInv /\ FlagsInv /\ RefusalInv /\ [EntitiesNext]_entitiesVars => RefusalInv'
  <2> SUFFICES ASSUME OpenInv, FlagsInv, RefusalInv, [EntitiesNext]_entitiesVars PROVE RefusalInv'
    OBVIOUS
  <2>1. CASE UNCHANGED entitiesVars
    BY <2>1 DEF entitiesVars, settings, doctype, tables, flags, ended, texts, RefusalInv, DocumentRefers,
                InSubset, Reading, SubsetInv, Judged, Withdrawn, NothingElse, NamesOthers
  <2> QED BY <2>1, DoctypeRefuses, InDocumentRefuses, InTextRefuses, InValueRefuses, EndsRefuse,
             CloseDoctypeRefuses, EndOfSubsetRefuses, ReferenceRefuses DEF EntitiesNext
<1> QED BY RefusalInit, EntitiesInvariant, <1>1, PTL DEF EntitiesSpec

\* A reference is refused as XML 1.0 says, in every state, unless a foreign DTD was
\* withdrawn (UndeclaredIsRefused).
THEOREM UndeclaredIsAlwaysRefused == EntitiesSpec => []UndeclaredIsRefused
<1>1. RefusalInv => UndeclaredIsRefused
  BY RefusalInvMeans
<1> QED BY RefusalInvariant, <1>1, PTL

=============================================================================
