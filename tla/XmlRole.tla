------------------------------ MODULE XmlRole ------------------------------
(***************************************************************************)
(* expat/lib/xmlrole.c: the states of the prolog and of the declarations   *)
(* of a DTD.  A token comes with the word it matches, "" if that is no     *)
(* keyword.  Each row of a handler says, of a token and a word (any, if it *)
(* is Any), which handler is next and which role the token has.            *)
(***************************************************************************)
EXTENDS Naturals, Sequences, TLC

AnyWord == "*"
On(tok, to, role) == {[tok |-> tok, word |-> AnyWord, to |-> to, role |-> role]}
OnWord(tok, word, to, role) == {[tok |-> tok, word |-> word, to |-> to, role |-> role]}
OnName(to, role) == On("NAME", to, role) \union On("PREFIXED_NAME", to, role)

\* Not handlers: setTopLevel, and the handler as it is.
Top  == "setTopLevel"
Same == "same"

Externals(system, public, role) ==
  OnWord("NAME", "SYSTEM", system, role) \union OnWord("NAME", "PUBLIC", public, role)

-----------------------------------------------------------------------------

Misc(next) ==
  On("PI", next, "PI") \union On("COMMENT", next, "COMMENT")

PrologHandlers ==
  LET Start == OnWord("DECL_OPEN", "DOCTYPE", "doctype0", "DOCTYPE_NONE")
               \union On("BOM", Same, "NONE")
      Instance == On("INSTANCE_START", "error", "INSTANCE_START")
  IN  [prolog0 |-> Misc("prolog1") \union Start \union Instance
                   \union On("PROLOG_S", "prolog1", "NONE") \union On("XML_DECL", "prolog1", "XML_DECL"),
       prolog1 |-> Misc(Same) \union Start \union Instance,
       prolog2 |-> Misc(Same) \union Instance]

DoctypeHandlers ==
  LET Body == On("OPEN_BRACKET", "internalSubset", "DOCTYPE_INTERNAL_SUBSET")
              \union On("DECL_CLOSE", "prolog2", "DOCTYPE_CLOSE")
  IN  [doctype0 |-> OnName("doctype1", "DOCTYPE_NAME"),
       doctype1 |-> Body \union Externals("doctype3", "doctype2", "DOCTYPE_NONE"),
       doctype2 |-> On("LITERAL", "doctype3", "DOCTYPE_PUBLIC_ID"),
       doctype3 |-> On("LITERAL", "doctype4", "DOCTYPE_SYSTEM_ID"),
       doctype4 |-> Body,
       doctype5 |-> On("DECL_CLOSE", "prolog2", "DOCTYPE_CLOSE")]

\* The declarations and what may stand between them.
Declarations ==
  OnWord("DECL_OPEN", "ENTITY", "entity0", "ENTITY_NONE")
  \union OnWord("DECL_OPEN", "ATTLIST", "attlist0", "ATTLIST_NONE")
  \union OnWord("DECL_OPEN", "ELEMENT", "element0", "ELEMENT_NONE")
  \union OnWord("DECL_OPEN", "NOTATION", "notation0", "NOTATION_NONE")
  \union Misc(Same)
  \union On("PARAM_ENTITY_REF", Same, "PARAM_ENTITY_REF")

SubsetHandlers ==
  [internalSubset |-> Declarations \union On("CLOSE_BRACKET", "doctype5", "DOCTYPE_NONE")
                      \union On("END", Same, "NONE"),
   externalSubset0 |-> On("XML_DECL", "externalSubset1", "TEXT_DECL"),
   externalSubset1 |-> Declarations \union On("COND_SECT_OPEN", "condSect0", "NONE")
                       \union On("COND_SECT_CLOSE", Same, "NONE") \union On("END", Same, "NONE"),
   condSect0 |-> OnWord("NAME", "INCLUDE", "condSect1", "NONE")
                 \union OnWord("NAME", "IGNORE", "condSect2", "NONE"),
   condSect1 |-> On("OPEN_BRACKET", "externalSubset1", "NONE"),
   condSect2 |-> On("OPEN_BRACKET", "externalSubset1", "IGNORE_SECT")]

EntityValue == On("LITERAL", "declClose", "ENTITY_VALUE")
EntityComplete == On("DECL_CLOSE", Top, "ENTITY_COMPLETE")

GeneralEntityHandlers ==
  [entity0 |-> On("PERCENT", "entity1", "ENTITY_NONE")
               \union On("NAME", "entity2", "GENERAL_ENTITY_NAME"),
   entity1 |-> On("NAME", "entity7", "PARAM_ENTITY_NAME"),
   entity2 |-> EntityValue \union Externals("entity4", "entity3", "ENTITY_NONE"),
   entity3 |-> On("LITERAL", "entity4", "ENTITY_PUBLIC_ID"),
   entity4 |-> On("LITERAL", "entity5", "ENTITY_SYSTEM_ID"),
   entity5 |-> EntityComplete \union OnWord("NAME", "NDATA", "entity6", "ENTITY_NONE"),
   entity6 |-> On("NAME", "declClose", "ENTITY_NOTATION_NAME")]

ParamEntityHandlers ==
  [entity7 |-> EntityValue \union Externals("entity9", "entity8", "ENTITY_NONE"),
   entity8 |-> On("LITERAL", "entity9", "ENTITY_PUBLIC_ID"),
   entity9 |-> On("LITERAL", "entity10", "ENTITY_SYSTEM_ID"),
   entity10 |-> EntityComplete]

NotationHandlers ==
  LET System == On("LITERAL", "declClose", "NOTATION_SYSTEM_ID")
  IN  [notation0 |-> On("NAME", "notation1", "NOTATION_NAME"),
       notation1 |-> Externals("notation3", "notation2", "NOTATION_NONE"),
       notation2 |-> On("LITERAL", "notation4", "NOTATION_PUBLIC_ID"),
       notation3 |-> System,
       notation4 |-> System \union On("DECL_CLOSE", Top, "NOTATION_NO_SYSTEM_ID")]

OfType(type, role) == OnWord("NAME", type, "attlist8", role)

AttlistNone(tok, to) == On(tok, to, "ATTLIST_NONE")

AttlistTypeHandlers ==
  [attlist0 |-> OnName("attlist1", "ATTLIST_ELEMENT_NAME"),
   attlist1 |-> AttlistNone("DECL_CLOSE", Top) \union OnName("attlist2", "ATTRIBUTE_NAME"),
   attlist2 |-> OfType("CDATA", "ATTRIBUTE_TYPE_CDATA") \union OfType("ID", "ATTRIBUTE_TYPE_ID")
                \union OfType("IDREF", "ATTRIBUTE_TYPE_IDREF") \union OfType("IDREFS", "ATTRIBUTE_TYPE_IDREFS")
                \union OfType("ENTITY", "ATTRIBUTE_TYPE_ENTITY") \union OfType("ENTITIES", "ATTRIBUTE_TYPE_ENTITIES")
                \union OfType("NMTOKEN", "ATTRIBUTE_TYPE_NMTOKEN") \union OfType("NMTOKENS", "ATTRIBUTE_TYPE_NMTOKENS")
                \union OnWord("NAME", "NOTATION", "attlist5", "ATTLIST_NONE")
                \union AttlistNone("OPEN_PAREN", "attlist3")]

AttlistValueHandlers ==
  [attlist3 |-> OnName("attlist4", "ATTRIBUTE_ENUM_VALUE")
                \union On("NMTOKEN", "attlist4", "ATTRIBUTE_ENUM_VALUE"),
   attlist4 |-> AttlistNone("CLOSE_PAREN", "attlist8") \union AttlistNone("OR", "attlist3"),
   attlist5 |-> AttlistNone("OPEN_PAREN", "attlist6"),
   attlist6 |-> On("NAME", "attlist7", "ATTRIBUTE_NOTATION_VALUE"),
   attlist7 |-> AttlistNone("CLOSE_PAREN", "attlist8") \union AttlistNone("OR", "attlist6"),
   attlist8 |-> OnWord("POUND_NAME", "IMPLIED", "attlist1", "IMPLIED_ATTRIBUTE_VALUE")
                \union OnWord("POUND_NAME", "REQUIRED", "attlist1", "REQUIRED_ATTRIBUTE_VALUE")
                \union OnWord("POUND_NAME", "FIXED", "attlist9", "ATTLIST_NONE")
                \union On("LITERAL", "attlist1", "DEFAULT_ATTRIBUTE_VALUE"),
   attlist9 |-> On("LITERAL", "attlist1", "FIXED_ATTRIBUTE_VALUE")]

\* Names and groups of a content model; the levels are in Level below.
Particles ==
  OnName("element7", "CONTENT_ELEMENT")
  \union On("NAME_QUESTION", "element7", "CONTENT_ELEMENT_OPT")
  \union On("NAME_ASTERISK", "element7", "CONTENT_ELEMENT_REP")
  \union On("NAME_PLUS", "element7", "CONTENT_ELEMENT_PLUS")

\* The end of a group, by what follows it
Shut(to)         == On("CLOSE_PAREN", to, "GROUP_CLOSE")
ShutAsterisk(to) == On("CLOSE_PAREN_ASTERISK", to, "GROUP_CLOSE_REP")
ShutQuestion(to) == On("CLOSE_PAREN_QUESTION", to, "GROUP_CLOSE_OPT")
ShutPlus(to)     == On("CLOSE_PAREN_PLUS", to, "GROUP_CLOSE_PLUS")

ElementHandlers ==
  [element0 |-> OnName("element1", "ELEMENT_NAME"),
   element1 |-> OnWord("NAME", "EMPTY", "declClose", "CONTENT_EMPTY")
                \union OnWord("NAME", "ANY", "declClose", "CONTENT_ANY")
                \union On("OPEN_PAREN", "element2", "GROUP_OPEN"),
   element2 |-> OnWord("POUND_NAME", "PCDATA", "element3", "CONTENT_PCDATA")
                \union On("OPEN_PAREN", "element6", "GROUP_OPEN") \union Particles]

MixedHandlers ==
  [element3 |-> Shut("declClose") \union ShutAsterisk("declClose")
                \union On("OR", "element4", "ELEMENT_NONE"),
   element4 |-> OnName("element5", "CONTENT_ELEMENT"),
   element5 |-> ShutAsterisk("declClose") \union On("OR", "element4", "ELEMENT_NONE")]

ChildrenHandlers ==
  [element6 |-> On("OPEN_PAREN", Same, "GROUP_OPEN") \union Particles,
   element7 |-> Shut(Same) \union ShutAsterisk(Same) \union ShutQuestion(Same) \union ShutPlus(Same)
                \union On("COMMA", "element6", "GROUP_SEQUENCE") \union On("OR", "element6", "GROUP_CHOICE")]

CloseHandlers == [declClose |-> On("DECL_CLOSE", Top, "role_none"), error |-> {}]

Group(handlers, space) == [rows |-> handlers, space |-> space]

\* The handlers, and the role that each gives to white space: it stays as it is.
Groups ==
  <<Group(PrologHandlers, "NONE"), Group(SubsetHandlers, "NONE"),
    Group(DoctypeHandlers, "DOCTYPE_NONE"),
    Group(GeneralEntityHandlers, "ENTITY_NONE"), Group(ParamEntityHandlers, "ENTITY_NONE"),
    Group(NotationHandlers, "NOTATION_NONE"),
    Group(AttlistTypeHandlers, "ATTLIST_NONE"), Group(AttlistValueHandlers, "ATTLIST_NONE"),
    Group(ElementHandlers, "ELEMENT_NONE"), Group(MixedHandlers, "ELEMENT_NONE"),
    Group(ChildrenHandlers, "ELEMENT_NONE"), Group(CloseHandlers, "role_none")>>

GroupOf(handler) ==
  Groups[CHOOSE n \in DOMAIN Groups : handler \in DOMAIN Groups[n].rows]

Rows(handler) == GroupOf(handler).rows[handler]
RoleOfSpace(handler) == GroupOf(handler).space

-----------------------------------------------------------------------------
(* XmlTokenRole on a prolog state, and what it makes of the state.          *)

PrologState(documentEntity) ==
  [handler |-> IF documentEntity THEN "prolog0" ELSE "externalSubset0",
   level |-> 0, includeLevel |-> 0, role_none |-> "NONE", documentEntity |-> documentEntity]

RowsOn(state, t) ==
  {row \in Rows(state.handler) : row.tok = t.tok /\ row.word \in {AnyWord, t.word}}

\* Sections are closed only if one is open, and all of them before the end.
Refused(state, t) ==
  /\ state.handler \in {"externalSubset0", "externalSubset1"}
  /\ \/ t.tok = "COND_SECT_CLOSE" /\ state.includeLevel = 0
     \/ t.tok = "END" /\ state.includeLevel # 0

Level(state, role) ==
  IF state.handler = "element1" /\ role = "GROUP_OPEN" THEN 1
  ELSE IF state.handler = "element2" /\ role = "GROUP_OPEN" THEN 2
  ELSE IF state.handler = "element6" /\ role = "GROUP_OPEN" THEN state.level + 1
  ELSE IF state.handler = "element7" /\ role \notin {"GROUP_SEQUENCE", "GROUP_CHOICE"} THEN state.level - 1
  ELSE state.level

IncludeLevel(state, t) ==
  IF state.handler = "condSect1" THEN state.includeLevel + 1
  ELSE IF t.tok = "COND_SECT_CLOSE" THEN state.includeLevel - 1
  ELSE state.includeLevel

\* The last group that is closed ends the model.
Resolved(state, row, level) ==
  CASE row.to = Top -> IF state.documentEntity THEN "internalSubset" ELSE "externalSubset1"
    [] row.to = Same -> IF state.handler = "element7" /\ level = 0 THEN "declClose" ELSE state.handler
    [] OTHER -> row.to

\* common(): a parameter entity reference inside a declaration, or an error.
Common(state, t) ==
  IF ~state.documentEntity /\ t.tok = "PARAM_ENTITY_REF"
  THEN [state |-> state, role |-> "INNER_PARAM_ENTITY_REF"]
  ELSE [state |-> [state EXCEPT !.handler = "error"], role |-> "ERROR"]

\* externalSubset0 takes all but a text declaration as externalSubset1 does.
Entered(state, t) ==
  IF state.handler = "externalSubset0" /\ t.tok # "XML_DECL"
  THEN [state EXCEPT !.handler = "externalSubset1"] ELSE state

TokenRole(before, t) ==
  LET state == Entered(before, t)
      rows  == RowsOn(state, t)
  IN  IF state.handler = "error" THEN [state |-> state, role |-> "NONE"]
      ELSE IF t.tok = "PROLOG_S" /\ rows = {}
      THEN [state |-> state,
            role |-> IF state.handler = "declClose" THEN state.role_none ELSE RoleOfSpace(state.handler)]
      ELSE IF rows = {} \/ Refused(state, t) THEN Common(state, t)
      ELSE LET row     == CHOOSE r \in rows : TRUE
               level   == Level(state, row.role)
               handler == Resolved(state, row, level)
           IN  [state |-> [state EXCEPT
                             !.handler = handler,
                             !.level = level,
                             !.includeLevel = IncludeLevel(state, t),
                             !.role_none = IF handler = "declClose" THEN RoleOfSpace(state.handler) ELSE @],
                role |-> IF row.role = "role_none" THEN state.role_none ELSE row.role]

=============================================================================
