--------------------------- MODULE XmlDeclarations ---------------------------
(***************************************************************************)
(* The declarations of a DTD, token by token: XmlRole, with what doProlog  *)
(* of expat/lib/xmlparse.c does for the content models of elements.  White *)
(* space and comments change nothing and are left out of what is fed.      *)
(***************************************************************************)
EXTENDS XmlRole, Integers, SequencesExt, FiniteSets

CONSTANTS
  Tokens,         \* the tokens that may come, [tok, word]
  InitGroup,      \* first size of groupConnector, 32
  InitScaffold,   \* INIT_SCAFFOLD_ELEMENTS, 32
  MaxTokens,      \* bound on the tokens that come in all
  MaxInclude      \* bound on nested INCLUDE sections

ASSUME XmlDeclarationsAssumption ==
  /\ {InitScaffold, MaxTokens} \subseteq Nat \ {0} /\ MaxInclude \in Nat
  /\ InitGroup \in Nat \ {0, 1}

VARIABLES
  prologState,
  lastRole,                    \* the role of the last token
  groupSize, groupConnector,   \* level -> "none", "," or "|"
  hasHandler,                  \* elementDeclHandler is set
  in_eldecl, scaffold, scaffSize,
  scaffIndex, scaffLevel,
  errorCode,
  model,                       \* the content model reported last, and of what declaration
  fed, top, decl               \* history: the number of tokens, and the tokens of the
                               \* last declaration and the handler it began with

groups == <<groupSize, groupConnector>>
scaff  == <<in_eldecl, scaffold, scaffSize, scaffIndex, scaffLevel>>
history == <<fed, top, decl>>
vars   == <<prologState, lastRole, groups, hasHandler, scaff, model, errorCode, history>>

NoModel == [of |-> <<>>, is |-> <<>>]

Init ==
  /\ prologState \in {PrologState(d) : d \in BOOLEAN}
  /\ hasHandler \in BOOLEAN
  /\ lastRole = "NONE" /\ errorCode = "NONE" /\ model = NoModel
  /\ fed = 0 /\ top = prologState.handler /\ decl = <<>>
  /\ groupSize = 0 /\ groupConnector = <<>>
  /\ in_eldecl = FALSE /\ scaffLevel = 0
  /\ scaffold = <<>> /\ scaffSize = 0 /\ scaffIndex = <<>>

level == prologState'.level

-----------------------------------------------------------------------------
(* The arrays, indexed from 0.  Memory that was not written holds "wild".   *)

Room(n) == [x \in 0..(n - 1) |-> "wild"]
Enlarged(array, n) == [x \in 0..(n - 1) |-> IF x \in DOMAIN array THEN array[x] ELSE "wild"]
Put(array, x, v) == [array EXCEPT ![x] = v]

\* The scaffold holds scaffCount entries; scaffold[x + 1] is the entry of index x.
scaffCount == Len(scaffold)
Entry(type, quant, name) ==
  [type |-> type, quant |-> quant, name |-> name,
   firstchild |-> 0, lastchild |-> 0, childcnt |-> 0, nextsib |-> 0]

\* The part of index next becomes the last child of p.
Adopted(parts, p, next) ==
  LET parent == parts[p + 1]
      linked == IF parent.lastchild # 0
                THEN [parts EXCEPT ![parent.lastchild + 1].nextsib = next] ELSE parts
      first == IF parent.childcnt = 0 THEN next ELSE parent.firstchild
  IN  [linked EXCEPT
         ![p + 1] = [@ EXCEPT !.firstchild = first, !.lastchild = next, !.childcnt = @ + 1]]

\* Mutant of OpenGroup: the outermost.
OpenGroupFirst == scaffIndex[0] + 1

\* The entry of the innermost open group
OpenGroup == scaffIndex[scaffLevel - 1] + 1

\* nextScaffoldPart: one more entry, and room for it
WithPart(index, entry) ==
  LET parts == IF scaffLevel = 0 THEN scaffold
               ELSE Adopted(scaffold, index[scaffLevel - 1], scaffCount)
  IN  Append(parts, entry)
ScaffoldRoom ==
  IF scaffCount < scaffSize THEN scaffSize
  ELSE IF scaffSize = 0 THEN InitScaffold ELSE 2 * scaffSize

Unlevelled == scaffIndex = <<>>
IndexFor(size) == IF Unlevelled THEN Put(Room(size), 0, 0) ELSE scaffIndex

-----------------------------------------------------------------------------
(* build_model: the entries become one array, each block of children behind *)
(* all that was laid out before.                                            *)

\* The children of the entry src, one the sibling of the other
Children(src) ==
  LET child[n \in Nat] ==
        IF n = 1 THEN scaffold[src + 1].firstchild ELSE scaffold[child[n - 1] + 1].nextsib
  IN  IF scaffold[src + 1].type = "NAME" THEN <<>>
      ELSE [n \in 1..scaffold[src + 1].childcnt |-> child[n]]

\* build_node goes from an entry to its children: this one, then what is below
\* the first, and so on.
Visited ==
  LET from[src \in Nat] ==
        <<src>> \o FlattenSeq([n \in DOMAIN Children(src) |-> from[Children(src)[n]]])
  IN  from[0]

\* An entry goes to where its parent has put it, and puts its children at contpos.
BuildNode(built, src) ==
  LET entry == scaffold[src + 1]
      count == Len(Children(src))
      Nth(c) == CHOOSE n \in 1..count : Children(src)[n] = c
      node  == [type |-> entry.type, quant |-> entry.quant, name |-> entry.name,
                children |-> built.contpos, numchildren |-> count]
  IN  [cells |-> [built.cells EXCEPT ![built.dest[src]] = node],
       dest |-> [c \in DOMAIN built.dest |->
                   IF c \in Range(Children(src)) THEN built.contpos + Nth(c) - 1 ELSE built.dest[c]],
       contpos |-> built.contpos + count]

BuildModel(parts) ==
  FoldLeft(BuildNode,
           [cells |-> Room(Len(parts)), dest |-> [x \in 0..(Len(parts) - 1) |-> 0], contpos |-> 1],
           Visited).cells

-----------------------------------------------------------------------------
(* What the roles do *)

Quant(r) ==
  CASE r \in {"CONTENT_ELEMENT_OPT", "GROUP_CLOSE_OPT"} -> "OPT"
    [] r \in {"CONTENT_ELEMENT_REP", "GROUP_CLOSE_REP"} -> "REP"
    [] r \in {"CONTENT_ELEMENT_PLUS", "GROUP_CLOSE_PLUS"} -> "PLUS"
    [] OTHER -> "NONE"

Fails(code) ==
  /\ errorCode' = code
  /\ UNCHANGED <<groups, scaff, model>>

Nothing == errorCode' = errorCode /\ UNCHANGED <<groups, scaff, model>>

\* The connectors grow when the level comes to their number, and the indices
\* with them.
\* Mutant of IndexGrown: they do not.
IndexGrownNot(size) == IndexFor(groupSize)

IndexGrown(size) == IF Unlevelled THEN IndexFor(size) ELSE Enlarged(scaffIndex, size)

GroupOpen ==
  LET size  == IF level < groupSize THEN groupSize
               ELSE IF groupSize = 0 THEN InitGroup ELSE 2 * groupSize
      index == IF size = groupSize THEN IndexFor(size) ELSE IndexGrown(size)
  IN  /\ groupSize' = size
      /\ groupConnector' = Put(Enlarged(groupConnector, size), level, "none")
      /\ IF in_eldecl
         THEN /\ scaffold' = WithPart(index, Entry("SEQ", "wild", "none"))
              /\ scaffIndex' = Put(index, scaffLevel, scaffCount)
              /\ scaffLevel' = scaffLevel + 1
              /\ scaffSize' = ScaffoldRoom
         ELSE /\ scaffIndex' = IF Unlevelled \/ size = groupSize THEN scaffIndex ELSE index
              /\ UNCHANGED <<scaffold, scaffLevel, scaffSize>>
      /\ UNCHANGED <<in_eldecl, model, errorCode>>

Connected(by) == [groupConnector EXCEPT ![level] = by]

GroupSequence ==
  IF groupConnector[level] = "|" THEN Fails("SYNTAX")
  ELSE /\ groupConnector' = Connected(",")
       /\ UNCHANGED <<groupSize, scaff, model, errorCode>>

\* Mutant of Mixes: a sequence may go on as a choice.
MixesNever == FALSE

Mixes == groupConnector[level] = ","

GroupChoice ==
  IF Mixes THEN Fails("SYNTAX")
  ELSE /\ groupConnector' = Connected("|")
       /\ scaffold' = IF in_eldecl /\ groupConnector[level] = "none" /\ scaffold[OpenGroup].type # "MIXED"
                      THEN [scaffold EXCEPT ![OpenGroup].type = "CHOICE"] ELSE scaffold
       /\ UNCHANGED <<groupSize, in_eldecl, scaffIndex, scaffLevel, scaffSize, model, errorCode>>

ElementName ==
  /\ IF hasHandler
     THEN scaffold' = <<>> /\ scaffLevel' = 0 /\ in_eldecl' = TRUE
     ELSE UNCHANGED <<scaffold, scaffLevel, in_eldecl>>
  /\ UNCHANGED <<groups, scaffIndex, scaffSize, model, errorCode>>

\* elementDeclHandler is called.
Reported(cells) == model' = [of |-> decl', is |-> cells]

ContentSpec(type) ==
  /\ in_eldecl' = FALSE
  /\ IF in_eldecl
     THEN Reported(0 :> [type |-> type, quant |-> "NONE", name |-> "none",
                         children |-> 1, numchildren |-> 0])
     ELSE UNCHANGED model
  /\ UNCHANGED <<groups, scaffold, scaffLevel, scaffIndex, scaffSize, errorCode>>

Pcdata ==
  /\ scaffold' = IF in_eldecl THEN [scaffold EXCEPT ![OpenGroup].type = "MIXED"] ELSE scaffold
  /\ UNCHANGED <<groups, in_eldecl, scaffLevel, scaffIndex, scaffSize, model, errorCode>>

ContentElement(r, name) ==
  /\ IF in_eldecl
     THEN /\ scaffold' = WithPart(scaffIndex, Entry("NAME", Quant(r), name))
          /\ scaffSize' = ScaffoldRoom
     ELSE UNCHANGED <<scaffold, scaffSize>>
  /\ UNCHANGED <<groups, in_eldecl, scaffLevel, scaffIndex, model, errorCode>>

\* build_model works on the scaffold as this step leaves it.
CloseGroup(r) ==
  /\ IF in_eldecl
     THEN /\ scaffLevel' = scaffLevel - 1
          /\ scaffold' = [scaffold EXCEPT ![OpenGroup].quant = Quant(r)]
          /\ in_eldecl' = (scaffLevel # 1)
          /\ IF scaffLevel = 1
             THEN Reported([BuildModel(scaffold) EXCEPT ![0].quant = Quant(r)])
             ELSE UNCHANGED model
     ELSE UNCHANGED <<in_eldecl, scaffold, scaffLevel, model>>
  /\ UNCHANGED <<groups, scaffIndex, scaffSize, errorCode>>

SyntaxError(t) ==
  Fails(CASE t.tok = "PARAM_ENTITY_REF" -> "PARAM_ENTITY_REF"
          [] t.tok = "XML_DECL" -> "MISPLACED_XML_PI"
          [] t.tok = "END" -> "INCOMPLETE_PE"
          [] OTHER -> "SYNTAX")

Does(r, t) ==
  CASE r = "ERROR" -> SyntaxError(t)
    [] r = "GROUP_OPEN" -> GroupOpen
    [] r = "GROUP_SEQUENCE" -> GroupSequence
    [] r = "GROUP_CHOICE" -> GroupChoice
    [] r = "ELEMENT_NAME" -> ElementName
    [] r = "CONTENT_ANY" -> ContentSpec("ANY")
    [] r = "CONTENT_EMPTY" -> ContentSpec("EMPTY")
    [] r = "CONTENT_PCDATA" -> Pcdata
    [] r \in {"CONTENT_ELEMENT", "CONTENT_ELEMENT_OPT", "CONTENT_ELEMENT_REP", "CONTENT_ELEMENT_PLUS"}
         -> ContentElement(r, t.word)
    [] r \in {"GROUP_CLOSE", "GROUP_CLOSE_OPT", "GROUP_CLOSE_REP", "GROUP_CLOSE_PLUS"} -> CloseGroup(r)
    [] OTHER -> Nothing

\* Where no declaration is under way
Tops == {"prolog0", "prolog1", "prolog2", "internalSubset", "externalSubset0", "externalSubset1"}

\* One turn of doProlog.  The instance is another processor's, and so is what
\* the entities hold that are referred to.
Token(t) ==
  /\ errorCode = "NONE" /\ lastRole # "INSTANCE_START"
  /\ fed < MaxTokens
  /\ prologState.includeLevel < MaxInclude \/ t.tok # "COND_SECT_OPEN"
  /\ LET taken == TokenRole(prologState, t)
         begins == prologState.handler \in Tops
     IN  /\ prologState' = taken.state
         /\ lastRole' = taken.role
         /\ fed' = fed + 1
         /\ top' = IF begins THEN prologState.handler ELSE top
         /\ decl' = IF begins THEN <<t>>
                    ELSE IF taken.role = "INNER_PARAM_ENTITY_REF" THEN decl
                    ELSE Append(decl, t)
         /\ Does(taken.role, t)
  /\ UNCHANGED hasHandler

\* A token that its handler would look up comes with every word, any other
\* with one only.
LooksUp(tok) ==
  tok \in {row.tok : row \in {r \in Rows(prologState.handler) : r.word # AnyWord}}

Next == \E t \in Tokens : (t.word = "" \/ LooksUp(t.tok)) /\ Token(t)

Spec == Init /\ [][Next]_vars

-----------------------------------------------------------------------------
(* The declarations XML 1.0 knows.  A shape says of each place of a         *)
(* declaration which tokens may stand there.                                *)

T(tok) == [tok |-> tok, word |-> ""]
Pound(word) == [tok |-> "POUND_NAME", word |-> word]

Open(word) == <<{[tok |-> "DECL_OPEN", word |-> word]}>>
Word(word) == <<{[tok |-> "NAME", word |-> word]}>>
Is(tok) == <<{T(tok)}>>
Name == <<{t \in Tokens : t.tok = "NAME"}>>
Leaf == {t \in Tokens : t.tok \in {"NAME", "NAME_QUESTION", "NAME_ASTERISK", "NAME_PLUS"}}
Closers == {t \in Tokens : t.tok \in {"CLOSE_PAREN", "CLOSE_PAREN_ASTERISK",
                                  "CLOSE_PAREN_QUESTION", "CLOSE_PAREN_PLUS"}}

\* One of U, and then one of V
Then(U, V) == {u \o v : u \in U, v \in V}
Closed(U) == Then(U, {Is("DECL_CLOSE")})
Maybe(U) == U \union {<<>>}
External ==
  {Word("SYSTEM") \o Is("LITERAL"), Word("PUBLIC") \o Is("LITERAL") \o Is("LITERAL")}

\* n names with "|" between them
Names(n) == FlattenSeq([k \in 1..n |-> IF k = 1 THEN Name ELSE Is("OR") \o Name])

Entities ==
  LET Data == Maybe({Word("NDATA") \o Name})
  IN  Closed(Then({Open("ENTITY") \o Name}, {Is("LITERAL")} \union Then(External, Data))
             \union Then({Open("ENTITY") \o Is("PERCENT") \o Name}, {Is("LITERAL")} \union External))

Notations ==
  Closed(Then({Open("NOTATION") \o Name}, External \union {Word("PUBLIC") \o Is("LITERAL")}))

AttributeTypes ==
  {"CDATA", "ID", "IDREF", "IDREFS", "ENTITY", "ENTITIES", "NMTOKEN", "NMTOKENS"}

\* At most three, of which the first two are short if there are three.
Attributes ==
  LET Type    == <<{[tok |-> "NAME", word |-> w] : w \in AttributeTypes}>>
      Listed  == {Is("OPEN_PAREN") \o Names(n) \o Is("CLOSE_PAREN") : n \in 1..(MaxTokens \div 2)}
      Default == {<<{Pound("IMPLIED"), Pound("REQUIRED"), T("LITERAL")}>>, <<{Pound("FIXED")}>> \o Is("LITERAL")}
      Short   == Then({Name \o Type}, Default)
      Defined == Then({Name}, Then({Type} \union Listed \union Then({Word("NOTATION")}, Listed), Default))
  IN  Closed(Then({Open("ATTLIST") \o Name},
                  Maybe(Defined \union Then(Defined, Defined) \union Then(Short, Then(Short, Defined)))))

Contents ==
  LET Text == Is("OPEN_PAREN") \o <<{Pound("PCDATA")}>>
  IN  Closed(Then({Open("ELEMENT") \o Name},
        {Word("EMPTY"), Word("ANY"), Text \o Is("CLOSE_PAREN"), Text \o Is("CLOSE_PAREN_ASTERISK")}
        \union {Text \o Is("OR") \o Names(n) \o Is("CLOSE_PAREN_ASTERISK") : n \in 1..(MaxTokens \div 2)}))

Doctypes ==
  Then({Open("DOCTYPE") \o Name}, Then(Maybe(External), {Is("OPEN_BRACKET"), Is("DECL_CLOSE")}))

Sections ==
  {Is("COND_SECT_OPEN") \o Word(w) \o Is("OPEN_BRACKET") : w \in {"INCLUDE", "IGNORE"}}

InternalEnd == {Is("CLOSE_BRACKET") \o Is("DECL_CLOSE")}

\* The shapes that a token with this word may begin where h is the handler
Shapes(h, word) ==
  IF h \in {"prolog0", "prolog1"} THEN Doctypes
  ELSE IF h = "prolog2" THEN {}
  ELSE CASE word = "ENTITY" -> Entities
         [] word = "NOTATION" -> Notations
         [] word = "ATTLIST" -> Attributes
         [] word = "ELEMENT" -> Contents
         [] OTHER -> IF h = "internalSubset" THEN InternalEnd ELSE Sections

\* The children of an element: names and groups, in each group either commas
\* or bars between them, all within one group.
Depth(w, n) ==
  Cardinality({k \in 1..n : w[k].tok = "OPEN_PAREN"}) - Cardinality({k \in 1..n : w[k] \in Closers})

SameGroup(w, k, m) ==
  k <= m /\ Depth(w, k) = Depth(w, m) /\ \A n \in k..m : Depth(w, n) >= Depth(w, k)

Connectors == {"COMMA", "OR"}

ChildrenBegun(w) ==
  LET Tok(k) == w[k].tok
  IN  /\ Tok(1) = "OPEN_PAREN"
      /\ \A k \in 2..Len(w) :
           /\ Depth(w, k - 1) > 0
           /\ IF Tok(k - 1) \in Connectors \union {"OPEN_PAREN"}
              THEN Tok(k) = "OPEN_PAREN" \/ w[k] \in Leaf
              ELSE Tok(k) \in Connectors \/ w[k] \in Closers
      /\ \A k \in {n \in DOMAIN w : Tok(n) = "COMMA"}, m \in {n \in DOMAIN w : Tok(n) = "OR"} :
           ~SameGroup(w, k, m) /\ ~SameGroup(w, m, k)

ElementBegun(w) ==
  /\ Len(w) > 2 /\ \A n \in 1..2 : w[n] \in (Open("ELEMENT") \o Name)[n]
  /\ LET ended == w[Len(w)] = T("DECL_CLOSE")
         spec == SubSeq(w, 3, IF ended THEN Len(w) - 1 ELSE Len(w))
     IN  spec # <<>> /\ ChildrenBegun(spec) /\ (ended => Depth(spec, Len(spec)) = 0)

\* w is how a declaration of shape p begins.
Matches(w, p) == Len(w) <= Len(p) /\ \A n \in DOMAIN w : w[n] \in p[n]

Begun(w) ==
  \/ \E p \in Shapes(top, w[1].word) : Matches(w, p)
  \/ top \in {"internalSubset", "externalSubset0", "externalSubset1"} /\ ElementBegun(w)

Complete(w) ==
  \/ \E p \in Shapes(top, w[1].word) : Len(w) = Len(p) /\ Matches(w, p)
  \/ top \in {"internalSubset", "externalSubset0", "externalSubset1"} /\ ElementBegun(w)
     /\ w[Len(w)] = T("DECL_CLOSE")

\* A token of its own between declarations
Alone(t) ==
  t.tok \in {"PI", "COMMENT", "PARAM_ENTITY_REF", "PROLOG_S", "BOM", "XML_DECL",
             "COND_SECT_CLOSE", "END", "INSTANCE_START"}

-----------------------------------------------------------------------------
(* Properties *)

\* The handlers of xmlrole.c read the language of XML 1.0, as far as the bound
\* on the tokens goes.  What ends as a declaration is one, what is one ends as
\* such, and what is refused begins none: although the handlers share states,
\* count parentheses in one number, and leave it to doProlog to keep apart
\* sequences and choices.
DeclarationsAreGrammar ==
  decl # <<>> /\ ~Alone(decl[1]) =>
    /\ (prologState.handler \in Tops) <=> Complete(decl)
    /\ (errorCode = "NONE") <=> Begun(decl)

\* What the cells of a model read like, from cell x on
Rendered(cells) ==
  LET text[x \in DOMAIN cells] ==
        LET node == cells[x]
            Quantified(tok) ==
              tok \o (CASE node.quant = "OPT" -> "_QUESTION" [] node.quant = "REP" -> "_ASTERISK"
                        [] node.quant = "PLUS" -> "_PLUS" [] OTHER -> "")
            inner == [n \in 1..node.numchildren |-> text[node.children + n - 1]]
            by    == <<T(IF node.type = "SEQ" THEN "COMMA" ELSE "OR")>>
            all   == IF node.type = "MIXED" THEN <<<<Pound("PCDATA")>>>> \o inner ELSE inner
        IN  CASE node.type = "NAME" -> <<[tok |-> Quantified("NAME"), word |-> node.name]>>
              [] node.type \in {"EMPTY", "ANY"} -> <<[tok |-> "NAME", word |-> node.type]>>
              [] OTHER -> <<T("OPEN_PAREN")>>
                          \o FoldLeft(LAMBDA begun, one : begun \o by \o one, all[1], Tail(all))
                          \o <<T(Quantified("CLOSE_PAREN"))>>
  IN  text[0]

\* The content model that elementDeclHandler is given reads like the
\* declaration: every group, name and quantity where it was, although the tree
\* is gathered as entries linked by indices into arrays that move, used again
\* by every declaration, and is laid out anew in another order.
ModelIsDeclaration ==
  model # NoModel => Rendered(model.is) = SubSeq(model.of, 3, Len(model.of))

\* Every open group has a place of its own: its connector is at its level, and
\* the index of its entry is within an array that is enlarged by another
\* condition than the one that makes it necessary.
GroupsInBounds ==
  LET depth == IF prologState.handler \in {"element2", "element3", "element4", "element5"} THEN 1
               ELSE IF prologState.handler \in {"element6", "element7"} THEN prologState.level ELSE 0
  IN  /\ depth > 0 => depth \in DOMAIN groupConnector
      /\ in_eldecl /\ errorCode = "NONE" =>
           /\ scaffLevel = depth
           /\ \A n \in 0..(depth - 1) : n \in DOMAIN scaffIndex /\ scaffIndex[n] < scaffCount
           /\ scaffCount <= scaffSize
      /\ \/ Unlevelled
         \/ DOMAIN scaffIndex = DOMAIN groupConnector

=============================================================================
