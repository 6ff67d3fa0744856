----------------------------- MODULE XmlEntities -----------------------------
(***************************************************************************)
(* The entities of a DTD in expat/lib/xmlparse.c: which declarations count *)
(* and what becomes of the references to parameter entities, between       *)
(* declarations and inside the values of others.  For an internal entity   *)
(* doProlog or storeEntityValue calls itself; for an external one the      *)
(* application creates another parser, which shares the DTD.  Both are     *)
(* frames of one stack here.                                               *)
(*                                                                         *)
(* A text is a sequence of pieces: whole declarations, references, and     *)
(* characters.  General entities are internal, and the document's content  *)
(* is one reference to one of them.                                        *)
(***************************************************************************)
EXTENDS Naturals, Sequences, SequencesExt, FiniteSetsExt

CONSTANTS
  Pieces,      \* what the document and the files are made of
  Parts,       \* these, and what the values in them are made of
  Handlers,    \* what an application may do of each system identifier: "reads",
               \* "declines" (all is well, but nothing is read) or "fails"
  Subset,      \* the system identifier of the external subset
  General,     \* the entity that the content refers to
  MaxPieces    \* bound on the pieces of the document and the files together

\* A piece is [kind, name], of a declaration [kind, name, systemId, value].
ASSUME EntitiesAssumption ==
  /\ Pieces \subseteq Parts
  /\ \A p \in Parts :
       /\ p.kind \in {"param", "general"} => p.name # "NULL" /\ p.value \in Seq(Parts)
       /\ p.kind = "charref" => [p EXCEPT !.kind = "ref"] \in Parts

VARIABLES
  standalone, paramEntityParsing,
  externalEntityRefHandler,      \* is set, and then what answer gives
  answer,
  notStandaloneHandler,          \* is not set, or returns 1
  doctypeSysid, useForeignDTD,
  paramEntities, generalEntities,
  keepProcessing, hasParamEntityRefs, paramEntityRead,
  entityValuePool,
  stack,                         \* what is being read, the document first
  pc, result,
  outcome,                       \* of the reference in the content
  document, files                \* history: what was read

settings == <<standalone, paramEntityParsing, externalEntityRefHandler, answer, notStandaloneHandler>>
doctype  == <<doctypeSysid, useForeignDTD>>
tables   == <<paramEntities, generalEntities>>
flags    == <<keepProcessing, hasParamEntityRefs, paramEntityRead>>
ended    == <<pc, result, outcome>>
texts    == <<document, files>>
entitiesVars == <<settings, doctype, tables, flags, entityValuePool, stack, ended, texts>>

NULL == "NULL"

\* decl and table: the declaration that a value belongs to.
\* had: hasParamEntityRefs before a foreign DTD was read.
Frame(kind, entity, text) ==
  [kind |-> kind, entity |-> entity, text |-> text, decl |-> NULL, table |-> "param", had |-> TRUE]

EntitiesInit ==
  \* XML_PARAM_ENTITY_PARSING_UNLESS_STANDALONE is one of the two by now.
  /\ standalone \in BOOLEAN /\ paramEntityParsing \in BOOLEAN
  /\ externalEntityRefHandler \in BOOLEAN /\ notStandaloneHandler \in BOOLEAN
  /\ answer \in Handlers
  /\ useForeignDTD \in BOOLEAN /\ doctypeSysid = FALSE
  /\ paramEntities = <<>> /\ generalEntities = <<>>
  /\ keepProcessing = TRUE /\ hasParamEntityRefs = FALSE /\ paramEntityRead = FALSE
  /\ entityValuePool = <<>>
  /\ stack = <<Frame("document", NULL, <<>>)>>
  /\ pc = "doctype" /\ result = "NONE" /\ outcome = "none"
  /\ document = <<>> /\ files = <<>>

-----------------------------------------------------------------------------
(* Where the parser is *)

frame == Last(stack)
Files == {"file", "valueFile", "subset"}

\* isParamEntity, or an internal entity is being read: the same as that the
\* parser has a parent or openInternalEntities.
InEntity == \E k \in DOMAIN stack : stack[k].kind \in Files \/ stack[k].entity # NULL

\* prologState.documentEntity of the parser that reads the last of frames
DocumentEntity(frames) == \A k \in DOMAIN frames : frames[k].kind \notin Files

\* A parser that fails makes the handler that has called it return 0.
FailIn(frames, code) ==
  /\ pc' = "returned"
  /\ result' = IF DocumentEntity(frames) THEN code ELSE "EXTERNAL_ENTITY_HANDLING"
  /\ stack' = frames /\ outcome' = outcome

Fail(code) == FailIn(stack, code)

GoOn(frames) == stack' = frames /\ UNCHANGED ended

\* What follows may have been declared in what is not read.
Unread == keepProcessing' = standalone

Refuses == ~standalone /\ ~notStandaloneHandler

\* Mutant of Opened: the mark is not taken back.
OpenedForGood(name, v) == [paramEntities EXCEPT ![name].open = TRUE]

\* entity->open is v.
Opened(name, v) == [paramEntities EXCEPT ![name].open = v]

With(table, name, entity) ==
  [n \in {name} \union DOMAIN table |-> IF n = name THEN entity ELSE table[n]]

-----------------------------------------------------------------------------
(* Declarations *)

Entity(sys) == [text |-> NULL, systemId |-> sys, open |-> FALSE, is_internal |-> ~InEntity]

TableOf(kind) == IF kind = "param" THEN paramEntities ELSE generalEntities

Enter(kind, name, entity) ==
  IF kind = "param"
  THEN paramEntities' = With(paramEntities, name, entity) /\ UNCHANGED generalEntities
  ELSE generalEntities' = With(generalEntities, name, entity) /\ UNCHANGED paramEntities

\* Mutant of Binds: the last declaration of a name counts.
BindsAgain(kind, name) == keepProcessing

\* The first declaration of a name counts.
Binds(kind, name) == keepProcessing /\ name \notin DOMAIN TableOf(kind)

\* An entity is in its table before its value is read, and a value is read even
\* if the declaration does not count.
Declare(piece, rest) ==
  /\ piece.kind \in {"param", "general"}
  /\ IF Binds(piece.kind, piece.name) THEN Enter(piece.kind, piece.name, Entity(piece.systemId))
                                      ELSE UNCHANGED tables
  /\ GoOn(IF piece.systemId # NULL \/ ~keepProcessing THEN rest
          ELSE Append(rest, [Frame("value", NULL, piece.value) EXCEPT
                               !.decl = IF Binds(piece.kind, piece.name) THEN piece.name ELSE NULL,
                               !.table = piece.kind]))
  /\ UNCHANGED <<flags, entityValuePool, files>>

EndOfDeclaration ==
  /\ pc = "prolog" /\ frame.kind = "value" /\ frame.text = <<>>
  /\ IF frame.decl = NULL THEN UNCHANGED tables
     ELSE Enter(frame.table, frame.decl,
                [TableOf(frame.table)[frame.decl] EXCEPT !.text = entityValuePool])
  /\ entityValuePool' = <<>>
  /\ GoOn(Front(stack))
  /\ UNCHANGED <<settings, doctype, flags, texts>>

-----------------------------------------------------------------------------
(* External entities: the application's handler is called. *)

PiecesRead == Len(document) + SumSet({Len(files[s]) : s \in DOMAIN files})
Texts == UNION {[1..n -> Pieces] : n \in 0..(MaxPieces - PiecesRead)}

\* A parser is created, and reads the file; it is the same each time.
ReadFile(sys, new, rest) ==
  \E text \in IF sys \in DOMAIN files THEN {files[sys]} ELSE Texts :
    /\ files' = With(files, sys, text)
    /\ GoOn(Append(rest, [new EXCEPT !.text = text]))

HandlerReads(sys, new, rest) ==
  /\ answer[sys] = "reads"
  /\ ReadFile(sys, new, rest)
  /\ paramEntities' = IF new.entity = NULL THEN paramEntities ELSE Opened(new.entity, TRUE)
  /\ paramEntityRead' = TRUE /\ UNCHANGED keepProcessing

HandlerDeclines(sys, rest) ==
  /\ answer[sys] = "declines"
  /\ GoOn(rest)
  /\ paramEntityRead' = FALSE /\ Unread
  /\ UNCHANGED <<paramEntities, files>>

HandlerFails(sys) ==
  /\ answer[sys] = "fails"
  /\ Fail("EXTERNAL_ENTITY_HANDLING")
  /\ paramEntityRead' = FALSE /\ UNCHANGED <<keepProcessing, paramEntities, files>>

NoHandler(rest) ==
  /\ GoOn(rest) /\ Unread
  /\ UNCHANGED <<paramEntityRead, paramEntities, files>>

ExternalEntity(sys, new, rest) ==
  /\ IF externalEntityRefHandler
     THEN HandlerReads(sys, new, rest) \/ HandlerDeclines(sys, rest) \/ HandlerFails(sys)
     ELSE NoHandler(rest)
  /\ UNCHANGED <<generalEntities, entityValuePool>>

-----------------------------------------------------------------------------
(* References between declarations *)

\* Well-formedness, not validity: what is referred to in the document itself.
MustBeDeclared == standalone /\ ~InEntity

Skip(rest) ==
  /\ GoOn(rest) /\ Unread
  /\ UNCHANGED <<paramEntityRead, tables, entityValuePool, files>>

Errs(code) ==
  /\ Fail(code)
  /\ UNCHANGED <<keepProcessing, paramEntityRead, tables, entityValuePool, files>>

Internal(kind, name, rest) ==
  /\ GoOn(Append(rest, Frame(kind, name, IF paramEntities[name].text = NULL THEN <<>>
                                         ELSE paramEntities[name].text)))
  /\ paramEntities' = Opened(name, TRUE)
  /\ UNCHANGED <<keepProcessing, paramEntityRead, generalEntities, entityValuePool, files>>

\* Without parameter entity parsing notStandaloneHandler is asked at once.
NotParsed(rest) ==
  /\ IF Refuses THEN FailIn(rest, "NOT_STANDALONE") ELSE GoOn(rest)
  /\ Unread
  /\ UNCHANGED <<paramEntityRead, tables, entityValuePool, files>>

Refer(piece, rest) ==
  LET name   == piece.name
      known  == name \in DOMAIN paramEntities
      entity == paramEntities[name]
  IN  /\ piece.kind = "ref"
      /\ hasParamEntityRefs' = TRUE
      /\ IF ~paramEntityParsing THEN NotParsed(rest)
         ELSE IF ~known THEN IF MustBeDeclared THEN Errs("UNDEFINED_ENTITY") ELSE Skip(rest)
         ELSE IF MustBeDeclared /\ ~entity.is_internal THEN Errs("ENTITY_DECLARED_IN_PE")
         ELSE IF entity.open THEN Errs("RECURSIVE_ENTITY_REF")
         ELSE IF entity.systemId = NULL THEN Internal("internal", name, rest)
         ELSE ExternalEntity(entity.systemId, Frame("file", name, <<>>), rest)

\* Only the values of entities hold characters.
Character(piece) ==
  /\ piece.kind = "char"
  /\ Errs("SYNTAX") /\ UNCHANGED hasParamEntityRefs

\* One turn of doProlog on piece, with rest behind it.
doProlog(piece, rest) == Declare(piece, rest) \/ Refer(piece, rest) \/ Character(piece)

InDocument ==
  /\ pc = "prolog" /\ frame.kind = "document"
  /\ PiecesRead < MaxPieces
  /\ \E piece \in Pieces : document' = Append(document, piece) /\ doProlog(piece, stack)
  /\ UNCHANGED <<settings, doctype>>

Advanced == [stack EXCEPT ![Len(stack)].text = Tail(@)]

InText ==
  /\ pc = "prolog" /\ frame.kind \in {"internal", "file", "subset"} /\ frame.text # <<>>
  /\ UNCHANGED document
  /\ doProlog(Head(frame.text), Advanced)
  /\ UNCHANGED <<settings, doctype>>

EndOfInternal ==
  /\ pc = "prolog" /\ frame.kind \in {"internal", "valueInternal"} /\ frame.text = <<>>
  /\ paramEntities' = Opened(frame.entity, FALSE)
  /\ GoOn(Front(stack))
  /\ UNCHANGED <<settings, doctype, generalEntities, flags, entityValuePool, texts>>

\* paramEntityRead is the DTD's: it may be about a file inside this one.
EndOfFile ==
  /\ pc = "prolog" /\ frame.kind \in {"file", "valueFile"} /\ frame.text = <<>>
  /\ paramEntities' = Opened(frame.entity, FALSE)
  /\ IF paramEntityRead THEN UNCHANGED keepProcessing ELSE Unread
  /\ IF frame.kind = "file" /\ paramEntityRead /\ Refuses
     THEN FailIn(Front(stack), "NOT_STANDALONE") ELSE GoOn(Front(stack))
  /\ UNCHANGED <<settings, doctype, generalEntities, hasParamEntityRefs, paramEntityRead,
                 entityValuePool, texts>>

-----------------------------------------------------------------------------
(* storeEntityValue *)

IsReference(piece) == piece.kind \in {"ref", "charref"}

\* What a piece of a value is in the text of the entity: %, written as a
\* character reference, makes a reference of it that is only read later.
Stored(piece) == IF piece.kind = "charref" THEN [piece EXCEPT !.kind = "ref"] ELSE piece

\* Bound: a declaration inside a value has no references of its own.
Plain(piece) ==
  piece.kind \in {"param", "general"} => piece.systemId # NULL \/ ~ \E k \in DOMAIN piece.value : IsReference(piece.value[k])

Store(piece) ==
  /\ piece.kind # "ref" /\ Plain(piece)
  /\ entityValuePool' = Append(entityValuePool, Stored(piece))
  /\ GoOn(Advanced)
  /\ UNCHANGED <<tables, keepProcessing, paramEntityRead, files>>

\* An unknown entity ends the value, as if nothing were missing.
ReferInValue(piece) ==
  LET name   == piece.name
      entity == paramEntities[name]
  IN  /\ piece.kind = "ref"
      /\ IF ~InEntity THEN Errs("PARAM_ENTITY_REF")
         ELSE IF name \notin DOMAIN paramEntities THEN Skip([stack EXCEPT ![Len(stack)].text = <<>>])
         ELSE IF entity.open THEN Errs("RECURSIVE_ENTITY_REF")
         ELSE IF entity.systemId = NULL THEN Internal("valueInternal", name, Advanced)
         ELSE ExternalEntity(entity.systemId, Frame("valueFile", name, <<>>), Advanced)

InValue ==
  /\ pc = "prolog" /\ frame.kind \in {"value", "valueInternal", "valueFile"} /\ frame.text # <<>>
  /\ UNCHANGED document
  /\ LET piece == Head(frame.text) IN Store(piece) \/ ReferInValue(piece)
  /\ UNCHANGED <<settings, doctype, hasParamEntityRefs>>

-----------------------------------------------------------------------------
(* The external subset, declared or the application's own *)

Doctype ==
  /\ pc = "doctype"
  /\ doctypeSysid' \in BOOLEAN
  /\ useForeignDTD' = (useForeignDTD /\ ~doctypeSysid')
  /\ hasParamEntityRefs' = doctypeSysid'
  /\ IF doctypeSysid' /\ ~paramEntityParsing /\ Refuses
     THEN Fail("NOT_STANDALONE")
     ELSE pc' = "prolog" /\ UNCHANGED <<result, outcome, stack>>
  /\ UNCHANGED <<settings, tables, keepProcessing, paramEntityRead, entityValuePool, texts>>

Content(frames) == pc' = "content" /\ stack' = frames /\ UNCHANGED <<result, outcome>>

\* Mutant of AfterUnread: hasParamEntityRefs is cleared, whatever it was before.
AfterUnreadCleared(had) == doctypeSysid

\* A foreign DTD that was not read is as if there were none.
AfterUnread(had) == doctypeSysid \/ had

\* DOCTYPE_CLOSE, or INSTANCE_START if there is no DOCTYPE.
CloseDoctype ==
  /\ pc = "prolog" /\ frame.kind = "document"
  /\ LET reads == (doctypeSysid \/ useForeignDTD) /\ paramEntityParsing /\ externalEntityRefHandler
         new   == [Frame("subset", NULL, <<>>) EXCEPT !.had = hasParamEntityRefs]
     IN  /\ document' = document
         /\ \/ /\ ~reads
               /\ Content(stack)
               /\ hasParamEntityRefs' = (hasParamEntityRefs \/ doctypeSysid \/ useForeignDTD)
               /\ UNCHANGED <<paramEntityRead, files>>
            \/ /\ reads /\ answer[Subset] = "reads"
               /\ ReadFile(Subset, new, stack)
               /\ hasParamEntityRefs' = TRUE /\ paramEntityRead' = TRUE
            \/ /\ reads /\ answer[Subset] = "declines"
               /\ Content(stack)
               /\ hasParamEntityRefs' = AfterUnread(hasParamEntityRefs)
               /\ paramEntityRead' = FALSE /\ UNCHANGED files
            \/ /\ reads /\ answer[Subset] = "fails"
               /\ Fail("EXTERNAL_ENTITY_HANDLING")
               /\ hasParamEntityRefs' = TRUE /\ paramEntityRead' = FALSE /\ UNCHANGED files
  /\ UNCHANGED <<settings, doctype, tables, keepProcessing, entityValuePool>>

EndOfSubset ==
  /\ pc = "prolog" /\ frame.kind = "subset" /\ frame.text = <<>>
  /\ IF paramEntityRead /\ Refuses THEN FailIn(Front(stack), "NOT_STANDALONE") ELSE Content(Front(stack))
  /\ hasParamEntityRefs' = IF paramEntityRead THEN hasParamEntityRefs ELSE AfterUnread(frame.had)
  /\ UNCHANGED <<settings, doctype, tables, keepProcessing, paramEntityRead, entityValuePool, texts>>

-----------------------------------------------------------------------------
(* A reference in the content *)

MayBeSkipped == hasParamEntityRefs /\ ~standalone

Reference ==
  LET known == General \in DOMAIN generalEntities
      code  == IF MayBeSkipped THEN "NONE"
               ELSE IF ~known THEN "UNDEFINED_ENTITY"
               ELSE IF ~generalEntities[General].is_internal THEN "ENTITY_DECLARED_IN_PE"
               ELSE "NONE"
  IN  /\ pc = "content" /\ pc' = "returned"
      /\ result' = code
      /\ outcome' = IF code # "NONE" THEN "refused" ELSE IF known THEN "expanded" ELSE "skipped"
      /\ UNCHANGED <<settings, doctype, tables, flags, entityValuePool, stack, texts>>

-----------------------------------------------------------------------------
EntitiesNext ==
  \/ Doctype \/ InDocument \/ InText \/ InValue \/ EndOfDeclaration \/ EndOfInternal \/ EndOfFile
  \/ CloseDoctype \/ EndOfSubset \/ Reference

EntitiesSpec == EntitiesInit /\ [][EntitiesNext]_entitiesVars

-----------------------------------------------------------------------------
(* Properties *)

\* The entities marked open are those being read, each of them once: no text is
\* read within itself, and none is taken for open that is not, whichever of the
\* parsers that share the marks has set them.
OpenIsBeingRead ==
  LET reading == {k \in DOMAIN stack : stack[k].entity # NULL}
  IN  /\ \A j, k \in reading : j # k => stack[j].entity # stack[k].entity
      /\ pc # "returned" => {stack[k].entity : k \in reading} = {n \in DOMAIN paramEntities : paramEntities[n].open}

\* The document names another text that may declare entities.
NamesOthers == doctypeSysid \/ \E k \in DOMAIN document : document[k].kind = "ref"

\* Nothing but the document itself declares entities.
NothingElse == ~NamesOthers /\ ~useForeignDTD

\* A foreign DTD that the handler declines, or of which the last file was not read,
\* is taken for none, and the document names no other text: then a reference is
\* refused, which expat.h:697-699 and doc/reference.html:2189-2192 rule out.
Withdrawn ==
  /\ ~standalone /\ ~NamesOthers
  /\ useForeignDTD /\ paramEntityParsing /\ externalEntityRefHandler /\ ~paramEntityRead

\* XML 1.0, WFC "Entity Declared": a reference to an entity that the document
\* does not declare itself is refused if the document stands alone or nothing
\* else declares entities, and is not refused otherwise; a foreign DTD declares
\* some, whether it is read or not.  Nothing is claimed of one that is withdrawn
\* (xmlparse.c:2327-2343, 3938-3971 and 3983-4013).
UndeclaredIsRefused ==
  outcome # "none" /\ ~Withdrawn =>
    (outcome = "refused" <=>
       /\ standalone \/ NothingElse
       /\ General \in DOMAIN generalEntities => ~generalEntities[General].is_internal)

=============================================================================
