--------------------------- MODULE XmlEntitiesMeant ---------------------------
(***************************************************************************)
(* What a document and the files it refers to mean, said without a parser: *)
(* the texts are read one inside the other; and that XmlEntities reads     *)
(* them so.                                                                *)
(***************************************************************************)
EXTENDS XmlEntities

-----------------------------------------------------------------------------
(* What the document means, its texts read one inside the other.  what is   *)
(* [param, general, keep, cause, value, cut]; at is the entities being      *)
(* expanded, and whether that is in another file.                           *)

Within(at) == at.open # {} \/ at.file

Stops(what, at, code) ==
  [what EXCEPT !.cause = IF at.file THEN "EXTERNAL_ENTITY_HANDLING" ELSE code]

NotRead(what) == [what EXCEPT !.keep = standalone]

RECURSIVE OverText(_, _, _), OverValue(_, _, _)

\* What name refers to, read by Over.
Expanded(Over(_, _, _), name, what, at) ==
  LET entity == what.param[name]
      sys    == entity.systemId
      inside == [open |-> at.open \union {name}, file |-> at.file \/ sys # NULL]
  IN  IF name \in at.open THEN Stops(what, at, "RECURSIVE_ENTITY_REF")
      ELSE IF sys = NULL THEN Over(entity.text, what, inside)
      ELSE IF ~externalEntityRefHandler \/ answer[sys] = "declines" THEN NotRead(what)
      ELSE IF answer[sys] = "fails" THEN Stops(what, at, "EXTERNAL_ENTITY_HANDLING")
      ELSE Over(files[sys], what, inside)

ReferenceMeans(name, what, at) ==
  IF ~paramEntityParsing THEN NotRead(what)
  ELSE IF name \notin DOMAIN what.param
  THEN IF standalone /\ ~Within(at) THEN Stops(what, at, "UNDEFINED_ENTITY") ELSE NotRead(what)
  ELSE IF standalone /\ ~Within(at) /\ ~what.param[name].is_internal
  THEN Stops(what, at, "ENTITY_DECLARED_IN_PE")
  ELSE Expanded(OverText, name, what, at)

Entered(what, piece, text, at) ==
  LET entity == [text |-> text, systemId |-> piece.systemId, is_internal |-> ~Within(at)]
  IN  IF piece.kind = "param" THEN [what EXCEPT !.param = With(@, piece.name, entity)]
                              ELSE [what EXCEPT !.general = With(@, piece.name, entity)]

\* An entity is known, and empty, within its own value.
DeclarationMeans(piece, what, at) ==
  LET new   == piece.name \notin DOMAIN (IF piece.kind = "param" THEN what.param ELSE what.general)
      known == IF new THEN Entered(what, piece, <<>>, at) ELSE what
      read  == OverValue(piece.value, [known EXCEPT !.value = <<>>, !.cut = FALSE], at)
  IN  IF ~what.keep THEN what
      ELSE IF piece.systemId # NULL THEN known
      ELSE IF new THEN Entered(read, piece, read.value, at) ELSE read

OverText(text, before, where) ==
  FoldLeft(LAMBDA what, piece :
             IF what.cause # "NONE" THEN what
             ELSE CASE piece.kind = "ref" -> ReferenceMeans(piece.name, what, where)
                    [] piece.kind = "char" -> Stops(what, where, "SYNTAX")
                    [] OTHER -> DeclarationMeans(piece, what, where),
           before, text)

\* Inside a value, what cannot be read ends only the text that refers to it.
OverValue(text, before, where) ==
  [FoldLeft(LAMBDA what, piece :
              IF what.cause # "NONE" \/ what.cut THEN what
              ELSE IF piece.kind # "ref" THEN [what EXCEPT !.value = Append(@, Stored(piece))]
              ELSE IF ~Within(where) THEN Stops(what, where, "PARAM_ENTITY_REF")
              ELSE IF piece.name \notin DOMAIN what.param THEN [NotRead(what) EXCEPT !.cut = TRUE]
              ELSE Expanded(OverValue, piece.name, what, where),
            before, text)
   EXCEPT !.cut = FALSE]

Meaning ==
  LET none == [param |-> <<>>, general |-> <<>>, keep |-> TRUE, cause |-> "NONE", value |-> <<>>, cut |-> FALSE]
      here == OverText(document, none, [open |-> {}, file |-> FALSE])
  IN  IF Subset \notin DOMAIN files \/ here.cause # "NONE" THEN here
      ELSE OverText(files[Subset], here, [open |-> {}, file |-> TRUE])

-----------------------------------------------------------------------------
(* Properties *)

TableMeans(table, meant) ==
  /\ DOMAIN table = DOMAIN meant
  /\ \A n \in DOMAIN table :
       /\ table[n].systemId = meant[n].systemId /\ table[n].is_internal = meant[n].is_internal
       /\ table[n].systemId = NULL => table[n].text = meant[n].text

\* The entities are those of the document as its texts are read one inside the
\* other: the first declaration of a name counts, with the value it had when it
\* was read, and none after something that was left out, unless the document
\* stands alone.  A refusal is for what is wrong there.
ReadAsMeant ==
  /\ pc = "content" \/ outcome # "none" =>
       /\ Meaning.cause = "NONE"
       /\ TableMeans(paramEntities, Meaning.param) /\ TableMeans(generalEntities, Meaning.general)
  /\ pc = "returned" /\ outcome = "none" /\ ~Refuses =>
       \/ result = Meaning.cause
       \/ result = "EXTERNAL_ENTITY_HANDLING" /\ answer[Subset] = "fails"

=============================================================================
