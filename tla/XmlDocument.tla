---------------------------- MODULE XmlDocument ----------------------------
(***************************************************************************)
(* What a document means, told apart from how expat reads it.  A document  *)
(* is a sequence of items, each with the symbols it is written in; its     *)
(* meaning is the sequence of events an application is handed and the      *)
(* error, if there is one, that ends it.                                   *)
(***************************************************************************)
EXTENDS Naturals, Sequences

Start(name)      == [kind |-> "start", name |-> name, symbols |-> <<"<", name, ">">>]
StartAtt(name)   == [kind |-> "start", name |-> name,
                     symbols |-> <<"<", name, " ", "b", "=", "q", ">", "q", ">">>]
EndOf(name)      == [kind |-> "end", name |-> name, symbols |-> <<"<", "/", name, ">">>]
Empty(name)      == [kind |-> "empty", name |-> name, symbols |-> <<"<", name, "/", ">">>]
Ref(name)        == [kind |-> "ref", name |-> name, symbols |-> <<"&", name, ";">>]
Comment          == [kind |-> "comment", name |-> "z", symbols |-> <<"<", "!", "-", "-", "z", "-", "-", ">">>]
Instruction      == [kind |-> "pi", name |-> "p", symbols |-> <<"<", "?", "p", "?", ">">>]

\* Text, with the events its symbols are: a line end is a line feed.
Text(symbols, data)  == [kind |-> "text", name |-> "", symbols |-> symbols, data |-> data]
Section(symbols, data) ==
  [kind |-> "section", name |-> "", data |-> data,
   symbols |-> <<"<", "!", "[", "CDATA", "[">> \o symbols \o <<"]", "]", ">">>]
Break             == [kind |-> "white", name |-> "", symbols |-> <<"CR">>, data |-> <<"LF">>]
\* Items no document may have where content is.
Forbidden(symbols) == [kind |-> "bad", name |-> "", symbols |-> symbols, error |-> "INVALID_TOKEN"]
\* The beginning of an item, for a document that ends with it.
Cut(symbols, events, error) ==
  [kind |-> "cut", name |-> "", symbols |-> symbols, events |-> events, error |-> error]

RECURSIVE Written(_)
Written(items) == IF items = <<>> THEN <<>> ELSE Head(items).symbols \o Written(Tail(items))

\* A document type declaration with entities, in order: <<name, items>>.
RECURSIVE Declared(_)
Declared(entities) ==
  IF entities = <<>> THEN <<>>
  ELSE <<"<", "!", "ENTITY", " ", Head(entities)[1], " ", "q">> \o Written(Head(entities)[2])
       \o <<"q", ">">> \o Declared(Tail(entities))
Doctype(name, entities) ==
  [kind |-> "doctype", name |-> name, entities |-> entities,
   symbols |-> <<"<", "!", "DOCTYPE", " ", name>>
               \o (IF entities = <<>> THEN <<>> ELSE <<"[">> \o Declared(entities) \o <<"]">>) \o <<">">>]

-----------------------------------------------------------------------------

Characters(data) == [i \in DOMAIN data |-> <<"data", data[i]>>]

EventsOf(item) ==
  CASE item.kind = "start"   -> <<<<"start", item.name>>>>
    [] item.kind = "end"     -> <<<<"end", item.name>>>>
    [] item.kind = "empty"   -> <<<<"start", item.name>>, <<"end", item.name>>>>
    [] item.kind = "comment" -> <<<<"comment", item.name>>>>
    [] item.kind = "pi"      -> <<<<"pi", item.name>>>>
    [] item.kind = "doctype" -> <<<<"doctype", item.name>>, <<"enddoctype", "">>>>
    [] item.kind = "section" -> <<<<"cdata", "">>>> \o Characters(item.data) \o <<<<"endcdata", "">>>>
    [] item.kind = "cut"     -> item.events
    [] OTHER                 -> Characters(item.data)

\* The entity a name means is the first of that name.
Known(entities, name) == {i \in 1..Len(entities) : entities[i][1] = name}
Bound(entities, name) ==
  entities[CHOOSE i \in Known(entities, name) : \A j \in Known(entities, name) : i <= j][2]

With(m, item) == [m EXCEPT !.events = @ \o EventsOf(item)]
Wrong(m, error) == [m EXCEPT !.error = error]

\* One item of content, whose elements may not end below level base of the stack.
RECURSIVE Meant(_, _, _, _)
RECURSIVE MeantAll(_, _, _, _)
Meant(m, item, base, open) ==
  CASE item.kind = "start" -> [With(m, item) EXCEPT !.stack = Append(@, item.name)]
    [] item.kind = "end" ->
         IF Len(m.stack) = base THEN Wrong(m, "ASYNC_ENTITY")
         ELSE IF m.stack[Len(m.stack)] # item.name THEN Wrong(m, "TAG_MISMATCH")
         ELSE [With(m, item) EXCEPT !.stack = SubSeq(@, 1, Len(@) - 1)]
    [] item.kind = "ref" ->
         IF Known(m.entities, item.name) = {} THEN Wrong(m, "UNDEFINED_ENTITY")
         ELSE IF item.name \in open THEN Wrong(m, "RECURSIVE_ENTITY_REF")
         ELSE LET inner == MeantAll(m, Bound(m.entities, item.name), Len(m.stack), open \union {item.name})
              IN  IF inner.error = "" /\ Len(inner.stack) # Len(m.stack)
                  THEN Wrong(inner, "ASYNC_ENTITY") ELSE inner
    [] item.kind = "bad" -> Wrong(m, item.error)
    [] item.kind = "cut" -> Wrong(With(m, item), item.error)
    [] item.kind = "doctype" -> Wrong(m, "INVALID_TOKEN")
    [] OTHER -> With(m, item)

MeantAll(m, items, base, open) ==
  IF items = <<>> \/ m.error # "" THEN m
  ELSE MeantAll(Meant(m, Head(items), base, open), Tail(items), base, open)

\* Before and after the one element a document is, only these may stand.
OnlyMisc(m, item, otherwise) ==
  CASE item.kind \in {"comment", "pi"} -> With(m, item)
    [] item.kind = "white" -> m
    [] item.kind = "cut" -> Wrong(m, item.error)
    [] item.kind \in {"bad", "ref", "end"} -> Wrong(m, "INVALID_TOKEN")
    [] OTHER -> Wrong(m, otherwise)

RECURSIVE Whole(_, _)
Whole(m, items) ==
  IF m.error # "" THEN m
  ELSE IF items = <<>> THEN IF m.phase = "epilog" THEN m ELSE Wrong(m, "NO_ELEMENTS")
  ELSE LET item == Head(items)
           after(n) == IF n.error = "" /\ n.stack = <<>> THEN [n EXCEPT !.phase = "epilog"] ELSE n
       IN  Whole(CASE m.phase = "prolog" /\ item.kind = "doctype" ->
                        [With(m, item) EXCEPT !.entities = item.entities]
                   [] m.phase = "prolog" /\ item.kind \in {"start", "empty"} ->
                        after(Meant([m EXCEPT !.phase = "content"], item, 0, {}))
                   [] m.phase = "prolog" /\ item.kind \notin {"doctype", "start", "empty"} ->
                        OnlyMisc(m, item, "SYNTAX")
                   [] m.phase = "content" -> after(Meant(m, item, 0, {}))
                   [] OTHER -> OnlyMisc(m, item, "JUNK_AFTER_DOC_ELEMENT"), Tail(items))

Meaning(items) ==
  Whole([events |-> <<>>, error |-> "", stack |-> <<>>, entities |-> <<>>, phase |-> "prolog"], items)

=============================================================================
