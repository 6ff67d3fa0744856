---------------------------- MODULE StructLoader ----------------------------
(***************************************************************************)
(* libedistruct/struct_loader.c: four XML files become the tables that     *)
(* lookup.c searches.  expat is present as what it promises its user:      *)
(* starts and ends in their order, and each text in one piece or in many.  *)
(***************************************************************************)
EXTENDS Integers, Sequences, SequencesExt

CONSTANTS
  Chars,           \* what texts are made of
  Directories,     \* directory -> kind -> document; a document is Missing or a
                   \* sequence of entries, of which one may be Malformed
  Missing, Malformed,
  NULL, Garbage,   \* a cleared pointer, and one that was never written
  Alloc, Cleared,  \* a table grows by Alloc entries, 25, of which Cleared, 10, are cleared
  ChunkSize,       \* PARSE_BUFFER_SIZE, in starts, ends and characters
  MaxFiles,        \* file descriptors of the process
  MaxLoads         \* bound on the loads

Kinds == <<"segs", "comps", "elems", "coded">>
KindSet == ToSet(Kinds)

Text == Seq(Chars)
IsSeq(s) == s \in Seq({s[n] : n \in DOMAIN s})

\* A code that is empty stands for an attribute that is left out.
HasTexts(fields) ==
  fields.code \in Text /\ ("title" \in DOMAIN fields => fields.title \in Text)

IsEntry(k, e) ==
  /\ HasTexts(e) /\ IsSeq(e.parts)
  /\ \A p \in DOMAIN e.parts :
       CASE k = "coded" -> HasTexts(e.parts[p])
         [] k = "elems" -> FALSE
         [] OTHER -> e.parts[p] \in Text

IsDocument(k, doc) ==
  IsSeq(doc) /\ \A n \in DOMAIN doc : doc[n] = Malformed \/ IsEntry(k, doc[n])

\* A pointer to nothing is neither a text nor a list of texts.
ASSUME StructLoaderAssumption ==
  /\ \A d \in DOMAIN Directories : \A k \in KindSet :
       Directories[d][k] = Missing \/ IsDocument(k, Directories[d][k])
  /\ \A pointer \in {NULL, Garbage} : pointer \notin Text /\ pointer \notin Seq(Text \union {NULL})
  /\ Alloc \in Nat \ {0} /\ Cleared \in 0..Alloc
  /\ ChunkSize \in Nat \ {0} /\ {MaxFiles, MaxLoads} \subseteq Nat
  /\ NULL # Garbage

VARIABLES
  pc,          \* "idle", "file", "open", "read", "parse", "close" or "stopped"
  directory, f, loads,
  got, pos,    \* items of the file read, and delivered
  final,       \* the flag XML_Parse got with the last chunk
  path,        \* self->path
  table, index,    \* segs, elems or cv, all alloc entries, and the count
  cc, ccIndex,     \* the values of a coded element
  children, chldIndex,
  r,
  files,       \* descriptors in use: none is ever closed
  loaded,      \* loaded_structs, kind -> entries
  inForce,     \* TRUE once edistruct_set_struct was called: curstruc of lookup.c is set
  status,      \* "ok", or what a search followed or a load did
  searched,    \* history: the table of the search that ended so
  split,       \* history: a text of this file was delivered in pieces
  origin       \* history: kind -> what loaded[kind] is of, and split then

helper == <<path, table, index, cc, ccIndex, children, chldIndex>>
input  == <<directory, f, loads, got, pos, final>>
after  == <<loaded, inForce, status, searched, split, origin>>
vars   == <<pc, input, helper, r, files, after>>

kind == Kinds[f]
document == Directories[directory][kind]

-----------------------------------------------------------------------------
(* The files: what conv_specs.pl and dl_specs.pl write.  An entry has       *)
(* fields, texts that may be empty or missing, and parts: children of       *)
(* segments and composites, values of codes.                                *)

\* Relative to the element of an entry
Base(k) == CASE k = "segs"  -> <<"segments", "segment">>
             [] k = "comps" -> <<"composites", "composite">>
             [] k = "elems" -> <<"elements", "element">>
             [] k = "coded" -> <<"coded_values", "coded_element">>

Start(name, code) == <<[does |-> "start", name |-> name, text |-> code]>>
End(name) == <<[does |-> "end", name |-> name, text |-> <<>>]>>
Characters(text) == [c \in DOMAIN text |-> [does |-> "text", name |-> "", text |-> <<text[c]>>]]
Element(name, text) == Start(name, <<>>) \o Characters(text) \o End(name)

\* title stands for all the texts that are stored in the same way.
OptionalTitle(fields) ==
  IF "title" \in DOMAIN fields THEN Element("title", fields.title) ELSE <<>>

PartItems(k, part) ==
  IF k = "coded" THEN Start("value", part.code) \o OptionalTitle(part) \o End("value")
  ELSE Element("child", part)

EntryItems(k, e) ==
  IF e = Malformed THEN <<[does |-> "error", name |-> "", text |-> <<>>]>>
  ELSE LET parts == FlattenSeq([p \in DOMAIN e.parts |-> PartItems(k, e.parts[p])])
       IN  Start(Base(k)[2], e.code) \o OptionalTitle(e)
           \o (IF k \in {"segs", "comps"}
               THEN Start("children", <<>>) \o parts \o End("children") ELSE parts)
           \o End(Base(k)[2])

Items(k, doc) ==
  Start(Base(k)[1], <<>>)
  \o FlattenSeq([e \in DOMAIN doc |-> EntryItems(k, doc[e])])
  \o End(Base(k)[1])

items == Items(kind, document)
item  == items[pos + 1]

-----------------------------------------------------------------------------
(* The handlers, on a helper h; they compare the whole path with their own. *)

Memory(content) == [code |-> content, title |-> content, parts |-> content]

\* realloc and memset; the two arrays of codes are not cleared at all.
AllocCleared == [n \in 1..Alloc |-> Memory(IF n <= Cleared THEN NULL ELSE Garbage)]
AllocRaw     == [n \in 1..Alloc |-> Memory(Garbage)]

AtEntry(p) == p = Base(kind)
In(p, rest) == p = Base(kind) \o rest

\* segments_tstart, elements_tstart and codes_tstart
TableStarted(p) ==
  IF AtEntry(p) /\ index = Len(table)
  THEN table \o (IF kind = "coded" THEN AllocRaw ELSE AllocCleared) ELSE table
ValuesStarted(p) ==
  IF kind = "coded" /\ In(p, <<"value">>) /\ ccIndex = Len(cc) THEN cc \o AllocRaw ELSE cc

\* segments_cdata, elements_cdata and codes_cdata: p is the path, with the
\* attribute if it is one, and each piece overwrites the one before.
Stored(entry, field, piece) == [entry EXCEPT ![field] = piece]

FieldAt(p, where) ==
  CASE In(p, where \o <<"@code">>) -> "code"
    [] In(p, where \o <<"title">>) -> "title"
    [] OTHER -> "none"

TableWith(tbl, p, piece) ==
  LET field == FieldAt(p, <<>>)
  IN  IF field = "none" \/ (kind = "coded" /\ field = "title") THEN tbl
      ELSE [tbl EXCEPT ![index + 1] = Stored(@, field, piece)]

ValuesWith(values, p, piece) ==
  LET field == FieldAt(p, <<"value">>)
  IN  IF kind # "coded" \/ field = "none" THEN values
      ELSE [values EXCEPT ![ccIndex + 1] = Stored(@, field, piece)]

IsChild(p) == kind \in {"segs", "comps"} /\ In(p, <<"children", "child">>)

\* The array of children, of which the entry has the address: grown by 8 when
\* it is full, which is left out, and written at chldIndex.
WithChild(child) == Append(SubSeq(children, 1, chldIndex), child)
Linked(tbl, array) == [tbl EXCEPT ![index + 1].parts = array]

-----------------------------------------------------------------------------
(* startElement, characterData and endElement *)

Advance == /\ pos' = pos + 1
           /\ UNCHANGED <<pc, directory, f, loads, got, final, r, files,
                          loaded, inForce, status, searched, origin>>

Parsing == pc = "parse" /\ pos < got

\* strncat, the start handler, then the attribute as if it were a text.
StartElement ==
  /\ Parsing /\ item.does = "start"
  /\ LET p == Append(path, item.name)
     IN  /\ path' = p
         /\ IF item.text = <<>>
            THEN table' = TableStarted(p) /\ cc' = ValuesStarted(p)
            ELSE /\ table' = TableWith(TableStarted(p), Append(p, "@code"), item.text)
                 /\ cc' = ValuesWith(ValuesStarted(p), Append(p, "@code"), item.text)
  /\ UNCHANGED <<index, ccIndex, children, chldIndex, split>>
  /\ Advance

\* A piece is as much of the text as expat likes, up to the end of the chunk.
TextEnds(n) == pos + n = Len(items) \/ items[pos + n + 1].does # "text"
TextBegins  == pos = 0 \/ items[pos].does # "text"
Pieces ==
  {n \in 1..(got - pos) : \A m \in 1..n : items[pos + m].does = "text"}

CharacterData ==
  /\ Parsing /\ item.does = "text"
  /\ \E n \in Pieces :
       LET piece == [m \in 1..n |-> items[pos + m].text[1]]
       IN  /\ pos' = pos + n
           /\ split' = (split \/ ~TextBegins \/ ~TextEnds(n))
           /\ IF IsChild(path)
              THEN /\ children' = WithChild(piece)
                   /\ chldIndex' = chldIndex + 1
                   /\ table' = Linked(table, children')
                   /\ UNCHANGED cc
              ELSE /\ table' = TableWith(table, path, piece)
                   /\ cc' = ValuesWith(cc, path, piece)
                   /\ UNCHANGED <<children, chldIndex>>
  /\ UNCHANGED <<pc, directory, f, loads, got, final, r, files, path, index, ccIndex,
                 loaded, inForce, status, searched, origin>>

\* Mutant of ListEnded: the NULL of a list that fills its array is left out.
ListEndedNot == Linked(table, SubSeq(children, 1, chldIndex))

\* Mutant of ListEnded: an empty list is not allocated.
ListEndedEmpty == IF chldIndex = 0 THEN table ELSE Linked(table, WithChild(NULL))

\* The NULL behind the children, for which an empty list is allocated too.
ListEnded == Linked(table, WithChild(NULL))

\* segments_tend, elements_tend and codes_tend, then the path is cut.
EndElement ==
  /\ Parsing /\ item.does = "end"
  /\ path' = Front(path)
  /\ IF AtEntry(path) THEN
       /\ index' = index + 1
       /\ table' = IF kind = "coded" THEN Linked(table, SubSeq(cc, 1, ccIndex)) ELSE table
       /\ cc' = IF kind = "coded" THEN <<>> ELSE cc
       /\ ccIndex' = IF kind = "coded" THEN 0 ELSE ccIndex
       /\ UNCHANGED <<children, chldIndex>>
     ELSE IF kind \in {"segs", "comps"} /\ In(path, <<"children">>) THEN
       /\ table' = ListEnded
       /\ children' = <<>> /\ chldIndex' = 0
       /\ UNCHANGED <<index, cc, ccIndex>>
     ELSE
       /\ ccIndex' = IF kind = "coded" /\ In(path, <<"value">>) THEN ccIndex + 1 ELSE ccIndex
       /\ UNCHANGED <<table, index, cc, children, chldIndex>>
  /\ UNCHANGED split
  /\ Advance

-----------------------------------------------------------------------------
(* parse_xml_file, load_segments, load_elements, load_codes *)

Init ==
  /\ pc = "idle" /\ status = "ok" /\ searched = "none"
  /\ directory \in DOMAIN Directories /\ f = 1 /\ loads = 0
  /\ got = 0 /\ pos = 0 /\ final = FALSE
  /\ path = <<>> /\ table = <<>> /\ index = 0
  /\ cc = <<>> /\ ccIndex = 0 /\ children = <<>> /\ chldIndex = 0
  /\ r = 0 /\ files = 0 /\ inForce = FALSE
  /\ loaded = [k \in KindSet |-> <<>>]
  /\ split = FALSE /\ origin = [k \in KindSet |-> [document |-> <<>>, split |-> FALSE]]

Load(d) ==
  /\ pc = "idle" /\ status = "ok"
  /\ loads < MaxLoads
  /\ pc' = "file"
  /\ directory' = d /\ f' = 1 /\ loads' = loads + 1
  /\ UNCHANGED <<got, pos, final, helper, r, files, after>>

\* memset of the helpers, and open
OpenFile ==
  /\ pc = "file"
  /\ path' = <<>> /\ table' = <<>> /\ index' = 0
  /\ cc' = <<>> /\ ccIndex' = 0 /\ children' = <<>> /\ chldIndex' = 0
  /\ got' = 0 /\ pos' = 0 /\ final' = FALSE /\ split' = FALSE
  /\ IF document = Missing \/ files = MaxFiles
     THEN r' = -1 /\ pc' = "close" /\ UNCHANGED files
     ELSE r' = 0 /\ pc' = "read" /\ files' = files + 1
  /\ UNCHANGED <<directory, f, loads, loaded, inForce, status, searched, origin>>

\* Mutant of IsLast: the end is taken for what read returns at an error.
IsLastOnError(n) == n < 0

\* A full chunk is not the last, even if nothing follows.
IsLast(n) == n < ChunkSize

ReadChunk ==
  /\ pc = "read"
  /\ LET n == IF Len(items) - got < ChunkSize THEN Len(items) - got ELSE ChunkSize
     IN  /\ got' = got + n
         /\ final' = IsLast(n)
  /\ pc' = "parse"
  /\ UNCHANGED <<directory, f, loads, pos, helper, r, files, after>>

\* read returns -1, which is no less than sizeof(buf) and becomes the length
\* given to XML_Parse: that refuses it as long as it has no buffer, and copies
\* (size_t)-1 bytes once it has one.
ReadError ==
  /\ pc = "read"
  /\ IF got = 0
     THEN r' = 1 /\ pc' = "close" /\ UNCHANGED status
     ELSE r' = r /\ pc' = "stopped" /\ status' = "overrun"
  /\ UNCHANGED <<input, helper, files, loaded, inForce, searched, split, origin>>

\* Not well formed: XML_STATUS_ERROR.  The tables so far are forgotten.
SyntaxError ==
  /\ Parsing /\ item.does = "error"
  /\ r' = 1 /\ pc' = "close"
  /\ UNCHANGED <<input, helper, files, after>>

EndOfChunk ==
  /\ pc = "parse" /\ pos = got
  /\ pc' = IF final THEN "close" ELSE "read"
  /\ UNCHANGED <<input, helper, r, files, after>>

\* The result of the last file is what edistruct_load_xml_files returns.
CloseFile ==
  /\ pc = "close"
  /\ IF r = 0
     THEN /\ loaded' = [loaded EXCEPT ![kind] = SubSeq(table, 1, index)]
          /\ origin' = [origin EXCEPT ![kind] = [document |-> document, split |-> split]]
     ELSE UNCHANGED <<loaded, origin>>
  /\ IF f < Len(Kinds) THEN f' = f + 1 /\ pc' = "file" /\ UNCHANGED inForce
     ELSE f' = f /\ pc' = "idle" /\ inForce' = TRUE
  /\ UNCHANGED <<directory, loads, got, pos, final, helper, r, files, status, searched, split>>

\* What a search of lookup.c may follow.  It compares the name of an entry, and
\* of a value, before it tests whether there is any; its user goes through the
\* children up to the NULL.  An array without entries was never allocated.
Follows(k, pointer) ==
  IF ~inForce \/ loaded[k] = <<>> THEN pointer = NULL
  ELSE \E n \in DOMAIN loaded[k] :
         LET e == loaded[k][n]
         IN  \/ e.code = pointer
             \/ k \in {"segs", "comps"} /\ e.parts = pointer
             \/ k = "coded" /\ e.parts = <<>> /\ pointer = NULL
             \/ k = "coded" /\ \E v \in DOMAIN e.parts : e.parts[v].code = pointer

\* Which names are compared depends on the one asked for: of a table that has
\* entries, a search may miss what is wrong.
Search(k) ==
  /\ pc = "idle" /\ status = "ok"
  /\ \/ inForce /\ loaded[k] # <<>> /\ UNCHANGED <<status, searched>>
     \/ Follows(k, NULL) /\ status' = "null" /\ searched' = k
     \/ Follows(k, Garbage) /\ status' = "garbage" /\ searched' = k
  /\ UNCHANGED <<pc, input, helper, r, files, loaded, inForce, split, origin>>

Step == StartElement \/ CharacterData \/ EndElement \/ OpenFile \/ ReadChunk
        \/ ReadError \/ SyntaxError \/ EndOfChunk \/ CloseFile

Next ==
  \/ Step
  \/ \E d \in DOMAIN Directories : Load(d)
  \/ \E k \in KindSet : Search(k)

Spec == Init /\ [][Next]_vars /\ WF_vars(Step)

-----------------------------------------------------------------------------
(* Properties *)

\* No name of an entry is left out; a coded element has a value; nothing else is
\* left out or empty.
Named(k, e) ==
  e.code # <<>> /\ (k = "coded" => \A p \in DOMAIN e.parts : e.parts[p].code # <<>>)
Valued(k, e) == k = "coded" => e.parts # <<>>
Complete(k, e) ==
  /\ Named(k, e)
  /\ "title" \in DOMAIN e /\ e.title # <<>>
  /\ \A p \in DOMAIN e.parts :
       IF k = "coded" THEN "title" \in DOMAIN e.parts[p] /\ e.parts[p].title # <<>>
       ELSE e.parts[p] # <<>>
AllOf(k, Is(_, _)) == \A n \in DOMAIN origin[k].document : Is(k, origin[k].document[n])

\* What a user reads of an entry: children up to the NULL, values by their number.
Read(k, e) ==
  CASE k = "elems" -> <<e.code, e.title>>
    [] k = "coded" -> <<e.code, [v \in DOMAIN e.parts |-> <<e.parts[v].code, e.parts[v].title>>]>>
    [] OTHER -> <<e.code, e.title, e.parts>>
Written(k, e) ==
  IF k \in {"elems", "coded"} THEN Read(k, e)
  ELSE <<e.code, e.title, Append(e.parts, NULL)>>

AsWritten(k) ==
  /\ Len(loaded[k]) = Len(origin[k].document)
  /\ \A n \in DOMAIN loaded[k] : Read(k, loaded[k][n]) = Written(k, origin[k].document[n])

\* A table is what one file says from its first entry to its last, across the
\* chunks it was read in and the growth of the arrays, whatever files failed
\* before and after it; with texts in pieces, or left out, it has at least the
\* entries and the names they have (struct_loader.c:137-353).
TablesAreFiles ==
  \A k \in KindSet :
    /\ AllOf(k, Complete) /\ ~origin[k].split => AsWritten(k)
    /\ Len(loaded[k]) = Len(origin[k].document)
    /\ \A n \in DOMAIN loaded[k] :
         origin[k].document[n].code # <<>> => loaded[k][n].code = origin[k].document[n].code

\* A search follows a pointer that was never written only if the file of its
\* table leaves out a name.  It follows NULL only there, or where there is nothing
\* to search: in a table of which no file could be loaded, or an empty one last,
\* and in the values of an element that has none.  Whatever else files leave out
\* and however loads fail, it follows what they wrote
\* (struct_loader.c:146, 232, 292 and 403; lookup.c:14-18 and its four copies).
SearchesReadStrings ==
  /\ status = "garbage" => ~AllOf(searched, Named)
  /\ status = "null" => \/ ~AllOf(searched, Named)
                        \/ Len(origin[searched].document) = 0
                        \/ ~AllOf(searched, Valued)

\* A load returns, whatever the files are and wherever reading them ends or
\* fails; only a failure behind the first chunk of a file may end it otherwise
\* (struct_loader.c:98-107 and 375-406).
LoadReturns == pc # "idle" ~> pc = "idle" \/ (status = "overrun" /\ got >= ChunkSize)

=============================================================================
