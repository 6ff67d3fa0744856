# libedi: specifications, model checks and proofs

libedi parses Electronic Data Interchange messages (UN/EDIFACT, TRADACOMS,
ANSI X12) into a tree of segments, elements and values, builds text from such
trees, and, with two companion libraries, turns messages into XML. The tables
for that are read with expat, whose source is part of the repository. This
directory holds TLA+ modules for all of these, the TLC runs that check them and
the TLAPS proofs about them. `PROJECT.json` lists the runs, the lines of the
source behind each definition, the hazards and the finding.

## 1. Inventory

| Part | Source | State | Operations | Correct when |
|---|---|---|---|---|
| String pool | `libedi/stringpool.c` | blocks of an interchange, a fill pointer in each | get, alloc, free, destroy | values never overlap or leave their block; no pointer into a block reaches `free()` but that of an empty value at its end |
| Construction | `libedi/build.c:36-216` | an interchange | create interchange, segment, element; add a value; destroy | pointers between the parts stay valid; a call adds what it is for, or nothing |
| Parser | `libedi/parse.c` | separators, escape, last error; during a parse the cursor and the growing tree | create, parse, error, destroy | the tree is the one the message describes; its storage is enough; the error says how the parse ended |
| Detection and registry | `libedi/detect.c`, `init.c`, `edifact.h`, `tradacoms.h`, `x12.h` | process-wide table of named parameter sets with detectors, two mutexes, a flag | init, register, get, detect | presets are there before any lookup; a name finds its set; no thread sees half an update |
| Writer | `libedi/build.c:218-443` | a buffer of the caller, positions in it | `edi_interchange_build` | the text is that of the tree, or a beginning of it that fills the buffer |
| Structure lookup | `libedistruct/lookup.c` | the tables in force | five binary searches | found exactly if there |
| Structure loader | `libedistruct/struct_loader.c` | tables that grow during expat's callbacks | load four XML files | tables hold what the files say |
| XML conversion | `libedixml/conv.c`, `output.c`, `excep.c`, `xml/edi2xml.c` | output buffer, iconv handle, pending failure | convert, report the failure | elements are closed in order; a failure leaves a state the next call can start from |
| Expat, tokenizers | `expat/lib/xmltok_impl.c` | none | the next token of a text | the same tokens wherever the text is cut |
| Expat, prolog | `expat/lib/xmlrole.c` | the handler, levels of groups and sections | the role of a token | the declarations of XML 1.0, no more and no fewer |
| Expat, parser | `expat/lib/xmlparse.c` | buffer, processor, open elements and entities, the DTD | parse a piece, stop, resume | the application is told what the document says |
| Programs, scripts | `expat/xmlwf`, `libedistruct/*.pl`, `*.pm` | none | | |
| Ports, packaging | `expat/amiga`, `win32/`, `debian/` | | | |

How they interact. A parser calls `edi__init`, which fills the registry once;
`edi_parser_parse` asks `edi__detect` for the dialect, then fills a tree whose
values lie in the string pool of the interchange. The writer reads a tree and
parameters, often through a pointer that `edi_detect_get_params` returned. The
XML conversion parses a message, then looks each segment, composite, element and
code up in the tables that the loader made in callbacks of expat. Within expat
the parser asks the tokenizers for the next token and the prolog for its role.

What is hard. Threads meet in the registry only: first calls racing with each
other, an entry rewritten in place under readers that hold no lock. The rest is
sequential; its difficulties are cursors that several loops share, allocations
that fail in the middle, sizes that have to be counted the same way in two
places, buffers that fill up anywhere, pointers that `realloc` invalidates,
errors recorded where nobody looks, what one call leaves behind for the next,
documents that arrive in pieces, handlers that stop the parser from within, and
flags that several parsers of one document share. Nothing is persisted and
nothing is sent, so there is no recovery and no loss of messages. `hazards` in
`PROJECT.json` gives each at its line.

## 2. Modules

| Module | Models | Note |
|---|---|---|
| `StringPool` | `stringpool.c` | a pointer is a pair (pool, offset) |
| `EdiTree` | abstract | the tree that the construction functions promise |
| `BuildApi` | `build.c:36-216` | extends `StringPool`, implements `EdiTree` |
| `EdiParse` | `parse.c:77-342` | one action per turn of a loop; implements `StringPool` |
| `EdiParseFields` | reference | segments, fields and escapes defined on the message alone |
| `EdiRegistry` | `detect.c`, `init.c` | threads; what happens under one hold of the lock is one step, except the four steps that rewrite an entry |
| `StructLookup` | `lookup.c` | the searches differ in their table only |
| `StructLoader` | `struct_loader.c` | the handlers, the chunks and the loads; a document is a sequence of entries |
| `EdiBuild` | `build.c:218-443` | one action per character or decision |
| `EdiBuildText` | reference | the text of a tree as an expression |
| `EdiRoundTrip` | `tests/test-1.c` to `test-3.c` | parser and writer composed |
| `EdiXml` | `conv.c`, `output.c`, `excep.c`, `edi2xml.c` | a session of calls; one action per piece of markup |
| `XmlTok` | `xmltok_impl.c` | automata over types of bytes |
| `XmlRole` | `xmlrole.c` | the handlers as rows: token, word, next handler, role |
| `XmlDeclarations` | `xmlrole.c`, `xmlparse.c` | tokens through `XmlRole`, and the content models that `doProlog` gathers; a grammar to compare with |
| `XmlParser` | `xmlparse.c` | one action per call of the application; composes `XmlTok` and `XmlRole` |
| `XmlDocument` | reference | what a document means |
| `XmlEntities` | `xmlparse.c` | one action per piece of a DTD; the document, its files and its entity values are frames of a stack |
| `XmlEntitiesMeant` | reference | what a document means, its texts read one inside the other |
| `MC...` | | instances for TLC |
| `..._proofs` | | theorems of the module of that name; `EdiParse_proofs` also of `EdiParseFields` and `EdiRoundTrip`, `EdiBuild_proofs` of `EdiBuildText`, `EdiStruct_proofs` of lookup and loader, `Expat_proofs` of `XmlDeclarations` and `XmlEntities` |

Definitions named in a comment "Mutant" are what a plausible mistake would make
of the definition behind them. They are used by no specification; each property
is known to fail if the mutant takes that definition's place.

`StringPool`. `Get`, `Alloc`, `Free` and `Destroy` are the four functions.
`AllocFails` is an `edi__stringpool_alloc` whose get returned -1: the index is
then out of range and the state "undefined". Offsets replace addresses, so two
blocks are never compared. Two empty values in a row are one pointer, as they are in C.

`BuildApi`. `base` numbers the blocks that the array of segments has been in; an
element keeps the number of the block it was made in. A caller may add to any
element: if the pointer is stale the state is "undefined". `recent` is history,
and marks the elements made since the last `edi_segment_create`. `Carve` is the
call of the pool for a value of any length, an empty one too.

`EdiParse`. `pos`, `ts`, `e` and `newel` are the variables `message`, `ts`, `e`
and `newel` of the C function; a value in the tree is a string pool location, its
characters and the place it was found. `Scan` and `Copy` are the inner loop and
`memcpyescape`. Every allocation has an action for its failure. What
`edi__detect` answers is an input: a dialect with the number of bytes to skip, or
none. `parser` and `error` keep apart the parser of the caller and the
temporary one made after detection.

`EdiRegistry`. `Call` is a caller entering the library, `EnterInit` to
`LeaveInit` is `edi__init`, `RegisterNew` to `Fill` is
`edi__detect_register_params`. An entry keeps two fields of its separators,
enough to see half of an update. `Get`, `ReadFirst` and `ReadSecond` are
`edi_detect_get` and a writer that reads the separators afterwards, without
the lock. The two histories, `gen` and `registered`, are read by properties only.

`StructLookup`. Names are integers in the order of `strcmp`. `FoundElement` is
the call of `find_actual_value` from `find_coded_value`.

`StructLoader`. expat is what it promises its user: starts and ends in their
order, and each text in one piece or in several; `split` remembers the latter.
A document is a sequence of entries whose texts may be empty or left out. The
handlers compare `path` as the code does. Memory that was not cleared holds
`Garbage`. `Search` uses the tables as `lookup.c` would, before and after loads:
each of its five searches compares the name with that of entry 0 before it tests
whether there is an entry, so that an empty table, and a coded element without
values, has NULL followed (`Follows`). `searched` is history, the table that a
search was in when it met a pointer that it may not follow.

`EdiBuild`. The loops over `c`, `d` and `i` are labels of `pc`; a `break` on a
full buffer goes to "end", where all of them lead. `touched` is how far the
buffer was written, the terminating NULs included. `BeginValue` and
`BeginHeader` decide between an interchange that starts with the header segment
and one that gets it. A header format is a sequence of directives and characters.

`EdiRoundTrip`. The writer starts when the parser returns; they share the tree.

`EdiXml`. `i`, `k` and `j` are the three nested loops. `mode` is the caller:
`edi2xml_conv2`, the program, or one that calls `edi2xml_conv` by itself. A piece
of markup takes one unit of the buffer, and `Unit` pieces make it grow. A text in
the output carries the name of the element it is written in, and the properties
compare it with the name in the tables. What C
leaves undefined (a format's arguments used twice, a closed handle, a buffer of a
function that returned) stops the session with a status that says so, or lets it
go on where implementations do.

`XmlTok`. A symbol is a character, or a keyword of the grammar, which is read as
a name is; `lead` and `trail` are the halves of a character of two bytes. A row
`Go` keeps scanning, `End` ends a token some bytes back.

`XmlParser`. A call of `XML_Parse` with one piece, or of `XML_ResumeParser`, is
one step, since nothing else can happen during it; its parameters `stopAt` and
`resumable` say which handler call stops the parser and how. The processors are
recursive operators with the names they have in the code. `mem`, `ptr` and `end`
are the buffer; a name that was not copied is a position in it, and reading it
from a buffer that was freed sets `stale`. Of the fields that C does not have, `behind`
says that the call resumed within an entity and read on behind it,
`moved` that a name of such a tag was compared after the buffer had moved under it,
and `intact` that memory which was freed still holds what it held.

`XmlEntities`. Between declarations a text is a stack of frames: an internal
entity is the recursion of `doProlog`, a value that of `storeEntityValue`, a
file a parser of its own that shares the DTD. `answer` is what the application
does when it is asked for a file. `EntitiesInit` to `EntitiesSpec` are the
specification; the reading that `ReadAsMeant` compares it with is recursive, and
in `XmlEntitiesMeant`.

## 3. Runs

| Run | Distinct states | What it shows |
|---|---|---|
| `build_api` | 1,773,000 | interchanges of up to 2 segments of 2 elements, with 4 values, empty ones too; every failure, segments that move or stay |
| `parse` | 170,000 | all messages of up to 4 characters over 7 characters in four dialects |
| `registry` | 539,000 | two threads with three calls between them |
| `registry_reregister` | | *violation*: a second registration under a name |
| `lookup` | 74,000 | every sorted table of up to 5 names, every two-level search |
| `build` | 499,000 | trees of up to 2 segments, 4 styles, buffers of 0 to 23 bytes |
| `round_trip` | 1,665,000 | all messages of up to 4 characters, from 3 dialects to 4 styles |
| `xml` | 35,000 | sessions of 3 calls over 18 messages, three sets of options, three callers |
| `loader` | 57,000 | two loads from four directories: whole files, files that leave out titles or names, broken files |
| `expat_declarations` | 143,000 | sequences of up to 11 tokens of every kind |
| `expat_parser` | 43,000 | documents with every kind of item, in pieces of 1, 3, 4 and 7 symbols, stopped up to twice |
| `expat_entities` | 8,248,000 | DTDs and files of up to 4 pieces, under every setting |

What the properties say.

- `ValuesDisjoint`, `OnlyEmptyFreed`, `TreeOwnsValues` (build_api): the
  arena, which of its pointers reach `free()` (those of empty values with nothing
  behind them, no others), and that whatever was taken from it is in the tree, in one segment.
  `PointersAreLive`: a caller who adds only to elements made since the last new
  segment never meets a stale pointer. `AllOrNothing`: the module implements
  `EdiTree`, so that a call that fails leaves no trace in the tree.
- `FirstPoolSuffices` (parse): once the pool for the whole message is made no
  other is needed and no allocation fails. Its one exception is `CutShort`: the
  last value of a message that stops inside a segment asks for one byte more than
  there is, and the room test is strict. The comment at `parse.c:128` does not
  make that exception.
- `TreeIsMessage` (parse): with `EdiParseFields`, the tree against the message:
  each value is its field without escapes, none is lost, all are grouped as the
  separators say, and the tag is the first. `UnterminatedExactly` does the same
  for the error.
- `UsesPools` (parse): the parser implements `StringPool` by a refinement mapping
  that takes the values in the tree, and the one in flight, for the values held.
- `PresetsAreReady`, `NamesStandForOne`, `ReadsAreWhole`, `CallsReturn` (registry):
  initialisation as others see it, if there was memory for it; no name stands for two
  entries, and one registered once, by whichever thread and amid whatever other
  registrations, stands for that one (registered again, it is the subject of the
  finding); no torn reads but the ones of a pointer whose entry was
  registered over; no deadlock of the two locks.
- `AnswerIsRight`, `ReadsInside`, `Shrinks` (lookup).
- `StaysInside`, `WholeOrBeginning` (build): the buffer, against the text that
  `EdiBuildText` defines.
- `Transcribes` (round_trip): parsing and building changes the separators where
  they were and nothing else but what is redundant.
- `ReturnedNested`, `ConformingIsWhole` (xml): every early exit closes what it
  has to, and whatever a message has wrong, the segments that are as the tables
  have them are written out in full, each value in an element of the name that the
  tables have for its place. `ReportIsOfOneFailure`,
  `EarlierCallsDoNotShow`: a session of calls that succeed and fail.
- `TablesAreFiles` (loader): each table is its file, through growth and chunks,
  and whatever the other files were; a table has at least the entries, and the
  names they have, if texts were delivered in pieces or are missing.
  `SearchesReadStrings`: what a search may follow, before loads and after loads that
  failed: garbage only if a name was left out of the file of its table; NULL only
  then, in a table that no file has filled, or in an element without values.
  `LoadReturns`.
- `DeclarationsAreGrammar`, `ModelIsDeclaration`, `GroupsInBounds`
  (expat_declarations): the handlers of `xmlrole.c` against a grammar; the
  content model reported against the declaration, read back from it. One parser is
  modelled: a second that shares the DTD has a group array of its own size and the
  same scaffold (`xmlparse.c:4429`), which is left out.
- `ToldInOrder`, `ToldAll` (expat_parser): the events against `XmlDocument`,
  however the document is cut and wherever a handler stops the parser.
  `BufferIsDocument`, `NamesAreKept`, `StopsSoon`: how that is achieved. `ToldAll`
  and `NamesAreKept` except names that were read behind an entity in the
  call that resumed in it (section 4); two documents of the run have such names. The run
  also evaluates `IgnoredSectionsNest`, the tokenizer of ignored sections
  against XML 1.0 over all texts of up to five of its marks.
- `ReadAsMeant` (expat_entities): the entities against a reading of the texts one
  inside the other. `OpenIsBeingRead`: the marks that keep an entity from being
  read within itself. `UndeclaredIsRefused`: which references in the content are
  errors, though what declares the entity may not have been read. Excepted is a foreign
  DTD that was declined (`Withdrawn`, section 4).

### Bounds

`MaxLen = 4` gives every sequence of two separators between values, escaped and
doubled escapes, empty segments, newlines between them, and messages that stop
anywhere. Blocks of two segments and two elements make the arrays grow twice,
and a block of 3 bytes makes the reservation larger than a block. `MaxPools = 7`
exceeds any number of pools a message asks for; `build_api` allocates values of
0, 1 and 4 bytes from pools of 3, so that an empty one lies at the beginning, in
the middle and at the end of what its pool holds, two others share one and one
exceeds it; two moves of the segments make a pointer one and two moves old. In the registry the
names are the two presets, and a name of more than 31 characters with the one it
is cut to. `MaxCalls = 3` calls of both threads together give every overlap of
initialisation, a registration over an existing name and a reader, and a third
registration under a name. `MaxBuf = 23` is beyond the longest text, of 21 characters, so every
place where a buffer can fill up is met. `MaxKey = 5` gives tables of all sizes a
search halves differently. `MaxBuf = 20` never fills in `round_trip`.

Three conversions give a failure between two successes and two failures in a
row. The tables of `xml` have children of each kind, optional and not, and names
that no table has; a buffer that grows by 4 grows in every message. The loader's
tables grow by 2 entries of which 1 is cleared, for 25 and 10 in the code, and
its longest table has 3; chunks of 5 handler calls cut each file inside an entry.

Eleven tokens are the longest declaration of each kind with two items in it, and
a content model two groups deep; the arrays start with room for 2. Documents have
one item of each kind, two where the second depends on the first, and entities
within entities; an initial buffer of 2 symbols with 1 of context moves and grows
in every document. Four pieces are two entities that refer to each other, a
reference to them and a declaration that comes too late. Deadlock is not checked
where functions return, which is every instance; that they do return is a
property of its own.

### Fairness

`parse`, `build`, `xml` and `loader` assume that a call that was made keeps
running, weak fairness of its steps: it waits for nothing, and the caller need
not make another. `registry` assumes it for each thread inside a call. Since
calls are bounded, a lock cannot be taken away from a waiting thread for ever.

## 4. Findings

The `violation` run refutes what a comment says; `PROJECT.json` quotes it.

- `detect.c:229`: registering over a name forgets it (`detect.c:65`).

The models have these as the code has them, and the properties state what
remains true:

- `stringpool.c:117`: an empty value at the end of what a pool holds is taken for
  memory of its own and passed to `free()`, against the comment at
  `stringpool.c:109`. `edi_element_add` makes one for an empty string
  (`build.c:119`). `OnlyEmptyFreed` says that there are no others.
- `init.c:52-56`: the library counts as initialised though memory for the presets ran
  out, and stays without them; `PresetsAreReady` is about the other case. The
  presets may be without a name in the table after a second registration, as the finding has it.
- `parse.c:101`: a parser with parameters of its own returns NULL for a message
  without a known header, where README:7-9 says it can be configured.
- `parse.c:266`: `EDI_ERR_UNTERMINATED` is set on the temporary parser, so it
  never reaches `edi_parser_error`.
- `build.c:122`: `edi_element_add` never copies the characters of the value.
- `build.c:441`: a text that fills the buffer gets its NUL behind the buffer.
- `struct_loader.c:183`: a text that expat delivers in pieces is overwritten by
  its last piece, though `expat/doc/reference.html:1300` warns of them.
- `lookup.c:17-18`, and the same lines of its four copies: `strcmp` reads the name of
  entry 0 before the test for an empty table, so that a search follows NULL if the
  file was missing, had no entry, or was malformed before its first one, and if an
  element has no values. `edistruct_load_xml_files` puts the tables in force all
  the same and returns the result of the last file only.
- `output.c:59`: a piece of text for which the buffer has to grow is formatted
  from arguments that are used up; `output.c:97`: after E2BIG the place to go on
  in the new buffer is computed from the old one.
- `xmlparse.c:4876-4909`: a parser stopped inside an internal entity does not
  find back if something was begun there. A second entity open within the first
  loses what follows it in the first, and stays marked open; a section of
  character data is read on as content; an element that the entity leaves open
  is not reported. `reference.html:883` says one can come back to it.
- `xmlparse.c:4905-4908`: `internalEntityProcessor` reads on behind the entity with
  `doContent` and returns without `storeRawNames`, which `contentProcessor` calls.
  A start tag read there and still open keeps its name in the buffer that the next
  call may move, against `xmlparse.c:172-178` and `2049-2053`. Its end tag is then
  compared with what lies there instead: `<a>&e;<c>x</c></a>`, stopped in the
  entity, resumed, and cut behind `<c>`, can fail as a tag mismatch though it is correct.
- `xmlparse.c:3962-3971` and `4006-4013`: a foreign DTD that the handler declines
  counts as none, so that a reference to an undeclared entity is an error;
  `reference.html:2189-2192` says that the document counts as one with an external
  subset "even if the external entity reference handler returns without action"
  (`expat.h:697-699` likewise). One that the handler reads counts as none, too, if it
  declines the last file that the DTD refers to, since one flag,
  `paramEntityRead`, tells of both.
- `xmltok_impl.c:1344-1352`: an ignored section that ends with `]]]>` is read on,
  since brackets are taken two at a time.

## 5. Proofs

`tlapm` checks each `..._proofs` module. The theorems hold for all values of the
constants that satisfy the named `ASSUME` of the module.

| Theorem | For every | Argument |
|---|---|---|
| `StringPool_proofs!TypeCorrect`, `AllocIsDisjoint` | block size, set of requests | values lie below the fill pointer, which lies in the block; a new value starts there |
| `StringPool_proofs!FreeRecognisesValues` | block size, set of requests | a value that is not empty starts strictly below the fill pointer, an empty one at most there, and `Free` changes no pool |
| `BuildApi_proofs!CallsKeepValuesApart`, `DestroyFreesOnlyEmpty` | block size, requests, bounds on the tree | every call is a step of `StringPool` or of nothing in the pools, whose theorems apply |
| `BuildApi_proofs!NewElementsPointHome` | the same | an element marked recent has the number of the block the segments are in: a move of the block takes the marks away |
| `BuildApi_proofs!CallsAddOnePart` | the same | each action maps to one step of `EdiTree`, or to none; a sequence is determined by its length and its places |
| `BuildApi_proofs!InterchangeOwnsValues` | the same | a value that the pools hand out and that is not empty is not held yet, because values are apart; so the segment it goes into is the only one that has it |
| `EdiRegistry_proofs!UndisturbedReadsAreWhole` | number of threads and calls, names, presets | the one thread that writes an entry holds `detectlock` and has raised the entry's count; a reader whose count still agrees reads what nobody writes |
| `EdiRegistry_proofs!PresetsComeFirst` | the same | while a thread is in `edi__detect_init` the table is the presets up to its own and no other thread is past `edi__init`; afterwards an entry of a preset is only overwritten if its name was registered |
| `EdiRegistry_proofs!NamesAreOfOne` | the same | what is proved is stronger and inductive: a name has one entry after an odd number of registrations and none after an even one; an entry that is being overwritten counts as gone from when the thread takes the lock |
| `EdiParse_proofs!TypeCorrect` | message, dialect, block sizes | cursors stay between the start of the message and its NUL |
| `EdiParse_proofs!OnePoolSuffices` | the same | what the pool has handed out is never more than the part of the message behind the cursor, so that the rest is enough for the next value and its NUL |
| `EdiParse_proofs!ParserUsesPools` | the same | each step of the parser is an `Alloc`, a `Get`, an `AllocFails` or a stutter of the pools; a new location is not in the tree yet |
| `EdiParse_proofs!ValuesStayApart` | the same | the theorem of the pools, through that refinement |
| `EdiParse_proofs!ParsedTreeIsMessage` | the same | `FieldsInv`: at every place of the loops the tree holds exactly the fields that start before it, each whole and without its escapes, in the element and the segment that the separators in front of it make |
| `EdiParse_proofs!UnterminatedIsExact` | the same | with `FieldsInv`: what the parser has passed is told apart from what is ahead by a position, and a segment is open as long as no terminator lies between |
| `EdiParse_proofs!ParsedMessageIsTranscribed` | message, both dialects, styles, block and buffer sizes | `BothInv`: while the parser runs, the text of the tree so far is what the part of the message behind the cursor says (`TextSoFar`), and the first segment is the one that the header is judged by (`FirstInv`); the writer begins with a tree of which the theorems of `EdiBuild_proofs` speak, and ends with its text |
| `EdiStruct_proofs!SearchIsRight`, `SearchStaysInside`, `SearchShrinks` | sorted table of any size | `Narrowed`: entries left of `begin` are smaller than the name, those from `end` on larger |
| `EdiStruct_proofs!LoaderInvariant`, `TablesAreAlwaysFiles`, `SearchesAlwaysReadStrings` | directories, allocation and chunk sizes, files and loads | `LoaderInv`: what is left of a file lies ahead of one of the places of its grammar (`Place`), where the arrays hold what they should hold there; each handler leads from a place to a place, an entry that was ended is right (`EntryRight`), and behind the last item all were ended |
| `EdiBuild_proofs!TypeCorrect`, `WriterStaysInside` | tree, style, buffer size | at the labels that write without a check, the `Goto` that led there checked; a separator is followed by a value |
| `EdiBuild_proofs!WholeTextOrBeginning` | the same | `TextInv`: from every label, what is written and what that label has still to write, with the trailer applied where it is due, are the text of the tree; `dohdrtrailer` says whether the segment is the header; if no piece of the trailer takes a character back, what is written only grows |
| `EdiXml_proofs!ReportsAreOfOneFailure`, `EarlierCallsNeverShow` | messages, tables, options, calls | `FailureInv` and `SessionInv`: in a call the offset kept is that of the call and the segment worked on, exception, offset and segment agree from a failure until its report is asked for or a new call makes it overdue, and what a conversion uses it has set up itself |
| `EdiXml_proofs!ReturnedIsNested` | the same | `NestingInv`: the elements left open are those of the label and of the place in the message, so every way out closes as many as there are |
| `EdiXml_proofs!ConformingIsAlwaysWhole` | the same | `PlaceInv` and `PassedInv`: for every label and place, the texts written of a segment that conforms are its values up to there, each under the name that the tables have for it; a conforming segment meets no way out but the end of the table |
| `Expat_proofs!GroupInvariant`, `GroupsAreInBounds` | sizes of the arrays, tokens | `GroupInv`: the handler that is current knows whether a group is open, both arrays reach beyond the deepest open group, and the model being gathered has a parent for each level of them |
| `Expat_proofs!EntitiesInvariant`, `OpenIsAlwaysBeingRead` | pieces, handlers, length of texts | `OpenInv`: every frame is of a kind that can stand on those below it, no two are of one entity, and the entities of the frames are the open ones; a frame is only put on for an entity that is not open, and a declaration that counts is of a name that no frame has |
| `Expat_proofs!RefusalInvariant`, `UndeclaredIsAlwaysRefused` | the same | `RefusalInv`: before the subset, `hasParamEntityRefs` says whether there is a system identifier or the document refers to an entity; while it is read, its frame keeps what was said before; at the content, it is what the reference is judged by, unless a foreign DTD was declined (`Withdrawn`), of which nothing is claimed |

Each invariant is strengthened to an inductive one in its proofs module (`IInv`,
`FInv`, `LInv`, `OInv`, `TableInv`, `FieldsInv`, `TextInv`, `FailureInv`,
`SessionInv`, `NestingInv`, `WholeInv`, `LoaderInv`, `GroupInv`, `OpenInv`,
`RefusalInv`, `BothInv`), with one lemma per action or kind of
action. They are needed because the properties speak of the end of a call, or of
one place, and say nothing of the places on the way.

The comparisons with a reference definition, of the tree with its message, of
the text with its tree and of the tables with their files, are about functions defined by recursion and about
concatenations of any length. Induction is there stated of a set of numbers
(`SetInduction`), which the provers can instantiate, and rests on the theorem of
the library that the numbers are well founded. `TextInv` says what is still to
be written as functions of the place, with one fact about each that unfolds it by
one value, element or segment; an action then moves one piece from what is left
to what is written. `Place` takes the items of a file apart in the same way: an
entry is its start, its title, its parts and its end, and what follows it is the
entries from the next one on (`EntriesFrom`, `PartsFrom`), so that every handler
knows the item it gets and the place it leaves. Chunks, the growth of the arrays
and texts in pieces leave the place as it is.

`ParsedMessageIsTranscribed` joins two of these comparisons. `EdiBuild_proofs` is
instantiated for all the trees the parser can make (`Writer`), and says how the text
of a tree grows by one segment, element or value (`LinesOf`, `Written`). The text of the message is taken up to a position (`Upto`).
That the two agree is no property of the tree alone: a value that is being copied,
the separator that will stand before it (`Lead`), and one that is never written
because nothing follows it are accounted for by `TextSoFar`, one conjunct for each
place of the parser. `FirstInv` keeps
where the first segment ends and whether its first element has more than one value,
since the writer compares the first value with the header's name, and the message
knows of it only what `FirstStart` and `FirstEnd` say.

Assumed are the named `ASSUME`s only. Those of `EdiRegistry` say that locks and
names are told apart, that cutting a name twice cuts it once, and that the presets
have different names that fit (`PresetsAssumption`), as `detect.c:56-63` has them; those
of `EdiBuild`, that trees are sequences of sequences of texts; that of `EdiRoundTrip`,
that the styles of the writer have the fields and directives of `libedi.h`; those
of `EdiXml`, that tables are lists of children and messages lists of segments;
those of `StructLoader`, that documents are lists of entries, as the scripts write
them, and that a pointer which was cleared or never written is told apart from a
text; that of `XmlEntities`, that a name is told apart from NULL, and that values
are made of pieces and characters.

Only model-checked: liveness, which needs fairness and `ENABLED`;
`DeclarationsAreGrammar`, whose grammar has the lists of a declaration only as long
as `MaxTokens` of the run allows (`Attributes`, `Names`), so that it is no statement for
every value of the constants; `ModelIsDeclaration`, where the order in which
`build_model` lays out a tree is a fold over a recursive visit, and is read back by
another recursion; `ReadAsMeant`, whose meaning is a recursive operator, out of the
reach of the prover; and the properties of `XmlParser`, whose processors are.

## 6. Not modelled

- Text details of detection (`detect.c:133-174`): which detector matches is an
  input of `EdiParse`; in `EdiRegistry` a detector is the tag it looks for.
- `xml_root_node`, `containers`, `ss_name` and `ss_trailer` in the registry: they
  are copied like the separators. The writer has name and trailer.
- Characters of 0x80 and more, which `char` and `unsigned char` compare
  differently.
- Of `xmlparse.c`: default attributes and the normalisation of attribute values,
  namespaces, encodings an application supplies, the hash tables and string
  pools of the DTD, and memory that runs out. Of `xmltok.c`: the tables of
  encodings and conversions between them. They are self-contained data
  structures and conversions, whose state no other part changes.
- External general entities, whose parsers read content as the document's does.
- `xmlwf`, the Amiga port, `win32/`, and the packaging: no part of libedi rests
  on them. The Perl scripts make the XML files once, before anything runs; their
  sort is the assumption `Sorted`, their format the documents of `StructLoader`.

## 7. Plan

Done, in this order: `StringPool`, `EdiParse` on top of it, `EdiRegistry`,
`StructLookup`, `EdiBuild`, `EdiRoundTrip`; then `BuildApi`, `EdiXml`,
`StructLoader` and the modules of expat; and proofs of the safety of all of
them but `XmlParser`, the parser and the writer together included; of
`XmlDeclarations`, of the groups and their arrays only.

Next would be a grammar of declarations of any length, and a proof that the handlers
of `xmlrole.c` are it; and the registry and the parser composed, with the
positions from which detection takes separators.
