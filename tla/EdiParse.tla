------------------------------ MODULE EdiParse ------------------------------
(***************************************************************************)
(* libedi/parse.c: edi_parser_parse, one message at a time.  A step is one *)
(* turn of one of its loops; every allocation may fail.  What detect.c     *)
(* makes of the message (no match, or a dialect and a number of bytes to   *)
(* skip) is an input here: EdiRegistry models detection itself.            *)
(***************************************************************************)
EXTENDS Integers, Sequences

CONSTANTS
  NUL,                  \* the character that ends a C string
  Newlines,             \* 0x0D and 0x0A
  TagChars,             \* the characters of "UNB", "STX" and "ISA"
  Messages,             \* what is left of a message behind the skipped bytes
  Dialects,             \* the separators a matched detector can yield
  NoDialect,            \* no detector matches
  NoValue,              \* a NULL char *
  STRINGPOOL_BLOCKSIZE, SEG_BLOCKSIZE, ELEMENT_BLOCKSIZE,
  Requests,             \* the sizes asked of the string pool
  MaxPools              \* bound on the pools; no parse comes near it

ASSUME EdiParseAssumption ==
  /\ \A m \in Messages : /\ m \in Seq(UNION {{m[i] : i \in DOMAIN m}})
                         /\ \A i \in DOMAIN m : m[i] # NUL
                         /\ 1..(Len(m) + 1) \subseteq Requests
                         /\ Len(m) + 2 <= MaxPools
  /\ NUL \notin Newlines \union TagChars
  /\ Newlines \intersect TagChars = {}
  /\ NoDialect \notin Dialects
  /\ NoValue \notin [pool : Nat, off : Nat, len : Nat]
  \* The five characters are distinct but for tag and data, which EDIFACT and
  \* X12 do not tell apart.  escape is NUL in a dialect that has none.
  /\ \A d \in Dialects :
       /\ NUL \notin {d.seg, d.data, d.sub, d.tag}
       /\ d.seg \notin {d.data, d.sub, d.tag, d.escape}
       /\ d.sub \notin {d.data, d.tag, d.escape}
       /\ d.escape \notin {d.data, d.tag} \union Newlines
       /\ d.skip \in Nat
  /\ STRINGPOOL_BLOCKSIZE \in Nat \ {0}
  /\ SEG_BLOCKSIZE \in Nat \ {0}
  /\ ELEMENT_BLOCKSIZE \in Nat \ {0}
  /\ Requests \subseteq Nat
  /\ MaxPools \in Nat

VARIABLES
  message, dialect,     \* the input, and what detection makes of it
  pc,
  parser,               \* which parser's error is set: "caller", "temporary"
  error,                \* the error of each of the two
  result,               \* "none" until the return, then "NULL" or "interchange"
  pos, ts, e, newel,    \* message, ts, e and newel of the C function
  value, src, text,     \* value, and memcpyescape's src and what it wrote
  segments, segalloc, elalloc,
  pools,                \* the string pools of the interchange
  reserved              \* history: the get made for the whole message succeeded

input   == <<message, dialect>>
cursor  == <<pos, ts, e, newel>>
copying == <<value, src, text>>
tree    == <<segments, segalloc, elalloc>>
memory  == <<pools, reserved>>
outcome == <<parser, error, result>>
vars    == <<input, pc, outcome, cursor, copying, tree, memory>>

(***************************************************************************)
(* The tree.  A value is the pointer it has into the string pool, its      *)
(* characters (the C string without its NUL, valuelen of them) and, for    *)
(* the properties, the position in the message where it was found.         *)
(***************************************************************************)
NewSegmentAt(p) == [offset |-> dialect.skip + p - 1, tag |-> NoValue, elements |-> <<>>]
NewElementHere  == [type |-> "none", values |-> <<>>]

SetLast(s, x) == [s EXCEPT ![Len(s)] = x]
LastOf(s) == s[Len(s)]

seg == LastOf(segments)
el  == LastOf(seg.elements)

ElementLocs(x) == {x.values[k].loc : k \in 1..Len(x.values)}
SegmentLocs(s) == UNION {ElementLocs(s.elements[j]) : j \in 1..Len(s.elements)}
Locs(segs)     == UNION {SegmentLocs(segs[i]) : i \in 1..Len(segs)}

\* The values the string pool has handed out: those in the tree, and the one
\* that is being filled or was lost when the tree could not grow.
held == Locs(segments) \union ({value} \ {NoValue})

Pool == INSTANCE StringPool
          WITH BLOCKSIZE <- STRINGPOOL_BLOCKSIZE, freed <- {},
               status <- IF pc = "undefined" THEN "undefined" ELSE "open"

-----------------------------------------------------------------------------
(* Characters *)

Char(i) == IF i <= Len(message) THEN message[i] ELSE NUL

Escapes(i) == dialect.escape # NUL /\ Char(i) = dialect.escape

FirstElement == Len(seg.elements) = 1

Breaks(i) ==
  Char(i) \in {dialect.sub, dialect.seg,
               IF FirstElement THEN dialect.tag ELSE dialect.data}

-----------------------------------------------------------------------------
Init ==
  /\ message \in Messages
  \* A dialect whose detector skips nothing leaves the tag it looked for.
  /\ dialect \in {NoDialect} \union
       {d \in Dialects : d.skip = 0 => message # <<>> /\ message[1] \in TagChars}
  /\ pc = "detect" /\ parser = "caller" /\ result = "none"
  /\ error = [caller |-> "NONE", temporary |-> "NONE"]
  /\ pos = 1 /\ ts = 1 /\ e = FALSE /\ newel = FALSE
  /\ value = NoValue /\ src = 1 /\ text = <<>>
  /\ segments = <<>> /\ segalloc = 0 /\ elalloc = 0
  /\ pools = <<>> /\ reserved = FALSE

Return(r) == pc' = "returned" /\ result' = r

Fail(err, r) ==
  /\ Return(r)
  /\ error' = [error EXCEPT ![parser] = err]
  /\ UNCHANGED parser

(* Detection, and the interchange and its first pool. *)

NoMatch ==
  /\ pc = "detect" /\ dialect = NoDialect
  /\ Return("NULL")
  /\ UNCHANGED <<input, parser, error, cursor, copying, tree, memory>>

Match ==
  /\ pc = "detect" /\ dialect # NoDialect
  /\ pc' = "create"
  /\ parser' = "temporary"
  /\ UNCHANGED <<input, error, result, cursor, copying, tree, memory>>

CreateFails ==
  /\ pc = "create"
  /\ Fail("SYSTEM", "NULL")
  /\ UNCHANGED <<input, cursor, copying, tree, memory>>

Empty ==
  /\ pc = "create" /\ Char(pos) = NUL
  /\ Fail("EMPTY", "interchange")
  /\ UNCHANGED <<input, cursor, copying, tree, memory>>

\* Mutant of Reservation: the terminating NUL is not counted.
ReservationWithoutNul == Len(message)

Reservation == Len(message) + 1

\* The result of edi__stringpool_get is not looked at.
Reserve ==
  /\ pc = "create" /\ Char(pos) # NUL
  /\ reserved' \in BOOLEAN
  /\ pools' = IF reserved' THEN Pool!PoolsFor(Reservation) ELSE pools
  /\ pc' = "segment"
  /\ UNCHANGED <<input, outcome, cursor, copying, tree>>

(* The loop over segments. *)

\* Mutant of SkipNewline: the loop does not move on.
SkipNewlineStuck ==
  /\ pc = "segment" /\ Char(pos) \in Newlines
  /\ UNCHANGED vars

SkipNewline ==
  /\ pc = "segment" /\ Char(pos) \in Newlines
  /\ pos' = pos + 1
  /\ UNCHANGED <<input, pc, outcome, ts, e, newel, copying, tree, memory>>

EndOfMessage ==
  /\ pc = "segment" /\ Char(pos) = NUL
  /\ Return("interchange")
  /\ UNCHANGED <<input, parser, error, cursor, copying, tree, memory>>

AtSegment == pc = "segment" /\ Char(pos) \notin Newlines \union {NUL}

SegmentsFull == Len(segments) + 1 > segalloc

NewSegment ==
  /\ AtSegment
  /\ segalloc' = IF SegmentsFull THEN segalloc + SEG_BLOCKSIZE ELSE segalloc
  /\ segments' = Append(segments, NewSegmentAt(pos))
  /\ elalloc' = 0
  /\ newel' = TRUE
  /\ pc' = "element"
  /\ UNCHANGED <<input, outcome, pos, ts, e, copying, memory>>

SegmentFails ==
  /\ AtSegment /\ SegmentsFull
  /\ Fail("SYSTEM", "interchange")
  /\ UNCHANGED <<input, cursor, copying, tree, memory>>

(* The loop over elements and, within a composite element, its values. *)

EndSegment ==
  /\ pc = "element" /\ Char(pos) = dialect.seg
  /\ pos' = pos + 1
  /\ pc' = "segment"
  /\ UNCHANGED <<input, outcome, ts, e, newel, copying, tree, memory>>

Unterminated ==
  /\ pc = "element" /\ Char(pos) = NUL
  /\ Fail("UNTERMINATED", "interchange")
  /\ UNCHANGED <<input, cursor, copying, tree, memory>>

AtElement == pc = "element" /\ Char(pos) \notin {NUL, dialect.seg}

ElementsFull == Len(seg.elements) + 1 > elalloc

\* The literal 8 that is added to elalloc is the ELEMENT_BLOCKSIZE of realloc.
NewElement ==
  /\ AtElement /\ newel
  /\ elalloc' = IF ElementsFull THEN elalloc + ELEMENT_BLOCKSIZE ELSE elalloc
  /\ segments' = SetLast(segments, [seg EXCEPT !.elements = Append(@, NewElementHere)])
  /\ newel' = FALSE
  /\ UNCHANGED <<input, pc, outcome, pos, ts, e, copying, segalloc, memory>>

ElementFails ==
  /\ AtElement /\ newel /\ ElementsFull
  /\ Fail("SYSTEM", "interchange")
  /\ UNCHANGED <<input, cursor, copying, tree, memory>>

StartValue ==
  /\ AtElement /\ ~newel
  /\ ts' = pos /\ e' = FALSE
  /\ pc' = "scan"
  /\ UNCHANGED <<input, outcome, pos, newel, copying, tree, memory>>

\* An escape character and the character behind it never end a value.
Scan ==
  /\ pc = "scan" /\ Char(pos) # NUL
  /\ e \/ Escapes(pos) \/ ~Breaks(pos)
  /\ e' = (~e /\ Escapes(pos))
  /\ pos' = pos + 1
  /\ UNCHANGED <<input, pc, outcome, ts, newel, copying, tree, memory>>

AtEndOfValue ==
  /\ pc = "scan"
  /\ Char(pos) = NUL \/ (~e /\ ~Escapes(pos) /\ Breaks(pos))

\* Mutant of ValueSize: the terminating NUL is not counted.
ValueSizeWithoutNul == pos - ts

ValueSize == pos - ts + 1

AllocValue ==
  /\ AtEndOfValue
  /\ value' = Pool!Carved(ValueSize)
  /\ pools' = Pool!PoolsAfter(ValueSize)
  /\ src' = ts /\ text' = <<>> /\ e' = FALSE
  /\ pc' = "copy"
  /\ UNCHANGED <<input, outcome, pos, ts, newel, tree, reserved>>

\* edi__stringpool_alloc uses the -1 of a failed get as an index.
AllocValueFails ==
  /\ AtEndOfValue
  /\ ~Pool!HasRoom(ValueSize)
  /\ pc' = "undefined"
  /\ UNCHANGED <<input, outcome, cursor, copying, tree, memory>>

\* memcpyescape keeps a flag of its own, here in e.
Copied == IF ~e /\ Escapes(src) THEN text ELSE Append(text, Char(src))

Copy ==
  /\ pc = "copy" /\ src < pos
  /\ text' = Copied
  /\ e' = (~e /\ Escapes(src))
  /\ src' = src + 1
  /\ UNCHANGED <<input, pc, outcome, pos, ts, newel, value, tree, memory>>

IsComposite == el.type = "composite" \/ Char(pos) = dialect.sub

TagOf == IF FirstElement /\ el.values = <<>> THEN value ELSE seg.tag

StoredElement ==
  [type   |-> IF IsComposite THEN "composite" ELSE "simple",
   values |-> Append(el.values, [loc |-> value, text |-> text, from |-> ts])]

\* Mutant of StartsElement: only the data separator starts an element.
StartsElementOnData == Char(pos) = dialect.data

StartsElement == Char(pos) \in {dialect.data, dialect.tag}

\* Mutant of AtSeparator: the terminator is passed over like a separator.
AtSeparatorOrTerminator == Char(pos) # NUL

AtSeparator == Char(pos) \notin {NUL, dialect.seg}

Store ==
  /\ pc = "copy" /\ src = pos
  /\ segments' = SetLast(segments,
                   [seg EXCEPT !.tag = TagOf, !.elements = SetLast(@, StoredElement)])
  /\ IF AtSeparator
     THEN pos' = pos + 1 /\ newel' = StartsElement
     ELSE UNCHANGED <<pos, newel>>
  /\ pc' = "element"
  /\ UNCHANGED <<input, outcome, ts, e, copying, segalloc, elalloc, memory>>

\* One of the two reallocs of a composite fails; its type is already set.
StoreFails ==
  /\ pc = "copy" /\ src = pos /\ IsComposite
  /\ segments' = SetLast(segments,
                   [seg EXCEPT !.elements = SetLast(@, [el EXCEPT !.type = "composite"])])
  /\ Fail("SYSTEM", "interchange")
  /\ UNCHANGED <<input, cursor, copying, segalloc, elalloc, memory>>

-----------------------------------------------------------------------------
Next ==
  \/ NoMatch \/ Match
  \/ CreateFails \/ Empty \/ Reserve
  \/ SkipNewline \/ EndOfMessage \/ NewSegment \/ SegmentFails
  \/ EndSegment \/ Unterminated
  \/ NewElement \/ ElementFails \/ StartValue
  \/ Scan \/ AllocValue \/ AllocValueFails
  \/ Copy \/ Store \/ StoreFails

Spec == Init /\ [][Next]_vars

\* The function runs to its return: nothing it waits for.
FairSpec == Spec /\ WF_vars(Next)

-----------------------------------------------------------------------------
(* Properties *)

Chars   == UNION {{m[i] : i \in DOMAIN m} : m \in Messages}
Values  == [loc : Pool!Value, text : Seq(Chars), from : Nat]
Element == [type : {"none", "simple", "composite"}, values : Seq(Values)]
Segment == [offset : Nat, tag : Pool!Value \union {NoValue}, elements : Seq(Element)]

TypeOK ==
  /\ message \in Messages /\ dialect \in Dialects \union {NoDialect}
  /\ pc \in {"detect", "create", "segment", "element", "scan", "copy",
             "returned", "undefined"}
  /\ parser \in {"caller", "temporary"}
  /\ error \in [{"caller", "temporary"} -> {"NONE", "SYSTEM", "UNTERMINATED", "EMPTY"}]
  /\ result \in {"none", "NULL", "interchange"}
  /\ ts \in 1..pos /\ src \in 1..pos /\ pos \in 1..Len(message) + 1
  /\ e \in BOOLEAN /\ newel \in BOOLEAN
  /\ value \in Pool!Value \union {NoValue} /\ text \in Seq(Chars)
  /\ segments \in Seq(Segment) /\ Len(segments) <= segalloc /\ segalloc \in Nat
  /\ elalloc \in Nat
  /\ segments # <<>> => Len(seg.elements) <= elalloc
  /\ pools \in Seq(Pool!Block) /\ reserved \in BOOLEAN

\* The last value runs into the end of the message.
CutShort ==
  /\ Char(pos) = NUL
  /\ pc \in {"copy", "element", "undefined"} \/ error.temporary # "NONE"

\* parse.c:128 says that the values of a message fit a buffer of its size and
\* that one pool is therefore made for all of them.  Once that pool is there
\* no other is made and no allocation of a value can fail, unless the message
\* stops in the middle of a segment: its last value asks for one more byte
\* than the characters that are left, and the room test is strict.
FirstPoolSuffices ==
  reserved => CutShort \/ (Len(pools) = 1 /\ pc # "undefined")

\* The loops end: each turn of one moves through the message, or through the
\* value that is copied.
Terminates == <>(pc \in {"returned", "undefined"})

\* What the parser does to the pools is what StringPool allows: the values of
\* the tree, and the one in flight, are pieces of the pools that never overlap.
UsesPools == Pool!Spec

=============================================================================
