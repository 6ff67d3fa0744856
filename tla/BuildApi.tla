------------------------------ MODULE BuildApi ------------------------------
(***************************************************************************)
(* libedi/build.c:36-216, the functions that make an interchange: segments *)
(* and elements in arrays that realloc may move, values in string pools.   *)
(* The caller always goes through i->segments[s].elements[e], so that only *)
(* pointers kept by the library can be stale: each element keeps one to    *)
(* the segment it was made in.                                             *)
(***************************************************************************)
EXTENDS StringPool, SequencesExt

CONSTANTS
  NoValue,      \* a NULL char *
  MaxSegments, MaxElements,  \* bounds on the tree: of an interchange, of a segment
  MaxValues,    \* bound on the values of an interchange
  MaxMoves      \* bound on how often realloc moves the array of segments

ASSUME BuildApiAssumption ==
  /\ NoValue \notin Value
  /\ {MaxSegments, MaxElements, MaxValues, MaxMoves} \subseteq Nat

VARIABLES
  segments,   \* i->segments, the first nsegments of them
  base        \* the block realloc put them in: one more each time it moves

apiVars == <<vars, segments, base>>

(***************************************************************************)
(* An element: its type ("none" before the first value), the values, and   *)
(* the block that simple.segment points into.  Its index in that block is  *)
(* the segment's own, which never changes.  recent is history:             *)
(* edi_segment_create was not called since.                                *)
(***************************************************************************)
Element == [type : {"none", "simple", "composite"}, values : Seq(Value),
            block : Nat, recent : BOOLEAN]
Segment == [tag : Value \union {NoValue}, elements : Seq(Element)]

\* Mutant of NewElement: made from the segment pointer of before the realloc.
NewElementOld(b, vs) ==
  [type |-> IF vs = <<>> THEN "none" ELSE "simple", values |-> vs,
   block |-> IF base # 0 THEN base ELSE b, recent |-> TRUE]

NewElement(b, vs) ==
  [type |-> IF vs = <<>> THEN "none" ELSE "simple", values |-> vs,
   block |-> b, recent |-> TRUE]

NewSegment == [tag |-> NoValue, elements |-> <<>>]

\* The values in the order of the loops of edi_interchange_destroy.
SegmentWalk(sg) == FlattenSeq([e \in DOMAIN sg.elements |-> sg.elements[e].values])
Walk == FlattenSeq([s \in DOMAIN segments |-> SegmentWalk(segments[s])])

\* A value is carved, as long as the bound on values allows.
Carve(len) == Len(Walk) < MaxValues /\ Alloc(len)

InitApi ==
  /\ Init
  /\ segments = <<>>
  /\ base = 0

\* Something is done that C gives no meaning to.
Breaks ==
  /\ status' = "undefined"
  /\ UNCHANGED <<pools, held, freed, segments, base>>

-----------------------------------------------------------------------------
(* edi_element_create on segment sg of block b: the segment afterwards.  A  *)
(* first value is the tag.                                                  *)

\* Mutant of WithElement: the tag is that of the latest element.
WithElementRetagged(sg, b, vs) ==
  [tag |-> IF vs = <<>> THEN sg.tag ELSE vs[1],
   elements |-> Append(sg.elements, NewElement(b, vs))]

WithElement(sg, b, vs) ==
  [tag |-> IF sg.elements = <<>> /\ vs # <<>> THEN vs[1] ELSE sg.tag,
   elements |-> Append(sg.elements, NewElement(b, vs))]

\* edi_element_create(seg, NULL).  When its realloc fails nothing changes.
ElementCreate(s) ==
  /\ status = "open"
  /\ Len(segments[s].elements) < MaxElements
  /\ segments' = [segments EXCEPT ![s] = WithElement(@, base, <<>>)]
  /\ UNCHANGED <<vars, base>>

\* edi_element_create(seg, value)
ElementCreateWith(s, len) ==
  /\ Len(segments[s].elements) < MaxElements
  /\ Carve(len)
  /\ segments' = [segments EXCEPT ![s] = WithElement(@, base, <<Carved(len)>>)]
  /\ UNCHANGED base

\* The pool of a value cannot be had: edi__stringpool_alloc breaks down.
OutOfMemory(len) ==
  /\ AllocFails(len)
  /\ UNCHANGED <<segments, base>>

-----------------------------------------------------------------------------
(* edi_segment_create *)

\* realloc leaves the array where it is or moves it; the first time it has
\* nothing to leave where it is.
Reallocated ==
  {b \in {base, base + 1} : b # 0 /\ b <= MaxMoves}

\* No element is recent once the array was reallocated.
Aged(sg) ==
  [sg EXCEPT !.elements = [e \in DOMAIN @ |-> [@[e] EXCEPT !.recent = FALSE]]]
AllAged == [s \in DOMAIN segments |-> Aged(segments[s])]

\* Mutant of AppendSegment: nsegments counts the segment before it has its tag.
AppendSegmentTwice(sg) == Append(Append(AllAged, NewSegment), sg)

AppendSegment(sg) == Append(AllAged, sg)

\* edi_segment_create(i, NULL)
SegmentCreate ==
  /\ status = "open"
  /\ Len(segments) < MaxSegments
  /\ \E b \in Reallocated :
       /\ base' = b
       /\ segments' = AppendSegment(NewSegment)
  /\ UNCHANGED vars

\* edi_segment_create(i, tag)
SegmentCreateWith(len) ==
  /\ Len(segments) < MaxSegments
  /\ Carve(len)
  /\ \E b \in Reallocated :
       /\ base' = b
       /\ segments' = AppendSegment(WithElement(NewSegment, b, <<Carved(len)>>))

\* The array was reallocated, then the element for the tag could not be made:
\* nsegments stays, and NULL is returned.
SegmentCreateFails ==
  /\ status = "open"
  /\ base' \in Reallocated
  /\ segments' = AllAged
  /\ UNCHANGED vars

-----------------------------------------------------------------------------
(* edi_element_add *)

Grown(el, v) ==
  [el EXCEPT !.type = IF @ = "none" THEN "simple" ELSE "composite",
             !.values = Append(@, v)]

\* An element that had no value makes a tag if it is the first of its segment.
Added(sg, e, v) ==
  [tag |-> IF e = 1 /\ sg.elements[e].type = "none" THEN v ELSE sg.tag,
   elements |-> [sg.elements EXCEPT ![e] = Grown(@, v)]]

\* Every value is allocated from elp->simple.segment->interchange.
ElementAdd(s, e, len) ==
  /\ segments[s].elements[e].block = base
  /\ Carve(len)
  /\ segments' = [segments EXCEPT ![s] = Added(@, e, Carved(len))]
  /\ UNCHANGED base

\* The array has moved since: the pointer leads to memory that was freed.
ElementAddStale(s, e) ==
  /\ status = "open"
  /\ segments[s].elements[e].block # base
  /\ Breaks

-----------------------------------------------------------------------------
(* edi_interchange_destroy: every value, then the arrays and the pools.  An *)
(* element without a value passes what its memory holds to free().          *)

HasEmptyElement ==
  \E s \in DOMAIN segments : \E e \in DOMAIN segments[s].elements :
    segments[s].elements[e].type = "none"

DestroyGarbage ==
  /\ status = "open"
  /\ HasEmptyElement
  /\ Breaks

DestroyValue ==
  /\ ~HasEmptyElement
  /\ LET left == SelectSeq(Walk, LAMBDA v : v \in held)
     IN  left # <<>> /\ Free(left[1])
  /\ UNCHANGED <<segments, base>>

DestroyRest ==
  /\ ~HasEmptyElement
  /\ Destroy
  /\ segments' = <<>>
  /\ UNCHANGED base

NextApi ==
  \/ SegmentCreate
  \/ SegmentCreateFails
  \/ \E n \in Requests : SegmentCreateWith(n) \/ OutOfMemory(n)
  \/ \E s \in DOMAIN segments :
       \/ ElementCreate(s)
       \/ \E n \in Requests : ElementCreateWith(s, n)
       \/ \E e \in DOMAIN segments[s].elements :
            \/ ElementAddStale(s, e)
            \/ \E n \in Requests : ElementAdd(s, e, n)
  \/ DestroyGarbage
  \/ DestroyValue
  \/ DestroyRest

SpecApi == InitApi /\ [][NextApi]_apiVars

-----------------------------------------------------------------------------
(* Properties *)

ValuesOf(sg) == UNION {ToSet(sg.elements[e].values) : e \in DOMAIN sg.elements}

\* The values of two segments that lie in the same bytes.
Shared(sg, tg) == {v \in ValuesOf(sg) \intersect ValuesOf(tg) : v.len > 0}

\* Every value that was carved from a pool is in the tree, in one segment unless
\* it is empty: what one of the calls allocates it also stores, whichever step of
\* it fails (build.c:114-184).  A segment's tag is its first value.
TreeOwnsValues ==
  status = "open" =>
    /\ held = UNION {ValuesOf(segments[s]) : s \in DOMAIN segments}
    /\ \A s, t \in DOMAIN segments :
         Shared(segments[s], segments[t]) # {} => s = t
    /\ \A s \in DOMAIN segments :
         LET els == segments[s].elements
         IN  segments[s].tag = IF els = <<>> \/ els[1].values = <<>>
                               THEN NoValue ELSE els[1].values[1]

\* edi_element_add follows a pointer into the array that realloc may have moved
\* away (build.c:119, 150 and 171).  A caller is safe who adds values only to
\* elements made since the last edi_segment_create: their pointer is live,
\* whatever calls failed before and wherever the array was at the time.
PointersAreLive ==
  status = "open" =>
    \A s \in DOMAIN segments : \A e \in DOMAIN segments[s].elements :
      segments[s].elements[e].recent => segments[s].elements[e].block = base

\* The tree as libedi.h promises it; it is gone once its destruction begins.
Lens(el) == [k \in DOMAIN el.values |-> el.values[k].len]
Abstract ==
  IF status \in {"closing", "closed"} THEN <<>>
  ELSE [s \in DOMAIN segments |->
         [e \in DOMAIN segments[s].elements |-> Lens(segments[s].elements[e])]]

Tree == INSTANCE EdiTree WITH tree <- Abstract, Lengths <- Requests

\* Each call adds the one part it is named for, or fails and leaves the tree as
\* it was, wherever in its allocations it fails (build.c:58-107).
AllOrNothing == Tree!Spec

=============================================================================
