--------------------------- MODULE BuildApi_proofs ---------------------------
(***************************************************************************)
(* Theorems about BuildApi for every tree, every set of values and every   *)
(* sequence of calls, however often the array of segments moves.           *)
(***************************************************************************)
EXTENDS BuildApi, StringPool_proofs, SequenceTheorems

\* A step of the construction functions is a step of the string pool, or one
\* that breaks off and leaves the pools as they are.
LEMMA ApiStepIsPoolStep ==
  ASSUME [NextApi]_apiVars
  PROVE  \/ [Next]_vars
         \/ status' = "undefined" /\ UNCHANGED <<pools, held, freed>>
<1>1. CASE SegmentCreate \/ SegmentCreateFails
  BY <1>1 DEF SegmentCreate, SegmentCreateFails, vars
<1>2. ASSUME NEW n \in Requests, SegmentCreateWith(n) \/ OutOfMemory(n)
      PROVE  [Next]_vars
  BY <1>2 DEF SegmentCreateWith, Carve, OutOfMemory, Next
<1>3. ASSUME NEW s \in DOMAIN segments, ElementCreate(s)
      PROVE  [Next]_vars
  BY <1>3 DEF ElementCreate, vars
<1>4. ASSUME NEW s \in DOMAIN segments, NEW n \in Requests, ElementCreateWith(s, n)
      PROVE  [Next]_vars
  BY <1>4 DEF ElementCreateWith, Carve, Next
<1>5. ASSUME NEW s \in DOMAIN segments, NEW e \in DOMAIN segments[s].elements,
             NEW n \in Requests, ElementAdd(s, e, n)
      PROVE  [Next]_vars
  BY <1>5 DEF ElementAdd, Carve, Next
<1>6. ASSUME NEW s \in DOMAIN segments, NEW e \in DOMAIN segments[s].elements, ElementAddStale(s, e)
      PROVE  status' = "undefined" /\ UNCHANGED <<pools, held, freed>>
  BY <1>6 DEF ElementAddStale, Breaks
<1>7. CASE DestroyGarbage
  BY <1>7 DEF DestroyGarbage, Breaks
<1>8. CASE DestroyValue
  <2> DEFINE v == SelectSeq(Walk, LAMBDA w : w \in held)[1]
  <2>1. Free(v)
    BY <1>8 DEF DestroyValue
  <2>2. v \in held
    BY <2>1 DEF Free
  <2> QED BY <2>1, <2>2 DEF Next
<1>9. CASE DestroyRest
  BY <1>9 DEF DestroyRest, Next
<1>10. CASE UNCHANGED apiVars
  BY <1>10 DEF apiVars, vars
<1> QED BY <1>1, <1>2, <1>3, <1>4, <1>5, <1>6, <1>7, <1>8, <1>9, <1>10 DEF NextApi

\* Calls keep the pools sound, since they change them by steps of StringPool only.
LEMMA PoolsStaySound ==
  ASSUME IInv, [NextApi]_apiVars
  PROVE  IInv'
<1>1. CASE [Next]_vars
  BY <1>1, InvariantIsInductive
<1>2. CASE status' = "undefined" /\ UNCHANGED <<pools, held, freed>>
  BY <1>2 DEF IInv, TypeOK, ValuesDisjoint, last, Apart
<1> QED BY <1>1, <1>2, ApiStepIsPoolStep

\* What calls carve from the pools never overlaps nor leaves its block, whatever
\* calls are made in what order and wherever they fail (build.c:36-216).
THEOREM CallsKeepValuesApart == SpecApi => []ValuesDisjoint
<1>1. InitApi => IInv
  BY DEF InitApi, Init, IInv, TypeOK, ValuesDisjoint, last, Block
<1>2. IInv /\ [NextApi]_apiVars => IInv'
  BY PoolsStaySound
<1>3. IInv => ValuesDisjoint
  BY DEF IInv
<1> QED BY <1>1, <1>2, <1>3, PTL DEF SpecApi

\* Destroying an interchange frees what is outside the pools only.
LEMMA FreeingStaysSound ==
  ASSUME FInv, [NextApi]_apiVars
  PROVE  FInv'
<1>1. CASE [Next]_vars
  BY <1>1, FreeingIsInductive
<1>2. CASE status' = "undefined" /\ UNCHANGED <<pools, held, freed>>
  BY <1>2 DEF FInv, OnlyEmptyFreed, IInv, TypeOK, ValuesDisjoint, last, Apart
<1> QED BY <1>1, <1>2, ApiStepIsPoolStep

\* Whatever values the calls made, edi_interchange_destroy gives no pointer into
\* a pool to free() but that of an empty value at the end of what its pool holds
\* (build.c:186-216).
THEOREM DestroyFreesOnlyEmpty == SpecApi => []OnlyEmptyFreed
<1>1. InitApi => FInv
  BY DEF InitApi, Init, FInv, IInv, TypeOK, ValuesDisjoint, OnlyEmptyFreed, last, Block
<1>2. FInv /\ [NextApi]_apiVars => FInv'
  BY FreeingStaysSound
<1>3. FInv => OnlyEmptyFreed
  BY DEF FInv
<1> QED BY <1>1, <1>2, <1>3, PTL DEF SpecApi

-----------------------------------------------------------------------------
(* The tree keeps its shape, and an element that was made or kept since the *)
(* array of segments was last reallocated points into that array.           *)

TreeTypeOK ==
  /\ segments \in Seq(Segment)
  /\ base \in Nat

Live ==
  \A s \in DOMAIN segments : \A e \in DOMAIN segments[s].elements :
    segments[s].elements[e].recent => segments[s].elements[e].block = base

LInv == IInv /\ TreeTypeOK /\ Live

\* What the pools answer is a value of the length that was asked for.
LEMMA CarvedIsValue ==
  ASSUME IInv, NEW n \in Requests
  PROVE  Carved(n) \in Value /\ Carved(n).len = n
<1> DEFINE ps == PoolsFor(n)
<1>1. n \in Nat /\ TypeOK /\ \A c \in 1..last : pools[c].sp <= pools[c].size
  BY StringPoolAssumption DEF IInv, ValuesDisjoint
<1>2. ps \in Seq(Block) /\ Len(ps) \in Nat \ {0}
  BY <1>1, PoolsForFits
<1>3. Carved(n) = [pool |-> Len(ps), off |-> ps[Len(ps)].sp, len |-> n]
  BY DEF Carved
<1> HIDE DEF ps
<1>4. ps[Len(ps)] \in Block
  BY <1>2
<1> QED BY <1>1, <1>2, <1>3, <1>4 DEF Value, Block

\* A new element has the shape of elements, and points at the segments where they are.
LEMMA NewElementIsElement ==
  ASSUME NEW b \in Nat, NEW vs \in Seq(Value)
  PROVE  NewElement(b, vs) \in Element /\ NewElement(b, vs).block = b
BY DEF NewElement, Element

\* One more element at the end of a segment, which keeps the others.
LEMMA WithElementFacts ==
  ASSUME NEW sg \in Segment, NEW b \in Nat, NEW vs \in Seq(Value)
  PROVE  /\ WithElement(sg, b, vs) \in Segment
         /\ WithElement(sg, b, vs).elements = Append(sg.elements, NewElement(b, vs))
<1> DEFINE el == NewElement(b, vs)
<1>1. el \in Element
  BY NewElementIsElement
<1> HIDE DEF el
<1>2. sg.elements \in Seq(Element) /\ sg.tag \in Value \union {NoValue}
  BY DEF Segment
<1>3. Append(sg.elements, el) \in Seq(Element)
  BY <1>1, <1>2
<1>4. vs # <<>> => vs[1] \in Value
  OBVIOUS
<1> QED BY <1>2, <1>3, <1>4 DEF WithElement, Segment, el

\* One more value in an element: only its values and its type change.
LEMMA GrownIsElement ==
  ASSUME NEW el \in Element, NEW v \in Value
  PROVE  /\ Grown(el, v) \in Element
         /\ Grown(el, v).block = el.block /\ Grown(el, v).recent = el.recent
         /\ Grown(el, v).values = Append(el.values, v)
<1>1. el.values \in Seq(Value) /\ Append(el.values, v) \in Seq(Value)
  BY DEF Element
<1> QED BY <1>1 DEF Grown, Element

\* One more value in a segment: only the element it is for changes.
LEMMA AddedFacts ==
  ASSUME NEW sg \in Segment, NEW e \in DOMAIN sg.elements, NEW v \in Value
  PROVE  /\ Added(sg, e, v) \in Segment
         /\ Added(sg, e, v).elements = [sg.elements EXCEPT ![e] = Grown(sg.elements[e], v)]
         /\ DOMAIN Added(sg, e, v).elements = DOMAIN sg.elements
<1> DEFINE g == Grown(sg.elements[e], v)
<1>1. sg.elements \in Seq(Element) /\ sg.tag \in Value \union {NoValue}
  BY DEF Segment
<1>2. sg.elements[e] \in Element
  BY <1>1
<1>3. g \in Element
  BY <1>2, GrownIsElement
<1>4. Added(sg, e, v) = [tag |-> IF e = 1 /\ sg.elements[e].type = "none" THEN v ELSE sg.tag,
                         elements |-> [sg.elements EXCEPT ![e] = g]]
  BY DEF Added
<1> HIDE DEF g
<1>5. [sg.elements EXCEPT ![e] = g] \in Seq(Element)
  BY <1>1, <1>3
<1> QED BY <1>1, <1>4, <1>5 DEF Segment, g

\* Reallocation makes every element old and changes nothing else.
LEMMA AllAgedFacts ==
  ASSUME TreeTypeOK
  PROVE  /\ AllAged \in Seq(Segment) /\ Len(AllAged) = Len(segments)
         /\ DOMAIN AllAged = DOMAIN segments
         /\ \A s \in DOMAIN segments :
              /\ AllAged[s].tag = segments[s].tag
              /\ DOMAIN AllAged[s].elements = DOMAIN segments[s].elements
              /\ \A e \in DOMAIN segments[s].elements :
                   /\ ~AllAged[s].elements[e].recent
                   /\ AllAged[s].elements[e].values = segments[s].elements[e].values
                   /\ AllAged[s].elements[e].type = segments[s].elements[e].type
<1>1. ASSUME NEW s \in DOMAIN segments
      PROVE  /\ Aged(segments[s]) \in Segment
             /\ Aged(segments[s]).tag = segments[s].tag
             /\ DOMAIN Aged(segments[s]).elements = DOMAIN segments[s].elements
             /\ \A e \in DOMAIN segments[s].elements :
                   /\ ~Aged(segments[s]).elements[e].recent
                   /\ Aged(segments[s]).elements[e].values = segments[s].elements[e].values
                   /\ Aged(segments[s]).elements[e].type = segments[s].elements[e].type
  <2> DEFINE sg == segments[s]
             els == [e \in DOMAIN sg.elements |-> [sg.elements[e] EXCEPT !.recent = FALSE]]
  <2>1. sg \in Segment
    BY DEF TreeTypeOK
  <2> HIDE DEF sg
  <2>2. sg.elements \in Seq(Element) /\ DOMAIN sg.elements = 1..Len(sg.elements)
    BY <2>1 DEF Segment
  <2>3. \A e \in DOMAIN sg.elements :
          /\ els[e] \in Element /\ ~els[e].recent
          /\ els[e].values = sg.elements[e].values /\ els[e].type = sg.elements[e].type
    <3> TAKE e \in DOMAIN sg.elements
    <3>1. sg.elements[e] \in Element
      BY <2>2
    <3>2. els[e] = [sg.elements[e] EXCEPT !.recent = FALSE]
      OBVIOUS
    <3> HIDE DEF els
    <3> QED BY <3>1, <3>2 DEF Element
  <2>4. Aged(sg) = [sg EXCEPT !.elements = els]
    BY DEF Aged
  <2>5. Len(sg.elements) \in Nat /\ els = [e \in 1..Len(sg.elements) |-> els[e]]
    BY <2>2
  <2> HIDE DEF els
  <2>6. els \in Seq(Element) /\ DOMAIN els = DOMAIN sg.elements
    <3> DEFINE n == Len(sg.elements)
    <3>1. n \in Nat /\ els = [e \in 1..n |-> els[e]] /\ \A e \in 1..n : els[e] \in Element
      BY <2>2, <2>3, <2>5
    <3>2. DOMAIN sg.elements = 1..n
      BY <2>2
    <3> HIDE DEF n
    <3>3. els \in [1..n -> Element] /\ DOMAIN els = 1..n
      BY <3>1
    <3>4. els \in Seq(Element)
      BY <3>1, <3>3
    <3> QED BY <3>2, <3>3, <3>4
  <2>7. Aged(sg) \in Segment /\ Aged(sg).elements = els /\ Aged(sg).tag = sg.tag
    BY <2>1, <2>4, <2>6 DEF Segment
  <2> QED BY <2>2, <2>3, <2>5, <2>7 DEF sg
<1>2. /\ DOMAIN segments = 1..Len(segments) /\ Len(segments) \in Nat
      /\ AllAged = [s \in 1..Len(segments) |-> Aged(segments[s])]
  BY DEF TreeTypeOK, AllAged
<1>3. AllAged \in Seq(Segment) /\ Len(AllAged) = Len(segments)
  BY <1>1, <1>2
<1> QED BY <1>1, <1>2, <1>3

\* The elements of a segment that were made or kept since the array was last
\* reallocated point into block b.
PointsInto(sg, b) ==
  \A e \in DOMAIN sg.elements : sg.elements[e].recent => sg.elements[e].block = b

\* An element that is created points at the segments where they are.
LEMMA WithElementPoints ==
  ASSUME NEW sg \in Segment, NEW b \in Nat, NEW vs \in Seq(Value), PointsInto(sg, b)
  PROVE  PointsInto(WithElement(sg, b, vs), b)
<1> DEFINE el  == NewElement(b, vs)
           els == WithElement(sg, b, vs).elements
<1>1. els = Append(sg.elements, el) /\ sg.elements \in Seq(Element)
  BY WithElementFacts DEF Segment
<1>2. el.block = b
  BY NewElementIsElement
<1> HIDE DEF el, els
<1>3. ASSUME NEW e \in DOMAIN els
      PROVE  (e \in DOMAIN sg.elements /\ els[e] = sg.elements[e]) \/ els[e] = el
  BY <1>1, <1>3
<1> QED BY <1>2, <1>3 DEF PointsInto, els

\* A segment without elements has no pointers to go stale.
LEMMA NewSegmentFacts ==
  NewSegment \in Segment /\ \A b : PointsInto(NewSegment, b)
BY DEF NewSegment, Segment, PointsInto

\* A segment more: the array may move, and the elements created so far grow old.
LEMMA AppendingStaysLive ==
  ASSUME TreeTypeOK, NEW sg \in Segment, base' \in Nat,
         PointsInto(sg, base'), segments' = AppendSegment(sg)
  PROVE  TreeTypeOK' /\ Live'
<1>1. segments' = Append(AllAged, sg)
  BY DEF AppendSegment
<1>2. AllAged \in Seq(Segment) /\ DOMAIN AllAged = DOMAIN segments
  BY AllAgedFacts
<1>3. ASSUME NEW s \in DOMAIN segments'
      PROVE  PointsInto(segments'[s], base')
  <2>1. (s \in DOMAIN AllAged /\ segments'[s] = AllAged[s]) \/ segments'[s] = sg
    BY <1>1, <1>2, <1>3
  <2>2. s \in DOMAIN AllAged => PointsInto(AllAged[s], base')
    BY <1>2, AllAgedFacts DEF PointsInto
  <2> QED BY <2>1, <2>2
<1> QED BY <1>1, <1>2, <1>3 DEF TreeTypeOK, Live, PointsInto

\* A change within a segment: the array stays where it is.
LEMMA ReplacingStaysLive ==
  ASSUME TreeTypeOK, Live, NEW s \in DOMAIN segments, NEW sg \in Segment,
         PointsInto(sg, base), segments' = [segments EXCEPT ![s] = sg], base' = base
  PROVE  TreeTypeOK' /\ Live'
<1>1. segments' \in Seq(Segment)
  BY DEF TreeTypeOK
<1>2. ASSUME NEW t \in DOMAIN segments'
      PROVE  PointsInto(segments'[t], base')
  <2>1. t \in DOMAIN segments /\ (segments'[t] = sg \/ segments'[t] = segments[t])
    BY <1>2 DEF TreeTypeOK
  <2>2. PointsInto(segments[t], base)
    BY <2>1 DEF Live, PointsInto
  <2> QED BY <2>1, <2>2
<1> QED BY <1>1, <1>2 DEF TreeTypeOK, Live, PointsInto

\* No call leaves a recent element with a pointer to where the segments were.
LEMMA StaysLive ==
  ASSUME LInv, [NextApi]_apiVars
  PROVE  LInv'
<1>1. /\ IInv' /\ TreeTypeOK /\ Live
      /\ \A s \in DOMAIN segments : segments[s] \in Segment /\ PointsInto(segments[s], base)
  BY PoolsStaySound DEF LInv, TreeTypeOK, Live, PointsInto
<1>2. \A n \in Requests : <<Carved(n)>> \in Seq(Value) /\ Carved(n) \in Value
  BY CarvedIsValue DEF LInv
<1>3. \A b \in Reallocated : b \in Nat
  BY <1>1 DEF Reallocated, TreeTypeOK
<1>4. CASE SegmentCreate
  <2>1. base' \in Nat /\ segments' = AppendSegment(NewSegment)
    BY <1>4, <1>3 DEF SegmentCreate
  <2> QED BY <1>1, <2>1, NewSegmentFacts, AppendingStaysLive DEF LInv
<1>5. ASSUME NEW n \in Requests, SegmentCreateWith(n)
      PROVE  LInv'
  <2> DEFINE sg == WithElement(NewSegment, base', <<Carved(n)>>)
  <2>1. base' \in Nat /\ segments' = AppendSegment(sg)
    BY <1>5, <1>3 DEF SegmentCreateWith
  <2>2. sg \in Segment /\ PointsInto(sg, base')
    BY <1>2, <2>1, NewSegmentFacts, WithElementFacts, WithElementPoints
  <2> QED BY <1>1, <2>1, <2>2, AppendingStaysLive DEF LInv
<1>6. CASE SegmentCreateFails
  <2>1. base' \in Nat /\ segments' = AllAged
    BY <1>6, <1>3 DEF SegmentCreateFails
  <2> QED BY <1>1, <2>1, AllAgedFacts DEF LInv, TreeTypeOK, Live
<1>7. ASSUME NEW s \in DOMAIN segments, NEW vs \in Seq(Value), base' = base,
             segments' = [segments EXCEPT ![s] = WithElement(@, base, vs)]
      PROVE  LInv'
  <2> DEFINE sg == WithElement(segments[s], base, vs)
  <2>1. sg \in Segment /\ PointsInto(sg, base)
    BY <1>1, WithElementFacts, WithElementPoints DEF TreeTypeOK
  <2>2. segments' = [segments EXCEPT ![s] = sg]
    BY <1>7
  <2> HIDE DEF sg
  <2> QED BY <1>1, <1>7, <2>1, <2>2, ReplacingStaysLive DEF LInv
<1>8. ASSUME NEW s \in DOMAIN segments, ElementCreate(s)
      PROVE  LInv'
  <2>1. <<>> \in Seq(Value)
    OBVIOUS
  <2>2. base' = base /\ segments' = [segments EXCEPT ![s] = WithElement(@, base, <<>>)]
    BY <1>8 DEF ElementCreate
  <2> QED BY <1>7, <2>1, <2>2
<1>9. ASSUME NEW s \in DOMAIN segments, NEW n \in Requests, ElementCreateWith(s, n)
      PROVE  LInv'
  BY <1>7, <1>9, <1>2 DEF ElementCreateWith
<1>10. ASSUME NEW s \in DOMAIN segments, NEW e \in DOMAIN segments[s].elements,
             NEW n \in Requests, ElementAdd(s, e, n)
      PROVE  LInv'
  <2> DEFINE sg == Added(segments[s], e, Carved(n))
  <2>1. /\ segments[s].elements \in Seq(Element) /\ segments[s].elements[e] \in Element
        /\ base' = base /\ segments' = [segments EXCEPT ![s] = sg]
    BY <1>1, <1>10 DEF ElementAdd, Segment
  <2>2. /\ sg \in Segment /\ DOMAIN sg.elements = DOMAIN segments[s].elements
        /\ sg.elements = [segments[s].elements EXCEPT ![e] = Grown(segments[s].elements[e], Carved(n))]
    BY <1>1, <1>2, AddedFacts
  <2>3. PointsInto(sg, base)
    <3> SUFFICES ASSUME NEW f \in DOMAIN sg.elements
                 PROVE  sg.elements[f].recent => sg.elements[f].block = base
      BY DEF PointsInto
    <3>1. sg.elements[f].recent => segments[s].elements[f].recent
      BY <1>2, <2>1, <2>2, GrownIsElement
    <3>2. sg.elements[f].block = segments[s].elements[f].block
      BY <1>2, <2>1, <2>2, GrownIsElement
    <3> QED BY <1>1, <2>2, <3>1, <3>2 DEF PointsInto
  <2> HIDE DEF sg
  <2> QED BY <1>1, <2>1, <2>2, <2>3, ReplacingStaysLive DEF LInv
<1>11. CASE UNCHANGED <<segments, base>>
  BY <1>1, <1>11 DEF LInv, TreeTypeOK, Live
<1>12. CASE DestroyRest
  BY <1>1, <1>12 DEF DestroyRest, LInv, TreeTypeOK, Live
<1> QED BY <1>4, <1>5, <1>6, <1>8, <1>9, <1>10, <1>11, <1>12
     DEF NextApi, OutOfMemory, ElementAddStale, DestroyGarbage, DestroyValue, Breaks, apiVars

\* However often realloc moves the array of segments and whichever call fails,
\* the segment pointer of an element that was made since the last
\* edi_segment_create is live (build.c:119, 150 and 171).
THEOREM NewElementsPointHome == SpecApi => []PointersAreLive
<1>1. InitApi => LInv
  BY DEF InitApi, Init, LInv, IInv, TypeOK, ValuesDisjoint, last, Block, TreeTypeOK, Live
<1>2. LInv /\ [NextApi]_apiVars => LInv'
  BY StaysLive
<1>3. LInv => PointersAreLive
  BY DEF LInv, Live, PointersAreLive
<1> QED BY <1>1, <1>2, <1>3, PTL DEF SpecApi

-----------------------------------------------------------------------------
(* The refinement: a tree of lengths, which each call extends by one part   *)
(* or leaves alone.                                                         *)

\* Sequences that are written as functions.
LEMMA FunctionIsSeq ==
  ASSUME NEW S, NEW n \in Nat, NEW f \in [1..n -> S]
  PROVE  f \in Seq(S) /\ Len(f) = n
OBVIOUS

\* A sequence is known by its length and its items.
LEMMA IsAppended ==
  ASSUME NEW S, NEW a \in Seq(S), NEW b \in Seq(S), NEW x \in S, NEW n \in Nat,
         Len(a) = n, Len(b) = n + 1, b[n + 1] = x, \A i \in 1..n : b[i] = a[i]
  PROVE  b = Append(a, x)
<1>1. /\ Append(a, x) \in Seq(S) /\ Len(Append(a, x)) = n + 1
      /\ \A i \in 1..n + 1 : b[i] = Append(a, x)[i]
  OBVIOUS
<1> QED BY <1>1, SeqEqual

\* A sequence that differs from another in one place.
LEMMA IsReplaced ==
  ASSUME NEW S, NEW a \in Seq(S), NEW x \in S, NEW b \in Seq(S), NEW j \in 1..Len(a),
         Len(b) = Len(a), b[j] = x, \A i \in 1..Len(a) : i # j => b[i] = a[i]
  PROVE  b = [a EXCEPT ![j] = x]
<1>1. /\ [a EXCEPT ![j] = x] \in Seq(S) /\ Len([a EXCEPT ![j] = x]) = Len(a)
      /\ \A i \in 1..Len(a) : [a EXCEPT ![j] = x][i] = IF i = j THEN x ELSE a[i]
  BY ExceptSeq
<1>2. \A i \in 1..Len(b) : b[i] = [a EXCEPT ![j] = x][i]
  BY <1>1
<1> QED BY <1>1, <1>2, SeqEqual

\* The lengths of the values of an element, of those of a segment, of the tree.
SegLens(sg) == [e \in DOMAIN sg.elements |-> Lens(sg.elements[e])]
TreeLens(ss) == [s \in DOMAIN ss |-> SegLens(ss[s])]

\* The lengths of the values of an element are what EdiTree knows of it.
LEMMA LensFacts ==
  ASSUME NEW el \in Element
  PROVE  /\ Lens(el) \in Seq(Nat) /\ Len(Lens(el)) = Len(el.values)
         /\ \A k \in 1..Len(el.values) : Lens(el)[k] = el.values[k].len
<1>1. /\ el.values \in Seq(Value) /\ Len(el.values) \in Nat
      /\ DOMAIN el.values = 1..Len(el.values)
  BY DEF Element
<1>2. \A k \in 1..Len(el.values) : el.values[k].len \in Nat
  <2>1. \A k \in 1..Len(el.values) : el.values[k] \in Value
    BY <1>1
  <2> QED BY <2>1 DEF Value
<1> DEFINE n == Len(el.values)
<1>3. Lens(el) = [k \in 1..n |-> el.values[k].len]
  BY <1>1 DEF Lens
<1> HIDE DEF n
<1>4. Lens(el) \in [1..n -> Nat]
  BY <1>2, <1>3 DEF n
<1>5. n \in Nat
  BY <1>1 DEF n
<1>6. Lens(el) \in Seq(Nat) /\ Len(Lens(el)) = n
  BY <1>4, <1>5, FunctionIsSeq
<1> QED BY <1>3, <1>6 DEF n

\* The same of a segment.
LEMMA SegLensFacts ==
  ASSUME NEW sg \in Segment
  PROVE  /\ SegLens(sg) \in Seq(Seq(Nat)) /\ Len(SegLens(sg)) = Len(sg.elements)
         /\ Len(sg.elements) \in Nat /\ DOMAIN sg.elements = 1..Len(sg.elements)
         /\ \A e \in 1..Len(sg.elements) :
              sg.elements[e] \in Element /\ SegLens(sg)[e] = Lens(sg.elements[e])
<1> DEFINE n == Len(sg.elements)
<1>1. /\ n \in Nat /\ DOMAIN sg.elements = 1..n
      /\ \A e \in 1..n : sg.elements[e] \in Element
  BY DEF Segment
<1>2. \A e \in 1..n : Lens(sg.elements[e]) \in Seq(Nat)
  BY <1>1, LensFacts
<1> HIDE DEF n
<1>3. SegLens(sg) = [e \in 1..n |-> Lens(sg.elements[e])]
  BY <1>1 DEF SegLens
<1>4. SegLens(sg) \in [1..n -> Seq(Nat)]
  BY <1>2, <1>3
<1>5. SegLens(sg) \in Seq(Seq(Nat)) /\ Len(SegLens(sg)) = n
  BY <1>1, <1>4, FunctionIsSeq
<1> QED BY <1>1, <1>3, <1>5 DEF n

\* The same of all segments.
LEMMA TreeLensFacts ==
  ASSUME NEW ss \in Seq(Segment)
  PROVE  /\ TreeLens(ss) \in Seq(Seq(Seq(Nat))) /\ Len(TreeLens(ss)) = Len(ss)
         /\ Len(ss) \in Nat /\ DOMAIN ss = 1..Len(ss)
         /\ \A s \in 1..Len(ss) :
              ss[s] \in Segment /\ TreeLens(ss)[s] = SegLens(ss[s])
<1> DEFINE n == Len(ss)
<1>1. /\ n \in Nat /\ DOMAIN ss = 1..n
      /\ \A s \in 1..n : ss[s] \in Segment
  OBVIOUS
<1>2. \A s \in 1..n : SegLens(ss[s]) \in Seq(Seq(Nat))
  BY <1>1, SegLensFacts
<1> HIDE DEF n
<1>3. TreeLens(ss) = [s \in 1..n |-> SegLens(ss[s])]
  BY <1>1 DEF TreeLens
<1>4. TreeLens(ss) \in [1..n -> Seq(Seq(Nat))]
  BY <1>2, <1>3
<1>5. TreeLens(ss) \in Seq(Seq(Seq(Nat))) /\ Len(TreeLens(ss)) = n
  BY <1>1, <1>4, FunctionIsSeq
<1> QED BY <1>1, <1>3, <1>5 DEF n

\* What each helper does to the lengths.
LEMMA GrownLens ==
  ASSUME NEW el \in Element, NEW v \in Value
  PROVE  Lens(Grown(el, v)) = Append(Lens(el), v.len)
<1> DEFINE g == Grown(el, v)
<1>1. g \in Element /\ g.values = Append(el.values, v)
  BY GrownIsElement
<1>2. el.values \in Seq(Value) /\ v.len \in Nat
  BY DEF Element, Value
<1>3. /\ Lens(el) \in Seq(Nat) /\ Len(Lens(el)) = Len(el.values)
      /\ \A k \in 1..Len(el.values) : Lens(el)[k] = el.values[k].len
      /\ Lens(g) \in Seq(Nat) /\ Len(Lens(g)) = Len(g.values)
      /\ \A k \in 1..Len(g.values) : Lens(g)[k] = g.values[k].len
  BY <1>1, LensFacts
<1> HIDE DEF g
<1>4. /\ Len(g.values) = Len(el.values) + 1 /\ g.values[Len(el.values) + 1] = v
      /\ Len(el.values) \in Nat
      /\ \A k \in 1..Len(el.values) : g.values[k] = el.values[k]
  BY <1>1, <1>2
<1> DEFINE n == Len(el.values)
<1>5. n \in Nat /\ Len(g.values) = n + 1
  BY <1>4
<1>6. /\ \A k \in 1..n : g.values[k] = el.values[k] /\ Lens(el)[k] = el.values[k].len
      /\ \A k \in 1..n + 1 : Lens(g)[k] = g.values[k].len
      /\ Len(Lens(el)) = n /\ Len(Lens(g)) = n + 1 /\ g.values[n + 1] = v
  BY <1>3, <1>4
<1> HIDE DEF n
<1>7. \A k \in 1..n : k \in 1..n + 1
  BY <1>5
<1>8. \A k \in 1..n : Lens(g)[k] = Lens(el)[k]
  BY <1>6, <1>7
<1>9. Lens(g)[n + 1] = v.len
  BY <1>5, <1>6
<1>10. Lens(g) = Append(Lens(el), v.len)
  BY <1>2, <1>3, <1>5, <1>6, <1>9, <1>8, IsAppended
<1> QED BY <1>10 DEF g

\* What the parts that calls add are in EdiTree.
LEMMA NewElementLens ==
  ASSUME NEW b \in Nat
  PROVE  /\ Lens(NewElement(b, <<>>)) = <<>>
         /\ \A v \in Value : Lens(NewElement(b, <<v>>)) = <<v.len>>
<1>1. Lens(NewElement(b, <<>>)) = <<>>
  <2> DEFINE el == NewElement(b, <<>>)
  <2>1. <<>> \in Seq(Value)
    OBVIOUS
  <2>2. el \in Element /\ el.values = <<>>
    BY <2>1, NewElementIsElement DEF NewElement
  <2> HIDE DEF el
  <2>3. Lens(el) \in Seq(Nat) /\ Len(Lens(el)) = 0
    BY <2>2, LensFacts
  <2>4. Lens(el) = <<>>
    BY <2>3
  <2> QED BY <2>4 DEF el
<1>2. ASSUME NEW v \in Value
      PROVE  Lens(NewElement(b, <<v>>)) = <<v.len>>
  <2> DEFINE el == NewElement(b, <<v>>)
  <2>1. <<v>> \in Seq(Value) /\ v.len \in Nat
    BY DEF Value
  <2>2. el \in Element
    BY <2>1, NewElementIsElement
  <2>3. el.values = <<v>>
    BY DEF NewElement
  <2> HIDE DEF el
  <2>4. Len(el.values) = 1 /\ el.values[1] = v /\ 1 \in 1..Len(el.values)
    BY <2>3
  <2>5. Lens(el) \in Seq(Nat) /\ Len(Lens(el)) = 1 /\ Lens(el)[1] = v.len
    BY <2>2, <2>4, LensFacts
  <2>6. /\ <<v.len>> \in Seq(Nat) /\ Len(<<v.len>>) = 1 /\ <<v.len>>[1] = v.len
        /\ \A i \in 1..1 : i = 1
    BY <2>1
  <2>7. Lens(el) = <<v.len>>
    BY <2>5, <2>6, SeqEqual
  <2> QED BY <2>7 DEF el
<1> QED BY <1>1, <1>2

\* An element created is one more in EdiTree.
LEMMA WithElementLens ==
  ASSUME NEW sg \in Segment, NEW b \in Nat, NEW vs \in Seq(Value)
  PROVE  SegLens(WithElement(sg, b, vs)) = Append(SegLens(sg), Lens(NewElement(b, vs)))
<1> DEFINE t  == WithElement(sg, b, vs)
           el == NewElement(b, vs)
<1>1. t \in Segment /\ t.elements = Append(sg.elements, el) /\ el \in Element
  BY WithElementFacts, NewElementIsElement
<1> HIDE DEF t, el
<1>2. Lens(el) \in Seq(Nat)
  BY <1>1, LensFacts
<1>3. /\ SegLens(sg) \in Seq(Seq(Nat)) /\ Len(SegLens(sg)) = Len(sg.elements)
      /\ Len(sg.elements) \in Nat
      /\ \A e \in 1..Len(sg.elements) : SegLens(sg)[e] = Lens(sg.elements[e])
  BY SegLensFacts
<1>4. /\ SegLens(t) \in Seq(Seq(Nat)) /\ Len(SegLens(t)) = Len(t.elements)
      /\ \A e \in 1..Len(t.elements) : SegLens(t)[e] = Lens(t.elements[e])
  BY <1>1, SegLensFacts
<1>5. /\ Len(t.elements) = Len(sg.elements) + 1 /\ t.elements[Len(sg.elements) + 1] = el
      /\ \A e \in 1..Len(sg.elements) : t.elements[e] = sg.elements[e]
  BY <1>1 DEF Segment
<1> DEFINE n == Len(sg.elements)
<1>6. n \in Nat /\ Len(t.elements) = n + 1
  BY <1>3, <1>5
<1>7. /\ \A e \in 1..n : t.elements[e] = sg.elements[e] /\ SegLens(sg)[e] = Lens(sg.elements[e])
      /\ \A e \in 1..n + 1 : SegLens(t)[e] = Lens(t.elements[e])
      /\ Len(SegLens(sg)) = n /\ Len(SegLens(t)) = n + 1 /\ t.elements[n + 1] = el
  BY <1>3, <1>4, <1>5
<1> HIDE DEF n
<1>8. \A e \in 1..n : e \in 1..n + 1
  BY <1>6
<1>9. /\ \A e \in 1..n : SegLens(t)[e] = SegLens(sg)[e]
      /\ SegLens(t)[n + 1] = Lens(el)
  BY <1>6, <1>7, <1>8
<1>10. SegLens(t) = Append(SegLens(sg), Lens(el))
  BY <1>2, <1>3, <1>4, <1>6, <1>7, <1>9, IsAppended
<1> QED BY <1>10 DEF t, el

\* A value added to an element is one more in EdiTree.
LEMMA AddedLens ==
  ASSUME NEW sg \in Segment, NEW e \in DOMAIN sg.elements, NEW v \in Value
  PROVE  SegLens(Added(sg, e, v)) =
           [SegLens(sg) EXCEPT ![e] = Append(SegLens(sg)[e], v.len)]
<1> DEFINE t == Added(sg, e, v)
           g == Grown(sg.elements[e], v)
<1>1. /\ t \in Segment /\ t.elements = [sg.elements EXCEPT ![e] = g]
      /\ sg.elements \in Seq(Element) /\ e \in 1..Len(sg.elements)
      /\ sg.elements[e] \in Element
  BY AddedFacts DEF Segment
<1>2. Lens(g) = Append(Lens(sg.elements[e]), v.len) /\ Lens(g) \in Seq(Nat)
  BY <1>1, GrownLens, GrownIsElement, LensFacts
<1> HIDE DEF t, g
<1>3. /\ SegLens(sg) \in Seq(Seq(Nat)) /\ Len(SegLens(sg)) = Len(sg.elements)
      /\ \A f \in 1..Len(sg.elements) : SegLens(sg)[f] = Lens(sg.elements[f])
  BY SegLensFacts
<1>4. /\ SegLens(t) \in Seq(Seq(Nat)) /\ Len(SegLens(t)) = Len(t.elements)
      /\ \A f \in 1..Len(t.elements) : SegLens(t)[f] = Lens(t.elements[f])
  BY <1>1, SegLensFacts
<1>5. /\ Len(t.elements) = Len(sg.elements) /\ t.elements[e] = g
      /\ \A f \in 1..Len(sg.elements) : f # e => t.elements[f] = sg.elements[f]
  BY <1>1
<1>6. /\ Len(SegLens(t)) = Len(SegLens(sg)) /\ SegLens(t)[e] = Lens(g)
      /\ \A f \in 1..Len(SegLens(sg)) : f # e => SegLens(t)[f] = SegLens(sg)[f]
  BY <1>1, <1>3, <1>4, <1>5
<1> DEFINE a == SegLens(sg)
           b == SegLens(t)
           x == Lens(g)
<1>7. /\ a \in Seq(Seq(Nat)) /\ b \in Seq(Seq(Nat)) /\ x \in Seq(Nat)
      /\ e \in 1..Len(a) /\ Len(b) = Len(a) /\ b[e] = x
      /\ \A f \in 1..Len(a) : f # e => b[f] = a[f]
  BY <1>1, <1>2, <1>3, <1>4, <1>6
<1> HIDE DEF a, b, x
<1>8. b = [a EXCEPT ![e] = x]
  BY <1>7, IsReplaced
<1>9. x = Append(a[e], v.len)
  BY <1>1, <1>2, <1>3 DEF a, x
<1> QED BY <1>8, <1>9 DEF a, b, t

\* That pointers grow old does not show in EdiTree.
LEMMA AgedLens ==
  ASSUME TreeTypeOK
  PROVE  TreeLens(AllAged) = TreeLens(segments)
<1>1. ASSUME NEW s \in DOMAIN segments
      PROVE  SegLens(AllAged[s]) = SegLens(segments[s])
  <2>1. \A e \in DOMAIN segments[s].elements :
          Lens(AllAged[s].elements[e]) = Lens(segments[s].elements[e])
    BY <1>1, AllAgedFacts DEF Lens
  <2>2. DOMAIN AllAged[s].elements = DOMAIN segments[s].elements
    BY <1>1, AllAgedFacts
  <2> QED BY <2>1, <2>2 DEF SegLens
<1>2. DOMAIN AllAged = DOMAIN segments
  BY AllAgedFacts
<1> QED BY <1>1, <1>2 DEF TreeLens

\* A segment created is one more in EdiTree.
LEMMA AppendedLens ==
  ASSUME TreeTypeOK, NEW sg \in Segment
  PROVE  TreeLens(AppendSegment(sg)) = Append(TreeLens(segments), SegLens(sg))
<1> DEFINE ss == AllAged
           tt == Append(AllAged, sg)
           n  == Len(ss)
<1>1. ss \in Seq(Segment) /\ TreeLens(ss) = TreeLens(segments)
  BY AllAgedFacts, AgedLens
<1> HIDE DEF ss
<1>2. /\ tt \in Seq(Segment) /\ n \in Nat /\ Len(tt) = n + 1 /\ tt[n + 1] = sg
      /\ \A s \in 1..n : tt[s] = ss[s]
  BY <1>1 DEF ss
<1> HIDE DEF tt
<1>3. /\ TreeLens(ss) \in Seq(Seq(Seq(Nat))) /\ Len(TreeLens(ss)) = n
      /\ \A s \in 1..n : TreeLens(ss)[s] = SegLens(ss[s])
      /\ TreeLens(tt) \in Seq(Seq(Seq(Nat))) /\ Len(TreeLens(tt)) = Len(tt)
      /\ \A s \in 1..Len(tt) : TreeLens(tt)[s] = SegLens(tt[s])
  BY <1>1, <1>2, TreeLensFacts
<1> HIDE DEF n
<1>4. \A s \in 1..n : s \in 1..n + 1
  BY <1>2
<1>5. /\ Len(TreeLens(tt)) = n + 1 /\ TreeLens(tt)[n + 1] = SegLens(sg)
      /\ \A s \in 1..n : TreeLens(tt)[s] = TreeLens(ss)[s]
  BY <1>2, <1>3, <1>4
<1>6. SegLens(sg) \in Seq(Seq(Nat))
  BY SegLensFacts
<1>7. TreeLens(tt) = Append(TreeLens(ss), SegLens(sg))
  BY <1>2, <1>3, <1>5, <1>6, IsAppended
<1> QED BY <1>1, <1>7 DEF AppendSegment, tt

\* A segment changed is changed in EdiTree, and no other.
LEMMA ReplacedLens ==
  ASSUME TreeTypeOK, NEW s \in DOMAIN segments, NEW sg \in Segment
  PROVE  TreeLens([segments EXCEPT ![s] = sg]) = [TreeLens(segments) EXCEPT ![s] = SegLens(sg)]
<1> DEFINE tt == [segments EXCEPT ![s] = sg]
           a  == TreeLens(segments)
           b  == TreeLens(tt)
           x  == SegLens(sg)
<1>1. /\ segments \in Seq(Segment) /\ tt \in Seq(Segment) /\ Len(tt) = Len(segments)
      /\ s \in 1..Len(segments) /\ tt[s] = sg
      /\ \A t \in 1..Len(segments) : t # s => tt[t] = segments[t]
  BY DEF TreeTypeOK
<1> HIDE DEF tt
<1>2. /\ a \in Seq(Seq(Seq(Nat))) /\ Len(a) = Len(segments)
      /\ \A t \in 1..Len(segments) : a[t] = SegLens(segments[t])
      /\ b \in Seq(Seq(Seq(Nat))) /\ Len(b) = Len(segments)
      /\ \A t \in 1..Len(segments) : b[t] = SegLens(tt[t])
      /\ x \in Seq(Seq(Nat))
  BY <1>1, TreeLensFacts, SegLensFacts
<1>3. b[s] = x /\ \A t \in 1..Len(a) : t # s => b[t] = a[t]
  BY <1>1, <1>2
<1>4. /\ s \in 1..Len(a) /\ Len(b) = Len(a) /\ x \in Seq(Seq(Nat))
      /\ a \in Seq(Seq(Seq(Nat))) /\ b \in Seq(Seq(Seq(Nat)))
  BY <1>1, <1>2
<1> HIDE DEF a, b, x
<1>5. b = [a EXCEPT ![s] = x]
  BY <1>3, <1>4, IsReplaced
<1> QED BY <1>5 DEF a, b, x, tt

\* What EdiTree sees of a state, and of the next one.
LEMMA AbstractLens ==
  /\ Abstract = IF status \in {"closing", "closed"} THEN <<>> ELSE TreeLens(segments)
  /\ Abstract' = IF status' \in {"closing", "closed"} THEN <<>> ELSE TreeLens(segments')
BY DEF Abstract, TreeLens, SegLens

\* One more element in segment s, with what it was created with.
LEMMA ElementIsAdded ==
  ASSUME LInv, NEW s \in DOMAIN segments, NEW vs \in Seq(Value),
         status = "open", status' = "open",
         segments' = [segments EXCEPT ![s] = WithElement(@, base, vs)],
         Lens(NewElement(base, vs)) \in Tree!Contents
  PROVE  Tree!AddElement
<1> DEFINE sg == WithElement(segments[s], base, vs)
           c  == Lens(NewElement(base, vs))
<1>1. TreeTypeOK /\ segments[s] \in Segment /\ base \in Nat
  BY DEF LInv, TreeTypeOK
<1>2. sg \in Segment /\ SegLens(sg) = Append(SegLens(segments[s]), c)
  BY <1>1, WithElementFacts, WithElementLens
<1>3. segments' = [segments EXCEPT ![s] = sg]
  OBVIOUS
<1> HIDE DEF sg, c
<1>4. Abstract = TreeLens(segments) /\ Abstract' = TreeLens(segments')
  BY AbstractLens
<1>5. Abstract' = [Abstract EXCEPT ![s] = SegLens(sg)]
  BY <1>1, <1>2, <1>3, <1>4, ReplacedLens
<1>6. s \in DOMAIN Abstract /\ Abstract[s] = SegLens(segments[s])
  BY <1>4 DEF TreeLens
<1>7. Abstract' = [Abstract EXCEPT ![s] = Append(@, c)]
  BY <1>2, <1>5, <1>6
<1> QED BY <1>6, <1>7 DEF Tree!AddElement, c

\* Every step of a call adds one part to the tree, or none.
LEMMA StepIsTreeStep ==
  ASSUME LInv, [NextApi]_apiVars
  PROVE  [Tree!Next]_Abstract
<1>1. /\ TreeTypeOK /\ base \in Nat
      /\ \A s \in DOMAIN segments : segments[s] \in Segment
  BY DEF LInv, TreeTypeOK
<1>2. /\ Abstract = IF status \in {"closing", "closed"} THEN <<>> ELSE TreeLens(segments)
      /\ Abstract' = IF status' \in {"closing", "closed"} THEN <<>> ELSE TreeLens(segments')
  BY AbstractLens
<1>3. SegLens(NewSegment) = <<>>
  BY DEF SegLens, NewSegment
<1>4. \A n \in Requests : /\ Carved(n) \in Value /\ Carved(n).len = n
                          /\ <<Carved(n)>> \in Seq(Value)
  BY CarvedIsValue DEF LInv
<1>5. CASE SegmentCreate
  <2>1. Abstract' = Append(Abstract, <<>>)
    BY <1>1, <1>5, <1>2, <1>3, NewSegmentFacts, AppendedLens DEF SegmentCreate, vars
  <2> QED BY <2>1 DEF Tree!Next, Tree!AddSegment
<1>6. ASSUME NEW n \in Requests, SegmentCreateWith(n)
      PROVE  Tree!AddSegment
  <2> PICK b \in Reallocated :
        segments' = AppendSegment(WithElement(NewSegment, b, <<Carved(n)>>))
    BY <1>6 DEF SegmentCreateWith
  <2> DEFINE sg == WithElement(NewSegment, b, <<Carved(n)>>)
  <2>1. b \in Nat
    BY <1>1 DEF Reallocated
  <2>2. /\ sg \in Segment
        /\ SegLens(sg) = Append(SegLens(NewSegment), Lens(NewElement(b, <<Carved(n)>>)))
    BY <1>4, <2>1, NewSegmentFacts, WithElementFacts, WithElementLens
  <2>3. Lens(NewElement(b, <<Carved(n)>>)) = <<n>>
    BY <1>4, <2>1, NewElementLens
  <2>4. SegLens(sg) = << <<n>> >>
    BY <1>3, <2>2, <2>3
  <2> HIDE DEF sg
  <2>5. status = "open" /\ status' = "open" /\ segments' = AppendSegment(sg)
    BY <1>6 DEF SegmentCreateWith, Alloc, Carve, sg
  <2>6. Abstract' = Append(Abstract, << <<n>> >>)
    BY <1>1, <1>2, <2>2, <2>4, <2>5, AppendedLens
  <2> QED BY <2>6 DEF Tree!AddSegment
<1>7. CASE SegmentCreateFails
  BY <1>1, <1>7, <1>2, AgedLens DEF SegmentCreateFails, vars
<1>8. ASSUME NEW s \in DOMAIN segments, ElementCreate(s)
      PROVE  Tree!AddElement
  <2>1. /\ status = "open" /\ status' = "open" /\ <<>> \in Seq(Value)
        /\ segments' = [segments EXCEPT ![s] = WithElement(@, base, <<>>)]
    BY <1>8 DEF ElementCreate, vars
  <2>2. Lens(NewElement(base, <<>>)) \in Tree!Contents
    BY <1>1, NewElementLens DEF Tree!Contents
  <2> QED BY <2>1, <2>2, ElementIsAdded
<1>9. ASSUME NEW s \in DOMAIN segments, NEW n \in Requests, ElementCreateWith(s, n)
      PROVE  Tree!AddElement
  <2>1. /\ status = "open" /\ status' = "open"
        /\ segments' = [segments EXCEPT ![s] = WithElement(@, base, <<Carved(n)>>)]
    BY <1>9 DEF ElementCreateWith, Alloc, Carve
  <2>2. Lens(NewElement(base, <<Carved(n)>>)) \in Tree!Contents
    BY <1>1, <1>4, NewElementLens DEF Tree!Contents
  <2> QED BY <1>4, <2>1, <2>2, ElementIsAdded
<1>10. ASSUME NEW s \in DOMAIN segments, NEW e \in DOMAIN segments[s].elements,
             NEW n \in Requests, ElementAdd(s, e, n)
      PROVE  Tree!AddValue
  <2> DEFINE sg == Added(segments[s], e, Carved(n))
  <2>1. /\ status = "open" /\ status' = "open"
        /\ segments' = [segments EXCEPT ![s] = sg]
    BY <1>10 DEF ElementAdd, Alloc, Carve
  <2>2. /\ sg \in Segment
        /\ SegLens(sg) = [SegLens(segments[s]) EXCEPT ![e] = Append(SegLens(segments[s])[e], n)]
    <3> DEFINE v == Carved(n)
    <3>1. segments[s] \in Segment /\ v \in Value /\ v.len = n
      BY <1>1, <1>4
    <3> HIDE DEF v
    <3>2. /\ Added(segments[s], e, v) \in Segment
          /\ SegLens(Added(segments[s], e, v)) =
               [SegLens(segments[s]) EXCEPT ![e] = Append(SegLens(segments[s])[e], v.len)]
      BY <3>1, AddedFacts, AddedLens
    <3> QED BY <3>1, <3>2 DEF v
  <2> HIDE DEF sg
  <2>3. Abstract' = [Abstract EXCEPT ![s] = SegLens(sg)]
    BY <1>1, <1>2, <2>1, <2>2, ReplacedLens
  <2>4. /\ s \in DOMAIN Abstract /\ Abstract[s] = SegLens(segments[s])
        /\ e \in DOMAIN Abstract[s]
    BY <1>2, <2>1 DEF TreeLens, SegLens
  <2>5. Abstract' = [Abstract EXCEPT ![s][e] = Append(@, n)]
    BY <2>2, <2>3, <2>4
  <2> QED BY <2>4, <2>5 DEF Tree!AddValue
<1>11. ASSUME NEW n \in Requests, OutOfMemory(n)
      PROVE  UNCHANGED Abstract
  BY <1>11, <1>2 DEF OutOfMemory, AllocFails
<1>12. ASSUME NEW s \in DOMAIN segments, NEW e \in DOMAIN segments[s].elements,
             ElementAddStale(s, e)
      PROVE  UNCHANGED Abstract
  BY <1>12, <1>2 DEF ElementAddStale, Breaks
<1>13. CASE DestroyGarbage
  BY <1>13, <1>2 DEF DestroyGarbage, Breaks
<1>14. CASE DestroyValue \/ DestroyRest
  <2>1. status' \in {"closing", "closed"}
    BY <1>14 DEF DestroyValue, DestroyRest, Free, Destroy
  <2> QED BY <1>2, <2>1 DEF Tree!Next, Tree!Discard
<1>15. CASE UNCHANGED apiVars
  BY <1>15, <1>2 DEF apiVars, vars
<1> QED BY <1>5, <1>6, <1>7, <1>8, <1>9, <1>10, <1>11, <1>12, <1>13, <1>14, <1>15
        DEF NextApi, Tree!Next

\* Each call adds the one part it is named for or leaves the tree as it was,
\* for every number of segments, elements and values (build.c:58-181).
THEOREM CallsAddOnePart == SpecApi => AllOrNothing
<1>1. InitApi => LInv /\ Tree!Init
  BY DEF InitApi, Init, LInv, IInv, TypeOK, ValuesDisjoint, last, Block, TreeTypeOK, Live,
         Tree!Init, Abstract
<1>2. LInv /\ [NextApi]_apiVars => LInv' /\ [Tree!Next]_Abstract
  BY StaysLive, StepIsTreeStep
<1> QED BY <1>1, <1>2, PTL DEF SpecApi, AllOrNothing, Tree!Spec

-----------------------------------------------------------------------------
(* Ownership: what a call carves from a pool it also stores, in one place.  *)

TagFits(sg) ==
  sg.tag = IF sg.elements = <<>> \/ sg.elements[1].values = <<>>
           THEN NoValue ELSE sg.elements[1].values[1]

\* The type of an element tells whether it has a value.
TypesFit(sg) ==
  \A e \in DOMAIN sg.elements :
    sg.elements[e].type = "none" <=> sg.elements[e].values = <<>>

OwnedBy(values, ss) ==
  /\ values = UNION {ValuesOf(ss[s]) : s \in DOMAIN ss}
  /\ \A s, t \in DOMAIN ss : Shared(ss[s], ss[t]) # {} => s = t
  /\ \A s \in DOMAIN ss : TagFits(ss[s]) /\ TypesFit(ss[s])

Owned == OwnedBy(held, segments)

OInv == FInv /\ LInv /\ (status = "open" => Owned)

\* A value that is carved lies behind all values held; only an empty one can be
\* held already.
LEMMA CarvedIsFresh ==
  ASSUME FInv, NEW n \in Requests
  PROVE  Carved(n) \in held => n = 0
<1> DEFINE ps == PoolsFor(n)
<1>1. n \in Nat /\ TypeOK /\ IInv /\ \A c \in 1..last : pools[c].sp <= pools[c].size
  BY StringPoolAssumption DEF FInv, IInv, ValuesDisjoint
<1>2. /\ ps \in Seq(Block) /\ Len(ps) \in Nat \ {0}
      /\ \A c \in 1..Len(pools) : ps[c] = pools[c]
  BY <1>1, PoolsForFits
<1>3. Carved(n) = [pool |-> Len(ps), off |-> ps[Len(ps)].sp, len |-> n]
  BY DEF Carved
<1> HIDE DEF ps
<1>4. SUFFICES ASSUME Carved(n) \in held, n # 0 PROVE FALSE
  OBVIOUS
<1>5. /\ Len(ps) \in 1..Len(pools) /\ ps[Len(ps)].sp + n <= pools[Len(ps)].sp
      /\ n > 0
  BY <1>1, <1>3, <1>4 DEF FInv, IInv, ValuesDisjoint, last
<1>6. pools[Len(ps)] = ps[Len(ps)] /\ ps[Len(ps)] \in Block
  BY <1>2, <1>5
<1> QED BY <1>1, <1>5, <1>6 DEF Block

\* What is in a sequence with one more element.
LEMMA AppendSet ==
  ASSUME NEW S, NEW a \in Seq(S), NEW x \in S
  PROVE  ToSet(Append(a, x)) = ToSet(a) \union {x}
<1> DEFINE b == Append(a, x)
           n == Len(a)
<1>1. /\ n \in Nat /\ DOMAIN a = 1..n /\ DOMAIN b = 1..n + 1 /\ b[n + 1] = x
      /\ \A i \in 1..n : b[i] = a[i]
  OBVIOUS
<1> HIDE DEF b, n
<1>2. \A i : i \in 1..n + 1 <=> i \in 1..n \/ i = n + 1
  BY <1>1
<1>3. ToSet(b) = ToSet(a) \union {x}
  BY <1>1, <1>2 DEF ToSet
<1> QED BY <1>3 DEF b

\* An element created owns the value it is created with.
LEMMA WithElementOwns ==
  ASSUME NEW sg \in Segment, NEW b \in Nat, NEW vs \in Seq(Value),
         TagFits(sg), TypesFit(sg), Len(vs) <= 1
  PROVE  LET t == WithElement(sg, b, vs)
         IN  ValuesOf(t) = ValuesOf(sg) \union ToSet(vs) /\ TagFits(t) /\ TypesFit(t)
<1> DEFINE t  == WithElement(sg, b, vs)
           el == NewElement(b, vs)
           n  == Len(sg.elements)
<1>1. /\ t.elements = Append(sg.elements, el)
      /\ t.tag = IF sg.elements = <<>> /\ vs # <<>> THEN vs[1] ELSE sg.tag
  BY WithElementFacts DEF WithElement
<1>2. el.values = vs /\ (el.type = "none" <=> el.values = <<>>)
  BY DEF NewElement
<1>3. /\ n \in Nat /\ DOMAIN sg.elements = 1..n /\ (sg.elements = <<>> <=> n = 0)
      /\ sg.elements \in Seq(Element)
  BY DEF Segment
<1> HIDE DEF t, el, n
<1>4. /\ DOMAIN t.elements = 1..n + 1 /\ t.elements[n + 1] = el
      /\ \A e \in 1..n : t.elements[e] = sg.elements[e]
      /\ t.elements # <<>>
  BY <1>1, <1>3 DEF n
<1>5. \A e : e \in 1..n + 1 <=> e \in 1..n \/ e = n + 1
  BY <1>3
<1>6. ValuesOf(t) = ValuesOf(sg) \union ToSet(vs)
  BY <1>2, <1>3, <1>4, <1>5 DEF ValuesOf
<1>7. TypesFit(t)
  BY <1>2, <1>3, <1>4, <1>5 DEF TypesFit
<1>8. TagFits(t)
  <2>1. CASE n = 0
    BY <1>1, <1>2, <1>3, <1>4, <2>1 DEF TagFits
  <2>2. CASE n # 0
    <3>1. t.elements[1] = sg.elements[1] /\ t.tag = sg.tag /\ sg.elements # <<>>
      BY <1>1, <1>3, <1>4, <2>2
    <3> QED BY <1>4, <3>1 DEF TagFits
  <2> QED BY <2>1, <2>2
<1> QED BY <1>6, <1>7, <1>8 DEF t

\* A value added is owned by the segment it went into.
LEMMA AddedOwns ==
  ASSUME NEW sg \in Segment, NEW e \in DOMAIN sg.elements, NEW v \in Value,
         TagFits(sg), TypesFit(sg)
  PROVE  LET t == Added(sg, e, v)
         IN  ValuesOf(t) = ValuesOf(sg) \union {v} /\ TagFits(t) /\ TypesFit(t)
<1> DEFINE t  == Added(sg, e, v)
           el == sg.elements[e]
           g  == Grown(el, v)
<1>1. t.tag = IF e = 1 /\ el.type = "none" THEN v ELSE sg.tag
  BY DEF Added
<1>2. t.elements = [sg.elements EXCEPT ![e] = g] /\ sg.elements \in Seq(Element)
  BY AddedFacts DEF Segment
<1>3. el \in Element /\ el.values \in Seq(Value)
  <2>1. el \in Element
    BY <1>2
  <2> HIDE DEF el
  <2> QED BY <2>1 DEF Element
<1>4. /\ sg.elements \in Seq(Element) /\ el \in Element /\ el.values \in Seq(Value)
      /\ t.elements = [sg.elements EXCEPT ![e] = g]
      /\ t.tag = IF e = 1 /\ el.type = "none" THEN v ELSE sg.tag
  BY <1>1, <1>2, <1>3
<1>5. g.values = Append(el.values, v) /\ g.type # "none"
  BY <1>4, GrownIsElement DEF Grown, Element
<1> HIDE DEF t, g
<1>6. /\ DOMAIN t.elements = DOMAIN sg.elements /\ t.elements[e] = g
      /\ \A f \in DOMAIN sg.elements : f # e => t.elements[f] = sg.elements[f]
      /\ (t.elements = <<>> <=> sg.elements = <<>>) /\ sg.elements # <<>>
  BY <1>4
<1>7. /\ ToSet(g.values) = ToSet(el.values) \union {v} /\ g.values # <<>>
      /\ g.values[1] = IF el.values = <<>> THEN v ELSE el.values[1]
  <2>1. ToSet(g.values) = ToSet(el.values) \union {v}
    BY <1>4, <1>5, AppendSet
  <2> DEFINE old == el.values
  <2>2. old \in Seq(Value) /\ g.values = Append(old, v)
    BY <1>4, <1>5
  <2> HIDE DEF el, old
  <2>3. Append(old, v) # <<>> /\ Append(old, v)[1] = IF old = <<>> THEN v ELSE old[1]
    <3>1. CASE old = <<>>
      BY <3>1
    <3>2. CASE old # <<>>
      BY <2>2, <3>2
    <3> QED BY <3>1, <3>2
  <2>4. g.values # <<>> /\ g.values[1] = IF el.values = <<>> THEN v ELSE el.values[1]
    BY <2>2, <2>3 DEF old
  <2> QED BY <2>1, <2>4
<1>8. ValuesOf(t) = ValuesOf(sg) \union {v}
  BY <1>6, <1>7 DEF ValuesOf
<1>9. TypesFit(t)
  BY <1>5, <1>6, <1>7 DEF TypesFit
<1>10. TagFits(t)
  <2>1. CASE e = 1
    <3>1. el.type = "none" <=> el.values = <<>>
      BY DEF TypesFit
    <3> QED BY <1>4, <1>6, <1>7, <2>1, <3>1 DEF TagFits
  <2>2. CASE e # 1
    <3>1. 1 \in DOMAIN sg.elements
      BY <1>4, <1>6
    <3> QED BY <1>4, <1>6, <2>2, <3>1 DEF TagFits
  <2> QED BY <2>1, <2>2
<1> QED BY <1>8, <1>9, <1>10 DEF t

\* That pointers grow old does not change who owns a value.
LEMMA AgedOwns ==
  ASSUME TreeTypeOK, NEW s \in DOMAIN segments, TagFits(segments[s]), TypesFit(segments[s])
  PROVE  /\ ValuesOf(AllAged[s]) = ValuesOf(segments[s])
         /\ TagFits(AllAged[s]) /\ TypesFit(AllAged[s])
<1> DEFINE a == AllAged[s].elements
           b == segments[s].elements
<1>1. /\ AllAged[s].tag = segments[s].tag /\ DOMAIN a = DOMAIN b
      /\ \A e \in DOMAIN b : a[e].values = b[e].values /\ a[e].type = b[e].type
  BY AllAgedFacts
<1>2. a \in Seq(Element) /\ b \in Seq(Element)
  <2>1. AllAged[s] \in Segment /\ segments[s] \in Segment
    BY AllAgedFacts DEF TreeTypeOK
  <2> QED BY <2>1 DEF Segment
<1> HIDE DEF a, b
<1>3. (a = <<>> <=> b = <<>>) /\ (b # <<>> => 1 \in DOMAIN b)
  BY <1>1, <1>2
<1>4. \A x \in {AllAged[s], segments[s]} :
        ValuesOf(x) = UNION {ToSet(x.elements[e].values) : e \in DOMAIN x.elements}
  BY DEF ValuesOf
<1>5. UNION {ToSet(a[e].values) : e \in DOMAIN a} = UNION {ToSet(b[e].values) : e \in DOMAIN b}
  BY <1>1
<1>6. ValuesOf(AllAged[s]) = ValuesOf(segments[s])
  BY <1>4, <1>5 DEF a, b
<1>7. TagFits(AllAged[s]) /\ TypesFit(AllAged[s])
  BY <1>1, <1>3 DEF TagFits, TypesFit, a, b
<1> QED BY <1>6, <1>7

\* A segment more, with values that were nowhere before.
LEMMA AppendingStaysOwned ==
  ASSUME TreeTypeOK, Owned, NEW sg \in Segment, TagFits(sg), TypesFit(sg),
         \A v \in ValuesOf(sg) \intersect held : v.len = 0, held' = held \union ValuesOf(sg),
         segments' = AppendSegment(sg)
  PROVE  Owned'
<1> DEFINE n == Len(segments)
<1>1. /\ n \in Nat /\ DOMAIN segments = 1..n /\ DOMAIN segments' = 1..n + 1
      /\ segments'[n + 1] = sg /\ \A s \in 1..n : segments'[s] = AllAged[s]
  BY AllAgedFacts DEF AppendSegment, TreeTypeOK
<1>2. \A s \in 1..n : /\ ValuesOf(segments'[s]) = ValuesOf(segments[s])
                      /\ TagFits(segments'[s]) /\ TypesFit(segments'[s])
                      /\ ValuesOf(segments[s]) \subseteq held
  BY <1>1, AgedOwns DEF Owned, OwnedBy, Shared
<1> HIDE DEF n
<1>3. \A s : s \in 1..n + 1 <=> s \in 1..n \/ s = n + 1
  BY <1>1
<1>4. held' = UNION {ValuesOf(segments'[s]) : s \in DOMAIN segments'}
  BY <1>1, <1>2, <1>3 DEF Owned, OwnedBy, Shared
<1>5. \A s, t \in DOMAIN segments' :
        Shared(segments'[s], segments'[t]) # {} => s = t
  <2> SUFFICES ASSUME NEW s \in 1..n + 1, NEW t \in 1..n + 1,
                      Shared(segments'[s], segments'[t]) # {}
               PROVE  s = t
    BY <1>1
  <2>1. CASE s \in 1..n /\ t \in 1..n
    BY <1>1, <1>2, <2>1 DEF Owned, OwnedBy, Shared
  <2>2. CASE s = n + 1 /\ t \in 1..n
    BY <1>1, <1>2, <2>2 DEF Shared
  <2>3. CASE s \in 1..n /\ t = n + 1
    BY <1>1, <1>2, <2>3 DEF Shared
  <2> QED BY <1>3, <2>1, <2>2, <2>3
<1>6. \A s \in DOMAIN segments' : TagFits(segments'[s]) /\ TypesFit(segments'[s])
  BY <1>1, <1>2, <1>3
<1> QED BY <1>4, <1>5, <1>6 DEF Owned, OwnedBy, Shared

\* A change within a segment, by a value that was nowhere before.
LEMMA ReplacingStaysOwned ==
  ASSUME TreeTypeOK, Owned, NEW s \in DOMAIN segments, NEW sg \in Segment,
         TagFits(sg), TypesFit(sg), NEW fresh, \A v \in fresh \intersect held : v.len = 0,
         ValuesOf(sg) = ValuesOf(segments[s]) \union fresh,
         held' = held \union fresh, segments' = [segments EXCEPT ![s] = sg]
  PROVE  Owned'
<1>1. /\ DOMAIN segments' = DOMAIN segments /\ segments'[s] = sg
      /\ \A t \in DOMAIN segments : t # s => segments'[t] = segments[t]
  BY DEF TreeTypeOK
<1>2. \A t \in DOMAIN segments : ValuesOf(segments[t]) \subseteq held
  BY DEF Owned, OwnedBy, Shared
<1>3. held' = UNION {ValuesOf(segments'[t]) : t \in DOMAIN segments'}
  BY <1>1 DEF Owned, OwnedBy, Shared
<1>4. \A t, u \in DOMAIN segments' :
        Shared(segments'[t], segments'[u]) # {} => t = u
  <2> SUFFICES ASSUME NEW t \in DOMAIN segments, NEW u \in DOMAIN segments,
                      Shared(segments'[t], segments'[u]) # {}
               PROVE  t = u
    BY <1>1
  <2>1. CASE t # s /\ u # s
    BY <1>1, <2>1 DEF Owned, OwnedBy, Shared
  <2>2. CASE t = s /\ u # s
    BY <1>1, <1>2, <2>2 DEF Owned, OwnedBy, Shared
  <2>3. CASE t # s /\ u = s
    BY <1>1, <1>2, <2>3 DEF Owned, OwnedBy, Shared
  <2> QED BY <2>1, <2>2, <2>3
<1>5. \A t \in DOMAIN segments' : TagFits(segments'[t]) /\ TypesFit(segments'[t])
  BY <1>1 DEF Owned, OwnedBy, Shared
<1> QED BY <1>3, <1>4, <1>5 DEF Owned, OwnedBy, Shared

\* No call makes a value belong to two places, or to none.
LEMMA StaysOwned ==
  ASSUME OInv, [NextApi]_apiVars
  PROVE  OInv'
<1>1. /\ FInv' /\ LInv' /\ TreeTypeOK /\ base \in Nat /\ (status = "open" => Owned)
      /\ \A s \in DOMAIN segments : segments[s] \in Segment
  BY StaysLive, FreeingStaysSound DEF OInv, LInv, TreeTypeOK
<1>2. \A n \in Requests : /\ Carved(n) \in Value /\ (Carved(n) \in held => Carved(n).len = 0)
                          /\ <<Carved(n)>> \in Seq(Value) /\ Len(<<Carved(n)>>) = 1
                          /\ ToSet(<<Carved(n)>>) = {Carved(n)}
                          /\ \A v \in ToSet(<<Carved(n)>>) \intersect held : v.len = 0
  <2> TAKE n \in Requests
  <2>1. Carved(n) \in Value /\ (Carved(n) \in held => Carved(n).len = 0)
    BY CarvedIsValue, CarvedIsFresh DEF OInv, FInv
  <2>2. ToSet(<<Carved(n)>>) = {Carved(n)}
    BY DEF ToSet
  <2> QED BY <2>1, <2>2
<1>3. ToSet(<<>>) = {} /\ <<>> \in Seq(Value) /\ Len(<<>>) <= 1
  BY DEF ToSet
<1>4. ValuesOf(NewSegment) = {} /\ TagFits(NewSegment) /\ TypesFit(NewSegment)
  BY DEF ValuesOf, TagFits, TypesFit, NewSegment
<1>5. CASE SegmentCreate
  <2>1. segments' = AppendSegment(NewSegment) /\ UNCHANGED <<held, status>>
    BY <1>5 DEF SegmentCreate, vars
  <2>2. status = "open"
    BY <1>5 DEF SegmentCreate
  <2>3. held' = held \union ValuesOf(NewSegment)
        /\ \A v \in ValuesOf(NewSegment) \intersect held : v.len = 0
    BY <1>4, <2>1
  <2>4. Owned'
    BY <1>1, <1>4, <2>1, <2>2, <2>3, NewSegmentFacts, AppendingStaysOwned
  <2> QED BY <1>1, <2>4 DEF OInv
<1>6. ASSUME NEW n \in Requests, SegmentCreateWith(n)
      PROVE  OInv'
  <2> PICK b \in Reallocated :
        segments' = AppendSegment(WithElement(NewSegment, b, <<Carved(n)>>))
    BY <1>6 DEF SegmentCreateWith
  <2> DEFINE sg == WithElement(NewSegment, b, <<Carved(n)>>)
  <2>1. b \in Nat
    BY <1>1 DEF Reallocated
  <2>2. /\ sg \in Segment /\ ValuesOf(sg) = {Carved(n)} /\ TagFits(sg) /\ TypesFit(sg)
    <3> DEFINE vs == <<Carved(n)>>
    <3>1. vs \in Seq(Value) /\ Len(vs) <= 1 /\ ToSet(vs) = {Carved(n)} /\ NewSegment \in Segment
      BY <1>2, NewSegmentFacts
    <3> HIDE DEF vs
    <3>2. LET t == WithElement(NewSegment, b, vs)
          IN  /\ t \in Segment /\ TagFits(t) /\ TypesFit(t)
              /\ ValuesOf(t) = ValuesOf(NewSegment) \union ToSet(vs)
      BY <1>4, <2>1, <3>1, WithElementFacts, WithElementOwns
    <3> QED BY <1>4, <3>1, <3>2 DEF vs
  <2> HIDE DEF sg
  <2>3. status = "open" /\ held' = held \union {Carved(n)} /\ segments' = AppendSegment(sg)
    BY <1>6 DEF SegmentCreateWith, Alloc, Carve, sg
  <2>4. Owned'
    BY <1>1, <1>2, <2>2, <2>3, AppendingStaysOwned
  <2> QED BY <1>1, <2>4 DEF OInv
<1>7. CASE SegmentCreateFails
  <2>1. segments' = AllAged /\ UNCHANGED <<held, status>> /\ status = "open"
    BY <1>7 DEF SegmentCreateFails, vars
  <2>2. /\ DOMAIN segments' = DOMAIN segments
        /\ \A s \in DOMAIN segments :
             /\ ValuesOf(segments'[s]) = ValuesOf(segments[s])
             /\ TagFits(segments'[s]) /\ TypesFit(segments'[s])
    BY <1>1, <2>1, AllAgedFacts, AgedOwns DEF Owned, OwnedBy, Shared
  <2>3. held' = UNION {ValuesOf(segments'[s]) : s \in DOMAIN segments'}
    BY <1>1, <2>1, <2>2 DEF Owned, OwnedBy, Shared
  <2>4. Owned'
    BY <1>1, <2>1, <2>2, <2>3 DEF Owned, OwnedBy, Shared
  <2> QED BY <1>1, <2>4 DEF OInv
<1>8. ASSUME NEW s \in DOMAIN segments, NEW vs \in Seq(Value), Len(vs) <= 1,
             status = "open", held' = held \union ToSet(vs),
             \A v \in ToSet(vs) \intersect held : v.len = 0,
             segments' = [segments EXCEPT ![s] = WithElement(@, base, vs)]
      PROVE  OInv'
  <2> DEFINE sg == WithElement(segments[s], base, vs)
  <2>1. TagFits(segments[s]) /\ TypesFit(segments[s]) /\ segments[s] \in Segment
    BY <1>1, <1>8 DEF Owned, OwnedBy, Shared
  <2>2. /\ sg \in Segment /\ TagFits(sg) /\ TypesFit(sg)
        /\ ValuesOf(sg) = ValuesOf(segments[s]) \union ToSet(vs)
    BY <1>1, <1>8, <2>1, WithElementFacts, WithElementOwns
  <2>3. segments' = [segments EXCEPT ![s] = sg]
    BY <1>8
  <2> HIDE DEF sg
  <2>4. Owned'
    BY <1>1, <1>8, <2>2, <2>3, ReplacingStaysOwned
  <2> QED BY <1>1, <2>4 DEF OInv
<1>9. ASSUME NEW s \in DOMAIN segments, ElementCreate(s)
      PROVE  OInv'
  <2>1. /\ status = "open" /\ held' = held
        /\ segments' = [segments EXCEPT ![s] = WithElement(@, base, <<>>)]
    BY <1>9 DEF ElementCreate, vars
  <2> QED BY <1>8, <1>3, <2>1
<1>10. ASSUME NEW s \in DOMAIN segments, NEW n \in Requests, ElementCreateWith(s, n)
      PROVE  OInv'
  <2>1. /\ status = "open" /\ held' = held \union {Carved(n)}
        /\ segments' = [segments EXCEPT ![s] = WithElement(@, base, <<Carved(n)>>)]
    BY <1>10 DEF ElementCreateWith, Alloc, Carve
  <2> DEFINE vs == <<Carved(n)>>
  <2>2. /\ vs \in Seq(Value) /\ Len(vs) <= 1 /\ ToSet(vs) = {Carved(n)}
      /\ \A v \in ToSet(vs) \intersect held : v.len = 0
    BY <1>2
  <2>3. /\ status = "open" /\ held' = held \union ToSet(vs)
        /\ segments' = [segments EXCEPT ![s] = WithElement(@, base, vs)]
    BY <2>1, <2>2
  <2> HIDE DEF vs
  <2> QED BY <1>8, <2>2, <2>3
<1>11. ASSUME NEW s \in DOMAIN segments, NEW e \in DOMAIN segments[s].elements,
             NEW n \in Requests, ElementAdd(s, e, n)
      PROVE  OInv'
  <2> DEFINE sg == Added(segments[s], e, Carved(n))
  <2>1. /\ status = "open" /\ held' = held \union {Carved(n)}
        /\ segments' = [segments EXCEPT ![s] = sg]
    BY <1>11 DEF ElementAdd, Alloc, Carve
  <2>2. TagFits(segments[s]) /\ TypesFit(segments[s]) /\ segments[s] \in Segment
    BY <1>1, <2>1 DEF Owned, OwnedBy, Shared
  <2>3. /\ sg \in Segment /\ TagFits(sg) /\ TypesFit(sg)
        /\ ValuesOf(sg) = ValuesOf(segments[s]) \union {Carved(n)}
    BY <1>2, <2>2, AddedFacts, AddedOwns
  <2> HIDE DEF sg
  <2>4. \A v \in {Carved(n)} \intersect held : v.len = 0
    BY <1>2
  <2>5. Owned'
    BY <1>1, <2>1, <2>3, <2>4, ReplacingStaysOwned
  <2> QED BY <1>1, <2>5 DEF OInv
<1>12. ASSUME status' # "open"
      PROVE  OInv'
  BY <1>1, <1>12 DEF OInv
<1>13. CASE UNCHANGED apiVars
  BY <1>1, <1>13 DEF apiVars, vars, OInv, Owned, OwnedBy
<1>14. ASSUME NEW n \in Requests, OutOfMemory(n)
       PROVE  OInv'
  BY <1>12, <1>14 DEF OutOfMemory, AllocFails
<1>15. ASSUME NEW s \in DOMAIN segments, NEW e \in DOMAIN segments[s].elements,
              ElementAddStale(s, e)
       PROVE  OInv'
  BY <1>12, <1>15 DEF ElementAddStale, Breaks
<1>16. CASE DestroyGarbage \/ DestroyValue \/ DestroyRest
  BY <1>12, <1>16 DEF DestroyGarbage, DestroyValue, DestroyRest, Breaks, Free, Destroy
<1> QED BY <1>5, <1>6, <1>7, <1>9, <1>10, <1>11, <1>13, <1>14, <1>15, <1>16 DEF NextApi

\* Until its destruction begins an interchange holds every value that was carved
\* for it, each that is not empty in one segment, and its tags are first values,
\* whichever calls failed (build.c:58-184).
THEOREM InterchangeOwnsValues == SpecApi => []TreeOwnsValues
<1>1. InitApi => OInv
  BY DEF InitApi, Init, OInv, FInv, LInv, IInv, TypeOK, ValuesDisjoint, OnlyEmptyFreed,
         last, Block, TreeTypeOK, Live, Owned, OwnedBy
<1>2. OInv /\ [NextApi]_apiVars => OInv'
  BY StaysOwned
<1>3. OInv => TreeOwnsValues
  BY DEF OInv, Owned, OwnedBy, TreeOwnsValues, TagFits
<1> QED BY <1>1, <1>2, <1>3, PTL DEF SpecApi

=============================================================================
