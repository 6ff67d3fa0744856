--------------------------- MODULE EdiParse_proofs ---------------------------
(***************************************************************************)
(* Theorems about edi_parser_parse for every set of messages, every        *)
(* dialect with distinct separators and every block size: its types, its   *)
(* use of the string pool (EdiParse), and the tree it makes of a message   *)
(* (EdiParseFields). Last, what the writer makes of that tree              *)
(* (EdiRoundTrip).                                                         *)
(***************************************************************************)
EXTENDS EdiRoundTrip, WellFoundedInduction, TLAPS

\* Replacing the last item of a sequence.
LEMMA SetLastIsSeq ==
  ASSUME NEW S, NEW s \in Seq(S), s # <<>>, NEW x \in S
  PROVE  /\ SetLast(s, x) \in Seq(S)
         /\ Len(SetLast(s, x)) = Len(s)
         /\ Len(s) \in Nat \ {0}
         /\ LastOf(s) \in S
         /\ LastOf(SetLast(s, x)) = x
         /\ \A i \in 1..Len(s) : SetLast(s, x)[i] = IF i = Len(s) THEN x ELSE s[i]
<1>1. Len(s) \in Nat \ {0} /\ Len(s) \in 1..Len(s)
  OBVIOUS
<1> DEFINE t == [s EXCEPT ![Len(s)] = x]
<1>2. /\ t \in Seq(S) /\ Len(t) = Len(s)
      /\ \A i \in 1..Len(s) : t[i] = IF i = Len(s) THEN x ELSE s[i]
  BY <1>1
<1> QED BY <1>1, <1>2 DEF SetLast, LastOf

\* Adding one item to a sequence.
LEMMA AppendIsSeq ==
  ASSUME NEW S, NEW s \in Seq(S), NEW x \in S
  PROVE  /\ Append(s, x) \in Seq(S)
         /\ Len(Append(s, x)) = Len(s) + 1
         /\ Append(s, x) # <<>>
         /\ LastOf(Append(s, x)) = x
         /\ \A i \in 1..Len(s) : Append(s, x)[i] = s[i]
BY DEF LastOf

-----------------------------------------------------------------------------
(* What an alloc does to the pools. *)

\* An alloc leaves pools, and its value lies in the last of them.
LEMMA PoolsAfterFacts ==
  ASSUME pools \in Seq(Pool!Block), NEW n \in Nat
  PROVE  /\ Pool!PoolsAfter(n) \in Seq(Pool!Block)
         /\ Pool!Carved(n) \in Pool!Value
         /\ Pool!PoolsAfter(n) # <<>>
         /\ Len(Pool!PoolsAfter(n)) <= Len(pools) + 1
         /\ Pool!HasRoom(n) =>
              /\ pools # <<>>
              /\ Len(Pool!PoolsAfter(n)) = Len(pools)
              /\ Len(pools) = 1 => /\ Pool!PoolsAfter(n)[1].sp = pools[1].sp + n
                                   /\ Pool!PoolsAfter(n)[1].size = pools[1].size
         /\ pools # <<>> => Pool!PoolsAfter(n)[1].size = pools[1].size
<1> DEFINE ps == Pool!PoolsFor(n)
<1>1. Pool!NewPool(n) \in Pool!Block
  BY EdiParseAssumption DEF Pool!NewPool, Pool!Block
<1>2. /\ ps \in Seq(Pool!Block)
      /\ ps # <<>>
      /\ Len(ps) <= Len(pools) + 1
      /\ Pool!HasRoom(n) => ps = pools /\ pools # <<>>
      /\ pools # <<>> => ps[1] = pools[1]
  <2>1. CASE Pool!HasRoom(n)
    BY <2>1 DEF Pool!PoolsFor, Pool!HasRoom
  <2>2. CASE ~Pool!HasRoom(n)
    <3>1. ps = Append(pools, Pool!NewPool(n))
      BY <2>2 DEF Pool!PoolsFor
    <3> QED BY <1>1, <2>2, <3>1, AppendIsSeq
  <2> QED BY <2>1, <2>2
<1> DEFINE k == Len(ps)
           b == [size |-> ps[k].size, sp |-> ps[k].sp + n]
<1>3. Pool!PoolsAfter(n) = [ps EXCEPT ![k].sp = @ + n]
  BY DEF Pool!PoolsAfter
<1>4. Pool!Carved(n) = [pool |-> k, off |-> ps[k].sp, len |-> n]
  BY DEF Pool!Carved
<1> HIDE DEF ps
<1>5. k \in Nat \ {0} /\ k \in 1..k /\ ps[k] \in Pool!Block
  BY <1>2
<1>6. b \in Pool!Block /\ b = [ps[k] EXCEPT !.sp = @ + n]
  <2>1. ps[k] = [size |-> ps[k].size, sp |-> ps[k].sp]
        /\ ps[k].size \in Nat /\ ps[k].sp \in Nat
    BY <1>5 DEF Pool!Block
  <2>2. b \in Pool!Block
    BY <2>1 DEF Pool!Block
  <2> QED BY <2>1, <2>2
<1>7. Pool!PoolsAfter(n) = SetLast(ps, b)
  BY <1>3, <1>5, <1>6 DEF SetLast
<1>8. b.sp = ps[k].sp + n /\ b.size = ps[k].size
  OBVIOUS
<1> HIDE DEF b
<1> DEFINE qs == SetLast(ps, b)
<1>9. /\ qs \in Seq(Pool!Block)
      /\ Len(qs) = k
      /\ \A i \in 1..k : qs[i] = IF i = k THEN b ELSE ps[i]
  BY <1>2, <1>5, <1>6 DEF SetLast
<1>10. /\ qs # <<>>
       /\ qs[1].size = ps[1].size
       /\ k = 1 => qs[1].sp = ps[1].sp + n
  <2>1. 1 \in 1..k
    BY <1>5
  <2>2. qs[1] = IF k = 1 THEN b ELSE ps[1]
    BY <1>9, <2>1
  <2> QED BY <1>5, <1>8, <1>9, <2>2
<1>11. Pool!Carved(n) \in Pool!Value
  BY <1>4, <1>5 DEF Pool!Value, Pool!Block
<1> HIDE DEF qs
<1>12. Len(qs) <= Len(pools) + 1
  BY <1>2, <1>9
<1>13. ASSUME Pool!HasRoom(n)
       PROVE  /\ pools # <<>>
              /\ Len(qs) = Len(pools)
              /\ Len(pools) = 1 => /\ qs[1].sp = pools[1].sp + n
                                   /\ qs[1].size = pools[1].size
  BY <1>2, <1>9, <1>10, <1>13
<1>14. pools # <<>> => qs[1].size = pools[1].size
  BY <1>2, <1>10
<1>15. Pool!PoolsAfter(n) = qs
  BY <1>7 DEF qs
<1> QED BY <1>9, <1>10, <1>11, <1>12, <1>13, <1>14, <1>15

-----------------------------------------------------------------------------
(* The invariant that types rest on: what each stage of the loops knows. *)

Shape ==
  /\ pc \in {"create", "segment", "element", "scan", "copy", "undefined"}
       => dialect \in Dialects /\ parser = "temporary"
  /\ pc # "returned" => error["temporary"] = "NONE"
  /\ pc \in {"element", "scan", "copy"} => segments # <<>>
  /\ pc \in {"scan", "copy"} \/ (pc = "element" /\ ~newel)
       => segments # <<>> /\ seg.elements # <<>>
  /\ pc = "copy" => value \in Pool!Value
  /\ pc \in {"detect", "create", "segment", "element", "scan"}
       => value \in Locs(segments) \union {NoValue}

Typed == TypeOK /\ Shape

\* A message is a finite sequence of characters other than NUL.
LEMMA MessageFacts ==
  ASSUME Typed
  PROVE  /\ message \in Seq(Chars)
         /\ Len(message) \in Nat
         /\ pos \in Nat \ {0} /\ ts \in Nat \ {0} /\ src \in Nat \ {0}
         /\ \A i \in 1..Len(message) : message[i] # NUL /\ message[i] \in Chars
         /\ \A i \in Nat \ {0} : Char(i) = NUL <=> i > Len(message)
<1>1. message \in Messages
  BY DEF Typed, TypeOK
<1>2. message \in Seq(UNION {{message[i] : i \in DOMAIN message}})
  BY <1>1, EdiParseAssumption
<1>3. /\ Len(message) \in Nat /\ DOMAIN message = 1..Len(message)
      /\ \A i \in 1..Len(message) : message[i] # NUL
  BY <1>1, <1>2, EdiParseAssumption
<1>4. \A i \in 1..Len(message) : message[i] \in Chars
  BY <1>1, <1>3 DEF Chars
<1>5. message \in Seq(Chars)
  BY <1>2, <1>3, <1>4
<1>6. pos \in Nat \ {0} /\ ts \in Nat \ {0} /\ src \in Nat \ {0}
  BY <1>3 DEF Typed, TypeOK
<1> QED BY <1>3, <1>4, <1>5, <1>6 DEF Char

\* The segment and the element the loops are at.
LEMMA CurrentFacts ==
  ASSUME Typed, segments # <<>>
  PROVE  /\ seg \in Segment /\ segments \in Seq(Segment)
         /\ seg.elements \in Seq(Element)
         /\ seg.elements # <<>> => el \in Element
<1>1. segments \in Seq(Segment) /\ seg \in Segment
  <2>1. segments \in Seq(Segment)
    BY DEF Typed, TypeOK
  <2> QED BY <2>1, SetLastIsSeq DEF seg, LastOf
<1>2. seg.elements \in Seq(Element)
  BY <1>1 DEF Segment
<1>3. seg.elements # <<>> => seg.elements[Len(seg.elements)] \in Element
  BY <1>2
<1> QED BY <1>1, <1>2, <1>3 DEF el, LastOf

-----------------------------------------------------------------------------
(* Growing the tree: what becomes of its values. *)

\* Replacing the last segment by one with more values adds those to the tree.
LEMMA LocsOfSetLast ==
  ASSUME NEW segs \in Seq(Segment), segs # <<>>, NEW s \in Segment, NEW X,
         SegmentLocs(s) = SegmentLocs(LastOf(segs)) \union X
  PROVE  Locs(SetLast(segs, s)) = Locs(segs) \union X
<1> DEFINE t == SetLast(segs, s)
           n == Len(segs)
<1>1. /\ n \in Nat \ {0} /\ Len(t) = n /\ n \in 1..n
      /\ \A i \in 1..n : t[i] = IF i = n THEN s ELSE segs[i]
  BY DEF SetLast
<1>2. SegmentLocs(t[n]) = SegmentLocs(segs[n]) \union X
  BY <1>1 DEF LastOf
<1>3. \A i \in 1..n : i # n => SegmentLocs(t[i]) = SegmentLocs(segs[i])
  BY <1>1
<1> HIDE DEF t
<1>4. ASSUME NEW x PROVE x \in Locs(t) <=> x \in Locs(segs) \union X
  <2>1. x \in Locs(t) <=> \E i \in 1..n : x \in SegmentLocs(t[i])
    BY <1>1 DEF Locs
  <2>2. x \in Locs(segs) <=> \E i \in 1..n : x \in SegmentLocs(segs[i])
    BY DEF Locs
  <2> QED BY <1>1, <1>2, <1>3, <2>1, <2>2
<1> QED BY <1>4 DEF t

\* The same for the last element of a segment.
LEMMA SegmentLocsOfSetLast ==
  ASSUME NEW s \in Segment, NEW t \in Segment, s.elements # <<>>,
         NEW x \in Element, t.elements = SetLast(s.elements, x), NEW X,
         ElementLocs(x) = ElementLocs(LastOf(s.elements)) \union X
  PROVE  SegmentLocs(t) = SegmentLocs(s) \union X
<1> DEFINE n == Len(s.elements)
<1>1. /\ s.elements \in Seq(Element) /\ n \in Nat \ {0} /\ n \in 1..n
      /\ Len(t.elements) = n
      /\ \A j \in 1..n : t.elements[j] = IF j = n THEN x ELSE s.elements[j]
  BY DEF SetLast, Segment
<1>2. ElementLocs(t.elements[n]) = ElementLocs(s.elements[n]) \union X
  BY <1>1 DEF LastOf
<1>3. \A j \in 1..n : j # n => ElementLocs(t.elements[j]) = ElementLocs(s.elements[j])
  BY <1>1
<1>4. ASSUME NEW y PROVE y \in SegmentLocs(t) <=> y \in SegmentLocs(s) \union X
  <2>1. y \in SegmentLocs(t) <=> \E j \in 1..n : y \in ElementLocs(t.elements[j])
    BY <1>1 DEF SegmentLocs
  <2>2. y \in SegmentLocs(s) <=> \E j \in 1..n : y \in ElementLocs(s.elements[j])
    BY DEF SegmentLocs
  <2> QED BY <1>1, <1>2, <1>3, <2>1, <2>2
<1> QED BY <1>4

\* A new segment without values adds none to the tree.
LEMMA LocsOfAppend ==
  ASSUME NEW segs \in Seq(Segment), NEW s \in Segment, s.elements = <<>>
  PROVE  Locs(Append(segs, s)) = Locs(segs)
<1>1. SegmentLocs(s) = {}
  BY DEF SegmentLocs
<1>2. /\ Len(Append(segs, s)) = Len(segs) + 1 /\ Len(segs) \in Nat
      /\ Append(segs, s)[Len(segs) + 1] = s
      /\ \A i \in 1..Len(segs) : Append(segs, s)[i] = segs[i]
  OBVIOUS
<1>3. ASSUME NEW y PROVE y \in Locs(Append(segs, s)) <=> y \in Locs(segs)
  BY <1>1, <1>2 DEF Locs
<1> QED BY <1>3

\* The same for a new element of a segment.
LEMMA SegmentLocsOfAppend ==
  ASSUME NEW s \in Segment, NEW t \in Segment, NEW x \in Element,
         t.elements = Append(s.elements, x), x.values = <<>>
  PROVE  SegmentLocs(t) = SegmentLocs(s)
<1>1. ElementLocs(x) = {}
  BY DEF ElementLocs
<1>2. /\ s.elements \in Seq(Element)
      /\ Len(t.elements) = Len(s.elements) + 1 /\ Len(s.elements) \in Nat
      /\ t.elements[Len(s.elements) + 1] = x
      /\ \A i \in 1..Len(s.elements) : t.elements[i] = s.elements[i]
  BY DEF Segment
<1>3. ASSUME NEW y PROVE y \in SegmentLocs(t) <=> y \in SegmentLocs(s)
  BY <1>1, <1>2 DEF SegmentLocs
<1> QED BY <1>3

\* A value that an element gets is added to its values.
LEMMA ElementLocsOfAppend ==
  ASSUME NEW x \in Element, NEW y \in Element, NEW v \in Values,
         y.values = Append(x.values, v)
  PROVE  ElementLocs(y) = ElementLocs(x) \union {v.loc}
<1>1. /\ x.values \in Seq(Values)
      /\ Len(y.values) = Len(x.values) + 1 /\ Len(x.values) \in Nat
      /\ y.values[Len(x.values) + 1] = v
      /\ \A i \in 1..Len(x.values) : y.values[i] = x.values[i]
  BY DEF Element
<1>2. ASSUME NEW z PROVE z \in ElementLocs(y) <=> z \in ElementLocs(x) \union {v.loc}
  BY <1>1 DEF ElementLocs
<1> QED BY <1>2

-----------------------------------------------------------------------------
(* The steps that change the tree. *)

TreeOK ==
  /\ segments \in Seq(Segment) /\ Len(segments) <= segalloc /\ segalloc \in Nat
  /\ elalloc \in Nat
  /\ segments # <<>> => Len(seg.elements) <= elalloc

\* NewSegment keeps the types of the tree and adds no value.
LEMMA NewSegmentFacts ==
  ASSUME Typed, NewSegment
  PROVE  TreeOK' /\ segments' # <<>> /\ Locs(segments') = Locs(segments)
<1> DEFINE s == NewSegmentAt(pos)
<1>1. dialect \in Dialects /\ dialect.skip \in Nat
  BY EdiParseAssumption DEF NewSegment, AtSegment, Typed, Shape
<1>2. s \in Segment /\ s.elements = <<>>
  BY <1>1, MessageFacts DEF NewSegmentAt, Segment
<1>3. segments' = Append(segments, s)
  BY DEF NewSegment
<1> HIDE DEF s
<1>4. segments \in Seq(Segment) /\ Len(segments) <= segalloc /\ segalloc \in Nat
  BY DEF Typed, TypeOK
<1>5. /\ segments' \in Seq(Segment) /\ Len(segments') = Len(segments) + 1
      /\ segments' # <<>> /\ LastOf(segments') = s
  BY <1>2, <1>3, <1>4, AppendIsSeq
<1>6. segalloc' \in Nat /\ Len(segments') <= segalloc' /\ elalloc' = 0
  BY <1>4, <1>5, EdiParseAssumption DEF NewSegment, SegmentsFull
<1>7. Len(LastOf(segments').elements) <= elalloc'
  BY <1>2, <1>5, <1>6
<1> QED BY <1>2, <1>3, <1>4, <1>5, <1>6, <1>7, LocsOfAppend DEF TreeOK, seg

\* NewElement keeps the types of the tree and adds no value.
LEMMA NewElementFacts ==
  ASSUME Typed, NewElement
  PROVE  /\ TreeOK' /\ segments' # <<>> /\ seg'.elements # <<>>
         /\ Locs(segments') = Locs(segments)
<1> DEFINE s == [offset |-> seg.offset, tag |-> seg.tag,
                 elements |-> Append(seg.elements, NewElementHere)]
<1>1. segments # <<>>
  BY DEF NewElement, AtElement, Typed, Shape
<1>2. /\ seg \in Segment /\ segments \in Seq(Segment)
      /\ seg.elements \in Seq(Element)
  BY <1>1, CurrentFacts
<1>3. NewElementHere \in Element /\ NewElementHere.values = <<>>
  BY DEF NewElementHere, Element
<1>4. /\ Append(seg.elements, NewElementHere) \in Seq(Element)
      /\ Len(Append(seg.elements, NewElementHere)) = Len(seg.elements) + 1
      /\ Append(seg.elements, NewElementHere) # <<>>
  BY <1>2, <1>3, AppendIsSeq
<1>5. s \in Segment /\ s.elements = Append(seg.elements, NewElementHere)
  BY <1>2, <1>4 DEF Segment
<1>6. s = [seg EXCEPT !.elements = Append(@, NewElementHere)]
  <2>1. seg = [offset |-> seg.offset, tag |-> seg.tag, elements |-> seg.elements]
    BY <1>2 DEF Segment
  <2> QED BY <2>1
<1>7. segments' = SetLast(segments, s)
  BY <1>6 DEF NewElement
<1>8. SegmentLocs(s) = SegmentLocs(LastOf(segments)) \union {}
  BY <1>2, <1>3, <1>5, SegmentLocsOfAppend DEF seg
<1> HIDE DEF s
<1>9. /\ segments' \in Seq(Segment) /\ Len(segments') = Len(segments)
      /\ segments' # <<>> /\ LastOf(segments') = s
  BY <1>1, <1>2, <1>5, <1>7 DEF SetLast, LastOf
<1>10. Locs(segments') = Locs(segments) \union {}
  BY <1>1, <1>2, <1>5, <1>7, <1>8, LocsOfSetLast
<1>11. /\ Len(segments) <= segalloc /\ segalloc \in Nat /\ elalloc \in Nat
       /\ Len(seg.elements) <= elalloc
  BY <1>1 DEF Typed, TypeOK
<1>12. elalloc' \in Nat /\ Len(seg.elements) + 1 <= elalloc'
  BY <1>2, <1>11, EdiParseAssumption DEF NewElement, ElementsFull
<1>13. segalloc' = segalloc
  BY DEF NewElement
<1> QED BY <1>4, <1>5, <1>9, <1>10, <1>11, <1>12, <1>13 DEF TreeOK, seg

\* Store and StoreFails put another element x in the place of the current one.
LEMMA ReplaceElementFacts ==
  ASSUME Typed, pc = "copy", NEW x \in Element, NEW X,
         ElementLocs(x) = ElementLocs(el) \union X,
         NEW g \in Pool!Value \union {NoValue},
         segments' = SetLast(segments,
                       [seg EXCEPT !.tag = g, !.elements = SetLast(@, x)]),
         UNCHANGED <<segalloc, elalloc>>
  PROVE  /\ TreeOK' /\ segments' # <<>> /\ seg'.elements # <<>>
         /\ Locs(segments') = Locs(segments) \union X
<1> DEFINE s == [offset |-> seg.offset, tag |-> g, elements |-> SetLast(seg.elements, x)]
<1>1. segments # <<>> /\ seg.elements # <<>>
  BY DEF Typed, Shape
<1>2. /\ seg \in Segment /\ segments \in Seq(Segment)
      /\ seg.elements \in Seq(Element) /\ el \in Element
  BY <1>1, CurrentFacts
<1>3. /\ SetLast(seg.elements, x) \in Seq(Element)
      /\ Len(SetLast(seg.elements, x)) = Len(seg.elements)
      /\ SetLast(seg.elements, x) # <<>>
  BY <1>1, <1>2 DEF SetLast
<1>4. s \in Segment /\ s.elements = SetLast(seg.elements, x)
  BY <1>2, <1>3 DEF Segment
<1>5. s = [seg EXCEPT !.tag = g, !.elements = SetLast(@, x)]
  <2> DEFINE r == [offset |-> seg.offset, tag |-> g, elements |-> seg.elements]
  <2>1. seg = [offset |-> seg.offset, tag |-> seg.tag, elements |-> seg.elements]
    BY <1>2 DEF Segment
  <2>2. r = [seg EXCEPT !.tag = g]
    BY <2>1
  <2>3. s = [r EXCEPT !.elements = SetLast(@, x)]
    OBVIOUS
  <2> QED BY <2>2, <2>3
<1>6. SegmentLocs(s) = SegmentLocs(seg) \union X
  BY <1>1, <1>2, <1>4, SegmentLocsOfSetLast DEF el
<1> HIDE DEF s
<1>7. segments' = SetLast(segments, s)
  BY <1>5
<1>8. /\ segments' \in Seq(Segment) /\ Len(segments') = Len(segments)
      /\ segments' # <<>> /\ LastOf(segments') = s
  BY <1>1, <1>2, <1>4, <1>7 DEF SetLast, LastOf
<1>9. Locs(segments') = Locs(segments) \union X
  BY <1>1, <1>2, <1>4, <1>6, <1>7, LocsOfSetLast DEF seg
<1>10. /\ Len(segments) <= segalloc /\ segalloc \in Nat /\ elalloc \in Nat
       /\ Len(seg.elements) <= elalloc
  BY <1>1 DEF Typed, TypeOK
<1> QED BY <1>3, <1>4, <1>8, <1>9, <1>10 DEF TreeOK, seg

\* Store keeps the types of the tree and adds the value that was copied.
LEMMA StoreFacts ==
  ASSUME Typed, Store
  PROVE  /\ TreeOK' /\ segments' # <<>> /\ seg'.elements # <<>>
         /\ value \in Pool!Value
         /\ Locs(segments') = Locs(segments) \union {value}
<1> DEFINE v == [loc |-> value, text |-> text, from |-> ts]
<1>1. /\ segments # <<>> /\ seg.elements # <<>> /\ value \in Pool!Value
      /\ pc = "copy"
  BY DEF Typed, Shape, Store
<1>2. /\ seg \in Segment /\ el \in Element
  BY <1>1, CurrentFacts
<1>3. v \in Values /\ v.loc = value
  <2>1. text \in Seq(Chars)
    BY DEF Typed, TypeOK
  <2> QED BY <1>1, <2>1, MessageFacts DEF Values
<1> HIDE DEF v
<1>4. /\ StoredElement \in Element
      /\ StoredElement.values = Append(el.values, v)
  BY <1>2, <1>3 DEF StoredElement, Element, v
<1>5. ElementLocs(StoredElement) = ElementLocs(el) \union {value}
  BY <1>2, <1>3, <1>4, ElementLocsOfAppend
<1>6. TagOf \in Pool!Value \union {NoValue}
  BY <1>1, <1>2 DEF TagOf, Segment
<1>7. segments' = SetLast(segments,
        [seg EXCEPT !.tag = TagOf, !.elements = SetLast(@, StoredElement)])
      /\ UNCHANGED <<segalloc, elalloc>>
  BY DEF Store
<1> QED BY <1>1, <1>4, <1>5, <1>6, <1>7, ReplaceElementFacts

\* StoreFails keeps the types of the tree and adds no value.
LEMMA StoreFailsFacts ==
  ASSUME Typed, StoreFails
  PROVE  /\ TreeOK' /\ segments' # <<>>
         /\ Locs(segments') = Locs(segments)
<1> DEFINE x == [type |-> "composite", values |-> el.values]
<1>1. segments # <<>> /\ seg.elements # <<>> /\ pc = "copy"
  BY DEF Typed, Shape, StoreFails
<1>2. /\ seg \in Segment /\ el \in Element
  BY <1>1, CurrentFacts
<1>3. x \in Element /\ x = [el EXCEPT !.type = "composite"] /\ x.values = el.values
  BY <1>2 DEF Element
<1>4. ElementLocs(x) = ElementLocs(el) \union {}
  BY <1>3 DEF ElementLocs
<1> HIDE DEF x
<1>5. seg.tag \in Pool!Value \union {NoValue}
  BY <1>2 DEF Segment
<1>6. [seg EXCEPT !.elements = SetLast(@, x)]
        = [seg EXCEPT !.tag = seg.tag, !.elements = SetLast(@, x)]
  BY <1>2 DEF Segment
<1>7. segments' = SetLast(segments,
        [seg EXCEPT !.tag = seg.tag, !.elements = SetLast(@, x)])
      /\ UNCHANGED <<segalloc, elalloc>>
  BY <1>3, <1>6 DEF StoreFails
<1>8. Locs(segments') = Locs(segments) \union {} /\ TreeOK' /\ segments' # <<>>
  BY <1>1, <1>3, <1>4, <1>5, <1>7, ReplaceElementFacts
<1> QED BY <1>8

-----------------------------------------------------------------------------
(* Every step keeps the types and what the stages know. *)

\* The parser starts with the types and in the shape of the first stage.
LEMMA TypedInit == Init => Typed
<1> SUFFICES ASSUME Init PROVE Typed
  OBVIOUS
<1>1. Len(message) \in Nat
  BY EdiParseAssumption DEF Init
<1>2. <<>> \in Seq(Chars) /\ <<>> \in Seq(Segment) /\ <<>> \in Seq(Pool!Block)
  OBVIOUS
<1>3. error["temporary"] = "NONE"
  BY DEF Init
<1>4. error \in [{"caller", "temporary"} -> {"NONE", "SYSTEM", "UNTERMINATED", "EMPTY"}]
  BY DEF Init
<1>5. message \in Messages /\ dialect \in Dialects \union {NoDialect}
  BY DEF Init
<1>6. TypeOK
  <2>1. ts \in 1..pos /\ src \in 1..pos /\ pos \in 1..Len(message) + 1
    BY <1>1 DEF Init
  <2>2. /\ segments = <<>> /\ Len(segments) <= segalloc
        /\ segalloc \in Nat /\ elalloc \in Nat
    BY DEF Init
  <2>3. /\ pc = "detect" /\ parser = "caller" /\ result = "none"
        /\ e \in BOOLEAN /\ newel \in BOOLEAN /\ reserved \in BOOLEAN
        /\ value = NoValue /\ text = <<>> /\ pools = <<>>
    BY DEF Init
  <2> QED BY <1>2, <1>4, <1>5, <2>1, <2>2, <2>3 DEF TypeOK
<1>7. Shape
  BY <1>3 DEF Init, Shape
<1> QED BY <1>6, <1>7 DEF Typed

\* Every step keeps both.
LEMMA TypedStep ==
  ASSUME Typed, [Next]_vars
  PROVE  Typed'
<1>1. CASE NoMatch
  BY <1>1, MessageFacts, EdiParseAssumption DEF NoMatch, Return, Typed, TypeOK,
       Shape, input, cursor, copying, tree, memory, outcome, seg
<1>2. CASE Match
  BY <1>2, MessageFacts, EdiParseAssumption DEF Match, Typed, TypeOK, Shape, input,
       cursor, copying, tree, memory, outcome, seg
<1>3. CASE CreateFails
  BY <1>3, MessageFacts, EdiParseAssumption DEF CreateFails, Fail, Return, Typed,
       TypeOK, Shape, input, cursor, copying, tree, memory, outcome, seg
<1>4. CASE Empty
  BY <1>4, MessageFacts, EdiParseAssumption DEF Empty, Fail, Return, Typed, TypeOK,
       Shape, input, cursor, copying, tree, memory, outcome, seg
<1>5. CASE SkipNewline
  BY <1>5, MessageFacts, EdiParseAssumption DEF SkipNewline, Typed, TypeOK, Shape,
       input, cursor, copying, tree, memory, outcome, seg
<1>6. CASE EndOfMessage
  BY <1>6, MessageFacts, EdiParseAssumption DEF EndOfMessage, Return, Typed, TypeOK,
       Shape, input, cursor, copying, tree, memory, outcome, seg
<1>7. CASE SegmentFails
  BY <1>7, MessageFacts, EdiParseAssumption DEF SegmentFails, AtSegment, Fail,
       Return, Typed, TypeOK, Shape, input, cursor, copying, tree, memory, outcome,
       seg
<1>8. CASE EndSegment
  BY <1>8, MessageFacts, EdiParseAssumption DEF EndSegment, Typed, TypeOK, Shape,
       input, cursor, copying, tree, memory, outcome, seg
<1>9. CASE Unterminated
  BY <1>9, MessageFacts, EdiParseAssumption DEF Unterminated, Fail, Return, Typed,
       TypeOK, Shape, input, cursor, copying, tree, memory, outcome, seg
<1>10. CASE ElementFails
  BY <1>10, MessageFacts, EdiParseAssumption DEF ElementFails, AtElement, Fail,
       Return, Typed, TypeOK, Shape, input, cursor, copying, tree, memory, outcome,
       seg
<1>11. CASE StartValue
  <2>1. pos \in Nat \ {0} /\ pos \in 1..pos
    BY MessageFacts
  <2>2. TypeOK'
    BY <1>11, <2>1 DEF StartValue, AtElement, Typed, TypeOK, input, copying, tree,
         memory, outcome, seg
  <2>3. Shape'
    BY <1>11 DEF StartValue, AtElement, Typed, Shape, input, copying, tree, memory,
         outcome, seg
  <2> QED BY <2>2, <2>3 DEF Typed
<1>12. CASE Scan
  BY <1>12, MessageFacts, EdiParseAssumption DEF Scan, Typed, TypeOK, Shape, input,
       cursor, copying, tree, memory, outcome, seg
<1>13. CASE AllocValueFails
  BY <1>13, MessageFacts, EdiParseAssumption DEF AllocValueFails, AtEndOfValue,
       Typed, TypeOK, Shape, input, cursor, copying, tree, memory, outcome, seg
<1>14. CASE Reserve
  <2>1. Pool!PoolsFor(Reservation) \in Seq(Pool!Block)
    <3>1. Reservation \in Nat /\ pools \in Seq(Pool!Block)
      BY MessageFacts DEF Reservation, Typed, TypeOK
    <3>2. Pool!NewPool(Reservation) \in Pool!Block
      BY <3>1, EdiParseAssumption DEF Pool!NewPool, Pool!Block
    <3> QED BY <3>1, <3>2, AppendIsSeq DEF Pool!PoolsFor
  <2> QED BY <1>14, <2>1, MessageFacts DEF Reserve, Typed, TypeOK, Shape, input,
       cursor, copying, tree, memory, outcome, seg
<1>15. CASE NewSegment
  <2>1. TreeOK' /\ segments' # <<>> /\ Locs(segments') = Locs(segments)
    BY <1>15, NewSegmentFacts
  <2> QED BY <1>15, <2>1, MessageFacts DEF NewSegment, AtSegment, TreeOK, Typed,
       TypeOK, Shape, input, cursor, copying, memory, outcome
<1>16. CASE NewElement
  <2>1. /\ TreeOK' /\ segments' # <<>> /\ seg'.elements # <<>>
        /\ Locs(segments') = Locs(segments)
    BY <1>16, NewElementFacts
  <2> QED BY <1>16, <2>1, MessageFacts DEF NewElement, AtElement, TreeOK, Typed,
       TypeOK, Shape, input, cursor, copying, memory, outcome
<1>17. CASE AllocValue
  <2>1. pos - ts + 1 \in Nat /\ pools \in Seq(Pool!Block)
    BY MessageFacts DEF Typed, TypeOK
  <2>2. pools' \in Seq(Pool!Block) /\ value' \in Pool!Value
    BY <1>17, <2>1, PoolsAfterFacts DEF AllocValue, ValueSize
  <2>3. <<>> \in Seq(Chars)
    OBVIOUS
  <2> QED BY <1>17, <2>2, <2>3, MessageFacts DEF AllocValue, AtEndOfValue, Typed,
       TypeOK, Shape, input, cursor, copying, tree, memory, outcome, seg
<1>18. CASE Copy
  <2>1. src \in 1..Len(message) /\ Char(src) \in Chars
    BY <1>18, MessageFacts DEF Copy, Typed, TypeOK, Char
  <2>2. Copied \in Seq(Chars)
    BY <2>1 DEF Copied, Typed, TypeOK
  <2> QED BY <1>18, <2>1, <2>2, MessageFacts DEF Copy, Typed, TypeOK, Shape, input,
       cursor, copying, tree, memory, outcome, seg
<1>19. CASE Store
  <2>1. /\ TreeOK' /\ segments' # <<>> /\ seg'.elements # <<>>
        /\ value \in Pool!Value
        /\ Locs(segments') = Locs(segments) \union {value}
    BY <1>19, StoreFacts
  <2>2. pos' \in 1..Len(message) + 1 /\ pos' >= pos /\ newel' \in BOOLEAN
    <3>1. CASE Char(pos) \in {NUL, dialect.seg}
      BY <1>19, <3>1, MessageFacts DEF Store, Typed, TypeOK, AtSeparator
    <3>2. CASE Char(pos) \notin {NUL, dialect.seg}
      <4>1. pos \in 1..Len(message)
        BY <3>2, MessageFacts DEF Typed, TypeOK
      <4> QED BY <1>19, <3>2, <4>1, MessageFacts DEF Store, StartsElement, AtSeparator
    <3> QED BY <3>1, <3>2
  <2> QED BY <1>19, <2>1, <2>2, MessageFacts DEF Store, TreeOK, Typed, TypeOK,
       Shape, input, cursor, copying, memory, outcome
<1>20. CASE StoreFails
  <2>1. TreeOK' /\ segments' # <<>> /\ Locs(segments') = Locs(segments)
    BY <1>20, StoreFailsFacts
  <2> QED BY <1>20, <2>1, MessageFacts DEF StoreFails, Fail, Return, TreeOK, Typed,
       TypeOK, Shape, input, cursor, copying, memory, outcome
<1>21. CASE UNCHANGED vars
  BY <1>21 DEF vars, Char, Typed, TypeOK, Shape, input, cursor, copying, tree,
       memory, outcome, seg
<1> QED BY <1>1, <1>2, <1>3, <1>4, <1>5, <1>6, <1>7, <1>8, <1>9, <1>10, <1>11,
     <1>12, <1>13, <1>14, <1>15, <1>16, <1>17, <1>18, <1>19, <1>20, <1>21 DEF Next

-----------------------------------------------------------------------------
(* How full the pools are.  A value takes one byte more than its characters *)
(* and the separator behind it pays for that byte, so that the fill pointer *)
(* of the first pool never passes the position in the message.              *)

PoolFill ==
  reserved =>
    /\ pools # <<>> /\ pools[1].size > Len(message)
    /\ \/ CutShort
       \/ /\ Len(pools) = 1 /\ pc # "undefined"
          /\ pc = "segment" => pools[1].sp < pos
          /\ pc = "element" =>
               pools[1].sp <= pos /\ (Char(pos) # dialect.seg => pools[1].sp < pos)
          /\ pc = "scan" => pools[1].sp < ts
          /\ pc = "copy" => pools[1].sp <= pos

\* In the same way every pool is paid for, whatever allocations failed.
PoolCount ==
  /\ pc \in {"detect", "create"} => pools = <<>>
  /\ pc = "segment" => Len(pools) <= pos
  /\ pc = "element" =>
       /\ Len(pools) <= pos + 1
       /\ Char(pos) \notin {NUL, dialect.seg} => Len(pools) <= pos
  /\ pc = "scan" => Len(pools) <= ts
  /\ pc = "copy" => Len(pools) <= pos + 1

Room == Typed /\ PoolFill /\ PoolCount

\* Nothing is taken from the pools at the start.
LEMMA RoomInit == Init => Room
BY TypedInit DEF Init, Room, PoolFill, PoolCount

\* The point of it: a value that a separator ends has room in the first pool.
LEMMA ValueHasRoom ==
  ASSUME Room, pc = "scan", reserved, Char(pos) # NUL
  PROVE  /\ Len(pools) = 1 /\ pools # <<>> /\ pools[1].size > Len(message)
         /\ pools[1].sp + (pos - ts + 1) <= pos
         /\ Pool!HasRoom(pos - ts + 1)
<1>1. /\ ts <= pos /\ pos \in Nat /\ ts \in Nat /\ Len(message) \in Nat
      /\ pools \in Seq(Pool!Block)
  BY MessageFacts DEF Room, Typed, TypeOK
<1>2. pos <= Len(message)
  BY <1>1, MessageFacts DEF Room
<1>3. ~CutShort
  BY DEF CutShort, Room, Typed, Shape
<1>4. /\ Len(pools) = 1 /\ pools[1].sp < ts /\ pools[1].size > Len(message)
      /\ pools # <<>>
  BY <1>3 DEF Room, PoolFill
<1>5. pools[1] \in Pool!Block
  BY <1>1, <1>4
<1>6. pools[1].sp \in Nat /\ pools[1].size \in Nat
  BY <1>5 DEF Pool!Block
<1>7. pools[1].sp + (pos - ts + 1) <= pos
  BY <1>1, <1>4, <1>6
<1> QED BY <1>1, <1>2, <1>4, <1>6, <1>7 DEF Pool!HasRoom, Pool!last

\* An alloc takes no more of the pool than the message has passed.
LEMMA AllocValueRoom ==
  ASSUME Room, AllocValue
  PROVE  PoolFill' /\ PoolCount'
<1> DEFINE n == pos - ts + 1
<1>1. /\ n \in Nat \ {0} /\ pools \in Seq(Pool!Block) /\ ts <= pos
      /\ pos \in Nat /\ ts \in Nat /\ Len(message) \in Nat
      /\ pc = "scan" /\ pc' = "copy" /\ pos' = pos /\ ts' = ts
      /\ pools' = Pool!PoolsAfter(n) /\ reserved' = reserved
      /\ message' = message /\ dialect' = dialect /\ error' = error
  BY MessageFacts DEF Room, Typed, TypeOK, AllocValue, AtEndOfValue, input, outcome, ValueSize
<1> HIDE DEF n
<1>2. /\ pools' \in Seq(Pool!Block) /\ pools' # <<>>
      /\ Len(pools') <= Len(pools) + 1
      /\ Pool!HasRoom(n) =>
           /\ pools # <<>> /\ Len(pools') = Len(pools)
           /\ Len(pools) = 1 => pools'[1].sp = pools[1].sp + n
      /\ pools # <<>> => pools'[1].size = pools[1].size
  BY <1>1, PoolsAfterFacts
<1>3. PoolCount'
  <2>1. Len(pools) <= ts
    BY <1>1 DEF Room, PoolCount
  <2>2. Len(pools') <= pos + 1
    BY <1>1, <1>2, <2>1
  <2> QED BY <1>1, <2>2 DEF PoolCount
<1>4. Char(pos)' = Char(pos)
  BY <1>1 DEF Char
<1>5. CASE reserved /\ Char(pos) = NUL
  <2>1. CutShort'
    BY <1>1, <1>4, <1>5 DEF CutShort
  <2> QED BY <1>1, <1>2, <1>3, <1>5, <2>1 DEF PoolFill, Room
<1>6. CASE reserved /\ Char(pos) # NUL
  <2>1. /\ Len(pools) = 1 /\ pools # <<>> /\ pools[1].size > Len(message)
        /\ pools[1].sp + n <= pos /\ Pool!HasRoom(n)
    BY <1>1, <1>6, ValueHasRoom DEF n
  <2>2. Len(pools') = 1 /\ pools'[1].sp <= pos /\ pools'[1].size > Len(message)
    BY <1>2, <2>1
  <2> QED BY <1>1, <1>2, <1>3, <2>2 DEF PoolFill
<1>7. CASE ~reserved
  BY <1>1, <1>3, <1>7 DEF PoolFill
<1> QED BY <1>5, <1>6, <1>7

\* The get for the whole message leaves room for all of it.
LEMMA ReserveRoom ==
  ASSUME Room, Reserve
  PROVE  PoolFill' /\ PoolCount'
<1>1. /\ pools = <<>> /\ pos \in Nat \ {0} /\ Len(message) \in Nat
      /\ pc' = "segment" /\ pos' = pos /\ message' = message
      /\ reserved' \in BOOLEAN
      /\ pools' = IF reserved' THEN Pool!PoolsFor(Reservation) ELSE pools
  BY MessageFacts DEF Room, PoolCount, Reserve, cursor, input
<1>2. ~Pool!HasRoom(Reservation)
  BY <1>1 DEF Pool!HasRoom
<1>3. Pool!PoolsFor(Reservation) = <<Pool!NewPool(Reservation)>>
  BY <1>1, <1>2 DEF Pool!PoolsFor
<1>4. /\ Pool!NewPool(Reservation).sp = 0
      /\ Pool!NewPool(Reservation).size > Len(message)
  BY <1>1, EdiParseAssumption DEF Pool!NewPool, Reservation
<1> QED BY <1>1, <1>3, <1>4 DEF PoolFill, PoolCount

\* Every step keeps the room.
LEMMA RoomStep ==
  ASSUME Room, [Next]_vars
  PROVE  Room'
<1> USE DEF Room
<1>0. /\ Typed' /\ pos \in Nat \ {0} /\ ts \in Nat \ {0} /\ ts <= pos
      /\ Len(message) \in Nat /\ pools \in Seq(Pool!Block) /\ Len(pools) \in Nat
      /\ (pools # <<>> => pools[1].sp \in Nat)
  <2>1. pools \in Seq(Pool!Block)
    BY DEF Typed, TypeOK
  <2>2. pools # <<>> => pools[1] \in Pool!Block
    BY <2>1
  <2>3. pools # <<>> => pools[1].sp \in Nat
    BY <2>2 DEF Pool!Block
  <2>4. Typed'
    BY TypedStep
  <2>5. /\ pos \in Nat \ {0} /\ ts \in Nat \ {0} /\ ts <= pos
        /\ Len(message) \in Nat /\ Len(pools) \in Nat
    BY <2>1, MessageFacts DEF Typed, TypeOK
  <2> QED BY <2>1, <2>3, <2>4, <2>5
<1>1. CASE NoMatch
  BY <1>0, <1>1, EdiParseAssumption DEF NoMatch, Return, Typed, TypeOK, Shape,
       PoolFill, PoolCount, CutShort, Char, input, cursor, memory, outcome
<1>2. CASE Match
  BY <1>0, <1>2, EdiParseAssumption DEF Match, Typed, TypeOK, Shape, PoolFill,
       PoolCount, CutShort, Char, input, cursor, memory, outcome
<1>3. CASE CreateFails
  BY <1>0, <1>3, EdiParseAssumption DEF CreateFails, Fail, Return, Typed, TypeOK,
       Shape, PoolFill, PoolCount, CutShort, Char, input, cursor, memory, outcome
<1>4. CASE Empty
  BY <1>0, <1>4, EdiParseAssumption DEF Empty, Fail, Return, Typed, TypeOK, Shape,
       PoolFill, PoolCount, CutShort, Char, input, cursor, memory, outcome
<1>5. CASE SkipNewline
  BY <1>0, <1>5, EdiParseAssumption DEF SkipNewline, Typed, TypeOK, Shape, PoolFill,
       PoolCount, CutShort, Char, input, cursor, memory, outcome
<1>6. CASE EndOfMessage
  BY <1>0, <1>6, EdiParseAssumption DEF EndOfMessage, Return, Typed, TypeOK, Shape,
       PoolFill, PoolCount, CutShort, Char, input, cursor, memory, outcome
<1>7. CASE NewSegment
  <2>1. /\ pc = "segment" /\ pc' = "element" /\ Char(pos) # NUL /\ pos' = pos
        /\ UNCHANGED <<message, dialect, pools, reserved, error>>
    BY <1>7 DEF NewSegment, AtSegment, input, memory, outcome
  <2>2. Char(pos)' = Char(pos)
    BY <2>1 DEF Char
  <2>3. reserved => ~CutShort \/ error.temporary # "NONE"
    BY <2>1 DEF CutShort
  <2>4. PoolFill'
    BY <1>0, <2>1, <2>2, <2>3 DEF PoolFill, CutShort
  <2>5. PoolCount'
    BY <1>0, <2>1, <2>2 DEF PoolCount
  <2> QED BY <1>0, <2>4, <2>5
<1>8. CASE SegmentFails
  BY <1>0, <1>8, EdiParseAssumption DEF SegmentFails, AtSegment, Fail, Return,
       Typed, TypeOK, Shape, PoolFill, PoolCount, CutShort, Char, input, cursor,
       memory, outcome
<1>9. CASE EndSegment
  BY <1>0, <1>9, EdiParseAssumption DEF EndSegment, Typed, TypeOK, Shape, PoolFill,
       PoolCount, CutShort, Char, input, cursor, memory, outcome
<1>10. CASE Unterminated
  BY <1>0, <1>10, EdiParseAssumption DEF Unterminated, Fail, Return, Typed, TypeOK,
       Shape, PoolFill, PoolCount, CutShort, Char, input, cursor, memory, outcome
<1>11. CASE NewElement
  BY <1>0, <1>11, EdiParseAssumption DEF NewElement, AtElement, Typed, TypeOK,
       Shape, PoolFill, PoolCount, CutShort, Char, input, cursor, memory, outcome
<1>12. CASE ElementFails
  BY <1>0, <1>12, EdiParseAssumption DEF ElementFails, AtElement, Fail, Return,
       Typed, TypeOK, Shape, PoolFill, PoolCount, CutShort, Char, input, cursor,
       memory, outcome
<1>13. CASE StartValue
  BY <1>0, <1>13, EdiParseAssumption DEF StartValue, AtElement, Typed, TypeOK,
       Shape, PoolFill, PoolCount, CutShort, Char, input, cursor, memory, outcome
<1>14. CASE Scan
  BY <1>0, <1>14, EdiParseAssumption DEF Scan, Typed, TypeOK, Shape, PoolFill,
       PoolCount, CutShort, Char, input, cursor, memory, outcome
<1>15. CASE AllocValueFails
  <2>1. reserved => Char(pos) = NUL
    BY <1>15, ValueHasRoom DEF AllocValueFails, AtEndOfValue, ValueSize
  <2> QED BY <1>0, <1>15, <2>1 DEF AllocValueFails, Typed, TypeOK, Shape, PoolFill,
       PoolCount, CutShort, Char, input, cursor, memory, outcome
<1>16. CASE Copy
  BY <1>0, <1>16, EdiParseAssumption DEF Copy, Typed, TypeOK, Shape, PoolFill,
       PoolCount, CutShort, Char, input, cursor, memory, outcome
<1>17. CASE Store
  <2>1. /\ pc = "copy" /\ pc' = "element"
        /\ UNCHANGED <<message, dialect, pools, reserved, error>>
    BY <1>17 DEF Store, Char, input, memory, outcome
  <2>2. CASE Char(pos) = NUL
    <3>1. pos' = pos
      BY <1>17, <2>2 DEF Store, AtSeparator
    <3> QED BY <1>0, <2>1, <2>2, <3>1 DEF PoolFill, PoolCount, CutShort, Char
  <2>3. CASE Char(pos) # NUL
    <3>1. reserved => ~CutShort
      BY <2>1, <2>3 DEF CutShort
    <3>2. CASE Char(pos) = dialect.seg
      <4>1. pos' = pos
        BY <1>17, <3>2 DEF Store, AtSeparator
      <4> QED BY <1>0, <2>1, <2>3, <3>1, <3>2, <4>1 DEF PoolFill, PoolCount, Char
    <3>3. CASE Char(pos) # dialect.seg
      <4>1. pos' = pos + 1
        BY <1>17, <2>3, <3>3 DEF Store, AtSeparator
      <4> QED BY <1>0, <2>1, <2>3, <3>1, <4>1 DEF PoolFill, PoolCount
    <3> QED BY <3>2, <3>3
  <2> QED BY <2>2, <2>3
<1>18. CASE StoreFails
  BY <1>0, <1>18, EdiParseAssumption DEF StoreFails, Fail, Return, Typed, TypeOK,
       Shape, PoolFill, PoolCount, CutShort, Char, input, cursor, memory, outcome
<1>19. CASE AllocValue
  BY <1>0, <1>19, AllocValueRoom
<1>20. CASE Reserve
  BY <1>0, <1>20, ReserveRoom
<1>21. CASE UNCHANGED vars
  BY <1>0, <1>21 DEF vars, Typed, TypeOK, Shape, PoolFill, PoolCount, CutShort,
       Char, input, cursor, memory, outcome
<1> QED BY <1>1, <1>2, <1>3, <1>4, <1>5, <1>6, <1>7, <1>8, <1>9, <1>10, <1>11,
     <1>12, <1>13, <1>14, <1>15, <1>16, <1>17, <1>18, <1>19, <1>20, <1>21 DEF Next

-----------------------------------------------------------------------------
(* The parser as a user of the string pool. *)

\* The parser starts where the string pool's specification does.
LEMMA PoolInit == Init => Pool!Init
<1> SUFFICES ASSUME Init PROVE Pool!Init
  OBVIOUS
<1>1. Locs(segments) = {} /\ value = NoValue /\ pools = <<>> /\ pc = "detect"
  BY DEF Init, Locs
<1> QED BY <1>1 DEF Pool!Init, held

\* Every step of the parser is one of the pool's, or none.
LEMMA PoolStep ==
  ASSUME Room, [Next]_vars
  PROVE  [Pool!Next]_(Pool!vars)
<1>1. ASSUME pools' = pools, held' = held, pc' # "undefined" \/ pc' = pc, pc # "undefined"
      PROVE  UNCHANGED Pool!vars
  BY <1>1 DEF Pool!vars
<1>2. ASSUME UNCHANGED <<segments, value>>
      PROVE  held' = held
  BY <1>2 DEF held, Locs
<1>3. ASSUME Locs(segments') = Locs(segments), value' = value
      PROVE  held' = held
  BY <1>3 DEF held
<1>4. CASE Reserve
  <2>1. /\ UNCHANGED held /\ pools = <<>> /\ pc = "create" /\ pc' = "segment"
    BY <1>2, <1>4 DEF Reserve, copying, tree, Room, PoolCount
  <2>2. CASE reserved'
    <3>1. message \in Messages /\ Len(message) \in Nat
      BY MessageFacts DEF Room, Typed, TypeOK
    <3>0. Reservation \in 1..(Len(message) + 1)
      BY <3>1 DEF Reservation
    <3>2. Reservation \in Requests /\ Len(message) + 2 <= MaxPools
      BY <3>0, <3>1, EdiParseAssumption
    <3>3. Pool!last < MaxPools
      BY <2>1, <3>1, <3>2, EdiParseAssumption DEF Pool!last
    <3>4. Pool!Get(Reservation)
      BY <1>4, <2>1, <2>2, <3>3 DEF Reserve, Pool!Get
    <3> QED BY <3>2, <3>4 DEF Pool!Next
  <2>3. CASE ~reserved'
    <3>1. pools' = pools
      BY <1>4, <2>3 DEF Reserve
    <3> QED BY <1>1, <2>1, <3>1
  <2> QED BY <2>2, <2>3
<1>5. CASE AllocValue
  <2> DEFINE n == pos - ts + 1
  <2>1. /\ message \in Messages /\ Len(message) \in Nat /\ pools \in Seq(Pool!Block)
        /\ pos \in 1..Len(message) + 1 /\ ts \in 1..pos
    BY MessageFacts DEF Room, Typed, TypeOK
  <2>2. /\ pc = "scan" /\ pc' = "copy" /\ value' = Pool!Carved(n)
        /\ pools' = Pool!PoolsAfter(n) /\ segments' = segments
    BY <1>5 DEF AllocValue, AtEndOfValue, tree, ValueSize
  <2>3. n \in Nat /\ n \in 1..(Len(message) + 1)
    BY <2>1
  <2>4. n \in Requests /\ Len(message) + 2 <= MaxPools
    BY <2>1, <2>3, EdiParseAssumption
  <2>5. Pool!last < MaxPools
    <3>1. Len(pools) <= ts
      BY <2>2 DEF Room, PoolCount
    <3> QED BY <2>1, <2>4, <3>1, EdiParseAssumption DEF Pool!last
  <2>6. value' # NoValue
    <3>1. value' \in Pool!Value
      BY <2>1, <2>2, <2>3, PoolsAfterFacts
    <3> QED BY <3>1, EdiParseAssumption DEF Pool!Value
  <2>7. held = Locs(segments)
    BY <2>2 DEF held, Room, Typed, Shape
  <2>8. held' = held \union {Pool!Carved(n)}
    BY <2>2, <2>6, <2>7 DEF held
  <2> HIDE DEF n
  <2>9. Pool!Alloc(n)
    BY <2>2, <2>5, <2>8 DEF Pool!Alloc
  <2> QED BY <2>4, <2>9 DEF Pool!Next
<1>6. CASE AllocValueFails
  <2> DEFINE n == pos - ts + 1
  <2>1. n \in Requests
    <3>1. /\ message \in Messages /\ Len(message) \in Nat
          /\ pos \in 1..Len(message) + 1 /\ ts \in 1..pos
      BY MessageFacts DEF Room, Typed, TypeOK
    <3>2. n \in 1..(Len(message) + 1)
      BY <3>1
    <3> QED BY <3>1, <3>2, EdiParseAssumption
  <2>2. /\ pc = "scan" /\ pc' = "undefined" /\ ~Pool!HasRoom(n)
        /\ UNCHANGED <<pools, segments, value>>
    BY <1>6 DEF AllocValueFails, AtEndOfValue, copying, tree, memory, ValueSize
  <2>3. held' = held
    BY <1>2, <2>2
  <2> HIDE DEF n
  <2>4. Pool!AllocFails(n)
    BY <2>2, <2>3 DEF Pool!AllocFails
  <2> QED BY <2>1, <2>4 DEF Pool!Next
<1>7. CASE NewSegment
  <2>1. Locs(segments') = Locs(segments)
    BY <1>7, NewSegmentFacts DEF Room
  <2> QED BY <1>1, <1>3, <1>7, <2>1 DEF NewSegment, AtSegment, copying, memory
<1>8. CASE NewElement
  <2>1. Locs(segments') = Locs(segments)
    BY <1>8, NewElementFacts DEF Room
  <2> QED BY <1>1, <1>3, <1>8, <2>1 DEF NewElement, AtElement, copying, memory
<1>9. CASE Store
  <2>1. /\ Locs(segments') = Locs(segments) \union {value} /\ value \in Pool!Value
    BY <1>9, StoreFacts DEF Room
  <2>2. value # NoValue
    BY <2>1, EdiParseAssumption DEF Pool!Value
  <2>3. held' = held
    BY <1>9, <2>1, <2>2 DEF Store, copying, held
  <2> QED BY <1>1, <1>9, <2>3 DEF Store, memory
<1>10. CASE StoreFails
  <2>1. Locs(segments') = Locs(segments)
    BY <1>10, StoreFailsFacts DEF Room
  <2> QED BY <1>1, <1>3, <1>10, <2>1 DEF StoreFails, Fail, Return, copying, memory
<1>11. CASE NoMatch \/ Match \/ CreateFails \/ Empty
  BY <1>1, <1>2, <1>11 DEF NoMatch, Match, CreateFails, Empty, Fail, Return,
     copying, tree, memory
<1>12. CASE SkipNewline \/ EndOfMessage \/ SegmentFails \/ EndSegment \/ Unterminated
  BY <1>1, <1>2, <1>12 DEF SkipNewline, EndOfMessage, SegmentFails, AtSegment,
     EndSegment, Unterminated, Fail, Return, copying, tree, memory
<1>13. CASE ElementFails \/ StartValue \/ Scan
  BY <1>1, <1>2, <1>13 DEF ElementFails, StartValue, AtElement, Scan, Fail, Return,
     copying, tree, memory
<1>14. CASE Copy
  <2>1. UNCHANGED <<segments, value, pools, pc>> /\ pc = "copy"
    BY <1>14 DEF Copy, tree, memory
  <2> QED BY <1>1, <1>2, <2>1
<1>15. CASE UNCHANGED vars
  <2>1. UNCHANGED <<segments, value, pools, pc>>
    BY <1>15 DEF vars, tree, copying, memory
  <2> QED BY <1>2, <2>1 DEF Pool!vars
<1> QED BY <1>4, <1>5, <1>6, <1>7, <1>8, <1>9, <1>10, <1>11, <1>12, <1>13, <1>14, <1>15
        DEF Next

-----------------------------------------------------------------------------

\* The tree, the cursor and the pools keep their shape for every message and
\* dialect, whichever allocations fail.
THEOREM TypeCorrect == Spec => []TypeOK
<1>1. Init => Typed
  BY TypedInit
<1>2. Typed /\ [Next]_vars => Typed'
  BY TypedStep
<1>3. Typed => TypeOK
  BY DEF Typed
<1> QED BY <1>1, <1>2, <1>3, PTL DEF Spec

\* For a message of any length, the one pool made for it holds all its values,
\* and no allocation of a value can fail, unless the message stops inside a
\* segment.
THEOREM OnePoolSuffices == Spec => []FirstPoolSuffices
<1>1. Init => Room
  BY RoomInit
<1>2. Room /\ [Next]_vars => Room'
  BY RoomStep
<1>3. Room => FirstPoolSuffices
  BY DEF Room, PoolFill, FirstPoolSuffices
<1> QED BY <1>1, <1>2, <1>3, PTL DEF Spec

\* The parser implements the string pool's specification, and with it the
\* guarantee that no two values of the tree share a byte.
THEOREM ParserUsesPools == Spec => UsesPools
<1>1. Init => Room /\ Pool!Init
  BY RoomInit, PoolInit
<1>2. Room /\ [Next]_vars => Room' /\ [Pool!Next]_(Pool!vars)
  BY RoomStep, PoolStep
<1> QED BY <1>1, <1>2, PTL DEF Spec, Pool!Spec, UsesPools

Arena == INSTANCE StringPool_proofs
                  WITH BLOCKSIZE <- STRINGPOOL_BLOCKSIZE, freed <- {},
                       status <- IF pc = "undefined" THEN "undefined" ELSE "open"

\* What StringPool promises of any caller holds of the parser: no byte of a
\* pool belongs to two values of the tree, and none lies outside its block.
THEOREM ValuesStayApart == Spec => []Pool!ValuesDisjoint
<1>1. Arena!StringPoolAssumption
  BY EdiParseAssumption DEF Arena!StringPoolAssumption
<1>2. Init => Room /\ Arena!IInv
  <2>1. Init => pools = <<>> /\ held = {}
    BY PoolInit DEF Pool!Init
  <2> QED BY <2>1, RoomInit DEF Arena!IInv, Arena!TypeOK, Arena!ValuesDisjoint,
       Arena!last
<1>3. Room /\ Arena!IInv /\ [Next]_vars => Room' /\ Arena!IInv'
  <2> SUFFICES ASSUME Room, Arena!IInv, [Next]_vars
               PROVE  Room' /\ Arena!IInv'
    OBVIOUS
  <2>1. [Pool!Next]_(Pool!vars)
    BY PoolStep
  <2>2. [Arena!Next]_(Arena!vars)
    BY <2>1 DEF Pool!Next, Pool!vars, Pool!Get, Pool!Alloc, Pool!AllocFails,
         Pool!Free, Pool!Destroy, Pool!PoolsFor, Pool!PoolsAfter, Pool!Carved,
         Pool!HasRoom, Pool!NewPool, Pool!Contained, Pool!last, Arena!Next,
         Arena!vars, Arena!Get, Arena!Alloc, Arena!AllocFails, Arena!Free,
         Arena!Destroy, Arena!PoolsFor, Arena!PoolsAfter, Arena!Carved,
         Arena!HasRoom, Arena!NewPool, Arena!Contained, Arena!last
  <2> QED BY <1>1, <2>2, RoomStep, Arena!InvariantIsInductive
<1>4. Arena!IInv => Pool!ValuesDisjoint
  BY DEF Arena!IInv, Pool!ValuesDisjoint, Pool!TypeOK, Pool!Apart, Pool!last,
       Pool!Block, Pool!Value, Arena!ValuesDisjoint, Arena!TypeOK, Arena!Apart,
       Arena!last, Arena!Block, Arena!Value
<1> QED BY <1>2, <1>3, <1>4, PTL DEF Spec

-----------------------------------------------------------------------------
(* The tree is the message's.  Escaped and Unescaped are functions that are  *)
(* defined by recursion: that they exist and what one step of them gives is  *)
(* induction, stated of a set because the provers cannot instantiate the     *)
(* library's rule, which is stated of an operator.                           *)

\* Induction over the naturals, for a set of them.
LEMMA SetInduction ==
  ASSUME NEW T, 0 \in T, \A n \in Nat : n \in T => n + 1 \in T
  PROVE  \A n \in Nat : n \in T
<1> DEFINE U == Nat \ T
<1> SUFFICES ASSUME U # {} PROVE FALSE
  OBVIOUS
<1>1. PICK x \in U : \A y \in U : ~(<<y, x>> \in OpToRel(<, Nat))
  <2>1. U \subseteq Nat
    OBVIOUS
  <2> QED BY <2>1, NatLessThanWellFounded, WFMin, Zenon
<1>2. \A y \in U : ~(y < x)
  BY <1>1, Zenon DEF OpToRel
<1>3. x # 0 /\ x - 1 \in Nat /\ x - 1 \notin U
  BY <1>2
<1> QED BY <1>3

\* f is b at 0, and at n what F makes of n and of f at n - 1.
Unfolds(f, N, b, F) ==
  /\ f[0] = b
  /\ \A n \in 1..N : f[n] = F[<<n, f[n - 1]>>]

\* A function that is defined by recursion exists.
LEMMA Recursion ==
  ASSUME NEW S, NEW b \in S, NEW N \in Nat, NEW F \in [Nat \X S -> S]
  PROVE  \E f \in [0..N -> S] : Unfolds(f, N, b, F)
<1> DEFINE T == {n \in Nat : \E f \in [0..n -> S] : Unfolds(f, n, b, F)}
<1>1. 0 \in T
  <2>1. [n \in 0..0 |-> b] \in [0..0 -> S] /\ Unfolds([n \in 0..0 |-> b], 0, b, F)
    BY DEF Unfolds
  <2> QED BY <2>1
<1>2. ASSUME NEW n \in Nat, n \in T PROVE n + 1 \in T
  <2>1. PICK f \in [0..n -> S] : Unfolds(f, n, b, F)
    BY <1>2
  <2> DEFINE g == [q \in 0..(n + 1) |-> IF q <= n THEN f[q] ELSE F[<<n + 1, f[n]>>]]
  <2>2. g \in [0..(n + 1) -> S]
    <3>1. F[<<n + 1, f[n]>>] \in S
      OBVIOUS
    <3> QED BY <3>1
  <2>3. Unfolds(g, n + 1, b, F)
    <3>1. g[0] = b
      BY <2>1 DEF Unfolds
    <3>2. ASSUME NEW q \in 1..(n + 1) PROVE g[q] = F[<<q, g[q - 1]>>]
      <4>1. CASE q <= n
        <5>1. f[q] = F[<<q, f[q - 1]>>]
          BY <2>1, <4>1 DEF Unfolds
        <5>2. q - 1 \in 0..(n + 1) /\ q - 1 <= n /\ q \in 0..(n + 1)
          BY <4>1
        <5>3. g[q] = f[q] /\ g[q - 1] = f[q - 1]
          BY <5>2, <4>1
        <5> QED BY <5>1, <5>3
      <4>2. CASE q = n + 1
        <5>1. g[n] = f[n] /\ g[n + 1] = F[<<n + 1, f[n]>>]
          OBVIOUS
        <5>2. q - 1 = n
          BY <4>2
        <5> QED BY <4>2, <5>1, <5>2
      <4> QED BY <4>1, <4>2
    <3> QED BY <3>1, <3>2 DEF Unfolds
  <2>4. \E h \in [0..(n + 1) -> S] : Unfolds(h, n + 1, b, F)
    BY <2>2, <2>3
  <2> QED BY <2>4
<1>3. \A n \in Nat : n \in T
  <2> HIDE DEF T
  <2> QED BY <1>1, <1>2, SetInduction
<1> QED BY <1>3

\* A message, and a dialect that was matched.
Given == message \in Messages /\ dialect \in Dialects

\* What the assumptions say of a message and its separators.
LEMMA InputFacts ==
  ASSUME Given
  PROVE  /\ message \in Seq(Chars) /\ Len(message) \in Nat
         /\ \A i \in Positions : Char(i) = message[i] /\ Char(i) # NUL
         /\ Char(Len(message) + 1) = NUL
         /\ NUL \notin {dialect.seg, dialect.data, dialect.sub, dialect.tag}
         /\ dialect.seg \notin {dialect.data, dialect.sub, dialect.tag}
         /\ dialect.sub \notin {dialect.data, dialect.tag}
         /\ \A i \in Nat : Escapes(i) =>
              Char(i) \notin {dialect.seg, dialect.data, dialect.sub, dialect.tag} \union Newlines
         /\ dialect.skip \in Nat
         /\ NUL \notin Newlines
<1>1. message \in Seq(UNION {{message[i] : i \in DOMAIN message}})
      /\ \A i \in DOMAIN message : message[i] # NUL
  BY EdiParseAssumption DEF Given
<1>2. /\ Len(message) \in Nat /\ DOMAIN message = 1..Len(message)
      /\ \A i \in 1..Len(message) : message[i] # NUL
  BY <1>1
<1>3. \A i \in 1..Len(message) : message[i] \in Chars
  BY <1>2 DEF Chars, Given
<1>4. message \in Seq(Chars)
  BY <1>1, <1>2, <1>3
<1>5. /\ NUL \notin {dialect.seg, dialect.data, dialect.sub, dialect.tag}
      /\ dialect.seg \notin {dialect.data, dialect.sub, dialect.tag, dialect.escape}
      /\ dialect.sub \notin {dialect.data, dialect.tag, dialect.escape}
      /\ dialect.escape \notin {dialect.data, dialect.tag} \union Newlines
      /\ dialect.skip \in Nat
  BY EdiParseAssumption DEF Given
<1>6. NUL \notin Newlines
  BY EdiParseAssumption
<1> QED BY <1>2, <1>4, <1>5, <1>6 DEF Positions, Char, Escapes

\* How the characters that are escaped follow from each other.
LEMMA EscapedFacts ==
  ASSUME Given
  PROVE  /\ Escaped \in [1..(Len(message) + 1) -> BOOLEAN]
         /\ Escaped[1] = FALSE
         /\ \A i \in Positions : Escaped[i + 1] = (Escapes(i) /\ ~Escaped[i])
<1> DEFINE N == Len(message)
           Body(f) == [i \in 1..(N + 1) |-> i > 1 /\ Escapes(i - 1) /\ ~f[i - 1]]
           F == [p \in Nat \X BOOLEAN |-> Escapes(p[1]) /\ ~p[2]]
<1>1. N \in Nat /\ F \in [Nat \X BOOLEAN -> BOOLEAN]
  <2>1. \A i : Escapes(i) \in BOOLEAN
    BY Zenon DEF Escapes
  <2> QED BY <2>1, InputFacts
<1>2. \A i \in Nat : Escapes(i) \in BOOLEAN
  BY Zenon DEF Escapes
<1>3. PICK h \in [0..N -> BOOLEAN] : Unfolds(h, N, FALSE, F)
  <2> HIDE DEF F, N
  <2> QED BY <1>1, Recursion
<1> DEFINE g == [i \in 1..(N + 1) |-> h[i - 1]]
<1>4. \A n \in 1..N : h[n] = (Escapes(n) /\ ~h[n - 1])
  <2> SUFFICES ASSUME NEW n \in 1..N PROVE h[n] = (Escapes(n) /\ ~h[n - 1])
    OBVIOUS
  <2>1. h[n] = F[<<n, h[n - 1]>>]
    BY <1>3 DEF Unfolds
  <2>2. h[n - 1] \in BOOLEAN /\ n \in Nat
    BY <1>1
  <2> QED BY <2>1, <2>2, Zenon
<1>5. h[0] = FALSE
  BY <1>3 DEF Unfolds
<1>6. g = Body(g)
  <2> SUFFICES ASSUME NEW i \in 1..(N + 1)
               PROVE  h[i - 1] = (i > 1 /\ Escapes(i - 1) /\ ~g[i - 1])
    <3>1. Body(g) = [i \in 1..(N + 1) |-> i > 1 /\ Escapes(i - 1) /\ ~g[i - 1]]
      OBVIOUS
    <3> HIDE DEF Body
    <3> QED BY <3>1
  <2>1. CASE i = 1
    BY <2>1, <1>5, <1>1
  <2>2. CASE i > 1
    <3>1. i - 1 \in 1..N /\ i - 1 \in 1..(N + 1) /\ (i - 1) - 1 = i - 2
      BY <2>2, <1>1
    <3>2. g[i - 1] = h[(i - 1) - 1]
      BY <3>1
    <3>3. h[i - 1] = (Escapes(i - 1) /\ ~h[(i - 1) - 1])
      BY <3>1, <1>4
    <3> QED BY <2>2, <3>2, <3>3
  <2> QED BY <2>1, <2>2, <1>1
<1>7. Escaped = Body(Escaped)
  <2>1. Escaped = CHOOSE f : f = Body(f)
    BY DEF Escaped
  <2> HIDE DEF Body, g
  <2> QED BY <2>1, <1>6
<1>8. \A i \in 1..(N + 1) : Escaped[i] = (i > 1 /\ Escapes(i - 1) /\ ~Escaped[i - 1])
  BY <1>7
<1>9. Escaped \in [1..(N + 1) -> BOOLEAN]
  <2>1. \A i \in 1..(N + 1) : (i > 1 /\ Escapes(i - 1) /\ ~Escaped[i - 1]) \in BOOLEAN
    BY Zenon
  <2>2. Body(Escaped) \in [1..(N + 1) -> BOOLEAN]
    BY <2>1
  <2> QED BY <1>7, <2>2
<1>10. Escaped[1] = FALSE
  <2>1. 1 \in 1..(N + 1) /\ ~(1 > 1)
    BY <1>1
  <2> QED BY <1>8, <2>1, Zenon
<1>11. ASSUME NEW i \in Positions PROVE Escaped[i + 1] = (Escapes(i) /\ ~Escaped[i])
  <2>1. i + 1 \in 1..(N + 1) /\ i + 1 > 1 /\ (i + 1) - 1 = i
    BY <1>1 DEF Positions
  <2> QED BY <1>8, <2>1
<1> QED BY <1>9, <1>10, <1>11

\* What the text of a field gains by one more character.
LEMMA UnescapedFacts ==
  ASSUME Given, NEW a \in 1..(Len(message) + 1)
  PROVE  /\ Unescaped(a, a) = <<>>
         /\ \A b \in a..Len(message) :
              Unescaped(a, b + 1) =
                IF Escaped[b] \/ ~Escapes(b) THEN Append(Unescaped(a, b), message[b])
                ELSE Unescaped(a, b)
<1> DEFINE N == Len(message)
           Rest(i, s) == IF i < a THEN <<>>
                         ELSE IF Escaped[i] \/ ~Escapes(i) THEN Append(s, message[i])
                         ELSE s
           Body(f) == [i \in 0..N |-> IF i < a THEN <<>>
                         ELSE IF Escaped[i] \/ ~Escapes(i) THEN Append(f[i - 1], message[i])
                         ELSE f[i - 1]]
           F == [p \in Nat \X Seq(Chars) |->
                   IF p[1] \in 1..N THEN Rest(p[1], p[2]) ELSE <<>>]
<1>1. N \in Nat /\ <<>> \in Seq(Chars) /\ \A i \in 1..N : message[i] \in Chars
  BY InputFacts
<1>2. F \in [Nat \X Seq(Chars) -> Seq(Chars)]
  <2>1. ASSUME NEW i \in 1..N, NEW s \in Seq(Chars) PROVE Rest(i, s) \in Seq(Chars)
    BY <1>1
  <2> HIDE DEF Rest
  <2> QED BY <1>1, <2>1
<1>3. PICK f \in [0..N -> Seq(Chars)] : Unfolds(f, N, <<>>, F)
  <2> HIDE DEF F, N
  <2> QED BY <1>1, <1>2, Recursion
<1>4. \A n \in 1..N : f[n] = Rest(n, f[n - 1])
  <2> SUFFICES ASSUME NEW n \in 1..N PROVE f[n] = Rest(n, f[n - 1])
    OBVIOUS
  <2>1. f[n] = F[<<n, f[n - 1]>>]
    BY <1>3 DEF Unfolds
  <2>2. f[n - 1] \in Seq(Chars) /\ n \in Nat
    BY <1>1
  <2> HIDE DEF Rest
  <2> QED BY <2>1, <2>2, Zenon
<1>5. f[0] = <<>>
  BY <1>3 DEF Unfolds
<1>6. f = Body(f)
  <2> SUFFICES ASSUME NEW i \in 0..N PROVE f[i] = Rest(i, f[i - 1])
    <3>1. Body(f) = [i \in 0..N |-> Rest(i, f[i - 1])]
      OBVIOUS
    <3> HIDE DEF Body, Rest
    <3> QED BY <3>1
  <2>1. CASE i = 0
    BY <2>1, <1>5
  <2>2. CASE i # 0
    <3>1. i \in 1..N
      BY <2>2, <1>1
    <3> HIDE DEF Rest, N
    <3> QED BY <3>1, <1>4
  <2> QED BY <2>1, <2>2
<1> DEFINE g == CHOOSE h : h = Body(h)
<1>7. g = Body(g)
  <2> HIDE DEF Body
  <2> QED BY <1>6
<1>8. \A b : Unescaped(a, b) = g[b - 1]
  BY DEF Unescaped
<1> HIDE DEF g
<1>9. \A i \in 0..N : g[i] = Rest(i, g[i - 1])
  BY <1>7
<1> HIDE DEF Body
<1>10. Unescaped(a, a) = <<>>
  <2>1. a - 1 \in 0..N /\ a - 1 < a
    BY <1>1
  <2>2. g[a - 1] = <<>>
    BY <1>9, <2>1
  <2> QED BY <1>8, <2>2
<1>11. ASSUME NEW b \in a..Len(message)
       PROVE  Unescaped(a, b + 1) =
                IF Escaped[b] \/ ~Escapes(b) THEN Append(Unescaped(a, b), message[b])
                ELSE Unescaped(a, b)
  <2>1. b \in 0..N /\ ~(b < a) /\ (b + 1) - 1 = b
    BY <1>1
  <2>2. g[b] = Rest(b, g[b - 1])
    BY <1>9, <2>1
  <2>3. Unescaped(a, b + 1) = g[b] /\ Unescaped(a, b) = g[b - 1]
    BY <1>8, <2>1
  <2> QED BY <2>1, <2>2, <2>3
<1> QED BY <1>10, <1>11

-----------------------------------------------------------------------------
(* Where segments and fields start, seen from where the parser is. *)

\* A separator is never an escape character, so what stands behind one is not
\* escaped; nor is what stands behind a newline.
LEMMA NotEscapedBehind ==
  ASSUME Given, NEW i \in Positions,
         Char(i) \in {dialect.seg, dialect.data, dialect.sub, dialect.tag} \union Newlines
  PROVE  Escaped[i + 1] = FALSE
<1>1. i \in Nat
  BY DEF Positions
<1>2. ~Escapes(i)
  BY <1>1, InputFacts
<1> QED BY <1>2, EscapedFacts

\* The first character of a segment is not escaped.
LEMMA NotEscapedAtFront ==
  ASSUME Given, NEW p \in 1..(Len(message) + 1), AtFront(p)
  PROVE  Escaped[p] = FALSE
<1>1. PICK j \in 1..p : /\ j = 1 \/ Is(j - 1, {dialect.seg})
                       /\ \A k \in j..(p - 1) : Char(k) \in Newlines
  BY DEF AtFront
<1>2. Len(message) \in Nat
  BY InputFacts
<1>3. CASE p = 1
  BY <1>3, EscapedFacts
<1>4. CASE p # 1
  <2>1. p - 1 \in Positions /\ (p - 1) + 1 = p
    BY <1>2, <1>4 DEF Positions
  <2>2. Char(p - 1) \in {dialect.seg} \union Newlines
    <3>1. CASE j = p
      BY <1>1, <1>4, <3>1 DEF Is
    <3>2. CASE j # p
      <4>1. p - 1 \in j..(p - 1)
        BY <1>2, <3>2
      <4> QED BY <1>1, <4>1
    <3> QED BY <3>1, <3>2
  <2> QED BY <2>1, <2>2, NotEscapedBehind
<1> QED BY <1>3, <1>4

\* No segment starts inside another.
LEMMA NoStartInside ==
  ASSUME Given, NEW c \in SegmentStarts, NEW p \in Nat, Reaches(c, p)
  PROVE  \A a \in SegmentStarts : a <= p => a <= c
<1> SUFFICES ASSUME NEW a \in SegmentStarts, a <= p, a > c PROVE FALSE
  BY DEF SegmentStarts, Positions
<1>1. a \in Nat \ {0} /\ c \in Nat \ {0} /\ Char(c) \notin Newlines /\ AtFront(a)
  BY DEF SegmentStarts, Positions
<1>2. PICK j \in 1..a : /\ j = 1 \/ Is(j - 1, {dialect.seg})
                       /\ \A k \in j..(a - 1) : Char(k) \in Newlines
  BY <1>1 DEF AtFront
<1>3. c \notin j..(a - 1)
  BY <1>1, <1>2
<1>4. j > c /\ j # 1
  BY <1>1, <1>3
<1>5. Is(j - 1, {dialect.seg})
  BY <1>2, <1>4
<1>6. j - 1 \in c..(p - 1)
  BY <1>1, <1>4
<1> QED BY <1>5, <1>6 DEF Reaches

\* The characters of a segment at which a field stops, seen from inside it.
LEMMA BoundaryInside ==
  ASSUME Given, NEW c \in SegmentStarts, NEW p \in Positions, Reaches(c, p)
  PROVE  p \in Boundaries <=> Is(p, {dialect.sub, dialect.seg, SeparatorAt(c, p)})
<1>1. p \in Nat /\ c \in Nat
  BY DEF Positions, SegmentStarts
<1>2. ASSUME NEW a \in SegmentStarts, Reaches(a, p) PROVE a = c
  <2>1. a <= c
    BY <1>1, <1>2, NoStartInside DEF Reaches
  <2>2. c <= a
    BY <1>1, <1>2, NoStartInside DEF Reaches
  <2> QED BY <1>1, <2>1, <2>2 DEF SegmentStarts, Positions
<1> QED BY <1>2 DEF Boundaries

\* The end of a field is the first boundary from its start on, or the end.
LEMMA FieldEndIs ==
  ASSUME Given, NEW a \in Nat, NEW p \in a..(Len(message) + 1),
         p \in Boundaries \/ p = Len(message) + 1,
         \A i \in a..(p - 1) : i \notin Boundaries
  PROVE  FieldEnd(a) = p
<1> DEFINE S == {i \in Boundaries : i >= a} \union {Len(message) + 1}
<1>1. Len(message) \in Nat /\ Boundaries \subseteq 1..Len(message)
  BY InputFacts DEF Boundaries, Positions
<1>2. p \in S /\ \A y \in S : p <= y /\ y \in Nat
  BY <1>1
<1>3. \A x \in S : (\A y \in S : x <= y) => x = p
  BY <1>2
<1> HIDE DEF S
<1>4. Min(S) = p
  BY <1>2, <1>3 DEF Min
<1> QED BY <1>4 DEF FieldEnd, S

\* The fields that start at or before the place where one ends.
LEMMA StartsUpTo ==
  ASSUME Given, NEW c \in SegmentStarts, NEW p \in Nat, Reaches(c, p),
         NEW t \in c..p, \A i \in t..(p - 1) : i \notin Boundaries
  PROVE  \A a \in FieldStarts : a <= p => a <= t
<1> SUFFICES ASSUME NEW a \in FieldStarts, a <= p, a > t PROVE FALSE
  BY DEF FieldStarts, Positions, SegmentStarts
<1>1. a \in Nat /\ c \in Nat /\ t \in Nat
  BY DEF FieldStarts, Positions, SegmentStarts
<1>2. a \notin SegmentStarts
  BY <1>1, NoStartInside
<1>3. a - 1 \in Boundaries
  BY <1>2 DEF FieldStarts
<1>4. a - 1 \in t..(p - 1)
  BY <1>1
<1> QED BY <1>3, <1>4

-----------------------------------------------------------------------------
(* The tree, and what makes it the message's, segment by segment. *)

ElementValues(x)  == {x.values[k] : k \in 1..Len(x.values)}
SegmentValues(s)  == UNION {ElementValues(s.elements[j]) : j \in 1..Len(s.elements)}
ValuesOf(segs)    == UNION {SegmentValues(segs[i]) : i \in 1..Len(segs)}

\* The value is a whole field of the message: ValuesAreFields.
IsField(v) ==
  /\ v.from \in FieldStarts
  /\ EndOf(v) = FieldEnd(v.from)
  /\ v.text = Unescaped(v.from, EndOf(v))
  /\ Len(v.text) < v.loc.len

\* Where in the message a segment starts.
StartOf(s) == s.offset - dialect.skip + 1

\* What GroupedBySeparators says of element j of the segment s.
ElementGrouped(s, j) ==
  LET vs == s.elements[j].values
      first == IF j = 1 THEN s.offset - dialect.skip + 1 ELSE 0
  IN  /\ \A k \in 1..Len(vs) - 1 :
           /\ Char(EndOf(vs[k])) = dialect.sub
           /\ vs[k + 1].from = EndOf(vs[k]) + 1
      /\ j = 1 /\ vs # <<>> => vs[1].from = first
      /\ j > 1 /\ vs # <<>> =>
           LET us == s.elements[j - 1].values
           IN  /\ vs[1].from = EndOf(us[Len(us)]) + 1
               /\ Char(vs[1].from - 1) \in {dialect.data, dialect.tag}

\* What TagIsFirstValue says of it.
TagIsFirst(s) ==
  s.tag = IF s.elements = <<>> \/ s.elements[1].values = <<>>
          THEN NoValue ELSE s.elements[1].values[1].loc

SegmentOK(s) ==
  /\ \A v \in SegmentValues(s) : IsField(v)
  /\ \A j \in 1..Len(s.elements) : ElementGrouped(s, j)
  /\ TagIsFirst(s)

\* The value of s that starts at t goes where the separator before t says:
\* into a new element, and into the last one.
NewFits(s, t) ==
  \/ s.elements = <<>> /\ t = StartOf(s)
  \/ /\ s.elements # <<>> /\ LastOf(s.elements).values # <<>>
     /\ t = EndOf(LastOf(LastOf(s.elements).values)) + 1
     /\ Char(t - 1) \in {dialect.data, dialect.tag}

NextFits(s, t) ==
  LET n == Len(s.elements)
      vs == s.elements[n].values
      us == s.elements[n - 1].values
  IN  IF vs # <<>>
      THEN t = EndOf(LastOf(vs)) + 1 /\ Char(t - 1) = dialect.sub
      ELSE IF n = 1 THEN t = StartOf(s)
      ELSE t = EndOf(LastOf(us)) + 1 /\ Char(t - 1) \in {dialect.data, dialect.tag}

\* What a message means stays the same as long as the message does.
LEMMA FieldsPrimed ==
  ASSUME message' = message, dialect' = dialect
  PROVE  /\ Given' = Given
         /\ \A i : Char(i)' = Char(i) /\ Escapes(i)' = Escapes(i)
         /\ Escaped' = Escaped
         /\ \A i, C : Is(i, C)' = Is(i, C)
         /\ \A a : AtFront(a)' = AtFront(a)
         /\ Positions' = Positions
         /\ SegmentStarts' = SegmentStarts
         /\ \A a, i : Reaches(a, i)' = Reaches(a, i)
         /\ \A a, i : SeparatorAt(a, i)' = SeparatorAt(a, i)
         /\ Boundaries' = Boundaries
         /\ FieldStarts' = FieldStarts
         /\ \A a : FieldEnd(a)' = FieldEnd(a)
         /\ \A a, b : Unescaped(a, b)' = Unescaped(a, b)
<1>1. Given' = Given
  BY DEF Given
<1>2. \A i : Char(i)' = Char(i)
  BY DEF Char
<1>3. \A i : Escapes(i)' = Escapes(i)
  BY <1>2 DEF Escapes
<1>4. Escaped' = Escaped
  <2> DEFINE E(m, d) == CHOOSE f : f = [i \in 1..(Len(m) + 1) |->
                i > 1 /\ (d.escape # NUL /\ (IF i - 1 <= Len(m) THEN m[i - 1] ELSE NUL) = d.escape) /\ ~f[i - 1]]
  <2>1. Escaped = E(message, dialect)
    BY DEF Escaped, Escapes, Char
  <2>2. Escaped' = E(message', dialect')
    BY DEF Escaped, Escapes, Char
  <2> HIDE DEF E
  <2> QED BY <2>1, <2>2
<1>5. \A i, C : Is(i, C)' = Is(i, C)
  BY <1>2, <1>4 DEF Is
<1>6. \A a : AtFront(a)' = AtFront(a)
  BY <1>2, <1>5 DEF AtFront
<1>7. Positions' = Positions
  BY DEF Positions
<1>8. SegmentStarts' = SegmentStarts
  BY <1>2, <1>6, <1>7 DEF SegmentStarts
<1>9. \A a, i : Reaches(a, i)' = Reaches(a, i)
  BY <1>5 DEF Reaches
<1>10. \A a, i : SeparatorAt(a, i)' = SeparatorAt(a, i)
  BY <1>5 DEF SeparatorAt
<1>11. Boundaries' = Boundaries
  BY <1>5, <1>7, <1>8, <1>9, <1>10 DEF Boundaries
<1>12. FieldStarts' = FieldStarts
  BY <1>2, <1>7, <1>8, <1>11 DEF FieldStarts
<1>13. \A a : FieldEnd(a)' = FieldEnd(a)
  BY <1>11 DEF FieldEnd
<1>14. ASSUME NEW a, NEW b PROVE Unescaped(a, b)' = Unescaped(a, b)
  <2> DEFINE U(m, d, f) == (CHOOSE t : t = [i \in 0..Len(m) |->
         IF i < a THEN <<>>
         ELSE IF f[i] \/ ~(d.escape # NUL /\ (IF i <= Len(m) THEN m[i] ELSE NUL) = d.escape)
              THEN Append(t[i - 1], m[i])
              ELSE t[i - 1]])[b - 1]
  <2>1. Unescaped(a, b) = U(message, dialect, Escaped)
    BY DEF Unescaped, Escapes, Char
  <2>2. Unescaped(a, b)' = U(message', dialect', Escaped')
    BY DEF Unescaped, Escapes, Char
  <2> HIDE DEF U
  <2> QED BY <1>4, <2>1, <2>2
<1> QED BY <1>1, <1>2, <1>3, <1>4, <1>5, <1>6, <1>7, <1>8, <1>9, <1>10, <1>11, <1>12, <1>13, <1>14

\* So does what it asks of values and segments.
LEMMA TreePrimed ==
  ASSUME message' = message, dialect' = dialect
  PROVE  /\ \A v : IsField(v)' = IsField(v)
         /\ \A s : StartOf(s)' = StartOf(s)
         /\ \A s : SegmentOK(s)' = SegmentOK(s)
         /\ \A s, t : NewFits(s, t)' = NewFits(s, t)
         /\ \A s, t : NextFits(s, t)' = NextFits(s, t)
<1>0. \A i : Char(i)' = Char(i)
  BY FieldsPrimed
<1>1. \A v : IsField(v)' = IsField(v)
  BY FieldsPrimed DEF IsField
<1>2. \A s : StartOf(s)' = StartOf(s)
  BY DEF StartOf
<1>3. \A s, j : ElementGrouped(s, j)' = ElementGrouped(s, j)
  BY <1>0 DEF ElementGrouped
<1>4. \A s : TagIsFirst(s)' = TagIsFirst(s)
  BY DEF TagIsFirst
<1>5. \A s : SegmentOK(s)' = SegmentOK(s)
  BY <1>1, <1>3, <1>4 DEF SegmentOK
<1>6. \A s, t : NewFits(s, t)' = NewFits(s, t)
  BY <1>0, <1>2 DEF NewFits
<1>7. \A s, t : NextFits(s, t)' = NextFits(s, t)
  BY <1>0, <1>2 DEF NextFits
<1> QED BY <1>1, <1>2, <1>5, <1>6, <1>7

\* Where a value ends is a number.
LEMMA EndOfIsInt ==
  ASSUME NEW v \in Values
  PROVE  /\ EndOf(v) \in Int /\ v.from \in Nat
         /\ v.loc.len \in Nat
BY DEF EndOf, Values, Pool!Value

\* The last of the values of an element.
LEMMA LastValue ==
  ASSUME NEW x \in Element, x.values # <<>>
  PROVE  /\ LastOf(x.values) \in Values
         /\ EndOf(LastOf(x.values)) \in Int
<1>1. x.values \in Seq(Values)
  BY DEF Element
<1>2. LastOf(x.values) \in Values
  BY <1>1 DEF LastOf
<1> QED BY <1>2, EndOfIsInt

\* What becomes of the values of a segment when its last element is replaced.
LEMMA SegmentValuesOfSetLast ==
  ASSUME NEW s \in Segment, NEW t \in Segment, s.elements # <<>>,
         NEW x \in Element, t.elements = SetLast(s.elements, x), NEW X,
         ElementValues(x) = ElementValues(LastOf(s.elements)) \union X
  PROVE  SegmentValues(t) = SegmentValues(s) \union X
<1> DEFINE n == Len(s.elements)
<1>1. /\ s.elements \in Seq(Element) /\ n \in Nat \ {0} /\ n \in 1..n
      /\ Len(t.elements) = n
      /\ \A j \in 1..n : t.elements[j] = IF j = n THEN x ELSE s.elements[j]
  BY DEF SetLast, Segment
<1>2. ElementValues(t.elements[n]) = ElementValues(s.elements[n]) \union X
  BY <1>1 DEF LastOf
<1>3. \A j \in 1..n : j # n => ElementValues(t.elements[j]) = ElementValues(s.elements[j])
  BY <1>1
<1>4. ASSUME NEW y PROVE y \in SegmentValues(t) <=> y \in SegmentValues(s) \union X
  <2>1. y \in SegmentValues(t) <=> \E j \in 1..n : y \in ElementValues(t.elements[j])
    BY <1>1 DEF SegmentValues
  <2>2. y \in SegmentValues(s) <=> \E j \in 1..n : y \in ElementValues(s.elements[j])
    BY DEF SegmentValues
  <2> QED BY <1>1, <1>2, <1>3, <2>1, <2>2
<1> QED BY <1>4

\* A value that an element gets is added to its values.
LEMMA ElementValuesOfAppend ==
  ASSUME NEW x \in Element, NEW y \in Element, NEW v \in Values,
         y.values = Append(x.values, v)
  PROVE  ElementValues(y) = ElementValues(x) \union {v}
<1>1. /\ x.values \in Seq(Values)
      /\ Len(y.values) = Len(x.values) + 1 /\ Len(x.values) \in Nat
      /\ y.values[Len(x.values) + 1] = v
      /\ \A i \in 1..Len(x.values) : y.values[i] = x.values[i]
  BY DEF Element
<1>2. ASSUME NEW z PROVE z \in ElementValues(y) <=> z \in ElementValues(x) \union {v}
  BY <1>1 DEF ElementValues
<1> QED BY <1>2

\* A new element without values adds none to its segment.
LEMMA SegmentValuesOfAppend ==
  ASSUME NEW s \in Segment, NEW t \in Segment, NEW x \in Element,
         t.elements = Append(s.elements, x), x.values = <<>>
  PROVE  SegmentValues(t) = SegmentValues(s)
<1>1. ElementValues(x) = {}
  BY DEF ElementValues
<1>2. /\ s.elements \in Seq(Element)
      /\ Len(t.elements) = Len(s.elements) + 1 /\ Len(s.elements) \in Nat
      /\ t.elements[Len(s.elements) + 1] = x
      /\ \A i \in 1..Len(s.elements) : t.elements[i] = s.elements[i]
  BY DEF Segment
<1>3. ASSUME NEW y PROVE y \in SegmentValues(t) <=> y \in SegmentValues(s)
  BY <1>1, <1>2 DEF SegmentValues
<1> QED BY <1>3

\* A segment without elements is in order.
LEMMA NewSegmentOK ==
  ASSUME NEW s, s.elements = <<>>, s.tag = NoValue
  PROVE  SegmentOK(s) /\ SegmentValues(s) = {}
BY DEF SegmentOK, SegmentValues, TagIsFirst

\* It stays in order when it gets an element that holds nothing yet.
LEMMA NewElementOK ==
  ASSUME NEW s \in Segment, SegmentOK(s), NEW t \in Segment, NEW x \in Element,
         x.values = <<>>, t.elements = Append(s.elements, x),
         t.tag = s.tag, t.offset = s.offset
  PROVE  SegmentOK(t) /\ SegmentValues(t) = SegmentValues(s)
<1> DEFINE n == Len(s.elements)
<1>1. /\ n \in Nat /\ s.elements \in Seq(Element)
      /\ Len(t.elements) = n + 1 /\ t.elements[n + 1] = x /\ t.elements # <<>>
      /\ \A j \in 1..n : t.elements[j] = s.elements[j]
  BY DEF Segment
<1>2. SegmentValues(t) = SegmentValues(s)
  BY SegmentValuesOfAppend
<1>3. ASSUME NEW j \in 1..n PROVE ElementGrouped(t, j)
  <2>1. ElementGrouped(s, j)
    BY DEF SegmentOK
  <2>2. t.elements[j] = s.elements[j] /\ (j > 1 => t.elements[j - 1] = s.elements[j - 1])
    BY <1>1
  <2> QED BY <2>1, <2>2 DEF ElementGrouped
<1>4. ElementGrouped(t, n + 1)
  <2>1. t.elements[n + 1].values = <<>>
    BY <1>1
  <2> QED BY <2>1 DEF ElementGrouped
<1>5. TagIsFirst(t)
  <2>1. TagIsFirst(s)
    BY DEF SegmentOK
  <2>2. CASE n = 0
    <3>1. s.elements = <<>> /\ t.elements[1] = x
      BY <1>1, <2>2
    <3> QED BY <2>1, <3>1 DEF TagIsFirst
  <2>3. CASE n # 0
    <3>1. s.elements # <<>> /\ t.elements[1] = s.elements[1]
      BY <1>1, <2>3
    <3> QED BY <1>1, <2>1, <3>1 DEF TagIsFirst
  <2> QED BY <2>2, <2>3
<1>6. \A j \in 1..Len(t.elements) : ElementGrouped(t, j)
  BY <1>1, <1>3, <1>4
<1> QED BY <1>2, <1>5, <1>6 DEF SegmentOK

\* The type of an element says nothing of its values.
LEMMA RetypedOK ==
  ASSUME NEW s \in Segment, SegmentOK(s), s.elements # <<>>, NEW t \in Segment,
         NEW x \in Element, x.values = LastOf(s.elements).values,
         t.elements = SetLast(s.elements, x), t.tag = s.tag, t.offset = s.offset
  PROVE  SegmentOK(t) /\ SegmentValues(t) = SegmentValues(s)
<1> DEFINE n == Len(s.elements)
<1>1. /\ n \in Nat \ {0} /\ s.elements \in Seq(Element)
      /\ Len(t.elements) = n /\ t.elements # <<>>
      /\ \A j \in 1..n : t.elements[j] = IF j = n THEN x ELSE s.elements[j]
  BY DEF Segment, SetLast
<1>2. \A j \in 1..n : t.elements[j].values = s.elements[j].values
  BY <1>1 DEF LastOf
<1>3. ElementValues(x) = ElementValues(LastOf(s.elements)) \union {}
  BY DEF ElementValues
<1>4. SegmentValues(t) = SegmentValues(s) \union {}
  <2> DEFINE X == {}
  <2>1. ElementValues(x) = ElementValues(LastOf(s.elements)) \union X
    BY <1>3
  <2> HIDE DEF X
  <2>2. SegmentValues(t) = SegmentValues(s) \union X
    BY <2>1, SegmentValuesOfSetLast
  <2> QED BY <2>2 DEF X
<1>5. ASSUME NEW j \in 1..n PROVE ElementGrouped(t, j)
  <2>1. ElementGrouped(s, j)
    BY DEF SegmentOK
  <2>2. /\ t.elements[j].values = s.elements[j].values
        /\ j > 1 => t.elements[j - 1].values = s.elements[j - 1].values
    BY <1>1, <1>2
  <2> QED BY <2>1, <2>2 DEF ElementGrouped
<1>6. TagIsFirst(t)
  <2>1. TagIsFirst(s) /\ t.elements[1].values = s.elements[1].values
    BY <1>1, <1>2 DEF SegmentOK
  <2> QED BY <1>1, <2>1 DEF TagIsFirst
<1> QED BY <1>1, <1>4, <1>5, <1>6 DEF SegmentOK

\* It stays in order when its last element gets the field that fits there.
LEMMA StoredOK ==
  ASSUME NEW s \in Segment, SegmentOK(s), s.elements # <<>>,
         NEW v \in Values, IsField(v), NextFits(s, v.from), NEW y \in Element,
         y.values = Append(LastOf(s.elements).values, v),
         NEW t \in Segment, t.elements = SetLast(s.elements, y),
         t.offset = s.offset,
         t.tag = IF Len(s.elements) = 1 /\ LastOf(s.elements).values = <<>>
                 THEN v.loc ELSE s.tag
  PROVE  SegmentOK(t) /\ SegmentValues(t) = SegmentValues(s) \union {v}
<1> DEFINE n == Len(s.elements)
           x == s.elements[n]
           xs == x.values
           ys == y.values
<1>1. /\ n \in Nat \ {0} /\ n \in 1..n /\ s.elements \in Seq(Element)
      /\ Len(t.elements) = n /\ t.elements # <<>>
      /\ \A j \in 1..n : t.elements[j] = IF j = n THEN y ELSE s.elements[j]
      /\ x \in Element /\ x = LastOf(s.elements)
  BY DEF Segment, SetLast, LastOf
<1>2. /\ xs \in Seq(Values) /\ Len(ys) = Len(xs) + 1 /\ Len(xs) \in Nat
      /\ ys[Len(xs) + 1] = v /\ \A k \in 1..Len(xs) : ys[k] = xs[k]
      /\ ys # <<>>
  <2>1. xs \in Seq(Values) /\ ys = Append(xs, v)
    BY <1>1 DEF Element
  <2> HIDE DEF xs, ys
  <2> QED BY <2>1
<1>3. ElementValues(y) = ElementValues(LastOf(s.elements)) \union {v}
  BY <1>1, ElementValuesOfAppend
<1>4. SegmentValues(t) = SegmentValues(s) \union {v}
  <2> DEFINE X == {v}
  <2>1. ElementValues(y) = ElementValues(LastOf(s.elements)) \union X
    BY <1>3
  <2> HIDE DEF X
  <2>2. SegmentValues(t) = SegmentValues(s) \union X
    BY <2>1, SegmentValuesOfSetLast
  <2> QED BY <2>2 DEF X
<1>5. \A w \in SegmentValues(t) : IsField(w)
  BY <1>4 DEF SegmentOK
<1>6. ASSUME NEW j \in 1..n, j # n PROVE ElementGrouped(t, j)
  <2>1. ElementGrouped(s, j)
    BY <1>6 DEF SegmentOK
  <2>2. t.elements[j] = s.elements[j] /\ (j > 1 => t.elements[j - 1] = s.elements[j - 1])
    <3>1. j \in 1..n /\ (j > 1 => j - 1 \in 1..n /\ j - 1 # n)
      BY <1>1
    <3> HIDE DEF n
    <3> QED BY <1>1, <1>6, <3>1
  <2> QED BY <2>1, <2>2 DEF ElementGrouped
<1>7. ElementGrouped(t, n)
  <2>1. t.elements[n] = y /\ (n > 1 => t.elements[n - 1] = s.elements[n - 1])
    BY <1>1
  <2>2. ElementGrouped(s, n)
    BY <1>1 DEF SegmentOK
  <2>3. CASE xs = <<>>
    <3>1. Len(ys) = 1 /\ ys[1] = v
      BY <1>2, <2>3
    <3>2. n = 1 => v.from = s.offset - dialect.skip + 1
      BY <2>3 DEF NextFits, StartOf
    <3>3. n # 1 => /\ v.from = EndOf(LastOf(s.elements[n - 1].values)) + 1
                   /\ Char(v.from - 1) \in {dialect.data, dialect.tag}
      BY <2>3 DEF NextFits
    <3> HIDE DEF ys, xs
    <3> QED BY <1>1, <2>1, <3>1, <3>2, <3>3 DEF ElementGrouped, LastOf, ys
  <2>4. CASE xs # <<>>
    <3>1. v.from = EndOf(LastOf(xs)) + 1 /\ Char(v.from - 1) = dialect.sub
      BY <2>4 DEF NextFits
    <3>2. EndOf(LastOf(xs)) \in Int /\ LastOf(xs) = xs[Len(xs)]
      BY <1>1, <2>4, LastValue DEF LastOf
    <3>3. Char(EndOf(xs[Len(xs)])) = dialect.sub
      BY <3>1, <3>2
    <3>4. ys[1] = xs[1] /\ Len(xs) >= 1
      BY <1>2, <2>4
    <3>5. ASSUME NEW k \in 1..Len(ys) - 1
          PROVE  /\ Char(EndOf(ys[k])) = dialect.sub
                 /\ ys[k + 1].from = EndOf(ys[k]) + 1
      <4>1. CASE k = Len(xs)
        <5>1. ys[k] = xs[Len(xs)] /\ ys[k + 1] = v
          BY <1>2, <3>4, <4>1
        <5> HIDE DEF xs, ys
        <5> QED BY <3>1, <3>2, <3>3, <5>1
      <4>2. CASE k # Len(xs)
        <5>1. k \in 1..Len(xs) - 1 /\ ys[k] = xs[k] /\ ys[k + 1] = xs[k + 1]
          BY <1>2, <4>2
        <5> QED BY <2>2, <5>1 DEF ElementGrouped
      <4> QED BY <4>1, <4>2
    <3>6. /\ n = 1 => xs[1].from = s.offset - dialect.skip + 1
          /\ n > 1 => /\ xs[1].from = EndOf(s.elements[n - 1].values[Len(s.elements[n - 1].values)]) + 1
                      /\ Char(xs[1].from - 1) \in {dialect.data, dialect.tag}
      BY <2>2, <2>4 DEF ElementGrouped
    <3> HIDE DEF ys, xs
    <3> QED BY <1>1, <2>1, <3>4, <3>5, <3>6 DEF ElementGrouped, ys
  <2> QED BY <2>3, <2>4
<1>8. TagIsFirst(t)
  <2>1. TagIsFirst(s)
    BY DEF SegmentOK
  <2>2. CASE n = 1
    <3>1. t.elements[1] = y /\ s.elements[1] = x
      BY <1>1, <2>2
    <3>2. xs = <<>> => ys[1] = v
      BY <1>2
    <3>3. xs # <<>> => ys[1] = xs[1]
      BY <1>2
    <3> QED BY <1>1, <1>2, <2>1, <2>2, <3>1, <3>2, <3>3 DEF TagIsFirst
  <2>3. CASE n # 1
    <3>1. t.elements[1] = s.elements[1]
      <4>1. 1 \in 1..n
        BY <1>1
      <4> HIDE DEF n
      <4> QED BY <1>1, <2>3, <4>1
    <3>2. t.tag = s.tag
      BY <2>3
    <3> QED BY <1>1, <2>1, <3>1, <3>2 DEF TagIsFirst
  <2> QED BY <2>2, <2>3
<1> QED BY <1>1, <1>4, <1>5, <1>6, <1>7, <1>8 DEF SegmentOK

-----------------------------------------------------------------------------
(* Growing the tree, values and all. *)

\* What becomes of the values of the tree when its last segment is replaced.
LEMMA ValuesOfSetLast ==
  ASSUME NEW segs \in Seq(Segment), segs # <<>>, NEW s \in Segment, NEW X,
         SegmentValues(s) = SegmentValues(LastOf(segs)) \union X
  PROVE  ValuesOf(SetLast(segs, s)) = ValuesOf(segs) \union X
<1> DEFINE t == SetLast(segs, s)
           n == Len(segs)
<1>1. /\ n \in Nat \ {0} /\ Len(t) = n /\ n \in 1..n
      /\ \A i \in 1..n : t[i] = IF i = n THEN s ELSE segs[i]
  BY DEF SetLast
<1>2. SegmentValues(t[n]) = SegmentValues(segs[n]) \union X
  BY <1>1 DEF LastOf
<1>3. \A i \in 1..n : i # n => SegmentValues(t[i]) = SegmentValues(segs[i])
  BY <1>1
<1> HIDE DEF t
<1>4. ASSUME NEW x PROVE x \in ValuesOf(t) <=> x \in ValuesOf(segs) \union X
  <2>1. x \in ValuesOf(t) <=> \E i \in 1..n : x \in SegmentValues(t[i])
    BY <1>1 DEF ValuesOf
  <2>2. x \in ValuesOf(segs) <=> \E i \in 1..n : x \in SegmentValues(segs[i])
    BY DEF ValuesOf
  <2> QED BY <1>1, <1>2, <1>3, <2>1, <2>2
<1> QED BY <1>4 DEF t

\* A new segment without values adds none to the tree.
LEMMA ValuesOfAppend ==
  ASSUME NEW segs \in Seq(Segment), NEW s \in Segment, SegmentValues(s) = {}
  PROVE  ValuesOf(Append(segs, s)) = ValuesOf(segs)
<1>2. /\ Len(Append(segs, s)) = Len(segs) + 1 /\ Len(segs) \in Nat
      /\ Append(segs, s)[Len(segs) + 1] = s
      /\ \A i \in 1..Len(segs) : Append(segs, s)[i] = segs[i]
  OBVIOUS
<1>3. ASSUME NEW y PROVE y \in ValuesOf(Append(segs, s)) <=> y \in ValuesOf(segs)
  BY <1>2 DEF ValuesOf
<1> QED BY <1>3

\* The offsets of the segments, in the order of the message.
Offsets(segs)    == {segs[i].offset : i \in 1..Len(segs)}
Increasing(segs) == \A i \in 2..Len(segs) : segs[i - 1].offset < segs[i].offset
AllOK(segs)      == \A i \in 1..Len(segs) : SegmentOK(segs[i])

\* Replacing the last segment by one in order leaves offsets and order alone.
LEMMA TreeOfSetLast ==
  ASSUME NEW segs \in Seq(Segment), segs # <<>>, NEW s \in Segment,
         s.offset = LastOf(segs).offset
  PROVE  /\ Offsets(SetLast(segs, s)) = Offsets(segs)
         /\ Increasing(segs) => Increasing(SetLast(segs, s))
         /\ AllOK(segs) /\ SegmentOK(s) => AllOK(SetLast(segs, s))
<1> DEFINE t == SetLast(segs, s)
           n == Len(segs)
<1>1. /\ n \in Nat \ {0} /\ Len(t) = n /\ n \in 1..n
      /\ \A i \in 1..n : t[i] = IF i = n THEN s ELSE segs[i]
  BY DEF SetLast
<1>2. \A i \in 1..n : t[i].offset = segs[i].offset
  BY <1>1 DEF LastOf
<1> HIDE DEF t
<1>3. Offsets(t) = Offsets(segs)
  <2>1. ASSUME NEW x PROVE x \in Offsets(t) <=> x \in Offsets(segs)
    BY <1>1, <1>2 DEF Offsets
  <2> QED BY <2>1
<1>4. Increasing(segs) => Increasing(t)
  <2> SUFFICES ASSUME Increasing(segs), NEW i \in 2..n PROVE t[i - 1].offset < t[i].offset
    BY <1>1 DEF Increasing
  <2>1. i - 1 \in 1..n /\ i \in 1..n
    BY <1>1
  <2> QED BY <1>2, <2>1 DEF Increasing
<1>5. AllOK(segs) /\ SegmentOK(s) => AllOK(t)
  BY <1>1 DEF AllOK
<1> QED BY <1>3, <1>4, <1>5 DEF t

\* A new segment goes behind the ones that are there.
LEMMA TreeOfAppend ==
  ASSUME NEW segs \in Seq(Segment), NEW s \in Segment,
         \A x \in Offsets(segs) : x < s.offset
  PROVE  /\ Offsets(Append(segs, s)) = Offsets(segs) \union {s.offset}
         /\ Increasing(segs) => Increasing(Append(segs, s))
         /\ AllOK(segs) /\ SegmentOK(s) => AllOK(Append(segs, s))
<1> DEFINE t == Append(segs, s)
           n == Len(segs)
<1>1. /\ n \in Nat /\ Len(t) = n + 1 /\ t[n + 1] = s
      /\ \A i \in 1..n : t[i] = segs[i]
  OBVIOUS
<1> HIDE DEF t
<1>2. Offsets(t) = Offsets(segs) \union {s.offset}
  <2>1. ASSUME NEW x PROVE x \in Offsets(t) <=> x \in Offsets(segs) \union {s.offset}
    BY <1>1 DEF Offsets
  <2> QED BY <2>1
<1>3. Increasing(segs) => Increasing(t)
  <2> SUFFICES ASSUME Increasing(segs), NEW i \in 2..(n + 1)
               PROVE  t[i - 1].offset < t[i].offset
    BY <1>1 DEF Increasing
  <2>1. i - 1 \in 1..n /\ t[i - 1] = segs[i - 1]
    BY <1>1
  <2>2. CASE i = n + 1
    BY <1>1, <2>1, <2>2 DEF Offsets
  <2>3. CASE i # n + 1
    <3>1. i \in 2..n /\ t[i] = segs[i]
      BY <1>1, <2>3
    <3> QED BY <2>1, <3>1 DEF Increasing
  <2> QED BY <2>2, <2>3
<1>4. AllOK(segs) /\ SegmentOK(s) => AllOK(t)
  BY <1>1 DEF AllOK
<1> QED BY <1>2, <1>3, <1>4 DEF t

\* The segment that Store and StoreFails leave.
LEMMA ReplacedSegment ==
  ASSUME NEW s \in Segment, s.elements # <<>>, NEW x \in Element,
         NEW g \in Pool!Value \union {NoValue}
  PROVE  \E t \in Segment : /\ t = [s EXCEPT !.tag = g, !.elements = SetLast(@, x)]
                            /\ t.elements = SetLast(s.elements, x)
                            /\ t.tag = g /\ t.offset = s.offset
<1> DEFINE t == [offset |-> s.offset, tag |-> g, elements |-> SetLast(s.elements, x)]
           r == [offset |-> s.offset, tag |-> g, elements |-> s.elements]
<1>1. s = [offset |-> s.offset, tag |-> s.tag, elements |-> s.elements]
      /\ s.offset \in Nat /\ s.elements \in Seq(Element)
  BY DEF Segment
<1>2. r = [s EXCEPT !.tag = g]
  BY <1>1
<1>3. t = [r EXCEPT !.elements = SetLast(@, x)]
  OBVIOUS
<1>4. SetLast(s.elements, x) \in Seq(Element)
  BY <1>1 DEF SetLast
<1>5. t \in Segment
  BY <1>1, <1>4 DEF Segment
<1> QED BY <1>2, <1>3, <1>5

-----------------------------------------------------------------------------
(* The invariant: what the parser knows of the message at each stage. *)

\* The loops, and those of an open segment.
Reading == pc \in {"segment", "element", "scan", "copy"}
Inside  == pc \in {"element", "scan", "copy"}

\* The place up to which fields are in the tree, and the one for segments.
Reached == IF pc \in {"scan", "copy"} THEN ts ELSE pos
Opened  == IF Inside THEN pos + 1 ELSE pos

\* The fields and the segments that start before p.
FieldsTo(p)  == {a \in FieldStarts : a < p}
OffsetsTo(p) == {dialect.skip + a - 1 : a \in {b \in SegmentStarts : b < p}}

\* Nothing is read before detection is done.
Fresh == pc \in {"detect", "create"} => segments = <<>> /\ pos = 1

\* What has been read is in the tree, once and in order, and nothing else is.
Found ==
  Reading => /\ {v.from : v \in ValuesOf(segments)} = FieldsTo(Reached)
             /\ Offsets(segments) = OffsetsTo(Opened)
             /\ Increasing(segments)

\* Between segments: every segment that started has ended, and the next may.
AtStart ==
  pc = "segment" =>
    /\ AtFront(pos)
    /\ \A a \in SegmentStarts :
         a < pos => \E k \in a..(pos - 1) : Is(k, {dialect.seg})

\* The first element of the segment the parser is in has not ended.
FirstOpen == Len(seg.elements) = 0 \/ (Len(seg.elements) = 1 /\ ~newel)

\* No tag separator stands between c and p.
NoTag(c, p) == \A k \in c..(p - 1) : ~Is(k, {dialect.tag})

\* The segment the parser is in: it has not ended, and its first element has
\* ended when its tag separator was passed.
InOpenSegment ==
  Inside =>
    /\ StartOf(seg) \in SegmentStarts
    /\ StartOf(seg) <= Reached
    /\ Reaches(StartOf(seg), pos)
    /\ FirstOpen <=> NoTag(StartOf(seg), pos)

\* In front of a field: it starts here and belongs into the element that is
\* to be made, or into the last one.
AtField ==
  pc = "element" =>
    /\ Char(pos) # NUL => Escaped[pos] = FALSE
    /\ Char(pos) \notin {NUL, dialect.seg} =>
         /\ pos \in FieldStarts
         /\ newel => NewFits(seg, pos)
         /\ ~newel => NextFits(seg, pos)

\* In a field: it starts at ts, and no boundary has been passed since.
InField ==
  pc \in {"scan", "copy"} =>
    /\ ~newel /\ ts \in FieldStarts /\ Escaped[ts] = FALSE
    /\ NextFits(seg, ts)
    /\ \A i \in ts..(pos - 1) : i \notin Boundaries

\* The flag e says whether the character at hand is escaped, in the loop that
\* looks for the end of the field and in the one that copies it.
Scanning == pc = "scan" => e = Escaped[pos]

Copying ==
  pc = "copy" =>
    /\ pos \in Boundaries \/ pos = Len(message) + 1
    /\ value.len = pos - ts + 1
    /\ ts <= src /\ e = Escaped[src]
    /\ text = Unescaped(ts, src) /\ Len(text) <= src - ts

\* After a parse that nothing cut short.
Ended == Parsed => NothingIsLost /\ UnterminatedExactly

\* The parts that say where the parser is, and all of them.
Place ==
  /\ Fresh /\ Found /\ AtStart /\ InOpenSegment
  /\ AtField /\ InField /\ Scanning /\ Copying

FieldsInv == Typed /\ AllOK(segments) /\ Place /\ Ended

-----------------------------------------------------------------------------
(* Facts that the steps share. *)

\* What the types give while the message is read.
LEMMA Basics ==
  ASSUME Typed, Reading
  PROVE  /\ Given /\ Len(message) \in Nat /\ pos \in 1..(Len(message) + 1)
         /\ ts \in 1..pos /\ src \in 1..pos
         /\ segments \in Seq(Segment) /\ text \in Seq(Chars)
         /\ parser = "temporary" /\ error["temporary"] = "NONE"
         /\ (Char(pos) = NUL <=> pos = Len(message) + 1)
         /\ (Char(pos) # NUL <=> pos \in Positions)
         /\ Inside => /\ segments # <<>> /\ seg \in Segment /\ StartOf(seg) \in Int
                      /\ seg.elements \in Seq(Element)
<1>1. Given /\ parser = "temporary" /\ error["temporary"] = "NONE"
      /\ (Inside => segments # <<>>)
  BY DEF Typed, TypeOK, Shape, Reading, Inside, Given
<1>2. Len(message) \in Nat
  BY MessageFacts
<1>3. /\ segments \in Seq(Segment) /\ text \in Seq(Chars)
      /\ ts \in 1..pos /\ src \in 1..pos /\ pos \in 1..(Len(message) + 1)
  BY DEF Typed, TypeOK
<1>4. /\ Char(pos) = NUL <=> pos = Len(message) + 1
      /\ Char(pos) # NUL <=> pos \in Positions
  BY <1>2, <1>3, MessageFacts DEF Positions
<1>5. Inside => /\ segments # <<>> /\ seg \in Segment /\ StartOf(seg) \in Int
                /\ seg.elements \in Seq(Element)
  <2> SUFFICES ASSUME Inside
               PROVE  /\ segments # <<>> /\ seg \in Segment /\ StartOf(seg) \in Int
                      /\ seg.elements \in Seq(Element)
    OBVIOUS
  <2>1. segments # <<>> /\ seg \in Segment
    BY <1>1, CurrentFacts
  <2>2. seg.offset \in Nat /\ dialect.skip \in Nat /\ seg.elements \in Seq(Element)
    BY <1>1, <2>1, InputFacts DEF Segment
  <2> QED BY <2>1, <2>2 DEF StartOf
<1> QED BY <1>1, <1>2, <1>3, <1>4, <1>5

\* What the tree is compared with stays the same as long as the message does.
LEMMA TreeOpsPrimed ==
  ASSUME message' = message, dialect' = dialect
  PROVE  /\ \A segs : AllOK(segs)' = AllOK(segs)
         /\ \A p : FieldsTo(p)' = FieldsTo(p)
         /\ \A p : OffsetsTo(p)' = OffsetsTo(p)
<1>1. \A segs : AllOK(segs)' = AllOK(segs)
  BY TreePrimed DEF AllOK
<1>2. \A p : FieldsTo(p)' = FieldsTo(p)
  BY FieldsPrimed DEF FieldsTo
<1>3. \A p : OffsetsTo(p)' = OffsetsTo(p)
  BY FieldsPrimed DEF OffsetsTo
<1> QED BY <1>1, <1>2, <1>3

\* A step that leaves the tree alone leaves it in order.
LEMMA TreeKept ==
  ASSUME AllOK(segments), UNCHANGED <<message, dialect, segments>>
  PROVE  AllOK(segments)' /\ seg' = seg
<1>1. AllOK(segments') = AllOK(segments)
  OBVIOUS
<1>2. AllOK(segments)' = AllOK(segments')
  BY TreeOpsPrimed
<1> QED BY <1>1, <1>2 DEF seg

\* Nothing is asked of the places once the function has returned.
LEMMA PlaceAtReturn ==
  ASSUME pc' \in {"returned", "undefined"}
  PROVE  Place'
BY DEF Place, Fresh, Found, AtStart, InOpenSegment, AtField, InField, Scanning,
       Copying, Reading, Inside

\* The sets of the property, and those of the invariant.
LEMMA TreeSets ==
  ASSUME segments \in Seq(Segment)
  PROVE  /\ AllValues = ValuesOf(segments)
         /\ {s.offset : s \in Range(segments)} = Offsets(segments)
<1>1. DOMAIN segments = 1..Len(segments)
  OBVIOUS
<1>2. ASSUME NEW i \in 1..Len(segments)
      PROVE  /\ segments[i].elements \in Seq(Element)
             /\ DOMAIN segments[i].elements = 1..Len(segments[i].elements)
  <2>1. segments[i] \in Segment
    OBVIOUS
  <2>2. segments[i].elements \in Seq(Element)
    BY <2>1 DEF Segment
  <2> QED BY <2>2
<1>3. ASSUME NEW y PROVE y \in AllElements <=>
        \E i \in 1..Len(segments) : \E j \in 1..Len(segments[i].elements) :
          y = segments[i].elements[j]
  <2>1. y \in AllElements <=>
          \E i \in 1..Len(segments) : y \in Range(segments[i].elements)
    BY <1>1 DEF AllElements
  <2>2. ASSUME NEW i \in 1..Len(segments)
        PROVE  y \in Range(segments[i].elements) <=>
                 \E j \in 1..Len(segments[i].elements) : y = segments[i].elements[j]
    BY <1>2 DEF Range
  <2> QED BY <2>1, <2>2
<1>4. ASSUME NEW i \in 1..Len(segments), NEW j \in 1..Len(segments[i].elements)
      PROVE  segments[i].elements[j].values \in Seq(Values)
  <2>1. segments[i].elements[j] \in Element
    BY <1>2
  <2> QED BY <2>1 DEF Element
<1>5. ASSUME NEW v PROVE v \in AllValues <=> v \in ValuesOf(segments)
  <2>1. v \in ValuesOf(segments) <=>
          \E i \in 1..Len(segments) : \E j \in 1..Len(segments[i].elements) :
            v \in ElementValues(segments[i].elements[j])
    BY DEF ValuesOf, SegmentValues
  <2>2. v \in AllValues <=> \E y \in AllElements : v \in Range(y.values)
    BY DEF AllValues
  <2>3. v \in AllValues <=>
          \E i \in 1..Len(segments) : \E j \in 1..Len(segments[i].elements) :
            v \in Range(segments[i].elements[j].values)
    BY <1>3, <2>2
  <2>4. ASSUME NEW i \in 1..Len(segments), NEW j \in 1..Len(segments[i].elements)
        PROVE  Range(segments[i].elements[j].values)
                 = ElementValues(segments[i].elements[j])
    <3>1. segments[i].elements[j].values \in Seq(Values)
      BY <1>4
    <3> QED BY <3>1 DEF Range, ElementValues
  <2> QED BY <2>1, <2>3, <2>4
<1>6. {s.offset : s \in Range(segments)} = Offsets(segments)
  BY <1>1 DEF Range, Offsets
<1> QED BY <1>5, <1>6

-----------------------------------------------------------------------------
(* Every step keeps the invariant: one lemma for each action or kind of it. *)

\* Detection and reservation leave the parser at the front of the message.
LEMMA MatchFields ==
  ASSUME FieldsInv, Match \/ Reserve
  PROVE  AllOK(segments)' /\ Place' /\ Ended'
<1>1. /\ UNCHANGED <<message, dialect, segments, pos, result>>
      /\ pc \in {"detect", "create"}
      /\ \/ pc' = "create" 
         \/ pc' = "segment" /\ pc = "create"
  BY DEF Match, Reserve, input, cursor, tree, outcome
<1>2. segments = <<>> /\ pos = 1
  BY <1>1 DEF FieldsInv, Place, Fresh
<1>3. AllOK(segments)'
  BY <1>1, TreeKept DEF FieldsInv
<1>4. Ended'
  BY <1>1 DEF Ended, Parsed
<1>5. CASE pc' = "create"
  BY <1>1, <1>2, <1>3, <1>4, <1>5 DEF Place, Fresh, Found, AtStart, InOpenSegment, AtField,
     InField, Scanning, Copying, Reading, Inside
<1>6. CASE pc' = "segment"
  <2>1. Fresh' /\ InOpenSegment' /\ AtField' /\ InField' /\ Scanning' /\ Copying'
    BY <1>6 DEF Fresh, InOpenSegment, AtField, InField, Scanning, Copying, Inside
  <2>2. AtFront(1) /\ \A a \in SegmentStarts : ~(a < 1)
    BY DEF AtFront, SegmentStarts, Positions
  <2>3. AtStart'
    BY <1>1, <1>2, <2>2, FieldsPrimed DEF AtStart
  <2>4. FieldsTo(1) = {} /\ OffsetsTo(1) = {}
    BY DEF FieldsTo, OffsetsTo, FieldStarts, SegmentStarts, Positions
  <2>5. ValuesOf(<<>>) = {} /\ Offsets(<<>>) = {} /\ Increasing(<<>>)
    BY DEF ValuesOf, Offsets, Increasing
  <2>6. Reached' = 1 /\ Opened' = 1
    BY <1>1, <1>2, <1>6 DEF Reached, Opened, Inside
  <2>7. Found'
    BY <1>1, <1>2, <2>4, <2>5, <2>6, TreeOpsPrimed DEF Found
  <2> QED BY <1>3, <1>4, <2>1, <2>3, <2>7 DEF Place
<1> QED BY <1>1, <1>5, <1>6

\* A failure that stops the parser leaves the tree as it was.
LEMMA StopFields ==
  ASSUME FieldsInv, NoMatch \/ CreateFails \/ Empty \/ SegmentFails \/ ElementFails
                    \/ AllocValueFails
  PROVE  AllOK(segments)' /\ Place' /\ Ended'
<1>1. UNCHANGED <<message, dialect, segments>> /\ pc' \in {"returned", "undefined"}
  BY DEF NoMatch, CreateFails, Empty, SegmentFails, ElementFails, AllocValueFails,
     Fail, Return, input, tree
<1>2. AllOK(segments)' /\ Place'
  BY <1>1, TreeKept, PlaceAtReturn DEF FieldsInv
<1>3. Ended'
  <2>1. CASE NoMatch
    BY <2>1 DEF NoMatch, Return, Ended, Parsed
  <2>2. CASE AllocValueFails
    BY <2>2 DEF AllocValueFails, Ended, Parsed
  <2>3. CASE CreateFails \/ Empty \/ SegmentFails \/ ElementFails
    <3>1. parser = "temporary"
      BY <2>3 DEF FieldsInv, Typed, Shape, CreateFails, Empty, SegmentFails, AtSegment,
         ElementFails, AtElement
    <3>2. error \in [{"caller", "temporary"} -> {"NONE", "SYSTEM", "UNTERMINATED", "EMPTY"}]
      BY DEF FieldsInv, Typed, TypeOK
    <3>3. error'.temporary \in {"SYSTEM", "EMPTY"}
      BY <2>3, <3>1, <3>2 DEF CreateFails, Empty, SegmentFails, ElementFails, Fail
    <3> QED BY <3>3 DEF Ended, Parsed
  <2> QED BY <2>1, <2>2, <2>3
<1> QED BY <1>2, <1>3

\* At the end of the message all of it is in the tree.
LEMMA ReturnFields ==
  ASSUME FieldsInv, EndOfMessage \/ Unterminated
  PROVE  AllOK(segments)' /\ Place' /\ Ended'
<1>1. /\ UNCHANGED <<message, dialect, segments, pos>> /\ pc' = "returned"
      /\ Char(pos) = NUL /\ pc \in {"segment", "element"}
  BY DEF EndOfMessage, Unterminated, Fail, Return, input, tree, cursor
<1>2. AllOK(segments)' /\ Place'
  BY <1>1, TreeKept, PlaceAtReturn DEF FieldsInv
<1>3. /\ Given /\ Len(message) \in Nat /\ pos = Len(message) + 1
      /\ segments \in Seq(Segment) /\ parser = "temporary"
  BY <1>1, Basics DEF FieldsInv, Reading
<1>4. /\ {v.from : v \in ValuesOf(segments)} = FieldsTo(pos)
      /\ Offsets(segments) = OffsetsTo(Opened)
      /\ Increasing(segments)
  BY <1>1 DEF FieldsInv, Place, Found, Reading, Reached
<1>5. FieldsTo(pos) = FieldStarts
  BY <1>3 DEF FieldsTo, FieldStarts, Positions
<1>6. OffsetsTo(Opened) = {dialect.skip + a - 1 : a \in SegmentStarts}
  <2>1. Opened \in Nat /\ Opened >= pos
    BY <1>3 DEF Opened
  <2>2. {b \in SegmentStarts : b < Opened} = SegmentStarts
    BY <1>3, <2>1 DEF SegmentStarts, Positions
  <2> QED BY <2>2 DEF OffsetsTo
<1>7. NothingIsLost
  BY <1>3, <1>4, <1>5, <1>6, TreeSets DEF NothingIsLost, Increasing
<1>8. NothingIsLost'
  <2>1. /\ {v.from : v \in AllValues'} = FieldStarts'
        /\ {s.offset : s \in Range(segments')} = {dialect'.skip + a - 1 : a \in SegmentStarts'}
    <3>1. AllValues' = AllValues
      BY <1>1 DEF AllValues, AllElements
    <3> QED BY <1>1, <1>3, <1>4, <1>5, <1>6, <3>1, TreeSets, FieldsPrimed
  <2> QED BY <1>1, <1>4, <2>1 DEF NothingIsLost, Increasing
<1>9. UnterminatedExactly'
  <2> DEFINE Open == \E a \in SegmentStarts : \A i \in a..Len(message) : ~Is(i, {dialect.seg})
  <2>1. Open' = Open
    BY <1>1, FieldsPrimed
  <2>2. CASE EndOfMessage
    <3>1. error'.temporary = "NONE"
      BY <2>2 DEF EndOfMessage, FieldsInv, Typed, Shape
    <3>2. ~Open
      <4> SUFFICES ASSUME NEW a \in SegmentStarts
                   PROVE  \E i \in a..Len(message) : Is(i, {dialect.seg})
        OBVIOUS
      <4>1. a < pos /\ pos - 1 = Len(message)
        BY <1>3 DEF SegmentStarts, Positions
      <4>2. pc = "segment"
        BY <2>2 DEF EndOfMessage
      <4> QED BY <4>1, <4>2 DEF FieldsInv, Place, AtStart
    <3> QED BY <2>1, <3>1, <3>2 DEF UnterminatedExactly
  <2>3. CASE Unterminated
    <3>1. error'.temporary = "UNTERMINATED"
      <4>1. error \in [{"caller", "temporary"} -> {"NONE", "SYSTEM", "UNTERMINATED", "EMPTY"}]
        BY DEF FieldsInv, Typed, TypeOK
      <4> QED BY <1>3, <2>3, <4>1 DEF Unterminated, Fail
    <3>2. Open
      <4>1. StartOf(seg) \in SegmentStarts /\ Reaches(StartOf(seg), pos)
        BY <2>3 DEF Unterminated, FieldsInv, Place, InOpenSegment, Inside
      <4>2. pos - 1 = Len(message)
        BY <1>3
      <4> QED BY <4>1, <4>2 DEF Reaches
    <3> QED BY <2>1, <3>1, <3>2 DEF UnterminatedExactly
  <2> QED BY <2>2, <2>3
<1> QED BY <1>2, <1>8, <1>9 DEF Ended

\* No fields and no segments are added where none starts.
LEMMA ToSame ==
  ASSUME NEW p \in Nat, NEW q \in Nat, p <= q
  PROVE  /\ (\A a \in FieldStarts : a < q => a < p) => FieldsTo(q) = FieldsTo(p)
         /\ (\A a \in SegmentStarts : a < q => a < p) => OffsetsTo(q) = OffsetsTo(p)
<1>1. ASSUME \A a \in FieldStarts : a < q => a < p PROVE FieldsTo(q) = FieldsTo(p)
  <2>1. ASSUME NEW a PROVE a \in FieldsTo(q) <=> a \in FieldsTo(p)
    BY <1>1 DEF FieldsTo, FieldStarts, Positions
  <2> QED BY <2>1 DEF FieldsTo
<1>2. ASSUME \A a \in SegmentStarts : a < q => a < p PROVE OffsetsTo(q) = OffsetsTo(p)
  <2>1. ASSUME NEW a PROVE a \in {b \in SegmentStarts : b < q} <=> a \in {b \in SegmentStarts : b < p}
    BY <1>2 DEF SegmentStarts, Positions
  <2>2. {b \in SegmentStarts : b < q} = {b \in SegmentStarts : b < p}
    BY <2>1
  <2> QED BY <2>2 DEF OffsetsTo
<1> QED BY <1>1, <1>2

\* No segment and no field starts at a newline between segments.
LEMMA SkipNewlineFields ==
  ASSUME FieldsInv, SkipNewline
  PROVE  AllOK(segments)' /\ Place' /\ Ended'
<1>1. /\ UNCHANGED <<message, dialect, segments>> /\ pc = "segment" /\ pc' = "segment"
      /\ pos' = pos + 1 /\ Char(pos) \in Newlines
  BY DEF SkipNewline, input, tree
<1>2. AllOK(segments)'
  BY <1>1, TreeKept DEF FieldsInv
<1>3. Ended'
  BY <1>1 DEF Ended, Parsed
<1>4. /\ Given /\ Len(message) \in Nat /\ pos \in Positions
  <2>1. Given /\ Len(message) \in Nat /\ pos \in Nat \ {0} /\ pos \in 1..(Len(message) + 1)
    BY <1>1, Basics DEF FieldsInv, Reading
  <2>2. Char(pos) # NUL
    BY <1>1, <2>1, InputFacts
  <2> QED BY <1>1, <2>1, <2>2, Basics DEF FieldsInv, Reading
<1>5. /\ AtFront(pos)
      /\ \A a \in SegmentStarts :
           a < pos => \E k \in a..(pos - 1) : Is(k, {dialect.seg})
  BY <1>1 DEF FieldsInv, Place, AtStart
<1>6. pos \notin SegmentStarts /\ Char(pos) # NUL
  BY <1>1, <1>4, InputFacts DEF SegmentStarts
<1>7. AtFront(pos + 1)
  <2>1. PICK j \in 1..pos : /\ j = 1 \/ Is(j - 1, {dialect.seg})
                            /\ \A k \in j..(pos - 1) : Char(k) \in Newlines
    BY <1>5 DEF AtFront
  <2>2. pos \in Nat
    BY <1>4 DEF Positions
  <2>3. j \in 1..(pos + 1) /\ \A k \in j..((pos + 1) - 1) : Char(k) \in Newlines
    BY <1>1, <2>1, <2>2
  <2> QED BY <2>1, <2>3 DEF AtFront
<1>8. ASSUME NEW a \in SegmentStarts, a < pos + 1
      PROVE  a < pos /\ \E k \in a..((pos + 1) - 1) : Is(k, {dialect.seg})
  <2>1. a \in Nat /\ pos \in Nat
    BY <1>4 DEF SegmentStarts, Positions
  <2>2. a < pos
    BY <1>6, <1>8, <2>1
  <2> QED BY <1>5, <2>1, <2>2
<1>9. AtStart'
  BY <1>1, <1>7, <1>8, FieldsPrimed DEF AtStart
<1>10. pos \notin FieldStarts
  <2> SUFFICES ASSUME pos - 1 \in Boundaries, Char(pos - 1) # dialect.seg PROVE FALSE
    BY <1>6 DEF FieldStarts
  <2>1. PICK a \in SegmentStarts : Reaches(a, pos - 1)
    BY DEF Boundaries
  <2>2. a \in Nat \ {0} /\ pos \in Nat \ {0} /\ a <= pos - 1
    BY <1>4, <2>1 DEF SegmentStarts, Positions, Reaches
  <2>3. PICK k \in a..(pos - 1) : Is(k, {dialect.seg})
    BY <1>5, <2>2
  <2>4. k = pos - 1
    BY <2>1, <2>2, <2>3 DEF Reaches
  <2> QED BY <2>3, <2>4 DEF Is
<1>11. FieldsTo(pos + 1) = FieldsTo(pos) /\ OffsetsTo(pos + 1) = OffsetsTo(pos)
  <2>1. pos \in Nat /\ FieldStarts \subseteq Nat /\ SegmentStarts \subseteq Nat
    BY <1>4 DEF FieldStarts, SegmentStarts, Positions
  <2>2. /\ \A a \in FieldStarts : a < pos + 1 => a < pos
        /\ \A a \in SegmentStarts : a < pos + 1 => a < pos
    BY <1>6, <1>10, <2>1
  <2> QED BY <2>1, <2>2, ToSame
<1>12. Found'
  BY <1>1, <1>11, TreeOpsPrimed DEF FieldsInv, Place, Found, Reading, Reached, Opened, Inside
<1> QED BY <1>1, <1>2, <1>3, <1>9, <1>12 DEF Place, Fresh, InOpenSegment, AtField, InField,
       Scanning, Copying, Inside

\* Behind a terminator the next segment may start.
LEMMA EndSegmentFields ==
  ASSUME FieldsInv, EndSegment
  PROVE  AllOK(segments)' /\ Place' /\ Ended'
<1>1. /\ UNCHANGED <<message, dialect, segments>> /\ pc = "element" /\ pc' = "segment"
      /\ pos' = pos + 1 /\ Char(pos) = dialect.seg
  BY DEF EndSegment, input, tree
<1>2. AllOK(segments)'
  BY <1>1, TreeKept DEF FieldsInv
<1>3. Ended'
  BY <1>1 DEF Ended, Parsed
<1>4. Given /\ Len(message) \in Nat /\ pos \in Positions /\ pos \in Nat \ {0}
  <2>1. Given /\ Len(message) \in Nat /\ pos \in 1..(Len(message) + 1)
    BY <1>1, Basics DEF FieldsInv, Reading
  <2>2. Char(pos) # NUL
    BY <1>1, <2>1, InputFacts
  <2> QED BY <1>1, <2>1, <2>2, Basics DEF FieldsInv, Reading
<1> DEFINE c == StartOf(seg)
<1>5. c \in SegmentStarts /\ Reaches(c, pos) /\ Escaped[pos] = FALSE
  BY <1>1, <1>4, InputFacts DEF FieldsInv, Place, InOpenSegment, AtField, Inside
<1> HIDE DEF c
<1>6. Is(pos, {dialect.seg})
  BY <1>1, <1>5 DEF Is
<1>7. AtFront(pos + 1)
  <2>1. (pos + 1) - 1 = pos /\ pos + 1 \in 1..(pos + 1)
        /\ \A k \in (pos + 1)..((pos + 1) - 1) : Char(k) \in Newlines
    BY <1>4
  <2> QED BY <1>6, <2>1 DEF AtFront
<1>8. ASSUME NEW a \in SegmentStarts, a < pos + 1
      PROVE  \E k \in a..((pos + 1) - 1) : Is(k, {dialect.seg})
  <2>1. a \in Nat /\ pos \in a..((pos + 1) - 1)
    BY <1>4, <1>8 DEF SegmentStarts, Positions
  <2> QED BY <1>6, <2>1
<1>9. AtStart'
  BY <1>1, <1>7, <1>8, FieldsPrimed DEF AtStart
<1>10. FieldsTo(pos + 1) = FieldsTo(pos)
  <2>1. pos \notin FieldStarts /\ FieldStarts \subseteq Nat
    BY <1>1 DEF FieldStarts, Positions
  <2>2. \A a \in FieldStarts : a < pos + 1 => a < pos
    BY <1>4, <2>1
  <2> QED BY <1>4, <2>2, ToSame
<1>11. Found'
  BY <1>1, <1>10, TreeOpsPrimed DEF FieldsInv, Place, Found, Reading, Reached, Opened, Inside
<1> QED BY <1>1, <1>2, <1>3, <1>9, <1>11 DEF Place, Fresh, InOpenSegment, AtField, InField,
       Scanning, Copying, Inside

\* What InOpenSegment says inside a segment.
LEMMA OpenSegmentFacts ==
  ASSUME FieldsInv, Inside
  PROVE  /\ StartOf(seg) \in SegmentStarts /\ StartOf(seg) <= Reached
         /\ Reaches(StartOf(seg), pos)
         /\ FirstOpen <=> NoTag(StartOf(seg), pos)
BY DEF FieldsInv, Place, InOpenSegment

\* What is to be shown of a step that stays inside the segment.
LEMMA OpenSegmentKept ==
  ASSUME message' = message, dialect' = dialect, NEW c, StartOf(seg)' = c,
         NEW p, pos' = p, c \in SegmentStarts, c <= Reached', Reaches(c, p),
         FirstOpen' <=> NoTag(c, p)
  PROVE  InOpenSegment'
<1>1. Reaches(c, p)' = Reaches(c, p) /\ SegmentStarts' = SegmentStarts
  BY FieldsPrimed
<1>2. NoTag(c, p)' <=> NoTag(c, p)
  BY FieldsPrimed DEF NoTag
<1>3. /\ StartOf(seg)' \in SegmentStarts' /\ StartOf(seg)' <= Reached'
      /\ Reaches(StartOf(seg), pos)'
  BY <1>1
<1>4. FirstOpen' <=> NoTag(StartOf(seg), pos)'
  BY <1>2
<1> QED BY <1>3, <1>4 DEF InOpenSegment

\* A segment is made where one starts, and no other place.
LEMMA NewSegmentFields ==
  ASSUME FieldsInv, NewSegment
  PROVE  AllOK(segments)' /\ Place' /\ Ended'
<1> DEFINE s == NewSegmentAt(pos)
<1>1. /\ UNCHANGED <<message, dialect, pos>> /\ pc = "segment" /\ pc' = "element"
      /\ Char(pos) \notin Newlines \union {NUL} /\ newel'
      /\ segments' = Append(segments, s)
  BY DEF NewSegment, AtSegment, input
<1>2. Ended'
  BY <1>1 DEF Ended, Parsed
<1>3. /\ Given /\ Len(message) \in Nat /\ pos \in Positions /\ pos \in Nat \ {0}
      /\ segments \in Seq(Segment)
  BY <1>1, Basics DEF FieldsInv, Reading, Positions
<1>4. s \in Segment /\ s.elements = <<>> /\ s.tag = NoValue
      /\ s.offset = dialect.skip + pos - 1 /\ dialect.skip \in Nat
  BY <1>3, InputFacts DEF NewSegmentAt, Segment
<1>5. StartOf(s) = pos
  BY <1>3, <1>4 DEF StartOf
<1> HIDE DEF s
<1>6. AtFront(pos) /\ pos \in SegmentStarts
  BY <1>1, <1>3 DEF FieldsInv, Place, AtStart, SegmentStarts
<1>7. /\ AllOK(segments)
      /\ {v.from : v \in ValuesOf(segments)} = FieldsTo(pos)
      /\ Offsets(segments) = OffsetsTo(pos) /\ Increasing(segments)
  BY <1>1 DEF FieldsInv, Place, Found, Reading, Reached, Opened, Inside
<1>8. SegmentOK(s) /\ SegmentValues(s) = {}
  BY <1>4, NewSegmentOK
<1>9. /\ ValuesOf(segments') = ValuesOf(segments)
      /\ LastOf(segments') = s
  BY <1>1, <1>3, <1>4, <1>8, ValuesOfAppend, AppendIsSeq
<1>10. \A x \in Offsets(segments) : x < s.offset
  <2>1. \A a \in SegmentStarts : a < pos => dialect.skip + a - 1 < dialect.skip + pos - 1
    BY <1>3, <1>4 DEF SegmentStarts, Positions
  <2> QED BY <1>4, <1>7, <2>1 DEF OffsetsTo
<1>11. /\ Offsets(segments') = OffsetsTo(pos) \union {s.offset}
       /\ Increasing(segments') /\ AllOK(segments')
  BY <1>1, <1>3, <1>4, <1>7, <1>8, <1>10, TreeOfAppend
<1>12. OffsetsTo(pos + 1) = OffsetsTo(pos) \union {s.offset}
  <2>1. {b \in SegmentStarts : b < pos + 1} = {b \in SegmentStarts : b < pos} \union {pos}
    BY <1>3, <1>6 DEF SegmentStarts, Positions
  <2> QED BY <1>4, <2>1 DEF OffsetsTo
<1>13. AllOK(segments)'
  <2>1. AllOK(segments)' = AllOK(segments')
    BY <1>1, TreeOpsPrimed
  <2> QED BY <1>11, <2>1
<1>14. Found'
  <2>1. /\ {v.from : v \in ValuesOf(segments')} = FieldsTo(pos)
        /\ Offsets(segments') = OffsetsTo(pos + 1) /\ Increasing(segments')
    BY <1>7, <1>9, <1>11, <1>12
  <2>2. Reached' = pos /\ Opened' = pos + 1
    BY <1>1 DEF Reached, Opened, Inside
  <2> QED BY <1>1, <2>1, <2>2, TreeOpsPrimed DEF Found
<1>15. seg' = s
  BY <1>9 DEF seg
<1>16. StartOf(seg)' = pos
  <2>1. StartOf(seg)' = StartOf(s)
    BY <1>1, <1>15, TreePrimed
  <2> QED BY <1>5, <2>1
<1>17. InOpenSegment'
  <2>1. Reaches(pos, pos) /\ NoTag(pos, pos)
    BY <1>3 DEF Reaches, NoTag
  <2>2. FirstOpen'
    BY <1>4, <1>15 DEF FirstOpen
  <2>3. pos <= Reached'
    BY <1>1, <1>3 DEF Reached
  <2> QED BY <1>1, <1>6, <1>16, <2>1, <2>2, <2>3, OpenSegmentKept
<1>18. AtField'
  <2>1. Escaped[pos] = FALSE
    <3>1. pos \in 1..(Len(message) + 1)
      BY <1>3 DEF Positions
    <3> QED BY <1>3, <1>6, <3>1, NotEscapedAtFront
  <2>2. Char(pos) # dialect.seg => pos \in FieldStarts
    BY <1>3, <1>6 DEF FieldStarts
  <2>3. NewFits(s, pos)
    BY <1>4, <1>5 DEF NewFits
  <2>4. NewFits(seg, pos)'
    <3>1. NewFits(seg, pos)' = NewFits(s, pos)
      BY <1>1, <1>15, TreePrimed
    <3> QED BY <2>3, <3>1
  <2> QED BY <1>1, <2>1, <2>2, <2>4, FieldsPrimed DEF AtField
<1> QED BY <1>1, <1>2, <1>13, <1>14, <1>17, <1>18 DEF Place, Fresh, AtStart, InField,
       Scanning, Copying

\* A value is begun where a field starts.
LEMMA StartValueFields ==
  ASSUME FieldsInv, StartValue
  PROVE  AllOK(segments)' /\ Place' /\ Ended'
<1>1. /\ UNCHANGED <<message, dialect, segments, pos, newel>> /\ pc = "element" /\ pc' = "scan"
      /\ ts' = pos /\ e' = FALSE /\ ~newel /\ Char(pos) \notin {NUL, dialect.seg}
  BY DEF StartValue, AtElement, input, tree
<1>2. AllOK(segments)' /\ seg' = seg
  BY <1>1, TreeKept DEF FieldsInv
<1>3. Ended'
  BY <1>1 DEF Ended, Parsed
<1>4. pos \in 1..(Len(message) + 1) /\ Len(message) \in Nat
  BY <1>1, Basics DEF FieldsInv, Reading
<1>5. /\ Escaped[pos] = FALSE /\ pos \in FieldStarts /\ NextFits(seg, pos)
  BY <1>1 DEF FieldsInv, Place, AtField
<1>6. StartOf(seg)' = StartOf(seg) /\ NextFits(seg, ts)' = NextFits(seg, pos)
  BY <1>1, <1>2, TreePrimed
<1>7. Found'
  BY <1>1, TreeOpsPrimed DEF FieldsInv, Place, Found, Reading, Reached, Opened, Inside
<1>8. InOpenSegment'
  <2>1. /\ StartOf(seg) \in SegmentStarts /\ StartOf(seg) <= Reached
        /\ Reaches(StartOf(seg), pos)
        /\ FirstOpen <=> NoTag(StartOf(seg), pos)
    BY <1>1, OpenSegmentFacts DEF Inside
  <2>2. (FirstOpen' <=> FirstOpen) /\ Reached' = Reached
    BY <1>1, <1>2 DEF FirstOpen, Reached
  <2> QED BY <1>1, <1>6, <2>1, <2>2, OpenSegmentKept
<1>9. InField'
  <2>1. \A i \in pos..(pos - 1) : i \notin Boundaries
    BY <1>4
  <2> QED BY <1>1, <1>5, <1>6, <2>1, FieldsPrimed DEF InField
<1>10. Scanning'
  BY <1>1, <1>5, FieldsPrimed DEF Scanning
<1> QED BY <1>1, <1>2, <1>3, <1>7, <1>8, <1>9, <1>10
    DEF Place, Fresh, AtStart, AtField, Copying

\* An element is made in front of the field that belongs into it.
LEMMA NewElementFields ==
  ASSUME FieldsInv, NewElement
  PROVE  AllOK(segments)' /\ Place' /\ Ended'
<1> DEFINE x == NewElementHere
           t == [offset |-> seg.offset, tag |-> seg.tag, elements |-> Append(seg.elements, x)]
<1>1. /\ UNCHANGED <<message, dialect, pos>> /\ pc = "element" /\ pc' = "element"
      /\ newel /\ ~newel' /\ Char(pos) \notin {NUL, dialect.seg}
      /\ segments' = SetLast(segments, [seg EXCEPT !.elements = Append(@, x)])
  BY DEF NewElement, AtElement, input
<1>2. Ended'
  BY <1>1 DEF Ended, Parsed
<1>3. /\ Given /\ segments \in Seq(Segment) /\ segments # <<>> /\ seg \in Segment
      /\ seg.elements \in Seq(Element)
  BY <1>1, Basics DEF FieldsInv, Reading, Inside
<1>4. x \in Element /\ x.values = <<>>
  BY DEF NewElementHere, Element
<1>5. /\ Append(seg.elements, x) \in Seq(Element)
      /\ Len(Append(seg.elements, x)) = Len(seg.elements) + 1
      /\ LastOf(Append(seg.elements, x)) = x
      /\ \A i \in 1..Len(seg.elements) : Append(seg.elements, x)[i] = seg.elements[i]
      /\ Append(seg.elements, x)[Len(seg.elements) + 1] = x
      /\ Len(seg.elements) \in Nat
  <2> HIDE DEF x
  <2> QED BY <1>3, <1>4, AppendIsSeq
<1>6. /\ t \in Segment /\ t.elements = Append(seg.elements, x)
      /\ t.tag = seg.tag /\ t.offset = seg.offset
  BY <1>3, <1>5 DEF Segment
<1>7. segments' = SetLast(segments, t)
  <2>1. seg = [offset |-> seg.offset, tag |-> seg.tag, elements |-> seg.elements]
    BY <1>3 DEF Segment
  <2>2. t = [seg EXCEPT !.elements = Append(@, x)]
    BY <2>1
  <2> QED BY <1>1, <2>2
<1> HIDE DEF t, x
<1>8. SegmentOK(seg) /\ AllOK(segments)
  BY <1>3, SetLastIsSeq DEF FieldsInv, AllOK, seg, LastOf
<1>9. SegmentOK(t) /\ SegmentValues(t) = SegmentValues(seg)
  BY <1>3, <1>4, <1>6, <1>8, NewElementOK
<1>10. ValuesOf(segments') = ValuesOf(segments)
  <2> DEFINE X == {}
  <2>1. SegmentValues(t) = SegmentValues(LastOf(segments)) \union X
    BY <1>9 DEF seg
  <2> HIDE DEF X
  <2>2. ValuesOf(segments') = ValuesOf(segments) \union X
    BY <1>3, <1>6, <1>7, <2>1, ValuesOfSetLast
  <2> QED BY <2>2 DEF X
<1>11. /\ Offsets(segments') = Offsets(segments)
       /\ Increasing(segments) => Increasing(segments')
       /\ AllOK(segments')
  BY <1>3, <1>6, <1>7, <1>8, <1>9, TreeOfSetLast DEF seg
<1>12. seg' = t
  BY <1>3, <1>6, <1>7, SetLastIsSeq DEF seg
<1>13. AllOK(segments)'
  <2>1. AllOK(segments)' = AllOK(segments')
    BY <1>1, TreeOpsPrimed
  <2> QED BY <1>11, <2>1
<1>14. Found'
  BY <1>1, <1>10, <1>11, TreeOpsPrimed DEF FieldsInv, Place, Found, Reading, Reached, Opened, Inside
<1>15. StartOf(seg)' = StartOf(seg) /\ StartOf(t) = StartOf(seg)
  <2>1. StartOf(seg)' = StartOf(t)
    BY <1>1, <1>12, TreePrimed
  <2> QED BY <1>6, <2>1 DEF StartOf
<1>16. InOpenSegment'
  <2>1. FirstOpen' <=> FirstOpen
    <3>1. Len(seg'.elements) = Len(seg.elements) + 1
      BY <1>5, <1>6, <1>12
    <3>2. FirstOpen <=> Len(seg.elements) = 0
      BY <1>1 DEF FirstOpen
    <3>3. FirstOpen' <=> Len(seg.elements) = 0
      BY <1>1, <1>5, <3>1 DEF FirstOpen
    <3> QED BY <3>2, <3>3
  <2>2. Reached' = Reached
    BY <1>1 DEF Reached
  <2>3. /\ StartOf(seg) \in SegmentStarts /\ StartOf(seg) <= Reached
        /\ Reaches(StartOf(seg), pos)
        /\ FirstOpen <=> NoTag(StartOf(seg), pos)
    BY <1>1, OpenSegmentFacts DEF Inside
  <2> QED BY <1>1, <1>15, <2>1, <2>2, <2>3, OpenSegmentKept
<1>17. AtField'
  <2>1. NewFits(seg, pos) /\ pos \in FieldStarts /\ Escaped[pos] = FALSE
    BY <1>1 DEF FieldsInv, Place, AtField
  <2>2. NextFits(t, pos)
    <3>1. Len(t.elements) = Len(seg.elements) + 1 /\ t.elements[Len(t.elements)].values = <<>>
      BY <1>4, <1>5, <1>6
    <3>2. CASE seg.elements = <<>>
      <4>1. Len(t.elements) = 1 /\ pos = StartOf(t)
        BY <1>5, <1>15, <2>1, <3>1, <3>2 DEF NewFits
      <4> QED BY <3>1, <4>1 DEF NextFits
    <3>3. CASE seg.elements # <<>>
      <4>1. /\ Len(t.elements) # 1 /\ Len(seg.elements) \in 1..Len(seg.elements)
            /\ Len(t.elements) - 1 = Len(seg.elements)
        BY <1>3, <1>5, <3>1, <3>3
      <4>2. t.elements[Len(t.elements) - 1] = LastOf(seg.elements)
        BY <1>5, <1>6, <4>1 DEF LastOf
      <4>3. /\ pos = EndOf(LastOf(LastOf(seg.elements).values)) + 1
            /\ Char(pos - 1) \in {dialect.data, dialect.tag}
        BY <2>1, <3>3 DEF NewFits
      <4> QED BY <3>1, <4>1, <4>2, <4>3 DEF NextFits
    <3> QED BY <3>2, <3>3
  <2>3. NextFits(seg, pos)'
    <3>1. NextFits(seg, pos)' = NextFits(t, pos)
      BY <1>1, <1>12, TreePrimed
    <3> QED BY <2>2, <3>1
  <2> QED BY <1>1, <2>1, <2>3, FieldsPrimed DEF AtField
<1> QED BY <1>1, <1>2, <1>13, <1>14, <1>16, <1>17 DEF Place, Fresh, AtStart, InField,
       Scanning, Copying

\* Within a field the separator of the element is the one the message shows.
LEMMA BreaksIsBoundary ==
  ASSUME FieldsInv, pc = "scan", pos \in Positions
  PROVE  /\ Escaped[pos] = FALSE /\ Breaks(pos) => pos \in Boundaries
         /\ pos \in Boundaries => Escaped[pos] = FALSE /\ Breaks(pos)
<1> DEFINE c == StartOf(seg)
<1>1. Given /\ seg.elements \in Seq(Element) /\ seg.elements # <<>>
  BY Basics DEF FieldsInv, Reading, Inside, Typed, Shape
<1>2. c \in SegmentStarts /\ Reaches(c, pos) /\ (FirstElement <=> NoTag(c, pos))
  <2>1. ~newel
    BY DEF FieldsInv, Place, InField
  <2>2. Len(seg.elements) # 0
    BY <1>1
  <2>3. FirstOpen <=> FirstElement
    BY <2>1, <2>2 DEF FirstOpen, FirstElement
  <2> QED BY <2>3, OpenSegmentFacts DEF Inside
<1> HIDE DEF c
<1>3. SeparatorAt(c, pos) = IF FirstElement THEN dialect.tag ELSE dialect.data
  BY <1>2 DEF SeparatorAt, NoTag
<1>4. Escaped[pos] \in BOOLEAN
  <2>1. Len(message) \in Nat
    BY <1>1, InputFacts
  <2>2. pos \in 1..(Len(message) + 1)
    BY <2>1 DEF Positions
  <2> QED BY <1>1, <2>2, EscapedFacts
<1>5. pos \in Boundaries <=> Is(pos, {dialect.sub, dialect.seg, SeparatorAt(c, pos)})
  BY <1>1, <1>2, BoundaryInside
<1>6. Is(pos, {dialect.sub, dialect.seg, SeparatorAt(c, pos)})
        <=> Escaped[pos] = FALSE /\ Breaks(pos)
  BY <1>3, <1>4 DEF Is, Breaks
<1> QED BY <1>5, <1>6

\* No field ends before the character that scanning stops at.
LEMMA ScanFields ==
  ASSUME FieldsInv, Scan
  PROVE  AllOK(segments)' /\ Place' /\ Ended'
<1>1. /\ UNCHANGED <<message, dialect, segments, ts, newel>> /\ pc = "scan" /\ pc' = "scan"
      /\ pos' = pos + 1 /\ Char(pos) # NUL
      /\ e \/ Escapes(pos) \/ ~Breaks(pos)
      /\ e' = (~e /\ Escapes(pos))
  BY DEF Scan, input, tree
<1>2. AllOK(segments)' /\ seg' = seg
  BY <1>1, TreeKept DEF FieldsInv
<1>3. Ended'
  BY <1>1 DEF Ended, Parsed
<1>4. /\ Given /\ Len(message) \in Nat /\ pos \in Positions /\ pos \in Nat \ {0}
      /\ ts \in 1..pos /\ StartOf(seg) \in Int
  BY <1>1, Basics DEF FieldsInv, Reading, Inside
<1>5. e = Escaped[pos]
  BY <1>1 DEF FieldsInv, Place, Scanning
<1> DEFINE c == StartOf(seg)
<1>6. /\ c \in SegmentStarts /\ Reaches(c, pos) /\ c <= ts /\ c \in Nat
      /\ FirstOpen <=> NoTag(c, pos)
  <2>1. /\ c \in SegmentStarts /\ Reaches(c, pos) /\ c <= Reached
        /\ FirstOpen <=> NoTag(c, pos)
    BY <1>1, OpenSegmentFacts DEF Inside
  <2> HIDE DEF c
  <2>2. c \in Nat /\ c <= ts
    BY <1>1, <2>1 DEF Reached, SegmentStarts, Positions
  <2> QED BY <2>1, <2>2
<1>7. /\ ~newel /\ ts \in FieldStarts /\ Escaped[ts] = FALSE /\ NextFits(seg, ts)
      /\ \A i \in ts..(pos - 1) : i \notin Boundaries
  BY <1>1 DEF FieldsInv, Place, InField
<1>8. pos \notin Boundaries
  <2>1. ASSUME pos \in Boundaries PROVE FALSE
    <3>1. Escaped[pos] = FALSE /\ Breaks(pos)
      BY <1>1, <1>4, <2>1, BreaksIsBoundary
    <3>2. Escapes(pos)
      BY <1>1, <1>5, <3>1
    <3>3. Char(pos) \notin {dialect.seg, dialect.data, dialect.sub, dialect.tag} \union Newlines
      BY <1>4, <3>2, InputFacts
    <3> QED BY <3>1, <3>3 DEF Breaks
  <2> QED BY <2>1
<1>9. pos \in Boundaries <=> Is(pos, {dialect.sub, dialect.seg, SeparatorAt(c, pos)})
  <2> HIDE DEF c
  <2> QED BY <1>4, <1>6, BoundaryInside
<1>10. ~Is(pos, {dialect.seg})
  BY <1>8, <1>9 DEF Is
<1>11. Reaches(c, pos + 1)
  <2> HIDE DEF c
  <2>1. \A k \in c..((pos + 1) - 1) : k \in c..(pos - 1) \/ k = pos
    BY <1>4, <1>6
  <2>2. c <= pos + 1
    BY <1>4, <1>6
  <2> QED BY <1>6, <1>10, <2>1, <2>2 DEF Reaches
<1>12. NoTag(c, pos + 1) <=> NoTag(c, pos)
  <2> HIDE DEF c
  <2>1. ASSUME NoTag(c, pos) PROVE ~Is(pos, {dialect.tag})
    <3>1. SeparatorAt(c, pos) = dialect.tag
      BY <2>1 DEF SeparatorAt, NoTag
    <3> QED BY <1>8, <1>9, <3>1 DEF Is
  <2>2. \A k \in c..((pos + 1) - 1) : k \in c..(pos - 1) \/ k = pos
    BY <1>4, <1>6
  <2>3. \A k \in c..(pos - 1) : k \in c..((pos + 1) - 1)
    BY <1>4, <1>6
  <2> QED BY <2>1, <2>2, <2>3 DEF NoTag
<1>13. StartOf(seg)' = c /\ NextFits(seg, ts)' = NextFits(seg, ts)
  BY <1>1, <1>2, TreePrimed
<1> HIDE DEF c
<1>14. Found'
  <2>1. OffsetsTo(pos + 2) = OffsetsTo(pos + 1)
    <3>1. \A a \in SegmentStarts : a <= pos + 1 => a <= c
      BY <1>4, <1>6, <1>11, NoStartInside
    <3>2. \A a \in SegmentStarts : a < pos + 2 => a < pos + 1
      BY <1>4, <1>6, <3>1 DEF SegmentStarts, Positions
    <3> QED BY <1>4, <3>2, ToSame
  <2>2. Reached' = Reached /\ Opened = pos + 1 /\ Opened' = pos + 2
    BY <1>1, <1>4 DEF Reached, Opened, Inside
  <2> QED BY <1>1, <2>1, <2>2, TreeOpsPrimed DEF FieldsInv, Place, Found, Reading
<1>15. InOpenSegment'
  <2>1. Reached' = ts /\ (FirstOpen' <=> FirstOpen)
    BY <1>1, <1>2 DEF Reached, FirstOpen
  <2> QED BY <1>1, <1>6, <1>11, <1>12, <1>13, <2>1, OpenSegmentKept
<1>16. InField'
  <2>1. \A i \in ts..((pos + 1) - 1) : i \notin Boundaries
    BY <1>4, <1>7, <1>8
  <2> QED BY <1>1, <1>7, <1>13, <2>1, FieldsPrimed DEF InField
<1>17. Scanning'
  <2>1. Escaped[pos + 1] = (Escapes(pos) /\ ~Escaped[pos])
    BY <1>4, EscapedFacts
  <2>2. Escaped' = Escaped
    BY <1>1, FieldsPrimed
  <2>3. e' = Escaped'[pos']
    BY <1>1, <1>5, <2>1, <2>2, Zenon
  <2> QED BY <2>3 DEF Scanning
<1> QED BY <1>1, <1>2, <1>3, <1>14, <1>15, <1>16, <1>17 DEF Place, Fresh, AtStart, AtField,
       Copying

\* Scanning stops where the field ends.
LEMMA AllocValueFields ==
  ASSUME FieldsInv, AllocValue
  PROVE  AllOK(segments)' /\ Place' /\ Ended'
<1>1. /\ UNCHANGED <<message, dialect, segments, ts, newel, pos>> /\ pc = "scan" /\ pc' = "copy"
      /\ Char(pos) = NUL \/ (~e /\ ~Escapes(pos) /\ Breaks(pos))
      /\ e' = FALSE /\ src' = ts /\ text' = <<>> /\ value' = Pool!Carved(ValueSize)
  BY DEF AllocValue, AtEndOfValue, input, tree
<1>2. AllOK(segments)' /\ seg' = seg
  BY <1>1, TreeKept DEF FieldsInv
<1>3. Ended'
  BY <1>1 DEF Ended, Parsed
<1>4. /\ Given /\ Len(message) \in Nat /\ pos \in 1..(Len(message) + 1) /\ ts \in 1..pos
      /\ Char(pos) # NUL <=> pos \in Positions
  BY <1>1, Basics DEF FieldsInv, Reading
<1>5. e = Escaped[pos]
  BY <1>1 DEF FieldsInv, Place, Scanning
<1>6. /\ ~newel /\ ts \in FieldStarts /\ Escaped[ts] = FALSE /\ NextFits(seg, ts)
      /\ \A i \in ts..(pos - 1) : i \notin Boundaries
  BY <1>1 DEF FieldsInv, Place, InField
<1>7. pos \in Boundaries \/ pos = Len(message) + 1
  <2>1. CASE Char(pos) = NUL
    BY <1>1, <2>1, Basics DEF FieldsInv, Reading
  <2>2. CASE Char(pos) # NUL
    <3>1. Escaped[pos] = FALSE
      BY <1>1, <1>4, <1>5, <2>2, EscapedFacts
    <3> QED BY <1>1, <1>4, <2>2, <3>1, BreaksIsBoundary
  <2> QED BY <2>1, <2>2
<1>8. StartOf(seg)' = StartOf(seg) /\ NextFits(seg, ts)' = NextFits(seg, ts)
  BY <1>1, <1>2, TreePrimed
<1>9. Found'
  BY <1>1, TreeOpsPrimed DEF FieldsInv, Place, Found, Reading, Reached, Opened, Inside
<1>10. InOpenSegment'
  <2>1. /\ StartOf(seg) \in SegmentStarts /\ StartOf(seg) <= Reached
        /\ Reaches(StartOf(seg), pos)
        /\ FirstOpen <=> NoTag(StartOf(seg), pos)
    BY <1>1, OpenSegmentFacts DEF Inside
  <2>2. (FirstOpen' <=> FirstOpen) /\ Reached' = Reached
    BY <1>1, <1>2 DEF FirstOpen, Reached
  <2> QED BY <1>1, <1>8, <2>1, <2>2, OpenSegmentKept
<1>11. InField'
  BY <1>1, <1>6, <1>8, FieldsPrimed DEF InField
<1>12. Copying'
  <2>1. value'.len = pos - ts + 1
    BY <1>1 DEF Pool!Carved, ValueSize
  <2>2. ts \in 1..(Len(message) + 1)
    BY <1>4
  <2>3. Unescaped(ts, ts) = <<>>
    BY <1>4, <2>2, UnescapedFacts
  <2>4. text' = Unescaped(ts, src)' /\ Len(text') <= src' - ts'
    <3>1. Unescaped(ts, src)' = Unescaped(ts, ts)
      BY <1>1, FieldsPrimed
    <3>2. Len(text') = 0 /\ src' - ts' = 0
      BY <1>1, <1>4
    <3> QED BY <1>1, <2>3, <3>1, <3>2
  <2>5. pos' \in Boundaries' \/ pos' = Len(message') + 1
    BY <1>1, <1>7, FieldsPrimed
  <2>6. ts' <= src' /\ e' = Escaped'[src']
    <3>1. Escaped' = Escaped /\ src' = ts /\ e' = FALSE /\ ts' = ts
      BY <1>1, FieldsPrimed
    <3>2. e' = Escaped'[src']
      BY <1>6, <3>1, Zenon
    <3> QED BY <1>4, <3>1, <3>2
  <2> QED BY <1>1, <2>1, <2>4, <2>5, <2>6 DEF Copying
<1> QED BY <1>1, <1>2, <1>3, <1>9, <1>10, <1>11, <1>12 DEF Place, Fresh, AtStart, AtField,
       Scanning

\* What is copied is the text of the field so far.
LEMMA CopyFields ==
  ASSUME FieldsInv, Copy
  PROVE  AllOK(segments)' /\ Place' /\ Ended'
<1>1. /\ UNCHANGED <<message, dialect, segments, ts, newel, pos, value>>
      /\ pc = "copy" /\ pc' = "copy" /\ src < pos
      /\ text' = Copied /\ e' = (~e /\ Escapes(src)) /\ src' = src + 1
  BY DEF Copy, input, tree
<1>2. AllOK(segments)' /\ seg' = seg
  BY <1>1, TreeKept DEF FieldsInv
<1>3. Ended'
  BY <1>1 DEF Ended, Parsed
<1>4. /\ Given /\ Len(message) \in Nat /\ pos \in 1..(Len(message) + 1)
      /\ ts \in 1..pos /\ src \in 1..pos /\ text \in Seq(Chars)
  BY <1>1, Basics DEF FieldsInv, Reading
<1>5. /\ pos \in Boundaries \/ pos = Len(message) + 1
      /\ value.len = pos - ts + 1
      /\ ts <= src /\ e = Escaped[src]
      /\ text = Unescaped(ts, src) /\ Len(text) <= src - ts
  BY <1>1 DEF FieldsInv, Place, Copying
<1>6. src \in Positions /\ src \in ts..Len(message) /\ ts \in 1..(Len(message) + 1)
  BY <1>1, <1>4, <1>5 DEF Positions
<1>7. StartOf(seg)' = StartOf(seg) /\ NextFits(seg, ts)' = NextFits(seg, ts)
  BY <1>1, <1>2, TreePrimed
<1>8. Found'
  BY <1>1, TreeOpsPrimed DEF FieldsInv, Place, Found, Reading, Reached, Opened, Inside
<1>9. InOpenSegment'
  <2>1. /\ StartOf(seg) \in SegmentStarts /\ StartOf(seg) <= Reached
        /\ Reaches(StartOf(seg), pos)
        /\ FirstOpen <=> NoTag(StartOf(seg), pos)
    BY <1>1, OpenSegmentFacts DEF Inside
  <2>2. (FirstOpen' <=> FirstOpen) /\ Reached' = Reached
    BY <1>1, <1>2 DEF FirstOpen, Reached
  <2> QED BY <1>1, <1>7, <2>1, <2>2, OpenSegmentKept
<1>10. InField'
  BY <1>1, <1>7, FieldsPrimed DEF FieldsInv, Place, InField
<1>11. e' = Escaped'[src']
  <2>1. Escaped[src + 1] = (Escapes(src) /\ ~Escaped[src])
    BY <1>4, <1>6, EscapedFacts
  <2>2. Escaped' = Escaped
    BY <1>1, FieldsPrimed
  <2> QED BY <1>1, <1>5, <2>1, <2>2, Zenon
<1>12. Char(src) = message[src] /\ message[src] \in Chars
  BY <1>4, <1>6, InputFacts DEF Positions
<1>13. text' = Unescaped(ts, src + 1)
  <2>1. Unescaped(ts, src + 1) =
          IF Escaped[src] \/ ~Escapes(src) THEN Append(Unescaped(ts, src), message[src])
          ELSE Unescaped(ts, src)
    BY <1>4, <1>6, UnescapedFacts
  <2>2. text' = IF ~e /\ Escapes(src) THEN text ELSE Append(text, message[src])
    BY <1>1, <1>12 DEF Copied
  <2>3. CASE ~Escaped[src] /\ Escapes(src)
    BY <1>5, <2>1, <2>2, <2>3, Zenon
  <2>4. CASE ~(~Escaped[src] /\ Escapes(src))
    BY <1>5, <2>1, <2>2, <2>4, Zenon
  <2> QED BY <2>3, <2>4
<1>14. Len(text') <= src' - ts'
  <2>1. text' = text \/ text' = Append(text, message[src])
    BY <1>1, <1>12 DEF Copied
  <2>2. Len(text') <= Len(text) + 1 /\ Len(text) \in Nat /\ Len(text') \in Nat
    BY <1>4, <1>12, <2>1
  <2> QED BY <1>1, <1>4, <1>5, <2>2
<1>15. Copying'
  <2>1. text' = Unescaped(ts, src)'
    BY <1>1, <1>13, FieldsPrimed
  <2>2. pos' \in Boundaries' \/ pos' = Len(message') + 1
    BY <1>1, <1>5, FieldsPrimed
  <2>3. ts' <= src' /\ value'.len = pos' - ts' + 1
    BY <1>1, <1>4, <1>5
  <2> QED BY <1>11, <1>14, <2>1, <2>2, <2>3 DEF Copying
<1> QED BY <1>1, <1>2, <1>3, <1>8, <1>9, <1>10, <1>15 DEF Place, Fresh, AtStart, AtField,
       Scanning

\* The value that Store puts into the tree is the field from ts to pos.
LEMMA StoredIsField ==
  ASSUME FieldsInv, pc = "copy", src = pos
  PROVE  LET v == [loc |-> value, text |-> text, from |-> ts]
         IN  v \in Values /\ IsField(v) /\ EndOf(v) = pos /\ v.loc = value /\ v.from = ts
<1> DEFINE v == [loc |-> value, text |-> text, from |-> ts]
<1>1. /\ Given /\ Len(message) \in Nat /\ pos \in 1..(Len(message) + 1)
      /\ ts \in 1..pos /\ text \in Seq(Chars)
  BY Basics DEF FieldsInv, Reading
<1>2. /\ pos \in Boundaries \/ pos = Len(message) + 1
      /\ value.len = pos - ts + 1
      /\ text = Unescaped(ts, pos) /\ Len(text) <= pos - ts
  BY DEF FieldsInv, Place, Copying
<1>3. ts \in FieldStarts /\ \A i \in ts..(pos - 1) : i \notin Boundaries
  BY DEF FieldsInv, Place, InField
<1>4. value \in Pool!Value
  BY DEF FieldsInv, Typed, Shape
<1>5. v \in Values /\ v.loc = value /\ v.from = ts /\ v.text = text
  BY <1>1, <1>4 DEF Values
<1> HIDE DEF v
<1>6. EndOf(v) = pos
  BY <1>1, <1>2, <1>5 DEF EndOf
<1>7. FieldEnd(ts) = pos
  <2>1. ts \in Nat /\ pos \in ts..(Len(message) + 1)
    BY <1>1
  <2> QED BY <1>1, <1>2, <1>3, <2>1, FieldEndIs
<1>8. Len(v.text) < v.loc.len
  BY <1>1, <1>2, <1>5
<1>9. IsField(v)
  BY <1>2, <1>3, <1>5, <1>6, <1>7, <1>8 DEF IsField
<1> QED BY <1>5, <1>6, <1>9 DEF v

\* What Store makes of the tree.
LEMMA StoreTree ==
  ASSUME FieldsInv, Store
  PROVE  /\ AllOK(segments)'
         /\ {v.from : v \in ValuesOf(segments')} = {v.from : v \in ValuesOf(segments)} \union {ts}
         /\ Offsets(segments') = Offsets(segments)
         /\ Increasing(segments) => Increasing(segments')
         /\ seg' \in Segment /\ seg'.offset = seg.offset
         /\ Len(seg'.elements) = Len(seg.elements)
         /\ seg'.elements # <<>>
         /\ LastOf(seg'.elements) \in Element /\ LastOf(seg'.elements).values # <<>>
         /\ EndOf(LastOf(LastOf(seg'.elements).values)) = pos
<1> DEFINE v == [loc |-> value, text |-> text, from |-> ts]
           y == StoredElement
<1>1. /\ UNCHANGED <<message, dialect>> /\ pc = "copy" /\ src = pos
      /\ segments' = SetLast(segments, [seg EXCEPT !.tag = TagOf, !.elements = SetLast(@, y)])
  BY DEF Store, input
<1>2. /\ segments \in Seq(Segment) /\ segments # <<>> /\ seg \in Segment
      /\ seg.elements \in Seq(Element) /\ seg.elements # <<>> /\ value \in Pool!Value
  BY <1>1, Basics DEF FieldsInv, Reading, Inside, Typed, Shape
<1>3. el \in Element /\ el = LastOf(seg.elements) /\ el.values \in Seq(Values)
  <2>1. el \in Element
    BY <1>2, CurrentFacts DEF FieldsInv
  <2> QED BY <2>1 DEF el, Element
<1>4. v \in Values /\ IsField(v) /\ EndOf(v) = pos /\ v.loc = value /\ v.from = ts
  BY <1>1, StoredIsField
<1>5. NextFits(seg, ts)
  BY <1>1 DEF FieldsInv, Place, InField
<1>6. y.values = Append(el.values, v)
  BY DEF StoredElement
<1> HIDE DEF v
<1>7. y \in Element
  <2>1. Append(el.values, v) \in Seq(Values)
    BY <1>3, <1>4
  <2> QED BY <1>6, <2>1 DEF StoredElement, Element, v
<1> HIDE DEF y
<1>8. TagOf \in Pool!Value \union {NoValue}
  BY <1>2 DEF TagOf, Segment
<1>9. PICK t \in Segment : /\ t = [seg EXCEPT !.tag = TagOf, !.elements = SetLast(@, y)]
                           /\ t.elements = SetLast(seg.elements, y)
                           /\ t.tag = TagOf /\ t.offset = seg.offset
  BY <1>2, <1>7, <1>8, ReplacedSegment, ZenonT(40)
<1>10. segments' = SetLast(segments, t)
  BY <1>1, <1>9
<1>11. SegmentOK(seg) /\ AllOK(segments)
  <2>1. AllOK(segments) /\ Len(segments) \in 1..Len(segments)
    BY <1>2 DEF FieldsInv
  <2> QED BY <2>1 DEF AllOK, seg, LastOf
<1>12. SegmentOK(t) /\ SegmentValues(t) = SegmentValues(seg) \union {v}
  <2>1. t.tag = IF Len(seg.elements) = 1 /\ LastOf(seg.elements).values = <<>>
                THEN v.loc ELSE seg.tag
    BY <1>3, <1>4, <1>9 DEF TagOf, FirstElement
  <2>2. y.values = Append(LastOf(seg.elements).values, v) /\ NextFits(seg, v.from)
    BY <1>3, <1>4, <1>5, <1>6
  <2>3. t.elements = SetLast(seg.elements, y) /\ t.offset = seg.offset
    BY <1>9
  <2>4. seg \in Segment /\ seg.elements # <<>>
    BY <1>2
  <2>5. v \in Values /\ IsField(v)
    BY <1>4
  <2> QED BY <1>7, <1>11, <2>1, <2>2, <2>3, <2>4, <2>5, StoredOK
<1>13. ValuesOf(segments') = ValuesOf(segments) \union {v}
  <2> DEFINE X == {v}
  <2>1. SegmentValues(t) = SegmentValues(LastOf(segments)) \union X
    BY <1>12 DEF seg
  <2> HIDE DEF X
  <2>2. ValuesOf(segments') = ValuesOf(segments) \union X
    BY <1>2, <1>10, <2>1, ValuesOfSetLast
  <2> QED BY <2>2 DEF X
<1>14. {w.from : w \in ValuesOf(segments')} = {w.from : w \in ValuesOf(segments)} \union {ts}
  BY <1>4, <1>13
<1>15. /\ Offsets(segments') = Offsets(segments)
       /\ Increasing(segments) => Increasing(segments')
       /\ AllOK(segments')
  BY <1>2, <1>9, <1>10, <1>11, <1>12, TreeOfSetLast DEF seg
<1>16. seg' = t
  BY <1>2, <1>10, SetLastIsSeq DEF seg
<1>17. AllOK(segments)'
  <2>1. AllOK(segments)' = AllOK(segments')
    BY <1>1, TreeOpsPrimed
  <2> QED BY <1>15, <2>1
<1>18. /\ Len(t.elements) = Len(seg.elements) /\ t.elements # <<>>
       /\ LastOf(t.elements) = y
  <2>1. /\ Len(SetLast(seg.elements, y)) = Len(seg.elements)
        /\ Len(seg.elements) \in Nat \ {0}
        /\ LastOf(SetLast(seg.elements, y)) = y
    <3> DEFINE xs == seg.elements
    <3>1. xs \in Seq(Element) /\ xs # <<>>
      BY <1>2
    <3> HIDE DEF xs
    <3>2. /\ Len(SetLast(xs, y)) = Len(xs)
          /\ Len(xs) \in Nat \ {0}
          /\ LastOf(SetLast(xs, y)) = y
      BY <1>7, <3>1, SetLastIsSeq
    <3> QED BY <3>2 DEF xs
  <2>2. SetLast(seg.elements, y) # <<>>
    BY <2>1
  <2> QED BY <1>9, <2>1, <2>2
<1>19. y.values # <<>> /\ LastOf(y.values) = v
  BY <1>3, <1>4, <1>6, AppendIsSeq
<1> QED BY <1>4, <1>7, <1>9, <1>14, <1>15, <1>16, <1>17, <1>18, <1>19

\* What is known of the place where a value is stored.
LEMMA StorePlace ==
  ASSUME FieldsInv, Store
  PROVE  LET c == StartOf(seg)
         IN  /\ Given /\ Len(message) \in Nat /\ pos \in 1..(Len(message) + 1)
             /\ UNCHANGED <<message, dialect, ts>> /\ pc = "copy" /\ pc' = "element"
             /\ Char(pos) # NUL <=> pos \in Positions
             /\ ~newel /\ ts \in FieldStarts /\ ts \in 1..pos
             /\ c \in SegmentStarts /\ c \in Nat /\ c <= ts /\ Reaches(c, pos)
             /\ FirstOpen <=> NoTag(c, pos)
             /\ StartOf(seg)' = c
             /\ Len(seg.elements) \in Nat \ {0} /\ Len(seg'.elements) = Len(seg.elements)
             /\ pos \in Positions =>
                  pos \in Boundaries /\ Is(pos, {dialect.sub, dialect.seg, SeparatorAt(c, pos)})
             /\ pos \in Positions => Escaped[pos] = FALSE
             /\ \A a \in FieldStarts : a <= pos => a <= ts
<1> DEFINE c == StartOf(seg)
<1>1. UNCHANGED <<message, dialect, ts>> /\ pc = "copy" /\ pc' = "element"
  BY DEF Store, input
<1>2. /\ Given /\ Len(message) \in Nat /\ pos \in 1..(Len(message) + 1)
      /\ Char(pos) # NUL <=> pos \in Positions
      /\ ts \in 1..pos /\ seg.elements \in Seq(Element) /\ seg.elements # <<>>
  BY <1>1, Basics DEF FieldsInv, Reading, Inside, Typed, Shape
<1>3. ~newel /\ ts \in FieldStarts /\ \A i \in ts..(pos - 1) : i \notin Boundaries
  BY <1>1 DEF FieldsInv, Place, InField
<1>4. /\ c \in SegmentStarts /\ c <= ts /\ Reaches(c, pos)
      /\ FirstOpen <=> NoTag(c, pos)
  BY <1>1, OpenSegmentFacts DEF Inside, Reached
<1>5. Len(seg'.elements) = Len(seg.elements) /\ seg'.offset = seg.offset
  BY StoreTree
<1>6. StartOf(seg)' = c
  BY <1>1, <1>5 DEF StartOf
<1> HIDE DEF c
<1>7. c \in Nat
  BY <1>4 DEF SegmentStarts, Positions
<1>8. Len(seg.elements) \in Nat \ {0}
  BY <1>2
<1>9. ASSUME pos \in Positions
      PROVE  /\ pos \in Boundaries
             /\ Is(pos, {dialect.sub, dialect.seg, SeparatorAt(c, pos)})
             /\ Escaped[pos] = FALSE
  <2>1. pos \in Boundaries
    BY <1>1, <1>2, <1>9 DEF Positions, FieldsInv, Place, Copying
  <2>2. Is(pos, {dialect.sub, dialect.seg, SeparatorAt(c, pos)})
    BY <1>2, <1>4, <1>9, <2>1, BoundaryInside
  <2>3. Escaped[pos] \in BOOLEAN
    BY <1>2, EscapedFacts
  <2> QED BY <2>1, <2>2, <2>3 DEF Is
<1>10. \A a \in FieldStarts : a <= pos => a <= ts
  <2>1. ts \in c..pos /\ pos \in Nat
    BY <1>2, <1>4, <1>7
  <2> QED BY <1>2, <1>3, <1>4, <2>1, StartsUpTo
<1> QED BY <1>1, <1>2, <1>3, <1>4, <1>5, <1>6, <1>7, <1>8, <1>9, <1>10 DEF c

\* A value that is stored is the next in the message.
LEMMA StoreFound ==
  ASSUME FieldsInv, Store, NEW p \in {pos, pos + 1}, pos' = p, ts < p,
         Reaches(StartOf(seg), p)
  PROVE  Found'
<1> DEFINE c == StartOf(seg)
<1>1. /\ Given /\ pos \in Nat /\ p \in Nat /\ ts \in FieldStarts /\ ts \in Nat
      /\ UNCHANGED <<message, dialect, ts>> /\ pc = "copy" /\ pc' = "element"
      /\ c \in SegmentStarts /\ c <= ts /\ c \in Nat
      /\ \A a \in FieldStarts : a <= pos => a <= ts
      /\ ts <= pos
  BY StorePlace
<1>2. Reaches(c, p)
  OBVIOUS
<1> HIDE DEF c
<1>3. /\ {v.from : v \in ValuesOf(segments)} = FieldsTo(ts)
      /\ Offsets(segments) = OffsetsTo(pos + 1) /\ Increasing(segments)
  BY <1>1 DEF FieldsInv, Place, Found, Reading, Reached, Opened, Inside
<1>4. /\ {v.from : v \in ValuesOf(segments')} = FieldsTo(ts) \union {ts}
      /\ Offsets(segments') = OffsetsTo(pos + 1) /\ Increasing(segments')
  BY <1>3, StoreTree
<1>5. FieldsTo(p) = FieldsTo(ts) \union {ts}
  <2>1. FieldStarts \subseteq Nat
    BY DEF FieldStarts, Positions
  <2>2. ASSUME NEW a \in FieldStarts PROVE a < p <=> a < ts \/ a = ts
    BY <1>1, <2>1
  <2> QED BY <1>1, <2>2 DEF FieldsTo
<1>6. OffsetsTo(p + 1) = OffsetsTo(pos + 1)
  <2>1. \A a \in SegmentStarts : a <= p => a <= c
    BY <1>1, <1>2, NoStartInside
  <2>2. SegmentStarts \subseteq Nat
    BY DEF SegmentStarts, Positions
  <2>3. \A a \in SegmentStarts : a < p + 1 => a < pos + 1
    BY <1>1, <2>1, <2>2
  <2> QED BY <1>1, <2>3, ToSame
<1>7. Reached' = p /\ Opened' = p + 1
  BY <1>1 DEF Reached, Opened, Inside
<1> QED BY <1>1, <1>4, <1>5, <1>6, <1>7, TreeOpsPrimed DEF Found

\* Storing a value moves the parser to the next field or to the end of a segment.
LEMMA StoreFields ==
  ASSUME FieldsInv, Store
  PROVE  AllOK(segments)' /\ Place' /\ Ended'
<1> DEFINE c == StartOf(seg)
<1>1. /\ Given /\ Len(message) \in Nat /\ pos \in 1..(Len(message) + 1)
      /\ UNCHANGED <<message, dialect, ts>> /\ pc = "copy" /\ pc' = "element"
      /\ Char(pos) # NUL <=> pos \in Positions
      /\ ~newel /\ ts \in FieldStarts /\ ts \in 1..pos
      /\ c \in SegmentStarts /\ c \in Nat /\ c <= ts /\ Reaches(c, pos)
      /\ FirstOpen <=> NoTag(c, pos)
      /\ StartOf(seg)' = c
      /\ Len(seg.elements) \in Nat \ {0} /\ Len(seg'.elements) = Len(seg.elements)
      /\ pos \in Positions =>
           pos \in Boundaries /\ Is(pos, {dialect.sub, dialect.seg, SeparatorAt(c, pos)})
      /\ pos \in Positions => Escaped[pos] = FALSE
  BY StorePlace
<1>2. AllOK(segments)'
  BY StoreTree
<1>3. Ended'
  BY <1>1 DEF Ended, Parsed
<1>4. Fresh' /\ AtStart' /\ InField' /\ Scanning' /\ Copying'
  BY <1>1 DEF Fresh, AtStart, InField, Scanning, Copying
<1>5. IF AtSeparator THEN pos' = pos + 1 /\ newel' = StartsElement
      ELSE UNCHANGED <<pos, newel>>
  BY DEF Store
<1>6. CASE ~AtSeparator
  <2>1. Char(pos) \in {NUL, dialect.seg} /\ pos' = pos /\ newel' = newel
    BY <1>5, <1>6 DEF AtSeparator
  <2>2. ts < pos
    <3>1. ts # pos
      BY <1>1, <2>1 DEF FieldStarts
    <3> QED BY <1>1, <3>1
  <2>3. Found'
    BY <1>1, <2>1, <2>2, StoreFound
  <2>4. InOpenSegment'
    <3>1. c <= Reached' /\ (FirstOpen' <=> FirstOpen)
      BY <1>1, <2>1, <2>2 DEF Reached, FirstOpen
    <3> HIDE DEF c
    <3> QED BY <1>1, <2>1, <3>1, OpenSegmentKept
  <2>5. AtField'
    BY <1>1, <2>1, FieldsPrimed DEF AtField
  <2> QED BY <1>2, <1>3, <1>4, <2>3, <2>4, <2>5 DEF Place
<1>7. CASE AtSeparator
  <2>1. /\ pos \in Positions /\ Char(pos) # dialect.seg /\ pos' = pos + 1
        /\ newel' = (Char(pos) \in {dialect.data, dialect.tag})
        /\ pos \in Nat
    BY <1>1, <1>5, <1>7 DEF AtSeparator, StartsElement
  <2>2. Char(pos) \in {dialect.sub, SeparatorAt(c, pos)} /\ ~Is(pos, {dialect.seg})
    BY <1>1, <2>1 DEF Is
  <2> HIDE DEF c
  <2>3. SeparatorAt(c, pos) = IF NoTag(c, pos) THEN dialect.tag ELSE dialect.data
    BY DEF SeparatorAt, NoTag
  <2>4. newel' <=> Char(pos) # dialect.sub
    BY <1>1, <2>1, <2>2, <2>3, InputFacts
  <2>5. \A k \in c..((pos + 1) - 1) : k \in c..(pos - 1) \/ k = pos
    BY <1>1, <2>1
  <2>6. Reaches(c, pos + 1)
    <3>1. c <= pos + 1
      BY <1>1
    <3> QED BY <1>1, <2>2, <2>5, <3>1 DEF Reaches
  <2>7. Found'
    BY <1>1, <2>1, <2>6, StoreFound DEF c
  <2>8. FirstOpen' <=> NoTag(c, pos + 1)
    <3>1. NoTag(c, pos + 1) <=> NoTag(c, pos) /\ ~Is(pos, {dialect.tag})
      <4>1. \A k \in c..(pos - 1) : k \in c..((pos + 1) - 1)
        BY <1>1
      <4>2. pos \in c..((pos + 1) - 1)
        BY <1>1
      <4> QED BY <2>5, <4>1, <4>2 DEF NoTag
    <3>2. FirstOpen' <=> Len(seg.elements) = 1 /\ ~newel'
      BY <1>1 DEF FirstOpen
    <3>3. Len(seg.elements) = 1 <=> NoTag(c, pos)
      BY <1>1 DEF FirstOpen
    <3>4. Is(pos, {dialect.tag}) <=> Char(pos) = dialect.tag
      BY <1>1, <2>1 DEF Is
    <3>5. NoTag(c, pos) => (Char(pos) = dialect.tag <=> Char(pos) # dialect.sub)
      BY <1>1, <2>2, <2>3, InputFacts
    <3> QED BY <2>4, <3>1, <3>2, <3>3, <3>4, <3>5
  <2>9. InOpenSegment'
    <3>1. c <= Reached'
      BY <1>1, <2>1 DEF Reached
    <3> QED BY <1>1, <2>1, <2>6, <2>8, <3>1, OpenSegmentKept
  <2>10. AtField'
    <3>1. Escaped[pos + 1] = FALSE
      <4>1. Char(pos) \in {dialect.seg, dialect.data, dialect.sub, dialect.tag} \union Newlines
        BY <2>2, <2>3
      <4> QED BY <1>1, <2>1, <4>1, NotEscapedBehind
    <3>2. ASSUME Char(pos + 1) \notin {NUL, dialect.seg}
          PROVE  pos + 1 \in FieldStarts
      <4>1. pos + 1 \in Positions
        BY <1>1, <2>1, <3>2, InputFacts DEF Positions
      <4>2. (pos + 1) - 1 = pos
        BY <2>1
      <4> QED BY <1>1, <2>1, <3>2, <4>1, <4>2 DEF FieldStarts
    <3>3. /\ seg'.elements # <<>> /\ LastOf(seg'.elements).values # <<>>
          /\ EndOf(LastOf(LastOf(seg'.elements).values)) = pos
      BY StoreTree
    <3>4. (pos + 1) - 1 = pos
      BY <2>1
    <3>5. newel' => NewFits(seg', pos + 1)
      BY <2>1, <3>3, <3>4 DEF NewFits
    <3>6. ~newel' => NextFits(seg', pos + 1)
      BY <2>4, <3>3, <3>4 DEF NextFits, LastOf
    <3>7. /\ NewFits(seg, pos)' = NewFits(seg', pos + 1)
          /\ NextFits(seg, pos)' = NextFits(seg', pos + 1)
      BY <1>1, <2>1, TreePrimed
    <3>8. newel' => NewFits(seg, pos)'
      BY <3>5, <3>7, Zenon
    <3>9. ~newel' => NextFits(seg, pos)'
      BY <3>6, <3>7, Zenon
    <3>10. Char(pos)' = Char(pos + 1) /\ Escaped'[pos'] = FALSE /\ dialect' = dialect
      BY <1>1, <2>1, <3>1, FieldsPrimed
    <3>11. Char(pos)' \notin {NUL, dialect'.seg} => pos' \in FieldStarts'
      BY <1>1, <2>1, <3>2, <3>10, FieldsPrimed
    <3> QED BY <3>8, <3>9, <3>10, <3>11 DEF AtField
  <2> QED BY <1>2, <1>3, <1>4, <2>7, <2>9, <2>10 DEF Place
<1> QED BY <1>6, <1>7

\* When the tree cannot grow, the last element has its type and no new value.
LEMMA StoreFailsFields ==
  ASSUME FieldsInv, StoreFails
  PROVE  AllOK(segments)' /\ Place' /\ Ended'
<1> DEFINE y == [type |-> "composite", values |-> el.values]
<1>1. /\ UNCHANGED <<message, dialect>> /\ pc = "copy" /\ pc' = "returned"
      /\ error' = [error EXCEPT ![parser] = "SYSTEM"]
      /\ segments' = SetLast(segments,
                       [seg EXCEPT !.elements = SetLast(@, [el EXCEPT !.type = "composite"])])
  BY DEF StoreFails, Fail, Return, input
<1>2. /\ segments \in Seq(Segment) /\ segments # <<>> /\ seg \in Segment
      /\ seg.elements # <<>> /\ parser = "temporary"
  BY <1>1, Basics DEF FieldsInv, Reading, Inside, Typed, Shape
<1>3. el \in Element /\ el = LastOf(seg.elements)
  BY <1>2, CurrentFacts DEF FieldsInv, el
<1>4. y \in Element /\ y = [el EXCEPT !.type = "composite"] /\ y.values = el.values
  BY <1>3 DEF Element
<1> HIDE DEF y
<1>5. seg.tag \in Pool!Value \union {NoValue}
  BY <1>2 DEF Segment
<1>6. PICK t \in Segment : /\ t = [seg EXCEPT !.tag = seg.tag, !.elements = SetLast(@, y)]
                           /\ t.elements = SetLast(seg.elements, y)
                           /\ t.tag = seg.tag /\ t.offset = seg.offset
  BY <1>2, <1>4, <1>5, ReplacedSegment, ZenonT(40)
<1>7. segments' = SetLast(segments, t)
  <2>1. [seg EXCEPT !.elements = SetLast(@, y)]
          = [seg EXCEPT !.tag = seg.tag, !.elements = SetLast(@, y)]
    BY <1>2 DEF Segment
  <2> QED BY <1>1, <1>4, <1>6, <2>1
<1>8. SegmentOK(seg) /\ AllOK(segments)
  <2>1. AllOK(segments) /\ Len(segments) \in 1..Len(segments)
    BY <1>2 DEF FieldsInv
  <2> QED BY <2>1 DEF AllOK, seg, LastOf
<1>9. SegmentOK(t)
  BY <1>2, <1>3, <1>4, <1>6, <1>8, RetypedOK
<1>10. AllOK(segments')
  BY <1>2, <1>6, <1>7, <1>8, <1>9, TreeOfSetLast DEF seg
<1>11. AllOK(segments)'
  <2>1. AllOK(segments)' = AllOK(segments')
    BY <1>1, TreeOpsPrimed
  <2> QED BY <1>10, <2>1
<1>12. error'.temporary = "SYSTEM"
  <2>1. error \in [{"caller", "temporary"} -> {"NONE", "SYSTEM", "UNTERMINATED", "EMPTY"}]
    BY DEF FieldsInv, Typed, TypeOK
  <2> QED BY <1>1, <1>2, <2>1
<1>13. Ended'
  BY <1>12 DEF Ended, Parsed
<1> QED BY <1>1, <1>11, <1>13, PlaceAtReturn

\* The parser starts with nothing read.
LEMMA FieldsInit == Init => FieldsInv
<1> SUFFICES ASSUME Init PROVE FieldsInv
  OBVIOUS
<1>1. Typed
  BY TypedInit
<1>2. pc = "detect" /\ segments = <<>> /\ pos = 1
  BY DEF Init
<1>3. AllOK(segments)
  BY <1>2 DEF AllOK
<1>4. Place
  BY <1>2 DEF Place, Fresh, Found, AtStart, InOpenSegment, AtField, InField, Scanning,
     Copying, Reading, Inside
<1>5. Ended
  BY <1>2 DEF Ended, Parsed
<1> QED BY <1>1, <1>3, <1>4, <1>5 DEF FieldsInv

\* Every step keeps the tree that of the message read so far.
LEMMA FieldsStep ==
  ASSUME FieldsInv, [Next]_vars
  PROVE  FieldsInv'
<1>1. Typed'
  BY TypedStep DEF FieldsInv
<1>2. CASE NoMatch \/ CreateFails \/ Empty \/ SegmentFails \/ ElementFails
           \/ AllocValueFails
  BY <1>1, <1>2, StopFields DEF FieldsInv
<1>3. CASE Match \/ Reserve
  BY <1>1, <1>3, MatchFields DEF FieldsInv
<1>4. CASE SkipNewline
  BY <1>1, <1>4, SkipNewlineFields DEF FieldsInv
<1>5. CASE EndOfMessage \/ Unterminated
  BY <1>1, <1>5, ReturnFields DEF FieldsInv
<1>6. CASE NewSegment
  BY <1>1, <1>6, NewSegmentFields DEF FieldsInv
<1>7. CASE EndSegment
  BY <1>1, <1>7, EndSegmentFields DEF FieldsInv
<1>8. CASE NewElement
  BY <1>1, <1>8, NewElementFields DEF FieldsInv
<1>9. CASE StartValue
  BY <1>1, <1>9, StartValueFields DEF FieldsInv
<1>10. CASE Scan
  BY <1>1, <1>10, ScanFields DEF FieldsInv
<1>11. CASE AllocValue
  BY <1>1, <1>11, AllocValueFields DEF FieldsInv
<1>12. CASE Copy
  BY <1>1, <1>12, CopyFields DEF FieldsInv
<1>13. CASE Store
  BY <1>1, <1>13, StoreFields DEF FieldsInv
<1>14. CASE StoreFails
  BY <1>1, <1>14, StoreFailsFields DEF FieldsInv
<1>15. CASE UNCHANGED vars
  <2>1. UNCHANGED <<message, dialect, segments, pc, pos, ts, e, newel, value, src, text, result, error>>
    BY <1>15 DEF vars, input, tree, cursor, copying, outcome
  <2>2. AllOK(segments)'
    BY <2>1, TreeKept DEF FieldsInv
  <2>3. seg' = seg /\ (Reading' <=> Reading) /\ (Inside' <=> Inside)
        /\ Reached' = Reached /\ Opened' = Opened
    BY <2>1 DEF seg, Reading, Inside, Reached, Opened
  <2>4. /\ StartOf(seg)' = StartOf(seg)
        /\ NewFits(seg, pos)' = NewFits(seg, pos)
        /\ NextFits(seg, pos)' = NextFits(seg, pos)
        /\ NextFits(seg, ts)' = NextFits(seg, ts)
    BY <2>1, <2>3, TreePrimed
  <2>5. Fresh' /\ Found' /\ AtStart'
    <3>1. Fresh'
      BY <2>1 DEF FieldsInv, Place, Fresh
    <3>2. Found'
      BY <2>1, <2>3, TreeOpsPrimed DEF FieldsInv, Place, Found
    <3>3. AtStart'
      BY <2>1, FieldsPrimed DEF FieldsInv, Place, AtStart
    <3> QED BY <3>1, <3>2, <3>3
  <2>6. InOpenSegment'
    <3>1. CASE Inside
      <4>1. /\ StartOf(seg) \in SegmentStarts /\ StartOf(seg) <= Reached
            /\ Reaches(StartOf(seg), pos)
            /\ FirstOpen <=> NoTag(StartOf(seg), pos)
        BY <3>1, OpenSegmentFacts
      <4>2. FirstOpen' <=> FirstOpen
        BY <2>1, <2>3 DEF FirstOpen
      <4> QED BY <2>1, <2>3, <2>4, <4>1, <4>2, OpenSegmentKept
    <3>2. CASE ~Inside
      BY <2>3, <3>2 DEF InOpenSegment
    <3> QED BY <3>1, <3>2
  <2>7. AtField'
    BY <2>1, <2>4, FieldsPrimed DEF FieldsInv, Place, AtField
  <2>8. InField'
    BY <2>1, <2>4, FieldsPrimed DEF FieldsInv, Place, InField
  <2>9. Scanning' /\ Copying'
    BY <2>1, FieldsPrimed DEF FieldsInv, Place, Scanning, Copying
  <2>10. Ended'
    <3>1. AllValues' = AllValues
      BY <2>1 DEF AllValues, AllElements
    <3>2. UnterminatedExactly' <=> UnterminatedExactly
      BY <2>1, FieldsPrimed DEF UnterminatedExactly, Parsed
    <3>3. NothingIsLost' <=> NothingIsLost
      BY <2>1, <3>1, FieldsPrimed DEF NothingIsLost, Parsed
    <3>4. Parsed' <=> Parsed
      BY <2>1 DEF Parsed
    <3> QED BY <3>2, <3>3, <3>4 DEF FieldsInv, Ended
  <2> QED BY <1>1, <2>2, <2>5, <2>6, <2>7, <2>8, <2>9, <2>10 DEF FieldsInv, Place
<1> QED BY <1>2, <1>3, <1>4, <1>5, <1>6, <1>7, <1>8, <1>9, <1>10, <1>11, <1>12, <1>13,
       <1>14, <1>15 DEF Next

\* The invariant gives the properties that are checked.
LEMMA FieldsAreTheMessage ==
  ASSUME FieldsInv
  PROVE  TreeIsMessage /\ UnterminatedExactly
<1>1. segments \in Seq(Segment) /\ AllOK(segments)
  BY DEF FieldsInv, Typed, TypeOK
<1>2. ValuesAreFields
  <2>1. AllValues = ValuesOf(segments)
    BY <1>1, TreeSets
  <2>2. \A i \in 1..Len(segments) : \A v \in SegmentValues(segments[i]) : IsField(v)
    BY <1>1 DEF AllOK, SegmentOK
  <2>3. \A v \in ValuesOf(segments) : IsField(v)
    BY <2>2 DEF ValuesOf
  <2> QED BY <2>1, <2>3 DEF ValuesAreFields, IsField
<1>3. ASSUME NEW s \in Range(segments)
      PROVE  SegmentOK(s) /\ DOMAIN s.elements = 1..Len(s.elements)
  <2>1. PICK i \in 1..Len(segments) : s = segments[i]
    BY <1>1, <1>3 DEF Range
  <2>2. s \in Segment
    BY <1>1, <2>1
  <2>3. s.elements \in Seq(Element)
    BY <2>2 DEF Segment
  <2> QED BY <1>1, <2>1, <2>3 DEF AllOK
<1>4. GroupedBySeparators
  BY <1>3 DEF GroupedBySeparators, SegmentOK, ElementGrouped
<1>5. TagIsFirstValue
  BY <1>3 DEF TagIsFirstValue, SegmentOK, TagIsFirst
<1>6. NothingIsLost /\ UnterminatedExactly
  BY DEF FieldsInv, Ended, NothingIsLost, UnterminatedExactly
<1> QED BY <1>2, <1>4, <1>5, <1>6 DEF TreeIsMessage

\* Whatever the message and its separators, each value in the tree of
\* edi_parser_parse is one whole field, unescaped, and hangs where the
\* separators say; and a parse that no allocation cuts short loses none.
THEOREM ParsedTreeIsMessage == Spec => []TreeIsMessage
<1>1. Init => FieldsInv
  BY FieldsInit
<1>2. FieldsInv /\ [Next]_vars => FieldsInv'
  BY FieldsStep
<1>3. FieldsInv => TreeIsMessage
  BY FieldsAreTheMessage
<1> QED BY <1>1, <1>2, <1>3, PTL DEF Spec

\* The parser reports UNTERMINATED for exactly the messages whose last segment
\* has no terminator of its own (an escaped one is none).
THEOREM UnterminatedIsExact == Spec => []UnterminatedExactly
<1>1. Init => FieldsInv
  BY FieldsInit
<1>2. FieldsInv /\ [Next]_vars => FieldsInv'
  BY FieldsStep
<1>3. FieldsInv => UnterminatedExactly
  BY FieldsAreTheMessage
<1> QED BY <1>1, <1>2, <1>3, PTL DEF Spec

-----------------------------------------------------------------------------
(* The writer at the end of the parser (EdiRoundTrip): the text of the     *)
(* tree, followed as the parser makes the tree, is that of the message.    *)

\* The theorems about the writer, for the trees and characters it is given here.
Writer == INSTANCE EdiBuild_proofs
            WITH Trees <- Seq(Segment), Chars <- Chars \union OutChars,
                 pc <- bpc, c <- bc, d <- bd, i <- bi

\* What they assume is so.
LEMMA WriterAssumption == Writer!EdiBuildAssumption
<1>1. Chars \subseteq Chars \union OutChars /\ OutChars \subseteq Chars \union OutChars
  OBVIOUS
<1>2. OutParams \subseteq
       [seg : Chars \union OutChars, data : Chars \union OutChars, sub : Chars \union OutChars,
        tag : Chars \union OutChars, escape : {NUL} \union (Chars \union OutChars),
        name : {NoName} \union Seq(Chars \union OutChars),
        trailer : Seq((Chars \union OutChars) \union Writer!Directives)]
  BY EdiRoundTripAssumption DEF Writer!Directives
<1>3. ASSUME NEW t \in Seq(Segment)
      PROVE  Writer!IsSeq(t) /\ \A k \in DOMAIN t : Writer!IsSegment(t[k])
  <2>1. Writer!IsSeq(t)
    BY DEF Writer!IsSeq
  <2>2. ASSUME NEW k \in DOMAIN t PROVE Writer!IsSegment(t[k])
    <3>0. t[k] \in Segment
      OBVIOUS
    <3>1. t[k].elements \in Seq(Element)
      BY <3>0 DEF Segment
    <3> DEFINE xs == t[k].elements
    <3>2. Writer!IsSeq(xs)
      BY <3>1 DEF Writer!IsSeq
    <3>3. ASSUME NEW j \in DOMAIN xs PROVE Writer!IsElement(xs[j])
      <4> DEFINE vs == xs[j].values
      <4>0. xs[j] \in Element
        BY <3>1
      <4>1. vs \in Seq(Values)
        BY <4>0 DEF Element
      <4>2. Writer!IsSeq(vs)
        BY <4>1 DEF Writer!IsSeq
      <4>3. ASSUME NEW n \in DOMAIN vs PROVE vs[n].text \in Seq(Chars \union OutChars)
        <5>0. vs[n] \in Values
          BY <4>1
        <5>1. vs[n].text \in Seq(Chars)
          BY <5>0 DEF Values
        <5> QED BY <5>1
      <4> QED BY <4>2, <4>3 DEF Writer!IsElement
    <3> QED BY <3>2, <3>3 DEF Writer!IsSegment
  <2> QED BY <2>1, <2>2
<1> QED BY <1>2, <1>3, EdiRoundTripAssumption DEF Writer!EdiBuildAssumption

\* What the module of the composition says of a text, the theorems say too.
LEMMA SameOperators ==
  /\ \A ps : Build!FlattenSeq(ps) = Writer!FlattenSeq(ps)
  /\ \A s : Build!Escaped(s) = Writer!Escaped(s)
  /\ \A s : Build!WithTrailer(s) = Writer!WithTrailer(s)
<1>1. \A ps : Build!FlattenSeq(ps) = Writer!FlattenSeq(ps)
  BY Zenon DEF Build!FlattenSeq, Writer!FlattenSeq
<1>2. \A s : Build!Escaped(s) = Writer!Escaped(s)
  BY <1>1, Zenon DEF Build!Escaped, Writer!Escaped, Build!EscapedPieces, Writer!EscapedPieces,
     Build!MustEscape, Writer!MustEscape, Build!Special, Writer!Special
<1>3. \A s : Build!WithTrailer(s) = Writer!WithTrailer(s)
  BY Zenon DEF Build!WithTrailer, Writer!WithTrailer, Build!TrailerSteps, Writer!TrailerSteps,
     Build!Expansion, Writer!Expansion, Build!Front, Writer!Front
<1> QED BY <1>1, <1>2, <1>3

\* The elements of a segment and their values, as the writer sees them.
LEMMA ForWriter ==
  /\ \A x \in Element : Writer!IsElement(x)
  /\ \A s \in Segment : Writer!IsSegment(s)
<1>1. ASSUME NEW x \in Element PROVE Writer!IsElement(x)
  <2>1. x.values \in Seq(Values)
    BY DEF Element
  <2>2. Writer!IsSeq(x.values)
    BY <2>1 DEF Writer!IsSeq
  <2>3. ASSUME NEW n \in DOMAIN x.values PROVE x.values[n].text \in Seq(Chars \union OutChars)
    <3>1. x.values[n] \in Values
      BY <2>1
    <3>2. x.values[n].text \in Seq(Chars)
      BY <3>1 DEF Values
    <3> QED BY <3>2
  <2> QED BY <2>2, <2>3 DEF Writer!IsElement
<1>2. ASSUME NEW s \in Segment PROVE Writer!IsSegment(s)
  <2>1. s.elements \in Seq(Element)
    BY DEF Segment
  <2>2. Writer!IsSeq(s.elements)
    BY <2>1 DEF Writer!IsSeq
  <2>3. \A j \in DOMAIN s.elements : Writer!IsElement(s.elements[j])
    BY <2>1, <1>1
  <2> QED BY <2>2, <2>3 DEF Writer!IsSegment
<1> QED BY <1>1, <1>2

-----------------------------------------------------------------------------
(* What is to be written of the message up to a place. *)

\* The writer's input while the message is parsed.
LEMMA WriterTyped ==
  ASSUME Typed, Build!InitBuild
  PROVE  Writer!Init /\ Writer!TypeOK
<1>1. segments \in Seq(Segment)
  BY DEF Typed, TypeOK
<1>2. Writer!Init
  BY <1>1 DEF Writer!Init, Writer!InitBuild, Build!InitBuild
<1>3. Writer!IInv
  BY <1>2, WriterAssumption, Writer!Initially
<1> QED BY <1>2, <1>3 DEF Writer!IInv

\* Characters, and the new separators, are symbols of the writer.
LEMMA SymbolFacts ==
  ASSUME Writer!TypeOK
  PROVE  /\ \A x \in Chars : x \in Writer!Symbols
         /\ params.seg \in Writer!Symbols /\ params.data \in Writer!Symbols
         /\ params.sub \in Writer!Symbols /\ params.tag \in Writer!Symbols
         /\ <<params.seg>> \in Writer!Strings /\ <<params.data>> \in Writer!Strings
         /\ <<params.sub>> \in Writer!Strings /\ <<params.tag>> \in Writer!Strings
         /\ \A s \in Seq(Chars) : s \in Writer!Strings
<1>1. \A x \in Chars : x \in Writer!Symbols
  BY DEF Writer!Symbols
<1>2. /\ params.seg \in Writer!Symbols /\ params.data \in Writer!Symbols
      /\ params.sub \in Writer!Symbols /\ params.tag \in Writer!Symbols
  BY WriterAssumption, Writer!InputFacts
<1>3. \A s \in Seq(Chars) : s \in Writer!Strings
  BY <1>1 DEF Writer!Strings
<1>4. \A x \in Writer!Symbols : <<x>> \in Writer!Strings
  BY WriterAssumption, Writer!StringAlgebra
<1> QED BY <1>1, <1>2, <1>3, <1>4

\* What a character becomes is a text.
LEMMA PieceIsString ==
  ASSUME Given, Writer!TypeOK, NEW p \in Positions
  PROVE  Piece(p) \in Writer!Strings
<1>1. <<>> \in Writer!Strings
  BY WriterAssumption, Writer!StringAlgebra
<1>2. <<NewSeparator(p)>> \in Writer!Strings
  BY SymbolFacts DEF NewSeparator
<1>3. Build!Escaped(<<Char(p)>>) \in Writer!Strings
  <2>1. Char(p) \in Chars
    BY InputFacts DEF Positions
  <2>2. Char(p) \in Writer!Symbols
    BY <2>1, SymbolFacts
  <2>3. Writer!Escaped(<<Char(p)>>) \in Writer!Strings
    BY <1>1, <2>2, WriterAssumption, Writer!EscapedGrows
  <2> QED BY <2>3, SameOperators
<1>4. <<params.seg>> \in Writer!Strings
  BY SymbolFacts
<1> QED BY <1>1, <1>2, <1>3, <1>4 DEF Piece

\* What becomes of the characters from a to b.
LEMMA PiecesFacts ==
  ASSUME Given, Writer!TypeOK, NEW a \in 1..(Len(message) + 1)
  PROVE  /\ Pieces(a, a - 1) = <<>>
         /\ \A b \in (a - 1)..Len(message) : Pieces(a, b) \in Writer!Strings
         /\ \A b \in a..Len(message) : Pieces(a, b) = Pieces(a, b - 1) \o Piece(b)
<1> DEFINE ps(b) == [k \in 1..(b - a + 1) |-> Piece(a + k - 1)]
<1>0. Len(message) \in Nat /\ a \in Nat \ {0}
  BY InputFacts
<1>1. ASSUME NEW b \in (a - 1)..Len(message)
      PROVE  /\ ps(b) \in Seq(Writer!Strings) /\ Len(ps(b)) = b - a + 1
             /\ \A k \in 1..(b - a + 1) : ps(b)[k] = Piece(a + k - 1)
  <2>1. b \in Int /\ b - a + 1 \in Nat
    BY <1>0
  <2>2. \A k \in 1..(b - a + 1) : Piece(a + k - 1) \in Writer!Strings
    <3> SUFFICES ASSUME NEW k \in 1..(b - a + 1) PROVE Piece(a + k - 1) \in Writer!Strings
      OBVIOUS
    <3>1. a + k - 1 \in Positions
      BY <1>0, <2>1 DEF Positions
    <3> QED BY <3>1, PieceIsString
  <2> QED BY <2>1, <2>2
<1>2. \A b : Pieces(a, b) = Writer!FlattenSeq(ps(b))
  BY SameOperators DEF Pieces
<1> HIDE DEF ps
<1>3. ASSUME NEW b \in (a - 1)..Len(message) PROVE Pieces(a, b) \in Writer!Strings
  BY <1>1, <1>2, WriterAssumption, Writer!FlattenType DEF Writer!Strings
<1>4. Pieces(a, a - 1) = <<>>
  <2>1. a - 1 \in (a - 1)..Len(message) /\ (a - 1) - a + 1 = 0
    BY <1>0
  <2>2. ps(a - 1) \in Seq(Writer!Strings) /\ Len(ps(a - 1)) = 0
    BY <1>1, <2>1
  <2>3. ps(a - 1) = <<>>
    BY <2>2
  <2>4. /\ Writer!From(ps(a - 1), 1) = Writer!FlattenSeq(ps(a - 1))
        /\ Writer!From(ps(a - 1), Len(ps(a - 1)) + 1) = <<>>
    BY <2>2, WriterAssumption, Writer!FromFacts DEF Writer!Strings
  <2> QED BY <1>2, <2>2, <2>4
<1>5. ASSUME NEW b \in a..Len(message) PROVE Pieces(a, b) = Pieces(a, b - 1) \o Piece(b)
  <2>1. /\ b - 1 \in (a - 1)..Len(message) /\ b \in (a - 1)..Len(message)
        /\ (b - 1) - a + 1 = b - a /\ b - a \in Nat /\ b \in Nat
        /\ b - a + 1 \in 1..(b - a + 1) /\ a + (b - a + 1) - 1 = b
    BY <1>0
  <2>2. /\ ps(b - 1) \in Seq(Writer!Strings) /\ Len(ps(b - 1)) = b - a
        /\ \A k \in 1..(b - a) : ps(b - 1)[k] = Piece(a + k - 1)
    BY <1>1, <2>1
  <2>3. /\ ps(b) \in Seq(Writer!Strings) /\ Len(ps(b)) = b - a + 1
        /\ \A k \in 1..(b - a + 1) : ps(b)[k] = Piece(a + k - 1)
    BY <1>1, <2>1
  <2>4. Len(ps(b)) = Len(ps(b - 1)) + 1 /\ \A k \in 1..Len(ps(b - 1)) : ps(b)[k] = ps(b - 1)[k]
    <3>1. ASSUME NEW k \in 1..(b - a) PROVE ps(b)[k] = ps(b - 1)[k]
      <4>1. k \in 1..(b - a + 1)
        BY <2>1
      <4> QED BY <4>1, <2>2, <2>3, Zenon
    <3> QED BY <3>1, <2>1, <2>2, <2>3
  <2>5. Writer!FlattenSeq(ps(b)) = Writer!FlattenSeq(ps(b - 1)) \o ps(b)[Len(ps(b))]
    BY <2>2, <2>3, <2>4, WriterAssumption, Writer!FlattenGrows DEF Writer!Strings
  <2>6. ps(b)[Len(ps(b))] = Piece(b)
    BY <2>1, <2>3
  <2> QED BY <1>2, <2>5, <2>6
<1> QED BY <1>3, <1>4, <1>5

\* A text in two parts.
LEMMA PiecesSplit ==
  ASSUME Given, Writer!TypeOK, NEW m \in 0..Len(message)
  PROVE  Pieces(1, Len(message)) = Pieces(1, m) \o Pieces(m + 1, Len(message))
<1> DEFINE N == Len(message)
           T == {j \in Nat : m + j <= N => Pieces(1, m + j) = Pieces(1, m) \o Pieces(m + 1, m + j)}
<1>0. N \in Nat /\ m \in Nat /\ 1 \in 1..(N + 1) /\ m + 1 \in 1..(N + 1) /\ m \in (1 - 1)..N
  BY InputFacts
<1>1. /\ \A b \in (1 - 1)..N : Pieces(1, b) \in Writer!Strings
      /\ \A b \in 1..N : Pieces(1, b) = Pieces(1, b - 1) \o Piece(b)
  BY <1>0, PiecesFacts
<1>2. /\ Pieces(m + 1, (m + 1) - 1) = <<>>
      /\ \A b \in ((m + 1) - 1)..N : Pieces(m + 1, b) \in Writer!Strings
      /\ \A b \in (m + 1)..N : Pieces(m + 1, b) = Pieces(m + 1, b - 1) \o Piece(b)
  BY <1>0, PiecesFacts
<1>3. 0 \in T
  <2>1. m + 0 = m /\ (m + 1) - 1 = m
    BY <1>0
  <2>2. Pieces(1, m) \o <<>> = Pieces(1, m)
    BY <1>0, <1>1, WriterAssumption, Writer!StringAlgebra
  <2>3. Pieces(1, m + 0) = Pieces(1, m) \o Pieces(m + 1, m + 0)
    BY <1>2, <2>1, <2>2
  <2> QED BY <2>3
<1>4. ASSUME NEW j \in Nat, j \in T PROVE j + 1 \in T
  <2> SUFFICES ASSUME m + (j + 1) <= N
               PROVE  Pieces(1, m + (j + 1)) = Pieces(1, m) \o Pieces(m + 1, m + (j + 1))
    OBVIOUS
  <2> DEFINE b == m + (j + 1)
  <2>1. /\ b \in 1..N /\ b \in (m + 1)..N /\ b - 1 = m + j /\ m + j <= N
        /\ m + j \in ((m + 1) - 1)..N
    BY <1>0
  <2>2. Pieces(1, m + j) = Pieces(1, m) \o Pieces(m + 1, m + j)
    BY <1>4, <2>1
  <2> HIDE DEF b
  <2>3. Pieces(1, b) = Pieces(1, m + j) \o Piece(b)
    BY <1>1, <2>1
  <2>4. Pieces(m + 1, b) = Pieces(m + 1, m + j) \o Piece(b)
    BY <1>2, <2>1
  <2>5. /\ Pieces(1, m) \in Writer!Strings /\ Pieces(m + 1, m + j) \in Writer!Strings
        /\ Piece(b) \in Writer!Strings
    BY <1>0, <1>1, <1>2, <2>1, PieceIsString DEF Positions
  <2>6. (Pieces(1, m) \o Pieces(m + 1, m + j)) \o Piece(b)
          = Pieces(1, m) \o (Pieces(m + 1, m + j) \o Piece(b))
    BY <2>5, WriterAssumption, Writer!StringAlgebra
  <2> QED BY <2>2, <2>3, <2>4, <2>6 DEF b
<1> HIDE DEF T
<1>5. \A j \in Nat : j \in T
  BY <1>3, <1>4, SetInduction
<1>6. N - m \in Nat /\ m + (N - m) = N
  BY <1>0
<1>7. N - m \in T
  BY <1>5, <1>6
<1>8. m + (N - m) <= N => Pieces(1, m + (N - m)) = Pieces(1, m) \o Pieces(m + 1, m + (N - m))
  BY <1>7 DEF T
<1> QED BY <1>0, <1>6, <1>8

\* Functions of a tree, of a text and of a place, because a step changes their
\* arguments and not them.
LinesOf   == [t \in Seq(Segment) |-> Writer!Lines(t)]
TextOf    == [s \in Segment |-> Writer!ElementsText(s)]
EscapedOf == [s \in Seq(Chars) |-> Writer!Escaped(s)]
Upto      == [p \in Nat |-> Pieces(1, p - 1)]

\* The segment has no more fields.
Ends(p) == Char(p) \in {NUL, dialect.seg}

\* They stay what they are while a message is parsed, and so do the places where
\* its first segment starts and ends.
LEMMA TextsStay ==
  ASSUME message' = message, dialect' = dialect, params' = params
  PROVE  /\ LinesOf' = LinesOf /\ TextOf' = TextOf /\ EscapedOf' = EscapedOf /\ Upto' = Upto
         /\ FirstStart' = FirstStart /\ FirstEnd' = FirstEnd
         /\ \A p : Ends(p)' = Ends(p)
<1> USE DEF Writer!MustEscape, Writer!Special, Writer!EscapedPieces, Writer!Escaped, Writer!Led,
            Writer!ValuePieces, Writer!ElementText, Writer!ElementPieces, Writer!ElementsText
<1>1. EscapedOf' = EscapedOf
  BY DEF EscapedOf
<1>2. TextOf' = TextOf
  BY DEF TextOf
<1>3. LinesOf' = LinesOf
  BY DEF LinesOf, Writer!Lines, Writer!LinePieces
<1>4. /\ \A p : Char(p)' = Char(p)
      /\ \A p : Escapes(p)' = Escapes(p)
      /\ Escaped' = Escaped
      /\ \A p, cs : Is(p, cs)' = Is(p, cs)
      /\ Positions' = Positions
      /\ SegmentStarts' = SegmentStarts
      /\ Boundaries' = Boundaries
      /\ \A a, p : Reaches(a, p)' = Reaches(a, p)
  BY FieldsPrimed
<1>5. \A p : Ends(p)' = Ends(p)
  BY <1>4 DEF Ends
<1>6. FirstStart' = FirstStart
  BY <1>4 DEF FirstStart
<1>7. FirstEnd' = FirstEnd
  BY <1>4, <1>6 DEF FirstEnd
<1>8. Upto' = Upto
  <2>1. \A p : InSegment(p)' = InSegment(p)
    BY <1>4 DEF InSegment
  <2>2. \A p : InFirstElement(p)' = InFirstElement(p)
    BY <1>4 DEF InFirstElement
  <2>3. \A p : NewSeparator(p)' = NewSeparator(p)
    BY <1>4, <2>2 DEF NewSeparator
  <2>4. \A p : Trailing(p)' = Trailing(p)
    BY <1>4 DEF Trailing
  <2>5. \A x : Build!Escaped(<<x>>)' = Build!Escaped(<<x>>)
    BY DEF Build!Escaped, Build!EscapedPieces, Build!MustEscape, Build!Special
  <2>6. \A p : Build!Escaped(<<Char(p)>>)' = Build!Escaped(<<Char(p)>>)
    BY <1>4, <2>5 DEF Build!Escaped, Build!EscapedPieces, Build!MustEscape, Build!Special
  <2>7. \A p : Piece(p)' = Piece(p)
    BY <1>4, <2>1, <2>3, <2>4, <2>6 DEF Piece
  <2> QED BY <2>7 DEF Upto, Pieces
<1> QED BY <1>1, <1>2, <1>3, <1>5, <1>6, <1>7, <1>8

-----------------------------------------------------------------------------
(* The text of the tree as far as it has been made. *)

\* The segments but for the terminator of the last.
Written(segs) == LinesOf[SubSeq(segs, 1, Len(segs) - 1)] \o TextOf[LastOf(segs)]

\* The separator that the next value will have in front of it.
Lead ==
  IF newel
  THEN IF seg.elements = <<>> THEN <<>> ELSE <<Writer!SepOf(Len(seg.elements) + 1)>>
  ELSE IF el.values = <<>> THEN <<>> ELSE <<params.sub>>

\* Segments of the parser are ones for the writer.
LEMMA TreeForWriter ==
  ASSUME NEW segs \in Seq(Segment)
  PROVE  Writer!IsTree(segs)
<1>1. Writer!IsSeq(segs)
  BY DEF Writer!IsSeq
<1>2. \A k \in DOMAIN segs : segs[k] \in Segment
  OBVIOUS
<1> QED BY <1>1, <1>2, ForWriter DEF Writer!IsTree

\* Their texts.
LEMMA TreeTexts ==
  ASSUME Writer!TypeOK
  PROVE  /\ \A t \in Seq(Segment) : LinesOf[t] \in Writer!Strings
         /\ LinesOf[<<>>] = <<>>
         /\ \A s \in Segment : TextOf[s] \in Writer!Strings
         /\ \A s \in Segment : s.elements = <<>> => TextOf[s] = <<>>
         /\ \A t \in Seq(Segment), s \in Segment :
              LinesOf[Append(t, s)] = LinesOf[t] \o (TextOf[s] \o <<params.seg>>)
<1>1. \A t \in Seq(Segment) : Writer!Lines(t) \in Writer!Strings
  BY TreeForWriter, WriterAssumption, Writer!LineFacts
<1>2. Writer!Lines(<<>>) = <<>> /\ <<>> \in Seq(Segment)
  <2>1. <<>> \in Seq(Segment)
    OBVIOUS
  <2>2. Writer!IsTree(<<>>)
    BY <2>1, TreeForWriter
  <2>3. Writer!Lines(<<>>) = <<>>
    BY <2>2, WriterAssumption, Writer!LineFacts
  <2> QED BY <2>1, <2>3
<1>3. ASSUME NEW s \in Segment
      PROVE  /\ Writer!ElementsText(s) \in Writer!Strings
             /\ s.elements = <<>> => Writer!ElementsText(s) = <<>>
  <2>1. Writer!IsSegment(s)
    BY ForWriter
  <2>2. Writer!ElementsText(s) \in Writer!Strings
    BY <2>1, WriterAssumption, Writer!ElementPiecesFacts
  <2>3. ASSUME s.elements = <<>> PROVE Writer!ElementsText(s) = <<>>
    <3>1. Writer!ElementPieces(s) \in Seq(Writer!Strings)
          /\ Len(Writer!ElementPieces(s)) = Len(s.elements)
      BY <2>1, WriterAssumption, Writer!ElementPiecesFacts
    <3> DEFINE ps == Writer!ElementPieces(s)
    <3>2. ps \in Seq(Writer!Strings) /\ Len(ps) = 0
      BY <2>3, <3>1
    <3> HIDE DEF ps
    <3>3. /\ Writer!From(ps, 1) = Writer!FlattenSeq(ps)
          /\ Writer!From(ps, Len(ps) + 1) = <<>>
      BY <3>2, WriterAssumption, Writer!FromFacts DEF Writer!Strings
    <3>4. Writer!FlattenSeq(ps) = <<>>
      BY <3>2, <3>3
    <3> QED BY <3>4 DEF Writer!ElementsText, ps
  <2> QED BY <2>2, <2>3
<1>4. ASSUME NEW t \in Seq(Segment), NEW s \in Segment
      PROVE  /\ Append(t, s) \in Seq(Segment)
             /\ Writer!Lines(Append(t, s)) =
                  Writer!Lines(t) \o (Writer!ElementsText(s) \o <<params.seg>>)
  <2>1. Append(t, s) \in Seq(Segment)
    OBVIOUS
  <2>2. Writer!IsTree(t) /\ Writer!IsTree(Append(t, s)) /\ Writer!IsSegment(s)
    BY <2>1, TreeForWriter, ForWriter
  <2> QED BY <2>1, <2>2, WriterAssumption, Writer!LinesGrow
<1> QED BY <1>1, <1>2, <1>3, <1>4 DEF LinesOf, TextOf

\* A segment more, and another one in the place of the last.
LEMMA WrittenFacts ==
  ASSUME Writer!TypeOK
  PROVE  /\ \A t \in Seq(Segment) : t # <<>> =>
              /\ Written(t) \in Writer!Strings
              /\ LinesOf[t] = Written(t) \o <<params.seg>>
         /\ \A t \in Seq(Segment), s \in Segment :
              Written(Append(t, s)) = LinesOf[t] \o TextOf[s]
         /\ \A t \in Seq(Segment), s \in Segment, u \in Writer!Strings :
              t # <<>> /\ TextOf[s] = TextOf[LastOf(t)] \o u =>
                Written(SetLast(t, s)) = Written(t) \o u
<1>1. ASSUME NEW t \in Seq(Segment), t # <<>>
      PROVE  LET f == SubSeq(t, 1, Len(t) - 1)
             IN  /\ f \in Seq(Segment) /\ LastOf(t) \in Segment /\ t = Append(f, LastOf(t))
                 /\ \A s \in Segment : /\ SetLast(t, s) \in Seq(Segment)
                                       /\ SubSeq(SetLast(t, s), 1, Len(SetLast(t, s)) - 1) = f
                                       /\ LastOf(SetLast(t, s)) = s
  <2> DEFINE f == SubSeq(t, 1, Len(t) - 1)
             n == Len(t)
  <2>1. /\ n \in Nat \ {0} /\ n \in 1..n
        /\ f \in Seq(Segment) /\ Len(f) = n - 1 /\ \A k \in 1..(n - 1) : f[k] = t[k]
    BY <1>1, WriterAssumption, Writer!FrontOfPieces
  <2>2. LastOf(t) \in Segment
    BY <2>1 DEF LastOf
  <2>3. t = Append(f, LastOf(t))
    <3> DEFINE r == Append(f, LastOf(t))
    <3>1. r \in Seq(Segment) /\ Len(r) = n /\ \A k \in 1..n : r[k] = t[k]
      <4> HIDE DEF f
      <4> QED BY <2>1, <2>2 DEF LastOf
    <3> HIDE DEF r
    <3>2. r = t
      BY <3>1, WriterAssumption, Writer!SeqEqual DEF n
    <3> QED BY <3>2 DEF r
  <2>4. ASSUME NEW s \in Segment
        PROVE  /\ SetLast(t, s) \in Seq(Segment)
               /\ SubSeq(SetLast(t, s), 1, Len(SetLast(t, s)) - 1) = f
               /\ LastOf(SetLast(t, s)) = s
    <3> DEFINE v == SetLast(t, s)
               g == SubSeq(v, 1, Len(v) - 1)
    <3>1. /\ v \in Seq(Segment) /\ Len(v) = n /\ LastOf(v) = s
          /\ \A k \in 1..n : v[k] = IF k = n THEN s ELSE t[k]
      BY <1>1, SetLastIsSeq
    <3> HIDE DEF v
    <3>2. v # <<>>
      BY <2>1, <3>1
    <3>3. g \in Seq(Segment) /\ Len(g) = n - 1 /\ \A k \in 1..(n - 1) : g[k] = v[k]
      BY <3>1, <3>2, WriterAssumption, Writer!FrontOfPieces
    <3> HIDE DEF f, g, n
    <3>4. \A k \in 1..(n - 1) : g[k] = f[k]
      BY <2>1, <3>1, <3>3
    <3>5. g = f
      BY <2>1, <3>3, <3>4, WriterAssumption, Writer!SeqEqual
    <3> QED BY <3>1, <3>5 DEF v, g
  <2> QED BY <2>1, <2>2, <2>3, <2>4
<1>2. ASSUME NEW t \in Seq(Segment), t # <<>>
      PROVE  /\ Written(t) \in Writer!Strings
             /\ LinesOf[t] = Written(t) \o <<params.seg>>
  <2> DEFINE f == SubSeq(t, 1, Len(t) - 1)
  <2>1. f \in Seq(Segment) /\ LastOf(t) \in Segment /\ t = Append(f, LastOf(t))
    BY <1>1, <1>2
  <2>2. /\ LinesOf[f] \in Writer!Strings /\ TextOf[LastOf(t)] \in Writer!Strings
        /\ <<params.seg>> \in Writer!Strings
    BY <2>1, TreeTexts, SymbolFacts
  <2>3. LinesOf[Append(f, LastOf(t))] = LinesOf[f] \o (TextOf[LastOf(t)] \o <<params.seg>>)
    BY <2>1, TreeTexts
  <2>4. Written(t) = LinesOf[f] \o TextOf[LastOf(t)]
    BY DEF Written
  <2> HIDE DEF f
  <2>5. LinesOf[t] = LinesOf[f] \o (TextOf[LastOf(t)] \o <<params.seg>>)
    BY <2>1, <2>3
  <2>6. LinesOf[f] \o TextOf[LastOf(t)] \in Writer!Strings
    BY <2>2, WriterAssumption, Writer!StringAlgebra
  <2>7. (LinesOf[f] \o TextOf[LastOf(t)]) \o <<params.seg>>
          = LinesOf[f] \o (TextOf[LastOf(t)] \o <<params.seg>>)
    BY <2>2, WriterAssumption, Writer!StringAlgebra
  <2> QED BY <2>4, <2>5, <2>6, <2>7
<1>3. ASSUME NEW t \in Seq(Segment), NEW s \in Segment
      PROVE  Written(Append(t, s)) = LinesOf[t] \o TextOf[s]
  <2> DEFINE v == Append(t, s)
             g == SubSeq(v, 1, Len(v) - 1)
  <2>1. /\ v \in Seq(Segment) /\ v # <<>> /\ LastOf(v) = s /\ Len(v) = Len(t) + 1
        /\ Len(t) \in Nat /\ \A k \in 1..Len(t) : v[k] = t[k]
    BY AppendIsSeq
  <2> HIDE DEF v
  <2>2. g \in Seq(Segment) /\ Len(g) = Len(v) - 1 /\ \A k \in 1..(Len(v) - 1) : g[k] = v[k]
    BY <2>1, WriterAssumption, Writer!FrontOfPieces
  <2> HIDE DEF g
  <2>3. Len(g) = Len(t) /\ \A k \in 1..Len(g) : g[k] = t[k]
    BY <2>1, <2>2
  <2>4. g = t
    BY <2>2, <2>3, WriterAssumption, Writer!SeqEqual
  <2> QED BY <2>1, <2>4 DEF Written, v, g
<1>4. ASSUME NEW t \in Seq(Segment), NEW s \in Segment, NEW u \in Writer!Strings,
             t # <<>>, TextOf[s] = TextOf[LastOf(t)] \o u
      PROVE  Written(SetLast(t, s)) = Written(t) \o u
  <2> DEFINE f == SubSeq(t, 1, Len(t) - 1)
  <2>1. /\ f \in Seq(Segment) /\ LastOf(t) \in Segment
        /\ SubSeq(SetLast(t, s), 1, Len(SetLast(t, s)) - 1) = f
        /\ LastOf(SetLast(t, s)) = s
    BY <1>1, <1>4
  <2>2. LinesOf[f] \in Writer!Strings /\ TextOf[LastOf(t)] \in Writer!Strings
    BY <2>1, TreeTexts
  <2>3. Written(SetLast(t, s)) = LinesOf[f] \o TextOf[s] /\ Written(t) = LinesOf[f] \o TextOf[LastOf(t)]
    BY <2>1 DEF Written
  <2> HIDE DEF f
  <2>4. (LinesOf[f] \o TextOf[LastOf(t)]) \o u = LinesOf[f] \o (TextOf[LastOf(t)] \o u)
    BY <2>2, WriterAssumption, Writer!StringAlgebra
  <2> QED BY <1>4, <2>3, <2>4
<1> QED BY <1>2, <1>3, <1>4

\* The separator is a text.
LEMMA LeadIsString ==
  ASSUME Writer!TypeOK
  PROVE  Lead \in Writer!Strings
<1>1. <<>> \in Writer!Strings
  BY WriterAssumption, Writer!StringAlgebra
<1>2. \A k : <<Writer!SepOf(k)>> \in Writer!Strings
  BY SymbolFacts DEF Writer!SepOf
<1> QED BY <1>1, <1>2, SymbolFacts DEF Lead

-----------------------------------------------------------------------------
(* What the character at hand becomes. *)

\* A newline between segments is dropped.
LEMMA PieceOfNewline ==
  ASSUME FieldsInv, SkipNewline
  PROVE  Piece(pos) = <<>>
<1>1. pc = "segment" /\ Char(pos) \in Newlines /\ Given /\ pos \in Nat
  BY Basics DEF SkipNewline, FieldsInv, Reading
<1>2. \A a \in SegmentStarts : a < pos => \E k \in a..(pos - 1) : Is(k, {dialect.seg})
  BY <1>1 DEF FieldsInv, Place, AtStart
<1>3. ASSUME NEW a \in SegmentStarts, Reaches(a, pos) PROVE FALSE
  <2>1. a \in Nat /\ a <= pos /\ Char(a) \notin Newlines
    BY <1>3 DEF Reaches, SegmentStarts, Positions
  <2>2. a # pos
    BY <1>1, <2>1
  <2>3. a < pos
    BY <1>1, <2>1, <2>2
  <2> QED BY <1>2, <1>3, <2>3 DEF Reaches
<1>4. ~InSegment(pos)
  BY <1>3 DEF InSegment
<1> QED BY <1>4 DEF Piece

\* Where the parser is inside a segment.
LEMMA InsideFacts ==
  ASSUME FieldsInv, Inside
  PROVE  /\ Given /\ Len(message) \in Nat /\ pos \in 1..(Len(message) + 1) /\ ts \in 1..pos
         /\ StartOf(seg) \in SegmentStarts /\ StartOf(seg) \in Nat
         /\ StartOf(seg) <= Reached /\ Reaches(StartOf(seg), pos)
         /\ InSegment(pos)
         /\ (Char(pos) = NUL <=> pos = Len(message) + 1)
         /\ (Char(pos) # NUL <=> pos \in Positions)
<1>1. /\ Given /\ Len(message) \in Nat /\ pos \in 1..(Len(message) + 1) /\ ts \in 1..pos
      /\ (Char(pos) = NUL <=> pos = Len(message) + 1)
      /\ (Char(pos) # NUL <=> pos \in Positions)
  BY Basics DEF FieldsInv, Inside, Reading
<1>2. /\ StartOf(seg) \in SegmentStarts /\ StartOf(seg) <= Reached /\ Reaches(StartOf(seg), pos)
  BY OpenSegmentFacts
<1>3. StartOf(seg) \in Nat
  BY <1>2 DEF SegmentStarts, Positions
<1> QED BY <1>1, <1>2, <1>3 DEF InSegment

\* A terminator becomes the new one.
LEMMA PieceOfTerminator ==
  ASSUME FieldsInv, EndSegment
  PROVE  /\ pos \in Positions /\ Is(pos, {dialect.seg})
         /\ Piece(pos) = <<params.seg>>
<1>1. pc = "element" /\ Char(pos) = dialect.seg
  BY DEF EndSegment
<1>2. Inside
  BY <1>1 DEF Inside
<1>3. InSegment(pos) /\ Given /\ (Char(pos) # NUL <=> pos \in Positions)
  BY <1>2, InsideFacts
<1>4. Char(pos) # NUL
  BY <1>1, <1>3, InputFacts
<1>5. Escaped[pos] = FALSE
  BY <1>1, <1>4 DEF FieldsInv, Place, AtField
<1>6. Is(pos, {dialect.seg})
  BY <1>1, <1>5 DEF Is
<1> QED BY <1>3, <1>4, <1>6 DEF Piece

\* A character of a field stays, unless it escapes the next.
LEMMA PieceOfField ==
  ASSUME FieldsInv, Copy
  PROVE  /\ src \in Positions /\ e = Escaped[src]
         /\ Piece(src) = IF Escapes(src) /\ ~Escaped[src] THEN <<>> ELSE Build!Escaped(<<Char(src)>>)
<1>1. pc = "copy" /\ src < pos /\ Inside /\ Reached = ts
  BY DEF Copy, Inside, Reached
<1> DEFINE c == StartOf(seg)
<1>2. /\ Given /\ Len(message) \in Nat /\ pos \in 1..(Len(message) + 1) /\ ts \in 1..pos
      /\ c \in SegmentStarts /\ c \in Nat /\ c <= ts /\ Reaches(c, pos)
  BY <1>1, InsideFacts
<1>3. ts <= src /\ e = Escaped[src] /\ \A i \in ts..(pos - 1) : i \notin Boundaries
  BY <1>1 DEF FieldsInv, Place, Copying, InField
<1>4. src \in Nat
  BY <1>1, Basics DEF FieldsInv, Reading
<1> HIDE DEF c
<1>5. src \in Positions /\ src \in ts..(pos - 1) /\ c <= src
  BY <1>1, <1>2, <1>3, <1>4 DEF Positions
<1>6. Reaches(c, src)
  <2>1. \A k \in c..(src - 1) : k \in c..(pos - 1)
    BY <1>1, <1>2, <1>4
  <2> QED BY <1>2, <1>5, <2>1 DEF Reaches
<1>7. InSegment(src)
  BY <1>2, <1>6 DEF InSegment
<1>8. src \notin Boundaries
  BY <1>3, <1>5
<1>9. ~Is(src, {dialect.sub, dialect.seg, SeparatorAt(c, src)})
  BY <1>2, <1>5, <1>6, <1>8, BoundaryInside
<1>10. ~Is(src, {dialect.seg})
  BY <1>9 DEF Is
<1> QED BY <1>3, <1>5, <1>7, <1>8, <1>10 DEF Piece

\* The first element of a segment, seen from inside the segment.
LEMMA FirstElementIs ==
  ASSUME Given, NEW c \in SegmentStarts, NEW p \in Nat, Reaches(c, p)
  PROVE  InFirstElement(p) <=> NoTag(c, p)
<1>1. c \in Nat
  BY DEF SegmentStarts, Positions
<1>2. ASSUME NEW a \in SegmentStarts, Reaches(a, p) PROVE a = c
  <2>1. a <= c /\ c <= a
    BY <1>1, <1>2, NoStartInside DEF Reaches
  <2> QED BY <1>1, <2>1 DEF SegmentStarts, Positions
<1>3. (\E a \in SegmentStarts : Reaches(a, p) /\ NoTag(a, p)) <=> NoTag(c, p)
  BY <1>2
<1> QED BY <1>3 DEF InFirstElement, NoTag

\* A separator becomes the new one of its kind, unless nothing follows it.
LEMMA PieceOfSeparator ==
  ASSUME FieldsInv, Store, AtSeparator
  PROVE  /\ pos \in Positions
         /\ Char(pos) \in {dialect.sub, dialect.tag, dialect.data}
         /\ Piece(pos) =
              IF Ends(pos + 1) THEN <<>>
              ELSE <<IF Char(pos) = dialect.sub THEN params.sub
                     ELSE IF Len(seg.elements) = 1 THEN params.tag ELSE params.data>>
<1> DEFINE c == StartOf(seg)
<1>1. /\ pc = "copy" /\ Char(pos) \notin {NUL, dialect.seg} /\ Inside
  BY DEF Store, AtSeparator, Inside
<1>2. /\ Given /\ pos \in Positions /\ InSegment(pos) /\ c \in SegmentStarts /\ Reaches(c, pos)
  BY <1>1, InsideFacts
<1>3. /\ pos \in Boundaries /\ Is(pos, {dialect.sub, dialect.seg, SeparatorAt(c, pos)})
      /\ ~newel /\ (FirstOpen <=> NoTag(c, pos)) /\ Len(seg.elements) \in Nat \ {0}
  BY <1>2, StorePlace
<1>4. ~Is(pos, {dialect.seg})
  BY <1>1 DEF Is
<1>5. InFirstElement(pos) <=> NoTag(c, pos)
  BY <1>2, FirstElementIs DEF Positions
<1>6. InFirstElement(pos) <=> Len(seg.elements) = 1
  BY <1>3, <1>5 DEF FirstOpen
<1>7. Char(pos) \in {dialect.sub, dialect.tag, dialect.data}
  BY <1>1, <1>3 DEF Is, SeparatorAt
<1>8. Ends(pos + 1) <=> Trailing(pos)
  BY DEF Ends, Trailing
<1> HIDE DEF c
<1> QED BY <1>2, <1>3, <1>4, <1>6, <1>7, <1>8 DEF Piece, NewSeparator

-----------------------------------------------------------------------------
(* The tree as far as it has been made has the text of the message as far as *)
(* it has been read.                                                         *)

TextSoFar ==
  /\ pc = "segment" => LinesOf[segments] = Upto[pos]
  /\ pc = "element" =>
       IF Ends(pos) THEN Written(segments) = Upto[pos]
       ELSE Written(segments) \o Lead = Upto[pos]
  /\ pc = "scan" => Written(segments) \o Lead = Upto[ts]
  /\ pc = "copy" => (Written(segments) \o Lead) \o EscapedOf[text] = Upto[src]
  /\ Parsed => LinesOf[segments] =
       Upto[Len(message) + 1] \o (IF error.temporary = "NONE" THEN <<>> ELSE <<params.seg>>)

\* One character more.
LEMMA UptoFacts ==
  ASSUME Given, Writer!TypeOK
  PROVE  /\ Upto[1] = <<>>
         /\ \A p \in 1..(Len(message) + 1) : Upto[p] \in Writer!Strings
         /\ \A p \in Positions : Upto[p + 1] = Upto[p] \o Piece(p) /\ Piece(p) \in Writer!Strings
<1>1. Len(message) \in Nat /\ 1 \in 1..(Len(message) + 1) /\ 1 - 1 = 0
  BY InputFacts
<1>2. /\ Pieces(1, 1 - 1) = <<>>
      /\ \A b \in (1 - 1)..Len(message) : Pieces(1, b) \in Writer!Strings
      /\ \A b \in 1..Len(message) : Pieces(1, b) = Pieces(1, b - 1) \o Piece(b)
  BY <1>1, PiecesFacts
<1>3. \A p \in Nat : Upto[p] = Pieces(1, p - 1)
  BY DEF Upto
<1>4. ASSUME NEW p \in 1..(Len(message) + 1) PROVE Upto[p] \in Writer!Strings
  <2>1. p \in Nat /\ p - 1 \in (1 - 1)..Len(message)
    BY <1>1
  <2> QED BY <1>2, <1>3, <2>1
<1>5. ASSUME NEW p \in Positions
      PROVE  Upto[p + 1] = Upto[p] \o Piece(p) /\ Piece(p) \in Writer!Strings
  <2>1. p \in Nat /\ p + 1 \in Nat /\ (p + 1) - 1 = p /\ p \in 1..Len(message)
    BY <1>1 DEF Positions
  <2> QED BY <1>2, <1>3, <2>1, PieceIsString
<1> QED BY <1>1, <1>2, <1>3, <1>4, <1>5

\* Behind each step the functions are what they were.
LEMMA StepTexts ==
  ASSUME UNCHANGED <<message, dialect, params>>
  PROVE  /\ LinesOf[segments]' = LinesOf[segments']
         /\ Written(segments)' = Written(segments')
         /\ \A p : Upto[p]' = Upto[p]
         /\ Upto[pos]' = Upto[pos'] /\ Upto[ts]' = Upto[ts'] /\ Upto[src]' = Upto[src']
         /\ EscapedOf[text]' = EscapedOf[text']
         /\ Ends(pos)' = Ends(pos')
         /\ Upto[Len(message) + 1]' = Upto[Len(message) + 1]
<1>1. /\ LinesOf' = LinesOf /\ TextOf' = TextOf /\ EscapedOf' = EscapedOf /\ Upto' = Upto
      /\ \A p : Ends(p)' = Ends(p)
  BY TextsStay
<1>2. Written(segments)' = Written(segments')
  BY <1>1 DEF Written, LastOf
<1>3. Ends(pos)' = Ends(pos')
  BY DEF Ends, Char
<1> QED BY <1>1, <1>2, <1>3

\* The parser goes on reading.
LEMMA NotParsed ==
  ASSUME pc # "returned"
  PROVE  ~Parsed
BY DEF Parsed

\* A failure leaves no tree that is whole.
LEMMA StopTexts ==
  ASSUME FieldsInv, NoMatch \/ CreateFails \/ Empty \/ SegmentFails \/ ElementFails
                    \/ AllocValueFails \/ StoreFails
  PROVE  pc' \in {"returned", "undefined"} /\ ~Parsed'
<1>1. /\ parser \in {"caller", "temporary"}
      /\ error \in [{"caller", "temporary"} -> {"NONE", "SYSTEM", "UNTERMINATED", "EMPTY"}]
  BY DEF FieldsInv, Typed, TypeOK
<1>2. CASE NoMatch \/ CreateFails
  BY <1>2 DEF NoMatch, CreateFails, Fail, Return, Parsed
<1>3. CASE AllocValueFails
  BY <1>3 DEF AllocValueFails, Parsed
<1>4. CASE Empty \/ SegmentFails \/ ElementFails \/ StoreFails
  <2>1. parser = "temporary"
    BY <1>4 DEF Empty, SegmentFails, ElementFails, StoreFails, AtSegment, AtElement, FieldsInv,
                Typed, Shape
  <2>2. pc' = "returned" /\ \E x \in {"EMPTY", "SYSTEM"} : error' = [error EXCEPT ![parser] = x]
    BY <1>4 DEF Empty, SegmentFails, ElementFails, StoreFails, Fail, Return
  <2>3. error'.temporary \in {"EMPTY", "SYSTEM"}
    BY <1>1, <2>1, <2>2
  <2> QED BY <2>2, <2>3 DEF Parsed
<1> QED BY <1>2, <1>3, <1>4

\* Nothing is read, and nothing is to be written.
LEMMA ReserveText ==
  ASSUME FieldsInv, Writer!TypeOK, Match \/ Reserve, UNCHANGED params
  PROVE  TextSoFar'
<1>1. UNCHANGED <<message, dialect, params, segments, pos>> /\ pc' \in {"create", "segment"}
  BY DEF Match, Reserve, input, tree, cursor
<1>2. CASE Match
  BY <1>2 DEF Match, TextSoFar, Parsed
<1>3. CASE Reserve
  <2>1. pc = "create" /\ segments = <<>> /\ pos = 1 /\ Given
    BY <1>3 DEF Reserve, FieldsInv, Place, Fresh, Typed, Shape, TypeOK, Given
  <2>2. LinesOf[segments] = Upto[pos]
    BY <2>1, TreeTexts, UptoFacts
  <2>3. LinesOf[segments]' = Upto[pos]'
    BY <1>1, <2>2, StepTexts
  <2>4. pc' = "segment"
    BY <1>3 DEF Reserve
  <2> QED BY <2>3, <2>4 DEF TextSoFar, Parsed
<1> QED BY <1>2, <1>3

\* A newline is dropped.
LEMMA SkipNewlineText ==
  ASSUME FieldsInv, TextSoFar, Writer!TypeOK, SkipNewline, UNCHANGED params
  PROVE  TextSoFar'
<1>1. /\ UNCHANGED <<message, dialect, params, segments>> /\ pc = "segment" /\ pc' = "segment"
      /\ pos' = pos + 1 /\ Char(pos) \in Newlines
  BY DEF SkipNewline, input, tree
<1>2. /\ Given /\ pos \in Positions
  <2>1. /\ Given /\ Len(message) \in Nat /\ (Char(pos) # NUL <=> pos \in Positions)
    BY <1>1, Basics DEF FieldsInv, Reading
  <2> QED BY <1>1, <2>1, InputFacts
<1>3. Piece(pos) = <<>>
  BY PieceOfNewline
<1>4. Upto[pos + 1] = Upto[pos] \o <<>> /\ Upto[pos] \in Writer!Strings
  <2>1. pos \in 1..(Len(message) + 1)
    BY <1>1, Basics DEF FieldsInv, Reading
  <2>2. Upto[pos + 1] = Upto[pos] \o Piece(pos)
    BY <1>2, UptoFacts
  <2>3. Upto[pos] \in Writer!Strings
    BY <1>2, <2>1, UptoFacts
  <2> QED BY <1>3, <2>2, <2>3
<1>5. Upto[pos + 1] = Upto[pos]
  BY <1>4, WriterAssumption, Writer!StringAlgebra
<1>6. LinesOf[segments] = Upto[pos]
  BY <1>1 DEF TextSoFar
<1>7. LinesOf[segments]' = Upto[pos]'
  BY <1>1, <1>5, <1>6, StepTexts
<1> QED BY <1>1, <1>7 DEF TextSoFar, Parsed

\* A terminator ends the line.
LEMMA EndSegmentText ==
  ASSUME FieldsInv, TextSoFar, Writer!TypeOK, EndSegment, UNCHANGED params
  PROVE  TextSoFar'
<1>1. /\ UNCHANGED <<message, dialect, params, segments>> /\ pc = "element" /\ pc' = "segment"
      /\ pos' = pos + 1 /\ Char(pos) = dialect.seg
  BY DEF EndSegment, input, tree
<1>2. Given /\ segments \in Seq(Segment) /\ segments # <<>>
  BY <1>1, Basics DEF FieldsInv, Reading, Inside
<1>3. pos \in Positions /\ Piece(pos) = <<params.seg>>
  BY PieceOfTerminator
<1>4. Upto[pos + 1] = Upto[pos] \o <<params.seg>>
  BY <1>2, <1>3, UptoFacts
<1>5. Written(segments) = Upto[pos]
  BY <1>1 DEF TextSoFar, Ends
<1>6. LinesOf[segments] = Written(segments) \o <<params.seg>>
  BY <1>2, WrittenFacts
<1>7. LinesOf[segments]' = Upto[pos]'
  BY <1>1, <1>4, <1>5, <1>6, StepTexts
<1> QED BY <1>1, <1>7 DEF TextSoFar, Parsed

\* At the end of the message all of it is there, and a terminator that was not.
LEMMA ReturnText ==
  ASSUME FieldsInv, TextSoFar, Writer!TypeOK, EndOfMessage \/ Unterminated, UNCHANGED params
  PROVE  TextSoFar'
<1>1. /\ UNCHANGED <<message, dialect, params, segments>> /\ pc' = "returned"
      /\ Char(pos) = NUL /\ pc \in {"segment", "element"}
  BY DEF EndOfMessage, Unterminated, Fail, Return, input, tree
<1>2. /\ Given /\ Len(message) \in Nat /\ pos = Len(message) + 1 /\ segments \in Seq(Segment)
      /\ parser = "temporary" /\ error["temporary"] = "NONE"
      /\ pc = "element" => segments # <<>>
  BY <1>1, Basics DEF FieldsInv, Reading, Inside
<1>3. Upto[pos] \in Writer!Strings
  BY <1>2, UptoFacts
<1> DEFINE tail(x) == IF x = "NONE" THEN <<>> ELSE <<params.seg>>
<1>4. LinesOf[segments] = Upto[Len(message) + 1] \o tail(error'.temporary)
  <2>1. CASE EndOfMessage
    <3>1. pc = "segment" /\ error' = error
      BY <2>1 DEF EndOfMessage
    <3>2. LinesOf[segments] = Upto[pos]
      BY <3>1 DEF TextSoFar
    <3>3. Upto[pos] \o <<>> = Upto[pos]
      BY <1>3, WriterAssumption, Writer!StringAlgebra
    <3>4. tail(error'.temporary) = <<>>
      BY <1>2, <3>1
    <3> QED BY <1>2, <3>2, <3>3, <3>4
  <2>2. CASE Unterminated
    <3>1. pc = "element" /\ error' = [error EXCEPT ![parser] = "UNTERMINATED"]
      BY <2>2 DEF Unterminated, Fail
    <3>2. error'.temporary = "UNTERMINATED"
      BY <1>2, <3>1 DEF FieldsInv, Typed, TypeOK
    <3>3. Written(segments) = Upto[pos]
      BY <1>1, <3>1 DEF TextSoFar, Ends
    <3>4. LinesOf[segments] = Written(segments) \o <<params.seg>>
      BY <1>2, <3>1, WrittenFacts
    <3> QED BY <1>2, <3>2, <3>3, <3>4
  <2> QED BY <2>1, <2>2
<1>5. /\ LinesOf[segments]' = LinesOf[segments]
      /\ Upto[Len(message) + 1]' = Upto[Len(message) + 1]
      /\ <<params.seg>>' = <<params.seg>>
  BY <1>1, StepTexts
<1>6. LinesOf[segments]' = Upto[Len(message) + 1]' \o (tail(error.temporary))'
  BY <1>1, <1>4, <1>5
<1> QED BY <1>1, <1>6 DEF TextSoFar

\* A segment begins with no text.
LEMMA NewSegmentText ==
  ASSUME FieldsInv, TextSoFar, Writer!TypeOK, NewSegment, UNCHANGED params
  PROVE  TextSoFar'
<1> DEFINE s == NewSegmentAt(pos)
<1>1. /\ UNCHANGED <<message, dialect, params, pos>> /\ pc = "segment" /\ pc' = "element"
      /\ newel' /\ segments' = Append(segments, s)
  BY DEF NewSegment, AtSegment, input
<1>2. /\ Given /\ Len(message) \in Nat /\ pos \in 1..(Len(message) + 1)
      /\ segments \in Seq(Segment)
  BY <1>1, Basics DEF FieldsInv, Reading
<1>3. s \in Segment /\ s.elements = <<>>
  BY <1>2, InputFacts DEF NewSegmentAt, Segment
<1> HIDE DEF s
<1>4. LastOf(segments') = s
  BY <1>1, <1>2, <1>3, AppendIsSeq
<1>5. Written(segments') = LinesOf[segments] \o <<>>
  <2>1. TextOf[s] = <<>>
    BY <1>3, TreeTexts
  <2> QED BY <1>1, <1>2, <1>3, <2>1, WrittenFacts
<1>6. LinesOf[segments] = Upto[pos] /\ Upto[pos] \in Writer!Strings
  BY <1>1, <1>2, UptoFacts DEF TextSoFar
<1>7. Written(segments') = Upto[pos] /\ Written(segments') \o <<>> = Upto[pos]
  BY <1>5, <1>6, WriterAssumption, Writer!StringAlgebra
<1>8. Lead' = <<>>
  BY <1>1, <1>3, <1>4 DEF Lead, seg
<1>9. Written(segments)' = Upto[pos]' /\ Written(segments)' \o Lead' = Upto[pos]'
  BY <1>1, <1>7, <1>8, StepTexts
<1> QED BY <1>1, <1>9 DEF TextSoFar, Parsed

\* So does an element; what was in front of it is now behind its separator.
LEMMA NewElementText ==
  ASSUME FieldsInv, TextSoFar, Writer!TypeOK, NewElement, UNCHANGED params
  PROVE  TextSoFar'
<1> DEFINE x == NewElementHere
           t == [offset |-> seg.offset, tag |-> seg.tag, elements |-> Append(seg.elements, x)]
<1>1. /\ UNCHANGED <<message, dialect, params, pos>> /\ pc = "element" /\ pc' = "element"
      /\ newel /\ ~newel' /\ Char(pos) \notin {NUL, dialect.seg}
      /\ segments' = SetLast(segments, [seg EXCEPT !.elements = Append(@, x)])
  BY DEF NewElement, AtElement, input
<1>2. /\ Given /\ Len(message) \in Nat /\ pos \in 1..(Len(message) + 1)
      /\ segments \in Seq(Segment) /\ segments # <<>> /\ seg \in Segment
      /\ seg.elements \in Seq(Element) /\ seg = LastOf(segments)
  BY <1>1, Basics DEF FieldsInv, Reading, Inside, seg
<1>3. x \in Element /\ x.values = <<>>
  BY DEF NewElementHere, Element
<1>4. /\ Append(seg.elements, x) \in Seq(Element)
      /\ LastOf(Append(seg.elements, x)) = x
  <2> HIDE DEF x
  <2> QED BY <1>2, <1>3, AppendIsSeq
<1>5. t \in Segment /\ t.elements = Append(seg.elements, x)
  BY <1>2, <1>4 DEF Segment
<1>6. segments' = SetLast(segments, t)
  <2>1. seg = [offset |-> seg.offset, tag |-> seg.tag, elements |-> seg.elements]
    BY <1>2 DEF Segment
  <2>2. t = [seg EXCEPT !.elements = Append(@, x)]
    BY <2>1
  <2> QED BY <1>1, <2>2
<1> HIDE DEF t, x
<1>7. seg' = t
  BY <1>2, <1>5, <1>6, SetLastIsSeq DEF seg
<1>8. Writer!ElementText(x) = <<>>
  BY <1>3, ForWriter, WriterAssumption, Writer!EmptyElementText
<1>9. Lead \in Writer!Strings
  BY LeadIsString
<1>10. TextOf[t] = TextOf[seg] \o Lead
  <2>1. Writer!IsSegment(seg) /\ Writer!IsSegment(t)
    BY <1>2, <1>5, ForWriter
  <2>2. Writer!ElementsText(t) =
          Writer!ElementsText(seg) \o
            ((IF seg.elements = <<>> THEN <<>> ELSE <<Writer!SepOf(Len(seg.elements) + 1)>>)
               \o Writer!ElementText(x))
    BY <1>5, <2>1, WriterAssumption, Writer!SegmentTextGrows
  <2>3. Lead = IF seg.elements = <<>> THEN <<>> ELSE <<Writer!SepOf(Len(seg.elements) + 1)>>
    BY <1>1 DEF Lead
  <2>4. Lead \o <<>> = Lead
    BY <1>9, WriterAssumption, Writer!StringAlgebra
  <2>5. Writer!ElementsText(t) = Writer!ElementsText(seg) \o Lead
    BY <1>8, <2>2, <2>3, <2>4
  <2> QED BY <1>2, <1>5, <2>5 DEF TextOf
<1>11. Written(segments') = Written(segments) \o Lead
  <2>1. TextOf[t] = TextOf[LastOf(segments)] \o Lead
    BY <1>2, <1>10
  <2> QED BY <1>2, <1>5, <1>6, <1>9, <2>1, WrittenFacts
<1>12. Written(segments) \o Lead = Upto[pos] /\ Upto[pos] \in Writer!Strings
  BY <1>1, <1>2, UptoFacts DEF TextSoFar, Ends
<1>13. Lead' = <<>>
  <2>1. el' = x
    BY <1>4, <1>5, <1>7 DEF el
  <2> QED BY <1>1, <1>3, <2>1 DEF Lead
<1>14. Written(segments') \o <<>> = Upto[pos]
  BY <1>11, <1>12, WriterAssumption, Writer!StringAlgebra
<1>15. Written(segments)' = Upto[pos]' /\ Written(segments)' \o Lead' = Upto[pos]'
  BY <1>1, <1>11, <1>12, <1>13, <1>14, StepTexts
<1> QED BY <1>1, <1>15 DEF TextSoFar, Parsed

\* A step that leaves the tree alone leaves its text alone.
LEMMA SameTree ==
  ASSUME UNCHANGED <<message, dialect, params, segments, newel>>
  PROVE  Written(segments)' = Written(segments) /\ Lead' = Lead
<1>1. Written(segments)' = Written(segments)
  BY StepTexts
<1>2. Lead' = Lead
  BY DEF Lead, el, seg, Writer!SepOf, LastOf
<1> QED BY <1>1, <1>2

\* To look for the end of a value writes nothing.
LEMMA ScanText ==
  ASSUME FieldsInv, TextSoFar, Writer!TypeOK, StartValue \/ Scan, UNCHANGED params
  PROVE  TextSoFar'
<1>1. /\ UNCHANGED <<message, dialect, params, segments, newel>> /\ pc' = "scan"
      /\ ts' = IF pc = "scan" THEN ts ELSE pos
      /\ pc \in {"element", "scan"}
      /\ pc = "element" => Char(pos) \notin {NUL, dialect.seg}
  BY DEF StartValue, Scan, AtElement, input, tree
<1>2. Written(segments) \o Lead = Upto[ts']
  BY <1>1 DEF TextSoFar, Ends
<1>3. Written(segments)' \o Lead' = Upto[ts]'
  BY <1>1, <1>2, SameTree, StepTexts
<1> QED BY <1>1, <1>3 DEF TextSoFar, Parsed

\* A value is allocated with no text yet.
LEMMA AllocText ==
  ASSUME FieldsInv, TextSoFar, Writer!TypeOK, AllocValue, UNCHANGED params
  PROVE  TextSoFar'
<1>1. /\ UNCHANGED <<message, dialect, params, segments, newel>> /\ pc' = "copy" /\ pc = "scan"
      /\ src' = ts /\ text' = <<>>
  BY DEF AllocValue, AtEndOfValue, input, tree
<1>2. /\ Given /\ Len(message) \in Nat /\ ts \in 1..(Len(message) + 1)
  BY <1>1, Basics DEF FieldsInv, Reading
<1>3. Written(segments) \o Lead = Upto[ts] /\ Upto[ts] \in Writer!Strings
  BY <1>1, <1>2, UptoFacts DEF TextSoFar
<1>4. EscapedOf[<<>>] = <<>>
  BY WriterAssumption, Writer!EscapedEmpty DEF EscapedOf
<1>5. (Written(segments) \o Lead) \o EscapedOf[<<>>] = Upto[ts]
  BY <1>3, <1>4, WriterAssumption, Writer!StringAlgebra
<1>6. (Written(segments)' \o Lead') \o EscapedOf[text]' = Upto[src]'
  BY <1>1, <1>5, SameTree, StepTexts
<1> QED BY <1>1, <1>6 DEF TextSoFar, Parsed

\* A character that is copied is written as it was, escaped where it must be.
LEMMA CopyText ==
  ASSUME FieldsInv, TextSoFar, Writer!TypeOK, Copy, UNCHANGED params
  PROVE  TextSoFar'
<1>1. /\ UNCHANGED <<message, dialect, params, segments, newel>> /\ pc' = "copy" /\ pc = "copy"
      /\ src' = src + 1 /\ text' = Copied
  BY DEF Copy, input, tree
<1>2. /\ Given /\ Len(message) \in Nat /\ text \in Seq(Chars)
      /\ segments \in Seq(Segment) /\ segments # <<>>
  BY <1>1, Basics DEF FieldsInv, Reading, Inside
<1>3. /\ src \in Positions /\ e = Escaped[src]
      /\ Piece(src) = IF Escapes(src) /\ ~Escaped[src] THEN <<>>
                      ELSE Build!Escaped(<<Char(src)>>)
  BY PieceOfField
<1>4. Char(src) \in Chars
  BY <1>2, <1>3, InputFacts DEF Positions
<1> DEFINE w == Written(segments) \o Lead
<1>5. w \o EscapedOf[text] = Upto[src] /\ w \in Writer!Strings
  <2>1. Written(segments) \in Writer!Strings /\ Lead \in Writer!Strings
    BY <1>2, WrittenFacts, LeadIsString
  <2> QED BY <1>1, <2>1, WriterAssumption, Writer!StringAlgebra DEF TextSoFar
<1>6. Upto[src + 1] = Upto[src] \o Piece(src)
  BY <1>2, <1>3, UptoFacts
<1>7. text \in Writer!Strings /\ Char(src) \in Writer!Symbols
  BY <1>2, <1>4, SymbolFacts
<1>8. /\ Writer!Escaped(text) \in Writer!Strings /\ Writer!Escaped(<<Char(src)>>) \in Writer!Strings
      /\ Writer!Escaped(Append(text, Char(src)))
           = Writer!Escaped(text) \o Writer!Escaped(<<Char(src)>>)
  BY <1>7, WriterAssumption, Writer!EscapedGrows
<1>9. Append(text, Char(src)) \in Seq(Chars)
  BY <1>2, <1>4
<1>10. w \o EscapedOf[text'] = Upto[src + 1]
  <2>1. CASE ~e /\ Escapes(src)
    <3>1. text' = text
      BY <1>1, <2>1 DEF Copied
    <3>2. Piece(src) = <<>>
      BY <1>3, <2>1
    <3>3. Upto[src] \o <<>> = Upto[src]
      <4>1. src \in 1..(Len(message) + 1)
        BY <1>2, <1>3 DEF Positions
      <4>2. Upto[src] \in Writer!Strings
        BY <1>2, <4>1, UptoFacts
      <4> QED BY <4>2, WriterAssumption, Writer!StringAlgebra
    <3> HIDE DEF w
    <3> QED BY <1>5, <1>6, <3>1, <3>2, <3>3
  <2>2. CASE ~(~e /\ Escapes(src))
    <3>1. text' = Append(text, Char(src))
      BY <1>1, <2>2 DEF Copied
    <3>2. Piece(src) = Writer!Escaped(<<Char(src)>>)
      <4>1. Piece(src) = Build!Escaped(<<Char(src)>>)
        BY <1>3, <2>2, Zenon
      <4> QED BY <4>1, SameOperators
    <3>3. /\ EscapedOf[text'] = Writer!Escaped(text) \o Writer!Escaped(<<Char(src)>>)
          /\ EscapedOf[text] = Writer!Escaped(text)
      BY <1>2, <1>8, <1>9, <3>1 DEF EscapedOf
    <3> HIDE DEF w
    <3>4. (w \o Writer!Escaped(text)) \o Writer!Escaped(<<Char(src)>>)
            = w \o (Writer!Escaped(text) \o Writer!Escaped(<<Char(src)>>))
      BY <1>5, <1>8, WriterAssumption, Writer!StringAlgebra
    <3> QED BY <1>5, <1>6, <3>2, <3>3, <3>4
  <2> QED BY <2>1, <2>2
<1>11. (Written(segments)' \o Lead') \o EscapedOf[text]' = Upto[src]'
  BY <1>1, <1>10, SameTree, StepTexts
<1> QED BY <1>1, <1>11 DEF TextSoFar, Parsed

\* What is in the tree once a value is stored.
LEMMA StoredTree ==
  ASSUME FieldsInv, Store
  PROVE  \E t \in Segment, y \in Element, v \in Values :
           /\ segments' = SetLast(segments, t) /\ seg' = t /\ t.offset = seg.offset
           /\ t.elements = SetLast(seg.elements, y) /\ Len(t.elements) = Len(seg.elements)
           /\ \A j \in 1..Len(seg.elements) :
                t.elements[j] = IF j = Len(seg.elements) THEN y ELSE seg.elements[j]
           /\ LastOf(t.elements) = y /\ Len(seg.elements) \in Nat \ {0}
           /\ el \in Element /\ el = LastOf(seg.elements)
           /\ y.values = Append(el.values, v) /\ y.values # <<>>
           /\ y.type = IF IsComposite THEN "composite" ELSE "simple"
           /\ v.text = text /\ v.from = ts /\ EndOf(v) = pos
<1> DEFINE v == [loc |-> value, text |-> text, from |-> ts]
           y == StoredElement
<1>1. /\ pc = "copy" /\ src = pos
      /\ segments' = SetLast(segments, [seg EXCEPT !.tag = TagOf, !.elements = SetLast(@, y)])
  BY DEF Store
<1>2. /\ segments \in Seq(Segment) /\ segments # <<>> /\ seg \in Segment
      /\ seg.elements \in Seq(Element) /\ seg.elements # <<>> /\ value \in Pool!Value
  BY <1>1, Basics DEF FieldsInv, Reading, Inside, Typed, Shape
<1>3. el \in Element /\ el = LastOf(seg.elements) /\ el.values \in Seq(Values)
  <2>1. el \in Element
    BY <1>2, CurrentFacts DEF FieldsInv
  <2> QED BY <2>1 DEF el, Element
<1>4. v \in Values /\ EndOf(v) = pos /\ v.from = ts /\ v.text = text
  BY <1>1, StoredIsField
<1>5. y.values = Append(el.values, v) /\ y.type = IF IsComposite THEN "composite" ELSE "simple"
  BY DEF StoredElement
<1> HIDE DEF v
<1>6. y \in Element
  <2>1. Append(el.values, v) \in Seq(Values)
    BY <1>3, <1>4
  <2> QED BY <1>5, <2>1 DEF StoredElement, Element, v
<1>7. y.values # <<>>
  BY <1>3, <1>4, <1>5, AppendIsSeq
<1> HIDE DEF y
<1>8. TagOf \in Pool!Value \union {NoValue}
  BY <1>2 DEF TagOf, Segment
<1>9. PICK t \in Segment : /\ t = [seg EXCEPT !.tag = TagOf, !.elements = SetLast(@, y)]
                           /\ t.elements = SetLast(seg.elements, y)
                           /\ t.tag = TagOf /\ t.offset = seg.offset
  BY <1>2, <1>6, <1>8, ReplacedSegment, ZenonT(40)
<1>10. segments' = SetLast(segments, t)
  BY <1>1, <1>9
<1>11. seg' = t
  BY <1>2, <1>10, SetLastIsSeq DEF seg
<1>12. /\ Len(t.elements) = Len(seg.elements) /\ LastOf(t.elements) = y
       /\ Len(seg.elements) \in Nat \ {0}
       /\ \A j \in 1..Len(seg.elements) :
            t.elements[j] = IF j = Len(seg.elements) THEN y ELSE seg.elements[j]
  <2> DEFINE xs == seg.elements
  <2>1. xs \in Seq(Element) /\ xs # <<>>
    BY <1>2
  <2>2. t.elements = SetLast(xs, y)
    BY <1>9
  <2> HIDE DEF xs
  <2>3. /\ Len(t.elements) = Len(xs) /\ LastOf(t.elements) = y /\ Len(xs) \in Nat \ {0}
        /\ \A j \in 1..Len(xs) : t.elements[j] = IF j = Len(xs) THEN y ELSE xs[j]
    BY <1>6, <2>1, <2>2, SetLastIsSeq
  <2> QED BY <2>3 DEF xs
<1> QED BY <1>3, <1>4, <1>5, <1>6, <1>7, <1>9, <1>10, <1>11, <1>12

\* With the value stored, the text of the tree goes up to the separator.
LEMMA StoreWrites ==
  ASSUME FieldsInv, TextSoFar, Writer!TypeOK, Store
  PROVE  Written(segments') = Upto[pos]
<1>1. /\ pc = "copy" /\ src = pos
  BY DEF Store
<1>2. /\ segments \in Seq(Segment) /\ segments # <<>> /\ seg \in Segment
      /\ seg = LastOf(segments) /\ text \in Seq(Chars) /\ ~newel
      /\ seg.elements \in Seq(Element)
  BY <1>1, Basics DEF FieldsInv, Reading, Inside, seg, Place, InField
<1>3. PICK t \in Segment, y \in Element, v \in Values :
        /\ segments' = SetLast(segments, t)
        /\ Len(t.elements) = Len(seg.elements)
        /\ \A j \in 1..Len(seg.elements) :
             t.elements[j] = IF j = Len(seg.elements) THEN y ELSE seg.elements[j]
        /\ Len(seg.elements) \in Nat \ {0}
        /\ el \in Element /\ el = LastOf(seg.elements)
        /\ y.values = Append(el.values, v)
        /\ v.text = text
  BY StoredTree
<1> DEFINE u == Lead \o Writer!Escaped(text)
           n == Len(seg.elements)
<1>4. Writer!IsElement(el) /\ Writer!IsElement(y) /\ Writer!IsSegment(seg) /\ Writer!IsSegment(t)
  BY <1>2, <1>3, ForWriter
<1>5. Lead = IF el.values = <<>> THEN <<>> ELSE <<params.sub>>
  BY <1>2 DEF Lead
<1>6. /\ Writer!Escaped(v.text) \in Writer!Strings
      /\ Writer!ElementText(y) =
           Writer!ElementText(el) \o
             ((IF el.values = <<>> THEN <<>> ELSE <<params.sub>>) \o Writer!Escaped(v.text))
  BY <1>3, <1>4, WriterAssumption, Writer!ElementTextGrows, ZenonT(40)
<1>7. Writer!ElementText(y) = Writer!ElementText(el) \o u
  BY <1>3, <1>5, <1>6
<1>8. Lead \in Writer!Strings /\ Writer!Escaped(text) \in Writer!Strings /\ u \in Writer!Strings
  <2>1. Lead \in Writer!Strings
    BY LeadIsString
  <2>2. Writer!Escaped(text) \in Writer!Strings
    BY <1>3, <1>6
  <2> QED BY <2>1, <2>2, WriterAssumption, Writer!StringAlgebra
<1> HIDE DEF u
<1>9. Writer!ElementsText(t) = Writer!ElementsText(seg) \o u
  <2>1. seg.elements # <<>> /\ n \in 1..n
    BY <1>3
  <2>2. t.elements[n] = y /\ seg.elements[n] = el
    BY <1>3, <2>1 DEF LastOf
  <2>3. \A k \in 1..n : k < n => t.elements[k] = seg.elements[k]
    BY <1>3
  <2>4. Writer!ElementText(t.elements[n]) = Writer!ElementText(seg.elements[n]) \o u
    BY <1>7, <2>2
  <2> QED BY <1>3, <1>4, <1>8, <2>1, <2>3, <2>4, WriterAssumption, Writer!SegmentTextLengthens
<1>10. TextOf[t] = TextOf[LastOf(segments)] \o u
  BY <1>2, <1>9 DEF TextOf
<1>11. Written(segments') = Written(segments) \o u
  BY <1>2, <1>3, <1>8, <1>10, WrittenFacts
<1>12. Written(segments) \in Writer!Strings
  BY <1>2, WrittenFacts
<1>13. (Written(segments) \o Lead) \o Writer!Escaped(text) = Upto[pos]
  BY <1>1, <1>2 DEF TextSoFar, EscapedOf
<1>14. (Written(segments) \o Lead) \o Writer!Escaped(text)
         = Written(segments) \o (Lead \o Writer!Escaped(text))
  BY <1>8, <1>12, WriterAssumption, Writer!StringAlgebra
<1> QED BY <1>11, <1>13, <1>14 DEF u

\* Behind a value comes its separator, if something follows it.
LEMMA StoreText ==
  ASSUME FieldsInv, TextSoFar, Writer!TypeOK, Store, UNCHANGED params
  PROVE  TextSoFar'
<1>1. /\ UNCHANGED <<message, dialect, params>> /\ pc = "copy" /\ pc' = "element"
      /\ IF AtSeparator THEN pos' = pos + 1 /\ newel' = StartsElement
         ELSE UNCHANGED <<pos, newel>>
  BY DEF Store, input
<1>2. /\ Given /\ Len(message) \in Nat /\ pos \in 1..(Len(message) + 1)
  BY <1>1, Basics DEF FieldsInv, Reading
<1>3. Written(segments') = Upto[pos]
  BY StoreWrites
<1>4. /\ Written(segments)' = Written(segments') /\ Upto[pos]' = Upto[pos']
      /\ Ends(pos)' = Ends(pos')
  BY <1>1, StepTexts
<1>5. CASE ~AtSeparator
  <2>1. Ends(pos) /\ pos' = pos
    BY <1>1, <1>5 DEF AtSeparator, Ends
  <2>2. Ends(pos)' /\ Written(segments)' = Upto[pos]'
    BY <1>3, <1>4, <2>1
  <2> QED BY <1>1, <2>2 DEF TextSoFar, Parsed
<1>6. CASE AtSeparator
  <2>1. /\ pos \in Positions
        /\ Char(pos) \in {dialect.sub, dialect.tag, dialect.data}
        /\ Piece(pos) =
             IF Ends(pos + 1) THEN <<>>
             ELSE <<IF Char(pos) = dialect.sub THEN params.sub
                    ELSE IF Len(seg.elements) = 1 THEN params.tag ELSE params.data>>
    BY <1>6, PieceOfSeparator
  <2>2. Upto[pos + 1] = Upto[pos] \o Piece(pos) /\ Upto[pos] \in Writer!Strings
    BY <1>2, <2>1, UptoFacts
  <2>3. pos' = pos + 1 /\ newel' = StartsElement
    BY <1>1, <1>6
  <2>4. CASE Ends(pos + 1)
    <3>1. Upto[pos + 1] = Upto[pos]
      BY <2>1, <2>2, <2>4, WriterAssumption, Writer!StringAlgebra
    <3>2. Ends(pos)' /\ Written(segments)' = Upto[pos]'
      BY <1>3, <1>4, <2>3, <2>4, <3>1
    <3> QED BY <1>1, <3>2 DEF TextSoFar, Parsed
  <2>5. CASE ~Ends(pos + 1)
    <3>1. PICK t \in Segment, y \in Element, v \in Values :
            /\ seg' = t /\ Len(t.elements) = Len(seg.elements)
            /\ LastOf(t.elements) = y /\ Len(seg.elements) \in Nat \ {0}
            /\ y.values # <<>>
      BY StoredTree
    <3>2. Lead' = Piece(pos)
      <4>1. dialect.sub \notin {dialect.data, dialect.tag}
        BY <1>2, InputFacts
      <4>2. CASE Char(pos) = dialect.sub
        <5>1. ~newel'
          BY <2>3, <4>1, <4>2 DEF StartsElement
        <5>2. el' = y
          BY <3>1 DEF el
        <5>3. Lead' = <<params.sub>>
          BY <1>1, <3>1, <5>1, <5>2 DEF Lead
        <5> QED BY <2>1, <2>5, <4>2, <5>3
      <4>3. CASE Char(pos) # dialect.sub
        <5>1. newel'
          BY <2>1, <2>3, <4>3 DEF StartsElement
        <5>2. seg'.elements # <<>> /\ Len(seg'.elements) = Len(seg.elements)
          BY <3>1
        <5>3. Lead' = <<IF Len(seg.elements) + 1 = 2 THEN params.tag ELSE params.data>>
          BY <1>1, <5>1, <5>2 DEF Lead, Writer!SepOf
        <5>4. (Len(seg.elements) + 1 = 2) <=> (Len(seg.elements) = 1)
          <6> DEFINE n == Len(seg.elements)
          <6>1. n \in Nat \ {0}
            BY <3>1
          <6> HIDE DEF n
          <6>2. (n + 1 = 2) <=> (n = 1)
            BY <6>1
          <6> QED BY <6>2 DEF n
        <5> QED BY <2>1, <2>5, <4>3, <5>3, <5>4
      <4> QED BY <4>2, <4>3
    <3>3. ~Ends(pos)' /\ Written(segments)' \o Lead' = Upto[pos]'
      BY <1>3, <1>4, <2>2, <2>3, <2>5, <3>2
    <3> QED BY <1>1, <3>3 DEF TextSoFar, Parsed
  <2> QED BY <2>4, <2>5
<1> QED BY <1>5, <1>6

\* Every step of the parser keeps the text.
LEMMA TextStep ==
  ASSUME FieldsInv, TextSoFar, Writer!TypeOK, Next, UNCHANGED params
  PROVE  TextSoFar'
<1>1. CASE NoMatch \/ CreateFails \/ Empty \/ SegmentFails \/ ElementFails
           \/ AllocValueFails \/ StoreFails
  BY <1>1, StopTexts DEF TextSoFar
<1>2. CASE Match \/ Reserve
  BY <1>2, ReserveText
<1>3. CASE SkipNewline
  BY <1>3, SkipNewlineText
<1>4. CASE EndOfMessage \/ Unterminated
  BY <1>4, ReturnText
<1>5. CASE NewSegment
  BY <1>5, NewSegmentText
<1>6. CASE EndSegment
  BY <1>6, EndSegmentText
<1>7. CASE NewElement
  BY <1>7, NewElementText
<1>8. CASE StartValue \/ Scan
  BY <1>8, ScanText
<1>9. CASE AllocValue
  BY <1>9, AllocText
<1>10. CASE Copy
  BY <1>10, CopyText
<1>11. CASE Store
  BY <1>11, StoreText
<1> QED BY <1>1, <1>2, <1>3, <1>4, <1>5, <1>6, <1>7, <1>8, <1>9, <1>10, <1>11 DEF Next

-----------------------------------------------------------------------------
(* The first segment, in front of which a header goes. *)

\* It is as the message has it, and so is its text.
FirstWhole(s) ==
  /\ FirstStart \in SegmentStarts /\ StartOf(s) = FirstStart
  /\ FirstEnd \in FirstStart..(Len(message) + 1) /\ Reaches(FirstStart, FirstEnd)
  /\ FirstEnd <= Len(message) => Is(FirstEnd, {dialect.seg})
  /\ s.elements = <<>> <=> FirstEnd = FirstStart
  /\ TextOf[s] = Upto[FirstEnd]

\* Its first element has a value, and is composite if a sub-element separator
\* ends it.
FirstTyped(s) ==
  s.elements # <<>> =>
    /\ s.elements[1].values # <<>>
    /\ s.elements[1].type =
         IF Char(EndOf(s.elements[1].values[1])) = dialect.sub THEN "composite" ELSE "simple"

\* or it will have one.
FirstAwaits ==
  /\ Len(segments) = 1 /\ Len(seg.elements) = 1 /\ el.values = <<>> /\ el.type = "none"
  /\ pc \in {"scan", "copy"} \/ (pc = "element" /\ ~newel /\ ~Ends(pos))

\* The first segment has been read.
FirstRead ==
  segments # <<>> /\ (pc = "segment" \/ (Inside /\ Len(segments) > 1) \/ Parsed)

FirstInv ==
  /\ Parsed => Given
  /\ FirstRead => FirstWhole(segments[1])
  /\ segments # <<>> /\ (Reading \/ Parsed) => FirstTyped(segments[1]) \/ FirstAwaits
  /\ pc = "element" =>
       IF seg.elements = <<>> THEN pos = StartOf(seg) ELSE Ends(pos) => pos > StartOf(seg)

\* A segment that starts in front of all others is the first.
LEMMA OnlyIsFirst ==
  ASSUME FieldsInv, Inside, Len(segments) = 1
  PROVE  seg = segments[1] /\ StartOf(seg) = FirstStart
<1> DEFINE c == StartOf(seg)
<1>1. seg = segments[1]
  BY DEF seg, LastOf
<1>2. /\ Given /\ pos \in Nat /\ ts <= pos /\ ts \in Nat /\ c \in SegmentStarts /\ c \in Nat
      /\ c <= Reached
  BY InsideFacts, InputFacts
<1>3. c <= pos
  BY <1>2 DEF Reached
<1>4. /\ Offsets(segments) = OffsetsTo(pos + 1) /\ Offsets(segments) = {seg.offset}
  <2>1. Offsets(segments) = OffsetsTo(pos + 1)
    BY DEF FieldsInv, Place, Found, Reading, Opened, Inside
  <2> QED BY <1>1, <2>1 DEF Offsets
<1>5. seg.offset \in Nat /\ dialect.skip \in Nat /\ c = seg.offset - dialect.skip + 1
  <2>1. seg \in Segment
    BY Basics DEF FieldsInv, Reading, Inside
  <2> QED BY <1>2, <2>1, InputFacts DEF Segment, StartOf
<1> HIDE DEF c
<1>6. ASSUME NEW a \in SegmentStarts PROVE c <= a /\ a \in Nat
  <2>1. a \in Nat
    BY DEF SegmentStarts, Positions
  <2>2. CASE a < pos + 1
    <3>1. dialect.skip + a - 1 \in OffsetsTo(pos + 1)
      BY <2>2 DEF OffsetsTo
    <3>2. dialect.skip + a - 1 = seg.offset
      BY <1>4, <3>1
    <3> QED BY <1>5, <2>1, <3>2
  <2>3. CASE ~(a < pos + 1)
    BY <1>2, <1>3, <2>1, <2>3
  <2> QED BY <2>1, <2>2, <2>3
<1>7. \A x \in SegmentStarts : (\A y \in SegmentStarts : x <= y) => x = c
  BY <1>2, <1>6
<1>8. Min(SegmentStarts) = c
  BY <1>2, <1>6, <1>7 DEF Min
<1> QED BY <1>1, <1>8 DEF FirstStart, c

\* It ends where its terminator is, or the message.
LEMMA FirstEndIs ==
  ASSUME Given, FirstStart \in Nat, NEW p \in FirstStart..(Len(message) + 1),
         p = Len(message) + 1 \/ (p \in Positions /\ Is(p, {dialect.seg})),
         Reaches(FirstStart, p)
  PROVE  FirstEnd = p
<1> DEFINE c == FirstStart
           S == {q \in Positions : q >= c /\ Is(q, {dialect.seg})} \union {Len(message) + 1}
<1>1. Len(message) \in Nat /\ Positions = 1..Len(message)
  BY InputFacts DEF Positions
<1>2. \A k \in c..(p - 1) : ~Is(k, {dialect.seg})
  BY DEF Reaches
<1>3. c \in Nat /\ p \in c..(Len(message) + 1)
  OBVIOUS
<1> HIDE DEF c
<1>4. p \in S
  BY <1>3
<1>5. ASSUME NEW y \in S PROVE p <= y /\ y \in Nat
  <2>1. CASE y = Len(message) + 1
    BY <1>1, <1>3, <2>1
  <2>2. CASE y # Len(message) + 1
    <3>1. y \in 1..Len(message) /\ y >= c /\ Is(y, {dialect.seg})
      BY <1>1, <2>2
    <3>2. y \notin c..(p - 1)
      BY <1>2, <3>1
    <3> QED BY <1>3, <3>1, <3>2
  <2> QED BY <2>1, <2>2
<1> HIDE DEF S
<1>6. ASSUME NEW x \in S, \A y \in S : x <= y PROVE x = p
  <2>1. x <= p /\ p <= x /\ x \in Nat /\ p \in Nat
    BY <1>4, <1>5, <1>6
  <2> QED BY <2>1
<1>7. Min(S) = p
  BY <1>4, <1>5, <1>6 DEF Min
<1> QED BY <1>7 DEF FirstEnd, S, c

\* What is said of the first segment stays said while the message is parsed.
LEMMA FirstPrimed ==
  ASSUME UNCHANGED <<message, dialect, params>>
  PROVE  /\ \A s : FirstWhole(s)' = FirstWhole(s)
         /\ \A s : FirstTyped(s)' = FirstTyped(s)
         /\ Ends(pos)' = Ends(pos')
<1>1. /\ TextOf' = TextOf /\ Upto' = Upto /\ FirstStart' = FirstStart /\ FirstEnd' = FirstEnd
      /\ Ends(pos)' = Ends(pos')
  BY TextsStay, StepTexts
<1>2. /\ \A p : Char(p)' = Char(p)
      /\ \A p, cs : Is(p, cs)' = Is(p, cs)
      /\ SegmentStarts' = SegmentStarts
      /\ \A a, p : Reaches(a, p)' = Reaches(a, p)
      /\ \A s : StartOf(s)' = StartOf(s)
  BY FieldsPrimed, TreePrimed
<1>3. \A s : FirstWhole(s)' = FirstWhole(s)
  BY <1>1, <1>2 DEF FirstWhole
<1>4. \A s : FirstTyped(s)' = FirstTyped(s)
  BY <1>2 DEF FirstTyped, EndOf
<1> QED BY <1>1, <1>3, <1>4

\* At its end the first segment is whole.
LEMMA FirstSegmentEnds ==
  ASSUME FieldsInv, TextSoFar, FirstInv, Writer!TypeOK, Len(segments) = 1,
         EndSegment \/ Unterminated
  PROVE  FirstWhole(segments[1])
<1> DEFINE s == segments[1]
<1>1. pc = "element" /\ Char(pos) \in {NUL, dialect.seg} /\ Ends(pos) /\ Inside
  BY DEF EndSegment, Unterminated, Ends, Inside
<1>2. /\ Given /\ Len(message) \in Nat /\ pos \in 1..(Len(message) + 1)
      /\ StartOf(seg) \in SegmentStarts /\ StartOf(seg) \in Nat
      /\ StartOf(seg) <= Reached /\ Reaches(StartOf(seg), pos)
      /\ (Char(pos) = NUL <=> pos = Len(message) + 1)
      /\ (Char(pos) # NUL <=> pos \in Positions)
  BY <1>1, InsideFacts
<1>3. /\ segments \in Seq(Segment) /\ s \in Segment /\ s = seg /\ StartOf(s) = FirstStart
      /\ segments # <<>> /\ s = LastOf(segments)
  BY <1>1, OnlyIsFirst, Basics DEF FieldsInv, Reading, Inside, seg
<1>4. FirstStart \in Nat /\ pos \in FirstStart..(Len(message) + 1) /\ Reaches(FirstStart, pos)
  BY <1>1, <1>2, <1>3 DEF Reached
<1>5. pos <= Len(message) => Is(pos, {dialect.seg})
  <2>1. SUFFICES ASSUME pos <= Len(message) PROVE Is(pos, {dialect.seg})
    OBVIOUS
  <2>2. Char(pos) # NUL /\ Char(pos) = dialect.seg
    BY <1>1, <1>2, <2>1
  <2>3. Escaped[pos] = FALSE
    BY <1>1, <2>2 DEF FieldsInv, Place, AtField
  <2> QED BY <2>2, <2>3 DEF Is
<1>6. FirstEnd = pos
  <2>1. pos = Len(message) + 1 \/ (pos \in Positions /\ Is(pos, {dialect.seg}))
    BY <1>2, <1>5
  <2> QED BY <1>2, <1>4, <2>1, FirstEndIs
<1>7. s.elements = <<>> <=> pos = FirstStart
  BY <1>1, <1>3, <1>4 DEF FirstInv
<1>8. TextOf[s] = Upto[pos]
  <2>1. Written(segments) = Upto[pos]
    BY <1>1 DEF TextSoFar
  <2>2. LinesOf[SubSeq(segments, 1, Len(segments) - 1)] = <<>>
    <3>1. SubSeq(segments, 1, Len(segments) - 1) = <<>>
      BY <1>3
    <3> QED BY <3>1, TreeTexts
  <2>3. TextOf[s] \in Writer!Strings
    BY <1>3, TreeTexts
  <2> QED BY <1>3, <2>1, <2>2, <2>3, WriterAssumption, Writer!StringAlgebra DEF Written
<1> HIDE DEF s
<1>9. FirstWhole(s)
  BY <1>2, <1>3, <1>4, <1>5, <1>6, <1>7, <1>8 DEF FirstWhole
<1> QED BY <1>9 DEF s

\* Nothing is said of a tree that was given up, or is not begun.
LEMMA FirstNone ==
  ASSUME FieldsInv, \/ NoMatch \/ CreateFails \/ Empty \/ SegmentFails \/ ElementFails
                    \/ AllocValueFails \/ StoreFails \/ Match \/ Reserve
  PROVE  FirstInv'
<1>1. CASE Match \/ Reserve
  <2>1. segments' = <<>> /\ pc' \in {"create", "segment"}
    BY <1>1 DEF Match, Reserve, FieldsInv, Place, Fresh, tree
  <2> QED BY <2>1 DEF FirstInv, FirstRead, Parsed
<1>2. CASE ~(Match \/ Reserve)
  <2>1. pc' \in {"returned", "undefined"} /\ ~Parsed'
    BY <1>2, StopTexts
  <2> QED BY <2>1 DEF FirstInv, FirstRead, Inside, Reading
<1> QED BY <1>1, <1>2

\* Between segments, and at the end, all that was begun is whole.
LEMMA FirstRests ==
  ASSUME FieldsInv, TextSoFar, FirstInv, Writer!TypeOK, UNCHANGED params,
         SkipNewline \/ EndOfMessage \/ EndSegment \/ Unterminated
  PROVE  FirstInv'
<1>1. /\ UNCHANGED <<message, dialect, params, segments>> /\ pc' \in {"segment", "returned"}
      /\ pc \in {"segment", "element"} /\ (pc = "element" => Ends(pos))
  BY DEF SkipNewline, EndOfMessage, EndSegment, Unterminated, Fail, Return, input, tree, Ends
<1>2. segments \in Seq(Segment)
  BY DEF FieldsInv, Typed, TypeOK
<1>3. ASSUME segments # <<>> PROVE FirstWhole(segments[1])
  <2>1. CASE FirstRead
    BY <2>1 DEF FirstInv
  <2>2. CASE ~FirstRead
    <3>1. pc = "element" /\ Len(segments) = 1
      BY <1>1, <1>2, <1>3, <2>2 DEF FirstRead, Inside
    <3>2. EndSegment \/ Unterminated
      BY <3>1 DEF SkipNewline, EndOfMessage
    <3> QED BY <3>1, <3>2, FirstSegmentEnds
  <2> QED BY <2>1, <2>2
<1>4. ASSUME segments # <<>> PROVE FirstTyped(segments[1])
  <2>1. Reading
    BY <1>1 DEF Reading
  <2>2. ~FirstAwaits
    BY <1>1 DEF FirstAwaits
  <2> QED BY <1>4, <2>1, <2>2 DEF FirstInv
<1>5. /\ FirstWhole(segments[1])' <=> FirstWhole(segments[1])
      /\ FirstTyped(segments[1])' <=> FirstTyped(segments[1])
  BY <1>1, FirstPrimed
<1>6. Given'
  <2>1. Given
    BY <1>1, Basics DEF FieldsInv, Reading
  <2> QED BY <1>1, <2>1 DEF Given
<1> QED BY <1>1, <1>3, <1>4, <1>5, <1>6 DEF FirstInv, FirstRead

\* While a value is looked for and copied nothing becomes of the segment.
LEMMA FirstWaits ==
  ASSUME FieldsInv, FirstInv, UNCHANGED params, StartValue \/ Scan \/ AllocValue \/ Copy
  PROVE  FirstInv'
<1>1. /\ UNCHANGED <<message, dialect, params, segments, newel>> /\ pc' \in {"scan", "copy"}
      /\ pc \in {"element", "scan", "copy"}
  BY DEF StartValue, Scan, AllocValue, Copy, AtElement, AtEndOfValue, input, tree
<1>2. /\ FirstWhole(segments[1])' <=> FirstWhole(segments[1])
      /\ FirstTyped(segments[1])' <=> FirstTyped(segments[1])
  BY <1>1, FirstPrimed
<1>3. FirstRead' => FirstRead
  BY <1>1 DEF FirstRead, Inside, Parsed
<1>4. FirstAwaits => FirstAwaits'
  BY <1>1 DEF FirstAwaits, seg, el, LastOf
<1>5. Reading
  BY <1>1 DEF Reading
<1> QED BY <1>1, <1>2, <1>3, <1>4, <1>5 DEF FirstInv, Parsed

\* A segment that is not the first leaves the first alone.
LEMMA FirstNewSegment ==
  ASSUME FieldsInv, FirstInv, UNCHANGED params, NewSegment
  PROVE  FirstInv'
<1> DEFINE s == NewSegmentAt(pos)
<1>1. /\ UNCHANGED <<message, dialect, params, pos>> /\ pc = "segment" /\ pc' = "element"
      /\ segments' = Append(segments, s)
  BY DEF NewSegment, AtSegment, input
<1>2. /\ Given /\ segments \in Seq(Segment) /\ pos \in Nat \ {0}
  BY <1>1, Basics DEF FieldsInv, Reading
<1>3. s \in Segment /\ s.elements = <<>> /\ s.offset = dialect.skip + pos - 1
  BY <1>2, InputFacts DEF NewSegmentAt, Segment
<1> HIDE DEF s
<1>4. LastOf(segments') = s /\ Len(segments') = Len(segments) + 1 /\ Len(segments) \in Nat
      /\ \A k \in 1..Len(segments) : segments'[k] = segments[k]
  BY <1>1, <1>2, <1>3, AppendIsSeq
<1>5. seg' = s
  BY <1>4 DEF seg
<1>6. StartOf(seg)' = pos
  BY <1>1, <1>2, <1>3, <1>5, InputFacts DEF StartOf
<1>7. CASE segments = <<>>
  <2>1. Len(segments') = 1 /\ segments'[1] = s
    BY <1>4, <1>7 DEF LastOf
  <2>2. ~FirstRead'
    BY <1>1, <2>1 DEF FirstRead, Parsed
  <2>3. FirstTyped(segments[1])'
    BY <1>3, <2>1 DEF FirstTyped
  <2> QED BY <1>1, <1>3, <1>5, <1>6, <2>2, <2>3 DEF FirstInv, Parsed
<1>8. CASE segments # <<>>
  <2>1. segments'[1] = segments[1]
    <3>1. 1 \in 1..Len(segments)
      BY <1>2, <1>8
    <3> QED BY <1>4, <3>1
  <2>2. FirstWhole(segments[1]) /\ FirstTyped(segments[1])
    BY <1>1, <1>8 DEF FirstInv, FirstRead, FirstAwaits, Reading
  <2>3. FirstWhole(segments[1])' /\ FirstTyped(segments[1])'
    BY <1>1, <2>1, <2>2, FirstPrimed
  <2> QED BY <1>1, <1>3, <1>5, <1>6, <2>3 DEF FirstInv, Parsed
<1> QED BY <1>7, <1>8

\* An element that is not the first leaves the first alone.
LEMMA FirstNewElement ==
  ASSUME FieldsInv, FirstInv, UNCHANGED params, NewElement
  PROVE  FirstInv'
<1> DEFINE x == NewElementHere
           t == [offset |-> seg.offset, tag |-> seg.tag, elements |-> Append(seg.elements, x)]
<1>1. /\ UNCHANGED <<message, dialect, params, pos>> /\ pc = "element" /\ pc' = "element"
      /\ newel /\ ~newel' /\ Char(pos) \notin {NUL, dialect.seg}
      /\ segments' = SetLast(segments, [seg EXCEPT !.elements = Append(@, x)])
  BY DEF NewElement, AtElement, input
<1>2. /\ Given /\ segments \in Seq(Segment) /\ segments # <<>> /\ seg \in Segment
      /\ seg.elements \in Seq(Element) /\ seg = LastOf(segments)
  BY <1>1, Basics DEF FieldsInv, Reading, Inside, seg
<1>3. x \in Element /\ x.values = <<>> /\ x.type = "none"
  BY DEF NewElementHere, Element
<1>4. /\ Append(seg.elements, x) \in Seq(Element)
      /\ LastOf(Append(seg.elements, x)) = x
      /\ Len(Append(seg.elements, x)) = Len(seg.elements) + 1 /\ Len(seg.elements) \in Nat
      /\ \A k \in 1..Len(seg.elements) : Append(seg.elements, x)[k] = seg.elements[k]
      /\ Append(seg.elements, x) # <<>>
  <2> HIDE DEF x
  <2> QED BY <1>2, <1>3, AppendIsSeq
<1>5. t \in Segment /\ t.elements = Append(seg.elements, x)
  BY <1>2, <1>4 DEF Segment
<1>6. segments' = SetLast(segments, t)
  <2>1. seg = [offset |-> seg.offset, tag |-> seg.tag, elements |-> seg.elements]
    BY <1>2 DEF Segment
  <2>2. t = [seg EXCEPT !.elements = Append(@, x)]
    BY <2>1
  <2> QED BY <1>1, <2>2
<1> HIDE DEF t, x
<1>7. /\ seg' = t /\ Len(segments') = Len(segments) /\ Len(segments) \in Nat \ {0}
      /\ \A k \in 1..Len(segments) : segments'[k] = IF k = Len(segments) THEN t ELSE segments[k]
  <2>1. seg' = t
    BY <1>2, <1>5, <1>6, SetLastIsSeq DEF seg
  <2>2. /\ Len(SetLast(segments, t)) = Len(segments) /\ Len(segments) \in Nat \ {0}
        /\ \A k \in 1..Len(segments) :
             SetLast(segments, t)[k] = IF k = Len(segments) THEN t ELSE segments[k]
    BY <1>2, <1>5, SetLastIsSeq
  <2> QED BY <1>6, <2>1, <2>2
<1>8. el' = x
  BY <1>4, <1>5, <1>7 DEF el
<1>9. ~Ends(pos) /\ ~Ends(pos)'
  BY <1>1, FirstPrimed DEF Ends
<1>10. Reading /\ FirstTyped(segments[1])
  BY <1>1, <1>2 DEF FirstInv, FirstAwaits, Reading
<1>11. FirstTyped(segments[1])' \/ FirstAwaits'
  <2>1. CASE Len(segments) = 1 /\ seg.elements = <<>>
    <3>1. Len(seg'.elements) = 1
      BY <1>4, <1>5, <1>7, <2>1
    <3>2. FirstAwaits'
      BY <1>1, <1>3, <1>7, <1>8, <1>9, <2>1, <3>1 DEF FirstAwaits
    <3> QED BY <3>2
  <2>2. CASE Len(segments) = 1 /\ seg.elements # <<>>
    <3>1. segments[1] = seg /\ segments'[1] = t
      <4>1. 1 \in 1..Len(segments)
        BY <1>7
      <4> QED BY <1>7, <2>2, <4>1 DEF seg, LastOf
    <3>2. 1 \in 1..Len(seg.elements)
      BY <1>4, <2>2, <1>2
    <3>3. t.elements[1] = seg.elements[1] /\ t.elements # <<>>
      BY <1>4, <1>5, <3>2
    <3>4. FirstTyped(t)
      BY <1>10, <2>2, <3>1, <3>3 DEF FirstTyped
    <3>5. FirstTyped(segments[1])'
      BY <1>1, <3>1, <3>4, FirstPrimed
    <3> QED BY <3>5
  <2>3. CASE Len(segments) # 1
    <3>1. segments'[1] = segments[1]
      <4>1. 1 \in 1..Len(segments) /\ 1 # Len(segments)
        BY <1>7, <2>3
      <4> QED BY <1>7, <4>1
    <3>2. FirstTyped(segments[1])'
      BY <1>1, <1>10, <3>1, FirstPrimed
    <3> QED BY <3>2
  <2> QED BY <2>1, <2>2, <2>3
<1>12. FirstRead' => FirstWhole(segments[1])'
  <2> SUFFICES ASSUME FirstRead' PROVE FirstWhole(segments[1])'
    OBVIOUS
  <2>1. Len(segments) > 1
    BY <1>1, <1>7 DEF FirstRead, Parsed
  <2>2. segments'[1] = segments[1]
    <3>1. 1 \in 1..Len(segments) /\ 1 # Len(segments)
      BY <1>7, <2>1
    <3> QED BY <1>7, <3>1
  <2>3. FirstWhole(segments[1])
    BY <1>1, <1>2, <2>1 DEF FirstInv, FirstRead, Inside
  <2> QED BY <1>1, <2>2, <2>3, FirstPrimed
<1>13. seg'.elements # <<>>
  BY <1>4, <1>5, <1>7
<1> QED BY <1>1, <1>9, <1>11, <1>12, <1>13 DEF FirstInv, Parsed

\* The first value of the first element says with what follows it of which type
\* the element is, and the values behind it agree.
LEMMA FirstStored ==
  ASSUME FieldsInv, FirstInv, Store, Len(segments) = 1, Len(seg.elements) = 1,
         NEW y \in Element, NEW v \in Values, y.values = Append(el.values, v),
         y.type = IF IsComposite THEN "composite" ELSE "simple", EndOf(v) = pos
  PROVE  y.type = IF Char(EndOf(y.values[1])) = dialect.sub THEN "composite" ELSE "simple"
<1>1. pc = "copy" /\ Reading /\ Inside
  BY DEF Store, Reading, Inside
<1>2. /\ segments # <<>> /\ seg \in Segment /\ seg = segments[1] /\ seg.elements \in Seq(Element)
  BY <1>1, Basics DEF FieldsInv, seg, LastOf
<1>3. el = seg.elements[1] /\ seg.elements # <<>> /\ el \in Element
  BY <1>2 DEF el, LastOf
<1> DEFINE vs == el.values
<1>4. vs \in Seq(Values)
  BY <1>3 DEF Element
<1>5. FirstTyped(seg) \/ FirstAwaits
  BY <1>1, <1>2 DEF FirstInv
<1>6. CASE vs = <<>>
  <2>1. el.type = "none"
    BY <1>3, <1>5, <1>6 DEF FirstTyped, FirstAwaits
  <2>2. y.values[1] = v
    BY <1>6
  <2>3. IsComposite <=> Char(pos) = dialect.sub
    BY <2>1 DEF IsComposite
  <2> QED BY <2>2, <2>3
<1>7. CASE vs # <<>>
  <2>1. el.type = IF Char(EndOf(vs[1])) = dialect.sub THEN "composite" ELSE "simple"
    BY <1>3, <1>5, <1>7 DEF FirstTyped, FirstAwaits
  <2>2. NextFits(seg, ts) /\ ts = EndOf(LastOf(vs)) + 1 /\ Char(ts - 1) = dialect.sub
    BY <1>1, <1>3, <1>7 DEF FieldsInv, Place, InField, NextFits
  <2>3. Len(vs) \in Nat \ {0} /\ LastOf(vs) \in Values /\ 1 \in 1..Len(vs)
    BY <1>4, <1>7 DEF LastOf
  <2>4. Char(EndOf(LastOf(vs))) = dialect.sub
    <3>1. EndOf(LastOf(vs)) \in Int
      BY <2>3, EndOfIsInt
    <3>2. ts - 1 = EndOf(LastOf(vs))
      BY <2>2, <3>1
    <3> QED BY <2>2, <3>2
  <2>5. Char(EndOf(vs[1])) = dialect.sub
    <3>1. CASE Len(vs) = 1
      BY <2>4, <3>1 DEF LastOf
    <3>2. CASE Len(vs) # 1
      <4>1. SegmentOK(seg)
        <5>1. AllOK(segments) /\ 1 \in 1..Len(segments)
          BY DEF FieldsInv
        <5> QED BY <1>2, <5>1 DEF AllOK
      <4>2. ElementGrouped(seg, 1)
        BY <4>1 DEF SegmentOK
      <4>3. 1 \in 1..(Len(vs) - 1)
        <5> DEFINE n == Len(vs)
        <5>1. n \in Nat \ {0} /\ n # 1
          BY <2>3, <3>2
        <5> HIDE DEF n
        <5>2. 1 \in 1..(n - 1)
          BY <5>1
        <5> QED BY <5>2 DEF n
      <4> QED BY <1>3, <4>2, <4>3 DEF ElementGrouped
    <3> QED BY <3>1, <3>2
  <2>6. el.type = "composite"
    BY <2>1, <2>5
  <2>7. IsComposite
    BY <2>6 DEF IsComposite
  <2>8. y.values[1] = vs[1]
    <3> HIDE DEF vs
    <3>1. \A k \in 1..Len(vs) : Append(vs, v)[k] = vs[k]
      BY <1>4, AppendIsSeq
    <3> QED BY <2>3, <3>1 DEF vs
  <2> QED BY <2>5, <2>7, <2>8
<1> QED BY <1>6, <1>7

\* A value goes into the first element, or leaves it alone.
LEMMA FirstStore ==
  ASSUME FieldsInv, FirstInv, UNCHANGED params, Store
  PROVE  FirstInv'
<1>1. /\ UNCHANGED <<message, dialect, params>> /\ pc = "copy" /\ pc' = "element"
      /\ IF AtSeparator THEN pos' = pos + 1 /\ newel' = StartsElement
         ELSE UNCHANGED <<pos, newel>>
  BY DEF Store, input
<1>2. /\ segments \in Seq(Segment) /\ segments # <<>> /\ seg \in Segment
      /\ seg = LastOf(segments) /\ Reading /\ Inside
  BY <1>1, Basics DEF FieldsInv, Reading, Inside, seg
<1>3. PICK t \in Segment, y \in Element, v \in Values :
        /\ segments' = SetLast(segments, t) /\ seg' = t /\ t.offset = seg.offset
        /\ t.elements = SetLast(seg.elements, y) /\ Len(t.elements) = Len(seg.elements)
        /\ \A j \in 1..Len(seg.elements) :
             t.elements[j] = IF j = Len(seg.elements) THEN y ELSE seg.elements[j]
        /\ LastOf(t.elements) = y /\ Len(seg.elements) \in Nat \ {0}
        /\ el \in Element /\ el = LastOf(seg.elements)
        /\ y.values = Append(el.values, v) /\ y.values # <<>>
        /\ y.type = IF IsComposite THEN "composite" ELSE "simple"
        /\ v.text = text /\ v.from = ts /\ EndOf(v) = pos
  BY StoredTree
<1>4. /\ Len(segments') = Len(segments) /\ Len(segments) \in Nat \ {0}
      /\ \A k \in 1..Len(segments) : segments'[k] = IF k = Len(segments) THEN t ELSE segments[k]
  <2>1. /\ Len(SetLast(segments, t)) = Len(segments) /\ Len(segments) \in Nat \ {0}
        /\ \A k \in 1..Len(segments) :
             SetLast(segments, t)[k] = IF k = Len(segments) THEN t ELSE segments[k]
    BY <1>2, SetLastIsSeq
  <2> QED BY <1>3, <2>1
<1>5. ASSUME Len(segments) # 1
      PROVE  segments'[1] = segments[1]
  <2>1. 1 \in 1..Len(segments) /\ 1 # Len(segments)
    BY <1>4, <1>5
  <2> QED BY <1>4, <2>1
<1>6. seg'.elements # <<>>
  BY <1>3
<1>7. FirstRead' => FirstWhole(segments[1])'
  <2> SUFFICES ASSUME FirstRead' PROVE FirstWhole(segments[1])'
    OBVIOUS
  <2>1. Len(segments) > 1
    BY <1>1, <1>4 DEF FirstRead, Parsed
  <2>2. FirstWhole(segments[1])
    BY <1>2, <2>1 DEF FirstInv, FirstRead
  <2> QED BY <1>1, <1>4, <1>5, <2>1, <2>2, FirstPrimed
<1>8. FirstTyped(segments[1])'
  <2>1. FirstTyped(segments[1]) \/ FirstAwaits
    BY <1>2 DEF FirstInv
  <2>2. CASE Len(segments) # 1
    <3>1. FirstTyped(segments[1])
      BY <2>1, <2>2 DEF FirstAwaits
    <3> QED BY <1>1, <1>5, <2>2, <3>1, FirstPrimed
  <2>3. CASE Len(segments) = 1
    <3>1. segments'[1] = t /\ segments[1] = seg
      <4>1. 1 \in 1..Len(segments)
        BY <1>4
      <4> QED BY <1>2, <1>4, <2>3, <4>1 DEF LastOf
    <3>2. 1 \in 1..Len(seg.elements)
      BY <1>3
    <3>3. CASE Len(seg.elements) = 1
      <4>1. t.elements[1] = y
        BY <1>3, <3>2, <3>3
      <4>2. y.type = IF Char(EndOf(y.values[1])) = dialect.sub THEN "composite" ELSE "simple"
        BY <1>3, <2>3, <3>3, FirstStored
      <4>3. FirstTyped(t)
        BY <1>3, <4>1, <4>2 DEF FirstTyped
      <4> QED BY <1>1, <3>1, <4>3, FirstPrimed
    <3>4. CASE Len(seg.elements) # 1
      <4>1. t.elements[1] = seg.elements[1]
        BY <1>3, <3>2, <3>4
      <4>2. FirstTyped(seg) /\ seg.elements # <<>>
        BY <1>3, <2>1, <3>1, <3>4 DEF FirstAwaits
      <4>3. FirstTyped(t)
        BY <4>1, <4>2 DEF FirstTyped
      <4> QED BY <1>1, <3>1, <4>3, FirstPrimed
    <3> QED BY <3>3, <3>4
  <2> QED BY <2>2, <2>3
<1>9. Ends(pos)' => pos' > StartOf(seg)'
  <2>1. LET c == StartOf(seg)
        IN  /\ pos \in 1..(Len(message) + 1) /\ Len(message) \in Nat
            /\ Char(pos) # NUL <=> pos \in Positions
            /\ ts \in FieldStarts /\ ts \in 1..pos /\ c \in Nat /\ c <= ts
            /\ StartOf(seg)' = c
    BY StorePlace
  <2>2. CASE AtSeparator
    BY <1>1, <2>1, <2>2
  <2>3. CASE ~AtSeparator
    <3>1. Char(pos) \in {NUL, dialect.seg} /\ pos' = pos
      BY <1>1, <2>3 DEF AtSeparator
    <3>2. ts # pos
      BY <2>1, <3>1 DEF FieldStarts
    <3> QED BY <2>1, <3>1, <3>2
  <2> QED BY <2>2, <2>3
<1> QED BY <1>1, <1>6, <1>7, <1>8, <1>9 DEF FirstInv, Parsed

\* Every step keeps what is said of the first segment.
LEMMA FirstStep ==
  ASSUME FieldsInv, TextSoFar, FirstInv, Writer!TypeOK, Next, UNCHANGED params
  PROVE  FirstInv'
<1>1. CASE NoMatch \/ CreateFails \/ Empty \/ SegmentFails \/ ElementFails
           \/ AllocValueFails \/ StoreFails \/ Match \/ Reserve
  BY <1>1, FirstNone
<1>2. CASE SkipNewline \/ EndOfMessage \/ EndSegment \/ Unterminated
  BY <1>2, FirstRests
<1>3. CASE StartValue \/ Scan \/ AllocValue \/ Copy
  BY <1>3, FirstWaits
<1>4. CASE NewSegment
  BY <1>4, FirstNewSegment
<1>5. CASE NewElement
  BY <1>5, FirstNewElement
<1>6. CASE Store
  BY <1>6, FirstStore
<1> QED BY <1>1, <1>2, <1>3, <1>4, <1>5, <1>6 DEF Next

-----------------------------------------------------------------------------
(* The text of the tree that the parser returns. *)

\* What the first value of the first segment is.
LEMMA FirstValueIs ==
  ASSUME FieldsInv, FirstInv, Parsed, segments # <<>>
  PROVE  /\ FirstWhole(segments[1])
         /\ Writer!HasFirst <=> ~FirstIsEmpty
         /\ Writer!HasFirst =>
              /\ segments[1].elements[1].values[1].text = FirstText
              /\ segments[1].elements[1].type = "simple"
                   <=> Char(FieldEnd(FirstStart)) # dialect.sub
<1> DEFINE s == segments[1]
           x == s.elements[1]
           v == x.values[1]
<1>1. FirstWhole(s)
  BY DEF FirstInv, FirstRead
<1>2. FirstTyped(s)
  BY DEF FirstInv, FirstAwaits, Parsed
<1>3. Writer!HasFirst <=> s.elements # <<>>
  BY <1>2 DEF Writer!HasFirst, FirstTyped
<1>4. Writer!HasFirst <=> ~FirstIsEmpty
  BY <1>1, <1>3 DEF FirstWhole, FirstIsEmpty
<1>5. ASSUME Writer!HasFirst
      PROVE  /\ v.text = FirstText
             /\ x.type = "simple" <=> Char(FieldEnd(FirstStart)) # dialect.sub
  <2>1. s \in Segment /\ s.elements \in Seq(Element) /\ s.elements # <<>> /\ 1 \in 1..Len(segments)
    <3>1. segments \in Seq(Segment)
      BY DEF FieldsInv, Typed, TypeOK
    <3>2. 1 \in 1..Len(segments) /\ s \in Segment
      BY <3>1
    <3> QED BY <1>3, <1>5, <3>2 DEF Segment
  <2>2. 1 \in 1..Len(s.elements) /\ x \in Element /\ x.values # <<>>
    BY <1>2, <2>1 DEF FirstTyped
  <2>3. x.values \in Seq(Values)
    BY <2>2 DEF Element
  <2>4. 1 \in 1..Len(x.values)
    BY <2>2, <2>3
  <2>5. v \in SegmentValues(s)
    BY <2>2, <2>4 DEF SegmentValues, ElementValues
  <2>6. SegmentOK(s)
    BY <2>1 DEF FieldsInv, AllOK
  <2>7. v.from = StartOf(s)
    <3>1. ElementGrouped(s, 1)
      BY <2>2, <2>6 DEF SegmentOK
    <3> QED BY <2>2, <3>1 DEF ElementGrouped, StartOf
  <2>8. v.from = FirstStart
    BY <1>1, <2>7 DEF FirstWhole
  <2>9. EndOf(v) = FieldEnd(v.from) /\ v.text = Unescaped(v.from, EndOf(v))
    BY <2>5, <2>6 DEF SegmentOK, IsField
  <2>10. x.type = IF Char(EndOf(v)) = dialect.sub THEN "composite" ELSE "simple"
    BY <1>2, <2>1 DEF FirstTyped
  <2> QED BY <2>8, <2>9, <2>10 DEF FirstText
<1> QED BY <1>1, <1>4, <1>5

\* The header is added, or found, where the message says.
LEMMA HeaderIs ==
  ASSUME FieldsInv, FirstInv, Parsed, segments # <<>>
  PROVE  /\ Writer!StartsWithHeader <=> MessageHasHeader
         /\ Writer!NewHeader = HeaderToAdd
<1>1. Writer!StartsWithHeader <=> MessageHasHeader
  BY FirstValueIs DEF Writer!StartsWithHeader, MessageHasHeader
<1>2. Writer!HasFirst <=> ~FirstIsEmpty
  BY FirstValueIs
<1> QED BY <1>1, <1>2, SameOperators DEF Writer!NewHeader, HeaderToAdd

\* The first segment, as it is written.
LEMMA FirstSegmentText ==
  ASSUME FieldsInv, FirstInv, Writer!TypeOK, Parsed, segments # <<>>
  PROVE  LET first == HeaderToAdd \o Pieces(1, FirstEnd - 1)
         IN  Writer!SegmentText(1) =
               IF MessageHasHeader THEN Build!WithTrailer(first) ELSE Append(first, params.seg)
<1>1. FirstWhole(segments[1]) /\ segments[1] \in Segment
  <2>1. segments \in Seq(Segment)
    BY DEF FieldsInv, Typed, TypeOK
  <2> QED BY <2>1, FirstValueIs
<1>2. FirstEnd \in Nat
  BY <1>1, InputFacts DEF FirstWhole, FirstInv, SegmentStarts, Positions
<1>3. Writer!ElementsText(segments[1]) = Pieces(1, FirstEnd - 1)
  BY <1>1, <1>2 DEF FirstWhole, TextOf, Upto
<1>4. Writer!Line(1) = HeaderToAdd \o Pieces(1, FirstEnd - 1)
  BY <1>3, HeaderIs DEF Writer!Line
<1> QED BY <1>4, HeaderIs, SameOperators DEF Writer!SegmentText

\* The terminator of the first segment becomes the new one.
LEMMA PieceOfFirstEnd ==
  ASSUME FieldsInv, FirstInv, Parsed, segments # <<>>, FirstEnd <= Len(message)
  PROVE  FirstEnd \in Positions /\ Piece(FirstEnd) = <<params.seg>>
<1>1. FirstWhole(segments[1])
  BY FirstValueIs
<1>2. Len(message) \in Nat
  BY InputFacts DEF FirstInv
<1>3. FirstStart \in Nat \ {0}
  BY <1>1 DEF FirstWhole, SegmentStarts, Positions
<1>4. FirstEnd \in Positions
  BY <1>1, <1>2, <1>3 DEF FirstWhole, Positions
<1>5. InSegment(FirstEnd) /\ Is(FirstEnd, {dialect.seg})
  BY <1>1 DEF FirstWhole, InSegment
<1> QED BY <1>4, <1>5 DEF Piece

\* A parse ends inside a segment if the message does.
LEMMA StopsInsideIs ==
  ASSUME FieldsInv, FirstInv, Parsed
  PROVE  StopsInside <=> error.temporary = "UNTERMINATED"
<1>1. Len(message) \in Nat
  BY InputFacts DEF FirstInv
<1>2. error.temporary = "UNTERMINATED"
        <=> \E a \in SegmentStarts : \A i \in a..Len(message) : ~Is(i, {dialect.seg})
  BY DEF FieldsInv, Ended, UnterminatedExactly
<1>3. ASSUME NEW a \in SegmentStarts
      PROVE  (\A i \in a..Len(message) : ~Is(i, {dialect.seg}))
               <=> (Reaches(a, Len(message)) /\ ~Is(Len(message), {dialect.seg}))
  <2>1. a \in 1..Len(message)
    BY DEF SegmentStarts, Positions
  <2> DEFINE n == Len(message)
             T == \A i \in a..n : ~Is(i, {dialect.seg})
             U == a <= n /\ \A i \in a..(n - 1) : ~Is(i, {dialect.seg})
  <2>2. a \in Nat /\ n \in Nat /\ a <= n
    BY <1>1, <2>1
  <2> HIDE DEF n
  <2>3. T => U /\ ~Is(n, {dialect.seg})
    <3>1. \A i \in a..(n - 1) : i \in a..n
      BY <2>2
    <3>2. n \in a..n
      BY <2>2
    <3> QED BY <2>2, <3>1, <3>2
  <2>4. U /\ ~Is(n, {dialect.seg}) => T
    <3>1. \A i \in a..n : i \in a..(n - 1) \/ i = n
      BY <2>2
    <3> QED BY <3>1
  <2> QED BY <2>3, <2>4 DEF n, Reaches
<1> QED BY <1>2, <1>3 DEF StopsInside, InSegment

\* A message without a segment has no text, and no other has.
LEMMA NoSegments ==
  ASSUME FieldsInv, Parsed
  PROVE  segments = <<>> => SegmentStarts = {}
<1>1. segments \in Seq(Segment)
  BY DEF FieldsInv, Typed, TypeOK
<1>2. {s.offset : s \in Range(segments)} = {dialect.skip + a - 1 : a \in SegmentStarts}
  BY DEF FieldsInv, Ended, NothingIsLost
<1>3. Offsets(segments) = {dialect.skip + a - 1 : a \in SegmentStarts}
  BY <1>1, <1>2, TreeSets
<1>4. segments = <<>> => Offsets(segments) = {}
  BY DEF Offsets
<1> QED BY <1>3, <1>4

\* What is written of the tree is what the message says is to be written.
LEMMA TextIsTranscription ==
  ASSUME FieldsInv, TextSoFar, FirstInv, Writer!TypeOK, Parsed
  PROVE  Writer!Text = Transcription
<1> DEFINE N == Len(message)
           tail == IF error.temporary = "NONE" THEN <<>> ELSE <<params.seg>>
<1>1. /\ Given /\ N \in Nat /\ segments \in Seq(Segment)
      /\ error.temporary \in {"NONE", "UNTERMINATED"}
  BY InputFacts DEF FirstInv, FieldsInv, Typed, TypeOK, Parsed
<1>2. CASE segments = <<>>
  <2>1. Transcription = <<>>
    BY <1>2, NoSegments DEF Transcription
  <2> DEFINE ps == Writer!SegmentPieces
  <2>2. ps \in Seq(Writer!Strings) /\ Len(ps) = 0 /\ ps = <<>>
    BY <1>2 DEF Writer!SegmentPieces
  <2> HIDE DEF ps
  <2>3. /\ Writer!From(ps, 1) = Writer!FlattenSeq(ps) /\ Writer!From(ps, Len(ps) + 1) = <<>>
    BY <2>2, WriterAssumption, Writer!FromFacts DEF Writer!Strings
  <2>4. Writer!FlattenSeq(ps) = <<>>
    BY <2>2, <2>3
  <2> QED BY <2>1, <2>4 DEF Writer!Text, ps
<1>3. CASE segments # <<>>
  <2> DEFINE a == Writer!SegmentText(1)
             s == segments[1]
             e1 == FirstEnd
             rest1 == Pieces(e1 + 1, N)
  <2>1. FirstWhole(s) /\ s \in Segment
    BY <1>1, <1>3, FirstValueIs
  <2>2. /\ e1 \in 1..(N + 1) /\ SegmentStarts # {} /\ TextOf[s] = Upto[e1]
    BY <1>1, <2>1 DEF FirstWhole, SegmentStarts, Positions
  <2>3. PICK u \in Writer!Strings :
          /\ Writer!Text = a \o u
          /\ Writer!Lines(segments) = Writer!ElementsText(s) \o (<<params.seg>> \o u)
    BY <1>3, WriterAssumption, Writer!TextOfLines
  <2>4. Upto[e1] \o (<<params.seg>> \o u) = Upto[N + 1] \o tail
    <3>1. LinesOf[segments] = Upto[N + 1] \o tail
      BY DEF TextSoFar
    <3> QED BY <1>1, <2>1, <2>2, <2>3, <3>1 DEF LinesOf, TextOf
  <2>5. /\ Upto[e1] \in Writer!Strings /\ Upto[N + 1] \in Writer!Strings
        /\ <<params.seg>> \in Writer!Strings /\ <<>> \in Writer!Strings
        /\ tail \in Writer!Strings
    <3>1. Upto[e1] \in Writer!Strings
      BY <1>1, <2>2, UptoFacts
    <3>2. N + 1 \in 1..(N + 1)
      BY <1>1
    <3>3. Upto[N + 1] \in Writer!Strings
      BY <1>1, <3>2, UptoFacts
    <3>4. <<params.seg>> \in Writer!Strings /\ <<>> \in Writer!Strings
      BY SymbolFacts, WriterAssumption, Writer!StringAlgebra
    <3> QED BY <3>1, <3>3, <3>4
  <2>6. tail = IF StopsInside THEN <<params.seg>> ELSE <<>>
    BY <1>1, StopsInsideIs
  <2>7. Transcription = (a \o rest1) \o (IF StopsInside /\ e1 <= N THEN <<params.seg>> ELSE <<>>)
    BY <1>3, <2>2, FirstSegmentText DEF Transcription
  <2> HIDE DEF a, s, e1
  <2>8. a \in Writer!Strings
    <3>0. 1 \in 1..Len(segments)
      BY <1>1, <1>3
    <3>1. Writer!SegmentText(1) \in Writer!Strings
      BY <3>0, WriterAssumption, Writer!SegmentFacts
    <3> QED BY <3>1 DEF a
  <2>9. CASE e1 <= N
    <3>1. /\ Upto[e1 + 1] = Upto[e1] \o <<params.seg>>
          /\ Pieces(1, N) = Upto[e1 + 1] \o rest1 /\ Upto[N + 1] = Pieces(1, N)
          /\ rest1 \in Writer!Strings
      <4>1. e1 \in Positions /\ Piece(e1) = <<params.seg>>
        BY <1>3, <2>9, PieceOfFirstEnd DEF e1
      <4>2. Upto[e1 + 1] = Upto[e1] \o <<params.seg>>
        BY <1>1, <4>1, UptoFacts
      <4>3. e1 \in 0..N /\ e1 + 1 \in 1..(N + 1) /\ (e1 + 1) - 1 = e1 /\ (N + 1) - 1 = N
            /\ e1 + 1 \in Nat /\ N + 1 \in Nat /\ N \in ((e1 + 1) - 1)..N
        BY <1>1, <2>2, <2>9
      <4>4. Pieces(1, N) = Pieces(1, e1) \o Pieces(e1 + 1, N)
        BY <1>1, <4>3, PiecesSplit
      <4>5. Upto[e1 + 1] = Pieces(1, e1) /\ Upto[N + 1] = Pieces(1, N)
        BY <4>3 DEF Upto
      <4>6. rest1 \in Writer!Strings
        BY <1>1, <4>3, PiecesFacts
      <4> QED BY <4>2, <4>4, <4>5, <4>6
    <3> HIDE DEF rest1, tail
    <3> DEFINE f == Upto[e1] \o <<params.seg>>
    <3>2. f \in Writer!Strings /\ f \o rest1 \in Writer!Strings /\ rest1 \o tail \in Writer!Strings
      <4>1. f \in Writer!Strings
        BY <2>5, WriterAssumption, Writer!StringAlgebra
      <4> HIDE DEF f
      <4> QED BY <2>5, <3>1, <4>1, WriterAssumption, Writer!StringAlgebra
    <3>3. Upto[e1] \o (<<params.seg>> \o u) = f \o u
      BY <2>5, WriterAssumption, Writer!StringAlgebra
    <3>4. Upto[N + 1] = f \o rest1
      BY <3>1
    <3> HIDE DEF f
    <3>5. (f \o rest1) \o tail = f \o (rest1 \o tail)
      BY <2>5, <3>1, <3>2, WriterAssumption, Writer!StringAlgebra, ZenonT(40)
    <3>6. u = rest1 \o tail
      <4>1. f \o u = f \o (rest1 \o tail)
        BY <2>4, <3>3, <3>4, <3>5
      <4> QED BY <3>2, <4>1, WriterAssumption, Writer!Cancelled
    <3>7. Transcription = (a \o rest1) \o tail
      BY <2>6, <2>7, <2>9 DEF tail
    <3>8. (a \o rest1) \o tail = a \o (rest1 \o tail)
      BY <2>5, <2>8, <3>1, WriterAssumption, Writer!StringAlgebra, ZenonT(40)
    <3> QED BY <2>3, <3>6, <3>7, <3>8
  <2>10. CASE ~(e1 <= N)
    <3>1. e1 = N + 1
      BY <1>1, <2>2, <2>10
    <3>2. rest1 = <<>>
      <4>1. 1..(N - (N + 1 + 1) + 1) = {}
        BY <1>1
      <4>2. rest1 = Writer!FlattenSeq([k \in 1..(N - (N + 1 + 1) + 1) |-> Piece((N + 1 + 1) + k - 1)])
        BY <3>1, SameOperators DEF Pieces
      <4> DEFINE ps == [k \in 1..(N - (N + 1 + 1) + 1) |-> Piece((N + 1 + 1) + k - 1)]
      <4>3. ps \in Seq(Writer!Strings) /\ Len(ps) = 0
        BY <4>1
      <4> HIDE DEF ps
      <4>4. /\ Writer!From(ps, 1) = Writer!FlattenSeq(ps) /\ Writer!From(ps, Len(ps) + 1) = <<>>
        BY <4>3, WriterAssumption, Writer!FromFacts DEF Writer!Strings
      <4>5. Writer!FlattenSeq(ps) = <<>>
        BY <4>3, <4>4
      <4> QED BY <4>2, <4>5 DEF ps
    <3> HIDE DEF rest1
    <3>3. <<params.seg>> \o u = tail
      <4>1. <<params.seg>> \o u \in Writer!Strings
        BY <2>5, WriterAssumption, Writer!StringAlgebra
      <4>2. Upto[e1] \o (<<params.seg>> \o u) = Upto[e1] \o tail
        BY <2>4, <3>1
      <4> HIDE DEF tail
      <4> QED BY <2>5, <4>1, <4>2, WriterAssumption, Writer!Cancelled
    <3>4. <<params.seg>> \o u # <<>>
      BY <2>5 DEF Writer!Strings
    <3>5. <<params.seg>> \o u = <<params.seg>> \o <<>>
      <4>1. tail = <<params.seg>>
        BY <3>3, <3>4
      <4>2. <<params.seg>> \o <<>> = <<params.seg>>
        BY <2>5, WriterAssumption, Writer!StringAlgebra
      <4> QED BY <3>3, <4>1, <4>2
    <3>6. u = <<>>
      BY <2>5, <3>5, WriterAssumption, Writer!Cancelled
    <3>7. Transcription = (a \o <<>>) \o <<>>
      BY <2>7, <2>10, <3>2
    <3>8. a \o <<>> = a
      BY <2>8, WriterAssumption, Writer!StringAlgebra
    <3> QED BY <2>3, <3>6, <3>7, <3>8
  <2> QED BY <2>9, <2>10
<1> QED BY <1>2, <1>3

-----------------------------------------------------------------------------
(* Parser and writer. *)

Handed == pc = "returned" /\ result = "interchange"

\* The writer has not begun before there is an interchange, and then it has
\* written a beginning of its text.
BothInv ==
  /\ FieldsInv /\ TextSoFar /\ FirstInv
  /\ ~Handed => Build!InitBuild
  /\ Handed => Writer!IInv /\ Writer!TextInv

\* The writer can begin at any time.
LEMMA WriterBegins == Typed /\ Build!InitBuild => Writer!IInv /\ Writer!TextInv
<1> SUFFICES ASSUME Typed, Build!InitBuild PROVE Writer!IInv /\ Writer!TextInv
  OBVIOUS
<1>1. Writer!Init
  BY WriterTyped
<1> QED BY <1>1, WriterAssumption, Writer!Initially, Writer!TextInitially

\* A step of the writer, as its own module has it.
LEMMA WriterSteps ==
  ASSUME Build!Next
  PROVE  Writer!Next /\ UNCHANGED <<segments, params>>
<1>1. UNCHANGED <<segments, params>>
  BY DEF Build!Next, Build!BeginSegment, Build!BeginElement, Build!BeginValue,
    Build!BeginHeader, Build!WriteCharacter, Build!EndOfName, Build!EndOfValue,
    Build!TrailerPiece, Build!Backspace, Build!TrailerOverrun, Build!EndOfNewHeader,
    Build!EndOfHeader, Build!SubSeparator, Build!ElementSeparator, Build!EndElements,
    Build!Terminator, Build!HeaderTerminator, Build!EndSegments, Build!Finish, Build!input
<1>2. Writer!Next
  <2> USE DEF Build!elements, Build!values, Build!Full, Build!Fits, Build!Touch, Build!Write,
      Build!WriteNUL, Build!Leave, Build!Goto, Build!input, Build!where, Build!EndOfText,
      Writer!elements, Writer!values, Writer!Full, Writer!Fits, Writer!Touch, Writer!Write,
      Writer!WriteNUL, Writer!Leave, Writer!Goto, Writer!input, Writer!where, Writer!EndOfText
  <2>1. Build!BeginSegment => Writer!BeginSegment
    BY Zenon DEF Build!BeginSegment, Writer!BeginSegment
  <2>2. Build!BeginElement => Writer!BeginElement
    BY Zenon DEF Build!BeginElement, Writer!BeginElement
  <2>3. Build!BeginValue => Writer!BeginValue
    BY Zenon DEF Build!BeginValue, Writer!BeginValue, Build!LooksForHeader, Build!IsHeader,
       Build!First, Writer!LooksForHeader, Writer!IsHeader, Writer!First
  <2>4. Build!BeginHeader => Writer!BeginHeader
    BY Zenon DEF Build!BeginHeader, Writer!BeginHeader, Build!LooksForHeader, Build!IsHeader,
       Build!First, Writer!LooksForHeader, Writer!IsHeader, Writer!First
  <2>5. Build!WriteCharacter => Writer!WriteCharacter
    BY Zenon DEF Build!WriteCharacter, Writer!WriteCharacter, Build!Pair, Writer!Pair,
       Build!MustEscape, Writer!MustEscape, Build!Special, Writer!Special
  <2>6. Build!EndOfName => Writer!EndOfName
    BY Zenon DEF Build!EndOfName, Writer!EndOfName
  <2>7. Build!EndOfValue => Writer!EndOfValue
    BY Zenon DEF Build!EndOfValue, Writer!EndOfValue, Build!MoreValues, Writer!MoreValues
  <2>8. Build!TrailerPiece => Writer!TrailerPiece
    BY Zenon DEF Build!TrailerPiece, Writer!TrailerPiece, Build!Expansion, Writer!Expansion,
       Build!InTrailer, Writer!InTrailer
  <2>9. Build!Backspace => Writer!Backspace
    BY Zenon DEF Build!Backspace, Writer!Backspace, Build!InTrailer, Writer!InTrailer
  <2>10. Build!TrailerOverrun => Writer!TrailerOverrun
    BY Zenon DEF Build!TrailerOverrun, Writer!TrailerOverrun, Build!InTrailer, Writer!InTrailer
  <2>11. Build!EndOfNewHeader => Writer!EndOfNewHeader
    BY Zenon DEF Build!EndOfNewHeader, Writer!EndOfNewHeader
  <2>12. Build!EndOfHeader => Writer!EndOfHeader
    BY Zenon DEF Build!EndOfHeader, Writer!EndOfHeader
  <2>13. Build!SubSeparator => Writer!SubSeparator
    BY Zenon DEF Build!SubSeparator, Writer!SubSeparator
  <2>14. Build!ElementSeparator => Writer!ElementSeparator
    BY Zenon DEF Build!ElementSeparator, Writer!ElementSeparator, Build!Separator,
       Writer!Separator, Build!NextElement, Writer!NextElement
  <2>15. Build!EndElements => Writer!EndElements
    BY Zenon DEF Build!EndElements, Writer!EndElements
  <2>16. Build!Terminator => Writer!Terminator
    BY Zenon DEF Build!Terminator, Writer!Terminator
  <2>17. Build!HeaderTerminator => Writer!HeaderTerminator
    BY Zenon DEF Build!HeaderTerminator, Writer!HeaderTerminator
  <2>18. Build!EndSegments => Writer!EndSegments
    BY Zenon DEF Build!EndSegments, Writer!EndSegments
  <2>19. Build!Finish => Writer!Finish
    BY Zenon DEF Build!Finish, Writer!Finish
  <2> HIDE DEF Build!elements, Build!values, Build!Full, Build!Fits, Build!Touch, Build!Write,
      Build!WriteNUL, Build!Leave, Build!Goto, Build!input, Build!where, Build!EndOfText,
      Writer!elements, Writer!values, Writer!Full, Writer!Fits, Writer!Touch, Writer!Write,
      Writer!WriteNUL, Writer!Leave, Writer!Goto, Writer!input, Writer!where, Writer!EndOfText
  <2> QED BY <2>1, <2>2, <2>3, <2>4, <2>5, <2>6, <2>7, <2>8, <2>9, <2>10, <2>11, <2>12, <2>13,
             <2>14, <2>15, <2>16, <2>17, <2>18, <2>19 DEF Build!Next, Writer!Next
<1> QED BY <1>1, <1>2

\* Writing leaves the tree, and what is said of it, alone.
LEMMA TreeStays ==
  ASSUME FieldsInv, TextSoFar, FirstInv, UNCHANGED vars, UNCHANGED params
  PROVE  FieldsInv' /\ TextSoFar' /\ FirstInv'
<1>1. FieldsInv'
  BY FieldsStep
<1>2. /\ UNCHANGED <<message, dialect, pc, result, error, pos, ts, newel, src, text, segments>>
      /\ UNCHANGED parser
  BY DEF vars, input, outcome, cursor, copying, tree
<1>3. Parsed' <=> Parsed
  BY <1>2 DEF Parsed
<1>4. TextSoFar'
  <2>1. Written(segments)' = Written(segments) /\ Lead' = Lead
    BY <1>2, SameTree
  <2>2. /\ LinesOf[segments]' = LinesOf[segments] /\ Upto[pos]' = Upto[pos]
        /\ Upto[ts]' = Upto[ts] /\ Upto[src]' = Upto[src] /\ EscapedOf[text]' = EscapedOf[text]
        /\ Ends(pos)' = Ends(pos) /\ Upto[Len(message) + 1]' = Upto[Len(message) + 1]
    <3>1. Ends(pos') = Ends(pos)
      BY <1>2
    <3> QED BY <1>2, <3>1, StepTexts
  <2> QED BY <1>2, <1>3, <2>1, <2>2 DEF TextSoFar
<1>5. FirstInv'
  <2>1. /\ FirstWhole(segments[1])' <=> FirstWhole(segments[1])
        /\ FirstTyped(segments[1])' <=> FirstTyped(segments[1])
        /\ Ends(pos)' <=> Ends(pos)
    <3>1. Ends(pos') = Ends(pos)
      BY <1>2
    <3> QED BY <1>2, <3>1, FirstPrimed
  <2>2. (FirstRead' <=> FirstRead) /\ (Reading' <=> Reading) /\ (Given' <=> Given)
    BY <1>2, <1>3 DEF FirstRead, Reading, Inside, Given
  <2>3. seg' = seg /\ el' = el /\ StartOf(seg)' = StartOf(seg)
    BY <1>2 DEF seg, el, LastOf, StartOf
  <2>4. FirstAwaits' <=> FirstAwaits
    BY <1>2, <2>1, <2>3 DEF FirstAwaits
  <2> QED BY <1>2, <1>3, <2>1, <2>2, <2>3, <2>4 DEF FirstInv
<1> QED BY <1>1, <1>4, <1>5

\* The parser reads, and hands over what it returns.
LEMMA ParseKeeps ==
  ASSUME BothInv, ParseStep
  PROVE  BothInv'
<1>1. Next /\ UNCHANGED buffer /\ ~Handed
  BY DEF ParseStep, Handed, Next, NoMatch, Match, CreateFails, Empty, Reserve, SkipNewline,
    EndOfMessage, NewSegment, SegmentFails, EndSegment, Unterminated, NewElement, ElementFails,
    StartValue, Scan, AllocValue, AllocValueFails, Copy, Store, StoreFails, AtSegment, AtElement,
    AtEndOfValue
<1>2. FieldsInv /\ TextSoFar /\ FirstInv /\ Build!InitBuild /\ UNCHANGED params
  BY <1>1 DEF BothInv, buffer
<1>3. Writer!TypeOK
  BY <1>2, WriterTyped DEF FieldsInv
<1>4. FieldsInv'
  BY <1>1, <1>2, FieldsStep
<1>5. TextSoFar' /\ FirstInv'
  BY <1>1, <1>2, <1>3, TextStep, FirstStep
<1>6. Build!InitBuild'
  BY <1>1, <1>2 DEF buffer, Build!InitBuild
<1>7. Typed' /\ Build!InitBuild' => Writer!IInv' /\ Writer!TextInv'
  BY WriterBegins, PTL
<1>8. Typed'
  BY <1>4 DEF FieldsInv
<1> QED BY <1>4, <1>5, <1>6, <1>7, <1>8 DEF BothInv

\* The writer writes.
LEMMA BuildKeeps ==
  ASSUME BothInv, BuildStep
  PROVE  BothInv'
<1>1. /\ Handed /\ Build!Next
      /\ UNCHANGED <<input, pc, outcome, cursor, copying, segalloc, elalloc, memory>>
  BY DEF BuildStep, Handed
<1>2. Writer!Next /\ UNCHANGED <<segments, params>>
  BY <1>1, WriterSteps
<1>3. UNCHANGED vars
  BY <1>1, <1>2 DEF vars, tree
<1>4. FieldsInv' /\ TextSoFar' /\ FirstInv'
  BY <1>2, <1>3, TreeStays DEF BothInv
<1>5. Writer!IInv' /\ Writer!TextInv'
  BY <1>1, <1>2, WriterAssumption, Writer!Inductive, Writer!TextInductive DEF BothInv
<1>6. Handed'
  BY <1>1 DEF Handed, outcome
<1> QED BY <1>4, <1>5, <1>6 DEF BothInv

\* Neither does anything.
LEMMA NothingKeeps ==
  ASSUME BothInv, UNCHANGED <<vars, buffer>>
  PROVE  BothInv'
<1>1. UNCHANGED vars /\ UNCHANGED buffer
  OBVIOUS
<1>2. UNCHANGED params /\ UNCHANGED segments /\ UNCHANGED <<pc, result>>
  BY <1>1 DEF buffer, vars, tree, outcome
<1>3. FieldsInv' /\ TextSoFar' /\ FirstInv'
  BY <1>1, <1>2, TreeStays DEF BothInv
<1>4. Handed' <=> Handed
  BY <1>2 DEF Handed
<1>5. Build!InitBuild' <=> Build!InitBuild
  BY <1>1 DEF buffer, Build!InitBuild
<1>6. UNCHANGED Writer!vars
  BY <1>1, <1>2 DEF buffer, Writer!vars, Writer!input, Writer!where
<1>7. Writer!IInv /\ Writer!TextInv => Writer!IInv' /\ Writer!TextInv'
  BY <1>6, WriterAssumption, Writer!Inductive, Writer!TextInductive
<1> QED BY <1>3, <1>4, <1>5, <1>7 DEF BothInv

\* Before anything is read, nothing is to be written.
LEMMA BothInit == InitBoth => BothInv
<1> SUFFICES ASSUME InitBoth PROVE BothInv
  OBVIOUS
<1>1. Init /\ Build!InitBuild
  BY DEF InitBoth
<1>2. FieldsInv
  BY <1>1, FieldsInit
<1>3. pc = "detect" /\ segments = <<>>
  BY <1>1 DEF Init
<1> QED BY <1>1, <1>2, <1>3 DEF BothInv, TextSoFar, FirstInv, FirstRead, Parsed, Handed

\* At the end of both the text is the one the message says.
LEMMA BothTranscribe ==
  ASSUME BothInv
  PROVE  Transcribes
<1> SUFFICES ASSUME Built PROVE out = Transcription
  BY DEF Transcribes
<1>1. Parsed /\ bpc = "returned" /\ Len(out) < buflen
  BY DEF Built
<1>2. FieldsInv /\ TextSoFar /\ FirstInv /\ Writer!IInv /\ Writer!TextInv
  BY <1>1 DEF BothInv, Handed, Parsed
<1>3. out = Writer!Text
  BY <1>1, <1>2 DEF Writer!TextInv, Writer!WholeInv
<1>4. Writer!TypeOK
  BY <1>2 DEF Writer!IInv
<1> QED BY <1>1, <1>2, <1>3, <1>4, TextIsTranscription

\* Whatever the message and both dialects, what edi_interchange_build writes of
\* a message that edi_parser_parse has read is the message with the separators
\* changed, newlines between segments, separators at the end of a segment and
\* needless escape characters left out, and the header added or ended as the new
\* dialect says.
THEOREM ParsedMessageIsTranscribed == SpecBoth => []Transcribes
<1>1. BothInv /\ [NextOfEither]_<<vars, buffer>> => BothInv'
  BY ParseKeeps, BuildKeeps, NothingKeeps DEF NextOfEither
<1>2. BothInv => Transcribes
  BY BothTranscribe
<1> QED BY <1>1, <1>2, BothInit, PTL DEF SpecBoth

=============================================================================
