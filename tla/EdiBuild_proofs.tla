--------------------------- MODULE EdiBuild_proofs ---------------------------
(***************************************************************************)
(* The writer stays inside the tree and inside the buffer, and what it     *)
(* writes is the text of the tree, whole or up to the end of the buffer,   *)
(* for trees of any shape, for any separators, header and trailer, and for *)
(* buffers of any size.                                                    *)
(***************************************************************************)
EXTENDS EdiBuildText, SequenceTheorems, WellFoundedInduction, TLAPS

Symbols == Chars \union Directives \union {NUL, "%", "x"}

\* The buffer; what is written without a check has its room.
Buffer ==
  /\ out \in Seq(Symbols) /\ rest \in Seq(Symbols)
  /\ Len(out) <= buflen /\ touched <= buflen + 1
  /\ pc \in {"sub", "separator", "terminator"} => Len(out) < buflen

\* A separator between values has a value behind it.
SubInside == pc = "sub" => i < Len(values)

IInv == TypeOK /\ Buffer /\ SubInside

\* What a sequence over a set holds is in the set.
LEMMA ElementOfSequence ==
  ASSUME NEW S, NEW s \in Seq(S), NEW k \in 1..Len(s)
  PROVE  s[k] \in S
OBVIOUS

\* A sequence, whatever it holds, has its length for a domain.
LEMMA SeqShape ==
  ASSUME NEW s, IsSeq(s)
  PROVE  Len(s) \in Nat /\ DOMAIN s = 1..Len(s) /\ (s # <<>> => Len(s) > 0)
BY DEF IsSeq

\* The tree and the style of the output, as the assumption has them.
LEMMA InputFacts ==
  ASSUME TypeOK
  PROVE  /\ buflen \in Nat
         /\ Len(segments) \in Nat /\ DOMAIN segments = 1..Len(segments)
         /\ \A k \in 1..Len(segments) : IsSegment(segments[k])
         /\ \A x \in {params.seg, params.data, params.sub, params.tag, params.escape} :
              x \in Symbols
         /\ params.name # NoName => params.name \in Seq(Symbols)
         /\ params.trailer \in Seq(Symbols)
<1>1. /\ buflen \in BufLens /\ segments \in Trees /\ params \in OutParams
  BY DEF TypeOK
<1>2. /\ params.seg \in Chars /\ params.data \in Chars /\ params.sub \in Chars
      /\ params.tag \in Chars /\ params.escape \in {NUL} \union Chars
      /\ params.name \in {NoName} \union Seq(Chars)
      /\ params.trailer \in Seq(Chars \union Directives)
  BY <1>1, EdiBuildAssumption
<1>3. buflen \in Nat /\ IsSeq(segments) /\ \A k \in DOMAIN segments : IsSegment(segments[k])
  BY <1>1, EdiBuildAssumption
<1>7. Len(segments) \in Nat /\ DOMAIN segments = 1..Len(segments)
  BY <1>3, SeqShape
<1>4. params.name # NoName => params.name \in Seq(Symbols)
  BY <1>2 DEF Symbols
<1>5. params.trailer \in Seq(Symbols)
  BY <1>2 DEF Symbols
<1>6. \A x \in {params.seg, params.data, params.sub, params.tag, params.escape} :
        x \in Symbols
  BY <1>2 DEF Symbols
<1> QED BY <1>3, <1>4, <1>5, <1>6, <1>7

\* The elements of the segment.
LEMMA ElementFacts ==
  ASSUME TypeOK, c <= Len(segments)
  PROVE  /\ Len(elements) \in Nat
         /\ \A k \in 1..Len(elements) : IsElement(elements[k])
<1>1. IsSegment(segments[c])
  BY InputFacts DEF TypeOK
<1>2. IsSeq(elements) /\ \A k \in DOMAIN elements : IsElement(elements[k])
  BY <1>1 DEF IsSegment, elements
<1> QED BY <1>2, SeqShape

\* The values of the element, and their texts.
LEMMA ValueFacts ==
  ASSUME TypeOK, c <= Len(segments), d <= Len(elements)
  PROVE  /\ Len(values) \in Nat
         /\ values # <<>> => Len(values) > 0
         /\ i <= Len(values) => values[i].text \in Seq(Symbols)
<1>1. IsElement(elements[d]) /\ i \in Nat \ {0}
  BY ElementFacts DEF TypeOK
<1>2. IsSeq(values) /\ \A k \in DOMAIN values : values[k].text \in Seq(Chars)
  BY <1>1 DEF IsElement, values
<1>3. Len(values) \in Nat /\ DOMAIN values = 1..Len(values) /\ (values # <<>> => Len(values) > 0)
  BY <1>2, SeqShape
<1>4. ASSUME i <= Len(values)  PROVE  values[i].text \in Seq(Symbols)
  <2>1. values[i].text \in Seq(Chars)
    BY <1>1, <1>2, <1>3, <1>4
  <2> QED BY <2>1 DEF Symbols
<1> QED BY <1>3, <1>4

-----------------------------------------------------------------------------
(* Steps as the buffer sees them. *)

\* What all writes leave.
Grown(n) ==
  /\ out' \in Seq(Symbols) /\ Len(out') \in Nat /\ Len(out') <= buflen
  /\ touched' \in Nat /\ Len(out') <= touched' /\ touched' <= buflen + 1
  /\ Len(out') = Len(out) + n

\* What fits is written inside the buffer,
LEMMA WriteGrows ==
  ASSUME IInv, NEW s \in Seq(Symbols), Write(s), Len(out) + Len(s) <= buflen
  PROVE  Grown(Len(s))
<1>1. buflen \in Nat /\ out \in Seq(Symbols) /\ touched \in Nat /\ touched <= buflen + 1
  BY InputFacts DEF IInv, TypeOK, Buffer
<1>2. out' = out \o s
  BY DEF Write
<1>3. out' \in Seq(Symbols) /\ Len(out') = Len(out) + Len(s) /\ Len(s) \in Nat
      /\ Len(out) \in Nat
  BY <1>1, <1>2
<1>4. touched' = IF Len(out) + Len(s) > touched THEN Len(out) + Len(s) ELSE touched
  BY DEF Write, Touch
<1> QED BY <1>1, <1>3, <1>4 DEF Grown

\* so is one character where there is room,
LEMMA WriteOne ==
  ASSUME IInv, NEW x \in Symbols, Write(<<x>>), Len(out) < buflen
  PROVE  Grown(1)
<1>1. <<x>> \in Seq(Symbols) /\ Len(<<x>>) = 1
  OBVIOUS
<1>2. Len(out) \in Nat /\ buflen \in Nat
  BY InputFacts DEF IInv, Buffer
<1>3. Len(out) + Len(<<x>>) <= buflen
  BY <1>1, <1>2
<1>4. Grown(Len(<<x>>))
  BY <1>1, <1>3, WriteGrows
<1> QED BY <1>1, <1>4

\* and an escape character with the one it escapes.
LEMMA WriteTwo ==
  ASSUME IInv, NEW x \in Symbols, NEW y \in Symbols, Write(<<x, y>>), Len(out) + 2 <= buflen
  PROVE  Grown(2)
<1>1. <<x, y>> \in Seq(Symbols) /\ Len(<<x, y>>) = 2
  OBVIOUS
<1> QED BY <1>1, WriteGrows

\* The NUL goes at most one place behind the buffer.
LEMMA NULGrows ==
  ASSUME IInv, WriteNUL
  PROVE  Grown(0)
<1>1. /\ buflen \in Nat /\ out \in Seq(Symbols) /\ touched \in Nat
      /\ touched <= buflen + 1 /\ Len(out) <= buflen /\ Len(out) \in Nat
  BY InputFacts DEF IInv, TypeOK, Buffer
<1>2. /\ out' = out
      /\ touched' = IF Len(out) + 1 > touched THEN Len(out) + 1 ELSE touched
  BY DEF WriteNUL, Touch
<1> QED BY <1>1, <1>2 DEF Grown

\* Nothing written, nothing touched.
LEMMA LeaveGrows ==
  ASSUME IInv, Leave
  PROVE  Grown(0)
<1>1. /\ buflen \in Nat /\ out \in Seq(Symbols) /\ touched \in Nat /\ Len(out) <= touched
      /\ touched <= buflen + 1 /\ Len(out) <= buflen /\ Len(out) \in Nat
  BY InputFacts DEF IInv, TypeOK, Buffer
<1> QED BY <1>1 DEF Leave, Grown

\* A jump lands where it says, with room left, or at the end.
LEMMA GotoLands ==
  ASSUME NEW l, Goto(l)
  PROVE  (pc' = l /\ ~(Len(out') >= buflen)) \/ pc' = "end"
BY DEF Goto

\* A piece of a trailer becomes one character, or two if it is no directive.
LEMMA ExpansionFits ==
  ASSUME TypeOK, NEW x \in Symbols
  PROVE  \/ \E y \in Symbols : Expansion(x) = <<y>>
         \/ Expansion(x) = <<"%", "x">>
<1>1. \A y \in {params.seg, params.data, params.sub, params.tag, params.escape} :
        y \in Symbols
  BY InputFacts
<1>2. CASE x = "%x"
  BY <1>2 DEF Expansion
<1>3. CASE x # "%x"
  BY <1>1, <1>3 DEF Expansion
<1> QED BY <1>2, <1>3

-----------------------------------------------------------------------------
(* Steps as the loops see them. *)

\* The loops inside the tree: TypeOK without the input and the buffer, for a tree
\* of these numbers of segments, of elements and of values.
PlaceAt(l, h, x, y, z, nsegments, nelements, nvalues) ==
  /\ l \in Labels /\ h \in BOOLEAN
  /\ x \in 1..nsegments + 1 /\ y \in Nat \ {0} /\ z \in Nat \ {0}
  /\ l \notin {"segment", "end", "returned", "undefined"} =>
       /\ x <= nsegments
       /\ y <= nelements + 1
       /\ l \notin {"element", "terminator", "trailer"} => y <= nelements
       /\ l \notin {"element", "terminator", "trailer", "separator"} => z <= nvalues
  /\ l = "sub" => z < nvalues

Place == PlaceAt(pc, header, c, d, i, Len(segments), Len(elements), Len(values))

\* The loops are at a place of the tree.
LEMMA PlaceHolds ==
  ASSUME IInv
  PROVE  Place
BY DEF IInv, TypeOK, SubInside, Place, PlaceAt

\* A step that writes inside the buffer and goes to a place of the tree keeps the
\* invariant.
LEMMA Assembled ==
  ASSUME IInv, UNCHANGED input, NEW n \in Nat, Grown(n), Place', rest' \in Seq(Symbols),
         pc' \in {"sub", "separator", "terminator"} => Len(out') < buflen
  PROVE  IInv'
<1>1. segments' \in Trees /\ params' \in OutParams /\ buflen' \in BufLens /\ buflen' = buflen
  BY DEF IInv, TypeOK, input
<1>2. TypeOK'
  BY <1>1 DEF TypeOK, Place, PlaceAt, Grown
<1>3. Buffer'
  BY <1>1 DEF Buffer, Grown
<1>4. SubInside'
  BY DEF SubInside, Place, PlaceAt
<1> QED BY <1>2, <1>3, <1>4 DEF IInv

\* A step that moves no loop and goes to a label with the same or a smaller
\* claim on the tree.
LEMMA StaysInPlace ==
  ASSUME IInv, UNCHANGED input, UNCHANGED where, header' \in BOOLEAN,
         pc' \in Labels,
         \/ pc' \in {"segment", "end", "returned", "undefined"}
         \/ pc \notin {"segment", "end", "returned", "undefined"} /\ pc' = pc
         \/ /\ pc \in {"value", "name", "nameTrailer", "text", "sub"}
            /\ pc' \in {"value", "name", "nameTrailer", "text", "separator"}
         \/ pc = "terminator" /\ pc' = "trailer"
  PROVE  Place'
<1>1. /\ segments' = segments /\ c' = c /\ d' = d /\ i' = i
      /\ elements' = elements /\ values' = values
  BY DEF input, where, elements, values
<1>2. Place' = PlaceAt(pc', header', c, d, i, Len(segments), Len(elements), Len(values))
  BY <1>1 DEF Place
<1> QED BY <1>2, PlaceHolds DEF Place, PlaceAt, Labels

\* A step inside a segment.
LEMMA MovesInSegment ==
  ASSUME IInv, UNCHANGED <<input, c>>, header' \in BOOLEAN,
         NEW l, pc' = l, NEW y, d' = y, NEW z, i' = z,
         \A n : (y = d => n = Len(values)) =>
                PlaceAt(l, TRUE, c, y, z, Len(segments), Len(elements), n)
  PROVE  Place'
<1>1. segments' = segments /\ c' = c /\ elements' = elements
  BY DEF input, elements
<1>2. y = d => values' = values
  BY <1>1 DEF values
<1>3. Place' = PlaceAt(l, header', c, y, z, Len(segments), Len(elements), Len(values'))
  BY <1>1 DEF Place
<1>4. PlaceAt(l, TRUE, c, y, z, Len(segments), Len(elements), Len(values'))
  BY <1>2
<1> QED BY <1>3, <1>4 DEF PlaceAt

-----------------------------------------------------------------------------
(* Every action keeps the invariant. *)

\* The first element comes at the beginning of a segment.
LEMMA BeginSegmentKeeps ==
  ASSUME IInv, BeginSegment
  PROVE  IInv'
<1>1. Grown(0) /\ UNCHANGED input /\ rest' \in Seq(Symbols)
  BY LeaveGrows DEF BeginSegment, IInv, Buffer
<1>2. c \in Nat /\ c <= Len(segments) /\ Len(elements) \in Nat
  BY ElementFacts, InputFacts DEF BeginSegment, IInv, TypeOK
<1>3. c \in 1..Len(segments) + 1 /\ header \in BOOLEAN /\ i \in Nat \ {0}
  BY PlaceHolds DEF Place, PlaceAt
<1>4. \A n : PlaceAt("element", TRUE, c, 1, i, Len(segments), Len(elements), n)
  BY <1>2, <1>3 DEF PlaceAt, Labels
<1>5. Place'
  BY <1>3, <1>4, MovesInSegment DEF BeginSegment
<1> QED BY <1>1, <1>5, Assembled DEF BeginSegment

\* The first value of an element, or its end.
LEMMA BeginElementKeeps ==
  ASSUME IInv, BeginElement
  PROVE  IInv'
<1>1. Grown(0) /\ UNCHANGED input /\ rest' \in Seq(Symbols)
  BY LeaveGrows DEF BeginElement, IInv, Buffer
<1>2. /\ c \in 1..Len(segments) /\ d \in 1..Len(elements) /\ header \in BOOLEAN
      /\ Len(elements) \in Nat /\ Len(segments) \in Nat
      /\ (values # <<>> => Len(values) > 0) /\ Len(values) \in Nat
  BY ElementFacts, ValueFacts, InputFacts DEF BeginElement, IInv, TypeOK
<1>3. CASE values = <<>>
  <2>1. (pc' = "separator" /\ ~(Len(out') >= buflen)) \/ pc' = "end"
    BY <1>3, GotoLands DEF BeginElement
  <2>2. /\ \A n : PlaceAt("separator", TRUE, c, d, 1, Len(segments), Len(elements), n)
        /\ \A n : PlaceAt("end", TRUE, c, d, 1, Len(segments), Len(elements), n)
    BY <1>2 DEF PlaceAt, Labels
  <2>3. Place'
    BY <1>2, <2>1, <2>2, MovesInSegment DEF BeginElement
  <2>4. pc' = "separator" => Len(out') < buflen
    BY <1>1, <2>1, InputFacts DEF Grown, IInv
  <2> QED BY <1>1, <2>1, <2>3, <2>4, Assembled
<1>4. CASE values # <<>>
  <2>1. pc' = "value" /\ 1 <= Len(values)
    BY <1>2, <1>4 DEF BeginElement
  <2>2. PlaceAt("value", TRUE, c, d, 1, Len(segments), Len(elements), Len(values))
    BY <1>2, <2>1 DEF PlaceAt, Labels
  <2>3. Place'
    BY <1>2, <2>1, <2>2, MovesInSegment DEF BeginElement
  <2> QED BY <1>1, <2>1, <2>3, Assembled
<1> QED BY <1>3, <1>4

\* The text of a value.
LEMMA BeginValueKeeps ==
  ASSUME IInv, BeginValue
  PROVE  IInv'
<1>1. c <= Len(segments) /\ d <= Len(elements) /\ i <= Len(values)
  BY DEF BeginValue, IInv, TypeOK
<1>2. Grown(0) /\ UNCHANGED input /\ rest' \in Seq(Symbols)
  BY <1>1, LeaveGrows, ValueFacts DEF BeginValue, IInv
<1>3. header' \in BOOLEAN
  BY DEF BeginValue, LooksForHeader, First, IInv, TypeOK
<1>4. Place'
  BY <1>2, <1>3, StaysInPlace DEF BeginValue, Labels
<1>5. pc' = "text"
  BY DEF BeginValue
<1> QED BY <1>2, <1>4, <1>5, Assembled

\* The name of a new header, which is there.
LEMMA BeginHeaderKeeps ==
  ASSUME IInv, BeginHeader
  PROVE  IInv'
<1>1. Grown(0) /\ UNCHANGED input /\ rest' \in Seq(Symbols) /\ header' \in BOOLEAN
  BY LeaveGrows, InputFacts DEF BeginHeader, LooksForHeader, IInv, TypeOK
<1>2. Place'
  BY <1>1, StaysInPlace DEF BeginHeader, Labels
<1>3. pc' = "name"
  BY DEF BeginHeader
<1> QED BY <1>1, <1>2, <1>3, Assembled

\* A character, alone or with an escape character.
LEMMA WriteCharacterKeeps ==
  ASSUME IInv, WriteCharacter
  PROVE  IInv'
<1>1. UNCHANGED input /\ UNCHANGED where /\ header' = header /\ pc' = pc
      /\ pc \in {"name", "text"} /\ rest # <<>> /\ Len(out) < buflen /\ rest' = Tail(rest)
  BY InputFacts DEF WriteCharacter, Full, IInv, Buffer
<1>2. rest \in Seq(Symbols) /\ Len(out) \in Nat /\ buflen \in Nat /\ header \in BOOLEAN
  BY InputFacts DEF IInv, Buffer, TypeOK
<1>3. Head(rest) \in Symbols /\ rest' \in Seq(Symbols)
  BY <1>1, <1>2
<1>4. Grown(1) \/ Grown(2)
  <2>1. CASE MustEscape(Head(rest))
    <3>1. params.escape \in Symbols
      BY InputFacts DEF IInv
    <3>2. Write(Pair(Head(rest)))
      BY <2>1 DEF WriteCharacter
    <3>3. CASE Fits(2)
      <4>1. Pair(Head(rest)) = <<params.escape, Head(rest)>>
        BY <3>3 DEF Pair
      <4> QED BY <1>3, <3>1, <3>2, <3>3, <4>1, WriteTwo DEF Fits
    <3>4. CASE ~Fits(2)
      <4>1. Pair(Head(rest)) = <<params.escape>>
        BY <3>4 DEF Pair
      <4> QED BY <1>1, <3>1, <3>2, <4>1, WriteOne
    <3> QED BY <3>3, <3>4
  <2>2. CASE ~MustEscape(Head(rest))
    <3>1. Write(<<Head(rest)>>)
      BY <2>2 DEF WriteCharacter
    <3> QED BY <1>1, <1>3, <3>1, WriteOne
  <2> QED BY <2>1, <2>2
<1>5. Place'
  BY <1>1, <1>2, StaysInPlace DEF Labels
<1> QED BY <1>1, <1>3, <1>4, <1>5, Assembled

\* The trailer behind the name.
LEMMA EndOfNameKeeps ==
  ASSUME IInv, EndOfName
  PROVE  IInv'
<1>1. Grown(0) /\ UNCHANGED input /\ rest' \in Seq(Symbols) /\ header' \in BOOLEAN
      /\ UNCHANGED where /\ pc = "name"
  BY NULGrows, InputFacts DEF EndOfName, EndOfText, IInv, TypeOK
<1>2. pc' \in {"nameTrailer", "end"}
  BY GotoLands DEF EndOfName
<1>3. Place'
  BY <1>1, <1>2, StaysInPlace DEF Labels
<1> QED BY <1>1, <1>2, <1>3, Assembled

\* A separator only between values of the tree.
LEMMA EndOfValueKeeps ==
  ASSUME IInv, EndOfValue
  PROVE  IInv'
<1>1. Grown(0) /\ UNCHANGED input /\ rest' \in Seq(Symbols) /\ header' \in BOOLEAN
      /\ UNCHANGED where /\ pc = "text" /\ buflen \in Nat
  BY NULGrows, InputFacts DEF EndOfValue, EndOfText, IInv, TypeOK, Buffer
<1>2. CASE MoreValues
  <2>1. (pc' = "sub" /\ ~(Len(out') >= buflen)) \/ pc' = "end"
    BY <1>2, GotoLands DEF EndOfValue
  <2>2. /\ \A n : n = Len(values) =>
             PlaceAt("sub", TRUE, c, d, i, Len(segments), Len(elements), n)
        /\ \A n : PlaceAt("end", TRUE, c, d, i, Len(segments), Len(elements), n)
    BY <1>1, <1>2, PlaceHolds DEF Place, PlaceAt, Labels, MoreValues
  <2>3. Place'
    BY <1>1, <2>1, <2>2, MovesInSegment DEF where
  <2>4. pc' = "sub" => Len(out') < buflen
    BY <1>1, <2>1 DEF Grown
  <2> QED BY <1>1, <2>1, <2>3, <2>4, Assembled
<1>3. CASE ~MoreValues
  <2>1. (pc' = "separator" /\ ~(Len(out') >= buflen)) \/ pc' = "end"
    BY <1>3, GotoLands DEF EndOfValue
  <2>2. Place'
    BY <1>1, <2>1, StaysInPlace DEF Labels
  <2>3. pc' = "separator" => Len(out') < buflen
    BY <1>1, <2>1 DEF Grown
  <2> QED BY <1>1, <2>1, <2>2, <2>3, Assembled
<1> QED BY <1>2, <1>3

\* A piece of the trailer, cut at the end of the buffer.
LEMMA TrailerPieceKeeps ==
  ASSUME IInv, TrailerPiece
  PROVE  IInv'
<1>1. UNCHANGED input /\ UNCHANGED where /\ header' = header /\ pc' = pc
      /\ pc \in {"nameTrailer", "trailer"} /\ rest # <<>> /\ Len(out) < buflen
      /\ rest' = Tail(rest)
  BY InputFacts DEF TrailerPiece, InTrailer, Full, IInv, Buffer
<1>2. rest \in Seq(Symbols) /\ Len(out) \in Nat /\ buflen \in Nat /\ header \in BOOLEAN
  BY InputFacts DEF IInv, Buffer, TypeOK
<1>3. Head(rest) \in Symbols /\ rest' \in Seq(Symbols)
  BY <1>1, <1>2
<1>4. Grown(1) \/ Grown(2)
  <2>1. Write(IF Fits(2) THEN Expansion(Head(rest)) ELSE <<Expansion(Head(rest))[1]>>)
    BY DEF TrailerPiece
  <2>2. CASE \E y \in Symbols : Expansion(Head(rest)) = <<y>>
    <3>1. PICK y \in Symbols : Expansion(Head(rest)) = <<y>>
      BY <2>2
    <3>2. Write(<<y>>)
      BY <2>1, <3>1
    <3> QED BY <1>1, <3>2, WriteOne
  <2>3. CASE Expansion(Head(rest)) = <<"%", "x">>
    <3>1. "%" \in Symbols /\ "x" \in Symbols
      BY DEF Symbols
    <3>2. CASE Fits(2)
      BY <2>1, <2>3, <3>1, <3>2, WriteTwo DEF Fits
    <3>3. CASE ~Fits(2)
      BY <1>1, <2>1, <2>3, <3>1, <3>3, WriteOne
    <3> QED BY <3>2, <3>3
  <2> QED BY <1>3, <2>2, <2>3, ExpansionFits DEF IInv
<1>5. Place'
  BY <1>1, <1>2, StaysInPlace DEF Labels
<1> QED BY <1>1, <1>3, <1>4, <1>5, Assembled

\* Going back frees room that was written to.
LEMMA BackspaceKeeps ==
  ASSUME IInv, Backspace
  PROVE  IInv'
<1>1. UNCHANGED input /\ UNCHANGED where /\ header' = header /\ pc' = pc
      /\ pc \in {"nameTrailer", "trailer"} /\ rest # <<>> /\ rest' = Tail(rest)
      /\ touched' = touched
      /\ out' = IF out = <<>> THEN out ELSE SubSeq(out, 1, Len(out) - 1)
  BY DEF Backspace, InTrailer
<1>2. rest \in Seq(Symbols) /\ out \in Seq(Symbols) /\ buflen \in Nat /\ header \in BOOLEAN
      /\ touched \in Nat /\ Len(out) <= touched /\ touched <= buflen + 1
      /\ Len(out) <= buflen
  BY InputFacts DEF IInv, Buffer, TypeOK
<1>3. rest' \in Seq(Symbols)
  BY <1>1, <1>2
<1>4. out' \in Seq(Symbols) /\ Len(out') \in Nat /\ Len(out') <= Len(out)
  <2>1. CASE out = <<>>
    BY <1>1, <1>2, <2>1
  <2>2. CASE out # <<>>
    BY <1>1, <1>2, <2>2
  <2> QED BY <2>1, <2>2
<1>5. Place'
  BY <1>1, <1>2, StaysInPlace DEF Labels
<1>6. TypeOK'
  BY <1>1, <1>2, <1>4, <1>5 DEF TypeOK, IInv, Place, PlaceAt, input
<1>7. Buffer'
  BY <1>1, <1>2, <1>3, <1>4 DEF Buffer, input
<1> QED BY <1>1, <1>6, <1>7 DEF IInv, SubInside

\* Nothing is written where the format ends in a percent sign.
LEMMA TrailerOverrunKeeps ==
  ASSUME IInv, TrailerOverrun
  PROVE  IInv'
<1>1. Grown(0) /\ UNCHANGED input /\ rest' \in Seq(Symbols) /\ header' \in BOOLEAN
      /\ UNCHANGED where /\ pc' = "undefined"
  BY LeaveGrows DEF TrailerOverrun, IInv, TypeOK, Buffer
<1>2. Place'
  BY <1>1, StaysInPlace DEF Labels
<1> QED BY <1>1, <1>2, Assembled

\* The value in front of which the new header went.
LEMMA EndOfNewHeaderKeeps ==
  ASSUME IInv, EndOfNewHeader
  PROVE  IInv'
<1>1. c <= Len(segments) /\ d <= Len(elements) /\ i <= Len(values)
  BY DEF EndOfNewHeader, EndOfText, IInv, TypeOK
<1>2. Grown(0) /\ UNCHANGED input /\ rest' \in Seq(Symbols) /\ header' \in BOOLEAN
      /\ UNCHANGED where /\ pc = "nameTrailer"
  BY <1>1, NULGrows, ValueFacts DEF EndOfNewHeader, EndOfText, IInv, TypeOK
<1>3. pc' \in {"text", "end"}
  BY GotoLands DEF EndOfNewHeader
<1>4. Place'
  BY <1>2, <1>3, StaysInPlace DEF Labels
<1> QED BY <1>2, <1>3, <1>4, Assembled

\* From a segment to the next, or to the end.
LEMMA MovesToSegment ==
  ASSUME IInv, UNCHANGED <<input, d, i>>, c <= Len(segments), c' = c + 1,
         header' \in BOOLEAN, pc' \in {"segment", "end"}
  PROVE  Place'
<1>1. c \in Nat /\ Len(segments) \in Nat /\ segments' = segments /\ d \in Nat \ {0}
      /\ i \in Nat \ {0}
  BY InputFacts DEF IInv, TypeOK, input
<1>2. \A x, y : /\ PlaceAt("segment", TRUE, c + 1, d, i, Len(segments), x, y)
                /\ PlaceAt("end", TRUE, c + 1, d, i, Len(segments), x, y)
  BY <1>1 DEF PlaceAt, Labels
<1>3. Place' = PlaceAt(pc', header', c + 1, d, i, Len(segments), Len(elements'), Len(values'))
  BY <1>1 DEF Place
<1>4. PlaceAt(pc', TRUE, c + 1, d, i, Len(segments), Len(elements'), Len(values'))
  BY <1>2
<1> QED BY <1>3, <1>4 DEF PlaceAt

\* The segment behind the header.
LEMMA EndOfHeaderKeeps ==
  ASSUME IInv, EndOfHeader
  PROVE  IInv'
<1>1. Grown(0) /\ UNCHANGED input /\ rest' \in Seq(Symbols) /\ header' \in BOOLEAN
      /\ c <= Len(segments)
  BY NULGrows DEF EndOfHeader, EndOfText, IInv, TypeOK, Buffer
<1>2. pc' \in {"segment", "end"}
  BY GotoLands DEF EndOfHeader
<1>3. Place'
  BY <1>1, <1>2, MovesToSegment DEF EndOfHeader
<1> QED BY <1>1, <1>2, <1>3, Assembled

\* The value behind a separator is there.
LEMMA SubSeparatorKeeps ==
  ASSUME IInv, SubSeparator
  PROVE  IInv'
<1>1. Grown(1)
  BY InputFacts, WriteOne DEF SubSeparator, IInv, Buffer
<1>2. UNCHANGED <<input, c>> /\ rest' \in Seq(Symbols) /\ header' \in BOOLEAN /\ pc = "sub"
      /\ i' = i + 1 /\ d' = d
  BY DEF SubSeparator, IInv, TypeOK, Buffer
<1>3. pc' \in {"value", "end"}
  BY GotoLands DEF SubSeparator
<1>4. Len(values) \in Nat
  BY <1>2, ValueFacts DEF IInv, TypeOK
<1>5. \A l \in {"value", "end"} : \A n : n = Len(values) =>
        PlaceAt(l, TRUE, c, d, i + 1, Len(segments), Len(elements), n)
  BY <1>2, <1>4, PlaceHolds DEF Place, PlaceAt, Labels
<1>6. Place'
  BY <1>2, <1>3, <1>5, MovesInSegment
<1> QED BY <1>1, <1>2, <1>3, <1>6, Assembled

\* The element behind a separator, or the end of the segment.
LEMMA ElementSeparatorKeeps ==
  ASSUME IInv, ElementSeparator
  PROVE  IInv'
<1>1. UNCHANGED <<input, c>> /\ rest' \in Seq(Symbols) /\ header' \in BOOLEAN
      /\ pc = "separator" /\ d' = d + 1 /\ i' = i /\ Len(out) < buflen
  BY DEF ElementSeparator, NextElement, IInv, TypeOK, Buffer
<1>2. Grown(0) \/ Grown(1)
  <2>1. CASE d < Len(elements)
    <3>1. Separator \in Symbols
      BY InputFacts DEF Separator, IInv
    <3>2. Write(<<Separator>>)
      BY <2>1 DEF ElementSeparator
    <3> QED BY <1>1, <3>1, <3>2, WriteOne
  <2>2. CASE ~(d < Len(elements))
    BY <2>2, LeaveGrows DEF ElementSeparator
  <2> QED BY <2>1, <2>2
<1>3. pc' \in {"element", "end"}
  BY GotoLands DEF ElementSeparator
<1>4. Len(elements) \in Nat /\ d \in Nat /\ Len(segments) \in Nat
  BY <1>1, ElementFacts, InputFacts DEF IInv, TypeOK
<1>5. d + 1 # d
  BY <1>4
<1>6. /\ \A n : PlaceAt("element", TRUE, c, d + 1, i, Len(segments), Len(elements), n)
      /\ \A n : PlaceAt("end", TRUE, c, d + 1, i, Len(segments), Len(elements), n)
  BY <1>1, <1>4, PlaceHolds DEF Place, PlaceAt, Labels
<1>7. Place'
  BY <1>1, <1>3, <1>6, MovesInSegment
<1> QED BY <1>1, <1>2, <1>3, <1>7, Assembled

\* The end of a segment.
LEMMA EndElementsKeeps ==
  ASSUME IInv, EndElements
  PROVE  IInv'
<1>1. Grown(0) /\ UNCHANGED <<input, c>> /\ rest' \in Seq(Symbols) /\ header' \in BOOLEAN
      /\ pc = "element" /\ d' = d /\ i' = i /\ buflen \in Nat
  BY LeaveGrows, InputFacts DEF EndElements, where, IInv, TypeOK, Buffer
<1>2. (pc' = "terminator" /\ ~(Len(out') >= buflen)) \/ pc' = "end"
  BY GotoLands DEF EndElements
<1>3. /\ \A n : PlaceAt("terminator", TRUE, c, d, i, Len(segments), Len(elements), n)
      /\ \A n : PlaceAt("end", TRUE, c, d, i, Len(segments), Len(elements), n)
  BY <1>1, PlaceHolds DEF Place, PlaceAt, Labels
<1>4. Place'
  BY <1>1, <1>2, <1>3, MovesInSegment
<1>5. pc' = "terminator" => Len(out') < buflen
  BY <1>1, <1>2 DEF Grown
<1> QED BY <1>1, <1>2, <1>4, <1>5, Assembled

\* The segment behind a terminator.
LEMMA TerminatorKeeps ==
  ASSUME IInv, Terminator
  PROVE  IInv'
<1>1. Grown(1)
  BY InputFacts, WriteOne DEF Terminator, IInv, Buffer
<1>2. UNCHANGED input /\ rest' \in Seq(Symbols) /\ header' \in BOOLEAN /\ c <= Len(segments)
  BY DEF Terminator, IInv, TypeOK, Buffer
<1>3. pc' \in {"segment", "end"}
  BY GotoLands DEF Terminator
<1>4. Place'
  BY <1>2, <1>3, MovesToSegment DEF Terminator
<1> QED BY <1>1, <1>2, <1>3, <1>4, Assembled

\* The trailer in place of a terminator.
LEMMA HeaderTerminatorKeeps ==
  ASSUME IInv, HeaderTerminator
  PROVE  IInv'
<1>1. Grown(0) /\ UNCHANGED input /\ rest' \in Seq(Symbols) /\ header' \in BOOLEAN
      /\ UNCHANGED where /\ pc = "terminator" /\ pc' = "trailer"
  BY LeaveGrows, InputFacts DEF HeaderTerminator, IInv, TypeOK
<1>2. Place'
  BY <1>1, StaysInPlace DEF Labels
<1> QED BY <1>1, <1>2, Assembled

\* The end of the tree.
LEMMA EndSegmentsKeeps ==
  ASSUME IInv, EndSegments
  PROVE  IInv'
<1>1. Grown(0) /\ UNCHANGED input /\ rest' \in Seq(Symbols) /\ header' \in BOOLEAN
      /\ UNCHANGED where /\ pc' = "end"
  BY LeaveGrows DEF EndSegments, IInv, TypeOK, Buffer
<1>2. Place'
  BY <1>1, StaysInPlace DEF Labels
<1> QED BY <1>1, <1>2, Assembled

\* The result.
LEMMA FinishKeeps ==
  ASSUME IInv, Finish
  PROVE  IInv'
<1>1. Grown(0) /\ UNCHANGED input /\ rest' \in Seq(Symbols) /\ header' \in BOOLEAN
      /\ UNCHANGED where /\ pc' = "returned"
  BY NULGrows DEF Finish, IInv, TypeOK, Buffer
<1>2. Place'
  BY <1>1, StaysInPlace DEF Labels
<1> QED BY <1>1, <1>2, Assembled

-----------------------------------------------------------------------------
\* A build starts within its bounds: nothing written, and no cursor set.
THEOREM Initially == Init => IInv
<1> SUFFICES ASSUME Init PROVE IInv
  OBVIOUS
<1>1. segments \in Trees /\ params \in OutParams /\ buflen \in BufLens /\ buflen \in Nat
  BY EdiBuildAssumption DEF Init, InitBuild
<1>2. Len(segments) \in Nat
  <2>1. IsSeq(segments)
    BY <1>1, EdiBuildAssumption
  <2> QED BY <2>1, SeqShape
<1>3. TypeOK
  <2>1. c = 1 /\ d = 1 /\ i = 1 /\ pc = "segment" /\ header = FALSE /\ touched = 0
        /\ Len(out) = 0
    BY DEF Init, InitBuild
  <2>2. c \in 1..Len(segments) + 1 /\ d \in Nat \ {0} /\ i \in Nat \ {0}
    BY <1>2, <2>1
  <2>3. touched \in Nat /\ Len(out) <= touched
    BY <2>1
  <2>4. pc \in Labels /\ header \in BOOLEAN
        /\ pc \in {"segment", "end", "returned", "undefined"}
    BY <2>1 DEF Labels
  <2> QED BY <1>1, <2>2, <2>3, <2>4 DEF TypeOK
<1>4. Buffer
  BY <1>1 DEF Buffer, Init, InitBuild
<1>5. SubInside
  BY DEF SubInside, Init, InitBuild
<1> QED BY <1>3, <1>4, <1>5 DEF IInv

\* Every step of the writer keeps it there, by the lemma for its action.
THEOREM Inductive == IInv /\ [Next]_vars => IInv'
<1> SUFFICES ASSUME IInv, [Next]_vars PROVE IInv'
  OBVIOUS
<1>1. CASE Next
  BY <1>1, BeginSegmentKeeps, BeginElementKeeps, BeginValueKeeps, BeginHeaderKeeps,
     WriteCharacterKeeps, EndOfNameKeeps, EndOfValueKeeps, TrailerPieceKeeps,
     BackspaceKeeps, TrailerOverrunKeeps, EndOfNewHeaderKeeps, EndOfHeaderKeeps,
     SubSeparatorKeeps, ElementSeparatorKeeps, EndElementsKeeps, TerminatorKeeps,
     HeaderTerminatorKeeps, EndSegmentsKeeps, FinishKeeps
  DEF Next
<1>2. CASE UNCHANGED vars
  BY <1>2 DEF vars, input, where, IInv, TypeOK, Buffer, SubInside, elements, values
<1> QED BY <1>1, <1>2

\* So the writer is within its bounds throughout.
THEOREM AlwaysIInv == Spec => []IInv
BY Initially, Inductive, PTL DEF Spec

\* edi_interchange_build looks at no segment, element or value that is not there.
THEOREM TypeCorrect == Spec => []TypeOK
<1>1. IInv => TypeOK
  BY DEF IInv
<1> QED BY <1>1, AlwaysIInv, PTL

\* edi_interchange_build writes inside the buffer, but for the NUL behind the
\* text of a full one.
THEOREM WriterStaysInside == Spec => []StaysInside
<1>1. IInv => StaysInside
  BY DEF IInv, Buffer, StaysInside
<1> QED BY <1>1, AlwaysIInv, PTL

-----------------------------------------------------------------------------
(* Recursion over a sequence, and the concatenation of sequences of        *)
(* anything.  The induction is stated of a set, because the provers cannot *)
(* instantiate the library's, which is stated of an operator; it rests on  *)
(* the library's well-founded induction.                                   *)

\* Induction over the naturals, for a set of them.
LEMMA SetInduction ==
  ASSUME NEW T, 0 \in T, \A n \in Nat : n \in T => n + 1 \in T
  PROVE  \A n \in Nat : n \in T
<1> DEFINE U == Nat \ T
<1> SUFFICES ASSUME U # {} PROVE FALSE
  OBVIOUS
<1>1. PICK x \in U : \A y \in U : ~(<<y, x>> \in OpToRel(<, Nat))
  <2>1. U \subseteq Nat
    OBVIOUS
  <2> QED BY <2>1, NatLessThanWellFounded, WFMin, Zenon
<1>2. \A y \in U : ~(y < x)
  BY <1>1, Zenon DEF OpToRel
<1>3. x # 0 /\ x - 1 \in Nat /\ x - 1 \notin U
  BY <1>2
<1> QED BY <1>3

\* f is b at 0, and at n what F makes of n and of f at n - 1.
Unfolds(f, N, b, F) ==
  /\ f[0] = b
  /\ \A n \in 1..N : f[n] = F[<<n, f[n - 1]>>]

\* A function that is defined by recursion exists.
LEMMA Recursion ==
  ASSUME NEW S, NEW b \in S, NEW N \in Nat, NEW F \in [Nat \X S -> S]
  PROVE  \E f \in [0..N -> S] : Unfolds(f, N, b, F)
<1> DEFINE T == {n \in Nat : \E f \in [0..n -> S] : Unfolds(f, n, b, F)}
<1>1. 0 \in T
  <2>1. [n \in 0..0 |-> b] \in [0..0 -> S] /\ Unfolds([n \in 0..0 |-> b], 0, b, F)
    BY DEF Unfolds
  <2> QED BY <2>1
<1>2. ASSUME NEW n \in Nat, n \in T PROVE n + 1 \in T
  <2>1. PICK f \in [0..n -> S] : Unfolds(f, n, b, F)
    BY <1>2
  <2> DEFINE g == [q \in 0..(n + 1) |-> IF q <= n THEN f[q] ELSE F[<<n + 1, f[n]>>]]
  <2>2. g \in [0..(n + 1) -> S]
    <3>1. F[<<n + 1, f[n]>>] \in S
      OBVIOUS
    <3> QED BY <3>1
  <2>3. Unfolds(g, n + 1, b, F)
    <3>1. g[0] = b
      BY <2>1 DEF Unfolds
    <3>2. ASSUME NEW q \in 1..(n + 1) PROVE g[q] = F[<<q, g[q - 1]>>]
      <4>1. CASE q <= n
        <5>1. f[q] = F[<<q, f[q - 1]>>]
          BY <2>1, <4>1 DEF Unfolds
        <5>2. q - 1 \in 0..(n + 1) /\ q - 1 <= n /\ q \in 0..(n + 1)
          BY <4>1
        <5>3. g[q] = f[q] /\ g[q - 1] = f[q - 1]
          BY <5>2, <4>1
        <5> QED BY <5>1, <5>3
      <4>2. CASE q = n + 1
        <5>1. g[n] = f[n] /\ g[n + 1] = F[<<n + 1, f[n]>>]
          OBVIOUS
        <5>2. q - 1 = n
          BY <4>2
        <5> QED BY <4>2, <5>1, <5>2
      <4> QED BY <4>1, <4>2
    <3> QED BY <3>1, <3>2 DEF Unfolds
  <2>4. \E h \in [0..(n + 1) -> S] : Unfolds(h, n + 1, b, F)
    BY <2>2, <2>3
  <2> QED BY <2>4
<1>3. \A n \in Nat : n \in T
  <2> HIDE DEF T
  <2> QED BY <1>1, <1>2, SetInduction
<1> QED BY <1>3


-----------------------------------------------------------------------------
(* Texts put together from pieces *)

\* Concatenation is associative.
LEMMA Associative ==
  ASSUME NEW S
  PROVE  \A s, t, u \in Seq(S) : (s \o t) \o u = s \o (t \o u)
BY ConcatAssociative

\* f says what the pieces make, from the first to the k-th.
Gathers(f, ps, S) ==
  /\ f \in [0..Len(ps) -> Seq(S)]
  /\ f[0] = <<>>
  /\ \A k \in 1..Len(ps) : f[k] = f[k - 1] \o ps[k]

\* There is such an f.
LEMMA Gathering ==
  ASSUME NEW S, NEW ps \in Seq(Seq(S))
  PROVE  \E f : Gathers(f, ps, S)
<1> DEFINE N == Len(ps)
           T == Seq(S)
           F == [p \in Nat \X T |-> IF p[1] \in 1..N THEN p[2] \o ps[p[1]] ELSE p[2]]
<1>1. N \in Nat /\ <<>> \in T
  OBVIOUS
<1>2. \A n \in Nat, s \in T : n \in 1..N => s \o ps[n] \in T
  BY ElementOfSequence
<1>3. F \in [Nat \X T -> T]
  <2>1. ASSUME NEW p \in Nat \X T
        PROVE  (IF p[1] \in 1..N THEN p[2] \o ps[p[1]] ELSE p[2]) \in T
    <3>1. p[1] \in Nat /\ p[2] \in T
      OBVIOUS
    <3> HIDE DEF T, N
    <3> QED BY <3>1, <1>2
  <2> QED BY <2>1
<1>4. ASSUME NEW n \in 1..N, NEW s \in T PROVE F[<<n, s>>] = s \o ps[n]
  <2>1. n \in Nat
    BY <1>1
  <2> HIDE DEF T, N
  <2>2. <<n, s>> \in Nat \X T /\ <<n, s>>[1] = n /\ <<n, s>>[2] = s
    BY <2>1
  <2> QED BY <2>2
<1>5. PICK f \in [0..N -> T] : Unfolds(f, N, <<>>, F)
  <2> HIDE DEF T, N, F
  <2> QED BY <1>1, <1>3, Recursion
<1>6. f[0] = <<>> /\ \A k \in 1..N : f[k] = F[<<k, f[k - 1]>>]
  BY <1>5 DEF Unfolds
<1>7. ASSUME NEW k \in 1..N PROVE f[k - 1] \in T
  <2>1. k - 1 \in 0..N
    BY <1>1
  <2> QED BY <2>1, <1>5
<1>8. \A k \in 1..N : f[k] = f[k - 1] \o ps[k]
  <2> HIDE DEF T, N, F
  <2> QED BY <1>4, <1>6, <1>7
<1> QED BY <1>5, <1>6, <1>8 DEF Gathers

\* All the pieces together are the last it makes.
LEMMA Flattened ==
  ASSUME NEW S, NEW ps \in Seq(Seq(S)), NEW f, Gathers(f, ps, S)
  PROVE  FlattenSeq(ps) = f[Len(ps)]
<1> DEFINE N == Len(ps)
           Body(g) == [k \in 1..N |-> IF k = 1 THEN ps[k] ELSE g[k - 1] \o ps[k]]
           h == [k \in 1..N |-> f[k]]
           all == CHOOSE g : g = Body(g)
<1>1. N \in Nat /\ f \in [0..N -> Seq(S)] /\ f[0] = <<>>
      /\ \A k \in 1..N : f[k] = f[k - 1] \o ps[k]
  <2>1. Len(ps) \in Nat
    OBVIOUS
  <2> QED BY <2>1 DEF Gathers
<1>2. CASE N = 0
  BY <1>1, <1>2 DEF FlattenSeq
<1>3. CASE N # 0
  <2>1. FlattenSeq(ps) = all[N]
    BY <1>3 DEF FlattenSeq
  <2>2. f[1] = ps[1]
    <3>1. 1 \in 1..N /\ 1 - 1 = 0
      BY <1>1, <1>3
    <3>2. f[1] = <<>> \o ps[1]
      BY <1>1, <3>1
    <3>3. ps[1] \in Seq(S)
      BY <3>1, ElementOfSequence
    <3> QED BY <3>2, <3>3
  <2>3. h = Body(h)
    <3>1. ASSUME NEW k \in 1..N PROVE f[k] = IF k = 1 THEN ps[k] ELSE h[k - 1] \o ps[k]
      <4>1. CASE k = 1
        BY <4>1, <2>2
      <4>2. CASE k # 1
        <5>1. k - 1 \in 1..N
          BY <4>2, <1>1
        <5>2. h[k - 1] = f[k - 1]
          BY <5>1
        <5> QED BY <4>2, <5>2, <1>1
      <4> QED BY <4>1, <4>2
    <3> QED BY <3>1
  <2>4. all = Body(all)
    <3> HIDE DEF Body, h
    <3> QED BY <2>3
  <2>5. \A k \in 1..N : all[k] = IF k = 1 THEN ps[k] ELSE all[k - 1] \o ps[k]
    BY <2>4
  <2> DEFINE T == {k \in Nat : k + 1 \in 1..N => all[k + 1] = f[k + 1]}
  <2> HIDE DEF all
  <2>6. 0 \in T
    BY <2>2, <2>5
  <2>7. ASSUME NEW k \in Nat, k \in T PROVE k + 1 \in T
    <3> SUFFICES ASSUME (k + 1) + 1 \in 1..N PROVE all[(k + 1) + 1] = f[(k + 1) + 1]
      OBVIOUS
    <3>1. k + 1 \in 1..N /\ (k + 1) + 1 # 1 /\ ((k + 1) + 1) - 1 = k + 1
      BY <1>1
    <3>2. all[k + 1] = f[k + 1]
      BY <2>7, <3>1
    <3>3. (k + 1) + 1 \in 1..N
      OBVIOUS
    <3>4. all[(k + 1) + 1] = all[k + 1] \o ps[(k + 1) + 1]
      BY <3>1, <3>3, <2>5
    <3>5. f[(k + 1) + 1] = f[k + 1] \o ps[(k + 1) + 1]
      BY <3>1, <3>3, <1>1
    <3> QED BY <3>2, <3>4, <3>5
  <2>8. N - 1 \in T
    <3>1. \A k \in Nat : k \in T
      <4> HIDE DEF T
      <4> QED BY <2>6, <2>7, SetInduction
    <3>2. N - 1 \in Nat
      BY <1>1, <1>3
    <3> QED BY <3>1, <3>2
  <2>9. (N - 1) + 1 = N /\ N \in 1..N
    BY <1>1, <1>3
  <2> QED BY <2>1, <2>8, <2>9
<1> QED BY <1>2, <1>3

\* The first piece, and what the others make.
LEMMA FlattenFirst ==
  ASSUME NEW S, NEW ps \in Seq(Seq(S)), ps # <<>>
  PROVE  FlattenSeq(ps) = ps[1] \o FlattenSeq(Tail(ps))
<1>0. \A s, t, u \in Seq(S) : (s \o t) \o u = s \o (t \o u)
  BY Associative, SMTT(40)
<1> DEFINE qs == Tail(ps)
           N == Len(qs)
<1>1. /\ qs \in Seq(Seq(S)) /\ N \in Nat /\ Len(ps) = N + 1
      /\ \A k \in 1..N : qs[k] = ps[k + 1]
      /\ ps[1] \in Seq(S)
  <2>1. qs \in Seq(Seq(S)) /\ N = Len(ps) - 1 /\ \A k \in 1..N : qs[k] = ps[k + 1]
    BY HeadTailProperties
  <2>2. Len(ps) \in Nat /\ Len(ps) # 0
    OBVIOUS
  <2>3. 1 \in 1..Len(ps)
    BY <2>2
  <2> QED BY <2>1, <2>2, <2>3, ElementOfSequence
<1> HIDE DEF qs
<1>2. PICK f : Gathers(f, ps, S)
  BY Gathering
<1>3. PICK g : Gathers(g, qs, S)
  BY <1>1, Gathering
<1>4. /\ \A k \in 1..(N + 1) : f[k] = f[k - 1] \o ps[k]
      /\ f[0] = <<>> /\ g[0] = <<>>
      /\ \A k \in 1..N : g[k] = g[k - 1] \o qs[k]
      /\ \A k \in 0..N : g[k] \in Seq(S)
  BY <1>1, <1>2, <1>3 DEF Gathers
<1> DEFINE T == {k \in Nat : k \in 0..N => f[k + 1] = ps[1] \o g[k]}
<1>5. 0 \in T
  <2>1. 0 + 1 \in 1..(N + 1) /\ (0 + 1) - 1 = 0 /\ 0 + 1 = 1
    BY <1>1
  <2>2. f[0 + 1] = <<>> \o ps[1]
    BY <2>1, <1>4
  <2>3. <<>> \o ps[1] = ps[1] /\ ps[1] \o <<>> = ps[1]
    BY <1>1
  <2> QED BY <2>2, <2>3, <1>4
<1>6. ASSUME NEW k \in Nat, k \in T PROVE k + 1 \in T
  <2> SUFFICES ASSUME k + 1 \in 0..N PROVE f[(k + 1) + 1] = ps[1] \o g[k + 1]
    <3>1. k + 1 \in Nat
      OBVIOUS
    <3> QED BY <3>1, Zenon
  <2>1. k + 1 \in 1..N /\ (k + 1) + 1 \in 1..(N + 1) /\ k \in 0..N
        /\ ((k + 1) + 1) - 1 = k + 1 /\ (k + 1) - 1 = k
    BY <1>1
  <2>2. f[k + 1] = ps[1] \o g[k]
    BY <1>6, <2>1
  <2>3. f[(k + 1) + 1] = f[k + 1] \o ps[(k + 1) + 1]
    BY <1>4, <2>1
  <2>4. g[k + 1] = g[k] \o qs[k + 1] /\ qs[k + 1] = ps[(k + 1) + 1]
    BY <1>4, <1>1, <2>1
  <2>5. g[k] \in Seq(S) /\ qs[k + 1] \in Seq(S)
    BY <1>4, <1>1, <2>1, ElementOfSequence
  <2>6. (ps[1] \o g[k]) \o qs[k + 1] = ps[1] \o (g[k] \o qs[k + 1])
    <3>1. ps[1] \in Seq(S)
      BY <1>1
    <3>3. g[k] \in Seq(S) /\ qs[k + 1] \in Seq(S)
      BY <2>5
    <3> HIDE DEF T, N
    <3> QED BY <3>1, <1>0, <3>3, Zenon
  <2> QED BY <2>2, <2>3, <2>4, <2>6
<1>7. N \in T
  <2>1. \A k \in Nat : k \in T
    <3> HIDE DEF T, N
    <3> QED BY <1>5, <1>6, SetInduction
  <2> QED BY <2>1, <1>1
<1>8. f[N + 1] = ps[1] \o g[N]
  <2>1. N \in 0..N
    BY <1>1
  <2> QED BY <1>7, <2>1
<1>9. FlattenSeq(ps) = f[N + 1] /\ FlattenSeq(qs) = g[N]
  BY <1>1, <1>2, <1>3, Flattened
<1> QED BY <1>8, <1>9 DEF qs

\* Pieces over a set make a text over it.
LEMMA FlattenType ==
  ASSUME NEW S, NEW ps \in Seq(Seq(S))
  PROVE  FlattenSeq(ps) \in Seq(S)
<1>1. PICK f : Gathers(f, ps, S)
  BY Gathering
<1>2. f[Len(ps)] \in Seq(S)
  BY <1>1 DEF Gathers
<1> QED BY <1>1, <1>2, Flattened

\* The pieces from the k-th on.
From(ps, k) == FlattenSeq(SubSeq(ps, k, Len(ps)))

\* What is left of a text is its next piece and what is left behind it.
LEMMA FromFacts ==
  ASSUME NEW S, NEW ps \in Seq(Seq(S))
  PROVE  /\ \A k \in 1..(Len(ps) + 1) : From(ps, k) \in Seq(S)
         /\ From(ps, 1) = FlattenSeq(ps)
         /\ From(ps, Len(ps) + 1) = <<>>
         /\ \A k \in 1..Len(ps) : ps[k] \in Seq(S) /\ From(ps, k) = ps[k] \o From(ps, k + 1)
<1>1. Len(ps) \in Nat
  OBVIOUS
<1>2. ASSUME NEW k \in 1..(Len(ps) + 1) PROVE SubSeq(ps, k, Len(ps)) \in Seq(Seq(S))
  BY <1>1, ElementOfSequence, SubSeqProperties
<1>3. \A k \in 1..(Len(ps) + 1) : From(ps, k) \in Seq(S)
  BY <1>2, FlattenType DEF From
<1>4. From(ps, 1) = FlattenSeq(ps)
  BY SubSeqFull DEF From
<1>5. From(ps, Len(ps) + 1) = <<>>
  <2>1. SubSeq(ps, Len(ps) + 1, Len(ps)) = <<>>
    BY <1>1, SubSeqEmpty
  <2>2. FlattenSeq(<<>>) = <<>>
    BY DEF FlattenSeq
  <2> QED BY <2>1, <2>2 DEF From
<1>6. ASSUME NEW k \in 1..Len(ps)
      PROVE  ps[k] \in Seq(S) /\ From(ps, k) = ps[k] \o From(ps, k + 1)
  <2>1. Len(ps) \in k..Len(ps) /\ k \in 1..(Len(ps) + 1)
    BY <1>1
  <2> DEFINE qs == SubSeq(ps, k, Len(ps))
  <2>2. qs \in Seq(Seq(S))
    BY <1>2, <2>1
  <2>3. Head(qs) = ps[k] /\ Tail(qs) = SubSeq(ps, k + 1, Len(ps))
    BY <2>1, HeadTailOfSubSeq
  <2>4. Len(qs) = (Len(ps) - k) + 1
    BY <2>1, <1>1, ElementOfSequence, SubSeqProperties
  <2>5. qs # <<>>
    <3>1. Len(qs) # 0
      BY <2>4, <1>1
    <3> HIDE DEF qs
    <3> QED BY <3>1
  <2> HIDE DEF qs
  <2>6. FlattenSeq(qs) = qs[1] \o FlattenSeq(Tail(qs))
    BY <2>2, <2>5, FlattenFirst
  <2>7. Head(qs) = qs[1]
    OBVIOUS
  <2>8. From(ps, k) = FlattenSeq(qs)
    BY DEF From, qs
  <2> QED BY <2>3, <2>6, <2>7, <2>8, ElementOfSequence DEF From
<1> QED BY <1>3, <1>4, <1>5, <1>6

-----------------------------------------------------------------------------
(* Texts over the symbols, and the texts of the tree *)

Strings == Seq(Symbols)

\* How strings are put together.
LEMMA StringAlgebra ==
  /\ <<>> \in Strings
  /\ \A s, t \in Strings : s \o t \in Strings
  /\ \A s \in Strings : s \o <<>> = s /\ <<>> \o s = s
  /\ \A s, t, u \in Strings : (s \o t) \o u = s \o (t \o u)
  /\ \A s \in Strings, x \in Symbols : Append(s, x) = s \o <<x>>
  /\ \A x, y \in Symbols : /\ <<x>> \in Strings /\ <<x, y>> \in Strings
                           /\ <<x>> \o <<y>> = <<x, y>>
<1>1. \A s, t, u \in Strings : (s \o t) \o u = s \o (t \o u)
  BY Associative DEF Strings
<1>2. \A s \in Strings, x \in Symbols : Append(s, x) = s \o <<x>>
  BY AppendIsConcat DEF Strings
<1>3. \A s \in Strings : s \o <<>> = s /\ <<>> \o s = s
  BY ConcatEmptySeq DEF Strings
<1>4. \A s, t \in Strings : s \o t \in Strings
  BY DEF Strings
<1>5. ASSUME NEW x \in Symbols, NEW y \in Symbols PROVE <<x>> \o <<y>> = <<x, y>>
  <2>1. /\ <<x>> \in Seq(Symbols) /\ <<y>> \in Seq(Symbols) /\ <<x, y>> \in Seq(Symbols)
        /\ Len(<<x>>) = 1 /\ Len(<<y>>) = 1 /\ Len(<<x, y>>) = 2
        /\ <<x>>[1] = x /\ <<y>>[1] = y /\ <<x, y>>[1] = x /\ <<x, y>>[2] = y
    OBVIOUS
  <2> DEFINE s == <<x>>
             t == <<y>>
             u == <<x, y>>
  <2> HIDE DEF s, t, u
  <2>2. /\ s \in Seq(Symbols) /\ t \in Seq(Symbols) /\ u \in Seq(Symbols)
        /\ Len(s) = 1 /\ Len(t) = 1 /\ Len(u) = 2
        /\ s[1] = x /\ t[1] = y /\ u[1] = x /\ u[2] = y
    BY <2>1 DEF s, t, u
  <2>3. s \o t = u
    <3>1. /\ s \o t \in Seq(Symbols) /\ Len(s \o t) = 2
          /\ (s \o t)[1] = x /\ (s \o t)[2] = y
      BY <2>2, ConcatProperties
    <3>2. \A k \in 1..2 : k = 1 \/ k = 2
      OBVIOUS
    <3> QED BY <2>2, <3>1, <3>2, SeqEqual
  <2> QED BY <2>3 DEF s, t, u
<1> QED BY <1>1, <1>2, <1>3, <1>4, <1>5 DEF Strings

\* A character of a value, as it is written.
CharacterText(x) == IF MustEscape(x) THEN <<params.escape, x>> ELSE <<x>>

\* An escaped text, character by character.
LEMMA EscapedFacts ==
  ASSUME TypeOK, NEW s \in Strings
  PROVE  /\ Escaped(s) \in Strings
         /\ s = <<>> => Escaped(s) = <<>>
         /\ s # <<>> => /\ CharacterText(Head(s)) \in Strings
                        /\ Escaped(Tail(s)) \in Strings
                        /\ Escaped(s) = CharacterText(Head(s)) \o Escaped(Tail(s))
<1>1. ASSUME NEW x \in Symbols PROVE CharacterText(x) \in Strings
  BY InputFacts, StringAlgebra DEF CharacterText
<1>2. ASSUME NEW t \in Strings
      PROVE  /\ EscapedPieces(t) \in Seq(Strings)
             /\ Len(EscapedPieces(t)) = Len(t)
             /\ \A k \in 1..Len(t) : EscapedPieces(t)[k] = CharacterText(t[k])
  <2>1. DOMAIN t = 1..Len(t) /\ Len(t) \in Nat /\ \A k \in 1..Len(t) : t[k] \in Symbols
    BY DEF Strings
  <2>2. EscapedPieces(t) = [k \in 1..Len(t) |-> CharacterText(t[k])]
    BY <2>1 DEF EscapedPieces, CharacterText
  <2>3. \A k \in 1..Len(t) : CharacterText(t[k]) \in Strings
    BY <1>1, <2>1
  <2>4. [k \in 1..Len(t) |-> CharacterText(t[k])] \in Seq(Strings)
    BY <2>1, <2>3
  <2> QED BY <2>1, <2>2, <2>4
<1>3. ASSUME NEW t \in Strings PROVE Escaped(t) \in Strings
  BY <1>2, FlattenType DEF Escaped, Strings
<1>4. ASSUME s = <<>> PROVE Escaped(s) = <<>>
  BY <1>4, <1>2 DEF Escaped, EscapedPieces, FlattenSeq
<1>5. ASSUME s # <<>>
      PROVE  /\ Head(s) \in Symbols /\ Tail(s) \in Strings
             /\ Escaped(s) = CharacterText(Head(s)) \o Escaped(Tail(s))
  <2>1. /\ Head(s) \in Symbols /\ Tail(s) \in Strings /\ Len(Tail(s)) = Len(s) - 1
        /\ \A k \in 1..Len(Tail(s)) : Tail(s)[k] = s[k + 1]
        /\ Head(s) = s[1] /\ Len(s) \in Nat \ {0}
    BY <1>5, HeadTailProperties DEF Strings
  <2> DEFINE ps == EscapedPieces(s)
             qs == EscapedPieces(Tail(s))
  <2>2. /\ ps \in Seq(Strings) /\ Len(ps) = Len(s)
        /\ \A k \in 1..Len(s) : ps[k] = CharacterText(s[k])
    BY <1>2
  <2>3. /\ qs \in Seq(Strings) /\ Len(qs) = Len(s) - 1
        /\ \A k \in 1..Len(s) - 1 : qs[k] = CharacterText(s[k + 1])
    BY <1>2, <2>1
  <2>4. Escaped(s) = FlattenSeq(ps) /\ Escaped(Tail(s)) = FlattenSeq(qs)
    BY DEF Escaped
  <2> HIDE DEF ps, qs
  <2>5. ps # <<>>
    BY <2>1, <2>2
  <2>6. /\ Tail(ps) \in Seq(Strings) /\ Len(Tail(ps)) = Len(ps) - 1
        /\ \A k \in 1..Len(Tail(ps)) : Tail(ps)[k] = ps[k + 1]
    BY <2>2, <2>5, HeadTailProperties
  <2>7. ASSUME NEW k \in 1..Len(s) - 1 PROVE Tail(ps)[k] = qs[k]
    <3>1. k \in 1..Len(Tail(ps)) /\ k + 1 \in 1..Len(s)
      BY <2>1, <2>2, <2>6
    <3> QED BY <3>1, <2>2, <2>3, <2>6
  <2>8. Tail(ps) = qs
    <3>1. Len(Tail(ps)) = Len(qs) /\ Len(qs) = Len(s) - 1
      BY <2>2, <2>3, <2>6
    <3> QED BY <3>1, <2>3, <2>6, <2>7, SeqEqual
  <2>9. FlattenSeq(ps) = ps[1] \o FlattenSeq(Tail(ps))
    BY <2>2, <2>5, FlattenFirst DEF Strings
  <2>10. ps[1] = CharacterText(Head(s))
    BY <2>1, <2>2
  <2> QED BY <2>1, <2>4, <2>8, <2>9, <2>10
<1> QED BY <1>1, <1>3, <1>4, <1>5

\* Pieces with a separator in front of all but the first.
LedPieces(n, sep, text) == [k \in 1..n |-> Led(k, sep[k], text[k])]

\* They are made of symbols.
Symbolic(n, sep, text) == \A k \in 1..n : sep[k] \in Symbols /\ text[k] \in Strings

\* What such pieces are.
AreLed(ps, n, sep, text) ==
  /\ ps \in Seq(Strings) /\ Len(ps) = n
  /\ n > 0 => ps[1] = text[1]
  /\ \A k \in 1..n : k > 1 => ps[k] = <<sep[k]>> \o text[k]

\* Pieces that are put together so are that.
LEMMA LedFacts ==
  ASSUME NEW n \in Nat, NEW sep, NEW text, Symbolic(n, sep, text)
  PROVE  AreLed(LedPieces(n, sep, text), n, sep, text)
<1> DEFINE ps == [k \in 1..n |-> Led(k, sep[k], text[k])]
<1>1. ASSUME NEW k \in 1..n PROVE Led(k, sep[k], text[k]) \in Strings
  <2>1. sep[k] \in Symbols /\ text[k] \in Strings
    BY DEF Symbolic
  <2>2. <<sep[k]>> \o text[k] \in Strings
    BY <2>1, StringAlgebra
  <2> QED BY <2>1, <2>2 DEF Led
<1>2. ps \in Seq(Strings) /\ Len(ps) = n
  <2>1. \A k \in 1..n : ps[k] \in Strings
    BY <1>1
  <2>2. ps \in [1..n -> Strings]
    BY <2>1
  <2> QED BY <2>2
<1>3. n > 0 => ps[1] = text[1]
  BY DEF Led
<1>4. \A k \in 1..n : k > 1 => ps[k] = <<sep[k]>> \o text[k]
  BY DEF Led
<1> QED BY <1>2, <1>3, <1>4 DEF LedPieces, AreLed

\* The texts of the values of an element.
LEMMA ValuePiecesFacts ==
  ASSUME TypeOK, NEW x, IsElement(x)
  PROVE  /\ Len(x.values) \in Nat /\ (x.values # <<>> => Len(x.values) > 0)
         /\ \A k \in 1..Len(x.values) : /\ x.values[k].text \in Strings
                                       /\ Escaped(x.values[k].text) \in Strings
         /\ ValuePieces(x) \in Seq(Strings) /\ Len(ValuePieces(x)) = Len(x.values)
         /\ Len(x.values) > 0 => ValuePieces(x)[1] = Escaped(x.values[1].text)
         /\ \A k \in 1..Len(x.values) : k > 1 =>
              ValuePieces(x)[k] = <<params.sub>> \o Escaped(x.values[k].text)
         /\ ElementText(x) \in Strings
<1> DEFINE xs == x.values
           n == Len(xs)
<1>1. IsSeq(xs) /\ \A k \in DOMAIN xs : xs[k].text \in Seq(Chars)
  BY DEF IsElement
<1>2. n \in Nat /\ DOMAIN xs = 1..n /\ (xs # <<>> => n > 0)
  BY <1>1, SeqShape
<1>3. ASSUME NEW k \in 1..n PROVE xs[k].text \in Strings
  <2>2. xs[k].text \in Seq(Chars)
    BY <1>1, <1>2
  <2> QED BY <2>2 DEF Strings, Symbols
<1>4. \A k \in 1..n : Escaped(xs[k].text) \in Strings
  BY <1>3, EscapedFacts
<1> DEFINE sep == [k \in 1..n |-> params.sub]
           text == [k \in 1..n |-> Escaped(xs[k].text)]
           ps == ValuePieces(x)
<1>5. ps = LedPieces(n, sep, text)
  BY <1>2 DEF ValuePieces, LedPieces
<1>6. Symbolic(n, sep, text)
  BY <1>4, InputFacts DEF Symbolic
<1>7. /\ ps \in Seq(Strings) /\ Len(ps) = n
      /\ n > 0 => ps[1] = text[1]
      /\ \A k \in 1..n : k > 1 => ps[k] = <<sep[k]>> \o text[k]
  <2> HIDE DEF sep, text, ps, n, xs
  <2>1. n \in Nat
    BY <1>2
  <2>2. AreLed(ps, n, sep, text)
    BY <2>1, <1>5, <1>6, LedFacts
  <2> QED BY <2>2 DEF AreLed
<1>8. n > 0 => ps[1] = Escaped(xs[1].text)
  BY <1>2, <1>7
<1>9. \A k \in 1..n : k > 1 => ps[k] = <<params.sub>> \o Escaped(xs[k].text)
  BY <1>7
<1>10. ElementText(x) \in Strings
  BY <1>7, FlattenType DEF ElementText, Strings
<1> QED BY <1>2, <1>3, <1>4, <1>7, <1>8, <1>9, <1>10

\* The texts of the elements of a segment.
LEMMA ElementPiecesFacts ==
  ASSUME TypeOK, NEW s, IsSegment(s)
  PROVE  /\ Len(s.elements) \in Nat /\ (s.elements # <<>> => Len(s.elements) > 0)
         /\ \A k \in 1..Len(s.elements) : /\ IsElement(s.elements[k])
                                         /\ ElementText(s.elements[k]) \in Strings
         /\ ElementPieces(s) \in Seq(Strings) /\ Len(ElementPieces(s)) = Len(s.elements)
         /\ Len(s.elements) > 0 => ElementPieces(s)[1] = ElementText(s.elements[1])
         /\ \A k \in 1..Len(s.elements) : k > 1 =>
              ElementPieces(s)[k] =
                <<IF k = 2 THEN params.tag ELSE params.data>> \o ElementText(s.elements[k])
         /\ ElementsText(s) \in Strings
<1> DEFINE xs == s.elements
           n == Len(xs)
<1>1. IsSeq(xs) /\ \A k \in DOMAIN xs : IsElement(xs[k])
  BY DEF IsSegment
<1>2. n \in Nat /\ DOMAIN xs = 1..n /\ (xs # <<>> => n > 0)
  BY <1>1, SeqShape
<1>3. \A k \in 1..n : IsElement(xs[k])
  BY <1>1, <1>2
<1>4. \A k \in 1..n : ElementText(xs[k]) \in Strings
  BY <1>3, ValuePiecesFacts
<1> DEFINE sep == [k \in 1..n |-> IF k = 2 THEN params.tag ELSE params.data]
           text == [k \in 1..n |-> ElementText(xs[k])]
           ps == ElementPieces(s)
<1>5. ps = LedPieces(n, sep, text)
  BY <1>2 DEF ElementPieces, LedPieces
<1>6. Symbolic(n, sep, text)
  BY <1>4, InputFacts DEF Symbolic
<1>7. /\ ps \in Seq(Strings) /\ Len(ps) = n
      /\ n > 0 => ps[1] = text[1]
      /\ \A k \in 1..n : k > 1 => ps[k] = <<sep[k]>> \o text[k]
  <2> HIDE DEF sep, text, ps, n, xs
  <2>1. n \in Nat
    BY <1>2
  <2>2. AreLed(ps, n, sep, text)
    BY <2>1, <1>5, <1>6, LedFacts
  <2> QED BY <2>2 DEF AreLed
<1>8. n > 0 => ps[1] = ElementText(xs[1])
  BY <1>2, <1>7
<1>9. \A k \in 1..n : k > 1 =>
        ps[k] = <<IF k = 2 THEN params.tag ELSE params.data>> \o ElementText(xs[k])
  BY <1>7
<1>10. ElementsText(s) \in Strings
  BY <1>7, FlattenType DEF ElementsText, Strings
<1> QED BY <1>2, <1>3, <1>4, <1>7, <1>8, <1>9, <1>10

\* What one piece of a trailer makes of the text in front of it.
AfterPiece(t, x) ==
  IF x # "%_" THEN t \o Expansion(x) ELSE IF t = <<>> THEN <<>> ELSE Front(t)

\* It is a text again.
LEMMA AfterPieceType ==
  ASSUME TypeOK, NEW t \in Strings, NEW x \in Symbols
  PROVE  Expansion(x) \in Strings /\ AfterPiece(t, x) \in Strings
<1>1. Expansion(x) \in Strings
  <2>1. "%" \in Symbols /\ "x" \in Symbols
    BY DEF Symbols
  <2>2. <<"%", "x">> \in Strings
    BY <2>1, StringAlgebra
  <2>3. (\E y \in Symbols : Expansion(x) = <<y>>) \/ Expansion(x) = <<"%", "x">>
    BY ExpansionFits
  <2>4. ASSUME NEW y \in Symbols, Expansion(x) = <<y>> PROVE Expansion(x) \in Strings
    <3>1. <<y>> \in Strings
      BY StringAlgebra
    <3> QED BY <3>1, <2>4
  <2> QED BY <2>2, <2>3, <2>4
<1>2. CASE x # "%_"
  BY <1>1, <1>2, StringAlgebra DEF AfterPiece
<1>3. CASE x = "%_" /\ t # <<>>
  <2>1. Front(t) \in Strings
    BY DEF Front, Strings
  <2> QED BY <1>1, <1>3, <2>1 DEF AfterPiece
<1>4. CASE x = "%_" /\ t = <<>>
  BY <1>1, <1>4, StringAlgebra DEF AfterPiece
<1> QED BY <1>2, <1>3, <1>4

\* A trailer, piece by piece.
LEMMA TrailerFacts ==
  ASSUME TypeOK, NEW s \in Strings
  PROVE  /\ Len(params.trailer) \in Nat
         /\ \A k \in 1..Len(params.trailer) : params.trailer[k] \in Symbols
         /\ \A k \in 0..Len(params.trailer) : TrailerSteps(s)[k] \in Strings
         /\ TrailerSteps(s)[0] = s
         /\ \A k \in 1..Len(params.trailer) :
              TrailerSteps(s)[k] = AfterPiece(TrailerSteps(s)[k - 1], params.trailer[k])
         /\ WithTrailer(s) \in Strings
<1> DEFINE r == params.trailer
           n == Len(r)
           F == [p \in Nat \X Strings |->
                   IF p[1] \in 1..n THEN AfterPiece(p[2], r[p[1]]) ELSE p[2]]
           Body(f) == [k \in 0..n |->
                         IF k = 0 THEN s
                         ELSE IF r[k] # "%_" THEN f[k - 1] \o Expansion(r[k])
                         ELSE IF f[k - 1] = <<>> THEN <<>> ELSE Front(f[k - 1])]
           t == TrailerSteps(s)
<1>1. n \in Nat /\ \A k \in 1..n : r[k] \in Symbols
  <2>1. r \in Seq(Symbols)
    BY InputFacts
  <2> HIDE DEF r
  <2> QED BY <2>1, ElementOfSequence
<1>2. F \in [Nat \X Strings -> Strings]
  <2>1. ASSUME NEW p \in Nat \X Strings
        PROVE  (IF p[1] \in 1..n THEN AfterPiece(p[2], r[p[1]]) ELSE p[2]) \in Strings
    <3>1. p[2] \in Strings
      OBVIOUS
    <3> HIDE DEF r, n
    <3> QED BY <3>1, <1>1, AfterPieceType
  <2> QED BY <2>1
<1>3. ASSUME NEW k \in 1..n, NEW u \in Strings PROVE F[<<k, u>>] = AfterPiece(u, r[k])
  <2>1. k \in Nat
    BY <1>1
  <2> HIDE DEF r, n
  <2>2. <<k, u>> \in Nat \X Strings /\ <<k, u>>[1] = k /\ <<k, u>>[2] = u
    BY <2>1
  <2> QED BY <2>2
<1>4. PICK f \in [0..n -> Strings] : Unfolds(f, n, s, F)
  <2> HIDE DEF F, n
  <2> QED BY <1>1, <1>2, Recursion
<1>5. f[0] = s /\ \A k \in 1..n : f[k] = F[<<k, f[k - 1]>>]
  BY <1>4 DEF Unfolds
<1>6. ASSUME NEW k \in 1..n PROVE f[k] = AfterPiece(f[k - 1], r[k])
  <2>1. k - 1 \in 0..n
    BY <1>1
  <2>2. f[k - 1] \in Strings
    BY <1>4, <2>1
  <2> HIDE DEF F, n, r
  <2> QED BY <1>3, <1>5, <2>2
<1>7. f = Body(f)
  <2>1. ASSUME NEW k \in 0..n
        PROVE  f[k] = IF k = 0 THEN s
                      ELSE IF r[k] # "%_" THEN f[k - 1] \o Expansion(r[k])
                      ELSE IF f[k - 1] = <<>> THEN <<>> ELSE Front(f[k - 1])
    <3>1. CASE k = 0
      BY <3>1, <1>5
    <3>2. CASE k # 0
      <4>1. k \in 1..n
        BY <3>2, <1>1
      <4> HIDE DEF n, r
      <4> QED BY <3>2, <4>1, <1>6 DEF AfterPiece
    <3> QED BY <3>1, <3>2
  <2> HIDE DEF n, r
  <2> QED BY <2>1, <1>4
<1>8. t = Body(t)
  <2>1. t = CHOOSE g : g = Body(g)
    BY DEF TrailerSteps
  <2> HIDE DEF Body, t
  <2> QED BY <2>1, <1>7
<1>9. \A k \in 0..n : t[k] = IF k = 0 THEN s
                      ELSE IF r[k] # "%_" THEN t[k - 1] \o Expansion(r[k])
                      ELSE IF t[k - 1] = <<>> THEN <<>> ELSE Front(t[k - 1])
  <2> HIDE DEF t, n, r
  <2> QED BY <1>8
<1> HIDE DEF t, n, r, F, Body
<1>10. t[0] = s
  <2>1. 0 \in 0..n
    BY <1>1
  <2> QED BY <2>1, <1>9
<1>11. ASSUME NEW k \in 1..n PROVE t[k] = AfterPiece(t[k - 1], r[k])
  <2>1. k \in 0..n /\ k # 0
    BY <1>1
  <2> QED BY <2>1, <1>9 DEF AfterPiece
<1> DEFINE T == {k \in Nat : k \in 0..n => t[k] \in Strings}
<1>12. 0 \in T
  BY <1>10
<1>13. ASSUME NEW k \in Nat, k \in T PROVE k + 1 \in T
  <2>1. ASSUME k + 1 \in 0..n PROVE t[k + 1] \in Strings
    <3>1. k \in 0..n /\ k + 1 \in 1..n /\ (k + 1) - 1 = k
      BY <1>1, <2>1
    <3>2. t[k] \in Strings
      BY <1>13, <3>1
    <3>3. t[k + 1] = AfterPiece(t[k], r[k + 1])
      BY <1>11, <3>1
    <3> QED BY <3>1, <3>2, <3>3, <1>1, AfterPieceType
  <2> QED BY <2>1
<1>14. \A k \in 0..n : t[k] \in Strings
  <2>1. \A k \in Nat : k \in T
    <3> HIDE DEF T
    <3> QED BY <1>12, <1>13, SetInduction
  <2> QED BY <2>1, <1>1
<1>15. WithTrailer(s) = t[n]
  BY DEF WithTrailer, t, n, r
<1>16. n \in 0..n
  BY <1>1
<1>17. WithTrailer(s) \in Strings
  BY <1>14, <1>15, <1>16
<1> QED BY <1>1, <1>10, <1>11, <1>14, <1>17 DEF t, n, r

\* No piece of the trailer takes a character back.
OnlyAdds == \A k \in DOMAIN params.trailer : params.trailer[k] # "%_"

\* What a trailer that only adds has made is the beginning of what it makes.
LEMMA TrailerAdds ==
  ASSUME TypeOK, OnlyAdds, NEW s \in Strings, NEW j \in 0..Len(params.trailer)
  PROVE  \E u \in Strings : WithTrailer(s) = TrailerSteps(s)[j] \o u
<1> DEFINE n == Len(params.trailer)
           t == TrailerSteps(s)
           T == {m \in Nat : m \in 0..n => \E u \in Strings : t[n] = t[n - m] \o u}
<1>1. /\ n \in Nat /\ \A k \in 0..n : t[k] \in Strings
      /\ \A k \in 1..n : /\ params.trailer[k] \in Symbols
                         /\ t[k] = AfterPiece(t[k - 1], params.trailer[k])
  BY TrailerFacts
<1>2. DOMAIN params.trailer = 1..n
  <2>1. params.trailer \in Seq(Symbols)
    BY InputFacts
  <2> QED BY <2>1
<1>3. ASSUME NEW k \in 1..n
      PROVE  /\ t[k] = t[k - 1] \o Expansion(params.trailer[k])
             /\ t[k - 1] \in Strings /\ Expansion(params.trailer[k]) \in Strings
  <2>1. k - 1 \in 0..n
    BY <1>1
  <2>2. t[k - 1] \in Strings /\ params.trailer[k] \in Symbols
    BY <1>1, <2>1
  <2>3. params.trailer[k] # "%_"
    BY <1>2 DEF OnlyAdds
  <2> HIDE DEF n, t
  <2> QED BY <1>1, <2>2, <2>3, AfterPieceType DEF AfterPiece
<1> HIDE DEF n, t
<1>4. 0 \in T
  <2>1. n - 0 = n /\ n \in 0..n
    BY <1>1
  <2>2. t[n] \in Strings
    BY <1>1, <2>1
  <2>3. t[n] = t[n] \o <<>> /\ <<>> \in Strings
    BY <2>2, StringAlgebra
  <2> QED BY <2>1, <2>3
<1>5. ASSUME NEW m \in Nat, m \in T PROVE m + 1 \in T
  <2>1. ASSUME m + 1 \in 0..n PROVE \E u \in Strings : t[n] = t[n - (m + 1)] \o u
    <3>1. m \in 0..n /\ n - m \in 1..n /\ (n - m) - 1 = n - (m + 1)
      BY <1>1, <2>1
    <3>2. PICK u \in Strings : t[n] = t[n - m] \o u
      BY <1>5, <3>1
    <3> DEFINE e == Expansion(params.trailer[n - m])
    <3>3. t[n - m] = t[n - (m + 1)] \o e /\ t[n - (m + 1)] \in Strings /\ e \in Strings
      BY <1>3, <3>1
    <3> HIDE DEF e
    <3>4. (t[n - (m + 1)] \o e) \o u = t[n - (m + 1)] \o (e \o u) /\ e \o u \in Strings
      BY <3>3, StringAlgebra
    <3> QED BY <3>2, <3>3, <3>4
  <2> QED BY <2>1
<1>6. \A m \in Nat : m \in T
  <2> HIDE DEF T
  <2> QED BY <1>4, <1>5, SetInduction
<1>7. n - j \in Nat /\ n - j \in 0..n /\ n - (n - j) = j
  BY <1>1 DEF n
<1>8. WithTrailer(s) = t[n]
  BY DEF WithTrailer, t, n
<1> QED BY <1>6, <1>7, <1>8 DEF t

-----------------------------------------------------------------------------
(* What the writer has still to write, from each of its places.  Functions *)
(* of a number or of a text, because a step changes their arguments and    *)
(* not them.                                                               *)

EscapedOf == [s \in Strings |-> Escaped(s)]
StepsOf   == [s \in Strings |-> TrailerSteps(s)]
Trailed   == [s \in Strings |-> WithTrailer(s)]

\* From the k-th segment; from the k-th element, with and without its separator;
\* from the k-th value.
SegmentsFrom == [k \in Nat |-> From(SegmentPieces, k)]
ElementsFrom == [k \in Nat |-> From(ElementPieces(segments[c]), k)]
ElementOn ==
  [k \in Nat |-> IF k <= Len(elements) THEN ElementText(elements[k]) \o ElementsFrom[k + 1]
                 ELSE <<>>]
ValuesFrom == [k \in Nat |-> From(ValuePieces(elements[d]), k)]
ValueOn == [k \in Nat |-> Escaped(values[k].text) \o ValuesFrom[k + 1]]

\* The whole text, for a segment without its end.
Complete ==
  [s \in Strings |->
     (IF c = 1 /\ StartsWithHeader THEN WithTrailer(s) ELSE Append(s, params.seg))
       \o SegmentsFrom[c + 1]]

\* The input stays, and with it the whole text.
LEMMA InputStays ==
  ASSUME UNCHANGED input
  PROVE  /\ Text' = Text /\ SegmentsFrom' = SegmentsFrom /\ NewHeader' = NewHeader
         /\ EscapedOf' = EscapedOf /\ StepsOf' = StepsOf /\ Trailed' = Trailed
         /\ StartsWithHeader' = StartsWithHeader /\ HasFirst' = HasFirst
         /\ OnlyAdds' = OnlyAdds /\ params' = params /\ segments' = segments
         /\ buflen' = buflen
<1> USE DEF input, Expansion, TrailerSteps, WithTrailer, MustEscape, Special, EscapedPieces,
            Escaped, HasFirst, StartsWithHeader, NewHeader, Led, ValuePieces, ElementText,
            ElementPieces, ElementsText, Line, SegmentText, SegmentPieces
<1>1. EscapedOf' = EscapedOf /\ StepsOf' = StepsOf /\ Trailed' = Trailed
  BY DEF EscapedOf, StepsOf, Trailed
<1>2. Text' = Text /\ SegmentsFrom' = SegmentsFrom /\ NewHeader' = NewHeader
  BY DEF Text, SegmentsFrom, From
<1>3. StartsWithHeader' = StartsWithHeader /\ HasFirst' = HasFirst /\ OnlyAdds' = OnlyAdds
  BY DEF OnlyAdds
<1> QED BY <1>1, <1>2, <1>3

\* So do the elements, as long as the segment does.
LEMMA SegmentStays ==
  ASSUME UNCHANGED <<input, c>>
  PROVE  /\ ElementsFrom' = ElementsFrom /\ ElementOn' = ElementOn /\ Complete' = Complete
         /\ elements' = elements
<1> USE DEF input, Expansion, TrailerSteps, WithTrailer, MustEscape, Special, EscapedPieces,
            Escaped, HasFirst, StartsWithHeader, NewHeader, Led, ValuePieces, ElementText,
            ElementPieces, ElementsText, Line, SegmentText, SegmentPieces, elements
<1>1. ElementsFrom' = ElementsFrom /\ elements' = elements
  BY DEF ElementsFrom, From
<1>2. ElementOn' = ElementOn
  BY <1>1 DEF ElementOn
<1>3. Complete' = Complete
  BY DEF Complete, SegmentsFrom, From
<1> QED BY <1>1, <1>2, <1>3

\* So do the values, as long as the element does.
LEMMA ElementStays ==
  ASSUME UNCHANGED <<input, c, d>>
  PROVE  ValuesFrom' = ValuesFrom /\ ValueOn' = ValueOn /\ values' = values
<1> USE DEF input, MustEscape, Special, EscapedPieces, Escaped, Led, ValuePieces, elements,
            values
<1>1. ValuesFrom' = ValuesFrom
  BY DEF ValuesFrom, From
<1>2. ValueOn' = ValueOn
  BY <1>1 DEF ValueOn
<1> QED BY <1>1, <1>2

\* The texts of the segments.
LEMMA SegmentFacts ==
  ASSUME TypeOK
  PROVE  /\ Len(segments) \in Nat
         /\ \A k \in 1..Len(segments) : IsSegment(segments[k])
         /\ NewHeader \in Strings
         /\ \A k \in 1..Len(segments) : Line(k) \in Strings /\ SegmentText(k) \in Strings
         /\ \A k \in 1..(Len(segments) + 1) : SegmentsFrom[k] \in Strings
         /\ SegmentsFrom[1] = Text
         /\ SegmentsFrom[Len(segments) + 1] = <<>>
         /\ \A k \in 1..Len(segments) : SegmentsFrom[k] = SegmentText(k) \o SegmentsFrom[k + 1]
<1> DEFINE n == Len(segments)
           ps == SegmentPieces
<1>2. n \in Nat /\ DOMAIN segments = 1..n
  BY InputFacts
<1>3. \A k \in 1..n : IsSegment(segments[k])
  BY InputFacts
<1>4. NewHeader \in Strings
  <2>1. CASE params.name # NoName
    <3>1. params.name \in Strings
      BY <2>1, InputFacts DEF Strings
    <3>2. Escaped(params.name) \in Strings
      BY <3>1, EscapedFacts
    <3>3. WithTrailer(Escaped(params.name)) \in Strings
      BY <3>2, TrailerFacts
    <3> QED BY <3>3, StringAlgebra DEF NewHeader
  <2>2. CASE params.name = NoName
    BY <2>2, StringAlgebra DEF NewHeader
  <2> QED BY <2>1, <2>2
<1>5. ASSUME NEW k \in 1..n PROVE Line(k) \in Strings /\ SegmentText(k) \in Strings
  <2>1. ElementsText(segments[k]) \in Strings
    BY <1>3, ElementPiecesFacts
  <2>2. Line(k) \in Strings
    BY <2>1, <1>4, StringAlgebra DEF Line
  <2>3. WithTrailer(Line(k)) \in Strings
    BY <2>2, TrailerFacts
  <2>4. Append(Line(k), params.seg) \in Strings
    <3>1. params.seg \in Symbols
      BY InputFacts
    <3>2. Append(Line(k), params.seg) = Line(k) \o <<params.seg>> /\ <<params.seg>> \in Strings
      BY <2>2, <3>1, StringAlgebra
    <3> QED BY <2>2, <3>2, StringAlgebra
  <2> QED BY <2>2, <2>3, <2>4 DEF SegmentText
<1>6. /\ ps \in Seq(Strings) /\ Len(ps) = n
      /\ \A k \in 1..n : ps[k] = SegmentText(k)
  <2>1. ps = [k \in 1..n |-> SegmentText(k)]
    BY <1>2 DEF SegmentPieces
  <2> HIDE DEF ps, n
  <2>2. ps \in [1..n -> Strings]
    BY <2>1, <1>5
  <2> QED BY <2>1, <2>2, <1>2
<1>7. /\ \A k \in 1..(n + 1) : From(ps, k) \in Strings
      /\ From(ps, 1) = FlattenSeq(ps)
      /\ From(ps, n + 1) = <<>>
      /\ \A k \in 1..n : From(ps, k) = ps[k] \o From(ps, k + 1)
  <2> HIDE DEF ps, n
  <2> QED BY <1>6, FromFacts DEF Strings
<1>8. \A k \in 1..(n + 1) : SegmentsFrom[k] = From(ps, k)
  <2> HIDE DEF n
  <2> QED BY <1>2 DEF SegmentsFrom
<1>9. 1 \in 1..(n + 1) /\ n + 1 \in 1..(n + 1)
      /\ \A k \in 1..n : k \in 1..(n + 1) /\ k + 1 \in 1..(n + 1)
  BY <1>2
<1>10. Text = FlattenSeq(ps)
  BY DEF Text
<1> HIDE DEF n, ps
<1>11. /\ \A k \in 1..(n + 1) : SegmentsFrom[k] \in Strings
       /\ SegmentsFrom[1] = Text
       /\ SegmentsFrom[n + 1] = <<>>
       /\ \A k \in 1..n : SegmentsFrom[k] = SegmentText(k) \o SegmentsFrom[k + 1]
  BY <1>6, <1>7, <1>8, <1>9, <1>10
<1> QED BY <1>2, <1>3, <1>4, <1>5, <1>11 DEF n

\* The texts of the elements of the segment.
LEMMA ElementsAhead ==
  ASSUME TypeOK, c <= Len(segments)
  PROVE  /\ Len(elements) \in Nat /\ segments[c].elements = elements
         /\ \A k \in 1..Len(elements) : /\ IsElement(elements[k])
                                        /\ ElementText(elements[k]) \in Strings
         /\ \A k \in 1..(Len(elements) + 1) : /\ ElementsFrom[k] \in Strings
                                              /\ ElementOn[k] \in Strings
         /\ ElementOn[1] = ElementsText(segments[c])
         /\ ElementOn[Len(elements) + 1] = <<>> /\ ElementsFrom[Len(elements) + 1] = <<>>
         /\ \A k \in 1..Len(elements) :
              /\ ElementOn[k] = ElementText(elements[k]) \o ElementsFrom[k + 1]
              /\ k < Len(elements) =>
                   ElementsFrom[k + 1] =
                     <<IF k = 1 THEN params.tag ELSE params.data>> \o ElementOn[k + 1]
<1> DEFINE s == segments[c]
           n == Len(elements)
           ps == ElementPieces(s)
<1>1. c \in 1..Len(segments) /\ IsSegment(s) /\ elements = s.elements
  BY SegmentFacts DEF TypeOK, elements
<1>2. /\ n \in Nat
      /\ \A k \in 1..n : IsElement(elements[k]) /\ ElementText(elements[k]) \in Strings
      /\ ps \in Seq(Strings) /\ Len(ps) = n
      /\ n > 0 => ps[1] = ElementText(elements[1])
      /\ \A k \in 1..n : k > 1 =>
           ps[k] = <<IF k = 2 THEN params.tag ELSE params.data>> \o ElementText(elements[k])
  BY <1>1, ElementPiecesFacts
<1> HIDE DEF ps, n
<1>3. /\ \A k \in 1..(n + 1) : From(ps, k) \in Strings
      /\ From(ps, 1) = FlattenSeq(ps)
      /\ From(ps, n + 1) = <<>>
      /\ \A k \in 1..n : From(ps, k) = ps[k] \o From(ps, k + 1)
  BY <1>2, FromFacts DEF Strings
<1>4. \A k \in 1..(n + 1) : ElementsFrom[k] = From(ps, k)
  BY <1>2 DEF ElementsFrom, ps
<1>5. ElementsText(s) = FlattenSeq(ps)
  BY DEF ElementsText, ps
<1>6. /\ \A k \in 1..n : k \in 1..(n + 1) /\ k + 1 \in 1..(n + 1) /\ k <= n
                         /\ k \in Nat
      /\ n + 1 \in 1..(n + 1) /\ n + 1 \in Nat /\ ~(n + 1 <= n) /\ 1 \in 1..(n + 1)
  BY <1>2
<1>7. /\ \A k \in 1..n : ElementOn[k] = ElementText(elements[k]) \o ElementsFrom[k + 1]
      /\ ElementOn[n + 1] = <<>>
  BY <1>6 DEF ElementOn, n
<1>8. \A k \in 1..(n + 1) : ElementsFrom[k] \in Strings /\ ElementOn[k] \in Strings
  <2>1. ASSUME NEW k \in 1..(n + 1) PROVE ElementsFrom[k] \in Strings
    BY <1>3, <1>4
  <2>2. ASSUME NEW k \in 1..n PROVE ElementOn[k] \in Strings
    <3>1. ElementText(elements[k]) \in Strings /\ ElementsFrom[k + 1] \in Strings
      BY <1>2, <1>6, <2>1
    <3> QED BY <3>1, <1>7, StringAlgebra
  <2>3. ElementOn[n + 1] \in Strings
    BY <1>7, StringAlgebra
  <2>4. \A k \in 1..(n + 1) : k \in 1..n \/ k = n + 1
    BY <1>2
  <2> QED BY <2>1, <2>2, <2>3, <2>4
<1>9. ElementOn[1] = ElementsText(s)
  <2>1. CASE n = 0
    <3>1. n + 1 = 1
      BY <2>1
    <3>2. From(ps, 1) = <<>> /\ ElementOn[1] = <<>>
      BY <3>1, <1>3, <1>7
    <3> QED BY <3>2, <1>3, <1>5
  <2>2. CASE n > 0
    <3>1. 1 \in 1..n
      BY <2>2, <1>2
    <3>2. From(ps, 1) = ps[1] \o From(ps, 1 + 1) /\ From(ps, 1 + 1) = ElementsFrom[1 + 1]
      BY <3>1, <1>3, <1>4, <1>6
    <3>3. ElementOn[1] = ElementText(elements[1]) \o ElementsFrom[1 + 1]
      BY <3>1, <1>7
    <3> QED BY <2>2, <3>2, <3>3, <1>2, <1>3, <1>5
  <2> QED BY <2>1, <2>2, <1>2
<1>10. ASSUME NEW k \in 1..n, k < n
       PROVE  ElementsFrom[k + 1] =
                <<IF k = 1 THEN params.tag ELSE params.data>> \o ElementOn[k + 1]
  <2> DEFINE sep == IF k = 1 THEN params.tag ELSE params.data
  <2>1. /\ k + 1 \in 1..n /\ k + 1 > 1 /\ (k + 1 = 2 <=> k = 1) /\ k + 1 \in 1..(n + 1)
        /\ (k + 1) + 1 \in 1..(n + 1)
    BY <1>2, <1>10
  <2>2. ps[k + 1] = <<sep>> \o ElementText(elements[k + 1])
    BY <1>2, <2>1
  <2>3. ElementsFrom[k + 1] = ps[k + 1] \o ElementsFrom[(k + 1) + 1]
    BY <1>3, <1>4, <2>1
  <2>4. ElementOn[k + 1] = ElementText(elements[k + 1]) \o ElementsFrom[(k + 1) + 1]
    BY <1>7, <2>1
  <2>5. /\ ElementText(elements[k + 1]) \in Strings /\ ElementsFrom[(k + 1) + 1] \in Strings
        /\ sep \in Symbols
    BY <1>2, <1>8, <2>1, InputFacts
  <2> HIDE DEF sep
  <2>6. <<sep>> \in Strings
    BY <2>5, StringAlgebra
  <2>7. (<<sep>> \o ElementText(elements[k + 1])) \o ElementsFrom[(k + 1) + 1]
          = <<sep>> \o (ElementText(elements[k + 1]) \o ElementsFrom[(k + 1) + 1])
    BY <2>5, <2>6, StringAlgebra
  <2>8. ElementsFrom[k + 1] = <<sep>> \o ElementOn[k + 1]
    BY <2>2, <2>3, <2>4, <2>7
  <2> QED BY <2>8 DEF sep
<1>11. segments[c].elements = elements
  BY <1>1
<1>12. ElementsFrom[n + 1] = <<>>
  BY <1>3, <1>4, <1>6
<1> QED BY <1>2, <1>7, <1>8, <1>9, <1>10, <1>11, <1>12 DEF n

\* The texts of the values of the element.
LEMMA ValuesAhead ==
  ASSUME TypeOK, c <= Len(segments), d <= Len(elements)
  PROVE  /\ d \in 1..Len(elements) /\ Len(values) \in Nat
         /\ values # <<>> => 1 \in 1..Len(values)
         /\ values = <<>> => ElementText(elements[d]) = <<>>
         /\ values # <<>> => ElementText(elements[d]) = ValueOn[1]
         /\ ValuesFrom[Len(values) + 1] = <<>>
         /\ \A k \in 1..Len(values) :
              /\ values[k].text \in Strings /\ Escaped(values[k].text) \in Strings
              /\ ValuesFrom[k + 1] \in Strings /\ ValueOn[k] \in Strings
              /\ ValueOn[k] = Escaped(values[k].text) \o ValuesFrom[k + 1]
              /\ k < Len(values) => ValuesFrom[k + 1] = <<params.sub>> \o ValueOn[k + 1]
<1> DEFINE x == elements[d]
           n == Len(values)
           ps == ValuePieces(x)
<1>1. d \in 1..Len(elements) /\ IsElement(x) /\ values = x.values
  <2>1. d \in 1..Len(elements)
    <3>1. Len(elements) \in Nat /\ d \in Nat \ {0}
      BY ElementsAhead DEF TypeOK
    <3> QED BY <3>1
  <2>2. IsElement(x)
    BY <2>1, ElementsAhead
  <2> QED BY <2>1, <2>2 DEF values
<1>2. /\ n \in Nat /\ (values # <<>> => n > 0)
      /\ \A k \in 1..n : /\ values[k].text \in Strings
                         /\ Escaped(values[k].text) \in Strings
      /\ ps \in Seq(Strings) /\ Len(ps) = n
      /\ n > 0 => ps[1] = Escaped(values[1].text)
      /\ \A k \in 1..n : k > 1 => ps[k] = <<params.sub>> \o Escaped(values[k].text)
  BY <1>1, ValuePiecesFacts
<1>3. values = <<>> => n = 0
  OBVIOUS
<1> HIDE DEF ps, n
<1>4. /\ \A k \in 1..(n + 1) : From(ps, k) \in Strings
      /\ From(ps, 1) = FlattenSeq(ps)
      /\ From(ps, n + 1) = <<>>
      /\ \A k \in 1..n : From(ps, k) = ps[k] \o From(ps, k + 1)
  BY <1>2, FromFacts DEF Strings
<1>5. \A k \in 1..(n + 1) : ValuesFrom[k] = From(ps, k)
  BY <1>2 DEF ValuesFrom, ps
<1>6. ElementText(x) = FlattenSeq(ps)
  BY DEF ElementText, ps
<1>7. /\ \A k \in 1..n : k \in 1..(n + 1) /\ k + 1 \in 1..(n + 1) /\ k \in Nat
      /\ n + 1 \in 1..(n + 1)
  BY <1>2
<1>8. \A k \in 1..n : ValueOn[k] = Escaped(values[k].text) \o ValuesFrom[k + 1]
  BY <1>7 DEF ValueOn
<1>9. ASSUME NEW k \in 1..n PROVE ValuesFrom[k + 1] \in Strings /\ ValueOn[k] \in Strings
  <2>1. ValuesFrom[k + 1] \in Strings /\ Escaped(values[k].text) \in Strings
    BY <1>2, <1>4, <1>5, <1>7
  <2> QED BY <2>1, <1>8, StringAlgebra
<1>10. values = <<>> => ElementText(x) = <<>>
  <2>1. n = 0 => n + 1 = 1
    OBVIOUS
  <2> QED BY <2>1, <1>3, <1>4, <1>6
<1>11. ASSUME values # <<>> PROVE 1 \in 1..n /\ ElementText(x) = ValueOn[1]
  <2>1. 1 \in 1..n /\ n > 0
    BY <1>2, <1>11
  <2>2. From(ps, 1) = ps[1] \o From(ps, 1 + 1) /\ From(ps, 1 + 1) = ValuesFrom[1 + 1]
    BY <2>1, <1>4, <1>5, <1>7
  <2>3. ValueOn[1] = Escaped(values[1].text) \o ValuesFrom[1 + 1]
    BY <2>1, <1>8
  <2> QED BY <2>1, <2>2, <2>3, <1>2, <1>4, <1>6
<1>12. ASSUME NEW k \in 1..n, k < n
       PROVE  ValuesFrom[k + 1] = <<params.sub>> \o ValueOn[k + 1]
  <2> DEFINE t == Escaped(values[k + 1].text)
             r == ValuesFrom[(k + 1) + 1]
  <2>1. k + 1 \in 1..n /\ k + 1 > 1 /\ k + 1 \in 1..(n + 1) /\ (k + 1) + 1 \in 1..(n + 1)
    BY <1>2, <1>12
  <2>2. ps[k + 1] = <<params.sub>> \o t
    BY <1>2, <2>1
  <2>3. ValuesFrom[k + 1] = ps[k + 1] \o r
    BY <1>4, <1>5, <2>1
  <2>4. ValueOn[k + 1] = t \o r
    BY <1>8, <2>1
  <2>5. t \in Strings /\ r \in Strings /\ params.sub \in Symbols
    BY <1>2, <1>9, <2>1, InputFacts
  <2> HIDE DEF t, r
  <2>6. <<params.sub>> \in Strings
    BY <2>5, StringAlgebra
  <2>7. (<<params.sub>> \o t) \o r = <<params.sub>> \o (t \o r)
    BY <2>5, <2>6, StringAlgebra
  <2> QED BY <2>2, <2>3, <2>4, <2>7
<1>13. ValuesFrom[n + 1] = <<>>
  BY <1>4, <1>5, <1>7
<1> QED BY <1>1, <1>2, <1>8, <1>9, <1>10, <1>11, <1>12, <1>13 DEF n

-----------------------------------------------------------------------------
(* The text so far, and what is still to be written, are the whole text.   *)

AtStart ==
  pc = "segment" \/ (pc = "element" /\ d = 1) \/ (pc = "value" /\ d = 1 /\ i = 1)

\* In the first segment, from its first value on, header says that the segment
\* is the header; nothing is written before.
HeaderInv ==
  /\ pc \notin {"end", "returned", "undefined"} =>
       (header <=> (c = 1 /\ StartsWithHeader /\ ~AtStart))
  /\ AtStart /\ c = 1 => out = <<>>
  /\ pc \in {"name", "nameTrailer"} => First /\ params.name # NoName /\ ~StartsWithHeader
  /\ pc = "trailer" => header

\* A text is written, and a trailer added, as long as there is room.
WholeInv ==
  /\ pc = "segment" => Text = out \o SegmentsFrom[c]
  /\ pc = "element" =>
       Text = Complete[out \o ((IF c = 1 /\ d = 1 THEN NewHeader ELSE <<>>) \o ElementOn[d])]
  /\ pc = "value" =>
       Text = Complete[out \o ((IF c = 1 /\ d = 1 /\ i = 1 THEN NewHeader ELSE <<>>)
                                 \o (ValueOn[i] \o ElementsFrom[d + 1]))]
  /\ pc = "text" /\ Len(out) < buflen =>
       Text = Complete[out \o (EscapedOf[rest] \o (ValuesFrom[i + 1] \o ElementsFrom[d + 1]))]
  /\ pc = "sub" => Text = Complete[out \o (ValuesFrom[i + 1] \o ElementsFrom[d + 1])]
  /\ pc = "separator" => Text = Complete[out \o ElementsFrom[d + 1]]
  /\ pc = "terminator" => Text = Complete[out]
  /\ pc = "name" /\ Len(out) < buflen =>
       Text = Complete[Trailed[out \o EscapedOf[rest]] \o (ValueOn[i] \o ElementsFrom[d + 1])]
  /\ pc = "nameTrailer" /\ Len(out) < buflen =>
       \E s \in Strings, k \in 0..Len(params.trailer) :
         /\ out = StepsOf[s][k] /\ rest = SubSeq(params.trailer, k + 1, Len(params.trailer))
         /\ Text = Complete[Trailed[s] \o (ValueOn[i] \o ElementsFrom[d + 1])]
  /\ pc = "trailer" /\ Len(out) < buflen =>
       \E s \in Strings, k \in 0..Len(params.trailer) :
         /\ out = StepsOf[s][k] /\ rest = SubSeq(params.trailer, k + 1, Len(params.trailer))
         /\ Text = Trailed[s] \o SegmentsFrom[c + 1]
  /\ pc \in {"end", "returned"} /\ Len(out) < buflen => out = Text

\* The text so far is its beginning, if no trailer takes back what was written.
BeginInv == OnlyAdds => \E u \in Strings : Text = out \o u

TextInv == HeaderInv /\ WholeInv /\ BeginInv

\* The writer's own texts.
LEMMA OwnTexts ==
  ASSUME IInv
  PROVE  /\ TypeOK /\ out \in Strings /\ rest \in Strings
         /\ buflen \in Nat /\ Len(out) \in Nat /\ Len(out) <= buflen
         /\ c \in Nat \ {0} /\ d \in Nat \ {0} /\ i \in Nat \ {0}
         /\ params.seg \in Symbols /\ params.sub \in Symbols /\ params.tag \in Symbols
         /\ params.data \in Symbols /\ params.escape \in Symbols
         /\ Len(segments) \in Nat
<1>1. TypeOK /\ out \in Strings /\ rest \in Strings /\ Len(out) <= buflen
  BY DEF IInv, Buffer, Strings
<1>2. Len(out) \in Nat
  BY <1>1 DEF Strings
<1>3. c \in Nat \ {0} /\ d \in Nat \ {0} /\ i \in Nat \ {0}
  BY <1>1, InputFacts DEF TypeOK
<1> QED BY <1>1, <1>2, <1>3, InputFacts

\* What the functions of a text give.
LEMMA Applied ==
  ASSUME TypeOK, NEW s \in Strings
  PROVE  /\ EscapedOf[s] = Escaped(s) /\ EscapedOf[s] \in Strings
         /\ StepsOf[s] = TrailerSteps(s)
         /\ Trailed[s] = WithTrailer(s) /\ Trailed[s] \in Strings
         /\ StepsOf[s][0] = s /\ StepsOf[s][Len(params.trailer)] = Trailed[s]
BY EscapedFacts, TrailerFacts DEF EscapedOf, StepsOf, Trailed, WithTrailer

\* The text of a segment, and of all behind it.
LEMMA Completed ==
  ASSUME TypeOK, c <= Len(segments), NEW s \in Strings
  PROVE  /\ SegmentsFrom[c + 1] \in Strings
         /\ c = 1 /\ StartsWithHeader => Complete[s] = Trailed[s] \o SegmentsFrom[c + 1]
         /\ ~(c = 1 /\ StartsWithHeader) =>
              Complete[s] = s \o (<<params.seg>> \o SegmentsFrom[c + 1])
<1>1. c \in Nat \ {0} /\ Len(segments) \in Nat /\ params.seg \in Symbols
  BY InputFacts DEF TypeOK
<1>2. c + 1 \in 1..(Len(segments) + 1)
  BY <1>1
<1>3. SegmentsFrom[c + 1] \in Strings
  BY <1>2, SegmentFacts
<1>4. <<params.seg>> \in Strings /\ Append(s, params.seg) = s \o <<params.seg>>
  BY <1>1, StringAlgebra
<1>5. (s \o <<params.seg>>) \o SegmentsFrom[c + 1]
        = s \o (<<params.seg>> \o SegmentsFrom[c + 1])
  BY <1>3, <1>4, StringAlgebra
<1>6. Complete[s] = (IF c = 1 /\ StartsWithHeader THEN WithTrailer(s)
                     ELSE Append(s, params.seg)) \o SegmentsFrom[c + 1]
  BY DEF Complete
<1>7. Trailed[s] = WithTrailer(s)
  BY DEF Trailed
<1> QED BY <1>3, <1>4, <1>5, <1>6, <1>7

\* What was written stays at the beginning.
LEMMA TrailedBegins ==
  ASSUME TypeOK, OnlyAdds, NEW s \in Strings, NEW x \in Strings
  PROVE  \E u \in Strings : Trailed[s \o x] = s \o u
<1>1. s \o x \in Strings /\ 0 \in 0..Len(params.trailer)
  BY StringAlgebra, TrailerFacts
<1>2. PICK u \in Strings : WithTrailer(s \o x) = TrailerSteps(s \o x)[0] \o u
  BY <1>1, TrailerAdds
<1>3. Trailed[s \o x] = (s \o x) \o u
  BY <1>1, <1>2, TrailerFacts, Applied
<1>4. (s \o x) \o u = s \o (x \o u) /\ x \o u \in Strings
  BY StringAlgebra
<1> QED BY <1>3, <1>4

\* So it does when the segment is completed.
LEMMA CompleteBegins ==
  ASSUME TypeOK, OnlyAdds, c <= Len(segments), NEW s \in Strings, NEW x \in Strings
  PROVE  \E u \in Strings : Complete[s \o x] = s \o u
<1> DEFINE r == SegmentsFrom[c + 1]
           t == <<params.seg>> \o r
<1>1. s \o x \in Strings
  BY StringAlgebra
<1>2. r \in Strings
  BY <1>1, Completed
<1>3. CASE c = 1 /\ StartsWithHeader
  <2>1. Complete[s \o x] = Trailed[s \o x] \o r
    BY <1>1, <1>3, Completed
  <2>2. PICK u \in Strings : Trailed[s \o x] = s \o u
    BY TrailedBegins
  <2>3. (s \o u) \o r = s \o (u \o r) /\ u \o r \in Strings
    BY <1>2, StringAlgebra
  <2> QED BY <2>1, <2>2, <2>3
<1>4. CASE ~(c = 1 /\ StartsWithHeader)
  <2>1. Complete[s \o x] = (s \o x) \o t
    BY <1>1, <1>4, Completed
  <2>2. t \in Strings
    <3>1. <<params.seg>> \in Strings
      BY InputFacts, StringAlgebra
    <3> QED BY <1>2, <3>1, StringAlgebra
  <2> HIDE DEF t
  <2>3. (s \o x) \o t = s \o (x \o t) /\ x \o t \in Strings
    BY <2>2, StringAlgebra
  <2> QED BY <2>1, <2>3
<1> QED BY <1>3, <1>4

\* Nothing written, nothing lost.
LEMMA SameBegins ==
  ASSUME BeginInv, UNCHANGED input, UNCHANGED out
  PROVE  BeginInv'
<1>1. Text' = Text /\ OnlyAdds' = OnlyAdds
  BY InputStays
<1> QED BY <1>1 DEF BeginInv

\* A text that is completed to the whole one is its beginning.
LEMMA CompletedBegins ==
  ASSUME TypeOK, UNCHANGED input, c <= Len(segments), out' \in Strings,
         NEW x \in Strings, Text = Complete[out' \o x]
  PROVE  BeginInv'
<1>1. Text' = Text /\ OnlyAdds' = OnlyAdds
  BY InputStays
<1>2. PICK o \in Strings : o = out'
  OBVIOUS
<1>3. OnlyAdds => \E u \in Strings : Complete[o \o x] = o \o u
  BY CompleteBegins
<1> QED BY <1>1, <1>2, <1>3 DEF BeginInv

\* At the beginning of a segment its text is what is left, and all behind it.
LEMMA BeginSegmentText ==
  ASSUME IInv, TextInv, BeginSegment
  PROVE  TextInv'
<1>1. /\ pc = "segment" /\ c <= Len(segments) /\ pc' = "element" /\ d' = 1 /\ c' = c /\ i' = i
      /\ UNCHANGED input /\ out' = out /\ header' = header
  BY DEF BeginSegment, Leave
<1>2. /\ TypeOK /\ out \in Strings /\ c \in 1..Len(segments) /\ params.seg \in Symbols
  BY <1>1, OwnTexts
<1>3. /\ Text' = Text /\ Complete' = Complete /\ ElementOn' = ElementOn
      /\ NewHeader' = NewHeader /\ StartsWithHeader' = StartsWithHeader
  BY <1>1, InputStays, SegmentStays
<1>4. HeaderInv'
  BY <1>1, <1>3 DEF HeaderInv, TextInv, AtStart
<1> DEFINE H == IF c = 1 THEN NewHeader ELSE <<>>
           L == H \o ElementOn[1]
           R == SegmentsFrom[c + 1]
<1>5. Text = out \o (SegmentText(c) \o R)
  BY <1>1, <1>2, SegmentFacts DEF TextInv, WholeInv
<1>6. /\ L \in Strings /\ R \in Strings
      /\ SegmentText(c) = IF c = 1 /\ StartsWithHeader THEN WithTrailer(L)
                          ELSE Append(L, params.seg)
  <2>1. ElementOn[1] = ElementsText(segments[c])
    BY <1>1, <1>2, ElementsAhead
  <2>2. L = Line(c) /\ Line(c) \in Strings
    BY <1>2, <2>1, SegmentFacts DEF Line
  <2>3. R \in Strings
    BY <1>1, <1>2, Completed
  <2> QED BY <2>2, <2>3 DEF SegmentText
<1> HIDE DEF L, R
<1>7. Text = Complete[out \o L]
  <2>1. CASE c = 1 /\ StartsWithHeader
    <3>1. out = <<>>
      BY <1>1, <2>1 DEF TextInv, HeaderInv, AtStart
    <3>2. Text = <<>> \o (WithTrailer(L) \o R)
      BY <1>5, <1>6, <2>1, <3>1
    <3>3. Trailed[L] \in Strings /\ Trailed[L] = WithTrailer(L)
      BY <1>2, <1>6, Applied
    <3>4. Text = Trailed[L] \o R
      BY <1>6, <3>2, <3>3, StringAlgebra
    <3>5. <<>> \o L = L
      BY <1>6, StringAlgebra
    <3>6. Complete[L] = Trailed[L] \o R
      BY <1>1, <1>2, <1>6, <2>1, Completed DEF R
    <3> QED BY <3>1, <3>4, <3>5, <3>6
  <2>2. CASE ~(c = 1 /\ StartsWithHeader)
    <3> DEFINE e == <<params.seg>>
    <3>1. e \in Strings /\ Append(L, params.seg) = L \o e
      BY <1>2, <1>6, StringAlgebra
    <3>2. SegmentText(c) = L \o e
      BY <1>6, <2>2, <3>1
    <3>3. out \o L \in Strings
      BY <1>2, <1>6, StringAlgebra
    <3>4. Complete[out \o L] = (out \o L) \o (e \o R)
      BY <1>1, <1>2, <2>2, <3>3, Completed DEF R
    <3> HIDE DEF e
    <3> DEFINE X == e \o R
    <3>5. (L \o e) \o R = L \o X /\ X \in Strings
      BY <1>6, <3>1, StringAlgebra
    <3> HIDE DEF X
    <3>6. out \o (L \o X) = (out \o L) \o X
      BY <1>2, <1>6, <3>5, StringAlgebra, ZenonT(40)
    <3>7. Complete[out \o L] = (out \o L) \o X
      BY <3>4 DEF X
    <3> QED BY <1>5, <3>2, <3>5, <3>6, <3>7
  <2> QED BY <2>1, <2>2
<1>8. Text' = Complete'[out' \o ((IF c' = 1 /\ d' = 1 THEN NewHeader' ELSE <<>>)
                                   \o ElementOn'[d'])]
  BY <1>1, <1>3, <1>7 DEF L
<1>9. WholeInv'
  BY <1>1, <1>8 DEF WholeInv
<1>10. BeginInv'
  BY <1>1, SameBegins DEF TextInv
<1> QED BY <1>4, <1>9, <1>10 DEF TextInv

\* At the beginning of an element its values are what is left; one with no value
\* is empty.
LEMMA BeginElementText ==
  ASSUME IInv, TextInv, BeginElement
  PROVE  TextInv'
<1>1. /\ pc = "element" /\ d <= Len(elements) /\ d' = d /\ c' = c /\ i' = 1
      /\ UNCHANGED input /\ out' = out /\ header' = header
      /\ values # <<>> => pc' = "value"
      /\ values = <<>> => pc' = "separator" \/ (pc' = "end" /\ ~(Len(out') < buflen'))
  <2>1. values = <<>> => pc' = "separator" \/ (pc' = "end" /\ Len(out') >= buflen)
    BY DEF BeginElement, Goto
  <2>2. /\ Len(out) \in Nat /\ buflen \in Nat /\ out' = out /\ buflen' = buflen
    BY OwnTexts DEF BeginElement, Leave, input
  <2> QED BY <2>1, <2>2 DEF BeginElement, Leave
<1>2. /\ TypeOK /\ out \in Strings /\ c <= Len(segments) /\ c \in 1..Len(segments)
      /\ d \in 1..Len(elements)
  <2>1. c <= Len(segments) /\ TypeOK
    BY <1>1 DEF IInv, TypeOK
  <2> QED BY <1>1, <2>1, OwnTexts, ValuesAhead
<1>3. /\ Text' = Text /\ Complete' = Complete /\ ElementsFrom' = ElementsFrom
      /\ NewHeader' = NewHeader /\ StartsWithHeader' = StartsWithHeader /\ ValueOn' = ValueOn
  BY <1>1, InputStays, SegmentStays, ElementStays
<1> DEFINE H == IF c = 1 /\ d = 1 THEN NewHeader ELSE <<>>
           E == ElementsFrom[d + 1]
<1>4. Text = Complete[out \o (H \o (ElementText(elements[d]) \o E))]
  BY <1>1, <1>2, ElementsAhead DEF TextInv, WholeInv
<1>5. H \in Strings /\ E \in Strings
  <2>1. d + 1 \in 1..(Len(elements) + 1)
    BY <1>2, ElementsAhead
  <2> QED BY <1>2, <2>1, SegmentFacts, ElementsAhead, StringAlgebra
<1>6. BeginInv'
  BY <1>1, SameBegins DEF TextInv
<1>7. CASE values = <<>>
  <2>1. c = 1 /\ d = 1 => ~HasFirst
    BY <1>7 DEF HasFirst, values, elements
  <2>2. H = <<>> /\ (c = 1 /\ d = 1 => ~StartsWithHeader)
    BY <2>1 DEF NewHeader, StartsWithHeader
  <2>3. ElementText(elements[d]) = <<>>
    BY <1>1, <1>2, <1>7, ValuesAhead
  <2> HIDE DEF H, E
  <2>4. <<>> \o E = E
    BY <1>5, StringAlgebra
  <2>5. Text = Complete[out \o E]
    BY <1>4, <2>2, <2>3, <2>4
  <2>6. Text' = Complete'[out' \o ElementsFrom'[d' + 1]]
    BY <1>1, <1>3, <2>5 DEF E
  <2>7. WholeInv'
    BY <1>1, <1>7, <2>6 DEF WholeInv
  <2>8. HeaderInv'
    BY <1>1, <1>3, <1>7, <2>2 DEF HeaderInv, TextInv, AtStart
  <2> QED BY <1>6, <2>7, <2>8 DEF TextInv
<1>8. CASE values # <<>>
  <2>1. ElementText(elements[d]) = ValueOn[1]
    BY <1>1, <1>2, <1>8, ValuesAhead
  <2>2. Text' = Complete'[out' \o ((IF c' = 1 /\ d' = 1 /\ i' = 1 THEN NewHeader' ELSE <<>>)
                                     \o (ValueOn'[i'] \o ElementsFrom'[d' + 1]))]
    BY <1>1, <1>3, <1>4, <2>1
  <2>3. WholeInv'
    BY <1>1, <1>8, <2>2 DEF WholeInv
  <2>4. HeaderInv'
    BY <1>1, <1>3, <1>8 DEF HeaderInv, TextInv, AtStart
  <2> QED BY <1>6, <2>3, <2>4 DEF TextInv
<1> QED BY <1>7, <1>8

\* Where the header is looked for there is a value.
LEMMA AtFirst ==
  ASSUME IInv, pc = "value", First
  PROVE  HasFirst /\ (params.name # NoName => (IsHeader <=> StartsWithHeader))
<1>1. c <= Len(segments) /\ d <= Len(elements) /\ i <= Len(values) /\ TypeOK
      /\ c = 1 /\ d = 1 /\ i = 1
  BY DEF IInv, TypeOK, First
<1>2. Len(segments) \in Nat /\ Len(elements) \in Nat /\ Len(values) \in Nat
  BY <1>1, InputFacts, ElementsAhead, ValuesAhead
<1>3. segments # <<>> /\ elements # <<>> /\ values # <<>>
  BY <1>1, <1>2
<1>4. HasFirst
  BY <1>1, <1>3 DEF HasFirst, elements, values
<1>5. ASSUME params.name # NoName PROVE IsHeader <=> StartsWithHeader
  BY <1>1, <1>4, <1>5 DEF IsHeader, StartsWithHeader, elements, values
<1> QED BY <1>4, <1>5

\* What is ahead of a value.
LEMMA ValueAhead ==
  ASSUME IInv, c <= Len(segments), d <= Len(elements), i <= Len(values)
  PROVE  /\ i \in 1..Len(values) /\ i \in Nat
         /\ values[i].text \in Strings
         /\ EscapedOf[values[i].text] \in Strings
         /\ ValuesFrom[i + 1] \in Strings /\ ElementsFrom[d + 1] \in Strings
         /\ ValuesFrom[i + 1] \o ElementsFrom[d + 1] \in Strings
         /\ ValueOn[i] \in Strings /\ ValueOn[i] \o ElementsFrom[d + 1] \in Strings
         /\ ValueOn[i] = EscapedOf[values[i].text] \o ValuesFrom[i + 1]
         /\ ValueOn[i] \o ElementsFrom[d + 1]
              = EscapedOf[values[i].text] \o (ValuesFrom[i + 1] \o ElementsFrom[d + 1])
<1>1. TypeOK /\ d \in 1..Len(elements) /\ Len(values) \in Nat /\ i \in Nat \ {0}
  BY ValuesAhead, OwnTexts
<1>2. i \in 1..Len(values)
  BY <1>1
<1>3. /\ values[i].text \in Strings /\ Escaped(values[i].text) \in Strings
      /\ ValuesFrom[i + 1] \in Strings /\ ValueOn[i] \in Strings
      /\ ValueOn[i] = Escaped(values[i].text) \o ValuesFrom[i + 1]
  BY <1>1, <1>2, ValuesAhead
<1>4. ElementsFrom[d + 1] \in Strings
  <2>1. Len(elements) \in Nat
    BY <1>1, ElementsAhead
  <2>2. d + 1 \in 1..(Len(elements) + 1)
    BY <1>1, <2>1
  <2> QED BY <1>1, <2>2, ElementsAhead
<1>5. EscapedOf[values[i].text] = Escaped(values[i].text)
  BY <1>1, <1>3, Applied
<1> DEFINE e == EscapedOf[values[i].text]
           v == ValuesFrom[i + 1]
           f == ElementsFrom[d + 1]
<1>6. e \in Strings /\ v \in Strings /\ f \in Strings /\ ValueOn[i] = e \o v
  BY <1>3, <1>4, <1>5
<1> HIDE DEF e, v, f
<1>7. (e \o v) \o f = e \o (v \o f) /\ v \o f \in Strings /\ e \o (v \o f) \in Strings
  BY <1>6, StringAlgebra
<1> QED BY <1>1, <1>2, <1>3, <1>6, <1>7 DEF e, v, f

\* A value with no new header in front of it; it may be the header itself.
LEMMA BeginValueText ==
  ASSUME IInv, TextInv, BeginValue
  PROVE  TextInv'
<1>1. /\ pc = "value" /\ pc' = "text" /\ d' = d /\ c' = c /\ i' = i
      /\ UNCHANGED input /\ out' = out /\ rest' = values[i].text
      /\ header' = (header \/ LooksForHeader) /\ (LooksForHeader => IsHeader)
  BY DEF BeginValue, Leave, where
<1>2. /\ c <= Len(segments) /\ d <= Len(elements) /\ i <= Len(values)
      /\ TypeOK /\ out \in Strings
  BY <1>1, OwnTexts DEF IInv, TypeOK
<1>3. /\ Text' = Text /\ Complete' = Complete /\ ElementsFrom' = ElementsFrom
      /\ NewHeader' = NewHeader /\ StartsWithHeader' = StartsWithHeader
      /\ ValuesFrom' = ValuesFrom /\ EscapedOf' = EscapedOf
  BY <1>1, InputStays, SegmentStays, ElementStays
<1>4. First => (params.name # NoName <=> StartsWithHeader)
  <2>1. First => HasFirst /\ (params.name # NoName => (IsHeader <=> StartsWithHeader))
    BY <1>1, AtFirst
  <2>2. StartsWithHeader => params.name # NoName
    BY DEF StartsWithHeader
  <2>3. First /\ params.name # NoName => IsHeader
    BY <1>1 DEF LooksForHeader
  <2> QED BY <2>1, <2>2, <2>3
<1>5. (IF c = 1 /\ d = 1 /\ i = 1 THEN NewHeader ELSE <<>>) = <<>>
  BY <1>4 DEF First, NewHeader
<1> DEFINE Z == ValueOn[i] \o ElementsFrom[d + 1]
<1>6. Text = Complete[out \o (<<>> \o Z)]
  BY <1>1, <1>5 DEF TextInv, WholeInv
<1>7. /\ Z \in Strings
      /\ Z = EscapedOf[values[i].text] \o (ValuesFrom[i + 1] \o ElementsFrom[d + 1])
  BY <1>2, ValueAhead
<1> HIDE DEF Z
<1>8. Text = Complete[out \o Z]
  BY <1>6, <1>7, StringAlgebra
<1>9. Text' = Complete'[out' \o (EscapedOf'[rest']
                                   \o (ValuesFrom'[i' + 1] \o ElementsFrom'[d' + 1]))]
  BY <1>1, <1>3, <1>7, <1>8
<1>10. WholeInv'
  BY <1>1, <1>9 DEF WholeInv
<1>11. header' <=> (c = 1 /\ StartsWithHeader)
  <2>1. header <=> (c = 1 /\ StartsWithHeader /\ ~(d = 1 /\ i = 1))
    BY <1>1 DEF TextInv, HeaderInv, AtStart
  <2>2. LooksForHeader <=> (params.name # NoName /\ First)
    BY DEF LooksForHeader
  <2> QED BY <1>1, <1>4, <2>1, <2>2 DEF First
<1>12. HeaderInv'
  BY <1>1, <1>3, <1>11 DEF HeaderInv, AtStart
<1>13. BeginInv'
  BY <1>1, SameBegins DEF TextInv
<1> QED BY <1>10, <1>12, <1>13 DEF TextInv

\* A new header comes in front of the first value.
LEMMA BeginHeaderText ==
  ASSUME IInv, TextInv, BeginHeader
  PROVE  TextInv'
<1>1. /\ pc = "value" /\ pc' = "name" /\ d' = d /\ c' = c /\ i' = i
      /\ UNCHANGED input /\ out' = out /\ rest' = params.name /\ header' = header
      /\ params.name # NoName /\ First /\ ~IsHeader
  BY DEF BeginHeader, Leave, where, LooksForHeader
<1>2. /\ c <= Len(segments) /\ d <= Len(elements) /\ i <= Len(values)
      /\ TypeOK /\ out \in Strings /\ c = 1 /\ d = 1 /\ i = 1
  BY <1>1, OwnTexts DEF IInv, TypeOK, First
<1>3. /\ Text' = Text /\ Complete' = Complete /\ ElementsFrom' = ElementsFrom
      /\ NewHeader' = NewHeader /\ StartsWithHeader' = StartsWithHeader
      /\ ValueOn' = ValueOn /\ EscapedOf' = EscapedOf /\ Trailed' = Trailed
      /\ params' = params
  BY <1>1, InputStays, SegmentStays, ElementStays
<1>4. HasFirst /\ ~StartsWithHeader
  BY <1>1, AtFirst
<1>5. out = <<>>
  BY <1>1, <1>2 DEF TextInv, HeaderInv, AtStart
<1>6. params.name \in Strings
  BY <1>1, <1>2, InputFacts DEF Strings
<1>7. /\ NewHeader = Trailed[EscapedOf[params.name]] /\ EscapedOf[params.name] \in Strings
      /\ NewHeader \in Strings
  <2>1. NewHeader = WithTrailer(Escaped(params.name))
    BY <1>1, <1>4 DEF NewHeader
  <2>2. EscapedOf[params.name] = Escaped(params.name) /\ Escaped(params.name) \in Strings
    BY <1>2, <1>6, Applied
  <2>3. /\ Trailed[Escaped(params.name)] = WithTrailer(Escaped(params.name))
        /\ Trailed[Escaped(params.name)] \in Strings
    BY <1>2, <2>2, Applied
  <2> QED BY <2>1, <2>2, <2>3
<1> DEFINE Z == ValueOn[i] \o ElementsFrom[d + 1]
<1>8. Text = Complete[<<>> \o (NewHeader \o Z)]
  BY <1>1, <1>2, <1>5 DEF TextInv, WholeInv
<1>9. Z \in Strings
  BY <1>2, ValueAhead
<1> HIDE DEF Z
<1>10. /\ <<>> \o (NewHeader \o Z) = NewHeader \o Z
       /\ <<>> \o EscapedOf[params.name] = EscapedOf[params.name]
  BY <1>7, <1>9, StringAlgebra
<1>11. Text = Complete[Trailed[<<>> \o EscapedOf[params.name]] \o Z]
  BY <1>7, <1>8, <1>10
<1>12. Text' = Complete'[Trailed'[out' \o EscapedOf'[rest']]
                           \o (ValueOn'[i'] \o ElementsFrom'[d' + 1])]
  BY <1>1, <1>3, <1>5, <1>11 DEF Z
<1>13. WholeInv'
  BY <1>1, <1>12 DEF WholeInv
<1>14. ~header
  BY <1>1, <1>2 DEF TextInv, HeaderInv, AtStart
<1>15. HeaderInv'
  BY <1>1, <1>2, <1>3, <1>4, <1>14 DEF HeaderInv, AtStart, First
<1>16. BeginInv'
  BY <1>1, SameBegins DEF TextInv
<1> QED BY <1>13, <1>15, <1>16 DEF TextInv

\* A character is written whole, or only its escape character and the buffer is
\* full.
LEMMA Written ==
  ASSUME IInv, WriteCharacter
  PROVE  /\ out' \in Strings /\ EscapedOf[rest'] \in Strings
         /\ \/ out' \o EscapedOf[rest'] = out \o EscapedOf[rest]
            \/ /\ ~(Len(out') < buflen)
               /\ \E u \in Strings : out' \o u = out \o EscapedOf[rest]
<1> DEFINE x == Head(rest)
           e == EscapedOf[Tail(rest)]
           t == CharacterText(x)
<1>1. /\ rest # <<>> /\ rest' = Tail(rest)
      /\ Write(IF MustEscape(x) THEN Pair(x) ELSE <<x>>)
      /\ TypeOK /\ out \in Strings /\ rest \in Strings /\ params.escape \in Symbols
      /\ Len(out) \in Nat /\ buflen \in Nat
  BY OwnTexts DEF WriteCharacter
<1>2. x \in Symbols /\ Tail(rest) \in Strings
  BY <1>1 DEF Strings
<1>3. e \in Strings /\ t \in Strings /\ EscapedOf[rest] = t \o e
  <2>1. EscapedOf[rest] = Escaped(rest) /\ e = Escaped(Tail(rest)) /\ e \in Strings
    BY <1>1, <1>2, Applied
  <2>2. t \in Strings /\ Escaped(rest) = t \o Escaped(Tail(rest))
    BY <1>1, EscapedFacts
  <2> QED BY <2>1, <2>2
<1>4. out' = out \o (IF MustEscape(x) THEN Pair(x) ELSE <<x>>)
  BY <1>1 DEF Write
<1>5. CASE ~MustEscape(x) \/ Fits(2)
  <2>1. out' = out \o t
    BY <1>4, <1>5 DEF CharacterText, Pair
  <2> HIDE DEF e, t
  <2>2. out' \in Strings /\ (out \o t) \o e = out \o (t \o e)
    BY <2>1, <1>1, <1>3, StringAlgebra
  <2> QED BY <2>1, <2>2, <1>1, <1>3 DEF e
<1>6. CASE MustEscape(x) /\ ~Fits(2)
  <2> DEFINE p == <<params.escape>>
             q == <<x>>
  <2>1. out' = out \o p /\ t = <<params.escape, x>>
    BY <1>4, <1>6 DEF CharacterText, Pair
  <2>2. p \in Strings /\ q \in Strings /\ t = p \o q /\ Len(p) = 1
    BY <1>1, <1>2, <2>1, StringAlgebra
  <2> HIDE DEF e, t, p, q
  <2>3. out' \in Strings /\ Len(out') = Len(out) + 1
    <3>1. out \in Seq(Symbols) /\ p \in Seq(Symbols)
      BY <1>1, <2>2 DEF Strings
    <3>2. out \o p \in Seq(Symbols) /\ Len(out \o p) = Len(out) + Len(p)
      BY <3>1, ConcatProperties
    <3> QED BY <2>1, <2>2, <3>2 DEF Strings
  <2>4. ~(Len(out') < buflen)
    BY <1>1, <1>6, <2>3 DEF Fits
  <2>5. (p \o q) \o e = p \o (q \o e) /\ q \o e \in Strings
    BY <1>3, <2>2, StringAlgebra
  <2> DEFINE u == q \o e
  <2> HIDE DEF u
  <2>6. u \in Strings /\ t \o e = p \o u
    BY <2>2, <2>5 DEF u
  <2>7. (out \o p) \o u = out \o (p \o u)
    BY <1>1, <2>2, <2>6, StringAlgebra, ZenonT(40)
  <2>8. out' \o u = out \o EscapedOf[rest]
    BY <1>3, <2>1, <2>6, <2>7
  <2> QED BY <1>1, <1>3, <2>3, <2>4, <2>6, <2>8 DEF e
<1> QED BY <1>5, <1>6

\* Each character of a text goes, with its escape character, from what is left to
\* what is written.
LEMMA WriteCharacterText ==
  ASSUME IInv, TextInv, WriteCharacter
  PROVE  TextInv'
<1>1. /\ pc \in {"name", "text"} /\ pc' = pc /\ d' = d /\ c' = c /\ i' = i
      /\ UNCHANGED input /\ header' = header /\ rest' \in Strings
      /\ Len(out) < buflen
  <2>1. rest \in Seq(Symbols) /\ rest # <<>>
    BY OwnTexts DEF WriteCharacter, Strings
  <2>2. Tail(rest) \in Strings
    BY <2>1 DEF Strings
  <2> QED BY <2>2, OwnTexts DEF WriteCharacter, where, Full
<1>2. /\ c <= Len(segments) /\ d <= Len(elements) /\ i <= Len(values)
      /\ TypeOK /\ out \in Strings /\ rest \in Strings
  BY <1>1, OwnTexts DEF IInv, TypeOK
<1>3. /\ Text' = Text /\ Complete' = Complete /\ ElementsFrom' = ElementsFrom
      /\ StartsWithHeader' = StartsWithHeader /\ ValuesFrom' = ValuesFrom
      /\ ValueOn' = ValueOn /\ EscapedOf' = EscapedOf /\ Trailed' = Trailed
      /\ params' = params /\ buflen' = buflen /\ OnlyAdds' = OnlyAdds
  BY <1>1, InputStays, SegmentStays, ElementStays
<1>4. HeaderInv'
  BY <1>1, <1>3 DEF HeaderInv, TextInv, AtStart, First
<1> DEFINE B == ValuesFrom[i + 1] \o ElementsFrom[d + 1]
           Z == ValueOn[i] \o ElementsFrom[d + 1]
           E == EscapedOf[rest]
           F == EscapedOf[rest']
<1>5. B \in Strings /\ Z \in Strings
  BY <1>2, ValueAhead
<1>6. /\ out' \in Strings /\ F \in Strings /\ E \in Strings
      /\ \/ out' \o F = out \o E
         \/ ~(Len(out') < buflen) /\ \E u \in Strings : out' \o u = out \o E
  BY <1>2, Written, Applied
<1>7. PICK v \in Strings : out' \o v = out \o E
  BY <1>6
<1>8. Len(out') < buflen => out' \o F = out \o E
  BY <1>6
<1>9. CASE pc = "text"
  <2>1. Text = Complete[out \o (E \o B)]
    BY <1>1, <1>9 DEF TextInv, WholeInv
  <2> HIDE DEF B, E, F, Z
  <2>2. /\ out \o (E \o B) = (out \o E) \o B
        /\ (out' \o F) \o B = out' \o (F \o B)
        /\ (out' \o v) \o B = out' \o (v \o B)
        /\ v \o B \in Strings
    <3>1. PICK o \in Strings : o = out'
      BY <1>6
    <3>a. B \in Strings /\ E \in Strings /\ F \in Strings /\ out \in Strings
      BY <1>2, <1>5, <1>6
    <3>2. out \o (E \o B) = (out \o E) \o B
      BY <3>a, StringAlgebra, ZenonT(40)
    <3>3. (o \o F) \o B = o \o (F \o B)
      BY <3>a, StringAlgebra, ZenonT(40)
    <3>4. (o \o v) \o B = o \o (v \o B) /\ v \o B \in Strings
      BY <3>a, StringAlgebra, ZenonT(40)
    <3> QED BY <3>1, <3>2, <3>3, <3>4
  <2>3. Len(out') < buflen => Text = Complete[out' \o (F \o B)]
    BY <1>8, <2>1, <2>2
  <2>4. Text = Complete[out' \o (v \o B)]
    BY <1>7, <2>1, <2>2
  <2>5. BeginInv'
    <3> DEFINE w == v \o B
    <3>1. w \in Strings /\ Text = Complete[out' \o w]
      BY <2>2, <2>4
    <3> HIDE DEF w
    <3> QED BY <1>1, <1>2, <1>6, <3>1, CompletedBegins
  <2>6. Len(out') < buflen' =>
          Text' = Complete'[out' \o (EscapedOf'[rest']
                                       \o (ValuesFrom'[i' + 1] \o ElementsFrom'[d' + 1]))]
    BY <1>1, <1>3, <2>3 DEF F, B
  <2>7. WholeInv'
    BY <1>1, <1>9, <2>6 DEF WholeInv
  <2> QED BY <1>4, <2>5, <2>7 DEF TextInv
<1>10. CASE pc = "name"
  <2>1. Text = Complete[Trailed[out \o E] \o Z]
    BY <1>1, <1>10 DEF TextInv, WholeInv
  <2> HIDE DEF B, Z, E, F
  <2>2. Len(out') < buflen => Text = Complete[Trailed[out' \o F] \o Z]
    BY <1>8, <2>1
  <2>3. BeginInv'
    <3>1. OnlyAdds => \E u \in Strings : Trailed[out' \o v] = out' \o u
      <4>1. PICK o \in Strings : o = out'
        BY <1>6
      <4>2. OnlyAdds => \E u \in Strings : Trailed[o \o v] = o \o u
        BY <1>2, TrailedBegins
      <4> QED BY <4>1, <4>2
    <3>2. ASSUME NEW u \in Strings, Trailed[out' \o v] = out' \o u
          PROVE  Text = Complete[out' \o (u \o Z)] /\ u \o Z \in Strings
      <4>1. (out' \o u) \o Z = out' \o (u \o Z) /\ u \o Z \in Strings
        BY <1>5, <1>6, StringAlgebra, ZenonT(40)
      <4>2. Text = Complete[(out' \o u) \o Z]
        BY <1>7, <2>1, <3>2
      <4> QED BY <4>1, <4>2
    <3>3. ASSUME OnlyAdds PROVE BeginInv'
      <4>1. PICK u \in Strings : Trailed[out' \o v] = out' \o u
        BY <3>1, <3>3
      <4>2. Text = Complete[out' \o (u \o Z)] /\ u \o Z \in Strings
        BY <3>2, <4>1
      <4> DEFINE w == u \o Z
      <4>3. w \in Strings /\ Text = Complete[out' \o w]
        BY <4>2
      <4> HIDE DEF w
      <4> QED BY <1>1, <1>2, <1>6, <4>3, CompletedBegins
    <3>4. ~OnlyAdds => BeginInv'
      BY <1>3 DEF BeginInv
    <3> QED BY <3>3, <3>4
  <2>4. Len(out') < buflen' =>
          Text' = Complete'[Trailed'[out' \o EscapedOf'[rest']]
                              \o (ValueOn'[i'] \o ElementsFrom'[d' + 1])]
    BY <1>1, <1>3, <2>2 DEF F, Z
  <2>5. WholeInv'
    BY <1>1, <1>10, <2>4 DEF WholeInv
  <2> QED BY <1>4, <2>3, <2>5 DEF TextInv
<1> QED BY <1>1, <1>9, <1>10

\* At the end of the name the trailer is added to what is written.
LEMMA EndOfNameText ==
  ASSUME IInv, TextInv, EndOfName
  PROVE  TextInv'
<1>1. /\ pc = "name" /\ d' = d /\ c' = c /\ i' = i /\ out' = out
      /\ UNCHANGED input /\ header' = header /\ rest' = params.trailer
      /\ \/ pc' = "nameTrailer" /\ Len(out) < buflen /\ rest = <<>>
         \/ pc' = "end" /\ ~(Len(out) < buflen)
  <2>1. Len(out) \in Nat /\ buflen \in Nat
    BY OwnTexts
  <2> QED BY <2>1 DEF EndOfName, EndOfText, WriteNUL, Goto, where, Full
<1>2. TypeOK /\ out \in Strings
  BY OwnTexts
<1>3. /\ Text' = Text /\ Complete' = Complete /\ ElementsFrom' = ElementsFrom
      /\ StartsWithHeader' = StartsWithHeader /\ ValueOn' = ValueOn
      /\ StepsOf' = StepsOf /\ Trailed' = Trailed
      /\ params' = params /\ buflen' = buflen
  BY <1>1, InputStays, SegmentStays, ElementStays
<1>4. BeginInv'
  BY <1>1, SameBegins DEF TextInv
<1>5. HeaderInv'
  BY <1>1, <1>3 DEF HeaderInv, TextInv, AtStart, First
<1>6. CASE pc' = "end"
  <2>1. WholeInv'
    BY <1>1, <1>3, <1>6 DEF WholeInv
  <2> QED BY <1>4, <1>5, <2>1 DEF TextInv
<1>7. CASE pc' = "nameTrailer"
  <2> DEFINE n == Len(params.trailer)
             Z == ValueOn[i] \o ElementsFrom[d + 1]
  <2>1. rest = <<>> /\ Text = Complete[Trailed[out \o EscapedOf[rest]] \o Z]
    BY <1>1, <1>7 DEF TextInv, WholeInv
  <2>2. out \o EscapedOf[rest] = out
    <3>1. EscapedOf[<<>>] = <<>>
      BY <1>2, EscapedFacts, Applied, StringAlgebra
    <3> QED BY <1>2, <2>1, <3>1, StringAlgebra
  <2>3. StepsOf[out][0] = out /\ 0 \in 0..n
    BY <1>2, Applied, TrailerFacts
  <2>4. SubSeq(params.trailer, 0 + 1, n) = params.trailer
    <3>1. params.trailer \in Seq(Symbols)
      BY <1>2, InputFacts
    <3> QED BY <3>1, SubSeqFull
  <2> HIDE DEF n, Z
  <2>5. \E s \in Strings, k \in 0..n :
          /\ out = StepsOf[s][k] /\ params.trailer = SubSeq(params.trailer, k + 1, n)
          /\ Text = Complete[Trailed[s] \o Z]
    BY <1>2, <2>1, <2>2, <2>3, <2>4
  <2>6. \E s \in Strings, k \in 0..Len(params'.trailer) :
          /\ out' = StepsOf'[s][k]
          /\ rest' = SubSeq(params'.trailer, k + 1, Len(params'.trailer))
          /\ Text' = Complete'[Trailed'[s] \o (ValueOn'[i'] \o ElementsFrom'[d' + 1])]
    BY <1>1, <1>3, <2>5 DEF n, Z
  <2>7. WholeInv'
    BY <1>7, <2>6 DEF WholeInv
  <2> QED BY <1>4, <1>5, <2>7 DEF TextInv
<1> QED BY <1>1, <1>6, <1>7

\* The next piece of the trailer.
LEMMA NextPiece ==
  ASSUME TypeOK, rest # <<>>, NEW s \in Strings, NEW k \in 0..Len(params.trailer),
         rest = SubSeq(params.trailer, k + 1, Len(params.trailer))
  PROVE  /\ k + 1 \in 0..Len(params.trailer)
         /\ Tail(rest) = SubSeq(params.trailer, (k + 1) + 1, Len(params.trailer))
         /\ Head(rest) \in Symbols
         /\ StepsOf[s][k] \in Strings
         /\ StepsOf[s][k + 1] = AfterPiece(StepsOf[s][k], Head(rest))
         /\ OnlyAdds => Head(rest) # "%_"
<1> DEFINE r == params.trailer
           n == Len(r)
<1>1. r \in Seq(Symbols) /\ n \in Nat /\ DOMAIN r = 1..n
  <2>1. r \in Seq(Symbols)
    BY InputFacts
  <2> HIDE DEF r
  <2> QED BY <2>1
<1>2. k + 1 \in 1..n
  <2> SUFFICES ASSUME ~(k + 1 <= n) PROVE FALSE
    BY <1>1
  <2>1. SubSeq(r, k + 1, n) = <<>>
    BY <1>1, SubSeqEmpty
  <2> QED BY <2>1
<1>3. Head(rest) = r[k + 1] /\ Tail(rest) = SubSeq(r, (k + 1) + 1, n)
  <2> DEFINE m == k + 1
  <2>1. n \in m..n /\ m \in 1..Len(r)
    BY <1>1, <1>2
  <2>2. rest = SubSeq(r, m, n) /\ n \in m..Len(r)
    BY <2>1
  <2> HIDE DEF m
  <2>3. n \in m..Len(r) /\ m \in 1..Len(r) /\ r \in Seq(Symbols)
    BY <1>1, <2>1, <2>2
  <2> HIDE DEF r, n
  <2>4. Head(SubSeq(r, m, n)) = r[m] /\ Tail(SubSeq(r, m, n)) = SubSeq(r, m + 1, n)
    BY <2>3, HeadTailOfSubSeq
  <2>5. Head(rest) = r[m] /\ Tail(rest) = SubSeq(r, m + 1, n)
    BY <2>2, <2>4
  <2> QED BY <2>5 DEF m
<1>4. StepsOf[s] = TrailerSteps(s)
  BY DEF StepsOf
<1>5. r[k + 1] \in Symbols
  BY <1>1, <1>2, ElementOfSequence
<1>6. /\ TrailerSteps(s)[k] \in Strings
      /\ TrailerSteps(s)[k + 1] = AfterPiece(TrailerSteps(s)[k], r[k + 1])
  <2>1. k + 1 \in 1..Len(params.trailer) /\ (k + 1) - 1 = k
    BY <1>2
  <2> QED BY <2>1, TrailerFacts
<1>7. OnlyAdds => r[k + 1] # "%_"
  BY <1>1, <1>2 DEF OnlyAdds
<1>8. k + 1 \in 0..n
  BY <1>2
<1> QED BY <1>3, <1>4, <1>5, <1>6, <1>7, <1>8

\* A piece is written whole, or its beginning and the buffer is full.
LEMMA PieceWritten ==
  ASSUME IInv, TrailerPiece \/ Backspace
  PROVE  /\ out' \in Strings
         /\ Len(out') < buflen => out' = AfterPiece(out, Head(rest))
         /\ Head(rest) # "%_" =>
              \E u \in Strings : out' \o u = AfterPiece(out, Head(rest))
<1> DEFINE x == Head(rest)
           e == Expansion(x)
<1>1. /\ TypeOK /\ out \in Strings /\ rest \in Strings /\ rest # <<>>
      /\ Len(out) \in Nat /\ buflen \in Nat
  BY OwnTexts DEF TrailerPiece, Backspace
<1>2. x \in Symbols
  BY <1>1 DEF Strings
<1>3. e \in Strings /\ AfterPiece(out, x) \in Strings
  BY <1>1, <1>2, AfterPieceType
<1>4. CASE Backspace
  <2>1. out' = AfterPiece(out, x) /\ x = "%_"
    BY <1>4 DEF Backspace, AfterPiece, Front
  <2> QED BY <1>3, <2>1
<1>5. CASE TrailerPiece
  <2>1. x # "%_" /\ out' = out \o (IF Fits(2) THEN e ELSE <<e[1]>>)
    BY <1>5 DEF TrailerPiece, Write
  <2>2. AfterPiece(out, x) = out \o e
    BY <2>1 DEF AfterPiece
  <2>3. (\E y \in Symbols : e = <<y>>) \/ e = <<"%", "x">>
    BY <1>1, <1>2, ExpansionFits
  <2>4. CASE out' = out \o e
    <3>1. out' \o <<>> = out' /\ <<>> \in Strings /\ out' \in Strings
      BY <1>1, <1>3, <2>4, StringAlgebra
    <3> QED BY <2>2, <2>4, <3>1
  <2>5. CASE ~Fits(2) /\ e = <<"%", "x">>
    <3> DEFINE p == <<"%">>
               q == <<"x">>
    <3>1. out' = out \o p
      BY <2>1, <2>5
    <3>2. p \in Strings /\ q \in Strings /\ e = p \o q /\ Len(p) = 1
      <4>1. "%" \in Symbols /\ "x" \in Symbols
        BY DEF Symbols
      <4> QED BY <2>5, <4>1, StringAlgebra
    <3> HIDE DEF p, q, e
    <3>3. out' \in Strings /\ Len(out') = Len(out) + 1
      <4>1. out \in Seq(Symbols) /\ p \in Seq(Symbols)
        BY <1>1, <3>2 DEF Strings
      <4>2. out \o p \in Seq(Symbols) /\ Len(out \o p) = Len(out) + Len(p)
        BY <4>1, ConcatProperties
      <4> QED BY <3>1, <3>2, <4>2 DEF Strings
    <3>4. ~(Len(out') < buflen)
      BY <1>1, <2>5, <3>3 DEF Fits
    <3>5. (out \o p) \o q = out \o (p \o q)
      BY <1>1, <3>2, StringAlgebra
    <3> QED BY <2>2, <3>1, <3>2, <3>3, <3>4, <3>5
  <2>6. out' = out \o e \/ (~Fits(2) /\ e = <<"%", "x">>)
    <3>1. ASSUME NEW y \in Symbols, e = <<y>> PROVE out' = out \o e
      <4>1. e[1] = y
        BY <3>1
      <4> HIDE DEF e
      <4> QED BY <2>1, <3>1, <4>1
    <3> HIDE DEF e
    <3> QED BY <2>1, <2>3, <3>1
  <2> QED BY <2>4, <2>5, <2>6
<1> QED BY <1>4, <1>5

\* What a trailer that only adds makes begins with what is written of it.
LEMMA PieceBegins ==
  ASSUME IInv, OnlyAdds, TrailerPiece \/ Backspace, NEW s \in Strings,
         NEW k \in 0..Len(params.trailer), out = StepsOf[s][k],
         rest = SubSeq(params.trailer, k + 1, Len(params.trailer))
  PROVE  \E u \in Strings : Trailed[s] = out' \o u
<1>1. TypeOK /\ rest # <<>>
  BY OwnTexts DEF TrailerPiece, Backspace
<1>2. /\ k + 1 \in 0..Len(params.trailer) /\ Head(rest) # "%_"
      /\ StepsOf[s][k + 1] = AfterPiece(out, Head(rest))
  BY <1>1, NextPiece
<1>3. PICK v \in Strings : out' \o v = AfterPiece(out, Head(rest))
  BY <1>2, PieceWritten
<1>4. StepsOf[s] = TrailerSteps(s) /\ Trailed[s] = WithTrailer(s)
  BY <1>1, Applied
<1>5. PICK u \in Strings : WithTrailer(s) = TrailerSteps(s)[k + 1] \o u
  BY <1>1, <1>2, TrailerAdds
<1>6. PICK o \in Strings : o = out'
  BY PieceWritten
<1>7. (o \o v) \o u = o \o (v \o u) /\ v \o u \in Strings
  BY StringAlgebra
<1>8. Trailed[s] = o \o (v \o u)
  BY <1>2, <1>3, <1>4, <1>5, <1>6, <1>7
<1> QED BY <1>6, <1>7, <1>8

\* The pieces of a trailer, of a new header or of the first segment.
LEMMA PieceText ==
  ASSUME IInv, TextInv, TrailerPiece \/ Backspace
  PROVE  TextInv'
<1>1. /\ pc \in {"nameTrailer", "trailer"} /\ pc' = pc /\ d' = d /\ c' = c /\ i' = i
      /\ UNCHANGED input /\ header' = header /\ rest' = Tail(rest) /\ rest # <<>>
      /\ Len(out) < buflen
  BY OwnTexts DEF TrailerPiece, Backspace, InTrailer, where, Full
<1>2. /\ c <= Len(segments) /\ TypeOK /\ out \in Strings /\ rest \in Strings
      /\ out' \in Strings
  BY <1>1, OwnTexts, PieceWritten DEF IInv, TypeOK
<1>3. /\ Text' = Text /\ Complete' = Complete /\ ElementsFrom' = ElementsFrom
      /\ StartsWithHeader' = StartsWithHeader /\ SegmentsFrom' = SegmentsFrom
      /\ ValueOn' = ValueOn /\ StepsOf' = StepsOf /\ Trailed' = Trailed
      /\ params' = params /\ buflen' = buflen /\ OnlyAdds' = OnlyAdds
  BY <1>1, InputStays, SegmentStays, ElementStays
<1>4. HeaderInv'
  BY <1>1, <1>3 DEF HeaderInv, TextInv, AtStart, First
<1> DEFINE n == Len(params.trailer)
           At(s, k) == out = StepsOf[s][k] /\ rest = SubSeq(params.trailer, k + 1, n)
<1>5. ASSUME NEW s \in Strings, NEW k \in 0..n, At(s, k)
      PROVE  /\ k + 1 \in 0..n
             /\ Len(out') < buflen =>
                  /\ out' = StepsOf[s][k + 1]
                  /\ rest' = SubSeq(params.trailer, (k + 1) + 1, n)
             /\ OnlyAdds => \E u \in Strings : Trailed[s] = out' \o u
  <2>1. /\ k + 1 \in 0..n /\ Tail(rest) = SubSeq(params.trailer, (k + 1) + 1, n)
        /\ StepsOf[s][k + 1] = AfterPiece(out, Head(rest))
    BY <1>1, <1>2, <1>5, NextPiece
  <2>2. OnlyAdds => \E u \in Strings : Trailed[s] = out' \o u
    BY <1>5, PieceBegins
  <2> QED BY <1>1, <2>1, <2>2, PieceWritten
<1>6. CASE pc = "nameTrailer"
  <2> DEFINE Z == ValueOn[i] \o ElementsFrom[d + 1]
  <2>1. PICK s \in Strings, k \in 0..n : At(s, k) /\ Text = Complete[Trailed[s] \o Z]
    BY <1>1, <1>6 DEF TextInv, WholeInv
  <2>2. Z \in Strings
    <3>1. d <= Len(elements) /\ i <= Len(values)
      BY <1>6 DEF IInv, TypeOK
    <3> QED BY <1>2, <3>1, ValueAhead
  <2> HIDE DEF Z
  <2>3. k + 1 \in 0..n /\ Len(out') < buflen =>
          out' = StepsOf[s][k + 1] /\ rest' = SubSeq(params.trailer, (k + 1) + 1, n)
    BY <1>5, <2>1
  <2>4. OnlyAdds => \E u \in Strings : Trailed[s] = out' \o u
    BY <1>5, <2>1
  <2>5. BeginInv'
    <3>1. ~OnlyAdds => BeginInv'
      BY <1>3 DEF BeginInv
    <3>2. ASSUME OnlyAdds PROVE BeginInv'
      <4>1. PICK u \in Strings : Trailed[s] = out' \o u
        BY <2>4, <3>2
      <4>2. PICK o \in Strings : o = out'
        BY <1>2
      <4>3. (o \o u) \o Z = o \o (u \o Z) /\ u \o Z \in Strings
        BY <2>2, StringAlgebra
      <4> DEFINE w == u \o Z
      <4>4. w \in Strings /\ Text = Complete[out' \o w]
        BY <2>1, <4>1, <4>2, <4>3
      <4> HIDE DEF w
      <4> QED BY <1>1, <1>2, <4>4, CompletedBegins
    <3> QED BY <3>1, <3>2
  <2>6. Len(out') < buflen' =>
          \E t \in Strings, m \in 0..Len(params'.trailer) :
            /\ out' = StepsOf'[t][m]
            /\ rest' = SubSeq(params'.trailer, m + 1, Len(params'.trailer))
            /\ Text' = Complete'[Trailed'[t] \o (ValueOn'[i'] \o ElementsFrom'[d' + 1])]
    <3> SUFFICES ASSUME Len(out') < buflen
                 PROVE  \E t \in Strings, m \in 0..n :
                          /\ out' = StepsOf[t][m] /\ rest' = SubSeq(params.trailer, m + 1, n)
                          /\ Text = Complete[Trailed[t] \o Z]
      BY <1>1, <1>3 DEF Z
    <3>1. k + 1 \in 0..n
      BY <1>5, <2>1
    <3> HIDE DEF n
    <3> QED BY <2>1, <2>3, <3>1
  <2>7. WholeInv'
    BY <1>1, <1>6, <2>6 DEF WholeInv
  <2> QED BY <1>4, <2>5, <2>7 DEF TextInv
<1>7. CASE pc = "trailer"
  <2> DEFINE R == SegmentsFrom[c + 1]
  <2>1. PICK s \in Strings, k \in 0..n : At(s, k) /\ Text = Trailed[s] \o R
    BY <1>1, <1>7 DEF TextInv, WholeInv
  <2>2. R \in Strings
    BY <1>2, Completed
  <2> HIDE DEF R
  <2>3. k + 1 \in 0..n /\ Len(out') < buflen =>
          out' = StepsOf[s][k + 1] /\ rest' = SubSeq(params.trailer, (k + 1) + 1, n)
    BY <1>5, <2>1
  <2>4. OnlyAdds => \E u \in Strings : Trailed[s] = out' \o u
    BY <1>5, <2>1
  <2>5. BeginInv'
    <3>1. ~OnlyAdds => BeginInv'
      BY <1>3 DEF BeginInv
    <3>2. ASSUME OnlyAdds PROVE BeginInv'
      <4>1. PICK u \in Strings : Trailed[s] = out' \o u
        BY <2>4, <3>2
      <4>2. PICK o \in Strings : o = out'
        BY <1>2
      <4>3. (o \o u) \o R = o \o (u \o R) /\ u \o R \in Strings
        BY <2>2, StringAlgebra
      <4>4. \E w \in Strings : Text = out' \o w
        BY <2>1, <4>1, <4>2, <4>3
      <4> QED BY <1>3, <4>4 DEF BeginInv
    <3> QED BY <3>1, <3>2
  <2>6. Len(out') < buflen' =>
          \E t \in Strings, m \in 0..Len(params'.trailer) :
            /\ out' = StepsOf'[t][m]
            /\ rest' = SubSeq(params'.trailer, m + 1, Len(params'.trailer))
            /\ Text' = Trailed'[t] \o SegmentsFrom'[c' + 1]
    <3> SUFFICES ASSUME Len(out') < buflen
                 PROVE  \E t \in Strings, m \in 0..n :
                          /\ out' = StepsOf[t][m] /\ rest' = SubSeq(params.trailer, m + 1, n)
                          /\ Text = Trailed[t] \o R
      BY <1>1, <1>3 DEF R
    <3>1. k + 1 \in 0..n
      BY <1>5, <2>1
    <3> HIDE DEF n
    <3> QED BY <2>1, <2>3, <3>1
  <2>7. WholeInv'
    BY <1>1, <1>7, <2>6 DEF WholeInv
  <2> QED BY <1>4, <2>5, <2>7 DEF TextInv
<1> QED BY <1>1, <1>6, <1>7

\* Behind what it wrote the writer goes on, or the buffer is full.
LEMMA GoesOn ==
  ASSUME IInv, NEW l, Goto(l), UNCHANGED input, out' \in Strings
  PROVE  pc' = l \/ (pc' = "end" /\ ~(Len(out') < buflen'))
<1>1. Len(out') \in Nat /\ buflen \in Nat /\ buflen' = buflen
  BY OwnTexts DEF Strings, input
<1> QED BY <1>1 DEF Goto

\* At the end of a value that was written whole, what follows it is left.
LEMMA EndOfValueText ==
  ASSUME IInv, TextInv, EndOfValue
  PROVE  TextInv'
<1>1. /\ pc = "text" /\ d' = d /\ c' = c /\ i' = i /\ out' = out
      /\ UNCHANGED input /\ header' = header
      /\ rest = <<>> \/ Full
      /\ Goto(IF MoreValues THEN "sub" ELSE "separator")
  BY DEF EndOfValue, EndOfText, WriteNUL, where
<1>2. /\ TypeOK /\ out \in Strings /\ c <= Len(segments) /\ d <= Len(elements)
      /\ i <= Len(values) /\ Len(out) \in Nat /\ buflen \in Nat
  BY <1>1, OwnTexts DEF IInv, TypeOK
<1>3. /\ Text' = Text /\ Complete' = Complete /\ ElementsFrom' = ElementsFrom
      /\ StartsWithHeader' = StartsWithHeader /\ ValuesFrom' = ValuesFrom
      /\ buflen' = buflen
  BY <1>1, InputStays, SegmentStays, ElementStays
<1>4. \/ pc' = (IF MoreValues THEN "sub" ELSE "separator") /\ Len(out) < buflen
      \/ pc' = "end" /\ ~(Len(out) < buflen)
  BY <1>1, <1>2 DEF Goto
<1>5. BeginInv'
  BY <1>1, SameBegins DEF TextInv
<1>6. HeaderInv'
  BY <1>1, <1>3, <1>4 DEF HeaderInv, TextInv, AtStart
<1>7. CASE pc' = "end"
  <2>1. WholeInv'
    BY <1>1, <1>3, <1>4, <1>7 DEF WholeInv
  <2> QED BY <1>5, <1>6, <2>1 DEF TextInv
<1>8. CASE pc' # "end"
  <2> DEFINE B == ValuesFrom[i + 1] \o ElementsFrom[d + 1]
  <2>1. Len(out) < buflen /\ rest = <<>>
    BY <1>1, <1>2, <1>4, <1>8 DEF Full
  <2>2. Text = Complete[out \o (EscapedOf[rest] \o B)]
    BY <1>1, <2>1 DEF TextInv, WholeInv
  <2>3. EscapedOf[<<>>] = <<>>
    BY <1>2, EscapedFacts, Applied, StringAlgebra
  <2>4. B \in Strings
    BY <1>2, ValueAhead
  <2>5. Text = Complete[out \o B]
    <3> HIDE DEF B
    <3> QED BY <2>1, <2>2, <2>3, <2>4, StringAlgebra
  <2>6. CASE MoreValues
    <3>1. Text' = Complete'[out' \o (ValuesFrom'[i' + 1] \o ElementsFrom'[d' + 1])]
      BY <1>1, <1>3, <2>5
    <3>2. WholeInv'
      BY <1>4, <1>8, <2>6, <3>1 DEF WholeInv
    <3> QED BY <1>5, <1>6, <3>2 DEF TextInv
  <2>7. CASE ~MoreValues
    <3>1. i = Len(values)
      BY <1>2, <2>7, ValueAhead DEF MoreValues
    <3>2. ValuesFrom[i + 1] = <<>> /\ ElementsFrom[d + 1] \in Strings
      BY <1>2, <3>1, ValuesAhead, ValueAhead
    <3>3. Text = Complete[out \o ElementsFrom[d + 1]]
      BY <2>5, <3>2, StringAlgebra
    <3>4. Text' = Complete'[out' \o ElementsFrom'[d' + 1]]
      BY <1>1, <1>3, <3>3
    <3>5. WholeInv'
      BY <1>4, <1>8, <2>7, <3>4 DEF WholeInv
    <3> QED BY <1>5, <1>6, <3>5 DEF TextInv
  <2> QED BY <2>6, <2>7
<1> QED BY <1>7, <1>8

\* Where the format is read beyond its end nothing is promised of the text.
LEMMA TrailerOverrunText ==
  ASSUME IInv, TextInv, TrailerOverrun
  PROVE  TextInv'
<1>1. pc' = "undefined" /\ out' = out /\ UNCHANGED input
  BY DEF TrailerOverrun, Leave
<1>2. BeginInv'
  BY <1>1, SameBegins DEF TextInv
<1>3. HeaderInv' /\ WholeInv'
  BY <1>1 DEF HeaderInv, WholeInv, AtStart
<1> QED BY <1>2, <1>3 DEF TextInv

\* With nothing left of the trailer, all its pieces are written.
LEMMA TrailerDone ==
  ASSUME TypeOK, rest = <<>>, NEW s \in Strings, NEW k \in 0..Len(params.trailer),
         out = StepsOf[s][k], rest = SubSeq(params.trailer, k + 1, Len(params.trailer))
  PROVE  out = Trailed[s]
<1> DEFINE r == params.trailer
           n == Len(r)
<1>1. r \in Seq(Symbols) /\ n \in Nat
  <2>1. r \in Seq(Symbols)
    BY InputFacts
  <2> HIDE DEF r
  <2> QED BY <2>1
<1>2. k = n
  <2>1. SUFFICES ASSUME k + 1 \in 1..n PROVE FALSE
    BY <1>1
  <2> DEFINE m == k + 1
  <2>2. m \in 1..n /\ n \in m..n /\ SubSeq(r, m, n) = <<>>
    BY <1>1, <2>1
  <2>3. m \in Int /\ n \in Int /\ m <= n
    BY <1>1, <2>2
  <2> HIDE DEF m, r, n
  <2>a. \A j \in m..n : r[j] \in Symbols
    <3>1. \A j \in m..n : j \in 1..Len(r)
      BY <2>2, <2>3 DEF n
    <3> QED BY <1>1, <3>1, ElementOfSequence
  <2>b. Len(SubSeq(r, m, n)) = IF m <= n THEN n - m + 1 ELSE 0
    BY <2>3, <2>a, SubSeqProperties
  <2>4. Len(<<>>) = 0
    OBVIOUS
  <2>5. n - m + 1 = 0
    BY <2>2, <2>3, <2>4, <2>b
  <2> QED BY <2>3, <2>5
<1> QED BY <1>2, Applied

\* Behind the name of a new header comes the first value.
LEMMA EndOfNewHeaderText ==
  ASSUME IInv, TextInv, EndOfNewHeader
  PROVE  TextInv'
<1>1. /\ pc = "nameTrailer" /\ d' = d /\ c' = c /\ i' = i /\ out' = out
      /\ UNCHANGED input /\ header' = header /\ rest' = values[i].text
      /\ rest = <<>> \/ Full
      /\ Goto("text")
  BY DEF EndOfNewHeader, EndOfText, WriteNUL, where
<1>2. /\ TypeOK /\ out \in Strings /\ c <= Len(segments) /\ d <= Len(elements)
      /\ i <= Len(values) /\ Len(out) \in Nat /\ buflen \in Nat
  BY <1>1, OwnTexts DEF IInv, TypeOK
<1>3. /\ Text' = Text /\ Complete' = Complete /\ ElementsFrom' = ElementsFrom
      /\ StartsWithHeader' = StartsWithHeader /\ ValuesFrom' = ValuesFrom
      /\ EscapedOf' = EscapedOf /\ buflen' = buflen
  BY <1>1, InputStays, SegmentStays, ElementStays
<1>4. (pc' = "text" /\ Len(out) < buflen) \/ (pc' = "end" /\ ~(Len(out) < buflen))
  BY <1>1, <1>2 DEF Goto
<1>5. BeginInv'
  BY <1>1, SameBegins DEF TextInv
<1>6. HeaderInv'
  BY <1>1, <1>3, <1>4 DEF HeaderInv, TextInv, AtStart, First
<1>7. CASE pc' = "end"
  <2>1. WholeInv'
    BY <1>1, <1>3, <1>4, <1>7 DEF WholeInv
  <2> QED BY <1>5, <1>6, <2>1 DEF TextInv
<1>8. CASE pc' = "text"
  <2> DEFINE Z == ValueOn[i] \o ElementsFrom[d + 1]
  <2>1. Len(out) < buflen /\ rest = <<>>
    BY <1>1, <1>2, <1>4, <1>8 DEF Full
  <2>2. PICK s \in Strings, k \in 0..Len(params.trailer) :
          /\ out = StepsOf[s][k]
          /\ rest = SubSeq(params.trailer, k + 1, Len(params.trailer))
          /\ Text = Complete[Trailed[s] \o Z]
    BY <1>1, <2>1 DEF TextInv, WholeInv
  <2>3. out = Trailed[s]
    BY <1>2, <2>1, <2>2, TrailerDone
  <2>4. Z = EscapedOf[values[i].text] \o (ValuesFrom[i + 1] \o ElementsFrom[d + 1])
    BY <1>2, ValueAhead
  <2>5. Text' = Complete'[out' \o (EscapedOf'[rest']
                                     \o (ValuesFrom'[i' + 1] \o ElementsFrom'[d' + 1]))]
    BY <1>1, <1>3, <2>2, <2>3, <2>4
  <2>6. WholeInv'
    BY <1>8, <2>5 DEF WholeInv
  <2> QED BY <1>5, <1>6, <2>6 DEF TextInv
<1> QED BY <1>4, <1>7, <1>8

\* A header that is not new ends with its trailer.
LEMMA EndOfHeaderText ==
  ASSUME IInv, TextInv, EndOfHeader
  PROVE  TextInv'
<1>1. /\ pc = "trailer" /\ c' = c + 1 /\ out' = out
      /\ UNCHANGED input /\ header' = FALSE
      /\ rest = <<>> \/ Full
      /\ Goto("segment")
  BY DEF EndOfHeader, EndOfText, WriteNUL
<1>2. /\ TypeOK /\ out \in Strings /\ Len(out) \in Nat /\ buflen \in Nat
      /\ c \in Nat \ {0}
  BY <1>1, OwnTexts DEF IInv, TypeOK
<1>3. Text' = Text /\ SegmentsFrom' = SegmentsFrom /\ buflen' = buflen
  BY <1>1, InputStays
<1>4. (pc' = "segment" /\ Len(out) < buflen) \/ (pc' = "end" /\ ~(Len(out) < buflen))
  BY <1>1, <1>2 DEF Goto
<1>5. BeginInv'
  BY <1>1, SameBegins DEF TextInv
<1>6. HeaderInv'
  <2>1. c' # 1
    BY <1>1, <1>2
  <2> QED BY <1>1, <1>4, <2>1 DEF HeaderInv, AtStart
<1>7. CASE pc' = "end"
  <2>1. WholeInv'
    BY <1>1, <1>3, <1>4, <1>7 DEF WholeInv
  <2> QED BY <1>5, <1>6, <2>1 DEF TextInv
<1>8. CASE pc' = "segment"
  <2>1. Len(out) < buflen /\ rest = <<>>
    BY <1>1, <1>2, <1>4, <1>8 DEF Full
  <2>2. PICK s \in Strings, k \in 0..Len(params.trailer) :
          /\ out = StepsOf[s][k]
          /\ rest = SubSeq(params.trailer, k + 1, Len(params.trailer))
          /\ Text = Trailed[s] \o SegmentsFrom[c + 1]
    BY <1>1, <2>1 DEF TextInv, WholeInv
  <2>3. out = Trailed[s]
    BY <1>2, <2>1, <2>2, TrailerDone
  <2>4. Text' = out' \o SegmentsFrom'[c']
    BY <1>1, <1>3, <2>2, <2>3
  <2>5. WholeInv'
    BY <1>8, <2>4 DEF WholeInv
  <2> QED BY <1>5, <1>6, <2>5 DEF TextInv
<1> QED BY <1>4, <1>7, <1>8

\* Between two values goes the separator of values.
LEMMA SubSeparatorText ==
  ASSUME IInv, TextInv, SubSeparator
  PROVE  TextInv'
<1> DEFINE p == <<params.sub>>
           V == ValueOn[i + 1]
           E == ElementsFrom[d + 1]
           Z == V \o E
<1>1. /\ pc = "sub" /\ d' = d /\ c' = c /\ i' = i + 1 /\ out' = out \o p
      /\ UNCHANGED input /\ header' = header /\ Goto("value")
  BY DEF SubSeparator, Write
<1>2. /\ TypeOK /\ out \in Strings /\ c <= Len(segments) /\ d <= Len(elements)
      /\ i <= Len(values) /\ i < Len(values) /\ i \in Nat \ {0} /\ params.sub \in Symbols
  BY <1>1, OwnTexts DEF IInv, TypeOK, SubInside
<1>3. /\ Text' = Text /\ Complete' = Complete /\ ElementsFrom' = ElementsFrom
      /\ StartsWithHeader' = StartsWithHeader /\ ValueOn' = ValueOn
  BY <1>1, InputStays, SegmentStays, ElementStays
<1>4. i \in 1..Len(values) /\ i + 1 \in 1..Len(values) /\ i + 1 # 1
  BY <1>2, ValuesAhead
<1>5. /\ p \in Strings /\ V \in Strings /\ E \in Strings /\ ValuesFrom[i + 1] = p \o V
  <2>1. p \in Strings
    BY <1>2, StringAlgebra
  <2>2. V \in Strings /\ ValuesFrom[i + 1] = p \o V
    BY <1>2, <1>4, ValuesAhead
  <2>3. E \in Strings
    BY <1>2, ValueAhead
  <2> QED BY <2>1, <2>2, <2>3
<1>6. Text = Complete[out \o (ValuesFrom[i + 1] \o E)]
  BY <1>1 DEF TextInv, WholeInv
<1> HIDE DEF p, V, E
<1>7. Z \in Strings /\ (p \o V) \o E = p \o Z
  BY <1>5, StringAlgebra
<1> HIDE DEF Z
<1>8. out' \in Strings /\ out \o (p \o Z) = out' \o Z /\ <<>> \o Z = Z
  <2>1. out \o p \in Strings /\ out \o (p \o Z) = (out \o p) \o Z
    BY <1>2, <1>5, <1>7, StringAlgebra, ZenonT(40)
  <2>2. <<>> \o Z = Z
    BY <1>7, StringAlgebra
  <2> QED BY <1>1, <2>1, <2>2
<1>9. Text = Complete[out' \o Z]
  BY <1>5, <1>6, <1>7, <1>8
<1>10. BeginInv'
  BY <1>1, <1>2, <1>7, <1>8, <1>9, CompletedBegins
<1>11. pc' = "value" \/ (pc' = "end" /\ ~(Len(out') < buflen'))
  BY <1>1, <1>8, GoesOn
<1>12. HeaderInv'
  BY <1>1, <1>3, <1>4, <1>11 DEF HeaderInv, TextInv, AtStart
<1>13. WholeInv'
  <2>1. (IF c' = 1 /\ d' = 1 /\ i' = 1 THEN NewHeader' ELSE <<>>) = <<>>
    BY <1>1, <1>4
  <2>2. ValueOn'[i'] \o ElementsFrom'[d' + 1] = Z
    BY <1>1, <1>3 DEF Z, V, E
  <2>3. Text' = Complete'[out' \o ((IF c' = 1 /\ d' = 1 /\ i' = 1 THEN NewHeader' ELSE <<>>)
                                     \o (ValueOn'[i'] \o ElementsFrom'[d' + 1]))]
    BY <1>3, <1>8, <1>9, <2>1, <2>2
  <2> QED BY <1>11, <2>3 DEF WholeInv
<1> QED BY <1>10, <1>12, <1>13 DEF TextInv

\* Between two elements goes the separator of elements, which in front of the
\* second is the tag separator.
LEMMA ElementSeparatorText ==
  ASSUME IInv, TextInv, ElementSeparator
  PROVE  TextInv'
<1> DEFINE p == <<IF d = 1 THEN params.tag ELSE params.data>>
           E == ElementOn[d + 1]
<1>1. /\ pc = "separator" /\ d' = d + 1 /\ c' = c
      /\ out' = IF d < Len(elements) THEN out \o p ELSE out
      /\ UNCHANGED input /\ header' = header /\ Goto("element")
  BY DEF ElementSeparator, Write, Leave, NextElement, Separator
<1>2. /\ TypeOK /\ out \in Strings /\ c <= Len(segments) /\ d <= Len(elements)
      /\ d \in Nat \ {0} /\ params.tag \in Symbols /\ params.data \in Symbols
  BY <1>1, OwnTexts DEF IInv, TypeOK
<1>3. /\ Text' = Text /\ Complete' = Complete /\ ElementOn' = ElementOn
      /\ StartsWithHeader' = StartsWithHeader
  BY <1>1, InputStays, SegmentStays
<1>4. /\ Len(elements) \in Nat /\ d \in 1..Len(elements) /\ d + 1 # 1
      /\ d + 1 \in 1..(Len(elements) + 1)
  BY <1>2, ElementsAhead
<1>5. Text = Complete[out \o ElementsFrom[d + 1]]
  BY <1>1 DEF TextInv, WholeInv
<1>6. E \in Strings
  BY <1>2, <1>4, ElementsAhead
<1>7. out' \in Strings /\ Text = Complete[out' \o E] /\ <<>> \o E = E
  <2>1. CASE d < Len(elements)
    <3>1. ElementsFrom[d + 1] = p \o E /\ p \in Strings
      <4>1. ElementsFrom[d + 1] = p \o E
        BY <1>2, <1>4, <2>1, ElementsAhead
      <4>2. p \in Strings
        BY <1>2, StringAlgebra
      <4> QED BY <4>1, <4>2
    <3> HIDE DEF p, E
    <3>2. out \o p \in Strings /\ out \o (p \o E) = (out \o p) \o E /\ <<>> \o E = E
      BY <1>2, <1>6, <3>1, StringAlgebra, ZenonT(40)
    <3> QED BY <1>1, <1>5, <2>1, <3>1, <3>2
  <2>2. CASE ~(d < Len(elements))
    <3>1. d = Len(elements)
      BY <1>4, <2>2
    <3>2. ElementsFrom[d + 1] = <<>> /\ E = <<>>
      BY <1>2, <3>1, ElementsAhead
    <3>3. <<>> \o E = E
      BY <1>6, StringAlgebra
    <3> QED BY <1>1, <1>2, <1>5, <2>2, <3>2, <3>3
  <2> QED BY <2>1, <2>2
<1> HIDE DEF E, p
<1>8. BeginInv'
  BY <1>1, <1>2, <1>6, <1>7, CompletedBegins
<1>9. pc' = "element" \/ (pc' = "end" /\ ~(Len(out') < buflen'))
  BY <1>1, <1>7, GoesOn
<1>10. HeaderInv'
  BY <1>1, <1>3, <1>4, <1>9 DEF HeaderInv, TextInv, AtStart
<1>11. WholeInv'
  <2>1. (IF c' = 1 /\ d' = 1 THEN NewHeader' ELSE <<>>) = <<>>
    BY <1>1, <1>4
  <2>2. ElementOn'[d'] = E
    BY <1>1, <1>3 DEF E
  <2>3. Text' = Complete'[out' \o ((IF c' = 1 /\ d' = 1 THEN NewHeader' ELSE <<>>)
                                     \o ElementOn'[d'])]
    BY <1>3, <1>7, <2>1, <2>2
  <2> QED BY <1>9, <2>3 DEF WholeInv
<1> QED BY <1>8, <1>10, <1>11 DEF TextInv

\* Behind the last element of a segment only its end is left.
LEMMA EndElementsText ==
  ASSUME IInv, TextInv, EndElements
  PROVE  TextInv'
<1>1. /\ pc = "element" /\ d > Len(elements) /\ d' = d /\ c' = c /\ out' = out
      /\ UNCHANGED input /\ header' = header /\ Goto("terminator")
  BY DEF EndElements, Leave, where
<1>2. /\ TypeOK /\ out \in Strings /\ c <= Len(segments) /\ d <= Len(elements) + 1
      /\ d \in Nat \ {0}
  BY <1>1, OwnTexts DEF IInv, TypeOK
<1>3. /\ Text' = Text /\ Complete' = Complete /\ StartsWithHeader' = StartsWithHeader
  BY <1>1, InputStays, SegmentStays
<1>4. Len(elements) \in Nat /\ d = Len(elements) + 1
  BY <1>1, <1>2, ElementsAhead
<1>5. c = 1 /\ d = 1 => ~HasFirst
  <2>1. d = 1 => elements = <<>>
    BY <1>4
  <2> QED BY <2>1 DEF HasFirst, elements
<1>6. Text = Complete[out]
  <2>1. Text = Complete[out \o ((IF c = 1 /\ d = 1 THEN NewHeader ELSE <<>>) \o ElementOn[d])]
    BY <1>1 DEF TextInv, WholeInv
  <2>2. (IF c = 1 /\ d = 1 THEN NewHeader ELSE <<>>) = <<>>
    BY <1>5 DEF NewHeader
  <2>3. ElementOn[d] = <<>>
    BY <1>2, <1>4, ElementsAhead
  <2>4. out \o (<<>> \o <<>>) = out
    BY <1>2, StringAlgebra
  <2> QED BY <2>1, <2>2, <2>3, <2>4
<1>7. pc' = "terminator" \/ (pc' = "end" /\ ~(Len(out') < buflen'))
  BY <1>1, <1>2, GoesOn
<1>8. BeginInv'
  BY <1>1, SameBegins DEF TextInv
<1>9. c = 1 /\ d = 1 => ~StartsWithHeader
  BY <1>5 DEF StartsWithHeader
<1>10. HeaderInv'
  BY <1>1, <1>3, <1>7, <1>9 DEF HeaderInv, TextInv, AtStart
<1>11. WholeInv'
  BY <1>1, <1>3, <1>6, <1>7 DEF WholeInv
<1> QED BY <1>8, <1>10, <1>11 DEF TextInv

\* A segment that is no header ends with its terminator.
LEMMA TerminatorText ==
  ASSUME IInv, TextInv, Terminator
  PROVE  TextInv'
<1> DEFINE p == <<params.seg>>
           R == SegmentsFrom[c + 1]
<1>1. /\ pc = "terminator" /\ ~header /\ c' = c + 1 /\ out' = out \o p
      /\ UNCHANGED input /\ header' = header /\ Goto("segment")
  BY DEF Terminator, Write
<1>2. /\ TypeOK /\ out \in Strings /\ c <= Len(segments) /\ c \in Nat \ {0}
      /\ params.seg \in Symbols
  BY <1>1, OwnTexts DEF IInv, TypeOK
<1>3. Text' = Text /\ SegmentsFrom' = SegmentsFrom /\ OnlyAdds' = OnlyAdds
  BY <1>1, InputStays
<1>4. ~(c = 1 /\ StartsWithHeader)
  BY <1>1 DEF TextInv, HeaderInv, AtStart
<1>5. Text = Complete[out]
  BY <1>1 DEF TextInv, WholeInv
<1>6. Text = out \o (p \o R) /\ R \in Strings
  BY <1>2, <1>4, <1>5, Completed
<1>7. p \in Strings
  BY <1>2, StringAlgebra
<1> HIDE DEF p, R
<1>8. out' \in Strings /\ Text = out' \o R
  <2>1. out \o p \in Strings /\ out \o (p \o R) = (out \o p) \o R
    BY <1>2, <1>6, <1>7, StringAlgebra
  <2> QED BY <1>1, <1>6, <2>1
<1>9. pc' = "segment" \/ (pc' = "end" /\ ~(Len(out') < buflen'))
  BY <1>1, <1>8, GoesOn
<1>10. BeginInv'
  BY <1>3, <1>6, <1>8 DEF BeginInv
<1>11. HeaderInv'
  <2>1. c' # 1
    BY <1>1, <1>2
  <2> QED BY <1>1, <1>9, <2>1 DEF HeaderInv, AtStart
<1>12. WholeInv'
  <2>1. Text' = out' \o SegmentsFrom'[c']
    BY <1>1, <1>3, <1>8 DEF R
  <2> QED BY <1>9, <2>1 DEF WholeInv
<1> QED BY <1>10, <1>11, <1>12 DEF TextInv

\* The header ends with its trailer.
LEMMA HeaderTerminatorText ==
  ASSUME IInv, TextInv, HeaderTerminator
  PROVE  TextInv'
<1> DEFINE n == Len(params.trailer)
           R == SegmentsFrom[c + 1]
<1>1. /\ pc = "terminator" /\ header /\ pc' = "trailer" /\ c' = c /\ out' = out
      /\ UNCHANGED input /\ header' = header /\ rest' = params.trailer /\ d' = d /\ i' = i
  BY DEF HeaderTerminator, Leave, where
<1>2. TypeOK /\ out \in Strings /\ c <= Len(segments)
  BY <1>1, OwnTexts DEF IInv, TypeOK
<1>3. /\ Text' = Text /\ SegmentsFrom' = SegmentsFrom /\ StepsOf' = StepsOf
      /\ Trailed' = Trailed /\ StartsWithHeader' = StartsWithHeader /\ params' = params
  BY <1>1, InputStays
<1>4. c = 1 /\ StartsWithHeader
  BY <1>1 DEF TextInv, HeaderInv, AtStart
<1>5. Text = Complete[out]
  BY <1>1 DEF TextInv, WholeInv
<1>6. Text = Trailed[out] \o R
  BY <1>2, <1>4, <1>5, Completed
<1>7. StepsOf[out][0] = out /\ 0 \in 0..n
  BY <1>2, Applied, TrailerFacts
<1>8. SubSeq(params.trailer, 0 + 1, n) = params.trailer
  <2>1. params.trailer \in Seq(Symbols)
    BY <1>2, InputFacts
  <2> QED BY <2>1, SubSeqFull
<1> HIDE DEF n, R
<1>9. \E s \in Strings, k \in 0..n :
        /\ out = StepsOf[s][k] /\ params.trailer = SubSeq(params.trailer, k + 1, n)
        /\ Text = Trailed[s] \o R
  BY <1>2, <1>6, <1>7, <1>8
<1>10. \E s \in Strings, k \in 0..Len(params'.trailer) :
         /\ out' = StepsOf'[s][k]
         /\ rest' = SubSeq(params'.trailer, k + 1, Len(params'.trailer))
         /\ Text' = Trailed'[s] \o SegmentsFrom'[c' + 1]
  BY <1>1, <1>3, <1>9 DEF n, R
<1>11. WholeInv'
  BY <1>1, <1>10 DEF WholeInv
<1>12. HeaderInv'
  BY <1>1, <1>3, <1>4 DEF HeaderInv, AtStart
<1>13. BeginInv'
  BY <1>1, SameBegins DEF TextInv
<1> QED BY <1>11, <1>12, <1>13 DEF TextInv

\* Behind the last segment nothing is left.
LEMMA EndSegmentsText ==
  ASSUME IInv, TextInv, EndSegments
  PROVE  TextInv'
<1>1. pc = "segment" /\ c > Len(segments) /\ pc' = "end" /\ out' = out /\ UNCHANGED input
  BY DEF EndSegments, Leave
<1>2. TypeOK /\ out \in Strings /\ c = Len(segments) + 1
  <2>1. c \in 1..(Len(segments) + 1) /\ Len(segments) \in Nat
    BY OwnTexts DEF TypeOK
  <2> QED BY <1>1, <2>1, OwnTexts
<1>3. Text' = Text
  BY <1>1, InputStays
<1>4. Text = out
  <2>1. Text = out \o SegmentsFrom[c]
    BY <1>1 DEF TextInv, WholeInv
  <2> QED BY <1>2, <2>1, SegmentFacts, StringAlgebra
<1>5. WholeInv' /\ HeaderInv'
  BY <1>1, <1>3, <1>4 DEF WholeInv, HeaderInv, AtStart
<1>6. BeginInv'
  BY <1>1, SameBegins DEF TextInv
<1> QED BY <1>5, <1>6 DEF TextInv

\* The text is returned as it is.
LEMMA FinishText ==
  ASSUME IInv, TextInv, Finish
  PROVE  TextInv'
<1>1. pc = "end" /\ pc' = "returned" /\ out' = out /\ UNCHANGED input
  BY DEF Finish, WriteNUL
<1>2. Text' = Text /\ buflen' = buflen
  BY <1>1, InputStays
<1>3. WholeInv' /\ HeaderInv'
  BY <1>1, <1>2 DEF WholeInv, HeaderInv, AtStart, TextInv
<1>4. BeginInv'
  BY <1>1, SameBegins DEF TextInv
<1> QED BY <1>3, <1>4 DEF TextInv

\* At the beginning all is still to be written.
LEMMA TextInitially == Init => TextInv
<1> SUFFICES ASSUME Init PROVE TextInv
  OBVIOUS
<1>1. /\ pc = "segment" /\ c = 1 /\ out = <<>> /\ header = FALSE /\ TypeOK
  BY Initially DEF Init, InitBuild, IInv
<1>2. SegmentsFrom[c] = Text /\ Text \in Strings
  <2>1. 1 \in 1..(Len(segments) + 1)
    BY <1>1, InputFacts
  <2> QED BY <1>1, <2>1, SegmentFacts
<1>3. Text = out \o SegmentsFrom[c]
  BY <1>1, <1>2, StringAlgebra
<1>4. HeaderInv /\ WholeInv
  BY <1>1, <1>3 DEF HeaderInv, WholeInv, AtStart
<1>5. BeginInv
  BY <1>1, <1>2, <1>3 DEF BeginInv
<1> QED BY <1>4, <1>5 DEF TextInv

\* Every step keeps what is written and what is left of the text together, by the
\* lemma for its action.
THEOREM TextInductive == IInv /\ TextInv /\ [Next]_vars => TextInv'
<1> SUFFICES ASSUME IInv, TextInv, [Next]_vars PROVE TextInv'
  OBVIOUS
<1>1. CASE Next
  BY <1>1, BeginSegmentText, BeginElementText, BeginValueText, BeginHeaderText,
     WriteCharacterText, EndOfNameText, EndOfValueText, PieceText, TrailerOverrunText,
     EndOfNewHeaderText, EndOfHeaderText, SubSeparatorText, ElementSeparatorText,
     EndElementsText, TerminatorText, HeaderTerminatorText, EndSegmentsText, FinishText
  DEF Next
<1>2. CASE UNCHANGED vars
  <2>1. /\ pc' = pc /\ d' = d /\ c' = c /\ i' = i /\ out' = out /\ rest' = rest
        /\ UNCHANGED input /\ header' = header
    BY <1>2 DEF vars, where
  <2>2. /\ Text' = Text /\ Complete' = Complete /\ ElementsFrom' = ElementsFrom
        /\ StartsWithHeader' = StartsWithHeader /\ SegmentsFrom' = SegmentsFrom
        /\ NewHeader' = NewHeader /\ ElementOn' = ElementOn
        /\ ValueOn' = ValueOn /\ ValuesFrom' = ValuesFrom /\ EscapedOf' = EscapedOf
        /\ StepsOf' = StepsOf /\ Trailed' = Trailed
        /\ params' = params /\ buflen' = buflen
    BY <2>1, InputStays, SegmentStays, ElementStays
  <2>3. HeaderInv'
    BY <2>1, <2>2 DEF HeaderInv, TextInv, AtStart, First
  <2>4. BeginInv'
    BY <2>1, SameBegins DEF TextInv
  <2>5. WholeInv
    BY DEF TextInv
  <2>6. ASSUME pc = "nameTrailer", Len(out') < buflen'
        PROVE  \E s \in Strings, k \in 0..Len(params'.trailer) :
                 /\ out' = StepsOf'[s][k]
                 /\ rest' = SubSeq(params'.trailer, k + 1, Len(params'.trailer))
                 /\ Text' = Complete'[Trailed'[s] \o (ValueOn'[i'] \o ElementsFrom'[d' + 1])]
    BY <2>1, <2>2, <2>5, <2>6 DEF WholeInv
  <2>7. ASSUME pc = "trailer", Len(out') < buflen'
        PROVE  \E s \in Strings, k \in 0..Len(params'.trailer) :
                 /\ out' = StepsOf'[s][k]
                 /\ rest' = SubSeq(params'.trailer, k + 1, Len(params'.trailer))
                 /\ Text' = Trailed'[s] \o SegmentsFrom'[c' + 1]
    BY <2>1, <2>2, <2>5, <2>7 DEF WholeInv
  <2>8. ASSUME pc \in {"nameTrailer", "trailer"} PROVE WholeInv'
    BY <2>1, <2>6, <2>7, <2>8 DEF WholeInv
  <2>9. ASSUME pc \in {"segment", "element", "value", "text"} PROVE WholeInv'
    BY <2>1, <2>2, <2>5, <2>9 DEF WholeInv
  <2>10. ASSUME pc \notin {"nameTrailer", "trailer", "segment", "element", "value", "text"}
         PROVE  WholeInv'
    BY <2>1, <2>2, <2>5, <2>10 DEF WholeInv
  <2>11. WholeInv'
    BY <2>8, <2>9, <2>10
  <2> QED BY <2>3, <2>4, <2>11 DEF TextInv
<1> QED BY <1>1, <1>2

\* What is written, and what is left of the text, is the text throughout.
THEOREM AlwaysTextInv == Spec => []TextInv
<1>1. IInv /\ TextInv /\ [Next]_vars => TextInv'
  BY TextInductive
<1> QED BY <1>1, TextInitially, AlwaysIInv, PTL DEF Spec

\* edi_interchange_build writes the text of its interchange whole, or fills the
\* buffer with a beginning of it: a result below buflen says that nothing is
\* missing.
THEOREM WholeTextOrBeginning == Spec => []WholeOrBeginning
<1>1. IInv /\ TextInv => WholeOrBeginning
  <2> SUFFICES ASSUME IInv, TextInv PROVE WholeOrBeginning
    OBVIOUS
  <2>1. pc = "returned" /\ Len(out) < buflen => out = Text
    BY DEF TextInv, WholeInv
  <2>2. ASSUME \A k \in DOMAIN params.trailer : params.trailer[k] # "%_"
        PROVE  IsPrefix(out, Text)
    <3>1. PICK u \in Strings : Text = out \o u
      BY <2>2 DEF TextInv, BeginInv, OnlyAdds
    <3>2. out \in Seq(Symbols) /\ u \in Seq(Symbols)
      BY OwnTexts DEF Strings
    <3>3. /\ Len(out) \in Nat /\ Len(u) \in Nat /\ Len(out \o u) = Len(out) + Len(u)
          /\ SubSeq(out, 1, Len(out)) = out
      BY <3>2, SubSeqFull
    <3>4. SubSeq(out \o u, 1, Len(out)) = out
      <4>1. CASE Len(out) = 0
        <5>1. out = <<>>
          BY <3>2, <4>1
        <5> QED BY <4>1, <5>1, SubSeqEmpty
      <4>2. CASE Len(out) # 0
        <5>1. 1 \in 1..Len(out) /\ Len(out) \in 1..Len(out)
          BY <3>3, <4>2
        <5> QED BY <3>2, <3>3, <5>1, SubSeqOfConcat1
      <4> QED BY <4>1, <4>2
    <3> QED BY <3>1, <3>3, <3>4 DEF IsPrefix
  <2> QED BY <2>1, <2>2 DEF WholeOrBeginning
<1> QED BY <1>1, AlwaysIInv, AlwaysTextInv, PTL

-----------------------------------------------------------------------------
(* Texts that grow: what comes to the text of a tree when a value, an      *)
(* element or a segment comes to the tree, as it does while a parser makes *)
(* it.                                                                     *)

\* What comes to a text with one more piece.
LEMMA FlattenLast ==
  ASSUME NEW S, NEW ps \in Seq(Seq(S)), NEW x \in Seq(S)
  PROVE  /\ FlattenSeq(Append(ps, x)) = FlattenSeq(ps) \o x
         /\ FlattenSeq(ps) \in Seq(S)
<1> DEFINE qs == Append(ps, x)
           n == Len(ps)
<1>1. /\ qs \in Seq(Seq(S)) /\ n \in Nat /\ Len(qs) = n + 1 /\ qs[n + 1] = x
      /\ \A k \in 1..n : qs[k] = ps[k]
  OBVIOUS
<1> HIDE DEF qs, n
<1>2. PICK f : Gathers(f, qs, S)
  BY <1>1, Gathering
<1>3. /\ f \in [0..(n + 1) -> Seq(S)] /\ f[0] = <<>>
      /\ \A k \in 1..(n + 1) : f[k] = f[k - 1] \o qs[k]
  BY <1>1, <1>2 DEF Gathers
<1> DEFINE g == [k \in 0..n |-> f[k]]
<1>4. Gathers(g, ps, S)
  <2>1. g \in [0..n -> Seq(S)] /\ g[0] = <<>>
    BY <1>1, <1>3
  <2>2. ASSUME NEW k \in 1..n PROVE g[k] = g[k - 1] \o ps[k]
    <3>1. k \in 1..(n + 1) /\ k \in 0..n /\ k - 1 \in 0..n
      BY <1>1
    <3>2. g[k] = f[k] /\ g[k - 1] = f[k - 1]
      BY <3>1
    <3> QED BY <3>1, <3>2, <1>1, <1>3
  <2> QED BY <2>1, <2>2 DEF Gathers, n
<1>5. FlattenSeq(qs) = f[n + 1]
  BY <1>1, <1>2, Flattened
<1>6. FlattenSeq(ps) = g[n]
  <2> HIDE DEF g
  <2> QED BY <1>4, Flattened DEF n
<1>7. g[n] = f[n] /\ f[n + 1] = f[n] \o x /\ f[n] \in Seq(S)
  <2>1. n + 1 \in 1..(n + 1) /\ n \in 0..n /\ (n + 1) - 1 = n /\ n \in 0..(n + 1)
    BY <1>1
  <2> QED BY <2>1, <1>1, <1>3
<1> QED BY <1>5, <1>6, <1>7 DEF qs

\* All but the last of a sequence.
LEMMA FrontOfPieces ==
  ASSUME NEW S, NEW s \in Seq(S), s # <<>>
  PROVE  /\ SubSeq(s, 1, Len(s) - 1) \in Seq(S)
         /\ Len(SubSeq(s, 1, Len(s) - 1)) = Len(s) - 1
         /\ \A k \in 1..(Len(s) - 1) : SubSeq(s, 1, Len(s) - 1)[k] = s[k]
         /\ Len(s) \in Nat \ {0} /\ Len(s) \in 1..Len(s)
<1>1. Len(s) \in Nat \ {0} /\ Len(s) \in 1..Len(s)
  OBVIOUS
<1>2. \A k \in 1..(Len(s) - 1) : s[k] \in S
  BY <1>1
<1>3. SubSeq(s, 1, Len(s) - 1) = [k \in 1..(Len(s) - 1) |-> s[k]]
  BY <1>1
<1> DEFINE r == [k \in 1..(Len(s) - 1) |-> s[k]]
<1>4. r \in Seq(S) /\ Len(r) = Len(s) - 1 /\ \A k \in 1..(Len(s) - 1) : r[k] = s[k]
  BY <1>1, <1>2
<1> HIDE DEF r
<1> QED BY <1>1, <1>3, <1>4 DEF r

\* A sequence with one more.
LEMMA AppendShape ==
  ASSUME NEW s, IsSeq(s), NEW x
  PROVE  /\ Len(s) \in Nat
         /\ Len(Append(s, x)) = Len(s) + 1
         /\ Append(s, x)[Len(s) + 1] = x
         /\ \A k \in 1..Len(s) : Append(s, x)[k] = s[k]
         /\ s = <<>> <=> Len(s) = 0
<1> DEFINE S == {s[k] : k \in DOMAIN s} \union {x}
<1>1. s \in Seq(S) /\ x \in S
  BY DEF IsSeq
<1> HIDE DEF S
<1> QED BY <1>1

\* What comes to a text when it gets one piece more,
LEMMA FlattenGrows ==
  ASSUME NEW S, NEW p \in Seq(Seq(S)), NEW q \in Seq(Seq(S)), Len(q) = Len(p) + 1,
         \A k \in 1..Len(p) : q[k] = p[k]
  PROVE  FlattenSeq(q) = FlattenSeq(p) \o q[Len(q)]
<1>1. Len(p) \in Nat /\ Len(q) \in 1..Len(q)
  OBVIOUS
<1>2. q[Len(q)] \in Seq(S)
  BY <1>1
<1>3. q = Append(p, q[Len(q)])
  <2>1. /\ Append(p, q[Len(q)]) \in Seq(Seq(S)) /\ Len(Append(p, q[Len(q)])) = Len(q)
        /\ \A k \in 1..Len(q) : Append(p, q[Len(q)])[k] = q[k]
    BY <1>1, <1>2
  <2> DEFINE r == Append(p, q[Len(q)])
  <2> HIDE DEF r
  <2>2. r \in Seq(Seq(S)) /\ Len(r) = Len(q) /\ \A k \in 1..Len(q) : r[k] = q[k]
    BY <2>1 DEF r
  <2>3. r = q
    BY <2>2, SeqEqual
  <2> QED BY <2>3 DEF r
<1>4. FlattenSeq(Append(p, q[Len(q)])) = FlattenSeq(p) \o q[Len(q)]
  BY <1>2, FlattenLast
<1> QED BY <1>3, <1>4

\* and when its last piece gets longer.
LEMMA FlattenLengthens ==
  ASSUME NEW ps \in Seq(Strings), NEW qs \in Seq(Strings), NEW w \in Strings,
         ps # <<>>, Len(qs) = Len(ps),
         \A k \in 1..Len(ps) : k < Len(ps) => qs[k] = ps[k]
  PROVE  qs[Len(qs)] = ps[Len(ps)] \o w => FlattenSeq(qs) = FlattenSeq(ps) \o w
<1> DEFINE fs == SubSeq(ps, 1, Len(ps) - 1)
           n == Len(ps)
<1>0. \A s, t, u \in Strings : (s \o t) \o u = s \o (t \o u)
  BY StringAlgebra
<1>1. n \in Nat \ {0} /\ n \in 1..n
  OBVIOUS
<1>2. fs \in Seq(Strings) /\ Len(fs) = n - 1 /\ \A k \in 1..(n - 1) : fs[k] = ps[k]
  BY FrontOfPieces
<1>3. ps[n] \in Strings
  BY <1>1
<1> HIDE DEF fs, n
<1>4. FlattenSeq(ps) = FlattenSeq(fs) \o ps[n]
  <2>1. Len(ps) = Len(fs) + 1 /\ \A k \in 1..Len(fs) : ps[k] = fs[k]
    BY <1>1, <1>2 DEF n
  <2> QED BY <1>2, <2>1, FlattenGrows DEF n, Strings
<1>5. qs[Len(qs)] = ps[Len(ps)] \o w => FlattenSeq(qs) = FlattenSeq(fs) \o (ps[n] \o w)
  <2>1. Len(qs) = Len(fs) + 1 /\ \A k \in 1..Len(fs) : qs[k] = fs[k]
    BY <1>1, <1>2 DEF n
  <2>2. FlattenSeq(qs) = FlattenSeq(fs) \o qs[Len(qs)]
    BY <1>2, <2>1, FlattenGrows DEF Strings
  <2> QED BY <2>2 DEF n
<1>6. FlattenSeq(fs) \in Strings
  BY <1>2, <1>3, FlattenLast DEF Strings
<1>7. (FlattenSeq(fs) \o ps[n]) \o w = FlattenSeq(fs) \o (ps[n] \o w)
  BY <1>0, <1>3, <1>6, Zenon
<1> QED BY <1>4, <1>5, <1>7

\* The separator in front of the k-th element.
SepOf(k) == IF k = 2 THEN params.tag ELSE params.data

\* An element with one value more.
LEMMA ElementTextGrows ==
  ASSUME TypeOK, NEW x, IsElement(x), NEW y, IsElement(y), NEW v, y.values = Append(x.values, v)
  PROVE  /\ ElementText(x) \in Strings
         /\ Escaped(v.text) \in Strings
         /\ ElementText(y) =
              ElementText(x) \o
                ((IF x.values = <<>> THEN <<>> ELSE <<params.sub>>) \o Escaped(v.text))
<1> DEFINE ps == ValuePieces(x)
           qs == ValuePieces(y)
           n == Len(x.values)
<1>1. /\ n \in Nat
      /\ Len(y.values) = n + 1 /\ y.values[n + 1] = v
      /\ \A k \in 1..n : y.values[k] = x.values[k]
      /\ x.values = <<>> <=> n = 0
  BY AppendShape DEF IsElement
<1>2. IsElement(x) /\ IsElement(y)
  OBVIOUS
<1>3. /\ ps \in Seq(Strings) /\ Len(ps) = n
      /\ n > 0 => ps[1] = Escaped(x.values[1].text)
      /\ \A k \in 1..n : k > 1 => ps[k] = <<params.sub>> \o Escaped(x.values[k].text)
      /\ ElementText(x) \in Strings
  BY <1>2, ValuePiecesFacts
<1>4. /\ qs \in Seq(Strings) /\ Len(qs) = n + 1
      /\ n + 1 > 0 => qs[1] = Escaped(y.values[1].text)
      /\ \A k \in 1..(n + 1) : k > 1 => qs[k] = <<params.sub>> \o Escaped(y.values[k].text)
      /\ \A k \in 1..(n + 1) : Escaped(y.values[k].text) \in Strings
  BY <1>1, <1>2, ValuePiecesFacts
<1>5. ElementText(x) = FlattenSeq(ps) /\ ElementText(y) = FlattenSeq(qs)
  BY DEF ElementText
<1> HIDE DEF ps, qs, n
<1>6. n + 1 \in 1..(n + 1)
  BY <1>1
<1>7. \A k \in 1..n : qs[k] = ps[k]
  <2> SUFFICES ASSUME NEW k \in 1..n PROVE qs[k] = ps[k]
    OBVIOUS
  <2>1. k \in 1..(n + 1) /\ n > 0 /\ n + 1 > 0 /\ 1 \in 1..n
    BY <1>1
  <2>2. CASE k = 1
    BY <2>1, <2>2, <1>1, <1>3, <1>4
  <2>3. CASE k # 1
    <3>1. k > 1
      BY <2>3, <1>1
    <3> QED BY <2>1, <3>1, <1>1, <1>3, <1>4, Zenon
  <2> QED BY <2>2, <2>3
<1>8. FlattenSeq(qs) = FlattenSeq(ps) \o qs[n + 1]
  <2>1. Len(qs) = Len(ps) + 1 /\ (\A k \in 1..Len(ps) : qs[k] = ps[k]) /\ Len(qs) = n + 1
    BY <1>3, <1>4, <1>7
  <2>2. ps \in Seq(Seq(Symbols)) /\ qs \in Seq(Seq(Symbols))
    BY <1>3, <1>4 DEF Strings
  <2>3. FlattenSeq(qs) = FlattenSeq(ps) \o qs[Len(qs)]
    BY <2>1, <2>2, FlattenGrows
  <2> QED BY <2>1, <2>3
<1>9. Escaped(v.text) \in Strings
  BY <1>1, <1>4, <1>6
<1>10. qs[n + 1] = (IF x.values = <<>> THEN <<>> ELSE <<params.sub>>) \o Escaped(v.text)
  <2>1. CASE n = 0
    <3>1. qs[n + 1] = Escaped(v.text)
      BY <2>1, <1>1, <1>4
    <3>2. <<>> \o Escaped(v.text) = Escaped(v.text)
      BY <1>9, StringAlgebra
    <3> QED BY <3>1, <3>2, <2>1, <1>1
  <2>2. CASE n # 0
    <3>1. n + 1 > 1
      BY <2>2, <1>1
    <3> QED BY <3>1, <2>2, <1>1, <1>4, <1>6
  <2> QED BY <2>1, <2>2
<1> QED BY <1>3, <1>5, <1>8, <1>9, <1>10

\* A segment with one element more.
LEMMA SegmentTextGrows ==
  ASSUME TypeOK, NEW s, IsSegment(s), NEW t, IsSegment(t), NEW x, t.elements = Append(s.elements, x)
  PROVE  /\ ElementsText(s) \in Strings
         /\ ElementText(x) \in Strings
         /\ ElementsText(t) =
              ElementsText(s) \o
                ((IF s.elements = <<>> THEN <<>> ELSE <<SepOf(Len(s.elements) + 1)>>)
                   \o ElementText(x))
<1> DEFINE ps == ElementPieces(s)
           qs == ElementPieces(t)
           n == Len(s.elements)
<1>1. /\ n \in Nat
      /\ Len(t.elements) = n + 1 /\ t.elements[n + 1] = x
      /\ \A k \in 1..n : t.elements[k] = s.elements[k]
      /\ s.elements = <<>> <=> n = 0
  BY AppendShape DEF IsSegment
<1>2. IsSegment(s) /\ IsSegment(t)
  OBVIOUS
<1>3. /\ ps \in Seq(Strings) /\ Len(ps) = n
      /\ n > 0 => ps[1] = ElementText(s.elements[1])
      /\ \A k \in 1..n : k > 1 => ps[k] = <<SepOf(k)>> \o ElementText(s.elements[k])
      /\ ElementsText(s) \in Strings
  BY <1>2, ElementPiecesFacts DEF SepOf
<1>4. /\ qs \in Seq(Strings) /\ Len(qs) = n + 1
      /\ n + 1 > 0 => qs[1] = ElementText(t.elements[1])
      /\ \A k \in 1..(n + 1) : k > 1 => qs[k] = <<SepOf(k)>> \o ElementText(t.elements[k])
      /\ \A k \in 1..(n + 1) : ElementText(t.elements[k]) \in Strings
  BY <1>1, <1>2, ElementPiecesFacts DEF SepOf
<1>5. ElementsText(s) = FlattenSeq(ps) /\ ElementsText(t) = FlattenSeq(qs)
  BY DEF ElementsText
<1> HIDE DEF ps, qs, n
<1>6. n + 1 \in 1..(n + 1)
  BY <1>1
<1>7. \A k \in 1..n : qs[k] = ps[k]
  <2> SUFFICES ASSUME NEW k \in 1..n PROVE qs[k] = ps[k]
    OBVIOUS
  <2>1. k \in 1..(n + 1) /\ n > 0 /\ n + 1 > 0 /\ 1 \in 1..n
    BY <1>1
  <2>2. CASE k = 1
    BY <2>1, <2>2, <1>1, <1>3, <1>4
  <2>3. CASE k # 1
    <3>1. k > 1
      BY <2>3, <1>1
    <3> QED BY <2>1, <3>1, <1>1, <1>3, <1>4, Zenon
  <2> QED BY <2>2, <2>3
<1>8. FlattenSeq(qs) = FlattenSeq(ps) \o qs[n + 1]
  <2>1. Len(qs) = Len(ps) + 1 /\ (\A k \in 1..Len(ps) : qs[k] = ps[k]) /\ Len(qs) = n + 1
    BY <1>3, <1>4, <1>7
  <2>2. ps \in Seq(Seq(Symbols)) /\ qs \in Seq(Seq(Symbols))
    BY <1>3, <1>4 DEF Strings
  <2>3. FlattenSeq(qs) = FlattenSeq(ps) \o qs[Len(qs)]
    BY <2>1, <2>2, FlattenGrows
  <2> QED BY <2>1, <2>3
<1>9. ElementText(x) \in Strings
  BY <1>1, <1>4, <1>6
<1>10. qs[n + 1] =
         (IF s.elements = <<>> THEN <<>> ELSE <<SepOf(n + 1)>>) \o ElementText(x)
  <2>1. CASE n = 0
    <3>1. qs[n + 1] = ElementText(x)
      BY <2>1, <1>1, <1>4
    <3>2. <<>> \o ElementText(x) = ElementText(x)
      BY <1>9, StringAlgebra
    <3> QED BY <3>1, <3>2, <2>1, <1>1
  <2>2. CASE n # 0
    <3>1. n + 1 > 1
      BY <2>2, <1>1
    <3> QED BY <3>1, <2>2, <1>1, <1>4, <1>6
  <2> QED BY <2>1, <2>2
<1> QED BY <1>3, <1>5, <1>8, <1>9, <1>10 DEF n

\* A segment whose last element has a longer text.
LEMMA SegmentTextLengthens ==
  ASSUME TypeOK, NEW s, IsSegment(s), NEW t, IsSegment(t), s.elements # <<>>,
         Len(t.elements) = Len(s.elements),
         \A k \in 1..Len(s.elements) : k < Len(s.elements) => t.elements[k] = s.elements[k],
         NEW u \in Strings,
         ElementText(t.elements[Len(s.elements)]) =
           ElementText(s.elements[Len(s.elements)]) \o u
  PROVE  ElementsText(t) = ElementsText(s) \o u
<1> DEFINE ps == ElementPieces(s)
           qs == ElementPieces(t)
           n == Len(s.elements)
<1>1. /\ n \in Nat \ {0} /\ n \in 1..n /\ n > 0
      /\ Len(t.elements) = n
      /\ \A k \in 1..n : k < n => t.elements[k] = s.elements[k]
  <2>1. Len(s.elements) \in Nat /\ Len(s.elements) > 0
    BY SeqShape DEF IsSegment
  <2> QED BY <2>1
<1>2. IsSegment(s) /\ IsSegment(t)
  OBVIOUS
<1>3. /\ ps \in Seq(Strings) /\ Len(ps) = n
      /\ n > 0 => ps[1] = ElementText(s.elements[1])
      /\ \A k \in 1..n : k > 1 => ps[k] = <<SepOf(k)>> \o ElementText(s.elements[k])
      /\ \A k \in 1..n : ElementText(s.elements[k]) \in Strings
  BY <1>2, ElementPiecesFacts DEF SepOf
<1>4. /\ qs \in Seq(Strings) /\ Len(qs) = n
      /\ n > 0 => qs[1] = ElementText(t.elements[1])
      /\ \A k \in 1..n : k > 1 => qs[k] = <<SepOf(k)>> \o ElementText(t.elements[k])
  BY <1>1, <1>2, ElementPiecesFacts DEF SepOf
<1>5. ElementsText(s) = FlattenSeq(ps) /\ ElementsText(t) = FlattenSeq(qs)
  BY DEF ElementsText
<1>6. ElementText(t.elements[n]) = ElementText(s.elements[n]) \o u
  OBVIOUS
<1> HIDE DEF ps, qs, n
<1>7. \A k \in 1..n : k < n => qs[k] = ps[k]
  <2> SUFFICES ASSUME NEW k \in 1..n, k < n PROVE qs[k] = ps[k]
    OBVIOUS
  <2>1. k > 1 \/ k = 1
    BY <1>1
  <2> QED BY <2>1, <1>1, <1>3, <1>4, <1>6
<1>8. qs[n] = ps[n] \o u
  <2>1. CASE n = 1
    BY <2>1, <1>1, <1>3, <1>4, <1>6
  <2>2. CASE n # 1
    <3>1. n > 1
      BY <2>2, <1>1
    <3>2. qs[n] = <<SepOf(n)>> \o (ElementText(s.elements[n]) \o u)
      BY <3>1, <1>1, <1>4, <1>6
    <3>3. ps[n] = <<SepOf(n)>> \o ElementText(s.elements[n])
      BY <3>1, <1>1, <1>3
    <3>4. <<SepOf(n)>> \in Strings
      <4>1. SepOf(n) \in Symbols
        BY InputFacts DEF SepOf
      <4> QED BY <4>1, StringAlgebra
    <3>5. ElementText(s.elements[n]) \in Strings
      BY <1>1, <1>3
    <3> HIDE DEF SepOf
    <3> QED BY <3>2, <3>3, <3>4, <3>5, StringAlgebra
  <2> QED BY <2>1, <2>2
<1>9. FlattenSeq(qs) = FlattenSeq(ps) \o u
  <2>1. /\ ps # <<>> /\ Len(qs) = Len(ps) /\ qs[Len(qs)] = ps[Len(ps)] \o u
        /\ \A k \in 1..Len(ps) : k < Len(ps) => qs[k] = ps[k]
    BY <1>1, <1>3, <1>4, <1>7, <1>8
  <2> QED BY <2>1, <1>3, <1>4, FlattenLengthens
<1> QED BY <1>5, <1>9

\* What one character more adds to an escaped text.
LEMMA EscapedGrows ==
  ASSUME TypeOK, NEW s \in Strings, NEW x \in Symbols
  PROVE  /\ Escaped(s) \in Strings /\ Escaped(<<x>>) \in Strings
         /\ Escaped(Append(s, x)) = Escaped(s) \o Escaped(<<x>>)
<1> DEFINE t == Append(s, x)
           n == Len(s)
           u == <<x>>
<1>1. /\ s \in Seq(Symbols) /\ t \in Seq(Symbols) /\ n \in Nat /\ Len(t) = n + 1
      /\ t[n + 1] = x /\ \A k \in 1..n : t[k] = s[k]
      /\ u \in Seq(Symbols) /\ u # <<>> /\ Head(u) = x /\ Tail(u) = <<>>
  BY DEF Strings
<1> HIDE DEF t, n, u
<1>2. \A y \in Symbols : CharacterText(y) \in Strings
  BY InputFacts, StringAlgebra DEF CharacterText
<1>3. Escaped(s) \in Strings
  BY EscapedFacts
<1>4. Escaped(u) = CharacterText(x)
  <2>1. Escaped(<<>>) = <<>>
    BY EscapedFacts, StringAlgebra
  <2>2. Escaped(u) = CharacterText(Head(u)) \o Escaped(Tail(u))
    BY <1>1, EscapedFacts DEF Strings
  <2>3. CharacterText(x) \o <<>> = CharacterText(x)
    BY <1>2, StringAlgebra
  <2> QED BY <1>1, <2>1, <2>2, <2>3
<1>5. Escaped(t) = Escaped(s) \o CharacterText(x)
  <2> DEFINE ps == EscapedPieces(s)
             qs == EscapedPieces(t)
  <2>1. ps \in Seq(Strings) /\ Len(ps) = n /\ \A k \in 1..n : ps[k] = CharacterText(s[k])
    <3>1. ps = [k \in 1..n |-> CharacterText(s[k])]
      BY <1>1 DEF EscapedPieces, CharacterText, n
    <3>2. \A k \in 1..n : s[k] \in Symbols
      BY <1>1 DEF n
    <3> QED BY <1>1, <1>2, <3>1, <3>2
  <2>2. qs \in Seq(Strings) /\ Len(qs) = n + 1 /\ \A k \in 1..(n + 1) : qs[k] = CharacterText(t[k])
    <3>1. qs = [k \in 1..(n + 1) |-> CharacterText(t[k])]
      BY <1>1 DEF EscapedPieces, CharacterText
    <3>2. \A k \in 1..(n + 1) : t[k] \in Symbols
      BY <1>1
    <3> QED BY <1>1, <1>2, <3>1, <3>2
  <2> HIDE DEF ps, qs
  <2>3. Len(qs) = Len(ps) + 1 /\ \A k \in 1..Len(ps) : qs[k] = ps[k]
    BY <1>1, <2>1, <2>2
  <2>4. FlattenSeq(qs) = FlattenSeq(ps) \o qs[Len(qs)]
    BY <2>1, <2>2, <2>3, FlattenGrows DEF Strings
  <2>5. qs[Len(qs)] = CharacterText(x)
    BY <1>1, <2>2
  <2> QED BY <2>4, <2>5 DEF Escaped, ps, qs
<1> QED BY <1>2, <1>3, <1>4, <1>5 DEF t, u

\* Segments, each with its terminator.
IsTree(segs) == IsSeq(segs) /\ \A k \in DOMAIN segs : IsSegment(segs[k])

LinePieces(segs) == [k \in DOMAIN segs |-> Append(ElementsText(segs[k]), params.seg)]
Lines(segs)      == FlattenSeq(LinePieces(segs))

\* They are texts.
LEMMA LineFacts ==
  ASSUME TypeOK, NEW segs, IsTree(segs)
  PROVE  /\ Len(segs) \in Nat /\ DOMAIN segs = 1..Len(segs)
         /\ \A k \in 1..Len(segs) : /\ IsSegment(segs[k])
                                   /\ ElementsText(segs[k]) \in Strings
                                   /\ LinePieces(segs)[k] = ElementsText(segs[k]) \o <<params.seg>>
         /\ LinePieces(segs) \in Seq(Strings) /\ Len(LinePieces(segs)) = Len(segs)
         /\ Lines(segs) \in Strings
         /\ segs = <<>> => Lines(segs) = <<>>
<1> DEFINE n == Len(segs)
<1>1. n \in Nat /\ DOMAIN segs = 1..n /\ (segs = <<>> => n = 0)
  BY SeqShape DEF IsTree
<1>2. \A k \in 1..n : /\ IsSegment(segs[k]) /\ ElementsText(segs[k]) \in Strings
  BY <1>1, ElementPiecesFacts DEF IsTree
<1>3. params.seg \in Symbols /\ <<params.seg>> \in Strings
  BY InputFacts, StringAlgebra
<1>4. \A k \in 1..n : Append(ElementsText(segs[k]), params.seg) = ElementsText(segs[k]) \o <<params.seg>>
  BY <1>2, <1>3, StringAlgebra
<1>5. \A k \in 1..n : ElementsText(segs[k]) \o <<params.seg>> \in Strings
  BY <1>2, <1>3, StringAlgebra
<1>6. LinePieces(segs) = [k \in 1..n |-> ElementsText(segs[k]) \o <<params.seg>>]
  BY <1>1, <1>4 DEF LinePieces
<1> HIDE DEF n
<1>7. LinePieces(segs) \in Seq(Strings) /\ Len(LinePieces(segs)) = n
  BY <1>1, <1>5, <1>6
<1>8. Lines(segs) \in Strings
  BY <1>7, FlattenType DEF Lines, Strings
<1>9. segs = <<>> => Lines(segs) = <<>>
  <2>1. ASSUME n = 0 PROVE Lines(segs) = <<>>
    <3>1. LinePieces(segs) = <<>>
      BY <1>7, <2>1
    <3>2. From(LinePieces(segs), 1) = FlattenSeq(LinePieces(segs))
          /\ From(LinePieces(segs), Len(LinePieces(segs)) + 1) = <<>>
      BY <1>7, FromFacts DEF Strings
    <3> QED BY <1>7, <2>1, <3>2 DEF Lines
  <2> QED BY <1>1, <2>1
<1> QED BY <1>1, <1>2, <1>6, <1>7, <1>8, <1>9 DEF n

\* A segment more adds its line.
LEMMA LinesGrow ==
  ASSUME TypeOK, NEW segs, IsTree(segs), NEW s, IsSegment(s), IsTree(Append(segs, s))
  PROVE  Lines(Append(segs, s)) = Lines(segs) \o (ElementsText(s) \o <<params.seg>>)
<1> DEFINE more == Append(segs, s)
           ps == LinePieces(segs)
           qs == LinePieces(more)
           n == Len(segs)
<1>1. /\ n \in Nat /\ Len(more) = n + 1 /\ more[n + 1] = s /\ \A k \in 1..n : more[k] = segs[k]
  BY AppendShape DEF IsTree
<1>2. /\ ps \in Seq(Strings) /\ Len(ps) = n
      /\ \A k \in 1..n : ps[k] = ElementsText(segs[k]) \o <<params.seg>>
  BY LineFacts
<1>3. /\ qs \in Seq(Strings) /\ Len(qs) = n + 1
      /\ \A k \in 1..(n + 1) : qs[k] = ElementsText(more[k]) \o <<params.seg>>
  BY <1>1, LineFacts
<1> HIDE DEF more, ps, qs, n
<1>4. Len(qs) = Len(ps) + 1 /\ \A k \in 1..Len(ps) : qs[k] = ps[k]
  <2>1. ASSUME NEW k \in 1..n PROVE qs[k] = ps[k]
    <3>1. k \in 1..(n + 1)
      BY <1>1
    <3>2. more[k] = segs[k]
      BY <1>1
    <3> QED BY <3>1, <3>2, <1>2, <1>3, Zenon
  <2> QED BY <1>1, <1>2, <1>3, <2>1
<1>5. FlattenSeq(qs) = FlattenSeq(ps) \o qs[Len(qs)]
  BY <1>2, <1>3, <1>4, FlattenGrows DEF Strings
<1>6. qs[Len(qs)] = ElementsText(s) \o <<params.seg>>
  BY <1>1, <1>3
<1> QED BY <1>5, <1>6 DEF Lines, ps, qs, more

\* What a text goes on with is known from the text.
LEMMA Cancelled ==
  ASSUME NEW s \in Strings, NEW t \in Strings, NEW u \in Strings, s \o t = s \o u
  PROVE  t = u
<1>1. /\ Len(s) \in Nat /\ Len(t) \in Nat /\ Len(u) \in Nat
      /\ Len(s \o t) = Len(s) + Len(t) /\ Len(s \o u) = Len(s) + Len(u)
      /\ \A k \in 1..Len(t) : (s \o t)[Len(s) + k] = t[k]
      /\ \A k \in 1..Len(u) : (s \o u)[Len(s) + k] = u[k]
  BY DEF Strings
<1>2. Len(t) = Len(u)
  BY <1>1
<1>3. \A k \in 1..Len(t) : t[k] = u[k]
  BY <1>1, <1>2
<1> QED BY <1>2, <1>3, SeqEqual DEF Strings

\* The whole text, but for the first segment, is the lines of the segments.
LEMMA TextOfLines ==
  ASSUME TypeOK, segments # <<>>
  PROVE  \E u \in Strings :
           /\ Text = SegmentText(1) \o u
           /\ Lines(segments) = ElementsText(segments[1]) \o (<<params.seg>> \o u)
<1> DEFINE n == Len(segments)
           ps == LinePieces(segments)
           qs == SegmentPieces
<1>0. IsTree(segments)
  BY EdiBuildAssumption DEF TypeOK, IsTree
<1>1. n \in Nat /\ n > 0 /\ DOMAIN segments = 1..n
  BY <1>0, SeqShape DEF IsTree
<1>2. /\ ps \in Seq(Strings) /\ Len(ps) = n /\ Lines(segments) = FlattenSeq(ps)
      /\ \A k \in 1..n : ps[k] = ElementsText(segments[k]) \o <<params.seg>>
      /\ \A k \in 1..n : ElementsText(segments[k]) \in Strings
  BY <1>0, LineFacts DEF Lines
<1>3. /\ \A k \in 1..n : SegmentText(k) \in Strings
  BY SegmentFacts
<1>4. qs = [k \in 1..n |-> SegmentText(k)]
  BY <1>1 DEF SegmentPieces
<1>5. qs \in Seq(Strings) /\ Len(qs) = n /\ \A k \in 1..n : qs[k] = SegmentText(k)
  BY <1>1, <1>3, <1>4
<1> HIDE DEF n, ps, qs
<1>6. \A k \in 2..n : qs[k] = ps[k]
  <2> SUFFICES ASSUME NEW k \in 2..n PROVE qs[k] = ps[k]
    OBVIOUS
  <2>0. k \in 1..n /\ k # 1
    OBVIOUS
  <2>1. ElementsText(segments[k]) \in Strings /\ params.seg \in Symbols
    BY <1>2, <2>0, InputFacts
  <2>2. Line(k) = ElementsText(segments[k])
    <3>1. <<>> \o ElementsText(segments[k]) = ElementsText(segments[k])
      BY <2>1, StringAlgebra
    <3> QED BY <2>0, <3>1 DEF Line
  <2>3. SegmentText(k) = Append(ElementsText(segments[k]), params.seg)
    BY <2>0, <2>2 DEF SegmentText
  <2>4. Append(ElementsText(segments[k]), params.seg) = ElementsText(segments[k]) \o <<params.seg>>
    BY <2>1, StringAlgebra
  <2> QED BY <1>2, <1>5, <2>0, <2>3, <2>4
<1>7. Tail(ps) = Tail(qs)
  <2>1. /\ Tail(ps) \in Seq(Strings) /\ Len(Tail(ps)) = n - 1
        /\ \A k \in 1..(n - 1) : Tail(ps)[k] = ps[k + 1]
    BY <1>1, <1>2
  <2>2. /\ Tail(qs) \in Seq(Strings) /\ Len(Tail(qs)) = n - 1
        /\ \A k \in 1..(n - 1) : Tail(qs)[k] = qs[k + 1]
    BY <1>1, <1>5
  <2>3. \A k \in 1..(n - 1) : k + 1 \in 2..n
    BY <1>1
  <2>4. \A k \in 1..(n - 1) : Tail(ps)[k] = Tail(qs)[k]
    BY <1>6, <2>1, <2>2, <2>3
  <2> DEFINE a == Tail(ps)
             b == Tail(qs)
  <2> HIDE DEF a, b
  <2>5. a = b
    BY <2>1, <2>2, <2>4, SeqEqual DEF a, b
  <2> QED BY <2>5 DEF a, b
<1>8. ps # <<>> /\ qs # <<>>
  BY <1>1, <1>2, <1>5
<1> DEFINE u == FlattenSeq(Tail(ps))
<1>9. u \in Strings
  <2>1. Tail(ps) \in Seq(Strings)
    BY <1>2, <1>8
  <2> QED BY <2>1, FlattenType DEF Strings
<1>10. Text = SegmentText(1) \o u
  <2>1. FlattenSeq(qs) = qs[1] \o FlattenSeq(Tail(qs))
    BY <1>5, <1>8, FlattenFirst DEF Strings
  <2>2. qs[1] = SegmentText(1)
    BY <1>1, <1>5
  <2> QED BY <1>7, <2>1, <2>2 DEF Text, qs
<1>11. Lines(segments) = ElementsText(segments[1]) \o (<<params.seg>> \o u)
  <2>1. FlattenSeq(ps) = ps[1] \o u
    BY <1>2, <1>8, FlattenFirst DEF Strings
  <2>2. ps[1] = ElementsText(segments[1]) \o <<params.seg>> /\ ElementsText(segments[1]) \in Strings
    <3>1. 1 \in 1..n
      BY <1>1
    <3> QED BY <3>1, <1>2, Zenon
  <2>3. <<params.seg>> \in Strings
    BY InputFacts, StringAlgebra
  <2> HIDE DEF u
  <2>4. (ElementsText(segments[1]) \o <<params.seg>>) \o u
          = ElementsText(segments[1]) \o (<<params.seg>> \o u)
    BY <1>9, <2>2, <2>3, StringAlgebra
  <2> QED BY <1>2, <2>1, <2>2, <2>4
<1> QED BY <1>9, <1>10, <1>11

\* Nothing is written of nothing.
LEMMA EscapedEmpty == Escaped(<<>>) = <<>>
<1> DEFINE ps == EscapedPieces(<<>>)
<1>1. ps \in Seq(Strings) /\ Len(ps) = 0 /\ ps = <<>>
  BY DEF EscapedPieces
<1> HIDE DEF ps
<1>2. /\ From(ps, 1) = FlattenSeq(ps) /\ From(ps, Len(ps) + 1) = <<>>
  BY <1>1, FromFacts DEF Strings
<1>3. FlattenSeq(ps) = <<>>
  BY <1>1, <1>2
<1> QED BY <1>3 DEF Escaped, ps

\* An element without values has no text.
LEMMA EmptyElementText ==
  ASSUME NEW x, x.values = <<>>
  PROVE  ElementText(x) = <<>>
<1> DEFINE ps == ValuePieces(x)
<1>1. ps \in Seq(Strings) /\ Len(ps) = 0 /\ ps = <<>>
  BY DEF ValuePieces
<1> HIDE DEF ps
<1>2. /\ From(ps, 1) = FlattenSeq(ps) /\ From(ps, Len(ps) + 1) = <<>>
  BY <1>1, FromFacts DEF Strings
<1>3. FlattenSeq(ps) = <<>>
  BY <1>1, <1>2
<1> QED BY <1>3 DEF ElementText, ps

=============================================================================
