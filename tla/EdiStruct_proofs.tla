-------------------------- MODULE EdiStruct_proofs --------------------------
(***************************************************************************)
(* The searches of StructLookup are right for sorted tables of any size,   *)
(* and the tables that StructLoader makes are what the files say, for any  *)
(* files and however they reach it.                                        *)
(*                                                                         *)
(* The loader: what is left of the items of a file is taken apart into     *)
(* what each handler meets next (From, EntriesFrom, PartsFrom).  Place     *)
(* says where in a file the handlers are, and what the arrays hold there;  *)
(* each handler leads from a place to a place (HandlerStep), and behind    *)
(* the last item every entry was ended (AllDelivered).  LoaderInv carries  *)
(* that across chunks, failures and the files before.                      *)
(***************************************************************************)
EXTENDS StructLookup, StructLoader, SequenceTheorems, WellFoundedInduction, TLAPS

-----------------------------------------------------------------------------
(* The searches                                                            *)

\* What is left of the table is the only place where the name can be.
Narrowed ==
  /\ Running => begin < end \/ keys = <<>>
  /\ answer.kind \in {"none", "NULL"} =>
       /\ \A i \in 1..begin : keys[i] < name
       /\ \A i \in (end + 1)..Len(keys) : name < keys[i]
  /\ answer.kind = "NULL" => begin = end

IInv == TypeOK /\ AnswerIsRight /\ ReadsInside /\ Narrowed

\* What the assumption says of the tables.
LEMMA TableFacts ==
  ASSUME TypeOK
  PROVE  /\ keys \in Seq(Int) /\ Sorted(keys) /\ Len(keys) \in Nat
         /\ name \in Int
         /\ \A i \in 1..Len(curstruc.vals) : curstruc.vals[i] \in Seq(Int)
<1>1. /\ curstruc \in Structures /\ asked \in Questions
      /\ at \in 0..Len(curstruc.vals)
  BY DEF TypeOK
<1>2. /\ asked.table \in Tables /\ asked.elem \in Int /\ asked.name \in Int
      /\ curstruc[asked.table] \in Seq(Int) /\ Sorted(curstruc[asked.table])
      /\ curstruc.vals \in Seq(Seq(Int))
      /\ \A i \in 1..Len(curstruc.vals) : Sorted(curstruc.vals[i])
  BY <1>1, StructLookupAssumption
<1>3. \A i \in 1..Len(curstruc.vals) : curstruc.vals[i] \in Seq(Int)
  BY <1>2
<1>4. keys \in Seq(Int) /\ Sorted(keys)
  <2>1. CASE at = 0
    BY <1>2, <2>1 DEF keys
  <2>2. CASE at # 0
    <3>1. at \in 1..Len(curstruc.vals)
      BY <1>1, <1>2, <2>2
    <3> QED BY <1>2, <1>3, <2>2, <3>1 DEF keys
  <2> QED BY <2>1, <2>2
<1>5. name \in Int
  BY <1>2 DEF name
<1> QED BY <1>3, <1>4, <1>5

\* A probe lands inside the part of the table that is left.
LEMMA ProbeIsInside ==
  ASSUME IInv, Running
  PROVE  /\ begin \in Nat /\ end \in Nat /\ end <= Len(keys)
         /\ cur \in Nat
         /\ keys # <<>> => begin <= cur /\ cur < end
         /\ cur >= Len(keys) => keys = <<>>
<1>1. keys \in Seq(Int) /\ Len(keys) \in Nat
  BY TableFacts DEF IInv
<1>2. end \in 0..Len(keys) /\ begin \in 0..end
  BY DEF IInv, TypeOK
<1>3. begin < end \/ keys = <<>>
  BY DEF IInv, Narrowed
<1>4. cur \in Nat /\ (begin < end => begin <= cur /\ cur < end)
  BY <1>1, <1>2 DEF cur
<1> QED BY <1>1, <1>2, <1>3, <1>4

\* The invariant holds at the beginning.
LEMMA LookupStart == LookupInit => IInv
<1> SUFFICES ASSUME LookupInit PROVE IInv
  OBVIOUS
<1>1. curstruc[asked.table] \in Seq(Int) /\ asked.table \in Tables
      /\ curstruc.vals \in Seq(Seq(Int))
  BY StructLookupAssumption DEF LookupInit
<1>2. keys = curstruc[asked.table] /\ Len(keys) \in Nat /\ (Len(keys) = 0 => keys = <<>>)
  BY <1>1 DEF LookupInit, keys
<1>3. TypeOK
  BY <1>1, <1>2 DEF LookupInit, TypeOK, Answer
<1>4. Narrowed
  BY <1>2 DEF LookupInit, Narrowed, Running, Answer
<1> QED BY <1>3, <1>4 DEF IInv, LookupInit, AnswerIsRight, ReadsInside, Answer

\* The test that ends the loop.
LEMMA Width ==
  ASSUME NEW b \in Nat, NEW e \in Nat, b <= e
  PROVE  \/ e - b < 1 /\ b = e
         \/ ~(e - b < 1) /\ b < e
OBVIOUS

\* A turn that narrows the table keeps out only entries that cannot match.
LEMMA NarrowingStep ==
  ASSUME IInv, Left \/ Right
  PROVE  IInv' /\ end' - begin' < end - begin
<1>1. /\ keys \in Seq(Int) /\ Sorted(keys) /\ Len(keys) \in Nat /\ name \in Int
      /\ Running /\ cur < Len(keys) /\ keys' = keys /\ name' = name
      /\ UNCHANGED <<curstruc, asked, at>>
  BY TableFacts DEF IInv, Left, Right, Probes, keys, name, Coded
<1>2. /\ begin \in Nat /\ end \in Nat /\ end <= Len(keys) /\ cur \in Nat
      /\ begin <= cur /\ cur < end
  BY <1>1, ProbeIsInside
<1>3. /\ \A i \in 1..begin : keys[i] < name
      /\ \A i \in (end + 1)..Len(keys) : name < keys[i]
  BY <1>1 DEF IInv, Narrowed, Running
<1>4. /\ end' \in 0..Len(keys) /\ begin' \in 0..end' /\ end' - begin' < end - begin
      /\ \A i \in 1..begin' : keys[i] < name
      /\ \A i \in (end' + 1)..Len(keys) : name < keys[i]
  <2>1. CASE Left
    <3>1. name < keys[cur + 1] /\ end' = cur /\ begin' = begin
      BY <2>1 DEF Left, Below
    <3>2. \A i \in (cur + 1)..Len(keys) : keys[cur + 1] <= keys[i]
      <4>1. cur + 1 \in 1..Len(keys) /\ \A i \in 1..Len(keys) : keys[i] \in Int
        BY <1>1, <1>2
      <4>2. \A i \in 1..Len(keys) : cur + 1 < i => keys[cur + 1] < keys[i]
        BY <1>1, <4>1 DEF Sorted
      <4> QED BY <1>1, <1>2, <4>1, <4>2
    <3> QED BY <1>1, <1>2, <1>3, <3>1, <3>2
  <2>2. CASE Right
    <3>1. name > keys[cur + 1] /\ begin' = cur + 1 /\ end' = end
      BY <2>2 DEF Right, Above
    <3>2. \A i \in 1..(cur + 1) : keys[i] <= keys[cur + 1]
      BY <1>1, <1>2 DEF Sorted
    <3> QED BY <1>1, <1>2, <1>3, <3>1, <3>2
  <2> QED BY <2>1, <2>2
<1>5. answer' = IF end' - begin' < 1 THEN Answer("NULL") ELSE answer
  BY DEF Left, Right, Conclude
<1>6. TypeOK'
  BY <1>1, <1>4, <1>5 DEF IInv, TypeOK, Answer, Coded
<1>7. Narrowed'
  <2>1. \/ end' - begin' < 1 /\ begin' = end'
        \/ ~(end' - begin' < 1) /\ begin' < end'
    <3>1. begin' \in Nat /\ end' \in Nat /\ begin' <= end'
      BY <1>1, <1>4
    <3> QED BY <3>1, Width
  <2>2. /\ \A i \in 1..begin' : keys'[i] < name'
        /\ \A i \in (end' + 1)..Len(keys') : name' < keys'[i]
    BY <1>1, <1>4
  <2>3. CASE end' - begin' < 1
    <3>1. begin' = end'
      BY <2>1, <2>3
    <3>2. answer'.kind = "NULL"
      BY <1>5, <2>3 DEF Answer
    <3> QED BY <2>2, <3>1, <3>2 DEF Narrowed, Running
  <2>4. CASE ~(end' - begin' < 1)
    <3>1. begin' < end'
      BY <2>1, <2>4
    <3>2. answer' = answer /\ answer'.kind = "none"
      BY <1>1, <1>5, <2>4 DEF Running
    <3> QED BY <2>2, <3>1, <3>2 DEF Narrowed, Running
  <2> QED BY <2>3, <2>4
<1>8. AnswerIsRight'
  <2>1. answer'.kind = "NULL" => \A i \in 1..Len(keys) : keys[i] # name
    <3>1. SUFFICES ASSUME answer'.kind = "NULL" PROVE \A i \in 1..Len(keys) : keys[i] # name
      OBVIOUS
    <3>2. begin' = end'
      BY <1>4, <1>5, <1>7, <3>1 DEF Narrowed
    <3>3. ASSUME NEW b \in Nat, NEW i \in 1..Len(keys)
          PROVE  i \in 1..b \/ i \in (b + 1)..Len(keys)
      BY <1>1
    <3>4. ASSUME NEW i \in 1..Len(keys)
          PROVE  keys[i] < name \/ name < keys[i]
      <4>1. begin' \in Nat
        BY <1>1, <1>4
      <4>2. i \in 1..begin' \/ i \in (begin' + 1)..Len(keys)
        BY <3>3, <4>1
      <4> QED BY <1>4, <3>2, <4>2
    <3>5. \A i \in 1..Len(keys) : keys[i] \in Int
      BY <1>1
    <3> QED BY <1>1, <3>4, <3>5
  <2>2. answer'.kind # "found" /\ answer'.kind # "undefined"
    BY <1>1, <1>5 DEF Answer, Running
  <2> QED BY <1>1, <2>1, <2>2 DEF IInv, AnswerIsRight
<1>9. ReadsInside'
  BY <1>1, <1>5 DEF ReadsInside, Answer, Running
<1> QED BY <1>4, <1>6, <1>7, <1>8, <1>9 DEF IInv

\* Every step keeps it.
LEMMA LookupStep ==
  ASSUME IInv, [LookupNext]_lookupVars
  PROVE  IInv'
<1>1. CASE Outside
  <2>1. keys = <<>> /\ keys' = keys /\ name' = name /\ Coded' = Coded
    BY <1>1, ProbeIsInside DEF Outside, keys, name, Coded
  <2> QED BY <1>1, <2>1 DEF Outside, IInv, TypeOK, AnswerIsRight, ReadsInside,
       Narrowed, Answer, Running
<1>2. CASE Found
  <2>1. /\ keys \in Seq(Int) /\ cur \in Nat /\ cur < Len(keys) /\ keys[cur + 1] = name
        /\ answer' = [kind |-> "found", index |-> cur + 1]
        /\ keys' = keys /\ name' = name /\ Coded' = Coded /\ (Coded => at # 0)
    BY <1>2, ProbeIsInside, TableFacts DEF Found, Probes, IInv, keys, name, Coded
  <2>2. cur + 1 \in 1..Len(keys)
    BY <2>1
  <2> QED BY <1>2, <2>1, <2>2 DEF Found, IInv, TypeOK, AnswerIsRight, ReadsInside,
       Narrowed, Running
<1>3. CASE FoundElement
  <2>1. /\ Running /\ Coded /\ at = 0 /\ cur < Len(keys) /\ keys[cur + 1] = name
        /\ at' = cur + 1 /\ begin' = 0 /\ end' = Len(curstruc.vals[cur + 1])
        /\ UNCHANGED <<curstruc, asked, answer>>
    BY <1>3 DEF FoundElement, Probes
  <2>2. keys = curstruc["codes"] /\ name = asked.elem
    BY <2>1 DEF keys, name, Coded
  <2>3. /\ Len(curstruc.vals) = Len(keys) /\ cur \in Nat /\ Len(keys) \in Nat
    BY <2>1, <2>2, ProbeIsInside, TableFacts, StructLookupAssumption DEF IInv, TypeOK
  <2>4. cur + 1 \in 1..Len(curstruc.vals)
    BY <2>1, <2>3
  <2>5. keys' = curstruc.vals[cur + 1] /\ curstruc.vals[cur + 1] \in Seq(Int)
    BY <2>1, <2>3, <2>4, TableFacts DEF keys, IInv
  <2>6. Len(keys') \in Nat /\ (Len(keys') = 0 => keys' = <<>>)
    BY <2>5
  <2>7. TypeOK'
    BY <2>1, <2>3, <2>4, <2>5, <2>6 DEF IInv, TypeOK, Coded
  <2>8. Narrowed'
    BY <2>1, <2>5, <2>6 DEF Narrowed, Running
  <2> QED BY <2>1, <2>2, <2>7, <2>8 DEF IInv, AnswerIsRight, ReadsInside, Running
<1>4. CASE Left \/ Right
  BY <1>4, NarrowingStep
<1>5. CASE UNCHANGED lookupVars
  <2>1. keys' = keys /\ name' = name /\ Coded' = Coded
    BY <1>5 DEF lookupVars, keys, name, Coded
  <2> QED BY <1>5, <2>1 DEF lookupVars, IInv, TypeOK, AnswerIsRight, ReadsInside, Narrowed, Running
<1> QED BY <1>1, <1>2, <1>3, <1>4, <1>5 DEF LookupNext

-----------------------------------------------------------------------------

\* find_edistruct_* and find_coded_value, on sorted tables of any size: NULL
\* only for a name that is not there, and an entry only of the name asked for.
THEOREM SearchIsRight == LookupSpec => []AnswerIsRight
<1>1. IInv => AnswerIsRight
  BY DEF IInv
<1> QED BY <1>1, LookupStart, LookupStep, PTL DEF LookupSpec

\* Reading outside a table takes a table with no entry.
THEOREM SearchStaysInside == LookupSpec => []ReadsInside
<1>1. IInv => ReadsInside
  BY DEF IInv
<1> QED BY <1>1, LookupStart, LookupStep, PTL DEF LookupSpec

\* The loop cannot turn for ever: what is left of the table shrinks each time.
THEOREM SearchShrinks == LookupSpec => Shrinks
<1>1. IInv /\ [LookupNext]_lookupVars => [at' = at /\ Running' => end' - begin' < end - begin]_lookupVars
  <2> SUFFICES ASSUME IInv, LookupNext, at' = at, Running'
               PROVE  end' - begin' < end - begin
    BY DEF lookupVars
  <2>1. CASE Left \/ Right
    BY <2>1, NarrowingStep
  <2>2. ~Outside /\ ~Found
    BY DEF Outside, Found, Running, Answer
  <2>3. ~FoundElement
    <3>1. FoundElement => at = 0 /\ at' = cur + 1 /\ cur \in Nat
      BY ProbeIsInside DEF FoundElement, Probes
    <3> QED BY <3>1
  <2> QED BY <2>1, <2>2, <2>3 DEF LookupNext
<1> QED BY <1>1, LookupStart, LookupStep, PTL DEF LookupSpec, Shrinks

-----------------------------------------------------------------------------
(* Recursion over a sequence, and the concatenation of sequences of        *)
(* anything.  The induction is stated of a set, because the provers cannot *)
(* instantiate the library's, which is stated of an operator; it rests on  *)
(* the library's well-founded induction.                                   *)

\* What a sequence over a set holds at a place of it is in the set.
LEMMA ElementOfSequence ==
  ASSUME NEW S, NEW s \in Seq(S), NEW k \in 1..Len(s)
  PROVE  s[k] \in S
BY ElementOfSeq

\* Induction over the naturals, for a set of them.
LEMMA SetInduction ==
  ASSUME NEW T, 0 \in T, \A n \in Nat : n \in T => n + 1 \in T
  PROVE  \A n \in Nat : n \in T
<1> DEFINE U == Nat \ T
<1> SUFFICES ASSUME U # {} PROVE FALSE
  OBVIOUS
<1>1. PICK x \in U : \A y \in U : ~(<<y, x>> \in OpToRel(<, Nat))
  <2>1. U \subseteq Nat
    OBVIOUS
  <2> QED BY <2>1, NatLessThanWellFounded, WFMin, Zenon
<1>2. \A y \in U : ~(y < x)
  BY <1>1, Zenon DEF OpToRel
<1>3. x # 0 /\ x - 1 \in Nat /\ x - 1 \notin U
  BY <1>2
<1> QED BY <1>3

\* fn is b at 0, and at n what F makes of n and of fn at n - 1.
Unfolds(fn, N, b, F) ==
  /\ fn[0] = b
  /\ \A n \in 1..N : fn[n] = F[<<n, fn[n - 1]>>]

\* A function that is defined by recursion exists.
LEMMA Recursion ==
  ASSUME NEW S, NEW b \in S, NEW N \in Nat, NEW F \in [Nat \X S -> S]
  PROVE  \E fn \in [0..N -> S] : Unfolds(fn, N, b, F)
<1> DEFINE T == {n \in Nat : \E fn \in [0..n -> S] : Unfolds(fn, n, b, F)}
<1>1. 0 \in T
  <2>1. [n \in 0..0 |-> b] \in [0..0 -> S] /\ Unfolds([n \in 0..0 |-> b], 0, b, F)
    BY DEF Unfolds
  <2> QED BY <2>1
<1>2. ASSUME NEW n \in Nat, n \in T PROVE n + 1 \in T
  <2>1. PICK fn \in [0..n -> S] : Unfolds(fn, n, b, F)
    BY <1>2
  <2> DEFINE g == [q \in 0..(n + 1) |-> IF q <= n THEN fn[q] ELSE F[<<n + 1, fn[n]>>]]
  <2>2. g \in [0..(n + 1) -> S]
    <3>1. F[<<n + 1, fn[n]>>] \in S
      OBVIOUS
    <3> QED BY <3>1
  <2>3. Unfolds(g, n + 1, b, F)
    <3>1. g[0] = b
      BY <2>1 DEF Unfolds
    <3>2. ASSUME NEW q \in 1..(n + 1) PROVE g[q] = F[<<q, g[q - 1]>>]
      <4>1. CASE q <= n
        <5>1. fn[q] = F[<<q, fn[q - 1]>>]
          BY <2>1, <4>1 DEF Unfolds
        <5>2. q - 1 \in 0..(n + 1) /\ q - 1 <= n /\ q \in 0..(n + 1)
          BY <4>1
        <5>3. g[q] = fn[q] /\ g[q - 1] = fn[q - 1]
          BY <5>2, <4>1
        <5> QED BY <5>1, <5>3
      <4>2. CASE q = n + 1
        <5>1. g[n] = fn[n] /\ g[n + 1] = F[<<n + 1, fn[n]>>]
          OBVIOUS
        <5>2. q - 1 = n
          BY <4>2
        <5> QED BY <4>2, <5>1, <5>2
      <4> QED BY <4>1, <4>2
    <3> QED BY <3>1, <3>2 DEF Unfolds
  <2>4. \E h \in [0..(n + 1) -> S] : Unfolds(h, n + 1, b, F)
    BY <2>2, <2>3
  <2> QED BY <2>4
<1>3. \A n \in Nat : n \in T
  <2> HIDE DEF T
  <2> QED BY <1>1, <1>2, SetInduction
<1> QED BY <1>3

-----------------------------------------------------------------------------
(* Texts put together from pieces *)

\* Concatenation is associative.
LEMMA Associative ==
  ASSUME NEW S
  PROVE  \A s, t, u \in Seq(S) : (s \o t) \o u = s \o (t \o u)
BY ConcatAssociative

\* fn says what the pieces make, from the first to the k-th.
Gathers(fn, ps, S) ==
  /\ fn \in [0..Len(ps) -> Seq(S)]
  /\ fn[0] = <<>>
  /\ \A k \in 1..Len(ps) : fn[k] = fn[k - 1] \o ps[k]

\* There is such an fn.
LEMMA Gathering ==
  ASSUME NEW S, NEW ps \in Seq(Seq(S))
  PROVE  \E fn : Gathers(fn, ps, S)
<1> DEFINE N == Len(ps)
           T == Seq(S)
           F == [p \in Nat \X T |-> IF p[1] \in 1..N THEN p[2] \o ps[p[1]] ELSE p[2]]
<1>1. N \in Nat /\ <<>> \in T
  OBVIOUS
<1>2. \A n \in Nat, s \in T : n \in 1..N => s \o ps[n] \in T
  BY ElementOfSequence
<1>3. F \in [Nat \X T -> T]
  <2>1. ASSUME NEW p \in Nat \X T
        PROVE  (IF p[1] \in 1..N THEN p[2] \o ps[p[1]] ELSE p[2]) \in T
    <3>1. p[1] \in Nat /\ p[2] \in T
      OBVIOUS
    <3> HIDE DEF T, N
    <3> QED BY <3>1, <1>2
  <2> QED BY <2>1
<1>4. ASSUME NEW n \in 1..N, NEW s \in T PROVE F[<<n, s>>] = s \o ps[n]
  <2>1. n \in Nat
    BY <1>1
  <2> HIDE DEF T, N
  <2>2. <<n, s>> \in Nat \X T /\ <<n, s>>[1] = n /\ <<n, s>>[2] = s
    BY <2>1
  <2> QED BY <2>2
<1>5. PICK fn \in [0..N -> T] : Unfolds(fn, N, <<>>, F)
  <2> HIDE DEF T, N, F
  <2> QED BY <1>1, <1>3, Recursion
<1>6. fn[0] = <<>> /\ \A k \in 1..N : fn[k] = F[<<k, fn[k - 1]>>]
  BY <1>5 DEF Unfolds
<1>7. ASSUME NEW k \in 1..N PROVE fn[k - 1] \in T
  <2>1. k - 1 \in 0..N
    BY <1>1
  <2> QED BY <2>1, <1>5
<1>8. \A k \in 1..N : fn[k] = fn[k - 1] \o ps[k]
  <2> HIDE DEF T, N, F
  <2> QED BY <1>4, <1>6, <1>7
<1> QED BY <1>5, <1>6, <1>8 DEF Gathers

\* All the pieces together are the last it makes.
LEMMA Flattened ==
  ASSUME NEW S, NEW ps \in Seq(Seq(S)), NEW fn, Gathers(fn, ps, S)
  PROVE  FlattenSeq(ps) = fn[Len(ps)]
<1> DEFINE N == Len(ps)
           Body(g) == [k \in 1..N |-> IF k = 1 THEN ps[k] ELSE g[k - 1] \o ps[k]]
           h == [k \in 1..N |-> fn[k]]
           all == CHOOSE g : g = Body(g)
<1>1. N \in Nat /\ fn \in [0..N -> Seq(S)] /\ fn[0] = <<>>
      /\ \A k \in 1..N : fn[k] = fn[k - 1] \o ps[k]
  <2>1. Len(ps) \in Nat
    OBVIOUS
  <2> QED BY <2>1 DEF Gathers
<1>2. CASE N = 0
  BY <1>1, <1>2 DEF FlattenSeq
<1>3. CASE N # 0
  <2>1. FlattenSeq(ps) = all[N]
    BY <1>3 DEF FlattenSeq
  <2>2. fn[1] = ps[1]
    <3>1. 1 \in 1..N /\ 1 - 1 = 0
      BY <1>1, <1>3
    <3>2. fn[1] = <<>> \o ps[1]
      BY <1>1, <3>1
    <3>3. ps[1] \in Seq(S)
      BY <3>1, ElementOfSequence
    <3> QED BY <3>2, <3>3
  <2>3. h = Body(h)
    <3>1. ASSUME NEW k \in 1..N PROVE fn[k] = IF k = 1 THEN ps[k] ELSE h[k - 1] \o ps[k]
      <4>1. CASE k = 1
        BY <4>1, <2>2
      <4>2. CASE k # 1
        <5>1. k - 1 \in 1..N
          BY <4>2, <1>1
        <5>2. h[k - 1] = fn[k - 1]
          BY <5>1
        <5> QED BY <4>2, <5>2, <1>1
      <4> QED BY <4>1, <4>2
    <3> QED BY <3>1
  <2>4. all = Body(all)
    <3> HIDE DEF Body, h
    <3> QED BY <2>3
  <2>5. \A k \in 1..N : all[k] = IF k = 1 THEN ps[k] ELSE all[k - 1] \o ps[k]
    BY <2>4
  <2> DEFINE T == {k \in Nat : k + 1 \in 1..N => all[k + 1] = fn[k + 1]}
  <2> HIDE DEF all
  <2>6. 0 \in T
    BY <2>2, <2>5
  <2>7. ASSUME NEW k \in Nat, k \in T PROVE k + 1 \in T
    <3> SUFFICES ASSUME (k + 1) + 1 \in 1..N PROVE all[(k + 1) + 1] = fn[(k + 1) + 1]
      OBVIOUS
    <3>1. k + 1 \in 1..N /\ (k + 1) + 1 # 1 /\ ((k + 1) + 1) - 1 = k + 1
      BY <1>1
    <3>2. all[k + 1] = fn[k + 1]
      BY <2>7, <3>1
    <3>3. (k + 1) + 1 \in 1..N
      OBVIOUS
    <3>4. all[(k + 1) + 1] = all[k + 1] \o ps[(k + 1) + 1]
      BY <3>1, <3>3, <2>5
    <3>5. fn[(k + 1) + 1] = fn[k + 1] \o ps[(k + 1) + 1]
      BY <3>1, <3>3, <1>1
    <3> QED BY <3>2, <3>4, <3>5
  <2>8. N - 1 \in T
    <3>1. \A k \in Nat : k \in T
      <4> HIDE DEF T
      <4> QED BY <2>6, <2>7, SetInduction
    <3>2. N - 1 \in Nat
      BY <1>1, <1>3
    <3> QED BY <3>1, <3>2
  <2>9. (N - 1) + 1 = N /\ N \in 1..N
    BY <1>1, <1>3
  <2> QED BY <2>1, <2>8, <2>9
<1> QED BY <1>2, <1>3

\* The first piece, and what the others make.
LEMMA FlattenFirst ==
  ASSUME NEW S, NEW ps \in Seq(Seq(S)), ps # <<>>
  PROVE  FlattenSeq(ps) = ps[1] \o FlattenSeq(Tail(ps))
<1>0. \A s, t, u \in Seq(S) : (s \o t) \o u = s \o (t \o u)
  BY Associative, SMTT(40)
<1> DEFINE qs == Tail(ps)
           N == Len(qs)
<1>1. /\ qs \in Seq(Seq(S)) /\ N \in Nat /\ Len(ps) = N + 1
      /\ \A k \in 1..N : qs[k] = ps[k + 1]
      /\ ps[1] \in Seq(S)
  <2>1. qs \in Seq(Seq(S)) /\ N = Len(ps) - 1 /\ \A k \in 1..N : qs[k] = ps[k + 1]
    BY HeadTailProperties
  <2>2. Len(ps) \in Nat /\ Len(ps) # 0
    OBVIOUS
  <2>3. 1 \in 1..Len(ps)
    BY <2>2
  <2> QED BY <2>1, <2>2, <2>3, ElementOfSequence
<1> HIDE DEF qs
<1>2. PICK fn : Gathers(fn, ps, S)
  BY Gathering
<1>3. PICK g : Gathers(g, qs, S)
  BY <1>1, Gathering
<1>4. /\ \A k \in 1..(N + 1) : fn[k] = fn[k - 1] \o ps[k]
      /\ fn[0] = <<>> /\ g[0] = <<>>
      /\ \A k \in 1..N : g[k] = g[k - 1] \o qs[k]
      /\ \A k \in 0..N : g[k] \in Seq(S)
  BY <1>1, <1>2, <1>3 DEF Gathers
<1> DEFINE T == {k \in Nat : k \in 0..N => fn[k + 1] = ps[1] \o g[k]}
<1>5. 0 \in T
  <2>1. 0 + 1 \in 1..(N + 1) /\ (0 + 1) - 1 = 0 /\ 0 + 1 = 1
    BY <1>1
  <2>2. fn[0 + 1] = <<>> \o ps[1]
    BY <2>1, <1>4
  <2>3. <<>> \o ps[1] = ps[1] /\ ps[1] \o <<>> = ps[1]
    BY <1>1
  <2> QED BY <2>2, <2>3, <1>4
<1>6. ASSUME NEW k \in Nat, k \in T PROVE k + 1 \in T
  <2> SUFFICES ASSUME k + 1 \in 0..N PROVE fn[(k + 1) + 1] = ps[1] \o g[k + 1]
    <3>1. k + 1 \in Nat
      OBVIOUS
    <3> QED BY <3>1, Zenon
  <2>1. k + 1 \in 1..N /\ (k + 1) + 1 \in 1..(N + 1) /\ k \in 0..N
        /\ ((k + 1) + 1) - 1 = k + 1 /\ (k + 1) - 1 = k
    BY <1>1
  <2>2. fn[k + 1] = ps[1] \o g[k]
    BY <1>6, <2>1
  <2>3. fn[(k + 1) + 1] = fn[k + 1] \o ps[(k + 1) + 1]
    BY <1>4, <2>1
  <2>4. g[k + 1] = g[k] \o qs[k + 1] /\ qs[k + 1] = ps[(k + 1) + 1]
    BY <1>4, <1>1, <2>1
  <2>5. g[k] \in Seq(S) /\ qs[k + 1] \in Seq(S)
    BY <1>4, <1>1, <2>1, ElementOfSequence
  <2>6. (ps[1] \o g[k]) \o qs[k + 1] = ps[1] \o (g[k] \o qs[k + 1])
    <3>1. ps[1] \in Seq(S)
      BY <1>1
    <3>3. g[k] \in Seq(S) /\ qs[k + 1] \in Seq(S)
      BY <2>5
    <3> HIDE DEF T, N
    <3> QED BY <3>1, <1>0, <3>3, Zenon
  <2> QED BY <2>2, <2>3, <2>4, <2>6
<1>7. N \in T
  <2>1. \A k \in Nat : k \in T
    <3> HIDE DEF T, N
    <3> QED BY <1>5, <1>6, SetInduction
  <2> QED BY <2>1, <1>1
<1>8. fn[N + 1] = ps[1] \o g[N]
  <2>1. N \in 0..N
    BY <1>1
  <2> QED BY <1>7, <2>1
<1>9. FlattenSeq(ps) = fn[N + 1] /\ FlattenSeq(qs) = g[N]
  BY <1>1, <1>2, <1>3, Flattened
<1> QED BY <1>8, <1>9 DEF qs

\* Pieces over a set make a text over it.
LEMMA FlattenType ==
  ASSUME NEW S, NEW ps \in Seq(Seq(S))
  PROVE  FlattenSeq(ps) \in Seq(S)
<1>1. PICK fn : Gathers(fn, ps, S)
  BY Gathering
<1>2. fn[Len(ps)] \in Seq(S)
  BY <1>1 DEF Gathers
<1> QED BY <1>1, <1>2, Flattened

\* The pieces from the k-th on.
From(ps, k) == FlattenSeq(SubSeq(ps, k, Len(ps)))

\* What is left of a text is its next piece and what is left behind it.
LEMMA FromFacts ==
  ASSUME NEW S, NEW ps \in Seq(Seq(S))
  PROVE  /\ \A k \in 1..(Len(ps) + 1) : From(ps, k) \in Seq(S)
         /\ From(ps, 1) = FlattenSeq(ps)
         /\ From(ps, Len(ps) + 1) = <<>>
         /\ \A k \in 1..Len(ps) : ps[k] \in Seq(S) /\ From(ps, k) = ps[k] \o From(ps, k + 1)
<1>1. Len(ps) \in Nat
  OBVIOUS
<1>2. ASSUME NEW k \in 1..(Len(ps) + 1) PROVE SubSeq(ps, k, Len(ps)) \in Seq(Seq(S))
  BY <1>1, ElementOfSequence, SubSeqProperties
<1>3. \A k \in 1..(Len(ps) + 1) : From(ps, k) \in Seq(S)
  BY <1>2, FlattenType DEF From
<1>4. From(ps, 1) = FlattenSeq(ps)
  BY SubSeqFull DEF From
<1>5. From(ps, Len(ps) + 1) = <<>>
  <2>1. SubSeq(ps, Len(ps) + 1, Len(ps)) = <<>>
    BY <1>1, SubSeqEmpty
  <2>2. FlattenSeq(<<>>) = <<>>
    BY DEF FlattenSeq
  <2> QED BY <2>1, <2>2 DEF From
<1>6. ASSUME NEW k \in 1..Len(ps)
      PROVE  ps[k] \in Seq(S) /\ From(ps, k) = ps[k] \o From(ps, k + 1)
  <2>1. Len(ps) \in k..Len(ps) /\ k \in 1..(Len(ps) + 1)
    BY <1>1
  <2> DEFINE qs == SubSeq(ps, k, Len(ps))
  <2>2. qs \in Seq(Seq(S))
    BY <1>2, <2>1
  <2>3. Head(qs) = ps[k] /\ Tail(qs) = SubSeq(ps, k + 1, Len(ps))
    BY <2>1, HeadTailOfSubSeq
  <2>4. Len(qs) = (Len(ps) - k) + 1
    BY <2>1, <1>1, ElementOfSequence, SubSeqProperties
  <2>5. qs # <<>>
    <3>1. Len(qs) # 0
      BY <2>4, <1>1
    <3> HIDE DEF qs
    <3> QED BY <3>1
  <2> HIDE DEF qs
  <2>6. FlattenSeq(qs) = qs[1] \o FlattenSeq(Tail(qs))
    BY <2>2, <2>5, FlattenFirst
  <2>7. Head(qs) = qs[1]
    OBVIOUS
  <2>8. From(ps, k) = FlattenSeq(qs)
    BY DEF From, qs
  <2> QED BY <2>3, <2>6, <2>7, <2>8, ElementOfSequence DEF From
<1> QED BY <1>3, <1>4, <1>5, <1>6

-----------------------------------------------------------------------------
(* The items of a file, from a place of it on                              *)

Names ==
  {"", "title", "children", "child", "value", "segments", "segment", "composites",
   "composite", "elements", "element", "coded_values", "coded_element"}

Item == [does : {"start", "end", "text", "error"}, name : Names, text : Text]

Listed == {"segs", "comps"}

\* Three pieces in a row.
LEMMA Three ==
  ASSUME NEW S, NEW a \in Seq(S), NEW b \in Seq(S), NEW c \in Seq(S)
  PROVE  (a \o b) \o c = a \o (b \o c) /\ (a \o b) \o c \in Seq(S)
         /\ a \o b \in Seq(S) /\ b \o c \in Seq(S)
BY Associative, ConcatProperties

\* The same for more pieces.
LEMMA Four ==
  ASSUME NEW S
  PROVE  \A a, b, p, z \in Seq(S) :
           ((a \o b) \o p) \o z = a \o (b \o (p \o z)) /\ ((a \o b) \o p) \o z \in Seq(S)
<1>1. \A s, t, u \in Seq(S) : (s \o t) \o u = s \o (t \o u)
  BY Associative, SMTT(40)
<1>2. \A s, t \in Seq(S) : s \o t \in Seq(S)
  BY ConcatProperties
<1> TAKE a, b, p, z \in Seq(S)
<1>3. PICK ab \in Seq(S) : ab = a \o b
  BY <1>2
<1>4. PICK pz \in Seq(S) : pz = p \o z
  BY <1>2
<1>5. (a \o b) \o pz = a \o (b \o pz)
  <2>1. \A t, u \in Seq(S) : (a \o t) \o u = a \o (t \o u)
    BY <1>1, Zenon
  <2>2. \A u \in Seq(S) : (a \o b) \o u = a \o (b \o u)
    BY <2>1, Zenon
  <2> QED BY <2>2, Zenon
<1>6. (ab \o p) \o z = ab \o (p \o z)
  <2>1. \A t, u \in Seq(S) : (ab \o t) \o u = ab \o (t \o u)
    BY <1>1, Zenon
  <2>2. \A u \in Seq(S) : (ab \o p) \o u = ab \o (p \o u)
    BY <2>1, Zenon
  <2> QED BY <2>2, Zenon
<1>7. (ab \o p) \o z \in Seq(S)
  BY <1>2, Zenon
<1> QED BY <1>3, <1>4, <1>5, <1>6, <1>7, Zenon

\* The pieces of an entry, and what follows them.
LEMMA Six ==
  ASSUME NEW S
  PROVE  \A a, b, c, p, d, z \in Seq(S) :
           /\ ((a \o b) \o ((c \o p) \o d)) \o z = a \o (b \o (c \o (p \o (d \o z))))
           /\ ((a \o b) \o ((c \o p) \o d)) \o z \in Seq(S)
<1>1. \A s, t, u, v \in Seq(S) :
        ((s \o t) \o u) \o v = s \o (t \o (u \o v)) /\ ((s \o t) \o u) \o v \in Seq(S)
  BY Four
<1>2. \A s, t \in Seq(S) : s \o t \in Seq(S)
  BY ConcatProperties
<1> TAKE a, b, c, p, d, z \in Seq(S)
<1>3. PICK cp \in Seq(S) : cp = c \o p
  BY <1>2
<1>4. PICK cpd \in Seq(S) : cpd = cp \o d
  BY <1>2
<1>5. ((a \o b) \o cpd) \o z = a \o (b \o (cpd \o z)) /\ ((a \o b) \o cpd) \o z \in Seq(S)
  BY <1>1, Zenon
<1>6. ((c \o p) \o d) \o z = c \o (p \o (d \o z)) /\ ((c \o p) \o d) \o z \in Seq(S)
  BY <1>1, Zenon
<1>7. cpd \o z = c \o (p \o (d \o z))
  BY <1>3, <1>4, <1>6, Zenon
<1>8. cpd = (c \o p) \o d
  BY <1>3, <1>4, Zenon
<1> QED BY <1>5, <1>7, <1>8, Zenon

\* A start or an end is one item.
LEMMA OneItem ==
  ASSUME NEW nm \in Names, NEW t \in Text
  PROVE  /\ Start(nm, t) \in Seq(Item) /\ Len(Start(nm, t)) = 1
         /\ Start(nm, t)[1] = [does |-> "start", name |-> nm, text |-> t]
         /\ End(nm) \in Seq(Item) /\ Len(End(nm)) = 1
         /\ End(nm)[1].does = "end"
<1>1. <<>> \in Text
  BY DEF Text
<1>2. [does |-> "start", name |-> nm, text |-> t] \in Item
      /\ [does |-> "end", name |-> nm, text |-> <<>>] \in Item
  BY <1>1 DEF Item
<1> QED BY <1>2 DEF Start, End

\* A text is an item for each of its characters.
LEMMA TextItems ==
  ASSUME NEW t \in Text
  PROVE  /\ Characters(t) \in Seq(Item) /\ Len(Characters(t)) = Len(t) /\ Len(t) \in Nat
         /\ \A c \in 1..Len(t) : Characters(t)[c].does = "text" /\ Characters(t)[c].text = <<t[c]>>
<1>1. DOMAIN t = 1..Len(t) /\ Len(t) \in Nat /\ t \in Seq(Chars)
  BY DEF Text
<1>2. \A c \in 1..Len(t) : [does |-> "text", name |-> "", text |-> <<t[c]>>] \in Item
  <2>1. \A c \in 1..Len(t) : <<t[c]>> \in Text
    BY <1>1, ElementOfSequence DEF Text
  <2> QED BY <2>1 DEF Item, Names
<1>3. Characters(t) = [c \in 1..Len(t) |-> [does |-> "text", name |-> "", text |-> <<t[c]>>]]
  BY <1>1 DEF Characters
<1> DEFINE word == [c \in 1..Len(t) |-> [does |-> "text", name |-> "", text |-> <<t[c]>>]]
<1>4. word \in [1..Len(t) -> Item]
  BY <1>2
<1>5. word \in Seq(Item) /\ Len(word) = Len(t)
  <2> HIDE DEF word
  <2> QED BY <1>1, <1>4, SeqDef, LenProperties
<1>6. \A c \in 1..Len(t) : word[c].does = "text" /\ word[c].text = <<t[c]>>
  OBVIOUS
<1> HIDE DEF word
<1>7. Characters(t) = word
  BY <1>3 DEF word
<1> QED BY <1>1, <1>5, <1>6, <1>7

\* What follows from q on in the items is s, to the last.
Lies(its, q, s) ==
  /\ q \in Nat /\ q + Len(s) = Len(its)
  /\ \A n \in 1..Len(s) : its[q + n] = s[n]

\* Behind a beginning of what follows lies what is left of it.
LEMMA LiesOn ==
  ASSUME NEW its, NEW q, NEW u \in Seq(Item), NEW v \in Seq(Item), Lies(its, q, u \o v)
  PROVE  /\ Lies(its, q + Len(u), v)
         /\ \A n \in 1..Len(u) : its[q + n] = u[n]
         /\ q + Len(u) <= Len(its) /\ Len(its) \in Nat /\ q \in Nat
<1>1. Len(u) \in Nat /\ Len(v) \in Nat /\ Len(u \o v) = Len(u) + Len(v)
  BY ConcatProperties
<1>2. q \in Nat /\ q + (Len(u) + Len(v)) = Len(its)
  BY <1>1 DEF Lies
<1>3. \A n \in 1..Len(u) : its[q + n] = u[n]
  <2> SUFFICES ASSUME NEW n \in 1..Len(u) PROVE its[q + n] = u[n]
    OBVIOUS
  <2>1. n \in 1..Len(u \o v) /\ (u \o v)[n] = u[n]
    BY <1>1, ConcatProperties
  <2> QED BY <2>1 DEF Lies
<1>4. \A n \in 1..Len(v) : its[(q + Len(u)) + n] = v[n]
  <2> SUFFICES ASSUME NEW n \in 1..Len(v) PROVE its[(q + Len(u)) + n] = v[n]
    OBVIOUS
  <2> DEFINE j == Len(u) + n
  <2>1. j \in 1..Len(u \o v) /\ (u \o v)[j] = v[n]
    BY <1>1, ConcatProperties
  <2>2. its[q + j] = (u \o v)[j]
    <3> HIDE DEF j
    <3> QED BY <2>1 DEF Lies
  <2>3. q + j = (q + Len(u)) + n
    BY <1>1, <1>2
  <2> QED BY <2>1, <2>2, <2>3
<1> QED BY <1>1, <1>2, <1>3, <1>4 DEF Lies

\* The entries of a document and the parts of an entry, as items
Listing(k, doc) == [x \in DOMAIN doc |-> EntryItems(k, doc[x])]
PartListing(k, e) == [x \in DOMAIN e.parts |-> PartItems(k, e.parts[x])]

\* The items from an entry, from a part of it, and from what follows its title on.
EntriesFrom(k, doc, e) == From(Listing(k, doc), e) \o End(Base(k)[1])
PartsEnd(k) ==
  IF k \in Listed THEN End("children") \o End(Base(k)[2]) ELSE End(Base(k)[2])
PartsFrom(k, doc, e, p) ==
  From(PartListing(k, doc[e]), p) \o (PartsEnd(k) \o EntriesFrom(k, doc, e + 1))
BodyFrom(k, doc, e) ==
  IF k \in Listed THEN Start("children", <<>>) \o PartsFrom(k, doc, e, 1) ELSE PartsFrom(k, doc, e, 1)

\* A sequence has a length, and its places are the numbers up to it.
LEMMA SequenceFacts ==
  ASSUME NEW s, IsSeq(s)
  PROVE  Len(s) \in Nat /\ DOMAIN s = 1..Len(s)
BY DEF IsSeq

\* Each kind of file has two elements of its own.
LEMMA BaseFacts ==
  ASSUME NEW k \in KindSet
  PROVE  /\ k \in {"segs", "comps", "elems", "coded"}
         /\ Base(k) = <<Base(k)[1], Base(k)[2]>>
         /\ Base(k)[1] \in Names /\ Base(k)[2] \in Names
<1>1. k \in {"segs", "comps", "elems", "coded"}
  BY DEF KindSet, Kinds, ToSet
<1> QED BY <1>1 DEF Base, Names

\* The texts of a document make items.
LEMMA TitleItems ==
  ASSUME NEW x, HasTexts(x)
  PROVE  /\ x.code \in Text
         /\ OptionalTitle(x) \in Seq(Item)
         /\ "title" \notin DOMAIN x => OptionalTitle(x) = <<>>
         /\ "title" \in DOMAIN x =>
              /\ x.title \in Text
              /\ OptionalTitle(x) = Start("title", <<>>) \o (Characters(x.title) \o End("title"))
<1>1. x.code \in Text /\ ("title" \in DOMAIN x => x.title \in Text) /\ <<>> \in Text
  BY DEF HasTexts, Text
<1>2. CASE "title" \notin DOMAIN x
  BY <1>1, <1>2 DEF OptionalTitle
<1>3. CASE "title" \in DOMAIN x
  <2>1. /\ Start("title", <<>>) \in Seq(Item) /\ End("title") \in Seq(Item)
        /\ Characters(x.title) \in Seq(Item)
    BY <1>1, <1>3, OneItem, TextItems DEF Names
  <2>2. OptionalTitle(x) = (Start("title", <<>>) \o Characters(x.title)) \o End("title")
    BY <1>3 DEF OptionalTitle, Element
  <2> QED BY <1>1, <1>3, <2>1, <2>2, Associative
<1> QED BY <1>2, <1>3

\* A part is its start, its text or title, and its end.
LEMMA PartFacts ==
  ASSUME NEW k \in KindSet, NEW e, IsEntry(k, e), NEW p \in DOMAIN e.parts
  PROVE  /\ PartItems(k, e.parts[p]) \in Seq(Item)
         /\ k # "elems"
         /\ k = "coded" => /\ HasTexts(e.parts[p])
                           /\ PartItems(k, e.parts[p])
                                = Start("value", e.parts[p].code)
                                  \o (OptionalTitle(e.parts[p]) \o End("value"))
         /\ k \in Listed => /\ e.parts[p] \in Text
                            /\ PartItems(k, e.parts[p])
                                 = Start("child", <<>>)
                                   \o (Characters(e.parts[p]) \o End("child"))
<1>0. k \in {"segs", "comps", "elems", "coded"} /\ <<>> \in Text
  BY BaseFacts DEF Text
<1>1. CASE k = "coded"
  <2>1. HasTexts(e.parts[p])
    BY <1>1 DEF IsEntry
  <2>2. /\ Start("value", e.parts[p].code) \in Seq(Item) /\ End("value") \in Seq(Item)
        /\ OptionalTitle(e.parts[p]) \in Seq(Item)
    BY <2>1, TitleItems, OneItem DEF Names
  <2>3. PartItems(k, e.parts[p])
          = (Start("value", e.parts[p].code) \o OptionalTitle(e.parts[p])) \o End("value")
    BY <1>1 DEF PartItems
  <2>4. PartItems(k, e.parts[p])
          = Start("value", e.parts[p].code) \o (OptionalTitle(e.parts[p]) \o End("value"))
        /\ PartItems(k, e.parts[p]) \in Seq(Item)
    BY <2>2, <2>3, Three
  <2> QED BY <1>1, <2>1, <2>4 DEF Listed
<1>2. CASE k # "coded"
  <2>1. k # "elems" /\ e.parts[p] \in Text
    BY <1>0, <1>2 DEF IsEntry
  <2>2. /\ Start("child", <<>>) \in Seq(Item) /\ End("child") \in Seq(Item)
        /\ Characters(e.parts[p]) \in Seq(Item)
    BY <1>0, <2>1, TextItems, OneItem DEF Names
  <2>3. PartItems(k, e.parts[p]) = (Start("child", <<>>) \o Characters(e.parts[p])) \o End("child")
    BY <1>2 DEF PartItems, Element
  <2> QED BY <1>2, <2>1, <2>2, <2>3, Associative
<1> QED BY <1>1, <1>2

\* Each part of an entry makes one piece of items.
LEMMA PartListFacts ==
  ASSUME NEW k \in KindSet, NEW e, IsEntry(k, e)
  PROVE  /\ PartListing(k, e) \in Seq(Seq(Item)) /\ Len(PartListing(k, e)) = Len(e.parts)
         /\ Len(e.parts) \in Nat /\ DOMAIN e.parts = 1..Len(e.parts)
         /\ \A p \in 1..Len(e.parts) : PartListing(k, e)[p] = PartItems(k, e.parts[p])
<1>1. IsSeq(e.parts)
  BY DEF IsEntry
<1>2. Len(e.parts) \in Nat /\ DOMAIN e.parts = 1..Len(e.parts)
  BY <1>1, SequenceFacts
<1>3. \A x \in DOMAIN e.parts : PartItems(k, e.parts[x]) \in Seq(Item)
  BY PartFacts
<1>4. PartListing(k, e) \in [1..Len(e.parts) -> Seq(Item)]
      /\ \A p \in 1..Len(e.parts) : PartListing(k, e)[p] = PartItems(k, e.parts[p])
  BY <1>2, <1>3 DEF PartListing
<1>5. PartListing(k, e) \in Seq(Seq(Item)) /\ Len(PartListing(k, e)) = Len(e.parts)
  BY <1>2, <1>4, SeqDef, LenProperties
<1> QED BY <1>2, <1>4, <1>5

ErrorItem == [does |-> "error", name |-> "", text |-> <<>>]

\* What ends an entry and a file is made of items.
LEMMA EndFacts ==
  ASSUME NEW k \in KindSet
  PROVE  /\ PartsEnd(k) \in Seq(Item) /\ End(Base(k)[1]) \in Seq(Item)
         /\ End(Base(k)[2]) \in Seq(Item) /\ End("children") \in Seq(Item)
         /\ Start("children", <<>>) \in Seq(Item)
<1>1. <<>> \in Text /\ "children" \in Names /\ Base(k)[1] \in Names /\ Base(k)[2] \in Names
  <2>1. Base(k)[1] \in Names /\ Base(k)[2] \in Names
    BY BaseFacts
  <2>2. <<>> \in Text
    BY DEF Text
  <2>3. "children" \in Names
    BY DEF Names
  <2> QED BY <2>1, <2>2, <2>3
<1>2. /\ End(Base(k)[1]) \in Seq(Item)
      /\ End(Base(k)[2]) \in Seq(Item) /\ End("children") \in Seq(Item)
      /\ Start("children", <<>>) \in Seq(Item)
  BY <1>1, OneItem
<1> QED BY <1>2, ConcatProperties DEF PartsEnd

\* An entry is its start, its title, its parts and its end.
LEMMA EntryFacts ==
  ASSUME NEW k \in KindSet, NEW e, e # Malformed, IsEntry(k, e)
  PROVE  LET parts == From(PartListing(k, e), 1)
         IN  /\ EntryItems(k, e) \in Seq(Item)
             /\ parts \in Seq(Item) /\ OptionalTitle(e) \in Seq(Item)
             /\ Start(Base(k)[2], e.code) \in Seq(Item)
             /\ EntryItems(k, e)
                  = Start(Base(k)[2], e.code)
                    \o (OptionalTitle(e)
                        \o (IF k \in Listed THEN Start("children", <<>>) \o (parts \o PartsEnd(k))
                            ELSE parts \o PartsEnd(k)))
<1> DEFINE ps == PartListing(k, e)
           parts == From(ps, 1)
           a == Start(Base(k)[2], e.code)
           b == OptionalTitle(e)
           c == Start("children", <<>>)
           d == End("children")
           z == End(Base(k)[2])
<1>1. ps \in Seq(Seq(Item))
  BY PartListFacts
<1>2. parts \in Seq(Item) /\ parts = FlattenSeq(ps)
  <2> HIDE DEF ps
  <2>1. 1 \in 1..(Len(ps) + 1)
    BY <1>1
  <2> QED BY <1>1, <2>1, FromFacts
<1>3. HasTexts(e)
  BY DEF IsEntry
<1>4. a \in Seq(Item) /\ b \in Seq(Item) /\ c \in Seq(Item) /\ d \in Seq(Item) /\ z \in Seq(Item)
  BY <1>3, TitleItems, OneItem, EndFacts, BaseFacts
<1>5. PartsEnd(k) = IF k \in Listed THEN d \o z ELSE z
  BY DEF PartsEnd
<1>6. EntryItems(k, e) = ((a \o b) \o (IF k \in Listed THEN (c \o parts) \o d ELSE parts)) \o z
  BY <1>2 DEF EntryItems, Listed, PartListing
<1> HIDE DEF parts, a, b, c, d, z
<1>7. CASE k \in Listed
  <2>1. ((a \o b) \o ((c \o parts) \o d)) \o z = a \o (b \o (c \o (parts \o (d \o z))))
        /\ ((a \o b) \o ((c \o parts) \o d)) \o z \in Seq(Item)
    <3>1. \A g, h, m, p, n, q \in Seq(Item) :
           /\ ((g \o h) \o ((m \o p) \o n)) \o q = g \o (h \o (m \o (p \o (n \o q))))
           /\ ((g \o h) \o ((m \o p) \o n)) \o q \in Seq(Item)
      BY Six
    <3>2. /\ a \in Seq(Item) /\ b \in Seq(Item) /\ c \in Seq(Item) /\ parts \in Seq(Item)
          /\ d \in Seq(Item) /\ z \in Seq(Item)
      BY <1>2, <1>4
    <3>3. \A m, p, n, q \in Seq(Item) :
            /\ ((a \o b) \o ((m \o p) \o n)) \o q = a \o (b \o (m \o (p \o (n \o q))))
            /\ ((a \o b) \o ((m \o p) \o n)) \o q \in Seq(Item)
      <4>1. \A h, m, p, n, q \in Seq(Item) :
             /\ ((a \o h) \o ((m \o p) \o n)) \o q = a \o (h \o (m \o (p \o (n \o q))))
             /\ ((a \o h) \o ((m \o p) \o n)) \o q \in Seq(Item)
        <5>1. a \in Seq(Item)
          BY <3>2
        <5> QED BY <3>1, <5>1, Zenon
      <4>2. b \in Seq(Item)
        BY <3>2
      <4> QED BY <4>1, <4>2, Zenon
    <3>4. \A n, q \in Seq(Item) :
            /\ ((a \o b) \o ((c \o parts) \o n)) \o q = a \o (b \o (c \o (parts \o (n \o q))))
            /\ ((a \o b) \o ((c \o parts) \o n)) \o q \in Seq(Item)
      BY <3>2, <3>3, Zenon
    <3> QED BY <3>2, <3>4, Zenon
  <2>6. PartsEnd(k) = d \o z
    BY <1>5, <1>7
  <2>7. EntryItems(k, e) \in Seq(Item)
        /\ EntryItems(k, e) = a \o (b \o (c \o (parts \o PartsEnd(k))))
    BY <1>6, <1>7, <2>1, <2>6
  <2> QED BY <1>2, <1>4, <1>7, <2>7 DEF parts, a, b, c
<1>8. CASE k \notin Listed
  <2>1. ((a \o b) \o parts) \o z = a \o (b \o (parts \o z))
        /\ ((a \o b) \o parts) \o z \in Seq(Item)
    <3>1. \A g, h, p, q \in Seq(Item) :
           ((g \o h) \o p) \o q = g \o (h \o (p \o q)) /\ ((g \o h) \o p) \o q \in Seq(Item)
      BY Four
    <3>2. /\ a \in Seq(Item) /\ b \in Seq(Item) /\ parts \in Seq(Item) /\ z \in Seq(Item)
      BY <1>2, <1>4
    <3> QED BY <3>1, <3>2, Zenon
  <2>3. PartsEnd(k) = z
    BY <1>5, <1>8
  <2>4. EntryItems(k, e) \in Seq(Item) /\ EntryItems(k, e) = a \o (b \o (parts \o PartsEnd(k)))
    BY <1>6, <1>8, <2>1, <2>3
  <2> QED BY <1>2, <1>4, <1>8, <2>4 DEF parts, a, b
<1> QED BY <1>7, <1>8

\* Each entry of a document makes one piece of items.
LEMMA ListingFacts ==
  ASSUME NEW k \in KindSet, NEW doc, IsDocument(k, doc)
  PROVE  /\ Len(doc) \in Nat /\ DOMAIN doc = 1..Len(doc)
         /\ Listing(k, doc) \in Seq(Seq(Item)) /\ Len(Listing(k, doc)) = Len(doc)
         /\ \A e \in 1..Len(doc) : Listing(k, doc)[e] = EntryItems(k, doc[e])
         /\ \A e \in 1..Len(doc) : doc[e] # Malformed => IsEntry(k, doc[e])
         /\ \A e \in 1..Len(doc) : doc[e] = Malformed => EntryItems(k, doc[e]) = <<ErrorItem>>
<1>1. Len(doc) \in Nat /\ DOMAIN doc = 1..Len(doc)
  BY SequenceFacts DEF IsDocument
<1>2. \A e \in 1..Len(doc) : doc[e] # Malformed => IsEntry(k, doc[e])
  BY <1>1 DEF IsDocument
<1>3. \A e \in 1..Len(doc) : doc[e] = Malformed => EntryItems(k, doc[e]) = <<ErrorItem>>
  BY DEF EntryItems, ErrorItem
<1>4. <<ErrorItem>> \in Seq(Item)
  <2>1. ErrorItem \in Item
    BY DEF ErrorItem, Item, Names, Text
  <2> QED BY <2>1
<1>5. ASSUME NEW e \in 1..Len(doc) PROVE EntryItems(k, doc[e]) \in Seq(Item)
  <2>1. CASE doc[e] = Malformed
    BY <1>3, <1>4, <2>1
  <2>2. CASE doc[e] # Malformed
    BY <1>2, <2>2, EntryFacts
  <2> QED BY <2>1, <2>2
<1>6. Listing(k, doc) \in [1..Len(doc) -> Seq(Item)]
      /\ \A e \in 1..Len(doc) : Listing(k, doc)[e] = EntryItems(k, doc[e])
  BY <1>1, <1>5 DEF Listing
<1>7. Listing(k, doc) \in Seq(Seq(Item)) /\ Len(Listing(k, doc)) = Len(doc)
  BY <1>1, <1>6, SeqDef, LenProperties
<1> QED BY <1>1, <1>2, <1>3, <1>6, <1>7

\* The parts from one on: that part and those behind it, or what ends them.
LEMMA PartsFromFacts ==
  ASSUME NEW k \in KindSet, NEW doc, NEW e, IsEntry(k, doc[e]),
         EntriesFrom(k, doc, e + 1) \in Seq(Item)
  PROVE  LET last == Len(doc[e].parts)
             rest == PartsEnd(k) \o EntriesFrom(k, doc, e + 1)
         IN  /\ last \in Nat /\ DOMAIN doc[e].parts = 1..last
             /\ \A p \in 1..(last + 1) : PartsFrom(k, doc, e, p) \in Seq(Item)
             /\ PartsFrom(k, doc, e, last + 1) = rest /\ rest \in Seq(Item)
             /\ \A p \in 1..last : PartsFrom(k, doc, e, p)
                                      = PartItems(k, doc[e].parts[p]) \o PartsFrom(k, doc, e, p + 1)
<1> DEFINE ps == PartListing(k, doc[e])
           last == Len(doc[e].parts)
           rest == PartsEnd(k) \o EntriesFrom(k, doc, e + 1)
<1>1. /\ ps \in Seq(Seq(Item)) /\ Len(ps) = last /\ last \in Nat /\ DOMAIN doc[e].parts = 1..last
      /\ \A p \in 1..last : ps[p] = PartItems(k, doc[e].parts[p])
  BY PartListFacts
<1>2. rest \in Seq(Item)
  BY EndFacts, ConcatProperties
<1> HIDE DEF ps, rest
<1>3. /\ \A p \in 1..(last + 1) : From(ps, p) \in Seq(Item)
      /\ From(ps, last + 1) = <<>>
      /\ \A p \in 1..last : ps[p] \in Seq(Item) /\ From(ps, p) = ps[p] \o From(ps, p + 1)
  BY <1>1, FromFacts
<1>4. \A p : PartsFrom(k, doc, e, p) = From(ps, p) \o rest
  BY DEF PartsFrom, ps, rest
<1>5. \A p \in 1..(last + 1) : PartsFrom(k, doc, e, p) \in Seq(Item)
  <2>1. \A s, t \in Seq(Item) : s \o t \in Seq(Item)
    BY ConcatProperties
  <2> QED BY <1>2, <1>3, <1>4, <2>1, Zenon
<1>6. PartsFrom(k, doc, e, last + 1) = rest
  <2>1. <<>> \o rest = rest
    BY <1>2
  <2>2. PartsFrom(k, doc, e, last + 1) = From(ps, last + 1) \o rest
    BY <1>4, Zenon
  <2> QED BY <1>3, <2>1, <2>2, Zenon
<1>7. ASSUME NEW p \in 1..last
      PROVE  PartsFrom(k, doc, e, p) = PartItems(k, doc[e].parts[p]) \o PartsFrom(k, doc, e, p + 1)
  <2>1. p + 1 \in 1..(last + 1)
    BY <1>1
  <2>2. ps[p] \in Seq(Item) /\ From(ps, p + 1) \in Seq(Item) /\ rest \in Seq(Item)
    BY <1>2, <1>3, <2>1
  <2>3. From(ps, p) = ps[p] \o From(ps, p + 1)
    BY <1>3
  <2>4. \A s, t, u \in Seq(Item) : (s \o t) \o u = s \o (t \o u)
    BY Associative, SMTT(40)
  <2>5. (ps[p] \o From(ps, p + 1)) \o rest = ps[p] \o (From(ps, p + 1) \o rest)
    BY <2>2, <2>4, Zenon
  <2> QED BY <1>1, <1>4, <2>3, <2>5
<1> QED BY <1>1, <1>2, <1>5, <1>6, <1>7 DEF rest

\* The same for the entries of a document.
LEMMA EntriesFromFacts ==
  ASSUME NEW k \in KindSet, NEW doc, IsDocument(k, doc)
  PROVE  /\ Len(doc) \in Nat /\ DOMAIN doc = 1..Len(doc)
         /\ \A e \in 1..(Len(doc) + 1) : EntriesFrom(k, doc, e) \in Seq(Item)
         /\ EntriesFrom(k, doc, Len(doc) + 1) = End(Base(k)[1])
         /\ Items(k, doc) = Start(Base(k)[1], <<>>) \o EntriesFrom(k, doc, 1)
         /\ Items(k, doc) \in Seq(Item)
         /\ \A e \in 1..Len(doc) : EntriesFrom(k, doc, e)
                                     = EntryItems(k, doc[e]) \o EntriesFrom(k, doc, e + 1)
         /\ \A e \in 1..Len(doc) : EntryItems(k, doc[e]) \in Seq(Item)
<1> DEFINE ps == Listing(k, doc)
           last == Len(doc)
           rest == End(Base(k)[1])
           opening == Start(Base(k)[1], <<>>)
<1>1. /\ ps \in Seq(Seq(Item)) /\ Len(ps) = last /\ last \in Nat /\ DOMAIN doc = 1..last
      /\ \A e \in 1..last : ps[e] = EntryItems(k, doc[e])
  BY ListingFacts
<1>2. rest \in Seq(Item) /\ opening \in Seq(Item)
  <2>1. <<>> \in Text
    BY DEF Text
  <2> QED BY <2>1, BaseFacts, OneItem
<1>3. Items(k, doc) = (opening \o FlattenSeq(ps)) \o rest
  BY DEF Items, Listing
<1> HIDE DEF ps, rest, opening
<1>4. /\ \A e \in 1..(last + 1) : From(ps, e) \in Seq(Item)
      /\ From(ps, last + 1) = <<>> /\ From(ps, 1) = FlattenSeq(ps)
      /\ \A e \in 1..last : ps[e] \in Seq(Item) /\ From(ps, e) = ps[e] \o From(ps, e + 1)
  BY <1>1, FromFacts
<1>5. \A e : EntriesFrom(k, doc, e) = From(ps, e) \o rest
  BY DEF EntriesFrom, ps, rest
<1>6. \A e \in 1..(last + 1) : EntriesFrom(k, doc, e) \in Seq(Item)
  <2>1. \A s, t \in Seq(Item) : s \o t \in Seq(Item)
    BY ConcatProperties
  <2> QED BY <1>2, <1>4, <1>5, <2>1, Zenon
<1>7. EntriesFrom(k, doc, last + 1) = rest
  BY <1>2, <1>4, <1>5
<1>8. \A s, t, u \in Seq(Item) : (s \o t) \o u = s \o (t \o u)
  BY Associative, SMTT(40)
<1>9. Items(k, doc) = opening \o EntriesFrom(k, doc, 1) /\ Items(k, doc) \in Seq(Item)
  <2>1. 1 \in 1..(last + 1)
    BY <1>1
  <2>2. From(ps, 1) \in Seq(Item) /\ opening \in Seq(Item) /\ rest \in Seq(Item)
    BY <1>2, <1>4, <2>1
  <2>3. (opening \o From(ps, 1)) \o rest = opening \o (From(ps, 1) \o rest)
    BY <1>8, <2>2, Zenon
  <2>4. (opening \o From(ps, 1)) \o rest \in Seq(Item)
    BY <2>2, ConcatProperties
  <2> QED BY <1>3, <1>4, <1>5, <2>3, <2>4
<1>10. ASSUME NEW e \in 1..last
       PROVE  EntriesFrom(k, doc, e) = EntryItems(k, doc[e]) \o EntriesFrom(k, doc, e + 1)
              /\ EntryItems(k, doc[e]) \in Seq(Item)
  <2>1. e + 1 \in 1..(last + 1)
    BY <1>1
  <2>2. ps[e] \in Seq(Item) /\ From(ps, e + 1) \in Seq(Item) /\ rest \in Seq(Item)
    BY <1>2, <1>4, <2>1
  <2>3. From(ps, e) = ps[e] \o From(ps, e + 1)
    BY <1>4
  <2>4. (ps[e] \o From(ps, e + 1)) \o rest = ps[e] \o (From(ps, e + 1) \o rest)
    BY <2>2, <1>8, Zenon
  <2> QED BY <1>1, <1>5, <2>2, <2>3, <2>4
<1> QED BY <1>1, <1>6, <1>7, <1>9, <1>10 DEF rest, opening

\* An entry from its start on
LEMMA EntryFromFacts ==
  ASSUME NEW k \in KindSet, NEW doc, IsDocument(k, doc), NEW e \in 1..Len(doc),
         doc[e] # Malformed
  PROVE  /\ IsEntry(k, doc[e]) /\ HasTexts(doc[e])
         /\ OptionalTitle(doc[e]) \in Seq(Item) /\ BodyFrom(k, doc, e) \in Seq(Item)
         /\ PartsFrom(k, doc, e, 1) \in Seq(Item) /\ EntriesFrom(k, doc, e + 1) \in Seq(Item)
         /\ EntriesFrom(k, doc, e)
              = Start(Base(k)[2], doc[e].code) \o (OptionalTitle(doc[e]) \o BodyFrom(k, doc, e))
<1>1. IsEntry(k, doc[e]) /\ HasTexts(doc[e])
  BY ListingFacts DEF IsEntry
<1>2. Len(doc) \in Nat /\ e + 1 \in 1..(Len(doc) + 1)
  BY EntriesFromFacts
<1>3. EntriesFrom(k, doc, e + 1) \in Seq(Item)
      /\ EntriesFrom(k, doc, e) = EntryItems(k, doc[e]) \o EntriesFrom(k, doc, e + 1)
  BY <1>2, EntriesFromFacts
<1> DEFINE parts == From(PartListing(k, doc[e]), 1)
           a == Start(Base(k)[2], doc[e].code)
           b == OptionalTitle(doc[e])
           c == Start("children", <<>>)
           d == PartsEnd(k)
           next == EntriesFrom(k, doc, e + 1)
<1>4. /\ parts \in Seq(Item) /\ b \in Seq(Item) /\ a \in Seq(Item) /\ c \in Seq(Item)
      /\ d \in Seq(Item) /\ next \in Seq(Item)
      /\ EntryItems(k, doc[e])
           = a \o (b \o (IF k \in Listed THEN c \o (parts \o d) ELSE parts \o d))
  BY <1>1, <1>3, EntryFacts, EndFacts
<1>5. PartsFrom(k, doc, e, 1) = parts \o (d \o next)
  BY DEF PartsFrom
<1>6. BodyFrom(k, doc, e)
        = IF k \in Listed THEN c \o (parts \o (d \o next)) ELSE parts \o (d \o next)
  BY <1>5 DEF BodyFrom
<1>7. \A s, t, u \in Seq(Item) : (s \o t) \o u = s \o (t \o u)
  BY Associative, SMTT(40)
<1>8. \A s, t \in Seq(Item) : s \o t \in Seq(Item)
  BY ConcatProperties
<1> HIDE DEF parts, a, b, c, d, next
<1>9. (parts \o d) \o next = parts \o (d \o next) /\ parts \o d \in Seq(Item)
      /\ parts \o (d \o next) \in Seq(Item)
  <2>1. (parts \o d) \o next = parts \o (d \o next)
    <3>1. parts \in Seq(Item) /\ d \in Seq(Item) /\ next \in Seq(Item)
      BY <1>4
    <3> QED BY <1>7, <3>1, Zenon
  <2>2. parts \o d \in Seq(Item) /\ d \o next \in Seq(Item)
    BY <1>4, <1>8, Zenon
  <2>3. parts \o (d \o next) \in Seq(Item)
    BY <1>4, <1>8, <2>2, Zenon
  <2> QED BY <2>1, <2>2, <2>3
<1>10. PICK body \in Seq(Item) :
         /\ EntryItems(k, doc[e]) = a \o (b \o body)
         /\ body \o next = BodyFrom(k, doc, e)
  <2>1. CASE k \in Listed
    <3>1. c \o (parts \o d) \in Seq(Item)
      BY <1>4, <1>8, <1>9, Zenon
    <3>2. (c \o (parts \o d)) \o next = c \o ((parts \o d) \o next)
      <4>1. c \in Seq(Item) /\ parts \o d \in Seq(Item) /\ next \in Seq(Item)
        BY <1>4, <1>9
      <4> QED BY <1>7, <4>1, Zenon
    <3> QED BY <1>4, <1>6, <1>9, <2>1, <3>1, <3>2
  <2>2. CASE k \notin Listed
    BY <1>4, <1>6, <1>9, <2>2
  <2> QED BY <2>1, <2>2
<1>11. BodyFrom(k, doc, e) \in Seq(Item)
  BY <1>4, <1>8, <1>10, Zenon
<1>12. b \o body \in Seq(Item) /\ (b \o body) \o next = b \o (body \o next)
  <2>1. b \o body \in Seq(Item)
    BY <1>4, <1>8, Zenon
  <2>2. (b \o body) \o next = b \o (body \o next)
    <3>1. b \in Seq(Item) /\ body \in Seq(Item) /\ next \in Seq(Item)
      BY <1>4
    <3> QED BY <1>7, <3>1, Zenon
  <2> QED BY <2>1, <2>2
<1>13. (a \o (b \o body)) \o next = a \o ((b \o body) \o next)
  <2>1. a \in Seq(Item) /\ b \o body \in Seq(Item) /\ next \in Seq(Item)
    BY <1>4, <1>12
  <2> QED BY <1>7, <2>1, Zenon
<1>14. EntriesFrom(k, doc, e) = a \o (b \o BodyFrom(k, doc, e))
  <2>1. EntriesFrom(k, doc, e) = EntryItems(k, doc[e]) \o next
    BY <1>3 DEF next
  <2> QED BY <1>10, <1>12, <1>13, <2>1
<1> QED BY <1>1, <1>3, <1>4, <1>5, <1>9, <1>11, <1>14 DEF a, b

-----------------------------------------------------------------------------
(* What the tables hold, and where in a file the handlers are              *)

Pointer == Text \union {NULL, Garbage}
Value == [code : Pointer, title : Pointer, parts : Pointer]
Lists == Seq(Text \union {NULL}) \union Seq(Value) \union {NULL, Garbage}
Cell == [code : Pointer, title : Pointer, parts : Lists]

\* The arrays and their indices
Arrays ==
  /\ table \in Seq(Cell) /\ index \in Nat /\ index <= Len(table)
  /\ cc \in Seq(Value) /\ ccIndex \in Nat /\ ccIndex <= Len(cc)
  /\ children \in Seq(Text) /\ chldIndex = Len(children)
  /\ split \in BOOLEAN

\* A cell has the name of the entry, a list that can be followed, and all of the
\* entry if nothing of that is left out or came in pieces.
EntryRight(k, e, c, pieces) ==
  /\ IsEntry(k, e)
  /\ e.code # <<>> => c.code = e.code
  /\ k \in Listed => c.parts \in Seq(Text \union {NULL})
  /\ k = "coded" => /\ DOMAIN c.parts = DOMAIN e.parts
                    /\ \A v \in DOMAIN e.parts : e.parts[v].code # <<>> => c.parts[v].code = e.parts[v].code
  /\ Complete(k, e) /\ ~pieces => Read(k, c) = Written(k, e)

\* The entries that were ended are right.
Done(k, doc) ==
  \A n \in 1..index : EntryRight(k, doc[n], table[n], split)

\* The entry that was begun has its place, and its name there.
Begun(k, doc) ==
  /\ index < Len(doc) /\ doc[index + 1] # Malformed
  /\ index < Len(table)
  /\ doc[index + 1].code # <<>> => table[index + 1].code = doc[index + 1].code

HasTitle(e) == "title" \in DOMAIN e /\ e.title # <<>>

\* Its title is there, if there is one and it came in one piece.
Titled(k, doc) ==
  k # "coded" /\ ~split /\ HasTitle(doc[index + 1]) => table[index + 1].title = doc[index + 1].title

NoParts == children = <<>> /\ ccIndex = 0

\* p parts of it were ended, and are in their array.
PartsDone(k, doc, p) ==
  /\ k \in Listed =>
       /\ ccIndex = 0
       /\ ~split /\ (\A q \in 1..p : doc[index + 1].parts[q] # <<>>) =>
            /\ Len(children) = p
            /\ \A q \in 1..p : children[q] = doc[index + 1].parts[q]
  /\ k = "coded" =>
       /\ ccIndex = p
       /\ \A q \in 1..p :
            LET part == doc[index + 1].parts[q]
            IN  /\ part.code # <<>> => cc[q].code = part.code
                /\ ~split /\ HasTitle(part) => cc[q].title = part.title
  /\ k \notin Listed => children = <<>>
  /\ k # "coded" => ccIndex = 0

\* The value that was begun has its place, and its name there, and its title.
ValueBegun(doc, p) ==
  /\ ccIndex < Len(cc)
  /\ doc[index + 1].parts[p].code # <<>> => cc[ccIndex + 1].code = doc[index + 1].parts[p].code
ValueTitled(doc, p) ==
  ~split /\ HasTitle(doc[index + 1].parts[p]) => cc[ccIndex + 1].title = doc[index + 1].parts[p].title

\* The list of an entry ends with NULL.
ListRight(doc) ==
  /\ table[index + 1].parts \in Seq(Text \union {NULL})
  /\ ~split /\ (\A q \in DOMAIN doc[index + 1].parts : doc[index + 1].parts[q] # <<>>) =>
       table[index + 1].parts = Append(doc[index + 1].parts, NULL)

\* m characters of t were delivered, and behind t lies s.
Within(its, t, m, s) ==
  /\ m \in 0..Len(t) /\ pos \in Nat /\ pos - m \in Nat
  /\ Lies(its, pos - m, Characters(t) \o s)
  /\ m > 0 => its[pos].does = "text" /\ (~split => m = Len(t))

\* The places of a file: before its first item; between entries; in an entry
\* with a title before and in that; before the children; between the parts; in
\* a child; behind the children; in a value with a title before, in and behind
\* that; and behind the last item.
Unread == path = <<>> /\ pos = 0 /\ index = 0 /\ NoParts

Between(k, doc) ==
  /\ path = <<Base(k)[1]>> /\ NoParts /\ index <= Len(doc)
  /\ Lies(Items(k, doc), pos, EntriesFrom(k, doc, index + 1))

Opened(k, doc) ==
  /\ path = Base(k) /\ NoParts /\ Begun(k, doc) /\ "title" \in DOMAIN doc[index + 1]
  /\ Lies(Items(k, doc), pos, OptionalTitle(doc[index + 1]) \o BodyFrom(k, doc, index + 1))

InTitle(k, doc, m) ==
  /\ path = Base(k) \o <<"title">> /\ NoParts /\ Begun(k, doc) /\ "title" \in DOMAIN doc[index + 1]
  /\ m > 0 => Titled(k, doc)
  /\ Within(Items(k, doc), doc[index + 1].title, m, End("title") \o BodyFrom(k, doc, index + 1))

BeforeChildren(k, doc) ==
  /\ k \in Listed /\ path = Base(k) /\ NoParts /\ Begun(k, doc) /\ Titled(k, doc)
  /\ Lies(Items(k, doc), pos, BodyFrom(k, doc, index + 1))

AmongParts(k, doc, p) ==
  /\ path = IF k \in Listed THEN Base(k) \o <<"children">> ELSE Base(k)
  /\ Begun(k, doc) /\ Titled(k, doc) /\ p \in 0..Len(doc[index + 1].parts) /\ PartsDone(k, doc, p)
  /\ Lies(Items(k, doc), pos, PartsFrom(k, doc, index + 1, p + 1))

InChild(k, doc, p, m) ==
  /\ k \in Listed /\ path = Base(k) \o <<"children", "child">>
  /\ Begun(k, doc) /\ Titled(k, doc) /\ p \in 1..Len(doc[index + 1].parts)
  /\ PartsDone(k, doc, IF m = 0 THEN p - 1 ELSE p)
  /\ Within(Items(k, doc), doc[index + 1].parts[p], m, End("child") \o PartsFrom(k, doc, index + 1, p + 1))

BehindChildren(k, doc) ==
  /\ k \in Listed /\ path = Base(k) /\ NoParts /\ Begun(k, doc) /\ Titled(k, doc) /\ ListRight(doc)
  /\ Lies(Items(k, doc), pos, End(Base(k)[2]) \o EntriesFrom(k, doc, index + 2))

ValueOpened(k, doc, p) ==
  /\ k = "coded" /\ path = Base(k) \o <<"value">>
  /\ Begun(k, doc) /\ p \in 1..Len(doc[index + 1].parts) /\ PartsDone(k, doc, p - 1)
  /\ ValueBegun(doc, p) /\ "title" \in DOMAIN doc[index + 1].parts[p]
  /\ Lies(Items(k, doc), pos, OptionalTitle(doc[index + 1].parts[p])
                              \o (End("value") \o PartsFrom(k, doc, index + 1, p + 1)))

InValueTitle(k, doc, p, m) ==
  /\ k = "coded" /\ path = Base(k) \o <<"value", "title">>
  /\ Begun(k, doc) /\ p \in 1..Len(doc[index + 1].parts) /\ PartsDone(k, doc, p - 1)
  /\ ValueBegun(doc, p) /\ "title" \in DOMAIN doc[index + 1].parts[p]
  /\ m > 0 => ValueTitled(doc, p)
  /\ Within(Items(k, doc), doc[index + 1].parts[p].title, m,
            End("title") \o (End("value") \o PartsFrom(k, doc, index + 1, p + 1)))

ValueEnding(k, doc, p) ==
  /\ k = "coded" /\ path = Base(k) \o <<"value">>
  /\ Begun(k, doc) /\ p \in 1..Len(doc[index + 1].parts) /\ PartsDone(k, doc, p - 1)
  /\ ValueBegun(doc, p) /\ ValueTitled(doc, p)
  /\ Lies(Items(k, doc), pos, End("value") \o PartsFrom(k, doc, index + 1, p + 1))

Behind(k, doc) == path = <<>> /\ index = Len(doc) /\ pos = Len(Items(k, doc))

Place(k, doc) ==
  \/ Unread \/ Between(k, doc) \/ Opened(k, doc) \/ BeforeChildren(k, doc) \/ BehindChildren(k, doc)
  \/ \E m \in Nat : InTitle(k, doc, m)
  \/ \E p \in Nat : AmongParts(k, doc, p)
  \/ \E p, m \in Nat : InChild(k, doc, p, m)
  \/ \E p \in Nat : ValueOpened(k, doc, p) \/ ValueEnding(k, doc, p)
  \/ \E p, m \in Nat : InValueTitle(k, doc, p, m)
  \/ Behind(k, doc)

\* A file that was read up to pos
Reads(k, doc) == Arrays /\ Done(k, doc) /\ Place(k, doc)

\* k and doc are the kind of the file and what is in it.
Setting(k, doc) == k = kind /\ doc = document /\ k \in KindSet /\ IsDocument(k, doc)

-----------------------------------------------------------------------------
(* What the handlers make of a path                                        *)

Labels == Names \union {"@code"}

\* Tuples are sequences.
LEMMA Tuples ==
  ASSUME NEW S, NEW a \in S, NEW b \in S
  PROVE  /\ <<a>> \in Seq(S) /\ Len(<<a>>) = 1 /\ <<a>>[1] = a
         /\ <<a, b>> \in Seq(S) /\ Len(<<a, b>>) = 2
         /\ <<a, b>> = <<a>> \o <<b>> /\ <<>> \in Seq(S)
<1>1. <<a>> \in Seq(S) /\ Len(<<a>>) = 1 /\ <<a>>[1] = a
  OBVIOUS
<1>2. <<a, b>> \in Seq(S)
  OBVIOUS
<1>3. Len(<<a, b>>) = 2
  OBVIOUS
<1>4. <<a, b>> = <<a>> \o <<b>>
  <2> DEFINE s == <<a>> \o <<b>>
             t == <<a, b>>
  <2>0. <<b>> \in Seq(S) /\ Len(<<b>>) = 1 /\ <<b>>[1] = b
    OBVIOUS
  <2>1. s \in Seq(S) /\ Len(s) = 2 /\ s[1] = a /\ s[2] = b
    BY <1>1, <2>0, ConcatProperties
  <2>2. t \in Seq(S) /\ Len(t) = 2 /\ t[1] = a /\ t[2] = b
    BY <1>2, <1>3
  <2> HIDE DEF s, t
  <2>3. \A i \in 1..2 : s[i] = t[i]
    BY <2>1, <2>2
  <2>4. s = t
    BY <2>1, <2>2, <2>3, SeqEqual
  <2> QED BY <2>4 DEF s, t
<1> QED BY <1>1, <1>2, <1>3, <1>4

\* A sequence grows at its end, and is cut there.
LEMMA Ends ==
  ASSUME NEW S, NEW s \in Seq(S), NEW x \in S
  PROVE  /\ Append(s, x) = s \o <<x>> /\ Append(s, x) \in Seq(S)
         /\ Front(Append(s, x)) = s
         /\ \A y \in S : s \o <<x, y>> = Append(Append(s, x), y)
<1>1. Append(s, x) = s \o <<x>> /\ Append(s, x) \in Seq(S)
  OBVIOUS
<1>2. Front(Append(s, x)) = s
  BY DEF Front
<1>3. ASSUME NEW y \in S PROVE s \o <<x, y>> = Append(Append(s, x), y)
  OBVIOUS
<1> QED BY <1>1, <1>2, <1>3

\* What is below the element of an entry is told apart by its own path.
LEMMA BelowEntry ==
  ASSUME NEW k \in KindSet
  PROVE  /\ Base(k) \in Seq(Labels) /\ Len(Base(k)) = 2
         /\ \A s, t \in Seq(Labels) : Base(k) \o s = Base(k) \o t <=> s = t
         /\ \A s \in Seq(Labels) : Base(k) \o s = Base(k) <=> s = <<>>
<1>1. Base(k) = <<Base(k)[1], Base(k)[2]>> /\ Base(k)[1] \in Labels /\ Base(k)[2] \in Labels
  BY BaseFacts DEF Labels
<1>2. Base(k) \in Seq(Labels) /\ Len(Base(k)) = 2
  <2>1. \A a, b \in Labels : <<a, b>> \in Seq(Labels) /\ Len(<<a, b>>) = 2
    BY Tuples
  <2> QED BY <1>1, <2>1, Zenon
<1>3. \A s, t, v \in Seq(Labels) : v \o s = v \o t => s = t
  BY ConcatSimplifications
<1>4. ASSUME NEW s \in Seq(Labels) PROVE Base(k) \o s = Base(k) <=> s = <<>>
  <2>1. <<>> \in Seq(Labels) /\ Base(k) \o <<>> = Base(k)
    BY <1>2, ConcatEmptySeq
  <2> QED BY <1>2, <1>3, <2>1, Zenon
<1> QED BY <1>2, <1>3, <1>4

\* A path that is shorter is no handler's.
LEMMA ShortPaths ==
  ASSUME NEW k \in KindSet, k = kind
  PROVE  /\ \A p : Len(p) \in {0, 1} => ~AtEntry(p) /\ \A s \in Seq(Labels) : ~In(p, s)
         /\ Len(<<Base(k)[1]>>) = 1 /\ Len(<<>>) = 0
<1>1. Base(k) \in Seq(Labels) /\ Len(Base(k)) = 2 /\ Base(k)[1] \in Labels
  BY BelowEntry, BaseFacts DEF Labels
<1>2. Len(Base(k)) \notin {0, 1} /\ \A s \in Seq(Labels) : Len(Base(k) \o s) \notin {0, 1}
  <2>1. \A s, t \in Seq(Labels) : Len(s \o t) = Len(s) + Len(t) /\ Len(t) \in Nat
    BY ConcatProperties, LenProperties
  <2>2. Len(Base(k)) \notin {0, 1}
    BY <1>1
  <2> SUFFICES ASSUME NEW s \in Seq(Labels) PROVE Len(Base(k) \o s) \notin {0, 1}
    BY <2>2
  <2>3. Len(Base(k) \o s) = Len(Base(k)) + Len(s) /\ Len(s) \in Nat
    BY <1>1, <2>1, Zenon
  <2> HIDE DEF Labels
  <2> QED BY <1>1, <2>3
<1>3. ASSUME NEW p, Len(p) \in {0, 1}
      PROVE  p # Base(k) /\ \A s \in Seq(Labels) : p # Base(k) \o s
  BY <1>2, <1>3, Zenon
<1>4. Len(<<Base(k)[1]>>) = 1 /\ Len(<<>>) = 0
  BY <1>1, Tuples
<1> QED BY <1>3, <1>4 DEF AtEntry, In

\* At the element of an entry and below it
LEMMA LongPaths ==
  ASSUME NEW k \in KindSet, k = kind, NEW s \in Seq(Labels)
  PROVE  /\ AtEntry(Base(k) \o s) <=> s = <<>>
         /\ \A t \in Seq(Labels) : In(Base(k) \o s, t) <=> s = t
BY BelowEntry DEF AtEntry, In

\* The paths that are used are paths.
LEMMA LabelTuples ==
  /\ <<>> \in Seq(Labels) /\ <<"title">> \in Seq(Labels) /\ <<"children">> \in Seq(Labels)
  /\ <<"children", "child">> \in Seq(Labels) /\ <<"value">> \in Seq(Labels)
  /\ <<"value", "title">> \in Seq(Labels) /\ <<"@code">> \in Seq(Labels)
  /\ <<"value", "@code">> \in Seq(Labels)
  /\ <<"value">> \o <<"@code">> = <<"value", "@code">>
  /\ <<"value">> \o <<"title">> = <<"value", "title">>
  /\ <<>> \o <<"@code">> = <<"@code">> /\ <<>> \o <<"title">> = <<"title">>
<1>1. {"title", "children", "child", "value", "@code"} \subseteq Labels
  BY DEF Labels, Names
<1>2. \A a, b \in Labels : /\ <<a>> \in Seq(Labels) /\ <<a, b>> \in Seq(Labels)
                          /\ <<a, b>> = <<a>> \o <<b>> /\ <<>> \in Seq(Labels)
  BY Tuples
<1>3. \A s \in Seq(Labels) : <<>> \o s = s
  BY ConcatEmptySeq
<1> HIDE DEF Labels
<1>4. /\ <<"title">> \in Seq(Labels) /\ <<"children">> \in Seq(Labels) /\ <<>> \in Seq(Labels)
      /\ <<"value">> \in Seq(Labels) /\ <<"@code">> \in Seq(Labels)
  BY <1>1, <1>2, Zenon
<1>5. /\ <<"children", "child">> \in Seq(Labels) /\ <<"value", "title">> \in Seq(Labels)
      /\ <<"value", "@code">> \in Seq(Labels)
  BY <1>1, <1>2, Zenon
<1>6. /\ <<"value">> \o <<"@code">> = <<"value", "@code">>
      /\ <<"value">> \o <<"title">> = <<"value", "title">>
  BY <1>1, <1>2, Zenon
<1>7. <<>> \o <<"@code">> = <<"@code">> /\ <<>> \o <<"title">> = <<"title">>
  BY <1>3, <1>4, Zenon
<1> QED BY <1>4, <1>5, <1>6, <1>7

\* What a text is stored as
LEMMA Fields ==
  ASSUME NEW k \in KindSet, k = kind, NEW s \in Seq(Labels)
  PROVE  /\ FieldAt(Base(k) \o s, <<>>)
              = CASE s = <<"@code">> -> "code" [] s = <<"title">> -> "title" [] OTHER -> "none"
         /\ FieldAt(Base(k) \o s, <<"value">>)
              = CASE s = <<"value", "@code">> -> "code" [] s = <<"value", "title">> -> "title"
                  [] OTHER -> "none"
<1>1. \A t \in Seq(Labels) : In(Base(k) \o s, t) <=> s = t
  BY LongPaths
<1>2. /\ In(Base(k) \o s, <<"@code">>) <=> s = <<"@code">>
      /\ In(Base(k) \o s, <<"title">>) <=> s = <<"title">>
      /\ In(Base(k) \o s, <<"value", "@code">>) <=> s = <<"value", "@code">>
      /\ In(Base(k) \o s, <<"value", "title">>) <=> s = <<"value", "title">>
  BY <1>1, LabelTuples
<1>3. FieldAt(Base(k) \o s, <<>>)
        = CASE s = <<"@code">> -> "code" [] s = <<"title">> -> "title" [] OTHER -> "none"
  BY <1>2, LabelTuples DEF FieldAt
<1>4. FieldAt(Base(k) \o s, <<"value">>)
        = CASE s = <<"value", "@code">> -> "code" [] s = <<"value", "title">> -> "title"
            [] OTHER -> "none"
  BY <1>2, LabelTuples DEF FieldAt
<1> QED BY <1>3, <1>4

\* The path grows by a name and is cut by one.
LEMMA PathSteps ==
  ASSUME NEW k \in KindSet
  PROVE  LET a == Base(k)[1]
             b == Base(k)
         IN  /\ Append(<<>>, a) = <<a>> /\ Append(<<a>>, Base(k)[2]) = b
             /\ Append(b, "title") = b \o <<"title">>
             /\ Append(b, "children") = b \o <<"children">>
             /\ Append(b \o <<"children">>, "child") = b \o <<"children", "child">>
             /\ Append(b, "value") = b \o <<"value">>
             /\ Append(b \o <<"value">>, "title") = b \o <<"value", "title">>
             /\ Append(b, "@code") = b \o <<"@code">>
             /\ Append(b \o <<"value">>, "@code") = b \o <<"value", "@code">>
             /\ Front(<<a>>) = <<>> /\ Front(b) = <<a>>
             /\ Front(b \o <<"title">>) = b /\ Front(b \o <<"children">>) = b
             /\ Front(b \o <<"children", "child">>) = b \o <<"children">>
             /\ Front(b \o <<"value">>) = b
             /\ Front(b \o <<"value", "title">>) = b \o <<"value">>
<1> DEFINE a == Base(k)[1]
           b == Base(k)
           c == Base(k)[2]
<1>1. b = <<a, c>> /\ a \in Labels /\ c \in Labels /\ b \in Seq(Labels)
      /\ {"title", "children", "child", "value", "@code"} \subseteq Labels
  BY BaseFacts, BelowEntry DEF Labels, Names
<1> HIDE DEF a, b, c, Labels
<1>2. \A s \in Seq(Labels), x \in Labels :
        /\ Append(s, x) = s \o <<x>> /\ Append(s, x) \in Seq(Labels) /\ Front(Append(s, x)) = s
        /\ \A y \in Labels : s \o <<x, y>> = Append(Append(s, x), y)
  BY Ends
<1>3. Append(<<>>, a) = <<a>> /\ Front(<<a>>) = <<>> /\ <<a>> \in Seq(Labels)
      /\ Append(<<a>>, c) = b /\ Front(b) = <<a>>
  <2>1. /\ <<>> \in Seq(Labels) /\ <<a>> \in Seq(Labels) /\ <<a, c>> = <<a>> \o <<c>>
    BY <1>1, Tuples
  <2>2. <<>> \o <<a>> = <<a>>
    BY <2>1, ConcatEmptySeq
  <2>3. Append(<<>>, a) = <<a>> /\ Front(Append(<<>>, a)) = <<>>
    BY <1>1, <1>2, <2>1, <2>2, Zenon
  <2>4. Append(<<a>>, c) = <<a>> \o <<c>> /\ Front(Append(<<a>>, c)) = <<a>>
    BY <1>1, <1>2, <2>1, Zenon
  <2> QED BY <1>1, <2>1, <2>3, <2>4, Zenon
<1>4. ASSUME NEW x \in Labels
      PROVE  /\ Append(b, x) = b \o <<x>> /\ Front(b \o <<x>>) = b
             /\ \A y \in Labels : Append(b \o <<x>>, y) = b \o <<x, y>>
                                  /\ Front(b \o <<x, y>>) = b \o <<x>>
  <2>1. Append(b, x) = b \o <<x>> /\ Append(b, x) \in Seq(Labels) /\ Front(Append(b, x)) = b
    BY <1>1, <1>2, Zenon
  <2>2. ASSUME NEW y \in Labels
        PROVE  Append(b \o <<x>>, y) = b \o <<x, y>> /\ Front(b \o <<x, y>>) = b \o <<x>>
    <3>1. b \o <<x, y>> = Append(Append(b, x), y)
      BY <1>1, <1>2, ZenonT(40)
    <3>2. Front(Append(Append(b, x), y)) = Append(b, x)
      BY <1>2, <2>1, Zenon
    <3> QED BY <2>1, <3>1, <3>2, Zenon
  <2> QED BY <2>1, <2>2
<1>5. /\ Append(b, "title") = b \o <<"title">> /\ Append(b, "children") = b \o <<"children">>
      /\ Append(b, "value") = b \o <<"value">> /\ Append(b, "@code") = b \o <<"@code">>
      /\ Front(b \o <<"title">>) = b /\ Front(b \o <<"children">>) = b
      /\ Front(b \o <<"value">>) = b
  BY <1>1, <1>4, Zenon
<1>6. /\ Append(b \o <<"children">>, "child") = b \o <<"children", "child">>
      /\ Append(b \o <<"value">>, "title") = b \o <<"value", "title">>
      /\ Append(b \o <<"value">>, "@code") = b \o <<"value", "@code">>
      /\ Front(b \o <<"children", "child">>) = b \o <<"children">>
      /\ Front(b \o <<"value", "title">>) = b \o <<"value">>
  BY <1>1, <1>4, Zenon
<1> QED BY <1>3, <1>5, <1>6 DEF a, b, c

-----------------------------------------------------------------------------
(* What is ahead in the items                                              *)

\* A start ahead, and what follows it
LEMMA StartAhead ==
  ASSUME NEW its, NEW q, NEW nm \in Names, NEW t \in Text, NEW s \in Seq(Item),
         Lies(its, q, Start(nm, t) \o s)
  PROVE  /\ its[q + 1] = [does |-> "start", name |-> nm, text |-> t]
         /\ Lies(its, q + 1, s) /\ q + 1 <= Len(its) /\ Len(its) \in Nat /\ q \in Nat
<1>1. /\ Start(nm, t) \in Seq(Item) /\ Len(Start(nm, t)) = 1
      /\ Start(nm, t)[1] = [does |-> "start", name |-> nm, text |-> t]
  BY OneItem
<1>2. /\ Lies(its, q + Len(Start(nm, t)), s)
      /\ \A n \in 1..Len(Start(nm, t)) : its[q + n] = Start(nm, t)[n]
      /\ q + Len(Start(nm, t)) <= Len(its) /\ Len(its) \in Nat /\ q \in Nat
  BY <1>1, LiesOn, Zenon
<1>3. 1 \in 1..Len(Start(nm, t))
  BY <1>1
<1> QED BY <1>1, <1>2, <1>3, Zenon

\* An end ahead, and what follows it
LEMMA EndAhead ==
  ASSUME NEW its, NEW q, NEW nm \in Names, NEW s \in Seq(Item), Lies(its, q, End(nm) \o s)
  PROVE  /\ its[q + 1].does = "end"
         /\ Lies(its, q + 1, s) /\ q + 1 <= Len(its) /\ Len(its) \in Nat /\ q \in Nat
<1>0. <<>> \in Text
  BY DEF Text
<1>1. End(nm) \in Seq(Item) /\ Len(End(nm)) = 1 /\ End(nm)[1].does = "end"
  BY <1>0, OneItem
<1>2. /\ Lies(its, q + Len(End(nm)), s)
      /\ \A n \in 1..Len(End(nm)) : its[q + n] = End(nm)[n]
      /\ q + Len(End(nm)) <= Len(its) /\ Len(its) \in Nat /\ q \in Nat
  BY <1>1, LiesOn, Zenon
<1>3. 1 \in 1..Len(End(nm))
  BY <1>1
<1> QED BY <1>1, <1>2, <1>3, Zenon

\* A text ahead, of which m characters lie behind q, and the end behind it
LEMMA TextAhead ==
  ASSUME NEW its, NEW q, NEW t \in Text, NEW m \in 0..Len(t), q - m \in Nat, q \in Nat,
         NEW nm \in Names, NEW s \in Seq(Item),
         Lies(its, q - m, Characters(t) \o (End(nm) \o s))
  PROVE  /\ Len(t) \in Nat
         /\ \A j \in 1..(Len(t) - m) : its[q + j].does = "text" /\ its[q + j].text = <<t[m + j]>>
         /\ its[(q + (Len(t) - m)) + 1].does = "end"
         /\ Lies(its, (q + (Len(t) - m)) + 1, s)
         /\ (q + (Len(t) - m)) + 1 <= Len(its)
<1> DEFINE u == Characters(t)
           v == End(nm) \o s
<1>1. /\ u \in Seq(Item) /\ Len(u) = Len(t) /\ Len(t) \in Nat
      /\ \A c \in 1..Len(t) : u[c].does = "text" /\ u[c].text = <<t[c]>>
  BY TextItems
<1>2. v \in Seq(Item)
  <2>1. <<>> \in Text
    BY DEF Text
  <2>2. End(nm) \in Seq(Item)
    BY <2>1, OneItem
  <2> QED BY <2>2, ConcatProperties
<1> HIDE DEF u
<1>3. /\ Lies(its, (q - m) + Len(t), v)
      /\ \A n \in 1..Len(t) : its[(q - m) + n] = u[n]
  <2>1. Lies(its, q - m, u \o v)
    BY DEF u
  <2>2. /\ Lies(its, (q - m) + Len(u), v)
        /\ \A n \in 1..Len(u) : its[(q - m) + n] = u[n]
        /\ (q - m) + Len(u) <= Len(its) /\ Len(its) \in Nat /\ q - m \in Nat
    <3> HIDE DEF v
    <3> QED BY <1>1, <1>2, <2>1, LiesOn, Zenon
  <2> QED BY <1>1, <2>2
<1>4. ASSUME NEW j \in 1..(Len(t) - m)
      PROVE  its[q + j].does = "text" /\ its[q + j].text = <<t[m + j]>>
  <2>1. m + j \in 1..Len(t) /\ (q - m) + (m + j) = q + j
    BY <1>1
  <2> QED BY <1>1, <1>3, <2>1
<1>5. (q - m) + Len(t) = q + (Len(t) - m)
  BY <1>1
<1>6. /\ its[(q + (Len(t) - m)) + 1].does = "end"
      /\ Lies(its, (q + (Len(t) - m)) + 1, s)
      /\ (q + (Len(t) - m)) + 1 <= Len(its)
  <2>1. Lies(its, q + (Len(t) - m), v)
    BY <1>3, <1>5
  <2> QED BY <2>1, EndAhead
<1> QED BY <1>1, <1>4, <1>6

\* The characters of n items
PieceOf(its, q, n) == [j \in 1..n |-> its[q + j].text[1]]

-----------------------------------------------------------------------------
(* What the handlers make of the tables                                    *)

\* Memory is a cell and a value, cleared or not.
LEMMA Memories ==
  /\ AllocCleared \in Seq(Cell) /\ AllocRaw \in Seq(Cell) /\ AllocRaw \in Seq(Value)
  /\ Len(AllocCleared) = Alloc /\ Len(AllocRaw) = Alloc /\ Alloc \in Nat \ {0}
<1>1. Alloc \in Nat \ {0}
  BY StructLoaderAssumption
<1>2. {NULL, Garbage} \subseteq Pointer /\ {NULL, Garbage} \subseteq Lists
  BY DEF Pointer, Lists
<1>3. \A c \in {NULL, Garbage} : Memory(c) \in Cell /\ Memory(c) \in Value
  BY <1>2 DEF Memory, Cell, Value
<1>4. /\ AllocCleared \in [1..Alloc -> Cell]
      /\ AllocRaw \in [1..Alloc -> Cell] /\ AllocRaw \in [1..Alloc -> Value]
  BY <1>3 DEF AllocCleared, AllocRaw
<1>5. \A S : \A s \in [1..Alloc -> S] : s \in Seq(S) /\ Len(s) = Alloc
  <2> SUFFICES ASSUME NEW S, NEW s \in [1..Alloc -> S] PROVE s \in Seq(S) /\ Len(s) = Alloc
    OBVIOUS
  <2>1. s \in Seq(S)
    BY <1>1, SeqDef
  <2>2. DOMAIN s = 1..Alloc
    OBVIOUS
  <2> QED BY <1>1, <2>1, <2>2, LenProperties
<1> QED BY <1>1, <1>4, <1>5, Zenon

\* n entries of a table stay as they are, and none is lost.
Keeps(old, new, n) ==
  Len(new) >= Len(old) /\ \A q \in 1..n : new[q] = old[q]

\* An array that is full grows.
LEMMA Grown ==
  ASSUME NEW S, NEW s \in Seq(S), NEW more \in Seq(S), Len(more) = Alloc,
         NEW n \in Nat, n <= Len(s)
  PROVE  LET t == IF n = Len(s) THEN s \o more ELSE s
         IN  t \in Seq(S) /\ n < Len(t) /\ Keeps(s, t, n)
<1>1. Alloc \in Nat \ {0} /\ Len(s) \in Nat
  BY Memories
<1>2. CASE n = Len(s)
  BY <1>1, <1>2, ConcatProperties DEF Keeps
<1>3. CASE n # Len(s)
  BY <1>1, <1>3 DEF Keeps
<1> QED BY <1>2, <1>3

\* A text is stored in the field of an entry of a table, or of a value.
Puts(s, t, n, field, piece) == t = [s EXCEPT ![n + 1] = Stored(@, field, piece)]

\* That entry then has it there, and all the rest is as it was.
LEMMA CellStored ==
  ASSUME NEW s \in Seq(Cell), NEW n \in Nat, n < Len(s), NEW piece \in Text,
         NEW field \in {"code", "title"},
         NEW t, Puts(s, t, n, field, piece)
  PROVE  /\ t \in Seq(Cell) /\ Len(t) = Len(s) /\ Keeps(s, t, n)
         /\ t[n + 1][field] = piece
         /\ \A other \in {"code", "title", "parts"} \ {field} : t[n + 1][other] = s[n + 1][other]
<1> DEFINE c == s[n + 1]
           d == [c EXCEPT ![field] = piece]
           w == [s EXCEPT ![n + 1] = d]
<1>1. n + 1 \in 1..Len(s) /\ Len(s) \in Nat
  OBVIOUS
<1>2. c \in Cell
  BY <1>1, ElementOfSequence
<1>3. piece \in Pointer
  BY DEF Pointer
<1>4. /\ d \in Cell /\ d[field] = piece
      /\ \A other \in {"code", "title", "parts"} \ {field} : d[other] = c[other]
  <2> HIDE DEF c
  <2>1. CASE field = "code"
    BY <1>2, <1>3, <2>1 DEF Cell
  <2>2. CASE field = "title"
    BY <1>2, <1>3, <2>2 DEF Cell
  <2> QED BY <2>1, <2>2
<1> HIDE DEF d
<1>5. /\ w \in Seq(Cell) /\ Len(w) = Len(s)
      /\ \A j \in 1..Len(s) : w[j] = IF j = n + 1 THEN d ELSE s[j]
  BY <1>1, <1>4, ExceptSeq
<1>6. Keeps(s, w, n) /\ w[n + 1] = d
  BY <1>1, <1>5 DEF Keeps
<1>7. w = t
  BY DEF Puts, Stored, d
<1> QED BY <1>4, <1>5, <1>6, <1>7 DEF d

\* The same for a value.
LEMMA ValueStored ==
  ASSUME NEW s \in Seq(Value), NEW n \in Nat, n < Len(s), NEW piece \in Text,
         NEW field \in {"code", "title"},
         NEW t, Puts(s, t, n, field, piece)
  PROVE  /\ t \in Seq(Value) /\ Len(t) = Len(s) /\ Keeps(s, t, n)
         /\ t[n + 1][field] = piece
         /\ \A other \in {"code", "title", "parts"} \ {field} : t[n + 1][other] = s[n + 1][other]
<1> DEFINE c == s[n + 1]
           d == [c EXCEPT ![field] = piece]
           w == [s EXCEPT ![n + 1] = d]
<1>1. n + 1 \in 1..Len(s) /\ Len(s) \in Nat
  OBVIOUS
<1>2. c \in Value
  BY <1>1, ElementOfSequence
<1>3. piece \in Pointer
  BY DEF Pointer
<1>4. /\ d \in Value /\ d[field] = piece
      /\ \A other \in {"code", "title", "parts"} \ {field} : d[other] = c[other]
  <2> HIDE DEF c
  <2>1. CASE field = "code"
    BY <1>2, <1>3, <2>1 DEF Value
  <2>2. CASE field = "title"
    BY <1>2, <1>3, <2>2 DEF Value
  <2> QED BY <2>1, <2>2
<1> HIDE DEF d
<1>5. /\ w \in Seq(Value) /\ Len(w) = Len(s)
      /\ \A j \in 1..Len(s) : w[j] = IF j = n + 1 THEN d ELSE s[j]
  BY <1>1, <1>4, ExceptSeq
<1>6. Keeps(s, w, n) /\ w[n + 1] = d
  BY <1>1, <1>5 DEF Keeps
<1>7. w = t
  BY DEF Puts, Stored, d
<1> QED BY <1>4, <1>5, <1>6, <1>7 DEF d

\* An array is linked to an entry of a table.
LEMMA ListLinked ==
  ASSUME table \in Seq(Cell), index \in Nat, index < Len(table), NEW array \in Lists
  PROVE  LET t == Linked(table, array)
         IN  /\ t \in Seq(Cell) /\ Len(t) = Len(table) /\ Keeps(table, t, index)
             /\ t[index + 1].parts = array
             /\ t[index + 1].code = table[index + 1].code
             /\ t[index + 1].title = table[index + 1].title
<1> DEFINE c == table[index + 1]
           d == [c EXCEPT !.parts = array]
           t == [table EXCEPT ![index + 1] = d]
<1>1. index + 1 \in 1..Len(table) /\ Len(table) \in Nat
  OBVIOUS
<1>2. c \in Cell
  BY <1>1, ElementOfSequence
<1>4. d \in Cell /\ d.parts = array /\ d.code = c.code /\ d.title = c.title
  <2> HIDE DEF c
  <2> QED BY <1>2 DEF Cell
<1> HIDE DEF d
<1>5. /\ t \in Seq(Cell) /\ Len(t) = Len(table)
      /\ \A j \in 1..Len(table) : t[j] = IF j = index + 1 THEN d ELSE table[j]
  BY <1>1, <1>4, ExceptSeq
<1>6. Keeps(table, t, index) /\ t[index + 1] = d
  BY <1>1, <1>5 DEF Keeps
<1>7. t = Linked(table, array)
  BY DEF Linked, d
<1> QED BY <1>4, <1>5, <1>6, <1>7

-----------------------------------------------------------------------------
(* What each handler does at each path                                     *)

Quiet == UNCHANGED <<table, index, cc, ccIndex, children, chldIndex, split>>

\* A start of which no handler takes note
LEMMA PlainStart ==
  ASSUME StartElement, item.text = <<>>,
         ~AtEntry(Append(path, item.name)), ~In(Append(path, item.name), <<"value">>)
  PROVE  path' = Append(path, item.name) /\ Quiet /\ pos' = pos + 1
BY DEF StartElement, Advance, TableStarted, ValuesStarted, Quiet

\* The start of an entry
LEMMA EntryStart ==
  ASSUME NEW k \in KindSet, k = kind, Arrays, StartElement,
         path = <<Base(k)[1]>>, item.name = Base(k)[2], item.text \in Text
  PROVE  /\ path' = Base(k) /\ pos' = pos + 1
         /\ UNCHANGED <<index, cc, ccIndex, children, chldIndex, split>>
         /\ table' \in Seq(Cell) /\ index < Len(table') /\ Keeps(table, table', index)
         /\ item.text # <<>> => table'[index + 1].code = item.text
<1> DEFINE p == Base(k)
           grown == TableStarted(p)
<1>1. path' = p /\ pos' = pos + 1 /\ UNCHANGED <<index, ccIndex, children, chldIndex, split>>
  <2>1. Append(<<Base(k)[1]>>, Base(k)[2]) = p
    BY PathSteps
  <2> QED BY <2>1 DEF StartElement, Advance
<1>2. IF item.text = <<>> THEN table' = grown /\ cc' = ValuesStarted(p)
      ELSE /\ table' = TableWith(grown, p \o <<"@code">>, item.text)
           /\ cc' = ValuesWith(ValuesStarted(p), p \o <<"@code">>, item.text)
  <2>1. Append(path, item.name) = p /\ Append(p, "@code") = p \o <<"@code">>
    BY PathSteps
  <2> HIDE DEF p, grown
  <2> QED BY <2>1 DEF StartElement, grown
<1>3. AtEntry(p) /\ ~In(p, <<"value">>)
  <2>1. p \o <<>> = p
    BY BelowEntry, ConcatEmptySeq
  <2>2. /\ AtEntry(p \o <<>>) <=> <<>> = <<>>
        /\ \A t \in Seq(Labels) : In(p \o <<>>, t) <=> <<>> = t
    BY LabelTuples, LongPaths, Zenon
  <2>3. <<"value">> # <<>>
    OBVIOUS
  <2> QED BY <2>1, <2>2, <2>3, LabelTuples
<1>4. /\ FieldAt(p \o <<"@code">>, <<>>) = "code"
      /\ FieldAt(p \o <<"@code">>, <<"value">>) = "none"
  <2>1. <<"@code">> \in Seq(Labels)
    BY LabelTuples
  <2>2. /\ FieldAt(p \o <<"@code">>, <<>>)
             = CASE <<"@code">> = <<"@code">> -> "code" [] <<"@code">> = <<"title">> -> "title"
                 [] OTHER -> "none"
        /\ FieldAt(p \o <<"@code">>, <<"value">>)
             = CASE <<"@code">> = <<"value", "@code">> -> "code"
                 [] <<"@code">> = <<"value", "title">> -> "title" [] OTHER -> "none"
    BY <2>1, Fields
  <2>3. <<"@code">> # <<"title">> /\ <<"@code">> # <<"value", "@code">>
        /\ <<"@code">> # <<"value", "title">>
    OBVIOUS
  <2> QED BY <2>2, <2>3
<1>5. cc' = cc
  BY <1>2, <1>3, <1>4 DEF ValuesStarted, ValuesWith
<1>6. grown \in Seq(Cell) /\ index < Len(grown) /\ Keeps(table, grown, index)
  <2>1. table \in Seq(Cell) /\ index \in Nat /\ index <= Len(table)
    BY DEF Arrays
  <2>2. PICK more \in Seq(Cell) :
          Len(more) = Alloc /\ more = IF kind = "coded" THEN AllocRaw ELSE AllocCleared
    BY Memories
  <2>3. grown = IF index = Len(table) THEN table \o more ELSE table
    BY <1>3, <2>2 DEF TableStarted
  <2> HIDE DEF grown
  <2> QED BY <2>1, <2>2, <2>3, Grown
<1> HIDE DEF p, grown
<1>7. CASE item.text = <<>>
  BY <1>1, <1>2, <1>5, <1>6, <1>7 DEF p
<1>8. CASE item.text # <<>>
  <2>1. Puts(grown, table', index, "code", item.text)
    BY <1>2, <1>4, <1>8 DEF TableWith, Puts
  <2>2. index \in Nat /\ Len(grown) \in Nat
    BY <1>6 DEF Arrays
  <2>3. /\ table' \in Seq(Cell) /\ Len(table') = Len(grown) /\ Keeps(grown, table', index)
        /\ table'[index + 1]["code"] = item.text
    <3>1. grown \in Seq(Cell) /\ index \in Nat /\ item.text \in Text /\ index < Len(grown)
      BY <1>6, <2>2
    <3> QED BY <2>1, <3>1, CellStored
  <2>4. Keeps(table, table', index)
    <3>1. Len(table) \in Nat
      BY DEF Arrays
    <3> QED BY <1>6, <2>2, <2>3, <3>1 DEF Keeps
  <2> QED BY <1>1, <1>5, <1>6, <2>3, <2>4 DEF p
<1> QED BY <1>7, <1>8

\* The start of a value
LEMMA ValueStart ==
  ASSUME NEW k \in KindSet, k = kind, k = "coded", Arrays, StartElement,
         path = Base(k), item.name = "value", item.text \in Text
  PROVE  /\ path' = Base(k) \o <<"value">> /\ pos' = pos + 1
         /\ UNCHANGED <<table, index, ccIndex, children, chldIndex, split>>
         /\ cc' \in Seq(Value) /\ ccIndex < Len(cc') /\ Keeps(cc, cc', ccIndex)
         /\ item.text # <<>> => cc'[ccIndex + 1].code = item.text
<1> DEFINE p == Base(k) \o <<"value">>
           q == Base(k) \o <<"value", "@code">>
           grown == ValuesStarted(p)
<1>0. Append(path, item.name) = p /\ Append(p, "@code") = q
  BY PathSteps
<1>1. path' = p /\ pos' = pos + 1 /\ UNCHANGED <<index, ccIndex, children, chldIndex, split>>
  BY <1>0 DEF StartElement, Advance
<1>2. IF item.text = <<>> THEN table' = TableStarted(p) /\ cc' = grown
      ELSE table' = TableWith(TableStarted(p), q, item.text) /\ cc' = ValuesWith(grown, q, item.text)
  <2> HIDE DEF p, grown, q
  <2> QED BY <1>0 DEF StartElement, grown
<1>3. ~AtEntry(p) /\ In(p, <<"value">>)
  <2>1. /\ AtEntry(p) <=> <<"value">> = <<>>
        /\ \A t \in Seq(Labels) : In(p, t) <=> <<"value">> = t
    BY LabelTuples, LongPaths, Zenon
  <2>2. <<"value">> # <<>>
    OBVIOUS
  <2> QED BY <2>1, <2>2, LabelTuples
<1>4. FieldAt(q, <<>>) = "none" /\ FieldAt(q, <<"value">>) = "code"
  <2>1. <<"value", "@code">> \in Seq(Labels)
    BY LabelTuples
  <2>2. /\ FieldAt(q, <<>>)
             = CASE <<"value", "@code">> = <<"@code">> -> "code"
                 [] <<"value", "@code">> = <<"title">> -> "title" [] OTHER -> "none"
        /\ FieldAt(q, <<"value">>)
             = CASE <<"value", "@code">> = <<"value", "@code">> -> "code"
                 [] <<"value", "@code">> = <<"value", "title">> -> "title" [] OTHER -> "none"
    BY <2>1, Fields
  <2>3. <<"value", "@code">> # <<"@code">> /\ <<"value", "@code">> # <<"title">>
    OBVIOUS
  <2> QED BY <2>2, <2>3
<1>5. table' = table
  BY <1>2, <1>3, <1>4 DEF TableStarted, TableWith
<1>6. grown \in Seq(Value) /\ ccIndex < Len(grown) /\ Keeps(cc, grown, ccIndex)
  <2>1. cc \in Seq(Value) /\ ccIndex \in Nat /\ ccIndex <= Len(cc)
    BY DEF Arrays
  <2>2. AllocRaw \in Seq(Value) /\ Len(AllocRaw) = Alloc
    BY Memories
  <2>3. grown = IF ccIndex = Len(cc) THEN cc \o AllocRaw ELSE cc
    BY <1>3 DEF ValuesStarted
  <2> HIDE DEF grown
  <2> QED BY <2>1, <2>2, <2>3, Grown
<1> HIDE DEF p, q, grown
<1>7. CASE item.text = <<>>
  BY <1>1, <1>2, <1>5, <1>6, <1>7 DEF p
<1>8. CASE item.text # <<>>
  <2>1. Puts(grown, cc', ccIndex, "code", item.text)
    BY <1>2, <1>4, <1>8 DEF ValuesWith, Puts
  <2>2. ccIndex \in Nat /\ Len(grown) \in Nat
    BY <1>6 DEF Arrays
  <2>3. /\ cc' \in Seq(Value) /\ Len(cc') = Len(grown) /\ Keeps(grown, cc', ccIndex)
        /\ cc'[ccIndex + 1]["code"] = item.text
    <3>1. grown \in Seq(Value) /\ ccIndex \in Nat /\ item.text \in Text /\ ccIndex < Len(grown)
      BY <1>6, <2>2
    <3> QED BY <2>1, <3>1, ValueStored
  <2>4. Keeps(cc, cc', ccIndex)
    <3>1. Len(cc) \in Nat
      BY DEF Arrays
    <3> QED BY <1>6, <2>2, <2>3, <3>1 DEF Keeps
  <2> QED BY <1>1, <1>5, <1>6, <2>3, <2>4 DEF p
<1> QED BY <1>7, <1>8

\* Where a path of an entry is
LEMMA WherePath ==
  ASSUME NEW k \in KindSet, k = kind, NEW s \in Seq(Labels)
  PROVE  /\ s # <<>> => ~AtEntry(Base(k) \o s)
         /\ s # <<"value">> => ~In(Base(k) \o s, <<"value">>)
         /\ s # <<"children">> => ~In(Base(k) \o s, <<"children">>)
         /\ s # <<"children", "child">> => ~IsChild(Base(k) \o s)
         /\ AtEntry(Base(k)) /\ In(Base(k) \o <<"value">>, <<"value">>)
         /\ In(Base(k) \o <<"children">>, <<"children">>)
         /\ k \in Listed => IsChild(Base(k) \o <<"children", "child">>)
         /\ k \notin Listed => ~IsChild(Base(k) \o s)
<1>1. /\ AtEntry(Base(k) \o s) <=> s = <<>>
      /\ \A t \in Seq(Labels) : In(Base(k) \o s, t) <=> s = t
  BY LongPaths, Zenon
<1>2. /\ s # <<>> => ~AtEntry(Base(k) \o s)
      /\ s # <<"value">> => ~In(Base(k) \o s, <<"value">>)
      /\ s # <<"children">> => ~In(Base(k) \o s, <<"children">>)
      /\ s # <<"children", "child">> => ~In(Base(k) \o s, <<"children", "child">>)
  BY <1>1, LabelTuples, Zenon
<1>3. s # <<"children", "child">> => ~IsChild(Base(k) \o s)
  BY <1>2, Zenon DEF IsChild
<1>4. AtEntry(Base(k))
  BY DEF AtEntry
<1>5. /\ In(Base(k) \o <<"value">>, <<"value">>)
      /\ In(Base(k) \o <<"children">>, <<"children">>)
      /\ In(Base(k) \o <<"children", "child">>, <<"children", "child">>)
  BY DEF In
<1>6. /\ k \in Listed => IsChild(Base(k) \o <<"children", "child">>)
      /\ k \notin Listed => ~IsChild(Base(k) \o s)
  BY <1>5 DEF IsChild, Listed
<1> QED BY <1>2, <1>3, <1>4, <1>5, <1>6

\* No handler takes note of the outermost element.
LEMMA OutermostPath ==
  ASSUME NEW k \in KindSet, k = kind
  PROVE  LET p == <<Base(k)[1]>>
         IN  ~AtEntry(p) /\ ~In(p, <<"value">>) /\ ~In(p, <<"children">>)
<1>1. PICK p : p = <<Base(k)[1]>>
  OBVIOUS
<1>2. Len(p) \in {0, 1}
  BY <1>1, ShortPaths
<1>3. Len(p) \in {0, 1} => ~AtEntry(p) /\ \A s \in Seq(Labels) : ~In(p, s)
  BY ShortPaths
<1>4. ~AtEntry(p) /\ ~In(p, <<"value">>) /\ ~In(p, <<"children">>)
  BY <1>2, <1>3, LabelTuples, Zenon
<1> QED BY <1>1, <1>4, Zenon

\* An end of which no handler takes note
LEMMA PlainEnd ==
  ASSUME EndElement, ~AtEntry(path), ~In(path, <<"value">>), ~In(path, <<"children">>)
  PROVE  path' = Front(path) /\ Quiet /\ pos' = pos + 1
BY DEF EndElement, Advance, Quiet

\* The end of an entry
LEMMA EntryEnd ==
  ASSUME NEW k \in KindSet, k = kind, EndElement, path = Base(k)
  PROVE  /\ path' = <<Base(k)[1]>> /\ pos' = pos + 1 /\ index' = index + 1
         /\ UNCHANGED <<children, chldIndex, split>>
         /\ k # "coded" => UNCHANGED <<table, cc, ccIndex>>
         /\ k = "coded" => /\ table' = Linked(table, SubSeq(cc, 1, ccIndex))
                           /\ cc' = <<>> /\ ccIndex' = 0
<1>1. AtEntry(path)
  BY DEF AtEntry
<1>2. Front(Base(k)) = <<Base(k)[1]>>
  BY PathSteps
<1> QED BY <1>1, <1>2 DEF EndElement, Advance

\* The end of a list
LEMMA ChildrenEnd ==
  ASSUME NEW k \in KindSet, k = kind, k \in Listed, Arrays, EndElement,
         path = Base(k) \o <<"children">>
  PROVE  /\ path' = Base(k) /\ pos' = pos + 1
         /\ UNCHANGED <<index, cc, ccIndex, split>>
         /\ children' = <<>> /\ chldIndex' = 0
         /\ table' = Linked(table, Append(children, NULL))
<1>1. ~AtEntry(path) /\ In(path, <<"children">>)
  <2>1. <<"children">> # <<>>
    OBVIOUS
  <2> QED BY <2>1, LabelTuples, WherePath
<1>2. Front(path) = Base(k)
  BY PathSteps
<1>3. WithChild(NULL) = Append(children, NULL)
  BY SubSeqFull DEF WithChild, Arrays
<1> QED BY <1>1, <1>2, <1>3 DEF EndElement, Advance, ListEnded, Listed

\* The end of a value
LEMMA ValueEnd ==
  ASSUME NEW k \in KindSet, k = kind, k = "coded", EndElement,
         path = Base(k) \o <<"value">>
  PROVE  /\ path' = Base(k) /\ pos' = pos + 1 /\ ccIndex' = ccIndex + 1
         /\ UNCHANGED <<table, index, cc, children, chldIndex, split>>
<1>1. ~AtEntry(path) /\ In(path, <<"value">>)
  <2>1. <<"value">> # <<>>
    OBVIOUS
  <2> QED BY <2>1, LabelTuples, WherePath
<1>2. Front(path) = Base(k)
  BY PathSteps
<1> QED BY <1>1, <1>2 DEF EndElement, Advance

\* A piece of n characters that was delivered
Delivered(n, piece) ==
  /\ n \in Nat \ {0} /\ pos + n <= got /\ pos' = pos + n /\ path' = path
  /\ \A m \in 1..n : items[pos + m].does = "text"
  /\ piece = [m \in 1..n |-> items[pos + m].text[1]]
  /\ UNCHANGED <<index, ccIndex>>
  /\ split' = (split \/ ~TextBegins \/ ~TextEnds(n))

\* A piece of text goes to the children or to a field, and there it is the characters ahead.
LEMMA PieceDelivered ==
  ASSUME CharacterData, pos \in Nat, got \in Nat
  PROVE  \E n, piece :
           /\ Delivered(n, piece)
           /\ IsChild(path) => /\ children' = WithChild(piece) /\ chldIndex' = chldIndex + 1
                               /\ table' = Linked(table, children') /\ cc' = cc
           /\ ~IsChild(path) => /\ table' = TableWith(table, path, piece)
                                /\ cc' = ValuesWith(cc, path, piece)
                                /\ UNCHANGED <<children, chldIndex>>
<1>1. PICK n \in Pieces :
        /\ pos' = pos + n
        /\ split' = (split \/ ~TextBegins \/ ~TextEnds(n))
        /\ IF IsChild(path)
           THEN /\ children' = WithChild([m \in 1..n |-> items[pos + m].text[1]])
                /\ chldIndex' = chldIndex + 1
                /\ table' = Linked(table, children')
                /\ UNCHANGED cc
           ELSE /\ table' = TableWith(table, path, [m \in 1..n |-> items[pos + m].text[1]])
                /\ cc' = ValuesWith(cc, path, [m \in 1..n |-> items[pos + m].text[1]])
                /\ UNCHANGED <<children, chldIndex>>
  BY DEF CharacterData
<1>2. PICK piece : piece = [m \in 1..n |-> items[pos + m].text[1]]
  OBVIOUS
<1>3. n \in Nat \ {0} /\ pos + n <= got /\ \A m \in 1..n : items[pos + m].does = "text"
  BY DEF Pieces
<1>4. UNCHANGED <<path, index, ccIndex>>
  BY DEF CharacterData
<1>5. Delivered(n, piece)
  BY <1>1, <1>2, <1>3, <1>4 DEF Delivered
<1> QED BY <1>1, <1>2, <1>5

\* The title of an entry
LEMMA TitleText ==
  ASSUME NEW k \in KindSet, k = kind, NEW piece \in Text, path = Base(k) \o <<"title">>
  PROVE  /\ ~IsChild(path) /\ ValuesWith(cc, path, piece) = cc
         /\ k = "coded" => TableWith(table, path, piece) = table
         /\ k # "coded" => Puts(table, TableWith(table, path, piece), index, "title", piece)
<1>1. ~IsChild(path)
  <2>1. <<"title">> # <<"children", "child">>
    OBVIOUS
  <2> QED BY <2>1, LabelTuples, WherePath
<1>2. FieldAt(path, <<>>) = "title" /\ FieldAt(path, <<"value">>) = "none"
  <2>1. <<"title">> \in Seq(Labels)
    BY LabelTuples
  <2>2. /\ FieldAt(path, <<>>)
             = CASE <<"title">> = <<"@code">> -> "code" [] <<"title">> = <<"title">> -> "title"
                 [] OTHER -> "none"
        /\ FieldAt(path, <<"value">>)
             = CASE <<"title">> = <<"value", "@code">> -> "code"
                 [] <<"title">> = <<"value", "title">> -> "title" [] OTHER -> "none"
    BY <2>1, Fields
  <2>3. <<"title">> # <<"@code">> /\ <<"title">> # <<"value", "@code">>
        /\ <<"title">> # <<"value", "title">>
    OBVIOUS
  <2> QED BY <2>2, <2>3
<1> QED BY <1>1, <1>2 DEF TableWith, ValuesWith, Puts

\* The title of a value
LEMMA ValueText ==
  ASSUME NEW k \in KindSet, k = kind, k = "coded", NEW piece \in Text,
         path = Base(k) \o <<"value", "title">>
  PROVE  /\ ~IsChild(path) /\ TableWith(table, path, piece) = table
         /\ Puts(cc, ValuesWith(cc, path, piece), ccIndex, "title", piece)
<1>1. ~IsChild(path)
  BY LabelTuples, WherePath DEF Listed
<1>2. FieldAt(path, <<>>) = "none" /\ FieldAt(path, <<"value">>) = "title"
  <2>1. <<"value", "title">> \in Seq(Labels)
    BY LabelTuples
  <2>2. /\ FieldAt(path, <<>>)
             = CASE <<"value", "title">> = <<"@code">> -> "code"
                 [] <<"value", "title">> = <<"title">> -> "title" [] OTHER -> "none"
        /\ FieldAt(path, <<"value">>)
             = CASE <<"value", "title">> = <<"value", "@code">> -> "code"
                 [] <<"value", "title">> = <<"value", "title">> -> "title" [] OTHER -> "none"
    BY <2>1, Fields
  <2>3. <<"value", "title">> # <<"@code">> /\ <<"value", "title">> # <<"value", "@code">>
        /\ <<"value", "title">> # <<"title">>
    OBVIOUS
  <2> QED BY <2>2, <2>3
<1> QED BY <1>1, <1>2 DEF TableWith, ValuesWith, Puts

-----------------------------------------------------------------------------
(* A handler leads from each place of a file to one of its places.         *)

Handler == StartElement \/ CharacterData \/ EndElement

\* A file that was read up to pos, of which more was read
Reading(k, doc) ==
  Setting(k, doc) /\ Arrays /\ Done(k, doc) /\ got \in Nat /\ got <= Len(Items(k, doc))

\* What a handler finds
LEMMA HandlerItem ==
  ASSUME NEW k, NEW doc, Reading(k, doc), Handler
  PROVE  /\ k \in KindSet /\ k = kind /\ IsDocument(k, doc) /\ items = Items(k, doc)
         /\ item = Items(k, doc)[pos + 1] /\ pos < got
         /\ item.does = "start" => StartElement
         /\ item.does = "text" => CharacterData
         /\ item.does = "end" => EndElement
         /\ item.does # "error"
<1>1. k \in KindSet /\ k = kind /\ IsDocument(k, doc) /\ items = Items(k, doc)
  BY DEF Reading, Setting, items
<1>2. item = Items(k, doc)[pos + 1]
  BY <1>1 DEF item
<1> USE DEF Handler
<1>3. pos < got
  BY DEF StartElement, CharacterData, EndElement, Parsing
<1>4. StartElement => item.does = "start"
  BY DEF StartElement
<1>5. CharacterData => item.does = "text"
  BY DEF CharacterData
<1>6. EndElement => item.does = "end"
  BY DEF EndElement
<1>7. "start" # "text" /\ "start" # "end" /\ "text" # "end" /\ "error" \notin {"start", "text", "end"}
  OBVIOUS
<1>8. /\ item.does = "start" => StartElement
      /\ item.does = "text" => CharacterData
      /\ item.does = "end" => EndElement
      /\ item.does # "error"
  BY <1>4, <1>5, <1>6, <1>7
<1> QED BY <1>1, <1>2, <1>3, <1>8

\* What was done stays done while no entry of it is touched.
LEMMA DoneStays ==
  ASSUME NEW k, NEW doc, Done(k, doc), index' = index, Keeps(table, table', index),
         split => split'
  PROVE  Done(k, doc)'
<1>1. ASSUME NEW n \in 1..index PROVE EntryRight(k, doc[n], table'[n], split')
  <2>1. EntryRight(k, doc[n], table[n], split)
    BY DEF Done
  <2>2. table'[n] = table[n]
    BY DEF Keeps
  <2>3. EntryRight(k, doc[n], table[n], split')
    BY <2>1 DEF EntryRight
  <2> QED BY <2>2, <2>3
<1> QED BY <1>1 DEF Done

\* What no handler takes note of changes nothing.
LEMMA QuietStays ==
  ASSUME NEW k, NEW doc, Arrays, Done(k, doc), Quiet
  PROVE  /\ Arrays' /\ Done(k, doc)' /\ index' = index
         /\ Begun(k, doc) => Begun(k, doc)'
         /\ Titled(k, doc) => Titled(k, doc)'
         /\ NoParts => NoParts'
         /\ \A p \in Nat : PartsDone(k, doc, p) => PartsDone(k, doc, p)'
         /\ \A p \in Nat : ValueBegun(doc, p) => ValueBegun(doc, p)'
         /\ \A p \in Nat : ValueTitled(doc, p) => ValueTitled(doc, p)'
<1> USE DEF Quiet
<1>1. Arrays'
  BY DEF Arrays
<1>2. Done(k, doc)'
  BY DEF Done
<1>3. Begun(k, doc) => Begun(k, doc)'
  BY DEF Begun
<1>4. Titled(k, doc) => Titled(k, doc)'
  BY DEF Titled
<1>5. \A p \in Nat : PartsDone(k, doc, p) => PartsDone(k, doc, p)'
  BY DEF PartsDone
<1>6. \A p \in Nat : ValueBegun(doc, p) => ValueBegun(doc, p)'
  BY DEF ValueBegun
<1>7. \A p \in Nat : ValueTitled(doc, p) => ValueTitled(doc, p)'
  BY DEF ValueTitled
<1>8. NoParts => NoParts'
  BY DEF NoParts
<1> QED BY <1>1, <1>2, <1>3, <1>4, <1>5, <1>6, <1>7, <1>8

\* A title ahead, and what follows it
LEMMA TitleAhead ==
  ASSUME NEW its, NEW q, NEW x, HasTexts(x), NEW s \in Seq(Item),
         Lies(its, q, OptionalTitle(x) \o s)
  PROVE  /\ "title" \in DOMAIN x =>
              /\ its[q + 1] = [does |-> "start", name |-> "title", text |-> <<>>]
              /\ Lies(its, q + 1, Characters(x.title) \o (End("title") \o s))
              /\ x.title \in Text /\ q \in Nat
         /\ "title" \notin DOMAIN x => Lies(its, q, s)
<1>1. <<>> \in Text /\ "title" \in Names
  BY DEF Text, Names
<1>2. CASE "title" \in DOMAIN x
  <2> DEFINE a == Start("title", <<>>)
             b == Characters(x.title)
             c == End("title")
  <2>1. x.title \in Text /\ OptionalTitle(x) = a \o (b \o c)
    BY <1>2, TitleItems
  <2>2. a \in Seq(Item) /\ b \in Seq(Item) /\ c \in Seq(Item)
    BY <1>1, <2>1, OneItem, TextItems
  <2>3. \A t, u, v \in Seq(Item) : (t \o u) \o v = t \o (u \o v)
    BY Associative, SMTT(40)
  <2>4. \A t, u \in Seq(Item) : t \o u \in Seq(Item)
    BY ConcatProperties
  <2> HIDE DEF a, b, c
  <2>5. b \o c \in Seq(Item) /\ c \o s \in Seq(Item) /\ b \o (c \o s) \in Seq(Item)
    BY <2>2, <2>4
  <2>6. (a \o (b \o c)) \o s = a \o ((b \o c) \o s)
    <3>1. a \in Seq(Item) /\ b \o c \in Seq(Item) /\ s \in Seq(Item)
      BY <2>2, <2>5
    <3> QED BY <2>3, <3>1, Zenon
  <2>7. (b \o c) \o s = b \o (c \o s)
    BY <2>2, <2>3, Zenon
  <2>8. Lies(its, q, a \o (b \o (c \o s)))
    BY <2>1, <2>6, <2>7, Zenon
  <2>9. PICK rest \in Seq(Item) : rest = b \o (c \o s)
    BY <2>5
  <2>11. Lies(its, q, Start("title", <<>>) \o rest)
    BY <2>8, <2>9, Zenon DEF a
  <2>10. /\ its[q + 1] = [does |-> "start", name |-> "title", text |-> <<>>]
         /\ Lies(its, q + 1, rest) /\ q + 1 <= Len(its)
         /\ Len(its) \in Nat /\ q \in Nat
    BY <1>1, <2>11, StartAhead, ZenonT(40)
  <2> QED BY <1>2, <2>1, <2>9, <2>10 DEF b, c
<1>3. CASE "title" \notin DOMAIN x
  <2>1. OptionalTitle(x) = <<>>
    BY <1>3, TitleItems
  <2>2. OptionalTitle(x) \o s = s
    BY <2>1, ConcatEmptySeq
  <2> QED BY <1>3, <2>2
<1> QED BY <1>2, <1>3

\* None of no parts is done.
LEMMA NoneDone ==
  ASSUME NEW k, NEW doc, Arrays', NoParts'
  PROVE  PartsDone(k, doc, 0)'
BY DEF PartsDone, NoParts, Arrays

\* Behind the title of an entry lie its children or its parts.
LEMMA AfterTitle ==
  ASSUME NEW k \in KindSet, NEW doc, IsDocument(k, doc), Arrays', path' = Base(k), NoParts',
         Begun(k, doc)', Titled(k, doc)',
         Lies(Items(k, doc), pos', BodyFrom(k, doc, index' + 1))
  PROVE  Place(k, doc)'
<1>1. CASE k \in Listed
  <2>1. BeforeChildren(k, doc)'
    BY <1>1 DEF BeforeChildren
  <2> QED BY <2>1 DEF Place
<1>2. CASE k \notin Listed
  <2>1. Lies(Items(k, doc), pos', PartsFrom(k, doc, index' + 1, 0 + 1))
    BY <1>2 DEF BodyFrom
  <2>2. index' + 1 \in 1..Len(doc) /\ doc[index' + 1] # Malformed
    BY EntriesFromFacts DEF Begun, Arrays
  <2>3. 0 \in 0..Len(doc[index' + 1].parts)
    <3>1. IsEntry(k, doc[index' + 1])
      BY <2>2, EntryFromFacts
    <3>2. Len(doc[index' + 1].parts) \in Nat
      BY <3>1, PartListFacts
    <3> QED BY <3>2
  <2>4. PartsDone(k, doc, 0)'
    BY NoneDone
  <2>5. AmongParts(k, doc, 0)'
    BY <1>2, <2>1, <2>3, <2>4 DEF AmongParts
  <2> QED BY <2>5 DEF Place
<1> QED BY <1>1, <1>2

\* A start that no handler takes note of, known by its path
LEMMA PlainStartAt ==
  ASSUME NEW k, NEW doc, Reading(k, doc), StartElement, NEW nm, NEW p,
         item = [does |-> "start", name |-> nm, text |-> <<>>],
         p = Append(path, nm), ~AtEntry(p), ~In(p, <<"value">>)
  PROVE  path' = p /\ pos' = pos + 1 /\ Quiet /\ Arrays' /\ Done(k, doc)' /\ index' = index
<1>1. item.text = <<>> /\ item.name = nm
  BY Zenon
<1>2. path' = p /\ Quiet /\ pos' = pos + 1
  BY <1>1, PlainStart, Zenon
<1> QED BY <1>2, QuietStays DEF Reading

\* The first item
LEMMA FromUnread ==
  ASSUME NEW k, NEW doc, Reading(k, doc), Handler, Unread
  PROVE  Reads(k, doc)'
<1> DEFINE its == Items(k, doc)
           nm == Base(k)[1]
<1>1. /\ k \in KindSet /\ k = kind /\ IsDocument(k, doc) /\ item = its[pos + 1]
      /\ item.does = "start" => StartElement
  BY HandlerItem
<1>2. nm \in Names /\ <<>> \in Text
  BY <1>1, BaseFacts DEF Text
<1>3. /\ its = Start(nm, <<>>) \o EntriesFrom(k, doc, 1) /\ its \in Seq(Item)
      /\ EntriesFrom(k, doc, 1) \in Seq(Item) /\ Len(doc) \in Nat
  <2>1. Len(doc) \in Nat /\ \A e \in 1..(Len(doc) + 1) : EntriesFrom(k, doc, e) \in Seq(Item)
    BY <1>1, EntriesFromFacts
  <2>2. 1 \in 1..(Len(doc) + 1)
    BY <2>1
  <2> QED BY <1>1, <2>1, <2>2, EntriesFromFacts
<1>4. PICK s \in Seq(Item) : s = EntriesFrom(k, doc, 1)
  BY <1>3
<1>5. Lies(its, pos, Start(nm, <<>>) \o s)
  <2>1. Lies(its, 0, its)
    BY <1>3 DEF Lies
  <2> QED BY <1>3, <1>4, <2>1 DEF Unread
<1> HIDE DEF its, nm
<1>6. /\ its[pos + 1] = [does |-> "start", name |-> nm, text |-> <<>>]
      /\ Lies(its, pos + 1, s) /\ pos + 1 <= Len(its) /\ Len(its) \in Nat /\ pos \in Nat
  BY <1>2, <1>5, StartAhead, Zenon
<1>7. StartElement
  <2>1. item.does = "start"
    BY <1>1, <1>6
  <2> QED BY <1>1, <2>1
<1>8. Append(path, nm) = <<nm>> /\ ~AtEntry(<<nm>>) /\ ~In(<<nm>>, <<"value">>)
  <2>1. Append(<<>>, nm) = <<nm>>
    BY <1>1, PathSteps DEF nm
  <2> QED BY <1>1, <2>1, OutermostPath DEF Unread, nm
<1>9. path' = <<nm>> /\ pos' = pos + 1 /\ Quiet /\ Arrays' /\ Done(k, doc)' /\ index' = index
  BY <1>1, <1>6, <1>7, <1>8, PlainStartAt
<1>10. Between(k, doc)'
  <2>1. NoParts'
    BY <1>9, QuietStays DEF Unread, Reading
  <2>2. index' = 0 /\ index' + 1 = 1 /\ index' <= Len(doc)
    BY <1>3, <1>9 DEF Unread
  <2> QED BY <1>4, <1>6, <1>9, <2>1, <2>2 DEF Between, its, nm
<1> QED BY <1>9, <1>10 DEF Reads, Place

\* An entry, or the last end
LEMMA FromBetween ==
  ASSUME NEW k, NEW doc, Reading(k, doc), Handler, Between(k, doc)
  PROVE  Reads(k, doc)'
<1> DEFINE its == Items(k, doc)
           e == index + 1
<1>1. /\ k \in KindSet /\ k = kind /\ IsDocument(k, doc) /\ item = its[pos + 1]
      /\ item.does = "start" => StartElement
      /\ item.does = "end" => EndElement
      /\ item.does # "error"
  BY HandlerItem
<1>2. /\ path = <<Base(k)[1]>> /\ NoParts /\ index <= Len(doc)
      /\ Lies(its, pos, EntriesFrom(k, doc, e)) /\ index \in Nat /\ Len(doc) \in Nat
  BY <1>1, EntriesFromFacts DEF Between, Reading, Arrays
<1>3. CASE index = Len(doc)
  <2>1. Lies(its, pos, End(Base(k)[1])) /\ End(Base(k)[1]) \in Seq(Item)
    BY <1>1, <1>2, <1>3, EntriesFromFacts, EndFacts
  <2>2. Lies(its, pos, End(Base(k)[1]) \o <<>>) /\ <<>> \in Seq(Item)
    BY <2>1, ConcatEmptySeq
  <2>3. Base(k)[1] \in Names
    BY <1>1, BaseFacts
  <2> HIDE DEF its, e
  <2>4. /\ its[pos + 1].does = "end"
        /\ Lies(its, pos + 1, <<>>) /\ pos + 1 <= Len(its) /\ Len(its) \in Nat /\ pos \in Nat
    BY <2>2, <2>3, EndAhead, Zenon
  <2>5. EndElement
    BY <1>1, <2>4
  <2>6. ~AtEntry(path) /\ ~In(path, <<"value">>) /\ ~In(path, <<"children">>)
    BY <1>1, <1>2, OutermostPath
  <2>7. path' = <<>> /\ Quiet /\ pos' = pos + 1
    <3>1. Front(<<Base(k)[1]>>) = <<>>
      BY <1>1, PathSteps
    <3> QED BY <1>2, <2>5, <2>6, <3>1, PlainEnd
  <2>8. Arrays' /\ Done(k, doc)' /\ index' = index
    BY <2>7, QuietStays DEF Reading
  <2>9. pos' = Len(its)
    <3>1. Len(<<>>) = 0
      OBVIOUS
    <3> QED BY <2>4, <2>7, <3>1 DEF Lies
  <2>10. Behind(k, doc)'
    BY <1>3, <2>7, <2>8, <2>9 DEF Behind, its
  <2> QED BY <2>8, <2>10 DEF Reads, Place
<1>4. CASE index < Len(doc)
  <2>1. e \in 1..Len(doc)
    BY <1>2, <1>4
  <2>2. doc[e] # Malformed
    <3> SUFFICES ASSUME doc[e] = Malformed PROVE FALSE
      OBVIOUS
    <3>1. EntryItems(k, doc[e]) = <<ErrorItem>>
      BY <1>1, <2>1, ListingFacts
    <3>2. EntriesFrom(k, doc, e) = EntryItems(k, doc[e]) \o EntriesFrom(k, doc, e + 1)
      BY <1>1, <2>1, EntriesFromFacts
    <3>3. EntriesFrom(k, doc, e + 1) \in Seq(Item) /\ <<ErrorItem>> \in Seq(Item)
      <4>1. e + 1 \in 1..(Len(doc) + 1)
        BY <1>2, <2>1
      <4>2. ErrorItem \in Item
        BY DEF ErrorItem, Item, Names, Text
      <4> QED BY <1>1, <4>1, <4>2, EntriesFromFacts
    <3> HIDE DEF its, e
    <3>4. PICK u \in Seq(Item), s \in Seq(Item) :
            u = <<ErrorItem>> /\ s = EntriesFrom(k, doc, e + 1)
      BY <3>3
    <3>5. Lies(its, pos, u \o s)
      BY <1>2, <3>1, <3>2, <3>4
    <3>6. /\ Lies(its, pos + Len(u), s)
          /\ \A n \in 1..Len(u) : its[pos + n] = u[n]
          /\ pos + Len(u) <= Len(its) /\ Len(its) \in Nat /\ pos \in Nat
      BY <3>5, LiesOn, Zenon
    <3>7. Len(u) = 1 /\ u[1] = ErrorItem
      BY <3>4
    <3>8. its[pos + 1] = ErrorItem
      BY <3>6, <3>7
    <3>9. ErrorItem.does = "error"
      BY Zenon DEF ErrorItem
    <3> QED BY <1>1, <3>8, <3>9, Zenon
  <2>3. /\ IsEntry(k, doc[e]) /\ HasTexts(doc[e])
        /\ OptionalTitle(doc[e]) \in Seq(Item) /\ BodyFrom(k, doc, e) \in Seq(Item)
        /\ EntriesFrom(k, doc, e)
             = Start(Base(k)[2], doc[e].code) \o (OptionalTitle(doc[e]) \o BodyFrom(k, doc, e))
    BY <1>1, <2>1, <2>2, EntryFromFacts
  <2>4. Base(k)[2] \in Names /\ doc[e].code \in Text
    BY <1>1, <2>3, BaseFacts, TitleItems
  <2> HIDE DEF its, e
  <2>5. PICK s \in Seq(Item) : s = OptionalTitle(doc[e]) \o BodyFrom(k, doc, e)
    BY <2>3, ConcatProperties
  <2>6. Lies(its, pos, Start(Base(k)[2], doc[e].code) \o s)
    BY <1>2, <2>3, <2>5, Zenon
  <2>7. /\ its[pos + 1] = [does |-> "start", name |-> Base(k)[2], text |-> doc[e].code]
        /\ Lies(its, pos + 1, s) /\ pos + 1 <= Len(its) /\ Len(its) \in Nat /\ pos \in Nat
    BY <2>4, <2>6, StartAhead, Zenon
  <2>8. item.does = "start" /\ item.name = Base(k)[2] /\ item.text = doc[e].code
    BY <1>1, <2>7
  <2>9. /\ path' = Base(k) /\ pos' = pos + 1
        /\ UNCHANGED <<index, cc, ccIndex, children, chldIndex, split>>
        /\ table' \in Seq(Cell) /\ index < Len(table') /\ Keeps(table, table', index)
        /\ doc[e].code # <<>> => table'[index + 1].code = doc[e].code
    BY <1>1, <1>2, <2>4, <2>8, EntryStart DEF Reading
  <2>10. Arrays' /\ Done(k, doc)' /\ NoParts'
    <3>1. Arrays /\ Done(k, doc)
      BY DEF Reading
    <3>2. Arrays'
      <4>1. Len(table') \in Nat
        BY <2>9
      <4> QED BY <2>9, <3>1, <4>1 DEF Arrays
    <3>3. Done(k, doc)'
      BY <2>9, <3>1, DoneStays
    <3>4. NoParts'
      BY <1>2, <2>9 DEF NoParts
    <3> QED BY <3>2, <3>3, <3>4
  <2>11. Begun(k, doc)'
    BY <1>4, <2>2, <2>9 DEF Begun, e
  <2>12. Lies(its, pos', OptionalTitle(doc[e]) \o BodyFrom(k, doc, e))
    BY <2>5, <2>7, <2>9
  <2>13. CASE "title" \in DOMAIN doc[e]
    <3>1. Opened(k, doc)'
      BY <2>9, <2>10, <2>11, <2>12, <2>13 DEF Opened, e, its
    <3> QED BY <2>10, <3>1 DEF Reads, Place
  <2>14. CASE "title" \notin DOMAIN doc[e]
    <3>1. Lies(its, pos', BodyFrom(k, doc, e))
      BY <2>3, <2>12, <2>14, TitleAhead
    <3>2. Titled(k, doc)'
      BY <2>9, <2>14 DEF Titled, HasTitle, e
    <3>3. Place(k, doc)'
      BY <1>1, <2>9, <2>10, <2>11, <3>1, <3>2, AfterTitle DEF e, its
    <3> QED BY <2>10, <3>3 DEF Reads
  <2> QED BY <2>13, <2>14
<1> QED BY <1>2, <1>3, <1>4

\* What the entry that was begun is
LEMMA BegunFacts ==
  ASSUME NEW k, NEW doc, Reading(k, doc), Begun(k, doc)
  PROVE  LET e == index + 1
         IN  /\ index \in Nat /\ e \in 1..Len(doc) /\ IsEntry(k, doc[e]) /\ HasTexts(doc[e])
             /\ OptionalTitle(doc[e]) \in Seq(Item) /\ BodyFrom(k, doc, e) \in Seq(Item)
             /\ PartsFrom(k, doc, e, 1) \in Seq(Item) /\ EntriesFrom(k, doc, e + 1) \in Seq(Item)
<1>1. k \in KindSet /\ IsDocument(k, doc) /\ index \in Nat
  BY DEF Reading, Setting, Arrays
<1>2. index + 1 \in 1..Len(doc) /\ doc[index + 1] # Malformed
  BY <1>1, EntriesFromFacts DEF Begun
<1> QED BY <1>1, <1>2, EntryFromFacts

\* The title of an entry that has one
LEMMA FromOpened ==
  ASSUME NEW k, NEW doc, Reading(k, doc), Handler, Opened(k, doc)
  PROVE  Reads(k, doc)'
<1> DEFINE its == Items(k, doc)
           p == Base(k) \o <<"title">>
<1>0. PICK e, t, rest : e = index + 1 /\ t = doc[e].title /\ rest = End("title") \o BodyFrom(k, doc, e)
  OBVIOUS
<1>1. /\ k \in KindSet /\ k = kind /\ item = its[pos + 1]
      /\ item.does = "start" => StartElement
  BY HandlerItem
<1>2. /\ path = Base(k) /\ NoParts /\ Begun(k, doc) /\ "title" \in DOMAIN doc[e]
      /\ Lies(its, pos, OptionalTitle(doc[e]) \o BodyFrom(k, doc, e))
  BY <1>0 DEF Opened
<1>3. HasTexts(doc[e]) /\ BodyFrom(k, doc, e) \in Seq(Item)
  BY <1>0, <1>2, BegunFacts
<1>4. /\ its[pos + 1] = [does |-> "start", name |-> "title", text |-> <<>>]
      /\ Lies(its, pos + 1, Characters(t) \o rest)
      /\ t \in Text /\ pos \in Nat
  BY <1>0, <1>2, <1>3, TitleAhead
<1>5. StartElement
  BY <1>1, <1>4
<1>6. Append(path, "title") = p /\ ~AtEntry(p) /\ ~In(p, <<"value">>)
  <2>1. Append(path, "title") = p
    BY <1>1, <1>2, PathSteps
  <2>2. <<"title">> # <<>> /\ <<"title">> # <<"value">>
    OBVIOUS
  <2>3. ~AtEntry(p) /\ ~In(p, <<"value">>)
    BY <1>1, <2>2, LabelTuples, WherePath
  <2> QED BY <2>1, <2>3
<1>7. path' = p /\ pos' = pos + 1 /\ Quiet /\ Arrays' /\ Done(k, doc)' /\ index' = index
  BY <1>1, <1>4, <1>5, <1>6, PlainStartAt
<1>8. NoParts' /\ Begun(k, doc)'
  BY <1>2, <1>7, QuietStays DEF Reading
<1>9. Within(its, t, 0, rest)'
  <2>1. 0 \in 0..Len(t) /\ pos' - 0 = pos + 1 /\ pos' \in Nat
    BY <1>4, <1>7, TextItems
  <2> HIDE DEF its
  <2> QED BY <1>4, <1>7, <2>1 DEF Within
<1>10. InTitle(k, doc, 0)'
  BY <1>0, <1>2, <1>7, <1>8, <1>9 DEF InTitle
<1> QED BY <1>7, <1>10 DEF Reads, Place

\* A piece was part of the text, and of all of it if no text came in pieces.
Continued(its, t, m, s, n, piece) ==
  /\ piece \in Text /\ m + n \in Nat \ {0} /\ (split => split')
  /\ Within(its, t, m + n, s)'
  /\ ~split' => m = 0 /\ piece = t

\* A piece of a text, or its end
LEMMA FromText ==
  ASSUME NEW k, NEW doc, Reading(k, doc), Handler, NEW t \in Text, NEW m,
         NEW nm \in Names, NEW s \in Seq(Item),
         Within(Items(k, doc), t, m, End(nm) \o s)
  PROVE  /\ pos \in Nat /\ m \in 0..Len(t) /\ Len(t) \in Nat
         /\ EndElement => m = Len(t) /\ Lies(Items(k, doc), pos + 1, s)
         /\ CharacterData =>
              \A n, piece : Delivered(n, piece) =>
                Continued(Items(k, doc), t, m, End(nm) \o s, n, piece)
         /\ EndElement \/ CharacterData
<1> DEFINE its == Items(k, doc)
<1>1. /\ items = its /\ item = its[pos + 1]
      /\ item.does = "text" => CharacterData
      /\ item.does = "end" => EndElement
  BY HandlerItem
<1>2. /\ m \in 0..Len(t) /\ pos \in Nat /\ pos - m \in Nat /\ Lies(its, pos - m, Characters(t) \o (End(nm) \o s))
      /\ m > 0 => its[pos].does = "text" /\ (~split => m = Len(t))
  BY DEF Within
<1>3. Len(t) \in Nat
  BY TextItems
<1>4. pos \in Nat
  BY <1>2
<1>5. /\ Len(t) \in Nat
      /\ \A j \in 1..(Len(t) - m) : its[pos + j].does = "text" /\ its[pos + j].text = <<t[m + j]>>
      /\ its[(pos + (Len(t) - m)) + 1].does = "end"
      /\ Lies(its, (pos + (Len(t) - m)) + 1, s)
      /\ (pos + (Len(t) - m)) + 1 <= Len(its)
  BY <1>2, <1>4, TextAhead, Zenon
<1>6. m < Len(t) => item.does = "text"
  <2> SUFFICES ASSUME m < Len(t) PROVE its[pos + 1].does = "text"
    BY <1>1
  <2>1. 1 \in 1..(Len(t) - m)
    BY <1>2, <1>3
  <2> QED BY <1>5, <2>1
<1>7. m = Len(t) => item.does = "end" /\ Lies(its, pos + 1, s)
  <2> SUFFICES ASSUME m = Len(t) PROVE its[pos + 1].does = "end" /\ Lies(its, pos + 1, s)
    BY <1>1
  <2>1. (pos + (Len(t) - m)) + 1 = pos + 1
    BY <1>3, <1>4
  <2> QED BY <1>5, <2>1
<1>8. m < Len(t) \/ m = Len(t)
  BY <1>2, <1>3
<1>9. EndElement \/ CharacterData
  BY <1>1, <1>6, <1>7, <1>8
<1>10. EndElement => m = Len(t) /\ Lies(its, pos + 1, s)
  <2>1. EndElement => item.does = "end"
    BY DEF EndElement
  <2> QED BY <1>6, <1>7, <1>8, <2>1
<1>11. ASSUME NEW n, NEW piece, Delivered(n, piece)
       PROVE  Continued(its, t, m, End(nm) \o s, n, piece)
  <2>1. /\ n \in Nat \ {0} /\ pos' = pos + n
        /\ \A j \in 1..n : its[pos + j].does = "text"
        /\ piece = PieceOf(its, pos, n)
        /\ split' = (split \/ ~TextBegins \/ ~TextEnds(n))
    BY <1>1, <1>11 DEF Delivered, PieceOf
  <2>2. m > 0 => ~TextBegins
    <3> SUFFICES ASSUME m > 0 PROVE ~TextBegins
      OBVIOUS
    <3>1. pos # 0
      BY <1>2, <1>3, <1>4
    <3> QED BY <1>1, <1>2, <3>1 DEF TextBegins
  <2>3. TextEnds(n) => pos + n = Len(its) \/ its[pos + n + 1].does # "text"
    BY <1>1 DEF TextEnds
  <2>4. n <= Len(t) - m
    <3> SUFFICES ASSUME n > Len(t) - m PROVE FALSE
      BY <1>2, <1>3, <2>1
    <3> DEFINE j == (Len(t) - m) + 1
    <3>1. j \in 1..n /\ pos + j = (pos + (Len(t) - m)) + 1
      BY <1>2, <1>3, <2>1
    <3>2. its[pos + j].does = "text"
      <4> HIDE DEF j
      <4> QED BY <2>1, <3>1
    <3> QED BY <1>5, <3>1, <3>2
  <2>8. m + n \in 1..Len(t) /\ (pos + n) - (m + n) = pos - m
    BY <1>2, <1>3, <2>1, <2>4
  <2>9. its[pos + n].does = "text"
    <3>1. n \in 1..n
      BY <2>1
    <3> QED BY <2>1, <3>1, Zenon
  <2>10. ASSUME NEW j \in 1..n PROVE its[pos + j].text[1] = t[m + j] /\ t[m + j] \in Chars
    <3>1. j \in 1..(Len(t) - m) /\ m + j \in 1..Len(t)
      BY <1>2, <1>3, <2>1, <2>4
    <3>2. its[pos + j].text = <<t[m + j]>>
      BY <1>5, <3>1
    <3>3. t[m + j] \in Chars
      BY <3>1, ElementOfSequence DEF Text
    <3> QED BY <3>2, <3>3
  <2>11. piece \in Text /\ Len(piece) = n /\ \A j \in 1..n : piece[j] = t[m + j]
    <3>1. piece \in [1..n -> Chars] /\ \A j \in 1..n : piece[j] = t[m + j]
      BY <2>1, <2>10 DEF PieceOf
    <3>2. piece \in Seq(Chars)
      BY <2>1, <3>1, SeqDef
    <3>3. DOMAIN piece = 1..n
      BY <3>1
    <3>4. Len(piece) = n
      BY <2>1, <3>2, <3>3, LenProperties
    <3> QED BY <3>1, <3>2, <3>4 DEF Text
  <2>12. ASSUME TextBegins, TextEnds(n) PROVE m = 0 /\ n = Len(t) /\ piece = t
    <3>1. m = 0
      BY <1>2, <1>3, <2>2, <2>12
    <3>2. n = Len(t)
      <4> SUFFICES ASSUME n < Len(t) PROVE FALSE
        BY <1>3, <2>1, <2>4, <3>1
      <4>1. n + 1 \in 1..(Len(t) - m) /\ pos + (n + 1) = pos + n + 1
        BY <1>3, <1>4, <2>1, <3>1
      <4>2. its[pos + n + 1].does = "text"
        BY <1>5, <4>1
      <4>3. pos + n = Len(its)
        BY <2>3, <2>12, <4>2
      <4> QED BY <1>3, <1>4, <1>5, <2>1, <3>1, <4>3
    <3>3. piece = t
      <4>1. \A j \in 1..n : piece[j] = t[j]
        BY <2>1, <2>11, <3>1
      <4>2. t \in Seq(Chars) /\ piece \in Seq(Chars)
        BY <2>11 DEF Text
      <4> QED BY <2>11, <3>2, <4>1, <4>2, SeqEqual
    <3> QED BY <3>1, <3>2, <3>3
  <2>5. (split => split') /\ (~split' => m = 0 /\ n = Len(t) /\ piece = t)
    BY <2>1, <2>12
  <2>6. Within(its, t, m + n, End(nm) \o s)'
    <3>1. m + n \in 0..Len(t) /\ m + n > 0 /\ pos' - (m + n) = pos - m /\ pos' \in Nat
      BY <1>3, <1>4, <2>1, <2>8
    <3>2. its[pos'].does = "text"
      BY <2>1, <2>9
    <3>3. ~split' => m + n = Len(t)
      BY <1>3, <2>5
    <3> HIDE DEF its
    <3> QED BY <1>2, <3>1, <3>2, <3>3 DEF Within
  <2>7. m + n \in Nat \ {0}
    BY <1>3, <2>8
  <2> HIDE DEF its
  <2> QED BY <2>5, <2>11, <2>6, <2>7 DEF Continued
<1> QED BY <1>2, <1>3, <1>4, <1>9, <1>10, <1>11

\* The title of an entry, up to its end
LEMMA FromInTitle ==
  ASSUME NEW k, NEW doc, Reading(k, doc), Handler, NEW m \in Nat, InTitle(k, doc, m)
  PROVE  Reads(k, doc)'
<1> DEFINE its == Items(k, doc)
<1>0. PICK e, t, rest : e = index + 1 /\ t = doc[e].title /\ rest = BodyFrom(k, doc, e)
  OBVIOUS
<1>1. k \in KindSet /\ k = kind /\ IsDocument(k, doc)
  BY HandlerItem
<1>2. /\ path = Base(k) \o <<"title">> /\ NoParts /\ Begun(k, doc) /\ "title" \in DOMAIN doc[e]
      /\ m > 0 => Titled(k, doc)
      /\ Within(its, t, m, End("title") \o rest)
  BY <1>0 DEF InTitle
<1>3. HasTexts(doc[e]) /\ rest \in Seq(Item) /\ t \in Text /\ "title" \in Names
      /\ index \in Nat /\ e \in 1..Len(doc)
  BY <1>0, <1>2, BegunFacts, TitleItems DEF Names
<1> HIDE DEF its
<1>4. /\ pos \in Nat /\ m \in 0..Len(t) /\ Len(t) \in Nat
      /\ EndElement => m = Len(t) /\ Lies(its, pos + 1, rest)
      /\ CharacterData =>
           \A n, piece : Delivered(n, piece) =>
             Continued(its, t, m, End("title") \o rest, n, piece)
      /\ EndElement \/ CharacterData
  BY <1>2, <1>3, FromText DEF its
<1>5. CASE EndElement
  <2>1. ~AtEntry(path) /\ ~In(path, <<"value">>) /\ ~In(path, <<"children">>)
        /\ Front(path) = Base(k)
    <3>1. <<"title">> # <<>> /\ <<"title">> # <<"value">> /\ <<"title">> # <<"children">>
      OBVIOUS
    <3> QED BY <1>1, <1>2, <3>1, LabelTuples, WherePath, PathSteps
  <2>2. path' = Base(k) /\ Quiet /\ pos' = pos + 1
    BY <1>5, <2>1, PlainEnd
  <2>3. Arrays' /\ Done(k, doc)' /\ index' = index /\ Begun(k, doc)' /\ NoParts'
    BY <1>2, <2>2, QuietStays DEF Reading
  <2>4. Titled(k, doc)'
    <3>1. CASE m > 0
      BY <1>2, <2>2, <3>1, QuietStays DEF Reading
    <3>2. CASE ~(m > 0)
      <4>1. Len(t) = 0
        BY <1>4, <1>5, <3>2
      <4>2. t = <<>>
        BY <1>3, <4>1, EmptySeq DEF Text
      <4> QED BY <1>0, <2>3, <4>2 DEF Titled, HasTitle
    <3> QED BY <3>1, <3>2
  <2>5. Lies(its, pos', BodyFrom(k, doc, index' + 1))
    BY <1>0, <1>4, <1>5, <2>2, <2>3
  <2>6. Place(k, doc)'
    BY <1>1, <2>2, <2>3, <2>4, <2>5, AfterTitle DEF its
  <2> QED BY <2>3, <2>6 DEF Reads
<1>6. CASE CharacterData
  <2>1. got \in Nat /\ Arrays /\ Done(k, doc)
    BY DEF Reading
  <2>2. PICK n, piece :
          /\ Delivered(n, piece)
          /\ ~IsChild(path) => /\ table' = TableWith(table, path, piece)
                               /\ cc' = ValuesWith(cc, path, piece)
                               /\ UNCHANGED <<children, chldIndex>>
    BY <1>4, <1>6, <2>1, PieceDelivered
  <2>3. /\ piece \in Text /\ m + n \in Nat \ {0} /\ (split => split')
        /\ Within(its, t, m + n, End("title") \o rest)'
        /\ ~split' => m = 0 /\ piece = t
    <3>1. Continued(its, t, m, End("title") \o rest, n, piece)
      BY <1>4, <1>6, <2>2, Zenon
    <3> QED BY <3>1 DEF Continued
  <2>4. path' = path /\ UNCHANGED <<index, ccIndex>> /\ split' \in BOOLEAN
    BY <2>2 DEF Delivered
  <2>5. /\ cc' = cc /\ UNCHANGED <<children, chldIndex>>
        /\ k = "coded" => table' = table
        /\ k # "coded" => Puts(table, table', index, "title", piece)
    BY <1>1, <1>2, <2>2, <2>3, TitleText
  <2>6. table \in Seq(Cell) /\ index < Len(table)
    BY <1>2, <2>1 DEF Arrays, Begun
  <2>7. /\ table' \in Seq(Cell) /\ Len(table') = Len(table) /\ Keeps(table, table', index)
        /\ table'[index + 1].code = table[index + 1].code
        /\ k # "coded" => table'[index + 1].title = piece
    <3>1. CASE k = "coded"
      <4>1. Keeps(table, table, index)
        BY <2>6 DEF Keeps
      <4> QED BY <2>5, <2>6, <3>1, <4>1
    <3>2. CASE k # "coded"
      <4>1. Puts(table, table', index, "title", piece)
        BY <2>5, <3>2
      <4>2. /\ table' \in Seq(Cell) /\ Len(table') = Len(table) /\ Keeps(table, table', index)
            /\ table'[index + 1]["title"] = piece
        BY <1>3, <2>3, <2>6, <4>1, CellStored
      <4>3. table'[index + 1]["code"] = table[index + 1]["code"]
        BY <1>3, <2>3, <2>6, <4>1, CellStored
      <4> QED BY <4>2, <4>3
    <3> QED BY <3>1, <3>2
  <2>8. Arrays'
    BY <2>1, <2>4, <2>5, <2>7 DEF Arrays
  <2>9. Done(k, doc)'
    BY <2>1, <2>3, <2>4, <2>7, DoneStays
  <2>10. NoParts' /\ Begun(k, doc)'
    BY <1>2, <2>4, <2>5, <2>7 DEF NoParts, Begun
  <2>11. Titled(k, doc)'
    BY <1>0, <2>3, <2>4, <2>7 DEF Titled
  <2>12. InTitle(k, doc, m + n)'
    BY <1>0, <1>2, <2>3, <2>4, <2>10, <2>11 DEF InTitle, its
  <2> QED BY <2>3, <2>8, <2>9, <2>12 DEF Reads, Place
<1> QED BY <1>4, <1>5, <1>6

\* The children of an entry
LEMMA FromBeforeChildren ==
  ASSUME NEW k, NEW doc, Reading(k, doc), Handler, BeforeChildren(k, doc)
  PROVE  Reads(k, doc)'
<1> DEFINE its == Items(k, doc)
           p == Base(k) \o <<"children">>
<1>0. PICK e, rest : e = index + 1 /\ rest = PartsFrom(k, doc, e, 1)
  OBVIOUS
<1>1. /\ k \in KindSet /\ k = kind /\ item = its[pos + 1]
      /\ item.does = "start" => StartElement
  BY HandlerItem
<1>2. /\ k \in Listed /\ path = Base(k) /\ NoParts /\ Begun(k, doc) /\ Titled(k, doc)
      /\ Lies(its, pos, Start("children", <<>>) \o rest)
  BY <1>0 DEF BeforeChildren, BodyFrom
<1>3. rest \in Seq(Item) /\ "children" \in Names /\ <<>> \in Text /\ IsEntry(k, doc[e])
  BY <1>0, <1>2, BegunFacts DEF Names, Text
<1> HIDE DEF its
<1>4. /\ its[pos + 1] = [does |-> "start", name |-> "children", text |-> <<>>]
      /\ Lies(its, pos + 1, rest) /\ pos + 1 <= Len(its) /\ Len(its) \in Nat /\ pos \in Nat
  BY <1>2, <1>3, StartAhead, Zenon
<1>5. StartElement
  BY <1>1, <1>4
<1>6. Append(path, "children") = p /\ ~AtEntry(p) /\ ~In(p, <<"value">>)
  <2>1. Append(path, "children") = p
    BY <1>1, <1>2, PathSteps
  <2>2. <<"children">> # <<>> /\ <<"children">> # <<"value">>
    OBVIOUS
  <2>3. ~AtEntry(p) /\ ~In(p, <<"value">>)
    BY <1>1, <2>2, LabelTuples, WherePath
  <2> QED BY <2>1, <2>3
<1>7. path' = p /\ pos' = pos + 1 /\ Quiet /\ Arrays' /\ Done(k, doc)' /\ index' = index
  BY <1>1, <1>4, <1>5, <1>6, PlainStartAt
<1>8. NoParts' /\ Begun(k, doc)' /\ Titled(k, doc)'
  BY <1>2, <1>7, QuietStays DEF Reading
<1>9. PartsDone(k, doc, 0)'
  BY <1>7, <1>8, NoneDone
<1>10. 0 \in 0..Len(doc[e].parts)
  BY <1>1, <1>3, PartListFacts
<1>11. AmongParts(k, doc, 0)'
  <2>1. Lies(its, pos', PartsFrom(k, doc, e, 0 + 1))
    BY <1>0, <1>4, <1>7
  <2> QED BY <1>0, <1>2, <1>7, <1>8, <1>9, <1>10, <2>1 DEF AmongParts, its
<1> QED BY <1>7, <1>11 DEF Reads, Place

\* An element ahead that starts with t, holds b and is followed by s
LEMMA ElementAhead ==
  ASSUME NEW its, NEW q, NEW nm \in Names, NEW t \in Text, NEW b \in Seq(Item), NEW s \in Seq(Item),
         Lies(its, q, (Start(nm, t) \o (b \o End(nm))) \o s)
  PROVE  /\ its[q + 1] = [does |-> "start", name |-> nm, text |-> t]
         /\ Lies(its, q + 1, b \o (End(nm) \o s))
         /\ q \in Nat /\ End(nm) \o s \in Seq(Item)
<1> DEFINE a == Start(nm, t)
           c == End(nm)
<1>1. a \in Seq(Item) /\ c \in Seq(Item)
  BY OneItem
<1>2. \A u, v, w \in Seq(Item) : (u \o v) \o w = u \o (v \o w)
  BY Associative, SMTT(40)
<1>3. \A u, v \in Seq(Item) : u \o v \in Seq(Item)
  BY ConcatProperties
<1> HIDE DEF a, c
<1>4. b \o c \in Seq(Item) /\ c \o s \in Seq(Item) /\ b \o (c \o s) \in Seq(Item)
  BY <1>1, <1>3
<1>5. (a \o (b \o c)) \o s = a \o ((b \o c) \o s)
  <2>1. a \in Seq(Item) /\ b \o c \in Seq(Item) /\ s \in Seq(Item)
    BY <1>1, <1>4
  <2> QED BY <1>2, <2>1, Zenon
<1>6. (b \o c) \o s = b \o (c \o s)
  BY <1>1, <1>2, Zenon
<1>7. PICK rest \in Seq(Item) : rest = b \o (c \o s)
  BY <1>4
<1>8. Lies(its, q, Start(nm, t) \o rest)
  BY <1>5, <1>6, <1>7, Zenon DEF a, c
<1>9. /\ its[q + 1] = [does |-> "start", name |-> nm, text |-> t]
      /\ Lies(its, q + 1, rest) /\ q + 1 <= Len(its) /\ Len(its) \in Nat /\ q \in Nat
  BY <1>8, StartAhead, Zenon
<1> QED BY <1>4, <1>7, <1>9 DEF c

\* A child ahead
LEMMA ChildAhead ==
  ASSUME NEW its, NEW q, NEW k \in KindSet, k \in Listed, NEW x, IsEntry(k, x), NEW p \in DOMAIN x.parts,
         NEW t, t = x.parts[p],
         NEW s \in Seq(Item), Lies(its, q, PartItems(k, t) \o s)
  PROVE  /\ its[q + 1] = [does |-> "start", name |-> "child", text |-> <<>>]
         /\ Lies(its, q + 1, Characters(t) \o (End("child") \o s))
         /\ t \in Text /\ q \in Nat
<1>1. t \in Text /\ PartItems(k, t) = Start("child", <<>>) \o (Characters(t) \o End("child"))
  BY PartFacts
<1>2. <<>> \in Text /\ "child" \in Names
  BY DEF Text, Names
<1>3. Characters(t) \in Seq(Item)
  BY <1>1, TextItems
<1>4. PICK b \in Seq(Item) : b = Characters(t)
  BY <1>3
<1>5. Lies(its, q, (Start("child", <<>>) \o (b \o End("child"))) \o s)
  BY <1>1, <1>4
<1>6. /\ its[q + 1] = [does |-> "start", name |-> "child", text |-> <<>>]
      /\ Lies(its, q + 1, b \o (End("child") \o s))
      /\ q \in Nat /\ End("child") \o s \in Seq(Item)
  BY <1>2, <1>5, ElementAhead, Zenon
<1> QED BY <1>1, <1>4, <1>6

\* A value ahead
IsValue(its, q, v, s) ==
  /\ its[q + 1] = [does |-> "start", name |-> "value", text |-> v.code]
  /\ Lies(its, q + 1, OptionalTitle(v) \o (End("value") \o s))
  /\ HasTexts(v) /\ v.code \in Text /\ q \in Nat
  /\ End("value") \o s \in Seq(Item)

\* A part of a coded element is a value.
LEMMA ValueAhead ==
  ASSUME NEW its, NEW q, NEW k \in KindSet, k = "coded", NEW x, IsEntry(k, x), NEW p \in DOMAIN x.parts,
         NEW v, v = x.parts[p],
         NEW s \in Seq(Item), Lies(its, q, PartItems(k, v) \o s)
  PROVE  IsValue(its, q, v, s)
<1>1. HasTexts(v) /\ PartItems(k, v) = Start("value", v.code) \o (OptionalTitle(v) \o End("value"))
  BY PartFacts
<1>2. v.code \in Text /\ OptionalTitle(v) \in Seq(Item)
  BY <1>1, TitleItems
<1>3. "value" \in Names
  BY DEF Names
<1>4. PICK b, t : b = OptionalTitle(v) /\ t = v.code
  OBVIOUS
<1>5. b \in Seq(Item) /\ t \in Text
  BY <1>2, <1>4
<1>6. Lies(its, q, (Start("value", t) \o (b \o End("value"))) \o s)
  BY <1>1, <1>4
<1>7. /\ its[q + 1] = [does |-> "start", name |-> "value", text |-> t]
      /\ Lies(its, q + 1, b \o (End("value") \o s))
      /\ q \in Nat /\ End("value") \o s \in Seq(Item)
  BY <1>3, <1>5, <1>6, ElementAhead, Zenon
<1> QED BY <1>1, <1>2, <1>4, <1>7 DEF IsValue

\* The parts of the entry that was begun
LEMMA BegunParts ==
  ASSUME NEW k, NEW doc, Reading(k, doc), Begun(k, doc), NEW e, e = index + 1
  PROVE  LET last == Len(doc[e].parts)
             rest == PartsEnd(k) \o EntriesFrom(k, doc, e + 1)
         IN  /\ k \in KindSet /\ e \in 1..Len(doc) /\ IsEntry(k, doc[e]) /\ index \in Nat
             /\ last \in Nat /\ DOMAIN doc[e].parts = 1..last
             /\ \A p \in 1..(last + 1) : PartsFrom(k, doc, e, p) \in Seq(Item)
             /\ PartsFrom(k, doc, e, last + 1) = rest
             /\ EntriesFrom(k, doc, e + 1) \in Seq(Item)
             /\ \A p \in 1..last : PartsFrom(k, doc, e, p)
                                      = PartItems(k, doc[e].parts[p]) \o PartsFrom(k, doc, e, p + 1)
<1>1. k \in KindSet
  BY DEF Reading, Setting
<1>2. /\ index \in Nat /\ e \in 1..Len(doc) /\ IsEntry(k, doc[e])
      /\ EntriesFrom(k, doc, e + 1) \in Seq(Item)
  BY BegunFacts
<1> QED BY <1>1, <1>2, PartsFromFacts

\* The part q of entry e, and what lies behind it
IsPart(k, doc, e, p, q) ==
  /\ q \in DOMAIN doc[e].parts /\ q \in 1..Len(doc[e].parts) /\ q - 1 = p /\ q \in Nat
  /\ IsEntry(k, doc[e]) /\ index \in Nat
  /\ PartsFrom(k, doc, e, q + 1) \in Seq(Item)
  /\ PartsFrom(k, doc, e, q) = PartItems(k, doc[e].parts[q]) \o PartsFrom(k, doc, e, q + 1)

\* There is one if not all of them were ended.
LEMMA PartAhead ==
  ASSUME NEW k, NEW doc, Reading(k, doc), Begun(k, doc), NEW e, e = index + 1,
         NEW p \in Nat, p < Len(doc[e].parts), NEW q, q = p + 1
  PROVE  IsPart(k, doc, e, p, q)
<1>1. PICK last : last = Len(doc[e].parts)
  OBVIOUS
<1>2. /\ last \in Nat /\ DOMAIN doc[e].parts = 1..last
      /\ \A j \in 1..(last + 1) : PartsFrom(k, doc, e, j) \in Seq(Item)
      /\ \A j \in 1..last :
           PartsFrom(k, doc, e, j) = PartItems(k, doc[e].parts[j]) \o PartsFrom(k, doc, e, j + 1)
      /\ IsEntry(k, doc[e]) /\ index \in Nat
  BY <1>1, BegunParts
<1>3. q \in 1..last /\ q + 1 \in 1..(last + 1) /\ q - 1 = p /\ q \in Nat
  <2>1. p < last
    BY <1>1
  <2> QED BY <1>2, <2>1
<1> QED BY <1>1, <1>2, <1>3 DEF IsPart

\* One more child of an entry
LEMMA ToChild ==
  ASSUME NEW k, NEW doc, Reading(k, doc), Handler, NEW p \in Nat, AmongParts(k, doc, p),
         p < Len(doc[index + 1].parts), k \in Listed
  PROVE  Reads(k, doc)'
<1> DEFINE its == Items(k, doc)
           w == Base(k) \o <<"children", "child">>
<1>0. PICK e, q : e = index + 1 /\ q = p + 1
  OBVIOUS
<1>1. /\ k \in KindSet /\ k = kind /\ item = its[pos + 1]
      /\ item.does = "start" => StartElement
  BY HandlerItem
<1>2. /\ path = Base(k) \o <<"children">>
      /\ Begun(k, doc) /\ Titled(k, doc) /\ PartsDone(k, doc, p)
      /\ Lies(its, pos, PartsFrom(k, doc, e, q))
  BY <1>0 DEF AmongParts
<1>3. /\ q \in DOMAIN doc[e].parts /\ q \in 1..Len(doc[e].parts) /\ q - 1 = p /\ q \in Nat
      /\ IsEntry(k, doc[e]) /\ index \in Nat
      /\ PartsFrom(k, doc, e, q + 1) \in Seq(Item)
      /\ PartsFrom(k, doc, e, q) = PartItems(k, doc[e].parts[q]) \o PartsFrom(k, doc, e, q + 1)
  <2>1. IsPart(k, doc, e, p, q)
    BY <1>0, <1>2, PartAhead
  <2> QED BY <2>1 DEF IsPart
<1>4. PICK rest \in Seq(Item) : rest = PartsFrom(k, doc, e, q + 1)
  BY <1>3
<1>5. PICK t : t = doc[e].parts[q]
  OBVIOUS
<1>6. Lies(its, pos, PartItems(k, t) \o rest)
  BY <1>2, <1>3, <1>4, <1>5
<1> HIDE DEF its
<1>7. /\ its[pos + 1] = [does |-> "start", name |-> "child", text |-> <<>>]
      /\ Lies(its, pos + 1, Characters(t) \o (End("child") \o rest))
      /\ t \in Text /\ pos \in Nat
  BY <1>1, <1>3, <1>5, <1>6, ChildAhead
<1>8. StartElement
  BY <1>1, <1>7
<1>9. Append(path, "child") = w /\ ~AtEntry(w) /\ ~In(w, <<"value">>)
  <2>1. Append(path, "child") = w
    BY <1>1, <1>2, PathSteps
  <2>2. <<"children", "child">> # <<>> /\ <<"children", "child">> # <<"value">>
    OBVIOUS
  <2>3. ~AtEntry(w) /\ ~In(w, <<"value">>)
    BY <1>1, <2>2, LabelTuples, WherePath
  <2> QED BY <2>1, <2>3
<1>10. path' = w /\ pos' = pos + 1 /\ Quiet /\ Arrays' /\ Done(k, doc)' /\ index' = index
  BY <1>1, <1>7, <1>8, <1>9, PlainStartAt
<1>11. Begun(k, doc)' /\ Titled(k, doc)' /\ PartsDone(k, doc, p)'
  BY <1>2, <1>10, QuietStays DEF Reading
<1>12. Within(its, t, 0, End("child") \o rest)'
  <2>1. 0 \in 0..Len(t) /\ pos' - 0 = pos + 1 /\ pos' \in Nat
    BY <1>7, <1>10, TextItems
  <2> QED BY <1>7, <1>10, <2>1 DEF Within
<1>13. InChild(k, doc, q, 0)'
  BY <1>0, <1>3, <1>4, <1>5, <1>10, <1>11, <1>12 DEF InChild, its
<1> QED BY <1>3, <1>10, <1>13 DEF Reads, Place

\* One more value of an entry
LEMMA ToValue ==
  ASSUME NEW k, NEW doc, Reading(k, doc), Handler, NEW p \in Nat, AmongParts(k, doc, p),
         p < Len(doc[index + 1].parts), k \notin Listed
  PROVE  Reads(k, doc)'
<1> DEFINE its == Items(k, doc)
           w == Base(k) \o <<"value">>
<1>0. PICK e, q : e = index + 1 /\ q = p + 1
  OBVIOUS
<1>1. /\ k \in KindSet /\ k = kind /\ item = its[pos + 1]
      /\ item.does = "start" => StartElement
  BY HandlerItem
<1>2. /\ path = Base(k)
      /\ Begun(k, doc) /\ Titled(k, doc) /\ PartsDone(k, doc, p)
      /\ Lies(its, pos, PartsFrom(k, doc, e, q))
  BY <1>0 DEF AmongParts
<1>3. /\ q \in DOMAIN doc[e].parts /\ q \in 1..Len(doc[e].parts) /\ q - 1 = p /\ q \in Nat
      /\ IsEntry(k, doc[e]) /\ index \in Nat
      /\ PartsFrom(k, doc, e, q + 1) \in Seq(Item)
      /\ PartsFrom(k, doc, e, q) = PartItems(k, doc[e].parts[q]) \o PartsFrom(k, doc, e, q + 1)
  <2>1. IsPart(k, doc, e, p, q)
    BY <1>0, <1>2, PartAhead
  <2> QED BY <2>1 DEF IsPart
<1>4. PICK rest \in Seq(Item) : rest = PartsFrom(k, doc, e, q + 1)
  BY <1>3
<1>5. PICK v : v = doc[e].parts[q]
  OBVIOUS
<1>6. Lies(its, pos, PartItems(k, v) \o rest)
  BY <1>2, <1>3, <1>4, <1>5
<1> HIDE DEF its
<1>7. k = "coded"
  BY <1>1, <1>3, PartFacts, BaseFacts DEF Listed
<1>8. /\ its[pos + 1] = [does |-> "start", name |-> "value", text |-> v.code]
      /\ Lies(its, pos + 1, OptionalTitle(v) \o (End("value") \o rest))
      /\ HasTexts(v) /\ v.code \in Text /\ pos \in Nat
      /\ End("value") \o rest \in Seq(Item)
  <2>1. IsValue(its, pos, v, rest)
    BY <1>1, <1>3, <1>5, <1>6, <1>7, ValueAhead
  <2> QED BY <2>1 DEF IsValue
<1>9. StartElement /\ item.name = "value" /\ item.text = v.code
  BY <1>1, <1>8
<1>10. /\ path' = w /\ pos' = pos + 1
       /\ UNCHANGED <<table, index, ccIndex, children, chldIndex, split>>
       /\ cc' \in Seq(Value) /\ ccIndex < Len(cc') /\ Keeps(cc, cc', ccIndex)
       /\ v.code # <<>> => cc'[ccIndex + 1].code = v.code
  BY <1>1, <1>2, <1>7, <1>8, <1>9, ValueStart DEF Reading
<1>11. Arrays' /\ Done(k, doc)'
  <2>1. Arrays /\ Done(k, doc)
    BY DEF Reading
  <2>2. Arrays'
    <3>1. Len(cc') \in Nat
      BY <1>10
    <3> QED BY <1>10, <2>1, <3>1 DEF Arrays
  <2>3. Done(k, doc)'
    BY <1>10, <2>1 DEF Done
  <2> QED BY <2>2, <2>3
<1>12. Begun(k, doc)'
  BY <1>2, <1>10 DEF Begun
<1>13. PartsDone(k, doc, p)'
  <2>1. ccIndex = p
    BY <1>2, <1>7 DEF PartsDone
  <2>2. \A j \in 1..p : cc'[j] = cc[j]
    BY <1>10, <2>1 DEF Keeps
  <2> QED BY <1>2, <1>7, <1>10, <2>1, <2>2 DEF PartsDone
<1>14. ValueBegun(doc, q)'
  BY <1>0, <1>5, <1>10 DEF ValueBegun
<1>15. CASE "title" \in DOMAIN v
  <2>1. ValueOpened(k, doc, q)'
    BY <1>0, <1>3, <1>4, <1>5, <1>7, <1>8, <1>10, <1>12, <1>13, <1>14, <1>15 DEF ValueOpened, its
  <2> QED BY <1>3, <1>11, <2>1 DEF Reads, Place
<1>16. CASE "title" \notin DOMAIN v
  <2>0. PICK s \in Seq(Item) : s = End("value") \o rest
    BY <1>8
  <2>1. Lies(its, pos + 1, s)
    BY <1>8, <1>16, <2>0, TitleAhead
  <2>2. ValueTitled(doc, q)'
    BY <1>0, <1>5, <1>10, <1>16 DEF ValueTitled, HasTitle
  <2>3. ValueEnding(k, doc, q)'
    BY <1>0, <1>3, <1>4, <1>5, <1>7, <1>10, <1>12, <1>13, <1>14, <2>0, <2>1, <2>2
       DEF ValueEnding, its
  <2> QED BY <1>3, <1>11, <2>3 DEF Reads, Place
<1> QED BY <1>15, <1>16

\* An entry that was ended is done if it is right.
LEMMA EntryDone ==
  ASSUME NEW k, NEW doc, Reading(k, doc), Begun(k, doc), NEW e, e = index + 1,
         path' = <<Base(k)[1]>>, pos' = pos + 1, index' = index + 1, NoParts', Arrays', split' = split,
         Keeps(table, table', index), EntryRight(k, doc[e], table'[e], split),
         Lies(Items(k, doc), pos + 1, EntriesFrom(k, doc, e + 1))
  PROVE  Reads(k, doc)'
<1>1. Done(k, doc) /\ index \in Nat /\ index < Len(doc) /\ Len(doc) \in Nat
  BY EntriesFromFacts DEF Reading, Setting, Arrays, Begun
<1>2. ASSUME NEW n \in 1..(index + 1) PROVE EntryRight(k, doc[n], table'[n], split')
  <2>1. CASE n = index + 1
    BY <2>1
  <2>2. CASE n \in 1..index
    <3>1. EntryRight(k, doc[n], table[n], split)
      BY <1>1, <2>2 DEF Done
    <3>2. table'[n] = table[n]
      BY <2>2 DEF Keeps
    <3> QED BY <3>1, <3>2
  <2> QED BY <1>1, <2>1, <2>2
<1>3. Done(k, doc)'
  BY <1>2 DEF Done
<1>4. Between(k, doc)'
  <2>1. index' <= Len(doc) /\ index' + 1 = e + 1
    BY <1>1
  <2> QED BY <2>1 DEF Between
<1> QED BY <1>3, <1>4 DEF Reads, Place

\* The end of an entry ahead
LEMMA EntryEndAhead ==
  ASSUME NEW k, NEW doc, Reading(k, doc), Handler, Begun(k, doc), NEW e, e = index + 1,
         Lies(Items(k, doc), pos, End(Base(k)[2]) \o EntriesFrom(k, doc, e + 1))
  PROVE  EndElement /\ Lies(Items(k, doc), pos + 1, EntriesFrom(k, doc, e + 1)) /\ k \in KindSet
<1>1. /\ k \in KindSet /\ k = kind /\ item = Items(k, doc)[pos + 1]
      /\ item.does = "end" => EndElement
  BY HandlerItem
<1>2. PICK s \in Seq(Item) : s = EntriesFrom(k, doc, e + 1)
  BY BegunFacts
<1>3. Base(k)[2] \in Names
  BY <1>1, BaseFacts
<1> DEFINE its == Items(k, doc)
<1> HIDE DEF its
<1>4. Lies(its, pos, End(Base(k)[2]) \o s)
  BY <1>2 DEF its
<1>5. /\ its[pos + 1].does = "end"
      /\ Lies(its, pos + 1, s) /\ pos + 1 <= Len(its) /\ Len(its) \in Nat /\ pos \in Nat
  BY <1>3, <1>4, EndAhead, Zenon
<1> QED BY <1>1, <1>2, <1>5 DEF its

\* The end of an entry with a list
LEMMA FromBehindChildren ==
  ASSUME NEW k, NEW doc, Reading(k, doc), Handler, BehindChildren(k, doc)
  PROVE  Reads(k, doc)'
<1>0. PICK e : e = index + 1
  OBVIOUS
<1>1. /\ k \in Listed /\ path = Base(k) /\ NoParts /\ Begun(k, doc) /\ Titled(k, doc) /\ ListRight(doc)
      /\ Lies(Items(k, doc), pos, End(Base(k)[2]) \o EntriesFrom(k, doc, e + 1))
  <2>1. index \in Nat /\ index + 2 = e + 1
    BY <1>0 DEF Reading, Arrays
  <2> QED BY <2>1 DEF BehindChildren
<1>2. EndElement /\ Lies(Items(k, doc), pos + 1, EntriesFrom(k, doc, e + 1)) /\ k \in KindSet
  BY <1>0, <1>1, EntryEndAhead
<1>3. k = kind /\ k # "coded" /\ k # "elems"
  BY <1>1 DEF Reading, Setting, Listed
<1>4. /\ path' = <<Base(k)[1]>> /\ pos' = pos + 1 /\ index' = index + 1
      /\ UNCHANGED <<children, chldIndex, split, table, cc, ccIndex>>
  BY <1>1, <1>2, <1>3, EntryEnd
<1>5. NoParts' /\ Arrays'
  <2>1. Arrays /\ index < Len(table)
    BY <1>1 DEF Reading, Begun
  <2>2. NoParts'
    BY <1>1, <1>4 DEF NoParts
  <2>3. Arrays'
    BY <1>4, <2>1 DEF Arrays
  <2> QED BY <2>2, <2>3
<1>6. Keeps(table, table', index)
  BY <1>4 DEF Keeps, Reading, Arrays
<1>7. EntryRight(k, doc[e], table[e], split)
  <2>1. /\ doc[e].code # <<>> => table[e].code = doc[e].code
        /\ ~split /\ HasTitle(doc[e]) => table[e].title = doc[e].title
        /\ table[e].parts \in Seq(Text \union {NULL})
        /\ ~split /\ (\A q \in DOMAIN doc[e].parts : doc[e].parts[q] # <<>>) =>
             table[e].parts = Append(doc[e].parts, NULL)
    BY <1>0, <1>1, <1>3 DEF Begun, Titled, ListRight
  <2>2. ASSUME Complete(k, doc[e]), ~split PROVE Read(k, table[e]) = Written(k, doc[e])
    <3>1. /\ doc[e].code # <<>> /\ HasTitle(doc[e])
          /\ \A q \in DOMAIN doc[e].parts : doc[e].parts[q] # <<>>
      BY <1>3, <2>2 DEF Complete, Named, HasTitle
    <3>2. /\ table[e].code = doc[e].code /\ table[e].title = doc[e].title
          /\ table[e].parts = Append(doc[e].parts, NULL)
      BY <2>1, <2>2, <3>1
    <3> QED BY <1>3, <3>2 DEF Read, Written
  <2>3. IsEntry(k, doc[e])
    BY <1>0, <1>1, BegunFacts
  <2> QED BY <1>1, <1>3, <2>1, <2>2, <2>3 DEF EntryRight
<1> QED BY <1>0, <1>1, <1>2, <1>4, <1>5, <1>6, <1>7, EntryDone

\* The last part of an entry that has no list
LEMMA FromLastValue ==
  ASSUME NEW k, NEW doc, Reading(k, doc), Handler, NEW p \in Nat, AmongParts(k, doc, p),
         p = Len(doc[index + 1].parts), k \notin Listed
  PROVE  Reads(k, doc)'
<1>0. PICK e : e = index + 1
  OBVIOUS
<1>1. /\ path = Base(k)
      /\ Begun(k, doc) /\ Titled(k, doc) /\ PartsDone(k, doc, p)
      /\ Lies(Items(k, doc), pos, PartsFrom(k, doc, e, p + 1))
  BY <1>0 DEF AmongParts
<1>2. /\ k \in KindSet /\ IsEntry(k, doc[e]) /\ index \in Nat
      /\ DOMAIN doc[e].parts = 1..p
      /\ PartsFrom(k, doc, e, p + 1) = End(Base(k)[2]) \o EntriesFrom(k, doc, e + 1)
  BY <1>0, <1>1, BegunParts DEF PartsEnd
<1>3. EndElement /\ Lies(Items(k, doc), pos + 1, EntriesFrom(k, doc, e + 1))
  BY <1>0, <1>1, <1>2, EntryEndAhead
<1>4. k = kind /\ Arrays /\ index < Len(table)
  BY <1>1 DEF Reading, Setting, Begun
<1>5. /\ path' = <<Base(k)[1]>> /\ pos' = pos + 1 /\ index' = index + 1
      /\ UNCHANGED <<children, chldIndex, split>>
      /\ k # "coded" => UNCHANGED <<table, cc, ccIndex>>
      /\ k = "coded" => /\ table' = Linked(table, SubSeq(cc, 1, ccIndex))
                        /\ cc' = <<>> /\ ccIndex' = 0
  BY <1>1, <1>2, <1>3, <1>4, EntryEnd
<1>6. doc[e].code # <<>> => table[e].code = doc[e].code
  BY <1>0, <1>1 DEF Begun
<1>7. CASE k # "coded"
  <2>1. k = "elems"
    BY <1>2, <1>7, BaseFacts DEF Listed
  <2>2. NoParts' /\ Arrays'
    <3>1. NoParts'
      BY <1>1, <1>5, <1>7 DEF NoParts, PartsDone
    <3>2. Arrays'
      BY <1>4, <1>5, <1>7 DEF Arrays
    <3> QED BY <3>1, <3>2
  <2>3. Keeps(table, table', index)
    BY <1>4, <1>5, <1>7 DEF Keeps, Arrays
  <2>4. EntryRight(k, doc[e], table[e], split)
    <3>1. ~split /\ HasTitle(doc[e]) => table[e].title = doc[e].title
      BY <1>0, <1>1, <1>7 DEF Titled
    <3>2. ASSUME Complete(k, doc[e]), ~split PROVE Read(k, table[e]) = Written(k, doc[e])
      <4>1. doc[e].code # <<>> /\ HasTitle(doc[e])
        BY <3>2 DEF Complete, Named, HasTitle
      <4> QED BY <1>6, <2>1, <3>1, <3>2, <4>1 DEF Read, Written
    <3> QED BY <1>2, <1>6, <2>1, <3>2 DEF EntryRight, Listed
  <2> QED BY <1>0, <1>1, <1>3, <1>5, <1>7, <2>2, <2>3, <2>4, EntryDone
<1>8. CASE k = "coded"
  <2> DEFINE array == SubSeq(cc, 1, ccIndex)
  <2>1. cc \in Seq(Value) /\ ccIndex = p /\ p <= Len(cc) /\ table \in Seq(Cell)
    BY <1>1, <1>4, <1>8 DEF Arrays, PartsDone
  <2>2. array \in Seq(Value) /\ DOMAIN array = 1..p /\ \A v \in 1..p : array[v] = cc[v]
    <3>1. \A j \in 1..p : cc[j] \in Value
      BY <2>1, ElementOfSequence
    <3>2. array = [v \in 1..p |-> cc[v]]
      BY <2>1
    <3> QED BY <2>1, <3>1, <3>2, SeqDef
  <2> HIDE DEF array
  <2>3. array \in Lists
    BY <2>2 DEF Lists
  <2>4. PICK t : t = Linked(table, array)
    OBVIOUS
  <2>5. /\ t \in Seq(Cell) /\ Len(t) = Len(table) /\ Keeps(table, t, index)
        /\ t[index + 1].parts = array
        /\ t[index + 1].code = table[index + 1].code
        /\ t[index + 1].title = table[index + 1].title
    BY <1>2, <1>4, <2>1, <2>3, <2>4, ListLinked
  <2>6. table' = t
    BY <1>5, <1>8, <2>4 DEF array
  <2>7. NoParts' /\ Arrays'
    <3>1. NoParts'
      BY <1>1, <1>5, <1>8 DEF NoParts, PartsDone, Listed
    <3>2. <<>> \in Seq(Value) /\ Len(<<>>) = 0
      OBVIOUS
    <3>3. Arrays'
      BY <1>2, <1>4, <1>5, <1>8, <2>5, <2>6, <3>2 DEF Arrays
    <3> QED BY <3>1, <3>3
  <2>8. t[e].code = table[e].code /\ t[e].parts = array
    BY <1>0, <2>5
  <2>9. \A v \in 1..p :
          /\ doc[e].parts[v].code # <<>> => array[v].code = doc[e].parts[v].code
          /\ ~split /\ HasTitle(doc[e].parts[v]) => array[v].title = doc[e].parts[v].title
    BY <1>0, <1>1, <1>8, <2>2 DEF PartsDone
  <2>10. EntryRight(k, doc[e], t[e], split)
    <3>1. ASSUME Complete(k, doc[e]), ~split PROVE Read(k, t[e]) = Written(k, doc[e])
      <4>1. doc[e].code # <<>>
            /\ \A v \in 1..p : doc[e].parts[v].code # <<>> /\ HasTitle(doc[e].parts[v])
        BY <1>2, <1>8, <3>1 DEF Complete, Named, HasTitle
      <4>2. \A v \in 1..p : /\ array[v].code = doc[e].parts[v].code
                            /\ array[v].title = doc[e].parts[v].title
        BY <2>9, <3>1, <4>1
      <4>3. [v \in DOMAIN array |-> <<array[v].code, array[v].title>>]
            = [v \in DOMAIN doc[e].parts |-> <<doc[e].parts[v].code, doc[e].parts[v].title>>]
        BY <1>2, <2>2, <4>2
      <4>4. t[e].code = doc[e].code
        BY <1>6, <2>8, <4>1
      <4> QED BY <1>8, <2>8, <4>3, <4>4 DEF Read, Written
    <3> QED BY <1>2, <1>6, <1>8, <2>2, <2>8, <2>9, <3>1 DEF EntryRight, Listed
  <2> QED BY <1>0, <1>1, <1>3, <1>5, <2>5, <2>6, <2>7, <2>10, EntryDone
<1> QED BY <1>7, <1>8

\* The end of a list ahead, and behind it the end of its entry
LEMMA ListEndAhead ==
  ASSUME NEW its, NEW q, NEW k \in KindSet, k \in Listed, NEW s \in Seq(Item),
         Lies(its, q, PartsEnd(k) \o s)
  PROVE  /\ its[q + 1].does = "end" /\ q \in Nat
         /\ Lies(its, q + 1, End(Base(k)[2]) \o s)
<1> DEFINE a == End("children")
           b == End(Base(k)[2])
<1>1. a \in Seq(Item) /\ b \in Seq(Item) /\ PartsEnd(k) = a \o b
  BY EndFacts DEF PartsEnd
<1>2. \A u, v, w \in Seq(Item) : (u \o v) \o w = u \o (v \o w)
  BY Associative, SMTT(40)
<1>3. \A u, v \in Seq(Item) : u \o v \in Seq(Item)
  BY ConcatProperties
<1> HIDE DEF a, b
<1>4. (a \o b) \o s = a \o (b \o s)
  BY <1>1, <1>2, Zenon
<1>5. PICK rest \in Seq(Item) : rest = b \o s
  BY <1>1, <1>3
<1>6. Lies(its, q, End("children") \o rest)
  BY <1>1, <1>4, <1>5, Zenon DEF a
<1>7. "children" \in Names
  BY DEF Names
<1>8. /\ its[q + 1].does = "end"
      /\ Lies(its, q + 1, rest) /\ q + 1 <= Len(its) /\ Len(its) \in Nat /\ q \in Nat
  BY <1>6, <1>7, EndAhead, Zenon
<1> QED BY <1>5, <1>8 DEF b

\* The end of a list
LEMMA FromLastChild ==
  ASSUME NEW k, NEW doc, Reading(k, doc), Handler, NEW p \in Nat, AmongParts(k, doc, p),
         p = Len(doc[index + 1].parts), k \in Listed
  PROVE  Reads(k, doc)'
<1>0. PICK e : e = index + 1
  OBVIOUS
<1>1. /\ path = Base(k) \o <<"children">>
      /\ Begun(k, doc) /\ Titled(k, doc) /\ PartsDone(k, doc, p)
      /\ Lies(Items(k, doc), pos, PartsFrom(k, doc, e, p + 1))
  BY <1>0 DEF AmongParts
<1>2. /\ k \in KindSet /\ IsEntry(k, doc[e]) /\ index \in Nat
      /\ DOMAIN doc[e].parts = 1..p
      /\ PartsFrom(k, doc, e, p + 1) = PartsEnd(k) \o EntriesFrom(k, doc, e + 1)
      /\ EntriesFrom(k, doc, e + 1) \in Seq(Item)
  BY <1>0, <1>1, BegunParts
<1>3. PICK s \in Seq(Item) : s = EntriesFrom(k, doc, e + 1)
  BY <1>2
<1>4. /\ k = kind /\ Arrays /\ Done(k, doc) /\ index < Len(table)
      /\ item = Items(k, doc)[pos + 1]
      /\ item.does = "end" => EndElement
  BY <1>1, HandlerItem DEF Reading, Begun
<1> DEFINE its == Items(k, doc)
<1> HIDE DEF its
<1>5. /\ its[pos + 1].does = "end" /\ pos \in Nat
      /\ Lies(its, pos + 1, End(Base(k)[2]) \o s)
  <2>1. Lies(its, pos, PartsEnd(k) \o s)
    BY <1>1, <1>2, <1>3 DEF its
  <2> QED BY <1>2, <2>1, ListEndAhead
<1>6. EndElement
  BY <1>4, <1>5 DEF its
<1>7. PICK array : array = Append(children, NULL)
  OBVIOUS
<1>8. /\ path' = Base(k) /\ pos' = pos + 1
      /\ UNCHANGED <<index, cc, ccIndex, split>>
      /\ children' = <<>> /\ chldIndex' = 0
      /\ table' = Linked(table, array)
  BY <1>1, <1>2, <1>4, <1>6, <1>7, ChildrenEnd
<1>9. array \in Seq(Text \union {NULL}) /\ array \in Lists
  <2>1. children \in Seq(Text)
    BY <1>4 DEF Arrays
  <2>2. children \in Seq(Text \union {NULL})
    <3>1. \A j \in 1..Len(children) : children[j] \in Text
      BY <2>1, ElementOfSequence
    <3> QED BY <2>1, <3>1, SeqDef
  <2>3. array \in Seq(Text \union {NULL})
    BY <1>7, <2>2
  <2> QED BY <2>3 DEF Lists
<1>10. /\ table' \in Seq(Cell) /\ Len(table') = Len(table) /\ Keeps(table, table', index)
       /\ table'[index + 1].parts = array
       /\ table'[index + 1].code = table[index + 1].code
       /\ table'[index + 1].title = table[index + 1].title
  <2>1. table \in Seq(Cell)
    BY <1>4 DEF Arrays
  <2> QED BY <1>2, <1>4, <1>8, <1>9, <2>1, ListLinked
<1>11. Arrays' /\ NoParts'
  <2>1. <<>> \in Seq(Text) /\ Len(<<>>) = 0
    OBVIOUS
  <2>2. NoParts'
    BY <1>1, <1>8 DEF NoParts, PartsDone, Listed
  <2>3. Arrays'
    BY <1>4, <1>8, <1>10, <2>1 DEF Arrays
  <2> QED BY <2>2, <2>3
<1>12. Done(k, doc)'
  BY <1>4, <1>8, <1>10, DoneStays
<1>13. Begun(k, doc)' /\ Titled(k, doc)'
  BY <1>1, <1>8, <1>10 DEF Begun, Titled
<1>14. ListRight(doc)'
  <2>1. ASSUME ~split, \A q \in 1..p : doc[e].parts[q] # <<>>
        PROVE  array = Append(doc[e].parts, NULL)
    <3>1. Len(children) = p /\ \A q \in 1..p : children[q] = doc[e].parts[q]
      BY <1>0, <1>1, <2>1 DEF PartsDone
    <3>2. children \in Seq(Text)
      BY <1>4 DEF Arrays
    <3>3. doc[e].parts \in Seq(Text)
      <4>1. \A q \in 1..p : doc[e].parts[q] \in Text
        BY <1>2, PartFacts
      <4>2. IsSeq(doc[e].parts)
        BY <1>2 DEF IsEntry
      <4>3. PICK x : x = doc[e].parts
        OBVIOUS
      <4>4. x \in Seq({x[n] : n \in DOMAIN x}) /\ DOMAIN x = 1..p /\ \A q \in 1..p : x[q] \in Text
        BY <1>2, <4>1, <4>2, <4>3 DEF IsSeq
      <4>5. x = [n \in 1..p |-> x[n]]
        BY <4>4
      <4>6. x \in [1..p -> Text]
        BY <4>4, <4>5
      <4>7. x \in Seq(Text)
        BY <4>6, SeqDef
      <4> QED BY <4>3, <4>7
    <3>4. children = doc[e].parts
      BY <1>0, <3>1, <3>2, <3>3, SeqEqual
    <3> QED BY <1>7, <3>4
  <2>2. table'[index + 1].parts \in Seq(Text \union {NULL})
    BY <1>9, <1>10
  <2> QED BY <1>0, <1>2, <1>8, <1>10, <2>1, <2>2 DEF ListRight
<1>15. BehindChildren(k, doc)'
  <2>1. index' + 2 = e + 1
    BY <1>0, <1>2, <1>8
  <2>2. Lies(its, pos', End(Base(k)[2]) \o EntriesFrom(k, doc, index' + 2))
    BY <1>3, <1>5, <1>8, <2>1
  <2> QED BY <1>8, <1>11, <1>13, <1>14, <2>2 DEF BehindChildren, its
<1> QED BY <1>11, <1>12, <1>15 DEF Reads, Place

\* The parts of an entry, one more or no more
LEMMA FromAmongParts ==
  ASSUME NEW k, NEW doc, Reading(k, doc), Handler, NEW p \in Nat, AmongParts(k, doc, p)
  PROVE  Reads(k, doc)'
<1>1. PICK last : last = Len(doc[index + 1].parts)
  OBVIOUS
<1>2. p \in 0..last /\ last \in Nat
  <2>1. Begun(k, doc)
    BY DEF AmongParts
  <2>2. last \in Nat
    BY <1>1, <2>1, BegunParts
  <2> QED BY <1>1, <2>2 DEF AmongParts
<1>3. CASE p < last
  BY <1>1, <1>3, ToChild, ToValue
<1>4. CASE p = last
  BY <1>1, <1>4, FromLastChild, FromLastValue
<1> QED BY <1>2, <1>3, <1>4

\* A child, up to its end
LEMMA FromInChild ==
  ASSUME NEW k, NEW doc, Reading(k, doc), Handler, NEW q \in Nat, NEW m \in Nat, InChild(k, doc, q, m)
  PROVE  Reads(k, doc)'
<1> DEFINE its == Items(k, doc)
<1>0. PICK e, t, rest :
        e = index + 1 /\ t = doc[e].parts[q] /\ rest = PartsFrom(k, doc, e, q + 1)
  OBVIOUS
<1>1. /\ k \in KindSet /\ k = kind /\ k \in Listed
      /\ Arrays /\ Done(k, doc) /\ got \in Nat
  BY HandlerItem DEF Reading, InChild
<1>2. /\ path = Base(k) \o <<"children", "child">>
      /\ Begun(k, doc) /\ Titled(k, doc) /\ q \in 1..Len(doc[e].parts)
      /\ PartsDone(k, doc, IF m = 0 THEN q - 1 ELSE q)
      /\ Within(its, t, m, End("child") \o rest)
  BY <1>0 DEF InChild
<1>3. /\ t \in Text /\ rest \in Seq(Item) /\ "child" \in Names /\ index \in Nat
      /\ q \in 1..Len(doc[e].parts) /\ q \in 0..Len(doc[e].parts)
  <2>1. /\ IsEntry(k, doc[e]) /\ Len(doc[e].parts) \in Nat
        /\ DOMAIN doc[e].parts = 1..Len(doc[e].parts)
        /\ \A j \in 1..(Len(doc[e].parts) + 1) : PartsFrom(k, doc, e, j) \in Seq(Item)
        /\ index \in Nat
    BY <1>0, <1>2, BegunParts
  <2>2. q + 1 \in 1..(Len(doc[e].parts) + 1) /\ q \in 0..Len(doc[e].parts)
    BY <1>2, <2>1
  <2>3. t \in Text
    BY <1>0, <1>1, <1>2, <2>1, PartFacts
  <2>4. "child" \in Names
    BY DEF Names
  <2> QED BY <1>0, <1>2, <2>1, <2>2, <2>3, <2>4
<1> HIDE DEF its
<1>4. /\ pos \in Nat /\ m \in 0..Len(t) /\ Len(t) \in Nat
      /\ EndElement => m = Len(t) /\ Lies(its, pos + 1, rest)
      /\ CharacterData =>
           \A n, piece : Delivered(n, piece) =>
             Continued(its, t, m, End("child") \o rest, n, piece)
      /\ EndElement \/ CharacterData
  BY <1>2, <1>3, FromText DEF its
<1>5. CASE EndElement
  <2>1. ~AtEntry(path) /\ ~In(path, <<"value">>) /\ ~In(path, <<"children">>)
        /\ Front(path) = Base(k) \o <<"children">>
    <3>1. <<"children", "child">> # <<>> /\ <<"children", "child">> # <<"value">>
          /\ <<"children", "child">> # <<"children">>
      OBVIOUS
    <3> QED BY <1>1, <1>2, <3>1, LabelTuples, WherePath, PathSteps
  <2>2. path' = Base(k) \o <<"children">> /\ Quiet /\ pos' = pos + 1
    BY <1>5, <2>1, PlainEnd
  <2>3. Arrays' /\ Done(k, doc)' /\ index' = index /\ Begun(k, doc)' /\ Titled(k, doc)'
    BY <1>1, <1>2, <2>2, QuietStays
  <2>4. PartsDone(k, doc, q)
    <3>1. CASE m = 0
      <4>1. Len(t) = 0
        BY <1>4, <1>5, <3>1
      <4>2. t = <<>>
        BY <1>3, <4>1, EmptySeq DEF Text
      <4>3. q \in 1..q /\ doc[index + 1].parts[q] = <<>>
        BY <1>0, <1>2, <4>2
      <4>4. ~ \A j \in 1..q : doc[index + 1].parts[j] # <<>>
        BY <4>3
      <4>5. ccIndex = 0 /\ k # "coded"
        BY <1>1, <1>2 DEF PartsDone, Listed
      <4> QED BY <1>1, <4>4, <4>5 DEF PartsDone
    <3>2. CASE m # 0
      BY <1>2, <3>2
    <3> QED BY <3>1, <3>2
  <2>5. PartsDone(k, doc, q)'
    BY <1>1, <2>2, <2>4, QuietStays
  <2>6. AmongParts(k, doc, q)'
    BY <1>0, <1>1, <1>3, <1>4, <1>5, <2>2, <2>3, <2>5 DEF AmongParts, its
  <2> QED BY <2>3, <2>6 DEF Reads, Place
<1>6. CASE CharacterData
  <2>1. IsChild(path)
    BY <1>1, <1>2, LabelTuples, WherePath
  <2>2. PICK n, piece :
          /\ Delivered(n, piece)
          /\ children' = WithChild(piece) /\ chldIndex' = chldIndex + 1
          /\ table' = Linked(table, children') /\ cc' = cc
    BY <1>1, <1>4, <1>6, <2>1, PieceDelivered
  <2>3. /\ piece \in Text /\ m + n \in Nat \ {0} /\ (split => split')
        /\ Within(its, t, m + n, End("child") \o rest)'
        /\ ~split' => m = 0 /\ piece = t
    <3>1. Continued(its, t, m, End("child") \o rest, n, piece)
      BY <1>4, <1>6, <2>2, Zenon
    <3> QED BY <3>1 DEF Continued
  <2>4. path' = path /\ UNCHANGED <<index, ccIndex>> /\ split' \in BOOLEAN
    BY <2>2 DEF Delivered
  <2>5. PICK array : array = children'
    OBVIOUS
  <2>6. /\ array \in Seq(Text) /\ Len(array) = Len(children) + 1 /\ Len(children) \in Nat
        /\ array[Len(children) + 1] = piece
        /\ \A j \in 1..Len(children) : array[j] = children[j]
    <3>1. children \in Seq(Text) /\ chldIndex = Len(children)
      BY <1>1 DEF Arrays
    <3>2. array = Append(children, piece)
      BY <2>2, <2>5, <3>1, SubSeqFull DEF WithChild
    <3> QED BY <2>3, <3>1, <3>2
  <2>7. array \in Lists
    <3>1. \A j \in 1..Len(array) : array[j] \in Text
      BY <2>6, ElementOfSequence
    <3>2. array \in Seq(Text \union {NULL})
      BY <2>6, <3>1, SeqDef
    <3> QED BY <3>2 DEF Lists
  <2>8. /\ table' \in Seq(Cell) /\ Len(table') = Len(table) /\ Keeps(table, table', index)
        /\ table'[index + 1].code = table[index + 1].code
        /\ table'[index + 1].title = table[index + 1].title
    <3>1. table \in Seq(Cell) /\ index < Len(table)
      BY <1>1, <1>2 DEF Arrays, Begun
    <3>2. table' = Linked(table, array)
      BY <2>2, <2>5
    <3> QED BY <1>3, <2>7, <3>1, <3>2, ListLinked
  <2>9. Arrays'
    BY <1>1, <2>2, <2>4, <2>5, <2>6, <2>8 DEF Arrays
  <2>10. Done(k, doc)'
    BY <1>1, <2>3, <2>4, <2>8, DoneStays
  <2>11. Begun(k, doc)' /\ Titled(k, doc)'
    BY <1>2, <2>3, <2>4, <2>8 DEF Begun, Titled
  <2>12. PartsDone(k, doc, q)'
    <3>1. ccIndex' = 0 /\ k # "coded"
      BY <1>1, <1>2, <2>4 DEF PartsDone, Listed
    <3>2. ASSUME ~split', \A j \in 1..q : doc[index + 1].parts[j] # <<>>
          PROVE  Len(array) = q /\ \A j \in 1..q : array[j] = doc[index + 1].parts[j]
      <4>1. m = 0 /\ piece = t /\ ~split
        BY <2>3, <3>2
      <4>2. PartsDone(k, doc, q - 1)
        BY <1>2, <4>1
      <4>3. q - 1 \in Nat /\ (q - 1) + 1 = q /\ \A j \in 1..(q - 1) : j \in 1..q
        BY <1>3
      <4>4. Len(children) = q - 1 /\ \A j \in 1..(q - 1) : children[j] = doc[index + 1].parts[j]
        BY <1>1, <3>2, <4>1, <4>2, <4>3 DEF PartsDone
      <4>5. \A j \in 1..q : j \in 1..(q - 1) \/ j = q
        BY <4>3
      <4> QED BY <1>0, <2>6, <4>1, <4>3, <4>4, <4>5
    <3> QED BY <1>1, <2>4, <2>5, <3>1, <3>2 DEF PartsDone
  <2>13. InChild(k, doc, q, m + n)'
    BY <1>0, <1>1, <1>2, <2>3, <2>4, <2>11, <2>12 DEF InChild, its
  <2> QED BY <2>3, <2>9, <2>10, <2>13 DEF Reads, Place
<1> QED BY <1>4, <1>5, <1>6

\* What lies behind the title of a value
LEMMA ValueRest ==
  ASSUME NEW k, NEW doc, Reading(k, doc), Begun(k, doc), k = "coded", NEW e, e = index + 1,
         NEW q \in 1..Len(doc[e].parts)
  PROVE  /\ HasTexts(doc[e].parts[q]) /\ index \in Nat /\ q \in Nat \ {0}
         /\ PartsFrom(k, doc, e, q + 1) \in Seq(Item)
         /\ End("value") \o PartsFrom(k, doc, e, q + 1) \in Seq(Item)
<1>1. PICK last : last = Len(doc[e].parts)
  OBVIOUS
<1>2. /\ k \in KindSet /\ IsEntry(k, doc[e]) /\ last \in Nat /\ index \in Nat
      /\ DOMAIN doc[e].parts = 1..last
      /\ \A j \in 1..(last + 1) : PartsFrom(k, doc, e, j) \in Seq(Item)
  BY <1>1, BegunParts
<1>3. q + 1 \in 1..(last + 1) /\ q \in 1..last /\ q \in Nat \ {0}
  BY <1>1, <1>2
<1>4. PartsFrom(k, doc, e, q + 1) \in Seq(Item)
  BY <1>2, <1>3
<1>5. HasTexts(doc[e].parts[q])
  BY <1>2, <1>3, PartFacts
<1>6. "value" \in Names /\ <<>> \in Text
  BY DEF Names, Text
<1>7. End("value") \in Seq(Item)
  BY <1>6, OneItem
<1>8. End("value") \o PartsFrom(k, doc, e, q + 1) \in Seq(Item)
  BY <1>4, <1>7, ConcatProperties
<1> QED BY <1>2, <1>3, <1>4, <1>5, <1>8

\* The title of a value that has one
LEMMA FromValueOpened ==
  ASSUME NEW k, NEW doc, Reading(k, doc), Handler, NEW q \in Nat, ValueOpened(k, doc, q)
  PROVE  Reads(k, doc)'
<1> DEFINE its == Items(k, doc)
           w == Base(k) \o <<"value", "title">>
<1>0. PICK e, v, t : e = index + 1 /\ v = doc[e].parts[q] /\ t = v.title
  OBVIOUS
<1>1. /\ k \in KindSet /\ k = kind /\ k = "coded" /\ item = its[pos + 1]
      /\ item.does = "start" => StartElement
  BY HandlerItem DEF ValueOpened
<1>2. /\ path = Base(k) \o <<"value">>
      /\ Begun(k, doc) /\ q \in 1..Len(doc[e].parts) /\ PartsDone(k, doc, q - 1)
      /\ ValueBegun(doc, q) /\ "title" \in DOMAIN v
      /\ Lies(its, pos, OptionalTitle(v) \o (End("value") \o PartsFrom(k, doc, e, q + 1)))
  BY <1>0 DEF ValueOpened
<1>3. HasTexts(v) /\ End("value") \o PartsFrom(k, doc, e, q + 1) \in Seq(Item) /\ q - 1 \in Nat
  BY <1>0, <1>1, <1>2, ValueRest
<1>4. PICK rest \in Seq(Item) : rest = End("value") \o PartsFrom(k, doc, e, q + 1)
  BY <1>3
<1> HIDE DEF its
<1>5. Lies(its, pos, OptionalTitle(v) \o rest)
  BY <1>2, <1>4
<1>6. /\ its[pos + 1] = [does |-> "start", name |-> "title", text |-> <<>>]
      /\ Lies(its, pos + 1, Characters(t) \o (End("title") \o rest))
      /\ t \in Text /\ pos \in Nat
  BY <1>0, <1>2, <1>3, <1>5, TitleAhead
<1>7. StartElement
  BY <1>1, <1>6
<1>8. Append(path, "title") = w /\ ~AtEntry(w) /\ ~In(w, <<"value">>)
  <2>1. Append(path, "title") = w
    BY <1>1, <1>2, PathSteps
  <2>2. <<"value", "title">> # <<>> /\ <<"value", "title">> # <<"value">>
    OBVIOUS
  <2>3. ~AtEntry(w) /\ ~In(w, <<"value">>)
    BY <1>1, <2>2, LabelTuples, WherePath
  <2> QED BY <2>1, <2>3
<1>9. path' = w /\ pos' = pos + 1 /\ Quiet /\ Arrays' /\ Done(k, doc)' /\ index' = index
  BY <1>1, <1>6, <1>7, <1>8, PlainStartAt
<1>10. Begun(k, doc)' /\ PartsDone(k, doc, q - 1)' /\ ValueBegun(doc, q)'
  BY <1>2, <1>3, <1>9, QuietStays DEF Reading
<1>11. Within(its, t, 0, End("title") \o rest)'
  <2>1. 0 \in 0..Len(t) /\ pos' - 0 = pos + 1 /\ pos' \in Nat
    BY <1>6, <1>9, TextItems
  <2> QED BY <1>6, <1>9, <2>1 DEF Within
<1>12. InValueTitle(k, doc, q, 0)'
  BY <1>0, <1>1, <1>2, <1>4, <1>9, <1>10, <1>11 DEF InValueTitle, its
<1> QED BY <1>9, <1>12 DEF Reads, Place

\* The title of a value, up to its end
LEMMA FromInValueTitle ==
  ASSUME NEW k, NEW doc, Reading(k, doc), Handler, NEW q \in Nat, NEW m \in Nat,
         InValueTitle(k, doc, q, m)
  PROVE  Reads(k, doc)'
<1> DEFINE its == Items(k, doc)
<1>0. PICK e, v, t, rest :
        /\ e = index + 1 /\ v = doc[e].parts[q] /\ t = v.title
        /\ rest = End("value") \o PartsFrom(k, doc, e, q + 1)
  OBVIOUS
<1>1. /\ k \in KindSet /\ k = kind /\ k = "coded"
      /\ Arrays /\ Done(k, doc) /\ got \in Nat
  BY HandlerItem DEF Reading, InValueTitle
<1>2. /\ path = Base(k) \o <<"value", "title">>
      /\ Begun(k, doc) /\ q \in 1..Len(doc[e].parts) /\ PartsDone(k, doc, q - 1)
      /\ ValueBegun(doc, q) /\ "title" \in DOMAIN v
      /\ m > 0 => ValueTitled(doc, q)
      /\ Within(its, t, m, End("title") \o rest)
  BY <1>0 DEF InValueTitle
<1>3. HasTexts(v) /\ rest \in Seq(Item) /\ q - 1 \in Nat /\ "title" \in Names /\ t \in Text
  <2>1. HasTexts(v) /\ rest \in Seq(Item) /\ q - 1 \in Nat
    BY <1>0, <1>1, <1>2, ValueRest
  <2>2. "title" \in Names
    BY DEF Names
  <2> QED BY <1>0, <1>2, <2>1, <2>2, TitleItems
<1> HIDE DEF its
<1>4. /\ pos \in Nat /\ m \in 0..Len(t) /\ Len(t) \in Nat
      /\ EndElement => m = Len(t) /\ Lies(its, pos + 1, rest)
      /\ CharacterData =>
           \A n, piece : Delivered(n, piece) =>
             Continued(its, t, m, End("title") \o rest, n, piece)
      /\ EndElement \/ CharacterData
  BY <1>2, <1>3, FromText DEF its
<1>5. CASE EndElement
  <2>1. ~AtEntry(path) /\ ~In(path, <<"value">>) /\ ~In(path, <<"children">>)
        /\ Front(path) = Base(k) \o <<"value">>
    <3>1. <<"value", "title">> # <<>> /\ <<"value", "title">> # <<"value">>
          /\ <<"value", "title">> # <<"children">>
      OBVIOUS
    <3> QED BY <1>1, <1>2, <3>1, LabelTuples, WherePath, PathSteps
  <2>2. path' = Base(k) \o <<"value">> /\ Quiet /\ pos' = pos + 1
    BY <1>5, <2>1, PlainEnd
  <2>3. Arrays' /\ Done(k, doc)' /\ index' = index /\ Begun(k, doc)'
        /\ PartsDone(k, doc, q - 1)' /\ ValueBegun(doc, q)'
    BY <1>1, <1>2, <1>3, <2>2, QuietStays
  <2>4. ValueTitled(doc, q)'
    <3>1. CASE m > 0
      BY <1>1, <1>2, <2>2, <3>1, QuietStays
    <3>2. CASE ~(m > 0)
      <4>1. Len(t) = 0
        BY <1>4, <1>5, <3>2
      <4>2. t = <<>>
        BY <1>3, <4>1, EmptySeq DEF Text
      <4> QED BY <1>0, <2>3, <4>2 DEF ValueTitled, HasTitle
    <3> QED BY <3>1, <3>2
  <2>5. ValueEnding(k, doc, q)'
    BY <1>0, <1>1, <1>2, <1>4, <1>5, <2>2, <2>3, <2>4 DEF ValueEnding, its
  <2> QED BY <2>3, <2>5 DEF Reads, Place
<1>6. CASE CharacterData
  <2>2. PICK n, piece :
          /\ Delivered(n, piece)
          /\ ~IsChild(path) => /\ table' = TableWith(table, path, piece)
                               /\ cc' = ValuesWith(cc, path, piece)
                               /\ UNCHANGED <<children, chldIndex>>
    BY <1>1, <1>4, <1>6, PieceDelivered
  <2>3. /\ piece \in Text /\ m + n \in Nat \ {0} /\ (split => split')
        /\ Within(its, t, m + n, End("title") \o rest)'
        /\ ~split' => m = 0 /\ piece = t
    <3>1. Continued(its, t, m, End("title") \o rest, n, piece)
      BY <1>4, <1>6, <2>2, Zenon
    <3> QED BY <3>1 DEF Continued
  <2>4. path' = path /\ UNCHANGED <<index, ccIndex>> /\ split' \in BOOLEAN
    BY <2>2 DEF Delivered
  <2>5. /\ table' = table /\ UNCHANGED <<children, chldIndex>>
        /\ Puts(cc, cc', ccIndex, "title", piece)
    BY <1>1, <1>2, <2>2, <2>3, ValueText
  <2>6. cc \in Seq(Value) /\ ccIndex \in Nat /\ ccIndex < Len(cc)
    BY <1>1, <1>2 DEF Arrays, ValueBegun
  <2>7. /\ cc' \in Seq(Value) /\ Len(cc') = Len(cc) /\ Keeps(cc, cc', ccIndex)
        /\ cc'[ccIndex + 1].title = piece
        /\ cc'[ccIndex + 1].code = cc[ccIndex + 1].code
    <3>1. /\ cc' \in Seq(Value) /\ Len(cc') = Len(cc) /\ Keeps(cc, cc', ccIndex)
          /\ cc'[ccIndex + 1]["title"] = piece
      BY <2>3, <2>5, <2>6, ValueStored
    <3>2. cc'[ccIndex + 1]["code"] = cc[ccIndex + 1]["code"]
      BY <2>3, <2>5, <2>6, ValueStored
    <3> QED BY <3>1, <3>2
  <2>8. Arrays'
    BY <1>1, <2>4, <2>5, <2>6, <2>7 DEF Arrays
  <2>9. Done(k, doc)'
    <3>1. Keeps(table, table', index)
      BY <1>1, <2>5 DEF Keeps, Arrays
    <3> QED BY <1>1, <2>3, <2>4, <3>1, DoneStays
  <2>10. Begun(k, doc)'
    BY <1>2, <2>4, <2>5 DEF Begun
  <2>11. PartsDone(k, doc, q - 1)'
    <3>1. ccIndex = q - 1
      BY <1>1, <1>2 DEF PartsDone
    <3>2. \A j \in 1..(q - 1) : cc'[j] = cc[j]
      BY <2>7, <3>1 DEF Keeps
    <3> QED BY <1>1, <1>2, <2>3, <2>4, <2>5, <3>1, <3>2 DEF PartsDone
  <2>12. ValueBegun(doc, q)' /\ ValueTitled(doc, q)'
    BY <1>0, <1>2, <2>3, <2>4, <2>7 DEF ValueBegun, ValueTitled
  <2>13. InValueTitle(k, doc, q, m + n)'
    BY <1>0, <1>1, <1>2, <2>3, <2>4, <2>10, <2>11, <2>12 DEF InValueTitle, its
  <2> QED BY <2>3, <2>8, <2>9, <2>13 DEF Reads, Place
<1> QED BY <1>4, <1>5, <1>6

\* The end of a value
LEMMA FromValueEnding ==
  ASSUME NEW k, NEW doc, Reading(k, doc), Handler, NEW q \in Nat, ValueEnding(k, doc, q)
  PROVE  Reads(k, doc)'
<1> DEFINE its == Items(k, doc)
<1>0. PICK e, v : e = index + 1 /\ v = doc[e].parts[q]
  OBVIOUS
<1>1. /\ k \in KindSet /\ k = kind /\ k = "coded" /\ item = its[pos + 1]
      /\ item.does = "end" => EndElement
      /\ Arrays /\ Done(k, doc)
  BY HandlerItem DEF ValueEnding, Reading
<1>2. /\ path = Base(k) \o <<"value">>
      /\ Begun(k, doc) /\ q \in 1..Len(doc[e].parts) /\ PartsDone(k, doc, q - 1)
      /\ ValueBegun(doc, q) /\ ValueTitled(doc, q)
      /\ Lies(its, pos, End("value") \o PartsFrom(k, doc, e, q + 1))
  BY <1>0 DEF ValueEnding
<1>3. PartsFrom(k, doc, e, q + 1) \in Seq(Item) /\ q - 1 \in Nat /\ "value" \in Names
  <2>1. "value" \in Names
    BY DEF Names
  <2> QED BY <1>0, <1>1, <1>2, <2>1, ValueRest
<1>4. PICK rest \in Seq(Item) : rest = PartsFrom(k, doc, e, q + 1)
  BY <1>3
<1> HIDE DEF its
<1>5. Lies(its, pos, End("value") \o rest)
  BY <1>2, <1>4
<1>6. /\ its[pos + 1].does = "end"
      /\ Lies(its, pos + 1, rest) /\ pos + 1 <= Len(its) /\ Len(its) \in Nat /\ pos \in Nat
  BY <1>3, <1>5, EndAhead, Zenon
<1>7. EndElement
  BY <1>1, <1>6
<1>8. /\ path' = Base(k) /\ pos' = pos + 1 /\ ccIndex' = ccIndex + 1
      /\ UNCHANGED <<table, index, cc, children, chldIndex, split>>
  BY <1>1, <1>2, <1>7, ValueEnd
<1>9. Arrays'
  BY <1>1, <1>2, <1>8 DEF Arrays, ValueBegun
<1>10. Done(k, doc)' /\ Begun(k, doc)'
  BY <1>1, <1>2, <1>8 DEF Done, Begun
<1>11. Titled(k, doc)'
  BY <1>1 DEF Titled
<1>12. PartsDone(k, doc, q)'
  <2>1. ccIndex = q - 1 /\ ccIndex + 1 = q
    BY <1>1, <1>2, <1>3 DEF PartsDone
  <2>2. ASSUME NEW j \in 1..q
        PROVE  /\ doc[e].parts[j].code # <<>> => cc[j].code = doc[e].parts[j].code
               /\ ~split /\ HasTitle(doc[e].parts[j]) => cc[j].title = doc[e].parts[j].title
    <3>1. CASE j = q
      BY <1>0, <1>2, <2>1, <3>1 DEF ValueBegun, ValueTitled
    <3>2. CASE j \in 1..(q - 1)
      BY <1>0, <1>1, <1>2, <3>2 DEF PartsDone
    <3> QED BY <1>3, <3>1, <3>2
  <2>3. children = <<>>
    BY <1>1, <1>2 DEF PartsDone, Listed
  <2> QED BY <1>0, <1>1, <1>8, <2>1, <2>2, <2>3 DEF PartsDone, Listed
<1>13. AmongParts(k, doc, q)'
  <2>1. q \in 0..Len(doc[e].parts)
    BY <1>2
  <2>2. k \notin Listed
    BY <1>1 DEF Listed
  <2> QED BY <1>0, <1>4, <1>6, <1>8, <1>10, <1>11, <1>12, <2>1, <2>2 DEF AmongParts, its
<1> QED BY <1>9, <1>10, <1>13 DEF Reads, Place

\* Behind the last item no handler is called; from all the other places one leads to
\* a place of the file.
LEMMA HandlerStep ==
  ASSUME NEW k, NEW doc, Reading(k, doc), Handler, Place(k, doc)
  PROVE  Reads(k, doc)'
<1>1. CASE Unread
  BY <1>1, FromUnread
<1>2. CASE Between(k, doc)
  BY <1>2, FromBetween
<1>3. CASE Opened(k, doc)
  BY <1>3, FromOpened
<1>4. CASE BeforeChildren(k, doc)
  BY <1>4, FromBeforeChildren
<1>5. CASE BehindChildren(k, doc)
  BY <1>5, FromBehindChildren
<1>6. CASE \E m \in Nat : InTitle(k, doc, m)
  BY <1>6, FromInTitle
<1>7. CASE \E p \in Nat : AmongParts(k, doc, p)
  BY <1>7, FromAmongParts
<1>8. CASE \E p, m \in Nat : InChild(k, doc, p, m)
  BY <1>8, FromInChild
<1>9. CASE \E p \in Nat : ValueOpened(k, doc, p) \/ ValueEnding(k, doc, p)
  BY <1>9, FromValueOpened, FromValueEnding
<1>10. CASE \E p, m \in Nat : InValueTitle(k, doc, p, m)
  BY <1>10, FromInValueTitle
<1>11. CASE Behind(k, doc)
  <2>1. pos < got /\ got \in Nat /\ got <= Len(Items(k, doc))
    BY HandlerItem DEF Reading
  <2>2. pos = Len(Items(k, doc))
    BY <1>11 DEF Behind
  <2>3. Len(Items(k, doc)) \in Nat
    BY EntriesFromFacts DEF Reading, Setting
  <2> QED BY <2>1, <2>2, <2>3
<1> QED BY <1>1, <1>2, <1>3, <1>4, <1>5, <1>6, <1>7, <1>8, <1>9, <1>10, <1>11 DEF Place

\* Something follows.
Some(s) == s \in Seq(Item) /\ Len(s) > 0

\* Then the items are not all delivered.
LEMMA SomeAhead ==
  ASSUME NEW u \in Seq(Item), NEW v, Some(v)
  PROVE  /\ Some(u \o v)
         /\ \A its, q : Lies(its, q, v) => q < Len(its)
         /\ \A its, t, m : t \in Text /\ Within(its, t, m, v) => pos < Len(its)
<1>1. v \in Seq(Item) /\ Len(v) \in Nat \ {0} /\ Len(u) \in Nat
  BY DEF Some
<1>2. Some(u \o v)
  BY <1>1, ConcatProperties DEF Some
<1>3. ASSUME NEW its, NEW q, Lies(its, q, v) PROVE q < Len(its)
  BY <1>1, <1>3 DEF Lies
<1>4. ASSUME NEW its, NEW t \in Text, NEW m, Within(its, t, m, v) PROVE pos < Len(its)
  <2>1. /\ m \in 0..Len(t) /\ pos \in Nat /\ pos - m \in Nat
        /\ (pos - m) + Len(Characters(t) \o v) = Len(its)
    BY <1>4 DEF Within, Lies
  <2>2. Characters(t) \in Seq(Item) /\ Len(Characters(t)) = Len(t) /\ Len(t) \in Nat
    BY TextItems
  <2>3. Len(Characters(t) \o v) = Len(t) + Len(v)
    BY <1>1, <2>2, ConcatProperties
  <2> QED BY <1>1, <2>1, <2>2, <2>3
<1> QED BY <1>2, <1>3, <1>4

\* An entry, a part of it and what follows its title are followed by something.
LEMMA SomeEntries ==
  ASSUME NEW k \in KindSet, NEW doc, IsDocument(k, doc), NEW e \in 1..(Len(doc) + 1)
  PROVE  Some(EntriesFrom(k, doc, e))
<1>1. Listing(k, doc) \in Seq(Seq(Item)) /\ Len(Listing(k, doc)) = Len(doc)
  BY ListingFacts
<1>2. From(Listing(k, doc), e) \in Seq(Item)
  BY <1>1, FromFacts
<1>3. Some(End(Base(k)[1]))
  <2>1. <<>> \in Text
    BY DEF Text
  <2>2. End(Base(k)[1]) \in Seq(Item) /\ Len(End(Base(k)[1])) = 1
    BY <2>1, OneItem, BaseFacts
  <2> QED BY <2>2 DEF Some
<1> QED BY <1>2, <1>3, SomeAhead DEF EntriesFrom

\* The same of a part and of what follows a title
LEMMA SomeParts ==
  ASSUME NEW k, NEW doc, Reading(k, doc), Begun(k, doc), NEW e, e = index + 1
  PROVE  /\ \A p \in 1..(Len(doc[e].parts) + 1) : Some(PartsFrom(k, doc, e, p))
         /\ Some(BodyFrom(k, doc, e)) /\ Some(EntriesFrom(k, doc, e + 1))
         /\ k \in KindSet /\ IsEntry(k, doc[e]) /\ Len(doc[e].parts) \in Nat
         /\ DOMAIN doc[e].parts = 1..Len(doc[e].parts)
<1>1. /\ k \in KindSet /\ IsDocument(k, doc) /\ e \in 1..Len(doc) /\ IsEntry(k, doc[e])
      /\ Len(doc) \in Nat /\ index \in Nat
  BY BegunParts, EntriesFromFacts DEF Reading, Setting
<1>2. Some(EntriesFrom(k, doc, e + 1))
  <2>1. e + 1 \in 1..(Len(doc) + 1)
    BY <1>1
  <2> QED BY <1>1, <2>1, SomeEntries
<1>3. PartListing(k, doc[e]) \in Seq(Seq(Item)) /\ Len(PartListing(k, doc[e])) = Len(doc[e].parts)
      /\ Len(doc[e].parts) \in Nat /\ DOMAIN doc[e].parts = 1..Len(doc[e].parts)
  BY <1>1, PartListFacts
<1>4. ASSUME NEW p \in 1..(Len(doc[e].parts) + 1) PROVE Some(PartsFrom(k, doc, e, p))
  <2>1. From(PartListing(k, doc[e]), p) \in Seq(Item)
    BY <1>3, FromFacts
  <2>2. PICK s : s = PartsEnd(k) \o EntriesFrom(k, doc, e + 1)
    OBVIOUS
  <2>3. Some(s)
    BY <1>1, <1>2, <2>2, EndFacts, SomeAhead
  <2>4. Some(From(PartListing(k, doc[e]), p) \o s)
    BY <2>1, <2>3, SomeAhead
  <2> QED BY <2>2, <2>4 DEF PartsFrom
<1>5. Some(BodyFrom(k, doc, e))
  <2>1. Some(PartsFrom(k, doc, e, 1))
    <3>1. 1 \in 1..(Len(doc[e].parts) + 1)
      BY <1>3
    <3> QED BY <1>4, <3>1
  <2>2. Some(Start("children", <<>>) \o PartsFrom(k, doc, e, 1))
    BY <1>1, <2>1, EndFacts, SomeAhead
  <2> QED BY <2>1, <2>2 DEF BodyFrom
<1> QED BY <1>1, <1>2, <1>3, <1>4, <1>5

\* The end of an element is a sequence of items.
LEMMA EndItems ==
  /\ End("title") \in Seq(Item) /\ End("child") \in Seq(Item) /\ End("value") \in Seq(Item)
  /\ "title" \in Names /\ "child" \in Names /\ "value" \in Names
<1>1. "title" \in Names /\ "child" \in Names /\ "value" \in Names /\ <<>> \in Text
  BY DEF Names, Text
<1> QED BY <1>1, OneItem

\* When all items are delivered, all entries were ended.
LEMMA AllDelivered ==
  ASSUME NEW k, NEW doc, Reading(k, doc), Place(k, doc), pos = Len(Items(k, doc))
  PROVE  index = Len(doc)
<1> DEFINE its == Items(k, doc)
<1>0. k \in KindSet /\ IsDocument(k, doc) /\ index \in Nat /\ Len(its) \in Nat /\ Len(doc) \in Nat
  BY EntriesFromFacts DEF Reading, Setting, Arrays
<1>1. ASSUME Unread PROVE pos < Len(its)
  <2>1. 1 \in 1..(Len(doc) + 1)
    BY <1>0
  <2>2. Some(EntriesFrom(k, doc, 1))
    BY <1>0, <2>1, SomeEntries
  <2>3. <<>> \in Text /\ Base(k)[1] \in Names
    BY <1>0, BaseFacts DEF Text
  <2>4. Some(Start(Base(k)[1], <<>>) \o EntriesFrom(k, doc, 1))
    BY <2>2, <2>3, OneItem, SomeAhead
  <2>5. its = Start(Base(k)[1], <<>>) \o EntriesFrom(k, doc, 1)
    BY <1>0, EntriesFromFacts
  <2> QED BY <1>0, <1>1, <2>4, <2>5 DEF Unread, Some
<1>2. ASSUME Between(k, doc) PROVE pos < Len(its)
  <2>1. index + 1 \in 1..(Len(doc) + 1)
    BY <1>0, <1>2 DEF Between
  <2>2. Some(EntriesFrom(k, doc, index + 1))
    BY <1>0, <2>1, SomeEntries
  <2>3. Lies(its, pos, EntriesFrom(k, doc, index + 1))
    BY <1>2 DEF Between
  <2> HIDE DEF its
  <2> QED BY <2>2, <2>3, EndItems, SomeAhead
<1>3. PICK e : e = index + 1
  OBVIOUS
<1>4. Begun(k, doc) => /\ \A p \in 1..(Len(doc[e].parts) + 1) : Some(PartsFrom(k, doc, e, p))
                       /\ Some(BodyFrom(k, doc, e)) /\ Some(EntriesFrom(k, doc, e + 1))
                       /\ IsEntry(k, doc[e]) /\ HasTexts(doc[e]) /\ Len(doc[e].parts) \in Nat
                       /\ DOMAIN doc[e].parts = 1..Len(doc[e].parts)
  BY <1>3, SomeParts, BegunFacts
<1>5. ASSUME NEW v, Some(v), NEW u \in Seq(Item)
      PROVE  /\ Lies(its, pos, v) => pos < Len(its)
             /\ Lies(its, pos, u \o v) => pos < Len(its)
             /\ Some(u \o v)
             /\ \A t, m : t \in Text /\ Within(its, t, m, v) => pos < Len(its)
             /\ \A t, m : t \in Text /\ Within(its, t, m, u \o v) => pos < Len(its)
  <2> HIDE DEF its
  <2>1. Some(u \o v)
    BY <1>5, SomeAhead
  <2>2. PICK w : w = u \o v
    OBVIOUS
  <2>3. /\ \A x, q : Lies(x, q, w) => q < Len(x)
        /\ \A x, t, m : t \in Text /\ Within(x, t, m, w) => pos < Len(x)
    BY <1>5, <2>1, <2>2, SomeAhead
  <2>4. /\ \A x, q : Lies(x, q, v) => q < Len(x)
        /\ \A x, t, m : t \in Text /\ Within(x, t, m, v) => pos < Len(x)
    BY <1>5, SomeAhead
  <2> QED BY <2>1, <2>2, <2>3, <2>4
<1> HIDE DEF its
<1>6. ASSUME Opened(k, doc) PROVE pos < Len(its)
  <2>1. /\ Begun(k, doc)
        /\ Lies(its, pos, OptionalTitle(doc[e]) \o BodyFrom(k, doc, e))
    BY <1>3, <1>6 DEF Opened, its
  <2>2. OptionalTitle(doc[e]) \in Seq(Item)
    BY <1>4, <2>1, TitleItems
  <2> QED BY <1>4, <1>5, <2>1, <2>2
<1>7. ASSUME NEW m \in Nat, InTitle(k, doc, m) PROVE pos < Len(its)
  <2>1. /\ Begun(k, doc) /\ "title" \in DOMAIN doc[e]
        /\ Within(its, doc[e].title, m, End("title") \o BodyFrom(k, doc, e))
    BY <1>3, <1>7 DEF InTitle, its
  <2>2. doc[e].title \in Text
    BY <1>4, <2>1, TitleItems
  <2> QED BY <1>4, <1>5, <2>1, <2>2, EndItems
<1>8. ASSUME BeforeChildren(k, doc) PROVE pos < Len(its)
  <2>1. Begun(k, doc) /\ Lies(its, pos, BodyFrom(k, doc, e))
    BY <1>3, <1>8 DEF BeforeChildren, its
  <2> QED BY <1>4, <1>5, <2>1, EndItems
<1>9. ASSUME BehindChildren(k, doc) PROVE pos < Len(its)
  <2>1. Begun(k, doc) /\ Lies(its, pos, End(Base(k)[2]) \o EntriesFrom(k, doc, e + 1))
    <3>1. index + 2 = e + 1
      BY <1>0, <1>3
    <3> QED BY <1>9, <3>1 DEF BehindChildren, its
  <2> QED BY <1>0, <1>4, <1>5, <2>1, EndFacts
<1>10. ASSUME NEW p, Begun(k, doc), p \in 0..Len(doc[e].parts) PROVE Some(PartsFrom(k, doc, e, p + 1))
  <2>1. p + 1 \in 1..(Len(doc[e].parts) + 1)
    BY <1>4, <1>10
  <2> QED BY <1>4, <1>10, <2>1
<1>11. ASSUME NEW p \in Nat, AmongParts(k, doc, p) PROVE pos < Len(its)
  <2>1. /\ Begun(k, doc) /\ p \in 0..Len(doc[e].parts)
        /\ Lies(its, pos, PartsFrom(k, doc, e, p + 1))
    BY <1>3, <1>11 DEF AmongParts, its
  <2> QED BY <1>5, <1>10, <2>1, EndItems
<1>12. ASSUME NEW p \in Nat, NEW m \in Nat, InChild(k, doc, p, m) PROVE pos < Len(its)
  <2>1. /\ Begun(k, doc) /\ p \in 1..Len(doc[e].parts) /\ k \in Listed
        /\ Within(its, doc[e].parts[p], m, End("child") \o PartsFrom(k, doc, e, p + 1))
    BY <1>3, <1>12 DEF InChild, its
  <2>2. doc[e].parts[p] \in Text
    BY <1>0, <1>4, <2>1, PartFacts
  <2>3. Some(PartsFrom(k, doc, e, p + 1))
    BY <1>4, <1>10, <2>1
  <2> QED BY <1>5, <2>1, <2>2, <2>3, EndItems
<1>13. ASSUME NEW p, k = "coded", Begun(k, doc), p \in 1..Len(doc[e].parts)
       PROVE  HasTexts(doc[e].parts[p]) /\ Some(End("value") \o PartsFrom(k, doc, e, p + 1))
              /\ Some(PartsFrom(k, doc, e, p + 1))
  <2>1. Some(PartsFrom(k, doc, e, p + 1))
    BY <1>4, <1>10, <1>13
  <2>2. HasTexts(doc[e].parts[p])
    BY <1>0, <1>4, <1>13, PartFacts
  <2> QED BY <1>5, <2>1, <2>2, EndItems
<1>14. ASSUME NEW p \in Nat, ValueOpened(k, doc, p) PROVE pos < Len(its)
  <2>1. /\ Begun(k, doc) /\ p \in 1..Len(doc[e].parts) /\ k = "coded"
        /\ Lies(its, pos, OptionalTitle(doc[e].parts[p])
                          \o (End("value") \o PartsFrom(k, doc, e, p + 1)))
    BY <1>3, <1>14 DEF ValueOpened, its
  <2>2. OptionalTitle(doc[e].parts[p]) \in Seq(Item)
    BY <1>13, <2>1, TitleItems
  <2> QED BY <1>5, <1>13, <2>1, <2>2
<1>15. ASSUME NEW p \in Nat, ValueEnding(k, doc, p) PROVE pos < Len(its)
  <2>1. /\ Begun(k, doc) /\ p \in 1..Len(doc[e].parts) /\ k = "coded"
        /\ Lies(its, pos, End("value") \o PartsFrom(k, doc, e, p + 1))
    BY <1>3, <1>15 DEF ValueEnding, its
  <2> QED BY <1>5, <1>13, <2>1, EndItems
<1>16. ASSUME NEW p \in Nat, NEW m \in Nat, InValueTitle(k, doc, p, m) PROVE pos < Len(its)
  <2>1. /\ Begun(k, doc) /\ p \in 1..Len(doc[e].parts) /\ k = "coded"
        /\ "title" \in DOMAIN doc[e].parts[p]
        /\ Within(its, doc[e].parts[p].title, m,
                  End("title") \o (End("value") \o PartsFrom(k, doc, e, p + 1)))
    BY <1>3, <1>16 DEF InValueTitle, its
  <2>2. doc[e].parts[p].title \in Text
    BY <1>13, <2>1, TitleItems
  <2> QED BY <1>5, <1>13, <2>1, <2>2, EndItems
<1>17. ~(pos < Len(its))
  BY <1>0 DEF its
<1> QED BY <1>1, <1>2, <1>6, <1>7, <1>8, <1>9, <1>11, <1>12, <1>14, <1>15, <1>16, <1>17
        DEF Place, Behind

-----------------------------------------------------------------------------
(* The file that is being read, and the tables of the files before it      *)

\* A file of which some was read, and some of that delivered
FileRead ==
  \E k, doc :
    /\ Reading(k, doc) /\ Place(k, doc) /\ pos \in Nat /\ pos <= got
    /\ pc = "parse" /\ final => got = Len(Items(k, doc))

\* A file that was read to its end
FileDone ==
  \E k, doc : Setting(k, doc) /\ Arrays /\ Done(k, doc) /\ index = Len(doc)

\* A table is right if all entries of its file are there, and right.
TableRight(k, tbl, of) ==
  /\ Len(tbl) = Len(of.document) /\ DOMAIN tbl = 1..Len(of.document)
  /\ DOMAIN of.document = 1..Len(of.document)
  /\ \A n \in DOMAIN tbl : EntryRight(k, of.document[n], tbl[n], of.split)

Kept ==
  /\ loaded = [k \in KindSet |-> loaded[k]] /\ origin = [k \in KindSet |-> origin[k]]
  /\ \A k \in KindSet : TableRight(k, loaded[k], origin[k])

\* What a search found
Searched ==
  /\ status \in {"null", "garbage"} => pc = "idle"
  /\ SearchesReadStrings
  /\ pc = "idle" => inForce \/ \A k \in KindSet : Len(origin[k].document) = 0

LoaderInv ==
  /\ f \in 1..Len(Kinds) /\ directory \in DOMAIN Directories
  /\ pc \in {"read", "parse"} => FileRead
  /\ pc = "close" /\ r = 0 => FileDone
  /\ Kept /\ Searched

\* The kind is one of the kinds.
LEMMA KindOfFile ==
  ASSUME f \in 1..Len(Kinds)
  PROVE  kind \in KindSet
BY DEF kind, KindSet, Kinds, ToSet

\* The file stays the same until the next one.
LEMMA SettingStays ==
  ASSUME NEW k, NEW doc, Setting(k, doc), UNCHANGED <<directory, f>>
  PROVE  Setting(k, doc)'
BY DEF Setting, kind, document

\* A place stays the same while nothing is delivered.
LEMMA PlaceStays ==
  ASSUME NEW k, NEW doc, Arrays, Done(k, doc), Place(k, doc), Quiet, pos' = pos, path' = path
  PROVE  Arrays' /\ Done(k, doc)' /\ Place(k, doc)'
<1>1. Arrays' /\ Done(k, doc)'
  BY QuietStays
<1> USE DEF Quiet, Begun, Titled, NoParts, PartsDone, ValueBegun, ValueTitled, Within
<1>2. CASE Unread
  <2>1. Unread'
    BY <1>2 DEF Unread
  <2> QED BY <1>1, <2>1 DEF Place
<1>3. CASE Between(k, doc)
  <2>1. Between(k, doc)'
    BY <1>3 DEF Between
  <2> QED BY <1>1, <2>1 DEF Place
<1>4. CASE Opened(k, doc)
  <2>1. Opened(k, doc)'
    BY <1>4 DEF Opened
  <2> QED BY <1>1, <2>1 DEF Place
<1>5. CASE BeforeChildren(k, doc)
  <2>1. BeforeChildren(k, doc)'
    BY <1>5 DEF BeforeChildren
  <2> QED BY <1>1, <2>1 DEF Place
<1>6. CASE BehindChildren(k, doc)
  <2>1. BehindChildren(k, doc)'
    BY <1>6 DEF BehindChildren, ListRight
  <2> QED BY <1>1, <2>1 DEF Place
<1>7. ASSUME NEW m \in Nat, InTitle(k, doc, m) PROVE Place(k, doc)'
  <2>1. InTitle(k, doc, m)'
    BY <1>7 DEF InTitle
  <2> QED BY <2>1 DEF Place
<1>8. ASSUME NEW p \in Nat, AmongParts(k, doc, p) PROVE Place(k, doc)'
  <2>1. AmongParts(k, doc, p)'
    BY <1>8 DEF AmongParts
  <2> QED BY <2>1 DEF Place
<1>9. ASSUME NEW p \in Nat, NEW m \in Nat, InChild(k, doc, p, m) PROVE Place(k, doc)'
  <2>1. InChild(k, doc, p, m)'
    BY <1>9 DEF InChild
  <2> QED BY <2>1 DEF Place
<1>10. ASSUME NEW p \in Nat, ValueOpened(k, doc, p) PROVE Place(k, doc)'
  <2>1. ValueOpened(k, doc, p)'
    BY <1>10 DEF ValueOpened
  <2> QED BY <2>1 DEF Place
<1>11. ASSUME NEW p \in Nat, ValueEnding(k, doc, p) PROVE Place(k, doc)'
  <2>1. ValueEnding(k, doc, p)'
    BY <1>11 DEF ValueEnding
  <2> QED BY <2>1 DEF Place
<1>12. ASSUME NEW p \in Nat, NEW m \in Nat, InValueTitle(k, doc, p, m) PROVE Place(k, doc)'
  <2>1. InValueTitle(k, doc, p, m)'
    BY <1>12 DEF InValueTitle
  <2> QED BY <2>1 DEF Place
<1>13. CASE Behind(k, doc)
  <2>1. Behind(k, doc)'
    BY <1>13 DEF Behind
  <2> QED BY <1>1, <2>1 DEF Place
<1> QED BY <1>1, <1>2, <1>3, <1>4, <1>5, <1>6, <1>7, <1>8, <1>9, <1>10, <1>11, <1>12, <1>13
        DEF Place

\* A handler
LEMMA FileHandled ==
  ASSUME FileRead, Handler
  PROVE  FileRead'
<1>1. PICK k, doc :
        /\ Reading(k, doc) /\ Place(k, doc) /\ pos \in Nat /\ pos <= got
        /\ pc = "parse" /\ final => got = Len(Items(k, doc))
  BY DEF FileRead
<1>2. Reads(k, doc)'
  BY <1>1, HandlerStep
<1>3. UNCHANGED <<pc, directory, f, got, final>>
  BY DEF Handler, StartElement, CharacterData, EndElement, Advance
<1>4. pos' \in Nat /\ pos' <= got
  <2>1. got \in Nat /\ pos < got
    BY <1>1, HandlerItem DEF Reading
  <2>2. CASE pos' = pos + 1
    BY <1>1, <2>1, <2>2
  <2>3. CASE CharacterData
    <3>1. PICK n : n \in Pieces /\ pos' = pos + n
      BY <2>3 DEF CharacterData
    <3>2. n \in 1..(got - pos)
      BY <3>1 DEF Pieces
    <3> QED BY <1>1, <2>1, <3>1, <3>2
  <2> QED BY <2>2, <2>3 DEF Handler, StartElement, EndElement, Advance
<1>5. Setting(k, doc)'
  BY <1>1, <1>3, SettingStays DEF Reading
<1>6. Reading(k, doc)'
  BY <1>1, <1>2, <1>3, <1>5 DEF Reading, Reads
<1> QED BY <1>1, <1>2, <1>3, <1>4, <1>6 DEF FileRead, Reads

\* A file that was opened
LEMMA FileOpened ==
  ASSUME LoaderInv, OpenFile
  PROVE  pc' = "read" => FileRead'
<1>1. /\ path' = <<>> /\ table' = <<>> /\ index' = 0
      /\ cc' = <<>> /\ ccIndex' = 0 /\ children' = <<>> /\ chldIndex' = 0
      /\ got' = 0 /\ pos' = 0 /\ split' = FALSE
      /\ UNCHANGED <<directory, f>>
  BY DEF OpenFile
<1>2. SUFFICES ASSUME pc' = "read" PROVE FileRead'
  OBVIOUS
<1>3. document # Missing
  BY <1>2 DEF OpenFile
<1>4. PICK k, doc : k = kind /\ doc = document
  OBVIOUS
<1>5. k \in KindSet /\ IsDocument(k, doc)
  <2>1. f \in 1..Len(Kinds) /\ directory \in DOMAIN Directories
    BY DEF LoaderInv
  <2>2. k \in KindSet
    BY <1>4, <2>1, KindOfFile
  <2> QED BY <1>3, <1>4, <2>1, <2>2, StructLoaderAssumption DEF document
<1>6. Setting(k, doc)'
  BY <1>1, <1>4, <1>5, SettingStays DEF Setting
<1>7. Arrays' /\ NoParts'
  <2>1. /\ <<>> \in Seq(Cell) /\ <<>> \in Seq(Value) /\ <<>> \in Seq(Text) /\ Len(<<>>) = 0
    OBVIOUS
  <2>2. split' \in BOOLEAN
    BY <1>1
  <2>3. children' = <<>> /\ chldIndex' = Len(children')
    BY <1>1, <2>1
  <2> QED BY <1>1, <2>1, <2>2, <2>3 DEF Arrays, NoParts
<1>8. Done(k, doc)'
  BY <1>1 DEF Done
<1>9. Unread'
  BY <1>1, <1>7 DEF Unread
<1>10. Len(Items(k, doc)) \in Nat
  BY <1>5, EntriesFromFacts
<1>11. Reading(k, doc)'
  BY <1>1, <1>6, <1>7, <1>8, <1>10 DEF Reading
<1>12. Place(k, doc)'
  BY <1>9 DEF Place
<1> QED BY <1>1, <1>2, <1>11, <1>12 DEF FileRead

\* One more chunk
LEMMA ChunkRead ==
  ASSUME FileRead, ReadChunk
  PROVE  FileRead'
<1>1. PICK k, doc :
        /\ Reading(k, doc) /\ Place(k, doc) /\ pos \in Nat /\ pos <= got
  BY DEF FileRead
<1>2. PICK all : all = Len(Items(k, doc))
  OBVIOUS
<1>3. /\ items = Items(k, doc) /\ all \in Nat /\ got \in Nat /\ got <= all
  BY <1>1, <1>2, EntriesFromFacts DEF Reading, Setting, items
<1>4. PICK n : /\ n = IF all - got < ChunkSize THEN all - got ELSE ChunkSize
               /\ got' = got + n /\ final' = IsLast(n)
  BY <1>2, <1>3 DEF ReadChunk
<1>5. /\ got' \in Nat /\ got <= got' /\ got' <= all
      /\ final' => got' = all
  <2>1. ChunkSize \in Nat \ {0}
    BY StructLoaderAssumption
  <2>2. final' => n < ChunkSize
    BY <1>4 DEF IsLast
  <2>3. n \in Nat /\ n <= all - got /\ (n < ChunkSize => n = all - got)
    BY <1>3, <1>4, <2>1
  <2>4. got' = got + n
    BY <1>4
  <2> QED BY <1>3, <2>2, <2>3, <2>4
<1>6. /\ Quiet /\ pos' = pos /\ path' = path /\ UNCHANGED <<directory, f>>
  BY DEF ReadChunk, Quiet, helper, after
<1>7. Arrays /\ Done(k, doc) /\ Setting(k, doc)
  BY <1>1 DEF Reading
<1>8. Arrays' /\ Done(k, doc)' /\ Place(k, doc)'
  BY <1>1, <1>6, <1>7, PlaceStays
<1>9. Setting(k, doc)'
  BY <1>6, <1>7, SettingStays
<1>10. Reading(k, doc)'
  BY <1>2, <1>5, <1>8, <1>9 DEF Reading
<1>11. pos' <= got'
  BY <1>1, <1>3, <1>5, <1>6
<1> QED BY <1>1, <1>2, <1>5, <1>6, <1>8, <1>10, <1>11 DEF FileRead

\* Behind the last chunk the file is done.
LEMMA ChunkDone ==
  ASSUME FileRead, EndOfChunk
  PROVE  /\ pc' = "read" => FileRead'
         /\ pc' = "close" => FileDone'
         /\ pc' \in {"read", "close"}
<1>1. PICK k, doc :
        /\ Reading(k, doc) /\ Place(k, doc) /\ pos \in Nat /\ pos <= got
        /\ pc = "parse" /\ final => got = Len(Items(k, doc))
  BY DEF FileRead
<1>2. pc = "parse" /\ pos = got /\ pc' = IF final THEN "close" ELSE "read"
  BY DEF EndOfChunk
<1>3. /\ Quiet /\ UNCHANGED <<pos, path, got, final, directory, f>>
  BY DEF EndOfChunk, Quiet, helper, input, after
<1>4. Arrays /\ Done(k, doc) /\ Setting(k, doc)
  BY <1>1 DEF Reading
<1>5. Arrays' /\ Done(k, doc)' /\ Place(k, doc)' /\ Setting(k, doc)'
  BY <1>1, <1>3, <1>4, PlaceStays, SettingStays
<1>6. ASSUME pc' = "read" PROVE FileRead'
  <2>1. Reading(k, doc)'
    BY <1>1, <1>3, <1>5 DEF Reading
  <2> QED BY <1>1, <1>3, <1>5, <1>6, <2>1 DEF FileRead
<1>7. ASSUME pc' = "close" PROVE FileDone'
  <2>1. final
    BY <1>2, <1>7
  <2>2. index = Len(doc)
    BY <1>1, <1>2, <2>1, AllDelivered
  <2>3. index' = index
    BY <1>3 DEF Quiet
  <2> QED BY <1>5, <2>2, <2>3 DEF FileDone
<1>8. pc' \in {"read", "close"}
  BY <1>2
<1> QED BY <1>6, <1>7, <1>8

\* The table of a file that is done is right.
LEMMA TableKept ==
  ASSUME Kept, FileDone, f \in 1..Len(Kinds),
         loaded' = [loaded EXCEPT ![kind] = SubSeq(table, 1, index)],
         origin' = [origin EXCEPT ![kind] = [document |-> document, split |-> split]]
  PROVE  Kept'
<1>1. PICK k, doc : Setting(k, doc) /\ Arrays /\ Done(k, doc) /\ index = Len(doc)
  BY DEF FileDone
<1>2. PICK tbl : tbl = SubSeq(table, 1, index)
  OBVIOUS
<1>3. k = kind /\ doc = document /\ k \in KindSet
  BY <1>1 DEF Setting
<1>4. index \in Nat /\ index <= Len(table) /\ table \in Seq(Cell)
  BY <1>1 DEF Arrays
<1>5. /\ Len(tbl) = index /\ DOMAIN tbl = 1..index
      /\ \A n \in 1..index : tbl[n] = table[n]
  BY <1>2, <1>4
<1>6. DOMAIN doc = 1..Len(doc)
  BY <1>1, EntriesFromFacts DEF Setting
<1>7. PICK of : of = [document |-> doc, split |-> split]
  OBVIOUS
<1>8. TableRight(k, tbl, of)
  <2>1. of.document = doc /\ of.split = split
    BY <1>7
  <2>2. \A n \in 1..index : EntryRight(k, doc[n], tbl[n], split)
    BY <1>1, <1>5 DEF Done
  <2> QED BY <1>1, <1>5, <1>6, <2>1, <2>2 DEF TableRight
<1>9. /\ loaded' = [loaded EXCEPT ![k] = tbl] /\ origin' = [origin EXCEPT ![k] = of]
  BY <1>2, <1>3, <1>7
<1>10. DOMAIN loaded = KindSet /\ DOMAIN origin = KindSet
  BY DEF Kept
<1>11. /\ loaded' = [j \in KindSet |-> loaded'[j]] /\ origin' = [j \in KindSet |-> origin'[j]]
       /\ \A j \in KindSet : /\ loaded'[j] = IF j = k THEN tbl ELSE loaded[j]
                             /\ origin'[j] = IF j = k THEN of ELSE origin[j]
  BY <1>9, <1>10
<1>12. \A j \in KindSet : TableRight(j, loaded'[j], origin'[j])
  BY <1>8, <1>11 DEF Kept
<1> QED BY <1>11, <1>12 DEF Kept

\* Nothing is loaded at first.
LEMMA LoaderStarts ==
  ASSUME Init
  PROVE  LoaderInv
<1>1. f \in 1..Len(Kinds) /\ directory \in DOMAIN Directories
  BY DEF Init, Kinds
<1>2. pc = "idle" /\ status = "ok" /\ loads = 0
  BY DEF Init
<1>3. Kept
  <2>1. /\ loaded = [k \in KindSet |-> <<>>]
        /\ origin = [k \in KindSet |-> [document |-> <<>>, split |-> FALSE]]
    BY DEF Init
  <2>2. Len(<<>>) = 0 /\ DOMAIN <<>> = 1..0
    OBVIOUS
  <2>3. ASSUME NEW k \in KindSet PROVE TableRight(k, loaded[k], origin[k])
    <3>1. loaded[k] = <<>> /\ origin[k].document = <<>>
      BY <2>1
    <3> QED BY <2>2, <3>1 DEF TableRight
  <2> QED BY <2>1, <2>3 DEF Kept
<1>4. Searched
  <2>1. \A k \in KindSet : Len(origin[k].document) = 0
    BY DEF Init
  <2> QED BY <1>2, <2>1 DEF Searched, SearchesReadStrings
<1> QED BY <1>1, <1>2, <1>3, <1>4 DEF LoaderInv

\* What no step of a file touches
LEMMA StillKept ==
  ASSUME Kept, UNCHANGED <<loaded, origin>>
  PROVE  Kept'
<1>1. loaded' = loaded /\ origin' = origin
  OBVIOUS
<1> QED BY <1>1 DEF Kept

\* A step that is no search and no load, and does not end in "idle"
LEMMA StillSearched ==
  ASSUME Searched, pc # "idle", pc' # "idle", status' = status \/ status' = "overrun"
  PROVE  Searched'
BY DEF Searched, SearchesReadStrings

\* A file stays as far as it was when nothing happens.
LEMMA FileStays ==
  ASSUME UNCHANGED <<pc, directory, f, got, pos, final, path>>, Quiet
  PROVE  (FileRead => FileRead') /\ (FileDone => FileDone')
<1>1. ASSUME FileRead PROVE FileRead'
  <2>1. PICK k, doc :
          /\ Reading(k, doc) /\ Place(k, doc) /\ pos \in Nat /\ pos <= got
          /\ pc = "parse" /\ final => got = Len(Items(k, doc))
    BY <1>1 DEF FileRead
  <2>2. Arrays' /\ Done(k, doc)' /\ Place(k, doc)' /\ Setting(k, doc)'
    BY <2>1, PlaceStays, SettingStays DEF Reading
  <2>3. Reading(k, doc)'
    BY <2>1, <2>2 DEF Reading
  <2> QED BY <2>1, <2>2, <2>3 DEF FileRead
<1>2. ASSUME FileDone PROVE FileDone'
  <2>1. PICK k, doc : Setting(k, doc) /\ Arrays /\ Done(k, doc) /\ index = Len(doc)
    BY <1>2 DEF FileDone
  <2>2. Arrays' /\ Done(k, doc)' /\ index' = index /\ Setting(k, doc)'
    BY <2>1, QuietStays, SettingStays
  <2> QED BY <2>1, <2>2 DEF FileDone
<1> QED BY <1>1, <1>2

\* Where a file leaves out no name, a search follows what was written; it follows
\* NULL where there is nothing to search.
LEMMA FollowedIsWritten ==
  ASSUME Kept, NEW k \in KindSet, AllOf(k, Named)
  PROVE  /\ ~Follows(k, Garbage)
         /\ Follows(k, NULL) => ~inForce \/ Len(origin[k].document) = 0 \/ ~AllOf(k, Valued)
<1>1. /\ DOMAIN loaded[k] = DOMAIN origin[k].document
      /\ \A n \in DOMAIN loaded[k] :
           EntryRight(k, origin[k].document[n], loaded[k][n], origin[k].split)
  BY DEF Kept, TableRight
<1>2. loaded[k] = <<>> => Len(origin[k].document) = 0
  BY DEF Kept, TableRight
<1>3. ASSUME NEW t \in Text PROVE t \notin {NULL, Garbage}
  BY StructLoaderAssumption
<1>4. ASSUME NEW t \in Seq(Text \union {NULL}) PROVE t \notin {NULL, Garbage}
  BY StructLoaderAssumption
<1>5. ASSUME NEW n \in DOMAIN loaded[k]
      PROVE  /\ loaded[k][n].code \notin {NULL, Garbage}
             /\ k \in {"segs", "comps"} => loaded[k][n].parts \notin {NULL, Garbage}
             /\ k = "coded" => \A v \in DOMAIN loaded[k][n].parts :
                                 loaded[k][n].parts[v].code \notin {NULL, Garbage}
  <2>1. PICK e, c, pieces :
          e = origin[k].document[n] /\ c = loaded[k][n] /\ pieces = origin[k].split
    OBVIOUS
  <2>2. EntryRight(k, e, c, pieces) /\ Named(k, e)
    BY <1>1, <2>1 DEF AllOf
  <2>3. c.code = e.code /\ e.code \in Text
    BY <2>2 DEF EntryRight, Named, IsEntry, HasTexts
  <2>4. k \in {"segs", "comps"} => c.parts \in Seq(Text \union {NULL})
    BY <2>2 DEF EntryRight, Listed
  <2>5. ASSUME k = "coded", NEW v \in DOMAIN c.parts
        PROVE  c.parts[v].code = e.parts[v].code /\ e.parts[v].code \in Text
    BY <2>2, <2>5 DEF EntryRight, Named, IsEntry, HasTexts
  <2> QED BY <1>3, <1>4, <2>1, <2>3, <2>4, <2>5
<1>6. ASSUME k = "coded", AllOf(k, Valued), NEW n \in DOMAIN loaded[k]
      PROVE  loaded[k][n].parts # <<>>
  <2>1. PICK e, c, pieces :
          e = origin[k].document[n] /\ c = loaded[k][n] /\ pieces = origin[k].split
    OBVIOUS
  <2>2. EntryRight(k, e, c, pieces) /\ e.parts # <<>>
    BY <1>1, <1>6, <2>1 DEF AllOf, Valued
  <2>3. e.parts \in Seq({e.parts[m] : m \in DOMAIN e.parts}) /\ DOMAIN c.parts = DOMAIN e.parts
    BY <1>6, <2>2 DEF EntryRight, IsEntry, IsSeq
  <2>4. 1 \in DOMAIN e.parts
    BY <2>2, <2>3
  <2>5. 1 \in DOMAIN c.parts
    BY <2>3, <2>4
  <2> QED BY <2>1, <2>5
<1>7. ~Follows(k, Garbage)
  BY <1>5, StructLoaderAssumption DEF Follows
<1>8. ASSUME Follows(k, NULL) PROVE ~inForce \/ loaded[k] = <<>> \/ ~AllOf(k, Valued)
  BY <1>5, <1>6, <1>8 DEF Follows
<1> QED BY <1>2, <1>7, <1>8

\* A load, step by step
LEMMA LoaderSteps ==
  ASSUME LoaderInv, [Next]_vars
  PROVE  LoaderInv'
<1>1. /\ f \in 1..Len(Kinds) /\ directory \in DOMAIN Directories
      /\ pc \in {"read", "parse"} => FileRead
      /\ pc = "close" /\ r = 0 => FileDone
      /\ Kept /\ Searched
  BY DEF LoaderInv
<1>2. CASE Handler
  <2>1. pc = "parse"
    BY <1>2 DEF Handler, StartElement, CharacterData, EndElement, Parsing
  <2>2. UNCHANGED <<pc, directory, f, loaded, origin, status>>
    BY <1>2 DEF Handler, StartElement, CharacterData, EndElement, Advance
  <2>3. FileRead'
    BY <1>1, <1>2, <2>1, FileHandled
  <2>4. Kept' /\ Searched'
    BY <1>1, <2>1, <2>2, StillKept, StillSearched
  <2> QED BY <1>1, <2>1, <2>2, <2>3, <2>4 DEF LoaderInv
<1>3. CASE OpenFile
  <2>1. /\ pc = "file" /\ UNCHANGED <<directory, f, loaded, origin, status>>
        /\ pc' = "read" \/ (pc' = "close" /\ r' = -1)
    BY <1>3 DEF OpenFile
  <2>2. pc' = "read" => FileRead'
    BY <1>3, FileOpened
  <2>3. Kept' /\ Searched'
    BY <1>1, <2>1, StillKept, StillSearched
  <2> QED BY <1>1, <2>1, <2>2, <2>3 DEF LoaderInv
<1>4. CASE ReadChunk
  <2>1. pc = "read" /\ pc' = "parse" /\ UNCHANGED <<directory, f, loaded, origin, status>>
    BY <1>4 DEF ReadChunk, after
  <2>2. FileRead'
    BY <1>1, <1>4, <2>1, ChunkRead
  <2>3. Kept' /\ Searched'
    BY <1>1, <2>1, StillKept, StillSearched
  <2> QED BY <1>1, <2>1, <2>2, <2>3 DEF LoaderInv
<1>5. CASE ReadError
  <2>1. /\ pc = "read" /\ UNCHANGED <<directory, f, loaded, origin>>
        /\ \/ pc' = "close" /\ r' = 1 /\ status' = status
           \/ pc' = "stopped" /\ status' = "overrun"
    BY <1>5 DEF ReadError, input
  <2>2. Kept' /\ Searched'
    BY <1>1, <2>1, StillKept, StillSearched
  <2> QED BY <1>1, <2>1, <2>2 DEF LoaderInv
<1>6. CASE SyntaxError
  <2>1. pc = "parse" /\ pc' = "close" /\ r' = 1 /\ UNCHANGED <<directory, f, loaded, origin, status>>
    BY <1>6 DEF SyntaxError, Parsing, input, after
  <2>2. Kept' /\ Searched'
    BY <1>1, <2>1, StillKept, StillSearched
  <2> QED BY <1>1, <2>1, <2>2 DEF LoaderInv
<1>7. CASE EndOfChunk
  <2>1. pc = "parse" /\ UNCHANGED <<directory, f, loaded, origin, status>>
    BY <1>7 DEF EndOfChunk, input, after
  <2>2. /\ pc' = "read" => FileRead'
        /\ pc' = "close" => FileDone'
        /\ pc' \in {"read", "close"}
    BY <1>1, <1>7, <2>1, ChunkDone
  <2>3. Kept' /\ Searched'
    BY <1>1, <2>1, <2>2, StillKept, StillSearched
  <2> QED BY <1>1, <2>1, <2>2, <2>3 DEF LoaderInv
<1>8. CASE CloseFile
  <2>1. /\ pc = "close" /\ UNCHANGED <<directory, status, loads>>
        /\ \/ f < Len(Kinds) /\ f' = f + 1 /\ pc' = "file"
           \/ f' = f /\ pc' = "idle" /\ inForce' = TRUE
    BY <1>8 DEF CloseFile
  <2>2. f' \in 1..Len(Kinds)
    BY <1>1, <2>1 DEF Kinds
  <2>3. Kept'
    <3>1. CASE r = 0
      <4>1. /\ loaded' = [loaded EXCEPT ![kind] = SubSeq(table, 1, index)]
            /\ origin' = [origin EXCEPT ![kind] = [document |-> document, split |-> split]]
        BY <1>8, <3>1 DEF CloseFile
      <4> QED BY <1>1, <2>1, <3>1, <4>1, TableKept
    <3>2. CASE r # 0
      <4>1. UNCHANGED <<loaded, origin>>
        BY <1>8, <3>2 DEF CloseFile
      <4> QED BY <1>1, <4>1, StillKept
    <3> QED BY <3>1, <3>2
  <2>4. Searched'
    <3>1. status \notin {"null", "garbage"}
      BY <1>1, <2>1 DEF Searched
    <3> QED BY <2>1, <3>1 DEF Searched, SearchesReadStrings
  <2> QED BY <1>1, <2>1, <2>2, <2>3, <2>4 DEF LoaderInv
<1>9. ASSUME NEW d \in DOMAIN Directories, Load(d) PROVE LoaderInv'
  <2>1. /\ pc = "idle" /\ pc' = "file" /\ directory' = d /\ f' = 1 /\ status = "ok" /\ status' = status
        /\ UNCHANGED <<loaded, origin>>
    BY <1>9 DEF Load, after
  <2>2. f' \in 1..Len(Kinds)
    BY <2>1 DEF Kinds
  <2>3. Kept'
    BY <1>1, <2>1, StillKept
  <2>4. Searched'
    BY <2>1 DEF Searched, SearchesReadStrings
  <2> QED BY <2>1, <2>2, <2>3, <2>4 DEF LoaderInv
<1>10. ASSUME NEW k \in KindSet, Search(k) PROVE LoaderInv'
  <2>1. /\ pc = "idle" /\ pc' = "idle" /\ status = "ok"
        /\ UNCHANGED <<directory, f, loaded, origin, inForce>>
        /\ \/ UNCHANGED <<status, searched>>
           \/ Follows(k, NULL) /\ status' = "null" /\ searched' = k
           \/ Follows(k, Garbage) /\ status' = "garbage" /\ searched' = k
    BY <1>10 DEF Search, input
  <2>2. Kept'
    BY <1>1, <2>1, StillKept
  <2>3. AllOf(k, Named) =>
          /\ ~Follows(k, Garbage)
          /\ Follows(k, NULL) => ~inForce \/ Len(origin[k].document) = 0 \/ ~AllOf(k, Valued)
    BY <1>1, FollowedIsWritten
  <2>4. inForce \/ Len(origin[k].document) = 0
    BY <1>1, <2>1 DEF Searched
  <2>5. /\ AllOf(k, Named)' = AllOf(k, Named)
        /\ AllOf(k, Valued)' = AllOf(k, Valued)
    BY <2>1 DEF AllOf
  <2>6. SearchesReadStrings'
    <3>1. CASE UNCHANGED <<status, searched>>
      BY <2>1, <3>1 DEF SearchesReadStrings
    <3>2. CASE Follows(k, NULL) /\ status' = "null" /\ searched' = k
      <4>1. ~AllOf(k, Named) \/ Len(origin[k].document) = 0 \/ ~AllOf(k, Valued)
        BY <2>3, <2>4, <3>2
      <4>2. ~AllOf(k, Named)' \/ Len(origin'[k].document) = 0 \/ ~AllOf(k, Valued)'
        BY <2>1, <2>5, <4>1
      <4>3. (~AllOf(searched, Named) \/ Len(origin[searched].document) = 0 \/ ~AllOf(searched, Valued))'
        BY <3>2, <4>2 DEF AllOf
      <4> QED BY <3>2, <4>3 DEF SearchesReadStrings
    <3>3. CASE Follows(k, Garbage) /\ status' = "garbage" /\ searched' = k
      BY <2>1, <2>3, <3>3 DEF SearchesReadStrings, AllOf
    <3> QED BY <2>1, <3>1, <3>2, <3>3
  <2>7. Searched'
    BY <1>1, <2>1, <2>6 DEF Searched
  <2> QED BY <1>1, <2>1, <2>2, <2>7 DEF LoaderInv
<1>11. CASE UNCHANGED vars
  <2>1. /\ UNCHANGED <<pc, directory, f, got, pos, final, path, r, loaded, origin, status, searched, inForce>>
        /\ Quiet
    BY <1>11 DEF vars, input, helper, after, Quiet
  <2>2. Kept'
    BY <1>1, <2>1, StillKept
  <2>3. Searched'
    <3> QED BY <1>1, <2>1 DEF Searched, SearchesReadStrings, AllOf
  <2>4. FileRead => FileRead'
    BY <2>1, FileStays
  <2>5. FileDone => FileDone'
    BY <2>1, FileStays
  <2> QED BY <1>1, <2>1, <2>2, <2>3, <2>4, <2>5 DEF LoaderInv
<1> QED BY <1>2, <1>3, <1>4, <1>5, <1>6, <1>7, <1>8, <1>9, <1>10, <1>11
        DEF Next, Step, Handler

\* The tables are right at all times.
THEOREM LoaderInvariant == Spec => []LoaderInv
<1>1. Init => LoaderInv
  BY LoaderStarts
<1>2. LoaderInv /\ [Next]_vars => LoaderInv'
  BY LoaderSteps
<1> QED BY <1>1, <1>2, PTL DEF Spec

\* The tables hold what one file says (TablesAreFiles).
THEOREM TablesAreAlwaysFiles == Spec => []TablesAreFiles
<1>1. LoaderInv => TablesAreFiles
  <2> SUFFICES ASSUME LoaderInv, NEW k \in KindSet
               PROVE  /\ AllOf(k, Complete) /\ ~origin[k].split => AsWritten(k)
                      /\ Len(loaded[k]) = Len(origin[k].document)
                      /\ \A n \in DOMAIN loaded[k] :
                           origin[k].document[n].code # <<>> =>
                             loaded[k][n].code = origin[k].document[n].code
    BY DEF TablesAreFiles
  <2>1. /\ Len(loaded[k]) = Len(origin[k].document)
        /\ DOMAIN loaded[k] = DOMAIN origin[k].document
        /\ \A n \in DOMAIN loaded[k] :
             EntryRight(k, origin[k].document[n], loaded[k][n], origin[k].split)
    BY DEF LoaderInv, Kept, TableRight
  <2>2. \A n \in DOMAIN loaded[k] :
          origin[k].document[n].code # <<>> => loaded[k][n].code = origin[k].document[n].code
    BY <2>1 DEF EntryRight
  <2>3. ASSUME AllOf(k, Complete), ~origin[k].split PROVE AsWritten(k)
    <3>1. ASSUME NEW n \in DOMAIN loaded[k]
          PROVE  Read(k, loaded[k][n]) = Written(k, origin[k].document[n])
      <4>1. Complete(k, origin[k].document[n])
        BY <2>1, <2>3 DEF AllOf
      <4> QED BY <2>1, <2>3, <4>1 DEF EntryRight
    <3> QED BY <2>1, <3>1 DEF AsWritten
  <2> QED BY <2>1, <2>2, <2>3
<1> QED BY <1>1, LoaderInvariant, PTL

\* Searches follow texts and lists (SearchesReadStrings).
THEOREM SearchesAlwaysReadStrings == Spec => []SearchesReadStrings
<1>1. LoaderInv => SearchesReadStrings
  BY DEF LoaderInv, Searched
<1> QED BY <1>1, LoaderInvariant, PTL

=============================================================================
