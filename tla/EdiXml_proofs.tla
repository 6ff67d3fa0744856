--------------------------- MODULE EdiXml_proofs ---------------------------
(***************************************************************************)
(* The conversion of a session writes nested text, and all of a segment    *)
(* that conforms; it reports one failure at a time, and meets nothing of   *)
(* the calls before it, for all tables, messages, options and numbers of   *)
(* calls.                                                                  *)
(***************************************************************************)
EXTENDS EdiXml, WellFoundedInduction, TLAPS

-----------------------------------------------------------------------------
(* Induction over numbers, what is defined by recursion over them, and     *)
(* sequences of anything.  The induction is stated of a set, because the   *)
(* provers cannot instantiate the library's, which is stated of an         *)
(* operator; it rests on the library's well-founded induction.             *)

\* Induction over the naturals, for a set of them.
LEMMA SetInduction ==
  ASSUME NEW T, 0 \in T, \A n \in Nat : n \in T => n + 1 \in T
  PROVE  \A n \in Nat : n \in T
<1> DEFINE U == Nat \ T
<1> SUFFICES ASSUME U # {} PROVE FALSE
  OBVIOUS
<1>1. PICK x \in U : \A y \in U : ~(<<y, x>> \in OpToRel(<, Nat))
  <2>1. U \subseteq Nat
    OBVIOUS
  <2> QED BY <2>1, NatLessThanWellFounded, WFMin, Zenon
<1>2. \A y \in U : ~(y < x)
  BY <1>1, Zenon DEF OpToRel
<1>3. x # 0 /\ x - 1 \in Nat /\ x - 1 \notin U
  BY <1>2
<1> QED BY <1>3

\* f is b at 0, and at n what F makes of n and of f at n - 1.
Unfolds(f, N, b, F) ==
  /\ f[0] = b
  /\ \A n \in 1..N : f[n] = F[<<n, f[n - 1]>>]

\* A function that is defined by recursion exists.
LEMMA Recursion ==
  ASSUME NEW S, NEW b \in S, NEW N \in Nat, NEW F \in [Nat \X S -> S]
  PROVE  \E f \in [0..N -> S] : Unfolds(f, N, b, F)
<1> DEFINE T == {n \in Nat : \E f \in [0..n -> S] : Unfolds(f, n, b, F)}
<1>1. 0 \in T
  <2>1. [n \in 0..0 |-> b] \in [0..0 -> S] /\ Unfolds([n \in 0..0 |-> b], 0, b, F)
    BY DEF Unfolds
  <2> QED BY <2>1
<1>2. ASSUME NEW n \in Nat, n \in T PROVE n + 1 \in T
  <2>1. PICK f \in [0..n -> S] : Unfolds(f, n, b, F)
    BY <1>2
  <2> DEFINE g == [q \in 0..(n + 1) |-> IF q <= n THEN f[q] ELSE F[<<n + 1, f[n]>>]]
  <2>2. g \in [0..(n + 1) -> S]
    <3>1. F[<<n + 1, f[n]>>] \in S
      OBVIOUS
    <3> QED BY <3>1
  <2>3. Unfolds(g, n + 1, b, F)
    <3>1. g[0] = b
      BY <2>1 DEF Unfolds
    <3>2. ASSUME NEW q \in 1..(n + 1) PROVE g[q] = F[<<q, g[q - 1]>>]
      <4>1. CASE q <= n
        <5>1. f[q] = F[<<q, f[q - 1]>>]
          BY <2>1, <4>1 DEF Unfolds
        <5>2. q - 1 \in 0..(n + 1) /\ q - 1 <= n /\ q \in 0..(n + 1)
          BY <4>1
        <5>3. g[q] = f[q] /\ g[q - 1] = f[q - 1]
          BY <5>2, <4>1
        <5> QED BY <5>1, <5>3
      <4>2. CASE q = n + 1
        <5>1. g[n] = f[n] /\ g[n + 1] = F[<<n + 1, f[n]>>]
          OBVIOUS
        <5>2. q - 1 = n
          BY <4>2
        <5> QED BY <4>2, <5>1, <5>2
      <4> QED BY <4>1, <4>2
    <3> QED BY <3>1, <3>2 DEF Unfolds
  <2>4. \E h \in [0..(n + 1) -> S] : Unfolds(h, n + 1, b, F)
    BY <2>2, <2>3
  <2> QED BY <2>4
<1>3. \A n \in Nat : n \in T
  <2> HIDE DEF T
  <2> QED BY <1>1, <1>2, SetInduction
<1> QED BY <1>3

-----------------------------------------------------------------------------
(* Sequences *)

\* A sequence over a set is one.
LEMMA SeqIsSeq ==
  ASSUME NEW S, NEW s \in Seq(S)
  PROVE  IsSeq(s)
<1>1. Len(s) \in Nat /\ DOMAIN s = 1..Len(s)
  OBVIOUS
<1>2. \A n \in 1..Len(s) : s[n] \in {s[m] : m \in DOMAIN s}
  BY <1>1
<1> QED BY <1>1, <1>2 DEF IsSeq

\* One sequence behind another
LEMMA IsSeqConcat ==
  ASSUME NEW s, NEW t, IsSeq(s), IsSeq(t)
  PROVE  /\ IsSeq(s \o t)
         /\ Len(s \o t) = Len(s) + Len(t)
         /\ \A n \in 1..Len(s) : (s \o t)[n] = s[n]
<1> DEFINE S == {s[n] : n \in DOMAIN s} \union {t[n] : n \in DOMAIN t}
<1>1. s \in Seq(S) /\ t \in Seq(S)
  BY DEF IsSeq
<1>2. s \o t \in Seq(S)
  <2> HIDE DEF S
  <2> QED BY <1>1
<1>3. IsSeq(s \o t)
  <2> HIDE DEF S
  <2> QED BY <1>2, SeqIsSeq
<1> QED
  <2> HIDE DEF S
  <2> QED BY <1>1, <1>3

\* It does not matter which two are put together first.
LEMMA ConcatAssociates ==
  ASSUME NEW s, NEW t, NEW u, IsSeq(s), IsSeq(t), IsSeq(u)
  PROVE  s \o (t \o u) = (s \o t) \o u
<1> DEFINE S == {s[n] : n \in DOMAIN s} \union {t[n] : n \in DOMAIN t} \union {u[n] : n \in DOMAIN u}
<1>1. s \in Seq(S) /\ t \in Seq(S) /\ u \in Seq(S)
  BY DEF IsSeq
<1> HIDE DEF S
<1> QED BY <1>1

-----------------------------------------------------------------------------
(* What a call writes                                                       *)

\* Single pieces, and none
LEMMA OneIsSeq ==
  ASSUME NEW p
  PROVE  IsSeq(<<p>>) /\ IsSeq(<<>>) /\ \A c : IsSeq(When(c, p))
<1>1. <<p>> \in Seq({p}) /\ <<>> \in Seq({p})
  OBVIOUS
<1>2. IsSeq(<<p>>) /\ IsSeq(<<>>)
  BY <1>1, SeqIsSeq
<1> QED BY <1>2 DEF When

\* The names in a text, and what LeftOpen computes of it
NamesIn(t) == {t[n].name : n \in 1..Len(t)} \union {<<"crossed", "">>}
Opens(t, f) ==
  /\ f \in [0..Len(t) -> Seq(NamesIn(t))]
  /\ f[0] = <<>>
  /\ \A n \in 1..Len(t) : f[n] = LeftBy(t[n], f[n - 1])

\* Sequences over a set stay such.
LEMMA SeqClosed ==
  ASSUME NEW N, NEW s \in Seq(N), NEW x \in N
  PROVE  /\ Append(s, x) \in Seq(N)
         /\ <<x>> \in Seq(N)
         /\ s # <<>> => Front(s) \in Seq(N)
<1>1. ASSUME s # <<>> PROVE Front(s) \in Seq(N)
  <2>1. Len(s) - 1 \in Nat /\ \A n \in 1..(Len(s) - 1) : s[n] \in N
    BY <1>1
  <2> QED BY <2>1 DEF Front
<1> QED BY <1>1

\* What Shut leaves is a sequence of names.
LEMMA ShutType ==
  ASSUME NEW N, NEW left \in Seq(N), NEW name \in N, <<"crossed", "">> \in N
  PROVE  Shut(left, name) \in Seq(N) /\ Append(left, name) \in Seq(N)
<1>1. Append(left, name) \in Seq(N) /\ (left # <<>> => Front(left) \in Seq(N))
  BY SeqClosed, Zenon
<1>2. Crossed \in Seq(N)
  BY SeqClosed, Zenon DEF Crossed
<1>3. CASE Innermost(left, name)
  BY <1>1, <1>3, Zenon DEF Shut, Innermost
<1>4. CASE ~Innermost(left, name)
  BY <1>1, <1>2, <1>4, Zenon DEF Shut
<1> QED BY <1>3, <1>4

\* What one piece leaves is a sequence of names.
LEMMA LeftByType ==
  ASSUME NEW N, NEW left \in Seq(N), NEW p, p.name \in N, <<"crossed", "">> \in N
  PROVE  LeftBy(p, left) \in Seq(N)
<1> DEFINE name == p.name
<1>1. Shut(left, name) \in Seq(N) /\ Append(left, name) \in Seq(N)
  BY ShutType
<1>2. Crossed \in Seq(N)
  BY SeqClosed, Zenon DEF Crossed
<1> QED BY <1>1, <1>2 DEF LeftBy

\* The recursion in LeftOpen defines a function, and LeftOpen is its last value.
LEMMA LeftOpenUnfolds ==
  ASSUME NEW t, IsSeq(t)
  PROVE  \E f : Opens(t, f) /\ LeftOpen(t) = f[Len(t)]
<1> DEFINE S == Seq(NamesIn(t))
           F == [x \in Nat \X S |-> IF x[1] \in 1..Len(t) THEN LeftBy(t[x[1]], x[2]) ELSE <<>>]
           Body(f) == [n \in 0..Len(t) |-> IF n = 0 THEN <<>> ELSE LeftBy(t[n], f[n - 1])]
<1>1. Len(t) \in Nat
  BY DEF IsSeq
<1>2. \A n \in 1..Len(t), left \in S : LeftBy(t[n], left) \in S
  <2> TAKE n \in 1..Len(t), left \in S
  <2>1. t[n].name \in NamesIn(t) /\ <<"crossed", "">> \in NamesIn(t)
    BY DEF NamesIn
  <2> QED BY <2>1, LeftByType
<1>3. <<>> \in S
  OBVIOUS
<1>4. F \in [Nat \X S -> S]
  <2> HIDE DEF S
  <2> QED BY <1>2, <1>3
<1>5. PICK f \in [0..Len(t) -> S] : Unfolds(f, Len(t), <<>>, F)
  <2> HIDE DEF S, F
  <2> QED BY <1>1, <1>3, <1>4, Recursion
<1>6. \A n \in 1..Len(t) : f[n] = LeftBy(t[n], f[n - 1])
  <2> TAKE n \in 1..Len(t)
  <2>1. n - 1 \in 0..Len(t) /\ n \in Nat
    BY <1>1
  <2>2. f[n - 1] \in S
    BY <2>1, <1>5
  <2>3. F[<<n, f[n - 1]>>] = LeftBy(t[n], f[n - 1])
    <3> HIDE DEF S
    <3> QED BY <2>1, <2>2
  <2> QED BY <2>3, <1>5 DEF Unfolds
<1>7. f = Body(f)
  <2> HIDE DEF S
  <2> QED BY <1>1, <1>5, <1>6 DEF Unfolds
<1> DEFINE g == CHOOSE h : h = Body(h)
<1>8. g = Body(g)
  <2> HIDE DEF Body
  <2> QED BY <1>7
<1>9. LeftOpen(t) = g[Len(t)]
  BY Zenon DEF LeftOpen
<1>10. \A n \in Nat : n \in {m \in Nat : m <= Len(t) => g[m] = f[m]}
  <2> DEFINE T == {m \in Nat : m <= Len(t) => g[m] = f[m]}
  <2> HIDE DEF g
  <2>1. g[0] = <<>> /\ \A n \in 1..Len(t) : g[n] = LeftBy(t[n], g[n - 1])
    BY <1>8, <1>1
  <2>2. 0 \in T
    BY <2>1, <1>5 DEF Unfolds
  <2>3. ASSUME NEW n \in Nat, n \in T PROVE n + 1 \in T
    <3> SUFFICES ASSUME n + 1 <= Len(t) PROVE g[n + 1] = f[n + 1]
      OBVIOUS
    <3>1. g[n] = f[n] /\ n + 1 \in 1..Len(t) /\ (n + 1) - 1 = n
      BY <2>3, <1>1
    <3> QED BY <3>1, <2>1, <1>6
  <2> HIDE DEF T
  <2>4. \A n \in Nat : n \in T
    BY <2>2, <2>3, SetInduction
  <2> QED BY <2>4 DEF T
<1>11. g[Len(t)] = f[Len(t)]
  <2> HIDE DEF g
  <2> QED BY <1>10, <1>1
<1>12. Opens(t, f)
  <2> HIDE DEF F
  <2> QED BY <1>5, <1>6 DEF Opens, Unfolds
<1> QED
  <2> HIDE DEF g
  <2> QED BY <1>9, <1>11, <1>12

\* Nothing leaves nothing open.
LEMMA LeftOpenEmpty == LeftOpen(<<>>) = <<>>
<1>1. IsSeq(<<>>) /\ Len(<<>>) = 0
  BY OneIsSeq
<1>2. PICK f : Opens(<<>>, f) /\ LeftOpen(<<>>) = f[Len(<<>>)]
  BY <1>1, LeftOpenUnfolds
<1> QED BY <1>1, <1>2 DEF Opens

\* One piece more changes what is left open by that piece.
LEMMA LeftOpenOne ==
  ASSUME NEW t, IsSeq(t), NEW p
  PROVE  /\ IsSeq(t \o <<p>>)
         /\ LeftOpen(t \o <<p>>) = LeftBy(p, LeftOpen(t))
<1> DEFINE u == t \o <<p>>
<1>1. /\ IsSeq(u) /\ Len(t) \in Nat /\ Len(u) = Len(t) + 1
      /\ \A n \in 1..Len(t) : u[n] = t[n]
  <2>1. IsSeq(<<p>>) /\ Len(<<p>>) = 1
    BY OneIsSeq
  <2>2. Len(t) \in Nat
    BY DEF IsSeq
  <2> QED BY <2>1, <2>2, IsSeqConcat
<1>2. u[Len(t) + 1] = p
  <2>1. t \in Seq({t[n] : n \in DOMAIN t} \union {p}) /\ <<p>> \in Seq({t[n] : n \in DOMAIN t} \union {p})
    BY DEF IsSeq
  <2> DEFINE S == {t[n] : n \in DOMAIN t} \union {p}
  <2>2. \A T : \A a \in Seq(T), b \in T : (a \o <<b>>)[Len(a) + 1] = b
    OBVIOUS
  <2> QED BY <2>1, <2>2
<1>3. PICK f : Opens(t, f) /\ LeftOpen(t) = f[Len(t)]
  BY LeftOpenUnfolds
<1>4. PICK g : Opens(u, g) /\ LeftOpen(u) = g[Len(u)]
  <2> HIDE DEF u
  <2> QED BY <1>1, LeftOpenUnfolds
<1> HIDE DEF u
<1> DEFINE T == {n \in Nat : n <= Len(t) => g[n] = f[n]}
<1>5. 0 \in T
  BY <1>3, <1>4 DEF Opens
<1>6. ASSUME NEW n \in Nat, n \in T PROVE n + 1 \in T
  <2> SUFFICES ASSUME n + 1 <= Len(t) PROVE g[n + 1] = f[n + 1]
    OBVIOUS
  <2>1. g[n] = f[n] /\ n + 1 \in 1..Len(t) /\ (n + 1) - 1 = n /\ n + 1 \in 1..Len(u)
    BY <1>1, <1>6
  <2>2. f[n + 1] = LeftBy(t[n + 1], f[n])
    BY <1>3, <2>1 DEF Opens
  <2>3. g[n + 1] = LeftBy(u[n + 1], g[n])
    BY <1>4, <2>1 DEF Opens
  <2> QED BY <2>1, <2>2, <2>3, <1>1
<1>7. \A n \in Nat : n \in T
  <2> HIDE DEF T
  <2> QED BY <1>5, <1>6, SetInduction
<1>8. g[Len(t)] = f[Len(t)]
  BY <1>1, <1>7
<1>9. Len(u) \in 1..Len(u) /\ Len(u) - 1 = Len(t)
  BY <1>1
<1>10. g[Len(u)] = LeftBy(p, g[Len(t)])
  BY <1>1, <1>2, <1>4, <1>9 DEF Opens
<1> QED BY <1>1, <1>3, <1>4, <1>8, <1>10 DEF u

\* What is left open is a sequence.
LEMMA LeftOpenIsSeq ==
  ASSUME NEW t, IsSeq(t)
  PROVE  IsSeq(LeftOpen(t))
<1>1. PICK f : Opens(t, f) /\ LeftOpen(t) = f[Len(t)]
  BY LeftOpenUnfolds
<1>2. Len(t) \in 0..Len(t)
  BY DEF IsSeq
<1>3. f[Len(t)] \in Seq(NamesIn(t))
  BY <1>1, <1>2 DEF Opens
<1> QED BY <1>1, <1>3, SeqIsSeq

\* What was opened last is what can be closed.
LEMMA ShutOpened ==
  ASSUME NEW left, IsSeq(left), NEW name
  PROVE  /\ Shut(Append(left, name), name) = left /\ IsSeq(Append(left, name))
         /\ Innermost(Append(left, name), name)
<1> DEFINE S == {left[n] : n \in DOMAIN left} \union {name}
<1>1. left \in Seq(S) /\ name \in S
  BY DEF IsSeq
<1>2. \A T : \A s \in Seq(T), x \in T :
        /\ Append(s, x) \in Seq(T) /\ Append(s, x) # <<>>
        /\ Append(s, x)[Len(Append(s, x))] = x
        /\ SubSeq(Append(s, x), 1, Len(Append(s, x)) - 1) = s
  OBVIOUS
<1> HIDE DEF S
<1>3. /\ Append(left, name) \in Seq(S) /\ Append(left, name) # <<>>
      /\ Last(Append(left, name)) = name /\ Front(Append(left, name)) = left
  BY <1>1, <1>2 DEF Last, Front
<1>4. IsSeq(Append(left, name))
  BY <1>3, SeqIsSeq
<1> QED BY <1>3, <1>4 DEF Shut, Innermost

-----------------------------------------------------------------------------
(* What the steps do                                                        *)

\* Within a segment, and within a conversion
Working == {"open", "child", "value", "tail", "end"}
Converting == Working \union {"segment"}

\* All of w is written.
Complete(w, next, np) ==
  /\ out' = out \o (w.before \o w.after)
  /\ pc' = next /\ Stand(np)
  /\ UNCHANGED <<session, outbufptr, conv, failure, rc, result, status, owed>>

\* An exception is thrown and caught.
Thrown ==
  /\ excp = NoText /\ Catch
  /\ conv = "open" 
  /\ UNCHANGED <<session, outbufptr, conv, result, status>>

\* The program stops for a reason that is there.
Broken ==
  /\ \E how : Breaks(how)
  /\ status' = "dangling" => outbufptr = "dangling"
  /\ status' = "handle" => conv \in {"zero", "closed"}
  /\ status' = "assert" => excp # NoText

\* To stop for a reason that is there is to be broken.
LEMMA BreaksStatus ==
  ASSUME NEW how, Breaks(how), how # "dangling" \/ outbufptr = "dangling",
         how # "handle" \/ conv \in {"zero", "closed"}, how # "assert" \/ excp # NoText
  PROVE  Broken
BY Zenon DEF Broken, Breaks

\* What is written goes through, throws or stops the program.
LEMMA WrittenShape ==
  ASSUME NEW w, NEW next, NEW np, Written(w, next, np)
  PROVE  Complete(w, next, np) \/ Thrown \/ Broken
<1> DEFINE thrown == Throws(w.texts)
           pieces == IF thrown THEN w.before \o Error ELSE w.before \o w.after
<1>1. CASE outbufptr = "dangling" /\ Breaks("dangling")
  BY <1>1, BreaksStatus
<1>2. CASE Uses(w.texts) /\ conv \in {"zero", "closed"} /\ Breaks("handle")
  BY <1>2, BreaksStatus
<1>3. CASE Breaks("overflow") \/ Breaks("arguments")
  BY <1>3, BreaksStatus
<1>4. CASE thrown /\ excp # NoText /\ Breaks("assert")
  BY <1>4, BreaksStatus
<1>5. CASE /\ ~(thrown /\ excp # NoText)
           /\ Emit(pieces)
           /\ IF thrown THEN Catch
              ELSE pc' = next /\ Stand(np) /\ UNCHANGED <<failure, rc, owed>>
           /\ UNCHANGED <<session, conv, result, status>>
  <2>1. CASE thrown
    <3>1. excp = NoText /\ Catch /\ conv = "open" /\ UNCHANGED outbufptr
      BY <1>5, <2>1, Zenon DEF Throws, Emit
    <3> QED BY <1>5, <3>1, Zenon DEF Thrown
  <2>2. CASE ~thrown
    <3>1. out' = out \o (w.before \o w.after) /\ UNCHANGED outbufptr
      BY <1>5, <2>2, Zenon DEF Emit
    <3> QED BY <1>5, <2>2, <3>1, Zenon DEF Complete
  <2> QED BY <2>1, <2>2
<1> QED BY <1>1, <1>2, <1>3, <1>4, <1>5, Zenon DEF Written

\* On to another place
Moved ==
  /\ pc \in Converting
  /\ \/ pc \in Working /\ pc' \in Working /\ i' = i
     \/ pc' \in {"segment", "return"}
  /\ UNCHANGED <<session, outbufptr, conv, failure, result, status, owed>>

\* A step that writes
LEMMA WrittenMoves ==
  ASSUME NEW w, NEW next, NEW np, Written(w, next, np), pc \in Working,
         \/ next \in Working /\ np[1] = i
         \/ next = "segment"
  PROVE  Moved \/ Thrown \/ Broken
<1>1. CASE Complete(w, next, np)
  BY <1>1 DEF Complete, Moved, Stand, Converting
<1> QED BY <1>1, WrittenShape

\* A step that writes nothing
LEMMA GotoMoves ==
  ASSUME NEW next, NEW np, Goto(next, np), pc \in Converting,
         \/ pc \in Working /\ next \in Working /\ np[1] = i
         \/ next \in {"segment", "return"}
  PROVE  Moved
BY DEF Goto, Moved, Stand, buffer

\* Following a NULL pointer stops the program.
LEMMA NullBreaks ==
  ASSUME Breaks("null")
  PROVE  Broken
BY BreaksStatus

\* The steps of a conversion, by what they do to all but the text
LEMMA StepShape ==
  ASSUME Step
  PROVE  \/ Moved
         \/ Thrown /\ pc \in Working
         \/ Broken /\ pc \in Converting
         \/ BeginSegment \/ ReturnConv2 \/ ReturnMain \/ ReturnBare
<1> DEFINE Goal == Moved \/ (Thrown /\ pc \in Working) \/ (Broken /\ pc \in Converting)
<1>0. /\ place[1] = i /\ NextChild[1] = i /\ <<i, 1, 0>>[1] = i
      /\ <<i, k, 1>>[1] = i /\ <<i, k, j + 1>>[1] = i
  BY DEF place, NextChild
<1>w. Working \subseteq Converting /\ "segment" \in Converting
  BY DEF Converting
<1>1. CASE EndOfSegments
  BY <1>1, <1>0, <1>w, GotoMoves DEF EndOfSegments
<1>2. CASE TagIsNull
  BY <1>2, <1>w, NullBreaks DEF TagIsNull
<1>3. CASE OpenSegment
  <2>1. pc \in Working /\ "child" \in Working /\ "end" \in Working
    BY <1>3 DEF OpenSegment, Working
  <2> QED BY <1>3, <2>1, <1>0, <1>w, WrittenMoves DEF OpenSegment
<1>4. CASE CloseSegment
  <2>1. pc \in Working /\ "end" \in Working
    BY <1>4 DEF CloseSegment, Working
  <2> QED BY <1>4, <2>1, <1>0, <1>w, WrittenMoves DEF CloseSegment
<1>5. CASE EndSegment
  <2>1. pc \in Working
    BY <1>5 DEF EndSegment, Working
  <2> QED BY <1>5, <2>1, <1>w, WrittenMoves DEF EndSegment
<1>6. CASE EndOfChildren
  <2>1. pc \in Working /\ "tail" \in Working
    BY <1>6 DEF EndOfChildren, Working
  <2> QED BY <1>6, <2>1, <1>0, <1>w, GotoMoves DEF EndOfChildren
<1>7. CASE UnknownComposite
  <2>1. pc \in Working
    BY <1>7 DEF UnknownComposite, AtChild, Working
  <2> QED BY <1>7, <2>1, <1>w, NullBreaks DEF UnknownComposite
<1>8. CASE SkipChild
  <2>1. pc \in Working /\ "child" \in Working
    BY <1>8 DEF SkipChild, AtChild, Working
  <2> QED BY <1>8, <2>1, <1>0, <1>w, GotoMoves DEF SkipChild
<1>9. CASE PassOver
  <2>1. pc \in Working /\ "child" \in Working
    BY <1>9 DEF PassOver, AtChild, Working
  <2> QED BY <1>9, <2>1, <1>0, <1>w, WrittenMoves DEF PassOver
<1>10. CASE Mandatory
  <2>1. pc \in Working /\ AfterMandatory \in Working
    BY <1>10 DEF Mandatory, AtChild, Working, AfterMandatory
  <2> QED BY <1>10, <2>1, <1>0, <1>w, WrittenMoves DEF Mandatory
<1>11. CASE SimpleElement
  <2>1. pc \in Working /\ "child" \in Working
    BY <1>11 DEF SimpleElement, AtChild, Working
  <2> QED BY <1>11, <2>1, <1>0, <1>w, WrittenMoves DEF SimpleElement
<1>12. CASE OpenComposite
  <2>1. pc \in Working /\ "value" \in Working
    BY <1>12 DEF OpenComposite, AtChild, Working
  <2> QED BY <1>12, <2>1, <1>0, <1>w, WrittenMoves DEF OpenComposite
<1>13. CASE Component
  <2>1. pc \in Working /\ "value" \in Working
    BY <1>13 DEF Component, Working
  <2> QED BY <1>13, <2>1, <1>0, <1>w, WrittenMoves DEF Component
<1>14. CASE CloseComposite
  <2>1. pc \in Working /\ "child" \in Working
    BY <1>14 DEF CloseComposite, Working
  <2> QED BY <1>14, <2>1, <1>0, <1>w, WrittenMoves DEF CloseComposite
<1> QED
  BY <1>1, <1>2, <1>3, <1>4, <1>5, <1>6, <1>7, <1>8, <1>9, <1>10, <1>11, <1>12, <1>13, <1>14
     DEF Step

-----------------------------------------------------------------------------
(* Reports, and what earlier calls leave behind                             *)

\* The three records of a failure are of the same one, for as long as it can be
\* reported, and while a segment is converted its offset is the one to record.
FailureInv ==
  /\ owed \in {"no", "yes", "overdue"}
  /\ owed = "no" => excp = NoText
  /\ owed = "yes" => /\ pc \notin Converting
                     /\ errOffset = excp /\ errSegment = excp
  /\ pc \in Working => errOffset = <<calls, i>>
  /\ result.kind = "report" /\ owed # "overdue" =>
       result.text[1] = result.text[2] /\ result.text[1] = result.text[3]

\* What a conversion uses it has set up itself.
SessionInv ==
  /\ status # "ok" => pc = "stopped"
  /\ pc \in Converting => \/ mode = "bare"
                          \/ outbufptr = "live" /\ conv \in {"none", "open"}
  /\ EarlierCallsDoNotShow

\* A call begins: the failures before it are asked for or overdue.
LEMMA ConvertKeepsFailureInv ==
  ASSUME FailureInv, NEW m, NEW parsed \in BOOLEAN, Convert(m, parsed)
  PROVE  FailureInv'
<1>1. result'.kind = "none"
  BY DEF Convert, NoResult
<1>2. owed' \in {"no", "overdue"} /\ (owed' = "no" => owed = "no") /\ excp' = excp
      /\ pc' \notin Working
  BY DEF Convert, FailureInv, Working
<1> QED BY <1>1, <1>2 DEF FailureInv

\* Every step keeps FailureInv.
LEMMA FailureInvInductive ==
  ASSUME FailureInv, [Next]_vars
  PROVE  FailureInv'
<1>1. CASE Step
  <2>1. CASE Moved
    BY <2>1 DEF FailureInv, Moved, session, failure, Working, Converting
  <2>2. CASE Thrown /\ pc \in Working
    BY <2>2 DEF FailureInv, Thrown, Catch, session, Working, Converting, NoText
  <2>3. CASE Broken /\ pc \in Converting
    BY <2>3 DEF FailureInv, Broken, Breaks, session, failure, place, Working, Converting
  <2>4. CASE BeginSegment
    BY <2>4 DEF FailureInv, BeginSegment, session, place, Working, Converting, Offset
  <2>5. CASE ReturnConv2
    <3>1. result'.kind # "report"
      BY <2>5 DEF ReturnConv2
    <3> QED BY <2>5, <3>1 DEF FailureInv, ReturnConv2, session, failure, place, Working, Converting
  <2>6. CASE ReturnMain
    <3>1. result'.kind # "report"
      BY <2>6 DEF ReturnMain
    <3> QED BY <2>6, <3>1 DEF FailureInv, ReturnMain, session, failure, place, Working, Converting
  <2>7. CASE ReturnBare
    BY <2>7 DEF FailureInv, ReturnBare, session, failure, place, Working, Converting
  <2> QED BY <1>1, <2>1, <2>2, <2>3, <2>4, <2>5, <2>6, <2>7, StepShape
<1>2. CASE Call
  <2>1. CASE \E m, parsed : parsed \in BOOLEAN /\ Convert(m, parsed)
    BY <2>1, ConvertKeepsFailureInv
  <2>2. CASE Report
    <3>1. result'.kind = "report" /\ result'.text = <<excp, errOffset, errSegment>>
      BY <2>2 DEF Report
    <3>2. owed' # "overdue" => owed = "yes"
      BY <2>2 DEF Report, FailureInv
    <3> QED BY <2>2, <3>1, <3>2 DEF FailureInv, Report, session, place, Working, Converting, TextAfterReport, NoText
  <2>3. CASE ReportNothing
    BY <2>3 DEF ReportNothing, Breaks, FailureInv, session, failure, place, Working, Converting
  <2> QED BY <1>2, <2>1, <2>2, <2>3 DEF Call, Conv2, Main, Bare
<1>3. CASE UNCHANGED vars
  BY <1>3 DEF vars, session, failure, place, FailureInv
<1> QED BY <1>1, <1>2, <1>3 DEF Next

\* A call begins: output_init sets up all that a conversion uses.
LEMMA ConvertKeepsSessionInv ==
  ASSUME SessionInv, NEW m, NEW parsed \in BOOLEAN, Convert(m, parsed),
         \/ mode' = "bare"
         \/ mode' \in {"conv2", "main"} /\ \E enc : OutputInit(enc)
  PROVE  SessionInv'
<1>1. pc = "idle" /\ status = "ok" /\ status' = "ok"
  BY DEF Convert, SessionInv
<1>2. mode' = "bare" \/ (outbufptr' = "live" /\ conv' \in {"none", "open"})
  BY DEF OutputInit, HandleAfterInit
<1> QED BY <1>1, <1>2 DEF SessionInv, EarlierCallsDoNotShow

\* Every step keeps SessionInv.
LEMMA SessionInvInductive ==
  ASSUME FailureInv, SessionInv, [Next]_vars
  PROVE  SessionInv'
<1>1. CASE Step
  <2>1. CASE Moved
    BY <2>1 DEF SessionInv, EarlierCallsDoNotShow, Moved, session, Working, Converting
  <2>2. CASE Thrown /\ pc \in Working
    BY <2>2 DEF SessionInv, EarlierCallsDoNotShow, Thrown, Catch, session, Working, Converting
  <2>3. CASE Broken /\ pc \in Converting
    <3>1. /\ pc' = "stopped"
          /\ status' = "dangling" => outbufptr = "dangling"
          /\ status' = "handle" => conv \in {"zero", "closed"}
          /\ status' = "assert" => excp # NoText
          /\ mode' = mode /\ owed' = owed
      BY <2>3 DEF Broken, Breaks, session
    <3>2. excp # NoText => owed = "overdue"
      BY <2>3 DEF FailureInv
    <3>3. mode = "bare" \/ (outbufptr = "live" /\ conv \in {"none", "open"})
      BY <2>3 DEF SessionInv
    <3> QED BY <3>1, <3>2, <3>3 DEF SessionInv, EarlierCallsDoNotShow, Working, Converting
  <2>4. CASE BeginSegment
    BY <2>4 DEF SessionInv, EarlierCallsDoNotShow, BeginSegment, session, buffer, Working, Converting
  <2>5. CASE ReturnConv2
    BY <2>5 DEF SessionInv, EarlierCallsDoNotShow, ReturnConv2, session, Working, Converting
  <2>6. CASE ReturnMain
    BY <2>6 DEF SessionInv, EarlierCallsDoNotShow, ReturnMain, session, Working, Converting
  <2>7. CASE ReturnBare
    BY <2>7 DEF SessionInv, EarlierCallsDoNotShow, ReturnBare, session, Working, Converting
  <2> QED BY <1>1, <2>1, <2>2, <2>3, <2>4, <2>5, <2>6, <2>7, StepShape
<1>2. CASE Call
  <2>1. CASE \E m, enc, parsed : parsed \in BOOLEAN /\ (Conv2(m, parsed, enc) \/ Main(m, parsed, enc))
    BY <2>1, ConvertKeepsSessionInv DEF Conv2, Main
  <2>2. CASE \E m : Bare(m)
    BY <2>2, ConvertKeepsSessionInv DEF Bare
  <2>3. CASE Report
    BY <2>3 DEF SessionInv, EarlierCallsDoNotShow, Report, session, Working, Converting
  <2>4. CASE ReportNothing
    BY <2>4 DEF ReportNothing, Breaks, SessionInv, EarlierCallsDoNotShow, session, Working, Converting
  <2> QED BY <1>2, <2>1, <2>2, <2>3, <2>4 DEF Call
<1>3. CASE UNCHANGED vars
  BY <1>3 DEF vars, session, buffer, SessionInv, EarlierCallsDoNotShow
<1> QED BY <1>1, <1>2, <1>3 DEF Next

\* excp, errOffset and errSegment are of one failure from the throw to the report, and a
\* conversion by conv2 or the program has a live buffer and a handle of its own (conv.c:273-355, output.c:18-41).
THEOREM FailureInvariant == Spec => [](FailureInv /\ SessionInv)
<1>1. Init => FailureInv /\ SessionInv
  BY DEF Init, FailureInv, SessionInv, EarlierCallsDoNotShow, Working, Converting, NoText, NoResult
<1>2. FailureInv /\ SessionInv /\ [Next]_vars => FailureInv' /\ SessionInv'
  BY FailureInvInductive, SessionInvInductive
<1> QED BY <1>1, <1>2, PTL DEF Spec

\* ReportIsOfOneFailure holds for all tables, messages and numbers of calls (conv.c:284, 301, 317).
THEOREM ReportsAreOfOneFailure == Spec => []ReportIsOfOneFailure
<1>1. FailureInv => ReportIsOfOneFailure
  BY DEF FailureInv, ReportIsOfOneFailure
<1> QED BY <1>1, FailureInvariant, PTL

\* However many calls came before, a conversion by edi2xml_conv2 or by the program
\* never uses a handle that is closed or a buffer that is gone (output.c:18-41), and
\* fails the assertion of excep.c:12 only behind a failure that nobody asked for.
\* Nothing is said of sessions that call edi2xml_conv itself, nor of the text.
THEOREM EarlierCallsNeverShow == Spec => []EarlierCallsDoNotShow
<1>1. SessionInv => EarlierCallsDoNotShow
  BY DEF SessionInv
<1> QED BY <1>1, FailureInvariant, PTL

-----------------------------------------------------------------------------
(* What a text leaves open                                                  *)

\* Written after a text that leaves l open, s makes one that leaves r open.
Takes(s, l, r) ==
  /\ IsSeq(s)
  /\ \A t : IsSeq(t) /\ LeftOpen(t) = l => IsSeq(t \o s) /\ LeftOpen(t \o s) = r

\* One piece
LEMMA TakesOne ==
  ASSUME NEW p, NEW l
  PROVE  Takes(<<p>>, l, LeftBy(p, l))
BY OneIsSeq, LeftOpenOne DEF Takes

\* No piece
LEMMA TakesNothing ==
  ASSUME NEW l
  PROVE  Takes(<<>>, l, l)
<1>1. ASSUME NEW t, IsSeq(t) PROVE t \o <<>> = t
  BY <1>1 DEF IsSeq
<1> QED BY <1>1, OneIsSeq DEF Takes

\* One text behind another
LEMMA TakesThen ==
  ASSUME NEW s, NEW u, NEW l, NEW m, NEW r, Takes(s, l, m), Takes(u, m, r)
  PROVE  Takes(s \o u, l, r)
<1>1. IsSeq(s \o u)
  BY IsSeqConcat DEF Takes
<1>2. ASSUME NEW t, IsSeq(t), LeftOpen(t) = l
      PROVE  IsSeq(t \o (s \o u)) /\ LeftOpen(t \o (s \o u)) = r
  <2>1. t \o (s \o u) = (t \o s) \o u
    BY <1>2, ConcatAssociates DEF Takes
  <2>2. IsSeq(t \o s) /\ LeftOpen(t \o s) = m
    BY <1>2 DEF Takes
  <2> QED BY <2>1, <2>2 DEF Takes
<1> QED BY <1>1, <1>2 DEF Takes

\* A piece that opens and closes nothing
LEMMA TakesNeutral ==
  ASSUME NEW p, p.kind \notin {"open", "close", "text"}, NEW l
  PROVE  Takes(<<p>>, l, l) /\ \A c : Takes(When(c, p), l, l)
<1>1. LeftBy(p, l) = l
  BY DEF LeftBy
<1> QED BY <1>1, TakesOne, TakesNothing DEF When

\* A start tag
LEMMA TakesOpen ==
  ASSUME NEW ns, NEW n, NEW l
  PROVE  Takes(<<Open(ns, n)>>, l, Append(l, <<ns, n>>))
<1>1. LeftBy(Open(ns, n), l) = Append(l, <<ns, n>>)
  BY DEF LeftBy, Open, Piece
<1> QED BY <1>1, TakesOne

\* The end tag of what was opened last
LEMMA TakesClose ==
  ASSUME NEW ns, NEW n, NEW l, IsSeq(l)
  PROVE  Takes(<<Close(ns, n)>>, Append(l, <<ns, n>>), l)
<1> DEFINE a == Append(l, <<ns, n>>)
<1>1. LeftBy(Close(ns, n), a) = Shut(a, <<ns, n>>)
  BY DEF LeftBy, Close, Piece
<1>2. Shut(a, <<ns, n>>) = l
  BY ShutOpened
<1> QED BY <1>1, <1>2, TakesOne

\* A text in its element
LEMMA TakesText ==
  ASSUME NEW name, NEW at, NEW l, IsSeq(l)
  PROVE  LET a == Append(l, <<"E", name>>)
         IN  Takes(<<Text(name, at)>>, a, a)
<1> DEFINE a == Append(l, <<"E", name>>)
<1>1. Innermost(a, <<"E", name>>)
  BY ShutOpened
<1>2. Text(name, at).kind = "text" /\ Text(name, at).name = <<"E", name>>
  BY DEF Text, Piece
<1> HIDE DEF a
<1>3. LeftBy(Text(name, at), a) = a
  BY <1>1, <1>2 DEF LeftBy
<1> QED BY <1>3, TakesOne DEF a

\* Errors and comments open and close nothing.
LEMMA TakesPlain ==
  ASSUME NEW l
  PROVE  /\ Takes(Error, l, l)
         /\ Takes(<<Comment>>, l, l) /\ \A c : Takes(When(c, Comment), l, l)
<1>1. Comment.kind = "comment" /\ \A at : Complaint(at).kind = "error"
  BY DEF Comment, Complaint, Piece
<1> QED BY <1>1, TakesNeutral DEF Error

\* What element_to_xml writes closes what it opens, known or unknown.
LEMMA TakesElement ==
  ASSUME NEW name, NEW val, NEW at, NEW l, IsSeq(l)
  PROVE  LET w == ElementToXml(name, val, at)
         IN  Takes(w.before \o w.after, l, l)
<1> DEFINE w == ElementToXml(name, val, at)
           comment == When(opts.names, Comment)
           code == When(Known(name, val) /\ opts.codes, Comment)
           a == Append(l, <<"E", name>>)
<1>1. CASE name \notin DOMAIN Elements
  <2>1. w.before = comment \o Error /\ w.after = <<>>
    BY <1>1 DEF ElementToXml, Plain, Write
  <2>2. Takes(comment \o Error, l, l)
    BY TakesPlain, TakesThen
  <2> QED BY <2>1, <2>2, TakesNothing, TakesThen
<1>2. CASE name \in DOMAIN Elements
  <2>1. /\ w.before = comment \o <<Open("E", name)>> \o code
        /\ w.after = <<Text(name, at), Close("E", name)>>
    BY <1>2 DEF ElementToXml, Write
  <2>2. Takes(comment \o <<Open("E", name)>>, l, a)
    BY TakesPlain, TakesOpen, TakesThen
  <2>3. Takes(comment \o <<Open("E", name)>> \o code, l, a)
    BY <2>2, TakesPlain, TakesThen
  <2>4. <<Text(name, at), Close("E", name)>> = <<Text(name, at)>> \o <<Close("E", name)>>
    OBVIOUS
  <2>5. Takes(<<Text(name, at)>> \o <<Close("E", name)>>, a, l)
    BY TakesText, TakesClose, TakesThen
  <2> QED BY <2>1, <2>3, <2>4, <2>5, TakesThen
<1> QED BY <1>1, <1>2

\* Nor is anything open behind the comment on a missing element.
LEMMA TakesMissing ==
  ASSUME NEW name, NEW l
  PROVE  LET w == ElementMissing(name)
         IN  Takes(w.before \o w.after, l, l)
<1>1. ElementMissing(name).before = <<>> /\ ElementMissing(name).after = When(opts.names, Comment)
  BY DEF ElementMissing, Write
<1> QED BY <1>1, TakesNothing, TakesPlain, TakesThen

-----------------------------------------------------------------------------
(* Nesting                                                                  *)

Headers  == {"UNB", "UNG", "UNH"}
Trailers == {"UNZ", "UNE", "UNT"}

\* What the envelopes of the first n segments of m leave open; the same for
\* what is before segment a, with its header; and what is left open at a place.
Outer(m, n)  == LeftOpen(SubSeq(Envelopes(m), 1, n))
Headed(m, a) == IF m[a].tag \in Headers THEN Outer(m, a) ELSE Outer(m, a - 1)
Inside(m, a) == Append(Headed(m, a), <<"S", m[a].tag>>)
LeftAt(m, p, a, b) ==
  CASE p \in {"segment", "open"} -> Outer(m, a - 1)
    [] p \in {"child", "tail"} -> Inside(m, a)
    [] p = "value" -> Append(Inside(m, a), <<"C", Segments[m[a].tag][b].name>>)
    [] p = "end" -> Headed(m, a)
    [] OTHER -> Outer(m, Len(m))

\* The text so far leaves open what its place says.
NestingInv ==
  /\ IsSeq(msg)
  /\ pc \in Converting => i \in 1..(Len(msg) + 1) /\ rc = 0
  /\ pc \in Working => i <= Len(msg)
  /\ pc \in Converting \/ (pc = "return" /\ rc = 0) =>
       IsSeq(out) /\ LeftOpen(out) = LeftAt(msg, pc, i, k)
  /\ ReturnedNested

\* What the envelopes leave open, segment by segment
LEMMA OuterFacts ==
  ASSUME NEW m, IsSeq(m)
  PROVE  /\ Outer(m, 0) = <<>> /\ Outer(m, Len(m)) = LeftOpen(Envelopes(m))
         /\ \A n \in 0..Len(m) : IsSeq(Outer(m, n))
         /\ \A n \in 1..Len(m) : Outer(m, n) = LeftBy(Envelopes(m)[n], Outer(m, n - 1))
<1> DEFINE e == Envelopes(m)
           S == {e[n] : n \in 1..Len(m)}
<1>1. Len(m) \in Nat /\ DOMAIN m = 1..Len(m)
  BY DEF IsSeq
<1>2. e \in Seq(S) /\ Len(e) = Len(m)
  <2>1. e = [n \in 1..Len(m) |-> e[n]]
    BY <1>1 DEF Envelopes
  <2>2. \A n \in 1..Len(m) : e[n] \in S
    OBVIOUS
  <2> HIDE DEF e, S
  <2> QED BY <1>1, <2>1, <2>2
<1>3. \A n \in 0..Len(m) : SubSeq(e, 1, n) \in Seq(S)
  <2> HIDE DEF e, S
  <2> QED BY <1>1, <1>2
<1>4. SubSeq(e, 1, 0) = <<>> /\ SubSeq(e, 1, Len(m)) = e
  <2> HIDE DEF e, S
  <2> QED BY <1>1, <1>2
<1>5. \A n \in 1..Len(m) : SubSeq(e, 1, n) = SubSeq(e, 1, n - 1) \o <<e[n]>>
  <2> HIDE DEF e, S
  <2> QED BY <1>1, <1>2
<1>6. \A n \in 0..Len(m) : IsSeq(SubSeq(e, 1, n))
  <2> HIDE DEF e, S
  <2> QED BY <1>3, SeqIsSeq
<1>7. \A n \in 1..Len(m) : n - 1 \in 0..Len(m)
  BY <1>1
<1> HIDE DEF e, S
<1> QED BY <1>1, <1>4, <1>5, <1>6, <1>7, LeftOpenEmpty, LeftOpenOne, LeftOpenIsSeq DEF Outer, e

\* What is written at the ends of a segment
LEMMA TakesEnvelope ==
  ASSUME IsSeq(msg), i \in 1..Len(msg)
  PROVE  /\ IsSeq(Headed(msg, i))
         /\ Takes(Opening, Outer(msg, i - 1), Headed(msg, i))
         /\ Takes(Closing, Headed(msg, i), Outer(msg, i))
<1> DEFINE e == Envelopes(msg)[i]
           before == Outer(msg, i - 1)
           after == Outer(msg, i)
<1>1. /\ after = LeftBy(e, before) /\ IsSeq(after) /\ IsSeq(before)
      /\ i \in DOMAIN msg
  <2>1. Len(msg) \in Nat /\ DOMAIN msg = 1..Len(msg)
    BY DEF IsSeq
  <2>2. i - 1 \in 0..Len(msg) /\ i \in 0..Len(msg)
    BY <2>1
  <2> QED BY <2>1, <2>2, OuterFacts
<1>2. /\ e.kind = IF seg.tag \in Headers THEN "open" ELSE IF seg.tag \in Trailers THEN "close" ELSE "comment"
      /\ seg.tag = "UNB" => e = Open("X", "interchange")
      /\ seg.tag = "UNG" => e = Open("X", "group")
      /\ seg.tag = "UNH" => e = Open("X", "message")
      /\ seg.tag = "UNZ" => e = Close("X", "interchange")
      /\ seg.tag = "UNE" => e = Close("X", "group")
      /\ seg.tag = "UNT" => e = Close("X", "message")
  <2>1. e = IF seg.tag \in DOMAIN Envelope THEN Envelope[seg.tag] ELSE Comment
    BY <1>1 DEF Envelopes, seg
  <2>2. DOMAIN Envelope = Headers \union Trailers
    BY DEF Envelope, Headers, Trailers
  <2>3. /\ \A ns, n : Open(ns, n).kind = "open" /\ Close(ns, n).kind = "close"
        /\ Comment.kind = "comment"
    BY DEF Open, Close, Comment, Piece
  <2>4. CASE seg.tag \in Headers
    BY <2>1, <2>2, <2>3, <2>4 DEF Envelope, Headers
  <2>5. CASE seg.tag \in Trailers
    BY <2>1, <2>2, <2>3, <2>5 DEF Envelope, Headers, Trailers
  <2>6. CASE seg.tag \notin Headers \union Trailers
    BY <2>1, <2>2, <2>3, <2>6 DEF Headers, Trailers
  <2> QED BY <2>4, <2>5, <2>6
<1>3. Headed(msg, i) = IF seg.tag \in Headers THEN after ELSE before
  BY DEF Headed, seg
<1> HIDE DEF before, after
<1>4. CASE seg.tag \in Headers
  <2>1. Closing = <<>>
    BY <1>4 DEF Headers, Closing
  <2>2. Opening = <<e>> \/ Opening = <<>> \o <<e>> \/ Opening = Error \o <<e>>
    BY <1>2, <1>4, Zenon DEF Opening, Headers
  <2>3. Takes(<<e>>, before, after)
    BY <1>1, TakesOne
  <2>4. Takes(Opening, before, after)
    BY <2>2, <2>3, TakesPlain, TakesNothing, TakesThen
  <2> QED BY <1>1, <1>3, <1>4, <2>1, <2>4, TakesNothing DEF before, after
<1>5. CASE seg.tag \in Trailers
  <2>1. Opening = <<>> /\ seg.tag \notin Headers
    BY <1>5 DEF Headers, Trailers, Opening
  <2>2. Closing = <<e>>
    BY <1>2, <1>5 DEF Closing, Trailers
  <2> QED BY <1>1, <1>3, <2>1, <2>2, TakesOne, TakesNothing DEF before, after
<1>6. CASE seg.tag \notin Headers \union Trailers
  <2>1. Opening = <<>> /\ Closing = <<>>
    BY <1>6 DEF Headers, Trailers, Opening, Closing
  <2>2. after = before
    BY <1>1, <1>2, <1>6 DEF LeftBy
  <2> QED BY <1>1, <1>3, <1>6, <2>1, <2>2, TakesNothing DEF before, after
<1> QED BY <1>4, <1>5, <1>6

\* What is left open, by place
LEMMA LeftAtCases ==
  ASSUME NEW m, NEW a, NEW b
  PROVE  /\ LeftAt(m, "segment", a, b) = Outer(m, a - 1) /\ LeftAt(m, "open", a, b) = Outer(m, a - 1)
         /\ LeftAt(m, "child", a, b) = Inside(m, a) /\ LeftAt(m, "tail", a, b) = Inside(m, a)
         /\ LeftAt(m, "value", a, b) = Append(Inside(m, a), <<"C", Segments[m[a].tag][b].name>>)
         /\ LeftAt(m, "end", a, b) = Headed(m, a)
         /\ LeftAt(m, "return", a, b) = Outer(m, Len(m))
BY DEF LeftAt

\* A step that writes a text taking what is left open here to what is left open there
LEMMA WrittenNests ==
  ASSUME NestingInv, pc \in Working, NEW w, NEW next, NEW np, Written(w, next, np),
         \/ next \in Working /\ np[1] = i
         \/ next = "segment" /\ np[1] = i + 1,
         Takes(w.before \o w.after, LeftAt(msg, pc, i, k), LeftAt(msg, next, np[1], np[2]))
  PROVE  NestingInv'
<1>1. CASE Complete(w, next, np)
  <2>1. /\ out' = out \o (w.before \o w.after)
        /\ pc' = next /\ i' = np[1] /\ k' = np[2]
        /\ msg' = msg /\ rc' = rc /\ result' = result
    BY <1>1 DEF Complete, Stand, session
  <2>2. IsSeq(out') /\ LeftOpen(out') = LeftAt(msg', pc', i', k')
    BY <2>1 DEF NestingInv, Takes, Converting
  <2>3. /\ i' \in 1..(Len(msg) + 1)
        /\ pc' \in Working => i' <= Len(msg)
    <3>1. Len(msg) \in Nat /\ i \in 1..Len(msg)
      BY DEF NestingInv, IsSeq, Converting
    <3> QED BY <2>1, <3>1 DEF Working
  <2> QED BY <2>1, <2>2, <2>3 DEF NestingInv, ReturnedNested, Converting
<1>2. CASE Thrown
  <2>1. rc' = -1 /\ pc' = "return" /\ msg' = msg
    BY <1>2 DEF Thrown, Catch, session
  <2> QED BY <2>1 DEF NestingInv, ReturnedNested, Converting, Working
<1>3. CASE Broken
  BY <1>3 DEF Broken, Breaks, NestingInv, ReturnedNested, Converting, Working, session, buffer
<1> QED BY <1>1, <1>2, <1>3, WrittenShape

\* Every step of a conversion keeps NestingInv.
LEMMA StepNests ==
  ASSUME NestingInv, Step
  PROVE  NestingInv'
<1> DEFINE H == Headed(msg, i)
           I == Inside(msg, i)
           C == Append(I, <<"C", Segments[msg[i].tag][k].name>>)
<1>1. ASSUME pc \in Working
      PROVE  /\ IsSeq(H) /\ IsSeq(I) /\ I = Append(H, <<"S", seg.tag>>)
             /\ Takes(Opening, Outer(msg, i - 1), H) /\ Takes(Closing, H, Outer(msg, i))
             /\ IsSeq(msg) /\ i \in 1..Len(msg)
  <2>1. IsSeq(msg) /\ i \in 1..Len(msg)
    BY <1>1 DEF NestingInv, Converting, IsSeq
  <2>2. I = Append(H, <<"S", seg.tag>>)
    BY DEF Inside, seg
  <2> QED BY <2>1, <2>2, TakesEnvelope, ShutOpened
<1> HIDE DEF H, I
<1>2. CASE EndOfSegments
  <2>1. i = Len(msg) + 1 /\ pc' = "return" /\ i' = i /\ k' = k /\ Len(msg) \in Nat /\ pc = "segment"
    BY <1>2 DEF EndOfSegments, NestingInv, Goto, Stand, place, Converting, IsSeq
  <2>2. LeftAt(msg, "segment", i, k) = LeftAt(msg, "return", i, k)
    BY <2>1, LeftAtCases
  <2> QED BY <1>2, <2>1, <2>2
          DEF EndOfSegments, NestingInv, ReturnedNested, Goto, buffer, session, Converting, Working
<1>3. CASE TagIsNull
  BY <1>3 DEF TagIsNull, Breaks, NestingInv, ReturnedNested, Converting, Working, session
<1>4. CASE BeginSegment
  <2>1. LeftAt(msg, "segment", i, k) = LeftAt(msg, "open", i, k)
    BY LeftAtCases
  <2> QED BY <1>4, <2>1
          DEF BeginSegment, NestingInv, ReturnedNested, buffer, session, place, Converting, Working
<1>5. CASE OpenSegment
  <2>0. pc = "open" /\ pc \in Working
    BY <1>5 DEF OpenSegment, Working
  <2>1. CASE seg.tag \in DOMAIN Segments
    <3> DEFINE w == Plain(Opening \o When(opts.segments, Comment) \o <<Open("S", seg.tag)>>)
    <3>1. Written(w, "child", <<i, 1, 0>>)
      BY <1>5, <2>1 DEF OpenSegment
    <3>2. Takes(Opening \o When(opts.segments, Comment), Outer(msg, i - 1), H)
      BY <1>1, <2>0, TakesPlain, TakesThen
    <3>3. Takes(w.before \o w.after, Outer(msg, i - 1), I)
      BY <1>1, <2>0, <3>2, TakesOpen, TakesNothing, TakesThen DEF Plain, Write
    <3>4. LeftAt(msg, pc, i, k) = Outer(msg, i - 1) /\ LeftAt(msg, "child", i, 1) = I
      BY <2>0, LeftAtCases DEF I
    <3> HIDE DEF w
    <3> QED BY <2>0, <3>1, <3>3, <3>4, WrittenNests DEF Working
  <2>2. CASE seg.tag \notin DOMAIN Segments
    <3> DEFINE w == Plain(Opening \o Error)
    <3>1. Written(w, "end", place)
      BY <1>5, <2>2 DEF OpenSegment
    <3>2. Takes(w.before \o w.after, Outer(msg, i - 1), H)
      BY <1>1, <2>0, TakesPlain, TakesNothing, TakesThen DEF Plain, Write
    <3>3. LeftAt(msg, pc, i, k) = Outer(msg, i - 1) /\ LeftAt(msg, "end", i, k) = H
      BY <2>0, LeftAtCases DEF H
    <3>4. place[1] = i /\ place[2] = k
      BY DEF place
    <3> HIDE DEF w
    <3> QED BY <2>0, <3>1, <3>2, <3>3, <3>4, WrittenNests DEF Working
  <2> QED BY <2>1, <2>2
<1>6. CASE CloseSegment
  <2> DEFINE before == IF di <= Len(elements) THEN Error ELSE <<>>
             w == Plain(before \o <<Close("S", seg.tag)>>)
  <2>1. pc = "tail" /\ pc \in Working /\ Written(w, "end", place)
    BY <1>6 DEF CloseSegment, Working
  <2>2. Takes(before, I, I)
    BY TakesPlain, TakesNothing
  <2>3. Takes(w.before \o w.after, I, H)
    BY <1>1, <2>1, <2>2, TakesClose, TakesNothing, TakesThen DEF Plain, Write
  <2>4. LeftAt(msg, pc, i, k) = I /\ LeftAt(msg, "end", i, k) = H
    BY <2>1, LeftAtCases DEF H, I
  <2>5. place[1] = i /\ place[2] = k
    BY DEF place
  <2> HIDE DEF w
  <2> QED BY <2>1, <2>3, <2>4, <2>5, WrittenNests DEF Working
<1>7. CASE EndSegment
  <2> DEFINE w == Plain(Closing)
  <2>1. pc = "end" /\ pc \in Working /\ Written(w, "segment", <<i + 1, 0, 0>>)
    BY <1>7 DEF EndSegment, Working
  <2>2. Takes(w.before \o w.after, H, Outer(msg, i))
    BY <1>1, <2>1, TakesNothing, TakesThen DEF Plain, Write
  <2>3. LeftAt(msg, pc, i, k) = H /\ LeftAt(msg, "segment", i + 1, 0) = Outer(msg, i)
    <3>1. (i + 1) - 1 = i
      BY <1>1, <2>1
    <3> QED BY <2>1, <3>1, LeftAtCases DEF H
  <2> HIDE DEF w
  <2> QED BY <2>1, <2>2, <2>3, WrittenNests DEF Working
<1>8. CASE EndOfChildren \/ SkipChild
  <2>1. /\ pc = "child" /\ pc' \in {"tail", "child"} /\ i' = i
        /\ UNCHANGED <<session, buffer, rc, result>>
    BY <1>8 DEF EndOfChildren, SkipChild, AtChild, Goto, Stand, place, NextChild
  <2>2. LeftAt(msg, pc, i, k) = I /\ LeftAt(msg, pc', i, k') = I
    BY <2>1, LeftAtCases DEF I
  <2> QED BY <2>1, <2>2 DEF NestingInv, ReturnedNested, buffer, session, Converting, Working
<1>9. CASE UnknownComposite
  BY <1>9 DEF UnknownComposite, Breaks, NestingInv, ReturnedNested, Converting, Working, session
<1>10. CASE PassOver
  <2> DEFINE w == ElementMissing(child.name)
  <2>1. pc = "child" /\ pc \in Working /\ Written(w, "child", NextChild)
    BY <1>10 DEF PassOver, AtChild, Working
  <2>2. Takes(w.before \o w.after, I, I)
    BY TakesMissing
  <2>3. LeftAt(msg, pc, i, k) = I /\ LeftAt(msg, "child", i, k + 1) = I
    BY <2>1, LeftAtCases DEF I
  <2>4. NextChild[1] = i /\ NextChild[2] = k + 1
    BY DEF NextChild
  <2> HIDE DEF w
  <2> QED BY <2>1, <2>2, <2>3, <2>4, WrittenNests DEF Working
<1>11. CASE Mandatory
  <2> DEFINE w == Plain(Error)
  <2>1. pc = "child" /\ pc \in Working /\ Written(w, "tail", place)
    BY <1>11 DEF Mandatory, AtChild, Working, AfterMandatory
  <2>2. Takes(w.before \o w.after, I, I)
    BY TakesPlain, TakesNothing, TakesThen DEF Plain, Write
  <2>3. LeftAt(msg, pc, i, k) = I /\ LeftAt(msg, "tail", i, k) = I
    BY <2>1, LeftAtCases DEF I
  <2>4. place[1] = i /\ place[2] = k
    BY DEF place
  <2> HIDE DEF w
  <2> QED BY <2>1, <2>2, <2>3, <2>4, WrittenNests DEF Working
<1>12. CASE SimpleElement
  <2> DEFINE w == ElementToXml(child.name, elements[di].values[1], <<i, di, 0>>)
  <2>1. pc = "child" /\ pc \in Working /\ Written(w, "child", NextChild)
    BY <1>12 DEF SimpleElement, AtChild, Working
  <2>2. Takes(w.before \o w.after, I, I)
    BY <1>1, <2>1, TakesElement
  <2>3. LeftAt(msg, pc, i, k) = I /\ LeftAt(msg, "child", i, k + 1) = I
    BY <2>1, LeftAtCases DEF I
  <2>4. NextChild[1] = i /\ NextChild[2] = k + 1
    BY DEF NextChild
  <2> HIDE DEF w
  <2> QED BY <2>1, <2>2, <2>3, <2>4, WrittenNests DEF Working
<1>13. CASE OpenComposite
  <2> DEFINE w == Plain(When(opts.names, Comment) \o <<Open("C", child.name)>>)
  <2>1. pc = "child" /\ pc \in Working /\ Written(w, "value", <<i, k, 1>>)
    BY <1>13 DEF OpenComposite, AtChild, Working
  <2>2. Takes(w.before \o w.after, I, C)
    <3>1. C = Append(I, <<"C", child.name>>)
      BY DEF child, seg
    <3> QED BY <3>1, TakesPlain, TakesOpen, TakesNothing, TakesThen DEF Plain, Write
  <2>3. LeftAt(msg, pc, i, k) = I /\ LeftAt(msg, "value", i, k) = C
    BY <2>1, LeftAtCases DEF I
  <2> HIDE DEF w, C
  <2> QED BY <2>1, <2>2, <2>3, WrittenNests DEF Working
<1>14. CASE Component
  <2> DEFINE name == Composites[child.name][j].name
             values == elements[di].values
             w == IF Present(values) THEN ElementToXml(name, values[j], <<i, di, j>>) ELSE ElementMissing(name)
  <2>1. pc = "value" /\ pc \in Working /\ Written(w, "value", <<i, k, j + 1>>)
    BY <1>14 DEF Component, Working
  <2>2. Takes(w.before \o w.after, C, C)
    <3>1. IsSeq(C)
      BY <1>1, <2>1, ShutOpened
    <3> HIDE DEF C, name, values
    <3>2. CASE Present(values)
      BY <3>1, <3>2, TakesElement
    <3>3. CASE ~Present(values)
      BY <3>3, TakesMissing
    <3> QED BY <3>2, <3>3
  <2>3. LeftAt(msg, pc, i, k) = C /\ LeftAt(msg, "value", i, k) = C
    BY <2>1, LeftAtCases DEF I
  <2> HIDE DEF w, C
  <2> QED BY <2>1, <2>2, <2>3, WrittenNests DEF Working
<1>15. CASE CloseComposite
  <2> DEFINE w == Plain(<<Close("C", child.name)>>)
  <2>1. pc = "value" /\ pc \in Working /\ Written(w, "child", NextChild)
    BY <1>15 DEF CloseComposite, Working
  <2>2. Takes(w.before \o w.after, C, I)
    <3>1. C = Append(I, <<"C", child.name>>)
      BY DEF child, seg
    <3> QED BY <1>1, <2>1, <3>1, TakesClose, TakesNothing, TakesThen DEF Plain, Write
  <2>3. LeftAt(msg, pc, i, k) = C /\ LeftAt(msg, "child", i, k + 1) = I
    BY <2>1, LeftAtCases DEF I
  <2>4. NextChild[1] = i /\ NextChild[2] = k + 1
    BY DEF NextChild
  <2> HIDE DEF w, C
  <2> QED BY <2>1, <2>2, <2>3, <2>4, WrittenNests DEF Working
<1>16. CASE ReturnConv2 \/ ReturnMain
  <2>1. /\ pc = "return" /\ pc' \in {"idle", "stopped"} /\ UNCHANGED <<msg, rc>>
        /\ rc = 0 /\ result'.kind = "text" => result'.text = out
    BY <1>16 DEF ReturnConv2, ReturnMain, session
  <2>2. rc = 0 => LeftOpen(out) = LeftOpen(Envelopes(msg))
    BY <2>1, LeftAtCases, OuterFacts DEF NestingInv
  <2> QED BY <2>1, <2>2 DEF NestingInv, ReturnedNested, Converting, Working
<1>17. CASE ReturnBare
  BY <1>17 DEF ReturnBare, NestingInv, ReturnedNested, Converting, Working, session
<1> QED
  BY <1>2, <1>3, <1>4, <1>5, <1>6, <1>7, <1>8, <1>9, <1>10, <1>11, <1>12, <1>13, <1>14, <1>15,
     <1>16, <1>17 DEF Step

\* Every call and every report keeps NestingInv.
LEMMA CallNests ==
  ASSUME NestingInv, Call
  PROVE  NestingInv'
<1>1. ASSUME NEW m, NEW parsed \in BOOLEAN, Convert(m, parsed), IsSeq(m),
             \/ out' = <<>>
             \/ \E enc : OutputInit(enc)
      PROVE  NestingInv'
  <2>1. /\ msg' = m /\ i' = 1 /\ k' = 0 /\ result'.kind = "none" /\ rc' = IF parsed THEN 0 ELSE -1
        /\ pc' = IF parsed THEN "segment" ELSE "return"
    BY <1>1 DEF Convert, NoResult
  <2>2. IsSeq(out') /\ LeftOpen(out') = <<>>
    <3>1. out' = <<>> \/ out' = <<Declaration>>
      BY <1>1 DEF OutputInit, When
    <3>2. Takes(<<Declaration>>, <<>>, <<>>)
      BY TakesNeutral DEF Declaration, Piece
    <3>3. <<>> \o <<Declaration>> = <<Declaration>>
      OBVIOUS
    <3> QED BY <3>1, <3>2, <3>3, LeftOpenEmpty, OneIsSeq DEF Takes
  <2>3. LeftAt(m, "segment", 1, 0) = <<>>
    BY <1>1, LeftAtCases, OuterFacts
  <2>4. Len(m) \in Nat
    BY <1>1 DEF IsSeq
  <2> QED BY <1>1, <2>1, <2>2, <2>3, <2>4 DEF NestingInv, ReturnedNested, Converting, Working
<1>2. \A m \in Messages : IsSeq(m)
  BY EdiXmlAssumption DEF EdiXmlAssumption, IsSeq
<1>3. CASE Report
  BY <1>3 DEF Report, NestingInv, ReturnedNested, Converting, Working, session, buffer
<1>4. CASE ReportNothing
  BY <1>4 DEF ReportNothing, Breaks, NestingInv, ReturnedNested, Converting, Working, session
<1>5. ASSUME NEW m \in Messages \union {<<>>}, NEW parsed \in BOOLEAN, NEW enc,
             Conv2(m, parsed, enc) \/ Main(m, parsed, enc)
      PROVE  NestingInv'
  BY <1>1, <1>2, <1>5, OneIsSeq DEF Conv2, Main
<1>6. ASSUME NEW m \in Messages, Bare(m)
      PROVE  NestingInv'
  BY <1>1, <1>2, <1>6 DEF Bare
<1> QED BY <1>3, <1>4, <1>5, <1>6 DEF Call

\* At every place of the loops the text leaves open what the place says: the envelopes of the
\* segments before it, the segment, the composite (conv.c:134-251, 297-313).
THEOREM NestingInvariant == Spec => []NestingInv
<1>1. Init => NestingInv
  <2> SUFFICES ASSUME Init PROVE NestingInv
    OBVIOUS
  <2>1. msg = <<>> /\ pc = "idle" /\ result.kind = "none"
    BY DEF Init, NoResult
  <2>2. IsSeq(msg)
    BY <2>1, OneIsSeq, Zenon
  <2> QED BY <2>1, <2>2 DEF NestingInv, ReturnedNested, Converting, Working
<1>2. NestingInv /\ [Next]_vars => NestingInv'
  <2>1. ASSUME NestingInv, UNCHANGED vars PROVE NestingInv'
    BY <2>1 DEF vars, session, buffer, place, NestingInv, ReturnedNested
  <2> QED BY <2>1, StepNests, CallNests DEF Next
<1> QED BY <1>1, <1>2, PTL DEF Spec

\* ReturnedNested holds for all tables and messages (conv.c:134-251, 297-313).
THEOREM ReturnedIsNested == Spec => []ReturnedNested
<1>1. NestingInv => ReturnedNested
  BY DEF NestingInv
<1> QED BY <1>1, NestingInvariant, PTL

-----------------------------------------------------------------------------
(* Sequences one behind the other, and the places a text has               *)

\* f says what the pieces make, from the first to the k-th.
Gathers(f, ps, S) ==
  /\ f \in [0..Len(ps) -> Seq(S)]
  /\ f[0] = <<>>
  /\ \A q \in 1..Len(ps) : f[q] = f[q - 1] \o ps[q]

\* There is such an f.
LEMMA Gathering ==
  ASSUME NEW S, NEW ps \in Seq(Seq(S))
  PROVE  \E f : Gathers(f, ps, S)
<1> DEFINE N == Len(ps)
           T == Seq(S)
           F == [p \in Nat \X T |-> IF p[1] \in 1..N THEN p[2] \o ps[p[1]] ELSE p[2]]
<1>1. N \in Nat /\ <<>> \in T
  OBVIOUS
<1>2. \A n \in Nat, s \in T : n \in 1..N => s \o ps[n] \in T
  OBVIOUS
<1>3. F \in [Nat \X T -> T]
  <2>1. ASSUME NEW p \in Nat \X T
        PROVE  (IF p[1] \in 1..N THEN p[2] \o ps[p[1]] ELSE p[2]) \in T
    <3>1. p[1] \in Nat /\ p[2] \in T
      OBVIOUS
    <3> HIDE DEF T, N
    <3> QED BY <3>1, <1>2
  <2> QED BY <2>1
<1>4. ASSUME NEW n \in 1..N, NEW s \in T PROVE F[<<n, s>>] = s \o ps[n]
  <2>1. n \in Nat
    BY <1>1
  <2> HIDE DEF T, N
  <2>2. <<n, s>> \in Nat \X T /\ <<n, s>>[1] = n /\ <<n, s>>[2] = s
    BY <2>1
  <2> QED BY <2>2
<1>5. PICK f \in [0..N -> T] : Unfolds(f, N, <<>>, F)
  <2> HIDE DEF T, N, F
  <2> QED BY <1>1, <1>3, Recursion
<1>6. f[0] = <<>> /\ \A q \in 1..N : f[q] = F[<<q, f[q - 1]>>]
  BY <1>5 DEF Unfolds
<1>7. ASSUME NEW q \in 1..N PROVE f[q - 1] \in T
  <2>1. q - 1 \in 0..N
    BY <1>1
  <2> QED BY <2>1, <1>5
<1>8. \A q \in 1..N : f[q] = f[q - 1] \o ps[q]
  <2> HIDE DEF T, N, F
  <2> QED BY <1>4, <1>6, <1>7
<1> QED BY <1>5, <1>6, <1>8 DEF Gathers

\* All the pieces together are the last it makes.
LEMMA Flattened ==
  ASSUME NEW S, NEW ps \in Seq(Seq(S)), NEW f, Gathers(f, ps, S)
  PROVE  FlattenSeq(ps) = f[Len(ps)]
<1> DEFINE N == Len(ps)
           Body(g) == [q \in 1..N |-> IF q = 1 THEN ps[q] ELSE g[q - 1] \o ps[q]]
           h == [q \in 1..N |-> f[q]]
           all == CHOOSE g : g = Body(g)
<1>1. N \in Nat /\ f \in [0..N -> Seq(S)] /\ f[0] = <<>>
      /\ \A q \in 1..N : f[q] = f[q - 1] \o ps[q]
  <2>1. Len(ps) \in Nat
    OBVIOUS
  <2> QED BY <2>1 DEF Gathers
<1>2. CASE N = 0
  BY <1>1, <1>2 DEF FlattenSeq
<1>3. CASE N # 0
  <2>1. FlattenSeq(ps) = all[N]
    BY <1>3 DEF FlattenSeq
  <2>2. f[1] = ps[1]
    <3>1. 1 \in 1..N /\ 1 - 1 = 0
      BY <1>1, <1>3
    <3>2. f[1] = <<>> \o ps[1]
      BY <1>1, <3>1
    <3>3. ps[1] \in Seq(S)
      BY <3>1
    <3> QED BY <3>2, <3>3
  <2>3. h = Body(h)
    <3>1. ASSUME NEW q \in 1..N PROVE f[q] = IF q = 1 THEN ps[q] ELSE h[q - 1] \o ps[q]
      <4>1. CASE q = 1
        BY <4>1, <2>2
      <4>2. CASE q # 1
        <5>1. q - 1 \in 1..N
          BY <4>2, <1>1
        <5>2. h[q - 1] = f[q - 1]
          BY <5>1
        <5> QED BY <4>2, <5>2, <1>1
      <4> QED BY <4>1, <4>2
    <3> QED BY <3>1
  <2>4. all = Body(all)
    <3> HIDE DEF Body, h
    <3> QED BY <2>3
  <2>5. \A q \in 1..N : all[q] = IF q = 1 THEN ps[q] ELSE all[q - 1] \o ps[q]
    BY <2>4
  <2> DEFINE T == {q \in Nat : q + 1 \in 1..N => all[q + 1] = f[q + 1]}
  <2> HIDE DEF all
  <2>6. 0 \in T
    BY <2>2, <2>5
  <2>7. ASSUME NEW q \in Nat, q \in T PROVE q + 1 \in T
    <3> SUFFICES ASSUME (q + 1) + 1 \in 1..N PROVE all[(q + 1) + 1] = f[(q + 1) + 1]
      OBVIOUS
    <3>1. q + 1 \in 1..N /\ (q + 1) + 1 # 1 /\ ((q + 1) + 1) - 1 = q + 1
      BY <1>1
    <3>2. all[q + 1] = f[q + 1]
      BY <2>7, <3>1
    <3>3. (q + 1) + 1 \in 1..N
      OBVIOUS
    <3>4. all[(q + 1) + 1] = all[q + 1] \o ps[(q + 1) + 1]
      BY <3>1, <3>3, <2>5
    <3>5. f[(q + 1) + 1] = f[q + 1] \o ps[(q + 1) + 1]
      BY <3>1, <3>3, <1>1
    <3> QED BY <3>2, <3>4, <3>5
  <2>8. N - 1 \in T
    <3>1. \A q \in Nat : q \in T
      <4> HIDE DEF T
      <4> QED BY <2>6, <2>7, SetInduction
    <3>2. N - 1 \in Nat
      BY <1>1, <1>3
    <3> QED BY <3>1, <3>2
  <2>9. (N - 1) + 1 = N /\ N \in 1..N
    BY <1>1, <1>3
  <2> QED BY <2>1, <2>8, <2>9
<1> QED BY <1>2, <1>3

\* A sequence of sequences, and what its first n members make.
Lists(ps) == IsSeq(ps) /\ \A n \in 1..Len(ps) : IsSeq(ps[n])
Upto(ps, n) == FlattenSeq(SubSeq(ps, 1, IF n <= Len(ps) THEN n ELSE Len(ps)))

\* What the members make grows by one at a time.
LEMMA UptoFacts ==
  ASSUME NEW ps, Lists(ps)
  PROVE  /\ Len(ps) \in Nat /\ Upto(ps, 0) = <<>>
         /\ \A n \in 1..Len(ps) : Upto(ps, n) = Upto(ps, n - 1) \o ps[n]
         /\ \A n \in Nat : n >= Len(ps) => Upto(ps, n) = FlattenSeq(ps)
         /\ \A n \in Nat : IsSeq(Upto(ps, n))
<1> DEFINE S == UNION {{ps[n][v] : v \in DOMAIN ps[n]} : n \in 1..Len(ps)}
<1>1. Len(ps) \in Nat /\ DOMAIN ps = 1..Len(ps)
  BY DEF Lists, IsSeq
<1>2. \A n \in 1..Len(ps) : ps[n] \in Seq(S)
  <2> TAKE n \in 1..Len(ps)
  <2>1. ps[n] \in Seq({ps[n][v] : v \in DOMAIN ps[n]})
    BY DEF Lists, IsSeq
  <2>2. {ps[n][v] : v \in DOMAIN ps[n]} \subseteq S
    OBVIOUS
  <2>3. \A A, B : A \subseteq B => Seq(A) \subseteq Seq(B)
    OBVIOUS
  <2> HIDE DEF S
  <2> QED BY <2>1, <2>2, <2>3
<1> HIDE DEF S
<1>3. ps \in Seq(Seq(S))
  <2>1. ps \in Seq({ps[n] : n \in DOMAIN ps})
    BY DEF Lists, IsSeq
  <2>2. {ps[n] : n \in DOMAIN ps} \subseteq Seq(S)
    BY <1>1, <1>2
  <2>3. \A A, B : A \subseteq B => Seq(A) \subseteq Seq(B)
    OBVIOUS
  <2> QED BY <2>1, <2>2, <2>3
<1>4. PICK f : Gathers(f, ps, S)
  BY <1>3, Gathering
<1>5. ASSUME NEW n \in 0..Len(ps) PROVE FlattenSeq(SubSeq(ps, 1, n)) = f[n]
  <2> DEFINE qs == SubSeq(ps, 1, n)
             g == [q \in 0..n |-> f[q]]
  <2>1. /\ qs \in Seq(Seq(S)) /\ Len(qs) = n
        /\ \A q \in 1..n : qs[q] = ps[q]
    BY <1>1, <1>3
  <2>2. Gathers(g, qs, S)
    <3>1. /\ f \in [0..Len(ps) -> Seq(S)] /\ f[0] = <<>>
          /\ \A q \in 1..Len(ps) : f[q] = f[q - 1] \o ps[q]
      BY <1>4 DEF Gathers
    <3>2. \A q \in 0..n : q \in 0..Len(ps)
      BY <1>1
    <3>3. \A q \in 1..n : q \in 1..Len(ps) /\ q \in 0..n /\ q - 1 \in 0..n
      BY <1>1
    <3>4. g \in [0..n -> Seq(S)]
      BY <3>1, <3>2
    <3>5. g[0] = <<>>
      BY <3>1, <1>1
    <3>6. \A q \in 1..n : g[q] = g[q - 1] \o qs[q]
      <4> HIDE DEF qs
      <4> QED BY <3>1, <3>3, <2>1
    <3> HIDE DEF qs, g
    <3> QED BY <3>4, <3>5, <3>6, <2>1 DEF Gathers
  <2>3. FlattenSeq(qs) = g[n]
    <3> HIDE DEF qs, g
    <3> QED BY <2>1, <2>2, Flattened
  <2>4. g[n] = f[n]
    BY <1>1
  <2> QED BY <2>3, <2>4
<1>6. \A n \in Nat : Upto(ps, n) = f[IF n <= Len(ps) THEN n ELSE Len(ps)]
  BY <1>1, <1>5 DEF Upto
<1>7. Upto(ps, 0) = <<>>
  BY <1>1, <1>4, <1>6 DEF Gathers
<1>8. ASSUME NEW n \in 1..Len(ps) PROVE Upto(ps, n) = Upto(ps, n - 1) \o ps[n]
  <2>1. n \in Nat /\ n - 1 \in Nat /\ n <= Len(ps) /\ n - 1 <= Len(ps)
    BY <1>1
  <2>2. Upto(ps, n) = f[n] /\ Upto(ps, n - 1) = f[n - 1]
    BY <1>6, <2>1
  <2> QED BY <2>2, <1>4 DEF Gathers
<1>9. ASSUME NEW n \in Nat, n >= Len(ps) PROVE Upto(ps, n) = FlattenSeq(ps)
  <2>1. Upto(ps, n) = f[Len(ps)]
    BY <1>1, <1>6, <1>9
  <2>2. SubSeq(ps, 1, Len(ps)) = ps /\ Len(ps) \in 0..Len(ps)
    BY <1>1, <1>3
  <2> QED BY <2>1, <2>2, <1>5
<1>10. ASSUME NEW n \in Nat PROVE IsSeq(Upto(ps, n))
  <2>1. (IF n <= Len(ps) THEN n ELSE Len(ps)) \in 0..Len(ps)
    BY <1>1
  <2>2. \A q \in 0..Len(ps) : f[q] \in Seq(S)
    BY <1>4 DEF Gathers
  <2> QED BY <1>6, <2>1, <2>2, SeqIsSeq
<1> QED BY <1>1, <1>7, <1>8, <1>9, <1>10

\* The places that each piece of a text has
Listed(s, t) == [n \in DOMAIN t |-> PlaceIn(s, t[n])]
\* They are a sequence of sequences, as long as the text.
LEMMA ListedFacts ==
  ASSUME NEW s, NEW t, IsSeq(t)
  PROVE  /\ Lists(Listed(s, t)) /\ Len(Listed(s, t)) = Len(t)
         /\ PlacesIn(s, t) = FlattenSeq(Listed(s, t))
         /\ IsSeq(PlacesIn(s, t))
<1> DEFINE ps == Listed(s, t)
<1>1. Len(t) \in Nat /\ DOMAIN t = 1..Len(t)
  BY DEF IsSeq
<1>2. ps = [n \in 1..Len(t) |-> PlaceIn(s, t[n])]
  BY <1>1 DEF Listed
<1>3. IsSeq(ps) /\ Len(ps) = Len(t) /\ \A n \in 1..Len(ps) : ps[n] = PlaceIn(s, t[n])
  <2>1. DOMAIN ps = 1..Len(t)
    BY <1>2
  <2>2. ps = [n \in 1..Len(t) |-> ps[n]]
    BY <1>2
  <2>3. \A n \in 1..Len(t) : ps[n] \in {ps[m] : m \in DOMAIN ps}
    BY <2>1
  <2>4. \A n \in 1..Len(t) : ps[n] = PlaceIn(s, t[n])
    BY <1>2
  <2> HIDE DEF ps
  <2>5. ps \in Seq({ps[m] : m \in DOMAIN ps}) /\ Len(ps) = Len(t)
    BY <1>1, <2>2, <2>3
  <2> QED BY <2>4, <2>5 DEF IsSeq
<1>4. Lists(ps)
  <2>1. \A n \in 1..Len(ps) : IsSeq(PlaceIn(s, t[n]))
    BY OneIsSeq DEF PlaceIn
  <2> HIDE DEF ps
  <2> QED BY <1>3, <2>1 DEF Lists
<1>5. PlacesIn(s, t) = FlattenSeq(ps)
  BY DEF PlacesIn, Listed
<1>6. IsSeq(PlacesIn(s, t))
  <2>1. Len(ps) \in Nat /\ Len(ps) >= Len(ps)
    BY <1>1, <1>3
  <2> HIDE DEF ps
  <2> QED BY <1>4, <1>5, <2>1, UptoFacts
<1> QED BY <1>3, <1>4, <1>5, <1>6

-----------------------------------------------------------------------------
(* What a text adds                                                         *)

\* One piece more adds its place, if it has one of the segment, and complains
\* if it is a complaint.
LEMMA PlacesInOne ==
  ASSUME NEW s, NEW t, IsSeq(t), NEW p
  PROVE  /\ IsSeq(t \o <<p>>)
         /\ PlacesIn(s, t \o <<p>>) = PlacesIn(s, t) \o PlaceIn(s, p)
         /\ Complains(s, t \o <<p>>) => Complains(s, t) \/ (p.kind = "error" /\ p.at = <<s>>)
<1> DEFINE u == t \o <<p>>
           N == Len(t)
<1>1. /\ IsSeq(u) /\ N \in Nat /\ Len(u) = N + 1 /\ DOMAIN t = 1..N /\ DOMAIN u = 1..(N + 1)
      /\ \A n \in 1..N : u[n] = t[n]
  <2>1. IsSeq(<<p>>) /\ Len(<<p>>) = 1
    BY OneIsSeq
  <2>2. Len(t) \in Nat /\ DOMAIN t = 1..Len(t)
    BY DEF IsSeq
  <2>3. IsSeq(u) /\ Len(u) = N + 1 /\ \A n \in 1..N : u[n] = t[n]
    BY <2>1, <2>2, IsSeqConcat
  <2>4. DOMAIN u = 1..Len(u)
    <3> HIDE DEF u
    <3> QED BY <2>3 DEF IsSeq
  <2> QED BY <2>2, <2>3, <2>4
<1>2. u[N + 1] = p
  <2> DEFINE S == {t[n] : n \in DOMAIN t} \union {p}
  <2>1. t \in Seq(S) /\ p \in S
    BY DEF IsSeq
  <2>2. \A T : \A a \in Seq(T), b \in T : (a \o <<b>>)[Len(a) + 1] = b
    OBVIOUS
  <2> HIDE DEF S
  <2> QED BY <2>1, <2>2
<1> HIDE DEF u
<1> DEFINE ps == Listed(s, t)
           qs == Listed(s, u)
<1>3. /\ Lists(ps) /\ Len(ps) = N /\ PlacesIn(s, t) = FlattenSeq(ps)
      /\ Lists(qs) /\ Len(qs) = N + 1 /\ PlacesIn(s, u) = FlattenSeq(qs)
  BY <1>1, ListedFacts
<1>4. qs[N + 1] = PlaceIn(s, p) /\ \A n \in 1..N : qs[n] = ps[n]
  BY <1>1, <1>2 DEF Listed
<1> HIDE DEF ps, qs
<1>5. SubSeq(qs, 1, N) = ps
  <2> DEFINE S == {qs[n] : n \in DOMAIN qs}
             T == {ps[n] : n \in DOMAIN ps}
             v == SubSeq(qs, 1, N)
  <2>1. qs \in Seq(S) /\ ps \in Seq(T)
    BY <1>3 DEF Lists, IsSeq
  <2> HIDE DEF S, T
  <2>2. v \in Seq(S) /\ Len(v) = N /\ \A n \in 1..N : v[n] = qs[n]
    BY <2>1, <1>1, <1>3
  <2> HIDE DEF v
  <2>3. v = [n \in 1..N |-> v[n]] /\ ps = [n \in 1..N |-> ps[n]]
    BY <2>1, <2>2, <1>3
  <2>4. \A n \in 1..N : v[n] = ps[n]
    BY <2>2, <1>4
  <2>5. v = ps
    BY <2>3, <2>4
  <2> QED BY <2>5 DEF v
<1>6. Upto(qs, N) = FlattenSeq(ps)
  <2>1. N <= Len(qs)
    BY <1>1, <1>3
  <2> QED BY <2>1, <1>5 DEF Upto
<1>7. FlattenSeq(qs) = Upto(qs, N + 1)
  <2>1. N + 1 \in Nat /\ N + 1 >= Len(qs)
    BY <1>1, <1>3
  <2> DEFINE M == N + 1
  <2> HIDE DEF M
  <2>2. Upto(qs, M) = FlattenSeq(qs)
    BY <1>3, <2>1, UptoFacts DEF M
  <2> QED BY <2>2 DEF M
<1>8. Upto(qs, N + 1) = Upto(qs, N) \o qs[N + 1]
  <2>1. N + 1 \in 1..Len(qs) /\ (N + 1) - 1 = N
    BY <1>1, <1>3
  <2> HIDE DEF N
  <2>2. Upto(qs, N + 1) = Upto(qs, (N + 1) - 1) \o qs[N + 1]
    BY <2>1, <1>3, UptoFacts
  <2> QED BY <2>1, <2>2
<1>9. PlacesIn(s, u) = PlacesIn(s, t) \o PlaceIn(s, p)
  BY <1>3, <1>4, <1>6, <1>7, <1>8
<1>10. Complains(s, u) => Complains(s, t) \/ (p.kind = "error" /\ p.at = <<s>>)
  <2> SUFFICES ASSUME NEW n \in 1..(N + 1), u[n].kind = "error", u[n].at = <<s>>
      PROVE Complains(s, t) \/ (p.kind = "error" /\ p.at = <<s>>)
    BY <1>1 DEF Complains
  <2>1. CASE n = N + 1
    BY <1>2, <2>1
  <2>2. CASE n # N + 1
    <3>1. n \in 1..N
      BY <1>1, <2>2
    <3> QED BY <1>1, <3>1 DEF Complains
  <2> QED BY <2>1, <2>2
<1> QED BY <1>1, <1>9, <1>10 DEF u

\* w adds the places ps to those of segment s, and does not complain of it.
Adds(w, s, ps) ==
  /\ IsSeq(w) /\ IsSeq(ps)
  /\ \A t : IsSeq(t) => /\ IsSeq(t \o w)
                        /\ PlacesIn(s, t \o w) = PlacesIn(s, t) \o ps
                        /\ Complains(s, t \o w) => Complains(s, t)

\* What is put behind nothing, or nothing behind it, stays.
LEMMA ConcatEmpty ==
  ASSUME NEW t, IsSeq(t)
  PROVE  t \o <<>> = t /\ <<>> \o t = t
BY DEF IsSeq

\* One piece
LEMMA AddsOne ==
  ASSUME NEW p, NEW s, p.kind # "error" \/ p.at # <<s>>
  PROVE  Adds(<<p>>, s, PlaceIn(s, p))
<1>1. IsSeq(<<p>>) /\ IsSeq(PlaceIn(s, p))
  BY OneIsSeq DEF PlaceIn
<1> QED BY <1>1, PlacesInOne DEF Adds

\* No piece
LEMMA AddsNothing ==
  ASSUME NEW s
  PROVE  Adds(<<>>, s, <<>>)
<1>1. \A t : IsSeq(t) => /\ t \o <<>> = t
                         /\ PlacesIn(s, t) \o <<>> = PlacesIn(s, t)
  BY ConcatEmpty, ListedFacts
<1> QED BY <1>1, OneIsSeq DEF Adds

\* One text behind another
LEMMA AddsThen ==
  ASSUME NEW u, NEW w, NEW s, NEW ps, NEW qs, Adds(u, s, ps), Adds(w, s, qs)
  PROVE  Adds(u \o w, s, ps \o qs)
<1>1. IsSeq(u \o w) /\ IsSeq(ps \o qs)
  BY IsSeqConcat DEF Adds
<1>2. ASSUME NEW t, IsSeq(t)
      PROVE  /\ IsSeq(t \o (u \o w))
             /\ PlacesIn(s, t \o (u \o w)) = PlacesIn(s, t) \o (ps \o qs)
             /\ Complains(s, t \o (u \o w)) => Complains(s, t)
  <2>1. t \o (u \o w) = (t \o u) \o w
    BY <1>2, ConcatAssociates DEF Adds
  <2>2. IsSeq(t \o u) /\ PlacesIn(s, t \o u) = PlacesIn(s, t) \o ps
        /\ (Complains(s, t \o u) => Complains(s, t))
    BY <1>2 DEF Adds
  <2>3. IsSeq((t \o u) \o w) /\ PlacesIn(s, (t \o u) \o w) = PlacesIn(s, t \o u) \o qs
        /\ (Complains(s, (t \o u) \o w) => Complains(s, t \o u))
    BY <2>2 DEF Adds
  <2>4. (PlacesIn(s, t) \o ps) \o qs = PlacesIn(s, t) \o (ps \o qs)
    <3>1. IsSeq(PlacesIn(s, t)) /\ IsSeq(ps) /\ IsSeq(qs)
      BY <1>2, ListedFacts DEF Adds
    <3> QED BY <3>1, ConcatAssociates
  <2> QED BY <2>1, <2>2, <2>3, <2>4
<1> QED BY <1>1, <1>2 DEF Adds

\* Texts that add nothing, one behind the other
LEMMA AddsNoMore ==
  ASSUME NEW u, NEW w, NEW s, NEW ps
  PROVE  /\ Adds(u, s, ps) /\ Adds(w, s, <<>>) => Adds(u \o w, s, ps)
         /\ Adds(u, s, <<>>) /\ Adds(w, s, ps) => Adds(u \o w, s, ps)
<1>1. ASSUME Adds(u, s, ps), Adds(w, s, <<>>) PROVE Adds(u \o w, s, ps)
  <2>1. ps \o <<>> = ps
    BY <1>1, ConcatEmpty DEF Adds
  <2> QED BY <1>1, <2>1, AddsThen
<1>2. ASSUME Adds(u, s, <<>>), Adds(w, s, ps) PROVE Adds(u \o w, s, ps)
  <2>1. <<>> \o ps = ps
    BY <1>2, ConcatEmpty DEF Adds
  <2> QED BY <1>2, <2>1, AddsThen
<1> QED BY <1>1, <1>2

\* Markup adds nothing.
LEMMA AddsMarkup ==
  ASSUME NEW p, p.kind \notin {"text", "error"}, NEW s
  PROVE  Adds(<<p>>, s, <<>>) /\ \A c : Adds(When(c, p), s, <<>>)
<1>1. PlaceIn(s, p) = <<>>
  BY DEF PlaceIn, When
<1> QED BY <1>1, AddsOne, AddsNothing DEF When

\* Markup by what it is
LEMMA AddsMarkups ==
  ASSUME NEW s
  PROVE  /\ Adds(<<Comment>>, s, <<>>) /\ \A c : Adds(When(c, Comment), s, <<>>)
         /\ \A ns, n : Adds(<<Open(ns, n)>>, s, <<>>) /\ Adds(<<Close(ns, n)>>, s, <<>>)
         /\ Adds(<<Declaration>>, s, <<>>)
<1>1. /\ Comment.kind = "comment" /\ Declaration.kind = "declaration"
      /\ \A ns, n : Open(ns, n).kind = "open" /\ Close(ns, n).kind = "close"
  BY DEF Comment, Declaration, Open, Close, Piece
<1> QED BY <1>1, AddsMarkup

\* A complaint of a segment is none of another.
LEMMA AddsError ==
  ASSUME NEW s, s # i
  PROVE  Adds(Error, s, <<>>)
<1> DEFINE p == Complaint(<<i>>)
<1>1. p.kind = "error" /\ p.at = <<i>>
  BY DEF Complaint, Piece
<1>2. PlaceIn(s, p) = <<>>
  BY <1>1 DEF PlaceIn, When
<1>3. <<i>> # <<s>>
  OBVIOUS
<1> HIDE DEF p
<1>4. Adds(<<p>>, s, <<>>)
  BY <1>1, <1>2, <1>3, AddsOne
<1>5. Error = <<p>> \/ Error = <<>>
  BY DEF Error, When, p
<1> QED BY <1>4, <1>5, AddsNothing

\* A text of a value of segment s adds the place of the value and its name.
LEMMA AddsText ==
  ASSUME NEW name, NEW at, NEW s
  PROVE  Adds(<<Text(name, at)>>, s, When(at[1] = s, Under(name, at)))
<1> DEFINE p == Text(name, at)
<1>1. p.kind = "text" /\ p.at = at /\ p.name = <<"E", name>>
  BY DEF Text, Piece
<1>2. PlaceIn(s, p) = When(at[1] = s, Under(name, at))
  BY <1>1 DEF PlaceIn, When, Under
<1> HIDE DEF p
<1>3. Adds(<<p>>, s, When(at[1] = s, Under(name, at)))
  BY <1>1, <1>2, AddsOne
<1> QED BY <1>3 DEF p

\* An element that is known adds the place of its value, and its name.
LEMMA AddsElement ==
  ASSUME NEW name, NEW val, NEW a, NEW b, NEW s, name \in DOMAIN Elements \/ s # i
  PROVE  LET w == ElementToXml(name, val, <<i, a, b>>)
         IN  Adds(w.before \o w.after, s, When(i = s, Under(name, <<i, a, b>>)))
<1> DEFINE at == <<i, a, b>>
           w == ElementToXml(name, val, at)
           comment == When(opts.names, Comment)
           code == When(Known(name, val) /\ opts.codes, Comment)
           ps == When(i = s, Under(name, at))
<1>1. CASE name \notin DOMAIN Elements
  <2>1. w.before = comment \o Error /\ w.after = <<>> /\ ps = <<>>
    BY <1>1 DEF ElementToXml, Plain, Write, When
  <2>2. Adds(comment \o Error, s, <<>>)
    BY <1>1, AddsMarkups, AddsError, AddsNoMore
  <2> QED BY <2>1, <2>2, AddsNothing, AddsNoMore
<1>2. CASE name \in DOMAIN Elements
  <2>1. /\ w.before = comment \o <<Open("E", name)>> \o code
        /\ w.after = <<Text(name, at), Close("E", name)>>
    BY <1>2 DEF ElementToXml, Write
  <2>2. Adds(comment \o <<Open("E", name)>>, s, <<>>)
    BY AddsMarkups, AddsNoMore
  <2>3. Adds(comment \o <<Open("E", name)>> \o code, s, <<>>)
    BY <2>2, AddsMarkups, AddsNoMore
  <2>4. <<Text(name, at), Close("E", name)>> = <<Text(name, at)>> \o <<Close("E", name)>>
    OBVIOUS
  <2>5. Adds(<<Text(name, at)>>, s, ps)
    <3>1. at[1] = i
      OBVIOUS
    <3> HIDE DEF at
    <3> QED BY <3>1, AddsText
  <2>6. Adds(<<Text(name, at)>> \o <<Close("E", name)>>, s, ps)
    BY <2>5, AddsMarkups, AddsNoMore
  <2>7. Adds(w.before \o w.after, s, ps)
    <3> HIDE DEF w, ps
    <3> QED BY <2>1, <2>3, <2>4, <2>6, AddsNoMore
  <2> QED BY <2>7
<1> QED BY <1>1, <1>2

\* The comment on a missing element adds nothing.
LEMMA AddsMissing ==
  ASSUME NEW name, NEW s
  PROVE  LET w == ElementMissing(name)
         IN  Adds(w.before \o w.after, s, <<>>)
<1>1. ElementMissing(name).before = <<>> /\ ElementMissing(name).after = When(opts.names, Comment)
  BY DEF ElementMissing, Write
<1> QED BY <1>1, AddsNothing, AddsMarkups, AddsNoMore

\* What is written at the ends of a segment adds nothing.
LEMMA AddsEnvelope ==
  ASSUME NEW s, s # i \/ (seg.tag = "UNH" => HeaderParses(seg))
  PROVE  Adds(Opening, s, <<>>) /\ Adds(Closing, s, <<>>)
<1>1. \A n : Adds(<<Open("X", n)>>, s, <<>>) /\ Adds(<<Close("X", n)>>, s, <<>>)
  BY AddsMarkups
<1>2. Adds(Closing, s, <<>>)
  BY <1>1, AddsNothing, Zenon DEF Closing
<1>3. \A n : s # i => Adds(Error \o <<Open("X", n)>>, s, <<>>)
  BY <1>1, AddsError, AddsNoMore
<1>4. \A n : Adds(<<>> \o <<Open("X", n)>>, s, <<>>)
  BY <1>1, AddsNothing, AddsNoMore
<1>5. Adds(Opening, s, <<>>)
  BY <1>1, <1>3, <1>4, AddsNothing, Zenon DEF Opening
<1> QED BY <1>2, <1>5

-----------------------------------------------------------------------------
(* The places of a segment, and what is passed of them                     *)

\* A function on 1..N whose values are sequences is a sequence of sequences.
LEMMA ListsFromFunction ==
  ASSUME NEW N \in Nat, NEW ps, ps = [n \in 1..N |-> ps[n]], \A n \in 1..N : IsSeq(ps[n])
  PROVE  Lists(ps) /\ Len(ps) = N
<1>1. DOMAIN ps = 1..N
  OBVIOUS
<1>2. \A n \in 1..N : ps[n] \in {ps[m] : m \in DOMAIN ps}
  BY <1>1
<1>3. ps \in Seq({ps[m] : m \in DOMAIN ps}) /\ Len(ps) = N
  BY <1>2
<1> QED BY <1>3 DEF Lists, IsSeq

\* The data of a segment are its elements, without the tag if that is simple.
FirstOf(sg) == IF sg.elements[1].type = "S" THEN 2 ELSE 1
\* How many they are, and which
LEMMA DataFacts ==
  ASSUME NEW sg, IsSegment(sg), sg.elements # <<>>
  PROVE  /\ Len(Data(sg)) \in Nat /\ DOMAIN Data(sg) = 1..Len(Data(sg))
         /\ Len(sg.elements) = Len(Data(sg)) + FirstOf(sg) - 1
         /\ Skipped(sg) = FirstOf(sg) - 1
         /\ \A n \in 1..Len(Data(sg)) : /\ Data(sg)[n] = sg.elements[n + FirstOf(sg) - 1]
                                        /\ IsSeq(Data(sg)[n].values)
<1> DEFINE el == sg.elements
           S == {el[n] : n \in DOMAIN el}
           D == Data(sg)
<1>1. el \in Seq(S) /\ el # <<>> /\ \A n \in 1..Len(el) : IsSeq(el[n].values)
  <2>1. el \in Seq(S)
    BY DEF IsSegment, IsSeq
  <2>2. DOMAIN el = 1..Len(el)
    BY <2>1
  <2> QED BY <2>1, <2>2 DEF IsSegment
<1> HIDE DEF S
<1>2. Len(el) \in Nat /\ Len(el) # 0
  BY <1>1
<1>3. /\ D \in Seq(S) /\ Len(el) = Len(D) + FirstOf(sg) - 1
      /\ \A n \in 1..Len(D) : D[n] = el[n + FirstOf(sg) - 1] /\ n + FirstOf(sg) - 1 \in 1..Len(el)
  <2>1. CASE el[1].type = "S"
    <3>1. D = Tail(el) /\ FirstOf(sg) = 2
      BY <2>1 DEF Data, FirstOf
    <3>2. /\ Tail(el) \in Seq(S) /\ Len(Tail(el)) = Len(el) - 1
          /\ \A n \in 1..Len(Tail(el)) : Tail(el)[n] = el[n + 1]
      BY <1>1
    <3>3. \A n \in 1..Len(Tail(el)) : n + 2 - 1 = n + 1 /\ n + 1 \in 1..Len(el)
      BY <1>2, <3>2
    <3> HIDE DEF el, D
    <3>4. Len(el) = Len(D) + 2 - 1
      BY <1>2, <3>1, <3>2
    <3> QED BY <3>1, <3>2, <3>3, <3>4
  <2>2. CASE el[1].type # "S"
    <3>1. D = el /\ FirstOf(sg) = 1
      BY <2>2 DEF Data, FirstOf
    <3>2. \A n \in 1..Len(el) : n + 1 - 1 = n
      BY <1>2
    <3> HIDE DEF el, D
    <3> QED BY <1>1, <1>2, <3>1, <3>2
  <2> QED BY <2>1, <2>2
<1>4. Skipped(sg) = Len(el) - Len(D)
  BY DEF Skipped
<1>5. FirstOf(sg) \in 1..2
  BY DEF FirstOf
<1> HIDE DEF el, D
<1>6. Len(D) \in Nat /\ DOMAIN D = 1..Len(D)
  BY <1>3
<1>7. Skipped(sg) = FirstOf(sg) - 1
  BY <1>2, <1>3, <1>4, <1>5, <1>6
<1>8. \A n \in 1..Len(D) : IsSeq(D[n].values)
  BY <1>1, <1>3
<1> QED BY <1>3, <1>6, <1>7, <1>8 DEF D, el

\* The places of the elements of a segment, and those of the values of one.
ElementsOf(sg, s) == [n \in DOMAIN Data(sg) |-> ElementPlaces(sg, s, n)]
ValuesOf(sg, s, n) == [v \in DOMAIN Data(sg)[n].values |-> ValuePlace(sg, s, n, v)]

\* The values of one element, one place or none for each
LEMMA ValuesOfFacts ==
  ASSUME NEW sg, IsSegment(sg), sg.elements # <<>>, NEW s, NEW n \in 1..Len(Data(sg))
  PROVE  /\ Lists(ValuesOf(sg, s, n)) /\ Len(ValuesOf(sg, s, n)) = Len(Data(sg)[n].values)
         /\ \A v \in 1..Len(Data(sg)[n].values) : ValuesOf(sg, s, n)[v] = ValuePlace(sg, s, n, v)
         /\ ElementPlaces(sg, s, n) =
              IF Data(sg)[n].type = "S"
              THEN <<Under(Segments[sg.tag][n].name, <<s, n + Skipped(sg), 0>>)>>
              ELSE FlattenSeq(ValuesOf(sg, s, n))
         /\ IsSeq(ElementPlaces(sg, s, n))
<1> DEFINE vs == Data(sg)[n].values
           ps == ValuesOf(sg, s, n)
<1>1. IsSeq(vs)
  BY DataFacts
<1>2. Len(vs) \in Nat /\ DOMAIN vs = 1..Len(vs)
  <2> HIDE DEF vs
  <2> QED BY <1>1 DEF IsSeq
<1>3. ps = [v \in 1..Len(vs) |-> ValuePlace(sg, s, n, v)]
  BY <1>2 DEF ValuesOf
<1>4. \A v \in 1..Len(vs) : ps[v] = ValuePlace(sg, s, n, v)
  BY <1>3
<1>5. \A v : IsSeq(ValuePlace(sg, s, n, v))
  BY OneIsSeq DEF ValuePlace
<1>6. ps = [v \in 1..Len(vs) |-> ps[v]]
  BY <1>3, <1>4
<1>7. Lists(ps) /\ Len(ps) = Len(vs)
  <2> HIDE DEF ps, vs
  <2> QED BY <1>2, <1>4, <1>5, <1>6, ListsFromFunction
<1>8. ElementPlaces(sg, s, n) =
        IF Data(sg)[n].type = "S" THEN <<Under(Segments[sg.tag][n].name, <<s, n + Skipped(sg), 0>>)>>
        ELSE FlattenSeq(ps)
  BY DEF ElementPlaces, ValuesOf
<1>9. IsSeq(FlattenSeq(ps))
  <2>1. Len(ps) \in Nat /\ Len(ps) >= Len(ps)
    BY <1>2, <1>7
  <2> HIDE DEF ps
  <2> QED BY <1>7, <2>1, UptoFacts
<1>10. IsSeq(ElementPlaces(sg, s, n))
  <2> HIDE DEF ps
  <2>1. IsSeq(<<Under(Segments[sg.tag][n].name, <<s, n + Skipped(sg), 0>>)>>)
    BY OneIsSeq
  <2> QED BY <1>8, <1>9, <2>1
<1> QED BY <1>4, <1>7, <1>8, <1>10

\* The elements of a segment, one after the other
LEMMA ElementsOfFacts ==
  ASSUME NEW sg, IsSegment(sg), sg.elements # <<>>, NEW s
  PROVE  /\ Lists(ElementsOf(sg, s)) /\ Len(ElementsOf(sg, s)) = Len(Data(sg))
         /\ \A n \in 1..Len(Data(sg)) : ElementsOf(sg, s)[n] = ElementPlaces(sg, s, n)
         /\ PlacesOf(sg, s) = FlattenSeq(ElementsOf(sg, s))
<1> DEFINE N == Len(Data(sg))
           ps == ElementsOf(sg, s)
<1>1. N \in Nat /\ DOMAIN Data(sg) = 1..N
  BY DataFacts
<1>2. ps = [n \in 1..N |-> ElementPlaces(sg, s, n)]
  BY <1>1 DEF ElementsOf
<1>3. \A n \in 1..N : ps[n] = ElementPlaces(sg, s, n) /\ IsSeq(ElementPlaces(sg, s, n))
  BY <1>2, ValuesOfFacts
<1>4. ps = [n \in 1..N |-> ps[n]]
  BY <1>2, <1>3
<1>5. Lists(ps) /\ Len(ps) = N
  <2> HIDE DEF ps, N
  <2> QED BY <1>1, <1>3, <1>4, ListsFromFunction
<1>6. PlacesOf(sg, s) = FlattenSeq(ps)
  BY DEF PlacesOf, ElementsOf
<1> QED BY <1>3, <1>5, <1>6

\* What the texts of segment s are when the conversion of m is at a place.
Passed(m, s, p, a, b, c) ==
  IF s < a THEN PlacesOf(m[s], s)
  ELSE IF s > a THEN <<>>
  ELSE CASE p \in {"segment", "open"} -> <<>>
         [] p = "child" -> Upto(ElementsOf(m[s], s), b - 1)
         [] p = "value" -> Upto(ElementsOf(m[s], s), b - 1) \o Upto(ValuesOf(m[s], s, b), c - 1)
         [] OTHER -> PlacesOf(m[s], s)

\* At place p of segment a, child b, component c of m these are there, and the
\* segment has no child left if the loop over its children ended.
InPlace(m, p, a, b, c) ==
  LET table == Segments[m[a].tag]
  IN  /\ p \in Working => m[a].tag # NoTag
      /\ p \in {"child", "value", "tail"} => m[a].tag \in DOMAIN Segments
      /\ p = "child" => b \in 1..(Len(table) + 1)
      /\ p = "value" => /\ b \in 1..Len(table) /\ b <= Len(Data(m[a]))
                        /\ table[b].composite /\ table[b].name \in DOMAIN Composites
                        /\ c \in 1..(Len(Composites[table[b].name]) + 1)
      /\ p = "tail" /\ Conforms(m[a]) => b = Len(table) + 1
PlaceInv ==
  /\ \A n \in DOMAIN msg : IsSegment(msg[n])
  /\ InPlace(msg, pc, i, k, j)

\* The texts are those of the values before the place.
PassedInv ==
  /\ pc \in Converting \/ (pc = "return" /\ rc = 0) =>
       \A s \in 1..Len(msg) : Conforms(msg[s]) =>
         PlacesIn(s, out) = Passed(msg, s, pc, i, k, j) /\ ~Complains(s, out)
  /\ pc = "return" /\ rc = 0 => i = Len(msg) + 1
  /\ ConformingIsWhole

WholeInv == PlaceInv /\ PassedInv

\* What is passed, by place
LEMMA PassedCases ==
  ASSUME NEW m, NEW a \in Nat, NEW b, NEW c
  PROVE  /\ \A s \in Nat : \A p : s < a => Passed(m, s, p, a, b, c) = PlacesOf(m[s], s)
         /\ \A s \in Nat : \A p : s > a => Passed(m, s, p, a, b, c) = <<>>
         /\ Passed(m, a, "segment", a, b, c) = <<>> /\ Passed(m, a, "open", a, b, c) = <<>>
         /\ Passed(m, a, "child", a, b, c) = Upto(ElementsOf(m[a], a), b - 1)
         /\ Passed(m, a, "value", a, b, c) =
              Upto(ElementsOf(m[a], a), b - 1) \o Upto(ValuesOf(m[a], a, b), c - 1)
         /\ Passed(m, a, "tail", a, b, c) = PlacesOf(m[a], a)
         /\ Passed(m, a, "end", a, b, c) = PlacesOf(m[a], a)
<1>1. \A s \in Nat : \A p : s < a => Passed(m, s, p, a, b, c) = PlacesOf(m[s], s)
  BY DEF Passed
<1>2. \A s \in Nat : \A p : s > a => Passed(m, s, p, a, b, c) = <<>>
  BY DEF Passed
<1>3. ~(a < a) /\ ~(a > a)
  OBVIOUS
<1> QED BY <1>1, <1>2, <1>3 DEF Passed

\* The place moves within segment a or on to the next one.
Onward(a, next, np) == np[1] = a \/ (next = "segment" /\ np[1] = a + 1)
\* The texts of the other segments stay when the place moves within a segment
\* or on to the next one.
LEMMA OthersStay ==
  ASSUME NEW m, NEW p, NEW a \in Nat, NEW b, NEW c, NEW next, NEW np, Onward(a, next, np),
         NEW s \in Nat, s # a
  PROVE  Passed(m, s, next, np[1], np[2], np[3]) = Passed(m, s, p, a, b, c)
<1>1. CASE s < a
  <2>1. s < np[1] /\ np[1] \in Nat
    BY <1>1 DEF Onward
  <2> QED BY <1>1, <2>1 DEF Passed
<1>2. CASE s > a
  <2>1. Passed(m, s, p, a, b, c) = <<>>
    BY <1>2 DEF Passed
  <2>2. CASE np[1] = a
    BY <1>2, <2>2 DEF Passed
  <2>3. CASE next = "segment" /\ np[1] = a + 1
    <3>1. s = np[1] \/ s > np[1]
      BY <1>2, <2>3
    <3> DEFINE e == np[1]
    <3>2. e \in Nat
      BY <2>3
    <3>3. s = e \/ (s > e /\ ~(s < e))
      BY <3>1, <3>2
    <3>4. ~(e < e) /\ ~(e > e)
      BY <3>2
    <3>5. Passed(m, s, "segment", e, np[2], np[3]) = <<>>
      <4> HIDE DEF e
      <4> QED BY <3>3, <3>4 DEF Passed
    <3> QED BY <2>1, <2>3, <3>5
  <2> QED BY <2>1, <2>2, <2>3 DEF Onward
<1> QED BY <1>1, <1>2

-----------------------------------------------------------------------------
(* Steps that write, and where they are                                    *)

\* A place outside the segments is in place whatever it is.
LEMMA InPlaceOutside ==
  ASSUME NEW m, NEW p, p \notin Working, NEW a, NEW b, NEW c
  PROVE  InPlace(m, p, a, b, c)
BY DEF InPlace, Working

\* A step that writes the texts between the place and the next one
LEMMA WrittenPasses ==
  ASSUME NestingInv, WholeInv, pc \in Working, NEW w, NEW next, NEW np, Written(w, next, np),
         \/ next \in Working /\ np[1] = i
         \/ next = "segment" /\ np[1] = i + 1,
         InPlace(msg, next, np[1], np[2], np[3]),
         \A s \in Nat : s # i => Adds(w.before \o w.after, s, <<>>),
         Conforms(msg[i]) =>
           \E ps : /\ Adds(w.before \o w.after, i, ps)
                   /\ Passed(msg, i, next, np[1], np[2], np[3]) = Passed(msg, i, pc, i, k, j) \o ps
  PROVE  WholeInv'
<1>0. IsSeq(out) /\ Len(msg) \in Nat /\ i \in 1..Len(msg) /\ rc = 0 /\ ConformingIsWhole
      /\ \A n \in DOMAIN msg : IsSegment(msg[n])
  BY DEF NestingInv, IsSeq, Converting, WholeInv, PassedInv, PlaceInv
<1>1. CASE Complete(w, next, np)
  <2> DEFINE text == w.before \o w.after
  <2>1. /\ out' = out \o text
        /\ pc' = next /\ i' = np[1] /\ k' = np[2] /\ j' = np[3]
        /\ msg' = msg /\ rc' = rc /\ result' = result
    BY <1>1 DEF Complete, Stand, session
  <2>2. pc' \in Converting
    BY <2>1 DEF Converting
  <2>3. ASSUME NEW s \in 1..Len(msg), Conforms(msg[s])
        PROVE  PlacesIn(s, out') = Passed(msg, s, pc', i', k', j') /\ ~Complains(s, out')
    <3>1. PlacesIn(s, out) = Passed(msg, s, pc, i, k, j) /\ ~Complains(s, out)
      BY <2>3 DEF WholeInv, PassedInv, Converting
    <3>2. s \in Nat /\ i \in Nat
      BY <1>0
    <3>3. CASE s = i
      <4>1. PICK ps : /\ Adds(text, s, ps)
                      /\ Passed(msg, s, next, np[1], np[2], np[3]) = Passed(msg, s, pc, i, k, j) \o ps
        BY <2>3, <3>3
      <4>2. PlacesIn(s, out') = PlacesIn(s, out) \o ps /\ (Complains(s, out') => Complains(s, out))
        <5> HIDE DEF text
        <5> QED BY <4>1, <2>1, <1>0 DEF Adds
      <4> QED BY <2>1, <3>1, <4>1, <4>2
    <3>4. CASE s # i
      <4>1. Adds(text, s, <<>>)
        BY <3>2, <3>4
      <4>2. PlacesIn(s, out') = PlacesIn(s, out) \o <<>> /\ (Complains(s, out') => Complains(s, out))
        <5> HIDE DEF text
        <5> QED BY <4>1, <2>1, <1>0 DEF Adds
      <4>3. PlacesIn(s, out) \o <<>> = PlacesIn(s, out)
        BY <1>0, ConcatEmpty, ListedFacts
      <4>4. Passed(msg, s, next, np[1], np[2], np[3]) = Passed(msg, s, pc, i, k, j)
        <5>1. Onward(i, next, np)
          BY DEF Onward
        <5> QED BY <3>2, <3>4, <5>1, OthersStay
      <4> QED BY <2>1, <3>1, <4>2, <4>3, <4>4
    <3> QED BY <3>3, <3>4
  <2>4. PlaceInv'
    <3>1. InPlace(msg', pc', i', k', j')
      BY <2>1
    <3> QED BY <1>0, <2>1, <3>1 DEF PlaceInv
  <2>5. ConformingIsWhole'
    BY <1>0, <2>1 DEF ConformingIsWhole
  <2>6. pc' # "return"
    BY <2>2 DEF Converting, Working
  <2>7. PassedInv'
    BY <2>1, <2>3, <2>5, <2>6 DEF PassedInv
  <2> QED BY <2>4, <2>7 DEF WholeInv
<1>2. CASE Thrown
  <2>1. rc' = -1 /\ pc' = "return" /\ msg' = msg
    BY <1>2 DEF Thrown, Catch, session
  <2>2. InPlace(msg', pc', i', k', j')
    <3>1. pc' \notin Working
      BY <2>1 DEF Working
    <3> QED BY <3>1, InPlaceOutside
  <2> QED BY <1>0, <2>1, <2>2 DEF WholeInv, PlaceInv, PassedInv, ConformingIsWhole, Converting, Working
<1>3. CASE Broken
  <2>1. /\ pc' = "stopped" /\ UNCHANGED <<msg, rc, result>>
    BY <1>3 DEF Broken, Breaks, session
  <2>2. InPlace(msg', pc', i', k', j')
    <3>1. pc' \notin Working
      BY <2>1 DEF Working
    <3> QED BY <3>1, InPlaceOutside
  <2> QED BY <1>0, <2>1, <2>2 DEF WholeInv, PlaceInv, PassedInv, ConformingIsWhole, Converting, Working
<1> QED BY <1>1, <1>2, <1>3, WrittenShape

\* A step that writes nothing
LEMMA GotoPasses ==
  ASSUME NestingInv, WholeInv, pc \in Working, NEW next \in Working, NEW np, Goto(next, np),
         np[1] = i, InPlace(msg, next, np[1], np[2], np[3]),
         Conforms(msg[i]) => Passed(msg, i, next, np[1], np[2], np[3]) = Passed(msg, i, pc, i, k, j)
  PROVE  WholeInv'
<1>0. IsSeq(out) /\ Len(msg) \in Nat /\ i \in 1..Len(msg) /\ rc = 0 /\ ConformingIsWhole
      /\ \A n \in DOMAIN msg : IsSegment(msg[n])
  BY DEF NestingInv, IsSeq, Converting, WholeInv, PassedInv, PlaceInv
<1>1. /\ pc' = next /\ i' = np[1] /\ k' = np[2] /\ j' = np[3]
      /\ UNCHANGED <<msg, out, rc, result>>
  BY DEF Goto, Stand, session, buffer
<1>2. ASSUME NEW s \in 1..Len(msg), Conforms(msg[s])
      PROVE  PlacesIn(s, out') = Passed(msg, s, pc', i', k', j') /\ ~Complains(s, out')
  <2>1. PlacesIn(s, out) = Passed(msg, s, pc, i, k, j) /\ ~Complains(s, out)
    BY <1>2 DEF WholeInv, PassedInv, Converting
  <2>2. s \in Nat /\ i \in Nat
    BY <1>0
  <2>3. Passed(msg, s, next, np[1], np[2], np[3]) = Passed(msg, s, pc, i, k, j)
    <3>1. Onward(i, next, np)
      BY DEF Onward
    <3>2. CASE s # i
      BY <2>2, <3>1, <3>2, OthersStay
    <3> QED BY <1>2, <3>2
  <2> QED BY <1>1, <2>1, <2>3
<1>3. PlaceInv'
  <2>1. InPlace(msg', pc', i', k', j')
    BY <1>1
  <2> QED BY <1>0, <1>1, <2>1 DEF PlaceInv
<1>4. ConformingIsWhole'
  BY <1>0, <1>1 DEF ConformingIsWhole
<1>5. pc' # "return"
  BY <1>1 DEF Working
<1>6. PassedInv'
  BY <1>1, <1>2, <1>4, <1>5 DEF PassedInv
<1> QED BY <1>3, <1>6 DEF WholeInv

\* In a segment: where it is, and the data of its child
LEMMA HereFacts ==
  ASSUME NestingInv, PlaceInv, pc \in Working
  PROVE  /\ i \in 1..Len(msg) /\ i \in Nat /\ Len(msg) \in Nat /\ seg = msg[i]
         /\ IsSegment(seg) /\ seg.elements # <<>> /\ seg.tag # NoTag
         /\ Len(Data(seg)) \in Nat
         /\ seg.tag \in DOMAIN Segments => Len(Segments[seg.tag]) \in Nat
         /\ k \in Nat \ {0} => /\ di = k + Skipped(seg)
                               /\ HasData <=> k <= Len(Data(seg))
                               /\ HasData => elements[di] = Data(seg)[k]
<1>1. Len(msg) \in Nat /\ i \in 1..Len(msg) /\ DOMAIN msg = 1..Len(msg)
  BY DEF NestingInv, IsSeq, Converting
<1>2. seg = msg[i] /\ IsSegment(seg) /\ seg.tag # NoTag
  BY <1>1 DEF PlaceInv, InPlace, seg
<1>3. seg.elements # <<>>
  BY <1>2 DEF IsSegment
<1>4. FirstData = FirstOf(seg)
  BY DEF FirstData, FirstOf, elements
<1>5. FirstOf(seg) \in 1..2 /\ Len(Data(seg)) \in Nat
      /\ Len(elements) = Len(Data(seg)) + FirstOf(seg) - 1
      /\ Skipped(seg) = FirstOf(seg) - 1
      /\ \A n \in 1..Len(Data(seg)) : Data(seg)[n] = elements[n + FirstOf(seg) - 1]
  BY <1>2, <1>3, DataFacts DEF FirstOf, elements
<1>6. ASSUME k \in Nat \ {0}
      PROVE  /\ di = k + Skipped(seg)
             /\ HasData <=> k <= Len(Data(seg))
             /\ HasData => elements[di] = Data(seg)[k]
  <2>1. di = k + FirstOf(seg) - 1
    BY <1>4, <1>5, <1>6 DEF di
  <2>2. di = k + Skipped(seg)
    BY <1>5, <1>6, <2>1
  <2>3. HasData <=> k <= Len(Data(seg))
    BY <1>5, <1>6, <2>1 DEF HasData
  <2>4. ASSUME k <= Len(Data(seg)) PROVE elements[di] = Data(seg)[k]
    BY <1>5, <1>6, <2>1, <2>4
  <2> QED BY <2>2, <2>3, <2>4
<1>7. seg.tag \in DOMAIN Segments => Len(Segments[seg.tag]) \in Nat
  BY EdiXmlAssumption DEF EdiXmlAssumption, IsSeq
<1> QED BY <1>1, <1>2, <1>3, <1>5, <1>6, <1>7

\* At a child: it has its number, and what a conforming segment has for it.
LEMMA ChildFacts ==
  ASSUME NestingInv, PlaceInv, AtChild
  PROVE  /\ pc = "child" /\ pc \in Working /\ seg.tag \in DOMAIN Segments
         /\ k \in 1..Len(Segments[seg.tag]) /\ k \in Nat \ {0}
         /\ Conforms(seg) /\ HasData => ConformsTo(elements[di], child) /\ Fits(child, elements[di])
         /\ Conforms(seg) /\ ~HasData => child.optional
<1>1. pc = "child" /\ pc \in Working /\ k <= Len(Segments[seg.tag])
  BY DEF AtChild, Working
<1>2. seg.tag \in DOMAIN Segments /\ k \in 1..(Len(Segments[seg.tag]) + 1)
  BY <1>1 DEF PlaceInv, InPlace, seg
<1>3. Len(Segments[seg.tag]) \in Nat /\ DOMAIN Segments[seg.tag] = 1..Len(Segments[seg.tag])
  BY <1>2, EdiXmlAssumption DEF EdiXmlAssumption, IsSeq
<1>4. k \in 1..Len(Segments[seg.tag]) /\ k \in Nat \ {0}
  BY <1>1, <1>2, <1>3
<1>5. (HasData <=> k <= Len(Data(seg))) /\ (HasData => elements[di] = Data(seg)[k])
  BY <1>1, <1>4, HereFacts
<1>6. ASSUME Conforms(seg) PROVE IF HasData THEN ConformsTo(elements[di], child) ELSE child.optional
  <2>1. IF k <= Len(Data(seg)) THEN ConformsTo(Data(seg)[k], Segments[seg.tag][k])
        ELSE Segments[seg.tag][k].optional
    BY <1>3, <1>4, <1>6 DEF Conforms
  <2> QED BY <1>5, <2>1 DEF child
<1>7. ConformsTo(elements[di], child) => Fits(child, elements[di])
  BY DEF ConformsTo, Fits
<1> QED BY <1>1, <1>2, <1>4, <1>6, <1>7

-----------------------------------------------------------------------------
(* The segments, one step after the other                                  *)

\* What is passed of the segment, and the growth of it by a child or a component
LEMMA HerePassed ==
  ASSUME NestingInv, PlaceInv, pc \in Working, NEW b, NEW c
  PROVE  /\ Passed(msg, i, "open", i, b, c) = <<>>
         /\ Passed(msg, i, "child", i, b, c) = Upto(ElementsOf(seg, i), b - 1)
         /\ Passed(msg, i, "value", i, b, c) =
              Upto(ElementsOf(seg, i), b - 1) \o Upto(ValuesOf(seg, i, b), c - 1)
         /\ Passed(msg, i, "tail", i, b, c) = PlacesOf(seg, i)
         /\ Passed(msg, i, "end", i, b, c) = PlacesOf(seg, i)
         /\ Passed(msg, i, "segment", i + 1, b, c) = PlacesOf(seg, i)
<1>1. i \in Nat /\ seg = msg[i] /\ i + 1 \in Nat /\ i < i + 1
  BY HereFacts
<1>2. Passed(msg, i, "segment", i + 1, b, c) = PlacesOf(seg, i)
  BY <1>1 DEF Passed
<1> QED BY <1>1, <1>2, PassedCases

\* Another child, or none if the data are at their end
LEMMA ElementsGrow ==
  ASSUME NestingInv, PlaceInv, pc \in Working, NEW b \in Nat \ {0}
  PROVE  LET ps == ElementsOf(seg, i)
         IN  /\ Upto(ps, 0) = <<>> /\ IsSeq(Upto(ps, b - 1)) /\ IsSeq(Upto(ps, b))
             /\ b > Len(Data(seg)) => Upto(ps, b - 1) = PlacesOf(seg, i) /\ Upto(ps, b) = PlacesOf(seg, i)
             /\ b <= Len(Data(seg)) => Upto(ps, b) = Upto(ps, b - 1) \o ElementPlaces(seg, i, b)
<1> DEFINE ps == ElementsOf(seg, i)
<1>1. IsSegment(seg) /\ seg.elements # <<>> /\ Len(Data(seg)) \in Nat
  BY HereFacts
<1>2. /\ Lists(ps) /\ Len(ps) = Len(Data(seg)) /\ PlacesOf(seg, i) = FlattenSeq(ps)
      /\ \A n \in 1..Len(Data(seg)) : ps[n] = ElementPlaces(seg, i, n)
  BY <1>1, ElementsOfFacts
<1> HIDE DEF ps
<1>3. b \in Nat /\ b - 1 \in Nat
  OBVIOUS
<1>4. Upto(ps, 0) = <<>> /\ IsSeq(Upto(ps, b - 1)) /\ IsSeq(Upto(ps, b))
  BY <1>2, <1>3, UptoFacts
<1>5. ASSUME b > Len(Data(seg)) PROVE Upto(ps, b - 1) = PlacesOf(seg, i) /\ Upto(ps, b) = PlacesOf(seg, i)
  <2>1. b >= Len(ps) /\ b - 1 >= Len(ps)
    BY <1>1, <1>2, <1>5
  <2>2. \A n \in Nat : n >= Len(ps) => Upto(ps, n) = FlattenSeq(ps)
    BY <1>2, UptoFacts
  <2> QED BY <1>2, <1>3, <2>1, <2>2
<1>6. ASSUME b <= Len(Data(seg)) PROVE Upto(ps, b) = Upto(ps, b - 1) \o ElementPlaces(seg, i, b)
  <2>1. b \in 1..Len(ps)
    BY <1>1, <1>2, <1>6
  <2>2. Upto(ps, b) = Upto(ps, b - 1) \o ps[b]
    BY <1>2, <2>1, UptoFacts
  <2> QED BY <1>2, <2>1, <2>2
<1> QED BY <1>4, <1>5, <1>6 DEF ps

\* Another component, or none if the values are at their end
LEMMA ValuesGrow ==
  ASSUME NestingInv, PlaceInv, pc \in Working, NEW b \in 1..Len(Data(seg)), NEW c \in Nat \ {0}
  PROVE  LET ps == ValuesOf(seg, i, b)
             values == Data(seg)[b].values
         IN  /\ Upto(ps, 0) = <<>> /\ IsSeq(Upto(ps, c - 1)) /\ Len(values) \in Nat
             /\ c > Len(values) => Upto(ps, c - 1) = FlattenSeq(ps) /\ Upto(ps, c) = Upto(ps, c - 1)
             /\ c <= Len(values) => Upto(ps, c) = Upto(ps, c - 1) \o ValuePlace(seg, i, b, c)
<1> DEFINE ps == ValuesOf(seg, i, b)
           N == Len(Data(seg)[b].values)
<1>1. IsSegment(seg) /\ seg.elements # <<>>
  BY HereFacts
<1>2. /\ Lists(ps) /\ Len(ps) = N
      /\ \A n \in 1..N : ps[n] = ValuePlace(seg, i, b, n)
  BY <1>1, ValuesOfFacts
<1> HIDE DEF ps, N
<1>3. c \in Nat /\ c - 1 \in Nat
  OBVIOUS
<1>4. Upto(ps, 0) = <<>> /\ IsSeq(Upto(ps, c - 1)) /\ Len(ps) \in Nat
  BY <1>2, <1>3, UptoFacts
<1>5. ASSUME c > N PROVE Upto(ps, c - 1) = FlattenSeq(ps) /\ Upto(ps, c) = Upto(ps, c - 1)
  <2>1. c >= Len(ps) /\ c - 1 >= Len(ps)
    BY <1>2, <1>4, <1>5
  <2>2. \A n \in Nat : n >= Len(ps) => Upto(ps, n) = FlattenSeq(ps)
    BY <1>2, UptoFacts
  <2> QED BY <1>2, <1>3, <2>1, <2>2
<1>6. ASSUME c <= N PROVE Upto(ps, c) = Upto(ps, c - 1) \o ValuePlace(seg, i, b, c)
  <2>1. c \in 1..Len(ps)
    BY <1>2, <1>4, <1>6
  <2>2. Upto(ps, c) = Upto(ps, c - 1) \o ps[c]
    BY <1>2, <2>1, UptoFacts
  <2> QED BY <1>2, <2>1, <2>2
<1> QED BY <1>2, <1>4, <1>5, <1>6 DEF ps, N

\* The start of a segment
LEMMA OpenSegmentPasses ==
  ASSUME NestingInv, WholeInv, OpenSegment
  PROVE  WholeInv'
<1>0. pc = "open" /\ pc \in Working /\ PlaceInv
  BY DEF OpenSegment, Working, WholeInv
<1>1. /\ i \in Nat /\ seg = msg[i] /\ seg.tag # NoTag
      /\ seg.tag \in DOMAIN Segments => Len(Segments[seg.tag]) \in Nat
  BY <1>0, HereFacts
<1>2. CASE seg.tag \in DOMAIN Segments
  <2> DEFINE w == Plain(Opening \o When(opts.segments, Comment) \o <<Open("S", seg.tag)>>)
             np == <<i, 1, 0>>
  <2>1. Written(w, "child", np)
    BY <1>2 DEF OpenSegment
  <2>2. ASSUME NEW s, s # i \/ Conforms(seg) PROVE Adds(w.before \o w.after, s, <<>>)
    <3>1. Adds(Opening, s, <<>>)
      BY <2>2, AddsEnvelope DEF Conforms
    <3>2. Adds(Opening \o When(opts.segments, Comment), s, <<>>)
      BY <3>1, AddsMarkups, AddsNoMore
    <3>3. Adds(Opening \o When(opts.segments, Comment) \o <<Open("S", seg.tag)>>, s, <<>>)
      BY <3>2, AddsMarkups, AddsNoMore
    <3> QED BY <3>3, AddsNothing, AddsNoMore DEF Plain, Write
  <2>3. Passed(msg, i, "child", i, 1, 0) = Passed(msg, i, pc, i, k, j) \o <<>>
    <3>1. 1 - 1 = 0 /\ <<>> \o <<>> = <<>>
      OBVIOUS
    <3>2. Upto(ElementsOf(seg, i), 0) = <<>>
      BY <1>0, ElementsGrow
    <3> QED BY <1>0, <3>1, <3>2, HerePassed
  <2>4. InPlace(msg, "child", i, 1, 0)
    BY <1>1, <1>2 DEF InPlace
  <2> HIDE DEF w
  <2> QED BY <1>0, <1>1, <2>1, <2>2, <2>3, <2>4, WrittenPasses DEF Working
<1>3. CASE seg.tag \notin DOMAIN Segments
  <2> DEFINE w == Plain(Opening \o Error)
  <2>1. Written(w, "end", place)
    BY <1>3 DEF OpenSegment
  <2>2. ASSUME NEW s, s # i PROVE Adds(w.before \o w.after, s, <<>>)
    <3>1. Adds(Opening \o Error, s, <<>>)
      BY <2>2, AddsEnvelope, AddsError, AddsNoMore
    <3> QED BY <3>1, AddsNothing, AddsNoMore DEF Plain, Write
  <2>3. ~Conforms(msg[i])
    BY <1>1, <1>3 DEF Conforms
  <2>4. InPlace(msg, "end", i, k, j)
    BY <1>1 DEF InPlace
  <2>5. place[1] = i /\ place[2] = k /\ place[3] = j
    BY DEF place
  <2> HIDE DEF w
  <2> QED BY <1>0, <1>1, <2>1, <2>2, <2>3, <2>4, <2>5, WrittenPasses DEF Working
<1> QED BY <1>2, <1>3

\* Nothing is left over in a segment that conforms.
LEMMA CloseSegmentPasses ==
  ASSUME NestingInv, WholeInv, CloseSegment
  PROVE  WholeInv'
<1> DEFINE before == IF di <= Len(elements) THEN Error ELSE <<>>
           w == Plain(before \o <<Close("S", seg.tag)>>)
<1>0. pc = "tail" /\ pc \in Working /\ PlaceInv /\ Written(w, "end", place)
  BY DEF CloseSegment, Working, WholeInv
<1>1. /\ i \in Nat /\ seg = msg[i] /\ seg.tag # NoTag /\ Len(Data(seg)) \in Nat
      /\ seg.tag \in DOMAIN Segments => Len(Segments[seg.tag]) \in Nat
  BY <1>0, HereFacts
<1>2. Conforms(seg) => before = <<>>
  <2> SUFFICES ASSUME Conforms(seg) PROVE before = <<>>
    OBVIOUS
  <2>1. k = Len(Segments[seg.tag]) + 1 /\ Len(Segments[seg.tag]) \in Nat /\ Len(Data(seg)) <= Len(Segments[seg.tag])
    BY <1>0, <1>1 DEF PlaceInv, InPlace, Conforms
  <2>2. k \in Nat \ {0} /\ ~(k <= Len(Data(seg)))
    BY <1>1, <2>1
  <2>3. ~HasData
    BY <1>0, <2>2, HereFacts
  <2> QED BY <2>3 DEF HasData
<1>3. ASSUME NEW s, s # i \/ Conforms(seg) PROVE Adds(w.before \o w.after, s, <<>>)
  <2>1. Adds(before, s, <<>>)
    BY <1>2, <1>3, AddsNothing, AddsError
  <2>2. Adds(before \o <<Close("S", seg.tag)>>, s, <<>>)
    <3> HIDE DEF before
    <3> QED BY <2>1, AddsMarkups, AddsNoMore
  <2> QED BY <2>2, AddsNothing, AddsNoMore DEF Plain, Write
<1>4. Conforms(seg) => Passed(msg, i, "end", i, k, j) = Passed(msg, i, pc, i, k, j) \o <<>>
  <2>1. IsSeq(PlacesOf(seg, i))
    <3>1. \A n \in Nat \ {0} : n > Len(Data(seg)) => Upto(ElementsOf(seg, i), n) = PlacesOf(seg, i)
                                                     /\ IsSeq(Upto(ElementsOf(seg, i), n))
      BY <1>0, ElementsGrow
    <3>2. Len(Data(seg)) + 1 \in Nat \ {0} /\ Len(Data(seg)) + 1 > Len(Data(seg))
      BY <1>1
    <3> DEFINE n == Len(Data(seg)) + 1
    <3>3. Upto(ElementsOf(seg, i), n) = PlacesOf(seg, i) /\ IsSeq(Upto(ElementsOf(seg, i), n))
      <4>1. n \in Nat \ {0} /\ n > Len(Data(seg))
        BY <3>2
      <4> HIDE DEF n
      <4> QED BY <3>1, <4>1
    <3> QED BY <3>3
  <2> QED BY <1>0, <2>1, HerePassed, ConcatEmpty
<1>5. InPlace(msg, "end", i, k, j)
  BY <1>1 DEF InPlace
<1>6. place[1] = i /\ place[2] = k /\ place[3] = j
  BY DEF place
<1> HIDE DEF w
<1> QED BY <1>0, <1>1, <1>3, <1>4, <1>5, <1>6, WrittenPasses DEF Working

\* The end of a segment
LEMMA EndSegmentPasses ==
  ASSUME NestingInv, WholeInv, EndSegment
  PROVE  WholeInv'
<1> DEFINE w == Plain(Closing)
           np == <<i + 1, 0, 0>>
<1>0. pc = "end" /\ pc \in Working /\ PlaceInv /\ Written(w, "segment", np)
  BY DEF EndSegment, Working, WholeInv
<1>1. i \in Nat /\ seg = msg[i]
  BY <1>0, HereFacts
<1>2. ASSUME NEW s, s # i \/ Conforms(seg) PROVE Adds(w.before \o w.after, s, <<>>)
  <2>1. Adds(Closing, s, <<>>)
    BY <1>2, AddsEnvelope DEF Conforms
  <2> QED BY <2>1, AddsNothing, AddsNoMore DEF Plain, Write
<1>3. Conforms(seg) => Passed(msg, i, "segment", i + 1, 0, 0) = Passed(msg, i, pc, i, k, j) \o <<>>
  <2> SUFFICES ASSUME Conforms(seg)
      PROVE Passed(msg, i, "segment", i + 1, 0, 0) = Passed(msg, i, pc, i, k, j) \o <<>>
    OBVIOUS
  <2>1. Passed(msg, i, "segment", i + 1, 0, 0) = Passed(msg, i, pc, i, k, j)
    BY <1>0, HerePassed
  <2>2. IsSeq(out) /\ PlacesIn(i, out) = Passed(msg, i, pc, i, k, j)
    <3>1. i \in 1..Len(msg) /\ pc \in Converting
      BY <1>0, HereFacts DEF Converting
    <3> QED BY <1>1, <3>1 DEF WholeInv, PassedInv, NestingInv
  <2>3. IsSeq(Passed(msg, i, pc, i, k, j))
    BY <2>2, ListedFacts
  <2> QED BY <2>1, <2>3, ConcatEmpty
<1>4. InPlace(msg, "segment", i + 1, 0, 0)
  BY InPlaceOutside DEF Working
<1> HIDE DEF w
<1> QED BY <1>0, <1>1, <1>2, <1>3, <1>4, WrittenPasses DEF Working

-----------------------------------------------------------------------------
(* Their children                                                          *)

\* The texts passed so far are a sequence.
LEMMA PassedIsSeq ==
  ASSUME NestingInv, WholeInv, pc \in Working, Conforms(seg)
  PROVE  IsSeq(Passed(msg, i, pc, i, k, j))
         /\ Passed(msg, i, pc, i, k, j) \o <<>> = Passed(msg, i, pc, i, k, j)
<1>1. i \in 1..Len(msg) /\ pc \in Converting /\ seg = msg[i]
  BY HereFacts DEF Converting, WholeInv
<1>2. IsSeq(out) /\ PlacesIn(i, out) = Passed(msg, i, pc, i, k, j)
  BY <1>1 DEF WholeInv, PassedInv, NestingInv
<1>3. IsSeq(Passed(msg, i, pc, i, k, j))
  BY <1>2, ListedFacts
<1> QED BY <1>3, ConcatEmpty

\* Behind the children
LEMMA EndOfChildrenPasses ==
  ASSUME NestingInv, WholeInv, EndOfChildren
  PROVE  WholeInv'
<1>0. pc = "child" /\ pc \in Working /\ "tail" \in Working /\ PlaceInv /\ Goto("tail", place)
      /\ k > Len(Segments[seg.tag])
  BY DEF EndOfChildren, Working, WholeInv
<1>1. /\ i \in Nat /\ seg = msg[i] /\ seg.tag # NoTag /\ Len(Data(seg)) \in Nat
      /\ seg.tag \in DOMAIN Segments => Len(Segments[seg.tag]) \in Nat
  BY <1>0, HereFacts
<1>2. seg.tag \in DOMAIN Segments /\ k = Len(Segments[seg.tag]) + 1 /\ k \in Nat \ {0}
  <2>1. seg.tag \in DOMAIN Segments /\ k \in 1..(Len(Segments[seg.tag]) + 1)
    BY <1>0, <1>1 DEF PlaceInv, InPlace
  <2> QED BY <1>0, <1>1, <2>1
<1>3. Conforms(seg) => Passed(msg, i, "tail", i, k, j) = Passed(msg, i, pc, i, k, j)
  <2> SUFFICES ASSUME Conforms(seg)
      PROVE Passed(msg, i, "tail", i, k, j) = Passed(msg, i, pc, i, k, j)
    OBVIOUS
  <2>1. k > Len(Data(seg))
    BY <1>1, <1>2 DEF Conforms
  <2>2. Upto(ElementsOf(seg, i), k - 1) = PlacesOf(seg, i)
    BY <1>0, <1>2, <2>1, ElementsGrow
  <2> QED BY <1>0, <2>2, HerePassed
<1>4. InPlace(msg, "tail", i, k, j)
  BY <1>1, <1>2 DEF InPlace
<1>5. place[1] = i /\ place[2] = k /\ place[3] = j
  BY DEF place
<1> QED BY <1>0, <1>1, <1>3, <1>4, <1>5, GotoPasses

\* On to the next child
LEMMA NextChildInPlace ==
  ASSUME NestingInv, PlaceInv, pc \in Working, seg.tag \in DOMAIN Segments, k \in 1..Len(Segments[seg.tag])
  PROVE  InPlace(msg, "child", i, k + 1, 0) /\ NextChild = <<i, k + 1, 0>> /\ k \in Nat \ {0}
         /\ (k + 1) - 1 = k /\ k + 1 \in Nat \ {0}
<1>1. /\ seg = msg[i] /\ seg.tag # NoTag
      /\ seg.tag \in DOMAIN Segments => Len(Segments[seg.tag]) \in Nat
  BY HereFacts
<1> QED BY <1>1 DEF InPlace, NextChild

\* A child without data is passed without a text.
LEMMA SkipChildPasses ==
  ASSUME NestingInv, WholeInv, SkipChild
  PROVE  WholeInv'
<1>0. AtChild /\ "child" \in Working /\ PlaceInv /\ Goto("child", NextChild) /\ ~HasData
  BY DEF SkipChild, Working, WholeInv
<1>1. /\ pc = "child" /\ pc \in Working /\ seg.tag \in DOMAIN Segments
      /\ k \in 1..Len(Segments[seg.tag]) /\ seg = msg[i]
  BY <1>0, ChildFacts, HereFacts
<1>2. InPlace(msg, "child", i, k + 1, 0) /\ NextChild = <<i, k + 1, 0>> /\ k \in Nat \ {0}
      /\ (k + 1) - 1 = k /\ k + 1 \in Nat \ {0}
  BY <1>0, <1>1, NextChildInPlace
<1>3. Passed(msg, i, "child", i, k + 1, 0) = Passed(msg, i, pc, i, k, j)
  <2>1. k > Len(Data(seg))
    BY <1>0, <1>1, <1>2, HereFacts
  <2>2. Upto(ElementsOf(seg, i), k) = Upto(ElementsOf(seg, i), k - 1)
    BY <1>0, <1>1, <1>2, <2>1, ElementsGrow
  <2> QED BY <1>0, <1>1, <1>2, <2>2, HerePassed
<1>4. NextChild[1] = i /\ NextChild[2] = k + 1 /\ NextChild[3] = 0
  BY <1>2
<1> QED BY <1>0, <1>1, <1>2, <1>3, <1>4, GotoPasses

\* What does not fit a child is of a segment that does not conform.
LEMMA PassOverPasses ==
  ASSUME NestingInv, WholeInv, PassOver
  PROVE  WholeInv'
<1> DEFINE w == ElementMissing(child.name)
<1>0. AtChild /\ PlaceInv /\ Written(w, "child", NextChild) /\ HasData /\ ~Fits(child, elements[di])
  BY DEF PassOver, WholeInv
<1>1. /\ pc = "child" /\ pc \in Working /\ seg.tag \in DOMAIN Segments
      /\ k \in 1..Len(Segments[seg.tag]) /\ seg = msg[i] /\ ~Conforms(seg)
  BY <1>0, ChildFacts, HereFacts
<1>2. InPlace(msg, "child", i, k + 1, 0) /\ NextChild = <<i, k + 1, 0>>
  BY <1>0, <1>1, NextChildInPlace
<1>3. \A s \in Nat : Adds(w.before \o w.after, s, <<>>)
  BY AddsMissing
<1>4. NextChild[1] = i /\ NextChild[2] = k + 1 /\ NextChild[3] = 0
  BY <1>2
<1> HIDE DEF w
<1> QED BY <1>0, <1>1, <1>2, <1>3, <1>4, WrittenPasses DEF Working

\* Nor is a segment that leaves out what is mandatory.
LEMMA MandatoryPasses ==
  ASSUME NestingInv, WholeInv, Mandatory
  PROVE  WholeInv'
<1> DEFINE w == Plain(Error)
<1>0. AtChild /\ PlaceInv /\ Written(w, "tail", place) /\ ~child.optional
      /\ (HasData => ~Fits(child, elements[di]))
  BY DEF Mandatory, WholeInv, AfterMandatory
<1>1. /\ pc = "child" /\ pc \in Working /\ seg.tag \in DOMAIN Segments
      /\ seg = msg[i] /\ ~Conforms(seg) /\ seg.tag # NoTag
  BY <1>0, ChildFacts, HereFacts
<1>2. InPlace(msg, "tail", i, k, j)
  BY <1>1 DEF InPlace
<1>3. ASSUME NEW s \in Nat, s # i PROVE Adds(w.before \o w.after, s, <<>>)
  BY <1>3, AddsError, AddsNothing, AddsNoMore DEF Plain, Write
<1>4. place[1] = i /\ place[2] = k /\ place[3] = j
  BY DEF place
<1> HIDE DEF w
<1> QED BY <1>0, <1>1, <1>2, <1>3, <1>4, WrittenPasses DEF Working

\* A simple element adds its place and its name.
LEMMA SimpleElementPasses ==
  ASSUME NestingInv, WholeInv, SimpleElement
  PROVE  WholeInv'
<1> DEFINE w == ElementToXml(child.name, elements[di].values[1], <<i, di, 0>>)
           at == Under(child.name, <<i, di, 0>>)
<1>0. AtChild /\ PlaceInv /\ Written(w, "child", NextChild) /\ HasData /\ ~child.composite
  BY DEF SimpleElement, WholeInv
<1>1. /\ pc = "child" /\ pc \in Working /\ seg.tag \in DOMAIN Segments
      /\ k \in 1..Len(Segments[seg.tag]) /\ seg = msg[i]
      /\ Conforms(seg) => ConformsTo(elements[di], child)
  BY <1>0, ChildFacts, HereFacts
<1>2. InPlace(msg, "child", i, k + 1, 0) /\ NextChild = <<i, k + 1, 0>> /\ k \in Nat \ {0}
      /\ (k + 1) - 1 = k /\ k + 1 \in Nat \ {0}
  BY <1>0, <1>1, NextChildInPlace
<1>3. ASSUME NEW s \in Nat, s # i PROVE Adds(w.before \o w.after, s, <<>>)
  <2>1. Adds(w.before \o w.after, s, When(i = s, at))
    BY <1>3, AddsElement
  <2> QED BY <1>3, <2>1 DEF When
<1>4. ASSUME Conforms(seg)
      PROVE  /\ Adds(w.before \o w.after, i, <<at>>)
             /\ Passed(msg, i, "child", i, k + 1, 0) = Passed(msg, i, pc, i, k, j) \o <<at>>
  <2>1. child.name \in DOMAIN Elements /\ elements[di].type = "S"
    BY <1>0, <1>1, <1>4 DEF ConformsTo
  <2>2. Adds(w.before \o w.after, i, When(i = i, at))
    BY <2>1, AddsElement
  <2>3. When(i = i, at) = <<at>>
    BY DEF When
  <2>4. k <= Len(Data(seg)) /\ elements[di] = Data(seg)[k] /\ di = k + Skipped(seg)
        /\ IsSegment(seg) /\ seg.elements # <<>> /\ k \in 1..Len(Data(seg))
        /\ child = Segments[seg.tag][k]
    BY <1>0, <1>1, <1>2, HereFacts DEF child
  <2>5. ElementPlaces(seg, i, k) = <<at>>
    BY <2>1, <2>4, ValuesOfFacts
  <2>6. Upto(ElementsOf(seg, i), k) = Upto(ElementsOf(seg, i), k - 1) \o <<at>>
    <3> HIDE DEF at
    <3> QED BY <1>0, <1>1, <1>2, <2>4, <2>5, ElementsGrow
  <2>7. Passed(msg, i, "child", i, k + 1, 0) = Passed(msg, i, pc, i, k, j) \o <<at>>
    <3> HIDE DEF at
    <3> QED BY <1>0, <1>1, <1>2, <2>6, HerePassed
  <2> QED BY <2>2, <2>3, <2>7
<1>5. NextChild[1] = i /\ NextChild[2] = k + 1 /\ NextChild[3] = 0
  BY <1>2
<1> HIDE DEF w, at
<1> QED BY <1>0, <1>1, <1>2, <1>3, <1>4, <1>5, WrittenPasses DEF Working

\* A composite that is opened has passed none of its values.
LEMMA OpenCompositePasses ==
  ASSUME NestingInv, WholeInv, OpenComposite
  PROVE  WholeInv'
<1> DEFINE w == Plain(When(opts.names, Comment) \o <<Open("C", child.name)>>)
           np == <<i, k, 1>>
<1>0. AtChild /\ PlaceInv /\ Written(w, "value", np) /\ HasData /\ child.composite
      /\ child.name \in DOMAIN Composites
  BY DEF OpenComposite, WholeInv, Usable
<1>1. /\ pc = "child" /\ pc \in Working /\ seg.tag \in DOMAIN Segments
      /\ k \in 1..Len(Segments[seg.tag]) /\ k \in Nat \ {0} /\ seg = msg[i] /\ seg.tag # NoTag
      /\ k <= Len(Data(seg)) /\ k \in 1..Len(Data(seg))
  BY <1>0, ChildFacts, HereFacts
<1>2. InPlace(msg, "value", i, k, 1)
  <2>1. Len(Composites[child.name]) \in Nat
    BY <1>0, EdiXmlAssumption DEF EdiXmlAssumption, IsSeq
  <2>2. child = Segments[msg[i].tag][k]
    BY <1>1 DEF child
  <2> QED BY <1>0, <1>1, <2>1, <2>2, SMTT(40) DEF InPlace
<1>3. ASSUME NEW s PROVE Adds(w.before \o w.after, s, <<>>)
  BY AddsMarkups, AddsNothing, AddsNoMore DEF Plain, Write
<1>4. Passed(msg, i, "value", i, k, 1) = Passed(msg, i, pc, i, k, j) \o <<>>
  <2>1. Upto(ValuesOf(seg, i, k), 0) = <<>> /\ 1 - 1 = 0
    <3>1. 1 \in Nat \ {0}
      OBVIOUS
    <3>2. \A c \in Nat \ {0} : Upto(ValuesOf(seg, i, k), 0) = <<>>
      BY <1>0, <1>1, ValuesGrow
    <3> QED BY <3>1, <3>2
  <2>2. Upto(ElementsOf(seg, i), k - 1) \o Upto(ValuesOf(seg, i, k), 1 - 1)
          = Upto(ElementsOf(seg, i), k - 1) \o <<>>
    BY <2>1
  <2> QED BY <1>0, <1>1, <2>2, HerePassed
<1> HIDE DEF w
<1> QED BY <1>0, <1>1, <1>2, <1>3, <1>4, WrittenPasses DEF Working

\* At a component: where it is, and what a conforming segment has for it
LEMMA ValueFacts ==
  ASSUME NestingInv, PlaceInv, pc = "value"
  PROVE  /\ pc \in Working /\ seg = msg[i] /\ i \in Nat /\ seg.tag # NoTag /\ seg.tag \in DOMAIN Segments
         /\ k \in 1..Len(Segments[seg.tag]) /\ k \in Nat \ {0} /\ k \in 1..Len(Data(seg))
         /\ elements[di] = Data(seg)[k] /\ di = k + Skipped(seg) /\ child = Segments[msg[i].tag][k]
         /\ child.composite /\ child.name \in DOMAIN Composites
         /\ Len(Composites[child.name]) \in Nat /\ j \in 1..(Len(Composites[child.name]) + 1)
         /\ j \in Nat \ {0}
         /\ IsSegment(seg) /\ seg.elements # <<>>
         /\ Conforms(seg) => ConformsTo(elements[di], child)
<1>1. pc \in Working
  BY DEF Working
<1>2. /\ seg = msg[i] /\ i \in Nat /\ seg.tag # NoTag /\ IsSegment(seg) /\ seg.elements # <<>>
      /\ seg.tag \in DOMAIN Segments => Len(Segments[seg.tag]) \in Nat
      /\ child = Segments[msg[i].tag][k] /\ Len(Data(seg)) \in Nat
  BY <1>1, HereFacts DEF child
<1>3. /\ seg.tag \in DOMAIN Segments /\ k \in 1..Len(Segments[seg.tag]) /\ k <= Len(Data(seg))
      /\ child.composite /\ child.name \in DOMAIN Composites
      /\ j \in 1..(Len(Composites[child.name]) + 1)
  BY <1>2 DEF PlaceInv, InPlace
<1>4. Len(Composites[child.name]) \in Nat
  BY <1>3, EdiXmlAssumption DEF EdiXmlAssumption, IsSeq
<1>5. k \in Nat \ {0} /\ k \in 1..Len(Data(seg)) /\ j \in Nat \ {0}
  BY <1>2, <1>3, <1>4
<1>6. di = k + Skipped(seg) /\ elements[di] = Data(seg)[k]
  BY <1>1, <1>3, <1>5, HereFacts
<1>7. Conforms(seg) => ConformsTo(elements[di], child)
  <2>1. DOMAIN Segments[seg.tag] = 1..Len(Segments[seg.tag])
    BY <1>3, EdiXmlAssumption DEF EdiXmlAssumption, IsSeq
  <2> QED BY <1>2, <1>3, <1>6, <2>1 DEF Conforms
<1> QED BY <1>1, <1>2, <1>3, <1>4, <1>5, <1>6, <1>7

\* A component adds the place of its value, if there is one.
LEMMA ComponentPasses ==
  ASSUME NestingInv, WholeInv, Component
  PROVE  WholeInv'
<1> DEFINE name == Composites[child.name][j].name
           values == elements[di].values
           at == Under(name, <<i, di, j>>)
           w == IF Present(values) THEN ElementToXml(name, values[j], <<i, di, j>>) ELSE ElementMissing(name)
           np == <<i, k, j + 1>>
           ps == When(Present(values), at)
<1>0. pc = "value" /\ PlaceInv /\ j <= Len(Composites[child.name]) /\ Written(w, "value", np)
  BY DEF Component, WholeInv
<1>1. /\ pc \in Working /\ seg = msg[i] /\ i \in Nat /\ seg.tag # NoTag /\ seg.tag \in DOMAIN Segments
      /\ k \in 1..Len(Segments[seg.tag]) /\ k \in Nat \ {0} /\ k \in 1..Len(Data(seg))
      /\ elements[di] = Data(seg)[k] /\ di = k + Skipped(seg) /\ child = Segments[msg[i].tag][k]
      /\ child.composite /\ child.name \in DOMAIN Composites
      /\ Len(Composites[child.name]) \in Nat /\ j \in 1..(Len(Composites[child.name]) + 1)
      /\ j \in Nat \ {0}
      /\ Conforms(seg) => ConformsTo(elements[di], child)
  BY <1>0, ValueFacts
<1>2. InPlace(msg, "value", i, k, j + 1)
  <2>1. k <= Len(Data(seg)) /\ j + 1 \in 1..(Len(Composites[child.name]) + 1)
    BY <1>0, <1>1, SMTT(40)
  <2> QED BY <1>1, <2>1 DEF InPlace
<1>3. ASSUME NEW s, name \in DOMAIN Elements \/ s # i
      PROVE  Adds(w.before \o w.after, s, When(Present(values) /\ i = s, at))
  <2>1. CASE Present(values)
    <3>1. w = ElementToXml(name, values[j], <<i, di, j>>)
      BY <2>1
    <3>2. When(Present(values) /\ i = s, at) = When(i = s, at)
      BY <2>1 DEF When
    <3> HIDE DEF w, values, name
    <3> QED BY <1>3, <3>1, <3>2, AddsElement
  <2>2. CASE ~Present(values)
    <3>1. w = ElementMissing(name)
      BY <2>2
    <3>2. When(Present(values) /\ i = s, at) = <<>>
      BY <2>2 DEF When
    <3> HIDE DEF w, values, name, at
    <3> QED BY <3>1, <3>2, AddsMissing
  <2> QED BY <2>1, <2>2
<1>4. ASSUME NEW s \in Nat, s # i PROVE Adds(w.before \o w.after, s, <<>>)
  <2>1. When(Present(values) /\ i = s, at) = <<>>
    BY <1>4 DEF When
  <2>2. Adds(w.before \o w.after, s, When(Present(values) /\ i = s, at))
    <3> HIDE DEF w, values, name, at
    <3> QED BY <1>3, <1>4
  <2> HIDE DEF w, values, at
  <2> QED BY <2>1, <2>2
<1>5. ASSUME Conforms(seg)
      PROVE  /\ Adds(w.before \o w.after, i, ps)
             /\ Passed(msg, i, "value", i, k, j + 1) = Passed(msg, i, pc, i, k, j) \o ps
  <2>1. name \in DOMAIN Elements /\ elements[di].type = "C"
        /\ Len(values) <= Len(Composites[child.name])
    <3>1. j \in DOMAIN Composites[child.name]
      <4>1. DOMAIN Composites[child.name] = 1..Len(Composites[child.name])
        BY <1>1, EdiXmlAssumption DEF EdiXmlAssumption, IsSeq
      <4> QED BY <1>0, <1>1, <4>1
    <3> QED BY <1>1, <1>5, <3>1 DEF ConformsTo
  <2>2. Adds(w.before \o w.after, i, ps)
    <3>1. When(Present(values) /\ i = i, at) = ps
      BY DEF When
    <3>2. Adds(w.before \o w.after, i, When(Present(values) /\ i = i, at))
      <4> HIDE DEF w, values, name, at
      <4> QED BY <1>3, <2>1
    <3> HIDE DEF w, values, at, ps
    <3> QED BY <3>1, <3>2
  <2> DEFINE V == ValuesOf(seg, i, k)
             E == Upto(ElementsOf(seg, i), k - 1)
  <2>3. Upto(V, j) = Upto(V, j - 1) \o ps /\ IsSeq(Upto(V, j - 1)) /\ IsSeq(ps)
    <3>0. values = Data(seg)[k].values
      BY <1>1
    <3>1. IsSeq(Upto(V, j - 1)) /\ Len(values) \in Nat
          /\ (j > Len(values) => Upto(V, j) = Upto(V, j - 1))
          /\ (j <= Len(values) => Upto(V, j) = Upto(V, j - 1) \o ValuePlace(seg, i, k, j))
      BY <1>0, <1>1, <3>0, ValuesGrow
    <3>2. CASE j > Len(values)
      <4>1. ps = <<>>
        BY <1>1, <3>1, <3>2 DEF When, Present
      <4> HIDE DEF ps, V, values
      <4> QED BY <3>1, <3>2, <4>1, ConcatEmpty, OneIsSeq
    <3>3. CASE j <= Len(values)
      <4>1. ValuePlace(seg, i, k, j) = ps
        BY <1>1, <3>3 DEF When, Present, ValuePlace
      <4>2. IsSeq(ps)
        BY OneIsSeq
      <4> HIDE DEF ps, V, values
      <4> QED BY <3>1, <3>3, <4>1, <4>2
    <3> HIDE DEF ps, V, values
    <3> QED BY <1>1, <3>1, <3>2, <3>3
  <2>4. IsSeq(E)
    BY <1>0, <1>1, ElementsGrow
  <2>5. E \o (Upto(V, j - 1) \o ps) = (E \o Upto(V, j - 1)) \o ps
    <3> HIDE DEF E, V, ps
    <3> QED BY <2>3, <2>4, ConcatAssociates
  <2>6. (j + 1) - 1 = j
    BY <1>1
  <2>7. Passed(msg, i, "value", i, k, j + 1) = E \o Upto(V, j)
    <3> DEFINE c == j + 1
    <3>1. Passed(msg, i, "value", i, k, c) = E \o Upto(V, c - 1)
      <4> HIDE DEF c
      <4> QED BY <1>0, <1>1, HerePassed
    <3> QED BY <2>6, <3>1
  <2>8. Passed(msg, i, "value", i, k, j) = E \o Upto(V, j - 1)
    BY <1>0, <1>1, HerePassed
  <2> HIDE DEF w, ps, E, V
  <2> QED BY <1>0, <2>2, <2>3, <2>5, <2>7, <2>8
<1> HIDE DEF w, ps
<1> QED BY <1>0, <1>1, <1>2, <1>4, <1>5, WrittenPasses DEF Working

\* A composite that is closed has passed all its values.
LEMMA CloseCompositePasses ==
  ASSUME NestingInv, WholeInv, CloseComposite
  PROVE  WholeInv'
<1> DEFINE w == Plain(<<Close("C", child.name)>>)
<1>0. pc = "value" /\ PlaceInv /\ j > Len(Composites[child.name]) /\ Written(w, "child", NextChild)
  BY DEF CloseComposite, WholeInv
<1>1. /\ pc \in Working /\ seg = msg[i] /\ i \in Nat /\ seg.tag # NoTag /\ seg.tag \in DOMAIN Segments
      /\ k \in 1..Len(Segments[seg.tag]) /\ k \in Nat \ {0} /\ k \in 1..Len(Data(seg))
      /\ elements[di] = Data(seg)[k] /\ child.composite
      /\ Len(Composites[child.name]) \in Nat /\ j \in Nat \ {0}
      /\ IsSegment(seg) /\ seg.elements # <<>>
      /\ Conforms(seg) => ConformsTo(elements[di], child)
  BY <1>0, ValueFacts
<1>2. InPlace(msg, "child", i, k + 1, 0) /\ NextChild = <<i, k + 1, 0>>
      /\ (k + 1) - 1 = k /\ k + 1 \in Nat \ {0}
  BY <1>0, <1>1, NextChildInPlace
<1>3. ASSUME NEW s PROVE Adds(w.before \o w.after, s, <<>>)
  BY AddsMarkups, AddsNothing, AddsNoMore DEF Plain, Write
<1>4. ASSUME Conforms(seg)
      PROVE Passed(msg, i, "child", i, k + 1, 0) = Passed(msg, i, pc, i, k, j) \o <<>>
  <2> DEFINE V == ValuesOf(seg, i, k)
             values == Data(seg)[k].values
  <2>1. elements[di].type = "C" /\ Len(values) <= Len(Composites[child.name])
    BY <1>1, <1>4 DEF ConformsTo
  <2>2. Len(values) \in Nat /\ (j > Len(values) => Upto(V, j - 1) = FlattenSeq(V))
    BY <1>0, <1>1, ValuesGrow
  <2>3. j > Len(values)
    <3> HIDE DEF values
    <3> QED BY <1>0, <1>1, <2>1, <2>2
  <2>4. ElementPlaces(seg, i, k) = FlattenSeq(V)
    BY <1>1, <2>1, ValuesOfFacts
  <2>5. Upto(ElementsOf(seg, i), k) = Upto(ElementsOf(seg, i), k - 1) \o ElementPlaces(seg, i, k)
    <3>1. k <= Len(Data(seg))
      BY <1>1
    <3> QED BY <1>0, <1>1, <3>1, ElementsGrow
  <2>6. Passed(msg, i, "child", i, k + 1, 0) = Upto(ElementsOf(seg, i), k)
    BY <1>0, <1>1, <1>2, HerePassed
  <2>7. Passed(msg, i, "value", i, k, j) = Upto(ElementsOf(seg, i), k - 1) \o Upto(V, j - 1)
    BY <1>0, <1>1, HerePassed
  <2>8. Passed(msg, i, pc, i, k, j) \o <<>> = Passed(msg, i, pc, i, k, j)
    BY <1>1, <1>4, PassedIsSeq
  <2> HIDE DEF V, values
  <2> QED BY <1>0, <2>2, <2>3, <2>4, <2>5, <2>6, <2>7, <2>8
<1>5. NextChild[1] = i /\ NextChild[2] = k + 1 /\ NextChild[3] = 0
  BY <1>2
<1> HIDE DEF w
<1> QED BY <1>0, <1>1, <1>2, <1>3, <1>4, <1>5, WrittenPasses DEF Working

-----------------------------------------------------------------------------
(* Whole                                                                   *)

\* Every step of a conversion keeps WholeInv.
LEMMA StepPasses ==
  ASSUME NestingInv, WholeInv, Step
  PROVE  WholeInv'
<1>0. PlaceInv /\ PassedInv /\ ConformingIsWhole /\ (\A n \in DOMAIN msg : IsSegment(msg[n]))
  BY DEF WholeInv, PassedInv, PlaceInv
<1>1. ASSUME pc' \notin Working, msg' = msg PROVE PlaceInv'
  <2>1. InPlace(msg', pc', i', k', j')
    BY <1>1, InPlaceOutside
  <2> QED BY <1>0, <1>1, <2>1 DEF PlaceInv
<1>2. CASE EndOfSegments
  <2>1. /\ pc = "segment" /\ pc' = "return" /\ i' = i /\ k' = k /\ j' = j
        /\ UNCHANGED <<msg, out, rc, result>>
    BY <1>2 DEF EndOfSegments, Goto, Stand, place, session, buffer
  <2>2. i = Len(msg) + 1 /\ Len(msg) \in Nat /\ i \in Nat
    BY <1>2, <2>1 DEF EndOfSegments, NestingInv, IsSeq, Converting
  <2>3. ASSUME NEW s \in 1..Len(msg)
        PROVE  Passed(msg, s, "return", i, k, j) = Passed(msg, s, "segment", i, k, j)
    <3>1. s \in Nat /\ s < i
      BY <2>2
    <3> QED BY <3>1, Zenon DEF Passed
  <2>4. PassedInv'
    <3>1. ConformingIsWhole'
      BY <1>0, <2>1 DEF ConformingIsWhole
    <3>2. \A s \in 1..Len(msg) : Conforms(msg[s]) =>
            PlacesIn(s, out) = Passed(msg, s, "segment", i, k, j) /\ ~Complains(s, out)
      BY <1>0, <2>1 DEF PassedInv, Converting
    <3>3. \A s \in 1..Len(msg') : Conforms(msg'[s]) =>
            PlacesIn(s, out') = Passed(msg', s, pc', i', k', j') /\ ~Complains(s, out')
      BY <2>1, <2>3, <3>2
    <3>4. i' = Len(msg') + 1
      BY <2>1, <2>2
    <3> QED BY <3>1, <3>3, <3>4 DEF PassedInv
  <2> QED BY <1>1, <2>1, <2>4 DEF WholeInv, Working
<1>3. CASE TagIsNull \/ UnknownComposite
  <2>1. pc' = "stopped" /\ UNCHANGED <<msg, rc, result>>
    BY <1>3 DEF TagIsNull, UnknownComposite, Breaks, session
  <2> QED BY <1>0, <1>1, <2>1 DEF WholeInv, PassedInv, ConformingIsWhole, Converting, Working
<1>4. CASE BeginSegment
  <2>1. /\ pc = "segment" /\ pc' = "open" /\ i' = i /\ k' = k /\ j' = j
        /\ UNCHANGED <<msg, out, rc, result>> /\ seg.tag # NoTag
    BY <1>4 DEF BeginSegment, place, session, buffer
  <2>2. InPlace(msg', pc', i', k', j')
    BY <2>1 DEF InPlace, seg
  <2>3. i \in Nat /\ \A s \in 1..Len(msg) : s \in Nat
    <3>1. Len(msg) \in Nat /\ i \in 1..(Len(msg) + 1)
      BY <2>1 DEF NestingInv, IsSeq, Converting
    <3> QED BY <3>1
  <2>4. ASSUME NEW s \in 1..Len(msg)
        PROVE  Passed(msg, s, "open", i, k, j) = Passed(msg, s, "segment", i, k, j)
    BY <2>3 DEF Passed
  <2>5. PassedInv'
    <3>1. ConformingIsWhole'
      BY <1>0, <2>1 DEF ConformingIsWhole
    <3>2. \A s \in 1..Len(msg) : Conforms(msg[s]) =>
            PlacesIn(s, out) = Passed(msg, s, "segment", i, k, j) /\ ~Complains(s, out)
      BY <1>0, <2>1 DEF PassedInv, Converting
    <3>3. \A s \in 1..Len(msg') : Conforms(msg'[s]) =>
            PlacesIn(s, out') = Passed(msg', s, pc', i', k', j') /\ ~Complains(s, out')
      BY <2>1, <2>4, <3>2
    <3> QED BY <2>1, <3>1, <3>3 DEF PassedInv
  <2>6. PlaceInv'
    BY <1>0, <2>1, <2>2 DEF PlaceInv
  <2> QED BY <2>5, <2>6 DEF WholeInv
<1>5. CASE ReturnConv2 \/ ReturnMain
  <2>1. /\ pc = "return" /\ pc' \in {"idle", "stopped"} /\ UNCHANGED <<msg, rc>>
        /\ rc = 0 /\ result'.kind = "text" => result'.text = out
    BY <1>5 DEF ReturnConv2, ReturnMain, session
  <2>2. ConformingIsWhole'
    <3> SUFFICES ASSUME rc = 0, result'.kind = "text", NEW s \in DOMAIN msg, Conforms(msg[s])
        PROVE  PlacesIn(s, out) = PlacesOf(msg[s], s) /\ ~Complains(s, out)
      BY <2>1 DEF ConformingIsWhole
    <3>1. i = Len(msg) + 1 /\ Len(msg) \in Nat /\ s \in 1..Len(msg)
      BY <1>0, <2>1 DEF PassedInv, NestingInv, IsSeq
    <3>2. s \in Nat /\ i \in Nat /\ s < i
      BY <3>1
    <3>3. PlacesIn(s, out) = Passed(msg, s, pc, i, k, j) /\ ~Complains(s, out)
      BY <1>0, <2>1, <3>1 DEF PassedInv
    <3>4. Passed(msg, s, pc, i, k, j) = PlacesOf(msg[s], s)
      BY <3>2, Zenon DEF Passed
    <3> QED BY <3>3, <3>4
  <2>3. pc' \notin Working /\ pc' \notin Converting /\ pc' # "return"
    BY <2>1 DEF Working, Converting
  <2> QED BY <1>1, <2>1, <2>2, <2>3 DEF WholeInv, PassedInv
<1>6. CASE ReturnBare
  <2>1. pc' = "idle" /\ UNCHANGED <<msg, rc, result>>
    BY <1>6 DEF ReturnBare, session
  <2> QED BY <1>0, <1>1, <2>1 DEF WholeInv, PassedInv, ConformingIsWhole, Converting, Working
<1> QED
  BY <1>2, <1>3, <1>4, <1>5, <1>6, OpenSegmentPasses, CloseSegmentPasses, EndSegmentPasses,
     EndOfChildrenPasses, SkipChildPasses, PassOverPasses, MandatoryPasses, SimpleElementPasses,
     OpenCompositePasses, ComponentPasses, CloseCompositePasses DEF Step

\* Every call and every report keeps WholeInv.
LEMMA CallPasses ==
  ASSUME WholeInv, Call
  PROVE  WholeInv'
<1>0. ConformingIsWhole /\ \A n \in DOMAIN msg : IsSegment(msg[n])
  BY DEF WholeInv, PassedInv, PlaceInv
<1>1. ASSUME NEW m, NEW parsed \in BOOLEAN, Convert(m, parsed), IsSeq(m),
             \A n \in DOMAIN m : IsSegment(m[n]),
             \/ out' = <<>>
             \/ \E enc : OutputInit(enc)
      PROVE  WholeInv'
  <2>1. /\ msg' = m /\ i' = 1 /\ k' = 0 /\ j' = 0 /\ result'.kind = "none"
        /\ rc' = (IF parsed THEN 0 ELSE -1) /\ pc' = IF parsed THEN "segment" ELSE "return"
    BY <1>1 DEF Convert, NoResult
  <2>2. pc' \notin Working /\ (pc' = "return" => rc' # 0)
    BY <2>1 DEF Working
  <2>3. InPlace(msg', pc', i', k', j')
    BY <2>2, InPlaceOutside
  <2>4. PlaceInv'
    BY <1>1, <2>1, <2>3 DEF PlaceInv
  <2>5. ASSUME NEW s \in Nat PROVE PlacesIn(s, out') = <<>> /\ ~Complains(s, out')
    <3>0. PlacesIn(s, <<>>) = <<>> /\ ~Complains(s, <<>>)
      <4>1. Listed(s, <<>>) = <<>>
        BY DEF Listed
      <4> QED BY <4>1 DEF PlacesIn, Listed, FlattenSeq, Complains
    <3>1. out' = <<>> \/ out' = <<>> \o <<Declaration>>
      BY <1>1 DEF OutputInit, When
    <3>2. Adds(<<Declaration>>, s, <<>>)
      BY AddsMarkups
    <3>3. PlacesIn(s, <<>> \o <<Declaration>>) = PlacesIn(s, <<>>) \o <<>>
          /\ ~Complains(s, <<>> \o <<Declaration>>)
      BY <3>0, <3>2, OneIsSeq DEF Adds
    <3>4. <<>> \o <<>> = <<>>
      OBVIOUS
    <3> QED BY <3>0, <3>1, <3>3, <3>4
  <2>6. ASSUME NEW s \in 1..Len(m) PROVE s \in Nat /\ Passed(m, s, "segment", 1, 0, 0) = <<>>
    <3>1. s \in Nat /\ (s = 1 \/ s > 1) /\ ~(s < 1) /\ Len(m) \in Nat
      BY <1>1 DEF IsSeq
    <3>2. CASE s > 1
      BY <3>1, <3>2 DEF Passed
    <3>3. CASE s = 1
      BY <3>1, <3>3 DEF Passed
    <3> QED BY <3>1, <3>2, <3>3
  <2>7. ConformingIsWhole'
    BY <2>1 DEF ConformingIsWhole
  <2>8. \A s \in 1..Len(msg') : pc' = "segment" =>
           PlacesIn(s, out') = Passed(msg', s, pc', i', k', j') /\ ~Complains(s, out')
    BY <2>1, <2>5, <2>6
  <2>9. PassedInv'
    BY <2>1, <2>2, <2>7, <2>8 DEF PassedInv, Converting
  <2> QED BY <2>4, <2>9 DEF WholeInv
<1>2. \A m \in Messages : IsSeq(m) /\ \A n \in DOMAIN m : IsSegment(m[n])
  BY EdiXmlAssumption DEF EdiXmlAssumption
<1>3. IsSeq(<<>>) /\ \A n \in DOMAIN <<>> : IsSegment(<<>>[n])
  <2>1. DOMAIN <<>> = {}
    OBVIOUS
  <2>2. IsSeq(<<>>)
    BY OneIsSeq
  <2> QED BY <2>1, <2>2, Zenon
<1>4. CASE Report \/ ReportNothing
  <2>1. /\ pc = "idle" /\ pc' \in {"idle", "stopped"} /\ UNCHANGED <<msg, rc>>
        /\ result' = result \/ result'.kind # "text"
    BY <1>4 DEF Report, ReportNothing, Breaks, session
  <2>2. pc' \notin Working /\ pc' \notin Converting /\ pc' # "return"
    BY <2>1 DEF Working, Converting
  <2>3. InPlace(msg', pc', i', k', j')
    BY <2>2, InPlaceOutside
  <2>4. ConformingIsWhole'
    BY <1>0, <2>1 DEF ConformingIsWhole
  <2> QED BY <1>0, <2>1, <2>2, <2>3, <2>4 DEF WholeInv, PlaceInv, PassedInv
<1>5. ASSUME NEW m \in Messages \union {<<>>}, NEW parsed \in BOOLEAN, NEW enc,
             Conv2(m, parsed, enc) \/ Main(m, parsed, enc)
      PROVE  WholeInv'
  BY <1>1, <1>2, <1>3, <1>5 DEF Conv2, Main
<1>6. ASSUME NEW m \in Messages, Bare(m)
      PROVE  WholeInv'
  BY <1>1, <1>2, <1>6 DEF Bare
<1> QED BY <1>4, <1>5, <1>6 DEF Call

\* At every place of the loops the text has the values of each conforming segment up to
\* that place, in their order and under the names of the tables, and no complaint of
\* it (conv.c:157-250).
THEOREM WholeInvariant == Spec => []WholeInv
<1>1. Init => WholeInv
  <2> SUFFICES ASSUME Init PROVE WholeInv
    OBVIOUS
  <2>1. msg = <<>> /\ pc = "idle" /\ result.kind = "none"
    BY DEF Init, NoResult
  <2>2. pc \notin Working /\ pc \notin Converting /\ pc # "return" /\ DOMAIN msg = {}
    BY <2>1 DEF Working, Converting
  <2> QED BY <2>1, <2>2, InPlaceOutside DEF WholeInv, PlaceInv, PassedInv, ConformingIsWhole
<1>2. NestingInv /\ WholeInv /\ [Next]_vars => WholeInv'
  <2>1. ASSUME WholeInv, UNCHANGED vars PROVE WholeInv'
    <3>1. UNCHANGED <<msg, pc, i, k, j, out, rc, result>>
      BY <2>1 DEF vars, session, buffer, place
    <3>2. PlaceInv'
      BY <2>1, <3>1 DEF WholeInv, PlaceInv
    <3>3. PassedInv'
      BY <2>1, <3>1 DEF WholeInv, PassedInv, ConformingIsWhole
    <3> QED BY <3>2, <3>3 DEF WholeInv
  <2> QED BY <2>1, StepPasses, CallPasses DEF Next
<1> QED BY <1>1, <1>2, NestingInvariant, PTL DEF Spec

\* ConformingIsWhole holds for all tables and messages (conv.c:157-250).
THEOREM ConformingIsAlwaysWhole == Spec => []ConformingIsWhole
<1>1. WholeInv => ConformingIsWhole
  BY DEF WholeInv, PassedInv
<1> QED BY <1>1, WholeInvariant, PTL

=============================================================================
