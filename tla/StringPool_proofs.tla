-------------------------- MODULE StringPool_proofs --------------------------
(***************************************************************************)
(* Theorems about StringPool for every block size, every set of requests   *)
(* and every number of pools.                                              *)
(***************************************************************************)
EXTENDS StringPool, TLAPS

\* A get either reuses the last pool or adds one: the pools it leaves are
\* pools, there is at least one, every old pool is where it was, and the
\* request fits behind the fill pointer of the last one.
LEMMA PoolsForFits ==
  ASSUME TypeOK, NEW n \in Nat,
         \A c \in 1..last : pools[c].sp <= pools[c].size
  PROVE  LET ps == PoolsFor(n)
         IN  /\ ps \in Seq(Block)
             /\ Len(ps) \in Nat \ {0}
             /\ Len(ps) >= Len(pools)
             /\ \A c \in 1..Len(pools) : ps[c] = pools[c]
             /\ \A c \in 1..Len(ps) : c > Len(pools) => ps[c].sp = 0
             /\ \A c \in 1..Len(ps) : ps[c].sp <= ps[c].size
             /\ ps[Len(ps)].sp + n <= ps[Len(ps)].size
<1>1. NewPool(n) \in Block /\ NewPool(n).sp = 0 /\ n <= NewPool(n).size
  BY StringPoolAssumption DEF NewPool, Block
<1>2. CASE HasRoom(n)
  <2>1. PoolsFor(n) = pools
    BY <1>2 DEF PoolsFor
  <2>2. pools \in Seq(Block) /\ Len(pools) \in Nat \ {0}
    BY <1>2 DEF HasRoom, TypeOK
  <2>3. pools[Len(pools)] \in Block
    BY <2>2
  <2>4. pools[Len(pools)].sp + n <= pools[Len(pools)].size
    BY <1>2, <2>3 DEF HasRoom, last, Block
  <2> QED BY <2>1, <2>2, <2>4 DEF last
<1>3. CASE ~HasRoom(n)
  <2> DEFINE q == NewPool(n)
  <2>1. PoolsFor(n) = Append(pools, q)
    BY <1>3 DEF PoolsFor
  <2>2. q \in Block /\ q.sp = 0 /\ n <= q.size
    BY <1>1
  <2> HIDE DEF q
  <2>3. pools \in Seq(Block)
    BY DEF TypeOK
  <2>4. /\ Append(pools, q) \in Seq(Block)
        /\ Len(Append(pools, q)) = Len(pools) + 1
        /\ Append(pools, q)[Len(pools) + 1] = q
        /\ \A c \in 1..Len(pools) : Append(pools, q)[c] = pools[c]
    BY <2>2, <2>3
  <2>5. \A c \in 1..Len(pools) + 1 : c > Len(pools) => c = Len(pools) + 1
    BY <2>3
  <2>6. q.sp <= q.size /\ q.sp + n <= q.size
    BY <2>2 DEF Block
  <2> QED BY <2>1, <2>2, <2>3, <2>4, <2>5, <2>6 DEF last
<1> QED BY <1>2, <1>3

\* An alloc moves the fill pointer of the last of those pools and nothing else.
LEMMA PoolsAfterBumps ==
  ASSUME TypeOK, NEW n \in Nat,
         \A c \in 1..last : pools[c].sp <= pools[c].size
  PROVE  LET ps == PoolsFor(n)
             qs == PoolsAfter(n)
         IN  /\ qs \in Seq(Block)
             /\ Len(qs) = Len(ps)
             /\ \A c \in 1..Len(qs) : /\ qs[c].size = ps[c].size
                                      /\ qs[c].sp <= qs[c].size
                                      /\ c < Len(qs) => qs[c].sp = ps[c].sp
             /\ qs[Len(qs)].sp = ps[Len(qs)].sp + n
<1> DEFINE ps == PoolsFor(n)
<1>1. /\ ps \in Seq(Block)
      /\ Len(ps) \in Nat \ {0}
      /\ \A c \in 1..Len(ps) : ps[c].sp <= ps[c].size
      /\ ps[Len(ps)].sp + n <= ps[Len(ps)].size
  BY PoolsForFits
<1>2. PoolsAfter(n) = [ps EXCEPT ![Len(ps)].sp = @ + n]
  BY DEF PoolsAfter
<1> HIDE DEF ps
<1> DEFINE k == Len(ps)
           b == [size |-> ps[k].size, sp |-> ps[k].sp + n]
<1>3. k \in 1..Len(ps) /\ ps[k] \in Block
  BY <1>1
<1>4. b \in Block /\ b = [ps[k] EXCEPT !.sp = @ + n]
  BY <1>3 DEF Block
<1>5. PoolsAfter(n) = [ps EXCEPT ![k] = b]
  BY <1>2, <1>3, <1>4
<1> HIDE DEF b
<1>6. /\ [ps EXCEPT ![k] = b] \in Seq(Block)
      /\ Len([ps EXCEPT ![k] = b]) = k
      /\ [ps EXCEPT ![k] = b][k] = b
      /\ \A c \in 1..k : c # k => [ps EXCEPT ![k] = b][c] = ps[c]
  BY <1>1, <1>3, <1>4
<1>7. b.size = ps[k].size /\ b.sp = ps[k].sp + n /\ b.sp <= b.size
  BY <1>1 DEF b
<1> QED BY <1>1, <1>5, <1>6, <1>7 DEF ps

-----------------------------------------------------------------------------

IInv == TypeOK /\ ValuesDisjoint

\* An allocation keeps values inside their blocks, apart from each other.
LEMMA AllocPreserves ==
  ASSUME IInv, NEW n \in Requests, Alloc(n)
  PROVE  IInv'
<1> DEFINE ps == PoolsFor(n)
           v  == Carved(n)
<1>1. n \in Nat /\ TypeOK /\ \A c \in 1..last : pools[c].sp <= pools[c].size
  BY StringPoolAssumption DEF IInv, ValuesDisjoint
<1>2. /\ ps \in Seq(Block)
      /\ Len(ps) \in Nat \ {0}
      /\ Len(ps) >= Len(pools)
      /\ \A c \in 1..Len(pools) : ps[c] = pools[c]
      /\ \A c \in 1..Len(ps) : c > Len(pools) => ps[c].sp = 0
      /\ \A c \in 1..Len(ps) : ps[c].sp <= ps[c].size
  BY <1>1, PoolsForFits
<1>3. /\ pools' \in Seq(Block)
      /\ Len(pools') = Len(ps)
      /\ \A c \in 1..Len(pools') : /\ pools'[c].sp <= pools'[c].size
                                   /\ c < Len(pools') => pools'[c].sp = ps[c].sp
      /\ pools'[Len(pools')].sp = ps[Len(ps)].sp + n
  BY <1>1, PoolsAfterBumps DEF Alloc
<1>4. v = [pool |-> Len(ps), off |-> ps[Len(ps)].sp, len |-> n]
  BY DEF Carved
<1>5. v \in Value /\ held' = held \union {v}
  <2>1. ps[Len(ps)] \in Block
    BY <1>2
  <2> QED BY <1>1, <1>2, <1>4, <2>1 DEF Alloc, Value, Block
<1> HIDE DEF ps, v
<1>6. TypeOK'
  BY <1>1, <1>3, <1>5 DEF TypeOK, Alloc
<1>7. \A u \in held : /\ u \in Value
                      /\ u.pool \in 1..Len(pools)
                      /\ u.off + u.len <= pools[u.pool].sp
  BY DEF IInv, TypeOK, ValuesDisjoint, last
<1>8. \A u \in held : u.pool = v.pool => u.off + u.len <= v.off
  BY <1>2, <1>4, <1>7 DEF Value
<1>9. ASSUME NEW u \in held'
      PROVE  u.pool \in 1..Len(pools') /\ u.off + u.len <= pools'[u.pool].sp
  <2> DEFINE k == Len(ps)
  <2>0. /\ k \in Nat \ {0} /\ ps[k] \in Block /\ ps[k].sp \in Nat
        /\ k = Len(pools') /\ pools'[k].sp = ps[k].sp + n /\ n \in Nat
    <3>1. k \in Nat \ {0} /\ ps[k] \in Block
      BY <1>2
    <3> QED BY <1>1, <1>3, <3>1 DEF Block
  <2> HIDE DEF k
  <2>1. CASE u = v
    <3>1. u.pool = k /\ u.off = ps[k].sp /\ u.len = n
      BY <1>4, <2>1 DEF k
    <3> QED BY <2>0, <3>1
  <2>2. CASE u \in held /\ u.pool < Len(ps)
    BY <1>1, <1>2, <1>3, <1>7, <2>2 DEF Value
  <2>3. CASE u \in held /\ u.pool = Len(ps)
    <3>1. u.pool = k /\ k \in 1..Len(pools) /\ pools[k] = ps[k]
      BY <1>2, <1>7, <2>0, <2>3 DEF k
    <3>2. u.off + u.len \in Nat /\ u.off + u.len <= ps[k].sp
      BY <1>7, <2>3, <3>1 DEF Value
    <3> QED BY <2>0, <3>1, <3>2
  <2> QED BY <1>2, <1>5, <1>7, <2>1, <2>2, <2>3 DEF Value
<1>10. ASSUME NEW u \in held', NEW w \in held', u.pool = w.pool
       PROVE  u = w \/ Apart(u, w)
  BY <1>5, <1>8, <1>10 DEF IInv, ValuesDisjoint, Apart
<1> QED BY <1>3, <1>6, <1>9, <1>10 DEF IInv, ValuesDisjoint, last

\* So does a reservation, which at most adds an empty block.
LEMMA GetPreserves ==
  ASSUME IInv, NEW n \in Requests, Get(n)
  PROVE  IInv'
<1>1. n \in Nat /\ TypeOK /\ \A c \in 1..last : pools[c].sp <= pools[c].size
  BY StringPoolAssumption DEF IInv, ValuesDisjoint
<1>2. /\ pools' \in Seq(Block)
      /\ Len(pools') >= Len(pools)
      /\ \A c \in 1..Len(pools) : pools'[c] = pools[c]
      /\ \A c \in 1..Len(pools') : pools'[c].sp <= pools'[c].size
  BY <1>1, PoolsForFits DEF Get
<1>3. TypeOK'
  BY <1>1, <1>2 DEF TypeOK, Get
<1>4. \A v \in held : v.pool \in 1..Len(pools') /\ pools'[v.pool] = pools[v.pool]
  BY <1>2 DEF IInv, TypeOK, ValuesDisjoint, last, Value
<1> QED BY <1>2, <1>3, <1>4 DEF IInv, ValuesDisjoint, Get, last, Apart

\* The two together are inductive: each rests on the other, because where a
\* value may be carved depends on what the fill pointers have passed.
LEMMA InvariantIsInductive ==
  ASSUME IInv, [Next]_vars
  PROVE  IInv'
<1>1. CASE \E n \in Requests : Get(n)
  BY <1>1, GetPreserves
<1>2. CASE \E n \in Requests : Alloc(n)
  BY <1>2, AllocPreserves
<1>3. CASE \E n \in Requests : AllocFails(n)
  BY <1>3 DEF AllocFails, IInv, TypeOK, ValuesDisjoint, last, Apart
<1>4. ASSUME NEW p \in held, Free(p)
      PROVE  IInv'
  BY <1>4 DEF Free, IInv, TypeOK, ValuesDisjoint, last, Apart
<1>5. CASE Destroy
  BY <1>5 DEF Destroy, IInv, TypeOK, ValuesDisjoint, last, Apart, Block
<1>6. CASE UNCHANGED vars
  BY <1>6 DEF vars, IInv, TypeOK, ValuesDisjoint, last, Apart
<1> QED BY <1>1, <1>2, <1>3, <1>4, <1>5, <1>6 DEF Next

\* The state of the pools keeps its shape whatever callers ask for, whichever
\* allocations fail.
THEOREM TypeCorrect == Spec => []TypeOK
<1>1. Init => IInv
  BY DEF Init, IInv, TypeOK, ValuesDisjoint, last, Block
<1>2. IInv /\ [Next]_vars => IInv'
  BY InvariantIsInductive
<1>3. IInv => TypeOK
  BY DEF IInv
<1> QED BY <1>1, <1>2, <1>3, PTL DEF Spec

\* No byte of a pool belongs to two values and no value leaves its block.
THEOREM AllocIsDisjoint == Spec => []ValuesDisjoint
<1>1. Init => IInv
  BY DEF Init, IInv, TypeOK, ValuesDisjoint, last, Block
<1>2. IInv /\ [Next]_vars => IInv'
  BY InvariantIsInductive
<1>3. IInv => ValuesDisjoint
  BY DEF IInv
<1> QED BY <1>1, <1>2, <1>3, PTL DEF Spec

-----------------------------------------------------------------------------

\* What the third invariant rests on: nothing was freed while values are carved.
FInv == IInv /\ OnlyEmptyFreed /\ (status = "open" => freed = {})

\* A step of the pools frees no byte of them that belongs to a value.
LEMMA FreeingIsInductive ==
  ASSUME FInv, [Next]_vars
  PROVE  FInv'
<1>1. IInv'
  BY InvariantIsInductive DEF FInv
<1>2. ASSUME NEW n \in Requests, Get(n) \/ Alloc(n) \/ AllocFails(n)
      PROVE  OnlyEmptyFreed' /\ (status' = "open" => freed' = {})
  BY <1>2 DEF Get, Alloc, AllocFails, FInv, OnlyEmptyFreed
<1>3. ASSUME NEW p \in held, Free(p)
      PROVE  OnlyEmptyFreed' /\ (status' = "open" => freed' = {})
  <2>1. p \in Value /\ p.pool \in 1..last
        /\ p.off + p.len <= pools[p.pool].sp /\ pools[p.pool] \in Block
    BY DEF FInv, IInv, TypeOK, ValuesDisjoint, last
  <2>2. Contained(p) \/ (p.len = 0 /\ p.off = pools[p.pool].sp)
    BY <2>1 DEF Contained, Value, Block
  <2>3. \A q \in freed : q.len = 0 /\ q.off = pools[q.pool].sp
    BY <1>3 DEF Free, FInv, OnlyEmptyFreed
  <2>4. /\ status' = "closing" /\ pools' = pools
        /\ freed' = IF Contained(p) THEN freed ELSE freed \union {p}
    BY <1>3 DEF Free
  <2> QED BY <2>2, <2>3, <2>4 DEF OnlyEmptyFreed
<1>4. ASSUME Destroy \/ UNCHANGED vars
      PROVE  OnlyEmptyFreed' /\ (status' = "open" => freed' = {})
  BY <1>4 DEF Destroy, vars, FInv, OnlyEmptyFreed
<1> QED BY <1>1, <1>2, <1>3, <1>4 DEF Next, FInv

\* Whatever sizes callers ask for, zero among them, edi__stringpool_free keeps
\* every pointer into a pool from free() but that of an empty value behind which
\* nothing was carved (stringpool.c:109-124).
THEOREM FreeRecognisesValues == Spec => []OnlyEmptyFreed
<1>1. Init => FInv
  BY DEF Init, FInv, IInv, TypeOK, ValuesDisjoint, OnlyEmptyFreed, last, Block
<1>2. FInv /\ [Next]_vars => FInv'
  BY FreeingIsInductive
<1>3. FInv => OnlyEmptyFreed
  BY DEF FInv
<1> QED BY <1>1, <1>2, <1>3, PTL DEF Spec

=============================================================================
