------------------------------ MODULE StringPool ------------------------------
(***************************************************************************)
(* libedi/stringpool.c: the arena that holds every value of an             *)
(* interchange.  A pool is a calloc'ed block; values are carved off its    *)
(* front and never returned one by one.  A pointer into pool c is the pair *)
(* (c, offset), so pointers into two blocks are never ordered.             *)
(***************************************************************************)
EXTENDS Integers, Sequences

CONSTANTS
  BLOCKSIZE,   \* STRINGPOOL_BLOCKSIZE, the least size of a pool
  Requests,    \* the sizes callers ask for
  MaxPools     \* bound: calloc gives no block beyond this number of pools

ASSUME StringPoolAssumption ==
  /\ BLOCKSIZE \in Nat \ {0}
  /\ Requests \subseteq Nat
  /\ MaxPools \in Nat

VARIABLES
  pools,    \* per pool, in order of creation: its size and its fill pointer
  held,     \* the values handed out and not yet given back
  freed,    \* pointers into a pool that were passed to free()
  status    \* "open", "closing" (values are given back), "closed", "undefined"

vars == <<pools, held, freed, status>>

\* stringpool[c] is the block itself, poolsize[c] is size, and sp[c] is kept
\* as its distance from the start of the block.  A value is the pointer to it
\* and the bytes asked for: two empty values in a row are one pointer.
Block == [size : Nat, sp : Nat]
Value == [pool : Nat, off : Nat, len : Nat]

last == Len(pools)

Init ==
  /\ pools = <<>>
  /\ held = {}
  /\ freed = {}
  /\ status = "open"

-----------------------------------------------------------------------------
(* edi__stringpool_get: only the most recent pool is tried, and the test    *)
(* is strict.  When it fails a new block is made.                           *)

\* Mutant of HasRoom: the size of the request is left out of the test.
HasRoomNoSize(minsize) == pools # <<>> /\ pools[last].sp < pools[last].size

HasRoom(minsize) == pools # <<>> /\ pools[last].sp + minsize < pools[last].size

NewPool(minsize) ==
  [size |-> IF minsize > BLOCKSIZE THEN minsize ELSE BLOCKSIZE, sp |-> 0]

\* The pools after a successful edi__stringpool_get(minsize).
PoolsFor(minsize) ==
  IF HasRoom(minsize) THEN pools ELSE Append(pools, NewPool(minsize))

\* A get on its own.  A get whose realloc or calloc fails returns -1 and
\* leaves the pools as they are: a stuttering step.
Get(minsize) ==
  /\ status = "open"
  /\ HasRoom(minsize) \/ last < MaxPools
  /\ pools' = PoolsFor(minsize)
  /\ UNCHANGED <<held, freed, status>>

-----------------------------------------------------------------------------
(* edi__stringpool_alloc: get, then move the fill pointer of that pool.     *)

\* The value an alloc of len bytes returns, and the pools it leaves.
Carved(len) ==
  LET ps == PoolsFor(len)
  IN  [pool |-> Len(ps), off |-> ps[Len(ps)].sp, len |-> len]

PoolsAfter(len) ==
  LET ps == PoolsFor(len)
  IN  [ps EXCEPT ![Len(ps)].sp = @ + len]

Alloc(len) ==
  /\ status = "open"
  /\ HasRoom(len) \/ last < MaxPools
  /\ pools' = PoolsAfter(len)
  /\ held' = held \union {Carved(len)}
  /\ UNCHANGED <<freed, status>>

\* The -1 of a failed get is used as an index: sp[(size_t)-1].
AllocFails(len) ==
  /\ status = "open"
  /\ ~HasRoom(len)
  /\ status' = "undefined"
  /\ UNCHANGED <<pools, held, freed>>

-----------------------------------------------------------------------------
(* edi__stringpool_free and edi__stringpool_destroy, which only             *)
(* edi_interchange_destroy calls: first every value, then the pools.        *)

\* Mutant of Contained: the lower comparison is strict (p > stringpool[c]).
ContainedAboveBase(p) ==
  \E c \in 1..last : c = p.pool /\ p.off > 0 /\ p.off < pools[c].sp

Contained(p) == \E c \in 1..last : c = p.pool /\ p.off < pools[c].sp

Free(p) ==
  /\ status \in {"open", "closing"}
  /\ p \in held
  /\ freed' = IF Contained(p) THEN freed ELSE freed \union {p}
  /\ held' = held \ {p}
  /\ status' = "closing"
  /\ UNCHANGED pools

Destroy ==
  /\ status \in {"open", "closing"}
  /\ held = {}
  /\ pools' = <<>>
  /\ status' = "closed"
  /\ UNCHANGED <<held, freed>>

Next ==
  \/ \E n \in Requests : Get(n) \/ Alloc(n) \/ AllocFails(n)
  \/ \E p \in held : Free(p)
  \/ Destroy

Spec == Init /\ [][Next]_vars

-----------------------------------------------------------------------------
(* Properties *)

\* The shape of the state: pools and values made of natural numbers, and
\* every pointer that reached free() one that had been handed out as a value.
TypeOK ==
  /\ pools \in Seq(Block)
  /\ held \subseteq Value
  /\ freed \subseteq Value
  /\ status \in {"open", "closing", "closed", "undefined"}

Apart(u, v) == u.off + u.len <= v.off \/ v.off + v.len <= u.off

\* edi__stringpool_alloc never hands out a byte twice nor a byte outside its
\* block: each value lies in the filled part of its pool, the filled part
\* within the block, and two values of one pool do not overlap.
ValuesDisjoint ==
  /\ \A c \in 1..last : pools[c].sp <= pools[c].size
  /\ \A v \in held : /\ v.pool \in 1..last
                     /\ v.off + v.len <= pools[v.pool].sp
  /\ \A u, v \in held : u.pool = v.pool => u = v \/ Apart(u, v)

\* What is left of the promise of stringpool.c:109, that a buffer contained in
\* the pools is not given to free().  The test p < sp[c] fails for one buffer, an
\* empty value behind which nothing was carved (edi_element_add asks for strlen
\* bytes, build.c:119): only such a pointer into a pool reaches free().
OnlyEmptyFreed ==
  \A p \in freed : /\ p.len = 0
                   /\ status = "closing" => p.off = pools[p.pool].sp

=============================================================================
