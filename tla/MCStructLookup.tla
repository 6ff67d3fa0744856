--------------------------- MODULE MCStructLookup ---------------------------
(***************************************************************************)
(* Every sorted table of names from 1 to MaxKey, and every question about  *)
(* them, with names between, before and behind the entries.                *)
(***************************************************************************)
EXTENDS StructLookup, FiniteSets
LOCAL INSTANCE SequencesExt

CONSTANT MaxKey   \* bound: tables have up to this many entries

SortedTables == {SetToSortSeq(S, <) : S \in SUBSET (1..MaxKey)}
ValueTables  == {SetToSortSeq(S, <) : S \in SUBSET (1..3)}

\* The values of the first coded element differ from those of the others.
MCStructures ==
  {[segs |-> s, elems |-> s, comps |-> s, codes |-> s,
    vals |-> [i \in 1..Len(s) |-> IF i = 1 THEN u ELSE v]]
     : s \in SortedTables, u \in {<<>>, <<2>>}, v \in ValueTables}

MCQuestions ==
  {[table |-> t, elem |-> 0, name |-> n]
     : t \in {"segs", "elems", "comps"}, n \in 0..(MaxKey + 1)}
  \union {[table |-> "codes", elem |-> e, name |-> n]
     : e \in 0..(MaxKey + 1), n \in 0..4}

=============================================================================
