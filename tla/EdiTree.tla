------------------------------ MODULE EdiTree -------------------------------
(***************************************************************************)
(* What the construction functions of libedi.h promise of an interchange:  *)
(* a tree of segments, elements and values that grows by one part per      *)
(* successful call, and that a call without success leaves as it was.      *)
(***************************************************************************)
EXTENDS Naturals, Sequences

CONSTANT Lengths    \* the lengths of values

\* A segment is a sequence of elements, an element a sequence of values.
VARIABLE tree

\* What a new element holds: the value it was created with, or nothing yet.
Contents == {<<>>} \union {<<n>> : n \in Lengths}

Init == tree = <<>>

AddSegment ==
  \/ tree' = Append(tree, <<>>)
  \/ \E n \in Lengths : tree' = Append(tree, << <<n>> >>)

AddElement ==
  \E s \in DOMAIN tree, c \in Contents :
    tree' = [tree EXCEPT ![s] = Append(@, c)]

AddValue ==
  \E s \in DOMAIN tree : \E e \in DOMAIN tree[s], n \in Lengths :
    tree' = [tree EXCEPT ![s][e] = Append(@, n)]

Discard == tree' = <<>>

Next == AddSegment \/ AddElement \/ AddValue \/ Discard

Spec == Init /\ [][Next]_tree

=============================================================================
