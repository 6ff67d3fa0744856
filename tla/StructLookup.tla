---------------------------- MODULE StructLookup ----------------------------
(***************************************************************************)
(* libedistruct/lookup.c: the binary searches for a segment, an element, a *)
(* composite, and (two of them, one inside the other) a coded value.  The  *)
(* tables are the ones struct_loader.c fills in the order of the XML files *)
(* that conv_specs.pl sorted; names are numbers in the order of strcmp.    *)
(***************************************************************************)
EXTENDS Integers, Sequences

CONSTANTS
  Structures,   \* what curstruc can point to
  Questions     \* the calls

Tables == {"segs", "elems", "comps", "codes"}

Sorted(s) == \A i, j \in 1..Len(s) : i < j => s[i] < s[j]

\* vals[i] are the values of the i-th coded element.
ASSUME StructLookupAssumption ==
  /\ \A s \in Structures :
       /\ \A t \in Tables : s[t] \in Seq(Int) /\ Sorted(s[t])
       /\ s.vals \in Seq(Seq(Int)) /\ Len(s.vals) = Len(s["codes"])
       /\ \A i \in 1..Len(s.vals) : Sorted(s.vals[i])
  /\ \A q \in Questions : q.table \in Tables /\ q.elem \in Int /\ q.name \in Int

VARIABLES
  curstruc, asked,   \* the structure in force, the call
  at,                \* 0, or the coded element whose values are searched
  begin, end,        \* the half of the table still in question, from 0
  answer             \* "none" yet, "NULL", "undefined", or "found" and where

lookupVars == <<curstruc, asked, at, begin, end, answer>>

Coded == asked.table = "codes"

\* The table being searched, and for what.
keys == IF at = 0 THEN curstruc[asked.table] ELSE curstruc.vals[at]
name == IF Coded /\ at = 0 THEN asked.elem ELSE asked.name

Answer(k) == [kind |-> k, index |-> 0]

LookupInit ==
  /\ curstruc \in Structures
  /\ asked \in Questions
  /\ at = 0
  /\ begin = 0
  /\ end = Len(curstruc[asked.table])
  /\ answer = Answer("none")

\* Mutant of cur: rounded up.
curUp == (begin + end + 1) \div 2

cur == (begin + end) \div 2

Running == answer.kind = "none"

\* The loop looks before it tests whether the table is empty.
Outside ==
  /\ Running /\ cur >= Len(keys)
  /\ answer' = Answer("undefined")
  /\ UNCHANGED <<curstruc, asked, at, begin, end>>

Probes == Running /\ cur < Len(keys)

Found ==
  /\ Probes /\ name = keys[cur + 1]
  /\ ~(Coded /\ at = 0)
  /\ answer' = [kind |-> "found", index |-> cur + 1]
  /\ UNCHANGED <<curstruc, asked, at, begin, end>>

\* find_coded_value calls find_actual_value on the table it found.
FoundElement ==
  /\ Probes /\ name = keys[cur + 1]
  /\ Coded /\ at = 0
  /\ at' = cur + 1
  /\ begin' = 0
  /\ end' = Len(curstruc.vals[cur + 1])
  /\ UNCHANGED <<curstruc, asked, answer>>

Conclude == answer' = IF end' - begin' < 1 THEN Answer("NULL") ELSE answer

Below == cur

Left ==
  /\ Probes /\ name < keys[cur + 1]
  /\ end' = Below
  /\ begin' = begin
  /\ Conclude
  /\ UNCHANGED <<curstruc, asked, at>>

\* Mutants of Above: an entry is skipped, or the wrong neighbour.
AboveSkipping == cur + 2
AboveBack == cur - 1

Above == cur + 1

Right ==
  /\ Probes /\ name > keys[cur + 1]
  /\ begin' = Above
  /\ end' = end
  /\ Conclude
  /\ UNCHANGED <<curstruc, asked, at>>

LookupNext == Outside \/ Found \/ FoundElement \/ Left \/ Right

LookupSpec == LookupInit /\ [][LookupNext]_lookupVars

-----------------------------------------------------------------------------
(* Properties *)

\* The bounds stay bounds of the table: end - begin, of type size_t, does not
\* go below zero.
TypeOK ==
  /\ curstruc \in Structures /\ asked \in Questions
  /\ at \in 0..Len(curstruc.vals) /\ (at > 0 => Coded)
  /\ end \in 0..Len(keys) /\ begin \in 0..end
  /\ answer \in [kind : {"none", "NULL", "undefined", "found"}, index : Nat]

\* NULL means that the table does not have the name, and what is found is the
\* entry of that name; for a coded value, among the values of its element.
AnswerIsRight ==
  /\ answer.kind = "found" => /\ answer.index \in 1..Len(keys)
                              /\ keys[answer.index] = name
                              /\ Coded => at # 0
  /\ answer.kind = "NULL" => \A i \in 1..Len(keys) : keys[i] # name
  /\ at > 0 => curstruc["codes"][at] = asked.elem

\* The search reads beyond its table only if the table has no entry at all.
ReadsInside == answer.kind = "undefined" => keys = <<>>

\* Each turn of the loop leaves a smaller table to search.
Shrinks == [][at' = at /\ Running' => end' - begin' < end - begin]_lookupVars

=============================================================================
