--------------------------- MODULE MCStructLoader ---------------------------
(***************************************************************************)
(* Small instances of StructLoader for TLC.  Alloc 2 and Cleared 1 let the *)
(* second entry lie in memory that is not cleared and the third in a       *)
(* second growth.                                                          *)
(***************************************************************************)
EXTENDS StructLoader

MCChars == 1..6

E(code, title, parts) == [code |-> <<code>>, title |-> title, parts |-> parts]
Untitled(code, parts) == [code |-> <<code>>, parts |-> parts]
Unnamed(title, parts) == [code |-> <<>>, title |-> title, parts |-> parts]
V(code, title) == [code |-> <<code>>, title |-> title]

\* Everything there, three entries in a table, texts of two characters.
Whole ==
  [segs  |-> <<E(1, <<1, 2>>, <<<<1>>, <<2, 3>>>>), E(2, <<1>>, <<<<1>>>>), E(3, <<1>>, <<>>)>>,
   comps |-> <<E(1, <<1>>, <<<<1>>>>)>>,
   elems |-> <<E(1, <<1>>, <<>>), E(2, <<1, 2>>, <<>>)>>,
   coded |-> <<E(1, <<1>>, <<V(1, <<1>>), V(2, <<1, 2>>), V(3, <<1>>)>>), E(2, <<1>>, <<V(4, <<1>>)>>)>>]

\* Texts that are empty or left out.
Scanty ==
  [segs  |-> <<Untitled(4, <<<<1>>>>), Untitled(5, <<>>)>>,
   comps |-> <<E(4, <<>>, <<<<>>, <<2>>>>)>>,
   elems |-> <<>>,
   coded |-> <<E(4, <<1>>, <<V(1, <<>>)>>), E(5, <<1>>, <<>>)>>]

\* Names that are left out.
Nameless ==
  [segs  |-> <<E(4, <<1>>, <<>>)>>, comps |-> <<>>,
   elems |-> <<Unnamed(<<1>>, <<>>), E(5, <<1>>, <<>>)>>,
   coded |-> <<E(4, <<1>>, <<[title |-> <<1>>, code |-> <<>>]>>)>>]

\* Files that cannot be loaded.
Broken ==
  [segs  |-> <<E(6, <<1>>, <<<<1>>>>), Malformed>>,
   comps |-> Missing,
   elems |-> <<E(6, <<1>>, <<>>)>>,
   coded |-> <<Malformed>>]

DirectorySet == [whole |-> Whole, scanty |-> Scanty, nameless |-> Nameless,
                 broken |-> Broken]

=============================================================================
