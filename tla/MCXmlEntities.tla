---------------------------- MODULE MCXmlEntities ----------------------------
(* Two parameter entities that may be internal or files and refer to each    *)
(* other, and a general entity that each of them may declare.                *)
EXTENDS XmlEntitiesMeant

Ref(name) == [kind |-> "ref", name |-> name]
CharRef(name) == [kind |-> "charref", name |-> name]
Char == [kind |-> "char", name |-> NULL]
Value(kind, name, value) == [kind |-> kind, name |-> name, systemId |-> NULL, value |-> value]
System(name, sys) == [kind |-> "param", name |-> name, systemId |-> sys, value |-> <<>>]

G(value) == Value("general", "g", value)

MCPieces ==
  {Ref("a"), Ref("b"), System("a", "s"), System("b", "s"),
   Value("param", "a", <<G(<<Char>>)>>), Value("param", "b", <<CharRef("a")>>),
   Value("param", "a", <<CharRef("b")>>), Value("param", "b", <<Ref("a"), Char>>), G(<<>>), G(<<Ref("b")>>)}

MCParts == MCPieces \union {Char, CharRef("a"), CharRef("b"), G(<<Char>>)}

Answers(s, x) == [sys \in {"s", "#"} |-> IF sys = "s" THEN s ELSE x]
MCHandlers == {Answers("reads", "reads"), Answers("declines", "reads"), Answers("fails", "declines"), Answers("reads", "fails")}

=============================================================================
