------------------------- MODULE MCXmlDeclarations -------------------------
(* The tokens of every kind of declaration, with a word for every keyword    *)
(* but those that xmlrole.c and the grammar treat as they treat another.     *)
EXTENDS XmlDeclarations

MCTokens ==
  {[tok |-> "DECL_OPEN", word |-> w] : w \in {"", "DOCTYPE", "ENTITY", "ATTLIST", "ELEMENT", "NOTATION"}}
  \union {[tok |-> "NAME", word |-> w] :
            w \in {"", "SYSTEM", "PUBLIC", "NDATA", "CDATA", "NOTATION", "EMPTY", "INCLUDE"}}
  \union {Pound(w) : w \in {"", "PCDATA", "IMPLIED", "FIXED"}}
  \union {T(tok) : tok \in {"NAME_PLUS", "OPEN_PAREN", "CLOSE_PAREN", "CLOSE_PAREN_ASTERISK", "OR", "COMMA",
                            "PARAM_ENTITY_REF", "DECL_CLOSE", "LITERAL", "PERCENT", "OPEN_BRACKET",
                            "CLOSE_BRACKET", "COND_SECT_OPEN", "COND_SECT_CLOSE", "PI", "INSTANCE_START",
                            "XML_DECL"}}

=============================================================================
