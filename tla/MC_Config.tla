----------------------------- MODULE MC_Config ------------------------------
(* Two variables of tests/test_config.cc, one nested in the name of the other, *)
(* and a third name; documents with nested and dotted keys, an upper case key, *)
(* values that do not convert, and an entry nobody registered.                 *)
EXTENDS Config

CONSTANTS a, b, up, dot

MCSymbol == {a, b, up, dot}
MCLegal  == {a, b, dot}
MCLower  == [s \in MCSymbol |-> IF s = up THEN a ELSE s]
MCNumber == {"9", "30"}
MCText   == MCNumber \cup {"x"}

MCRequest ==
    {[m_name |-> name, type |-> "int", m_val |-> "9"] : name \in {<<a>>, <<a, dot, b>>, <<up, dot, b>>}}
    \cup {[m_name |-> name, type |-> "vector", m_val |-> <<>>] : name \in {<<a>>, <<b>>, <<a, dot, b>>}}

MCLeaf(kind, text, items) ==
    [kind |-> kind, text |-> text, items |-> items, members |-> <<>>]

MCNull   == MCLeaf("null", Nothing, <<>>)
MCLeaves ==
    {MCLeaf("scalar", text, <<>>) : text \in MCText}
    \cup {MCLeaf("sequence", Nothing, items) : items \in {<<"9">>, <<"30", "x">>}}
    \cup {MCNull}

MCMember(key, node) == [key |-> key, node |-> node]

MCMap(members) == [kind |-> "map", text |-> Nothing, items |-> <<>>, members |-> members]

\* a map whose only key is the given one
MCUnder(key) == {MCMap(<<MCMember(key, leaf)>>) : leaf \in MCLeaves}
MCInner == MCUnder(<<b>>) \cup MCUnder(<<up>>)

MCDocument ==
    {MCNull}
    \cup {MCMap(<<MCMember(<<a>>, inner), MCMember(<<a, dot, b>>, leaf)>>) :
              inner \in MCInner, leaf \in MCLeaves}
    \cup {MCMap(<<MCMember(<<up>>, inner), MCMember(<<b>>, leaf)>>) :
              inner \in MCUnder(<<b>>), leaf \in MCLeaves}
    \cup {MCMap(<<MCMember(<<a>>, leaf), MCMember(<<b>>, other)>>) :
              leaf \in MCLeaves, other \in MCLeaves}

MCNode == MCDocument \cup MCInner \cup MCLeaves

=============================================================================
