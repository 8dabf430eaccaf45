---------------------------- MODULE MC_LexicalCast ----------------------------
(* Every container of int, and every container of these that C++ accepts; the  *)
(* texts have nodes of every kind where each of the types expects another.     *)
EXTENDS LexicalCast

MCNumber == [s \in {"1", "01", "2"} |-> IF s = "2" THEN 2 ELSE 1]
MCTextOf == [n \in {1, 2} |-> IF n = 1 THEN "1" ELSE "2"]

Ordered == {"vector", "list", "set", "map"}
MCType ==
    {Int32} \cup {<<c>> : c \in Container}
    \cup {<<c, outer>> : c \in Container, outer \in {"vector", "list", "map", "unordered_map"}}
    \cup {<<c, "set">> : c \in Ordered}

Leaf == {NullNode, [kind |-> "Sequence", items |-> <<>>]} \cup {Scalar(s) : s \in {"1", "01", "2", "x"}}
MCKey == {"a", "b"}
Lists(S) == {Sequence(s) : s \in BoundedSeq(S, 2)}
Maps(S) == {Map(s) : s \in BoundedSeq(MCKey \X S, 2)}
Inner ==
    {NullNode, Scalar("1")}
    \cup {Sequence(s) : s \in {<<Scalar("1")>>, <<Scalar("2"), Scalar("1")>>,
                               <<Scalar("1"), Scalar("01")>>, <<Scalar("x")>>}}
    \cup {Map(s) : s \in {<< <<"a", Scalar("1")>> >>,
                         << <<"a", Scalar("1")>>, <<"a", Scalar("2")>> >>,
                         << <<"b", Scalar("1")>>, <<"a", Scalar("2")>> >>}}
MCText == Leaf \cup Lists(Leaf) \cup Maps(Leaf) \cup Lists(Inner) \cup Maps(Inner)
=============================================================================
