------------------------------ MODULE LexicalCast ------------------------------
(***************************************************************************)
(* The conversions between text and the containers of config.h, nested in  *)
(* one another: a variable of any such type is read from a text, written   *)
(* and read back.  A text is the YAML node it loads to; what is written of *)
(* an element is loaded again before it becomes part of the whole.         *)
(*                                                                         *)
(* The two specialisations of LexicalCast for a type are a record of       *)
(* functions: read, from the texts that convert to values, and write, from *)
(* the values of the type to the texts that may be written of them.        *)
(***************************************************************************)
EXTENDS Integers, SequencesExt

CONSTANTS
    Type,       \* the types of variables: the containers around int, the innermost first
    Text,       \* the nodes a document holds for a variable
    Key,        \* the keys of maps: names, not numbers
    Nesting,    \* how deep types and nodes are nested at most
    Number,     \* the texts that are numbers, with their values
    TextOf      \* the text boost::lexical_cast writes of a number

VARIABLE var      \* a ConfigVar<T>: T and m_val

Int32 == <<>>
Container == {"vector", "list", "set", "unordered_set", "map", "unordered_map"}

\* Nodes.  A node that was never given anything is null, and null is what "~" loads to.
NullNode == [kind |-> "Null"]
Scalar(s) == [kind |-> "Scalar", text |-> s]
Sequence(items) == IF items = <<>> THEN NullNode ELSE [kind |-> "Sequence", items |-> items]
Map(pairs) == IF pairs = <<>> THEN NullNode ELSE [kind |-> "Map", pairs |-> pairs]

\* The nodes nested no deeper than n, and those the program sees.
Nested(S) ==
    S \cup [kind : {"Sequence"}, items : Seq(S)]
      \cup [kind : {"Map"}, pairs : Seq(Key \X S)]

Nodes[n \in 0 .. Nesting] ==
    IF n = 0 THEN {NullNode} \cup [kind : {"Scalar"}, text : STRING]
    ELSE Nested(Nodes[n - 1])

Node == Nodes[Nesting]

\* A number is written as a text that reads as that number.
ASSUME LexicalAssumption ==
    /\ Nesting \in Nat
    /\ Type \subseteq Seq(Container) /\ \A t \in Type : Len(t) <= Nesting
    /\ Text \subseteq Node
    /\ DOMAIN Number \subseteq STRING /\ DOMAIN Number # {}
    /\ \A s \in DOMAIN Number :
          TextOf[Number[s]] \in DOMAIN Number /\ Number[TextOf[Number[s]]] = Number[s]

\* node[i] for i < node.size().  A scalar has none; a map has none under a number
\* and gives nodes without content, which load as null.
Elements(node) ==
    CASE node.kind = "Sequence" -> node.items
      [] node.kind = "Map" -> [k \in DOMAIN node.pairs |-> NullNode]
      [] OTHER -> <<>>

\* The pairs the loop over a node visits, which are none in a scalar.
Pairs(node) == IF node.kind = "Map" THEN node.pairs ELSE <<>>

-----------------------------------------------------------------------------
\* Reading, T being the conversions of the elements: one that does not convert fails
\* the whole.
ReadVector(T) ==
    [node \in {n \in Node : \A k \in DOMAIN Elements(n) : Elements(n)[k] \in DOMAIN T.read} |->
        [k \in DOMAIN Elements(node) |-> T.read[Elements(node)[k]]]]

ReadList(T) == ReadVector(T)

\* insert() keeps one of the elements that are equal.
ReadSet(T) == [node \in DOMAIN ReadVector(T) |-> ToSet(ReadVector(T)[node])]

ReadUnorderedSet(T) == ReadSet(T)

\* An entry of a sequence has no first, so that its Scalar() throws.
PairsConvert(T, node) ==
    /\ node.kind = "Sequence" => node.items = <<>>
    /\ \A k \in DOMAIN Pairs(node) : Pairs(node)[k][2] \in DOMAIN T.read

\* insert() keeps the first of the pairs with one key.
ReadMap(T) ==
    [node \in {n \in Node : PairsConvert(T, n)} |->
        LET pairs == Pairs(node)
            firsts == {k \in DOMAIN pairs : \A j \in 1 .. k - 1 : pairs[j][1] # pairs[k][1]}
        IN  {<<pairs[k][1], T.read[pairs[k][2]]>> : k \in firsts}]

ReadUnorderedMap(T) == ReadMap(T)

-----------------------------------------------------------------------------
\* Writing: sets and maps are written in any order, among them that of std::set and
\* std::map.
WriteEach(T, s) ==
    LET texts == UNION {T.write[s[k]] : k \in DOMAIN s}
    IN  {r \in [DOMAIN s -> texts] : \A k \in DOMAIN s : r[k] \in T.write[s[k]]}

WriteVector_SkipNull(T) ==
    [v \in Seq(DOMAIN T.write) |->
        {Sequence(SelectSeq(r, LAMBDA node : node # NullNode)) : r \in WriteEach(T, v)}]

WriteVector(T) == [v \in Seq(DOMAIN T.write) |-> {Sequence(r) : r \in WriteEach(T, v)}]

WriteList(T) == WriteVector(T)

WriteSet(T) ==
    [v \in {S \in SUBSET DOMAIN T.write : IsFiniteSet(S)} |->
        UNION {WriteVector(T)[s] : s \in SetToSeqs(v)}]

WriteUnorderedSet(T) == WriteSet(T)

\* A map is the set of its pairs, no two of them with one key.
OneOfEachKey(v) == \A p, q \in v : p[1] = q[1] => p = q

WritePairs(T, s) ==
    {Map([k \in DOMAIN s |-> <<s[k][1], r[k]>>]) :
        r \in WriteEach(T, [k \in DOMAIN s |-> s[k][2]])}

WriteMap(T) ==
    [v \in {S \in SUBSET (Key \X DOMAIN T.write) : IsFiniteSet(S) /\ OneOfEachKey(S)} |->
        UNION {WritePairs(T, s) : s \in SetToSeqs(v)}]

WriteUnorderedMap(T) == WriteMap(T)

-----------------------------------------------------------------------------
\* The types: int, by boost::lexical_cast, and the containers of one of them.
IntCast ==
    [read  |-> [node \in {n \in Node : n.kind = "Scalar" /\ n.text \in DOMAIN Number} |->
                   Number[node.text]],
     write |-> [v \in {Number[s] : s \in DOMAIN Number} |-> {Scalar(TextOf[v])}]]

CastOf(c, T) ==
    CASE c = "vector" -> [read |-> ReadVector(T), write |-> WriteVector(T)]
      [] c = "list" -> [read |-> ReadList(T), write |-> WriteList(T)]
      [] c = "set" -> [read |-> ReadSet(T), write |-> WriteSet(T)]
      [] c = "unordered_set" -> [read |-> ReadUnorderedSet(T), write |-> WriteUnorderedSet(T)]
      [] c = "map" -> [read |-> ReadMap(T), write |-> WriteMap(T)]
      [] c = "unordered_map" -> [read |-> ReadUnorderedMap(T), write |-> WriteUnorderedMap(T)]

Cast(t) ==
    LET casts[k \in 0 .. Len(t)] == IF k = 0 THEN IntCast ELSE CastOf(t[k], casts[k - 1])
    IN  casts[Len(t)]

-----------------------------------------------------------------------------
\* The default a variable is made with.
DefaultOf(t) ==
    IF t = Int32 THEN Number[CHOOSE s \in DOMAIN Number : TRUE] ELSE Cast(t).read[NullNode]

InitVar == var \in {[type |-> t, m_val |-> DefaultOf(t)] : t \in Type}

\* ConfigVar::fromString: what the conversion throws is caught before the value is set.
FromString(node) ==
    /\ node \in DOMAIN Cast(var.type).read
    /\ var' = [var EXCEPT !.m_val = Cast(var.type).read[node]]

FromStringThrows(node) ==
    /\ node \notin DOMAIN Cast(var.type).read
    /\ UNCHANGED var

NextVar == \E node \in Text : FromString(node) \/ FromStringThrows(node)

SpecVar == InitVar /\ [][NextVar]_var

-----------------------------------------------------------------------------
\* Any text toString may write of a value that was loaded converts, and to the same
\* value: empty containers inside others, equal elements, keys given twice and any
\* order of the elements included (the twelve specialisations of LexicalCast between
\* themselves).
ContainersRoundTrip ==
    \A written \in Cast(var.type).write[var.m_val] :
        /\ written \in DOMAIN Cast(var.type).read
        /\ Cast(var.type).read[written] = var.m_val
=============================================================================
