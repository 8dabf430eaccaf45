------------------------------- MODULE Config -------------------------------
(***************************************************************************)
(* sylar::Config: the registry of variables, looked up by name and type,   *)
(* and the loading of a YAML document into the registered ones, entry by   *)
(* entry.  A change of a variable calls its listeners first: they may look *)
(* up more, and a lookup that throws out of them stops the change.         *)
(*                                                                         *)
(* A name, and a key of a document, is a sequence of symbols: the dot and  *)
(* letters, or runs of them.  Variables are of type int or are sequences   *)
(* of int (std::vector, std::list).                                        *)
(***************************************************************************)
EXTENDS Naturals, SequencesExt

CONSTANTS
    Symbol,   \* the symbols of names
    Legal,    \* the lower case letters, digits, "_" and the dot
    Dot,
    Lower,    \* ::tolower
    Number,   \* the texts of integers
    Text,     \* the texts of scalars
    Node,     \* the nodes of the documents
    Document, \* their roots
    Request,  \* what the program looks up: a name, a type and a default
    Fails,    \* an exception of a conversion
    Nothing   \* no document

Name == Seq(Symbol)
Type == {"int", "vector"}
Values(type) == IF type = "int" THEN Number ELSE Seq(Number)

\* A ConfigVar<T>: its name, T and its value.
ObjectOf(type) == [m_name : Name, type : {type}, m_val : Values(type)]

\* How deep the maps below a node are nested.
Depth[node \in Node] ==
    Max({0} \cup {Depth[node.members[i].node] + 1 : i \in DOMAIN node.members})

\* A node with a name: what ListAllMember lists.
Entry == [name : Name, node : Node]

ASSUME ConfigAssumption ==
    /\ Dot \in Legal /\ Legal \subseteq Symbol
    /\ Lower \in [Symbol -> Symbol]
    /\ \A s \in Legal : Lower[s] = s
    /\ Number \subseteq Text
    /\ Fails \notin Number /\ Fails \notin Seq(Number)
    /\ Request \subseteq ObjectOf("int") \cup ObjectOf("vector")
    /\ Document \subseteq Node /\ Nothing \notin Node
    /\ \A node \in Node :
          /\ node.members \in Seq([key : Name, node : Node])
          /\ Depth[node] \in Nat
          /\ \A i \in DOMAIN node.members : Depth[node.members[i].node] < Depth[node]

VARIABLES
    objects,  \* the ConfigVar objects, in the order they were made
    s_datas,  \* the registry: from a name to the place of its object in objects
    todo,     \* what is left of all_nodes in LoadFromYaml
    change,   \* the call of setValue that is calling listeners: none or one
    loaded,   \* history: the last document
    before,   \* history: the objects when its load began
    stopped   \* history: the objects with a change that its load began and that threw

vars == <<objects, s_datas, todo, change, loaded, before, stopped>>

\* The types; an object's value, and one it is about to get, is of its type.
TypeOK ==
    /\ objects \in Seq(ObjectOf("int") \cup ObjectOf("vector"))
    /\ DOMAIN s_datas \subseteq Name
    /\ \A name \in DOMAIN s_datas : s_datas[name] \in DOMAIN objects
    /\ \A c \in change : /\ c.object \in DOMAIN objects
                         /\ c.value \in Values(objects[c.object].type)
    /\ \A c, d \in change : c = d
    /\ stopped \subseteq DOMAIN objects

Init ==
    /\ objects = <<>>
    /\ s_datas = <<>>
    /\ todo = <<>>
    /\ change = {}
    /\ loaded = Nothing
    /\ before = <<>>
    /\ stopped = {}

-----------------------------------------------------------------------------
IsLegal(name) == \A i \in DOMAIN name : name[i] \in Legal

ToLower(name) == [i \in DOMAIN name |-> Lower[name[i]]]

\* The program between loads, or a listener.
MayLookup == todo = <<>> \/ change # {}

Registered(name, type, default) ==
    /\ objects' = Append(objects, [m_name |-> ToLower(name), type |-> type, m_val |-> default])
    /\ s_datas' = [n \in DOMAIN s_datas \cup {name} |->
                       IF n = name THEN Len(objects) + 1 ELSE s_datas[n]]
    /\ UNCHANGED <<change, stopped>>

\* An exception, out of a listener if one runs: setValue does not get to its store,
\* and fromString catches.
Throws ==
    /\ change' = {}
    /\ stopped' = stopped \cup {c.object : c \in change}
    /\ UNCHANGED <<objects, s_datas>>

Lookup_ByType(name, type, default) ==
    /\ MayLookup
    /\ IF name \in DOMAIN s_datas /\ objects[s_datas[name]].type = type
       THEN UNCHANGED <<objects, s_datas, change, stopped>>
       ELSE IF IsLegal(name) THEN Registered(name, type, default) ELSE Throws
    /\ UNCHANGED <<todo, loaded, before>>

\* Config::Lookup with a default: the variable of that name (null if it is of another
\* type); an exception for a name that is not legal; else a new variable.
Lookup(name, type, default) ==
    /\ MayLookup
    /\ IF name \in DOMAIN s_datas
       THEN UNCHANGED <<objects, s_datas, change, stopped>>
       ELSE IF IsLegal(name) THEN Registered(name, type, default) ELSE Throws
    /\ UNCHANGED <<todo, loaded, before>>

-----------------------------------------------------------------------------
\* ListAllMember: a node and all below it, with their dotted names, but nothing below
\* a name that is not legal.
Dotted(prefix, key) == IF prefix = <<>> THEN key ELSE prefix \o <<Dot>> \o key

Below(entry, i) ==
    [name |-> Dotted(entry.name, entry.node.members[i].key), node |-> entry.node.members[i].node]

ListAllMember[entry \in Entry] ==
    IF ~IsLegal(entry.name) THEN <<>>
    ELSE <<entry>> \o
         FlattenSeq([i \in DOMAIN entry.node.members |-> ListAllMember[Below(entry, i)]])

\* The conversions from the text of a node.  A scalar and an empty node have no
\* elements, so as a sequence they read as an empty one; a map has elements but (its
\* keys being names) none that is found by a number; one bad element fails the whole.
CastInt(node) == IF node.kind = "scalar" /\ node.text \in Number THEN node.text ELSE Fails

CastVector(node) ==
    IF node.items = <<>> /\ node.members = <<>> THEN <<>>
    ELSE IF node.kind = "sequence" /\ node.items \in Seq(Number) THEN node.items
    ELSE Fails

Cast_AsInt(type, node) == CastInt(node)

Cast(type, node) == IF type = "int" THEN CastInt(node) ELSE CastVector(node)

AllNodes(root) == ListAllMember[[name |-> <<>>, node |-> root]]

\* Config::LoadFromYaml up to its loop.
LoadFromYaml(root) ==
    /\ todo = <<>> /\ change = {}
    /\ todo' = AllNodes(root)
    /\ loaded' = root
    /\ before' = objects
    /\ stopped' = {}
    /\ UNCHANGED <<objects, s_datas, change>>

\* fromString, and setValue up to its loop over the listeners: nothing if the
\* conversion throws or the value is equal.
Assign(i, value) ==
    change' = IF value \in {Fails, objects[i].m_val} THEN {}
              ELSE {[object |-> i, value |-> value]}

LoadEntry_Adds ==
    /\ todo # <<>> /\ change = {}
    /\ LET key == ToLower(Head(todo).name) IN
       IF key # <<>> /\ key \in DOMAIN s_datas
       THEN /\ Assign(s_datas[key], Cast(objects[s_datas[key]].type, Head(todo).node))
            /\ UNCHANGED <<objects, s_datas, stopped>>
       ELSE IF key # <<>> /\ CastInt(Head(todo).node) # Fails
            THEN Registered(key, "int", CastInt(Head(todo).node))
            ELSE UNCHANGED <<objects, s_datas, change, stopped>>
    /\ todo' = Tail(todo)
    /\ UNCHANGED <<loaded, before>>

LoadEntry_Throws ==
    /\ todo # <<>> /\ change = {}
    /\ LET key   == ToLower(Head(todo).name)
           value == Cast(objects[s_datas[key]].type, Head(todo).node)
       IN IF key # <<>> /\ key \in DOMAIN s_datas
          THEN Assign(s_datas[key], value) /\ todo' = IF value = Fails THEN <<>> ELSE Tail(todo)
          ELSE UNCHANGED change /\ todo' = Tail(todo)
    /\ UNCHANGED <<objects, s_datas, loaded, before, stopped>>

\* One turn of its loop, up to the first listener.
LoadEntry ==
    /\ todo # <<>> /\ change = {}
    /\ LET key == ToLower(Head(todo).name) IN
       IF key # <<>> /\ key \in DOMAIN s_datas
       THEN Assign(s_datas[key], Cast(objects[s_datas[key]].type, Head(todo).node))
       ELSE UNCHANGED change
    /\ todo' = Tail(todo)
    /\ UNCHANGED <<objects, s_datas, loaded, before, stopped>>

\* The end of setValue: no listener has thrown.
Store ==
    /\ \E c \in change : objects' = [objects EXCEPT ![c.object].m_val = c.value]
    /\ change' = {}
    /\ UNCHANGED <<s_datas, todo, loaded, before, stopped>>

Next ==
    \/ \E r \in Request : Lookup(r.m_name, r.type, r.m_val)
    \/ \E root \in Document : LoadFromYaml(root)
    \/ LoadEntry
    \/ Store

Spec == Init /\ [][Next]_vars

-----------------------------------------------------------------------------
\* A ConfigVar that Lookup has handed out stays the one its name is registered for,
\* so whoever holds it (log.cc and the tests do, for ever) sees every load: no lookup
\* of any type, in any order with loads, replaces it or takes its name.
HandlesStayLive ==
    \A i \in DOMAIN objects :
        objects[i].m_name \in DOMAIN s_datas /\ s_datas[objects[i].m_name] = i

\* A load overwrites the items agreed on and adds none (worklog, line 39), and
\* neither a load nor a lookup changes the name or the type of an object.
AgreedItemsOnly ==
    [][/\ Len(objects') >= Len(objects)
       /\ \A i \in DOMAIN objects : /\ objects'[i].m_name = objects[i].m_name
                                    /\ objects'[i].type = objects[i].type
       /\ todo' # todo \/ change' # change =>
             s_datas' = s_datas /\ Len(objects') = Len(objects)]_vars

\* The nodes below one that a name spells: the members along its dots, in the
\* document's order; with the document's keys in lower case when fold is TRUE.
Key(fold, member) == IF fold THEN ToLower(member.key) ELSE member.key

Rest(name, key) == SubSeq(name, Len(key) + 2, Len(name))

Spelled(fold, entry) ==
    LET spelled[e \in Entry] ==
            FlattenSeq([i \in DOMAIN e.node.members |->
                LET child == e.node.members[i].node
                    key   == Key(fold, e.node.members[i])
                IN  IF key = e.name THEN <<child>>
                    ELSE IF IsPrefix(Append(key, Dot), e.name)
                         THEN spelled[[name |-> Rest(e.name, key), node |-> child]]
                         ELSE <<>>])
    IN  spelled[entry]

\* What an object is after reading nodes: the last one that converts.
LastRead(object, nodes) ==
    LET read == {k \in DOMAIN nodes : Cast(object.type, nodes[k]) # Fails}
    IN  IF read = {} THEN object.m_val ELSE Cast(object.type, nodes[Max(read)])

\* (An empty name is never loaded, and an empty key of the root adds no step to the
\* names below it.)
EndsAsSpelled(fold) ==
    /\ todo = <<>> /\ change = {} /\ loaded # Nothing
    /\ \A i \in DOMAIN loaded.members : loaded.members[i].key # <<>>
    => \A i \in DOMAIN before \ stopped :
          before[i].m_name # <<>> =>
              objects[i].m_val =
                  LastRead(before[i], Spelled(fold, [name |-> before[i].m_name, node |-> loaded]))

\* After a load each variable, unless one of its own listeners threw, has the value of
\* the last node its name spells, through nested maps or dotted keys, that converts;
\* nodes that do not convert, names that are not registered or not legal, what
\* listeners look up, and the exceptions of other variables' listeners disturb nothing
\* (Config::LoadFromYaml, ListAllMember, the catch in fromString).
LoadsWhatIsSpelled == EndsAsSpelled(FALSE)

\* The same with names in any case: config.h:301 says that names are converted to
\* lower case, and LoadFromYaml does convert the keys it has listed.
LoadsAnyCase == EndsAsSpelled(TRUE)

=============================================================================
