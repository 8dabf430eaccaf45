--------------------------- MODULE Config_proofs ----------------------------
(***************************************************************************)
(* Config for any names, requests and documents: values keep their types,  *)
(* whoever looked a variable up holds the registered one, and after a load *)
(* each variable has the value of the last node its name spells.           *)
(*                                                                         *)
(* ListAllMember and Spelled are recursive functions over the nodes of a   *)
(* document.  That they are what their recursion says is proved first, for *)
(* any tree of finite depth: solutions on two sets of shallow nodes agree  *)
(* where both are defined, so they join to one on the whole tree.          *)
(***************************************************************************)
EXTENDS Config, SequenceTheorems, WellFoundedInduction, TLAPS

Object == ObjectOf("int") \cup ObjectOf("vector")

\* A conversion gives a value of the type it converts to, or fails.
LEMMA CastType ==
    ASSUME NEW type \in Type, NEW node
    PROVE  Cast(type, node) \in Values(type) \cup {Fails}
BY EmptySeq DEF Type, Values, Cast, CastInt, CastVector

\* A legal name is in lower case.
LEMMA LegalIsLower ==
    ASSUME NEW name \in Name, IsLegal(name)
    PROVE  ToLower(name) = name
BY ConfigAssumption DEF Name, IsLegal, ToLower

LEMMA LowerIsName ==
    ASSUME NEW name \in Name
    PROVE  ToLower(name) \in Name
<1>1. ToLower(name) \in [1..Len(name) -> Symbol]
  BY ConfigAssumption DEF Name, ToLower
<1> QED
  BY <1>1, SeqDef DEF Name

\* What the objects keep when one is given a value of its type.
LEMMA ObjectStored ==
    ASSUME objects \in Seq(Object), NEW i \in DOMAIN objects,
           NEW value \in Values(objects[i].type),
           objects' = [objects EXCEPT ![i].m_val = value]
    PROVE  /\ objects' \in Seq(Object)
           /\ Len(objects') = Len(objects)
           /\ \A j \in DOMAIN objects : /\ objects'[j].m_name = objects[j].m_name
                                        /\ objects'[j].type = objects[j].type
           /\ objects'[i].m_val = value
           /\ \A j \in DOMAIN objects : j # i => objects'[j] = objects[j]
<1>1. i \in 1..Len(objects) /\ objects[i] \in Object
  BY LenProperties
<1>2. objects[i].type \in Type /\ objects[i] \in ObjectOf(objects[i].type)
  BY <1>1 DEF Object, ObjectOf, Type
<1>3. [objects[i] EXCEPT !.m_val = value] \in Object
  BY <1>2 DEF Object, ObjectOf, Type
<1>4. objects' = [objects EXCEPT ![i] = [objects[i] EXCEPT !.m_val = value]]
  OBVIOUS
<1>5. objects' \in Seq(Object) /\ Len(objects') = Len(objects)
  BY <1>1, <1>3, <1>4, ExceptSeq
<1>6. \A j \in DOMAIN objects : j # i => objects'[j] = objects[j]
  BY <1>4
<1>7. /\ objects'[i].m_name = objects[i].m_name /\ objects'[i].type = objects[i].type
      /\ objects'[i].m_val = value
  BY <1>2, <1>4 DEF ObjectOf
<1> QED
  BY <1>5, <1>6, <1>7

-----------------------------------------------------------------------------
(* The registry and the objects name each other. *)

LegalNames == \A name \in DOMAIN s_datas : IsLegal(name)

Inv == TypeOK /\ LegalNames /\ HandlesStayLive

LEMMA InitInv == Init => Inv
<1> SUFFICES ASSUME Init PROVE Inv
  OBVIOUS
<1>1. objects \in Seq(Object) /\ DOMAIN objects = {}
  BY EmptySeq, LenProperties DEF Init
<1>2. DOMAIN s_datas = {}
  BY <1>1 DEF Init
<1> QED
  BY <1>1, <1>2 DEF Init, Inv, TypeOK, LegalNames, HandlesStayLive, Object

\* A lookup adds at most one object, at the end.
LEMMA LookupStep ==
    ASSUME Inv, NEW r \in Request, Lookup(r.m_name, r.type, r.m_val)
    PROVE  /\ Inv'
           /\ Len(objects') >= Len(objects)
           /\ \A i \in DOMAIN objects : objects'[i] = objects[i]
<1>1. r \in Object /\ r.m_name \in Name
  BY ConfigAssumption DEF Object, ObjectOf
<1>2. objects \in Seq(Object)
  BY DEF Inv, TypeOK, Object
<1>3. CASE UNCHANGED <<objects, s_datas>> /\ (Throws \/ UNCHANGED <<change, stopped>>)
  <2>1. /\ \A c \in change' : c \in change
        /\ \A i \in stopped' : i \in stopped \/ \E c \in change : i = c.object
    BY <1>3 DEF Throws
  <2>2. TypeOK'
    BY <1>3, <2>1 DEF Inv, TypeOK
  <2> QED
    BY <1>2, <1>3, <2>2, LenProperties DEF Inv, LegalNames, HandlesStayLive
<1>4. CASE /\ r.m_name \notin DOMAIN s_datas /\ IsLegal(r.m_name)
           /\ Registered(r.m_name, r.type, r.m_val)
  <2> DEFINE name == r.m_name
             n == Len(objects)
             object == [m_name |-> name, type |-> r.type, m_val |-> r.m_val]
  <2>1. ToLower(name) = name
    BY <1>1, <1>4, LegalIsLower
  <2>2. object \in Object
    BY <1>1 DEF Object, ObjectOf
  <2>3. objects' = Append(objects, object)
    BY <1>4, <2>1 DEF Registered
  <2>4. /\ objects' \in Seq(Object) /\ Len(objects') = n + 1 /\ n \in Nat
        /\ objects'[n + 1] = object
        /\ \A i \in 1..n : objects'[i] = objects[i]
        /\ DOMAIN objects' = 1..(n + 1) /\ DOMAIN objects = 1..n
    BY <1>2, <2>2, <2>3, AppendProperties, LenProperties
  <2>5. /\ DOMAIN s_datas' = DOMAIN s_datas \cup {name}
        /\ s_datas'[name] = n + 1
        /\ \A m \in DOMAIN s_datas : s_datas'[m] = s_datas[m]
    BY <1>4 DEF Registered
  <2>6. change' = change /\ stopped' = stopped
    BY <1>4 DEF Registered
  <2>7. TypeOK'
    <3>1. objects' \in Seq(Object) /\ DOMAIN objects \subseteq DOMAIN objects'
      BY <2>4
    <3>2. \A c \in change : /\ c.object \in DOMAIN objects'
                           /\ c.value \in Values(objects'[c.object].type)
      BY <2>4, <3>1 DEF Inv, TypeOK
    <3>3. \A m \in DOMAIN s_datas' : m \in Name /\ s_datas'[m] \in DOMAIN objects'
      BY <1>1, <2>4, <2>5, <3>1 DEF Inv, TypeOK
    <3> HIDE DEF object
    <3> QED
      BY <2>6, <3>1, <3>2, <3>3 DEF Inv, TypeOK, Object
  <2>8. LegalNames'
    BY <1>4, <2>5 DEF Inv, LegalNames, IsLegal
  <2>9. HandlesStayLive'
    <3> SUFFICES ASSUME NEW i \in 1..(n + 1)
                 PROVE  objects'[i].m_name \in DOMAIN s_datas' /\ s_datas'[objects'[i].m_name] = i
      BY <2>4 DEF HandlesStayLive
    <3>1. CASE i = n + 1
      BY <2>4, <2>5, <3>1
    <3>2. CASE i # n + 1
      BY <2>4, <2>5, <3>2 DEF Inv, HandlesStayLive
    <3> QED
      BY <3>1, <3>2
  <2> QED
    BY <2>4, <2>7, <2>8, <2>9 DEF Inv
<1> QED
  BY <1>3, <1>4 DEF Lookup, Throws

\* An entry of a document starts at most the change of one variable to a value of its
\* type ...
LEMMA EntryStep ==
    ASSUME Inv, LoadEntry
    PROVE  Inv' /\ UNCHANGED <<objects, s_datas>>
<1> DEFINE key == ToLower(Head(todo).name)
           i == s_datas[key]
           value == Cast(objects[i].type, Head(todo).node)
<1>1. UNCHANGED <<objects, s_datas, stopped>> /\ change = {}
  BY DEF LoadEntry
<1>2. CASE key # <<>> /\ key \in DOMAIN s_datas
  <2>1. i \in DOMAIN objects /\ objects \in Seq(Object)
    BY <1>2 DEF Inv, TypeOK, Object
  <2>2. change' = {} \/ (value # Fails /\ change' = {[object |-> i, value |-> value]})
    BY <1>2 DEF LoadEntry, Assign
  <2>3. objects[i].type \in Type
    <3>1. objects[i] \in Object
      BY <2>1, ElementOfSeq, LenProperties
    <3> QED
      BY <3>1 DEF Object, ObjectOf, Type
  <2> HIDE DEF i
  <2>4. value # Fails => value \in Values(objects[i].type)
    BY <2>3, CastType
  <2> HIDE DEF value, key
  <2>5. \A c \in change' : c.object = i /\ c.value \in Values(objects[i].type)
    BY <2>2, <2>4
  <2>6. \A c, d \in change' : c = d
    BY <2>2
  <2>7. TypeOK'
    BY <1>1, <2>1, <2>5, <2>6 DEF Inv, TypeOK
  <2> QED
    BY <1>1, <2>7 DEF Inv, LegalNames, HandlesStayLive
<1>3. CASE ~(key # <<>> /\ key \in DOMAIN s_datas)
  <2>1. change' = {}
    BY <1>1, <1>3 DEF LoadEntry
  <2>2. TypeOK'
    BY <1>1, <2>1 DEF Inv, TypeOK
  <2> QED
    BY <1>1, <2>2 DEF Inv, LegalNames, HandlesStayLive
<1> QED
  BY <1>1, <1>2, <1>3

\* ... and its end stores it.
LEMMA StoreStep ==
    ASSUME Inv, Store
    PROVE  /\ Inv'
           /\ Len(objects') = Len(objects)
           /\ \A j \in DOMAIN objects : /\ objects'[j].m_name = objects[j].m_name
                                        /\ objects'[j].type = objects[j].type
           /\ \E c \in change :
                 /\ objects'[c.object].m_val = c.value
                 /\ \A j \in DOMAIN objects : j # c.object => objects'[j] = objects[j]
<1>1. PICK c \in change : objects' = [objects EXCEPT ![c.object].m_val = c.value]
  BY DEF Store
<1>2. /\ objects \in Seq(Object) /\ c.object \in DOMAIN objects
      /\ c.value \in Values(objects[c.object].type)
  BY DEF Inv, TypeOK, Object
<1>3. /\ objects' \in Seq(Object)
      /\ Len(objects') = Len(objects)
      /\ \A j \in DOMAIN objects : /\ objects'[j].m_name = objects[j].m_name
                                   /\ objects'[j].type = objects[j].type
      /\ objects'[c.object].m_val = c.value
      /\ \A j \in DOMAIN objects : j # c.object => objects'[j] = objects[j]
  BY <1>1, <1>2, ObjectStored
<1>4. /\ UNCHANGED <<s_datas, stopped>> /\ change' = {}
      /\ DOMAIN objects' = DOMAIN objects
  BY <1>2, <1>3, LenProperties DEF Store
<1>5. TypeOK'
  BY <1>3, <1>4 DEF Inv, TypeOK, Object
<1>6. LegalNames' /\ HandlesStayLive'
  BY <1>3, <1>4 DEF Inv, LegalNames, HandlesStayLive, IsLegal
<1> QED
  BY <1>3, <1>5, <1>6 DEF Inv

LEMMA LoadStep ==
    ASSUME Inv, NEW root \in Document, LoadFromYaml(root)
    PROVE  Inv'
<1>1. UNCHANGED <<objects, s_datas, change>> /\ stopped' = {}
  BY DEF LoadFromYaml
<1> QED
  BY <1>1 DEF Inv, TypeOK, LegalNames, HandlesStayLive

LEMMA NextInv == Inv /\ [Next]_vars => Inv'
<1> SUFFICES ASSUME Inv, [Next]_vars PROVE Inv'
  OBVIOUS
<1>1. CASE UNCHANGED vars
  BY <1>1 DEF vars, Inv, TypeOK, LegalNames, HandlesStayLive
<1> QED
  BY <1>1, LookupStep, EntryStep, StoreStep, LoadStep DEF Next

LEMMA Registry == Spec => []Inv
<1> QED
  BY InitInv, NextInv, PTL DEF Spec

\* Every value is of its variable's type after any lookups and loads.
THEOREM TypeCorrect == Spec => []TypeOK
<1>1. Inv => TypeOK
  BY DEF Inv
<1> QED
  BY <1>1, Registry, PTL

\* Whoever looked a variable up holds the one that loads set.
THEOREM HandlesCorrect == Spec => []HandlesStayLive
<1>1. Inv => HandlesStayLive
  BY DEF Inv
<1> QED
  BY <1>1, Registry, PTL

\* Loads change values only, lookups only add.
THEOREM AgreedCorrect == Spec => AgreedItemsOnly
<1> DEFINE Kept ==
        /\ Len(objects') >= Len(objects)
        /\ \A i \in DOMAIN objects : /\ objects'[i].m_name = objects[i].m_name
                                     /\ objects'[i].type = objects[i].type
        /\ todo' # todo \/ change' # change =>
              s_datas' = s_datas /\ Len(objects') = Len(objects)
<1>1. Inv /\ [Next]_vars => [Kept]_vars
  <2> SUFFICES ASSUME Inv, Next PROVE Kept
    OBVIOUS
  <2>1. Len(objects) \in Nat
    BY LenProperties DEF Inv, TypeOK
  <2>2. ASSUME NEW r \in Request, Lookup(r.m_name, r.type, r.m_val) PROVE Kept
    <3>1. /\ todo' = todo
          /\ UNCHANGED change \/ UNCHANGED <<objects, s_datas>>
      BY <2>2 DEF Lookup, Registered, Throws
    <3> QED
      BY <2>2, <3>1, LookupStep
  <2>3. ASSUME NEW root \in Document, LoadFromYaml(root) PROVE Kept
    BY <2>1, <2>3 DEF LoadFromYaml
  <2>4. CASE LoadEntry
    BY <2>1, <2>4, EntryStep
  <2>5. CASE Store
    <3>1. s_datas' = s_datas
      BY <2>5 DEF Store
    <3> QED
      BY <2>1, <2>5, <3>1, StoreStep
  <2> QED
    BY <2>2, <2>3, <2>4, <2>5 DEF Next
<1> QED
  BY <1>1, Registry, PTL DEF Spec, AgreedItemsOnly

-----------------------------------------------------------------------------
(* Induction over the naturals, and recursion over a tree. *)

\* Every set of naturals has a least element, so one that has 0 and the successor
\* of each of its elements has them all.
LEMMA LeastNat ==
    ASSUME NEW S \in SUBSET Nat, S # {}
    PROVE  \E m \in S : \A k \in S : m <= k
<1> DEFINE R == OpToRel(<, Nat)
<1>1. IsWellFoundedOn(R, Nat)
  BY NatLessThanWellFounded
<1>2. \A m, k \in Nat : k < m => <<k, m>> \in R
  BY DEF OpToRel
<1> HIDE DEF R
<1>3. PICK m \in S : \A k \in S : ~(<<k, m>> \in R)
  BY <1>1, WFMin
<1>4. \A k \in S : ~(k < m)
  BY <1>2, <1>3
<1> QED
  BY <1>4

LEMMA Induction ==
    ASSUME NEW P \in SUBSET Nat, 0 \in P, \A n \in P : n + 1 \in P
    PROVE  P = Nat
<1> SUFFICES ASSUME Nat \ P # {} PROVE FALSE
  OBVIOUS
<1>1. PICK m \in Nat \ P : \A k \in Nat \ P : m <= k
  BY LeastNat
<1>2. m # 0 /\ m - 1 \in Nat
  OBVIOUS
<1>3. m - 1 \in P
  BY <1>1, <1>2
<1>4. (m - 1) + 1 \in P
  BY <1>3
<1> QED
  BY <1>1, <1>4

-----------------------------------------------------------------------------
(* A function defined by recursion over a tree: at e it is made, by rule, of its *)
(* values at the elements of below[e], which rank lower.                         *)

ValuesBelow(below, f, e) == [i \in DOMAIN below[e] |-> f[below[e][i]]]

Solves(f, S, R, below, rule) ==
    /\ f \in [S -> R]
    /\ \A e \in S : f[e] = rule[e][ValuesBelow(below, f, e)]

IsTree(S, below, rank) ==
    /\ below \in [S -> Seq(S)]
    /\ rank \in [S -> Nat]
    /\ \A e \in S : \A i \in DOMAIN below[e] : rank[below[e][i]] < rank[e]

Shallow(S, rank, d) == {e \in S : rank[e] < d}

\* Two solutions agree wherever both are defined.
LEMMA SolutionsAgree ==
    ASSUME NEW S, NEW R, NEW below, NEW rule, NEW rank, IsTree(S, below, rank),
           NEW d1 \in Nat, NEW d2 \in Nat, NEW f, NEW g,
           Solves(f, Shallow(S, rank, d1), R, below, rule),
           Solves(g, Shallow(S, rank, d2), R, below, rule),
           NEW x \in Shallow(S, rank, d1) \cap Shallow(S, rank, d2)
    PROVE  f[x] = g[x]
<1> DEFINE Apart == {e \in S : rank[e] < d1 /\ rank[e] < d2 /\ f[e] # g[e]}
           Ranks == {rank[e] : e \in Apart}
<1> SUFFICES ASSUME x \in Apart PROVE FALSE
  BY DEF Shallow
<1>1. Ranks \in SUBSET Nat /\ Ranks # {}
  BY DEF IsTree
<1>2. PICK m \in Ranks : \A k \in Ranks : m <= k
  BY <1>1, LeastNat
<1>3. PICK e \in Apart : rank[e] = m
  BY <1>2
<1>4. \A i \in DOMAIN below[e] :
         below[e][i] \in S /\ rank[below[e][i]] < rank[e] /\ rank[below[e][i]] \in Nat
  BY <1>3, ElementOfSeq DEF IsTree
<1>5. \A i \in DOMAIN below[e] : below[e][i] \notin Apart
  <2> SUFFICES ASSUME NEW i \in DOMAIN below[e], below[e][i] \in Apart PROVE FALSE
    OBVIOUS
  <2>1. rank[below[e][i]] \in Ranks
    OBVIOUS
  <2>2. rank[e] <= rank[below[e][i]]
    BY <1>2, <1>3, <2>1
  <2>3. rank[e] \in Nat /\ rank[below[e][i]] \in Nat /\ rank[below[e][i]] < rank[e]
    BY <1>3, <1>4 DEF IsTree
  <2> QED
    BY <2>2, <2>3
<1>6. \A i \in DOMAIN below[e] : f[below[e][i]] = g[below[e][i]]
  <2>1. rank[e] \in Nat /\ rank[e] < d1 /\ rank[e] < d2
    BY <1>3 DEF IsTree
  <2> QED
    BY <1>4, <1>5, <2>1
<1>7. ValuesBelow(below, f, e) = ValuesBelow(below, g, e)
  BY <1>6, Zenon DEF ValuesBelow
<1>8. f[e] = g[e]
  BY <1>3, <1>7 DEF Solves, Shallow
<1> QED
  BY <1>3, <1>8

\* There is a solution up to any rank,
LEMMA ShallowSolved ==
    ASSUME NEW S, NEW R, NEW below, NEW rule, NEW rank, IsTree(S, below, rank),
           \A e \in S : rule[e] \in [Seq(R) -> R]
    PROVE  \A d \in Nat : \E f : Solves(f, Shallow(S, rank, d), R, below, rule)
<1> DEFINE P == {d \in Nat : \E f : Solves(f, Shallow(S, rank, d), R, below, rule)}
<1>1. 0 \in P
  <2>1. Shallow(S, rank, 0) = {}
    BY DEF Shallow, IsTree
  <2>2. Solves([e \in {} |-> e], Shallow(S, rank, 0), R, below, rule)
    BY <2>1 DEF Solves
  <2> QED
    BY <2>2
<1>2. ASSUME NEW d \in P PROVE d + 1 \in P
  <2>1. PICK f : Solves(f, Shallow(S, rank, d), R, below, rule)
    OBVIOUS
  <2> DEFINE T == Shallow(S, rank, d + 1)
             g == [e \in T |-> rule[e][ValuesBelow(below, f, e)]]
  <2>2. ASSUME NEW e \in T
        PROVE  /\ e \in S
               /\ \A i \in DOMAIN below[e] : /\ below[e][i] \in Shallow(S, rank, d)
                                             /\ below[e][i] \in T
    <3>1. e \in S /\ below[e] \in Seq(S) /\ rank[e] \in Nat /\ rank[e] < d + 1
      BY DEF Shallow, IsTree
    <3>2. \A i \in DOMAIN below[e] :
             below[e][i] \in S /\ rank[below[e][i]] < rank[e] /\ rank[below[e][i]] \in Nat
      BY <3>1, ElementOfSeq DEF IsTree
    <3> QED
      BY <3>1, <3>2 DEF Shallow
  <2>3. ASSUME NEW e \in T PROVE ValuesBelow(below, f, e) \in Seq(R)
    <3>1. below[e] \in Seq(S)
      BY <2>2 DEF IsTree
    <3>2. \A i \in DOMAIN below[e] : f[below[e][i]] \in R
      BY <2>1, <2>2 DEF Solves
    <3> QED
      BY <3>1, <3>2, SeqDef, LenProperties DEF ValuesBelow
  <2>4. g \in [T -> R]
    <3>1. \A e \in T : rule[e][ValuesBelow(below, f, e)] \in R
      BY <2>2, <2>3
    <3> QED
      BY <3>1
  <2>5. ASSUME NEW e \in Shallow(S, rank, d) PROVE g[e] = f[e]
    <3>1. e \in T
      BY DEF Shallow, IsTree
    <3>2. f[e] = rule[e][ValuesBelow(below, f, e)]
      BY <2>1 DEF Solves
    <3> QED
      BY <3>1, <3>2
  <2>6. ASSUME NEW e \in T PROVE g[e] = rule[e][ValuesBelow(below, g, e)]
    <3>1. \A i \in DOMAIN below[e] : g[below[e][i]] = f[below[e][i]]
      BY <2>2, <2>5
    <3> HIDE DEF g
    <3>2. ValuesBelow(below, g, e) = ValuesBelow(below, f, e)
      BY <3>1, Zenon DEF ValuesBelow
    <3> QED
      BY <3>2, Zenon DEF g
  <2> HIDE DEF g
  <2>7. Solves(g, T, R, below, rule)
    BY <2>4, <2>6, Zenon DEF Solves
  <2> QED
    BY <2>7
<1>3. P = Nat
  BY <1>1, <1>2, Induction, Zenon
<1> QED
  BY <1>3

\* and so one for the whole tree.
LEMMA TreeRecursion ==
    ASSUME NEW S, NEW R, NEW below, NEW rule, NEW rank, IsTree(S, below, rank),
           \A e \in S : rule[e] \in [Seq(R) -> R]
    PROVE  \E f : Solves(f, S, R, below, rule)
<1> DEFINE upTo == [d \in Nat |-> CHOOSE f : Solves(f, Shallow(S, rank, d), R, below, rule)]
           whole == [e \in S |-> upTo[rank[e] + 1][e]]
<1>1. \A d \in Nat : Solves(upTo[d], Shallow(S, rank, d), R, below, rule)
  BY ShallowSolved
<1> HIDE DEF upTo
<1>2. ASSUME NEW e \in S
      PROVE  whole[e] \in R /\ whole[e] = rule[e][ValuesBelow(below, whole, e)]
  <2> DEFINE f == upTo[rank[e] + 1]
  <2>1. rank[e] \in Nat /\ rank[e] + 1 \in Nat /\ e \in Shallow(S, rank, rank[e] + 1)
        /\ whole[e] = f[e]
    BY DEF IsTree, Shallow
  <2>2. Solves(f, Shallow(S, rank, rank[e] + 1), R, below, rule)
    BY <1>1, <2>1
  <2>3. f[e] \in R /\ f[e] = rule[e][ValuesBelow(below, f, e)]
    BY <2>1, <2>2, Zenon DEF Solves
  <2>4. ASSUME NEW i \in DOMAIN below[e] PROVE whole[below[e][i]] = f[below[e][i]]
    <3> DEFINE x == below[e][i]
    <3>1. x \in S /\ rank[x] < rank[e] /\ rank[x] \in Nat
      BY ElementOfSeq DEF IsTree
    <3>2. rank[x] + 1 \in Nat /\ rank[x] < rank[x] + 1 /\ rank[x] < rank[e] + 1
      BY <2>1, <3>1
    <3>3. whole[x] = upTo[rank[x] + 1][x]
      BY <3>1
    <3>4. Solves(upTo[rank[x] + 1], Shallow(S, rank, rank[x] + 1), R, below, rule)
      BY <1>1, <3>2
    <3>5. x \in Shallow(S, rank, rank[x] + 1) \cap Shallow(S, rank, rank[e] + 1)
      BY <3>1, <3>2 DEF Shallow
    <3> HIDE DEF x, f, whole
    <3>6. upTo[rank[x] + 1][x] = f[x]
      BY <2>1, <2>2, <3>2, <3>4, <3>5, SolutionsAgree
    <3> QED
      BY <3>3, <3>6 DEF x
  <2> HIDE DEF whole, f
  <2>5. ValuesBelow(below, whole, e) = ValuesBelow(below, f, e)
    BY <2>4, Zenon DEF ValuesBelow
  <2> QED
    BY <2>1, <2>3, <2>5
<1>3. whole \in [S -> R]
  BY <1>2
<1> HIDE DEF whole
<1> QED
  BY <1>2, <1>3 DEF Solves

-----------------------------------------------------------------------------
\* FlattenSeq joins one sequence after another.
Joined(seqs, n, flat) ==
    flat = [k \in 1 .. n |-> IF k = 1 THEN seqs[k] ELSE flat[k - 1] \o seqs[k]]

LEMMA JoinRuns ==
    ASSUME NEW seqs, Len(seqs) \in Nat \ {0}
    PROVE  \E flat : Joined(seqs, Len(seqs), flat) /\ FlattenSeq(seqs) = flat[Len(seqs)]
<1> DEFINE P == {n \in Nat : \E flat : Joined(seqs, n, flat)}
<1>1. 0 \in P
  <2>1. Joined(seqs, 0, [k \in 1 .. 0 |-> seqs[k]])
    BY DEF Joined
  <2> QED
    BY <2>1
<1>2. ASSUME NEW n \in P PROVE n + 1 \in P
  <2>1. PICK flat : Joined(seqs, n, flat)
    OBVIOUS
  <2> DEFINE last == IF n = 0 THEN seqs[1] ELSE flat[n] \o seqs[n + 1]
             more == [k \in 1 .. n + 1 |-> IF k = n + 1 THEN last ELSE flat[k]]
  <2>2. ASSUME NEW k \in 1 .. n + 1
        PROVE  more[k] = IF k = 1 THEN seqs[k] ELSE more[k - 1] \o seqs[k]
    <3>1. CASE k = n + 1
      <4>1. more[k] = last /\ (k # 1 => more[k - 1] = flat[n])
        BY <3>1
      <4> QED
        BY <3>1, <4>1
    <3>2. CASE k \in 1 .. n
      <4>1. more[k] = flat[k] /\ (k # 1 => more[k - 1] = flat[k - 1])
        BY <3>2
      <4> QED
        BY <2>1, <3>2, <4>1 DEF Joined
    <3> QED
      BY <3>1, <3>2
  <2>3. more = [k \in 1 .. n + 1 |-> IF k = 1 THEN seqs[k] ELSE more[k - 1] \o seqs[k]]
    BY <2>2, Zenon
  <2>4. Joined(seqs, n + 1, more)
    BY <2>3, Zenon DEF Joined
  <2> QED
    BY <2>4
<1>3. P = Nat
  BY <1>1, <1>2, Induction, Zenon
<1>4. \E flat : Joined(seqs, Len(seqs), flat)
  BY <1>3
<1>5. Len(seqs) # 0
  OBVIOUS
<1> QED
  BY <1>4, <1>5, Zenon DEF Joined, FlattenSeq

LEMMA JoinStep ==
    ASSUME NEW seqs, NEW n \in Nat, NEW flat, Joined(seqs, n, flat), NEW k \in 1 .. n
    PROVE  flat[k] = IF k = 1 THEN seqs[1] ELSE flat[k - 1] \o seqs[k]
BY DEF Joined

\* A sequence appended to the others comes after all they were joined to.
LEMMA JoinAppended ==
    ASSUME NEW S, NEW seqs \in Seq(Seq(S)), NEW s \in Seq(S)
    PROVE  FlattenSeq(seqs) \in Seq(S) /\ FlattenSeq(Append(seqs, s)) = FlattenSeq(seqs) \o s
<1> DEFINE n == Len(seqs)
           both == Append(seqs, s)
<1>1. /\ n \in Nat /\ Len(both) = n + 1 /\ both[n + 1] = s
      /\ \A k \in 1 .. n : both[k] = seqs[k] /\ seqs[k] \in Seq(S)
  BY AppendProperties, LenProperties, ElementOfSeq
<1> HIDE DEF both
<1>2. PICK g : Joined(both, Len(both), g) /\ FlattenSeq(both) = g[Len(both)]
  BY <1>1, JoinRuns
<1>3. g[n + 1] = IF n + 1 = 1 THEN both[1] ELSE g[(n + 1) - 1] \o both[n + 1]
  BY <1>1, <1>2, JoinStep
<1>4. CASE n = 0
  <2>1. seqs = <<>> /\ <<>> \in Seq(S)
    BY <1>4, EmptySeq
  <2>2. FlattenSeq(seqs) = seqs
    BY <1>4, Zenon DEF FlattenSeq
  <2>3. <<>> \o s = s
    BY ConcatEmptySeq
  <2>4. FlattenSeq(both) = s
    BY <1>1, <1>2, <1>3, <1>4
  <2> QED
    BY <2>1, <2>2, <2>3, <2>4 DEF both
<1>5. CASE n # 0
  <2>1. PICK f : Joined(seqs, n, f) /\ FlattenSeq(seqs) = f[n]
    BY <1>1, <1>5, JoinRuns
  <2> HIDE DEF n
  <2> DEFINE P == {k \in Nat : k + 1 \in 1 .. n => f[k + 1] = g[k + 1] /\ f[k + 1] \in Seq(S)}
  <2>2. 0 \in P
    <3>1. f[1] = seqs[1] /\ g[1] = both[1]
      BY <1>1, <1>2, <1>5, <2>1, JoinStep
    <3> QED
      BY <1>1, <1>5, <3>1
  <2>3. ASSUME NEW k \in P PROVE k + 1 \in P
    <3> SUFFICES ASSUME k + 2 \in 1 .. n
                 PROVE  f[k + 2] = g[k + 2] /\ f[k + 2] \in Seq(S)
      OBVIOUS
    <3>1. k + 1 \in 1 .. n /\ f[k + 1] = g[k + 1] /\ f[k + 1] \in Seq(S)
      BY <1>1
    <3>2. f[k + 2] = f[k + 1] \o seqs[k + 2] /\ g[k + 2] = g[k + 1] \o both[k + 2]
      <4>1. k + 2 \in 1 .. n /\ k + 2 \in 1 .. Len(both) /\ k + 2 # 1 /\ (k + 2) - 1 = k + 1
        BY <1>1
      <4>2. \A j \in 1 .. n : f[j] = IF j = 1 THEN seqs[1] ELSE f[j - 1] \o seqs[j]
        BY <1>1, <2>1, JoinStep
      <4>3. \A j \in 1 .. Len(both) : g[j] = IF j = 1 THEN both[1] ELSE g[j - 1] \o both[j]
        BY <1>1, <1>2, JoinStep
      <4> QED
        BY <4>1, <4>2, <4>3
    <3>3. f[k + 1] \o seqs[k + 2] \in Seq(S)
      BY <1>1, <3>1, ConcatProperties
    <3> QED
      BY <1>1, <3>1, <3>2, <3>3
  <2>4. P = Nat
    BY <2>2, <2>3, Induction, Zenon
  <2>5. f[n] = g[n] /\ f[n] \in Seq(S)
    <3>1. n - 1 \in Nat /\ (n - 1) + 1 = n
      BY <1>1, <1>5
    <3>2. n - 1 \in P
      BY <2>4, <3>1, Zenon
    <3> QED
      BY <1>1, <1>5, <3>1, <3>2
  <2>6. FlattenSeq(both) = g[n] \o s
    <3>1. (n + 1) - 1 = n /\ n + 1 # 1
      BY <1>1, <1>5
    <3> QED
      BY <1>1, <1>2, <1>3, <3>1
  <2> QED
    BY <2>1, <2>5, <2>6 DEF both
<1> QED
  BY <1>4, <1>5

LEMMA SequenceInduction ==
    ASSUME NEW S, NEW P \in SUBSET Seq(S), <<>> \in P,
           \A s \in P : \A x \in S : Append(s, x) \in P
    PROVE  P = Seq(S)
<1> DEFINE Q == {n \in Nat : \A s \in Seq(S) : Len(s) = n => s \in P}
<1>1. 0 \in Q
  BY EmptySeq
<1>2. ASSUME NEW n \in Q PROVE n + 1 \in Q
  <2> SUFFICES ASSUME NEW s \in Seq(S), Len(s) = n + 1 PROVE s \in P
    OBVIOUS
  <2>1. s # <<>>
    BY EmptySeq
  <2>2. PICK r \in Seq(S), x \in S : s = Append(r, x)
    BY <2>1, SequenceEmptyOrAppend
  <2>3. Len(r) = n
    BY <2>2, AppendProperties, LenProperties
  <2> QED
    BY <2>2, <2>3
<1>3. Q = Nat
  BY <1>1, <1>2, Induction, Zenon
<1> QED
  BY <1>3, LenProperties

\* The sequences that f makes of the elements of s, joined.
Gather(f, s) == FlattenSeq([k \in DOMAIN s |-> f[s[k]]])

Makes(f, S, T) == f \in [S -> Seq(T)]

LEMMA GatherNone == ASSUME NEW f PROVE Gather(f, <<>>) = <<>>
<1> DEFINE seqs == [k \in DOMAIN <<>> |-> f[<<>>[k]]]
<1>1. seqs = <<>> /\ Len(seqs) = 0
  OBVIOUS
<1>2. FlattenSeq(seqs) = seqs
  BY <1>1, Zenon DEF FlattenSeq
<1> QED
  BY <1>1, <1>2, Zenon DEF Gather

LEMMA GatherAppended ==
    ASSUME NEW S, NEW T, NEW f, Makes(f, S, T), NEW s \in Seq(S), NEW x \in S
    PROVE  Gather(f, s) \in Seq(T) /\ Gather(f, Append(s, x)) = Gather(f, s) \o f[x]
<1> DEFINE seqs == [k \in DOMAIN s |-> f[s[k]]]
<1>1. Len(s) \in Nat /\ DOMAIN s = 1 .. Len(s) /\ \A k \in 1 .. Len(s) : s[k] \in S
  BY LenProperties, ElementOfSeq
<1>2. seqs \in Seq(Seq(T)) /\ Len(seqs) = Len(s)
  <2>1. seqs \in [1 .. Len(s) -> Seq(T)]
    BY <1>1 DEF Makes
  <2> QED
    BY <1>1, <2>1, SeqDef, LenProperties
<1>3. f[x] \in Seq(T)
  BY DEF Makes
<1>4. Append(seqs, f[x]) = [k \in DOMAIN Append(s, x) |-> f[Append(s, x)[k]]]
  <2>1. DOMAIN Append(s, x) = 1 .. Len(s) + 1 /\ Append(s, x)[Len(s) + 1] = x
        /\ \A k \in 1 .. Len(s) : Append(s, x)[k] = s[k]
    BY <1>1, AppendProperties, LenProperties
  <2>2. DOMAIN Append(seqs, f[x]) = 1 .. Len(s) + 1
        /\ Append(seqs, f[x])[Len(s) + 1] = f[x]
        /\ \A k \in 1 .. Len(s) : Append(seqs, f[x])[k] = seqs[k]
    BY <1>1, <1>2, <1>3, AppendProperties, LenProperties
  <2>3. \A k \in 1 .. Len(s) : seqs[k] = f[s[k]]
    BY <1>1
  <2>4. \A k \in 1 .. Len(s) + 1 : k \in 1 .. Len(s) \/ k = Len(s) + 1
    BY <1>1
  <2>5. \A k \in 1 .. Len(s) + 1 : Append(seqs, f[x])[k] = f[Append(s, x)[k]]
    BY <2>1, <2>2, <2>3, <2>4, Zenon
  <2>6. Append(seqs, f[x]) \in Seq(Seq(T))
    BY <1>2, <1>3, AppendProperties
  <2>7. Append(seqs, f[x]) = [k \in 1 .. Len(s) + 1 |-> Append(seqs, f[x])[k]]
    BY <2>2, <2>6
  <2> QED
    BY <2>1, <2>5, <2>7
<1> HIDE DEF seqs
<1>5. FlattenSeq(seqs) \in Seq(T) /\ FlattenSeq(Append(seqs, f[x])) = FlattenSeq(seqs) \o f[x]
  BY <1>2, <1>3, JoinAppended
<1> QED
  BY <1>4, <1>5, Zenon DEF seqs, Gather

LEMMA GatherType ==
    ASSUME NEW S, NEW T, NEW f, Makes(f, S, T), NEW s \in Seq(S)
    PROVE  Gather(f, s) \in Seq(T)
<1>1. CASE s = <<>>
  BY <1>1, GatherNone, EmptySeq
<1>2. CASE s # <<>>
  <2>1. PICK x \in S : TRUE
    BY <1>2, SequenceEmptyOrAppend
  <2> QED
    BY <2>1, GatherAppended
<1> QED
  BY <1>1, <1>2

LEMMA GatherJoined ==
    ASSUME NEW S, NEW T, NEW f, Makes(f, S, T), NEW a \in Seq(S), NEW b \in Seq(S)
    PROVE  Gather(f, a) \in Seq(T) /\ Gather(f, a \o b) = Gather(f, a) \o Gather(f, b)
<1> DEFINE P == {s \in Seq(S) : Gather(f, a \o s) = Gather(f, a) \o Gather(f, s)}
<1>0. \A s \in Seq(S) : Gather(f, s) \in Seq(T)
  BY GatherType
<1>1. <<>> \in P
  <2>1. a \o <<>> = a /\ Gather(f, a) \o <<>> = Gather(f, a)
    BY <1>0, ConcatEmptySeq
  <2> QED
    BY <2>1, GatherNone, EmptySeq
<1>2. ASSUME NEW s \in P, NEW x \in S PROVE Append(s, x) \in P
  <2>1. s \in Seq(S) /\ a \o s \in Seq(S) /\ Append(s, x) \in Seq(S)
    BY ConcatProperties, AppendProperties
  <2>2. a \o Append(s, x) = Append(a \o s, x)
    <3>1. <<x>> \in Seq(S)
      OBVIOUS
    <3>2. Append(s, x) = s \o <<x>> /\ Append(a \o s, x) = (a \o s) \o <<x>>
      BY <2>1, AppendIsConcat
    <3>3. (a \o s) \o <<x>> = a \o (s \o <<x>>)
      BY <2>1, <3>1, ConcatAssociative
    <3> QED
      BY <3>2, <3>3
  <2>3. Gather(f, Append(a \o s, x)) = Gather(f, a \o s) \o f[x]
        /\ Gather(f, Append(s, x)) = Gather(f, s) \o f[x]
    <3>1. \A r \in Seq(S) : \A y \in S :
             Gather(f, r) \in Seq(T) /\ Gather(f, Append(r, y)) = Gather(f, r) \o f[y]
      BY GatherAppended
    <3>2. x \in S
      BY <1>2
    <3> QED
      BY <2>1, <3>1, <3>2, Zenon
  <2>4. (Gather(f, a) \o Gather(f, s)) \o f[x] = Gather(f, a) \o (Gather(f, s) \o f[x])
    <3>1. Gather(f, a) \in Seq(T) /\ Gather(f, s) \in Seq(T) /\ f[x] \in Seq(T)
      BY <1>0, <2>1 DEF Makes
    <3>2. ASSUME NEW t \in Seq(T), NEW u \in Seq(T), NEW v \in Seq(T)
          PROVE  (t \o u) \o v = t \o (u \o v)
      <4> HIDE DEF P
      <4> QED
        BY <3>2, ConcatAssociative
    <3> QED
      BY <3>1, <3>2, Zenon
  <2> QED
    BY <2>1, <2>2, <2>3, <2>4
<1>3. P = Seq(S)
  BY <1>1, <1>2, SequenceInduction, Zenon
<1> QED
  BY <1>0, <1>3

\* What is gathered from lists that are joined is what is gathered from each.
LEMMA GatherLists ==
    ASSUME NEW S, NEW T, NEW f, Makes(f, S, T)
    PROVE  \A lists \in Seq(Seq(S)) :
              Gather(f, FlattenSeq(lists)) = Gather([s \in Seq(S) |-> Gather(f, s)], lists)
<1>5. ASSUME NEW a \in Seq(S), NEW b \in Seq(S)
      PROVE  Gather(f, a \o b) = Gather(f, a) \o Gather(f, b)
  BY <1>5, GatherJoined
<1> DEFINE g == [s \in Seq(S) |-> Gather(f, s)]
           P == {ss \in Seq(Seq(S)) : Gather(f, FlattenSeq(ss)) = Gather(g, ss)}
<1>1. <<>> \in P
  <2>1. FlattenSeq(<<>>) = <<>>
    BY Zenon, EmptySeq DEF FlattenSeq
  <2> QED
    BY <2>1, GatherNone, EmptySeq
<1>2. Makes(g, Seq(S), T)
  <2>1. \A s \in Seq(S) : Gather(f, s) \in Seq(T)
    BY GatherType
  <2> QED
    BY <2>1 DEF Makes
<1>3. ASSUME NEW ss \in P, NEW s \in Seq(S) PROVE Append(ss, s) \in P
  <2>1. ss \in Seq(Seq(S)) /\ Append(ss, s) \in Seq(Seq(S))
    BY AppendProperties
  <2>2. FlattenSeq(ss) \in Seq(S) /\ FlattenSeq(Append(ss, s)) = FlattenSeq(ss) \o s
    BY <2>1, JoinAppended
  <2>3. Gather(f, FlattenSeq(ss) \o s) = Gather(f, FlattenSeq(ss)) \o Gather(f, s)
    BY <1>5, <2>2
  <2>4. Gather(f, FlattenSeq(ss)) = Gather(g, ss) /\ g[s] = Gather(f, s)
    OBVIOUS
  <2> HIDE DEF g
  <2>5. Gather(g, Append(ss, s)) = Gather(g, ss) \o g[s]
    BY <1>2, <2>1, GatherAppended
  <2> QED
    BY <2>1, <2>2, <2>3, <2>4, <2>5
<1>4. P = Seq(Seq(S))
  BY <1>1, <1>3, SequenceInduction, Zenon
<1> QED
  BY <1>4

-----------------------------------------------------------------------------
(* What a document lists. *)

LegalEntry == {e \in Entry : IsLegal(e.name)}

\* The entries below an entry, and the depth of its node.
MembersBelow == [e \in Entry |-> [i \in DOMAIN e.node.members |-> Below(e, i)]]
EntryDepth == [e \in Entry |-> Depth[e.node]]

LEMMA MemberTypes ==
    ASSUME NEW e \in Entry
    PROVE  /\ e.name \in Name /\ e.node \in Node
           /\ e.node.members \in Seq([key : Name, node : Node])
           /\ Len(e.node.members) \in Nat /\ DOMAIN e.node.members = 1 .. Len(e.node.members)
           /\ Depth[e.node] \in Nat
           /\ \A i \in DOMAIN e.node.members :
                 /\ e.node.members[i].key \in Name /\ e.node.members[i].node \in Node
                 /\ Depth[e.node.members[i].node] < Depth[e.node]
<1>1. e.name \in Name /\ e.node \in Node
  BY DEF Entry
<1>2. e.node.members \in Seq([key : Name, node : Node]) /\ Depth[e.node] \in Nat
      /\ \A i \in DOMAIN e.node.members : Depth[e.node.members[i].node] < Depth[e.node]
  BY <1>1, ConfigAssumption
<1>3. DOMAIN e.node.members = 1 .. Len(e.node.members) /\ Len(e.node.members) \in Nat
  BY <1>2, LenProperties
<1>4. \A i \in DOMAIN e.node.members : e.node.members[i] \in [key : Name, node : Node]
  BY <1>2, <1>3, ElementOfSeq
<1> QED
  BY <1>1, <1>2, <1>3, <1>4

\* Names joined by dots are names.
LEMMA DotInName == <<Dot>> \in Name /\ <<>> \in Name
<1>1. Dot \in Symbol
  BY ConfigAssumption
<1> QED
  BY <1>1 DEF Name

LEMMA DottedName ==
    ASSUME NEW prefix \in Name, NEW key \in Name
    PROVE  Dotted(prefix, key) \in Name
<1>1. prefix \o <<Dot>> \in Name
  BY DotInName, ConcatProperties DEF Name
<1>2. (prefix \o <<Dot>>) \o key \in Name
  BY <1>1, ConcatProperties DEF Name
<1> QED
  BY <1>2 DEF Dotted

LEMMA BelowTypes ==
    ASSUME NEW e \in Entry, NEW i \in DOMAIN e.node.members
    PROVE  /\ Below(e, i) \in Entry
           /\ Below(e, i).name = Dotted(e.name, e.node.members[i].key)
           /\ Below(e, i).node = e.node.members[i].node
<1>1. Dotted(e.name, e.node.members[i].key) \in Name /\ e.node.members[i].node \in Node
  BY MemberTypes, DottedName
<1> QED
  BY <1>1 DEF Below, Entry

\* The nodes of a document are nested to a finite depth.
LEMMA MembersTree == IsTree(Entry, MembersBelow, EntryDepth)
<1>1. ASSUME NEW e \in Entry
      PROVE  /\ MembersBelow[e] \in Seq(Entry)
             /\ \A i \in DOMAIN MembersBelow[e] :
                   EntryDepth[MembersBelow[e][i]] < EntryDepth[e]
  <2>1. Len(e.node.members) \in Nat /\ DOMAIN e.node.members = 1 .. Len(e.node.members)
    BY MemberTypes
  <2>2. MembersBelow[e] = [i \in 1 .. Len(e.node.members) |-> Below(e, i)]
    BY <2>1 DEF MembersBelow
  <2>3. \A i \in 1 .. Len(e.node.members) :
           Below(e, i) \in Entry /\ Depth[Below(e, i).node] < Depth[e.node]
    BY <2>1, MemberTypes, BelowTypes
  <2>4. MembersBelow[e] \in Seq(Entry)
    BY <2>1, <2>2, <2>3, SeqDef
  <2> QED
    BY <2>2, <2>3, <2>4 DEF EntryDepth
<1>2. EntryDepth \in [Entry -> Nat]
  BY MemberTypes DEF EntryDepth
<1>3. MembersBelow \in [Entry -> Seq(Entry)]
  <2>1. \A e \in Entry : MembersBelow[e] \in Seq(Entry)
    BY <1>1
  <2>2. MembersBelow = [e \in Entry |-> MembersBelow[e]]
    BY DEF MembersBelow
  <2> QED
    BY <2>1, <2>2
<1> QED
  BY <1>1, <1>2, <1>3 DEF IsTree

LEMMA JoinType ==
    ASSUME NEW S, NEW seqs \in Seq(Seq(S))
    PROVE  FlattenSeq(seqs) \in Seq(S)
BY JoinAppended, EmptySeq

\* The recursion of ListAllMember.
Lists(list) ==
    list = [entry \in Entry |->
              IF ~IsLegal(entry.name) THEN <<>>
              ELSE <<entry>> \o
                   FlattenSeq([i \in DOMAIN entry.node.members |-> list[Below(entry, i)]])]

LEMMA ListsStep ==
    ASSUME NEW list, Lists(list), NEW e \in Entry
    PROVE  list[e] = IF ~IsLegal(e.name) THEN <<>>
                     ELSE <<e>> \o FlattenSeq([i \in DOMAIN e.node.members |-> list[Below(e, i)]])
BY DEF Lists

LEMMA ListingExists == \E list : Lists(list)
<1> DEFINE R == Seq(LegalEntry)
           rule == [e \in Entry |-> [lists \in Seq(R) |->
                      IF ~IsLegal(e.name) THEN <<>> ELSE <<e>> \o FlattenSeq(lists)]]
<1>1. ASSUME NEW e \in Entry PROVE rule[e] \in [Seq(R) -> R]
  <2>1. ASSUME NEW lists \in Seq(R)
        PROVE  (IF ~IsLegal(e.name) THEN <<>> ELSE <<e>> \o FlattenSeq(lists)) \in R
    <3>1. FlattenSeq(lists) \in R
      BY <2>1, JoinType
    <3>2. CASE ~IsLegal(e.name)
      BY <3>2, EmptySeq
    <3>3. CASE IsLegal(e.name)
      <4>1. <<e>> \in R
        BY <3>3 DEF LegalEntry
      <4>2. <<e>> \o FlattenSeq(lists) \in R
        BY <3>1, <4>1, ConcatProperties
      <4> QED
        BY <3>3, <4>2
    <3> QED
      BY <3>2, <3>3
  <2> HIDE DEF R
  <2> QED
    BY <2>1
<1> HIDE DEF rule
<1>2. PICK f : Solves(f, Entry, R, MembersBelow, rule)
  BY <1>1, MembersTree, TreeRecursion
<1>3. ASSUME NEW e \in Entry
      PROVE  f[e] = IF ~IsLegal(e.name) THEN <<>>
                    ELSE <<e>> \o FlattenSeq([i \in DOMAIN e.node.members |-> f[Below(e, i)]])
  <2>1. ValuesBelow(MembersBelow, f, e) = [i \in DOMAIN e.node.members |-> f[Below(e, i)]]
    <3>1. MembersBelow[e] = [i \in DOMAIN e.node.members |-> Below(e, i)]
      BY DEF MembersBelow
    <3> QED
      BY <3>1 DEF ValuesBelow
  <2>2. ValuesBelow(MembersBelow, f, e) \in Seq(R)
    <3>1. MembersBelow[e] \in Seq(Entry) /\ \A x \in Entry : f[x] \in R
      BY <1>2, MembersTree DEF IsTree, Solves
    <3>2. Len(MembersBelow[e]) \in Nat /\ DOMAIN MembersBelow[e] = 1 .. Len(MembersBelow[e])
          /\ \A i \in 1 .. Len(MembersBelow[e]) : MembersBelow[e][i] \in Entry
      BY <3>1, LenProperties, ElementOfSeq
    <3> HIDE DEF R
    <3>3. ValuesBelow(MembersBelow, f, e) \in [1 .. Len(MembersBelow[e]) -> R]
      BY <3>1, <3>2 DEF ValuesBelow
    <3> QED
      BY <3>2, <3>3, SeqDef
  <2> DEFINE values == ValuesBelow(MembersBelow, f, e)
  <2>3. f[e] = rule[e][values]
    BY <1>2 DEF Solves
  <2>4. rule[e][values] = IF ~IsLegal(e.name) THEN <<>> ELSE <<e>> \o FlattenSeq(values)
    <3> HIDE DEF values, R
    <3> QED
      BY <2>2 DEF rule, values
  <2> QED
    BY <2>1, <2>3, <2>4
<1>4. f = [e \in Entry |-> f[e]]
  BY <1>2 DEF Solves
<1>5. f = [e \in Entry |->
              IF ~IsLegal(e.name) THEN <<>>
              ELSE <<e>> \o FlattenSeq([i \in DOMAIN e.node.members |-> f[Below(e, i)]])]
  BY <1>3, <1>4, Zenon
<1> QED
  BY <1>5, Zenon DEF Lists

LEMMA ListAllMemberLists == Lists(ListAllMember)
BY ListingExists, Zenon DEF Lists, ListAllMember

\* What holds of an entry when it holds of the entries below it holds of all.
LEMMA EntryInduction ==
    ASSUME NEW P \in SUBSET Entry,
           \A e \in Entry : (\A i \in DOMAIN e.node.members : Below(e, i) \in P) => e \in P
    PROVE  P = Entry
<1> SUFFICES ASSUME Entry \ P # {} PROVE FALSE
  OBVIOUS
<1> DEFINE Depths == {EntryDepth[e] : e \in Entry \ P}
<1>1. Depths \in SUBSET Nat /\ Depths # {}
  BY MembersTree DEF IsTree
<1>2. PICK m \in Depths : \A k \in Depths : m <= k
  BY <1>1, LeastNat
<1>3. PICK e \in Entry \ P : EntryDepth[e] = m
  BY <1>2
<1>4. ASSUME NEW i \in DOMAIN e.node.members PROVE Below(e, i) \in P
  <2> SUFFICES ASSUME Below(e, i) \notin P PROVE FALSE
    OBVIOUS
  <2>1. Below(e, i) \in Entry /\ Depth[Below(e, i).node] < Depth[e.node]
    <3>1. Below(e, i) \in Entry /\ Below(e, i).node = e.node.members[i].node
      BY <1>3, <1>4, BelowTypes
    <3>2. Depth[e.node.members[i].node] < Depth[e.node]
      BY <1>3, <1>4, MemberTypes
    <3> QED
      BY <3>1, <3>2
  <2>2. EntryDepth[Below(e, i)] = Depth[Below(e, i).node] /\ EntryDepth[e] = Depth[e.node]
    BY <1>3, <2>1 DEF EntryDepth
  <2>3. EntryDepth[Below(e, i)] \in Depths
    BY <2>1
  <2>4. EntryDepth[e] <= EntryDepth[Below(e, i)]
    BY <1>2, <1>3, <2>3
  <2>5. Depth[Below(e, i).node] \in Nat /\ Depth[e.node] \in Nat
    BY <1>3, <2>1, MemberTypes
  <2> QED
    BY <2>1, <2>2, <2>4, <2>5
<1> QED
  BY <1>3, <1>4

\* All that is listed has a legal name.
LEMMA ListsLegal ==
    ASSUME NEW e \in Entry
    PROVE  ListAllMember[e] \in Seq(LegalEntry)
<1> DEFINE P == {x \in Entry : ListAllMember[x] \in Seq(LegalEntry)}
<1>1. ASSUME NEW x \in Entry, \A i \in DOMAIN x.node.members : Below(x, i) \in P
      PROVE  x \in P
  <2> DEFINE lists == [i \in DOMAIN x.node.members |-> ListAllMember[Below(x, i)]]
  <2>1. lists \in Seq(Seq(LegalEntry))
    <3>1. Len(x.node.members) \in Nat /\ DOMAIN x.node.members = 1 .. Len(x.node.members)
      BY MemberTypes
    <3>2. \A i \in 1 .. Len(x.node.members) : ListAllMember[Below(x, i)] \in Seq(LegalEntry)
      BY <1>1, <3>1
    <3>3. lists \in [1 .. Len(x.node.members) -> Seq(LegalEntry)]
      BY <3>1, <3>2
    <3> QED
      BY <3>1, <3>3, SeqDef
  <2>2. FlattenSeq(lists) \in Seq(LegalEntry)
    BY <2>1, JoinType
  <2>3. ListAllMember[x] = IF ~IsLegal(x.name) THEN <<>> ELSE <<x>> \o FlattenSeq(lists)
    BY ListAllMemberLists, ListsStep
  <2>4. CASE ~IsLegal(x.name)
    BY <2>3, <2>4, EmptySeq
  <2>5. CASE IsLegal(x.name)
    <3>1. <<x>> \in Seq(LegalEntry)
      BY <2>5 DEF LegalEntry
    <3>2. <<x>> \o FlattenSeq(lists) \in Seq(LegalEntry)
      BY <2>2, <3>1, ConcatProperties
    <3> QED
      BY <2>3, <2>5, <3>2
  <2> QED
    BY <2>4, <2>5
<1>2. P = Entry
  <2>1. P \in SUBSET Entry
    OBVIOUS
  <2> HIDE DEF P
  <2> QED
    BY <1>1, <2>1, EntryInduction
<1> QED
  BY <1>2

-----------------------------------------------------------------------------
(* What a name spells is what is listed under it. *)

\* The nodes among entries that have a name, in order.
NodesNamed(name) == [e \in Entry |-> IF e.name = name THEN <<e.node>> ELSE <<>>]

Found(name, entries) == Gather(NodesNamed(name), entries)

LEMMA NodesNamedMakes == ASSUME NEW name PROVE Makes(NodesNamed(name), Entry, Node)
<1>1. \A e \in Entry : <<e.node>> \in Seq(Node) /\ <<>> \in Seq(Node)
  BY MemberTypes, EmptySeq
<1> QED
  BY <1>1 DEF Makes, NodesNamed

\* The recursion of Spelled, with the keys as they are.
SpelledBy(spelled, key, node, name) ==
    IF key = name THEN <<node>>
    ELSE IF IsPrefix(Append(key, Dot), name)
         THEN spelled[[name |-> Rest(name, key), node |-> node]]
         ELSE <<>>

Spells(spelled) ==
    spelled = [e \in Entry |->
                 FlattenSeq([i \in DOMAIN e.node.members |->
                     SpelledBy(spelled, Key(FALSE, e.node.members[i]),
                               e.node.members[i].node, e.name)])]

\* A name that begins with a key and a dot is that key, the dot and the rest.
LEMMA PrefixRest ==
    ASSUME NEW key \in Name, NEW name \in Name
    PROVE  /\ IsPrefix(Append(key, Dot), name) =>
                  Rest(name, key) \in Name /\ name = (key \o <<Dot>>) \o Rest(name, key)
           /\ \A rest \in Name : name = (key \o <<Dot>>) \o rest =>
                  IsPrefix(Append(key, Dot), name) /\ Rest(name, key) = rest
<1> DEFINE head == key \o <<Dot>>
<1>1. /\ head \in Seq(Symbol) /\ Append(key, Dot) = head /\ Len(head) = Len(key) + 1
      /\ key \in Seq(Symbol) /\ name \in Seq(Symbol)
      /\ Len(key) \in Nat /\ Len(name) \in Nat
  <2>1. key \in Seq(Symbol) /\ name \in Seq(Symbol) /\ Dot \in Symbol
    BY ConfigAssumption DEF Name
  <2>2. Append(key, Dot) = head
    BY <2>1, AppendIsConcat
  <2> QED
    BY <2>1, <2>2, AppendProperties, LenProperties
<1> HIDE DEF head
<1>2. ASSUME IsPrefix(head, name)
      PROVE  Rest(name, key) \in Name /\ name = head \o Rest(name, key)
  <2>1. Len(head) <= Len(name) /\ SubSeq(head, 1, Len(head)) = SubSeq(name, 1, Len(head))
    BY <1>2 DEF IsPrefix
  <2>2. SubSeq(head, 1, Len(head)) = head
    BY <1>1, SubSeqFull
  <2>3. SubSeq(name, 1, Len(head)) \o SubSeq(name, Len(head) + 1, Len(name))
          = SubSeq(name, 1, Len(name))
    <3>1. 1 \in 1 .. Len(name) + 1 /\ Len(head) \in 1 - 1 .. Len(name)
          /\ Len(name) \in Len(head) .. Len(name)
      BY <1>1, <2>1
    <3> QED
      BY <1>1, <3>1, ConcatAdjacentSubSeq
  <2>4. SubSeq(name, 1, Len(name)) = name
    BY <1>1, SubSeqFull
  <2>5. Rest(name, key) = SubSeq(name, Len(head) + 1, Len(name))
    <3>1. Len(key) + 2 = Len(head) + 1
      BY <1>1
    <3> QED
      BY <3>1 DEF Rest
  <2>6. SubSeq(name, Len(head) + 1, Len(name)) \in Seq(Symbol)
    <3>1. \A k \in Len(head) + 1 .. Len(name) : name[k] \in Symbol
      BY <1>1, ElementOfSeq
    <3> QED
      BY <1>1, <3>1, SubSeqProperties
  <2> QED
    BY <2>1, <2>2, <2>3, <2>4, <2>5, <2>6 DEF Name
<1>3. ASSUME NEW rest \in Name, name = head \o rest
      PROVE  IsPrefix(head, name) /\ Rest(name, key) = rest
  <2>1. /\ rest \in Seq(Symbol) /\ Len(rest) \in Nat /\ Len(name) = Len(head) + Len(rest)
        /\ \A k \in 1 .. Len(head) + Len(rest) :
              name[k] = IF k <= Len(head) THEN head[k] ELSE rest[k - Len(head)]
    BY <1>1, <1>3, ConcatProperties, LenProperties DEF Name
  <2>2. SubSeq(name, 1, Len(head)) = head
    <3>1. \A k \in 1 .. Len(head) : name[k] \in Symbol
      BY <1>1, <2>1, ElementOfSeq
    <3>2. /\ SubSeq(name, 1, Len(head)) \in Seq(Symbol)
          /\ Len(SubSeq(name, 1, Len(head))) = Len(head)
          /\ \A k \in 1 .. Len(head) : SubSeq(name, 1, Len(head))[k] = name[k]
      BY <1>1, <3>1, SubSeqProperties
    <3>3. \A k \in 1 .. Len(head) : name[k] = head[k]
      BY <1>1, <2>1
    <3> QED
      BY <1>1, <3>2, <3>3, SeqEqual
  <2>3. SubSeq(head, 1, Len(head)) = head
    BY <1>1, SubSeqFull
  <2>4. IsPrefix(head, name)
    BY <1>1, <2>1, <2>2, <2>3 DEF IsPrefix
  <2>5. Rest(name, key) \in Name /\ name = head \o Rest(name, key)
    BY <1>2, <2>4
  <2>6. Rest(name, key) = rest
    BY <1>1, <1>3, <2>1, <2>5, ConcatSimplifications DEF Name
  <2> QED
    BY <2>4, <2>6
<1> QED
  BY <1>1, <1>2, <1>3 DEF head

LEMMA SpellingExists == \E spelled : Spells(spelled)
<1> DEFINE R == Seq(Node)
           key(e, i) == Key(FALSE, e.node.members[i])
           child(e, i) == e.node.members[i].node
           under(e, i) == [name |-> IF IsPrefix(Append(key(e, i), Dot), e.name)
                                    THEN Rest(e.name, key(e, i)) ELSE <<>>,
                           node |-> child(e, i)]
           below == [e \in Entry |-> [i \in DOMAIN e.node.members |-> under(e, i)]]
           part(parts, e, i) == IF key(e, i) = e.name THEN <<child(e, i)>>
                                ELSE IF IsPrefix(Append(key(e, i), Dot), e.name) /\ i \in DOMAIN parts
                                     THEN parts[i] ELSE <<>>
           rule == [e \in Entry |-> [parts \in Seq(R) |->
                      FlattenSeq([i \in DOMAIN e.node.members |-> part(parts, e, i)])]]
<1>1. ASSUME NEW e \in Entry, NEW i \in DOMAIN e.node.members
      PROVE  /\ under(e, i) \in Entry /\ under(e, i).node = child(e, i)
             /\ child(e, i) \in Node /\ key(e, i) \in Name
             /\ IsPrefix(Append(key(e, i), Dot), e.name) =>
                   under(e, i) = [name |-> Rest(e.name, key(e, i)), node |-> child(e, i)]
  <2>1. e.name \in Name /\ key(e, i) \in Name /\ child(e, i) \in Node
    BY MemberTypes DEF Key
  <2>2. IsPrefix(Append(key(e, i), Dot), e.name) => Rest(e.name, key(e, i)) \in Name
    BY <2>1, PrefixRest
  <2> HIDE DEF key, child
  <2>3. under(e, i) \in Entry
    BY <2>1, <2>2, DotInName DEF Entry
  <2> QED
    BY <2>1, <2>3
<1> HIDE DEF under, key, child
<1>2. IsTree(Entry, below, EntryDepth)
  <2>1. ASSUME NEW e \in Entry
        PROVE  /\ below[e] \in Seq(Entry)
               /\ \A i \in DOMAIN below[e] : EntryDepth[below[e][i]] < EntryDepth[e]
    <3>1. Len(e.node.members) \in Nat /\ DOMAIN e.node.members = 1 .. Len(e.node.members)
      BY MemberTypes
    <3>2. below[e] = [i \in 1 .. Len(e.node.members) |-> under(e, i)]
      BY <3>1
    <3>3. \A i \in 1 .. Len(e.node.members) :
             under(e, i) \in Entry /\ Depth[under(e, i).node] < Depth[e.node]
      <4> SUFFICES ASSUME NEW i \in DOMAIN e.node.members
                   PROVE  under(e, i) \in Entry /\ Depth[under(e, i).node] < Depth[e.node]
        BY <3>1
      <4>1. under(e, i) \in Entry /\ under(e, i).node = e.node.members[i].node
        BY <1>1 DEF child
      <4> QED
        BY <4>1, MemberTypes
    <3>4. below[e] \in Seq(Entry)
      BY <3>1, <3>2, <3>3, SeqDef
    <3> QED
      BY <3>2, <3>3, <3>4 DEF EntryDepth
  <2>2. below \in [Entry -> Seq(Entry)]
    <3>1. \A e \in Entry : below[e] \in Seq(Entry)
      BY <2>1
    <3>2. below = [e \in Entry |-> below[e]]
      OBVIOUS
    <3> HIDE DEF below
    <3> QED
      BY <3>1, <3>2
  <2> QED
    BY <2>1, <2>2, MembersTree DEF IsTree
<1>3. ASSUME NEW e \in Entry PROVE rule[e] \in [Seq(R) -> R]
  <2>1. ASSUME NEW parts \in Seq(R)
        PROVE  FlattenSeq([i \in DOMAIN e.node.members |-> part(parts, e, i)]) \in R
    <3>1. Len(e.node.members) \in Nat /\ DOMAIN e.node.members = 1 .. Len(e.node.members)
      BY MemberTypes
    <3>2. \A i \in 1 .. Len(e.node.members) : part(parts, e, i) \in R
      <4> SUFFICES ASSUME NEW i \in DOMAIN e.node.members PROVE part(parts, e, i) \in R
        BY <3>1
      <4>1. <<child(e, i)>> \in R /\ <<>> \in R
        BY <1>1, EmptySeq
      <4>2. i \in DOMAIN parts => parts[i] \in R
        BY <2>1, ElementOfSeq, LenProperties
      <4> QED
        BY <4>1, <4>2
    <3> HIDE DEF part, R
    <3>3. [i \in DOMAIN e.node.members |-> part(parts, e, i)] \in Seq(R)
      BY <3>1, <3>2, SeqDef
    <3> QED
      BY <3>3, JoinType DEF R
  <2> HIDE DEF part, R
  <2> QED
    BY <2>1
<1> HIDE DEF rule, below
<1>4. PICK f : Solves(f, Entry, R, below, rule)
  BY <1>2, <1>3, TreeRecursion
<1>5. ASSUME NEW e \in Entry
      PROVE  f[e] = FlattenSeq([i \in DOMAIN e.node.members |->
                                  SpelledBy(f, key(e, i), child(e, i), e.name)])
  <2> DEFINE values == ValuesBelow(below, f, e)
  <2>1. values = [i \in DOMAIN e.node.members |-> f[under(e, i)]]
    <3>1. below[e] = [i \in DOMAIN e.node.members |-> under(e, i)]
      BY DEF below
    <3> QED
      BY <3>1 DEF ValuesBelow
  <2>2. values \in Seq(R)
    <3>1. Len(e.node.members) \in Nat /\ DOMAIN e.node.members = 1 .. Len(e.node.members)
      BY MemberTypes
    <3>2. \A i \in 1 .. Len(e.node.members) : f[under(e, i)] \in R
      BY <1>1, <1>4, <3>1 DEF Solves
    <3> HIDE DEF R, values
    <3> QED
      BY <2>1, <3>1, <3>2, SeqDef
  <2>3. f[e] = rule[e][values]
    BY <1>4 DEF Solves
  <2> HIDE DEF values
  <2>4. rule[e][values] = FlattenSeq([i \in DOMAIN e.node.members |-> part(values, e, i)])
    <3> HIDE DEF part, R
    <3> QED
      BY <2>2 DEF rule
  <2>5. ASSUME NEW i \in DOMAIN e.node.members
        PROVE  part(values, e, i) = SpelledBy(f, key(e, i), child(e, i), e.name)
    <3>1. i \in DOMAIN values /\ values[i] = f[under(e, i)]
      BY <2>1
    <3>2. CASE key(e, i) = e.name
      BY <3>2 DEF SpelledBy
    <3>3. CASE key(e, i) # e.name /\ IsPrefix(Append(key(e, i), Dot), e.name)
      <4>1. under(e, i) = [name |-> Rest(e.name, key(e, i)), node |-> child(e, i)]
        BY <1>1, <3>3
      <4> QED
        BY <3>1, <3>3, <4>1, Zenon DEF SpelledBy
    <3>4. CASE key(e, i) # e.name /\ ~IsPrefix(Append(key(e, i), Dot), e.name)
      BY <3>4 DEF SpelledBy
    <3> QED
      BY <3>2, <3>3, <3>4
  <2> HIDE DEF part
  <2> QED
    BY <2>3, <2>4, <2>5, Zenon
<1>6. f = [e \in Entry |-> f[e]]
  BY <1>4 DEF Solves
<1>7. f = [e \in Entry |-> FlattenSeq([i \in DOMAIN e.node.members |->
                              SpelledBy(f, key(e, i), child(e, i), e.name)])]
  BY <1>5, <1>6, Zenon
<1> QED
  BY <1>7, Zenon DEF Spells, key, child

LEMMA SpelledSpells ==
    \E spelled : Spells(spelled) /\ \A e \in Entry : Spelled(FALSE, e) = spelled[e]
BY SpellingExists, Zenon DEF Spells, SpelledBy, Spelled

LEMMA SpellsStep ==
    ASSUME NEW spelled, Spells(spelled), NEW e \in Entry
    PROVE  spelled[e] = FlattenSeq([i \in DOMAIN e.node.members |->
                           SpelledBy(spelled, e.node.members[i].key,
                                     e.node.members[i].node, e.name)])
<1>1. \A i \in DOMAIN e.node.members : Key(FALSE, e.node.members[i]) = e.node.members[i].key
  BY DEF Key
<1>2. spelled[e] = FlattenSeq([i \in DOMAIN e.node.members |->
                      SpelledBy(spelled, Key(FALSE, e.node.members[i]),
                                e.node.members[i].node, e.name)])
  BY DEF Spells
<1> QED
  BY <1>1, <1>2, Zenon

LEMMA FoundAppended ==
    ASSUME NEW name, NEW entries \in Seq(Entry), NEW e \in Entry
    PROVE  /\ Found(name, entries) \in Seq(Node)
           /\ Found(name, Append(entries, e))
                = Found(name, entries) \o (IF e.name = name THEN <<e.node>> ELSE <<>>)
<1> DEFINE f == NodesNamed(name)
<1>1. f[e] = IF e.name = name THEN <<e.node>> ELSE <<>>
  BY DEF NodesNamed
<1>2. Makes(f, Entry, Node)
  BY NodesNamedMakes
<1> HIDE DEF f
<1>3. Gather(f, entries) \in Seq(Node) /\ Gather(f, Append(entries, e)) = Gather(f, entries) \o f[e]
  BY <1>2, GatherAppended
<1> QED
  BY <1>1, <1>3, Zenon DEF Found, f

LEMMA FoundOne ==
    ASSUME NEW name, NEW e \in Entry
    PROVE  Found(name, <<e>>) = IF e.name = name THEN <<e.node>> ELSE <<>>
<1> DEFINE own == IF e.name = name THEN <<e.node>> ELSE <<>>
<1>1. <<>> \in Seq(Entry) /\ Append(<<>>, e) = <<e>>
  BY EmptySeq
<1>2. Found(name, <<>>) = <<>>
  BY GatherNone DEF Found
<1>3. <<>> \o own = own
  <2>1. own \in Seq(Node)
    BY MemberTypes, EmptySeq
  <2> HIDE DEF own
  <2> QED
    BY <2>1, ConcatEmptySeq
<1>4. Found(name, Append(<<>>, e)) = Found(name, <<>>) \o own
  BY <1>1, FoundAppended, Zenon
<1> QED
  BY <1>1, <1>2, <1>3, <1>4

\* What is found below an entry is what is found below each of its members.
LEMMA FoundListed ==
    ASSUME NEW name, NEW e \in LegalEntry
    PROVE  Found(name, ListAllMember[e])
              = (IF e.name = name THEN <<e.node>> ELSE <<>>)
                \o FlattenSeq([i \in DOMAIN e.node.members |->
                                 Found(name, ListAllMember[Below(e, i)])])
<1> DEFINE lists == [i \in DOMAIN e.node.members |-> ListAllMember[Below(e, i)]]
           f == NodesNamed(name)
<1>0. e \in Entry /\ IsLegal(e.name)
  BY DEF LegalEntry
<1>1. ListAllMember[e] = <<e>> \o FlattenSeq(lists)
  BY <1>0, ListAllMemberLists, ListsStep
<1>2. lists \in Seq(Seq(Entry)) /\ DOMAIN lists = DOMAIN e.node.members
  <2>1. Len(e.node.members) \in Nat /\ DOMAIN e.node.members = 1 .. Len(e.node.members)
    BY <1>0, MemberTypes
  <2>2. \A i \in 1 .. Len(e.node.members) : ListAllMember[Below(e, i)] \in Seq(Entry)
    <3>1. \A x \in Entry : ListAllMember[x] \in Seq(LegalEntry)
      BY ListsLegal
    <3>2. LegalEntry \subseteq Entry
      BY DEF LegalEntry
    <3>3. \A x \in Entry : ListAllMember[x] \in Seq(Entry)
      BY <3>1, <3>2, SeqMonotonic
    <3>4. \A i \in 1 .. Len(e.node.members) : Below(e, i) \in Entry
      BY <1>0, <2>1, BelowTypes
    <3> QED
      BY <3>3, <3>4
  <2>3. lists \in [1 .. Len(e.node.members) -> Seq(Entry)]
    BY <2>1, <2>2
  <2> QED
    BY <2>1, <2>3, SeqDef
<1>3. Makes(f, Entry, Node)
  BY NodesNamedMakes
<1>4. FlattenSeq(lists) \in Seq(Entry) /\ <<e>> \in Seq(Entry)
  BY <1>0, <1>2, JoinType
<1>5. Gather(f, FlattenSeq(lists)) = Gather([s \in Seq(Entry) |-> Gather(f, s)], lists)
  <2> HIDE DEF f, lists
  <2> QED
    BY <1>2, <1>3, GatherLists
<1>6. Gather([s \in Seq(Entry) |-> Gather(f, s)], lists)
        = FlattenSeq([i \in DOMAIN e.node.members |-> Found(name, ListAllMember[Below(e, i)])])
  <2>1. \A i \in DOMAIN lists :
           [s \in Seq(Entry) |-> Gather(f, s)][lists[i]] = Found(name, ListAllMember[Below(e, i)])
    <3>1. \A i \in DOMAIN lists : lists[i] \in Seq(Entry)
      BY <1>2, ElementOfSeq, LenProperties
    <3>2. \A i \in DOMAIN lists : Gather(f, lists[i]) = Found(name, ListAllMember[Below(e, i)])
      BY Zenon DEF Found
    <3> QED
      BY <3>1, <3>2
  <2>2. [i \in DOMAIN lists |-> [s \in Seq(Entry) |-> Gather(f, s)][lists[i]]]
          = [i \in DOMAIN e.node.members |-> Found(name, ListAllMember[Below(e, i)])]
    BY <1>2, <2>1, Zenon
  <2> HIDE DEF f, lists
  <2> QED
    BY <2>2, Zenon DEF Gather
<1>7. Gather(f, <<e>> \o FlattenSeq(lists)) = Gather(f, <<e>>) \o Gather(f, FlattenSeq(lists))
  <2>1. ASSUME NEW a \in Seq(Entry), NEW b \in Seq(Entry)
        PROVE  Gather(f, a \o b) = Gather(f, a) \o Gather(f, b)
    BY <1>3, <2>1, GatherJoined
  <2> HIDE DEF f, lists
  <2> QED
    BY <1>4, <2>1, Zenon
<1>8. Gather(f, <<e>>) = IF e.name = name THEN <<e.node>> ELSE <<>>
  BY <1>0, FoundOne, Zenon DEF Found
<1>9. Found(name, ListAllMember[e]) = Gather(f, <<e>> \o FlattenSeq(lists))
  BY <1>1, Zenon DEF Found
<1> HIDE DEF f, lists
<1> QED
  BY <1>5, <1>6, <1>7, <1>8, <1>9, Zenon

LEMMA JoinedName == \A a, b \in Name : a \o b \in Name
BY ConcatProperties DEF Name

LEMMA JoinAssociates ==
    ASSUME NEW a \in Name, NEW b \in Name, NEW c \in Name
    PROVE  (a \o b) \o c = a \o (b \o c)
BY ConcatAssociative DEF Name

LEMMA JoinCancels == \A a, b, c \in Name : a \o b = a \o c => b = c
BY ConcatSimplifications DEF Name

LEMMA DotMoves ==
    ASSUME NEW prefix \in Name, NEW key \in Name
    PROVE  \A u \in Name :
              /\ (((prefix \o <<Dot>>) \o key) \o <<Dot>>) \o u
                    = (prefix \o <<Dot>>) \o ((key \o <<Dot>>) \o u)
              /\ (key \o <<Dot>>) \o u \in Name
<1> DEFINE head == prefix \o <<Dot>>
           dot  == <<Dot>>
<1>1. head \in Name /\ dot \in Name
  BY DotInName, JoinedName, Zenon
<1> HIDE DEF head, dot
<1>2. (head \o key) \o dot = head \o (key \o dot) /\ key \o dot \in Name
  <2>1. (head \o key) \o dot = head \o (key \o dot)
    BY <1>1, JoinAssociates
  <2>2. key \o dot \in Name
    BY <1>1, JoinedName, Zenon
  <2> QED
    BY <2>1, <2>2
<1> DEFINE more == key \o dot
<1> HIDE DEF more
<1>3. ASSUME NEW u \in Name
      PROVE  (head \o more) \o u = head \o (more \o u) /\ more \o u \in Name
  <2>1. more \in Name
    BY <1>2 DEF more
  <2>2. (head \o more) \o u = head \o (more \o u)
    BY <1>1, <2>1, JoinAssociates
  <2>3. more \o u \in Name
    BY <2>1, JoinedName, Zenon
  <2> QED
    BY <2>2, <2>3
<1>4. \A u \in Name : ((head \o key) \o dot) \o u = head \o ((key \o dot) \o u)
                      /\ (key \o dot) \o u \in Name
  BY <1>2, <1>3, Zenon DEF more
<1> QED
  BY <1>4, Zenon DEF head, dot

\* A name beginning with a prefix and a dot is spelled below it by its rest.
LEMMA SpelledBelowPrefix ==
    ASSUME NEW spelled, NEW prefix \in Name, NEW key \in Name, NEW name \in Name, NEW node
    PROVE  SpelledBy(spelled, (prefix \o <<Dot>>) \o key, node, name)
              = IF IsPrefix(Append(prefix, Dot), name)
                THEN SpelledBy(spelled, key, node, Rest(name, prefix))
                ELSE <<>>
<1> DEFINE head == prefix \o <<Dot>>
           full == head \o key
           more == key \o <<Dot>>
           dot  == <<Dot>>
<1>1. head \in Name /\ full \in Name /\ more \in Name /\ dot \in Name
  BY DotInName, JoinedName, Zenon
<1>2. \A u \in Name : (full \o dot) \o u = head \o (more \o u) /\ more \o u \in Name
  BY DotMoves
<1>4. \A u \in Name : head \o u = name => IsPrefix(Append(prefix, Dot), name)
  BY PrefixRest
<1>5. IsPrefix(Append(prefix, Dot), name) =>
         Rest(name, prefix) \in Name /\ name = head \o Rest(name, prefix)
  BY PrefixRest
<1>6. \A rest, u \in Name : head \o rest = head \o u => rest = u
  BY <1>1, JoinCancels, Zenon
<1> HIDE DEF head
<1>7. /\ IsPrefix(Append(full, Dot), name) =>
            Rest(name, full) \in Name /\ name = (full \o dot) \o Rest(name, full)
      /\ \A u \in Name : name = (full \o dot) \o u =>
            IsPrefix(Append(full, Dot), name) /\ Rest(name, full) = u
  <2> HIDE DEF full
  <2> QED
    BY <1>1, PrefixRest
<1>8. ASSUME NEW rest \in Name
      PROVE  /\ IsPrefix(Append(key, Dot), rest) =>
                   Rest(rest, key) \in Name /\ rest = more \o Rest(rest, key)
             /\ \A u \in Name : rest = more \o u =>
                   IsPrefix(Append(key, Dot), rest) /\ Rest(rest, key) = u
  BY <1>8, PrefixRest
<1> HIDE DEF more, dot
<1>9. CASE ~IsPrefix(Append(prefix, Dot), name)
  <2>1. full # name
    BY <1>4, <1>9, Zenon
  <2> HIDE DEF full
  <2>2. ~IsPrefix(Append(full, Dot), name)
    <3> SUFFICES ASSUME IsPrefix(Append(full, Dot), name) PROVE FALSE
      OBVIOUS
    <3>1. name = head \o (more \o Rest(name, full)) /\ more \o Rest(name, full) \in Name
      BY <1>2, <1>7, Zenon
    <3> QED
      BY <1>4, <1>9, <3>1, Zenon
  <2>3. SpelledBy(spelled, full, node, name) = <<>>
    BY <2>1, <2>2, Zenon DEF SpelledBy
  <2> QED
    BY <1>9, <2>3, Zenon DEF full, head
<1>10. CASE IsPrefix(Append(prefix, Dot), name)
  <2> DEFINE rest == Rest(name, prefix)
  <2>1. rest \in Name /\ name = head \o rest
    BY <1>5, <1>10
  <2> HIDE DEF rest
  <2>2. full = name <=> key = rest
    BY <1>6, <2>1, Zenon
  <2> HIDE DEF full
  <2>3. ASSUME IsPrefix(Append(key, Dot), rest)
        PROVE  IsPrefix(Append(full, Dot), name) /\ Rest(name, full) = Rest(rest, key)
    <3>1. Rest(rest, key) \in Name /\ rest = more \o Rest(rest, key)
      BY <1>8, <2>1, <2>3
    <3>2. name = (full \o dot) \o Rest(rest, key)
      BY <1>2, <2>1, <3>1, Zenon
    <3> QED
      BY <1>7, <3>1, <3>2, Zenon
  <2>4. ASSUME IsPrefix(Append(full, Dot), name)
        PROVE  IsPrefix(Append(key, Dot), rest)
    <3>1. Rest(name, full) \in Name /\ name = (full \o dot) \o Rest(name, full)
      BY <1>7, <2>4, Zenon
    <3>2. name = head \o (more \o Rest(name, full)) /\ more \o Rest(name, full) \in Name
      BY <1>2, <3>1, Zenon
    <3>3. rest = more \o Rest(name, full)
      BY <1>6, <2>1, <3>2, Zenon
    <3> QED
      BY <1>8, <2>1, <3>1, <3>3, Zenon
  <2>5. SpelledBy(spelled, full, node, name) = SpelledBy(spelled, key, node, rest)
    BY <2>2, <2>3, <2>4, Zenon DEF SpelledBy
  <2> QED
    BY <1>10, <2>5, Zenon DEF full, head, rest
<1> QED
  BY <1>9, <1>10

\* A name that is not legal spells nothing of a legal one.
LEMMA IllegalSpellsNothing ==
    ASSUME NEW spelled, NEW key \in Name, ~IsLegal(key), NEW name \in Name, IsLegal(name), NEW node
    PROVE  SpelledBy(spelled, key, node, name) = <<>>
<1>1. key # name
  OBVIOUS
<1>2. ~IsPrefix(Append(key, Dot), name)
  <2> SUFFICES ASSUME IsPrefix(Append(key, Dot), name) PROVE FALSE
    OBVIOUS
  <2> DEFINE rest == <<Dot>> \o Rest(name, key)
  <2>1. rest \in Name /\ name = key \o rest
    <3>1. Rest(name, key) \in Name /\ name = (key \o <<Dot>>) \o Rest(name, key)
      BY PrefixRest
    <3>2. (key \o <<Dot>>) \o Rest(name, key) = key \o rest /\ rest \in Name
      BY <3>1, DotInName, ConcatAssociative, ConcatProperties DEF Name
    <3> QED
      BY <3>1, <3>2
  <2> HIDE DEF rest
  <2>2. /\ Len(key) \in Nat /\ Len(rest) \in Nat /\ DOMAIN key = 1 .. Len(key)
        /\ DOMAIN name = 1 .. Len(name) /\ Len(name) = Len(key) + Len(rest)
        /\ \A i \in 1 .. Len(key) + Len(rest) :
              name[i] = IF i <= Len(key) THEN key[i] ELSE rest[i - Len(key)]
    BY <2>1, ConcatProperties, LenProperties DEF Name
  <2>3. \A i \in 1 .. Len(key) : i \in DOMAIN name /\ name[i] = key[i]
    BY <2>2
  <2> QED
    BY <2>2, <2>3 DEF IsLegal
<1> QED
  BY <1>1, <1>2 DEF SpelledBy

LEMMA ListingTypes ==
    ASSUME NEW name, NEW e \in Entry
    PROVE  /\ ListAllMember[e] \in Seq(Entry)
           /\ Found(name, ListAllMember[e]) \in Seq(Node)
<1>1. ListAllMember[e] \in Seq(LegalEntry) /\ LegalEntry \subseteq Entry
  BY ListsLegal DEF LegalEntry
<1>2. ListAllMember[e] \in Seq(Entry)
  BY <1>1, SeqMonotonic
<1>3. Makes(NodesNamed(name), Entry, Node)
  BY NodesNamedMakes
<1>4. Gather(NodesNamed(name), ListAllMember[e]) \in Seq(Node)
  BY <1>2, <1>3, GatherType
<1> QED
  BY <1>2, <1>4, Zenon DEF Found

LEMMA FoundBelow ==
    ASSUME NEW name, NEW e \in Entry
    PROVE  FlattenSeq([i \in DOMAIN e.node.members |-> Found(name, ListAllMember[Below(e, i)])])
              \in Seq(Node)
<1> DEFINE parts == [i \in DOMAIN e.node.members |-> Found(name, ListAllMember[Below(e, i)])]
<1>1. Len(e.node.members) \in Nat /\ DOMAIN e.node.members = 1 .. Len(e.node.members)
  BY MemberTypes
<1>2. \A i \in 1 .. Len(e.node.members) : Found(name, ListAllMember[Below(e, i)]) \in Seq(Node)
  BY <1>1, BelowTypes, ListingTypes
<1>3. parts \in [1 .. Len(e.node.members) -> Seq(Node)]
  BY <1>1, <1>2
<1> HIDE DEF parts
<1>4. parts \in Seq(Seq(Node))
  BY <1>1, <1>3, SeqDef
<1>5. FlattenSeq(parts) \in Seq(Node)
  BY <1>4, JoinType
<1> QED
  BY <1>5 DEF parts

LEMMA NothingJoined ==
    ASSUME NEW n \in Nat
    PROVE  FlattenSeq([i \in 1 .. n |-> <<>>]) = <<>>
<1> DEFINE parts == [i \in 1 .. n |-> <<>>]
<1>1. <<>> \in Seq({})
  BY EmptySeq
<1>2. parts \in [1 .. n -> Seq({})]
  BY <1>1
<1> HIDE DEF parts
<1>3. parts \in Seq(Seq({}))
  BY <1>2, SeqDef
<1>4. FlattenSeq(parts) \in Seq({})
  BY <1>3, JoinType
<1>5. \A s \in Seq({}) : s = <<>>
  BY SequenceEmptyOrAppend
<1>6. FlattenSeq(parts) = <<>>
  BY <1>4, <1>5
<1> QED
  BY <1>6 DEF parts

LEMMA DottedLonger ==
    ASSUME NEW prefix \in Name, NEW key \in Name
    PROVE  /\ (prefix \o <<Dot>>) \o key # <<>>
           /\ (prefix \o <<Dot>>) \o key # prefix
<1> DEFINE head == prefix \o <<Dot>>
<1>1. head \in Seq(Symbol) /\ Len(head) = Len(prefix) + 1
      /\ Len(prefix) \in Nat /\ Len(key) \in Nat /\ key \in Seq(Symbol)
  BY DotInName, ConcatProperties, LenProperties DEF Name
<1> HIDE DEF head
<1>2. Len(head \o key) = Len(head) + Len(key)
  BY <1>1, ConcatProperties
<1>3. Len(head \o key) > Len(prefix) /\ Len(head \o key) # 0
  BY <1>1, <1>2
<1>4. head \o key # prefix /\ head \o key # <<>>
  BY <1>1, <1>3
<1> QED
  BY <1>4 DEF head

\* Under an entry with a name, what is listed as t is what t spells from there.
LEMMA ListedAsSpelled ==
    ASSUME NEW spelled, Spells(spelled), NEW t \in Name, IsLegal(t)
    PROVE  \A e \in Entry :
              e.name # <<>> => Found(t, ListAllMember[e]) = SpelledBy(spelled, e.name, e.node, t)
<1> DEFINE P == {e \in Entry : e.name # <<>> =>
                    Found(t, ListAllMember[e]) = SpelledBy(spelled, e.name, e.node, t)}
<1>1. ASSUME NEW e \in Entry, \A i \in DOMAIN e.node.members : Below(e, i) \in P, e.name # <<>>
      PROVE  Found(t, ListAllMember[e]) = SpelledBy(spelled, e.name, e.node, t)
  <2>1. e.name \in Name /\ e.node \in Node
    BY MemberTypes
  <2>2. CASE ~IsLegal(e.name)
    <3>1. ListAllMember[e] = <<>>
      BY <2>2, ListAllMemberLists, ListsStep
    <3>2. SpelledBy(spelled, e.name, e.node, t) = <<>>
      BY <2>1, <2>2, IllegalSpellsNothing
    <3>3. Found(t, <<>>) = <<>>
      BY GatherNone DEF Found
    <3> QED
      BY <3>1, <3>2, <3>3
  <2>3. CASE IsLegal(e.name)
    <3> DEFINE own == IF e.name = t THEN <<e.node>> ELSE <<>>
               part(i) == IF IsPrefix(Append(e.name, Dot), t)
                          THEN SpelledBy(spelled, e.node.members[i].key,
                                         e.node.members[i].node, Rest(t, e.name))
                          ELSE <<>>
               below == [i \in DOMAIN e.node.members |-> Found(t, ListAllMember[Below(e, i)])]
    <3>1. Found(t, ListAllMember[e]) = own \o FlattenSeq(below)
      <4>1. e \in LegalEntry
        BY <2>3 DEF LegalEntry
      <4> QED
        BY <4>1, FoundListed
    <3>2. \A i \in DOMAIN e.node.members : Found(t, ListAllMember[Below(e, i)]) = part(i)
      <4> TAKE i \in DOMAIN e.node.members
      <4> DEFINE key == e.node.members[i].key
                 child == e.node.members[i].node
                 full == (e.name \o <<Dot>>) \o key
      <4>1. key \in Name
        BY MemberTypes
      <4>2. Below(e, i).name = full /\ Below(e, i).node = child
        BY <1>1, BelowTypes DEF Dotted
      <4> HIDE DEF key, child
      <4>3. full # <<>>
        BY <2>1, <4>1, DottedLonger
      <4>4. SpelledBy(spelled, full, child, t) = part(i)
        BY <2>1, <4>1, SpelledBelowPrefix DEF key, child
      <4> HIDE DEF full, part
      <4>5. Found(t, ListAllMember[Below(e, i)])
              = SpelledBy(spelled, Below(e, i).name, Below(e, i).node, t)
        BY <1>1, <4>2, <4>3
      <4> QED
        BY <4>2, <4>4, <4>5
    <3>3. FlattenSeq(below) \in Seq(Node) /\ own \in Seq(Node)
      <4>1. FlattenSeq(below) \in Seq(Node)
        BY FoundBelow
      <4>2. own \in Seq(Node)
        BY <2>1, EmptySeq
      <4> QED
        BY <4>1, <4>2
    <3>4. \A s \in Seq(Node) : s \o <<>> = s /\ <<>> \o s = s
      BY ConcatEmptySeq
    <3>5. below = [i \in DOMAIN e.node.members |-> part(i)]
      <4> HIDE DEF part
      <4> QED
        BY <3>2, Zenon
    <3> HIDE DEF below
    <3>6. CASE IsPrefix(Append(e.name, Dot), t)
      <4> DEFINE rest == Rest(t, e.name)
                 x == [name |-> rest, node |-> e.node]
      <4>1. rest \in Name /\ t = (e.name \o <<Dot>>) \o rest
        BY <2>1, <3>6, PrefixRest
      <4>2. e.name # t
        BY <2>1, <4>1, DottedLonger
      <4>3. x \in Entry /\ x.node = e.node /\ x.name = rest
        BY <2>1, <4>1 DEF Entry
      <4>4. SpelledBy(spelled, e.name, e.node, t) = spelled[x]
        BY <3>6, <4>2 DEF SpelledBy
      <4> HIDE DEF x, rest
      <4>5. spelled[x] = FlattenSeq([i \in DOMAIN e.node.members |->
                            SpelledBy(spelled, e.node.members[i].key,
                                      e.node.members[i].node, rest)])
        <5>1. spelled[x] = FlattenSeq([i \in DOMAIN x.node.members |->
                            SpelledBy(spelled, x.node.members[i].key,
                                      x.node.members[i].node, x.name)])
          BY <4>3, SpellsStep
        <5> QED
          BY <4>3, <5>1, Zenon
      <4>6. below = [i \in DOMAIN e.node.members |->
                       SpelledBy(spelled, e.node.members[i].key,
                                 e.node.members[i].node, rest)]
        <5>1. \A i \in DOMAIN e.node.members :
                 part(i) = SpelledBy(spelled, e.node.members[i].key,
                                     e.node.members[i].node, rest)
          BY <3>6 DEF rest
        <5> HIDE DEF part
        <5> QED
          BY <3>5, <5>1, Zenon
      <4>7. own = <<>>
        BY <4>2
      <4>8. FlattenSeq(below) = spelled[x]
        BY <4>5, <4>6, Zenon
      <4> HIDE DEF own
      <4> QED
        BY <3>1, <3>3, <3>4, <4>4, <4>7, <4>8, Zenon
    <3>7. CASE ~IsPrefix(Append(e.name, Dot), t)
      <4>1. Len(e.node.members) \in Nat /\ DOMAIN e.node.members = 1 .. Len(e.node.members)
        BY MemberTypes
      <4>2. below = [i \in 1 .. Len(e.node.members) |-> <<>>]
        <5>1. \A i \in DOMAIN e.node.members : part(i) = <<>>
          BY <3>7
        <5> HIDE DEF part
        <5> QED
          BY <3>5, <4>1, <5>1, Zenon
      <4>3. FlattenSeq(below) = <<>>
        BY <4>1, <4>2, NothingJoined
      <4>4. SpelledBy(spelled, e.name, e.node, t) = own
        BY <3>7, Zenon DEF SpelledBy
      <4> HIDE DEF own
      <4> QED
        BY <3>1, <3>3, <3>4, <4>3, <4>4, Zenon
    <3> QED
      BY <3>6, <3>7
  <2> QED
    BY <2>2, <2>3
<1>2. P = Entry
  <2>1. P \in SUBSET Entry
    OBVIOUS
  <2>2. \A e \in Entry : (\A i \in DOMAIN e.node.members : Below(e, i) \in P) => e \in P
    BY <1>1
  <2> HIDE DEF P
  <2> QED
    BY <2>1, <2>2, EntryInduction
<1> QED
  BY <1>2

\* What a document lists under a name is what the name spells.
LEMMA AllNodesAsSpelled ==
    ASSUME NEW root \in Node, \A i \in DOMAIN root.members : root.members[i].key # <<>>,
           NEW t \in Name, IsLegal(t), t # <<>>
    PROVE  Found(t, AllNodes(root)) = Spelled(FALSE, [name |-> t, node |-> root])
<1> DEFINE e == [name |-> <<>>, node |-> root]
           x == [name |-> t, node |-> root]
<1>1. e \in Entry /\ e.name = <<>> /\ e.node = root /\ IsLegal(e.name)
  BY DotInName DEF Entry, IsLegal
<1>2. x \in Entry /\ x.name = t /\ x.node = root
  BY DEF Entry
<1>3. PICK spelled : Spells(spelled) /\ \A y \in Entry : Spelled(FALSE, y) = spelled[y]
  BY SpelledSpells
<1>4. AllNodes(root) = ListAllMember[e]
  BY DEF AllNodes
<1> HIDE DEF e, x
<1>5. Spelled(FALSE, x) = FlattenSeq([i \in DOMAIN root.members |->
                             SpelledBy(spelled, root.members[i].key, root.members[i].node, t)])
  <2>1. spelled[x] = FlattenSeq([i \in DOMAIN x.node.members |->
                       SpelledBy(spelled, x.node.members[i].key, x.node.members[i].node, x.name)])
    BY <1>2, <1>3, SpellsStep
  <2>2. Spelled(FALSE, x) = spelled[x]
    BY <1>2, <1>3
  <2> QED
    BY <1>2, <2>1, <2>2, Zenon
<1>6. \A i \in DOMAIN root.members :
         Found(t, ListAllMember[Below(e, i)])
           = SpelledBy(spelled, root.members[i].key, root.members[i].node, t)
  <2> TAKE i \in DOMAIN root.members
  <2>1. Below(e, i) \in Entry /\ Below(e, i).name = Dotted(<<>>, root.members[i].key)
        /\ Below(e, i).node = root.members[i].node
    BY <1>1, BelowTypes, Zenon
  <2>2. Below(e, i).name = root.members[i].key
    BY <2>1 DEF Dotted
  <2>3. Found(t, ListAllMember[Below(e, i)])
          = SpelledBy(spelled, Below(e, i).name, Below(e, i).node, t)
    BY <1>3, <2>1, <2>2, ListedAsSpelled
  <2> QED
    BY <2>1, <2>2, <2>3
<1>7. Found(t, ListAllMember[e])
        = (IF e.name = t THEN <<e.node>> ELSE <<>>)
          \o FlattenSeq([i \in DOMAIN e.node.members |-> Found(t, ListAllMember[Below(e, i)])])
  <2>1. e \in LegalEntry
    BY <1>1 DEF LegalEntry
  <2> QED
    BY <2>1, FoundListed, Zenon
<1> DEFINE below == [i \in DOMAIN e.node.members |-> Found(t, ListAllMember[Below(e, i)])]
<1>8. Found(t, ListAllMember[e]) = <<>> \o FlattenSeq(below)
  BY <1>1, <1>7
<1>9. FlattenSeq(below) \in Seq(Node)
  BY <1>1, FoundBelow
<1>10. below = [i \in DOMAIN root.members |->
                  SpelledBy(spelled, root.members[i].key, root.members[i].node, t)]
  BY <1>1, <1>6, Zenon
<1> HIDE DEF below
<1>11. \A s \in Seq(Node) : <<>> \o s = s
  BY ConcatEmptySeq
<1>12. Found(t, AllNodes(root)) = Spelled(FALSE, x)
  BY <1>4, <1>5, <1>8, <1>9, <1>10, <1>11, Zenon
<1> QED
  BY <1>12 DEF x

-----------------------------------------------------------------------------
(* The loop of LoadFromYaml: what each variable is after the nodes read so far. *)

LEMMA MaxOf ==
    ASSUME NEW n \in Nat, NEW S \in SUBSET (1 .. n), S # {}
    PROVE  Max(S) \in S /\ \A k \in S : Max(S) >= k
<1> DEFINE Under == {n - k : k \in S}
<1>1. Under \in SUBSET Nat /\ Under # {}
  <2>1. \A k \in S : n - k \in Nat
    OBVIOUS
  <2>2. Under \in SUBSET Nat
    BY <2>1
  <2>3. PICK k \in S : TRUE
    OBVIOUS
  <2>4. n - k \in Under
    OBVIOUS
  <2> QED
    BY <2>2, <2>4
<1>2. PICK m \in Under : \A k \in Under : m <= k
  BY <1>1, LeastNat
<1>3. PICK x \in S : m = n - x
  BY <1>2
<1>4. \A k \in S : x >= k
  <2> TAKE k \in S
  <2>1. n - k \in Under
    OBVIOUS
  <2>2. m <= n - k
    BY <1>2, <2>1
  <2> QED
    BY <1>3, <2>2
<1> QED
  BY <1>3, <1>4, Zenon DEF Max

\* The last node that converts counts.
LEMMA LastReadAppended ==
    ASSUME NEW object, NEW nodes \in Seq(Node), NEW x \in Node
    PROVE  LastRead(object, Append(nodes, x))
              = IF Cast(object.type, x) = Fails THEN LastRead(object, nodes)
                                                ELSE Cast(object.type, x)
<1> DEFINE n == Len(nodes)
           more == Append(nodes, x)
           conv(node) == Cast(object.type, node)
           read == {k \in DOMAIN nodes : conv(nodes[k]) # Fails}
           reads == {k \in DOMAIN more : conv(more[k]) # Fails}
<1>1. /\ n \in Nat /\ DOMAIN nodes = 1 .. n /\ DOMAIN more = 1 .. n + 1 /\ more[n + 1] = x
      /\ \A k \in 1 .. n : more[k] = nodes[k]
  BY AppendProperties, LenProperties
<1>2. LastRead(object, nodes) = IF read = {} THEN object.m_val ELSE conv(nodes[Max(read)])
  BY Zenon DEF LastRead
<1>3. LastRead(object, more) = IF reads = {} THEN object.m_val ELSE conv(more[Max(reads)])
  BY Zenon DEF LastRead
<1> HIDE DEF more, n
<1>4. CASE conv(x) = Fails
  <2> HIDE DEF conv
  <2>1. reads = read
    BY <1>1, <1>4
  <2>2. read # {} => Max(read) \in 1 .. n
    <3>1. read \in SUBSET (1 .. n)
      BY <1>1
    <3> HIDE DEF read
    <3> QED
      BY <1>1, <3>1, MaxOf
  <2>3. read # {} => more[Max(reads)] = nodes[Max(read)]
    BY <1>1, <2>1, <2>2
  <2> HIDE DEF read, reads
  <2>4. LastRead(object, more) = LastRead(object, nodes)
    <3>1. CASE read = {}
      BY <1>2, <1>3, <2>1, <3>1
    <3>2. CASE read # {}
      BY <1>2, <1>3, <2>1, <2>3, <3>2
    <3> QED
      BY <3>1, <3>2
  <2> QED
    BY <1>4, <2>4 DEF more, conv
<1>5. CASE conv(x) # Fails
  <2> HIDE DEF conv
  <2>1. n + 1 \in reads /\ reads \in SUBSET (1 .. n + 1) /\ n + 1 \in Nat
    BY <1>1, <1>5
  <2> HIDE DEF reads
  <2>2. Max(reads) \in reads /\ \A k \in reads : Max(reads) >= k
    BY <2>1, MaxOf
  <2>3. Max(reads) >= n + 1 /\ Max(reads) \in 1 .. n + 1
    BY <2>1, <2>2
  <2>4. Max(reads) = n + 1
    BY <1>1, <2>3
  <2>5. LastRead(object, more) = conv(x)
    <3>1. reads # {}
      BY <2>1
    <3> QED
      BY <1>1, <1>3, <2>4, <3>1
  <2> QED
    BY <1>5, <2>5 DEF more, conv
<1> QED
  BY <1>4, <1>5

LEMMA LastReadNone == ASSUME NEW object PROVE LastRead(object, <<>>) = object.m_val
<1> DEFINE read == {k \in DOMAIN <<>> : Cast(object.type, <<>>[k]) # Fails}
<1>1. read = {}
  OBVIOUS
<1> QED
  BY <1>1, Zenon DEF LastRead

\* The variables that were there when the load began are what the entries done made
\* of them, or are about to be; but for those with a change that threw.
ReadSoFar(done) ==
    \A i \in DOMAIN before \ stopped :
        before[i].m_name # <<>> =>
            LET value == LastRead(before[i], Found(before[i].m_name, done))
            IN  /\ (\A c \in change : c.object # i) => objects[i].m_val = value
                /\ \A c \in change : c.object = i => c.value = value

Rests(done) ==
    /\ done \in Seq(LegalEntry) /\ todo \in Seq(LegalEntry)
    /\ done \o todo = AllNodes(loaded)
    /\ ReadSoFar(done)

Named == \A name \in DOMAIN s_datas : objects[s_datas[name]].m_name = name

Kept ==
    /\ before \in Seq(Object)
    /\ Len(before) <= Len(objects)
    /\ \A i \in DOMAIN before : /\ objects[i].m_name = before[i].m_name
                                /\ objects[i].type = before[i].type

Loading ==
    IF loaded = Nothing THEN todo = <<>> /\ change = {} ELSE loaded \in Document /\ Kept /\ \E done : Rests(done)

LoadInv == Inv /\ Named /\ Loading

LEMMA InitLoadInv == Init => LoadInv
<1> SUFFICES ASSUME Init PROVE LoadInv
  OBVIOUS
<1>1. Inv
  BY InitInv
<1>2. DOMAIN s_datas = {}
  BY DEF Init
<1> QED
  BY <1>1, <1>2 DEF Init, LoadInv, Named, Loading

LEMMA LookupLoadInv ==
    ASSUME LoadInv, NEW r \in Request, Lookup(r.m_name, r.type, r.m_val)
    PROVE  LoadInv'
<1>1. /\ Inv' /\ Len(objects') >= Len(objects)
      /\ \A i \in DOMAIN objects : objects'[i] = objects[i]
  BY LookupStep DEF LoadInv
<1>2. objects \in Seq(Object) /\ Len(objects) \in Nat /\ DOMAIN objects = 1 .. Len(objects)
  BY LenProperties DEF LoadInv, Inv, TypeOK, Object
<1>3. UNCHANGED <<todo, loaded, before>>
  BY DEF Lookup
<1>4. Named'
  <2>1. CASE UNCHANGED <<objects, s_datas>>
    BY <2>1 DEF LoadInv, Named
  <2>2. CASE IsLegal(r.m_name) /\ Registered(r.m_name, r.type, r.m_val)
    <3> DEFINE object == [m_name |-> r.m_name, type |-> r.type, m_val |-> r.m_val]
    <3>1. r \in Object /\ r.m_name \in Name
      BY ConfigAssumption DEF Object, ObjectOf
    <3>2. objects' = Append(objects, object)
      BY <2>2, <3>1, LegalIsLower DEF Registered
    <3>3. object \in Object
      BY <3>1 DEF Object, ObjectOf
    <3>4. objects'[Len(objects) + 1] = object
      <4> HIDE DEF object
      <4> QED
        BY <1>2, <3>2, <3>3, AppendProperties
    <3>5. s_datas' = [n \in DOMAIN s_datas \cup {r.m_name} |->
                         IF n = r.m_name THEN Len(objects) + 1 ELSE s_datas[n]]
      BY <2>2 DEF Registered
    <3>6. \A n \in DOMAIN s_datas :
             s_datas[n] \in DOMAIN objects /\ objects[s_datas[n]].m_name = n
      BY DEF LoadInv, Inv, TypeOK, Named
    <3> QED
      BY <1>1, <3>4, <3>5, <3>6 DEF Named
  <2> QED
    BY <2>1, <2>2 DEF Lookup, Throws
<1>7. \/ UNCHANGED <<change, stopped>>
      \/ change' = {} /\ stopped' = stopped \cup {c.object : c \in change}
  <2>1. UNCHANGED <<change, stopped>> \/ Throws
    BY DEF Lookup, Registered
  <2> QED
    BY <2>1, Zenon DEF Throws
<1>5. CASE loaded = Nothing
  <2>1. todo = <<>> /\ change = {}
    BY <1>5 DEF LoadInv, Loading
  <2>2. change' = {}
    BY <1>7, <2>1
  <2>3. Loading'
    BY <1>3, <1>5, <2>1, <2>2 DEF Loading
  <2> QED
    BY <1>1, <1>4, <2>3 DEF LoadInv
<1>6. CASE loaded # Nothing
  <2>1. Kept /\ loaded \in Document /\ \E done : Rests(done)
    BY <1>6 DEF LoadInv, Loading
  <2>2. DOMAIN before = 1 .. Len(before) /\ Len(before) \in Nat /\ Len(objects') \in Nat
    BY <1>1, <2>1, LenProperties DEF Kept, Inv, TypeOK
  <2>3. \A i \in DOMAIN before : i \in DOMAIN objects /\ objects'[i] = objects[i]
    BY <1>1, <1>2, <2>1, <2>2 DEF Kept
  <2>4. Kept'
    BY <1>1, <1>2, <1>3, <2>1, <2>2, <2>3 DEF Kept
  <2>5. PICK done : Rests(done)
    BY <2>1
  <2>7. ReadSoFar(done)
    BY <2>5 DEF Rests
  <2>8. ReadSoFar(done)'
    <3>1. CASE UNCHANGED <<change, stopped>>
      BY <1>3, <2>3, <2>7, <3>1 DEF ReadSoFar
    <3>2. CASE change' = {} /\ stopped' = stopped \cup {c.object : c \in change}
      <4>1. \A i \in DOMAIN before \ stopped' :
               i \notin stopped /\ \A c \in change : c.object # i
        BY <3>2
      <4> QED
        BY <1>3, <2>3, <2>7, <3>2, <4>1 DEF ReadSoFar
    <3> QED
      BY <1>7, <3>1, <3>2
  <2>6. Rests(done)'
    BY <1>3, <2>5, <2>8 DEF Rests
  <2> QED
    BY <1>1, <1>3, <1>4, <1>6, <2>1, <2>4, <2>6 DEF LoadInv, Loading
<1> QED
  BY <1>5, <1>6

LEMMA BeginLoadInv ==
    ASSUME LoadInv, NEW root \in Document, LoadFromYaml(root)
    PROVE  LoadInv'
<1>1. Inv'
  BY LoadStep DEF LoadInv
<1>2. /\ todo' = AllNodes(root) /\ loaded' = root /\ before' = objects
      /\ UNCHANGED <<objects, s_datas>> /\ change' = {}
  BY DEF LoadFromYaml
<1>3. root \in Node /\ root # Nothing
  BY ConfigAssumption
<1>4. objects \in Seq(Object) /\ Len(objects) \in Nat
  BY LenProperties DEF LoadInv, Inv, TypeOK, Object
<1>5. Named'
  BY <1>2 DEF LoadInv, Named
<1>6. Kept'
  BY <1>2, <1>4 DEF Kept
<1>7. AllNodes(root) \in Seq(LegalEntry) /\ <<>> \in Seq(LegalEntry)
  <2>1. [name |-> <<>>, node |-> root] \in Entry
    BY <1>3, DotInName DEF Entry
  <2> QED
    BY <2>1, ListsLegal, EmptySeq DEF AllNodes
<1>8. <<>> \o AllNodes(root) = AllNodes(root)
  BY <1>7, ConcatEmptySeq
<1>9. ReadSoFar(<<>>)'
  <2>1. \A i \in DOMAIN objects : LastRead(objects[i], Found(objects[i].m_name, <<>>)) = objects[i].m_val
    <3>1. \A t : Found(t, <<>>) = <<>>
      BY GatherNone DEF Found
    <3> QED
      BY <3>1, LastReadNone
  <2> QED
    BY <1>2, <2>1 DEF ReadSoFar
<1>10. Rests(<<>>)'
  BY <1>2, <1>7, <1>8, <1>9 DEF Rests
<1> QED
  BY <1>1, <1>2, <1>3, <1>5, <1>6, <1>10 DEF LoadInv, Loading

\* What reading one more entry does to one variable.
LEMMA EntryRead ==
    ASSUME LoadInv, LoadEntry, loaded # Nothing, NEW done, Rests(done),
           NEW i \in DOMAIN before \ stopped, before[i].m_name # <<>>
    PROVE  LET read == LastRead(before[i], Found(before[i].m_name, Append(done, Head(todo))))
           IN  /\ (\A c \in change' : c.object # i) => objects[i].m_val = read
               /\ \A c \in change' : c.object = i => c.value = read
<1> DEFINE entry == Head(todo)
           t == before[i].m_name
           value == Cast(before[i].type, entry.node)
           read == LastRead(before[i], Found(t, Append(done, entry)))
<1>1. entry \in Entry /\ IsLegal(entry.name) /\ ToLower(entry.name) = entry.name
      /\ done \in Seq(Entry) /\ entry.node \in Node
  <2>1. todo \in Seq(LegalEntry) /\ todo # <<>>
    BY DEF Rests, LoadEntry
  <2>2. entry \in LegalEntry
    BY <2>1, HeadTailProperties
  <2>3. LegalEntry \subseteq Entry /\ done \in Seq(LegalEntry)
    BY DEF LegalEntry, Rests
  <2>4. done \in Seq(Entry)
    BY <2>3, SeqMonotonic
  <2> HIDE DEF entry
  <2> QED
    BY <2>2, <2>4, LegalIsLower, MemberTypes DEF LegalEntry
<1>2. /\ i \in DOMAIN objects /\ objects[i].m_name = t /\ objects[i].type = before[i].type
      /\ t \in DOMAIN s_datas /\ s_datas[t] = i
  <2>1. /\ Kept /\ objects \in Seq(Object) /\ HandlesStayLive
    BY DEF LoadInv, Loading, Inv, TypeOK, Object
  <2>2. /\ DOMAIN before = 1 .. Len(before) /\ Len(before) \in Nat
        /\ DOMAIN objects = 1 .. Len(objects) /\ Len(objects) \in Nat
    BY <2>1, LenProperties DEF Kept
  <2>3. i \in DOMAIN objects
    BY <2>1, <2>2 DEF Kept
  <2> QED
    BY <2>1, <2>3 DEF Kept, HandlesStayLive
<1>3. objects[i].m_val = LastRead(before[i], Found(t, done))
  <2>1. change = {} /\ ReadSoFar(done)
    BY DEF Rests, LoadEntry
  <2> QED
    BY <2>1 DEF ReadSoFar
<1>4. Found(t, done) \in Seq(Node)
      /\ Found(t, Append(done, entry))
            = Found(t, done) \o (IF entry.name = t THEN <<entry.node>> ELSE <<>>)
  <2> HIDE DEF entry, t
  <2> QED
    BY <1>1, FoundAppended
<1> HIDE DEF entry, t, read
<1>5. CASE entry.name = t
  <2>1. Found(t, Append(done, entry)) = Append(Found(t, done), entry.node)
    <3>1. Found(t, Append(done, entry)) = Found(t, done) \o <<entry.node>>
      BY <1>4, <1>5
    <3> QED
      BY <1>1, <1>4, <3>1, AppendIsConcat
  <2>2. read = IF value = Fails THEN LastRead(before[i], Found(t, done)) ELSE value
    BY <1>1, <1>4, <2>1, LastReadAppended DEF read
  <2>3. Assign(i, value)
    <3>1. entry.name # <<>> /\ entry.name \in DOMAIN s_datas /\ s_datas[entry.name] = i
      BY <1>2, <1>5 DEF t
    <3> QED
      BY <1>1, <1>2, <3>1 DEF LoadEntry, entry
  <2> HIDE DEF value
  <2>4. CASE value \in {Fails, objects[i].m_val}
    <3>1. change' = {}
      BY <2>3, <2>4 DEF Assign
    <3>2. objects[i].m_val = read
      BY <1>3, <2>2, <2>4
    <3> QED
      BY <3>1, <3>2 DEF read, entry, t
  <2>5. CASE value \notin {Fails, objects[i].m_val}
    <3>1. change' = {[object |-> i, value |-> value]}
      BY <2>3, <2>5 DEF Assign
    <3>2. read = value
      BY <2>2, <2>5
    <3>3. \E c \in change' : c.object = i
      BY <3>1
    <3>4. \A c \in change' : c.value = read
      BY <3>1, <3>2
    <3> QED
      BY <3>3, <3>4 DEF read, entry, t
  <2> QED
    BY <2>4, <2>5
<1>6. CASE entry.name # t
  <2>1. Found(t, Append(done, entry)) = Found(t, done)
    <3>1. Found(t, done) \o <<>> = Found(t, done)
      BY <1>4, ConcatEmptySeq
    <3> QED
      BY <1>4, <1>6, <3>1
  <2>2. \A c \in change' : c.object # i
    <3>1. CASE entry.name # <<>> /\ entry.name \in DOMAIN s_datas
      <4> DEFINE j == s_datas[entry.name]
                 w == Cast(objects[j].type, entry.node)
      <4>1. objects[j].m_name = entry.name /\ j # i
        BY <1>2, <1>6, <3>1 DEF LoadInv, Named
      <4>2. Assign(j, w)
        BY <1>1, <3>1 DEF LoadEntry, entry
      <4> HIDE DEF j, w
      <4>3. change' = {} \/ change' = {[object |-> j, value |-> w]}
        BY <4>2 DEF Assign
      <4> QED
        BY <4>1, <4>3
    <3>2. CASE ~(entry.name # <<>> /\ entry.name \in DOMAIN s_datas)
      <4>1. change' = {}
        BY <1>1, <3>2 DEF LoadEntry, entry
      <4> QED
        BY <4>1
    <3> QED
      BY <3>1, <3>2
  <2>3. objects[i].m_val = read
    BY <1>3, <2>1 DEF read
  <2> QED
    BY <2>2, <2>3 DEF read, entry, t
<1> QED
  BY <1>5, <1>6

LEMMA EntryLoadInv ==
    ASSUME LoadInv, LoadEntry
    PROVE  LoadInv'
<1>1. Inv' /\ UNCHANGED <<objects, s_datas>>
  BY EntryStep DEF LoadInv
<1>2. todo # <<>> /\ todo' = Tail(todo) /\ UNCHANGED <<loaded, before, stopped>>
  BY DEF LoadEntry
<1>4. Named'
  BY <1>1 DEF LoadInv, Named
<1>5. loaded # Nothing /\ loaded \in Document /\ Kept /\ \E done : Rests(done)
  BY <1>2 DEF LoadInv, Loading
<1>6. Kept'
  BY <1>1, <1>2, <1>5 DEF Kept
<1>7. PICK done : Rests(done)
  BY <1>5
<1>8. todo = <<Head(todo)>> \o Tail(todo) /\ Head(todo) \in LegalEntry
      /\ Tail(todo) \in Seq(LegalEntry) /\ done \in Seq(LegalEntry)
      /\ Append(done, Head(todo)) \in Seq(LegalEntry)
  <2>1. todo \in Seq(LegalEntry) /\ done \in Seq(LegalEntry)
    BY <1>7 DEF Rests
  <2>2. Head(todo) \in LegalEntry /\ Tail(todo) \in Seq(LegalEntry)
    BY <1>2, <2>1, HeadTailProperties
  <2>3. todo = <<Head(todo)>> \o Tail(todo)
    BY <1>2, <2>1
  <2> QED
    BY <2>1, <2>2, <2>3, AppendProperties
<1>9. Append(done, Head(todo)) \o Tail(todo) = done \o todo
  <2> DEFINE one == <<Head(todo)>>
  <2>1. one \in Seq(LegalEntry)
    BY <1>8
  <2>2. Append(done, Head(todo)) = done \o one
    BY <1>8, AppendIsConcat
  <2> HIDE DEF one
  <2>3. (done \o one) \o Tail(todo) = done \o (one \o Tail(todo))
    <3>1. \A a, b, c \in Seq(LegalEntry) : (a \o b) \o c = a \o (b \o c)
      BY ConcatAssociative
    <3> QED
      BY <1>8, <2>1, <3>1, Zenon
  <2>4. one \o Tail(todo) = todo
    BY <1>8, Zenon DEF one
  <2> QED
    BY <2>2, <2>3, <2>4, Zenon
<1>10. PICK more : more = Append(done, Head(todo))
  OBVIOUS
<1>11. Rests(more)'
  <2>1. ASSUME NEW i \in DOMAIN before \ stopped, before[i].m_name # <<>>
        PROVE  LET read == LastRead(before[i], Found(before[i].m_name, more))
               IN  /\ (\A c \in change' : c.object # i) => objects[i].m_val = read
                   /\ \A c \in change' : c.object = i => c.value = read
    BY <1>5, <1>7, <1>10, <2>1, EntryRead
  <2>2. ReadSoFar(more)'
    BY <1>1, <1>2, <2>1 DEF ReadSoFar
  <2>3. more \in Seq(LegalEntry) /\ Tail(todo) \in Seq(LegalEntry)
        /\ more \o Tail(todo) = AllNodes(loaded)
    BY <1>7, <1>8, <1>9, <1>10 DEF Rests
  <2> QED
    BY <1>2, <2>2, <2>3 DEF Rests
<1>12. \E d : Rests(d)'
  BY <1>11
<1> QED
  BY <1>1, <1>2, <1>4, <1>5, <1>6, <1>12 DEF LoadInv, Loading

\* The value that is stored is the one that was about to be.
LEMMA StoreLoadInv ==
    ASSUME LoadInv, Store
    PROVE  LoadInv'
<1>1. /\ Inv' /\ Len(objects') = Len(objects)
      /\ \A i \in DOMAIN objects : /\ objects'[i].m_name = objects[i].m_name
                                   /\ objects'[i].type = objects[i].type
  BY StoreStep DEF LoadInv
<1>2. PICK c \in change :
         /\ objects'[c.object].m_val = c.value
         /\ \A j \in DOMAIN objects : j # c.object => objects'[j] = objects[j]
  BY StoreStep DEF LoadInv
<1>3. change' = {} /\ UNCHANGED <<s_datas, todo, loaded, before, stopped>>
  BY DEF Store
<1>4. objects \in Seq(Object) /\ Len(objects) \in Nat /\ DOMAIN objects = 1 .. Len(objects)
  BY LenProperties DEF LoadInv, Inv, TypeOK, Object
<1>5. Named'
  <2>1. \A name \in DOMAIN s_datas :
           s_datas[name] \in DOMAIN objects /\ objects[s_datas[name]].m_name = name
    BY DEF LoadInv, Inv, TypeOK, Named
  <2> QED
    BY <1>1, <1>3, <2>1 DEF Named
<1>6. loaded # Nothing /\ loaded \in Document /\ Kept /\ \E done : Rests(done)
  BY <1>2 DEF LoadInv, Loading
<1>7. DOMAIN before = 1 .. Len(before) /\ Len(before) \in Nat
  BY <1>6, LenProperties DEF Kept
<1>8. Kept'
  BY <1>1, <1>3, <1>4, <1>6, <1>7 DEF Kept
<1>9. PICK done : Rests(done)
  BY <1>6
<1>10. ASSUME NEW i \in DOMAIN before \ stopped, before[i].m_name # <<>>
       PROVE  objects'[i].m_val = LastRead(before[i], Found(before[i].m_name, done))
  <2> DEFINE read == LastRead(before[i], Found(before[i].m_name, done))
  <2>1. /\ (\A d \in change : d.object # i) => objects[i].m_val = read
        /\ \A d \in change : d.object = i => d.value = read
    BY <1>9, <1>10 DEF Rests, ReadSoFar
  <2> HIDE DEF read
  <2>2. CASE c.object = i
    BY <1>2, <2>1, <2>2 DEF read
  <2>3. CASE c.object # i
    <3>1. \A d \in change : d = c
      BY <1>2 DEF LoadInv, Inv, TypeOK
    <3>2. i \in DOMAIN objects
      BY <1>4, <1>6, <1>7 DEF Kept
    <3> QED
      BY <1>2, <2>1, <2>3, <3>1, <3>2 DEF read
  <2> QED
    BY <2>2, <2>3
<1>11. ReadSoFar(done)'
  BY <1>3, <1>10 DEF ReadSoFar
<1>12. Rests(done)'
  BY <1>3, <1>9, <1>11 DEF Rests
<1> QED
  BY <1>1, <1>3, <1>5, <1>6, <1>8, <1>12 DEF LoadInv, Loading

LEMMA NextLoadInv == LoadInv /\ [Next]_vars => LoadInv'
<1> SUFFICES ASSUME LoadInv, [Next]_vars PROVE LoadInv'
  OBVIOUS
<1>1. CASE UNCHANGED vars
  <2>1. Inv'
    BY <1>1, NextInv DEF LoadInv
  <2> QED
    BY <1>1, <2>1 DEF vars, LoadInv, Named, Loading, Kept, Rests, ReadSoFar
<1> QED
  BY <1>1, LookupLoadInv, BeginLoadInv, EntryLoadInv, StoreLoadInv DEF Next

LEMMA LoadedAsSpelled == LoadInv => LoadsWhatIsSpelled
<1> SUFFICES ASSUME LoadInv, todo = <<>>, change = {}, loaded # Nothing,
                    \A i \in DOMAIN loaded.members : loaded.members[i].key # <<>>,
                    NEW i \in DOMAIN before \ stopped, before[i].m_name # <<>>
             PROVE  objects[i].m_val =
                       LastRead(before[i],
                                Spelled(FALSE, [name |-> before[i].m_name, node |-> loaded]))
  BY DEF LoadsWhatIsSpelled, EndsAsSpelled
<1> DEFINE t == before[i].m_name
<1>1. PICK done : Rests(done)
  BY DEF LoadInv, Loading
<1>2. done = AllNodes(loaded)
  <2>1. done \o <<>> = done
    BY <1>1, ConcatEmptySeq DEF Rests
  <2> QED
    BY <1>1, <2>1 DEF Rests
<1>3. t \in Name /\ IsLegal(t)
  <2>1. Kept /\ before \in Seq(Object) /\ objects \in Seq(Object)
    BY DEF LoadInv, Loading, Kept, Inv, TypeOK, Object
  <2>2. DOMAIN before = 1 .. Len(before) /\ DOMAIN objects = 1 .. Len(objects)
        /\ Len(before) \in Nat /\ Len(objects) \in Nat
    BY <2>1, LenProperties
  <2>3. i \in DOMAIN objects /\ objects[i].m_name = t
    BY <2>1, <2>2 DEF Kept
  <2>4. t \in DOMAIN s_datas
    BY <2>3 DEF LoadInv, Inv, HandlesStayLive
  <2> QED
    BY <2>4 DEF LoadInv, Inv, TypeOK, LegalNames
<1>4. loaded \in Node
  BY ConfigAssumption DEF LoadInv, Loading
<1> HIDE DEF t
<1>5. Found(t, AllNodes(loaded)) = Spelled(FALSE, [name |-> t, node |-> loaded])
  BY <1>3, <1>4, AllNodesAsSpelled DEF t
<1>6. objects[i].m_val = LastRead(before[i], Found(t, done))
  BY <1>1 DEF Rests, ReadSoFar, t
<1> QED
  BY <1>2, <1>5, <1>6 DEF t

\* After a load each variable none of whose own listeners threw has the value of the
\* last node its name spells, through nested maps or dotted keys, that converts,
\* whatever the document and whatever the program and the listeners look up.
THEOREM LoadsCorrect == Spec => []LoadsWhatIsSpelled
<1>1. Spec => []LoadInv
  BY InitLoadInv, NextLoadInv, PTL DEF Spec
<1> QED
  BY <1>1, LoadedAsSpelled, PTL

=============================================================================
