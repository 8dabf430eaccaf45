------------------------- MODULE LogFormatter_proofs --------------------------
(***************************************************************************)
(* Proofs about LogFormatter for every set of patterns: the types, what is *)
(* built from the entries, what isError() says about the pattern, and that *)
(* the entries spell out the part of it that was scanned.                  *)
(***************************************************************************)
EXTENDS LogFormatter, SequenceTheorems, WellFoundedInduction, TLAPS

\* The pattern is a sequence of symbols.
LEMMA PatternIsSeq ==
    ASSUME TypeOK
    PROVE  /\ m_pattern \in Seq(Symbol) /\ Len(m_pattern) \in Nat
           /\ \A k \in 1 .. Len(m_pattern) : m_pattern[k] \in Symbol
BY PatternAssumption, ElementOfSeq, LenProperties DEF TypeOK

\* A part of the pattern is a sequence of symbols, with as many as its bounds say.
LEMMA PartOfPattern ==
    ASSUME TypeOK, NEW a \in Int, NEW b \in Int, 1 <= a, a <= b + 1, b <= Len(m_pattern)
    PROVE  /\ SubSeq(m_pattern, a, b) \in Seq(Symbol)
           /\ Len(SubSeq(m_pattern, a, b)) = b - a + 1
           /\ \A k \in 1 .. b - a + 1 : SubSeq(m_pattern, a, b)[k] = m_pattern[a + k - 1]
<1>1. m_pattern \in Seq(Symbol) BY PatternIsSeq
<1>2. \A k \in a .. b : m_pattern[k] \in Symbol
  BY PatternIsSeq
<1>3. CASE a = b + 1
  BY <1>1, <1>3, SubSeqProperties, PatternIsSeq
<1>4. CASE a <= b
  BY <1>1, <1>4, SubSeqProperties, PatternIsSeq
<1> QED BY <1>3, <1>4

\* Entries made of sequences of symbols are entries.
LEMMA EntryTypes ==
    ASSUME NEW str \in Seq(Symbol), NEW fmt \in Seq(Symbol)
    PROVE  Text(str) \in Entry /\ Named(str, fmt) \in Entry /\ PatternError \in Entry
<1>1. <<>> \in Seq(Symbol) BY EmptySeq
<1>2. Seq(Symbol) \subseteq Seq(Symbol \cup {"<<pattern_error>>"})
  BY SeqDef
<1>3. <<"<<pattern_error>>">> \in Seq(Symbol \cup {"<<pattern_error>>"})
  OBVIOUS
<1> QED BY <1>1, <1>2, <1>3 DEF Text, Named, PatternError, Entry

\* Pushing an entry, after the pending text, keeps vec a sequence of entries.
LEMMA FlushedType ==
    ASSUME TypeOK, NEW e \in Entry
    PROVE  /\ Flushed(e) \in Seq(Entry)
           /\ nstr = <<>> => Flushed(e) = Append(vec, e)
           /\ nstr # <<>> => Flushed(e) = Append(Append(vec, Text(nstr)), e)
<1>1. Text(nstr) \in Entry BY EntryTypes, EmptySeq DEF TypeOK
<1> QED BY <1>1, AppendProperties DEF Flushed, TypeOK

\* Every step keeps the types.
LEMMA TypeStep ==
    ASSUME TypeOK, [Next]_vars
    PROVE  TypeOK'
<1>0. m_pattern \in Seq(Symbol) /\ Len(m_pattern) \in Nat BY PatternIsSeq
<1>1. CASE AppendText
  BY <1>0, <1>1, AppendProperties, ElementOfSeq DEF AppendText, Scanning, TypeOK
<1>2. CASE AppendPercent
  <2>1. "%" \in Symbol BY DEF Symbol
  <2> QED BY <1>0, <1>2, <2>1, AppendProperties DEF AppendPercent, Scanning, TypeOK
<1>3. CASE PushItem
  <2>1. PICK e \in i + 1 .. Len(m_pattern) + 1 :
           \/ vec' = Flushed(Named(SubSeq(m_pattern, i + 1, e - 1), <<>>)) /\ i' = e
           \/ \E c \in e + 1 .. Len(m_pattern) :
                 /\ vec' = Flushed(Named(SubSeq(m_pattern, i + 1, e - 1),
                                         SubSeq(m_pattern, e + 1, c - 1)))
                 /\ i' = c + 1
    BY <1>3 DEF PushItem
  <2>2. i \in 1 .. Len(m_pattern) BY <1>3 DEF PushItem, Scanning, TypeOK
  <2>3. SubSeq(m_pattern, i + 1, e - 1) \in Seq(Symbol)
    BY <1>0, <2>2, PartOfPattern
  <2>4. vec' \in Seq(Entry) /\ i' \in 1 .. Len(m_pattern) + 1
    <3>1. CASE vec' = Flushed(Named(SubSeq(m_pattern, i + 1, e - 1), <<>>)) /\ i' = e
      <4>1. Named(SubSeq(m_pattern, i + 1, e - 1), <<>>) \in Entry
        BY <2>3, EntryTypes, EmptySeq
      <4> QED BY <1>0, <3>1, <4>1, <2>2, FlushedType
    <3>2. ASSUME NEW c \in e + 1 .. Len(m_pattern),
                 vec' = Flushed(Named(SubSeq(m_pattern, i + 1, e - 1),
                                      SubSeq(m_pattern, e + 1, c - 1))),
                 i' = c + 1
          PROVE  vec' \in Seq(Entry) /\ i' \in 1 .. Len(m_pattern) + 1
      <4>1. SubSeq(m_pattern, e + 1, c - 1) \in Seq(Symbol)
        BY <1>0, <2>2, PartOfPattern
      <4>2. Named(SubSeq(m_pattern, i + 1, e - 1), SubSeq(m_pattern, e + 1, c - 1)) \in Entry
        BY <2>3, <4>1, EntryTypes
      <4> QED BY <1>0, <3>2, <4>2, <2>2, FlushedType
    <3> QED BY <2>1, <3>1, <3>2
  <2> QED BY <1>3, <2>4, EmptySeq DEF PushItem, Scanning, TypeOK
<1>4. CASE PushPatternError
  BY <1>0, <1>4, EntryTypes, EmptySeq, AppendProperties
     DEF PushPatternError, Scanning, TypeOK
<1>5. CASE EndScan
  <2>1. Text(nstr) \in Entry BY EntryTypes, EmptySeq DEF TypeOK
  <2> QED BY <1>0, <1>5, <2>1, EmptySeq, AppendProperties DEF EndScan, TypeOK
<1>6. CASE Build BY <1>6 DEF Build, TypeOK
<1>7. CASE EndBuild BY <1>7 DEF EndBuild, TypeOK
<1>8. CASE UNCHANGED vars BY <1>8 DEF vars, TypeOK
<1> QED BY <1>1, <1>2, <1>3, <1>4, <1>5, <1>6, <1>7, <1>8 DEF Next

\* The values of the variables have their types, whatever the patterns.
THEOREM TypeCorrect == Spec => []TypeOK
<1>1. Init => TypeOK
  <2> SUFFICES ASSUME Init PROVE TypeOK OBVIOUS
  <2>1. m_pattern \in Seq(Symbol) BY PatternAssumption DEF Init
  <2>2. Len(m_pattern) \in Nat BY <2>1, LenProperties
  <2>3. <<>> \in Seq(Symbol) /\ <<>> \in Seq(Entry) BY EmptySeq
  <2>4. i \in 1 .. Len(m_pattern) + 1 BY <2>2 DEF Init
  <2> QED BY <2>3, <2>4 DEF Init, TypeOK
<1>2. TypeOK /\ [Next]_vars => TypeOK' BY TypeStep
<1> QED BY <1>1, <1>2, PTL DEF Spec

-----------------------------------------------------------------------------
\* The items, for the proofs; a wrong entry is one of an item nobody knows.
ItemSet == {BuildItem(e) : e \in Entry}
Wrong(e) == e.type = 1 /\ ~Known(e.str)

\* BuiltInOrder needs the type of m_items, and that nothing is built before the
\* scan has ended.
BuildInv ==
    /\ m_items \in Seq(ItemSet)
    /\ pc = "scan" => m_items = <<>>
    /\ BuiltInOrder

\* What Append does to the positions of a sequence of entries.
LEMMA AppendedEntry ==
    ASSUME NEW S, NEW s \in Seq(S), NEW e \in S
    PROVE  /\ Append(s, e) \in Seq(S)
           /\ Len(s) \in Nat
           /\ Len(Append(s, e)) = Len(s) + 1
           /\ Append(s, e)[Len(s) + 1] = e
           /\ \A k \in 1 .. Len(s) : Append(s, e)[k] = s[k]
BY AppendProperties, LenProperties

LEMMA BuildCorrect == Spec => []BuildInv
<1>1. Init => BuildInv
  <2>1. <<>> \in Seq(ItemSet) /\ Len(<<>>) = 0 BY EmptySeq
  <2> QED BY <2>1 DEF Init, BuildInv, BuiltInOrder
<1>2. TypeOK /\ BuildInv /\ [Next]_vars => BuildInv'
  <2> SUFFICES ASSUME TypeOK, BuildInv, [Next]_vars PROVE BuildInv' OBVIOUS
  <2>0. Len(vec) \in Nat /\ Len(m_items) \in Nat
    BY LenProperties DEF TypeOK, BuildInv
  <2>1. ASSUME pc = "scan", m_items' = m_items, m_error' = m_error, pc' # "ready",
               Len(vec') \in Nat
        PROVE  BuildInv'
    <3>1. Len(m_items) = 0 /\ Len(m_items') = 0 BY <2>1, EmptySeq DEF BuildInv
    <3> QED BY <2>1, <3>1 DEF BuildInv, BuiltInOrder
  <2>2. Len(vec') \in Nat
    <3>1. TypeOK' BY TypeStep
    <3> QED BY <3>1, LenProperties DEF TypeOK
  <2>3. CASE AppendText \/ AppendPercent \/ PushItem \/ PushPatternError \/ EndScan
    BY <2>1, <2>2, <2>3
       DEF AppendText, AppendPercent, PushItem, PushPatternError, EndScan, Scanning
  <2>4. CASE Build
    <3> DEFINE e == vec[Len(m_items) + 1]
    <3>1. e \in Entry BY <2>0, <2>4, ElementOfSeq DEF Build, TypeOK
    <3>2. BuildItem(e) \in ItemSet BY <3>1 DEF ItemSet
    <3>3. m_items' = Append(m_items, BuildItem(e)) /\ vec' = vec /\ pc' = pc
          /\ (m_error' <=> m_error \/ Wrong(e)) /\ pc = "build"
      BY <2>4 DEF Build, Wrong
    <3> HIDE DEF e
    <3>4. m_items' \in Seq(ItemSet) /\ Len(m_items') = Len(m_items) + 1
          /\ m_items'[Len(m_items) + 1] = BuildItem(e)
          /\ \A k \in 1 .. Len(m_items) : m_items'[k] = m_items[k]
      BY <3>2, <3>3, AppendedEntry DEF BuildInv
    <3>5. Len(m_items) < Len(vec) BY <2>4 DEF Build
    <3>6. m_error <=> \E k \in 1 .. Len(m_items) : Wrong(vec[k])
      BY DEF BuildInv, BuiltInOrder, Wrong
    <3>7. \A k \in 1 .. Len(m_items) + 1 : k \in 1 .. Len(m_items) \/ k = Len(m_items) + 1
      BY <2>0
    <3>8. m_error' <=> \E k \in 1 .. Len(m_items') : Wrong(vec'[k])
      BY <2>0, <3>3, <3>4, <3>6, <3>7 DEF e
    <3>9. \A k \in 1 .. Len(m_items') : m_items'[k] = BuildItem(vec'[k])
      BY <2>0, <3>3, <3>4, <3>7 DEF e, BuildInv, BuiltInOrder
    <3> QED BY <2>0, <3>3, <3>4, <3>5, <3>8, <3>9 DEF BuildInv, BuiltInOrder, Wrong
  <2>5. CASE EndBuild BY <2>0, <2>5 DEF EndBuild, BuildInv, BuiltInOrder
  <2>6. CASE UNCHANGED vars BY <2>6 DEF vars, BuildInv, BuiltInOrder
  <2> QED BY <2>3, <2>4, <2>5, <2>6 DEF Next
<1> QED BY <1>1, <1>2, TypeCorrect, PTL DEF Spec

\* init builds an item for every entry, in order, and m_error tells whether one of
\* them is unknown (the loop over vec).
THEOREM BuiltInOrderCorrect == Spec => []BuiltInOrder
<1>1. BuildInv => BuiltInOrder BY DEF BuildInv
<1> QED BY <1>1, BuildCorrect, PTL

-----------------------------------------------------------------------------
\* The length of vec after an entry and the pending text were pushed.
LEMMA FlushedLength ==
    ASSUME TypeOK, NEW e \in Entry
    PROVE  Len(Flushed(e)) = Len(vec) + 1 + (IF nstr = <<>> THEN 0 ELSE 1)
<1>1. vec \in Seq(Entry) /\ Text(nstr) \in Entry BY EntryTypes, EmptySeq DEF TypeOK
<1>2. CASE nstr = <<>>
  BY <1>1, <1>2, AppendedEntry, FlushedType
<1>3. CASE nstr # <<>>
  <2>1. Append(vec, Text(nstr)) \in Seq(Entry) /\ Len(vec) \in Nat
        /\ Len(Append(vec, Text(nstr))) = Len(vec) + 1
    BY <1>1, AppendedEntry
  <2>2. Len(Append(Append(vec, Text(nstr)), e)) = Len(vec) + 1 + 1
    BY <2>1, AppendedEntry
  <2> QED BY <1>3, <2>1, <2>2, FlushedType
<1> QED BY <1>2, <1>3

\* An item is longer than nothing: the scan goes on behind its "%".
LEMMA ItemAdvances ==
    ASSUME TypeOK, PushItem
    PROVE  /\ i' \in i + 1 .. Len(m_pattern) + 1
           /\ Len(vec') = Len(vec) + 1 + (IF nstr = <<>> THEN 0 ELSE 1)
<1>1. i \in 1 .. Len(m_pattern) /\ Len(m_pattern) \in Nat
  BY PatternIsSeq DEF PushItem, Scanning, TypeOK
<1>2. PICK e \in i + 1 .. Len(m_pattern) + 1 :
         \/ vec' = Flushed(Named(SubSeq(m_pattern, i + 1, e - 1), <<>>)) /\ i' = e
         \/ \E c \in e + 1 .. Len(m_pattern) :
               /\ vec' = Flushed(Named(SubSeq(m_pattern, i + 1, e - 1),
                                       SubSeq(m_pattern, e + 1, c - 1)))
               /\ i' = c + 1
  BY DEF PushItem
<1>3. SubSeq(m_pattern, i + 1, e - 1) \in Seq(Symbol) BY <1>1, PartOfPattern
<1>4. CASE vec' = Flushed(Named(SubSeq(m_pattern, i + 1, e - 1), <<>>)) /\ i' = e
  <2>1. Named(SubSeq(m_pattern, i + 1, e - 1), <<>>) \in Entry
    BY <1>3, EntryTypes, EmptySeq
  <2> QED BY <1>1, <1>4, <2>1, FlushedLength
<1>5. ASSUME NEW c \in e + 1 .. Len(m_pattern),
             vec' = Flushed(Named(SubSeq(m_pattern, i + 1, e - 1),
                                  SubSeq(m_pattern, e + 1, c - 1))),
             i' = c + 1
      PROVE  /\ i' \in i + 1 .. Len(m_pattern) + 1
             /\ Len(vec') = Len(vec) + 1 + (IF nstr = <<>> THEN 0 ELSE 1)
  <2>1. SubSeq(m_pattern, e + 1, c - 1) \in Seq(Symbol) BY <1>1, PartOfPattern
  <2>2. Named(SubSeq(m_pattern, i + 1, e - 1), SubSeq(m_pattern, e + 1, c - 1)) \in Entry
    BY <1>3, <2>1, EntryTypes
  <2> QED BY <1>1, <1>5, <2>2, FlushedLength
<1> QED BY <1>2, <1>4, <1>5

\* Each turn leaves fewer to come, so that the constructor of a pattern of n symbols
\* returns after at most 2n + 2 of them, for every pattern (the loops of init).
THEOREM EachTurnAdvancesCorrect == Spec => EachTurnAdvances
<1>1. TypeOK /\ TypeOK' /\ BuildInv /\ [Next]_vars => [TurnsLeft' \in 0 .. TurnsLeft - 1]_vars
  <2> SUFFICES ASSUME TypeOK, TypeOK', BuildInv, Next
               PROVE  TurnsLeft' \in 0 .. TurnsLeft - 1
    OBVIOUS
  <2> DEFINE Pending == IF nstr = <<>> THEN 0 ELSE 1
             Ends == CASE pc = "scan" -> 2 [] pc = "build" -> 1 [] OTHER -> 0
             Left == 2 * (Len(m_pattern) + 1 - i) + Pending + (Len(vec) - Len(m_items)) + Ends
  <2>0. TurnsLeft = Left /\ TurnsLeft' = Left' BY DEF TurnsLeft
  <2>1. /\ Len(m_pattern) \in Nat /\ i \in 1 .. Len(m_pattern) + 1
        /\ Len(vec) \in Nat /\ Len(vec') \in Nat
        /\ Len(m_items) \in Nat /\ Len(m_items) <= Len(vec)
        /\ pc = "scan" => Len(m_items) = 0
    BY PatternIsSeq, LenProperties, EmptySeq DEF TypeOK, BuildInv, BuiltInOrder
  <2>2. Pending \in {0, 1} /\ Pending' \in {0, 1} OBVIOUS
  <2>3. ASSUME Scanning, m_pattern' = m_pattern, m_items' = m_items, pc' = pc,
               i' \in i + 1 .. Len(m_pattern) + 1,
               Len(vec') + Pending' <= Len(vec) + Pending + 1
        PROVE  Left' \in 0 .. Left - 1
    <3>1. Ends = 2 /\ Ends' = 2 BY <2>3 DEF Scanning
    <3>2. Len(m_items) = 0 /\ Len(m_items') = 0 BY <2>1, <2>3 DEF Scanning
    <3> HIDE DEF Pending, Ends
    <3>3. \A gap, rest, p, q, v, w \in Int :
             /\ p \in {0, 1} /\ q \in {0, 1} /\ v >= 0 /\ w >= 0
             /\ 0 <= rest /\ rest < gap /\ w + q <= v + p + 1
             => 2 * rest + q + (w - 0) + 2 \in 0 .. (2 * gap + p + (v - 0) + 2) - 1
      OBVIOUS
    <3>4. /\ Len(m_pattern) + 1 - i \in Int /\ Len(m_pattern') + 1 - i' \in Int
          /\ 0 <= Len(m_pattern') + 1 - i'
          /\ Len(m_pattern') + 1 - i' < Len(m_pattern) + 1 - i
      <4>1. Len(m_pattern') = Len(m_pattern) BY <2>3
      <4> QED BY <2>1, <2>3, <4>1
    <3>5. Pending \in Int /\ Pending' \in Int /\ Len(vec) \in Int /\ Len(vec') \in Int
          /\ Len(vec) >= 0 /\ Len(vec') >= 0
      BY <2>1, <2>2
    <3> QED BY <2>2, <2>3, <3>1, <3>2, <3>3, <3>4, <3>5
  <2>4. CASE AppendText \/ AppendPercent
    <3>1. Len(vec') + Pending' <= Len(vec) + Pending + 1
      BY <2>1, <2>2, <2>4 DEF AppendText, AppendPercent
    <3> HIDE DEF Pending, Left
    <3> QED BY <2>0, <2>1, <2>3, <2>4, <3>1 DEF AppendText, AppendPercent, Scanning
  <2>5. CASE PushItem
    <3>1. i' \in i + 1 .. Len(m_pattern) + 1 /\ Len(vec') = Len(vec) + 1 + Pending
      BY <2>5, ItemAdvances
    <3>2. Pending' = 0 BY <2>5 DEF PushItem
    <3> HIDE DEF Pending, Left
    <3> QED BY <2>0, <2>1, <2>2, <2>3, <2>5, <3>1, <3>2 DEF PushItem
  <2>6. CASE PushPatternError
    <3>1. PatternError \in Entry BY EntryTypes, EmptySeq
    <3>2. Len(vec') = Len(vec) + 1
      BY <2>6, <3>1, AppendedEntry DEF PushPatternError, TypeOK
    <3>3. Pending' = Pending BY <2>6 DEF PushPatternError
    <3> HIDE DEF Pending, Left
    <3> QED BY <2>0, <2>1, <2>2, <2>3, <2>6, <3>2, <3>3 DEF PushPatternError, Scanning
  <2>7. CASE EndScan
    <3>1. Text(nstr) \in Entry BY EntryTypes, EmptySeq DEF TypeOK
    <3>2. Len(vec') = Len(vec) + Pending BY <2>1, <2>7, <3>1, AppendedEntry DEF EndScan, TypeOK
    <3>3. Pending' = 0 /\ Ends = 2 /\ Ends' = 1 BY <2>7 DEF EndScan
    <3>4. UNCHANGED <<m_pattern, i, m_items>> BY <2>7 DEF EndScan
    <3> HIDE DEF Pending, Ends
    <3>5. Left' \in 0 .. Left - 1 BY <2>1, <2>2, <3>2, <3>3, <3>4
    <3> QED BY <2>0, <3>5
  <2>8. CASE Build
    <3>1. Len(m_items') = Len(m_items) + 1
      <4> DEFINE e == vec[Len(m_items) + 1]
      <4>1. e \in Entry BY <2>1, <2>8, ElementOfSeq DEF Build, TypeOK
      <4>2. BuildItem(e) \in ItemSet BY <4>1 DEF ItemSet
      <4>3. m_items' = Append(m_items, BuildItem(e)) BY <2>8 DEF Build
      <4> HIDE DEF e
      <4> QED BY <4>2, <4>3, AppendedEntry DEF BuildInv
    <3>2. /\ UNCHANGED <<m_pattern, i, vec>> /\ Pending' = Pending
          /\ Ends = 1 /\ Ends' = 1 /\ Len(m_items) < Len(vec)
      BY <2>8 DEF Build
    <3> HIDE DEF Pending, Ends
    <3>3. Left' \in 0 .. Left - 1 BY <2>1, <2>2, <3>1, <3>2
    <3> QED BY <2>0, <3>3
  <2>9. CASE EndBuild
    <3>1. /\ UNCHANGED <<m_pattern, i, vec, m_items>> /\ Pending' = Pending
          /\ Ends = 1 /\ Ends' = 0
      BY <2>9 DEF EndBuild
    <3> HIDE DEF Pending, Ends
    <3>2. Left' \in 0 .. Left - 1 BY <2>1, <2>2, <3>1
    <3> QED BY <2>0, <3>2
  <2> QED BY <2>4, <2>5, <2>6, <2>7, <2>8, <2>9 DEF Next
<1> QED BY <1>1, TypeCorrect, BuildCorrect, PTL DEF Spec, EachTurnAdvances

-----------------------------------------------------------------------------
\* Every set of naturals has a least element.
LEMMA LeastNat ==
    ASSUME NEW S \in SUBSET Nat, S # {}
    PROVE  \E m \in S : \A k \in S : m <= k
<1> DEFINE R == OpToRel(<, Nat)
<1>1. IsWellFoundedOn(R, Nat)
  BY NatLessThanWellFounded
<1>2. \A m, k \in Nat : k < m => <<k, m>> \in R
  BY DEF OpToRel
<1> HIDE DEF R
<1>3. PICK m \in S : \A k \in S : ~(<<k, m>> \in R)
  BY <1>1, WFMin
<1>4. \A k \in S : ~(k < m)
  BY <1>2, <1>3
<1> QED
  BY <1>4

\* The verdict on the pattern, for the part already scanned, and where the scan stands
\* in it: in no format, not before the name of an item, nor before its format.
Begins(k) == Percent(k) /\ ~InFormat(k)

Standing ==
    /\ ~InFormat(i)
    /\ i \in 2 .. Len(m_pattern) /\ Percent(i - 1) => m_pattern[i] \notin NameSymbol \cup {"{"}
    /\ i \in 3 .. Len(m_pattern) /\ Percent(i - 2) /\ m_pattern[i - 1] \in Letter =>
           m_pattern[i] # "{"

WrongIn(s) == \E j \in 1 .. Len(s) : Wrong(s[j])

Verdict == WrongIn(vec) <=> \E k \in 1 .. i - 1 : Begins(k) /\ ~WellSpelled(k)

ScanInv == FormatsEnd /\ Unescaped => Standing /\ Verdict

\* An item is known exactly when its "%" is well spelled.
LEMMA KnownIsWellSpelled ==
    ASSUME TypeOK, NEW e \in i + 1 .. Len(m_pattern) + 1, i <= Len(m_pattern), NameEnds(e)
    PROVE  Known(SubSeq(m_pattern, i + 1, e - 1)) <=> WellSpelled(i)
<1> DEFINE str == SubSeq(m_pattern, i + 1, e - 1)
<1>1. i \in 1 .. Len(m_pattern) /\ Len(m_pattern) \in Nat
  BY PatternIsSeq DEF TypeOK
<1>2. Len(str) = e - 1 - i /\ \A k \in 1 .. e - 1 - i : str[k] = m_pattern[i + k]
  <2>1. Len(str) = (e - 1) - (i + 1) + 1
        /\ \A k \in 1 .. (e - 1) - (i + 1) + 1 : str[k] = m_pattern[(i + 1) + k - 1]
    BY <1>1, PartOfPattern
  <2> QED BY <1>1, <2>1
<1> HIDE DEF str
<1>3. ASSUME Known(str) PROVE WellSpelled(i)
  <2>1. e = i + 2
    <3>1. Len(str) = 1 BY <1>3 DEF Known
    <3>2. e - 1 - i = 1 BY <1>2, <3>1
    <3>3. e \in Int /\ i \in Int BY <1>1
    <3> QED BY <3>2, <3>3
  <2>2. str[1] = m_pattern[i + 1] BY <1>1, <1>2, <2>1
  <2> QED BY <1>1, <1>3, <2>1, <2>2 DEF Known, WellSpelled, NameEnds
<1>4. ASSUME WellSpelled(i) PROVE Known(str)
  <2>1. i < Len(m_pattern) /\ m_pattern[i + 1] \in DOMAIN Prints
        /\ (i + 2 <= Len(m_pattern) => m_pattern[i + 2] \notin NameSymbol)
    BY <1>4 DEF WellSpelled
  <2>2. m_pattern[i + 1] \in Letter /\ m_pattern[i + 1] \in NameSymbol
    <3>1. m_pattern[i + 1] \in Symbol
      <4>1. i + 1 \in 1 .. Len(m_pattern) BY <1>1, <2>1
      <4> QED BY <4>1, PatternIsSeq
    <3>2. m_pattern[i + 1] \notin {"%", "{", "}"} BY <2>1 DEF Prints
    <3> QED BY <2>1, <3>1, <3>2, PatternAssumption DEF Symbol, NameSymbol
  <2>3. e # i + 1 BY <1>1, <2>1, <2>2 DEF NameEnds
  <2>4. ~(e > i + 2) BY <1>1, <2>1 DEF NameEnds
  <2>5. e = i + 2 BY <1>1, <2>3, <2>4
  <2> QED BY <1>1, <1>2, <2>1, <2>5 DEF Known
<1> QED BY <1>3, <1>4 DEF str

\* One entry more is one more that may be wrong.
LEMMA WrongAppended ==
    ASSUME NEW s \in Seq(Entry), NEW e \in Entry
    PROVE  WrongIn(Append(s, e)) <=> WrongIn(s) \/ Wrong(e)
<1>1. /\ Len(s) \in Nat
      /\ Len(Append(s, e)) = Len(s) + 1
      /\ Append(s, e)[Len(s) + 1] = e
      /\ \A k \in 1 .. Len(s) : Append(s, e)[k] = s[k]
  BY AppendedEntry
<1>2. \A k \in 1 .. Len(s) + 1 : k \in 1 .. Len(s) \/ k = Len(s) + 1 BY <1>1
<1> QED BY <1>1, <1>2 DEF WrongIn

LEMMA WrongFlushed ==
    ASSUME TypeOK, NEW e \in Entry
    PROVE  WrongIn(Flushed(e)) <=> WrongIn(vec) \/ Wrong(e)
<1>1. vec \in Seq(Entry) BY DEF TypeOK
<1>2. CASE nstr = <<>> BY <1>1, <1>2, FlushedType, WrongAppended
<1>3. CASE nstr # <<>>
  <2>1. Text(nstr) \in Entry BY EntryTypes, EmptySeq DEF TypeOK
  <2>2. ~Wrong(Text(nstr)) BY DEF Wrong, Text
  <2>3. Append(vec, Text(nstr)) \in Seq(Entry) BY <1>1, <2>1, AppendProperties
  <2>4. WrongIn(Append(vec, Text(nstr))) <=> WrongIn(vec) BY <1>1, <2>1, <2>2, WrongAppended
  <2>5. WrongIn(Append(Append(vec, Text(nstr)), e)) <=> WrongIn(Append(vec, Text(nstr))) \/ Wrong(e)
    BY <2>3, WrongAppended
  <2>6. Flushed(e) = Append(Append(vec, Text(nstr)), e) BY <1>3, FlushedType
  <2> QED BY <2>4, <2>5, <2>6
<1> QED BY <1>2, <1>3

\* A "{" with no "}" behind it, up to a symbol.
Open(o, n) == m_pattern[o] = "{" /\ \A j \in o .. n : m_pattern[j] # "}"

LEMMA InFormatOpen == \A k : InFormat(k) <=> \E o \in 1 .. k - 1 : Open(o, k - 1)
BY DEF InFormat, Open

LEMMA OpenBefore ==
    ASSUME NEW o \in Int, NEW n \in Int, NEW m \in Int, m <= n, Open(o, n)
    PROVE  Open(o, m)
<1>1. o .. m \subseteq o .. n OBVIOUS
<1> QED BY <1>1 DEF Open

\* Where a name ends and no "}" is the first after it, there is none.
LEMMA NoClose ==
    ASSUME TypeOK, NEW e \in 1 .. Len(m_pattern),
           \A c \in e + 1 .. Len(m_pattern) : ~Closes(e, c)
    PROVE  \A c \in e + 1 .. Len(m_pattern) : m_pattern[c] # "}"
<1> DEFINE S == {c \in e + 1 .. Len(m_pattern) : m_pattern[c] = "}"}
<1>0. Len(m_pattern) \in Nat /\ e \in Nat BY PatternIsSeq
<1>1. e + 1 .. Len(m_pattern) \subseteq Nat BY <1>0
<1>2. S \in SUBSET Nat BY <1>1
<1>3. ASSUME S # {} PROVE FALSE
  <2> HIDE DEF S
  <2>1. PICK m \in S : \A k \in S : m <= k BY <1>2, <1>3, LeastNat
  <2>2. m \in e + 1 .. Len(m_pattern) /\ m_pattern[m] = "}" BY <2>1 DEF S
  <2>3. \A k \in e + 1 .. m - 1 : k \in e + 1 .. Len(m_pattern) /\ ~(m <= k)
    <3>1. m \in e + 1 .. Len(m_pattern) BY <2>2
    <3> QED BY <1>0, <3>1
  <2>4. \A k \in e + 1 .. m - 1 : k \notin S BY <2>1, <2>3
  <2>5. \A k \in e + 1 .. m - 1 : m_pattern[k] # "}" BY <2>3, <2>4 DEF S
  <2>6. Closes(e, m) BY <2>2, <2>5 DEF Closes
  <2> QED BY <2>2, <2>6
<1> QED BY <1>3

\* A turn that moves past symbols that begin nothing keeps the verdict; one that
\* finds an item adds it.
LEMMA VerdictPast ==
    ASSUME TypeOK, Verdict, NEW n \in i .. Len(m_pattern) + 1,
           \A k \in i .. n - 1 : ~Begins(k)
    PROVE  WrongIn(vec) <=> \E k \in 1 .. n - 1 : Begins(k) /\ ~WellSpelled(k)
<1>1. i \in Nat /\ Len(m_pattern) \in Nat /\ 1 <= i BY PatternIsSeq DEF TypeOK
<1>2. \A k \in 1 .. n - 1 : k \in 1 .. i - 1 \/ k \in i .. n - 1 BY <1>1
<1>3. 1 .. i - 1 \subseteq 1 .. n - 1 BY <1>1
<1> QED BY <1>2, <1>3 DEF Verdict

LEMMA VerdictItem ==
    ASSUME TypeOK, Verdict, NEW e \in i + 1 .. Len(m_pattern) + 1, NameEnds(e),
           i <= Len(m_pattern), Begins(i), NEW fmt \in Seq(Symbol),
           NEW n \in i + 1 .. Len(m_pattern) + 1, \A k \in i + 1 .. n - 1 : ~Begins(k)
    PROVE  WrongIn(Flushed(Named(SubSeq(m_pattern, i + 1, e - 1), fmt)))
               <=> \E k \in 1 .. n - 1 : Begins(k) /\ ~WellSpelled(k)
<1> DEFINE item == Named(SubSeq(m_pattern, i + 1, e - 1), fmt)
<1>1. Len(m_pattern) \in Nat /\ i \in 1 .. Len(m_pattern) BY PatternIsSeq DEF TypeOK
<1>2. SubSeq(m_pattern, i + 1, e - 1) \in Seq(Symbol) BY <1>1, PartOfPattern
<1>3. item \in Entry BY <1>2, EntryTypes
<1>4. Wrong(item) <=> ~WellSpelled(i)
  <2>1. Wrong(item) <=> ~Known(SubSeq(m_pattern, i + 1, e - 1)) BY DEF Wrong, Named
  <2> QED BY <2>1, KnownIsWellSpelled
<1> HIDE DEF item
<1>5. WrongIn(Flushed(item)) <=> WrongIn(vec) \/ Wrong(item) BY <1>3, WrongFlushed
<1>6. \A k \in 1 .. n - 1 : k \in 1 .. i - 1 \/ k = i \/ k \in i + 1 .. n - 1 BY <1>1
<1>7. i \in 1 .. n - 1 /\ 1 .. i - 1 \subseteq 1 .. n - 1 BY <1>1
<1>8. WrongIn(Flushed(item)) <=> \E k \in 1 .. n - 1 : Begins(k) /\ ~WellSpelled(k)
  BY <1>4, <1>5, <1>6, <1>7 DEF Verdict
<1> QED BY <1>8 DEF item

\* The symbols of a name are neither "%" nor "{".
LEMMA NameHasNone ==
    ASSUME NEW e, NameEnds(e)
    PROVE  \A k \in i + 1 .. e - 1 : m_pattern[k] \notin {"%", "{"}
BY PatternAssumption DEF NameEnds, NameSymbol

\* Behind the name of an item that begins outside a format there is none that is open.
LEMMA NameEndsOutside ==
    ASSUME TypeOK, Scanning, Percent(i), ~InFormat(i),
           NEW e \in i + 1 .. Len(m_pattern) + 1, NameEnds(e)
    PROVE  ~InFormat(e)
<1>1. Len(m_pattern) \in Nat /\ i \in 1 .. Len(m_pattern) + 1 BY PatternIsSeq DEF TypeOK
<1>2. i \in 1 .. Len(m_pattern) BY <1>1 DEF Scanning
<1> SUFFICES ASSUME NEW o \in 1 .. e - 1, Open(o, e - 1) PROVE FALSE
  BY InFormatOpen
<1>3. CASE o < i
  <2>1. o \in 1 .. i - 1 /\ o \in Int /\ i - 1 \in Int /\ e - 1 \in Int /\ i - 1 <= e - 1
    BY <1>2, <1>3
  <2>2. Open(o, i - 1) BY <2>1, OpenBefore
  <2> QED BY <2>1, <2>2, InFormatOpen
<1>4. CASE o = i BY <1>4 DEF Percent, Open
<1>5. CASE o > i
  <2>1. o \in i + 1 .. e - 1 BY <1>2, <1>5
  <2> QED BY <2>1, NameHasNone DEF Open
<1>6. o < i \/ o = i \/ o > i BY <1>2
<1> QED BY <1>3, <1>4, <1>5, <1>6

\* isError() refuses exactly the misspelt patterns, of those whose formats all end and
\* that escape no "%", whatever their length and letters (init and m_error).
THEOREM ErrorIsMisspeltCorrect == Spec => []ErrorIsMisspelt
<1>1. Init => ScanInv
  BY EmptySeq DEF Init, ScanInv, Standing, Verdict, InFormat, WrongIn
<1>2. TypeOK /\ ScanInv /\ [Next]_vars => ScanInv'
  <2> SUFFICES ASSUME TypeOK, ScanInv, [Next]_vars PROVE ScanInv' OBVIOUS
  <2>1. m_pattern' = m_pattern
    <3>1. AppendText \/ AppendPercent => m_pattern' = m_pattern
      BY DEF AppendText, AppendPercent
    <3>2. PushItem => m_pattern' = m_pattern BY DEF PushItem
    <3>3. PushPatternError => m_pattern' = m_pattern BY DEF PushPatternError
    <3>4. EndScan \/ Build \/ EndBuild => m_pattern' = m_pattern
      BY DEF EndScan, Build, EndBuild
    <3>5. UNCHANGED vars => m_pattern' = m_pattern BY DEF vars
    <3> QED BY <3>1, <3>2, <3>3, <3>4, <3>5 DEF Next
  <2>2. \A k : /\ (Percent(k)' <=> Percent(k)) /\ (InFormat(k)' <=> InFormat(k))
               /\ (WellSpelled(k)' <=> WellSpelled(k))
    BY <2>1 DEF Percent, InFormat, WellSpelled
  <2>3. (FormatsEnd' <=> FormatsEnd) /\ (Unescaped' <=> Unescaped)
    <3>1. \A k : BeginsFormat(k)' <=> BeginsFormat(k) BY <2>1 DEF BeginsFormat, Percent
    <3> QED BY <2>1, <2>2, <3>1 DEF FormatsEnd, Unescaped
  <2> SUFFICES ASSUME FormatsEnd, Unescaped PROVE Standing' /\ Verdict'
    BY <2>3 DEF ScanInv
  <2>4. Standing /\ Verdict BY DEF ScanInv
  <2>5. /\ Len(m_pattern) \in Nat /\ i \in 1 .. Len(m_pattern) + 1
        /\ vec \in Seq(Entry) /\ Len(vec) \in Nat
    BY PatternIsSeq, LenProperties DEF TypeOK
  <2>6. ASSUME NEW n \in 1 .. Len(m_pattern) + 1, i' = n, ~InFormat(n),
               n \in 2 .. Len(m_pattern) /\ Percent(n - 1) =>
                   m_pattern[n] \notin NameSymbol \cup {"{"},
               n \in 3 .. Len(m_pattern) /\ Percent(n - 2) /\ m_pattern[n - 1] \in Letter =>
                   m_pattern[n] # "{",
               WrongIn(vec') <=> \E k \in 1 .. n - 1 : Begins(k) /\ ~WellSpelled(k)
        PROVE  Standing' /\ Verdict'
    <3>1. Standing' BY <2>1, <2>6 DEF Standing, Percent, InFormat
    <3>2. \A k : (Begins(k) /\ ~WellSpelled(k))' <=> Begins(k) /\ ~WellSpelled(k)
      BY <2>2 DEF Begins
    <3>3. WrongIn(vec)' <=> WrongIn(vec') BY DEF WrongIn, Wrong, Known
    <3>4. Verdict' BY <2>6, <3>2, <3>3 DEF Verdict
    <3> QED BY <3>1, <3>4
  <2>7. CASE AppendText
    <3>1. vec' = vec /\ i' = i + 1 /\ i <= Len(m_pattern) /\ ~Percent(i)
      BY <2>7 DEF AppendText, Scanning
    <3>2. i + 1 \in 1 .. Len(m_pattern) + 1 BY <2>5, <3>1
    <3>3. ~InFormat(i + 1)
      <4>1. (i + 1) - 1 = i /\ i \in 1 .. Len(m_pattern) BY <2>5, <3>1
      <4> SUFFICES ASSUME NEW o \in 1 .. i, Open(o, i) PROVE FALSE
        BY <4>1, InFormatOpen
      <4>2. ASSUME o # i PROVE FALSE
        <5>1. o \in 1 .. i - 1 /\ o \in Int /\ i - 1 \in Int /\ i \in Int /\ i - 1 <= i
          BY <4>1, <4>2
        <5>2. Open(o, i - 1) BY <5>1, OpenBefore
        <5> QED BY <2>4, <5>1, <5>2, InFormatOpen DEF Standing
      <4>3. m_pattern[i] = "{" BY <4>2 DEF Open
      <4>4. BeginsFormat(i) BY <2>4, <4>1, <4>3 DEF FormatsEnd, Standing
      <4>5. i > 2 /\ Percent(i - 2) /\ m_pattern[i - 1] \in Letter BY <4>4 DEF BeginsFormat
      <4>6. i \in 3 .. Len(m_pattern) BY <4>1, <4>5
      <4> QED BY <2>4, <4>3, <4>5, <4>6 DEF Standing
    <3>4. i + 1 \in 2 .. Len(m_pattern) /\ Percent((i + 1) - 1) =>
              m_pattern[i + 1] \notin NameSymbol \cup {"{"}
      <4>1. (i + 1) - 1 = i BY <2>5
      <4> QED BY <3>1, <4>1
    <3>5. i + 1 \in 3 .. Len(m_pattern) /\ Percent((i + 1) - 2)
              /\ m_pattern[(i + 1) - 1] \in Letter => m_pattern[i + 1] # "{"
      <4> SUFFICES ASSUME i + 1 \in 3 .. Len(m_pattern), Percent(i - 1), m_pattern[i] \in Letter
                   PROVE  FALSE
        <5>1. (i + 1) - 2 = i - 1 /\ (i + 1) - 1 = i BY <2>5
        <5> QED BY <5>1
      <4>1. i \in 2 .. Len(m_pattern) BY <2>5, <3>1
      <4> QED BY <2>4, <4>1 DEF Standing, NameSymbol
    <3>6. WrongIn(vec') <=> \E k \in 1 .. (i + 1) - 1 : Begins(k) /\ ~WellSpelled(k)
      <4>1. i + 1 \in i .. Len(m_pattern) + 1 BY <2>5, <3>1
      <4>2. \A k \in i .. (i + 1) - 1 : k = i BY <2>5
      <4>3. \A k \in i .. (i + 1) - 1 : ~Begins(k) BY <3>1, <4>2 DEF Begins
      <4> QED BY <2>4, <3>1, <4>1, <4>3, VerdictPast
    <3> QED BY <2>6, <3>1, <3>2, <3>3, <3>4, <3>5, <3>6
  <2>8. CASE AppendPercent
    <3>1. i \in 1 .. Len(m_pattern) /\ Percent(i) /\ Percent(i + 1)
      BY <2>5, <2>8 DEF AppendPercent, Scanning
    <3> QED BY <2>4, <3>1 DEF Unescaped, Standing
  <2>9. CASE PushItem
    <3>1. Scanning /\ Percent(i) /\ i \in 1 .. Len(m_pattern)
      BY <2>5, <2>9 DEF PushItem, Scanning
    <3>2. Begins(i) /\ ~InFormat(i) BY <2>4, <3>1 DEF Begins, Standing
    <3>3. ASSUME NEW e \in i + 1 .. Len(m_pattern) + 1, NameEnds(e), ~Opens(e), i' = e,
                 vec' = Flushed(Named(SubSeq(m_pattern, i + 1, e - 1), <<>>))
          PROVE  Standing' /\ Verdict'
      <4>1. ~InFormat(e) BY <3>1, <3>2, <3>3, NameEndsOutside
      <4>2. \A k \in i + 1 .. e - 1 : m_pattern[k] \notin {"%", "{"} BY <3>3, NameHasNone
      <4>3. e \in 2 .. Len(m_pattern) /\ Percent(e - 1) =>
                m_pattern[e] \notin NameSymbol \cup {"{"}
        <5>1. e \in 2 .. Len(m_pattern) => e <= Len(m_pattern) BY <2>5
        <5>2. e <= Len(m_pattern) => m_pattern[e] \notin NameSymbol /\ m_pattern[e] # "{"
          BY <3>3 DEF NameEnds, Opens
        <5> QED BY <5>1, <5>2
      <4>4. e \in 3 .. Len(m_pattern) /\ Percent(e - 2) /\ m_pattern[e - 1] \in Letter =>
                m_pattern[e] # "{"
        <5>1. e \in 3 .. Len(m_pattern) => e <= Len(m_pattern) BY <2>5
        <5> QED BY <3>3, <5>1 DEF Opens
      <4>5. WrongIn(vec') <=> \E k \in 1 .. e - 1 : Begins(k) /\ ~WellSpelled(k)
        <5>1. <<>> \in Seq(Symbol) BY EmptySeq
        <5>2. \A k \in i + 1 .. e - 1 : ~Begins(k) BY <4>2 DEF Begins, Percent
        <5>3. i <= Len(m_pattern) BY <3>1
        <5> QED BY <2>4, <3>2, <3>3, <5>1, <5>2, <5>3, VerdictItem
      <4>6. e \in 1 .. Len(m_pattern) + 1 BY <2>5, <3>1
      <4> QED BY <2>6, <3>3, <4>1, <4>3, <4>4, <4>5, <4>6
    <3>4. ASSUME NEW e \in i + 1 .. Len(m_pattern) + 1, NameEnds(e), Opens(e),
                 NEW c \in e + 1 .. Len(m_pattern), Closes(e, c), i' = c + 1,
                 vec' = Flushed(Named(SubSeq(m_pattern, i + 1, e - 1),
                                      SubSeq(m_pattern, e + 1, c - 1)))
          PROVE  Standing' /\ Verdict'
      <4>1. /\ e \in 1 .. Len(m_pattern) /\ c \in 1 .. Len(m_pattern)
            /\ c + 1 \in i + 1 .. Len(m_pattern) + 1 /\ (c + 1) - 1 = c /\ (c + 1) - 2 = c - 1
        BY <2>5, <3>1
      <4>2. m_pattern[c] = "}" /\ \A k \in e + 1 .. c - 1 : m_pattern[k] # "}"
        BY <3>4 DEF Closes
      <4>3. ~InFormat(c + 1)
        <5> SUFFICES ASSUME NEW o \in 1 .. c, Open(o, c) PROVE FALSE
          BY <4>1, InFormatOpen
        <5>1. c \in o .. c BY <4>1
        <5> QED BY <4>2, <5>1 DEF Open
      <4>4. c + 1 \in 2 .. Len(m_pattern) /\ Percent((c + 1) - 1) =>
                m_pattern[c + 1] \notin NameSymbol \cup {"{"}
        <5>1. ~Percent((c + 1) - 1) BY <4>1, <4>2 DEF Percent
        <5> QED BY <5>1
      <4>5. c + 1 \in 3 .. Len(m_pattern) /\ Percent((c + 1) - 2)
                /\ m_pattern[(c + 1) - 1] \in Letter => m_pattern[c + 1] # "{"
        BY <4>1, <4>2, PatternAssumption
      <4>6. \A k \in i + 1 .. (c + 1) - 1 : ~Begins(k)
        <5> SUFFICES ASSUME NEW k \in i + 1 .. c, Percent(k), ~InFormat(k) PROVE FALSE
          BY <4>1 DEF Begins
        <5>1. CASE k < e
          <6>1. k \in i + 1 .. e - 1 BY <2>5, <5>1
          <6> QED BY <3>4, <6>1, NameHasNone DEF Percent
        <5>2. CASE k = e BY <3>4, <5>2 DEF Opens, Percent
        <5>3. CASE k > e /\ k < c
          <6>1. e \in 1 .. k - 1 BY <2>5, <4>1, <5>3
          <6>2. \A j \in e .. k - 1 : j = e \/ j \in e + 1 .. c - 1 BY <4>1, <5>3
          <6>3. m_pattern[e] = "{" BY <3>4 DEF Opens
          <6>4. \A j \in e .. k - 1 : m_pattern[j] # "}" BY <4>2, <6>2, <6>3
          <6>5. Open(e, k - 1) BY <6>3, <6>4 DEF Open
          <6> QED BY <6>1, <6>5, InFormatOpen
        <5>4. CASE k = c BY <4>2, <5>4 DEF Percent
        <5> QED BY <2>5, <4>1, <5>1, <5>2, <5>3, <5>4
      <4>7. SubSeq(m_pattern, e + 1, c - 1) \in Seq(Symbol)
        <5>1. 1 <= e + 1 /\ e + 1 <= (c - 1) + 1 /\ c - 1 <= Len(m_pattern)
              /\ e + 1 \in Int /\ c - 1 \in Int
          BY <2>5, <4>1
        <5> QED BY <5>1, PartOfPattern
      <4>8. WrongIn(vec') <=> \E k \in 1 .. (c + 1) - 1 : Begins(k) /\ ~WellSpelled(k)
        <5>1. i <= Len(m_pattern) BY <3>1
        <5> QED BY <2>4, <3>2, <3>4, <4>1, <4>6, <4>7, <5>1, VerdictItem
      <4>9. c + 1 \in 1 .. Len(m_pattern) + 1 BY <4>1
      <4> QED BY <2>6, <3>4, <4>3, <4>4, <4>5, <4>8, <4>9
    <3> QED BY <2>9, <3>3, <3>4 DEF PushItem
  <2>10. CASE PushPatternError
    <3>0. Scanning /\ Percent(i) /\ ~InFormat(i)
      BY <2>4, <2>10 DEF PushPatternError, Standing
    <3>1. i \in 1 .. Len(m_pattern) BY <2>5, <3>0 DEF Scanning
    <3>2. PICK e \in i + 1 .. Len(m_pattern) :
             NameEnds(e) /\ Opens(e) /\ \A c \in e + 1 .. Len(m_pattern) : ~Closes(e, c)
      BY <2>10 DEF PushPatternError
    <3>3. e \in i + 1 .. Len(m_pattern) + 1 /\ e \in 1 .. Len(m_pattern) BY <2>5, <3>1, <3>2
    <3>4. m_pattern[e] = "{" BY <3>2 DEF Opens
    <3>5. BeginsFormat(e) BY <3>0, <3>2, <3>3, <3>4, NameEndsOutside DEF FormatsEnd
    <3>6. PICK c \in e .. Len(m_pattern) : m_pattern[c] = "}" BY <3>5 DEF BeginsFormat
    <3>7. c # e BY <3>4, <3>6
    <3>8. c \in e + 1 .. Len(m_pattern)
      <4>1. c \in e .. Len(m_pattern) BY <3>6
      <4>2. e \in Int /\ Len(m_pattern) \in Int BY <2>5, <3>3
      <4> QED BY <3>7, <4>1, <4>2
    <3> QED BY <3>2, <3>3, <3>6, <3>8, NoClose
  <2>11. ASSUME i' = i, vec' = vec \/ vec' = Append(vec, Text(nstr))
         PROVE  Standing' /\ Verdict'
    <3>1. Text(nstr) \in Entry /\ ~Wrong(Text(nstr))
      BY EntryTypes, EmptySeq DEF TypeOK, Wrong, Text
    <3>2. WrongIn(Append(vec, Text(nstr))) <=> WrongIn(vec) BY <2>5, <3>1, WrongAppended
    <3>3. WrongIn(vec') <=> WrongIn(vec)
      <4> HIDE DEF WrongIn
      <4> QED BY <2>11, <3>2
    <3> QED BY <2>4, <2>5, <2>6, <2>11, <3>3 DEF Standing, Verdict
  <2>12. CASE EndScan BY <2>11, <2>12 DEF EndScan
  <2>13. CASE Build \/ EndBuild \/ UNCHANGED vars
    BY <2>11, <2>13 DEF Build, EndBuild, vars
  <2> QED BY <2>7, <2>8, <2>9, <2>10, <2>12, <2>13 DEF Next
<1>3. TypeOK /\ BuiltInOrder /\ ScanInv => ErrorIsMisspelt
  <2> SUFFICES ASSUME TypeOK, BuiltInOrder, ScanInv, pc = "ready", FormatsEnd, Unescaped
               PROVE  m_error <=> \E k \in 1 .. Len(m_pattern) :
                                      Percent(k) /\ ~InFormat(k) /\ ~WellSpelled(k)
    BY DEF ErrorIsMisspelt
  <2>1. i - 1 = Len(m_pattern)
    <3>1. i = Len(m_pattern) + 1 BY DEF TypeOK
    <3>2. Len(m_pattern) \in Nat BY PatternIsSeq
    <3> QED BY <3>1, <3>2
  <2>2. m_error <=> WrongIn(vec) BY DEF BuiltInOrder, Wrong, WrongIn
  <2> QED BY <2>1, <2>2 DEF ScanInv, Verdict, Begins
<1> QED BY <1>1, <1>2, <1>3, TypeCorrect, BuiltInOrderCorrect, PTL DEF Spec

-----------------------------------------------------------------------------
\* A set that has 0 and the successor of each of its elements has all naturals.
LEMMA Induction ==
    ASSUME NEW P \in SUBSET Nat, 0 \in P, \A n \in P : n + 1 \in P
    PROVE  P = Nat
<1> SUFFICES ASSUME Nat \ P # {} PROVE FALSE
  OBVIOUS
<1>1. PICK m \in Nat \ P : \A k \in Nat \ P : m <= k
  BY LeastNat
<1>2. m # 0 /\ m - 1 \in Nat
  OBVIOUS
<1>3. m - 1 \in P
  BY <1>1, <1>2
<1>4. (m - 1) + 1 \in P
  BY <1>3
<1> QED
  BY <1>1, <1>4

\* FlattenSeq joins one sequence after another.
Joined(seqs, n, flat) ==
    flat = [k \in 1 .. n |-> IF k = 1 THEN seqs[k] ELSE flat[k - 1] \o seqs[k]]

LEMMA JoinRuns ==
    ASSUME NEW seqs, Len(seqs) \in Nat \ {0}
    PROVE  \E flat : Joined(seqs, Len(seqs), flat) /\ FlattenSeq(seqs) = flat[Len(seqs)]
<1> DEFINE P == {n \in Nat : \E flat : Joined(seqs, n, flat)}
<1>1. 0 \in P
  <2>1. Joined(seqs, 0, [k \in 1 .. 0 |-> seqs[k]])
    BY DEF Joined
  <2> QED
    BY <2>1
<1>2. ASSUME NEW n \in P PROVE n + 1 \in P
  <2>1. PICK flat : Joined(seqs, n, flat)
    OBVIOUS
  <2> DEFINE last == IF n = 0 THEN seqs[1] ELSE flat[n] \o seqs[n + 1]
             more == [k \in 1 .. n + 1 |-> IF k = n + 1 THEN last ELSE flat[k]]
  <2>2. ASSUME NEW k \in 1 .. n + 1
        PROVE  more[k] = IF k = 1 THEN seqs[k] ELSE more[k - 1] \o seqs[k]
    <3>1. CASE k = n + 1
      <4>1. more[k] = last /\ (k # 1 => more[k - 1] = flat[n])
        BY <3>1
      <4> QED
        BY <3>1, <4>1
    <3>2. CASE k \in 1 .. n
      <4>1. more[k] = flat[k] /\ (k # 1 => more[k - 1] = flat[k - 1])
        BY <3>2
      <4> QED
        BY <2>1, <3>2, <4>1 DEF Joined
    <3> QED
      BY <3>1, <3>2
  <2>3. more = [k \in 1 .. n + 1 |-> IF k = 1 THEN seqs[k] ELSE more[k - 1] \o seqs[k]]
    BY <2>2, Zenon
  <2>4. Joined(seqs, n + 1, more)
    BY <2>3, Zenon DEF Joined
  <2> QED
    BY <2>4
<1>3. P = Nat
  BY <1>1, <1>2, Induction, Zenon
<1>4. \E flat : Joined(seqs, Len(seqs), flat)
  BY <1>3
<1>5. Len(seqs) # 0
  OBVIOUS
<1> QED
  BY <1>4, <1>5, Zenon DEF Joined, FlattenSeq

LEMMA JoinStep ==
    ASSUME NEW seqs, NEW n \in Nat, NEW flat, Joined(seqs, n, flat), NEW k \in 1 .. n
    PROVE  flat[k] = IF k = 1 THEN seqs[1] ELSE flat[k - 1] \o seqs[k]
BY DEF Joined

\* A sequence appended to the others comes after all they were joined to.
LEMMA JoinAppended ==
    ASSUME NEW S, NEW seqs \in Seq(Seq(S)), NEW s \in Seq(S)
    PROVE  FlattenSeq(seqs) \in Seq(S) /\ FlattenSeq(Append(seqs, s)) = FlattenSeq(seqs) \o s
<1> DEFINE n == Len(seqs)
           both == Append(seqs, s)
<1>1. /\ n \in Nat /\ Len(both) = n + 1 /\ both[n + 1] = s
      /\ \A k \in 1 .. n : both[k] = seqs[k] /\ seqs[k] \in Seq(S)
  BY AppendProperties, LenProperties, ElementOfSeq
<1> HIDE DEF both
<1>2. PICK g : Joined(both, Len(both), g) /\ FlattenSeq(both) = g[Len(both)]
  BY <1>1, JoinRuns
<1>3. g[n + 1] = IF n + 1 = 1 THEN both[1] ELSE g[(n + 1) - 1] \o both[n + 1]
  BY <1>1, <1>2, JoinStep
<1>4. CASE n = 0
  <2>1. seqs = <<>> /\ <<>> \in Seq(S)
    BY <1>4, EmptySeq
  <2>2. FlattenSeq(seqs) = seqs
    BY <1>4, Zenon DEF FlattenSeq
  <2>3. <<>> \o s = s
    BY ConcatEmptySeq
  <2>4. FlattenSeq(both) = s
    BY <1>1, <1>2, <1>3, <1>4
  <2> QED
    BY <2>1, <2>2, <2>3, <2>4 DEF both
<1>5. CASE n # 0
  <2>1. PICK f : Joined(seqs, n, f) /\ FlattenSeq(seqs) = f[n]
    BY <1>1, <1>5, JoinRuns
  <2> HIDE DEF n
  <2> DEFINE P == {k \in Nat : k + 1 \in 1 .. n => f[k + 1] = g[k + 1] /\ f[k + 1] \in Seq(S)}
  <2>2. 0 \in P
    <3>1. f[1] = seqs[1] /\ g[1] = both[1]
      BY <1>1, <1>2, <1>5, <2>1, JoinStep
    <3> QED
      BY <1>1, <1>5, <3>1
  <2>3. ASSUME NEW k \in P PROVE k + 1 \in P
    <3> SUFFICES ASSUME k + 2 \in 1 .. n
                 PROVE  f[k + 2] = g[k + 2] /\ f[k + 2] \in Seq(S)
      OBVIOUS
    <3>1. k + 1 \in 1 .. n /\ f[k + 1] = g[k + 1] /\ f[k + 1] \in Seq(S)
      BY <1>1
    <3>2. f[k + 2] = f[k + 1] \o seqs[k + 2] /\ g[k + 2] = g[k + 1] \o both[k + 2]
      <4>1. k + 2 \in 1 .. n /\ k + 2 \in 1 .. Len(both) /\ k + 2 # 1 /\ (k + 2) - 1 = k + 1
        BY <1>1
      <4>2. \A j \in 1 .. n : f[j] = IF j = 1 THEN seqs[1] ELSE f[j - 1] \o seqs[j]
        BY <1>1, <2>1, JoinStep
      <4>3. \A j \in 1 .. Len(both) : g[j] = IF j = 1 THEN both[1] ELSE g[j - 1] \o both[j]
        BY <1>1, <1>2, JoinStep
      <4> QED
        BY <4>1, <4>2, <4>3
    <3>3. f[k + 1] \o seqs[k + 2] \in Seq(S)
      BY <1>1, <3>1, ConcatProperties
    <3> QED
      BY <1>1, <3>1, <3>2, <3>3
  <2>4. P = Nat
    BY <2>2, <2>3, Induction, Zenon
  <2>5. f[n] = g[n] /\ f[n] \in Seq(S)
    <3>1. n - 1 \in Nat /\ (n - 1) + 1 = n
      BY <1>1, <1>5
    <3>2. n - 1 \in P
      BY <2>4, <3>1, Zenon
    <3> QED
      BY <1>1, <1>5, <3>1, <3>2
  <2>6. FlattenSeq(both) = g[n] \o s
    <3>1. (n + 1) - 1 = n /\ n + 1 # 1
      BY <1>1, <1>5
    <3> QED
      BY <1>1, <1>2, <1>3, <3>1
  <2> QED
    BY <2>1, <2>5, <2>6 DEF both
<1> QED
  BY <1>4, <1>5

-----------------------------------------------------------------------------
\* The symbols of what the entries spell.
Spelled == Symbol \cup {"<<pattern_error>>"}

LEMMA SpellingType ==
    ASSUME NEW e \in Entry
    PROVE  Spelling(e) \in Seq(Spelled)
<1>1. e.str \in Seq(Spelled) /\ e.fmt \in Seq(Spelled)
  <2>1. Seq(Symbol) \subseteq Seq(Spelled)
    BY SeqDef DEF Spelled
  <2> QED
    BY <2>1 DEF Entry, Spelled
<1>2. <<"%">> \in Seq(Spelled) /\ <<"{">> \in Seq(Spelled) /\ <<"}">> \in Seq(Spelled)
  BY DEF Spelled, Symbol
<1>3. <<>> \in Seq(Spelled)
  BY EmptySeq
<1>4. <<"%">> \o e.str \in Seq(Spelled)
  BY <1>1, <1>2, ConcatProperties
<1>5. <<"{">> \o e.fmt \in Seq(Spelled)
  BY <1>1, <1>2, ConcatProperties
<1>6. (<<"{">> \o e.fmt) \o <<"}">> \in Seq(Spelled)
  BY <1>2, <1>5, ConcatProperties
<1>7. (<<"%">> \o e.str) \o ((<<"{">> \o e.fmt) \o <<"}">>) \in Seq(Spelled)
  BY <1>4, <1>6, ConcatProperties
<1>8. (<<"%">> \o e.str) \o <<>> \in Seq(Spelled)
  BY <1>3, <1>4, ConcatProperties
<1> QED
  BY <1>1, <1>7, <1>8, Zenon DEF Spelling

LEMMA SpelledAppended ==
    ASSUME NEW v \in Seq(Entry), NEW e \in Entry
    PROVE  /\ SpelledOut(v) \in Seq(Spelled)
           /\ SpelledOut(Append(v, e)) = SpelledOut(v) \o Spelling(e)
<1> DEFINE seqs == [k \in DOMAIN v |-> Spelling(v[k])]
<1>1. Len(v) \in Nat /\ DOMAIN v = 1 .. Len(v) /\ \A k \in 1 .. Len(v) : v[k] \in Entry
  BY LenProperties, ElementOfSeq
<1>2. seqs \in Seq(Seq(Spelled)) /\ Len(seqs) = Len(v)
  <2>1. seqs \in [1 .. Len(v) -> Seq(Spelled)]
    BY <1>1, SpellingType
  <2> QED
    BY <1>1, <2>1, SeqDef, LenProperties
<1>3. Spelling(e) \in Seq(Spelled)
  BY SpellingType
<1>4. Append(seqs, Spelling(e)) = [k \in DOMAIN Append(v, e) |-> Spelling(Append(v, e)[k])]
  <2>1. DOMAIN Append(v, e) = 1 .. Len(v) + 1 /\ Append(v, e)[Len(v) + 1] = e
        /\ \A k \in 1 .. Len(v) : Append(v, e)[k] = v[k]
    BY <1>1, AppendProperties, LenProperties
  <2>2. DOMAIN Append(seqs, Spelling(e)) = 1 .. Len(v) + 1
        /\ Append(seqs, Spelling(e))[Len(v) + 1] = Spelling(e)
        /\ \A k \in 1 .. Len(v) : Append(seqs, Spelling(e))[k] = seqs[k]
    BY <1>1, <1>2, <1>3, AppendProperties, LenProperties
  <2>3. \A k \in 1 .. Len(v) : seqs[k] = Spelling(v[k])
    BY <1>1
  <2>4. \A k \in 1 .. Len(v) + 1 : k \in 1 .. Len(v) \/ k = Len(v) + 1
    BY <1>1
  <2>5. \A k \in 1 .. Len(v) + 1 : Append(seqs, Spelling(e))[k] = Spelling(Append(v, e)[k])
    BY <2>1, <2>2, <2>3, <2>4, Zenon
  <2>6. Append(seqs, Spelling(e)) \in Seq(Seq(Spelled))
    BY <1>2, <1>3, AppendProperties
  <2>7. Append(seqs, Spelling(e))
          = [k \in 1 .. Len(v) + 1 |-> Append(seqs, Spelling(e))[k]]
    BY <2>2, <2>6
  <2> QED
    BY <2>1, <2>5, <2>7
<1> HIDE DEF seqs
<1>5. FlattenSeq(seqs) \in Seq(Spelled)
      /\ FlattenSeq(Append(seqs, Spelling(e))) = FlattenSeq(seqs) \o Spelling(e)
  BY <1>2, <1>3, JoinAppended
<1> QED
  BY <1>4, <1>5, Zenon DEF seqs, SpelledOut

LEMMA NamedFields ==
    ASSUME NEW str, NEW fmt
    PROVE  Named(str, fmt).type # 0 /\ Named(str, fmt).str = str /\ Named(str, fmt).fmt = fmt
BY DEF Named

LEMMA PlainFields ==
    ASSUME NEW str
    PROVE  /\ Named(str, <<>>).type # 0 /\ Named(str, <<>>).str = str
           /\ Named(str, <<>>).fmt = <<>>
BY DEF Named

\* Nothing is spelled before an entry is found.
LEMMA NothingSpelled == SpelledOut(<<>>) = <<>>
<1> DEFINE seqs == [k \in DOMAIN <<>> |-> Spelling(<<>>[k])]
<1>1. seqs = <<>> /\ Len(seqs) = 0
  OBVIOUS
<1>2. FlattenSeq(seqs) = seqs
  BY <1>1, Zenon DEF FlattenSeq
<1> QED
  BY <1>1, <1>2, Zenon DEF SpelledOut

\* The text that is pending and the part of the pattern already scanned.
LEMMA ScannedTypes ==
    ASSUME TypeOK
    PROVE  /\ vec \in Seq(Entry) /\ SpelledOut(vec) \in Seq(Spelled)
           /\ nstr \in Seq(Spelled) /\ Text(nstr) \in Entry /\ Spelling(Text(nstr)) = nstr
           /\ m_pattern \in Seq(Spelled) /\ Len(m_pattern) \in Nat
           /\ i \in 1 .. Len(m_pattern) + 1
<1>1. Seq(Symbol) \subseteq Seq(Spelled)
  BY SeqDef DEF Spelled
<1>2. Text(nstr) \in Entry
  BY EntryTypes, EmptySeq DEF TypeOK
<1>3. Spelling(Text(nstr)) = nstr
  BY DEF Spelling, Text
<1>4. SpelledOut(vec) \in Seq(Spelled)
  BY <1>2, SpelledAppended DEF TypeOK
<1> QED
  BY <1>1, <1>2, <1>3, <1>4, PatternIsSeq DEF TypeOK

\* A turn of the loop that takes one symbol for the text leaves nothing behind.
LEMMA TextSpelled ==
    ASSUME TypeOK, i <= Len(m_pattern),
           SpelledOut(vec) \o nstr = SubSeq(m_pattern, 1, i - 1)
    PROVE  SpelledOut(vec) \o Append(nstr, m_pattern[i]) = SubSeq(m_pattern, 1, (i + 1) - 1)
<1> DEFINE s == m_pattern[i]
<1>1. i \in 1 .. Len(m_pattern) /\ s \in Spelled /\ <<s>> \in Seq(Spelled)
  BY ScannedTypes, ElementOfSeq
<1>2. SubSeq(m_pattern, 1, i) = SubSeq(m_pattern, 1, i - 1) \o <<s>>
  BY <1>1, ScannedTypes, SubSeqRecursiveSecond
<1>3. Append(nstr, s) = nstr \o <<s>>
  BY <1>1, ScannedTypes, AppendIsConcat
<1>4. (SpelledOut(vec) \o nstr) \o <<s>> = SpelledOut(vec) \o (nstr \o <<s>>)
  <2>1. \A a, b, c \in Seq(Spelled) : (a \o b) \o c = a \o (b \o c)
    BY ConcatAssociative
  <2>2. SpelledOut(vec) \in Seq(Spelled) /\ nstr \in Seq(Spelled) /\ <<s>> \in Seq(Spelled)
    BY <1>1, ScannedTypes
  <2> QED
    BY <2>1, <2>2, Zenon
<1>5. SubSeq(m_pattern, 1, (i + 1) - 1) = SubSeq(m_pattern, 1, i)
  <2>1. (i + 1) - 1 = i BY <1>1
  <2> QED BY <2>1, Zenon
<1>6. SpelledOut(vec) \o (nstr \o <<s>>) = SubSeq(m_pattern, 1, i)
  BY <1>2, <1>4, Zenon
<1> QED
  BY <1>3, <1>5, <1>6, Zenon

\* An entry pushed after the text that was pending is spelled after it.
LEMMA FlushedSpelled ==
    ASSUME TypeOK, NEW e \in Entry
    PROVE  /\ SpelledOut(Flushed(e)) = (SpelledOut(vec) \o nstr) \o Spelling(e)
           /\ (\A k \in DOMAIN Flushed(e) : Flushed(e)[k] # PatternError)
                  => \A k \in DOMAIN vec : vec[k] # PatternError
<1>1. CASE nstr = <<>>
  <2>1. Flushed(e) = Append(vec, e)
    BY <1>1, FlushedType
  <2>2. SpelledOut(vec) \o nstr = SpelledOut(vec)
    BY <1>1, ScannedTypes, ConcatEmptySeq
  <2>3. SpelledOut(Append(vec, e)) = SpelledOut(vec) \o Spelling(e)
    BY ScannedTypes, SpelledAppended
  <2>4. \A k \in DOMAIN vec : k \in DOMAIN Append(vec, e) /\ Append(vec, e)[k] = vec[k]
    BY ScannedTypes
  <2> QED
    BY <2>1, <2>2, <2>3, <2>4
<1>2. CASE nstr # <<>>
  <2> DEFINE more == Append(vec, Text(nstr))
  <2>1. Flushed(e) = Append(more, e) /\ more \in Seq(Entry)
    BY <1>2, FlushedType, ScannedTypes, AppendProperties
  <2>2. SpelledOut(more) = SpelledOut(vec) \o nstr
    BY ScannedTypes, SpelledAppended
  <2>3. \A k \in DOMAIN vec : k \in DOMAIN more /\ more[k] = vec[k]
    BY ScannedTypes
  <2> HIDE DEF more
  <2>4. SpelledOut(Append(more, e)) = SpelledOut(more) \o Spelling(e)
    BY <2>1, SpelledAppended
  <2>5. \A k \in DOMAIN more : k \in DOMAIN Append(more, e) /\ Append(more, e)[k] = more[k]
    BY <2>1
  <2> QED
    BY <2>1, <2>2, <2>3, <2>4, <2>5
<1> QED
  BY <1>1, <1>2

\* An item spells the symbols it was found in, from its "%" to the end of its name,
LEMMA NameSpelled ==
    ASSUME TypeOK, i <= Len(m_pattern), Percent(i), NEW e \in i + 1 .. Len(m_pattern) + 1
    PROVE  /\ <<"%">> \o SubSeq(m_pattern, i + 1, e - 1) = SubSeq(m_pattern, i, e - 1)
           /\ SubSeq(m_pattern, i + 1, e - 1) \in Seq(Symbol)
           /\ SubSeq(m_pattern, i, e - 1) \in Seq(Spelled)
<1>1. i \in 1 .. Len(m_pattern) /\ e - 1 \in i .. Len(m_pattern)
      /\ m_pattern \in Seq(Spelled) /\ Len(m_pattern) \in Nat
  BY ScannedTypes
<1>2. SubSeq(m_pattern, i, e - 1) = <<m_pattern[i]>> \o SubSeq(m_pattern, i + 1, e - 1)
  BY <1>1, SubSeqRecursiveFirst
<1>3. SubSeq(m_pattern, i + 1, e - 1) \in Seq(Symbol)
  BY <1>1, PartOfPattern
<1>4. SubSeq(m_pattern, i, e - 1) \in Seq(Spelled)
  <2>1. \A k \in i .. e - 1 : m_pattern[k] \in Spelled
    BY <1>1, ElementOfSeq
  <2> QED
    BY <1>1, <2>1, SubSeqProperties
<1> QED
  BY <1>2, <1>3, <1>4 DEF Percent

\* or to the "}" of its format, when that is not empty.
LEMMA FormatSpelled ==
    ASSUME TypeOK, ~EmptyFormat, NEW e \in 1 .. Len(m_pattern), Opens(e),
           NEW c \in e + 1 .. Len(m_pattern), Closes(e, c)
    PROVE  /\ SubSeq(m_pattern, e + 1, c - 1) \in Seq(Symbol)
           /\ SubSeq(m_pattern, e + 1, c - 1) # <<>>
           /\ (<<"{">> \o SubSeq(m_pattern, e + 1, c - 1)) \o <<"}">> = SubSeq(m_pattern, e, c)
           /\ SubSeq(m_pattern, e, c) \in Seq(Spelled)
<1>1. m_pattern \in Seq(Spelled) /\ Len(m_pattern) \in Nat
      /\ e \in 1 .. Len(m_pattern) /\ c \in e .. Len(m_pattern) /\ c - 1 \in e .. Len(m_pattern)
  BY ScannedTypes
<1>2. m_pattern[e] = "{" /\ m_pattern[c] = "}"
  BY DEF Opens, Closes
<1>3. c # e + 1
  <2> SUFFICES ASSUME c = e + 1 PROVE FALSE
    OBVIOUS
  <2>1. e \in 1 .. Len(m_pattern) - 1
    BY <1>1
  <2>2. m_pattern[e + 1] = "}"
    BY <1>2, Zenon
  <2> QED
    BY <1>2, <2>1, <2>2 DEF EmptyFormat
<1>4. SubSeq(m_pattern, e + 1, c - 1) \in Seq(Symbol)
      /\ Len(SubSeq(m_pattern, e + 1, c - 1)) = (c - 1) - (e + 1) + 1
  BY <1>1, <1>3, PartOfPattern
<1>5. SubSeq(m_pattern, e + 1, c - 1) # <<>>
  BY <1>1, <1>3, <1>4
<1>6. SubSeq(m_pattern, e, c - 1) = <<m_pattern[e]>> \o SubSeq(m_pattern, e + 1, c - 1)
  BY <1>1, SubSeqRecursiveFirst
<1>7. SubSeq(m_pattern, e, c) = SubSeq(m_pattern, e, c - 1) \o <<m_pattern[c]>>
  BY <1>1, SubSeqRecursiveSecond
<1>8. SubSeq(m_pattern, e, c) \in Seq(Spelled)
  <2>1. \A k \in e .. c : m_pattern[k] \in Spelled
    BY <1>1, ElementOfSeq
  <2> QED
    BY <1>1, <2>1, SubSeqProperties
<1> QED
  BY <1>2, <1>4, <1>5, <1>6, <1>7, <1>8

\* An item pushed leaves nothing behind.
LEMMA ItemSpelled ==
    ASSUME TypeOK, ~EmptyFormat, PushItem
    PROVE  \E item \in Entry :
              /\ vec' = Flushed(item)
              /\ SubSeq(m_pattern, 1, i - 1) \o Spelling(item) = SubSeq(m_pattern, 1, i' - 1)
<1>1. i <= Len(m_pattern) /\ Percent(i) /\ i \in 1 .. Len(m_pattern)
      /\ m_pattern \in Seq(Spelled) /\ Len(m_pattern) \in Nat
  BY ScannedTypes DEF PushItem, Scanning
<1>2. PICK e \in i + 1 .. Len(m_pattern) + 1 :
         \/ vec' = Flushed(Named(SubSeq(m_pattern, i + 1, e - 1), <<>>)) /\ i' = e
         \/ \E c \in e + 1 .. Len(m_pattern) :
               /\ Opens(e) /\ Closes(e, c)
               /\ vec' = Flushed(Named(SubSeq(m_pattern, i + 1, e - 1),
                                       SubSeq(m_pattern, e + 1, c - 1)))
               /\ i' = c + 1
  BY DEF PushItem
<1> DEFINE str == SubSeq(m_pattern, i + 1, e - 1)
           found == SubSeq(m_pattern, i, e - 1)
<1>3. <<"%">> \o str = found /\ str \in Seq(Symbol) /\ found \in Seq(Spelled)
  BY <1>1, <1>2, NameSpelled
<1>4. CASE vec' = Flushed(Named(str, <<>>)) /\ i' = e
  <2> DEFINE item == Named(str, <<>>)
  <2>1. item \in Entry
    BY <1>3, EntryTypes, EmptySeq
  <2>2. found \o <<>> = found
    BY <1>3, ConcatEmptySeq
  <2>3. item.type # 0 /\ item.str = str /\ item.fmt = <<>>
    BY PlainFields, Zenon
  <2> HIDE DEF item
  <2>4. Spelling(item) = found
    BY <1>3, <2>2, <2>3, Zenon DEF Spelling
  <2>5. SubSeq(m_pattern, 1, i - 1) \o found = SubSeq(m_pattern, 1, e - 1)
    <3>1. 1 \in 1 .. Len(m_pattern) + 1 /\ i - 1 \in 0 .. Len(m_pattern)
          /\ e - 1 \in i - 1 .. Len(m_pattern) /\ (i - 1) + 1 = i
      BY <1>1, <1>2
    <3>2. SubSeq(m_pattern, 1, i - 1) \o SubSeq(m_pattern, (i - 1) + 1, e - 1)
            = SubSeq(m_pattern, 1, e - 1)
      BY <1>1, <3>1, ConcatAdjacentSubSeq
    <3> QED
      BY <3>1, <3>2
  <2> QED
    BY <1>4, <2>1, <2>4, <2>5 DEF item
<1>5. ASSUME NEW c \in e + 1 .. Len(m_pattern), Opens(e), Closes(e, c),
             vec' = Flushed(Named(str, SubSeq(m_pattern, e + 1, c - 1))), i' = c + 1
      PROVE  \E item \in Entry :
                /\ vec' = Flushed(item)
                /\ SubSeq(m_pattern, 1, i - 1) \o Spelling(item) = SubSeq(m_pattern, 1, i' - 1)
  <2> DEFINE fmt == SubSeq(m_pattern, e + 1, c - 1)
             item == Named(str, fmt)
             format == SubSeq(m_pattern, e, c)
  <2>0. e \in 1 .. Len(m_pattern)
    BY <1>1, <1>2, <1>5
  <2>1. fmt \in Seq(Symbol) /\ fmt # <<>> /\ (<<"{">> \o fmt) \o <<"}">> = format
        /\ format \in Seq(Spelled)
    BY <1>5, <2>0, FormatSpelled
  <2>2. item \in Entry
    BY <1>3, <2>1, EntryTypes
  <2>3. item.type # 0 /\ item.str = str /\ item.fmt = fmt
    BY NamedFields, Zenon
  <2> HIDE DEF item, fmt
  <2>4. Spelling(item) = found \o format
    BY <1>3, <2>1, <2>3, Zenon DEF Spelling
  <2>5. found \o format = SubSeq(m_pattern, i, c)
    <3>1. i \in 1 .. Len(m_pattern) + 1 /\ e - 1 \in i - 1 .. Len(m_pattern)
          /\ c \in e - 1 .. Len(m_pattern) /\ (e - 1) + 1 = e
      BY <1>1, <1>2, <1>5
    <3>2. SubSeq(m_pattern, i, e - 1) \o SubSeq(m_pattern, (e - 1) + 1, c)
            = SubSeq(m_pattern, i, c)
      BY <1>1, <3>1, ConcatAdjacentSubSeq
    <3> QED
      BY <3>1, <3>2
  <2>6. SubSeq(m_pattern, 1, i - 1) \o SubSeq(m_pattern, i, c) = SubSeq(m_pattern, 1, c)
    <3>1. 1 \in 1 .. Len(m_pattern) + 1 /\ i - 1 \in 0 .. Len(m_pattern)
          /\ c \in i - 1 .. Len(m_pattern) /\ (i - 1) + 1 = i
      BY <1>1, <1>2, <1>5
    <3>2. SubSeq(m_pattern, 1, i - 1) \o SubSeq(m_pattern, (i - 1) + 1, c)
            = SubSeq(m_pattern, 1, c)
      BY <1>1, <3>1, ConcatAdjacentSubSeq
    <3> QED
      BY <3>1, <3>2
  <2>7. i' - 1 = c
    BY <1>1, <1>2, <1>5
  <2> QED
    BY <1>5, <2>2, <2>4, <2>5, <2>6, <2>7 DEF item, fmt
<1> QED
  BY <1>2, <1>4, <1>5

\* Nothing of a pattern is lost, doubled or moved by the scan of init, whatever the
\* pattern: the entries and the pending text spell the part already scanned.
THEOREM NothingLostCorrect == Spec => []NothingLost
<1>1. Init => NothingLost
  <2> SUFFICES ASSUME Init PROVE NothingLost
    OBVIOUS
  <2>1. SubSeq(m_pattern, 1, 0) = <<>>
    BY SubSeqEmpty
  <2>2. <<>> \o <<>> = <<>>
    BY ConcatEmptySeq, EmptySeq
  <2>3. vec = <<>> /\ nstr = <<>> /\ i - 1 = 0
    BY DEF Init
  <2> QED
    BY <2>1, <2>2, <2>3, NothingSpelled, Zenon DEF NothingLost
<1>2. TypeOK /\ NothingLost /\ [Next]_vars => NothingLost'
  <2> SUFFICES ASSUME TypeOK, NothingLost, [Next]_vars, ~EmptyFormat',
                      \A k \in DOMAIN vec' : vec'[k] # PatternError
               PROVE  SpelledOut(vec') \o nstr' = SubSeq(m_pattern', 1, i' - 1)
    BY DEF NothingLost
  <2>0. m_pattern' = m_pattern /\ ~EmptyFormat
    <3>1. AppendText \/ AppendPercent => m_pattern' = m_pattern
      BY DEF AppendText, AppendPercent
    <3>2. PushItem \/ PushPatternError => m_pattern' = m_pattern
      BY DEF PushItem, PushPatternError
    <3>3. EndScan \/ Build \/ EndBuild => m_pattern' = m_pattern
      BY DEF EndScan, Build, EndBuild
    <3>4. UNCHANGED vars => m_pattern' = m_pattern
      BY DEF vars
    <3>5. m_pattern' = m_pattern
      BY <3>1, <3>2, <3>3, <3>4 DEF Next
    <3> QED
      BY <3>5 DEF EmptyFormat
  <2> DEFINE Unbroken == SpelledOut(vec) \o nstr = SubSeq(m_pattern, 1, i - 1)
  <2>1. (\A k \in DOMAIN vec : vec[k] # PatternError) => Unbroken
    BY <2>0 DEF NothingLost
  <2> HIDE DEF Unbroken
  <2>2. CASE AppendText
    <3>1. i <= Len(m_pattern) /\ i' = i + 1 /\ vec' = vec /\ nstr' = Append(nstr, m_pattern[i])
      BY <2>2 DEF AppendText, Scanning
    <3> QED
      BY <2>0, <2>1, <3>1, TextSpelled DEF Unbroken
  <2>3. CASE AppendPercent
    <3>1. i <= Len(m_pattern) /\ i' = i + 1 /\ vec' = vec /\ nstr' = Append(nstr, m_pattern[i])
      BY <2>3 DEF AppendPercent, Scanning, Percent
    <3> QED
      BY <2>0, <2>1, <3>1, TextSpelled DEF Unbroken
  <2>4. CASE PushItem
    <3>1. PICK item \in Entry :
             /\ vec' = Flushed(item)
             /\ SubSeq(m_pattern, 1, i - 1) \o Spelling(item) = SubSeq(m_pattern, 1, i' - 1)
      BY <2>0, <2>4, ItemSpelled
    <3>2. nstr' = <<>>
      BY <2>4 DEF PushItem
    <3>3. SpelledOut(vec') = (SpelledOut(vec) \o nstr) \o Spelling(item)
          /\ \A k \in DOMAIN vec : vec[k] # PatternError
      BY <3>1, FlushedSpelled
    <3>4. SpelledOut(vec') = SubSeq(m_pattern, 1, i' - 1)
      BY <2>1, <3>1, <3>3 DEF Unbroken
    <3>5. SpelledOut(vec') \o <<>> = SpelledOut(vec')
      <4>1. Spelling(item) \in Seq(Spelled) /\ SpelledOut(vec) \o nstr \in Seq(Spelled)
        BY <3>1, SpellingType, ScannedTypes, ConcatProperties
      <4>2. SpelledOut(vec') \in Seq(Spelled)
        BY <3>3, <4>1, ConcatProperties
      <4> QED
        BY <4>2, ConcatEmptySeq
    <3> QED
      BY <2>0, <3>2, <3>4, <3>5
  <2>5. CASE PushPatternError
    <3>1. vec' = Append(vec, PatternError) /\ PatternError \in Entry
      BY <2>5, EntryTypes, EmptySeq DEF PushPatternError
    <3>2. Len(vec) + 1 \in DOMAIN vec' /\ vec'[Len(vec) + 1] = PatternError
      BY <3>1, ScannedTypes, AppendProperties, LenProperties
    <3> QED
      BY <3>2
  <2>6. CASE EndScan
    <3>1. i' = i /\ nstr' = <<>> /\ vec' = IF nstr = <<>> THEN vec ELSE Append(vec, Text(nstr))
      BY <2>6 DEF EndScan
    <3>2. CASE nstr = <<>>
      BY <2>0, <2>1, <3>1, <3>2 DEF Unbroken
    <3>3. CASE nstr # <<>>
      <4>1. vec' = Append(vec, Text(nstr))
        BY <3>1, <3>3
      <4>2. \A k \in DOMAIN vec : k \in DOMAIN vec' /\ vec'[k] = vec[k]
        BY <4>1, ScannedTypes
      <4>3. SpelledOut(vec') = SpelledOut(vec) \o nstr
        BY <4>1, ScannedTypes, SpelledAppended
      <4>4. SpelledOut(vec') \o <<>> = SpelledOut(vec')
        <5>1. SpelledOut(vec) \o nstr \in Seq(Spelled)
          BY ScannedTypes, ConcatProperties
        <5> QED
          BY <4>3, <5>1, ConcatEmptySeq
      <4> QED
        BY <2>0, <2>1, <3>1, <4>2, <4>3, <4>4 DEF Unbroken
    <3> QED
      BY <3>2, <3>3
  <2>7. CASE Build \/ EndBuild \/ UNCHANGED vars
    <3>1. vec' = vec /\ nstr' = nstr /\ i' = i
      BY <2>7 DEF Build, EndBuild, vars
    <3> QED
      BY <2>0, <2>1, <3>1 DEF Unbroken
  <2> QED
    BY <2>2, <2>3, <2>4, <2>5, <2>6, <2>7 DEF Next
<1> QED
  BY <1>1, <1>2, TypeCorrect, PTL DEF Spec
=============================================================================
