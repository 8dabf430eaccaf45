-------------------------- MODULE ConfigVar_proofs --------------------------
(***************************************************************************)
(* Proofs about ConfigVar, for every set of keys and of values, every      *)
(* depth of calls and every behaviour of the listeners, unless a theorem   *)
(* says otherwise.                                                         *)
(***************************************************************************)
EXTENDS ConfigVar, SequenceTheorems, TLAPS

\* The elements of a sequence, of what remains of it when its end is cut off and
\* of what it is when an element is appended or replaced.
LEMMA CallsDomain ==
    ASSUME NEW S, NEW s \in Seq(S)
    PROVE  /\ Len(s) \in Nat /\ DOMAIN s = 1 .. Len(s)
           /\ \A k \in 1 .. Len(s) : s[k] \in S
           /\ s # <<>> => Len(s) \in 1 .. Len(s)
  BY ElementOfSeq, LenProperties, EmptySeq

LEMMA CutSeq ==
    ASSUME NEW S, NEW s \in Seq(S), NEW n \in 0 .. Len(s)
    PROVE  /\ SubSeq(s, 1, n) \in Seq(S) /\ Len(SubSeq(s, 1, n)) = n
           /\ \A k \in 1 .. n : SubSeq(s, 1, n)[k] = s[k]
<1>1. Len(s) \in Nat
  BY LenProperties
<1>2. \A k \in 1 .. n : s[k] \in S
  BY <1>1, ElementOfSeq
<1> QED
  BY <1>1, <1>2, SubSeqProperties

LEMMA KeyInt == Key \subseteq Int
  BY ConfigVarAssumption

LEMMA TopType ==
    ASSUME TypeOK, ~Idle
    PROVE  /\ Len(calls) \in 1 .. Len(calls)
           /\ Top \in Call /\ Top.at \in Key /\ Top.v \in Value
           /\ Top.lost \/ Top.at \in m_cbs
           /\ Top.kept \subseteq m_cbs
<1>1. calls \in Seq(Call) /\ calls # <<>>
  BY DEF TypeOK, Idle
<1>2. Len(calls) \in 1 .. Len(calls) /\ DOMAIN calls = 1 .. Len(calls) /\ Top \in Call
  BY <1>1, CallsDomain DEF Top
<1> QED
  BY <1>2 DEF TypeOK, Top, Call

\* How each action changes the stack of calls.
LEMMA AppendCall ==
    ASSUME TypeOK, NEW v \in Value, NEW guarded \in BOOLEAN, NEW key \in m_cbs
    PROVE  LET c   == [v |-> v, at |-> key, lost |-> FALSE, guarded |-> guarded,
                       kept |-> m_cbs, told |-> {<<key, m_val>>}]
               new == Append(calls, c)
           IN  /\ c \in Call
               /\ new \in Seq(Call) /\ Len(new) = Len(calls) + 1
               /\ DOMAIN new = 1 .. Len(calls) + 1
               /\ \A k \in 1 .. Len(calls) : new[k] = calls[k]
               /\ new[Len(calls) + 1] = c
<1> DEFINE c == [v |-> v, at |-> key, lost |-> FALSE, guarded |-> guarded,
                 kept |-> m_cbs, told |-> {<<key, m_val>>}]
<1>1. c \in Call
  BY DEF TypeOK, Call
<1>2. calls \in Seq(Call)
  BY DEF TypeOK
<1> HIDE DEF c
<1>3. /\ Append(calls, c) \in Seq(Call) /\ Len(Append(calls, c)) = Len(calls) + 1
      /\ \A k \in 1 .. Len(calls) : Append(calls, c)[k] = calls[k]
      /\ Append(calls, c)[Len(calls) + 1] = c
  BY <1>1, <1>2, AppendProperties
<1>4. DOMAIN Append(calls, c) = 1 .. Len(calls) + 1
  BY <1>3, LenProperties
<1> QED
  BY <1>1, <1>3, <1>4 DEF c

LEMMA ToldType ==
    ASSUME TypeOK, ~Idle, NEW key \in m_cbs
    PROVE  Told(key) \in Call
  BY TopType DEF Told, TypeOK, Call

LEMMA NextCall ==
    ASSUME TypeOK, NextListener
    PROVE  \E key \in m_cbs :
             /\ key > Top.at
             /\ \A k \in m_cbs : k > Top.at => key <= k
             /\ calls' = [calls EXCEPT ![Len(calls)] = Told(key)]
             /\ calls' \in Seq(Call) /\ Len(calls') = Len(calls)
             /\ \A k \in 1 .. Len(calls) :
                   calls'[k] = IF k = Len(calls) THEN Told(key) ELSE calls[k]
             /\ Tell(key, Top.v)
<1>1. PICK key \in m_cbs :
         /\ IsFirst(key, Later(Top.at))
         /\ calls' = [calls EXCEPT ![Len(calls)] = Told(key)]
         /\ Tell(key, Top.v)
  BY DEF NextListener
<1>2. key > Top.at /\ \A k \in m_cbs : k > Top.at => key <= k
  BY <1>1 DEF IsFirst, Later
<1>3. ~Idle
  BY DEF NextListener
<1>4. Told(key) \in Call /\ calls \in Seq(Call) /\ Len(calls) \in 1 .. Len(calls)
  BY <1>3, ToldType, TopType DEF TypeOK
<1>5. /\ calls' \in Seq(Call) /\ Len(calls') = Len(calls)
      /\ \A k \in 1 .. Len(calls) :
            calls'[k] = IF k = Len(calls) THEN Told(key) ELSE calls[k]
  BY <1>1, <1>4, ExceptSeq
<1> QED
  BY <1>1, <1>2, <1>5

\* Store and Throw leave a proper prefix of the stack.
LEMMA CutCalls ==
    ASSUME TypeOK, Store \/ Throw
    PROVE  /\ calls' \in Seq(Call) /\ Len(calls') < Len(calls)
           /\ \A k \in 1 .. Len(calls') : calls'[k] = calls[k]
           /\ DOMAIN calls' \subseteq DOMAIN calls
<1>1. calls \in Seq(Call) /\ ~Idle
  BY DEF TypeOK, Store, Throw
<1>2. PICK n \in 0 .. Len(calls) - 1 : calls' = SubSeq(calls, 1, n)
  <2>1. CASE Store
    <3>1. Len(calls) - 1 \in 0 .. Len(calls) - 1
      BY <1>1, TopType
    <3> QED
      BY <2>1, <3>1 DEF Store
  <2>2. CASE Throw
    BY <2>2 DEF Throw, Abandon
  <2> QED
    BY <2>1, <2>2
<1>3. Len(calls) \in Nat
  BY <1>1, LenProperties
<1>4. n \in 0 .. Len(calls) /\ n < Len(calls)
  BY <1>3
<1>5. /\ calls' \in Seq(Call) /\ Len(calls') = n
      /\ \A k \in 1 .. n : calls'[k] = calls[k]
  BY <1>1, <1>2, <1>4, CutSeq
<1>6. DOMAIN calls' = 1 .. n /\ DOMAIN calls = 1 .. Len(calls)
  BY <1>1, <1>5, LenProperties
<1> QED
  BY <1>3, <1>4, <1>5, <1>6

\* Registering and removing a listener only shrinks the sets kept, and loses the place
\* of a loop only when it erases the node the loop is at.
LEMMA ForgetCalls ==
    ASSUME TypeOK, NEW keys, NEW erased, Forget(keys, erased)
    PROVE  /\ calls' \in Seq(Call) /\ Len(calls') = Len(calls) /\ DOMAIN calls' = DOMAIN calls
           /\ \A k \in DOMAIN calls :
                 /\ calls'[k].at = calls[k].at /\ calls'[k].told = calls[k].told
                 /\ calls'[k].v = calls[k].v /\ calls'[k].kept = calls[k].kept \ keys
                 /\ calls'[k].lost <=> Lost(calls[k], erased)
           /\ news' = [k \in DOMAIN news \ keys |-> news[k]]
<1>1. /\ calls \in Seq(Call) /\ Len(calls) \in Nat /\ DOMAIN calls = 1 .. Len(calls)
      /\ \A k \in 1 .. Len(calls) : calls[k] \in Call
  BY CallsDomain DEF TypeOK
<1>2. calls' = [k \in 1 .. Len(calls) |->
                    [calls[k] EXCEPT !.kept = calls[k].kept \ keys,
                                     !.lost = Lost(calls[k], erased)]]
  BY <1>1 DEF Forget
<1>3. ASSUME NEW k \in 1 .. Len(calls)
      PROVE  /\ calls'[k] \in Call
             /\ calls'[k].at = calls[k].at /\ calls'[k].told = calls[k].told
             /\ calls'[k].v = calls[k].v /\ calls'[k].kept = calls[k].kept \ keys
             /\ calls'[k].lost <=> Lost(calls[k], erased)
  <2> DEFINE c == calls[k]
             d == [v |-> c.v, at |-> c.at, lost |-> Lost(c, erased), guarded |-> c.guarded,
                   kept |-> c.kept \ keys, told |-> c.told]
  <2>1. c \in Call /\ calls'[k] = [c EXCEPT !.kept = c.kept \ keys, !.lost = Lost(c, erased)]
    BY <1>1, <1>2
  <2>2. Lost(c, erased) \in BOOLEAN BY <2>1 DEF Lost, Call
  <2> HIDE DEF c
  <2>3. calls'[k] = d BY <2>1 DEF Call
  <2>4. d \in Call BY <2>1, <2>2 DEF Call
  <2> QED
    BY <2>3, <2>4 DEF c
<1>4. calls' \in [1 .. Len(calls) -> Call]
  BY <1>2, <1>3
<1>5. calls' \in Seq(Call)
  BY <1>1, <1>4, SeqDef
<1>6. DOMAIN calls' = 1 .. Len(calls')
  BY <1>5, LenProperties
<1>7. DOMAIN calls' = 1 .. Len(calls)
  BY <1>2
<1>8. Len(calls') = Len(calls)
  BY <1>1, <1>4, <1>5, LenProperties
<1> QED
  BY <1>1, <1>3, <1>5, <1>7, <1>8 DEF Forget

-----------------------------------------------------------------------------
LEMMA TellType ==
    ASSUME TypeOK, NEW key \in m_cbs, NEW v \in Value, Tell(key, v)
    PROVE  /\ DOMAIN news' \subseteq m_cbs
           /\ \A k \in DOMAIN news' : news'[k] \in Value
  BY DEF TypeOK, Tell

LEMMA ForgetType ==
    ASSUME TypeOK, NEW keys, NEW erased, Forget(keys, erased),
           m_val' = m_val, moves' = moves, wild' = wild,
           m_cbs' \subseteq Key, m_cbs \ keys \subseteq m_cbs', m_cbs \ erased \subseteq m_cbs'
    PROVE  TypeOK'
<1>1. /\ calls' \in Seq(Call) /\ Len(calls') = Len(calls) /\ DOMAIN calls' = DOMAIN calls
      /\ \A k \in DOMAIN calls :
            /\ calls'[k].at = calls[k].at /\ calls'[k].kept = calls[k].kept \ keys
            /\ calls'[k].lost <=> Lost(calls[k], erased)
      /\ news' = [k \in DOMAIN news \ keys |-> news[k]]
  BY ForgetCalls
<1>2. ASSUME NEW k \in DOMAIN calls'
      PROVE  calls'[k].kept \subseteq m_cbs' /\ (calls'[k].lost \/ calls'[k].at \in m_cbs')
  <2>1. calls[k].kept \subseteq m_cbs /\ (calls[k].lost \/ calls[k].at \in m_cbs)
    BY <1>1 DEF TypeOK
  <2>2. k \in DOMAIN calls BY <1>1
  <2>3. /\ calls'[k].at = calls[k].at /\ calls'[k].kept = calls[k].kept \ keys
        /\ calls'[k].lost <=> Lost(calls[k], erased)
    BY <1>1, <2>2
  <2>4. calls'[k].lost \/ (~calls[k].lost /\ calls[k].at \notin erased)
    BY <2>3, Zenon DEF Lost
  <2>5. calls'[k].kept \subseteq m_cbs' BY <2>1, <2>3
  <2>6. calls'[k].lost \/ calls'[k].at \in m_cbs'
    <3>1. CASE calls'[k].lost BY <3>1
    <3>2. CASE ~calls[k].lost /\ calls[k].at \notin erased BY <2>1, <2>3, <3>2
    <3> QED BY <2>4, <3>1, <3>2
  <2> QED BY <2>5, <2>6
<1>3. DOMAIN news' \subseteq m_cbs' /\ \A k \in DOMAIN news' : news'[k] \in Value
  BY <1>1 DEF TypeOK
<1> QED
  BY <1>1, <1>2, <1>3 DEF TypeOK

\* What the listeners of the program do does not change.
LEMMA MovesKept == ASSUME [Next]_vars PROVE moves' = moves
BY DEF Next, SetValue, Return, NextListener, Store, Stray, Throw, AddListener,
       DelListener, CleanListener, vars

\* The types, for any constants.
LEMMA TypeCorrect == Spec => []TypeOK
<1>1. Init => TypeOK
  <2> SUFFICES ASSUME Init PROVE TypeOK OBVIOUS
  <2>1. Default \in Value /\ MaxDepth \in Nat BY ConfigVarAssumption
  <2>2. calls = <<>> /\ DOMAIN calls = {} /\ Len(calls) = 0 /\ calls \in Seq(Call)
    BY EmptySeq DEF Init
  <2>3. DOMAIN news = {} BY DEF Init
  <2>4. Len(calls) <= MaxDepth BY <2>1, <2>2
  <2> QED BY <2>1, <2>2, <2>3, <2>4 DEF Init, TypeOK
<1>2. TypeOK /\ [Next]_vars => TypeOK'
  <2> SUFFICES ASSUME TypeOK, [Next]_vars PROVE TypeOK'
    OBVIOUS
  <2> USE DEF TypeOK
  <2>m. moves' = moves
    BY MovesKept
  <2> USE <2>m
  <2>0. /\ Len(calls) \in Nat /\ DOMAIN calls = 1 .. Len(calls) /\ MaxDepth \in Nat
        /\ \A k \in DOMAIN calls : calls[k] \in Call
    BY CallsDomain, ConfigVarAssumption
  <2>1. ASSUME NEW v \in Value, NEW guarded \in BOOLEAN, SetValue(v, guarded) PROVE TypeOK'
    <3>1. CASE m_cbs = {} /\ m_val' = v /\ UNCHANGED <<m_cbs, calls, news>>
      BY <2>1, <3>1 DEF SetValue
    <3>2. ASSUME NEW key \in m_cbs,
                 calls' = Append(calls, [v |-> v, at |-> key, lost |-> FALSE, guarded |-> guarded,
                                         kept |-> m_cbs, told |-> {<<key, m_val>>}]),
                 Tell(key, v), UNCHANGED <<m_val, m_cbs>>
          PROVE  TypeOK'
      <4>1. Len(calls) < MaxDepth
        BY <2>1 DEF SetValue
      <4>2. /\ calls' \in Seq(Call) /\ Len(calls') = Len(calls) + 1
            /\ \A k \in DOMAIN calls' : /\ calls'[k].lost \/ calls'[k].at \in m_cbs
                                       /\ calls'[k].kept \subseteq m_cbs
        BY <2>0, <3>2, AppendCall
      <4>3. Len(calls') <= MaxDepth
        BY <2>0, <4>1, <4>2
      <4>4. wild' = wild
        BY <2>1 DEF SetValue
      <4> QED
        BY <3>2, <4>2, <4>3, <4>4, TellType
    <3> QED
      BY <2>1, <3>1, <3>2 DEF SetValue
  <2>2. CASE NextListener
    <3>1. PICK key \in m_cbs :
             /\ calls' \in Seq(Call) /\ Len(calls') = Len(calls)
             /\ \A k \in 1 .. Len(calls) :
                   calls'[k] = IF k = Len(calls) THEN Told(key) ELSE calls[k]
             /\ Tell(key, Top.v)
      BY <2>2, NextCall
    <3>2. Told(key).at = key /\ Told(key).kept = Top.kept
      BY DEF Told
    <3>3. ~Idle /\ UNCHANGED <<m_val, m_cbs, wild>>
      BY <2>2 DEF NextListener
    <3>4. \A k \in DOMAIN calls' :
             calls'[k].kept \subseteq m_cbs /\ (calls'[k].lost \/ calls'[k].at \in m_cbs)
      <4>1. DOMAIN calls' = 1 .. Len(calls)
        BY <3>1, LenProperties
      <4> QED
        BY <2>0, <3>1, <3>2, <3>3, <4>1, TopType
    <3> QED
      BY <3>1, <3>3, <3>4, TopType, TellType
  <2>3. CASE Store \/ Throw
    <3>1. m_val' \in Value /\ UNCHANGED <<m_cbs, wild, news>>
      BY <2>3, TopType DEF Store, Throw
    <3>2. /\ calls' \in Seq(Call) /\ Len(calls') < Len(calls)
          /\ \A k \in DOMAIN calls' : k \in DOMAIN calls /\ calls'[k] = calls[k]
      BY <2>3, CutCalls, LenProperties
    <3>3. Len(calls') <= MaxDepth
      BY <2>0, <3>2, LenProperties
    <3> QED
      BY <3>1, <3>2, <3>3
  <2>4. ASSUME NEW key \in Key, AddListener(key) PROVE TypeOK'
    <3>1. /\ m_cbs' = m_cbs \cup {key} /\ m_val' = m_val /\ wild' = wild
          /\ Forget({key}, {})
      BY <2>4 DEF AddListener
    <3> QED
      BY <3>1, ForgetType
  <2>5. ASSUME NEW key \in Key, DelListener(key) PROVE TypeOK'
    <3>1. /\ m_cbs' = m_cbs \ {key} /\ m_val' = m_val /\ wild' = wild
          /\ Forget({key}, {key})
      BY <2>5 DEF DelListener
    <3> QED
      BY <3>1, ForgetType
  <2>6. CASE CleanListener
    <3>1. m_cbs' = {} /\ m_val' = m_val /\ wild' = wild /\ Forget(m_cbs, m_cbs)
      BY <2>6 DEF CleanListener
    <3> QED
      BY <3>1, ForgetType
  <2>8. CASE Stray
    BY <2>8 DEF Stray
  <2>7. CASE UNCHANGED vars
    BY <2>7 DEF vars
  <2> QED
    BY <2>1, <2>2, <2>3, <2>4, <2>5, <2>6, <2>7, <2>8 DEF Next, Return
<1> QED
  BY <1>1, <1>2, PTL DEF Spec

-----------------------------------------------------------------------------
\* The loop of setValue goes by the order of the keys: in every call in progress,
\* the kept listeners up to the one that runs have been called.
Called(key, told) == \E old \in Value : <<key, old>> \in told

InOrder ==
    \A k \in DOMAIN calls :
        \A key \in calls[k].kept : key <= calls[k].at => Called(key, calls[k].told)

LEMMA InOrderKept == ASSUME TypeOK, InOrder, [Next]_vars PROVE InOrder'
<1>0. /\ Len(calls) \in Nat /\ DOMAIN calls = 1 .. Len(calls)
      /\ \A k \in DOMAIN calls : calls[k] \in Call
  BY CallsDomain DEF TypeOK
<1>K. m_cbs \subseteq Int /\ m_val \in Value
  BY ConfigVarAssumption DEF TypeOK
<1>1. ASSUME NEW v \in Value, NEW guarded \in BOOLEAN, SetValue(v, guarded) PROVE InOrder'
  <2>1. CASE UNCHANGED calls
    BY <2>1 DEF InOrder
  <2>2. ASSUME NEW first \in m_cbs, IsFirst(first, m_cbs),
               calls' = Append(calls, [v |-> v, at |-> first, lost |-> FALSE, guarded |-> guarded,
                                       kept |-> m_cbs, told |-> {<<first, m_val>>}])
        PROVE  InOrder'
    <3>1. /\ DOMAIN calls' = 1 .. Len(calls) + 1
          /\ \A k \in 1 .. Len(calls) : calls'[k] = calls[k]
          /\ calls'[Len(calls) + 1].at = first
          /\ calls'[Len(calls) + 1].kept = m_cbs
          /\ calls'[Len(calls) + 1].told = {<<first, m_val>>}
      BY <2>2, AppendCall
    <3>2. \A key \in m_cbs : key <= first => key = first
      BY <2>2, <1>K DEF IsFirst
    <3>3. Called(first, {<<first, m_val>>})
      BY <1>K DEF Called
    <3>4. \A k \in DOMAIN calls' : k \in DOMAIN calls \/ k = Len(calls) + 1
      BY <1>0, <3>1
    <3> QED
      BY <1>0, <3>1, <3>2, <3>3, <3>4 DEF InOrder
  <2> QED
    BY <1>1, <2>1, <2>2 DEF SetValue
<1>2. CASE NextListener
  <2>1. PICK next \in m_cbs :
           /\ next > Top.at
           /\ \A k \in m_cbs : k > Top.at => next <= k
           /\ calls' \in Seq(Call) /\ Len(calls') = Len(calls)
           /\ \A k \in 1 .. Len(calls) :
                 calls'[k] = IF k = Len(calls) THEN Told(next) ELSE calls[k]
    BY <1>2, NextCall
  <2>2. DOMAIN calls' = DOMAIN calls
    BY <1>0, <2>1, LenProperties
  <2>3. ~Idle
    BY <1>2 DEF NextListener
  <2>4. Top.at \in Int /\ Top.kept \subseteq m_cbs
    BY <1>K, <2>3, TopType, KeyInt
  <2>5. \A key \in Top.kept : key <= next => key <= Top.at \/ key = next
    BY <1>K, <2>1, <2>4
  <2>6. \A key \in Top.kept : key <= Top.at => Called(key, Top.told)
    BY <2>3, <1>0, TopType DEF InOrder, Top
  <2>7. \A key \in Told(next).kept : key <= Told(next).at => Called(key, Told(next).told)
    BY <1>K, <2>5, <2>6 DEF Told, Called
  <2> QED
    BY <1>0, <2>1, <2>2, <2>7 DEF InOrder
<1>3. CASE Store \/ Throw
  <2>1. \A k \in DOMAIN calls' : k \in DOMAIN calls /\ calls'[k] = calls[k]
    BY <1>3, CutCalls, LenProperties
  <2> QED
    BY <2>1 DEF InOrder
<1>4. ASSUME NEW keys, NEW erased, Forget(keys, erased) PROVE InOrder'
  BY <1>4, ForgetCalls DEF InOrder
<1>5. CASE Stray \/ UNCHANGED vars
  BY <1>5 DEF Stray, vars, InOrder
<1> QED
  BY <1>1, <1>2, <1>3, <1>4, <1>5
  DEF Next, Return, AddListener, DelListener, CleanListener

\* A change of the value outside a call is one nobody listens to; one inside a
\* call is its Store.
LEMMA ChangeIsStore ==
    ASSUME TypeOK, [Next]_vars, m_val' # m_val, ~Idle, m_cbs # {}
    PROVE  Store
  BY DEF Next, vars, SetValue, Return, NextListener, Stray, Throw, AddListener,
         DelListener, CleanListener

\* When the value is stored, no registered listener comes after the last one
\* called, so all those kept have been called.
LEMMA StoredStep ==
    ASSUME TypeOK, InOrder, [Next]_vars, m_val' # m_val, ~Idle, NEW key \in Top.kept
    PROVE  Called(key, Top.told)
<1>1. Top.at \in Key /\ Top.kept \subseteq m_cbs /\ Len(calls) \in DOMAIN calls
  BY TopType, CallsDomain DEF TypeOK
<1>2. Later(Top.at) = {}
  BY <1>1, ChangeIsStore DEF Store
<1>3. key \in Int /\ Top.at \in Int
  <2>1. m_cbs \subseteq Int /\ Key \subseteq Int
    BY ConfigVarAssumption DEF TypeOK
  <2> QED
    BY <1>1, <2>1
<1>4. ~(key > Top.at)
  BY <1>1, <1>2 DEF Later
<1>5. key <= Top.at
  BY <1>3, <1>4
<1> QED
  BY <1>1, <1>5 DEF InOrder, Top

\* No value is stored before each listener registered all along has been called
\* with it, whatever the listeners do.
THEOREM StoredAfterAllCorrect == Spec => StoredAfterAll
<1>1. Init => InOrder
  BY DEF Init, InOrder
<1>2. TypeOK /\ InOrder /\ [Next]_vars => InOrder'
  BY InOrderKept
<1>3. TypeOK /\ InOrder /\ [Next]_vars =>
        [m_val' # m_val /\ ~Idle =>
            \A key \in Top.kept : \E old \in Value : <<key, old>> \in Top.told]_vars
  BY StoredStep DEF Called
<1> QED
  BY <1>1, <1>2, <1>3, TypeCorrect, PTL DEF Spec, StoredAfterAll

-----------------------------------------------------------------------------
\* When no listener sets the variable, there is one call at most and the value
\* does not change during it.
OneCall ==
    /\ Len(calls) <= 1
    /\ \A k \in DOMAIN calls : \A t \in calls[k].told : t[2] = m_val

LEMMA OneCallKept ==
    ASSUME "set" \notin moves, TypeOK, OneCall, [Next]_vars
    PROVE  OneCall'
<1>0. Len(calls) \in Nat /\ DOMAIN calls = 1 .. Len(calls)
  BY CallsDomain DEF TypeOK
<1>1. ASSUME NEW v \in Value, NEW guarded \in BOOLEAN, SetValue(v, guarded) PROVE OneCall'
  <2>1. calls = <<>> /\ Len(calls) = 0
    BY <1>1, EmptySeq DEF SetValue, May, Idle
  <2>2. CASE UNCHANGED calls
    BY <1>0, <2>1, <2>2 DEF OneCall
  <2>3. ASSUME NEW first \in m_cbs, m_val' = m_val,
               calls' = Append(calls, [v |-> v, at |-> first, lost |-> FALSE, guarded |-> guarded,
                                       kept |-> m_cbs, told |-> {<<first, m_val>>}])
        PROVE  OneCall'
    <3>1. /\ Len(calls') = 1 /\ DOMAIN calls' = 1 .. 1
          /\ calls'[1].told = {<<first, m_val>>}
      BY <2>1, <2>3, AppendCall
    <3> QED
      BY <2>3, <3>1 DEF OneCall
  <2> QED
    BY <1>1, <2>2, <2>3 DEF SetValue
<1>2. CASE NextListener
  <2>1. PICK next \in m_cbs :
           /\ calls' \in Seq(Call) /\ Len(calls') = Len(calls)
           /\ \A k \in 1 .. Len(calls) :
                 calls'[k] = IF k = Len(calls) THEN Told(next) ELSE calls[k]
    BY <1>2, NextCall
  <2>2. DOMAIN calls' = DOMAIN calls
    BY <1>0, <2>1, LenProperties
  <2>3. m_val' = m_val /\ Len(calls) \in DOMAIN calls
    BY <1>0, <1>2, TopType DEF NextListener
  <2>4. \A t \in Told(next).told : t[2] = m_val
    BY <2>3 DEF Told, OneCall, Top
  <2> QED
    BY <1>0, <2>1, <2>2, <2>3, <2>4 DEF OneCall
<1>3. CASE Store \/ Throw
  <2>1. Len(calls') \in Nat /\ Len(calls') < Len(calls) /\ DOMAIN calls' = 1 .. Len(calls')
    BY <1>3, CutCalls, LenProperties
  <2> QED
    BY <1>0, <2>1 DEF OneCall
<1>4. ASSUME NEW keys, NEW erased, Forget(keys, erased), m_val' = m_val PROVE OneCall'
  BY <1>4, ForgetCalls DEF OneCall
<1>5. CASE Stray \/ UNCHANGED vars
  BY <1>5 DEF Stray, vars, OneCall
<1> QED
  BY <1>1, <1>2, <1>3, <1>4, <1>5
  DEF Next, Return, AddListener, DelListener, CleanListener

Alone == "set" \notin moves => OneCall

\* When no listener sets the variable again, each one is told of every change,
\* with the value that is replaced and the one that replaces it.
THEOREM HeardThisChangeCorrect == Spec => HeardThisChange
<1>1. Init => InOrder /\ Alone
  BY EmptySeq DEF Init, InOrder, OneCall, Alone
<1>2. TypeOK /\ InOrder /\ Alone /\ [Next]_vars => InOrder' /\ Alone'
  BY InOrderKept, OneCallKept, MovesKept DEF Alone
<1>3. TypeOK /\ InOrder /\ Alone /\ [Next]_vars =>
        [m_val' # m_val /\ ~Idle /\ "set" \notin moves =>
            \A key \in Top.kept : <<key, m_val>> \in Top.told]_vars
  <2> SUFFICES ASSUME TypeOK, InOrder, OneCall, [Next]_vars, m_val' # m_val, ~Idle,
                      NEW key \in Top.kept
               PROVE  <<key, m_val>> \in Top.told
    BY DEF Alone
  <2>1. Called(key, Top.told)
    BY StoredStep
  <2>2. \A t \in Top.told : t[2] = m_val
    BY TopType, CallsDomain DEF TypeOK, OneCall, Top
  <2>3. PICK old \in Value : <<key, old>> \in Top.told
    BY <2>1 DEF Called
  <2>4. old = m_val
    BY <2>2, <2>3
  <2> QED
    BY <2>3, <2>4
<1> QED
  BY <1>1, <1>2, <1>3, TypeCorrect, PTL DEF Spec, HeardThisChange

-----------------------------------------------------------------------------
\* When listeners neither throw nor set the variable, the one call in progress has
\* told its value to the listeners up to the one that runs, while those after it,
\* and all of them between calls, know the value that is stored: a listener that is
\* registered meanwhile has been told nothing.
Plain == moves \subseteq {"add", "del"}

Known(key) == IF ~Idle /\ key <= Top.at THEN Top.v ELSE m_val

NewsInv == Plain => OneCall /\ \A key \in DOMAIN news : news[key] = Known(key)

LEMMA NewsKept ==
    ASSUME TypeOK, TypeOK', NewsInv, Plain, [Next]_vars
    PROVE  \A key \in DOMAIN news' : news'[key] = Known(key)'
<1>0. /\ Len(calls) \in Nat /\ DOMAIN calls = 1 .. Len(calls) /\ Len(calls) <= 1
      /\ m_cbs \subseteq Int /\ DOMAIN news \subseteq m_cbs
      /\ \A key \in DOMAIN news : news[key] = Known(key)
      /\ "set" \notin moves /\ "throw" \notin moves
  BY CallsDomain, ConfigVarAssumption DEF TypeOK, NewsInv, OneCall, Plain
<1>1. ASSUME NEW v \in Value, NEW guarded \in BOOLEAN, SetValue(v, guarded)
      PROVE  \A key \in DOMAIN news' : news'[key] = Known(key)'
  <2>1. Idle /\ calls = <<>> /\ Len(calls) = 0
    BY <1>0, <1>1, EmptySeq DEF SetValue, May, Idle
  <2>2. CASE m_cbs = {} /\ UNCHANGED news
    BY <1>0, <2>2
  <2>3. ASSUME NEW first \in m_cbs, IsFirst(first, m_cbs), m_val' = m_val, Tell(first, v),
               calls' = Append(calls, [v |-> v, at |-> first, lost |-> FALSE, guarded |-> guarded,
                                       kept |-> m_cbs, told |-> {<<first, m_val>>}])
        PROVE  \A key \in DOMAIN news' : news'[key] = Known(key)'
    <3>1. ~Idle' /\ Top'.at = first /\ Top'.v = v
      <4>1. Len(calls') = 1 /\ calls'[1].at = first /\ calls'[1].v = v
        BY <2>1, <2>3, AppendCall
      <4> QED BY <4>1, EmptySeq DEF Idle, Top
    <3>2. \A key \in m_cbs : key <= first => key = first
      BY <1>0, <2>3 DEF IsFirst
    <3>3. \A key \in DOMAIN news : news[key] = m_val
      BY <1>0, <2>1 DEF Known
    <3>4. /\ first \in m_cbs
          /\ news' = [k \in DOMAIN news \cup {first} |-> IF k = first THEN v ELSE news[k]]
      BY <2>3 DEF Tell
    <3>5. SUFFICES ASSUME NEW key \in DOMAIN news \cup {first}
                   PROVE  (IF key = first THEN v ELSE news[key]) = Known(key)'
      BY <3>4
    <3>6. key \in m_cbs BY <1>0, <3>4
    <3>7. Known(key)' = IF key <= first THEN v ELSE m_val BY <2>3, <3>1 DEF Known
    <3>8. CASE key = first
      <4>1. key <= first BY <1>0, <3>4, <3>8
      <4> QED BY <3>7, <3>8, <4>1
    <3>9. CASE key # first BY <3>2, <3>3, <3>6, <3>7, <3>9
    <3> QED
      BY <3>8, <3>9
  <2> QED
    BY <1>1, <2>2, <2>3 DEF SetValue
<1>2. CASE NextListener
  <2>1. PICK next \in m_cbs :
           /\ next > Top.at
           /\ \A k \in m_cbs : k > Top.at => next <= k
           /\ calls' \in Seq(Call) /\ Len(calls') = Len(calls)
           /\ \A k \in 1 .. Len(calls) :
                 calls'[k] = IF k = Len(calls) THEN Told(next) ELSE calls[k]
           /\ Tell(next, Top.v)
    BY <1>2, NextCall
  <2>2. ~Idle /\ m_val' = m_val
    BY <1>2 DEF NextListener
  <2>3. Top.at \in Int /\ Len(calls) \in 1 .. Len(calls)
    BY <1>0, <2>2, TopType, KeyInt
  <2>4. ~Idle' /\ Top'.at = next /\ Top'.v = Top.v
    BY <2>1, <2>3, EmptySeq DEF Idle, Top, Told
  <2>5. ASSUME NEW key \in m_cbs
        PROVE  key <= next <=> key <= Top.at \/ key = next
    <3>1. key \in Int /\ next \in Int /\ Top.at \in Int
      BY <1>0, <2>1, <2>3
    <3>2. next > Top.at /\ (key > Top.at => next <= key)
      BY <2>1
    <3> QED
      BY <3>1, <3>2
  <2> QED
    BY <1>0, <2>1, <2>2, <2>4, <2>5 DEF Known, Tell
<1>3. CASE Store
  <2>1. ~Idle /\ m_val' = Top.v /\ news' = news /\ Later(Top.at) = {}
    BY <1>3 DEF Store
  <2>2. Idle'
    <3>1. calls' \in Seq(Call) /\ Len(calls') \in Nat /\ Len(calls') < Len(calls)
      BY <1>3, CutCalls, LenProperties
    <3> QED
      BY <1>0, <3>1, EmptySeq DEF Idle
  <2>3. ASSUME NEW key \in m_cbs
        PROVE  key <= Top.at
    <3>1. key \in Int /\ Top.at \in Int
      BY <1>0, <2>1, TopType, KeyInt
    <3>2. ~(key > Top.at)
      BY <2>1 DEF Later
    <3> QED
      BY <3>1, <3>2
  <2> QED
    BY <1>0, <2>1, <2>2, <2>3 DEF Known
<1>4. CASE Throw
  BY <1>0, <1>4 DEF Throw
<1>5. ASSUME NEW keys, NEW erased, Forget(keys, erased), m_val' = m_val
      PROVE  \A key \in DOMAIN news' : news'[key] = Known(key)'
  <2>1. /\ calls' \in Seq(Call) /\ Len(calls') = Len(calls)
        /\ \A k \in DOMAIN calls : calls'[k].at = calls[k].at /\ calls'[k].v = calls[k].v
        /\ news' = [k \in DOMAIN news \ keys |-> news[k]]
    BY <1>5, ForgetCalls
  <2>2. Idle' <=> Idle
    BY <1>0, <2>1, EmptySeq DEF Idle, TypeOK
  <2>3. ~Idle => Top'.at = Top.at /\ Top'.v = Top.v
    BY <1>0, <2>1, TopType DEF Top
  <2> QED
    BY <1>0, <1>5, <2>1, <2>2, <2>3 DEF Known
<1>6. CASE Stray \/ UNCHANGED vars
  BY <1>0, <1>6 DEF Stray, vars, Known, Idle, Top
<1> QED
  BY <1>1, <1>2, <1>3, <1>4, <1>5, <1>6
  DEF Next, Return, AddListener, DelListener, CleanListener

\* Between calls each listener has last been told the stored value, if listeners
\* neither throw nor set the variable, whatever they register or remove.
THEOREM LastNewsCorrect == Spec => []LastNewsIsValue
<1>1. Init => NewsInv
  BY EmptySeq DEF Init, NewsInv, OneCall
<1>2. TypeOK /\ TypeOK' /\ NewsInv /\ [Next]_vars => NewsInv'
  <2> SUFFICES ASSUME TypeOK, TypeOK', NewsInv, [Next]_vars, Plain'
               PROVE  OneCall' /\ \A key \in DOMAIN news' : news'[key] = Known(key)'
    BY DEF NewsInv
  <2>1. Plain /\ "set" \notin moves
    BY MovesKept DEF Plain
  <2>2. OneCall'
    BY <2>1, OneCallKept DEF NewsInv
  <2> QED
    BY <2>1, <2>2, NewsKept
<1>3. NewsInv => LastNewsIsValue
  BY DEF NewsInv, LastNewsIsValue, Plain, Known
<1> QED
  BY <1>1, <1>2, <1>3, TypeCorrect, PTL DEF Spec

-----------------------------------------------------------------------------
\* When no listener sets the variable or removes itself, the one loop in progress is
\* at a node that is still there, whatever other listeners are removed.
InPlace ==
    moves \cap {"own", "set"} = {} =>
        ~wild /\ OneCall /\ \A k \in DOMAIN calls : ~calls[k].lost

\* setValue never goes on from an erased node when listeners remove only others and do
\* not set the variable again, for every set of keys and of values (delListener).
THEOREM LoopKeepsPlaceCorrect == Spec => []LoopKeepsPlace
<1>1. Init => InPlace
  BY EmptySeq DEF Init, InPlace, OneCall
<1>2. TypeOK /\ InPlace /\ [Next]_vars => InPlace'
  <2> SUFFICES ASSUME TypeOK, InPlace, [Next]_vars, moves' \cap {"own", "set"} = {}
               PROVE  ~wild' /\ OneCall' /\ \A k \in DOMAIN calls' : ~calls'[k].lost
    BY DEF InPlace
  <2>0. /\ moves' = moves /\ "own" \notin moves /\ "set" \notin moves
        /\ ~wild /\ OneCall /\ \A k \in DOMAIN calls : ~calls[k].lost
        /\ Len(calls) \in Nat /\ DOMAIN calls = 1 .. Len(calls) /\ Len(calls) <= 1
    BY MovesKept, CallsDomain DEF InPlace, OneCall, TypeOK
  <2>1. OneCall'
    BY <2>0, OneCallKept
  <2>2. ASSUME NEW v \in Value, NEW guarded \in BOOLEAN, SetValue(v, guarded)
        PROVE  ~wild' /\ \A k \in DOMAIN calls' : ~calls'[k].lost
    <3>1. wild' = wild BY <2>2 DEF SetValue
    <3>2. CASE UNCHANGED calls BY <2>0, <3>1, <3>2
    <3>3. ASSUME NEW first \in m_cbs,
                 calls' = Append(calls, [v |-> v, at |-> first, lost |-> FALSE,
                                         guarded |-> guarded, kept |-> m_cbs,
                                         told |-> {<<first, m_val>>}])
          PROVE  \A k \in DOMAIN calls' : ~calls'[k].lost
      <4>1. /\ DOMAIN calls' = 1 .. Len(calls) + 1
            /\ \A k \in 1 .. Len(calls) : calls'[k] = calls[k]
            /\ ~calls'[Len(calls) + 1].lost
        BY <3>3, AppendCall
      <4>2. \A k \in DOMAIN calls' : k \in DOMAIN calls \/ k = Len(calls) + 1
        BY <2>0, <4>1
      <4> QED BY <2>0, <4>1, <4>2
    <3>4. calls' = calls \/
            \E first \in m_cbs :
               calls' = Append(calls, [v |-> v, at |-> first, lost |-> FALSE,
                                       guarded |-> guarded, kept |-> m_cbs,
                                       told |-> {<<first, m_val>>}])
      BY <2>2 DEF SetValue
    <3>5. \A k \in DOMAIN calls' : ~calls'[k].lost BY <3>2, <3>3, <3>4
    <3> QED BY <2>0, <3>1, <3>5
  <2>3. CASE NextListener
    <3>1. PICK next \in m_cbs :
             /\ calls' \in Seq(Call) /\ Len(calls') = Len(calls)
             /\ \A k \in 1 .. Len(calls) :
                   calls'[k] = IF k = Len(calls) THEN Told(next) ELSE calls[k]
      BY <2>3, NextCall
    <3>2. DOMAIN calls' = DOMAIN calls /\ wild' = wild
      BY <2>0, <2>3, <3>1, LenProperties DEF NextListener
    <3>3. ~Told(next).lost BY DEF Told
    <3>4. ASSUME NEW k \in DOMAIN calls PROVE ~calls'[k].lost
      <4>1. k = Len(calls) BY <2>0
      <4>2. calls'[k] = Told(next) BY <2>0, <3>1, <4>1
      <4> QED BY <3>3, <4>2
    <3> QED BY <2>0, <2>1, <3>2, <3>4
  <2>4. CASE Store \/ Throw
    <3>1. \A k \in DOMAIN calls' : k \in DOMAIN calls /\ calls'[k] = calls[k]
      BY <2>4, CutCalls, LenProperties
    <3>2. wild' = wild BY <2>4 DEF Store, Throw
    <3> QED BY <2>0, <2>1, <3>1, <3>2
  <2>5. ~Stray
    <3>1. SUFFICES ASSUME ~Idle, Top.lost PROVE FALSE BY DEF Stray
    <3>2. Len(calls) \in 1 .. Len(calls) BY <3>1, TopType
    <3> QED BY <2>0, <3>1, <3>2 DEF Top
  <2>6. ASSUME NEW keys, NEW erased, Forget(keys, erased), wild' = wild,
               \A k \in DOMAIN calls : calls[k].at \notin erased
        PROVE  ~wild' /\ \A k \in DOMAIN calls' : ~calls'[k].lost
    BY <2>0, <2>6, ForgetCalls DEF Lost
  <2>7. ASSUME NEW key \in Key, AddListener(key)
        PROVE  ~wild' /\ \A k \in DOMAIN calls' : ~calls'[k].lost
    BY <2>6, <2>7 DEF AddListener
  <2>8. ASSUME NEW key \in Key, DelListener(key)
        PROVE  ~wild' /\ \A k \in DOMAIN calls' : ~calls'[k].lost
    <3>1. Idle \/ key # Top.at BY <2>0, <2>8 DEF DelListener, May
    <3>2. ASSUME NEW k \in DOMAIN calls PROVE calls[k].at \notin {key}
      <4>1. k = Len(calls) BY <2>0
      <4>2. ~Idle
        <5>1. DOMAIN <<>> = {} OBVIOUS
        <5> QED BY <5>1 DEF Idle
      <4> QED BY <3>1, <4>1, <4>2 DEF Top
    <3> QED BY <2>6, <2>8, <3>2 DEF DelListener
  <2>9. ASSUME CleanListener
        PROVE  ~wild' /\ \A k \in DOMAIN calls' : ~calls'[k].lost
    <3>1. Idle BY <2>0, <2>9 DEF CleanListener, May
    <3>2. DOMAIN calls = {}
      <4>1. DOMAIN <<>> = {} OBVIOUS
      <4> QED BY <3>1, <4>1 DEF Idle
    <3> QED BY <2>6, <2>9, <3>2 DEF CleanListener
  <2>10. CASE UNCHANGED vars
    BY <2>0, <2>1, <2>10 DEF vars
  <2> QED
    BY <2>1, <2>2, <2>3, <2>4, <2>5, <2>7, <2>8, <2>9, <2>10 DEF Next, Return
<1>3. InPlace => LoopKeepsPlace
  BY DEF InPlace, LoopKeepsPlace
<1> QED
  BY <1>1, <1>2, <1>3, TypeCorrect, PTL DEF Spec

=============================================================================
