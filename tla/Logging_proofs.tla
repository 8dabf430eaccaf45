---------------------------- MODULE Logging_proofs ----------------------------
(***************************************************************************)
(* Proofs about Logging, for any number of threads, loggers and consoles.  *)
(***************************************************************************)
EXTENDS Logging, SequenceTheorems, TLAPS

\* What moving one thread does to pc.
LEMMA GotoMoves ==
    ASSUME TypeOK, NEW t \in Thread, NEW from, NEW to, Goto(t, from, to)
    PROVE  /\ pc[t] = from /\ pc'[t] = to
           /\ \A u \in Thread : u # t => pc'[u] = pc[u]
BY DEF Goto, TypeOK

\* What the end of a statement does to the variables of the threads.
LEMMA LeaveMoves ==
    ASSUME TypeOK, NEW t \in Thread, NEW from, Leave(t, from)
    PROVE  /\ pc[t] = from /\ pc'[t] = "idle"
           /\ logger'[t] = Root /\ level'[t] = DEBUG
           /\ printed'[t] = <<>> /\ meanwhile'[t] = {}
           /\ \A u \in Thread : u # t =>
                  /\ pc'[u] = pc[u] /\ logger'[u] = logger[u] /\ level'[u] = level[u]
                  /\ printed'[u] = printed[u] /\ meanwhile'[u] = meanwhile[u]
           /\ UNCHANGED <<m_level, ap_level, m_formatter, freed, at, using>>
BY GotoMoves DEF Leave, TypeOK, levels, formatters

\* The types hold for any constants.
LEMMA LeaveTypes ==
    ASSUME TypeOK, NEW t \in Thread, NEW from, Leave(t, from)
    PROVE  TypeOK'
<1>1. <<>> \in Seq(1 .. N) BY EmptySeq
<1>2. Root \in Logger /\ DEBUG \in Level
  BY LoggingAssumption DEF DEBUG, Level, UNKNOW, FATAL
<1> QED BY <1>1, <1>2 DEF Leave, Goto, levels, formatters, TypeOK

LEMMA TypeStep ==
    ASSUME TypeOK, [Next]_vars
    PROVE  TypeOK'
<1> USE LoggingAssumption
<1>1. ASSUME NEW t \in Thread, NEW lg \in Logger, Begin(t, lg) PROVE TypeOK'
  BY <1>1 DEF Begin, Goto, levels, formatters, TypeOK
<1>2. ASSUME NEW t \in Thread, NEW l \in Levels, Wrap(t, l) PROVE TypeOK'
  <2>1. 1 \in 1 .. N + 1 /\ l \in Level OBVIOUS
  <2> QED BY <1>2, <2>1 DEF Wrap, Goto, levels, formatters, TypeOK
<1>3. ASSUME NEW t \in Thread,
             (\E l \in Levels : Skip(t, l)) \/ Drop(t) \/ Return(t)
      PROVE  TypeOK'
  BY <1>3, LeaveTypes DEF Skip, Drop, Return
<1>4. ASSUME NEW t \in Thread, Pass(t) PROVE TypeOK'
  BY <1>4 DEF Pass, Goto, levels, formatters, TypeOK
<1>5. ASSUME NEW t \in Thread, Log(t) PROVE TypeOK'
  BY <1>5 DEF Log, Goto, levels, formatters, call, TypeOK
<1>6. ASSUME NEW t \in Thread, Refuse(t) PROVE TypeOK'
  <2>1. at[t] + 1 \in 1 .. N + 1 BY <1>6 DEF Refuse, TypeOK
  <2> QED BY <1>6, <2>1 DEF Refuse, Goto, levels, formatters, TypeOK
<1>7. ASSUME NEW t \in Thread, Test(t) PROVE TypeOK'
  BY <1>7 DEF Test, Goto, levels, formatters, call, TypeOK
<1>8. ASSUME NEW t \in Thread, Install(t) PROVE TypeOK'
  <2>1. at[t] \in 1 .. N BY <1>8 DEF Install, Goto, TypeOK
  <2>2. m_formatter[at[t]] \in Thread \cup {Main, Null} BY <2>1 DEF TypeOK
  <2>3. m_formatter' \in [1 .. N -> Thread \cup {Main, Null}]
    BY <1>8, <2>1 DEF Install, TypeOK
  <2>4. freed' \in [1 .. N -> SUBSET (Thread \cup {Main})]
    BY <1>8, <2>1, <2>2 DEF Install, TypeOK
  <2> QED BY <1>8, <2>3, <2>4 DEF Install, Goto, levels, call, TypeOK
<1>9. ASSUME NEW t \in Thread, Use(t) PROVE TypeOK'
  <2>1. at[t] \in 1 .. N BY <1>9 DEF Use, Goto, TypeOK
  <2> QED BY <1>9, <2>1 DEF Use, Goto, levels, formatters, TypeOK
<1>10. ASSUME NEW t \in Thread, Output(t) PROVE TypeOK'
  <2>1. at[t] \in 1 .. N BY <1>10 DEF Output, Goto, TypeOK
  <2>2. at[t] + 1 \in 1 .. N + 1 BY <2>1
  <2>3. Append(printed[t], at[t]) \in Seq(1 .. N)
    BY <2>1, AppendProperties DEF TypeOK
  <2> QED BY <1>10, <2>2, <2>3 DEF Output, Goto, levels, formatters, TypeOK
<1>11. ASSUME NEW lg \in Logger, NEW l \in Levels, SetLevel(lg, l) PROVE TypeOK'
  <2>1. l \in Level OBVIOUS
  <2> QED BY <1>11, <2>1 DEF SetLevel, formatters, call, TypeOK
<1>12. ASSUME NEW k \in 1 .. N, NEW l \in Levels, SetAppenderLevel(k, l) PROVE TypeOK'
  <2>1. l \in Level OBVIOUS
  <2>2. meanwhile' \in [Thread -> SUBSET (1 .. N)]
    BY <1>12 DEF SetAppenderLevel, TypeOK
  <2> QED BY <1>12, <2>1, <2>2 DEF SetAppenderLevel, formatters, TypeOK
<1>13. CASE UNCHANGED vars BY <1>13 DEF vars, levels, formatters, call, TypeOK
<1> QED BY <1>1, <1>2, <1>3, <1>4, <1>5, <1>6, <1>7, <1>8, <1>9, <1>10, <1>11, <1>12, <1>13
        DEF Next, Step

LEMMA TypeCorrect == Spec => []TypeOK
<1>1. Init => TypeOK
  <2> SUFFICES ASSUME Init PROVE TypeOK OBVIOUS
  <2>1. Root \in Logger /\ DEBUG \in Level
    BY LoggingAssumption DEF DEBUG, Level, UNKNOW, FATAL
  <2>2. <<>> \in Seq(1 .. N) /\ 1 \in 1 .. N + 1 BY EmptySeq, LoggingAssumption
  <2>3. m_formatter \in [1 .. N -> Thread \cup {Main, Null}] BY DEF Init
  <2> QED BY <2>1, <2>2, <2>3 DEF Init, TypeOK
<1>2. TypeOK /\ [Next]_vars => TypeOK' BY TypeStep
<1> QED BY <1>1, <1>2, PTL DEF Spec

-----------------------------------------------------------------------------
\* Nobody destroys a formatter: as long as a console has none, all statements are
\* of the thread that opens, so who has seen that it has none is alone when it
\* installs one.
Undisturbed ==
    /\ \A k \in 1 .. N : freed[k] = {}
    /\ \A t \in Thread : pc[t] # "idle" /\ Cold => t \in Opener
    /\ \A t \in Thread : pc[t] = "install" => m_formatter[at[t]] = Null
    /\ \A t \in Thread : pc[t] = "use" => m_formatter[at[t]] # Null
    /\ \A t \in Thread : pc[t] = "format" => using[t] # Null

\* A formatter in use is alive, for any number of threads and consoles, when one
\* thread at most logs before each console has its formatter; finding 10 of the
\* README shows that this assumption is needed (StdoutLogAppender::log).
THEOREM FormatterAliveCorrect ==
    ASSUME \A t, u \in Opener : t = u
    PROVE  Spec => []FormatterAlive
<1>1. Init => Undisturbed BY DEF Init, Undisturbed
<1>2. TypeOK /\ Undisturbed /\ [Next]_vars => Undisturbed'
  <2> SUFFICES ASSUME TypeOK, Undisturbed, [Next]_vars PROVE Undisturbed' OBVIOUS
  <2>0. /\ N \in Nat /\ Null \notin Thread \cup {Main}
        /\ \A t \in Thread : at[t] \in 1 .. N + 1
        /\ \A t \in Thread : pc[t] \in {"install", "use", "format"} => at[t] \in 1 .. N
    BY LoggingAssumption DEF TypeOK
  <2>1. ASSUME UNCHANGED <<m_formatter, freed>>, NEW t \in Thread,
               pc[t] # "idle", pc'[t] \notin {"install", "use", "format"},
               \A u \in Thread : u # t =>
                   pc'[u] = pc[u] /\ at'[u] = at[u] /\ using'[u] = using[u]
        PROVE  Undisturbed'
    <3>1. /\ pc'[t] # "install" /\ pc'[t] # "use" /\ pc'[t] # "format"
          /\ Cold' = Cold
          /\ m_formatter' = m_formatter /\ freed' = freed
      BY <2>1 DEF Cold
    <3>2. SUFFICES ASSUME NEW u \in Thread
                   PROVE  /\ pc'[u] # "idle" /\ Cold' => u \in Opener
                          /\ pc'[u] = "install" => m_formatter'[at'[u]] = Null
                          /\ pc'[u] = "use" => m_formatter'[at'[u]] # Null
                          /\ pc'[u] = "format" => using'[u] # Null
      BY <3>1 DEF Undisturbed
    <3>3. CASE u = t BY <2>1, <3>1, <3>3 DEF Undisturbed
    <3>4. CASE u # t BY <2>1, <3>1, <3>4 DEF Undisturbed
    <3> QED BY <3>3, <3>4
  <2>2. ASSUME NEW t \in Thread, NEW l \in Levels, Wrap(t, l) PROVE Undisturbed'
    <3>1. \A u \in Thread : u # t => at'[u] = at[u] BY <2>2 DEF Wrap, TypeOK
    <3> QED BY <2>1, <2>2, <3>1, GotoMoves DEF Wrap, formatters
  <2>3. ASSUME NEW t \in Thread, NEW from, from # "idle", Leave(t, from) PROVE Undisturbed'
    BY <2>1, <2>3, LeaveMoves
  <2>4. ASSUME NEW t \in Thread, Pass(t) \/ Log(t) \/ Refuse(t) \/ Output(t)
        PROVE  Undisturbed'
    <3>1. CASE Pass(t) BY <2>1, <3>1, GotoMoves DEF Pass, formatters
    <3>2. CASE Log(t) BY <2>1, <3>2, GotoMoves DEF Log, formatters, call
    <3>3. CASE Refuse(t)
      <4>1. \A u \in Thread : u # t => at'[u] = at[u] BY <3>3 DEF Refuse, TypeOK
      <4> QED BY <2>1, <3>3, <4>1, GotoMoves DEF Refuse, formatters
    <3>4. CASE Output(t)
      <4>1. \A u \in Thread : u # t => at'[u] = at[u] /\ using'[u] = using[u]
        BY <3>4 DEF Output, TypeOK
      <4> QED BY <2>1, <3>4, <4>1, GotoMoves DEF Output, formatters
    <3> QED BY <2>4, <3>1, <3>2, <3>3, <3>4
  <2>5. ASSUME NEW t \in Thread, Test(t) PROVE Undisturbed'
    <3>1. /\ pc[t] = "console" /\ UNCHANGED <<m_formatter, freed, using, at>>
          /\ pc'[t] = IF m_formatter[at[t]] = Null THEN "install" ELSE "use"
          /\ \A u \in Thread : u # t => pc'[u] = pc[u]
      BY <2>5, GotoMoves DEF Test, formatters, call
    <3> QED BY <3>1 DEF Undisturbed, Cold
  <2>6. ASSUME NEW t \in Thread, Install(t) PROVE Undisturbed'
    <3>1. /\ pc[t] = "install" /\ pc'[t] = "use" /\ at[t] \in 1 .. N
          /\ \A u \in Thread : u # t => pc'[u] = pc[u]
          /\ UNCHANGED <<using, at>>
      BY <2>0, <2>6, GotoMoves DEF Install, call
    <3>2. m_formatter[at[t]] = Null /\ Cold BY <3>1 DEF Undisturbed, Cold
    <3>3. freed' = freed
      BY <2>6, <3>1, <3>2 DEF Install, Undisturbed, TypeOK
    <3>4. \A k \in 1 .. N : m_formatter'[k] = IF k = at[t] THEN t ELSE m_formatter[k]
      BY <2>6, <3>1 DEF Install, TypeOK
    <3>5. Cold' => Cold BY <3>2
    <3>6. \A u \in Thread : pc[u] = "install" => u = t
      BY <3>1, <3>2 DEF Undisturbed
    <3>7. \A u \in Thread : pc'[u] = "use" => m_formatter'[at'[u]] # Null
      BY <2>0, <3>1, <3>4 DEF Undisturbed
    <3>8. \A u \in Thread : pc'[u] # "install" BY <3>1, <3>6
    <3>9. \A u \in Thread : pc'[u] # "idle" => pc[u] # "idle" BY <3>1
    <3>10. \A u \in Thread : pc'[u] = "format" => using'[u] # Null
      BY <3>1 DEF Undisturbed
    <3> QED BY <3>3, <3>5, <3>7, <3>8, <3>9, <3>10 DEF Undisturbed
  <2>7. ASSUME NEW t \in Thread, Use(t) PROVE Undisturbed'
    <3>1. /\ pc[t] = "use" /\ pc'[t] = "format" /\ using'[t] = m_formatter[at[t]]
          /\ \A u \in Thread : u # t => pc'[u] = pc[u] /\ using'[u] = using[u]
          /\ UNCHANGED <<m_formatter, freed, at>>
      BY <2>7, GotoMoves DEF Use, formatters, TypeOK
    <3> QED BY <3>1 DEF Undisturbed, Cold
  <2>8. ASSUME NEW t \in Thread, Step(t) PROVE Undisturbed'
    <3>1. CASE (\E l \in Levels : Skip(t, l)) \/ Drop(t) \/ Return(t)
      BY <2>3, <3>1 DEF Skip, Drop, Return
    <3> QED BY <2>2, <2>4, <2>5, <2>6, <2>7, <2>8, <3>1 DEF Step
  <2>9. ASSUME NEW t \in Thread, NEW lg \in Logger, Begin(t, lg) PROVE Undisturbed'
    <3>1. /\ Cold => t \in Opener
          /\ pc'[t] = "macro"
          /\ \A u \in Thread : u # t => pc'[u] = pc[u]
          /\ UNCHANGED <<m_formatter, freed, using, at>>
      BY <2>9, GotoMoves DEF Begin, formatters
    <3> QED BY <3>1 DEF Undisturbed, Cold
  <2>10. ASSUME UNCHANGED <<m_formatter, freed, pc, at, using>> PROVE Undisturbed'
    BY <2>10 DEF Undisturbed, Cold
  <2>11. ASSUME \/ \E lg \in Logger, l \in Levels : SetLevel(lg, l)
                \/ \E k \in 1 .. N, l \in Levels : SetAppenderLevel(k, l)
                \/ UNCHANGED vars
         PROVE  Undisturbed'
    BY <2>10, <2>11 DEF SetLevel, SetAppenderLevel, vars, formatters, call
  <2> QED BY <2>8, <2>9, <2>11 DEF Next
<1>3. TypeOK /\ Undisturbed => FormatterAlive
  <2> SUFFICES ASSUME TypeOK, Undisturbed, NEW t \in Thread, pc[t] = "format"
               PROVE  using[t] # Null /\ using[t] \notin freed[at[t]]
    BY DEF FormatterAlive
  <2>1. at[t] \in 1 .. N BY LoggingAssumption DEF TypeOK
  <2> QED BY <2>1 DEF Undisturbed
<1> QED BY <1>1, <1>2, <1>3, TypeCorrect, PTL DEF Spec

-----------------------------------------------------------------------------
\* PrintedByLevels for one thread, where a statement begins its way through the
\* consoles, and what its comparison with the console it is at has shown.
Looping == {"console", "install", "use", "format"}

Rising(t) == \A i, j \in DOMAIN printed[t] : i < j => printed[t][i] < printed[t][j]
Behind(t) == \A k \in 1 .. N : Prints(t, k) => k < at[t]
Allowed(t) ==
    \A k \in 1 .. at[t] - 1 :
        k \notin meanwhile[t] => (Prints(t, k) <=> level[t] >= ap_level[k])

Fine(t) ==
    /\ Rising(t)
    /\ pc[t] \in Looping => Behind(t) /\ Allowed(t)
    /\ pc[t] \notin Looping => printed[t] = <<>>
    /\ pc[t] = "event" => at[t] = 1
    /\ pc[t] \in {"idle", "macro"} => at[t] \in {1, N + 1}
    /\ pc[t] \in {"install", "use", "format"} =>
           at[t] \in meanwhile[t] \/ level[t] >= ap_level[at[t]]

AllFine == \A t \in Thread : Fine(t)

\* A step that leaves the consoles alone and all variables of a thread as they were
\* leaves the thread fine.
LEMMA StaysFine ==
    ASSUME NEW t \in Thread, Fine(t),
           pc'[t] = pc[t], at'[t] = at[t], level'[t] = level[t],
           printed'[t] = printed[t], meanwhile'[t] = meanwhile[t], ap_level' = ap_level
    PROVE  Fine(t)'
BY DEF Fine, Rising, Behind, Allowed, Prints

\* A thread that goes on in the loop with the same console stays fine.
LEMMA LoopFine ==
    ASSUME NEW t \in Thread, Fine(t), pc[t] \in Looping, pc'[t] \in Looping,
           at'[t] = at[t], level'[t] = level[t], printed'[t] = printed[t],
           meanwhile'[t] = meanwhile[t], ap_level' = ap_level,
           pc'[t] = "console" \/ at[t] \in meanwhile[t] \/ level[t] >= ap_level[at[t]]
    PROVE  Fine(t)'
<1>1. Rising(t)' /\ Behind(t)' /\ Allowed(t)' BY DEF Fine, Rising, Behind, Allowed, Prints
<1>2. pc'[t] # "event" /\ pc'[t] # "idle" /\ pc'[t] # "macro" BY DEF Looping
<1> QED BY <1>1, <1>2 DEF Fine

\* A thread outside of the loop has printed nothing.
LEMMA OutsideFine ==
    ASSUME NEW t \in Thread, pc'[t] \in {"idle", "macro", "event"}, printed'[t] = <<>>,
           pc'[t] = "event" => at'[t] = 1,
           pc'[t] \in {"idle", "macro"} => at'[t] \in {1, N + 1}
    PROVE  Fine(t)'
<1>1. Rising(t)'
  <2>1. DOMAIN <<>> = {} OBVIOUS
  <2> QED BY <2>1 DEF Rising
<1>2. pc'[t] \notin Looping /\ pc'[t] \notin {"install", "use", "format"} BY DEF Looping
<1> QED BY <1>1, <1>2 DEF Fine

\* The step of one thread leaves all fine when it leaves that thread fine.
LEMMA OthersFine ==
    ASSUME AllFine, NEW t \in Thread, Fine(t)', ap_level' = ap_level,
           \A u \in Thread : u # t =>
               /\ pc'[u] = pc[u] /\ at'[u] = at[u] /\ level'[u] = level[u]
               /\ printed'[u] = printed[u] /\ meanwhile'[u] = meanwhile[u]
    PROVE  AllFine'
<1> SUFFICES ASSUME NEW u \in Thread PROVE Fine(u)' BY DEF AllFine
<1>1. CASE u = t BY <1>1
<1>2. CASE u # t BY <1>2, StaysFine DEF AllFine
<1> QED BY <1>1, <1>2

\* The console that prints is the last one, and the ones before it are as they were.
LEMMA OutputFine ==
    ASSUME TypeOK, AllFine, NEW t \in Thread, Output(t)
    PROVE  AllFine'
<1>1. /\ N \in Nat /\ at[t] \in 1 .. N /\ printed[t] \in Seq(1 .. N) /\ level[t] \in Int
      /\ pc[t] = "format" /\ pc'[t] = "console"
  <2>1. pc[t] = "format" /\ pc'[t] = "console" BY GotoMoves DEF Output
  <2>2. N \in Nat /\ at[t] \in 1 .. N + 1 /\ at[t] <= N /\ printed[t] \in Seq(1 .. N)
    BY <2>1, LoggingAssumption DEF TypeOK
  <2>3. at[t] \in 1 .. N BY <2>2
  <2>4. level[t] \in Level BY DEF TypeOK
  <2> QED BY <2>1, <2>2, <2>3, <2>4 DEF Level
<1>2. /\ at'[t] = at[t] + 1 /\ printed'[t] = Append(printed[t], at[t])
      /\ meanwhile'[t] = meanwhile[t] /\ level' = level /\ ap_level' = ap_level
      /\ \A u \in Thread : u # t =>
             /\ pc'[u] = pc[u] /\ at'[u] = at[u] /\ level'[u] = level[u]
             /\ printed'[u] = printed[u] /\ meanwhile'[u] = meanwhile[u]
  BY GotoMoves DEF Output, TypeOK, levels
<1>3. /\ Rising(t) /\ Behind(t) /\ Allowed(t)
      /\ at[t] \in meanwhile[t] \/ level[t] >= ap_level[at[t]]
  BY <1>1 DEF AllFine, Fine, Looping
<1> DEFINE s == printed[t]
<1>4. /\ Len(s) \in Nat /\ DOMAIN s = 1 .. Len(s)
      /\ DOMAIN printed'[t] = 1 .. Len(s) + 1
      /\ printed'[t][Len(s) + 1] = at[t]
      /\ \A i \in 1 .. Len(s) : printed'[t][i] = s[i]
      /\ \A i \in 1 .. Len(s) : s[i] \in 1 .. N
  BY <1>1, <1>2, AppendProperties, LenProperties, ElementOfSeq
<1> HIDE DEF s
<1>5. \A i \in 1 .. Len(s) : s[i] < at[t]
  BY <1>3, <1>4 DEF Behind, Prints, s
<1>6. Rising(t)'
  <2> SUFFICES ASSUME NEW i \in 1 .. Len(s) + 1, NEW j \in 1 .. Len(s) + 1, i < j
               PROVE  printed'[t][i] < printed'[t][j]
    BY <1>4 DEF Rising
  <2>1. i \in 1 .. Len(s) /\ (j \in 1 .. Len(s) \/ j = Len(s) + 1) BY <1>4
  <2>2. CASE j = Len(s) + 1 BY <1>4, <1>5, <2>1, <2>2
  <2>3. CASE j \in 1 .. Len(s)
    <3>1. s[i] < s[j] BY <1>3, <1>4, <2>1, <2>3 DEF Rising, s
    <3> QED BY <1>4, <2>1, <2>3, <3>1
  <2> QED BY <2>1, <2>2, <2>3
<1>7. \A k \in 1 .. N : Prints(t, k)' <=> Prints(t, k) \/ k = at[t]
  <2> SUFFICES ASSUME NEW k \in 1 .. N PROVE Prints(t, k)' <=> Prints(t, k) \/ k = at[t]
    OBVIOUS
  <2>1. Prints(t, k) <=> \E i \in 1 .. Len(s) : s[i] = k BY <1>4 DEF Prints, s
  <2>2. Prints(t, k)' <=> \E i \in 1 .. Len(s) + 1 : printed'[t][i] = k
    BY <1>4 DEF Prints
  <2>3. \A i \in 1 .. Len(s) + 1 : i \in 1 .. Len(s) \/ i = Len(s) + 1 BY <1>4
  <2>4. Len(s) + 1 \in 1 .. Len(s) + 1 /\ \A i \in 1 .. Len(s) : i \in 1 .. Len(s) + 1
    BY <1>4
  <2> QED BY <1>4, <2>1, <2>2, <2>3, <2>4
<1>8. Behind(t)'
  <2> SUFFICES ASSUME NEW k \in 1 .. N, Prints(t, k)' PROVE k < at[t] + 1
    BY <1>2 DEF Behind
  <2>1. k < at[t] \/ k = at[t] BY <1>3, <1>7 DEF Behind
  <2> QED BY <1>1, <2>1
<1>9. Allowed(t)'
  <2> SUFFICES ASSUME NEW k \in 1 .. at[t], k \notin meanwhile[t]
               PROVE  Prints(t, k)' <=> level[t] >= ap_level[k]
    <3>1. (at[t] + 1) - 1 = at[t] BY <1>1
    <3> QED BY <1>2, <3>1 DEF Allowed
  <2>1. k \in 1 .. N /\ (k = at[t] \/ k \in 1 .. at[t] - 1)
    <3>1. N \in Nat /\ at[t] \in 1 .. N BY <1>1
    <3>2. k \in Int /\ at[t] \in Int /\ k >= 1 /\ k <= at[t] /\ at[t] <= N BY <3>1
    <3>3. k = at[t] \/ k < at[t] BY <3>2
    <3>4. k \in 1 .. N BY <3>1, <3>2
    <3>5. ASSUME k < at[t] PROVE k \in 1 .. at[t] - 1
      <4>1. k <= at[t] - 1 /\ at[t] - 1 \in Int BY <3>2, <3>5
      <4> QED BY <3>2, <4>1
    <3> QED BY <3>3, <3>4, <3>5
  <2>2. CASE k = at[t] BY <1>3, <1>7, <2>1, <2>2
  <2>3. CASE k \in 1 .. at[t] - 1 /\ k # at[t] BY <1>3, <1>7, <2>1, <2>3 DEF Allowed
  <2> QED BY <2>1, <2>2, <2>3
<1>10. Fine(t)' BY <1>1, <1>6, <1>8, <1>9 DEF Fine, Looping
<1> QED BY <1>2, <1>10, OthersFine

\* A console that refuses prints nothing.
LEMMA RefuseFine ==
    ASSUME TypeOK, AllFine, NEW t \in Thread, Refuse(t)
    PROVE  AllFine'
<1>1. /\ N \in Nat /\ at[t] \in 1 .. N /\ level[t] < ap_level[at[t]]
      /\ level[t] \in Int /\ ap_level[at[t]] \in Int
      /\ pc[t] = "console" /\ pc'[t] = "console"
  <2>1. pc[t] = "console" /\ pc'[t] = "console" BY GotoMoves DEF Refuse
  <2>2. N \in Nat /\ at[t] \in 1 .. N + 1 /\ at[t] <= N /\ level[t] < ap_level[at[t]]
    BY LoggingAssumption DEF Refuse, TypeOK
  <2>3. at[t] \in 1 .. N BY <2>2
  <2>4. level[t] \in Level /\ ap_level[at[t]] \in Level BY <2>3 DEF TypeOK
  <2> QED BY <2>1, <2>2, <2>3, <2>4 DEF Level
<1>2. /\ at'[t] = at[t] + 1
      /\ printed' = printed /\ meanwhile' = meanwhile /\ level' = level /\ ap_level' = ap_level
      /\ \A u \in Thread : u # t => pc'[u] = pc[u] /\ at'[u] = at[u]
  BY GotoMoves DEF Refuse, TypeOK, levels
<1>3. Rising(t) /\ Behind(t) /\ Allowed(t) BY <1>1 DEF AllFine, Fine, Looping
<1>4. ~Prints(t, at[t]) BY <1>1, <1>3 DEF Behind
<1>5. Rising(t)' BY <1>2, <1>3 DEF Rising
<1>6. Behind(t)'
  <2> SUFFICES ASSUME NEW k \in 1 .. N, Prints(t, k) PROVE k < at[t] + 1
    BY <1>2 DEF Behind, Prints
  <2>1. k < at[t] BY <1>3 DEF Behind
  <2> QED BY <1>1, <2>1
<1>7. Allowed(t)'
  <2> SUFFICES ASSUME NEW k \in 1 .. at[t], k \notin meanwhile[t]
               PROVE  Prints(t, k) <=> level[t] >= ap_level[k]
    <3>1. (at[t] + 1) - 1 = at[t] BY <1>1
    <3> QED BY <1>2, <3>1 DEF Allowed, Prints
  <2>1. k = at[t] \/ k \in 1 .. at[t] - 1 BY <1>1
  <2>2. CASE k = at[t]
    <3>1. ~(level[t] >= ap_level[at[t]]) BY <1>1
    <3> QED BY <1>4, <2>2, <3>1
  <2>3. CASE k \in 1 .. at[t] - 1 BY <1>3, <2>3 DEF Allowed
  <2> QED BY <2>1, <2>2, <2>3
<1>8. Fine(t)' BY <1>1, <1>5, <1>6, <1>7 DEF Fine, Looping
<1> QED BY <1>2, <1>8, OthersFine

\* A console whose level is set changes what has been compared with it only for
\* statements that remember so.
LEMMA SetAppenderLevelFine ==
    ASSUME TypeOK, AllFine, NEW k \in 1 .. N, NEW l \in Levels, SetAppenderLevel(k, l)
    PROVE  AllFine'
<1> SUFFICES ASSUME NEW t \in Thread PROVE Fine(t)' BY DEF AllFine
<1>1. /\ N \in Nat /\ k \in Nat /\ at[t] \in 1 .. N + 1
      /\ pc[t] \in {"install", "use", "format"} => at[t] \in 1 .. N
  BY LoggingAssumption DEF TypeOK
<1>2. /\ UNCHANGED <<pc, at, level, printed>>
      /\ meanwhile'[t] = IF Compared(t, k) THEN meanwhile[t] \cup {k} ELSE meanwhile[t]
      /\ \A j \in 1 .. N : j # k => ap_level'[j] = ap_level[j]
  BY DEF SetAppenderLevel, TypeOK
<1>3. Fine(t) BY DEF AllFine
<1>4. Rising(t)' /\ (Behind(t) => Behind(t)')
  <2>1. Rising(t) BY <1>3 DEF Fine
  <2>2. printed' = printed /\ at' = at BY <1>2
  <2>3. Rising(t)' BY <2>1, <2>2 DEF Rising
  <2>4. Behind(t) => Behind(t)' BY <2>2 DEF Behind, Prints
  <2> QED BY <2>3, <2>4
<1>5. ASSUME pc[t] \in Looping PROVE Allowed(t)'
  <2> SUFFICES ASSUME NEW j \in 1 .. at[t] - 1, j \notin meanwhile'[t]
               PROVE  Prints(t, j) <=> level[t] >= ap_level'[j]
    BY <1>2 DEF Allowed, Prints
  <2>1. j \in 1 .. N /\ j < at[t] /\ j <= at[t] BY <1>1
  <2>2. Compared(t, j) BY <1>5, <2>1 DEF Compared, Looping
  <2>3. j # k /\ j \notin meanwhile[t] BY <1>2, <2>2
  <2> QED BY <1>2, <1>3, <1>5, <2>1, <2>3 DEF Fine, Allowed
<1>6. ASSUME pc[t] \in {"install", "use", "format"}
      PROVE  at[t] \in meanwhile'[t] \/ level[t] >= ap_level'[at[t]]
  <2>1. CASE at[t] = k
    <3>1. Compared(t, k) BY <1>1, <1>6, <2>1 DEF Compared
    <3> QED BY <1>2, <2>1, <3>1
  <2>2. CASE at[t] # k
    <3>1. ap_level'[at[t]] = ap_level[at[t]] BY <1>1, <1>2, <1>6, <2>2
    <3> QED BY <1>2, <1>3, <1>6, <3>1 DEF Fine
  <2> QED BY <2>1, <2>2
<1>7. pc' = pc /\ at' = at /\ printed' = printed /\ level' = level BY <1>2
<1> QED BY <1>3, <1>4, <1>5, <1>6, <1>7 DEF Fine

\* An event goes to all consoles, and each prints it exactly when it allows its
\* level, for any number of them, of threads and of loggers, whatever setLevel does
\* meanwhile (Logger::log, StdoutLogAppender::log).
THEOREM PrintedByLevelsCorrect == Spec => []PrintedByLevels
<1>1. Init => AllFine
  <2> SUFFICES ASSUME Init, NEW t \in Thread PROVE Fine(t) BY DEF AllFine
  <2>1. pc[t] = "idle" /\ printed[t] = <<>> /\ at[t] = 1 BY DEF Init
  <2>2. Rising(t)
    <3>1. DOMAIN <<>> = {} OBVIOUS
    <3> QED BY <2>1, <3>1 DEF Rising
  <2> QED BY <2>1, <2>2 DEF Fine, Looping
<1>2. TypeOK /\ AllFine /\ [Next]_vars => AllFine'
  <2> SUFFICES ASSUME TypeOK, AllFine, [Next]_vars PROVE AllFine' OBVIOUS
  <2>1. N \in Nat /\ \A t \in Thread : at[t] \in 1 .. N + 1 /\ Fine(t)
    BY LoggingAssumption DEF TypeOK, AllFine
  <2>2. ASSUME NEW t \in Thread, NEW from, Leave(t, from), at[t] \in {1, N + 1}
        PROVE  AllFine'
    <3>1. /\ pc'[t] = "idle" /\ printed'[t] = <<>> /\ at' = at /\ ap_level' = ap_level
          /\ \A u \in Thread : u # t =>
                 /\ pc'[u] = pc[u] /\ at'[u] = at[u] /\ level'[u] = level[u]
                 /\ printed'[u] = printed[u] /\ meanwhile'[u] = meanwhile[u]
      BY <2>2, LeaveMoves
    <3>2. Fine(t)' BY <2>2, <3>1, OutsideFine
    <3> QED BY <3>1, <3>2, OthersFine
  <2>3. ASSUME NEW t \in Thread, NEW from, NEW to, Goto(t, from, to),
               UNCHANGED <<at, level, printed, meanwhile, ap_level>>,
               \/ <<from, to>> \in {<<"idle", "macro">>, <<"event", "event">>}
               \/ <<from, to>> = <<"event", "console">>
               \/ /\ from \in Looping /\ to \in Looping
                  /\ \/ from \in {"install", "use"}
                     \/ level[t] >= ap_level[at[t]]
        PROVE  AllFine'
    <3>1. /\ pc[t] = from /\ pc'[t] = to
          /\ \A u \in Thread : u # t => pc'[u] = pc[u]
      BY <2>3, GotoMoves
    <3>2. CASE <<from, to>> \in {<<"idle", "macro">>, <<"event", "event">>}
      <4>1. /\ pc'[t] \in {"idle", "macro", "event"} /\ printed'[t] = <<>>
            /\ pc'[t] = "event" => at'[t] = 1
            /\ pc'[t] \in {"idle", "macro"} => at'[t] \in {1, N + 1}
        BY <2>1, <2>3, <3>1, <3>2 DEF Fine, Looping
      <4> QED BY <2>3, <3>1, <4>1, OutsideFine, OthersFine
    <3>3. CASE <<from, to>> = <<"event", "console">>
      <4>1. Rising(t) /\ printed[t] = <<>> /\ at[t] = 1
        BY <2>1, <3>1, <3>3 DEF Fine, Looping
      <4>2. /\ Rising(t)' /\ Behind(t)' /\ Allowed(t)'
        <5>1. DOMAIN <<>> = {} /\ 1 .. 1 - 1 = {} OBVIOUS
        <5> QED BY <2>3, <4>1, <5>1 DEF Rising, Behind, Allowed, Prints
      <4>3. Fine(t)' BY <3>1, <3>3, <4>2 DEF Fine, Looping
      <4> QED BY <2>3, <3>1, <4>3, OthersFine
    <3>4. CASE /\ from \in Looping /\ to \in Looping
               /\ from \in {"install", "use"} \/ level[t] >= ap_level[at[t]]
      <4>1. Fine(t) /\ (at[t] \in meanwhile[t] \/ level[t] >= ap_level[at[t]])
        BY <2>1, <3>1, <3>4 DEF Fine
      <4>2. Fine(t)' BY <2>3, <3>1, <3>4, <4>1, LoopFine
      <4> QED BY <2>3, <3>1, <4>2, OthersFine
    <3> QED BY <2>3, <3>2, <3>3, <3>4
  <2>4. ASSUME NEW t \in Thread, NEW lg \in Logger, Begin(t, lg) PROVE AllFine'
    BY <2>3, <2>4 DEF Begin, levels
  <2>5. ASSUME NEW t \in Thread, NEW l \in Levels, Wrap(t, l) PROVE AllFine'
    <3>1. /\ pc[t] = "macro" /\ pc'[t] = "event" /\ at'[t] = 1 /\ printed' = printed
          /\ ap_level' = ap_level
          /\ \A u \in Thread : u # t =>
                 /\ pc'[u] = pc[u] /\ at'[u] = at[u] /\ level'[u] = level[u]
                 /\ printed'[u] = printed[u] /\ meanwhile'[u] = meanwhile[u]
      BY <2>5, GotoMoves DEF Wrap, levels, TypeOK
    <3>2. printed[t] = <<>> BY <2>1, <3>1 DEF Fine, Looping
    <3>3. Fine(t)' BY <3>1, <3>2, OutsideFine
    <3> QED BY <3>1, <3>3, OthersFine
  <2>6. ASSUME NEW t \in Thread,
               (\E l \in Levels : Skip(t, l)) \/ Drop(t) \/ Return(t)
        PROVE  AllFine'
    <3>1. ASSUME NEW l \in Levels, Skip(t, l) PROVE AllFine'
      <4>1. Leave(t, "macro") /\ pc[t] = "macro" BY <3>1, GotoMoves DEF Skip, Leave
      <4>2. at[t] \in {1, N + 1} BY <2>1, <4>1 DEF Fine
      <4> QED BY <2>2, <4>1, <4>2
    <3>2. CASE Drop(t)
      <4>1. Leave(t, "event") /\ pc[t] = "event" BY <3>2, GotoMoves DEF Drop, Leave
      <4>2. at[t] \in {1, N + 1} BY <2>1, <4>1 DEF Fine
      <4> QED BY <2>2, <4>1, <4>2
    <3>3. CASE Return(t)
      <4>1. at[t] \in {1, N + 1} BY <2>1, <3>3 DEF Return
      <4> QED BY <2>2, <3>3, <4>1 DEF Return
    <3> QED BY <2>6, <3>1, <3>2, <3>3
  <2>7. ASSUME NEW t \in Thread,
               Pass(t) \/ Log(t) \/ Test(t) \/ Install(t) \/ Use(t)
        PROVE  AllFine'
    <3>1. CASE Pass(t) BY <2>3, <3>1 DEF Pass, levels
    <3>2. CASE Log(t) BY <2>3, <3>2 DEF Log, levels, call
    <3>3. CASE Test(t)
      <4>1. /\ UNCHANGED <<at, level, printed, meanwhile, ap_level>>
            /\ level[t] >= ap_level[at[t]]
            /\ \E to \in Looping : Goto(t, "console", to)
        BY <3>3 DEF Test, levels, call, Looping
      <4>2. "console" \in Looping BY DEF Looping
      <4> QED BY <2>3, <4>1, <4>2
    <3>4. CASE Install(t)
      <4>1. "install" \in Looping /\ "use" \in Looping BY DEF Looping
      <4> QED BY <2>3, <3>4, <4>1 DEF Install, levels, call
    <3>5. CASE Use(t)
      <4>1. "use" \in Looping /\ "format" \in Looping BY DEF Looping
      <4> QED BY <2>3, <3>5, <4>1 DEF Use, levels
    <3> QED BY <2>7, <3>1, <3>2, <3>3, <3>4, <3>5
  <2>8. ASSUME NEW t \in Thread, Step(t) PROVE AllFine'
    BY <2>5, <2>6, <2>7, <2>8, OutputFine, RefuseFine DEF Step
  <2>9. ASSUME UNCHANGED <<ap_level, pc, call>> PROVE AllFine'
    BY <2>1, <2>9, StaysFine DEF AllFine, call
  <2>10. CASE (\E lg \in Logger, l \in Levels : SetLevel(lg, l)) \/ UNCHANGED vars
    BY <2>9, <2>10 DEF SetLevel, vars, levels
  <2> QED BY <2>4, <2>8, <2>10, SetAppenderLevelFine DEF Next
<1>3. AllFine => PrintedByLevels
  <2> SUFFICES ASSUME AllFine, NEW t \in Thread
               PROVE  /\ Rising(t)
                      /\ pc[t] \in Looping => Behind(t) /\ Allowed(t)
                      /\ pc[t] = "idle" => at[t] \in {1, N + 1}
    BY DEF PrintedByLevels, Rising, Behind, Allowed, Looping
  <2> QED BY DEF AllFine, Fine
<1> QED BY <1>1, <1>2, <1>3, TypeCorrect, PTL DEF Spec

-----------------------------------------------------------------------------
\* A thread whose variables stay has as many steps left as before.
LEMMA OthersWait ==
    ASSUME NEW t \in Thread, pc'[t] = pc[t], at'[t] = at[t], logger'[t] = logger[t]
    PROVE  StepsLeft(t)' = StepsLeft(t)
BY DEF StepsLeft

\* The steps that are left in the loop, at console k.
LEMMA LoopSteps ==
    ASSUME TypeOK, NEW t \in Thread
    PROVE  /\ N \in Nat /\ at[t] \in 1 .. N + 1
           /\ pc[t] \in {"install", "use", "format"} => at[t] <= N
           /\ 4 * (N + 1 - at[t]) \in 0 .. 4 * N
           /\ at[t] <= N => 4 * (N + 1 - at[t]) >= 4
<1>1. /\ N \in Nat /\ at[t] \in 1 .. N + 1
      /\ pc[t] \in {"install", "use", "format"} => at[t] <= N
  BY LoggingAssumption DEF TypeOK
<1> DEFINE k == at[t]
<1>2. N \in Nat /\ k \in 1 .. N + 1 BY <1>1
<1> HIDE DEF k
<1>3. 4 * (N + 1 - k) \in 0 .. 4 * N /\ (k <= N => 4 * (N + 1 - k) >= 4) BY <1>2
<1> QED BY <1>1, <1>3 DEF k

\* A statement returns after at most 4N + 4 of its own steps, for any number of
\* threads and consoles N, and nobody else can lengthen it (the macros and
\* Logger::log: nothing is repeated, and nothing waits).
THEOREM BoundedStepsCorrect == Spec => BoundedSteps
<1>1. TypeOK /\ [Next]_vars => [\A t \in Thread : pc[t] # "idle" =>
                                   IF Step(t) THEN StepsLeft(t)' \in 0 .. StepsLeft(t) - 1
                                   ELSE StepsLeft(t)' = StepsLeft(t)]_vars
  <2> SUFFICES ASSUME TypeOK, Next, NEW t \in Thread, pc[t] # "idle"
               PROVE  IF Step(t) THEN StepsLeft(t)' \in 0 .. StepsLeft(t) - 1
                      ELSE StepsLeft(t)' = StepsLeft(t)
    OBVIOUS
  <2> DEFINE M == 4 * (N + 1 - at[t])
             S == StepsLeft(t)
             T == StepsLeft(t)'
  <2>1. N \in Nat /\ M \in 0 .. 4 * N /\ (at[t] <= N => M >= 4) BY LoopSteps
  <2>2. pc[t] \in {"install", "use", "format"} => M >= 4 BY LoopSteps, <2>1
  <2>3. ASSUME Step(t) PROVE T \in 0 .. S - 1
    <3>1. ASSUME NEW from \in {"macro", "event", "console"}, pc[t] = from, pc'[t] = "idle"
          PROVE  T \in 0 .. S - 1
      <4>1. T = 0 BY <3>1 DEF StepsLeft
      <4>2. S \in {4 * N + 4, 4 * N + 3, 4 * N + 2, M + 1} BY <3>1 DEF StepsLeft
      <4> HIDE DEF S, T, M
      <4>3. S \in Nat /\ S >= 1 BY <2>1, <4>2
      <4> QED BY <4>1, <4>3
    <3>2. CASE (\E l \in Levels : Skip(t, l)) \/ Drop(t) \/ Return(t)
      <4>1. pc'[t] = "idle" /\ pc[t] \in {"macro", "event", "console"}
        BY <3>2, LeaveMoves DEF Skip, Drop, Return
      <4> QED BY <3>1, <4>1
    <3>3. ASSUME NEW l \in Levels, Wrap(t, l) PROVE T \in 0 .. S - 1
      <4>1. pc[t] = "macro" /\ pc'[t] = "event" BY <3>3, GotoMoves DEF Wrap
      <4>2. S = 4 * N + 4 /\ (T = 4 * N + 2 \/ T = 4 * N + 3) BY <4>1 DEF StepsLeft
      <4> HIDE DEF S, T, M
      <4> QED BY <2>1, <4>2
    <3>4. CASE Pass(t)
      <4>1. /\ pc[t] = "event" /\ pc'[t] = "event" /\ logger[t] # Root /\ logger'[t] = Root
        BY <3>4, GotoMoves DEF Pass, TypeOK
      <4>2. S = 4 * N + 3 /\ T = 4 * N + 2 BY <4>1 DEF StepsLeft
      <4> HIDE DEF S, T, M
      <4> QED BY <2>1, <4>2
    <3>5. CASE Log(t)
      <4>1. /\ pc[t] = "event" /\ pc'[t] = "console" /\ logger[t] = Root /\ at'[t] = at[t]
        BY <3>5, GotoMoves DEF Log, call
      <4>2. S = 4 * N + 2 /\ T = M + 1 BY <4>1 DEF StepsLeft
      <4> HIDE DEF S, T, M
      <4> QED BY <2>1, <4>2
    <3>6. CASE Refuse(t) \/ Output(t)
      <4>1. /\ pc[t] \in {"console", "format"} /\ pc'[t] = "console" /\ at[t] <= N
            /\ at'[t] = at[t] + 1
        BY <3>6, GotoMoves DEF Refuse, Output, TypeOK
      <4>2. (S = M + 1 \/ S = M - 2) /\ T = 4 * (N + 1 - (at[t] + 1)) + 1
        BY <4>1 DEF StepsLeft
      <4>3. 4 * (N + 1 - (at[t] + 1)) + 1 = M - 3
        <5>1. N \in Int /\ at[t] \in Int BY LoopSteps
        <5> QED BY <5>1
      <4>4. M >= 4 BY <2>1, <4>1
      <4> HIDE DEF S, T, M
      <4> QED BY <2>1, <4>2, <4>3, <4>4
    <3>7. CASE Test(t) \/ Install(t) \/ Use(t)
      <4>1. /\ <<pc[t], pc'[t]>> \in {<<"console", "install">>, <<"console", "use">>,
                                       <<"install", "use">>, <<"use", "format">>}
            /\ at'[t] = at[t]
        BY <3>7, GotoMoves DEF Test, Install, Use, call
      <4>2. at[t] <= N BY <3>7, LoopSteps, GotoMoves DEF Test, Install, Use
      <4>3. <<S, T>> \in {<<M + 1, M>>, <<M + 1, M - 1>>, <<M, M - 1>>, <<M - 1, M - 2>>}
        BY <4>1 DEF StepsLeft
      <4>4. M >= 4 BY <2>1, <4>2
      <4> HIDE DEF S, T, M
      <4>5. M \in Int BY <2>1
      <4> QED BY <4>3, <4>4, <4>5
    <3> HIDE DEF S, T
    <3> QED BY <2>3, <3>2, <3>3, <3>4, <3>5, <3>6, <3>7 DEF Step
  <2> DEFINE Same(u) == pc'[u] = pc[u] /\ at'[u] = at[u] /\ logger'[u] = logger[u]
  <2>4. ASSUME NEW u \in Thread, u # t, Step(u) PROVE Same(t)
    <3>1. ASSUME NEW from, NEW to, Goto(u, from, to) PROVE pc'[t] = pc[t]
      BY <2>4, <3>1, GotoMoves
    <3>2. ASSUME NEW from, Leave(u, from) PROVE Same(t) BY <2>4, <3>2, LeaveMoves
    <3>3. CASE (\E l \in Levels : Skip(u, l)) \/ Drop(u) \/ Return(u)
      BY <3>2, <3>3 DEF Skip, Drop, Return
    <3>4. ASSUME NEW l \in Levels, Wrap(u, l) PROVE Same(t)
      <4>1. pc'[t] = pc[t] BY <3>1, <3>4 DEF Wrap
      <4>2. at'[t] = at[t] /\ logger' = logger BY <2>4, <3>4 DEF Wrap, TypeOK
      <4> QED BY <4>1, <4>2
    <3>5. CASE Pass(u) \/ Refuse(u) \/ Output(u)
      <4>1. pc'[t] = pc[t] BY <3>1, <3>5 DEF Pass, Refuse, Output
      <4>2. at'[t] = at[t] /\ logger'[t] = logger[t]
        BY <2>4, <3>5 DEF Pass, Refuse, Output, TypeOK
      <4> QED BY <4>1, <4>2
    <3>6. CASE Log(u) \/ Test(u) \/ Install(u) \/ Use(u)
      BY <3>1, <3>6 DEF Log, Test, Install, Use, call
    <3> HIDE DEF Same
    <3> QED BY <2>4, <3>3, <3>4, <3>5, <3>6 DEF Step
  <2>5. ASSUME NEW u \in Thread, NEW lg \in Logger, Begin(u, lg) PROVE Same(t)
    <3>1. pc[u] = "idle" BY <2>5, GotoMoves DEF Begin
    <3>2. u # t BY <3>1
    <3>3. pc'[t] = pc[t] BY <2>5, <3>2, GotoMoves DEF Begin
    <3>4. at' = at /\ logger'[t] = logger[t] BY <2>5, <3>2 DEF Begin, TypeOK
    <3> QED BY <3>3, <3>4
  <2>6. ASSUME \/ \E lg \in Logger, l \in Levels : SetLevel(lg, l)
               \/ \E k \in 1 .. N, l \in Levels : SetAppenderLevel(k, l)
        PROVE  Same(t)
    BY <2>6 DEF SetLevel, SetAppenderLevel, call
  <2>7. ASSUME ~Step(t) PROVE T = S
    <3>1. Same(t)
      <4> HIDE DEF Same
      <4>1. CASE \E u \in Thread : Step(u) BY <2>4, <2>7, <4>1
      <4>2. CASE \E u \in Thread, lg \in Logger : Begin(u, lg) BY <2>5, <4>2
      <4>3. CASE \/ \E lg \in Logger, l \in Levels : SetLevel(lg, l)
                 \/ \E k \in 1 .. N, l \in Levels : SetAppenderLevel(k, l)
        BY <2>6, <4>3
      <4> QED BY <4>1, <4>2, <4>3 DEF Next
    <3> QED BY <3>1, OthersWait
  <2> QED BY <2>3, <2>7
<1> QED BY <1>1, TypeCorrect, PTL DEF Spec, BoundedSteps
=============================================================================
