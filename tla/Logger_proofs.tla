----------------------------- MODULE Logger_proofs -----------------------------
(***************************************************************************)
(* Logger for any loggers, appenders and patterns: which formatter an      *)
(* appender has, and that root prints for the loggers of the manager.      *)
(***************************************************************************)
EXTENDS Logger, SequenceTheorems, TLAPS

\* What delAppender leaves of a list.
LEMMA WithoutType ==
    ASSUME NEW S, NEW list \in Seq(S), NEW k \in 1 .. Len(list)
    PROVE  /\ Without(list, k) \in Seq(S)
           /\ \A j \in DOMAIN Without(list, k) :
                  \E i \in DOMAIN list : Without(list, k)[j] = list[i]
<1> DEFINE n == Len(list) - 1
<1>1. n \in Nat /\ list \in [1 .. Len(list) -> S] BY LenProperties
<1>2. \A j \in 1 .. n : j \in 1 .. Len(list) /\ j + 1 \in 1 .. Len(list) BY <1>1
<1>3. Without(list, k) \in [1 .. n -> S] BY <1>1, <1>2 DEF Without
<1>4. \A j \in 1 .. n : Without(list, k)[j] \in {list[j], list[j + 1]} BY DEF Without
<1>5. Without(list, k) \in Seq(S) BY <1>1, <1>3, IsASeq
<1>6. DOMAIN Without(list, k) = 1 .. n /\ DOMAIN list = 1 .. Len(list) BY <1>1, <1>3
<1> QED BY <1>2, <1>4, <1>5, <1>6

\* setFormatter with a text is setFormatter with a formatter, or nothing.
LEMMA TextIsFormatter ==
    \A l \in Logger, p \in GoodPattern \cup BadPattern :
        SetFormatterText(l, p) => p \in Formatter /\ SetFormatter(l, p)
BY DEF SetFormatterText, Formatter

\* The values of the variables have their types, for any loggers and appenders.
LEMMA TypeCorrect == Spec => []TypeOK
<1>1. Init => TypeOK
  <2> SUFFICES ASSUME Init PROVE TypeOK OBVIOUS
  <2>1. /\ \A l \in Free \cup {Root} : Console(l, 1) \in Appender
        /\ Console(Root, 2) \in Appender
    BY DEF Appender, Consoles
  <2>2. m_appenders \in [Logger -> Seq(Appender)] BY <2>1 DEF Init
  <2>3. home \in [Appender -> Logger \cup {Null, Own, Moved}]
    BY LoggerAssumption DEF Init, Appender, Consoles, Console, Logger
  <2>4. Default \in Formatter /\ Null \in Formatter BY LoggerAssumption DEF Formatter
  <2> QED BY <2>2, <2>3, <2>4, LoggerAssumption DEF Init, TypeOK, Level, DEBUG, UNKNOW, FATAL
<1>2. TypeOK /\ [Next]_vars => TypeOK'
  <2> SUFFICES ASSUME TypeOK, [Next]_vars PROVE TypeOK' OBVIOUS
  <2> USE DEF TypeOK
  <2>1. ASSUME NEW l \in Logger, NEW a \in Made, AddAppender(l, a) PROVE TypeOK'
    <3>1. a \in Appender BY DEF Appender
    <3> QED BY <2>1, <3>1 DEF AddAppender, appenders
  <2>2. ASSUME NEW l \in Logger, NEW a \in Made, DelAppender(l, a) PROVE TypeOK'
    <3>1. PICK k \in DOMAIN m_appenders[l] :
              m_appenders' = [m_appenders EXCEPT ![l] = Without(@, k)]
      BY <2>2 DEF DelAppender
    <3>2. k \in 1 .. Len(m_appenders[l]) BY <3>1, LenProperties
    <3>3. Without(m_appenders[l], k) \in Seq(Appender) BY <3>2, WithoutType
    <3>4. m_appenders' \in [Logger -> Seq(Appender)] BY <3>1, <3>3
    <3> QED BY <2>2, <3>4 DEF DelAppender, appenders
  <2>3. ASSUME NEW l \in Logger, CleanAppenders(l) PROVE TypeOK'
    BY <2>3 DEF CleanAppenders, appenders
  <2>4. ASSUME NEW l \in Logger, NEW f \in Formatter, SetFormatter(l, f) PROVE TypeOK'
    <3>1. nulls' \subseteq Logger \cup Appender BY <2>4 DEF SetFormatter, Given
    <3> QED BY <2>4, <3>1 DEF SetFormatter
  <2>5. ASSUME NEW l \in Logger, NEW level \in Levels, SetLevel(l, level) PROVE TypeOK'
    BY <2>5, LoggerAssumption DEF SetLevel, appenders
  <2>6. ASSUME NEW l \in Logger, NEW level \in EventLevels, Log(l, level) PROVE TypeOK'
    <3>1. level \in Level BY LoggerAssumption
    <3>2. Printing(l, level) \subseteq Nat
      <4>1. ASSUME Handler(l, level) # Null PROVE Handler(l, level) \in Logger
        BY <4>1, LoggerAssumption DEF Handler, m_root, Logger
      <4>2. \A h \in Logger : DOMAIN m_appenders[h] \subseteq Nat BY LenProperties
      <4> QED BY <4>1, <4>2 DEF Printing
    <3>3. output' \in [logger : Logger, level : Level, by : SUBSET Nat]
      BY <2>6, <3>1, <3>2 DEF Log
    <3>4. ap_formatter' \in [Appender -> Formatter]
      BY <2>6, LoggerAssumption DEF Log, Formatter
    <3> QED BY <2>6, <3>3, <3>4 DEF Log, loggers
  <2>7. ASSUME NEW a \in Made, NEW f \in Formatter, SetAppenderFormatter(a, f) PROVE TypeOK'
    <3>1. nulls' \subseteq Logger \cup Appender BY <2>7 DEF SetAppenderFormatter, Given, Appender
    <3> QED BY <2>7, <3>1 DEF SetAppenderFormatter, loggers
  <2>8. ASSUME NEW a \in Made, NEW level \in Levels, SetAppenderLevel(a, level) PROVE TypeOK'
    BY <2>8, LoggerAssumption DEF SetAppenderLevel, loggers
  <2>9. CASE UNCHANGED vars BY <2>9 DEF vars, loggers, appenders
  <2>10. ASSUME NEW l \in Logger, NEW level \in EventLevels, LogCrashes(l, level) PROVE TypeOK'
    BY <2>10 DEF LogCrashes, loggers, appenders
  <2> QED
    BY <2>1, <2>2, <2>3, <2>4, <2>5, <2>6, <2>7, <2>8, <2>9, <2>10, TextIsFormatter DEF Next
<1> QED BY <1>1, <1>2, PTL DEF Spec

\* A list after addAppender, delAppender and cleanAppenders: nothing but the
\* appender added comes in, and delAppender and cleanAppenders only take away.
LEMMA ListAdd ==
    ASSUME TypeOK, NEW l \in Logger, NEW a \in Made, AddAppender(l, a)
    PROVE  On(l)' = On(l) \cup {a} /\ \A m \in Logger : m # l => On(m)' = On(m)
<1>1. a \in Appender /\ m_appenders[l] \in Seq(Appender) BY DEF Appender, TypeOK
<1>2. /\ m_appenders'[l] = Append(m_appenders[l], a)
      /\ \A m \in Logger : m # l => m_appenders'[m] = m_appenders[m]
  BY DEF AddAppender, TypeOK
<1> DEFINE s == m_appenders[l]
           n == Len(s)
<1>3. /\ DOMAIN Append(s, a) = 1 .. n + 1 /\ DOMAIN s = 1 .. n /\ n \in Nat
      /\ Append(s, a)[n + 1] = a /\ \A k \in 1 .. n : Append(s, a)[k] = s[k]
  BY <1>1, AppendProperties, LenProperties
<1>4. 1 .. n + 1 = 1 .. n \cup {n + 1} /\ n + 1 \notin 1 .. n BY <1>3
<1>5. {Append(s, a)[k] : k \in 1 .. n + 1} = {s[k] : k \in 1 .. n} \cup {a}
  BY <1>3, <1>4
<1> QED BY <1>2, <1>3, <1>5 DEF On

LEMMA ListDel ==
    ASSUME TypeOK, NEW l \in Logger, NEW a \in Made, DelAppender(l, a)
    PROVE  On(l)' \subseteq On(l) /\ \A m \in Logger : m # l => On(m)' = On(m)
<1>1. PICK k \in DOMAIN m_appenders[l] :
          m_appenders' = [m_appenders EXCEPT ![l] = Without(@, k)]
  BY DEF DelAppender
<1>2. m_appenders[l] \in Seq(Appender) BY DEF TypeOK
<1>3. k \in 1 .. Len(m_appenders[l]) BY <1>1, <1>2, LenProperties
<1>4. \A j \in DOMAIN Without(m_appenders[l], k) :
          \E i \in DOMAIN m_appenders[l] : Without(m_appenders[l], k)[j] = m_appenders[l][i]
  BY <1>2, <1>3, WithoutType
<1>5. /\ m_appenders'[l] = Without(m_appenders[l], k)
      /\ \A m \in Logger : m # l => m_appenders'[m] = m_appenders[m]
  BY <1>1 DEF TypeOK
<1> QED BY <1>4, <1>5 DEF On

LEMMA ListClean ==
    ASSUME TypeOK, NEW l \in Logger, CleanAppenders(l)
    PROVE  On(l)' = {} /\ \A m \in Logger : m # l => On(m)' = On(m)
BY DEF CleanAppenders, TypeOK, On

LEMMA ListSame ==
    ASSUME UNCHANGED m_appenders
    PROVE  \A l \in Logger : On(l)' = On(l)
BY DEF On

\* Every appender on a list is one.
LEMMA OnType == ASSUME TypeOK PROVE \A l \in Logger : On(l) \subseteq Appender
<1> SUFFICES ASSUME NEW l \in Logger, NEW k \in DOMAIN m_appenders[l]
             PROVE  m_appenders[l][k] \in Appender
  BY DEF On
<1>1. m_appenders[l] \in Seq(Appender) BY DEF TypeOK
<1> QED BY <1>1, LenProperties

-----------------------------------------------------------------------------
\* An event goes to appenders that are on a list.
LEMMA InstallsOn ==
    ASSUME NEW l \in Logger, NEW level, NEW a, Installs(l, level, a)
    PROVE  \E h \in Logger : a \in On(h)
<1>1. PICK k \in Printing(l, level) : m_appenders[Handler(l, level)][k] = a
  BY DEF Installs
<1>2. Handler(l, level) # Null /\ k \in DOMAIN m_appenders[Handler(l, level)]
  BY <1>1 DEF Printing
<1>3. Handler(l, level) \in Logger
  BY <1>2, LoggerAssumption DEF Handler, m_root, Logger
<1> QED BY <1>1, <1>2, <1>3 DEF On

\* A null pointer comes from the program.
GivenNull(a) == a \in nulls \/ nulls \cap Logger # {}

LoggersGivenNull == \A l \in Logger : m_formatter[l] = Null => l \in nulls

LEMMA NullsStay == ASSUME TypeOK, [Next]_vars PROVE nulls \subseteq nulls'
BY TextIsFormatter
   DEF Next, AddAppender, DelAppender, CleanAppenders, SetFormatter, SetLevel, Log,
       LogCrashes, SetAppenderFormatter, SetAppenderLevel, Given, vars

LEMMA NextLoggersGivenNull == TypeOK /\ LoggersGivenNull /\ [Next]_vars => LoggersGivenNull'
<1> SUFFICES ASSUME TypeOK, LoggersGivenNull, [Next]_vars PROVE LoggersGivenNull' OBVIOUS
<1>1. ASSUME NEW l \in Logger, NEW f \in Formatter, SetFormatter(l, f) PROVE LoggersGivenNull'
  BY <1>1 DEF SetFormatter, Given, LoggersGivenNull, TypeOK
<1>2. ASSUME UNCHANGED m_formatter PROVE LoggersGivenNull'
  BY <1>2, NullsStay DEF LoggersGivenNull
<1> QED
  BY <1>1, <1>2, TextIsFormatter
     DEF Next, AddAppender, DelAppender, CleanAppenders, SetLevel, Log, LogCrashes,
         SetAppenderFormatter, SetAppenderLevel, vars, loggers

\* No call but setFormatter with a null pointer takes the formatter of an appender away.
LEMMA FormatterStays ==
    ASSUME TypeOK, LoggersGivenNull, [Next]_vars, NEW a \in Appender,
           ap_formatter[a] # Null, ap_formatter'[a] = Null
    PROVE  GivenNull(a)'
<1> USE LoggerAssumption DEF TypeOK
<1>1. ASSUME NEW l \in Logger, NEW b \in Made, AddAppender(l, b) PROVE FALSE
  BY <1>1 DEF AddAppender
<1>2. ASSUME NEW l \in Logger, NEW f, SetFormatter(l, f) PROVE GivenNull(a)'
  BY <1>2 DEF SetFormatter, Given, GivenNull
<1>3. ASSUME NEW l \in Logger, NEW level, Log(l, level) PROVE FALSE
  BY <1>3 DEF Log
<1>4. ASSUME NEW b \in Made, NEW f, SetAppenderFormatter(b, f) PROVE GivenNull(a)'
  BY <1>4 DEF SetAppenderFormatter, Given, GivenNull
<1>5. ASSUME UNCHANGED ap_formatter PROVE FALSE
  BY <1>5
<1> QED
  BY <1>1, <1>2, <1>3, <1>4, <1>5, TextIsFormatter
     DEF Next, DelAppender, CleanAppenders, SetLevel, SetAppenderLevel, LogCrashes, vars, appenders

\* FileLogAppender::log finds a formatter, whatever was added, shared and removed
\* before, unless the program gave setFormatter a null pointer for this appender or
\* for a logger (Logger::addAppender, Logger::setFormatter).
THEOREM FilesCanFormatCorrect == Spec => []FilesCanFormat
<1>1. Init => FilesCanFormat /\ LoggersGivenNull
  <2> SUFFICES ASSUME Init PROVE FilesCanFormat /\ LoggersGivenNull OBVIOUS
  <2>1. LoggersGivenNull BY LoggerAssumption DEF Init, LoggersGivenNull
  <2>2. \A l \in Logger : On(l) \subseteq Consoles BY DEF Init, On, Consoles, Logger
  <2> QED BY <2>1, <2>2, LoggerAssumption DEF Made, FilesCanFormat
<1>2. TypeOK /\ LoggersGivenNull /\ FilesCanFormat /\ [Next]_vars => FilesCanFormat'
  <2> SUFFICES ASSUME TypeOK, LoggersGivenNull, FilesCanFormat, [Next]_vars,
                      NEW m \in Logger, NEW b \in On(m)', b \in File, ap_formatter'[b] = Null
               PROVE  GivenNull(b)'
    BY DEF FilesCanFormat, GivenNull
  <2>1. b \in Appender BY DEF Appender, Made
  <2>2. ASSUME b \in On(m) PROVE GivenNull(b)'
    <3>1. CASE ap_formatter[b] = Null
      BY <2>2, <3>1, NullsStay DEF FilesCanFormat, GivenNull
    <3> QED BY <2>1, <3>1, FormatterStays
  <2>3. ASSUME NEW l \in Logger, NEW a \in Made, AddAppender(l, a)
        PROVE  GivenNull(b)'
    <3>1. b \in On(m) \/ b = a BY <2>3, ListAdd
    <3>2. CASE b = a
      <4>1. m_formatter[l] = Null BY <2>1, <2>3, <3>2 DEF AddAppender, TypeOK
      <4> QED BY <2>3, <4>1 DEF LoggersGivenNull, AddAppender, GivenNull
    <3> QED BY <2>2, <3>1, <3>2
  <2>4. ASSUME NEW l \in Logger, NEW a \in Made, DelAppender(l, a) PROVE GivenNull(b)'
    BY <2>2, <2>4, ListDel
  <2>5. ASSUME NEW l \in Logger, CleanAppenders(l) PROVE GivenNull(b)'
    BY <2>2, <2>5, ListClean
  <2>6. ASSUME UNCHANGED m_appenders PROVE GivenNull(b)'
    BY <2>2, <2>6, ListSame
  <2> QED
    BY <2>3, <2>4, <2>5, <2>6, TextIsFormatter
       DEF Next, SetFormatter, SetLevel, Log, LogCrashes, SetAppenderFormatter,
           SetAppenderLevel, vars, loggers
<1> QED BY <1>1, <1>2, NextLoggersGivenNull, TypeCorrect, PTL DEF Spec

-----------------------------------------------------------------------------
\* FollowsLogger, and why it lasts: an appender that has been with one logger only
\* is on no other list, and a new one has no formatter and is on none.
AtHome(a) ==
    /\ home[a] \in Logger =>
           /\ a \in On(home[a])
           /\ \A m \in Logger : a \in On(m) => m = home[a]
           /\ \/ ap_formatter[a] = m_formatter[home[a]]
              \/ /\ a \notin File
                 /\ <<ap_formatter[a], m_formatter[home[a]]>>
                        \in {<<Null, Default>>, <<Default, Null>>}
    /\ home[a] = Null => ap_formatter[a] = Null /\ \A m \in Logger : a \notin On(m)

Homes == \A a \in Appender : AtHome(a)

LEMMA InitHomes == Init => Homes
<1> SUFFICES ASSUME Init, NEW a \in Appender PROVE AtHome(a)
  BY DEF Homes
<1>1. /\ On(Root) = {Console(Root, 1), Console(Root, 2)}
      /\ \A l \in Free : On(l) = {Console(l, 1)}
      /\ \A l \in Managed : l # Root => On(l) = {}
  BY LoggerAssumption DEF Init, On, Logger
<1>2. \A m \in Logger : \A b \in On(m) : b \in Consoles /\ b[1] = m
  BY <1>1 DEF Logger, Consoles, Console
<1>3. CASE a \in Made
  <2>1. home[a] = Null /\ ap_formatter[a] = Null
    BY <1>3, LoggerAssumption DEF Init, Consoles
  <2> QED BY <1>2, <1>3, <2>1, LoggerAssumption DEF AtHome
<1>4. CASE a \in Consoles
  <2>1. home[a] = a[1] /\ a \notin Made BY <1>4, LoggerAssumption DEF Init
  <2>2. a[1] \in Logger /\ a \in On(a[1])
    BY <1>1, <1>4, LoggerAssumption DEF Consoles, Console, Logger
  <2>3. m_formatter[a[1]] = Default /\ ap_formatter[a] \in {Default, Null}
    BY <2>2 DEF Init
  <2>4. a \notin File /\ home[a] # Null BY <2>1, <2>2, LoggerAssumption DEF Made
  <2> QED BY <1>2, <1>4, <2>1, <2>2, <2>3, <2>4 DEF AtHome
<1> QED BY <1>3, <1>4 DEF Appender

\* The calls that change no list and no logger's formatter, and what they may do to
\* the appender.
LEMMA StaysAtHome ==
    ASSUME NEW a \in Appender, AtHome(a), home'[a] = home[a],
           UNCHANGED <<m_appenders, m_formatter>>,
           \/ ap_formatter'[a] = ap_formatter[a]
           \/ /\ ap_formatter[a] = Null /\ ap_formatter'[a] = Default /\ a \notin File
              /\ \E h \in Logger : a \in On(h)
    PROVE  AtHome(a)'
BY LoggerAssumption, ListSame DEF AtHome

LEMMA NextHomes == TypeOK /\ Homes /\ [Next]_vars => Homes'
<1> SUFFICES ASSUME TypeOK, Homes, [Next]_vars, NEW b \in Appender PROVE AtHome(b)'
  BY DEF Homes
<1>0. AtHome(b) BY DEF Homes
<1>1. ASSUME NEW l \in Logger, NEW a \in Made, AddAppender(l, a) PROVE AtHome(b)'
  <2>1. On(l)' = On(l) \cup {a} /\ \A m \in Logger : m # l => On(m)' = On(m)
    BY <1>1, ListAdd
  <2>2. m_formatter' = m_formatter BY <1>1 DEF AddAppender
  <2>3. CASE b = a
    <3>1. /\ ap_formatter'[a] = IF ap_formatter[a] = Null THEN m_formatter[l] ELSE ap_formatter[a]
          /\ home'[a] = IF home[a] \in {Null, l} THEN l ELSE IF home[a] = Own THEN Own ELSE Moved
      BY <1>1, <2>3 DEF AddAppender, TypeOK
    <3>3. CASE home[a] \in {Null, l}
      <4>1. home'[a] = l /\ l # Null BY <3>1, <3>3, LoggerAssumption
      <4>2. \/ ap_formatter'[a] = m_formatter[l]
            \/ /\ a \notin File
               /\ <<ap_formatter'[a], m_formatter[l]>>
                      \in {<<Null, Default>>, <<Default, Null>>}
        BY <1>0, <2>3, <3>1, <3>3, <4>1 DEF AtHome
      <4>3. \A m \in Logger : a \in On(m)' => m = l
        BY <1>0, <2>1, <2>3, <3>3 DEF AtHome
      <4> QED BY <2>1, <2>2, <2>3, <4>1, <4>2, <4>3 DEF AtHome
    <3>4. CASE home[a] \notin {Null, l}
      <4>1. home'[a] \in {Own, Moved} BY <3>1, <3>4
      <4> QED BY <2>3, <4>1, LoggerAssumption DEF AtHome
    <3> QED BY <3>3, <3>4
  <2>4. CASE b # a
    <3>1. home'[b] = home[b] /\ ap_formatter'[b] = ap_formatter[b]
      BY <1>1, <2>4 DEF AddAppender, TypeOK
    <3>2. \A m \in Logger : b \in On(m)' <=> b \in On(m) BY <2>1, <2>4
    <3> QED BY <1>0, <2>2, <3>1, <3>2 DEF AtHome
  <2> QED BY <2>3, <2>4
<1>2. ASSUME NEW l \in Logger, On(l)' \subseteq On(l),
             \A m \in Logger : m # l => On(m)' = On(m),
             home' = [a \in Appender |-> IF Leaves(l, a) THEN Moved ELSE home[a]],
             UNCHANGED <<m_formatter, ap_formatter>>
      PROVE  AtHome(b)'
  <2>1. Leaves(l, b) <=> home[b] = l /\ b \notin On(l)' BY DEF Leaves, On
  <2>2. CASE Leaves(l, b)
    BY <1>2, <2>2, LoggerAssumption DEF AtHome
  <2>3. CASE ~Leaves(l, b)
    <3>1. home'[b] = home[b] BY <1>2, <2>3
    <3>2. home[b] = l => b \in On(l)' BY <2>1, <2>3
    <3> QED BY <1>0, <1>2, <3>1, <3>2 DEF AtHome
  <2> QED BY <2>2, <2>3
<1>3. ASSUME NEW l \in Logger, NEW a \in Made, DelAppender(l, a) PROVE AtHome(b)'
  BY <1>2, <1>3, ListDel DEF DelAppender, appenders
<1>4. ASSUME NEW l \in Logger, CleanAppenders(l) PROVE AtHome(b)'
  BY <1>2, <1>4, ListClean DEF CleanAppenders, appenders
<1>5. ASSUME NEW l \in Logger, NEW p, SetFormatter(l, p) PROVE AtHome(b)'
  <2>1. /\ m_formatter' = [m_formatter EXCEPT ![l] = p]
        /\ ap_formatter'[b] = IF b \in On(l) THEN p ELSE ap_formatter[b]
        /\ home' = home /\ \A m \in Logger : On(m)' = On(m)
    BY <1>5, ListSame DEF SetFormatter, m_hasFormatter
  <2>3. m_formatter'[l] = p /\ \A m \in Logger : m # l => m_formatter'[m] = m_formatter[m]
    BY <2>1 DEF TypeOK
  <2>4. CASE home[b] = l
    BY <1>0, <2>1, <2>3, <2>4, LoggerAssumption DEF AtHome
  <2>5. CASE home[b] # l
    BY <1>0, <2>1, <2>3, <2>5, LoggerAssumption DEF AtHome
  <2> QED BY <2>4, <2>5
<1>6. ASSUME NEW l \in Logger, NEW level, Log(l, level) PROVE AtHome(b)'
  <2>1. ap_formatter'[b] = IF Installs(l, level, b) THEN Default ELSE ap_formatter[b]
    BY <1>6 DEF Log
  <2>2. Installs(l, level, b) => ap_formatter[b] = Null /\ b \notin File /\ \E h \in Logger : b \in On(h)
    BY InstallsOn DEF Installs
  <2> QED BY <1>0, <1>6, <2>1, <2>2, StaysAtHome DEF Log, loggers
<1>7. ASSUME NEW a \in Made, NEW f, SetAppenderFormatter(a, f) PROVE AtHome(b)'
  <2>1. CASE b = a
    <3>1. home'[b] = Own BY <1>7, <2>1 DEF SetAppenderFormatter, TypeOK
    <3> QED BY <3>1, LoggerAssumption DEF AtHome
  <2>2. CASE b # a
    <3>1. home'[b] = home[b] /\ ap_formatter'[b] = ap_formatter[b]
      BY <1>7, <2>2 DEF SetAppenderFormatter, TypeOK
    <3> QED BY <1>0, <1>7, <3>1, StaysAtHome DEF SetAppenderFormatter, loggers
  <2> QED BY <2>1, <2>2
<1>8. ASSUME UNCHANGED <<m_appenders, m_formatter, ap_formatter, home>> PROVE AtHome(b)'
  BY <1>0, <1>8, StaysAtHome
<1> QED
  BY <1>1, <1>3, <1>4, <1>5, <1>6, <1>7, <1>8, TextIsFormatter
     DEF Next, SetLevel, SetAppenderLevel, LogCrashes, vars, loggers, appenders

\* The appenders of a logger print with its formatter, for any number of loggers
\* that share appenders and any formatters, null or in error ones too (Logger::addAppender, Logger::setFormatter).
THEOREM FollowsLoggerCorrect == Spec => []FollowsLogger
<1>1. Homes => FollowsLogger BY DEF Homes, AtHome, FollowsLogger
<1> QED BY <1>1, InitHomes, NextHomes, TypeCorrect, PTL DEF Spec

-----------------------------------------------------------------------------
\* Root writes for every logger without appenders when all loggers come from the
\* manager; finding 13 of the README shows that this assumption is needed
\* (Logger::log).
THEOREM RootWritesCorrect ==
    ASSUME Free = {}
    PROVE  Spec => []RootWrites
<1>1. Init => RootWrites BY DEF Init, RootWrites
<1>2. TypeOK /\ [Next]_vars => \/ output' \in {Null, Crashed} \/ UNCHANGED vars
                              \/ \E l \in Logger, level \in EventLevels : Log(l, level)
  BY TextIsFormatter
     DEF Next, AddAppender, DelAppender, CleanAppenders, SetFormatter, SetLevel,
         LogCrashes, SetAppenderFormatter, SetAppenderLevel
<1>3. ASSUME TypeOK, NEW l \in Logger, NEW level \in EventLevels, Log(l, level)
      PROVE  RootWrites'
  <2> SUFFICES ASSUME m_appenders[l] = <<>>, level >= m_level[l], level >= m_level[Root],
                      NEW k \in DOMAIN m_appenders[Root],
                      Takes(m_appenders[Root][k], level)
               PROVE  k \in Printing(l, level)
    BY <1>3 DEF RootWrites, Log, On, Takes, loggers
  <2>1. Root \in Logger /\ m_appenders[Root] \in Seq(Appender) /\ Root # Null
    BY <1>3, LoggerAssumption DEF TypeOK, Logger
  <2>2. m_appenders[Root] # <<>> BY <2>1, EmptySeq
  <2>3. l \in Managed \ {Root} BY <2>2 DEF Logger
  <2>4. m_root[l] = Root BY <2>3 DEF m_root
  <2>5. ~(level < m_level[l])
    <3>1. level \in Level /\ m_level[l] \in Level
      BY <1>3, LoggerAssumption DEF TypeOK
    <3> QED BY <3>1 DEF Level, UNKNOW, FATAL
  <2>6. Handler(l, level) = Root BY <2>1, <2>2, <2>4, <2>5 DEF Handler
  <2> QED BY <2>1, <2>6 DEF Printing
<1>4. RootWrites /\ UNCHANGED vars => RootWrites'
  BY ListSame, LoggerAssumption DEF RootWrites, vars, loggers, appenders, Takes, Logger
<1>5. output' \in {Null, Crashed} => RootWrites' BY DEF RootWrites
<1>6. TypeOK /\ RootWrites /\ [Next]_vars => RootWrites'
  BY <1>2, <1>3, <1>4, <1>5
<1> QED BY <1>1, <1>6, TypeCorrect, PTL DEF Spec
=============================================================================
