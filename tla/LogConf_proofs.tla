--------------------------- MODULE LogConf_proofs ---------------------------
(***************************************************************************)
(* Proofs about LogConf, for every set of names, patterns and files and    *)
(* every set of values the configuration variable "logs" may be given;     *)
(* about LogYaml, which extends it, for every set of documents; and about  *)
(* the conversions of LexicalCast, for every type, number and depth.       *)
(***************************************************************************)
EXTENDS LogYaml, LexicalCast, SequenceTheorems, FiniteSetTheorems, TLAPS

\* A sequence mapped element by element is a sequence of the same length.
LEMMA MapIsSeq ==
    ASSUME NEW S, NEW T, NEW s \in Seq(S), NEW t \in [DOMAIN s -> T]
    PROVE  t \in Seq(T)
<1>1. DOMAIN s = 1 .. Len(s) /\ Len(s) \in Nat
  BY LenProperties
<1>2. t \in [1 .. Len(s) -> T]
  BY <1>1
<1> QED
  BY <1>1, <1>2, SeqDef

\* The listener makes well-formed appenders, each with a formatter.
LEMMA BuildType ==
    ASSUME NEW def \in AppenderDefineSet, NEW formatter \in GoodPattern
    PROVE  BuildAppender(def, formatter) \in
             [type : {FileType, StdoutType}, file : File \cup {""},
              m_level : Level, m_formatter : GoodPattern]
  BY DEF BuildAppender, AppenderDefineSet

LEMMA BuildAllType ==
    ASSUME NEW defs \in Seq(AppenderDefineSet), NEW formatter \in GoodPattern
    PROVE  /\ BuildAppenders(defs, formatter) \in Seq(AppenderSet)
           /\ DOMAIN BuildAppenders(defs, formatter) = DOMAIN defs
           /\ \A k \in DOMAIN defs :
                 BuildAppenders(defs, formatter)[k].m_formatter \in GoodPattern
<1>1. \A k \in DOMAIN defs : defs[k] \in AppenderDefineSet
  BY ElementOfSeq, LenProperties
<1>2. \A k \in DOMAIN defs :
         /\ BuildAppender(defs[k], formatter) \in AppenderSet
         /\ BuildAppender(defs[k], formatter).m_formatter \in GoodPattern
  BY <1>1, BuildType DEF AppenderSet
<1>3. BuildAppenders(defs, formatter) \in [DOMAIN defs -> AppenderSet]
  BY <1>2 DEF BuildAppenders
<1>4. BuildAppenders(defs, formatter) \in Seq(AppenderSet)
  BY <1>3, MapIsSeq
<1> QED
  BY <1>2, <1>4 DEF BuildAppenders

LEMMA ReconfiguredType ==
    ASSUME NEW lg \in LoggerSet, NEW def \in LogDefineSet
    PROVE  /\ Reconfigured(lg, def) \in LoggerSet
           /\ Reconfigured(lg, def).m_level = def.level
           /\ def.formatter \in GoodPattern =>
                 Reconfigured(lg, def).m_formatter = def.formatter
           /\ Reconfigured(lg, def).m_appenders =
                 BuildAppenders(def.appenders, Reconfigured(lg, def).m_formatter)
<1> DEFINE f == IF def.formatter \in GoodPattern THEN def.formatter ELSE lg.m_formatter
<1>1. f \in GoodPattern
  BY DEF LoggerSet
<1>2. BuildAppenders(def.appenders, f) \in Seq(AppenderSet)
  BY <1>1, BuildAllType DEF LogDefineSet
<1>3. def.level \in Level
  BY DEF LogDefineSet
<1> QED
  BY <1>1, <1>2, <1>3 DEF Reconfigured, LoggerSet

LEMMA UnconfiguredType ==
    ASSUME NEW lg \in LoggerSet
    PROVE  Unconfigured(lg) \in LoggerSet /\ Unconfigured(lg).m_appenders = <<>>
<1>1. UNKNOW \in Level /\ lg.m_formatter \in GoodPattern /\ <<>> \in Seq(AppenderSet)
  BY EmptySeq DEF LoggerSet, Level, UNKNOW, FATAL
<1> QED
  BY <1>1 DEF Unconfigured, LoggerSet

\* Logging changes nothing in a logger but the missing formatters of its consoles.
LEMMA LoggerLogType ==
    ASSUME NEW lg \in LoggerSet, NEW level \in Level
    PROVE  /\ LoggerLog(lg, level) \in LoggerSet
           /\ LoggerLog(lg, level).m_level = lg.m_level
           /\ LoggerLog(lg, level).m_formatter = lg.m_formatter
           /\ DOMAIN LoggerLog(lg, level).m_appenders = DOMAIN lg.m_appenders
<1> DEFINE aps == [k \in DOMAIN lg.m_appenders |-> AppenderLog(lg.m_appenders[k], level)]
<1>1. lg.m_appenders \in Seq(AppenderSet)
  BY DEF LoggerSet
<1>2. \A k \in DOMAIN lg.m_appenders : lg.m_appenders[k] \in AppenderSet
  BY <1>1, ElementOfSeq, LenProperties
<1>3. \A k \in DOMAIN lg.m_appenders : AppenderLog(lg.m_appenders[k], level) \in AppenderSet
  BY <1>2, ConfAssumption DEF AppenderLog, AppenderSet
<1>4. aps \in Seq(AppenderSet)
  BY <1>1, <1>3, MapIsSeq
<1>5. CASE level >= lg.m_level
  BY <1>4, <1>5 DEF LoggerLog, LoggerSet
<1>6. CASE ~(level >= lg.m_level)
  BY <1>6 DEF LoggerLog
<1> QED
  BY <1>5, <1>6

LEMMA NewLoggerType == NewLogger \in LoggerSet /\ NewLogger.m_appenders = <<>>
  BY EmptySeq, ConfAssumption DEF NewLogger, LoggerSet, Level, DEBUG, UNKNOW, FATAL

LEMMA NewRootType == NewRoot \in LoggerSet
<1>1. Console(Null) \in AppenderSet /\ Console(Default) \in AppenderSet
  BY ConfAssumption DEF Console, AppenderSet, Level, DEBUG, UNKNOW, FATAL
<1>2. <<Console(Null), Console(Default)>> \in Seq(AppenderSet)
  BY <1>1
<1> QED
  BY <1>2, NewLoggerType DEF NewRoot, LoggerSet

-----------------------------------------------------------------------------
\* Logging leaves a logger alone when none of its appenders lacks a formatter.
LEMMA LoggerLogIdle ==
    ASSUME NEW lg \in LoggerSet, NEW level \in Level,
           \A k \in DOMAIN lg.m_appenders : lg.m_appenders[k].m_formatter # Null
    PROVE  LoggerLog(lg, level) = lg
<1>1. \A k \in DOMAIN lg.m_appenders : AppenderLog(lg.m_appenders[k], level) = lg.m_appenders[k]
  BY DEF AppenderLog
<1>2. lg.m_appenders = [k \in DOMAIN lg.m_appenders |-> lg.m_appenders[k]]
  BY LenProperties DEF LoggerSet
<1>3. [k \in DOMAIN lg.m_appenders |-> AppenderLog(lg.m_appenders[k], level)] = lg.m_appenders
  BY <1>1, <1>2
<1> QED
  BY <1>3 DEF LoggerLog, LoggerSet

\* What the listener starts from: the loggers after its line to root.
Before == [m_loggers EXCEPT ![Root] = LoggerLog(@, INFO)]

LEMMA BeforeType ==
    ASSUME TypeOK
    PROVE  /\ DOMAIN Before = DOMAIN m_loggers
           /\ Before \in [DOMAIN m_loggers -> LoggerSet]
           /\ \A n \in DOMAIN m_loggers :
                 /\ Before[n] = IF n = Root THEN LoggerLog(m_loggers[n], INFO) ELSE m_loggers[n]
                 /\ Before[n].m_level = m_loggers[n].m_level
                 /\ Before[n].m_formatter = m_loggers[n].m_formatter
<1>1. INFO \in Level
  BY DEF INFO, Level, UNKNOW, FATAL
<1>2. m_loggers[Root] \in LoggerSet
  BY DEF TypeOK
<1>3. /\ LoggerLog(m_loggers[Root], INFO) \in LoggerSet
      /\ LoggerLog(m_loggers[Root], INFO).m_level = m_loggers[Root].m_level
      /\ LoggerLog(m_loggers[Root], INFO).m_formatter = m_loggers[Root].m_formatter
  BY <1>1, <1>2, LoggerLogType
<1> QED
  BY <1>3 DEF Before, TypeOK

\* The names whose definition the listener does not skip.
Changed(value) == {n \in DOMAIN value : n \in DOMAIN logs => ~DefineEq(value[n], logs[n])}

Lookup(n) == IF n \in DOMAIN Before THEN Before[n] ELSE NewLogger

LEMMA ListenerEffect ==
    ASSUME TypeOK, NEW value \in Config
    PROVE  /\ DOMAIN OnLogsChanged(logs, value) = DOMAIN m_loggers \cup Changed(value)
           /\ \A n \in Changed(value) :
                 /\ Lookup(n) \in LoggerSet
                 /\ OnLogsChanged(logs, value)[n] = Reconfigured(Lookup(n), value[n])
           /\ \A n \in DOMAIN logs \ DOMAIN value :
                 /\ Before[n] \in LoggerSet
                 /\ OnLogsChanged(logs, value)[n] = Unconfigured(Before[n])
           /\ \A n \in DOMAIN m_loggers \ (Changed(value) \cup (DOMAIN logs \ DOMAIN value)) :
                 OnLogsChanged(logs, value)[n] = Before[n]
<1>1. DOMAIN logs \subseteq DOMAIN m_loggers
  BY DEF TypeOK
<1>2. \A n \in Changed(value) : Lookup(n) \in LoggerSet
  BY BeforeType, NewLoggerType DEF Lookup
<1>3. OnLogsChanged(logs, value) =
        [n \in DOMAIN Before \cup Changed(value) \cup (DOMAIN logs \ DOMAIN value) |->
            IF n \in Changed(value) THEN Reconfigured(Lookup(n), value[n])
            ELSE IF n \in DOMAIN logs \ DOMAIN value THEN Unconfigured(Lookup(n))
            ELSE Before[n]]
  BY DEF OnLogsChanged, Before, Changed, Lookup
<1>4. DOMAIN Before \cup Changed(value) \cup (DOMAIN logs \ DOMAIN value)
        = DOMAIN m_loggers \cup Changed(value)
  BY <1>1, BeforeType
<1>5. \A n \in DOMAIN logs \ DOMAIN value :
         Lookup(n) = Before[n] /\ Before[n] \in LoggerSet /\ n \notin Changed(value)
  BY <1>1, BeforeType DEF Lookup, Changed
<1> QED
  BY <1>1, <1>2, <1>3, <1>4, <1>5

LEMMA ConfigType ==
    ASSUME NEW value \in Config
    PROVE  /\ DOMAIN value \subseteq Name
           /\ \A n \in DOMAIN value : value[n] \in LogDefineSet
  BY ConfAssumption DEF IsLogs

\* A reload gives the map of loggers its type, and a logger to each name.
LEMMA SetLogsType ==
    ASSUME TypeOK, NEW value \in Config, SetLogs(value)
    PROVE  TypeOK'
<1> DEFINE new == OnLogsChanged(logs, value)
<1>1. m_loggers' = new /\ logs' = value
  BY DEF SetLogs
<1>2. DOMAIN new = DOMAIN m_loggers \cup Changed(value)
  BY ListenerEffect
<1>3. DOMAIN value \subseteq DOMAIN new
  <2>1. \A n \in DOMAIN value : n \in Changed(value) \/ n \in DOMAIN m_loggers
    BY DEF Changed, TypeOK
  <2> QED
    BY <1>2, <2>1
<1>4. \A n \in DOMAIN new : new[n] \in LoggerSet
  <2> TAKE n \in DOMAIN new
  <2>1. CASE n \in Changed(value)
    <3>1. value[n] \in LogDefineSet /\ Lookup(n) \in LoggerSet
      BY <2>1, ListenerEffect, ConfigType DEF Changed
    <3>2. Reconfigured(Lookup(n), value[n]) \in LoggerSet
      BY <3>1, ReconfiguredType
    <3> QED
      BY <2>1, <3>2, ListenerEffect
  <2>2. CASE n \in DOMAIN logs \ DOMAIN value
    BY <2>2, ListenerEffect, UnconfiguredType
  <2>3. CASE n \notin Changed(value) \cup (DOMAIN logs \ DOMAIN value)
    BY <2>3, <1>2, ListenerEffect, BeforeType
  <2> QED
    BY <2>1, <2>2, <2>3
<1>5. new \in [DOMAIN new -> LoggerSet]
  BY <1>4 DEF OnLogsChanged
<1>6. DOMAIN new \subseteq Name /\ Root \in DOMAIN new
  BY <1>2, ConfigType DEF TypeOK, Changed
<1>7. IsLogs(value)
  BY ConfAssumption
<1> QED
  BY <1>1, <1>3, <1>5, <1>6, <1>7 DEF TypeOK

\* An event changes one logger, and in it no level and no logger formatter.
LEMMA LogEffect ==
    ASSUME TypeOK, NEW n \in Name, NEW level \in DEBUG .. FATAL, Log(n, level)
    PROVE  \E h \in DOMAIN m_loggers :
             m_loggers' = [m_loggers EXCEPT ![h] = LoggerLog(m_loggers[h], level)]
<1> DEFINE h == IF m_loggers[n].m_appenders # <<>> THEN n ELSE Root
<1>1. h \in DOMAIN m_loggers
  BY DEF Log, TypeOK
<1>2. m_loggers' = [m_loggers EXCEPT ![h] = LoggerLog(m_loggers[h], level)]
  BY DEF Log
<1> QED
  BY <1>1, <1>2

LEMMA EventLevel == \A level \in DEBUG .. FATAL : level \in Level
  BY DEF Level, DEBUG, UNKNOW, FATAL

LEMMA InitType == Init => TypeOK
<1> SUFFICES ASSUME Init PROVE TypeOK
  OBVIOUS
<1>1. DOMAIN m_loggers = {Root} /\ m_loggers \in [{Root} -> LoggerSet]
  BY NewRootType DEF Init
<1>2. DOMAIN logs = {} /\ logs \in [{} -> LogDefineSet]
  BY DEF Init
<1> QED
  BY <1>1, <1>2, ConfAssumption DEF TypeOK, IsLogs

LEMMA NextType == TypeOK /\ [Next]_vars => TypeOK'
<1> SUFFICES ASSUME TypeOK, [Next]_vars PROVE TypeOK'
  OBVIOUS
<1>1. CASE \E value \in Config : SetLogs(value)
  BY <1>1, SetLogsType
<1>2. ASSUME NEW n \in Name, GetLogger(n) PROVE TypeOK'
  <2>1. DOMAIN m_loggers' = DOMAIN m_loggers \cup {n}
    BY <1>2 DEF GetLogger
  <2>2. m_loggers' \in [DOMAIN m_loggers \cup {n} -> LoggerSet]
    BY <1>2, NewLoggerType DEF GetLogger, TypeOK
  <2> QED
    BY <1>2, <2>1, <2>2 DEF GetLogger, TypeOK, IsLogs
<1>3. ASSUME NEW n \in Name, NEW level \in DEBUG .. FATAL, Log(n, level) PROVE TypeOK'
  <2>1. PICK h \in DOMAIN m_loggers :
           m_loggers' = [m_loggers EXCEPT ![h] = LoggerLog(m_loggers[h], level)]
    BY <1>3, LogEffect
  <2>2. LoggerLog(m_loggers[h], level) \in LoggerSet
    BY LoggerLogType, EventLevel DEF TypeOK
  <2>3. DOMAIN m_loggers' = DOMAIN m_loggers /\ m_loggers' \in [DOMAIN m_loggers -> LoggerSet]
    BY <2>1, <2>2 DEF TypeOK
  <2> QED
    BY <1>3, <2>3 DEF Log, TypeOK, IsLogs
<1>4. CASE UNCHANGED vars
  BY <1>4 DEF vars, TypeOK, IsLogs
<1> QED
  BY <1>1, <1>2, <1>3, <1>4 DEF Next

\* The type invariant holds for every set of loggers and of configurations.
THEOREM TypeCorrect == Spec => []TypeOK
<1> QED
  BY InitType, NextType, PTL DEF Spec

-----------------------------------------------------------------------------
\* What the listener's "continue" leaves alone: a name of both values, with equal
\* (==) definitions, whose logger at most got a console formatter.
LEMMA Skipped ==
    ASSUME TypeOK, NEW value \in Config, NEW n \in DOMAIN value, n \notin Changed(value)
    PROVE  /\ n \in DOMAIN logs /\ n \in DOMAIN m_loggers
           /\ DefineEq(value[n], logs[n])
           /\ OnLogsChanged(logs, value)[n] = Before[n]
<1>1. n \in DOMAIN logs /\ DefineEq(value[n], logs[n])
  BY DEF Changed
<1>2. n \in DOMAIN m_loggers
  BY <1>1 DEF TypeOK
<1> QED
  BY <1>1, <1>2, ListenerEffect

\* What it does for the other names.
LEMMA Applied ==
    ASSUME TypeOK, NEW value \in Config, NEW n \in Changed(value)
    PROVE  LET lg == OnLogsChanged(logs, value)[n] IN
           /\ lg \in LoggerSet
           /\ lg.m_level = value[n].level
           /\ value[n].formatter \in GoodPattern => lg.m_formatter = value[n].formatter
           /\ lg.m_appenders = BuildAppenders(value[n].appenders, lg.m_formatter)
<1>1. value[n] \in LogDefineSet /\ Lookup(n) \in LoggerSet
  BY ListenerEffect, ConfigType DEF Changed
<1>2. OnLogsChanged(logs, value)[n] = Reconfigured(Lookup(n), value[n])
  BY ListenerEffect
<1> QED
  BY <1>1, <1>2, ReconfiguredType

\* Actions other than SetLogs keep the loggers' levels and formatters.
LEMMA OthersKeep ==
    ASSUME TypeOK, [Next]_vars, ~\E value \in Config : SetLogs(value)
    PROVE  /\ logs' = logs
           /\ \A n \in DOMAIN m_loggers :
                 /\ m_loggers'[n].m_level = m_loggers[n].m_level
                 /\ m_loggers'[n].m_formatter = m_loggers[n].m_formatter
<1>1. CASE UNCHANGED vars
  BY <1>1 DEF vars
<1>2. ASSUME NEW n \in Name, GetLogger(n)
      PROVE  logs' = logs /\ \A m \in DOMAIN m_loggers : m_loggers'[m] = m_loggers[m]
  BY <1>2 DEF GetLogger
<1>3. ASSUME NEW n \in Name, NEW level \in DEBUG .. FATAL, Log(n, level)
      PROVE  /\ logs' = logs
             /\ \A m \in DOMAIN m_loggers :
                   /\ m_loggers'[m].m_level = m_loggers[m].m_level
                   /\ m_loggers'[m].m_formatter = m_loggers[m].m_formatter
  <2>1. PICK h \in DOMAIN m_loggers :
           m_loggers' = [m_loggers EXCEPT ![h] = LoggerLog(m_loggers[h], level)]
    BY <1>3, LogEffect
  <2>2. /\ LoggerLog(m_loggers[h], level).m_level = m_loggers[h].m_level
        /\ LoggerLog(m_loggers[h], level).m_formatter = m_loggers[h].m_formatter
    BY LoggerLogType, EventLevel DEF TypeOK
  <2> QED
    BY <1>3, <2>1, <2>2 DEF Log, TypeOK
<1> QED
  BY <1>1, <1>2, <1>3 DEF Next

\* Each configured logger has the configured level, however often "logs" is set.
THEOREM LevelsCorrect == Spec => []LevelsFollowConfig
<1>1. Init => LevelsFollowConfig
  BY DEF Init, LevelsFollowConfig
<1>2. TypeOK /\ LevelsFollowConfig /\ [Next]_vars => LevelsFollowConfig'
  <2> SUFFICES ASSUME TypeOK, LevelsFollowConfig, [Next]_vars PROVE LevelsFollowConfig'
    OBVIOUS
  <2>1. ASSUME NEW value \in Config, SetLogs(value) PROVE LevelsFollowConfig'
    <3> SUFFICES ASSUME NEW n \in DOMAIN value
                 PROVE  OnLogsChanged(logs, value)[n].m_level = value[n].level
      BY <2>1 DEF SetLogs, LevelsFollowConfig
    <3>1. CASE n \in Changed(value)
      BY <3>1, Applied
    <3>2. CASE n \notin Changed(value)
      <4>1. value[n].level = logs[n].level
        BY <3>2, Skipped DEF DefineEq
      <4>2. Before[n].m_level = m_loggers[n].m_level
        BY <3>2, Skipped, BeforeType
      <4> QED
        BY <3>2, <4>1, <4>2, Skipped DEF LevelsFollowConfig
    <3> QED
      BY <3>1, <3>2
  <2>2. CASE ~\E value \in Config : SetLogs(value)
    BY <2>2, OthersKeep DEF LevelsFollowConfig, TypeOK
  <2> QED
    BY <2>1, <2>2
<1> QED
  BY <1>1, <1>2, TypeCorrect, PTL DEF Spec

\* Each configured logger has the configured formatter when that one is valid.
THEOREM FormattersCorrect == Spec => []FormattersFollowConfig
<1>1. Init => FormattersFollowConfig
  BY DEF Init, FormattersFollowConfig
<1>2. TypeOK /\ FormattersFollowConfig /\ [Next]_vars => FormattersFollowConfig'
  <2> SUFFICES ASSUME TypeOK, FormattersFollowConfig, [Next]_vars
               PROVE  FormattersFollowConfig'
    OBVIOUS
  <2>1. ASSUME NEW value \in Config, SetLogs(value) PROVE FormattersFollowConfig'
    <3> SUFFICES ASSUME NEW n \in DOMAIN value, value[n].formatter \in GoodPattern
                 PROVE  OnLogsChanged(logs, value)[n].m_formatter = value[n].formatter
      BY <2>1 DEF SetLogs, FormattersFollowConfig
    <3>1. CASE n \in Changed(value)
      BY <3>1, Applied
    <3>2. CASE n \notin Changed(value)
      <4>1. value[n].formatter = logs[n].formatter
        BY <3>2, Skipped DEF DefineEq
      <4>2. Before[n].m_formatter = m_loggers[n].m_formatter
        BY <3>2, Skipped, BeforeType
      <4> QED
        BY <3>2, <4>1, <4>2, Skipped DEF FormattersFollowConfig
    <3> QED
      BY <3>1, <3>2
  <2>2. CASE ~\E value \in Config : SetLogs(value)
    BY <2>2, OthersKeep DEF FormattersFollowConfig, TypeOK
  <2> QED
    BY <2>1, <2>2
<1> QED
  BY <1>1, <1>2, TypeCorrect, PTL DEF Spec

-----------------------------------------------------------------------------
\* An appender made by the listener has a formatter, so an event leaves the
\* logger of a configured name as it is.
LEMMA BuiltIdle ==
    ASSUME TypeOK, AppendersOfOneDefinition, NEW n \in DOMAIN logs, NEW level \in Level
    PROVE  LoggerLog(m_loggers[n], level) = m_loggers[n]
<1>1. m_loggers[n] \in LoggerSet /\ m_loggers[n].m_formatter \in GoodPattern
  BY DEF TypeOK, LoggerSet
<1>2. PICK value \in Config :
         /\ n \in DOMAIN value
         /\ m_loggers[n].m_appenders =
               BuildAppenders(value[n].appenders, m_loggers[n].m_formatter)
  BY DEF AppendersOfOneDefinition
<1>3. value[n].appenders \in Seq(AppenderDefineSet)
  BY <1>2, ConfigType DEF LogDefineSet
<1>4. \A k \in DOMAIN m_loggers[n].m_appenders :
         m_loggers[n].m_appenders[k].m_formatter \in GoodPattern
  BY <1>1, <1>2, <1>3, BuildAllType
<1>5. Null \notin GoodPattern
  BY ConfAssumption DEF Pattern
<1> QED
  BY <1>1, <1>4, <1>5, LoggerLogIdle

\* Logging, getting a logger and skipping a definition leave the loggers of the
\* configured names as they are.
LEMMA ConfiguredIdle ==
    ASSUME TypeOK, AppendersOfOneDefinition
    PROVE  /\ \A n \in DOMAIN logs : Before[n] = m_loggers[n]
           /\ [Next]_vars /\ ~(\E value \in Config : SetLogs(value)) =>
                 logs' = logs /\ \A n \in DOMAIN logs : m_loggers'[n] = m_loggers[n]
<1>1. DOMAIN logs \subseteq DOMAIN m_loggers
  BY DEF TypeOK
<1>2. INFO \in Level
  BY DEF INFO, Level, UNKNOW, FATAL
<1>3. \A n \in DOMAIN logs : Before[n] = m_loggers[n]
  BY <1>1, <1>2, BeforeType, BuiltIdle
<1>4. CASE UNCHANGED vars
  BY <1>3, <1>4 DEF vars
<1>5. ASSUME NEW n \in Name, GetLogger(n)
      PROVE  logs' = logs /\ \A m \in DOMAIN logs : m_loggers'[m] = m_loggers[m]
  BY <1>1, <1>5 DEF GetLogger
<1>6. ASSUME NEW n \in Name, NEW level \in DEBUG .. FATAL, Log(n, level)
      PROVE  logs' = logs /\ \A m \in DOMAIN logs : m_loggers'[m] = m_loggers[m]
  <2>1. PICK h \in DOMAIN m_loggers :
           m_loggers' = [m_loggers EXCEPT ![h] = LoggerLog(m_loggers[h], level)]
    BY <1>6, LogEffect
  <2>2. h \in DOMAIN logs => LoggerLog(m_loggers[h], level) = m_loggers[h]
    BY EventLevel, BuiltIdle
  <2> QED
    BY <1>1, <1>6, <2>1, <2>2 DEF Log, TypeOK
<1> QED
  BY <1>3, <1>4, <1>5, <1>6 DEF Next

\* The appenders of a configured logger are those of one of its definitions,
\* equal (==) to the one in "logs", and of the formatter the logger has now.
THEOREM AppendersCorrect == Spec => []AppendersOfOneDefinition
<1>1. Init => AppendersOfOneDefinition
  BY DEF Init, AppendersOfOneDefinition
<1>2. TypeOK /\ AppendersOfOneDefinition /\ [Next]_vars => AppendersOfOneDefinition'
  <2> SUFFICES ASSUME TypeOK, AppendersOfOneDefinition, [Next]_vars
               PROVE  AppendersOfOneDefinition'
    OBVIOUS
  <2>1. ASSUME NEW value \in Config, SetLogs(value) PROVE AppendersOfOneDefinition'
    <3>1. m_loggers' = OnLogsChanged(logs, value) /\ logs' = value
      BY <2>1 DEF SetLogs
    <3> SUFFICES ASSUME NEW n \in DOMAIN value
                 PROVE  \E w \in Config :
                          /\ n \in DOMAIN w
                          /\ DefineEq(w[n], value[n])
                          /\ m_loggers'[n].m_appenders =
                                BuildAppenders(w[n].appenders, m_loggers'[n].m_formatter)
      BY <3>1 DEF AppendersOfOneDefinition
    <3>2. CASE n \in Changed(value)
      <4>1. m_loggers'[n].m_appenders =
              BuildAppenders(value[n].appenders, m_loggers'[n].m_formatter)
        BY <3>1, <3>2, Applied
      <4>2. DefineEq(value[n], value[n])
        BY DEF DefineEq
      <4> QED
        BY <4>1, <4>2
    <3>3. CASE n \notin Changed(value)
      <4>1. /\ n \in DOMAIN logs
            /\ DefineEq(value[n], logs[n])
            /\ m_loggers'[n] = m_loggers[n]
        BY <3>1, <3>3, Skipped, ConfiguredIdle
      <4>2. PICK w \in Config :
               /\ n \in DOMAIN w
               /\ DefineEq(w[n], logs[n])
               /\ m_loggers[n].m_appenders =
                     BuildAppenders(w[n].appenders, m_loggers[n].m_formatter)
        BY <4>1 DEF AppendersOfOneDefinition
      <4>3. DefineEq(w[n], value[n])
        BY <4>1, <4>2 DEF DefineEq
      <4> QED
        BY <4>1, <4>2, <4>3
    <3> QED
      BY <3>2, <3>3
  <2>2. CASE ~\E value \in Config : SetLogs(value)
    BY <2>2, ConfiguredIdle DEF AppendersOfOneDefinition
  <2> QED
    BY <2>1, <2>2
<1> QED
  BY <1>1, <1>2, TypeCorrect, PTL DEF Spec

-----------------------------------------------------------------------------
\* What a logger that is not configured may hold.
OwnsNothing(n, lg) ==
    \/ lg.m_appenders = <<>>
    \/ /\ n = Root
       /\ lg.m_appenders \in {<<Console(Null), Console(Default)>>,
                              <<Console(Default), Console(Default)>>}

\* Events give a formatter to the root's first console and change nothing else.
LEMMA ConsolesLog ==
    ASSUME NEW n, NEW lg \in LoggerSet, NEW level \in Level, OwnsNothing(n, lg)
    PROVE  OwnsNothing(n, LoggerLog(lg, level))
<1> DEFINE log(aps) == [k \in DOMAIN aps |-> AppenderLog(aps[k], level)]
<1>1. log(<<>>) = <<>>
  OBVIOUS
<1>2. /\ Default # Null
      /\ AppenderLog(Console(Default), level) = Console(Default)
      /\ AppenderLog(Console(Null), level) \in {Console(Null), Console(Default)}
  BY ConfAssumption DEF AppenderLog, Console, Pattern
<1>3. \A a, b : log(<<a, b>>) = <<AppenderLog(a, level), AppenderLog(b, level)>>
  OBVIOUS
<1>4. LoggerLog(lg, level) = lg \/ LoggerLog(lg, level).m_appenders = log(lg.m_appenders)
  BY DEF LoggerLog, LoggerSet
<1>5. CASE lg.m_appenders = <<>>
  BY <1>1, <1>4, <1>5 DEF OwnsNothing
<1>6. CASE lg.m_appenders # <<>>
  BY <1>2, <1>3, <1>4, <1>6 DEF OwnsNothing
<1> QED
  BY <1>5, <1>6

\* A logger that is not configured, or no longer, has no appenders of its own,
\* save the two consoles root starts with.
THEOREM UnconfiguredCorrect == Spec => []UnconfiguredOwnNothing
<1>1. Init => UnconfiguredOwnNothing
  BY DEF Init, UnconfiguredOwnNothing, NewRoot, NewLogger
<1>2. TypeOK /\ UnconfiguredOwnNothing /\ [Next]_vars => UnconfiguredOwnNothing'
  <2> SUFFICES ASSUME TypeOK, UnconfiguredOwnNothing, [Next]_vars
               PROVE  UnconfiguredOwnNothing'
    OBVIOUS
  <2>0. \A n \in DOMAIN m_loggers \ DOMAIN logs : OwnsNothing(n, m_loggers[n])
    BY DEF UnconfiguredOwnNothing, OwnsNothing
  <2>1. ASSUME NEW value \in Config, SetLogs(value) PROVE UnconfiguredOwnNothing'
    <3>1. m_loggers' = OnLogsChanged(logs, value) /\ logs' = value
      BY <2>1 DEF SetLogs
    <3>2. ASSUME NEW n \in DOMAIN m_loggers' \ DOMAIN value
          PROVE  OwnsNothing(n, m_loggers'[n])
      <4>1. n \in DOMAIN m_loggers /\ n \notin Changed(value)
        BY <3>1, <3>2, ListenerEffect DEF Changed
      <4>2. CASE n \in DOMAIN logs
        <5>1. m_loggers'[n] = Unconfigured(Before[n]) /\ Before[n] \in LoggerSet
          BY <3>1, <3>2, <4>2, ListenerEffect
        <5> QED
          BY <5>1, UnconfiguredType DEF OwnsNothing
      <4>3. CASE n \notin DOMAIN logs
        <5>1. m_loggers'[n] = Before[n]
          BY <3>1, <4>1, <4>3, ListenerEffect
        <5>2. m_loggers[n] \in LoggerSet /\ INFO \in Level
          BY <4>1 DEF TypeOK, INFO, Level, UNKNOW, FATAL
        <5>3. Before[n] = LoggerLog(m_loggers[n], INFO) \/ Before[n] = m_loggers[n]
          BY <4>1, BeforeType
        <5>4. OwnsNothing(n, m_loggers[n])
          BY <2>0, <4>1, <4>3
        <5>5. OwnsNothing(n, LoggerLog(m_loggers[n], INFO))
          BY <5>2, <5>4, ConsolesLog
        <5> QED
          BY <5>1, <5>3, <5>4, <5>5
      <4> QED
        BY <4>2, <4>3
    <3> QED
      BY <3>1, <3>2 DEF UnconfiguredOwnNothing, OwnsNothing
  <2>2. ASSUME NEW n \in Name, GetLogger(n) PROVE UnconfiguredOwnNothing'
    BY <2>0, <2>2, NewLoggerType DEF GetLogger, UnconfiguredOwnNothing, OwnsNothing
  <2>3. ASSUME NEW n \in Name, NEW level \in DEBUG .. FATAL, Log(n, level)
        PROVE  UnconfiguredOwnNothing'
    <3>1. PICK h \in DOMAIN m_loggers :
             m_loggers' = [m_loggers EXCEPT ![h] = LoggerLog(m_loggers[h], level)]
      BY <2>3, LogEffect
    <3>2. m_loggers[h] \in LoggerSet /\ level \in Level
      BY EventLevel DEF TypeOK
    <3>3. OwnsNothing(h, m_loggers[h]) => OwnsNothing(h, LoggerLog(m_loggers[h], level))
      BY <3>2, ConsolesLog
    <3>4. logs' = logs
      BY <2>3 DEF Log
    <3> QED
      BY <2>0, <3>1, <3>3, <3>4 DEF UnconfiguredOwnNothing, OwnsNothing
  <2>4. CASE UNCHANGED vars
    BY <2>4 DEF vars, UnconfiguredOwnNothing
  <2> QED
    BY <2>1, <2>2, <2>3, <2>4 DEF Next
<1> QED
  BY <1>1, <1>2, TypeCorrect, PTL DEF Spec

-----------------------------------------------------------------------------
\* Every set of naturals has a least element, so one that has 0 and the successor
\* of each of its elements has them all.
LEMMA LeastNat ==
    ASSUME NEW S \in SUBSET Nat, S # {}
    PROVE  \E m \in S : \A k \in S : m <= k
<1> DEFINE R == OpToRel(<, Nat)
<1>1. IsWellFoundedOn(R, Nat)
  BY NatLessThanWellFounded
<1>2. \A m, k \in Nat : k < m => <<k, m>> \in R
  BY DEF OpToRel
<1> HIDE DEF R
<1>3. PICK m \in S : \A k \in S : ~(<<k, m>> \in R)
  BY <1>1, WFMin
<1>4. \A k \in S : ~(k < m)
  BY <1>2, <1>3
<1> QED
  BY <1>4

LEMMA Induction ==
    ASSUME NEW P \in SUBSET Nat, 0 \in P, \A n \in P : n + 1 \in P
    PROVE  P = Nat
<1> SUFFICES ASSUME Nat \ P # {} PROVE FALSE
  OBVIOUS
<1>1. PICK m \in Nat \ P : \A k \in Nat \ P : m <= k
  BY LeastNat
<1>2. m # 0 /\ m - 1 \in Nat
  OBVIOUS
<1>3. m - 1 \in P
  BY <1>1, <1>2
<1>4. (m - 1) + 1 \in P
  BY <1>3
<1> QED
  BY <1>1, <1>4

-----------------------------------------------------------------------------
\* The loop of ReadAppenders: what it has read after each entry.
Loop(entries, n, read) ==
    read = [k \in 0 .. n |->
              IF k = 0 THEN <<>>
              ELSE IF IsAppender(entries[k]) THEN Append(read[k - 1], ReadAppender(entries[k]))
              ELSE read[k - 1]]

LEMMA LoopRuns == ASSUME NEW entries, NEW n \in Nat PROVE \E read : Loop(entries, n, read)
<1> DEFINE P == {m \in Nat : \E read : Loop(entries, m, read)}
<1>1. 0 \in P
  <2>1. Loop(entries, 0, [k \in 0 .. 0 |-> <<>>])
    BY DEF Loop
  <2> QED
    BY <2>1
<1>2. ASSUME NEW m \in P PROVE m + 1 \in P
  <2>1. PICK read : Loop(entries, m, read)
    OBVIOUS
  <2> DEFINE entry == entries[m + 1]
             last  == IF IsAppender(entry) THEN Append(read[m], ReadAppender(entry)) ELSE read[m]
             more  == [k \in 0 .. m + 1 |-> IF k = m + 1 THEN last ELSE read[k]]
  <2>2. \A k \in 0 .. m : k = 0 \/ k - 1 \in 0 .. m
    OBVIOUS
  <2>3. ASSUME NEW k \in 0 .. m + 1
        PROVE  more[k] = IF k = 0 THEN <<>>
                         ELSE IF IsAppender(entries[k])
                              THEN Append(more[k - 1], ReadAppender(entries[k]))
                         ELSE more[k - 1]
    <3>1. CASE k = m + 1
      <4>1. more[k] = last /\ more[k - 1] = read[m]
        BY <3>1
      <4> QED
        BY <3>1, <4>1
    <3>2. CASE k \in 0 .. m
      <4>1. more[k] = read[k] /\ (k # 0 => more[k - 1] = read[k - 1])
        BY <3>2
      <4> QED
        BY <2>1, <3>2, <4>1 DEF Loop
    <3> QED
      BY <3>1, <3>2
  <2>4. more = [k \in 0 .. m + 1 |->
                  IF k = 0 THEN <<>>
                  ELSE IF IsAppender(entries[k])
                       THEN Append(more[k - 1], ReadAppender(entries[k]))
                  ELSE more[k - 1]]
    BY <2>3, Zenon
  <2>5. Loop(entries, m + 1, more)
    BY <2>4, Zenon DEF Loop
  <2> QED
    BY <2>5
<1>3. P = Nat
  BY <1>1, <1>2, Induction, Zenon
<1> QED
  BY <1>3

LEMMA LoopReads ==
    ASSUME NEW entries, Len(entries) \in Nat
    PROVE  \E read : Loop(entries, Len(entries), read) /\ ReadAppenders(entries) = read[Len(entries)]
<1>1. \E read : Loop(entries, Len(entries), read)
  BY LoopRuns
<1> QED
  BY <1>1, Zenon DEF Loop, ReadAppenders

LEMMA LoopStep ==
    ASSUME NEW entries, NEW n \in Nat, NEW read, Loop(entries, n, read)
    PROVE  /\ read[0] = <<>>
           /\ \A k \in Nat : k + 1 <= n =>
                 read[k + 1] = IF IsAppender(entries[k + 1])
                               THEN Append(read[k], ReadAppender(entries[k + 1]))
                               ELSE read[k]
<1>1. \A k \in 0 .. n :
         read[k] = IF k = 0 THEN <<>>
                   ELSE IF IsAppender(entries[k]) THEN Append(read[k - 1], ReadAppender(entries[k]))
                   ELSE read[k - 1]
  BY DEF Loop
<1>2. ASSUME NEW k \in Nat, k + 1 <= n
      PROVE  read[k + 1] = IF IsAppender(entries[k + 1])
                           THEN Append(read[k], ReadAppender(entries[k + 1]))
                           ELSE read[k]
  <2>1. k + 1 \in 0 .. n /\ k + 1 # 0 /\ (k + 1) - 1 = k
    BY <1>2
  <2> QED
    BY <1>1, <2>1
<1>3. 0 \in 0 .. n
  OBVIOUS
<1> QED
  BY <1>1, <1>2, <1>3

\* What reading makes of an entry: its level is not read, and only a file
\* appender has a file.
AppendersRead ==
    {a \in AppenderDefineSet : a.level = UNKNOW /\ (a.type = StdoutType => a.file = "")}

\* The entries of a document that converts.
Readable == {a \in EntrySet : ~Throws(a)}

LEMMA EntryRead ==
    ASSUME NEW a \in Readable, IsAppender(a)
    PROVE  ReadAppender(a) \in AppendersRead
<1>1. /\ a.formatter \in {Absent} \cup Pattern
      /\ a.type = "FileLogAppender" => a.file \in File
  <2>1. /\ a.formatter \in {Absent, NonText} \cup Pattern
        /\ a.file \in {Absent, NonText} \cup File /\ ~Throws(a)
    BY DEF Readable, EntrySet
  <2> QED
    BY <2>1 DEF Throws, IsAppender
<1>2. UNKNOW \in Level
  BY DEF Level, UNKNOW, FATAL
<1>3. Given(a.formatter, "") \in Pattern \cup {""}
  BY <1>1 DEF Given
<1>4. a.type = "FileLogAppender" => a.file \in File
  BY <1>1
<1>5. ASSUME NEW type \in {FileType, StdoutType}, NEW file \in File \cup {""},
             type = StdoutType => file = ""
      PROVE  [type |-> type, level |-> UNKNOW, formatter |-> Given(a.formatter, ""),
              file |-> file] \in AppendersRead
  BY <1>2, <1>3, <1>5 DEF AppendersRead, AppenderDefineSet
<1>6. CASE a.type = "FileLogAppender"
  <2>1. ReadAppender(a) = [type |-> FileType, level |-> UNKNOW,
                           formatter |-> Given(a.formatter, ""), file |-> a.file]
    BY <1>6 DEF ReadAppender
  <2>2. FileType # StdoutType /\ a.file \in File
    BY <1>4, <1>6 DEF FileType, StdoutType
  <2> QED
    BY <1>5, <2>1, <2>2
<1>7. CASE a.type # "FileLogAppender"
  <2>1. ReadAppender(a) = [type |-> StdoutType, level |-> UNKNOW,
                           formatter |-> Given(a.formatter, ""), file |-> ""]
    BY <1>7 DEF ReadAppender
  <2> QED
    BY <1>5, <2>1
<1> QED
  BY <1>6, <1>7

LEMMA EntriesRead ==
    ASSUME NEW entries \in Seq(Readable)
    PROVE  ReadAppenders(entries) \in Seq(AppendersRead)
<1>1. Len(entries) \in Nat /\ \A k \in 1 .. Len(entries) : entries[k] \in Readable
  BY ElementOfSeq, LenProperties
<1>2. PICK read : Loop(entries, Len(entries), read) /\ ReadAppenders(entries) = read[Len(entries)]
  BY <1>1, LoopReads
<1> DEFINE P == {m \in Nat : m <= Len(entries) => read[m] \in Seq(AppendersRead)}
<1>3. 0 \in P
  BY <1>1, <1>2, LoopStep, EmptySeq
<1>4. ASSUME NEW m \in P PROVE m + 1 \in P
  <2> SUFFICES ASSUME m + 1 <= Len(entries) PROVE read[m + 1] \in Seq(AppendersRead)
    BY <1>1
  <2>1. read[m] \in Seq(AppendersRead) /\ entries[m + 1] \in Readable
    BY <1>1
  <2>2. read[m + 1] = IF IsAppender(entries[m + 1])
                      THEN Append(read[m], ReadAppender(entries[m + 1])) ELSE read[m]
    BY <1>1, <1>2, LoopStep
  <2> QED
    BY <2>1, <2>2, EntryRead, AppendProperties
<1>5. Len(entries) \in P
  <2>1. P = Nat
    BY <1>3, <1>4, Induction, Zenon
  <2> QED
    BY <1>1, <2>1
<1> QED
  BY <1>1, <1>2, <1>5

\* Entries that are all appenders are read one by one.
LEMMA AllRead ==
    ASSUME NEW entries, Len(entries) \in Nat,
           \A k \in 1 .. Len(entries) : IsAppender(entries[k])
    PROVE  ReadAppenders(entries) = [k \in 1 .. Len(entries) |-> ReadAppender(entries[k])]
<1> DEFINE upTo(m) == [k \in 1 .. m |-> ReadAppender(entries[k])]
<1>1. PICK read : Loop(entries, Len(entries), read) /\ ReadAppenders(entries) = read[Len(entries)]
  BY LoopReads
<1> DEFINE P == {m \in Nat : m <= Len(entries) => read[m] = upTo(m)}
<1>2. 0 \in P
  <2>1. upTo(0) = <<>>
    OBVIOUS
  <2> QED
    BY <1>1, <2>1, LoopStep
<1>3. ASSUME NEW m \in P PROVE m + 1 \in P
  <2> SUFFICES ASSUME m + 1 <= Len(entries) PROVE read[m + 1] = upTo(m + 1)
    OBVIOUS
  <2>1. read[m] = upTo(m) /\ m \in Nat
    OBVIOUS
  <2>2. IsAppender(entries[m + 1])
    BY <2>1
  <2>3. read[m + 1] = IF IsAppender(entries[m + 1])
                      THEN Append(read[m], ReadAppender(entries[m + 1])) ELSE read[m]
    BY <1>1, <2>1, LoopStep
  <2>4. Append(upTo(m), ReadAppender(entries[m + 1])) = upTo(m + 1)
    BY <2>1
  <2> QED
    BY <2>1, <2>2, <2>3, <2>4
<1>4. Len(entries) \in P
  <2>1. P = Nat
    BY <1>2, <1>3, Induction, Zenon
  <2> QED
    BY <2>1
<1> QED
  BY <1>1, <1>4

-----------------------------------------------------------------------------
\* SetToSeq lists each element once.
LEMMA Listing ==
    ASSUME NEW S, IsFiniteSet(S)
    PROVE  /\ Len(SetToSeq(S)) \in Nat /\ DOMAIN SetToSeq(S) = 1 .. Len(SetToSeq(S))
           /\ \A k \in DOMAIN SetToSeq(S) : SetToSeq(S)[k] \in S
           /\ \A n \in S : \E k \in DOMAIN SetToSeq(S) : SetToSeq(S)[k] = n
<1> DEFINE size == Cardinality(S)
           list == SetToSeq(S)
<1>1. size \in Nat /\ ExistsBijection(1 .. size, S)
  BY FS_CardinalityType
<1>2. \E f \in [1 .. size -> S] : IsInjective(f)
  BY <1>1 DEF ExistsBijection, Bijection, Injection
<1>3. list \in [1 .. size -> S] /\ IsInjective(list)
  BY <1>2 DEF SetToSeq
<1>4. list \in Injection(1 .. size, S)
  BY <1>3 DEF Injection
<1>5. IsFiniteSet(1 .. size) /\ Cardinality(1 .. size) = size
  BY <1>1, FS_Interval
<1>6. list \in Surjection(1 .. size, S)
  BY <1>4, <1>5, FS_Injection
<1>7. list \in Seq(S)
  BY <1>1, <1>3, SeqDef
<1>8. Len(list) = size /\ DOMAIN list = 1 .. size
  BY <1>1, <1>3, <1>7, LenProperties
<1>9. \A n \in S : \E k \in 1 .. size : list[k] = n
  BY <1>6 DEF Surjection
<1> HIDE DEF list
<1>10. /\ Len(list) \in Nat /\ DOMAIN list = 1 .. Len(list)
       /\ \A k \in DOMAIN list : list[k] \in S
       /\ \A n \in S : \E k \in DOMAIN list : list[k] = n
  BY <1>1, <1>3, <1>8, <1>9
<1> QED
  BY <1>10 DEF list

\* The node that is kept of a name is one of the document with that name.
LEMMA FirstIsOne ==
    ASSUME NEW doc, Len(doc) \in Nat, DOMAIN doc = 1 .. Len(doc), NEW i \in DOMAIN doc
    PROVE  \E k \in DOMAIN doc : doc[k].name = doc[i].name /\ FirstNode(doc, doc[i].name) = doc[k]
<1> DEFINE same == {k \in DOMAIN doc : doc[k].name = doc[i].name}
<1>1. same \in SUBSET Nat /\ same # {}
  OBVIOUS
<1>2. \E m \in same : \A k \in same : m <= k
  BY <1>1, LeastNat
<1>3. Min(same) \in same
  BY <1>2 DEF Min
<1>4. FirstNode(doc, doc[i].name) = doc[Min(same)]
  BY DEF FirstNode
<1> QED
  BY <1>3, <1>4

\* A document with one node for each name is read node by node.
LEMMA ReadEach ==
    ASSUME NEW S, IsFiniteSet(S), NEW node, \A n \in S : node[n].name = n
    PROVE  LET names == SetToSeq(S)
               doc   == [k \in DOMAIN names |-> node[names[k]]]
           IN  /\ {doc[k].name : k \in DOMAIN doc} = S
               /\ ReadLogs(doc) = [n \in S |-> ReadDefine(node[n])]
<1> DEFINE names == SetToSeq(S)
           doc   == [k \in DOMAIN names |-> node[names[k]]]
<1>1. /\ Len(names) \in Nat /\ DOMAIN names = 1 .. Len(names)
      /\ \A k \in DOMAIN names : names[k] \in S
      /\ \A n \in S : \E k \in DOMAIN names : names[k] = n
  BY Listing
<1> HIDE DEF names
<1>2. DOMAIN doc = 1 .. Len(names) /\ \A k \in DOMAIN doc : doc[k] = node[names[k]]
  BY <1>1
<1>3. doc \in Seq({doc[k] : k \in DOMAIN doc})
  BY <1>1, <1>2, SeqDef
<1>4. Len(doc) = Len(names)
  BY <1>1, <1>2, <1>3, LenProperties
<1>5. \A k \in DOMAIN doc : doc[k].name = names[k] /\ names[k] \in S
  BY <1>1, <1>2
<1>6. {doc[k].name : k \in DOMAIN doc} = S
  BY <1>1, <1>2, <1>5
<1>7. ASSUME NEW n \in S PROVE FirstNode(doc, n) = node[n]
  <2>1. PICK i \in DOMAIN doc : names[i] = n
    BY <1>1
  <2>2. doc[i].name = n
    BY <1>5, <2>1
  <2> HIDE DEF doc
  <2>3. i \in DOMAIN doc /\ Len(doc) \in Nat /\ DOMAIN doc = 1 .. Len(doc)
    BY <1>1, <1>2, <1>4, <2>1
  <2>4. PICK k \in DOMAIN doc : doc[k].name = doc[i].name /\ FirstNode(doc, doc[i].name) = doc[k]
    BY <2>3, FirstIsOne, Zenon
  <2> QED
    BY <1>2, <1>5, <2>2, <2>4
<1>8. ReadLogs(doc) = [n \in S |-> ReadDefine(node[n])]
  <2> HIDE DEF doc
  <2>1. ReadLogs(doc) = [n \in S |-> ReadDefine(FirstNode(doc, n))]
    BY <1>6 DEF ReadLogs
  <2> QED
    BY <1>7, <2>1
<1> QED
  BY <1>6, <1>8 DEF names

-----------------------------------------------------------------------------
\* A level, other than the default that is left out, is read back.
LEMMA LevelRead ==
    /\ \A level \in Level : LevelFromString(LevelToString(level)) = level
    /\ LevelFromString("") = UNKNOW
<1> USE DEF UNKNOW, DEBUG, INFO, WARN, ERROR, FATAL
<1>1. \A level \in 1 .. 5 : level = 1 \/ level = 2 \/ level = 3 \/ level = 4 \/ level = 5
  OBVIOUS
<1>0. /\ UpperCase[1] = "DEBUG" /\ UpperCase[2] = "INFO" /\ UpperCase[3] = "WARN"
      /\ UpperCase[4] = "ERROR" /\ UpperCase[5] = "FATAL"
      /\ LowerCase[1] = "debug" /\ LowerCase[2] = "info" /\ LowerCase[3] = "warn"
      /\ LowerCase[4] = "error" /\ LowerCase[5] = "fatal"
  BY DEF UpperCase, LowerCase
<1>2. ASSUME NEW str, \A level \in 1 .. 5 : str \notin {UpperCase[level], LowerCase[level]}
      PROVE  LevelFromString(str) = 0
  BY <1>2 DEF LevelFromString
<1>3. ASSUME NEW str, NEW level \in 1 .. 5, str \in {UpperCase[level], LowerCase[level]},
             \A other \in 1 .. 5 : str \in {UpperCase[other], LowerCase[other]} => other = level
      PROVE  LevelFromString(str) = level
  BY <1>3 DEF LevelFromString
<1>4. \A level, other \in 1 .. 5 :
         UpperCase[level] \in {UpperCase[other], LowerCase[other]} => other = level
  BY <1>1 DEF UpperCase, LowerCase
<1>5. ASSUME NEW str \in {"", "UNKNOW"}
      PROVE  \A level \in 1 .. 5 : str \notin {UpperCase[level], LowerCase[level]}
  BY <1>0, <1>1
<1>6. \A level \in 1 .. 5 : LevelToString(level) = UpperCase[level]
  BY DEF LevelToString
<1>7. LevelToString(0) = "UNKNOW"
  BY DEF LevelToString
<1>9. \A level \in Level : level = 0 \/ level \in 1 .. 5
  BY DEF Level
<1>10. \A level \in 1 .. 5 : LevelFromString(UpperCase[level]) = level
  BY <1>3, <1>4
<1>11. LevelFromString("UNKNOW") = 0 /\ LevelFromString("") = 0
  BY <1>2, <1>5
<1> QED
  BY <1>6, <1>7, <1>9, <1>10, <1>11

\* A definition that was read is written as a node that reads back as it, and the
\* dump of a logger as one that holds what it is about.
FilesOnly(aps) == \A k \in DOMAIN aps : aps[k].type = StdoutType => aps[k].file = ""

LEMMA TextRead ==
    ASSUME NEW text, text # Absent
    PROVE  Given(WriteText(text), "") = text
BY DEF Given, WriteText

LEMMA NotNonText == "FileLogAppender" # NonText /\ "StdoutLogAppender" # NonText
  BY YamlAssumption

LEMMA EntryWritten ==
    ASSUME NEW a \in AppendersRead
    PROVE  /\ IsAppender(WriteAppender(a)) /\ ~Throws(WriteAppender(a))
           /\ ReadAppender(WriteAppender(a)) = a
<1>1. a \in AppenderDefineSet /\ a.level = UNKNOW /\ (a.type = StdoutType => a.file = "")
  BY DEF AppendersRead
<1>2. /\ a.type \in {FileType, StdoutType} /\ a.formatter \in Pattern \cup {""}
      /\ a.file \in File \cup {""}
      /\ a = [type |-> a.type, level |-> a.level, formatter |-> a.formatter, file |-> a.file]
  BY <1>1 DEF AppenderDefineSet
<1>3. a.formatter # Absent /\ a.file # Absent
  BY <1>2, YamlAssumption
<1>0. a.file # NonText /\ WriteText(a.formatter) # NonText
  BY <1>2, YamlAssumption DEF WriteText
<1>4. Given(WriteText(a.formatter), "") = a.formatter
  BY <1>3, TextRead
<1>5. CASE a.type = FileType
  <2>1. WriteAppender(a) = [type |-> "FileLogAppender", level |-> WriteLevel(a.level),
                            formatter |-> WriteText(a.formatter), file |-> a.file]
    BY <1>5 DEF WriteAppender
  <2>0. /\ WriteAppender(a).type = "FileLogAppender"
        /\ WriteAppender(a).formatter = WriteText(a.formatter)
        /\ WriteAppender(a).file = a.file
    BY <2>1
  <2>2. IsAppender(WriteAppender(a)) /\ ~Throws(WriteAppender(a))
    BY <1>0, <1>3, <2>0, NotNonText DEF IsAppender, Throws
  <2>3. ReadAppender(WriteAppender(a)) =
          [type |-> FileType, level |-> UNKNOW, formatter |-> a.formatter, file |-> a.file]
    <3>1. /\ WriteAppender(a).type = "FileLogAppender"
          /\ WriteAppender(a).formatter = WriteText(a.formatter)
          /\ WriteAppender(a).file = a.file
      BY <2>1
    <3>2. Given(WriteAppender(a).formatter, "") = a.formatter
      BY <1>4, <3>1, Zenon
    <3> QED
      BY <3>1, <3>2, Zenon DEF ReadAppender
  <2> QED
    BY <1>1, <1>2, <1>5, <2>2, <2>3
<1>6. CASE a.type # FileType
  <2>1. WriteAppender(a) = [type |-> "StdoutLogAppender", level |-> WriteLevel(a.level),
                            formatter |-> WriteText(a.formatter), file |-> Absent]
    BY <1>6 DEF WriteAppender
  <2>0. /\ WriteAppender(a).type = "StdoutLogAppender"
        /\ WriteAppender(a).formatter = WriteText(a.formatter)
    BY <2>1
  <2>2. IsAppender(WriteAppender(a)) /\ ~Throws(WriteAppender(a))
    BY <1>0, <2>0, NotNonText DEF IsAppender, Throws
  <2>3. ReadAppender(WriteAppender(a)) =
          [type |-> StdoutType, level |-> UNKNOW, formatter |-> a.formatter, file |-> ""]
    <3>1. /\ WriteAppender(a).type = "StdoutLogAppender"
          /\ WriteAppender(a).formatter = WriteText(a.formatter)
          /\ WriteAppender(a).file = Absent
      BY <2>1
    <3>2. Given(WriteAppender(a).formatter, "") = a.formatter
      BY <1>4, <3>1, Zenon
    <3> QED
      BY <3>1, <3>2, Zenon DEF ReadAppender
  <2> QED
    BY <1>1, <1>2, <1>6, <2>2, <2>3
<1> QED
  BY <1>5, <1>6

LEMMA EntryDumped ==
    ASSUME NEW a \in AppenderSet, a.type = StdoutType => a.file = ""
    PROVE  /\ IsAppender(DumpAppender(a)) /\ ~Throws(DumpAppender(a))
           /\ ReadAppender(DumpAppender(a)).type = a.type
           /\ ReadAppender(DumpAppender(a)).file = a.file
<1>1. a.type \in {FileType, StdoutType} /\ a.file \in File \cup {""}
  BY DEF AppenderSet
<1>2. a.file \notin {Absent, NonText}
  BY <1>1, YamlAssumption
<1>3. CASE a.type = FileType
  <2>1. /\ DumpAppender(a).type = "FileLogAppender" /\ DumpAppender(a).file = a.file
        /\ DumpAppender(a).formatter = Absent
    BY <1>3 DEF DumpAppender
  <2> QED
    BY <1>2, <1>3, <2>1, YamlAssumption DEF IsAppender, Throws, ReadAppender
<1>4. CASE a.type # FileType
  <2>1. DumpAppender(a).type = "StdoutLogAppender" /\ DumpAppender(a).formatter = Absent
    BY <1>4 DEF DumpAppender
  <2> QED
    BY <1>1, <1>4, <2>1, YamlAssumption DEF IsAppender, Throws, ReadAppender
<1> QED
  BY <1>3, <1>4

LEMMA DefineWritten ==
    ASSUME NEW n, NEW def \in LogDefineSet, def.appenders \in Seq(AppendersRead)
    PROVE  /\ ReadDefine(WriteDefine(n, def)) = def
           /\ NonText \notin {WriteDefine(n, def).level, WriteDefine(n, def).formatter}
           /\ \A i \in DOMAIN WriteDefine(n, def).appenders :
                 ~Throws(WriteDefine(n, def).appenders[i])
<1> DEFINE aps == [k \in DOMAIN def.appenders |-> WriteAppender(def.appenders[k])]
<1>1. /\ def.level \in Level /\ def.formatter \in Pattern \cup {""}
      /\ def = [level |-> def.level, formatter |-> def.formatter, appenders |-> def.appenders]
  BY DEF LogDefineSet
<1>2. LevelFromString(Given(WriteLevel(def.level), "")) = def.level
  BY <1>1, LevelRead, YamlAssumption DEF Given, WriteLevel
<1>3. Given(WriteText(def.formatter), "") = def.formatter
  BY <1>1, TextRead, YamlAssumption
<1>4. /\ Len(def.appenders) \in Nat /\ DOMAIN def.appenders = 1 .. Len(def.appenders)
      /\ \A k \in 1 .. Len(def.appenders) : def.appenders[k] \in AppendersRead
      /\ def.appenders = [k \in 1 .. Len(def.appenders) |-> def.appenders[k]]
  BY ElementOfSeq, LenProperties
<1>5. Len(aps) = Len(def.appenders) /\ \A k \in 1 .. Len(def.appenders) : aps[k] = WriteAppender(def.appenders[k])
  BY <1>4
<1>6. \A k \in 1 .. Len(def.appenders) :
         IsAppender(aps[k]) /\ ~Throws(aps[k]) /\ ReadAppender(aps[k]) = def.appenders[k]
  BY <1>4, <1>5, EntryWritten
<1>0. DOMAIN aps = 1 .. Len(def.appenders)
  BY <1>4
<1> HIDE DEF aps
<1>7. ReadAppenders(aps) = [k \in 1 .. Len(aps) |-> ReadAppender(aps[k])]
  BY <1>4, <1>5, <1>6, AllRead
<1>8. ReadAppenders(aps) = def.appenders
  BY <1>4, <1>5, <1>6, <1>7
<1>9. WriteDefine(n, def) = [name |-> n, level |-> WriteLevel(def.level),
                             formatter |-> WriteText(def.formatter), appenders |-> aps]
  BY DEF WriteDefine, aps
<1>10. ReadDefine(WriteDefine(n, def)) =
         [level |-> def.level, formatter |-> def.formatter, appenders |-> def.appenders]
  <2>1. /\ WriteDefine(n, def).level = WriteLevel(def.level)
        /\ WriteDefine(n, def).formatter = WriteText(def.formatter)
        /\ WriteDefine(n, def).appenders = aps
    BY <1>9
  <2> QED
    BY <1>2, <1>3, <1>8, <2>1, Zenon DEF ReadDefine
<1>11. WriteLevel(def.level) # NonText /\ WriteText(def.formatter) # NonText
  BY <1>1, YamlAssumption DEF WriteLevel, WriteText
<1>12. /\ NonText \notin {WriteDefine(n, def).level, WriteDefine(n, def).formatter}
       /\ \A i \in DOMAIN WriteDefine(n, def).appenders :
             ~Throws(WriteDefine(n, def).appenders[i])
  <2>1. /\ WriteDefine(n, def).level = WriteLevel(def.level)
        /\ WriteDefine(n, def).formatter = WriteText(def.formatter)
        /\ WriteDefine(n, def).appenders = aps
    BY <1>9
  <2> QED
    BY <1>0, <1>6, <1>11, <2>1
<1> QED
  BY <1>1, <1>10, <1>12

LEMMA LoggerDumped ==
    ASSUME NEW n, NEW lg \in LoggerSet, FilesOnly(lg.m_appenders)
    PROVE  LET node == DumpLogger(n, lg)
               read == ReadDefine(node)
           IN
           /\ NonText \notin {node.level, node.formatter}
           /\ \A i \in DOMAIN node.appenders : ~Throws(node.appenders[i])
           /\ read.level = lg.m_level /\ read.formatter = lg.m_formatter
           /\ Len(read.appenders) = Len(lg.m_appenders)
           /\ \A k \in DOMAIN lg.m_appenders :
                 /\ read.appenders[k].type = lg.m_appenders[k].type
                 /\ read.appenders[k].file = lg.m_appenders[k].file
<1> DEFINE aps == [k \in DOMAIN lg.m_appenders |-> DumpAppender(lg.m_appenders[k])]
           node == DumpLogger(n, lg)
<1>1. lg.m_level \in Level /\ lg.m_formatter \in GoodPattern /\ lg.m_appenders \in Seq(AppenderSet)
  BY DEF LoggerSet
<1>2. /\ Len(lg.m_appenders) \in Nat /\ DOMAIN lg.m_appenders = 1 .. Len(lg.m_appenders)
      /\ \A k \in 1 .. Len(lg.m_appenders) : lg.m_appenders[k] \in AppenderSet
  BY <1>1, ElementOfSeq, LenProperties
<1>3. /\ Len(aps) = Len(lg.m_appenders)
      /\ \A k \in 1 .. Len(lg.m_appenders) : aps[k] = DumpAppender(lg.m_appenders[k])
  BY <1>2
<1>4. \A k \in 1 .. Len(lg.m_appenders) :
         /\ IsAppender(aps[k]) /\ ~Throws(aps[k])
         /\ ReadAppender(aps[k]).type = lg.m_appenders[k].type
         /\ ReadAppender(aps[k]).file = lg.m_appenders[k].file
  BY <1>2, <1>3, EntryDumped DEF FilesOnly
<1>0. DOMAIN aps = 1 .. Len(lg.m_appenders)
  BY <1>2
<1>5. /\ node.level = LevelToString(lg.m_level) /\ node.formatter = lg.m_formatter
      /\ node.appenders = aps
  BY DEF DumpLogger
<1> HIDE DEF aps, node
<1>6. ReadAppenders(aps) = [k \in 1 .. Len(aps) |-> ReadAppender(aps[k])]
  BY <1>2, <1>3, <1>4, AllRead
<1>7. Len(ReadAppenders(aps)) = Len(lg.m_appenders)
  BY <1>2, <1>3, <1>6
<1>8. Given(node.level, "") = LevelToString(lg.m_level)
  BY <1>1, <1>5, YamlAssumption DEF Given
<1>9. Given(node.formatter, "") = lg.m_formatter
  BY <1>1, <1>5, YamlAssumption DEF Given, Pattern
<1>10. /\ ReadDefine(node).level = lg.m_level /\ ReadDefine(node).formatter = lg.m_formatter
       /\ ReadDefine(node).appenders = ReadAppenders(aps)
  <2>1. LevelFromString(LevelToString(lg.m_level)) = lg.m_level
    BY <1>1, LevelRead
  <2> QED
    BY <1>5, <1>8, <1>9, <2>1, Zenon DEF ReadDefine
<1>11. /\ NonText \notin {node.level, node.formatter}
       /\ \A i \in DOMAIN node.appenders : ~Throws(node.appenders[i])
  <2>1. LevelToString(lg.m_level) # NonText /\ lg.m_formatter # NonText
    BY <1>1, YamlAssumption DEF Pattern
  <2> QED
    BY <1>0, <1>4, <1>5, <2>1
<1> QED
  BY <1>2, <1>3, <1>4, <1>6, <1>7, <1>10, <1>11 DEF node

-----------------------------------------------------------------------------
\* No entry of a document that converts throws.
LEMMA NodeReadable ==
    ASSUME NEW doc \in Seq(NodeSet), Converts(doc), NEW k \in DOMAIN doc
    PROVE  doc[k].appenders \in Seq(Readable)
<1> DEFINE entries == doc[k].appenders
<1>1. doc[k] \in NodeSet
  BY ElementOfSeq, LenProperties
<1>2. entries \in Seq(EntrySet)
  BY <1>1 DEF NodeSet
<1>3. \A i \in DOMAIN entries : ~Throws(entries[i])
  BY DEF Converts
<1> HIDE DEF entries
<1>4. /\ Len(entries) \in Nat /\ DOMAIN entries = 1 .. Len(entries)
      /\ \A i \in 1 .. Len(entries) : entries[i] \in EntrySet
  BY <1>2, ElementOfSeq, LenProperties
<1>5. \A i \in 1 .. Len(entries) : entries[i] \in Readable
  BY <1>3, <1>4 DEF Readable
<1>6. entries = [i \in 1 .. Len(entries) |-> entries[i]]
  BY <1>2, LenProperties
<1>7. entries \in Seq(Readable)
  BY <1>4, <1>5, <1>6, SeqDef
<1> QED
  BY <1>7 DEF entries

\* A document that converts gives a value of "logs" with finitely many loggers,
\* each defined by one of the document's nodes.
LEMMA DocumentRead ==
    ASSUME NEW doc \in Seq(NodeSet), Converts(doc)
    PROVE  /\ IsFiniteSet(DOMAIN ReadLogs(doc))
           /\ DOMAIN ReadLogs(doc) = {doc[k].name : k \in DOMAIN doc}
           /\ \A n \in DOMAIN ReadLogs(doc) :
                 /\ ReadLogs(doc)[n] = ReadDefine(FirstNode(doc, n))
                 /\ ReadLogs(doc)[n].appenders \in Seq(AppendersRead)
<1> DEFINE names == {doc[k].name : k \in DOMAIN doc}
           name  == [k \in DOMAIN doc |-> doc[k].name]
<1>1. /\ Len(doc) \in Nat /\ DOMAIN doc = 1 .. Len(doc)
      /\ \A k \in 1 .. Len(doc) : doc[k] \in NodeSet
  BY ElementOfSeq, LenProperties
<1>2. IsFiniteSet(names)
  <2>1. name \in Surjection(1 .. Len(doc), names)
    BY <1>1 DEF Surjection
  <2>2. IsFiniteSet(1 .. Len(doc))
    BY <1>1, FS_Interval
  <2> QED
    BY <2>1, <2>2, FS_Surjection
<1>3. ReadLogs(doc) = [n \in names |-> ReadDefine(FirstNode(doc, n))]
  BY DEF ReadLogs
<1>4. ASSUME NEW n \in names PROVE ReadDefine(FirstNode(doc, n)).appenders \in Seq(AppendersRead)
  <2>1. PICK i \in DOMAIN doc : n = doc[i].name
    OBVIOUS
  <2>2. PICK k \in DOMAIN doc : FirstNode(doc, n) = doc[k]
    BY <1>1, <2>1, FirstIsOne
  <2>3. FirstNode(doc, n).appenders \in Seq(Readable)
    BY <1>1, <2>2, NodeReadable
  <2>4. ReadDefine(FirstNode(doc, n)).appenders = ReadAppenders(FirstNode(doc, n).appenders)
    BY DEF ReadDefine
  <2> QED
    BY <2>3, <2>4, EntriesRead
<1> QED
  BY <1>2, <1>3, <1>4

-----------------------------------------------------------------------------
\* Loading a document is, for the loggers and the value, setting the value or
\* logging one event to root, or nothing.
LEMMA LoadIsStep ==
    ASSUME TypeOK, NEW doc \in Document, LoadLogs(doc)
    PROVE  [Next]_vars
<1>1. CASE Converts(doc)
  <2>1. ReadLogs(doc) \in Config
    BY <1>1, YamlAssumption
  <2>2. SetLogs(ReadLogs(doc)) \/ UNCHANGED vars
    BY <1>1 DEF LoadLogs, Apply, vars
  <2> QED
    BY <2>1, <2>2 DEF Next
<1>2. CASE ~Converts(doc)
  <2>1. /\ m_loggers' = [m_loggers EXCEPT ![Root] = LoggerLog(m_loggers[Root], ERROR)]
        /\ logs' = logs
    BY <1>2 DEF LoadLogs
  <2>2. Root \in DOMAIN m_loggers /\ ERROR \in DEBUG .. FATAL
    BY DEF TypeOK, ERROR, DEBUG, FATAL
  <2>3. CASE ERROR >= m_loggers[Root].m_level
    <3>1. Log(Root, ERROR)
      BY <2>1, <2>2, <2>3 DEF Log
    <3> QED
      BY <2>2, <3>1, ConfAssumption DEF Next
  <2>4. CASE ~(ERROR >= m_loggers[Root].m_level)
    <3>1. LoggerLog(m_loggers[Root], ERROR) = m_loggers[Root]
      BY <2>4 DEF LoggerLog
    <3>2. m_loggers' = m_loggers
      BY <2>1, <2>2, <3>1 DEF TypeOK
    <3> QED
      BY <2>1, <3>2 DEF vars
  <2> QED
    BY <2>3, <2>4
<1> QED
  BY <1>1, <1>2

LEMMA YamlIsStep == ASSUME TypeOK, [NextYaml]_varsYaml PROVE [Next]_vars
<1>1. CASE \E doc \in Document : LoadLogs(doc)
  BY <1>1, LoadIsStep
<1>2. CASE \E n \in Name : GetLogger(n)
  BY <1>2 DEF Next
<1>3. CASE \E n \in Name, level \in DEBUG .. FATAL : Log(n, level)
  BY <1>3 DEF Next
<1>4. CASE UNCHANGED varsYaml
  BY <1>4 DEF varsYaml, vars
<1> QED
  BY <1>1, <1>2, <1>3, <1>4 DEF NextYaml

\* Loading documents does to the loggers and the value nothing that setting the
\* value, getting loggers and logging do not.
THEOREM YamlRefinement == SpecYaml => ImplementsLogConf
<1>1. InitYaml => Init /\ TypeOK
  BY InitType DEF InitYaml
<1>2. TypeOK /\ [NextYaml]_varsYaml => [Next]_vars
  BY YamlIsStep
<1>3. TypeOK /\ [NextYaml]_varsYaml => TypeOK'
  BY YamlIsStep, NextType
<1> QED
  BY <1>1, <1>2, <1>3, PTL DEF SpecYaml, Spec, ImplementsLogConf

-----------------------------------------------------------------------------
\* What is written reads back because the value comes from documents, so that no
\* console has a file and no appender a level, and there are finitely many loggers.
ValueOfDocument ==
    /\ IsFiniteSet(DOMAIN logs)
    /\ \A n \in DOMAIN logs : logs[n].appenders \in Seq(AppendersRead)
    /\ loaded \in Seq(NodeSet) /\ Converts(loaded) /\ LogsEq(ReadLogs(loaded), logs)

LoggersDumpable ==
    /\ IsFiniteSet(DOMAIN m_loggers)
    /\ \A n \in DOMAIN m_loggers : FilesOnly(m_loggers[n].m_appenders)

LEMMA NoFiles == FilesOnly(<<>>)
<1>1. DOMAIN <<>> = {}
  OBVIOUS
<1> QED
  BY <1>1 DEF FilesOnly

LEMMA InitYamlInv == InitYaml => ValueOfDocument /\ LoggersDumpable
<1> SUFFICES ASSUME InitYaml PROVE ValueOfDocument /\ LoggersDumpable
  OBVIOUS
<1>1. DOMAIN logs = {} /\ loaded = <<>> /\ DOMAIN m_loggers = {Root} /\ m_loggers[Root] = NewRoot
  BY DEF InitYaml, Init
<1>2. loaded \in Seq(NodeSet) /\ DOMAIN loaded = {}
  BY <1>1, EmptySeq
<1>3. DOMAIN ReadLogs(loaded) = {}
  BY <1>2 DEF ReadLogs
<1>4. ValueOfDocument
  BY <1>1, <1>2, <1>3, FS_EmptySet DEF ValueOfDocument, Converts, LogsEq
<1>5. FilesOnly(NewRoot.m_appenders)
  <2>1. NewRoot.m_appenders = <<Console(Null), Console(Default)>>
    BY DEF NewRoot, NewLogger
  <2>2. Console(Null).file = "" /\ Console(Default).file = ""
    BY DEF Console
  <2> DEFINE aps == <<Console(Null), Console(Default)>>
  <2>3. \A k \in DOMAIN aps : aps[k] = Console(Null) \/ aps[k] = Console(Default)
    OBVIOUS
  <2>4. \A k \in DOMAIN aps : aps[k].file = ""
    BY <2>2, <2>3
  <2> QED
    BY <2>1, <2>4 DEF FilesOnly
<1>6. LoggersDumpable
  BY <1>1, <1>5, FS_Singleton DEF LoggersDumpable
<1> QED
  BY <1>4, <1>6

\* Neither events nor the listener give a console a file.
LEMMA LoggerLogFiles ==
    ASSUME NEW lg \in LoggerSet, NEW level \in Level, FilesOnly(lg.m_appenders)
    PROVE  FilesOnly(LoggerLog(lg, level).m_appenders)
<1>1. LoggerLog(lg, level) = lg
      \/ LoggerLog(lg, level).m_appenders =
            [k \in DOMAIN lg.m_appenders |-> AppenderLog(lg.m_appenders[k], level)]
  BY DEF LoggerLog, LoggerSet
<1>2. \A k \in DOMAIN lg.m_appenders : lg.m_appenders[k] \in AppenderSet
  BY ElementOfSeq, LenProperties DEF LoggerSet
<1>3. \A k \in DOMAIN lg.m_appenders :
         /\ AppenderLog(lg.m_appenders[k], level).type = lg.m_appenders[k].type
         /\ AppenderLog(lg.m_appenders[k], level).file = lg.m_appenders[k].file
  BY <1>2 DEF AppenderLog, AppenderSet
<1> QED
  BY <1>1, <1>3 DEF FilesOnly

LEMMA ReconfiguredFiles ==
    ASSUME NEW lg, NEW def, def.appenders \in Seq(AppendersRead)
    PROVE  FilesOnly(Reconfigured(lg, def).m_appenders)
<1> DEFINE defs == def.appenders
<1>0. \A k \in DOMAIN defs : defs[k] \in AppendersRead
  BY ElementOfSeq, LenProperties
<1>1. \A k \in DOMAIN defs : defs[k].type = StdoutType => defs[k].file = ""
  BY <1>0 DEF AppendersRead
<1>2. PICK f : Reconfigured(lg, def).m_appenders = BuildAppenders(defs, f)
  BY DEF Reconfigured
<1>3. /\ DOMAIN BuildAppenders(defs, f) = DOMAIN defs
      /\ \A k \in DOMAIN defs :
            /\ BuildAppenders(defs, f)[k].type = defs[k].type
            /\ BuildAppenders(defs, f)[k].file = defs[k].file
  BY DEF BuildAppenders, BuildAppender
<1> QED
  BY <1>1, <1>2, <1>3 DEF FilesOnly

LEMMA SetLogsInv ==
    ASSUME TypeOK, ValueOfDocument, LoggersDumpable, NEW doc \in Document, Converts(doc),
           SetLogs(ReadLogs(doc))
    PROVE  LoggersDumpable'
<1> DEFINE value == ReadLogs(doc)
           new   == OnLogsChanged(logs, value)
<1>1. m_loggers' = new /\ value \in Config /\ doc \in Seq(NodeSet)
  BY YamlAssumption DEF SetLogs
<1>2. /\ IsFiniteSet(DOMAIN value)
      /\ \A n \in DOMAIN value : value[n].appenders \in Seq(AppendersRead)
  BY <1>1, DocumentRead
<1> HIDE DEF value
<1>3. DOMAIN new = DOMAIN m_loggers \cup Changed(value) /\ Changed(value) \subseteq DOMAIN value
  BY <1>1, ListenerEffect DEF Changed
<1>4. IsFiniteSet(DOMAIN new)
  BY <1>2, <1>3, FS_Subset, FS_Union DEF LoggersDumpable
<1>5. ASSUME NEW n \in DOMAIN new PROVE FilesOnly(new[n].m_appenders)
  <2>1. CASE n \in Changed(value)
    <3>1. new[n] = Reconfigured(Lookup(n), value[n])
      BY <1>1, <2>1, ListenerEffect
    <3> QED
      BY <1>2, <1>3, <2>1, <3>1, ReconfiguredFiles
  <2>2. CASE n \in DOMAIN logs \ DOMAIN value
    <3>1. new[n] = Unconfigured(Before[n]) /\ Before[n] \in LoggerSet
      BY <1>1, <2>2, ListenerEffect
    <3>2. new[n].m_appenders = <<>>
      BY <3>1, UnconfiguredType
    <3> QED
      BY <3>2, NoFiles
  <2>3. CASE n \notin Changed(value) \cup (DOMAIN logs \ DOMAIN value)
    <3>1. n \in DOMAIN m_loggers /\ new[n] = Before[n]
      BY <1>1, <1>3, <1>5, <2>3, ListenerEffect
    <3>2. Before[n] = LoggerLog(m_loggers[n], INFO) \/ Before[n] = m_loggers[n]
      BY <3>1, BeforeType
    <3>3. m_loggers[n] \in LoggerSet /\ INFO \in Level /\ FilesOnly(m_loggers[n].m_appenders)
      BY <3>1 DEF TypeOK, LoggersDumpable, INFO, Level, UNKNOW, FATAL
    <3> QED
      BY <3>1, <3>2, <3>3, LoggerLogFiles
  <2> QED
    BY <2>1, <2>2, <2>3
<1> QED
  BY <1>1, <1>4, <1>5 DEF LoggersDumpable

LEMMA LogInv ==
    ASSUME TypeOK, LoggersDumpable, NEW n \in DOMAIN m_loggers, NEW level \in Level,
           m_loggers' = [m_loggers EXCEPT ![n] = LoggerLog(m_loggers[n], level)]
    PROVE  LoggersDumpable'
<1>1. DOMAIN m_loggers' = DOMAIN m_loggers
  OBVIOUS
<1>2. FilesOnly(LoggerLog(m_loggers[n], level).m_appenders)
  BY LoggerLogFiles DEF TypeOK, LoggersDumpable
<1>3. \A m \in DOMAIN m_loggers :
         m_loggers'[m] = IF m = n THEN LoggerLog(m_loggers[n], level) ELSE m_loggers[m]
  OBVIOUS
<1> QED
  BY <1>1, <1>2, <1>3 DEF LoggersDumpable

LEMMA YamlInvKept ==
    ASSUME TypeOK, ValueOfDocument, LoggersDumpable, [NextYaml]_varsYaml
    PROVE  ValueOfDocument' /\ LoggersDumpable'
<1>1. ASSUME NEW doc \in Document, LoadLogs(doc), Converts(doc)
      PROVE  ValueOfDocument' /\ LoggersDumpable'
  <2>1. doc \in Seq(NodeSet) /\ loaded' = doc /\ Apply(ReadLogs(doc))
    BY <1>1, YamlAssumption DEF LoadLogs
  <2>2. CASE LogsEq(ReadLogs(doc), logs) /\ UNCHANGED <<m_loggers, logs>>
    <3>1. LoggersDumpable'
      BY <2>2 DEF LoggersDumpable
    <3>2. ValueOfDocument'
      BY <1>1, <2>1, <2>2 DEF ValueOfDocument
    <3> QED
      BY <3>1, <3>2
  <2>3. CASE SetLogs(ReadLogs(doc))
    <3>1. logs' = ReadLogs(doc)
      BY <2>3 DEF SetLogs
    <3>2. LogsEq(ReadLogs(doc), ReadLogs(doc))
      BY DEF LogsEq, DefineEq
    <3>3. ValueOfDocument'
      BY <1>1, <2>1, <3>1, <3>2, DocumentRead DEF ValueOfDocument
    <3> QED
      BY <1>1, <2>3, <3>3, SetLogsInv
  <2> QED
    BY <2>1, <2>2, <2>3 DEF Apply
<1>2. ASSUME NEW doc \in Document, LoadLogs(doc), ~Converts(doc)
      PROVE  ValueOfDocument' /\ LoggersDumpable'
  <2>1. /\ m_loggers' = [m_loggers EXCEPT ![Root] = LoggerLog(m_loggers[Root], ERROR)]
        /\ UNCHANGED <<logs, loaded>>
    BY <1>2 DEF LoadLogs
  <2>2. Root \in DOMAIN m_loggers /\ ERROR \in Level
    BY DEF TypeOK, ERROR, Level, UNKNOW, FATAL
  <2>3. LoggersDumpable'
    BY <2>1, <2>2, LogInv
  <2> QED
    BY <2>1, <2>3 DEF ValueOfDocument
<1>3. ASSUME NEW n \in Name, GetLogger(n), UNCHANGED loaded
      PROVE  ValueOfDocument' /\ LoggersDumpable'
  <2>1. /\ DOMAIN m_loggers' = DOMAIN m_loggers \cup {n}
        /\ \A m \in DOMAIN m_loggers : m_loggers'[m] = IF m = n THEN NewLogger ELSE m_loggers[m]
        /\ m_loggers'[n] = NewLogger
    BY <1>3 DEF GetLogger
  <2>2. FilesOnly(NewLogger.m_appenders)
    BY NoFiles, NewLoggerType
  <2>3. IsFiniteSet(DOMAIN m_loggers')
    BY <2>1, FS_AddElement DEF LoggersDumpable
  <2> QED
    BY <1>3, <2>1, <2>2, <2>3 DEF GetLogger, ValueOfDocument, LoggersDumpable
<1>4. ASSUME NEW n \in Name, NEW level \in DEBUG .. FATAL, Log(n, level), UNCHANGED loaded
      PROVE  ValueOfDocument' /\ LoggersDumpable'
  <2>1. PICK h \in DOMAIN m_loggers :
           m_loggers' = [m_loggers EXCEPT ![h] = LoggerLog(m_loggers[h], level)]
    BY <1>4, LogEffect
  <2>2. LoggersDumpable'
    BY <2>1, EventLevel, LogInv
  <2> QED
    BY <1>4, <2>2 DEF Log, ValueOfDocument
<1>5. CASE UNCHANGED varsYaml
  BY <1>5 DEF varsYaml, ValueOfDocument, LoggersDumpable
<1> QED
  BY <1>1, <1>2, <1>3, <1>4, <1>5 DEF NextYaml

LEMMA YamlInvariant == SpecYaml => [](TypeOK /\ ValueOfDocument /\ LoggersDumpable)
<1>1. TypeOK /\ ValueOfDocument /\ LoggersDumpable /\ [NextYaml]_varsYaml =>
        ValueOfDocument' /\ LoggersDumpable'
  BY YamlInvKept
<1> QED
  BY <1>1, InitYamlInv, YamlRefinement, TypeCorrect, PTL DEF SpecYaml, ImplementsLogConf

-----------------------------------------------------------------------------
\* The levels in force are those of the last document that converted.
THEOREM LoadedLevelsCorrect == SpecYaml => []LoadedLevelsInForce
<1>1. ValueOfDocument /\ LevelsFollowConfig => LoadedLevelsInForce
  <2> SUFFICES ASSUME ValueOfDocument, LevelsFollowConfig, NEW k \in DOMAIN loaded
               PROVE  m_loggers[loaded[k].name].m_level =
                         ReadDefine(FirstNode(loaded, loaded[k].name)).level
    BY DEF LoadedLevelsInForce
  <2>1. /\ loaded[k].name \in DOMAIN ReadLogs(loaded)
        /\ ReadLogs(loaded)[loaded[k].name] = ReadDefine(FirstNode(loaded, loaded[k].name))
    BY DocumentRead DEF ValueOfDocument
  <2>2. /\ loaded[k].name \in DOMAIN logs
        /\ ReadLogs(loaded)[loaded[k].name].level = logs[loaded[k].name].level
    BY <2>1 DEF ValueOfDocument, LogsEq, DefineEq
  <2> QED
    BY <2>1, <2>2 DEF LevelsFollowConfig
<1> QED
  BY <1>1, YamlInvariant, YamlRefinement, LevelsCorrect, PTL DEF ImplementsLogConf

\* The loggers configured are those of the last document that converted.
THEOREM OnlyLoadedCorrect == SpecYaml => []OnlyLoadedAreConfigured
<1>1. ValueOfDocument => OnlyLoadedAreConfigured
  BY DocumentRead DEF ValueOfDocument, LogsEq, OnlyLoadedAreConfigured
<1> QED
  BY <1>1, YamlInvariant, PTL

\* The value written as YAML reads back as the value, with its appenders, for all
\* documents the program may load.
THEOREM RoundTripCorrect == SpecYaml => []RoundTrip
<1>1. TypeOK /\ ValueOfDocument => RoundTrip
  <2> SUFFICES ASSUME TypeOK, ValueOfDocument
               PROVE  Converts(WriteLogs(logs)) /\ ReadLogs(WriteLogs(logs)) = logs
    BY DEF RoundTrip
  <2> DEFINE node == [n \in DOMAIN logs |-> WriteDefine(n, logs[n])]
             doc  == [k \in DOMAIN SetToSeq(DOMAIN logs) |-> node[SetToSeq(DOMAIN logs)[k]]]
  <2>1. IsFiniteSet(DOMAIN logs) /\ \A n \in DOMAIN logs : node[n].name = n
    BY DEF ValueOfDocument, WriteDefine
  <2>2. \A k \in DOMAIN SetToSeq(DOMAIN logs) : SetToSeq(DOMAIN logs)[k] \in DOMAIN logs
    BY <2>1, Listing
  <2>3. doc = WriteLogs(logs)
    BY <2>2 DEF WriteLogs
  <2>4. ASSUME NEW n \in DOMAIN logs
        PROVE  /\ ReadDefine(node[n]) = logs[n] /\ node[n].name = n
               /\ NonText \notin {node[n].level, node[n].formatter}
               /\ \A i \in DOMAIN node[n].appenders : ~Throws(node[n].appenders[i])
    <3>1. node[n] = WriteDefine(n, logs[n])
      OBVIOUS
    <3>2. logs[n] \in LogDefineSet /\ logs[n].appenders \in Seq(AppendersRead)
      BY DEF ValueOfDocument, TypeOK, IsLogs
    <3> HIDE DEF node
    <3> QED
      BY <2>1, <3>1, <3>2, DefineWritten
  <2>7. Converts(doc)
    <3>1. \A k \in DOMAIN doc : \E n \in DOMAIN logs : doc[k] = node[n]
      BY <2>2
    <3>2. \A n \in DOMAIN logs : n \notin {Absent, NonText}
      BY YamlAssumption DEF TypeOK, IsLogs
    <3> HIDE DEF node, doc
    <3> QED
      BY <2>4, <3>1, <3>2 DEF Converts
  <2> HIDE DEF node
  <2>5. ReadLogs(doc) = [n \in DOMAIN logs |-> ReadDefine(node[n])]
    BY <2>1, ReadEach
  <2>6. logs = [n \in DOMAIN logs |-> logs[n]]
    BY DEF TypeOK, IsLogs
  <2> QED
    BY <2>3, <2>4, <2>5, <2>6, <2>7
<1> QED
  BY <1>1, YamlInvariant, PTL

\* The dump of the loggers is a document that reads back with the level, the
\* formatter and the appenders of each logger.
THEOREM DumpReadsBackCorrect == SpecYaml => []DumpReadsBack
<1>1. TypeOK /\ LoggersDumpable => DumpReadsBack
  <2> SUFFICES ASSUME TypeOK, LoggersDumpable PROVE DumpReadsBack
    OBVIOUS
  <2> DEFINE names == SetToSeq(DOMAIN m_loggers)
             node  == [n \in DOMAIN m_loggers |-> DumpLogger(n, m_loggers[n])]
             doc   == [k \in DOMAIN names |-> node[names[k]]]
  <2>1. IsFiniteSet(DOMAIN m_loggers) /\ \A n \in DOMAIN m_loggers : node[n].name = n
    BY DEF LoggersDumpable, DumpLogger
  <2>2. \A k \in DOMAIN names : names[k] \in DOMAIN m_loggers
    BY <2>1, Listing
  <2>3. Dump = doc
    BY <2>2 DEF Dump
  <2>4. \A n \in DOMAIN m_loggers : node[n] = DumpLogger(n, m_loggers[n])
    OBVIOUS
  <2>5. Converts(Dump)
    <3>1. \A k \in DOMAIN doc : \E n \in DOMAIN m_loggers : doc[k] = node[n]
      BY <2>2
    <3>2. \A n \in DOMAIN m_loggers : n \notin {Absent, NonText}
      BY YamlAssumption DEF TypeOK
    <3>3. ASSUME NEW n \in DOMAIN m_loggers
          PROVE  /\ NonText \notin {node[n].level, node[n].formatter}
                 /\ \A i \in DOMAIN node[n].appenders : ~Throws(node[n].appenders[i])
      <4>1. m_loggers[n] \in LoggerSet /\ FilesOnly(m_loggers[n].m_appenders)
        BY DEF TypeOK, LoggersDumpable
      <4> HIDE DEF node
      <4> QED
        BY <2>4, <4>1, LoggerDumped
    <3> HIDE DEF node, doc
    <3> QED
      BY <2>1, <2>3, <3>1, <3>2, <3>3 DEF Converts
  <2> HIDE DEF node
  <2>6. ReadLogs(Dump) = [n \in DOMAIN m_loggers |-> ReadDefine(node[n])]
    BY <2>1, <2>3, ReadEach
  <2>7. DOMAIN ReadLogs(Dump) = DOMAIN m_loggers
    BY <2>6
  <2>8. ASSUME NEW n \in DOMAIN m_loggers
        PROVE  LET read == ReadLogs(Dump)[n]
                   lg   == m_loggers[n]
               IN  /\ read.level = lg.m_level /\ read.formatter = lg.m_formatter
                   /\ Len(read.appenders) = Len(lg.m_appenders)
                   /\ \A k \in DOMAIN lg.m_appenders :
                         /\ read.appenders[k].type = lg.m_appenders[k].type
                         /\ read.appenders[k].file = lg.m_appenders[k].file
    <3>1. ReadLogs(Dump)[n] = ReadDefine(DumpLogger(n, m_loggers[n]))
      BY <2>4, <2>6
    <3>2. m_loggers[n] \in LoggerSet /\ FilesOnly(m_loggers[n].m_appenders)
      BY DEF TypeOK, LoggersDumpable
    <3> QED
      BY <3>1, <3>2, LoggerDumped
  <2> QED
    BY <2>5, <2>7, <2>8 DEF DumpReadsBack
<1> QED
  BY <1>1, YamlInvariant, PTL

-----------------------------------------------------------------------------
\* FlattenSeq joins one sequence after another.
Joined(seqs, n, flat) ==
    flat = [i \in 1 .. n |-> IF i = 1 THEN seqs[i] ELSE flat[i - 1] \o seqs[i]]

LEMMA JoinRuns ==
    ASSUME NEW seqs, Len(seqs) \in Nat \ {0}
    PROVE  \E flat : Joined(seqs, Len(seqs), flat) /\ FlattenSeq(seqs) = flat[Len(seqs)]
<1> DEFINE P == {n \in Nat : \E flat : Joined(seqs, n, flat)}
<1>1. 0 \in P
  <2>1. Joined(seqs, 0, [i \in 1 .. 0 |-> seqs[i]])
    BY DEF Joined
  <2> QED
    BY <2>1
<1>2. ASSUME NEW n \in P PROVE n + 1 \in P
  <2>1. PICK flat : Joined(seqs, n, flat)
    OBVIOUS
  <2> DEFINE last == IF n = 0 THEN seqs[1] ELSE flat[n] \o seqs[n + 1]
             more == [i \in 1 .. n + 1 |-> IF i = n + 1 THEN last ELSE flat[i]]
  <2>2. ASSUME NEW i \in 1 .. n + 1
        PROVE  more[i] = IF i = 1 THEN seqs[i] ELSE more[i - 1] \o seqs[i]
    <3>1. CASE i = n + 1
      <4>1. more[i] = last /\ (i # 1 => more[i - 1] = flat[n])
        BY <3>1
      <4> QED
        BY <3>1, <4>1
    <3>2. CASE i \in 1 .. n
      <4>1. more[i] = flat[i] /\ (i # 1 => more[i - 1] = flat[i - 1])
        BY <3>2
      <4> QED
        BY <2>1, <3>2, <4>1 DEF Joined
    <3> QED
      BY <3>1, <3>2
  <2>3. more = [i \in 1 .. n + 1 |-> IF i = 1 THEN seqs[i] ELSE more[i - 1] \o seqs[i]]
    BY <2>2, Zenon
  <2>4. Joined(seqs, n + 1, more)
    BY <2>3, Zenon DEF Joined
  <2> QED
    BY <2>4
<1>3. P = Nat
  BY <1>1, <1>2, Induction, Zenon
<1>4. \E flat : Joined(seqs, Len(seqs), flat)
  BY <1>3
<1>5. Len(seqs) # 0
  OBVIOUS
<1> QED
  BY <1>4, <1>5, Zenon DEF Joined, FlattenSeq

LEMMA OneRead ==
    ASSUME NEW entry
    PROVE  ReadAppenders(<<entry>>) =
              IF IsAppender(entry) THEN <<ReadAppender(entry)>> ELSE <<>>
<1>1. Len(<<entry>>) = 1 /\ <<entry>>[1] = entry
  OBVIOUS
<1>2. PICK read : Loop(<<entry>>, 1, read) /\ ReadAppenders(<<entry>>) = read[1]
  BY <1>1, LoopReads
<1>3. read[0] = <<>>
  BY <1>2, LoopStep
<1>4. read[0 + 1] = IF IsAppender(<<entry>>[0 + 1])
                    THEN Append(read[0], ReadAppender(<<entry>>[0 + 1])) ELSE read[0]
  BY <1>2, LoopStep
<1>5. Append(<<>>, ReadAppender(entry)) = <<ReadAppender(entry)>>
  OBVIOUS
<1>6. 0 + 1 = 1
  OBVIOUS
<1> QED
  BY <1>1, <1>2, <1>3, <1>4, <1>5, <1>6

LEMMA EntriesJoined ==
    ASSUME NEW entries \in Seq(Readable)
    PROVE  ReadAppenders(entries) =
              FlattenSeq([i \in DOMAIN entries |-> ReadAppenders(<<entries[i]>>)])
<1> DEFINE seqs == [i \in DOMAIN entries |-> ReadAppenders(<<entries[i]>>)]
<1>1. Len(entries) \in Nat /\ DOMAIN entries = 1 .. Len(entries)
  BY LenProperties
<1>2. Len(seqs) = Len(entries)
  BY <1>1
<1>3. \A i \in 1 .. Len(entries) :
         seqs[i] = IF IsAppender(entries[i]) THEN <<ReadAppender(entries[i])>> ELSE <<>>
  BY <1>1, OneRead
<1>4. PICK read : Loop(entries, Len(entries), read) /\ ReadAppenders(entries) = read[Len(entries)]
  BY <1>1, LoopReads
<1>5. CASE Len(entries) = 0
  <2>1. seqs = <<>> /\ Len(seqs) = 0
    BY <1>1, <1>5
  <2>2. FlattenSeq(seqs) = <<>>
    BY <2>1 DEF FlattenSeq
  <2>3. read[0] = <<>>
    BY <1>4, <1>5, LoopStep
  <2> QED
    BY <1>4, <1>5, <2>2, <2>3
<1>6. CASE Len(entries) # 0
  <2> HIDE DEF seqs
  <2>1. PICK flat : Joined(seqs, Len(seqs), flat) /\ FlattenSeq(seqs) = flat[Len(seqs)]
    BY <1>1, <1>2, <1>6, JoinRuns
  <2>2. \A i \in 1 .. Len(entries) :
           flat[i] = IF i = 1 THEN seqs[i] ELSE flat[i - 1] \o seqs[i]
    BY <1>2, <2>1 DEF Joined
  <2> DEFINE P == {n \in Nat : /\ n <= Len(entries) => read[n] \in Seq(AppendersRead)
                               /\ n \in 1 .. Len(entries) => flat[n] = read[n]}
  <2>3. read[0] = <<>>
    BY <1>1, <1>4, LoopStep
  <2>4. 0 \in P
    <3>1. read[0] \in Seq(AppendersRead)
      BY <2>3, EmptySeq
    <3>2. 0 \notin 1 .. Len(entries)
      BY <1>1
    <3> QED
      BY <3>1, <3>2
  <2>5. ASSUME NEW n \in P PROVE n + 1 \in P
    <3> SUFFICES ASSUME n + 1 <= Len(entries)
                 PROVE  read[n + 1] \in Seq(AppendersRead) /\ flat[n + 1] = read[n + 1]
      BY <1>1
    <3> DEFINE entry == entries[n + 1]
    <3>1. n \in Nat /\ n + 1 \in 1 .. Len(entries) /\ (n + 1) - 1 = n /\ read[n] \in Seq(AppendersRead)
      BY <1>1
    <3>2. n # 0 => flat[n] = read[n]
      BY <1>1, <3>1
    <3>3. read[n + 1] = IF IsAppender(entry) THEN Append(read[n], ReadAppender(entry)) ELSE read[n]
      BY <1>1, <1>4, <3>1, LoopStep
    <3>4. seqs[n + 1] = IF IsAppender(entry) THEN <<ReadAppender(entry)>> ELSE <<>>
      BY <1>3, <3>1
    <3>5. flat[n + 1] = read[n] \o seqs[n + 1]
      <4>1. flat[n + 1] = IF n + 1 = 1 THEN seqs[n + 1] ELSE flat[(n + 1) - 1] \o seqs[n + 1]
        BY <2>2, <3>1
      <4>2. CASE n = 0
        <5>1. seqs[n + 1] \in Seq({ReadAppender(entry)})
          <6>1. <<ReadAppender(entry)>> \in Seq({ReadAppender(entry)})
                /\ <<>> \in Seq({ReadAppender(entry)})
            OBVIOUS
          <6> QED
            BY <3>4, <6>1
        <5>2. <<>> \o seqs[n + 1] = seqs[n + 1]
          BY <5>1, ConcatEmptySeq
        <5>3. read[n] = <<>> /\ n + 1 = 1
          BY <2>3, <4>2
        <5> QED
          BY <4>1, <5>2, <5>3
      <4>3. CASE n # 0
        <5>1. n + 1 # 1 /\ flat[(n + 1) - 1] = read[n]
          BY <3>1, <3>2, <4>3
        <5> QED
          BY <4>1, <5>1
      <4> QED
        BY <4>2, <4>3
    <3>6. CASE IsAppender(entry)
      <4>1. entry \in Readable
        BY <3>1, ElementOfSeq
      <4>2. ReadAppender(entry) \in AppendersRead
        BY <3>6, <4>1, EntryRead
      <4>3. Append(read[n], ReadAppender(entry)) = read[n] \o <<ReadAppender(entry)>>
        BY <3>1, <4>2, AppendIsConcat
      <4> QED
        BY <3>1, <3>3, <3>4, <3>5, <3>6, <4>2, <4>3, AppendProperties
    <3>7. CASE ~IsAppender(entry)
      <4>1. read[n] \o <<>> = read[n]
        BY <3>1, ConcatEmptySeq
      <4> QED
        BY <3>1, <3>3, <3>4, <3>5, <3>7, <4>1
    <3> QED
      BY <3>6, <3>7
  <2>6. P = Nat
    BY <2>4, <2>5, Induction, Zenon
  <2>7. flat[Len(entries)] = read[Len(entries)]
    BY <1>1, <1>6, <2>6
  <2> QED
    BY <1>2, <1>4, <2>1, <2>7 DEF seqs
<1> QED
  BY <1>5, <1>6

\* Each entry of the last document that converted is read as if it were alone.
THEOREM EntriesIndependentCorrect == SpecYaml => []EntriesIndependent
<1>1. ValueOfDocument => EntriesIndependent
  <2> SUFFICES ASSUME ValueOfDocument, NEW k \in DOMAIN loaded
               PROVE  LET entries == loaded[k].appenders
                      IN  ReadAppenders(entries) =
                            FlattenSeq([i \in DOMAIN entries |-> ReadAppenders(<<entries[i]>>)])
    BY DEF EntriesIndependent
  <2>2. loaded[k].appenders \in Seq(Readable)
    BY NodeReadable DEF ValueOfDocument
  <2> QED
    BY <2>2, EntriesJoined
<1> QED
  BY <1>1, YamlInvariant, PTL

-----------------------------------------------------------------------------
\* Nodes is what its definition says, up to every depth.
NodeLevels(n, nodes) ==
    nodes = [k \in 0 .. n |->
               IF k = 0 THEN {NullNode} \cup [kind : {"Scalar"}, text : STRING]
               ELSE Nested(nodes[k - 1])]

LEMMA NodeLevelsExist == ASSUME NEW n \in Nat PROVE \E nodes : NodeLevels(n, nodes)
<1> DEFINE P == {m \in Nat : \E nodes : NodeLevels(m, nodes)}
           leaves == {NullNode} \cup [kind : {"Scalar"}, text : STRING]
<1>1. 0 \in P
  <2>1. NodeLevels(0, [k \in 0 .. 0 |-> leaves])
    BY DEF NodeLevels
  <2> QED
    BY <2>1
<1>2. ASSUME NEW m \in P PROVE m + 1 \in P
  <2>1. PICK nodes : NodeLevels(m, nodes)
    OBVIOUS
  <2> DEFINE more == [k \in 0 .. m + 1 |-> IF k = m + 1 THEN Nested(nodes[m]) ELSE nodes[k]]
  <2>2. ASSUME NEW k \in 0 .. m + 1
        PROVE  more[k] = IF k = 0 THEN leaves ELSE Nested(more[k - 1])
    <3> HIDE DEF leaves
    <3>1. CASE k = m + 1
      <4>1. more[k] = Nested(nodes[m]) /\ more[k - 1] = nodes[m] /\ k # 0
        BY <3>1
      <4> QED
        BY <4>1
    <3>2. CASE k \in 0 .. m
      <4>1. more[k] = nodes[k] /\ (k # 0 => more[k - 1] = nodes[k - 1])
        BY <3>2
      <4>2. nodes[k] = IF k = 0 THEN leaves ELSE Nested(nodes[k - 1])
        BY <2>1, <3>2 DEF NodeLevels, leaves
      <4> QED
        BY <4>1, <4>2
    <3> QED
      BY <3>1, <3>2
  <2>3. NodeLevels(m + 1, more)
    BY <2>2, Zenon DEF NodeLevels
  <2> QED
    BY <2>3
<1>3. P = Nat
  BY <1>1, <1>2, Induction, Zenon
<1> QED
  BY <1>3

LEMMA NodesLevels ==
    /\ Nodes[0] = {NullNode} \cup [kind : {"Scalar"}, text : STRING]
    /\ \A n \in Nat : n + 1 <= Nesting => Nodes[n + 1] = Nested(Nodes[n])
<1>1. \E nodes : NodeLevels(Nesting, nodes)
  BY NodeLevelsExist, LexicalAssumption
<1>2. NodeLevels(Nesting, Nodes)
  BY <1>1, Zenon DEF NodeLevels, Nodes
<1>3. 0 \in 0 .. Nesting
  BY LexicalAssumption
<1>4. Nodes[0] = {NullNode} \cup [kind : {"Scalar"}, text : STRING]
  BY <1>2, <1>3 DEF NodeLevels
<1>5. ASSUME NEW n \in Nat, n + 1 <= Nesting PROVE Nodes[n + 1] = Nested(Nodes[n])
  <2>1. n + 1 \in 0 .. Nesting /\ n + 1 # 0 /\ (n + 1) - 1 = n
    BY <1>5, LexicalAssumption
  <2> QED
    BY <1>2, <2>1 DEF NodeLevels
<1> QED
  BY <1>4, <1>5

\* A node nested less deep is among those nested deeper.
LEMMA NodesGrow == ASSUME NEW n \in Nat, n <= Nesting PROVE Nodes[n] \subseteq Node
<1> DEFINE P == {d \in Nat : n + d <= Nesting => Nodes[n] \subseteq Nodes[n + d]}
<1>1. 0 \in P
  OBVIOUS
<1>2. ASSUME NEW d \in P PROVE d + 1 \in P
  <2> SUFFICES ASSUME n + (d + 1) <= Nesting PROVE Nodes[n] \subseteq Nodes[n + (d + 1)]
    OBVIOUS
  <2>1. n + d <= Nesting /\ n + d \in Nat /\ n + (d + 1) = (n + d) + 1
    BY LexicalAssumption
  <2>2. Nodes[n + (d + 1)] = Nested(Nodes[n + d])
    BY <2>1, NodesLevels
  <2>3. Nodes[n + d] \subseteq Nested(Nodes[n + d])
    BY DEF Nested
  <2> QED
    BY <2>1, <2>2, <2>3
<1>3. P = Nat
  BY <1>1, <1>2, Induction, Zenon
<1>4. Nesting - n \in P
  <2>1. Nesting - n \in Nat
    BY LexicalAssumption
  <2> QED
    BY <1>3, <2>1
<1>5. n + (Nesting - n) = Nesting
  BY LexicalAssumption
<1> QED
  BY <1>4, <1>5 DEF Node

LEMMA NullEverywhere == ASSUME NEW n \in Nat, n <= Nesting PROVE NullNode \in Nodes[n]
<1> DEFINE P == {d \in Nat : d <= Nesting => NullNode \in Nodes[d]}
<1>1. 0 \in P
  BY NodesLevels
<1>2. ASSUME NEW d \in P PROVE d + 1 \in P
  <2>1. d + 1 <= Nesting => d <= Nesting /\ Nodes[d + 1] = Nested(Nodes[d])
    BY NodesLevels, LexicalAssumption
  <2> QED
    BY <2>1 DEF Nested
<1>3. P = Nat
  BY <1>1, <1>2, Induction, Zenon
<1> QED
  BY <1>3

\* The elements and the pairs of a node are sequences, whatever its kind.
LEMMA NodeParts ==
    ASSUME NEW node \in Node
    PROVE  /\ Len(Elements(node)) \in Nat /\ DOMAIN Elements(node) = 1 .. Len(Elements(node))
           /\ Pairs(node) \in Seq(Key \X Node)
<1> DEFINE Q(x) == /\ Len(Elements(x)) \in Nat /\ DOMAIN Elements(x) = 1 .. Len(Elements(x))
                   /\ Pairs(x) \in Seq(Key \X Node)
           P == {n \in Nat : n <= Nesting => \A x \in Nodes[n] : Q(x)}
<1>1. <<>> \in Seq(Key \X Node) /\ Len(<<>>) = 0 /\ DOMAIN <<>> = 1 .. 0
  BY EmptySeq
<1>2. 0 \in P
  <2>1. \A x \in Nodes[0] : Elements(x) = <<>> /\ Pairs(x) = <<>>
    BY NodesLevels DEF Elements, Pairs, NullNode
  <2>2. \A x \in Nodes[0] : Len(Elements(x)) = 0 /\ DOMAIN Elements(x) = 1 .. 0
    BY <1>1, <2>1
  <2>3. \A x \in Nodes[0] : Len(Elements(x)) \in Nat /\ DOMAIN Elements(x) = 1 .. Len(Elements(x))
    BY <2>2
  <2>4. \A x \in Nodes[0] : Pairs(x) \in Seq(Key \X Node)
    BY <1>1, <2>1, Zenon
  <2>5. \A x \in Nodes[0] : Q(x)
    BY <2>3, <2>4, Zenon
  <2> HIDE DEF Q
  <2> QED
    BY <2>5
<1>3. ASSUME NEW n \in P PROVE n + 1 \in P
  <2> SUFFICES ASSUME n + 1 <= Nesting, NEW x \in Nodes[n + 1] PROVE Q(x)
    OBVIOUS
  <2>1. Nodes[n + 1] = Nested(Nodes[n]) /\ Nodes[n] \subseteq Node /\ n <= Nesting
    BY NodesLevels, NodesGrow, LexicalAssumption
  <2>2. CASE x \in Nodes[n]
    BY <2>1, <2>2
  <2>3. CASE x \in [kind : {"Sequence"}, items : Seq(Nodes[n])]
    <3>1. Elements(x) = x.items /\ Pairs(x) = <<>> /\ x.items \in Seq(Nodes[n])
      BY <2>3 DEF Elements, Pairs
    <3> QED
      BY <1>1, <3>1, LenProperties
  <2>4. CASE x \in [kind : {"Map"}, pairs : Seq(Key \X Nodes[n])]
    <3>1. /\ Elements(x) = [k \in DOMAIN x.pairs |-> NullNode]
          /\ Pairs(x) = x.pairs /\ x.pairs \in Seq(Key \X Nodes[n])
      BY <2>4 DEF Elements, Pairs
    <3>2. Elements(x) \in Seq({NullNode})
      BY <3>1, MapIsSeq
    <3>3. Pairs(x) \in Seq(Key \X Node)
      <4>1. Key \X Nodes[n] \subseteq Key \X Node
        BY <2>1
      <4> QED
        BY <3>1, <4>1, SeqMonotonic
    <3> QED
      BY <3>2, <3>3, LenProperties
  <2> QED
    BY <2>1, <2>2, <2>3, <2>4 DEF Nested
<1>4. P = Nat
  <2> HIDE DEF Q
  <2> QED
    BY <1>2, <1>3, Induction, Zenon
<1> QED
  BY <1>4, LexicalAssumption DEF Node

-----------------------------------------------------------------------------
\* The conversions of a type are sound when what is read is a value of the type, and
\* what is written, nested no deeper than n, reads as what it was written of.
Sound(T, n) ==
    /\ DOMAIN T.read \subseteq Node
    /\ \A node \in DOMAIN T.read : T.read[node] \in DOMAIN T.write
    /\ \A v \in DOMAIN T.write : \A w \in T.write[v] :
          w \in Nodes[n] /\ w \in DOMAIN T.read /\ T.read[w] = v

LEMMA IntSound == Sound(IntCast, 0)
<1> DEFINE texts == {n \in Node : n.kind = "Scalar" /\ n.text \in DOMAIN Number}
           values == {Number[s] : s \in DOMAIN Number}
<1>1. /\ DOMAIN IntCast.read = texts /\ \A node \in texts : IntCast.read[node] = Number[node.text]
      /\ DOMAIN IntCast.write = values
      /\ \A v \in values : IntCast.write[v] = {Scalar(TextOf[v])}
  BY DEF IntCast
<1>2. \A node \in texts : Number[node.text] \in values
  OBVIOUS
<1>3. ASSUME NEW v \in values
      PROVE  /\ Scalar(TextOf[v]) \in Nodes[0] /\ Scalar(TextOf[v]) \in texts
             /\ Number[Scalar(TextOf[v]).text] = v
  <2>1. TextOf[v] \in DOMAIN Number /\ Number[TextOf[v]] = v /\ TextOf[v] \in STRING
    BY LexicalAssumption
  <2>2. Scalar(TextOf[v]) \in Nodes[0]
    BY <2>1, NodesLevels DEF Scalar
  <2>3. Nodes[0] \subseteq Node
    BY NodesGrow, LexicalAssumption
  <2> QED
    BY <2>1, <2>2, <2>3 DEF Scalar
<1> HIDE DEF texts, values
<1>4. DOMAIN IntCast.read \subseteq Node
  BY <1>1 DEF texts
<1> QED
  BY <1>1, <1>2, <1>3, <1>4 DEF Sound

\* What is written of each element, one after the other, reads element by element.
LEMMA EachReads ==
    ASSUME NEW T, NEW n, Sound(T, n), NEW s \in Seq(DOMAIN T.write), NEW r \in WriteEach(T, s)
    PROVE  /\ r \in Seq(Nodes[n]) /\ DOMAIN r = DOMAIN s
           /\ Len(r) = Len(s) /\ Len(s) \in Nat /\ DOMAIN s = 1 .. Len(s)
           /\ \A k \in DOMAIN s : r[k] \in DOMAIN T.read /\ T.read[r[k]] = s[k]
<1> DEFINE texts == UNION {T.write[s[k]] : k \in DOMAIN s}
<1>1. Len(s) \in Nat /\ DOMAIN s = 1 .. Len(s) /\ \A k \in DOMAIN s : s[k] \in DOMAIN T.write
  BY LenProperties, ElementOfSeq
<1>2. r \in [DOMAIN s -> texts] /\ \A k \in DOMAIN s : r[k] \in T.write[s[k]]
  BY DEF WriteEach
<1>3. \A k \in DOMAIN s : r[k] \in Nodes[n] /\ r[k] \in DOMAIN T.read /\ T.read[r[k]] = s[k]
  BY <1>1, <1>2 DEF Sound
<1> HIDE DEF texts
<1>4. r \in [DOMAIN s -> Nodes[n]]
  BY <1>2, <1>3
<1>5. r \in Seq(Nodes[n])
  BY <1>1, <1>4, SeqDef
<1>6. Len(r) = Len(s)
  BY <1>1, <1>4, <1>5, LenProperties
<1> QED
  BY <1>1, <1>3, <1>4, <1>5, <1>6

\* The sequence of what is written of each element reads as the sequence of them,
\* also when it is empty and written as null.
LEMMA SequenceReads ==
    ASSUME NEW T, NEW n \in Nat, n + 1 <= Nesting, Sound(T, n),
           NEW s \in Seq(DOMAIN T.write), NEW r \in WriteEach(T, s)
    PROVE  /\ Sequence(r) \in Nodes[n + 1]
           /\ Sequence(r) \in DOMAIN ReadVector(T) /\ ReadVector(T)[Sequence(r)] = s
<1> DEFINE w == Sequence(r)
<1>1. /\ r \in Seq(Nodes[n]) /\ DOMAIN r = DOMAIN s /\ Len(r) = Len(s)
      /\ Len(s) \in Nat /\ DOMAIN s = 1 .. Len(s)
      /\ \A k \in DOMAIN s : r[k] \in DOMAIN T.read /\ T.read[r[k]] = s[k]
  BY EachReads
<1>2. Nodes[n + 1] = Nested(Nodes[n]) /\ Nodes[n + 1] \subseteq Node
  BY NodesLevels, NodesGrow
<1>3. w \in Nodes[n + 1] /\ Elements(w) = r
  <2>1. CASE r = <<>>
    <3>1. w = NullNode /\ Elements(w) = <<>>
      BY <2>1 DEF Sequence, Elements, NullNode
    <3>2. NullNode \in Nodes[n + 1]
      BY NullEverywhere
    <3> QED
      BY <2>1, <3>1, <3>2
  <2>2. CASE r # <<>>
    <3>1. w = [kind |-> "Sequence", items |-> r]
      BY <2>2 DEF Sequence
    <3>2. w \in [kind : {"Sequence"}, items : Seq(Nodes[n])]
      BY <1>1, <3>1
    <3>3. Elements(w) = r
      BY <3>1 DEF Elements
    <3> QED
      BY <1>2, <3>2, <3>3 DEF Nested
  <2> QED
    BY <2>1, <2>2
<1> HIDE DEF w
<1>4. w \in DOMAIN ReadVector(T)
  BY <1>1, <1>2, <1>3 DEF ReadVector
<1>5. ReadVector(T)[w] = [k \in DOMAIN Elements(w) |-> T.read[Elements(w)[k]]]
  BY <1>4 DEF ReadVector
<1>6. ReadVector(T)[w] = [k \in DOMAIN s |-> s[k]]
  BY <1>1, <1>3, <1>5
<1>7. s = [k \in DOMAIN s |-> s[k]]
  BY LenProperties
<1> QED
  BY <1>3, <1>4, <1>6, <1>7 DEF w

\* What is read of a text is a sequence of what is read of its elements.
LEMMA VectorRead ==
    ASSUME NEW T, NEW n, Sound(T, n), NEW node \in DOMAIN ReadVector(T)
    PROVE  ReadVector(T)[node] \in Seq(DOMAIN T.write)
<1>1. /\ node \in Node /\ \A k \in DOMAIN Elements(node) : Elements(node)[k] \in DOMAIN T.read
      /\ ReadVector(T)[node] = [k \in DOMAIN Elements(node) |-> T.read[Elements(node)[k]]]
  BY DEF ReadVector
<1>2. Len(Elements(node)) \in Nat /\ DOMAIN Elements(node) = 1 .. Len(Elements(node))
  BY <1>1, NodeParts
<1>3. ReadVector(T)[node] \in [1 .. Len(Elements(node)) -> DOMAIN T.write]
  BY <1>1, <1>2 DEF Sound
<1> QED
  BY <1>2, <1>3, SeqDef

LEMMA VectorSound ==
    ASSUME NEW T, NEW n \in Nat, n + 1 <= Nesting, Sound(T, n),
           NEW C, C.read = ReadVector(T), C.write = WriteVector(T)
    PROVE  Sound(C, n + 1)
<1> DEFINE values == DOMAIN T.write
           texts == {x \in Node : \A k \in DOMAIN Elements(x) : Elements(x)[k] \in DOMAIN T.read}
<1>1. DOMAIN ReadVector(T) = texts /\ DOMAIN WriteVector(T) = Seq(values)
  BY DEF ReadVector, WriteVector
<1>2. ASSUME NEW node \in texts PROVE ReadVector(T)[node] \in Seq(values)
  <2>1. node \in DOMAIN ReadVector(T)
    BY <1>1
  <2> QED
    BY <2>1, VectorRead
<1>3. ASSUME NEW v \in Seq(values), NEW w \in WriteVector(T)[v]
      PROVE  w \in Nodes[n + 1] /\ w \in texts /\ ReadVector(T)[w] = v
  <2>1. PICK r \in WriteEach(T, v) : w = Sequence(r)
    BY <1>3 DEF WriteVector
  <2> QED
    BY <1>1, <2>1, SequenceReads
<1>4. texts \subseteq Node
  OBVIOUS
<1> HIDE DEF texts, values
<1> QED
  BY <1>1, <1>2, <1>3, <1>4 DEF Sound

-----------------------------------------------------------------------------
\* What is in a sequence is a finite set.
LEMMA RangeFinite == ASSUME NEW S, NEW s \in Seq(S) PROVE IsFiniteSet(ToSet(s)) /\ ToSet(s) \subseteq S
<1>1. Len(s) \in Nat /\ s \in [1 .. Len(s) -> S] /\ DOMAIN s = 1 .. Len(s)
  BY LenProperties
<1>2. s \in [1 .. Len(s) -> ToSet(s)] /\ \A x \in ToSet(s) : \E k \in 1 .. Len(s) : s[k] = x
  BY <1>1 DEF ToSet
<1>3. s \in Surjection(1 .. Len(s), ToSet(s))
  BY <1>2 DEF Surjection
<1>4. IsFiniteSet(1 .. Len(s))
  BY <1>1, FS_Interval
<1> QED
  BY <1>1, <1>3, <1>4, FS_Surjection DEF ToSet

\* An order of a finite set has each of its elements once.
LEMMA Ordering ==
    ASSUME NEW S, IsFiniteSet(S), NEW s \in SetToSeqs(S)
    PROVE  /\ s \in Seq(S) /\ ToSet(s) = S
           /\ \A i, j \in DOMAIN s : i # j => s[i] # s[j]
<1> DEFINE size == Cardinality(S)
<1>1. size \in Nat
  BY FS_CardinalityType
<1>2. s \in [1 .. size -> S] /\ \A i, j \in 1 .. size : i # j => s[i] # s[j]
  BY DEF SetToSeqs
<1>3. s \in Injection(1 .. size, S)
  BY <1>2 DEF Injection, IsInjective
<1>4. IsFiniteSet(1 .. size) /\ Cardinality(1 .. size) = size
  BY <1>1, FS_Interval
<1>5. s \in Surjection(1 .. size, S)
  BY <1>3, <1>4, FS_Injection
<1>6. ToSet(s) = S
  BY <1>2, <1>5 DEF Surjection, ToSet
<1> HIDE DEF size
<1>7. s \in Seq(S)
  BY <1>1, <1>2, SeqDef
<1> QED
  BY <1>2, <1>6, <1>7

LEMMA SetSound ==
    ASSUME NEW T, NEW n \in Nat, n + 1 <= Nesting, Sound(T, n),
           NEW C, C.read = ReadSet(T), C.write = WriteSet(T)
    PROVE  Sound(C, n + 1)
<1> DEFINE values == {S \in SUBSET DOMAIN T.write : IsFiniteSet(S)}
           texts == DOMAIN ReadVector(T)
<1>1. /\ DOMAIN ReadSet(T) = texts /\ DOMAIN WriteSet(T) = values
      /\ \A x \in texts : ReadSet(T)[x] = ToSet(ReadVector(T)[x])
  BY DEF ReadSet, WriteSet
<1>2. texts \subseteq Node
  BY DEF ReadVector
<1>3. ASSUME NEW node \in texts PROVE ReadSet(T)[node] \in values
  <2>1. ReadVector(T)[node] \in Seq(DOMAIN T.write)
    BY <1>3, VectorRead
  <2> QED
    BY <1>1, <2>1, RangeFinite
<1>4. ASSUME NEW v \in values, NEW w \in WriteSet(T)[v]
      PROVE  w \in Nodes[n + 1] /\ w \in texts /\ ReadSet(T)[w] = v
  <2>1. PICK s \in SetToSeqs(v) : w \in WriteVector(T)[s]
    BY <1>4 DEF WriteSet
  <2>2. s \in Seq(v) /\ ToSet(s) = v
    BY <2>1, Ordering
  <2>3. s \in Seq(DOMAIN T.write)
    BY <2>2, SeqMonotonic
  <2>4. PICK r \in WriteEach(T, s) : w = Sequence(r)
    BY <2>1, <2>3 DEF WriteVector
  <2>5. w \in Nodes[n + 1] /\ w \in texts /\ ReadVector(T)[w] = s
    BY <2>3, <2>4, SequenceReads
  <2> QED
    BY <1>1, <2>2, <2>5
<1> HIDE DEF texts, values
<1> QED
  BY <1>1, <1>2, <1>3, <1>4 DEF Sound

-----------------------------------------------------------------------------
\* What is read of a text as a map has finitely many pairs, and one of each key.
LEMMA MapRead ==
    ASSUME NEW T, NEW n, Sound(T, n), NEW node \in DOMAIN ReadMap(T)
    PROVE  /\ ReadMap(T)[node] \subseteq Key \X DOMAIN T.write
           /\ IsFiniteSet(ReadMap(T)[node]) /\ OneOfEachKey(ReadMap(T)[node])
<1> DEFINE pairs == Pairs(node)
           firsts == {k \in DOMAIN pairs : \A j \in 1 .. k - 1 : pairs[j][1] # pairs[k][1]}
           pair(k) == <<pairs[k][1], T.read[pairs[k][2]]>>
           all == [k \in DOMAIN pairs |-> pair(k)]
           v == {pair(k) : k \in firsts}
<1>1. node \in Node /\ PairsConvert(T, node) /\ ReadMap(T)[node] = v
  BY DEF ReadMap
<1>2. pairs \in Seq(Key \X Node)
  BY <1>1, NodeParts
<1>3. Len(pairs) \in Nat /\ DOMAIN pairs = 1 .. Len(pairs) /\ \A k \in DOMAIN pairs : pairs[k] \in Key \X Node
  BY <1>2, LenProperties, ElementOfSeq
<1>4. ASSUME NEW k \in DOMAIN pairs PROVE pair(k) \in Key \X DOMAIN T.write
  <2>1. pairs[k][2] \in DOMAIN T.read /\ pairs[k][1] \in Key
    BY <1>1, <1>3 DEF PairsConvert
  <2>2. T.read[pairs[k][2]] \in DOMAIN T.write
    BY <2>1 DEF Sound
  <2> QED
    BY <2>1, <2>2
<1>5. \A k \in DOMAIN pairs : pair(k)[1] = pairs[k][1]
  OBVIOUS
<1> HIDE DEF pairs, pair
<1>6. all \in [1 .. Len(pairs) -> Key \X DOMAIN T.write]
  BY <1>3, <1>4
<1>7. all \in Seq(Key \X DOMAIN T.write)
  BY <1>3, <1>6, SeqDef
<1>8. IsFiniteSet(ToSet(all)) /\ ToSet(all) \subseteq Key \X DOMAIN T.write
  BY <1>7, RangeFinite
<1>9. v \subseteq ToSet(all)
  BY DEF ToSet
<1>10. IsFiniteSet(v)
  BY <1>8, <1>9, FS_Subset
<1>11. ASSUME NEW p \in v, NEW q \in v, p[1] = q[1] PROVE p = q
  <2>1. PICK i \in firsts : p = pair(i)
    OBVIOUS
  <2>2. PICK j \in firsts : q = pair(j)
    OBVIOUS
  <2>3. pairs[i][1] = pairs[j][1]
    BY <1>5, <1>11, <2>1, <2>2
  <2>4. ~(i < j) /\ ~(j < i)
    BY <1>3, <2>3
  <2>5. i = j
    BY <1>3, <2>4
  <2> QED
    BY <2>1, <2>2, <2>5
<1> QED
  BY <1>1, <1>8, <1>9, <1>10, <1>11 DEF OneOfEachKey

\* A map written pair by pair, in whatever order, reads as that map.
LEMMA PairsRead ==
    ASSUME NEW T, NEW n \in Nat, n + 1 <= Nesting, Sound(T, n),
           NEW v \in SUBSET (Key \X DOMAIN T.write), IsFiniteSet(v), OneOfEachKey(v),
           NEW s \in SetToSeqs(v), NEW r \in WriteEach(T, [k \in DOMAIN s |-> s[k][2]])
    PROVE  LET w == Map([k \in DOMAIN s |-> <<s[k][1], r[k]>>])
           IN  w \in Nodes[n + 1] /\ w \in DOMAIN ReadMap(T) /\ ReadMap(T)[w] = v
<1> DEFINE written == [k \in DOMAIN s |-> <<s[k][1], r[k]>>]
           seconds == [k \in DOMAIN s |-> s[k][2]]
           w == Map(written)
<1>1. s \in Seq(v) /\ ToSet(s) = v /\ \A i, j \in DOMAIN s : i # j => s[i] # s[j]
  BY Ordering
<1>2. Len(s) \in Nat /\ DOMAIN s = 1 .. Len(s) /\ \A k \in DOMAIN s : s[k] \in v
  BY <1>1, LenProperties, ElementOfSeq
<1>3. \A k \in DOMAIN s : s[k][1] \in Key /\ s[k][2] \in DOMAIN T.write /\ s[k] = <<s[k][1], s[k][2]>>
  BY <1>2
<1>4. seconds \in Seq(DOMAIN T.write) /\ DOMAIN seconds = DOMAIN s
  <2>1. seconds \in [DOMAIN s -> DOMAIN T.write]
    BY <1>3
  <2> QED
    BY <1>1, <2>1, MapIsSeq
<1>5. /\ r \in Seq(Nodes[n]) /\ DOMAIN r = DOMAIN s
      /\ \A k \in DOMAIN s : r[k] \in DOMAIN T.read /\ T.read[r[k]] = s[k][2]
  <2>1. \A k \in DOMAIN s : seconds[k] = s[k][2]
    OBVIOUS
  <2> HIDE DEF seconds
  <2>2. r \in WriteEach(T, seconds)
    BY DEF seconds
  <2> QED
    BY <1>4, <2>1, <2>2, EachReads
<1>6. \A k \in DOMAIN s : r[k] \in Nodes[n]
  <2>1. DOMAIN r = 1 .. Len(r)
    BY <1>5, LenProperties
  <2> QED
    BY <1>5, <2>1, ElementOfSeq
<1>7. /\ written \in Seq(Key \X Nodes[n]) /\ DOMAIN written = DOMAIN s
      /\ \A k \in DOMAIN s : written[k][1] = s[k][1] /\ written[k][2] = r[k]
  <2>1. written \in [DOMAIN s -> Key \X Nodes[n]]
    BY <1>3, <1>6
  <2>2. written \in Seq(Key \X Nodes[n])
    BY <1>1, <2>1, MapIsSeq
  <2> QED
    BY <2>2
<1> HIDE DEF written, seconds
<1>8. Nodes[n + 1] = Nested(Nodes[n]) /\ Nodes[n + 1] \subseteq Node
  BY NodesLevels, NodesGrow
<1>9. w \in Nodes[n + 1] /\ Pairs(w) = written /\ w.kind # "Sequence"
  <2>1. CASE written = <<>>
    <3>1. w = NullNode /\ Pairs(w) = <<>> /\ w.kind # "Sequence"
      BY <2>1 DEF Map, Pairs, NullNode
    <3>2. NullNode \in Nodes[n + 1]
      BY NullEverywhere
    <3> QED
      BY <2>1, <3>1, <3>2
  <2>2. CASE written # <<>>
    <3>1. w = [kind |-> "Map", pairs |-> written]
      BY <2>2 DEF Map
    <3>2. w \in [kind : {"Map"}, pairs : Seq(Key \X Nodes[n])]
      BY <1>7, <3>1
    <3>3. Pairs(w) = written /\ w.kind # "Sequence"
      BY <3>1 DEF Pairs
    <3> QED
      BY <1>8, <3>2, <3>3 DEF Nested
  <2> QED
    BY <2>1, <2>2
<1> HIDE DEF w
<1>10. PairsConvert(T, w)
  BY <1>5, <1>7, <1>9 DEF PairsConvert
<1>11. w \in DOMAIN ReadMap(T)
  BY <1>8, <1>9, <1>10 DEF ReadMap
<1>12. ASSUME NEW k \in DOMAIN s, NEW j \in 1 .. k - 1 PROVE written[j][1] # written[k][1]
  <2>1. j \in DOMAIN s /\ j # k
    BY <1>2
  <2>2. s[j] # s[k] /\ s[j] \in v /\ s[k] \in v
    BY <1>1, <1>2, <2>1
  <2>3. s[j][1] # s[k][1]
    BY <2>2 DEF OneOfEachKey
  <2> QED
    BY <1>7, <2>1, <2>3
<1>13. ReadMap(T)[w] = {<<written[k][1], T.read[written[k][2]]>> : k \in DOMAIN s}
  <2> DEFINE firsts == {k \in DOMAIN written : \A j \in 1 .. k - 1 : written[j][1] # written[k][1]}
  <2>1. firsts = DOMAIN s
    BY <1>7, <1>12
  <2>2. ReadMap(T)[w] = {<<written[k][1], T.read[written[k][2]]>> : k \in firsts}
    BY <1>9, <1>11 DEF ReadMap
  <2> HIDE DEF firsts
  <2> QED
    BY <2>1, <2>2
<1>14. \A k \in DOMAIN s : <<written[k][1], T.read[written[k][2]]>> = s[k]
  BY <1>3, <1>5, <1>7
<1>15. ReadMap(T)[w] = {s[k] : k \in DOMAIN s}
  <2> HIDE DEF w, written
  <2> QED
    BY <1>13, <1>14
<1>16. ReadMap(T)[w] = v
  BY <1>1, <1>15 DEF ToSet
<1> QED
  BY <1>9, <1>11, <1>16 DEF w, written

LEMMA MapSound ==
    ASSUME NEW T, NEW n \in Nat, n + 1 <= Nesting, Sound(T, n),
           NEW C, C.read = ReadMap(T), C.write = WriteMap(T)
    PROVE  Sound(C, n + 1)
<1> DEFINE values == {S \in SUBSET (Key \X DOMAIN T.write) : IsFiniteSet(S) /\ OneOfEachKey(S)}
           texts == {x \in Node : PairsConvert(T, x)}
<1>1. DOMAIN ReadMap(T) = texts /\ DOMAIN WriteMap(T) = values
  BY DEF ReadMap, WriteMap
<1>2. texts \subseteq Node
  OBVIOUS
<1>3. ASSUME NEW node \in texts PROVE ReadMap(T)[node] \in values
  <2>1. node \in DOMAIN ReadMap(T)
    BY <1>1
  <2> QED
    BY <2>1, MapRead
<1>4. ASSUME NEW v \in values, NEW w \in WriteMap(T)[v]
      PROVE  w \in Nodes[n + 1] /\ w \in DOMAIN ReadMap(T) /\ ReadMap(T)[w] = v
  <2>1. PICK s \in SetToSeqs(v) : w \in WritePairs(T, s)
    BY <1>4 DEF WriteMap
  <2>2. PICK r \in WriteEach(T, [k \in DOMAIN s |-> s[k][2]]) :
            w = Map([k \in DOMAIN s |-> <<s[k][1], r[k]>>])
    BY <2>1 DEF WritePairs
  <2> QED
    BY <2>2, PairsRead
<1> HIDE DEF texts, values
<1> QED
  BY <1>1, <1>2, <1>3, <1>4 DEF Sound

-----------------------------------------------------------------------------
\* Each container of a type with sound conversions has sound conversions, and reads
\* a text without content as an empty one.
LEMMA CastSound ==
    ASSUME NEW T, NEW n \in Nat, n + 1 <= Nesting, Sound(T, n), NEW c \in Container
    PROVE  Sound(CastOf(c, T), n + 1) /\ NullNode \in DOMAIN CastOf(c, T).read
<1> DEFINE C == CastOf(c, T)
<1>1. \/ C.read = ReadVector(T) /\ C.write = WriteVector(T)
      \/ C.read = ReadSet(T) /\ C.write = WriteSet(T)
      \/ C.read = ReadMap(T) /\ C.write = WriteMap(T)
  <2> USE DEF CastOf
  <2>1. CASE c \in {"vector", "list"}
    BY <2>1 DEF ReadList, WriteList
  <2>2. CASE c \in {"set", "unordered_set"}
    BY <2>2 DEF ReadUnorderedSet, WriteUnorderedSet
  <2>3. CASE c \in {"map", "unordered_map"}
    BY <2>3 DEF ReadUnorderedMap, WriteUnorderedMap
  <2> QED
    BY <2>1, <2>2, <2>3 DEF Container
<1>2. /\ NullNode \in Node /\ Elements(NullNode) = <<>> /\ Pairs(NullNode) = <<>>
      /\ NullNode.kind # "Sequence"
  <2>1. NullNode \in Node
    BY NullEverywhere, LexicalAssumption DEF Node
  <2> QED
    BY <2>1 DEF Elements, Pairs, NullNode
<1>3. NullNode \in DOMAIN ReadVector(T)
  BY <1>2 DEF ReadVector
<1>4. NullNode \in DOMAIN ReadSet(T)
  BY <1>3 DEF ReadSet
<1>5. NullNode \in DOMAIN ReadMap(T)
  BY <1>2 DEF ReadMap, PairsConvert
<1> HIDE DEF C
<1>6. Sound(C, n + 1)
  BY <1>1, VectorSound, SetSound, MapSound
<1> QED
  BY <1>1, <1>3, <1>4, <1>5, <1>6 DEF C

\* The conversions of a type, from those of int outwards.
Casts(t, n, casts) ==
    casts = [k \in 0 .. n |-> IF k = 0 THEN IntCast ELSE CastOf(t[k], casts[k - 1])]

LEMMA CastsExist == ASSUME NEW t, NEW n \in Nat PROVE \E casts : Casts(t, n, casts)
<1> DEFINE P == {m \in Nat : \E casts : Casts(t, m, casts)}
<1>1. 0 \in P
  <2>1. Casts(t, 0, [k \in 0 .. 0 |-> IntCast])
    BY DEF Casts
  <2> QED
    BY <2>1
<1>2. ASSUME NEW m \in P PROVE m + 1 \in P
  <2>1. PICK casts : Casts(t, m, casts)
    OBVIOUS
  <2> DEFINE last == CastOf(t[m + 1], casts[m])
             more == [k \in 0 .. m + 1 |-> IF k = m + 1 THEN last ELSE casts[k]]
  <2>2. ASSUME NEW k \in 0 .. m + 1
        PROVE  more[k] = IF k = 0 THEN IntCast ELSE CastOf(t[k], more[k - 1])
    <3>1. CASE k = m + 1
      <4>1. more[k] = last /\ more[k - 1] = casts[m] /\ k # 0
        BY <3>1
      <4> QED
        BY <3>1, <4>1
    <3>2. CASE k \in 0 .. m
      <4>1. more[k] = casts[k] /\ (k # 0 => more[k - 1] = casts[k - 1])
        BY <3>2
      <4>2. casts[k] = IF k = 0 THEN IntCast ELSE CastOf(t[k], casts[k - 1])
        BY <2>1, <3>2 DEF Casts
      <4> QED
        BY <4>1, <4>2
    <3> QED
      BY <3>1, <3>2
  <2>3. Casts(t, m + 1, more)
    BY <2>2, Zenon DEF Casts
  <2> QED
    BY <2>3
<1>3. P = Nat
  BY <1>1, <1>2, Induction, Zenon
<1> QED
  BY <1>3

\* The conversions of every type are sound, and all but int read null.
LEMMA TypesSound ==
    ASSUME NEW t \in Type
    PROVE  /\ Sound(Cast(t), Len(t))
           /\ t # Int32 => NullNode \in DOMAIN Cast(t).read
           /\ t = Int32 => Cast(t) = IntCast
<1>1. Len(t) \in Nat /\ Len(t) <= Nesting /\ \A k \in 1 .. Len(t) : t[k] \in Container
  BY LexicalAssumption, LenProperties, ElementOfSeq
<1>2. PICK casts : Casts(t, Len(t), casts) /\ Cast(t) = casts[Len(t)]
  <2>1. \E casts : Casts(t, Len(t), casts)
    BY <1>1, CastsExist
  <2> QED
    BY <2>1, Zenon DEF Casts, Cast
<1>3. casts[0] = IntCast
  BY <1>1, <1>2 DEF Casts
<1>4. ASSUME NEW k \in Nat, k + 1 <= Len(t)
      PROVE  t[k + 1] \in Container /\ casts[k + 1] = CastOf(t[k + 1], casts[k])
  <2>1. k + 1 \in 0 .. Len(t) /\ k + 1 \in 1 .. Len(t) /\ k + 1 # 0 /\ (k + 1) - 1 = k
    BY <1>1, <1>4
  <2> QED
    BY <1>1, <1>2, <2>1 DEF Casts
<1> DEFINE P == {k \in Nat : k <= Len(t) => Sound(casts[k], k)}
<1>5. 0 \in P
  BY <1>3, IntSound
<1>6. ASSUME NEW k \in P PROVE k + 1 \in P
  <2> SUFFICES ASSUME k + 1 <= Len(t) PROVE Sound(casts[k + 1], k + 1)
    OBVIOUS
  <2>1. k \in Nat /\ k <= Len(t) /\ k + 1 <= Nesting
    BY <1>1, LexicalAssumption
  <2> QED
    BY <1>4, <2>1, CastSound
<1>7. P = Nat
  BY <1>5, <1>6, Induction, Zenon
<1>8. \A k \in Nat : k <= Len(t) => Sound(casts[k], k)
  BY <1>7
<1>9. ASSUME t # Int32 PROVE NullNode \in DOMAIN Cast(t).read
  <2>1. Len(t) # 0
    BY <1>9, LexicalAssumption, EmptySeq DEF Int32
  <2> DEFINE k == Len(t) - 1
  <2>2. k \in Nat /\ k + 1 = Len(t) /\ k <= Len(t) /\ k + 1 <= Nesting
    BY <1>1, <2>1, LexicalAssumption
  <2> HIDE DEF k
  <2>3. Sound(casts[k], k)
    BY <1>8, <2>2
  <2>4. t[k + 1] \in Container /\ casts[k + 1] = CastOf(t[k + 1], casts[k])
    BY <1>1, <1>4, <2>2
  <2> QED
    BY <1>2, <2>2, <2>3, <2>4, CastSound
<1>10. ASSUME t = Int32 PROVE Cast(t) = IntCast
  <2>1. Len(t) = 0
    BY <1>10, EmptySeq DEF Int32
  <2> QED
    BY <1>2, <1>3, <2>1
<1> QED
  BY <1>1, <1>2, <1>8, <1>9, <1>10

\* The value of a variable is one of its type.
VarTyped == var.type \in Type /\ var.m_val \in DOMAIN Cast(var.type).write

LEMMA DefaultTyped == ASSUME NEW t \in Type PROVE DefaultOf(t) \in DOMAIN Cast(t).write
<1>1. Sound(Cast(t), Len(t)) /\ (t # Int32 => NullNode \in DOMAIN Cast(t).read)
  BY TypesSound
<1>2. CASE t # Int32
  BY <1>1, <1>2 DEF DefaultOf, Sound
<1>3. CASE t = Int32
  <2>1. DOMAIN IntCast.write = {Number[s] : s \in DOMAIN Number}
    BY DEF IntCast
  <2>2. Cast(t) = IntCast
    BY <1>3, TypesSound
  <2>3. (CHOOSE s \in DOMAIN Number : TRUE) \in DOMAIN Number
    BY LexicalAssumption
  <2> QED
    BY <1>3, <2>1, <2>2, <2>3 DEF DefaultOf
<1> QED
  BY <1>2, <1>3

LEMMA VarInvariant == SpecVar => []VarTyped
<1>1. InitVar => VarTyped
  BY DefaultTyped DEF InitVar, VarTyped
<1>2. VarTyped /\ [NextVar]_var => VarTyped'
  <2> SUFFICES ASSUME VarTyped, [NextVar]_var PROVE VarTyped'
    OBVIOUS
  <2>1. CASE UNCHANGED var
    BY <2>1 DEF VarTyped
  <2>2. ASSUME NEW node \in Text, FromString(node) PROVE VarTyped'
    <3>1. /\ node \in DOMAIN Cast(var.type).read
          /\ var' = [var EXCEPT !.m_val = Cast(var.type).read[node]]
      BY <2>2 DEF FromString
    <3>2. Cast(var.type).read[node] \in DOMAIN Cast(var.type).write
      BY <3>1, TypesSound DEF VarTyped, Sound
    <3> QED
      BY <3>1, <3>2 DEF VarTyped
  <2>3. ASSUME NEW node \in Text, FromStringThrows(node) PROVE VarTyped'
    BY <2>1, <2>3 DEF FromStringThrows
  <2> QED
    BY <2>1, <2>2, <2>3 DEF NextVar
<1> QED
  BY <1>1, <1>2, PTL DEF SpecVar

\* Whatever was loaded into a variable of any container type, of containers nested to
\* any depth, what toString writes of it reads as it: no element is lost or merged,
\* and no empty container inside another disappears.
THEOREM ContainersRoundTripCorrect == SpecVar => []ContainersRoundTrip
<1>1. VarTyped => ContainersRoundTrip
  BY TypesSound DEF VarTyped, Sound, ContainersRoundTrip
<1> QED
  BY <1>1, VarInvariant, PTL

=============================================================================
