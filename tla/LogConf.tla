------------------------------ MODULE LogConf -------------------------------
(***************************************************************************)
(* Logging driven by the configuration: the loggers LoggerManager hands    *)
(* out, the value of the configuration variable "logs" and the listener    *)
(* that LogIniter registers on it, in a program that configures its        *)
(* loggers from files only (tests/test_config.cc, test_log).               *)
(*                                                                         *)
(* Appenders made by the listener belong to one logger and are never       *)
(* shared, so a logger holds the values of its appenders.  A LogFormatter  *)
(* is its pattern.                                                         *)
(***************************************************************************)
EXTENDS LogDefine

CONSTANTS
    Root,      \* the name "root"
    Default,   \* the pattern the Logger constructor installs
    Null,      \* nullptr
    Config     \* values a load, or ConfigVar::setValue, may give to "logs"

ASSUME ConfAssumption ==
    /\ Root \in Name
    /\ Default \in GoodPattern
    /\ Null \notin Pattern
    /\ \A value \in Config : IsLogs(value)

VARIABLES
    m_loggers,  \* LoggerManager::m_loggers, from name to logger
    logs        \* m_val of g_log_defines

vars == <<m_loggers, logs>>

AppenderSet ==
    [type : {FileType, StdoutType}, file : File \cup {""},
     m_level : Level, m_formatter : GoodPattern \cup {Null}]

LoggerSet ==
    [m_level : Level, m_formatter : GoodPattern, m_appenders : Seq(AppenderSet)]

-----------------------------------------------------------------------------
\* Logger::Logger(name) for a name other than "root".
NewLogger == [m_level |-> DEBUG, m_formatter |-> Default, m_appenders |-> <<>>]

Console(formatter) ==
    [type |-> StdoutType, file |-> "", m_level |-> DEBUG, m_formatter |-> formatter]

\* The root logger after LoggerManager::LoggerManager(): its own constructor
\* pushes one console appender without a formatter, then the manager adds
\* another one through addAppender, which gives it the logger's formatter.
NewRoot == [NewLogger EXCEPT !.m_appenders = <<Console(Null), Console(Default)>>]

\* StdoutLogAppender::log installs the default formatter when it has none.
AppenderLog(ap, level) ==
    IF ap.type = StdoutType /\ level >= ap.m_level /\ ap.m_formatter = Null
    THEN [ap EXCEPT !.m_formatter = Default]
    ELSE ap

\* Logger::log for a logger that handles the event itself.
LoggerLog(lg, level) ==
    IF level >= lg.m_level
    THEN [lg EXCEPT !.m_appenders =
             [k \in DOMAIN lg.m_appenders |-> AppenderLog(lg.m_appenders[k], level)]]
    ELSE lg

-----------------------------------------------------------------------------
\* The appender the listener makes for a definition: its own formatter when it
\* has a valid one, else the one addAppender gives it.
BuildAppender_AnyPattern(def, formatter) ==
    [type |-> def.type, file |-> def.file, m_level |-> def.level,
     m_formatter |-> IF def.formatter # "" THEN def.formatter ELSE formatter]

BuildAppender(def, formatter) ==
    [type |-> def.type, file |-> def.file, m_level |-> def.level,
     m_formatter |-> IF def.formatter \in GoodPattern THEN def.formatter ELSE formatter]

BuildAppenders(defs, formatter) ==
    [k \in DOMAIN defs |-> BuildAppender(defs[k], formatter)]

\* setLevel, setFormatter (which keeps the old one when the pattern is empty or
\* in error), cleanAppenders, then addAppender for each definition.
Reconfigured_NoClean(lg, def) ==
    LET formatter == IF def.formatter \in GoodPattern THEN def.formatter ELSE lg.m_formatter
    IN  [m_level |-> def.level, m_formatter |-> formatter,
         m_appenders |-> IF def.appenders = <<>> THEN lg.m_appenders
                         ELSE BuildAppenders(def.appenders, formatter)]

Reconfigured_KeepFormatter(lg, def) ==
    [m_level |-> def.level, m_formatter |-> lg.m_formatter,
     m_appenders |-> BuildAppenders(def.appenders, lg.m_formatter)]

Reconfigured(lg, def) ==
    LET formatter == IF def.formatter \in GoodPattern THEN def.formatter ELSE lg.m_formatter
    IN  [m_level     |-> def.level,
         m_formatter |-> formatter,
         m_appenders |-> BuildAppenders(def.appenders, formatter)]

\* A logger no longer configured: level 0 and no appenders; it stays in the map.
Unconfigured_LevelOnly(lg) == [lg EXCEPT !.m_level = UNKNOW]

Unconfigured(lg) ==
    [m_level |-> UNKNOW, m_formatter |-> lg.m_formatter, m_appenders |-> <<>>]

(***************************************************************************)
(* The listener.  It first logs a line to the root logger at INFO, then    *)
(* handles the names that are new or whose definition is not equal (==) to *)
(* the old one, and last the names that are gone.  SYLAR_LOG_NAME creates  *)
(* the logger when there is none.                                          *)
(***************************************************************************)
OnLogsChanged(old, new) ==
    LET before  == [m_loggers EXCEPT ![Root] = LoggerLog(@, INFO)]
        changed == {n \in DOMAIN new : n \in DOMAIN old => ~DefineEq(new[n], old[n])}
        removed == DOMAIN old \ DOMAIN new
        lookup(n) == IF n \in DOMAIN before THEN before[n] ELSE NewLogger
    IN  [n \in DOMAIN before \cup changed \cup removed |->
            IF n \in changed THEN Reconfigured(lookup(n), new[n])
            ELSE IF n \in removed THEN Unconfigured(lookup(n))
            ELSE before[n]]

-----------------------------------------------------------------------------
Init ==
    /\ m_loggers = [n \in {Root} |-> NewRoot]
    /\ logs = [n \in {} |-> Null]

\* g_log_defines->setValue(value): an equal value changes nothing, else the
\* listener runs and the value is stored.
SetLogs(value) ==
    /\ ~LogsEq(value, logs)
    /\ m_loggers' = OnLogsChanged(logs, value)
    /\ logs' = value

\* LoggerManager::getLogger for a name not in the map; for another name it
\* changes nothing.
GetLogger(n) ==
    /\ n \notin DOMAIN m_loggers
    /\ m_loggers' = [m \in DOMAIN m_loggers \cup {n} |->
                        IF m = n THEN NewLogger ELSE m_loggers[m]]
    /\ UNCHANGED logs

\* Logger::log: a logger without appenders passes the event to the root logger,
\* which checks its own level.
Log(n, level) ==
    /\ n \in DOMAIN m_loggers
    /\ level >= m_loggers[n].m_level
    /\ LET handler == IF m_loggers[n].m_appenders # <<>> THEN n ELSE Root
       IN  m_loggers' = [m_loggers EXCEPT ![handler] = LoggerLog(@, level)]
    /\ UNCHANGED logs

Next ==
    \/ \E value \in Config : SetLogs(value)
    \/ \E n \in Name : GetLogger(n)
    \/ \E n \in Name, level \in DEBUG .. FATAL : Log(n, level)

Spec == Init /\ [][Next]_vars

-----------------------------------------------------------------------------
\* The values of the variables have their types; root is always in the map, and
\* every configured name has a logger (SYLAR_LOG_NAME in the listener).
TypeOK ==
    /\ DOMAIN m_loggers \subseteq Name
    /\ Root \in DOMAIN m_loggers
    /\ m_loggers \in [DOMAIN m_loggers -> LoggerSet]
    /\ IsLogs(logs)
    /\ DOMAIN logs \subseteq DOMAIN m_loggers

\* The level of each logger named in "logs" is the configured one, whatever the
\* sequence of reloads: the listener's "continue" never skips a logger whose
\* level has changed (the listener of LogIniter).
LevelsFollowConfig ==
    \A n \in DOMAIN logs : m_loggers[n].m_level = logs[n].level

\* A valid pattern configured for a logger is the logger's formatter; an invalid
\* or empty one never is (Logger::setFormatter keeps the old formatter).
FormattersFollowConfig ==
    \A n \in DOMAIN logs :
        logs[n].formatter \in GoodPattern => m_loggers[n].m_formatter = logs[n].formatter

\* The appenders of a configured logger are, all of them and in order, those of
\* ONE configured definition of that logger, equal (==) to the current one: no
\* reload mixes two definitions, leaves an appender behind or leaves one without
\* a formatter or with a formatter the logger no longer has (cleanAppenders and
\* setFormatter before addAppender).
AppendersOfOneDefinition ==
    \A n \in DOMAIN logs :
        \E value \in Config :
            /\ n \in DOMAIN value
            /\ DefineEq(value[n], logs[n])
            /\ m_loggers[n].m_appenders =
                   BuildAppenders(value[n].appenders, m_loggers[n].m_formatter)

\* A logger that is not configured, or no longer, writes to no appender of its
\* own, so it goes through root; root itself keeps its two consoles until it is
\* configured, and has nothing after its definition is removed.
UnconfiguredOwnNothing ==
    \A n \in DOMAIN m_loggers \ DOMAIN logs :
        \/ m_loggers[n].m_appenders = <<>>
        \/ /\ n = Root
           /\ m_loggers[n].m_appenders \in {<<Console(Null), Console(Default)>>,
                                          <<Console(Default), Console(Default)>>}

\* The appenders of each logger named in "logs" are the configured ones: what a
\* change of the configuration is for.  The code does not keep it, because
\* LogDefine::operator== does not compare the appenders.
AppendersFollowConfig ==
    \A n \in DOMAIN logs :
        m_loggers[n].m_appenders =
            BuildAppenders(logs[n].appenders, m_loggers[n].m_formatter)

=============================================================================
