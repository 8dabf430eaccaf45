----------------------------- MODULE LogDefine ------------------------------
(***************************************************************************)
(* LogAppenderDefine, LogDefine and std::set<LogDefine>: the value of the  *)
(* configuration variable "logs" (sylar/log.cc).  The set is ordered by    *)
(* operator<, that is by the logger's name alone, so it is a function from *)
(* the names it holds to the rest of the definition.                       *)
(***************************************************************************)
EXTENDS LogLevel

CONSTANTS
    Name,         \* logger names
    GoodPattern,  \* format patterns LogFormatter::init accepts
    BadPattern,   \* format patterns for which LogFormatter::isError() is true
    File          \* file names

ASSUME PatternAssumption ==
    /\ GoodPattern \cap BadPattern = {}
    /\ "" \notin GoodPattern \cup BadPattern

Pattern == GoodPattern \cup BadPattern

FileType   == 1
StdoutType == 2

\* An optional std::string member is "" when the YAML node does not give it.
AppenderDefineSet ==
    [type : {FileType, StdoutType}, level : Level,
     formatter : Pattern \cup {""}, file : File \cup {""}]

LogDefineSet ==
    [level : Level, formatter : Pattern \cup {""}, appenders : Seq(AppenderDefineSet)]

IsLogs(v) == DOMAIN v \subseteq Name /\ v \in [DOMAIN v -> LogDefineSet]

(***************************************************************************)
(* LogDefine::operator==.  Its last conjunct is "appenders == appenders",  *)
(* which compares the left operand's member with itself and is always true.*)
(***************************************************************************)
DefineEq_NoLevel(a, b) == a.formatter = b.formatter

DefineEq(a, b) == a.level = b.level /\ a.formatter = b.formatter

\* operator== of std::set<LogDefine>: same names, and equal definitions.
LogsEq(v, w) ==
    /\ DOMAIN v = DOMAIN w
    /\ \A n \in DOMAIN v : DefineEq(v[n], w[n])

=============================================================================
