------------------------------ MODULE LogLevel ------------------------------
(***************************************************************************)
(* sylar::LogLevel: the ordered severities and their two text conversions. *)
(***************************************************************************)
EXTENDS Integers, Sequences

UNKNOW == 0
DEBUG  == 1
INFO   == 2
WARN   == 3
ERROR  == 4
FATAL  == 5

Level == UNKNOW .. FATAL

UpperCase == <<"DEBUG", "INFO", "WARN", "ERROR", "FATAL">>
LowerCase == <<"debug", "info", "warn", "error", "fatal">>

\* const char* LogLevel::ToString(LogLevel::Level)
LevelToString(level) ==
    IF level \in DEBUG .. FATAL THEN UpperCase[level] ELSE "UNKNOW"

\* LogLevel::Level LogLevel::FromString(const std::string&): all upper case or
\* all lower case only; any other text, the empty one included, is UNKNOW.
LevelFromString(str) ==
    IF \E level \in DEBUG .. FATAL : str \in {UpperCase[level], LowerCase[level]}
    THEN CHOOSE level \in DEBUG .. FATAL : str \in {UpperCase[level], LowerCase[level]}
    ELSE UNKNOW

=============================================================================
