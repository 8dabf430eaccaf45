-------------------------------- MODULE Logger --------------------------------
(***************************************************************************)
(* Loggers set up by hand, as in tests/test.cc: appenders are objects that *)
(* several loggers may share, and a logger may come from LoggerManager or  *)
(* be made by the program, as "new Logger()", which has no root to pass an *)
(* event to.  A LogFormatter is its pattern, and a pointer to one may be null *)
(* or point to one in error.                                               *)
(***************************************************************************)
EXTENDS LogLevel, Sequences

CONSTANTS
    Managed,      \* loggers of LoggerManager, Root among them
    Free,         \* loggers made as "new Logger()", which are named "root"
    Root,         \* LoggerManager::m_root
    File, Stdout, \* the appenders the program makes
    GoodPattern, BadPattern,
    Default,      \* the pattern of the constructors
    Null,         \* nullptr
    Crashed,      \* the mark of a program that called through a null pointer
    Own, Moved,   \* marks of the history variable "home"
    Levels,       \* the levels the program sets
    EventLevels,  \* the levels of its events
    MaxAppenders  \* bound of the runs: length of a list of appenders

Logger == Managed \cup Free
Made == File \cup Stdout
Console(l, k) == <<l, k>>
Consoles == {Console(Root, 2)} \cup {Console(l, 1) : l \in Free \cup {Root}}
Appender == Made \cup Consoles
Formatter == GoodPattern \cup BadPattern \cup {Null}

ASSUME LoggerAssumption ==
    /\ Root \in Managed /\ Managed \cap Free = {}
    /\ Null \notin Logger /\ Null \notin GoodPattern \cup BadPattern /\ Crashed # Null
    /\ Made \cap Consoles = {} /\ File \cap Stdout = {}
    /\ Default \in GoodPattern /\ BadPattern \cap GoodPattern = {}
    /\ Own \notin Logger \cup {Null, Moved} /\ Moved \notin Logger \cup {Null}
    /\ Levels \cup EventLevels \subseteq Level /\ MaxAppenders \in Nat

VARIABLES
    m_level, m_formatter, m_appenders,  \* of each logger
    ap_level, ap_formatter,             \* m_level and m_formatter of each appender
    home,   \* history: the logger an appender has always been with; Null when it
            \* is new, Own when it was given its own formatter, else Moved
    nulls,  \* history: the loggers and appenders that setFormatter was called on
            \* with a null pointer
    output  \* the event that was logged last and who printed it, Null when another
            \* call came after it, Crashed when logging it ended the program

loggers == <<m_level, m_formatter, m_appenders>>
appenders == <<ap_level, ap_formatter>>
vars == <<loggers, appenders, home, nulls, output>>

On(l) == {m_appenders[l][k] : k \in DOMAIN m_appenders[l]}

m_root == [l \in Logger |-> IF l \in Managed \ {Root} THEN Root ELSE Null]

\* LogAppender::m_hasFormatter, which nothing sets: the setFormatter that does set a
\* member of this name is LogFormatter's.
m_hasFormatter == [a \in Appender |-> FALSE]

\* A constructor of a logger named "root" pushes a console as it is, without a
\* formatter; LoggerManager adds root's second one with addAppender.
Init ==
    /\ m_level = [l \in Logger |-> DEBUG]
    /\ m_formatter = [l \in Logger |-> Default]
    /\ m_appenders = [l \in Logger |->
           IF l = Root THEN <<Console(l, 1), Console(l, 2)>>
           ELSE IF l \in Free THEN <<Console(l, 1)>> ELSE <<>>]
    /\ ap_level = [a \in Appender |-> DEBUG]
    /\ ap_formatter = [a \in Appender |-> IF a = Console(Root, 2) THEN Default ELSE Null]
    /\ home = [a \in Appender |-> IF a \in Made THEN Null ELSE a[1]]
    /\ nulls = {}
    /\ output = Null

-----------------------------------------------------------------------------
\* An appender without a formatter gets the logger's.
AddAppender_AsIs(l, a) ==
    /\ Len(m_appenders[l]) < MaxAppenders
    /\ m_appenders' = [m_appenders EXCEPT ![l] = Append(@, a)]
    /\ home' = [home EXCEPT ![a] = IF @ \in {Null, l} THEN l ELSE IF @ = Own THEN Own ELSE Moved]
    /\ output' = Null
    /\ UNCHANGED <<m_level, m_formatter, appenders, nulls>>

AddAppender(l, a) ==
    /\ Len(m_appenders[l]) < MaxAppenders
    /\ ap_formatter' = [ap_formatter EXCEPT ![a] = IF @ = Null THEN m_formatter[l] ELSE @]
    /\ m_appenders' = [m_appenders EXCEPT ![l] = Append(@, a)]
    /\ home' = [home EXCEPT ![a] = IF @ \in {Null, l} THEN l ELSE IF @ = Own THEN Own ELSE Moved]
    /\ output' = Null
    /\ UNCHANGED <<m_level, m_formatter, ap_level, nulls>>

\* The first of the entries that are the appender is erased.
Without(list, k) == [j \in 1 .. Len(list) - 1 |-> IF j < k THEN list[j] ELSE list[j + 1]]

Leaves(l, a) == home[a] = l /\ \A k \in DOMAIN m_appenders[l]' : m_appenders'[l][k] # a

DelAppender(l, a) ==
    /\ \E k \in DOMAIN m_appenders[l] :
          /\ m_appenders[l][k] = a /\ \A j \in 1 .. k - 1 : m_appenders[l][j] # a
          /\ m_appenders' = [m_appenders EXCEPT ![l] = Without(@, k)]
    /\ home' = [b \in Appender |-> IF Leaves(l, b) THEN Moved ELSE home[b]]
    /\ output' = Null
    /\ UNCHANGED <<m_level, m_formatter, appenders, nulls>>

CleanAppenders(l) ==
    /\ m_appenders' = [m_appenders EXCEPT ![l] = <<>>]
    /\ home' = [b \in Appender |-> IF Leaves(l, b) THEN Moved ELSE home[b]]
    /\ output' = Null
    /\ UNCHANGED <<m_level, m_formatter, appenders, nulls>>

Given(x, f) == IF f = Null THEN nulls \cup {x} ELSE nulls

\* Logger::setFormatter(LogFormatter::ptr), which looks at no pointer it is given.
SetFormatter_NotAppenders(l, f) ==
    /\ m_formatter' = [m_formatter EXCEPT ![l] = f]
    /\ nulls' = Given(l, f)
    /\ output' = Null
    /\ UNCHANGED <<m_level, m_appenders, appenders, home>>

SetFormatter(l, f) ==
    /\ m_formatter' = [m_formatter EXCEPT ![l] = f]
    /\ ap_formatter' = [a \in Appender |->
           IF a \in On(l) /\ ~m_hasFormatter[a] THEN f ELSE ap_formatter[a]]
    /\ nulls' = Given(l, f)
    /\ output' = Null
    /\ UNCHANGED <<m_level, m_appenders, ap_level, home>>

\* Logger::setFormatter(const std::string &): a pattern with an error changes nothing.
SetFormatterText(l, p) == p \in GoodPattern /\ SetFormatter(l, p)

SetLevel(l, level) ==
    /\ m_level' = [m_level EXCEPT ![l] = level]
    /\ output' = Null
    /\ UNCHANGED <<m_formatter, m_appenders, appenders, home, nulls>>

\* LogAppender::setFormatter and LogAppender::setLevel.
SetAppenderFormatter(a, f) ==
    /\ ap_formatter' = [ap_formatter EXCEPT ![a] = f]
    /\ home' = [home EXCEPT ![a] = Own]
    /\ nulls' = Given(a, f)
    /\ output' = Null
    /\ UNCHANGED <<loggers, ap_level>>

SetAppenderLevel(a, level) ==
    /\ ap_level' = [ap_level EXCEPT ![a] = level]
    /\ output' = Null
    /\ UNCHANGED <<loggers, ap_formatter, home, nulls>>

\* The logger whose appenders Logger::log calls: one without appenders passes the
\* event to its root, when it has one, and the root compares the level again.
\* Root has no root, so nobody may be there to print it.
Handler_OwnOnly(l, level) ==
    IF level < m_level[l] \/ m_appenders[l] = <<>> THEN Null ELSE l

Handler(l, level) ==
    IF level < m_level[l] THEN Null
    ELSE IF m_appenders[l] # <<>> THEN l
    ELSE IF m_root[l] # Null /\ level >= m_level[m_root[l]] /\ m_appenders[m_root[l]] # <<>>
         THEN m_root[l] ELSE Null

Takes(a, level) == level >= ap_level[a]

\* The entries of the list that print the event.
Printing(l, level) ==
    LET h == Handler(l, level)
    IN  IF h = Null THEN {} ELSE {k \in DOMAIN m_appenders[h] : Takes(m_appenders[h][k], level)}

\* StdoutLogAppender::log installs a formatter when it has none.
Installs(l, level, a) ==
    /\ a \notin File /\ ap_formatter[a] = Null
    /\ \E k \in Printing(l, level) : m_appenders[Handler(l, level)][k] = a

\* FileLogAppender::log does not.
Crashes(l, level) ==
    \E k \in Printing(l, level) : LET a == m_appenders[Handler(l, level)][k]
                                 IN  a \in File /\ ap_formatter[a] = Null

LogCrashes(l, level) ==
    /\ Crashes(l, level)
    /\ output' = Crashed
    /\ UNCHANGED <<loggers, appenders, home, nulls>>

Log(l, level) ==
    /\ ~Crashes(l, level)
    /\ output' = [logger |-> l, level |-> level, by |-> Printing(l, level)]
    /\ ap_formatter' =
           [a \in Appender |-> IF Installs(l, level, a) THEN Default ELSE ap_formatter[a]]
    /\ UNCHANGED <<loggers, ap_level, home, nulls>>

Next ==
    /\ output # Crashed
    /\ \/ \E l \in Logger, a \in Made : AddAppender(l, a) \/ DelAppender(l, a)
       \/ \E l \in Logger : CleanAppenders(l)
       \/ \E l \in Logger, f \in Formatter : SetFormatter(l, f)
       \/ \E l \in Logger, p \in GoodPattern \cup BadPattern : SetFormatterText(l, p)
       \/ \E l \in Logger, level \in Levels : SetLevel(l, level)
       \/ \E l \in Logger, level \in EventLevels : Log(l, level) \/ LogCrashes(l, level)
       \/ \E a \in Made, f \in Formatter : SetAppenderFormatter(a, f)
       \/ \E a \in Made, level \in Levels : SetAppenderLevel(a, level)

Spec == Init /\ [][Next]_vars

-----------------------------------------------------------------------------
\* The types.
TypeOK ==
    /\ m_level \in [Logger -> Level]
    /\ m_formatter \in [Logger -> Formatter]
    /\ m_appenders \in [Logger -> Seq(Appender)]
    /\ ap_level \in [Appender -> Level]
    /\ ap_formatter \in [Appender -> Formatter]
    /\ home \in [Appender -> Logger \cup {Null, Own, Moved}]
    /\ nulls \subseteq Logger \cup Appender
    /\ output \in {Null, Crashed} \cup [logger : Logger, level : Level, by : SUBSET Nat]

\* An event meets a file appender without a formatter, which FileLogAppender::log
\* calls without a test, only where the program gave setFormatter a null pointer: for
\* this appender, or for a logger, which hands it on (log.cc:309, 340).  Whatever else
\* was added, shared, removed and added again, addAppender has given it one.
FilesCanFormat ==
    \A l \in Logger : \A a \in On(l) :
        a \in File /\ ap_formatter[a] = Null => a \in nulls \/ nulls \cap Logger # {}

\* Nothing in the library keeps the program from the crash: setFormatter takes a null
\* pointer, and the file appender is called with it (log.cc:408).
NeverCrashes == output # Crashed

\* The appenders of a logger print with its formatter, null or in error as it may be,
\* if they have been with this logger only and never got one of their own: those added
\* before setFormatter, those added after, and the default consoles.  The difference
\* is a console that has or is given none: it prints with the default formatter
\* (addAppender, setFormatter, StdoutLogAppender::log).
FollowsLogger ==
    \A a \in Appender : home[a] \in Logger =>
        /\ a \in On(home[a])
        /\ \/ ap_formatter[a] = m_formatter[home[a]]
           \/ /\ a \notin File
              /\ <<ap_formatter[a], m_formatter[home[a]]>>
                     \in {<<Null, Default>>, <<Default, Null>>}

\* Logger::setFormatter leaves alone the appenders that were given a formatter of
\* their own (the comment of m_hasFormatter, log.h:377, and the test at log.cc:338).
OwnFormatterKept ==
    [][\A a \in Appender : home[a] = Own /\ ap_formatter'[a] # ap_formatter[a]
           => \E f \in Formatter : SetAppenderFormatter(a, f)]_vars

\* When a logger has no appenders, root writes the event (worklog line 93), if its
\* level is enough for both and for one of root's appenders.  So it is for the
\* loggers of LoggerManager and not for others, whose m_root is null.
RootWrites ==
    output \notin {Null, Crashed} /\ m_appenders[output.logger] = <<>>
        /\ output.level >= m_level[output.logger] /\ output.level >= m_level[Root]
        /\ (\E a \in On(Root) : Takes(a, output.level))
            => output.by # {}

\* By default root does not print an event on two consoles (worklog line 110).
OneConsoleByDefault ==
    output \notin {Null, Crashed} /\ (\A a \in Made : home[a] = Null) =>
        \A j, k \in output.by : j = k
=============================================================================
