------------------------------- MODULE Logging --------------------------------
(***************************************************************************)
(* Threads that log through the macros of log.h at the same time, as in    *)
(* tests/test_thread.cc: no class of the log module has a lock, so a call  *)
(* is split where another thread may see or change what it uses.  The      *)
(* levels may change at any time.  What the threads share is made before   *)
(* they start and stays: LoggerManager::m_loggers, in which getLogger only *)
(* finds, and root's consoles, the only appenders.                         *)
(***************************************************************************)
EXTENDS LogLevel, Sequences

CONSTANTS
    Thread,
    Main,       \* the thread that started them
    Null,       \* nullptr
    Logger,     \* the loggers that are registered
    Root,       \* LoggerManager::m_root
    N,          \* number of root's consoles
    Levels,     \* the levels of statements, and those setLevel sets
    Opener      \* the threads that may log before each console has a formatter

ASSUME LoggingAssumption ==
    /\ Root \in Logger /\ Main \notin Thread /\ Null \notin Thread \cup {Main}
    /\ N \in Nat
    /\ Opener \subseteq Thread /\ Levels \subseteq Level

VARIABLES
    m_level,       \* of each logger
    ap_level,      \* m_level of each console
    m_formatter,   \* of each console: who made it, or Null
    freed,         \* of each console, the formatters it no longer owns
    pc,            \* where each thread is in its logging statement
    logger,        \* the logger of the statement, or the one whose log() runs
    level,         \* the level of its event
    at,            \* the console the loop of Logger::log is at, or was at last
    using,         \* the formatter whose format() runs, or Null
    printed,       \* the consoles that have printed the event, in their order
    meanwhile      \* history: the consoles whose level was set after they compared

levels == <<m_level, ap_level>>
formatters == <<m_formatter, freed>>
call == <<logger, level, at, using, printed, meanwhile>>
vars == <<levels, formatters, pc, call>>

Init ==
    /\ m_level = [lg \in Logger |-> DEBUG]
    /\ ap_level = [k \in 1 .. N |-> DEBUG]
    /\ m_formatter = [k \in 1 .. N |-> IF k = 1 THEN Null ELSE Main]
    /\ freed = [k \in 1 .. N |-> {}]
    /\ pc = [t \in Thread |-> "idle"]
    /\ logger = [t \in Thread |-> Root]
    /\ level = [t \in Thread |-> DEBUG]
    /\ at = [t \in Thread |-> 1]
    /\ using = [t \in Thread |-> Null]
    /\ printed = [t \in Thread |-> <<>>]
    /\ meanwhile = [t \in Thread |-> {}]

Goto(t, from, to) == pc[t] = from /\ pc' = [pc EXCEPT ![t] = to]

\* The variables of a statement are gone when it ends.
Leave(t, from) ==
    /\ Goto(t, from, "idle")
    /\ logger' = [logger EXCEPT ![t] = Root]
    /\ level' = [level EXCEPT ![t] = DEBUG]
    /\ printed' = [printed EXCEPT ![t] = <<>>]
    /\ meanwhile' = [meanwhile EXCEPT ![t] = {}]
    /\ UNCHANGED <<levels, formatters, at, using>>

\* Some console has no formatter yet.
Cold == \E k \in 1 .. N : m_formatter[k] = Null

-----------------------------------------------------------------------------
\* The macro asks the logger for its level; SYLAR_LOG_NAME finds it by its name.
Begin(t, lg) ==
    /\ Cold => t \in Opener
    /\ Goto(t, "idle", "macro")
    /\ logger' = [logger EXCEPT ![t] = lg]
    /\ UNCHANGED <<levels, formatters, level, at, using, printed, meanwhile>>

\* The macro names its logger twice, so getLogger finds the same one again: an event
\* is made, wrapped and filled when its level is enough,
Wrap(t, l) ==
    /\ m_level[logger[t]] <= l
    /\ Goto(t, "macro", "event")
    /\ level' = [level EXCEPT ![t] = l]
    /\ at' = [at EXCEPT ![t] = 1]
    /\ UNCHANGED <<levels, formatters, logger, using, printed, meanwhile>>

Skip(t, l) == m_level[logger[t]] > l /\ Leave(t, "macro")

\* and the destructor of the wrapper calls Logger::log, which compares the levels
\* again.  A logger without appenders calls root's.
Pass_Itself(t) ==
    /\ logger[t] # Root /\ level[t] >= m_level[logger[t]]
    /\ Goto(t, "event", "event")
    /\ UNCHANGED <<levels, formatters, call>>

Pass(t) ==
    /\ logger[t] # Root /\ level[t] >= m_level[logger[t]]
    /\ Goto(t, "event", "event")
    /\ logger' = [logger EXCEPT ![t] = Root]
    /\ UNCHANGED <<levels, formatters, level, at, using, printed, meanwhile>>

Log(t) ==
    /\ logger[t] = Root /\ level[t] >= m_level[Root]
    /\ Goto(t, "event", "console")
    /\ UNCHANGED <<levels, formatters, call>>

Drop(t) == level[t] < m_level[logger[t]] /\ Leave(t, "event")

\* StdoutLogAppender::log compares the event with the level of the console, which may
\* refuse it,
Refuse_Ends(t) ==
    at[t] <= N /\ level[t] < ap_level[at[t]] /\ Leave(t, "console")

Refuse(t) ==
    /\ at[t] <= N /\ level[t] < ap_level[at[t]]
    /\ Goto(t, "console", "console")
    /\ at' = [at EXCEPT ![t] = @ + 1]
    /\ UNCHANGED <<levels, formatters, logger, level, using, printed, meanwhile>>

\* and tests for a formatter when it does not;
Test_Always(t) ==
    /\ at[t] <= N /\ level[t] >= ap_level[at[t]]
    /\ Goto(t, "console", "install")
    /\ UNCHANGED <<levels, formatters, call>>

Test(t) ==
    /\ at[t] <= N /\ level[t] >= ap_level[at[t]]
    /\ Goto(t, "console", IF m_formatter[at[t]] = Null THEN "install" ELSE "use")
    /\ UNCHANGED <<levels, formatters, call>>

\* reset(), which destroys the one another thread has installed since,
Install_TestAgain(t) ==
    /\ Goto(t, "install", "console")
    /\ m_formatter' = [m_formatter EXCEPT ![at[t]] = t]
    /\ freed' = [freed EXCEPT ![at[t]] = @ \cup ({m_formatter[at[t]]} \ {Null})]
    /\ UNCHANGED <<levels, call>>

Install(t) ==
    /\ Goto(t, "install", "use")
    /\ m_formatter' = [m_formatter EXCEPT ![at[t]] = t]
    /\ freed' = [freed EXCEPT ![at[t]] = @ \cup ({m_formatter[at[t]]} \ {Null})]
    /\ UNCHANGED <<levels, call>>

\* and format(), called through the pointer as it is then.
Use(t) ==
    /\ Goto(t, "use", "format")
    /\ using' = [using EXCEPT ![t] = m_formatter[at[t]]]
    /\ UNCHANGED <<levels, formatters, logger, level, at, printed, meanwhile>>

Output(t) ==
    /\ Goto(t, "format", "console")
    /\ using' = [using EXCEPT ![t] = Null]
    /\ printed' = [printed EXCEPT ![t] = Append(@, at[t])]
    /\ at' = [at EXCEPT ![t] = @ + 1]
    /\ UNCHANGED <<levels, formatters, logger, level, meanwhile>>

Return(t) == at[t] > N /\ Leave(t, "console")

\* Logger::setLevel and LogAppender::setLevel, by anyone.
SetLevel(lg, l) ==
    /\ m_level' = [m_level EXCEPT ![lg] = l]
    /\ UNCHANGED <<ap_level, formatters, pc, call>>

\* The statement has compared its level with that of the console.
Compared(t, k) ==
    \/ pc[t] = "console" /\ k < at[t]
    \/ pc[t] \in {"install", "use", "format"} /\ k <= at[t]

SetAppenderLevel(k, l) ==
    /\ ap_level' = [ap_level EXCEPT ![k] = l]
    /\ meanwhile' = [t \in Thread |-> IF Compared(t, k) THEN meanwhile[t] \cup {k}
                                      ELSE meanwhile[t]]
    /\ UNCHANGED <<m_level, formatters, pc, logger, level, at, using, printed>>

Step(t) ==
    \/ (\E l \in Levels : Wrap(t, l) \/ Skip(t, l))
    \/ Pass(t) \/ Log(t) \/ Drop(t)
    \/ Refuse(t) \/ Test(t) \/ Install(t) \/ Use(t) \/ Output(t) \/ Return(t)

Next ==
    \/ \E t \in Thread, lg \in Logger : Begin(t, lg)
    \/ \E t \in Thread : Step(t)
    \/ \E lg \in Logger, l \in Levels : SetLevel(lg, l)
    \/ \E k \in 1 .. N, l \in Levels : SetAppenderLevel(k, l)

\* A thread that has begun a statement goes on with it; it need not begin another.
Spec == Init /\ [][Next]_vars /\ \A t \in Thread : WF_vars(Step(t))

-----------------------------------------------------------------------------
\* The types.
TypeOK ==
    /\ m_level \in [Logger -> Level]
    /\ ap_level \in [1 .. N -> Level]
    /\ m_formatter \in [1 .. N -> Thread \cup {Main, Null}]
    /\ freed \in [1 .. N -> SUBSET (Thread \cup {Main})]
    /\ pc \in [Thread -> {"idle", "macro", "event", "console", "install", "use", "format"}]
    /\ logger \in [Thread -> Logger]
    /\ level \in [Thread -> Level]
    /\ at \in [Thread -> 1 .. N + 1]
    /\ using \in [Thread -> Thread \cup {Main, Null}]
    /\ printed \in [Thread -> Seq(1 .. N)]
    /\ meanwhile \in [Thread -> SUBSET (1 .. N)]
    /\ \A t \in Thread : pc[t] \in {"install", "use", "format"} => at[t] <= N

\* The formatter whose format() a thread runs exists, is the console's and was not
\* destroyed by another thread (m_formatter of StdoutLogAppender::log is tested,
\* installed and used without a lock).
FormatterAlive ==
    \A t \in Thread :
        pc[t] = "format" => using[t] # Null /\ using[t] \notin freed[at[t]]

\* An event that the levels of the loggers let through goes to all consoles: each
\* prints it once, in their order, exactly when it allows its level, whatever setLevel
\* does to the loggers and to the other consoles meanwhile; only the consoles can have
\* it printed in part (the levels compared by Logger::log before its loop, and by
\* StdoutLogAppender::log in it).
Prints(t, k) == \E j \in DOMAIN printed[t] : printed[t][j] = k

PrintedByLevels ==
    \A t \in Thread :
        /\ \A i, j \in DOMAIN printed[t] : i < j => printed[t][i] < printed[t][j]
        /\ pc[t] \in {"console", "install", "use", "format"} =>
               /\ \A k \in 1 .. N : Prints(t, k) => k < at[t]
               /\ \A k \in 1 .. at[t] - 1 :
                      k \notin meanwhile[t] => (Prints(t, k) <=> level[t] >= ap_level[k])
        /\ pc[t] = "idle" => at[t] \in {1, N + 1}

\* A statement takes at most 4N + 4 steps, whatever other threads and setLevel do
\* meanwhile: each of its own leaves fewer to come, and no step of anybody else
\* leaves more (nothing of the macros or Logger::log is repeated or waited for).
StepsLeft(t) ==
    CASE pc[t] = "idle"    -> 0
      [] pc[t] = "macro"   -> 4 * N + 4
      [] pc[t] = "event"   -> 4 * N + (IF logger[t] = Root THEN 2 ELSE 3)
      [] pc[t] = "console" -> 4 * (N + 1 - at[t]) + 1
      [] pc[t] = "install" -> 4 * (N + 1 - at[t])
      [] pc[t] = "use"     -> 4 * (N + 1 - at[t]) - 1
      [] pc[t] = "format"  -> 4 * (N + 1 - at[t]) - 2

BoundedSteps ==
    [][\A t \in Thread : pc[t] # "idle" =>
           IF Step(t) THEN StepsLeft(t)' \in 0 .. StepsLeft(t) - 1
           ELSE StepsLeft(t)' = StepsLeft(t)]_vars

\* Every logging statement returns, for nothing in it waits.
StatementReturns == \A t \in Thread : pc[t] # "idle" ~> pc[t] = "idle"
=============================================================================
