# Formal model of the sylar logging, configuration and thread library

The repository is a small C++ server base library (`src/sylar/`): a logging
module in the style of log4j, a configuration module that reads YAML and calls
listeners when a variable changes, the code that joins the two so that loggers
are set up and reloaded from a file, and a wrapper of POSIX threads.  This
directory holds TLA+ models of it, the TLC configurations that check them on
small instances, and proofs checked by TLAPS.

## 1. Inventory

| Part | State it keeps | Operations | Made correct by |
|---|---|---|---|
| `LogLevel` (log.h, log.cc) | – | `ToString`, `FromString` | total conversions, text that is no level is `UNKNOW` |
| `LogEvent`, `LogEventWrap`, macros (log.h, log.cc) | one event; the wrap logs it when it is destroyed | level test in the macro, `format`, `getSS` | each event that passes the test is logged once |
| `LogFormatter` (log.cc 495-690) | `m_pattern`, `m_items`, `m_error` | `init`, `format` | the items are those of the pattern's grammar, `isError` tells a bad pattern |
| `LogAppender`, `StdoutLogAppender`, `FileLogAppender` (log.h 345-463, log.cc 404-470) | level, formatter, stream | `log`, `setFormatter`, `setLevel`, `reopen` | an event is written when its level allows, with a formatter |
| `Logger` (log.h 381-432, log.cc 296-399) | level, formatter, list of appenders, pointer to root | `log`, `addAppender`, `delAppender`, `cleanAppenders`, `setFormatter`, `setLevel` | without appenders an event goes to root; appenders have a formatter unless they are given none |
| `LoggerManager` (log.cc 692-715, 962-973) | map from name to logger, root | `getLogger`, `toYamlString` | one logger per name, root exists |
| `LogDefine`, `LogIniter`, `g_log_defines` (log.cc 718-957) | the value of the variable `logs` | the listener; conversions from and to YAML | the loggers are those of the configuration after any sequence of reloads |
| `ConfigVar<T>` (config.h 294-405) | `m_val`, the map of listeners | `setValue`, `fromString`, `toString`, `addListener`, `delListener`, `cleanListener` | listeners hear of every change, before it, in the order of their keys |
| `Config` (config.h 407-470, config.cc) | registry of variables | `Lookup`, `LookupBase`, `LoadFromYaml` | a name has one variable of one type; a load overwrites agreed items only |
| `LexicalCast` (config.h 22-292) | – | text to value and back for containers | what is written reads back |
| `Thread` (thread.h, thread.cc) | id, handle, callback, name; two thread-local variables | constructor, `run`, `join`, destructor, `SetName` | a thread is reaped once; `run` uses a `Thread` that exists |
| `util`, `Singleton` | – | system calls; a function-local static | – |

**Interactions.** `Config::LoadFromYaml` converts the node of each known key and
calls `ConfigVar::fromString`, which calls `setValue`, which calls the listeners
and then stores the value.  The listener `LogIniter` registers on `logs` logs a
line through root, then calls `LoggerManager::getLogger` and the setters of
loggers and appenders.  `Logger::log` calls the appenders or root's `log`.  Every
module logs its own errors through root or `system`.

**Hard behaviour.** Long sequences of reloads that add, change, skip and remove
loggers; equality deciding whether a reload does anything; partly bad documents;
listeners that register, remove, throw or set the variable again while `setValue`
iterates its map; appenders shared between loggers; threads that log, or are
destroyed, while other threads use the same objects, without any lock; streams
that fail; pattern corner cases.  `PROJECT.json` lists them under `hazards` with
their lines.

## 2. Modules

| Module | Models | Theorems |
|---|---|---|
| `LogLevel` | the severities and their conversions | |
| `LogDefine` | `LogAppenderDefine`, `LogDefine`, `std::set<LogDefine>` and their equality | |
| `LogConf` (extends `LogDefine`) | the variable `logs`, the listener, the loggers and appenders it makes, `getLogger`, `log` | `LogConf_proofs` |
| `LogYaml` (extends `LogConf`) | documents, the conversions of `logs`, loads | `LogConf_proofs` |
| `ConfigVar` | one variable, nested `setValue` calls, what listeners do | `ConfigVar_proofs` |
| `Config` | the registry: `Lookup`, `ListAllMember`, `LoadFromYaml` entry by entry, changes and lookups of listeners in the middle of them, conversion to int and vector | `Config_proofs` |
| `Thread` | one owner and the threads it makes: constructor, `run`, `join`, destructor, `SetName` | `Thread_proofs` |
| `LogFormatter` | the constructor's scan of a pattern symbol by symbol, the items it builds, what each prints | `LogFormatter_proofs` |
| `FileLogAppender` | the stream of one file appender: constructor, `log`, `reopen`, destructor, the buffer, failing writes, a killed process | `FileLogAppender_proofs` |
| `Logging` | threads that log through the macros at the same time while levels change | `Logging_proofs` |
| `Logger` | loggers set up by hand: shared appenders, formatters given and inherited, null ones and bad ones, loggers outside the manager | `Logger_proofs` |
| `LexicalCast` | a variable of container type: the conversions, nested in one another, and `fromString` | `LogConf_proofs` |
| `JoinHandle` | what `Thread` promises: a callback runs once, a join comes after it, a handle is given up once | |
| `MC_*` | values of the constants for TLC, one module for each of the others | |

### LogConf

`m_loggers` is `LoggerManager::m_loggers`, from name to a record of a logger's
level, formatter and list of appenders; `logs` is the value of `g_log_defines`.
`std::set<LogDefine>` is ordered by name, so a value is a function from names to
definitions.  A formatter is its pattern, and patterns are split into those
`LogFormatter::init` accepts (`GoodPattern`) and those for which it reports an
error (`BadPattern`).  The program sets up its loggers from configuration only,
as `test_log` in `tests/test_config.cc` does; an appender then belongs to one
logger and is a value.

| Action | Code |
|---|---|
| `SetLogs(value)` | `setValue` (config.h 363-374), with the whole listener (log.cc 880-956): the line it logs to root, each new or changed name, each removed name |
| `GetLogger(n)` | `LoggerManager::getLogger` for a new name |
| `Log(n, level)` | `Logger::log` with the fall back to root; its only lasting effect is the formatter that `StdoutLogAppender::log` installs when it has none |

`Init` is the program after static initialisation: root with its two consoles,
`logs` empty.

### LogYaml

A document is the sequence of its logger nodes with optional keys.  `ReadLogs`
and `WriteLogs` are the two `LexicalCast`s; `LoadLogs` is `fromString`: a document
that throws changes nothing, one whose value is equal to
the present one changes nothing, any other is `SetLogs`.  A failing load logs its
error through root.  The history variable `loaded` is the last document that
converted.  `Dump` is `LoggerManager::toYamlString`, a document of the same form;
`DumpReadsBack` reads it with the same conversion.  `ImplementsLogConf` checks that this system is a refinement of
`LogConf!Spec` under the identity mapping, so the theorems about `LogConf` hold of
loads too.

A bad entry of `appenders` has one of two ends, and `EntriesIndependent` is about the
first only.  It is skipped, alone, when its type is missing or unknown or its file is
missing (`IsAppender`).  It throws, and the whole document is lost with it, when it is
a text (`a["type"]`, log.cc 781) or when a key the code reads holds a sequence or a
map (`Throws`; `NonText` marks such a key): the type, then the file and the formatter
of a known type.  So do a logger without a name and one whose name, level or formatter
is no text (`Converts`).  The header of the module lists the shapes the code treats
alike, which are one value here.

### ConfigVar

`calls` is the stack of `setValue` calls in progress; in each, `at` is the key of
the node the loop's iterator is on, and `lost` tells that this node was erased.  A
listener may do anything named in `moves`, which never changes; the program acts with
the same operations between calls.  `delListener` and `cleanListener` erase whatever
they are asked to, as in the code.  `Return` is split as there: there is a next
element, in the map as it is then, and it is called; or there is none and the value is
stored; or the node is gone, which is undefined, and the model stops (`Stray`,
`wild`).  `Throw` unwinds to the innermost `fromString`.  `kept`, `told` and `news` are
history: who was registered all along, who was called with which old value, and the
last value each listener was given.

`LoopKeepsPlace` says when that end is out of reach: listeners may remove all others,
before and behind the one that runs, but not themselves, and may not set the variable.
Neither condition can be dropped (finding 14).  `cleanListener` removes the listener
that calls it too.

### Config

`s_datas` maps a name to an object; `objects` are the `ConfigVar`s ever made, in
order, so that a place in it is what a client's `shared_ptr` is.  A name is a
sequence of symbols (dot, letters or runs of letters), legal or not, with their
lower case.  A document is a tree of nodes, `ListAllMember` a recursive function
over it, as in the code; the recursion is a function and not a RECURSIVE operator
so that the module can be proved about.  `todo` is what is left of `all_nodes`:
`LoadFromYaml` fills it and each `LoadEntry` is one turn of the loop, up to the first
listener when the value differs: `change` is that call of `setValue`.  While it is
there listeners run and may call `Lookup`; `Store` ends it, or an exception does
(`Throws`): an illegal name in a lookup throws, `setValue` does not get to its store,
and `fromString` catches, so the load goes on with the next entry.  `stopped` is
history, the objects that were left without their new value in this way.  What else
listeners do is the subject of `ConfigVar`.

`LoadsWhatIsSpelled` compares a load with a definition that goes the other way:
not from the document down to names, but from a registered name, along its dots,
to the nodes it spells.  `loaded` and `before` are history for it.  It leaves out the
variables one of whose own listeners threw (`stopped`), and
two shapes of a name that dots cannot tell: the empty name, which a load skips, and
documents with an empty key at the root, which `ListAllMember` joins to the names
below it without a dot.

### Thread and JoinHandle

`object` tells whether a `Thread` object exists, `m_thread` and `m_id` whether
the member is set, `pthread` what the system holds of the thread.  The thread's
`run` is one action per access of the object: `ReadName`, `StoreId`, `Label`,
`TakeCallback`, then the callback, which ends in `Return` and may call `SetName`.
A callback does not join its own `Thread` (`pthread_join` would refuse).
The owner is the main thread: `Construct` (which may fail in `pthread_create`,
and then throws), `Join` up to `pthread_join` and `Joined` when that returns,
`Destroy`, `SetName`.  While it is in `pthread_join` it does nothing else.

The destructor does not wait, so the code leaves it to the owner when an object may be
destroyed.  `Joining` are the objects the owner joins first, as `tests/test_thread.cc`
does with all; the others it destroys whenever it likes.  A thread that then uses its
object is in the position `wild`; what the program does from there on is undefined and
the model stops.  `ObjectOutlivesUse` is about the objects in `Joining`, and says that
`join` is enough; all other properties hold of both kinds.

`JoinHandle` has two variables per thread, the callback's progress and the
handle.  In the mapping the positions of `run` before its end are "running", and
`pthread` is the handle, so a second reaping, or a join before the callback ended,
is a step `JoinHandle` does not have.

### LogFormatter

A pattern is a sequence of symbols: letters (`isalpha`), others, `%` and the two
braces.  Each action but the last three is one turn of the loop over the pattern:
`AppendText`, `AppendPercent` (the branch commented as the escape of `%`),
`PushItem` and `PushPatternError`.  The inner loop, which finds where a name and
its format end, is stated by what it finds (`NameEnds`, `Opens`, `Closes`).
`EndScan` pushes the last text, `Build` is one turn of the loop over `vec`.
`Output` is `format()`, for an event that is a record of its fields.

`ErrorIsMisspelt` says what `isError()` means without the scan, from the pattern
alone; `Logger::setFormatter` and the listener refuse patterns by it.  It is
about patterns in which each `{` belongs to a format that ends and no `%` is escaped:
for the others see findings 5 and 6.  `NothingLost` leaves out patterns with an empty
format, which is spelled like none, or with one without its end, for which the code
puts an error text before the text that is pending.
`LogFormatter::setFormatter` (log.cc 495) is never called and sets members nobody
reads.

### FileLogAppender

`is_open` and `failed` are the two states of the `std::ofstream` that the code
takes for one.  The library may write the buffer at any event, or not; a write may
fail, and `broken` remembers that one has since the file was opened.  `logged` is
history: what `log` accepted since the file was opened last.  `Kill` is the end of the process without destructors, `PathChanges`
a directory that appears or goes.

### Logging

`pc` is where each thread is in its logging statement: `Begin` (the macro's first use
of its logger), `Wrap` or `Skip` (its test), `Log`, `Pass` or `Drop` (`Logger::log`,
with its test, at a logger with appenders, at one without, or with a level that is too
low by now), then for each console `Refuse`, or `Test`, `Install`, `Use` and `Output`
(`StdoutLogAppender::log`, split where another thread may change `m_formatter` or a
level), and `Return`.  `SetLevel` and `SetAppenderLevel` may happen at any time.  A
formatter is who made it, so that one that was destroyed is told from its successor.
`meanwhile` is history: the consoles whose level was set after they compared it.

Threads share what was made before they started.  A program that changes the list of
appenders, or looks up a logger that is not there yet, while other threads log is left
out: it iterates a `std::list`, or searches a `std::map`, that changes under it, which
has no defined outcome.  (The macro names its logger twice, so `SYLAR_LOG_NAME` looks it
up twice; of a logger that is registered both find the same.)

`Opener` is the set of threads that may begin a statement while some console is
without a formatter (`Cold`).  It restricts the program that uses the library, not the
library; `logging_first` shows that it is needed.

### Logger

Appenders are objects here, so that two loggers may share one.  Loggers are those
of the manager (`Managed`) and those made as `new Logger()` (`Free`, as in
`tests/test.cc`), which are named "root", have a console of their own and no
`m_root`.  `home` is history: the one logger an appender has been with, unless it
moved or was given a formatter of its own.  `output` is the last event and the
entries of the list that printed it.

Both overloads of `Logger::setFormatter` are there: `SetFormatterText` refuses a
pattern in error, `SetFormatter` takes any pointer, null or to a formatter in error,
and so does `SetAppenderFormatter`.  `nulls` is history: who was given a null one.  A
console installs a formatter when it has none; a file appender is called through the
null pointer, which ends the program (`LogCrashes`).

### LexicalCast

A text is the YAML node it loads to, for every conversion loads its text or emits
a node.  A node that was given nothing is null and is emitted as `~`: so are empty
containers.  A type is the sequence of its containers, the
innermost first, around `int`, the empty one.  Its two specialisations are a record
of functions: `read`, whose domain are the nodes that convert, and `write`, which
gives the texts that may be written of a value, in all the orders of a set or a map.
`ReadVector` to `WriteMap` make these of the conversions of the elements, one for
each of the twelve specialisations; where two have the same code one is the other.
`Cast` goes along the type from `int` outwards.  A map is the set of its pairs.
`Nodes` are the nodes nested no deeper than `Nesting`, with empty sequences, which
only a text can have.  `var` is a variable of one of the types; `FromString` loads a text that converts, `FromStringThrows` one
that does not.  `MC_LogYaml` checks it beside `LogYaml`: the documents of a behaviour
are about the key `logs` or about such a variable (`key`), for listeners, which
`ConfigVar` models, are all that could connect the two.

## 3. Runs

| Run | Shows | Bounds |
|---|---|---|
| `logconf` | five invariants after any sequence of values of `logs`, events and lookups | 2 names (root and another: the two kinds the code distinguishes), 2 levels, no, a good and a bad pattern, 3 lists of appenders: 361 values, 4964 states |
| `logconf_appenders` | **fails as expected**: a reload that changes appenders only is lost | same |
| `logyaml` | the last document that converts is in force; skipped entries are dropped alone, those that throw take their document with them and nothing else; round trip; refinement of `LogConf`; what the loggers dump reads back; so does what is written of any container | 55 documents of up to two nodes: text that is no level, an unknown type, a file appender without file, a nameless node, two nodes of one name, types, files, formatters and levels that are no text, where they are read and where they are not.  Containers: 35 types (int, 6 containers of it, 28 containers of containers) nested two deep, and 610 texts of the right and the wrong kinds; 1335 states |
| `configvar` | all listeners hear a value before it is stored, whatever listeners do; the loop keeps its place where they remove only others and do not set; those that set nothing hear each change with its old value, end with the stored value, and `setValue` returns | 3 keys, 2 values, calls nested two deep; five programs: listeners that add and remove, that also throw, that also remove themselves, that set but do not remove themselves, that do everything; 470k states |
| `configvar_again` | **fails as expected**: a listener that sets the variable again misses a change | same |
| `config` | holders of a variable have the registered one; a load gives each variable whose listeners do not throw the last value its name spells that converts, and adds none; values keep their types | 3 legal names, one nested in another, and one in upper case, 2 types; 145 documents of two entries: nested, dotted, upper case, empty, scalar, sequence, bad element; 247k states |
| `thread` | objects that are joined first outlive their use; a callback knows its name and id; each thread reaped once; `join` returns; refinement of `JoinHandle` | an owner and 2 threads, the first joined before its object is destroyed, the second's destroyed at any time, 3 names; 2626 states |
| `logformatter` | the scan ends, each turn leaving fewer; nothing is lost or moved where formats end and are not empty; `isError` is what the pattern says where they end and no `%` is escaped | all patterns of up to 6 symbols over 6: a known and an unknown letter, a space, `%`, both braces; 566k states.  Six symbols hold an item with a format and a misspelt one after it, or a text, an item and a text |
| `filelogappender` | until a write fails the file is a prefix of what was logged, all of it once destroyed; `reopen` works | 4 events between two openings, of 2 kinds: buffer and file can both hold two, in either order; 3484 states |
| `logger` | each file appender on a list has a formatter unless the program gave a null one; appenders follow their logger; root writes for others | root and another logger that share a file, twice on a list if they like; 2 good patterns, a bad one and the null pointer; lists of up to 3; 1780k states |
| `logging` | each console prints an event exactly when it allows its level, whatever else is set; formatters in use exist; statements return, in at most 4N + 4 steps | 2 threads, 2 consoles, root and one other logger, 2 levels; one opener; 155k states |
| `logging_first` | **fails as expected**: two threads that log first destroy a formatter in use | two openers |

Other counterexamples are kept as configurations that TLC refutes in a second or
two, `tlc -config <cfg> <module>`; section 4 says what each shows:

| Configuration | Module | Refuted property |
|---|---|---|
| `LogYaml_levels.cfg` | `MC_LogYaml` | `AppenderLevelsInForce` |
| `ConfigVar_own.cfg` | `MC_ConfigVar` | `AlwaysKeepsPlace` |
| `ConfigVar_nested.cfg` | `MC_ConfigVar` | `KeepsPlaceNested` |
| `Config_case.cfg` | `MC_Config` | `LoadsAnyCase` |
| `LogFormatter_escape.cfg` | `MC_LogFormatter` | `EscapeMakesNoItem` |
| `LogFormatter_brace.cfg` | `MC_LogFormatter` | `PatternErrorIsError` |
| `LogFormatter_elapse.cfg` | `MC_LogFormatter` | `ElapsedPrinted` |
| `Logger_hasformatter.cfg` | `MC_Logger` | `OwnFormatterKept` |
| `Logger_own.cfg` | `MC_Logger` | `RootWrites`, with a `Free` logger |
| `Logger_twice.cfg` | `MC_Logger` | `OneConsoleByDefault` |
| `FileLogAppender_full.cfg` | `MC_FileLogAppender` | `ReopenRecovers` |
| `Logger_null.cfg` | `MC_Logger` | `NeverCrashes` |
| `Thread_early.cfg` | `MC_Thread` | `NeverWild` |

Two threads are enough to show one disturbing the other or being taken for it;
nothing in `Thread` counts threads.

The type invariants of `ConfigVar`, `Logger`, `Logging`, `LogFormatter`, `Thread` and
`FileLogAppender`, `BuiltInOrder` of `LogFormatter` and `JoinAwaitsThread` of `Thread`
are in no configuration: section 5 has them as theorems or lemmas.

Three keys give a listener below, at and above the running one, which is all the
loop distinguishes; two calls deep is the least at which one call's store can
overwrite another's.

Two entries are the least at which one can disturb, repeat or follow another.

A formatter is made once and an appender destroyed once, a program that calls through
a null pointer has ended (`Logger`), and the models of `Thread` and `ConfigVar` stop
where the code is undefined, so these do not check deadlock; all other systems can go
on for ever, and it is checked.

**Fairness.** `ConfigVar!Spec` assumes `WF(Return)`: a listener whose code runs
does return, or throws.  The loop of `setValue` then runs in the caller's thread
without waiting for anything.  It is used by `SetValueReturns`, which is checked
for listeners that do not call `setValue` themselves (such listeners can call each
other without end), up to the point where it is undefined, if it gets there.  `Thread!Spec` assumes, for each thread, `WF(Run(t))`, the
system schedules every thread and callbacks return, and `WF(Joined(t))`,
`pthread_join` returns once its thread has ended; `JoinReturns` uses both, for
behaviours in which no thread uses an object that is gone.  No
fairness is assumed of the owner, who need not join or destroy anything.
`LogFormatter!Spec` assumes `WF(Next)`: the constructor is sequential code.
`Logging!Spec` assumes `WF(Step(t))`, a thread in a statement is scheduled; nothing
is assumed of beginning one, nor of setting levels.

## 4. Findings

Each is named with the run, or the configuration, that shows it.

1. `LogDefine::operator==` ends with `appenders == appenders` (log.cc 740), the
   left operand with itself.  A reload that changes the appenders only is
   ignored (`logconf_appenders`).
2. The key `level` of an appender, which the work log documents (line 86) and
   the writer emits, is never read (`LogYaml_levels.cfg`); such appenders log at
   `UNKNOW`, that is everything.
3. A listener that sets its own variable is not told of the value the outer
   call then stores over its own (`configvar_again`).
4. Names are checked against the lower case letters before they are put in lower
   case, both in a lookup (config.h 445, 301) and in a load (config.cc 20, 48), so
   a name in upper case is refused and the conversion does nothing (`Config_case.cfg`).
5. The escape `%%` is not one: the second `%` begins an item (log.cc 533), so the
   pattern `%%` is in error; the comment of line 532 calls it the escape of `%`
   (`LogFormatter_escape.cfg`).
6. A format without its closing brace prints an error text but leaves `isError`
   false (log.cc 598), so the pattern is accepted (`LogFormatter_brace.cfg`).
7. `%r` prints the content of the event, not the time since the start (log.cc 170;
   `LogFormatter_elapse.cfg`).
8. `LogAppender::m_hasFormatter` is never set: the code that sets it is a member of
   `LogFormatter` (log.cc 495).  `Logger::setFormatter` therefore overwrites an
   appender's own formatter (`Logger_hasformatter.cfg`).
9. After a failed write, `reopen` neither closes nor opens the file, and fails for
   ever: `if (m_filestream)` is not `is_open()` (log.cc 419;
   `FileLogAppender_full.cfg`).
10. Two threads that log through root first both install a formatter in its first
    console, one of which is destroyed in use (log.cc 434; `logging_first`).
11. A file appender whose formatter is null, given so or handed on by
    `Logger::setFormatter(LogFormatter::ptr)`, is called through it (log.cc 408;
    `Logger_null.cfg`); a console in the same place installs one.
12. Root prints twice by default, as the work log knows (log.cc 301;
    `Logger_twice.cfg`).
13. A logger not made by the manager drops events when it has no appenders
    (log.cc 370; `Logger_own.cfg`).
14. `setValue` iterates the map its listeners may change: it goes on from an erased
    node when a listener removes itself (config.h 386, 397; `ConfigVar_own.cfg`), or
    sets the variable and another one then removes it in the inner call
    (`ConfigVar_nested.cfg`).
15. `Thread::~Thread` detaches a thread that may not have read its name yet and leaves
    it a pointer to the object that is gone (thread.cc 50; `Thread_early.cfg`).
16. One appender entry that is a text, or whose type, file or formatter is a sequence
    or a map, discards the whole document of `logs`, where an entry that is bad
    otherwise is skipped (log.cc 781-809); `Throws` of `LogYaml` is where it is modelled.

## 5. Proofs

`LogConf_proofs` proves, for all sets of names, patterns, files and values that
"logs" may be given (assumptions `PatternAssumption`, `ConfAssumption`), that
`Spec` implies each of the five invariants of the run `logconf`.

* `TypeCorrect` is inductive by itself.  It needs that a mapped sequence is a
  sequence (`MapIsSeq`) and one lemma per operator that makes loggers.
* `LevelsCorrect` and `FormattersCorrect` are inductive together with `TypeOK`.
  The argument is one case distinction: a name the listener handles (`Applied`)
  has what the definition says; for a name it skips (`Skipped`), the old and the
  new definition are equal in level and formatter, so the induction hypothesis
  carries over.  The same two lemmas show why appenders do not follow the
  configuration: `DefineEq` says nothing about them.
* `AppendersCorrect` uses that `DefineEq` is transitive, and that events do not
  disturb appenders made by the listener, which have a formatter (`BuiltIdle`).
* `UnconfiguredCorrect` needs the effect of an event on root's first console
  (`ConsolesLog`).

`LogConf_proofs` goes on with `LogYaml`, which extends the same module, for any
documents (assumption `YamlAssumption`: the marks of a key that is absent or holds no
text are no texts, the nodes of a document have the keys the code reads, and documents that convert give values
`LogConf` knows).  `YamlRefinement` is one lemma per action: a load is `SetLogs` of
the value read, a line through root, or nothing.  So all of the above holds of
loads.  `LoadedLevelsCorrect`, `OnlyLoadedCorrect`, `RoundTripCorrect`,
`DumpReadsBackCorrect` and `EntriesIndependentCorrect` rest on what the loop over the
entries of a node reads (`EntriesRead`), all of them when all are appenders, as in
what was written (`AllRead`), each as if alone (`EntriesJoined`); and on a document
made of a finite set of loggers being read node by node (`Listing`, `ReadEach`).  The
inductive invariant is `ValueOfDocument`, the value in
force equals the last one read up to `LogsEq`, which is what `setValue` compares
by, and `LoggersDumpable`: file appenders alone have files and loggers are finitely
many, without which the dump of a logger would not read back.

It ends with `LexicalCast`, for types and texts of any depth (assumption
`LexicalAssumption`: a number is written as a text that reads as that number).
`ContainersRoundTrip` holds of the value a variable has because `Sound` holds of the
conversions of its type: whatever is read is a value that can be written, and whatever
is written of any value is a node no deeper than the type, which reads as that value.
There is one lemma for each kind of container (`VectorSound`, `SetSound`,
`MapSound`, which need that an element is read as it would be alone, and that an order
of a finite set lists it) and an induction along the type (`TypesSound`).  `Nodes` and
`Cast` are recursive functions, shown to satisfy their recursion first (`NodesLevels`,
`CastsExist`).

`ConfigVar_proofs` proves, for all keys in Nat, values, depths and moves of the
listeners, `StoredAfterAllCorrect`, `HeardThisChangeCorrect`, `LastNewsCorrect` and
`LoopKeepsPlaceCorrect`; that the last three are only about programs whose listeners do
not set the variable is finding 3 and, for the last, finding 14.  The inductive
invariant is `InOrder`: in each call, the kept listeners up to the one that runs
have been called.  It gives the property when `Later(at)` is empty.  Without
nested calls `OneCall` adds that the old value everyone was told is the present
one.  `NewsInv`, for `LastNewsCorrect`, says what each listener was last told in the
middle of a call too: the new value up to the key that runs, the stored one above.
`InPlace` says that the one call in progress has not lost its node: what a listener
erases that does not remove itself is another node.

`Config_proofs` proves, for any symbols, requests and documents (assumption
`ConfigAssumption`), `TypeOK`, `HandlesStayLive`, `AgreedItemsOnly` and
`LoadsWhatIsSpelled`.  For the first three the inductive
invariant adds `LegalNames`: the names of the registry are legal.  A legal name is
its own lower case, so the name an object has is the one it is registered under;
without it two objects could share a name.

`LoadsCorrect` is in two halves.  `AllNodesAsSpelled` is about documents: what
`ListAllMember` lists under a name is, in order, what the name spells along its
dots.  Both are recursive functions, which mean what they say only once a function
is shown to satisfy the recursion; `TreeRecursion` shows it for any tree of finite
depth, and the assumption on `Depth` is that documents are such trees, as parsed
text is.  The induction is from the leaves (`EntryInduction`), with lemmas on how
joined lists are searched (`GatherLists`, `FoundListed`) and how a name splits at a
prefix (`SpelledBelowPrefix`); names that are not legal spell nothing
(`IllegalSpellsNothing`).  The other half is the loop: `LoadInv` says that the
entries done and those left are the document's, and that each variable there at the
beginning, unless a listener of its own threw, is what the entries done made of it, or
is about to be (`ReadSoFar`).  `Named`, that the
object registered for a name has that name, is needed for the variables an entry
must not disturb.

`Thread_proofs` proves, for any number of threads and names and any choice of the
objects joined first (assumption `ThreadAssumption`), `TypeOK`, the three invariants of the run,
`JoinAwaitsThread` and the refinement of `JoinHandle`.  The inductive invariant is `Accounted`: an object
that exists has its handle set exactly while the thread is joinable, and an object
that is gone left a thread that is reaped and, if it was joined first, past its last use
of it; a join in progress is of an existing object with its handle set.  `ReapedOnce` alone is not
inductive: it does not say that a handle that is set belongs to a joinable thread,
which is what keeps `pthread_join` and `pthread_detach` defined.  `Refinement`
follows step by step: `Accounted` gives the guard of `JoinHandle!Join`.
`JoinAwaitsThread` is what can be proved of `JoinReturns`: a join never waits for a
thread that was not started, or is somebody else's.

`LogFormatter_proofs` proves, for every pattern of any length over any letters,
`TypeCorrect`, `BuiltInOrderCorrect`, `ErrorIsMisspeltCorrect`,
`NothingLostCorrect` and `EachTurnAdvancesCorrect`.  For `ErrorIsMisspelt`
the inductive invariant relates the entries found to the part of the pattern
scanned: an entry no formatter knows was pushed exactly when a `%` before the
position of the scan is not well spelled.  `NothingLost` is inductive with the
types; a step that pushes an entry spells exactly the symbols it passes
(`ItemSpelled`, `FlushedSpelled`).  `EachTurnAdvances` bounds the turns the
constructor has left (`TurnsLeft`): an item or an error ends behind its `%`
(`ItemAdvances`), and nothing is built before the scan has ended (`BuildInv`).  That
the turns are taken, which `ConstructorReturns` adds, is the fairness of the caller.

`FileLogAppender_proofs` proves for any events `TypeOK`, what the stream keeps
(`StreamCorrect`), `CompleteWhenDestroyed` and `ReopenWorks`.  The invariant `Complete` says that file and
buffer are what was logged, while the stream has not failed or no write has
(`~broken`); `FailedIsClosed`, that only a failed write leaves a stream both failed
and open.  That `reopen` needs `~broken` is finding 9.

`Logging_proofs` proves, for any number of threads, consoles, loggers and levels
(assumption `LoggingAssumption`), `PrintedByLevels` and `BoundedSteps`, and
`FormatterAlive` when there is at most one opener, which finding 10 shows to be
necessary.  `PrintedByLevels` is inductive once it says what a thread has printed before
its loop begins (`Fine`): nothing; a console that compares, refuses or prints adds
itself at the end of what was decided, and one whose level is set afterwards is in
`meanwhile`.  `FormatterAlive` needs that as long as a console has no formatter all
statements are of the opener, so that who has seen none is alone when it installs one
(`Undisturbed`).  `BoundedSteps` follows from the types: a statement takes at most
4N + 4 steps of its own with N consoles, and nobody else can lengthen it;
`StatementReturns` adds that the thread is run.

`Logger_proofs` proves, for any loggers, appenders and patterns (assumption
`LoggerAssumption`), `FilesCanFormat`, `FollowsLogger`, and `RootWrites`
when all loggers come from the manager (finding 13).  `FilesCanFormat` needs that a
logger whose formatter is null was given a null one (`LoggersGivenNull`), for it hands
it on to the appenders it is given later.  `FollowsLogger` alone is not
inductive: `Homes` adds that an appender with a home is on no other list, and that
a new one has no formatter yet; otherwise another logger's `setFormatter` could
reach it.

The provers have no induction over data that can be cited.  Where a theorem is
about what a recursive function computes (`ReadAppenders`, `FlattenSeq`,
`ListAllMember`, `Spelled`, `Nodes`, `Cast`) the proof modules derive the induction they need from
the least element of a set of naturals (`LeastNat`, `Induction`); as they extend
different components each has its own copy.

Only model-checked: `AppendersFollowConfig`, `HeardAnyChange` and the properties of
the table above, which fail; and the liveness properties `SetValueReturns`, `JoinReturns`,
`ConstructorReturns` and `StatementReturns`, which are beyond the prover.

## 6. Not modelled

* YAML syntax, `boost::lexical_cast`, `vasprintf`, `strftime` and streams as such:
  libraries, of which only what the code relies on is modelled.  In `LexicalCast`
  elements of type `std::string` are left out: whether a text reads back as itself
  depends on how YAML quotes it.
* Lists of appenders, file streams, configuration variables and `m_loggers` used by
  several threads without a lock, one of which changes them: a data race on a
  `std::list`, an `ofstream` or a `std::map` has no set of outcomes to choose from.  No
  program of the repository does it.
* Keys of a YAML node whose value is null (`file: ~`): whether `as<std::string>()`
  throws for them depends on the version of yaml-cpp.
* Exceptions of listeners that are no `std::exception`, which `fromString` does not
  catch.
* Two file appenders with one path, each with its own position in the file.
* `util` and `Singleton`, which have no behaviour of their own, and the test
  programs, which are clients; the order of their calls is what `Init` and
  `Joining` in `Thread`, the five threads of `Logging` and the loggers of
  `Logger` come from.

What could be added next: `LogConf` as an abstraction of `Logger`, for programs
that configure their loggers only from files; `Logging` with file appenders, each
statement of which ends in one `FileLogAppender!Log`.
