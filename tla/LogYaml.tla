------------------------------ MODULE LogYaml -------------------------------
(***************************************************************************)
(* From a YAML document to the loggers in force: LexicalCast between text  *)
(* and std::set<LogDefine>, in both directions, and Config::LoadFromYaml   *)
(* for the key "logs", on top of the listener and the loggers of LogConf.  *)
(*                                                                         *)
(* A document is the sequence of its logger nodes.  A key that a node      *)
(* lacks is Absent, and one that holds a sequence or a map is NonText:     *)
(* as<std::string>() throws for it.  To the code are the same:             *)
(*   - no appenders, and an empty sequence of them or a text in its place; *)
(*   - a logger node that is no map, and one without a name;               *)
(*   - an entry that is null or a sequence, and one without a type;        *)
(*   - an entry that is a text (a["type"] throws), and one whose type is   *)
(*     NonText.                                                            *)
(***************************************************************************)
EXTENDS LogConf, SequencesExt

CONSTANTS
    Absent,    \* a key the YAML node does not have
    NonText,   \* a key that holds no scalar
    Document   \* the documents the program loads

VARIABLE
    loaded     \* history: the last document that was converted

varsYaml == <<m_loggers, logs, loaded>>

Given(key, default) == IF key = Absent THEN default ELSE key

-----------------------------------------------------------------------------
\* Reading: LexicalCast<std::string, LogDefine>.  An entry of "appenders" without
\* a known type, or a file appender without a file, is skipped, whatever its other
\* keys are.  The level of an appender is not read, nor the file of a console.
IsAppender(a) ==
    \/ a.type = "StdoutLogAppender"
    \/ a.type = "FileLogAppender" /\ a.file # Absent

\* as<std::string>() of a key the loop gets to.
Throws(a) ==
    \/ a.type = NonText
    \/ a.type = "StdoutLogAppender" /\ a.formatter = NonText
    \/ a.type = "FileLogAppender" /\ a.file # Absent /\ NonText \in {a.file, a.formatter}

ReadAppender(a) ==
    [type      |-> IF a.type = "FileLogAppender" THEN FileType ELSE StdoutType,
     level     |-> UNKNOW,
     formatter |-> Given(a.formatter, ""),
     file      |-> IF a.type = "FileLogAppender" THEN a.file ELSE ""]

ReadAppenders_UpToBad(entries) ==
    LET bad == {k \in DOMAIN entries : ~IsAppender(entries[k])}
        end == IF bad = {} THEN Len(entries) ELSE Min(bad) - 1
    IN  [k \in 1 .. end |-> ReadAppender(entries[k])]

\* The loop over the entries.
ReadAppenders(entries) ==
    LET read[k \in 0 .. Len(entries)] ==
            IF k = 0 THEN <<>>
            ELSE IF IsAppender(entries[k]) THEN Append(read[k - 1], ReadAppender(entries[k]))
            ELSE read[k - 1]
    IN  read[Len(entries)]

ReadDefine(node) ==
    [level     |-> LevelFromString(Given(node.level, "")),
     formatter |-> Given(node.formatter, ""),
     appenders |-> ReadAppenders(node.appenders)]

\* LexicalCast<std::string, std::set<T>>: where one logger throws nothing is
\* converted; of several with one name, std::set::insert keeps the first.
Converts(doc) ==
    \A k \in DOMAIN doc :
        /\ doc[k].name # Absent
        /\ NonText \notin {doc[k].name, doc[k].level, doc[k].formatter}
        /\ \A i \in DOMAIN doc[k].appenders : ~Throws(doc[k].appenders[i])

FirstNode(doc, n) == doc[Min({k \in DOMAIN doc : doc[k].name = n})]

ReadLogs(doc) == [n \in {doc[k].name : k \in DOMAIN doc} |-> ReadDefine(FirstNode(doc, n))]

EntrySet ==
    [type : {Absent, NonText} \cup STRING, level : {Absent, NonText} \cup STRING,
     formatter : {Absent, NonText} \cup Pattern, file : {Absent, NonText} \cup File]

NodeSet ==
    [name : {Absent, NonText} \cup Name, level : {Absent, NonText} \cup STRING,
     formatter : {Absent, NonText} \cup Pattern, appenders : Seq(EntrySet)]

\* Config has the values of the documents that convert.
ASSUME YamlAssumption ==
    /\ Absent # NonText
    /\ {Absent, NonText} \cap (Name \cup Pattern \cup File) = {}
    /\ {Absent, NonText} \cap {"", "FileLogAppender", "StdoutLogAppender"} = {}
    /\ \A level \in Level : LevelToString(level) \notin {Absent, NonText}
    /\ Document \subseteq Seq(NodeSet)
    /\ \A doc \in Document : Converts(doc) => ReadLogs(doc) \in Config

-----------------------------------------------------------------------------
\* Writing: LexicalCast<LogDefine, std::string> leaves out the keys that hold the
\* default; the level of an appender is written.
WriteLevel(level) == IF level = UNKNOW THEN Absent ELSE LevelToString(level)

WriteText(text) == IF text = "" THEN Absent ELSE text

WriteAppender(a) ==
    [type      |-> IF a.type = FileType THEN "FileLogAppender" ELSE "StdoutLogAppender",
     level     |-> WriteLevel(a.level),
     formatter |-> WriteText(a.formatter),
     file      |-> IF a.type = FileType THEN a.file ELSE Absent]

WriteDefine_NoFormatter(n, def) ==
    [name |-> n, level |-> WriteLevel(def.level), formatter |-> Absent,
     appenders |-> [k \in DOMAIN def.appenders |-> WriteAppender(def.appenders[k])]]

WriteDefine(n, def) ==
    [name |-> n, level |-> WriteLevel(def.level), formatter |-> WriteText(def.formatter),
     appenders |-> [k \in DOMAIN def.appenders |-> WriteAppender(def.appenders[k])]]

\* LexicalCast<std::set<T>, std::string>, in the order of the set.
WriteLogs(value) ==
    LET names == SetToSeq(DOMAIN value)
    IN  [k \in DOMAIN names |-> WriteDefine(names[k], value[names[k]])]

\* LoggerManager::toYamlString: the loggers there are, configured or not.  The
\* formatter of an appender is left out, for its m_hasFormatter is never set; the
\* level is written even when it is UNKNOW.
DumpAppender_NoFile(a) ==
    [type      |-> IF a.type = FileType THEN "FileLogAppender" ELSE "StdoutLogAppender",
     level     |-> LevelToString(a.m_level),
     formatter |-> Absent,
     file      |-> Absent]

DumpAppender(a) ==
    [type      |-> IF a.type = FileType THEN "FileLogAppender" ELSE "StdoutLogAppender",
     level     |-> LevelToString(a.m_level),
     formatter |-> Absent,
     file      |-> IF a.type = FileType THEN a.file ELSE Absent]

DumpLogger(n, lg) ==
    [name |-> n, level |-> LevelToString(lg.m_level), formatter |-> lg.m_formatter,
     appenders |-> [k \in DOMAIN lg.m_appenders |-> DumpAppender(lg.m_appenders[k])]]

Dump ==
    LET names == SetToSeq(DOMAIN m_loggers)
    IN  [k \in DOMAIN names |-> DumpLogger(names[k], m_loggers[names[k]])]

-----------------------------------------------------------------------------
InitYaml == Init /\ loaded = <<>>

\* The value goes to setValue, which does nothing when it is equal (==).
Apply_Assigns(value) ==
    \/ LogsEq(value, logs) /\ logs' = value /\ UNCHANGED m_loggers
    \/ SetLogs(value)

Apply(value) ==
    \/ LogsEq(value, logs) /\ UNCHANGED <<m_loggers, logs>>
    \/ SetLogs(value)

\* ConfigVar::fromString for the node of the key "logs": what the conversion
\* throws is caught and logged to root.
LoadLogs(doc) ==
    IF Converts(doc)
    THEN Apply(ReadLogs(doc)) /\ loaded' = doc
    ELSE /\ m_loggers' = [m_loggers EXCEPT ![Root] = LoggerLog(@, ERROR)]
         /\ UNCHANGED <<logs, loaded>>

NextYaml ==
    \/ \E doc \in Document : LoadLogs(doc)
    \/ (\E n \in Name : GetLogger(n)) /\ UNCHANGED loaded
    \/ (\E n \in Name, level \in DEBUG .. FATAL : Log(n, level)) /\ UNCHANGED loaded

SpecYaml == InitYaml /\ [][NextYaml]_varsYaml

-----------------------------------------------------------------------------
\* What is in force is the last document that converted: each logger it names
\* logs at the level it gives (a document that does not convert changes nothing,
\* one that converts to an equal value already is in force).
LoadedLevelsInForce ==
    \A k \in DOMAIN loaded :
        LET n == loaded[k].name
        IN  m_loggers[n].m_level = ReadDefine(FirstNode(loaded, n)).level

\* The configured loggers are those of the last document that converted: one that
\* a later document leaves out is configured no more, and a document that does
\* not convert configures nothing.
OnlyLoadedAreConfigured == DOMAIN logs = {loaded[k].name : k \in DOMAIN loaded}

\* What is written of a value that was loaded converts, and reads back as that value,
\* also when the document had entries that were skipped.
RoundTrip == Converts(WriteLogs(logs)) /\ ReadLogs(WriteLogs(logs)) = logs

\* In a document that converts, an entry that is skipped is dropped alone: each
\* appender entry is read as if the others were not there, and their order is kept.
\* (An entry that throws takes the whole document with it.)
EntriesIndependent ==
    \A k \in DOMAIN loaded :
        LET entries == loaded[k].appenders
        IN  ReadAppenders(entries) =
                FlattenSeq([i \in DOMAIN entries |-> ReadAppenders(<<entries[i]>>)])

\* The dump of the loggers (LoggerManager::toYamlString) is a document of "logs": it
\* reads back with the level and the formatter of each logger, and with each of its
\* appenders, by type, file and order, at any moment between reloads.
DumpReadsBack ==
    LET read == ReadLogs(Dump)
    IN  /\ Converts(Dump) /\ DOMAIN read = DOMAIN m_loggers
        /\ \A n \in DOMAIN read :
              LET lg == m_loggers[n]
              IN  /\ read[n].level = lg.m_level /\ read[n].formatter = lg.m_formatter
                  /\ Len(read[n].appenders) = Len(lg.m_appenders)
                  /\ \A k \in DOMAIN lg.m_appenders :
                        /\ read[n].appenders[k].type = lg.m_appenders[k].type
                        /\ read[n].appenders[k].file = lg.m_appenders[k].file

\* Loading through YAML does to the loggers nothing but what setting a value does.
ImplementsLogConf == Spec

\* An appender logs at the level its entry gives.  The code does not keep it:
\* the key "level" of an appender is never read.
AppenderLevelsInForce ==
    \A k \in DOMAIN loaded :
        LET n == loaded[k].name
            entries == SelectSeq(FirstNode(loaded, n).appenders, IsAppender)
        IN  \A i \in DOMAIN m_loggers[n].m_appenders :
                i \in DOMAIN entries /\ entries[i].level # Absent =>
                    m_loggers[n].m_appenders[i].m_level = LevelFromString(entries[i].level)

=============================================================================
