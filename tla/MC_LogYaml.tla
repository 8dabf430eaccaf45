----------------------------- MODULE MC_LogYaml -----------------------------
(* Documents of up to two nodes for root and system, with the entries of       *)
(* bin/conf/log.yml (a type that does not exist, a file, the console), a file  *)
(* entry without its file, a node without a name and two nodes with one name,  *)
(* and with keys that hold no text, those that are never read among them;      *)
(* beside them, the containers of MC_LexicalCast: the program has the key logs *)
(* or one of a container, for the two meet in no code but fromString.          *)
EXTENDS LogYaml, MC_LexicalCast

CONSTANTS root, system, dflt, plain, f1

MCName == {root, system}
MCGood == {dflt, plain}
MCFile == {f1}

MCEntry(type, file, level) ==
    [type |-> type, file |-> file, level |-> level, formatter |-> Absent]

MCEntries ==
    {<<>>,
     <<MCEntry("StdoutLogAppender", NonText, NonText)>>,
     <<MCEntry("StdoutLogAppender", Absent, Absent), MCEntry(NonText, Absent, Absent)>>,
     <<MCEntry("FileLogAppender", NonText, Absent)>>,
     <<MCEntry("FdfggsileLogAppender", NonText, Absent),
       MCEntry("StdoutLogAppender", Absent, "error")>>,
     <<MCEntry("FileLogAppender", f1, Absent),
       [MCEntry("FileLogAppender", Absent, Absent) EXCEPT !.formatter = NonText],
       MCEntry("StdoutLogAppender", Absent, Absent)>>}

MCNode(name, level, formatter, entries) ==
    [name |-> name, level |-> level, formatter |-> formatter, appenders |-> entries]

MCNodes(name) ==
    {MCNode(name, level, Absent, entries) :
        level \in {"info", "Info"}, entries \in MCEntries}
    \cup {MCNode(name, Absent, plain, <<>>)}

MCNameless == MCNode(Absent, "WARN", Absent, <<>>)
MCBadLevel == MCNode(system, NonText, Absent, <<>>)

MCDocument ==
    {<<>>} \cup {<<node>> : node \in MCNodes(root) \cup MCNodes(system)}
    \cup {<<MCNode(root, "WARN", plain, <<>>), node>> :
             node \in MCNodes(system) \cup {MCNameless, MCBadLevel}}
    \cup {<<node, MCNode(system, "FATAL", Absent, <<>>)>> : node \in MCNodes(system)}

\* What the documents of a behaviour are about.
VARIABLE key

MCInit ==
    /\ InitYaml /\ InitVar
    /\ key \in {"logs", "var"}
    /\ key = "logs" => var.type = Int32

MCNext ==
    \/ key = "logs" /\ NextYaml /\ UNCHANGED <<var, key>>
    \/ key = "var" /\ NextVar /\ UNCHANGED <<varsYaml, key>>

MCSpec == MCInit /\ [][MCNext]_<<varsYaml, var, key>>

MCConfig == {ReadLogs(doc) : doc \in {d \in MCDocument : Converts(d)}}

=============================================================================
