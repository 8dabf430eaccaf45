----------------------------- MODULE MC_LogConf -----------------------------
(* Two loggers, root and system, as in bin/conf/log.yml; every value of "logs" *)
(* over a few definitions of each, the empty set included.                     *)
EXTENDS LogConf

CONSTANTS root, system, dflt, plain, short, broken, f1

MCName    == {root, system}
MCGood    == {dflt, plain, short}
MCBad     == {broken}
MCFile    == {f1}

MCAppender(type, formatter) ==
    [type |-> type, level |-> UNKNOW, formatter |-> formatter,
     file |-> IF type = FileType THEN f1 ELSE ""]

MCAppenders ==
    {<<>>, <<MCAppender(FileType, "")>>,
     <<MCAppender(StdoutType, short), MCAppender(FileType, broken)>>}

MCDefine ==
    [level : {UNKNOW, INFO}, formatter : {"", plain, broken}, appenders : MCAppenders]

MCConfig == UNION {[names -> MCDefine] : names \in SUBSET MCName}

=============================================================================
