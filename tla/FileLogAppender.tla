--------------------------- MODULE FileLogAppender ----------------------------
(***************************************************************************)
(* The stream of a FileLogAppender: events go through the buffer of a      *)
(* std::ofstream to a file that the constructor and reopen() truncate.     *)
(* "if (m_filestream)" asks whether an operation of the stream has failed, *)
(* not whether it is open; both are kept here, as the library keeps them.  *)
(*                                                                         *)
(* Nothing flushes the stream (std::endl goes to the string the formatter  *)
(* builds), so an event reaches the file when the buffer is full, when the *)
(* stream is closed, or never.                                             *)
(***************************************************************************)
EXTENDS Sequences, Integers

CONSTANTS
    Event,
    MaxEvents     \* bound of the runs: events logged since the file was opened

ASSUME StreamAssumption == MaxEvents \in Nat

VARIABLES
    usable,    \* whether the path can be opened for writing
    is_open,   \* the stream has the file open
    failed,    \* the stream's fail()
    buffer,    \* the events written to the stream that are not in the file
    file,      \* the content of the file
    broken,    \* history: has a write to the file failed since it was opened?
    logged,    \* the events accepted since the file was opened last
    returned,  \* what reopen() returned last
    state      \* "alive", then "destroyed" or, when the process dies, "killed"

stream == <<is_open, failed, buffer, file, broken>>
vars == <<usable, stream, logged, returned, state>>

\* The constructor: reopen() on a fresh stream, whose close() fails and is cleared
\* by an open that succeeds.  What the file held before is truncated.
Init ==
    /\ usable \in BOOLEAN
    /\ is_open = usable
    /\ failed = ~usable /\ returned = usable
    /\ buffer = <<>> /\ file = <<>> /\ logged = <<>>
    /\ broken = FALSE /\ state = "alive"

\* The buffer goes to the file, or only its first events do and the write fails (a
\* full disk).
Written(out) == file' = file \o out /\ UNCHANGED broken
PartlyWritten(out) ==
    (\E k \in 0 .. Len(out) - 1 : file' = file \o SubSeq(out, 1, k)) /\ broken' = TRUE

\* log(), for an event of a level the appender accepts: it stays in the buffer or
\* is written with it; a write that fails leaves the buffer as it was, and sets
\* badbit.  A failed stream ignores the event.
Log_DropBuffer(e) ==
    /\ state = "alive" /\ Len(logged) < MaxEvents
    /\ IF failed THEN UNCHANGED <<stream, logged>>
       ELSE /\ \/ buffer' = Append(buffer, e) /\ UNCHANGED <<file, failed, broken>>
               \/ file' = Append(file, e) /\ buffer' = <<>> /\ UNCHANGED <<failed, broken>>
               \/ PartlyWritten(Append(buffer, e)) /\ failed' = TRUE /\ UNCHANGED buffer
            /\ logged' = Append(logged, e)
            /\ UNCHANGED is_open
    /\ UNCHANGED <<usable, returned, state>>

Log(e) ==
    /\ state = "alive" /\ Len(logged) < MaxEvents
    /\ IF failed THEN UNCHANGED <<stream, logged>>
       ELSE /\ \/ buffer' = Append(buffer, e) /\ UNCHANGED <<file, failed, broken>>
               \/ Written(Append(buffer, e)) /\ buffer' = <<>> /\ UNCHANGED failed
               \/ PartlyWritten(Append(buffer, e)) /\ failed' = TRUE /\ UNCHANGED buffer
            /\ logged' = Append(logged, e)
            /\ UNCHANGED is_open
    /\ UNCHANGED <<usable, returned, state>>

\* open() of a closed stream succeeds.
Truncated ==
    /\ is_open' = TRUE /\ failed' = FALSE /\ broken' = FALSE
    /\ buffer' = <<>> /\ file' = <<>> /\ logged' = <<>>

\* reopen(): close() when nothing has failed yet, then open(), which fails when
\* the stream still has the file open and truncates the file otherwise.
Reopen_NoClose ==
    /\ state = "alive"
    /\ IF usable /\ ~is_open
       THEN Truncated
       ELSE failed' = TRUE /\ UNCHANGED <<is_open, buffer, file, broken, logged>>
    /\ returned' = ~failed'
    /\ UNCHANGED <<usable, state>>

Reopen ==
    /\ state = "alive"
    /\ IF failed /\ is_open
       THEN UNCHANGED <<stream, logged>>
       ELSE IF usable
       THEN Truncated
       ELSE /\ is_open' = FALSE /\ failed' = TRUE /\ buffer' = <<>> /\ UNCHANGED logged
            /\ Written(buffer) \/ PartlyWritten(buffer)
    /\ returned' = ~failed'
    /\ UNCHANGED <<usable, state>>

\* The destructor closes the stream, failed or not.
Destroy_NoFlush ==
    /\ state = "alive"
    /\ state' = "destroyed" /\ is_open' = FALSE
    /\ UNCHANGED <<usable, buffer, failed, file, broken, logged, returned>>

Destroy ==
    /\ state = "alive"
    /\ state' = "destroyed" /\ is_open' = FALSE /\ buffer' = <<>>
    /\ Written(buffer) \/ PartlyWritten(buffer)
    /\ UNCHANGED <<usable, failed, logged, returned>>

\* The environment: the path becomes usable or unusable, the process is killed.
PathChanges == state = "alive" /\ usable' = ~usable /\ UNCHANGED <<stream, logged, returned, state>>

Kill ==
    /\ state = "alive"
    /\ state' = "killed" /\ is_open' = FALSE /\ buffer' = <<>>
    /\ UNCHANGED <<usable, failed, file, broken, logged, returned>>

Next ==
    \/ \E e \in Event : Log(e)
    \/ Reopen \/ Destroy
    \/ PathChanges \/ Kill

Spec == Init /\ [][Next]_vars

-----------------------------------------------------------------------------
\* The types of the variables; nothing is buffered for a file that is not
\* open, and no file outlives its appender open.
TypeOK ==
    /\ usable \in BOOLEAN
    /\ is_open \in BOOLEAN
    /\ failed \in BOOLEAN
    /\ buffer \in Seq(Event)
    /\ file \in Seq(Event)
    /\ logged \in Seq(Event)
    /\ broken \in BOOLEAN /\ returned \in BOOLEAN
    /\ state \in {"alive", "destroyed", "killed"}
    /\ ~is_open => buffer = <<>> /\ (state = "alive" => failed)
    /\ state # "alive" => ~is_open

\* However the process ends, the file holds the first events logged since it was
\* opened, with nothing missing before the last of them, if no write to it failed.
PrefixSurvives ==
    ~broken => \E k \in 0 .. Len(logged) : file = SubSeq(logged, 1, k)

\* An appender that is destroyed has put all its events in the file, if no write
\* to it failed: a reload, which destroys the old appenders, loses none before the
\* new appender truncates the file.
CompleteWhenDestroyed == state = "destroyed" /\ ~broken => file = logged

\* reopen() closes an open file and opens it again: it succeeds when the path is
\* usable (the comments of log.cc:421 and log.h:456) and no write to the file it
\* has open failed, also after any number of failures before that.
ReopenWorks == [][Reopen /\ usable /\ ~broken => returned' /\ is_open']_vars

\* The same after a write has failed, which the code does not keep: the file is
\* then not closed, and can not be opened again.
ReopenRecovers == [][Reopen /\ usable => returned' /\ is_open']_vars
=============================================================================
