----------------------------- MODULE LogFormatter -----------------------------
(***************************************************************************)
(* LogFormatter: the constructor scans a pattern into a list of texts and  *)
(* items (init), builds a FormatItem for each of them, and format() prints *)
(* them.  A pattern is a sequence of symbols; positions count from 1.      *)
(***************************************************************************)
EXTENDS Sequences, Integers, SequencesExt

CONSTANTS
    Letter,   \* the symbols isalpha accepts
    Other,    \* the symbols that are neither letters, "%", "{" nor "}"
    Patterns  \* the patterns formatters are made from

Symbol == Letter \cup Other \cup {"%", "{", "}"}

\* s_format_items: what the item of each name prints.
Prints ==
    [m |-> "content", p |-> "level", r |-> "content", c |-> "name", t |-> "thread",
     d |-> "time", f |-> "file", l |-> "line", n |-> "newline", T |-> "tab", F |-> "fiber"]

ASSUME PatternAssumption ==
    /\ Letter \cap {"%", "{", "}"} = {} /\ Other \cap (Letter \cup {"%", "{", "}"}) = {}
    /\ (DOMAIN Prints) \cap Other = {}
    /\ Patterns \subseteq Seq(Symbol)

VARIABLES
    m_pattern,
    i,         \* the symbol the scan is at
    nstr,      \* the text not yet in vec
    vec,       \* the texts and items found, in order
    m_items,   \* the items built from vec
    m_error,
    pc         \* "scan", "build" and "ready", when the constructor has returned

vars == <<m_pattern, i, nstr, vec, m_items, m_error, pc>>

\* The entries of vec: a text, or the name and the format of an item.
Text(str) == [str |-> str, fmt |-> <<>>, type |-> 0]
Named(str, fmt) == [str |-> str, fmt |-> fmt, type |-> 1]
PatternError == Text(<<"<<pattern_error>>">>)

Entry == [str : Seq(Symbol \cup {"<<pattern_error>>"}), fmt : Seq(Symbol), type : {0, 1}]

Known(str) == Len(str) = 1 /\ str[1] \in DOMAIN Prints

\* The FormatItem built for an entry; only the time uses its format, and has a
\* default for the empty one.
BuildItem(e) ==
    IF e.type = 0 THEN [prints |-> "text", arg |-> e.str]
    ELSE IF ~Known(e.str) THEN [prints |-> "<<error_format>>", arg |-> e.str]
    ELSE IF Prints[e.str[1]] # "time" THEN [prints |-> Prints[e.str[1]], arg |-> <<>>]
    ELSE [prints |-> "time", arg |-> IF e.fmt = <<>> THEN <<"%Y-%m-%d %H:%M:%S">> ELSE e.fmt]

Init ==
    /\ m_pattern \in Patterns
    /\ i = 1
    /\ nstr = <<>> /\ vec = <<>> /\ m_items = <<>>
    /\ m_error = FALSE
    /\ pc = "scan"

-----------------------------------------------------------------------------
Scanning == pc = "scan" /\ i <= Len(m_pattern)

Percent(k) == k <= Len(m_pattern) /\ m_pattern[k] = "%"

\* The turns of the loop over the pattern: a symbol of a text,
AppendText ==
    /\ Scanning /\ ~Percent(i)
    /\ nstr' = Append(nstr, m_pattern[i])
    /\ i' = i + 1
    /\ UNCHANGED <<m_pattern, vec, m_items, m_error, pc>>

\* the first "%" of "%%", which is a text; the loop goes on AT the second,
AppendPercent ==
    /\ Scanning /\ Percent(i) /\ Percent(i + 1)
    /\ nstr' = Append(nstr, "%")
    /\ i' = i + 1
    /\ UNCHANGED <<m_pattern, vec, m_items, m_error, pc>>

\* an item.  Its name runs up to the first symbol that is no letter and no "}",
\* or to the end; its format from there to the next "}" when that symbol is "{".
NameSymbol == Letter \cup {"}"}

NameEnds(e) ==
    /\ \A k \in i + 1 .. e - 1 : m_pattern[k] \in NameSymbol
    /\ e <= Len(m_pattern) => m_pattern[e] \notin NameSymbol

Opens(e) == e <= Len(m_pattern) /\ m_pattern[e] = "{"

Closes(e, c) == m_pattern[c] = "}" /\ \A k \in e + 1 .. c - 1 : m_pattern[k] # "}"

Flushed_Late(entry) ==
    IF nstr = <<>> THEN Append(vec, entry) ELSE Append(Append(vec, entry), Text(nstr))

Flushed(entry) ==
    IF nstr = <<>> THEN Append(vec, entry) ELSE Append(Append(vec, Text(nstr)), entry)

PushItem_Named ==
    /\ Scanning /\ Percent(i) /\ ~Percent(i + 1)
    /\ \E e \in i + 2 .. Len(m_pattern) + 1 :
          /\ NameEnds(e)
          /\ \/ /\ ~Opens(e)
                /\ vec' = Flushed(Named(SubSeq(m_pattern, i + 1, e - 1), <<>>))
                /\ i' = e
             \/ \E c \in e + 1 .. Len(m_pattern) :
                   /\ Opens(e) /\ Closes(e, c)
                   /\ vec' = Flushed(Named(SubSeq(m_pattern, i + 1, e - 1),
                                           SubSeq(m_pattern, e + 1, c - 1)))
                   /\ i' = c + 1
    /\ nstr' = <<>>
    /\ UNCHANGED <<m_pattern, m_items, m_error, pc>>

PushItem ==
    /\ Scanning /\ Percent(i) /\ ~Percent(i + 1)
    /\ \E e \in i + 1 .. Len(m_pattern) + 1 :
          /\ NameEnds(e)
          /\ \/ /\ ~Opens(e)
                /\ vec' = Flushed(Named(SubSeq(m_pattern, i + 1, e - 1), <<>>))
                /\ i' = e
             \/ \E c \in e + 1 .. Len(m_pattern) :
                   /\ Opens(e) /\ Closes(e, c)
                   /\ vec' = Flushed(Named(SubSeq(m_pattern, i + 1, e - 1),
                                           SubSeq(m_pattern, e + 1, c - 1)))
                   /\ i' = c + 1
    /\ nstr' = <<>>
    /\ UNCHANGED <<m_pattern, m_items, m_error, pc>>

\* a format without "}": an error text instead of the "%", before the text that
\* is pending.
PushPatternError_Again ==
    /\ Scanning /\ Percent(i) /\ ~Percent(i + 1)
    /\ \E e \in i + 1 .. Len(m_pattern) :
          NameEnds(e) /\ Opens(e) /\ \A c \in e + 1 .. Len(m_pattern) : ~Closes(e, c)
    /\ vec' = Append(vec, PatternError)
    /\ UNCHANGED <<m_pattern, i, nstr, m_items, m_error, pc>>

PushPatternError ==
    /\ Scanning /\ Percent(i) /\ ~Percent(i + 1)
    /\ \E e \in i + 1 .. Len(m_pattern) :
          NameEnds(e) /\ Opens(e) /\ \A c \in e + 1 .. Len(m_pattern) : ~Closes(e, c)
    /\ vec' = Append(vec, PatternError)
    /\ i' = i + 1
    /\ UNCHANGED <<m_pattern, nstr, m_items, m_error, pc>>

EndScan ==
    /\ pc = "scan" /\ i > Len(m_pattern)
    /\ vec' = IF nstr = <<>> THEN vec ELSE Append(vec, Text(nstr))
    /\ nstr' = <<>>
    /\ pc' = "build"
    /\ UNCHANGED <<m_pattern, i, m_items, m_error>>

\* The loop over vec.
Build_LastOnly ==
    /\ pc = "build" /\ Len(m_items) < Len(vec)
    /\ LET e == vec[Len(m_items) + 1]
       IN  /\ m_items' = Append(m_items, BuildItem(e))
           /\ m_error' = (e.type = 1 /\ ~Known(e.str))
    /\ UNCHANGED <<m_pattern, i, nstr, vec, pc>>

Build ==
    /\ pc = "build" /\ Len(m_items) < Len(vec)
    /\ LET e == vec[Len(m_items) + 1]
       IN  /\ m_items' = Append(m_items, BuildItem(e))
           /\ m_error' = (m_error \/ (e.type = 1 /\ ~Known(e.str)))
    /\ UNCHANGED <<m_pattern, i, nstr, vec, pc>>

EndBuild ==
    /\ pc = "build" /\ Len(m_items) = Len(vec)
    /\ pc' = "ready"
    /\ UNCHANGED <<m_pattern, i, nstr, vec, m_items, m_error>>

Next ==
    \/ AppendText \/ AppendPercent \/ PushItem \/ PushPatternError \/ EndScan
    \/ Build \/ EndBuild

\* The constructor runs to its end in the thread that calls it.
Spec == Init /\ [][Next]_vars /\ WF_vars(Next)

\* LogFormatter::format: each item prints its text or a field of the event.
Output(event) ==
    [k \in DOMAIN m_items |->
        IF m_items[k].prints \in DOMAIN event THEN event[m_items[k].prints] ELSE m_items[k].arg]

-----------------------------------------------------------------------------
\* The values of the variables have their types; the scan never passes the end of
\* the pattern by more than one symbol, and never leaves text behind.
TypeOK ==
    /\ m_pattern \in Patterns
    /\ i \in 1 .. Len(m_pattern) + 1
    /\ nstr \in Seq(Symbol)
    /\ vec \in Seq(Entry)
    /\ m_error \in BOOLEAN
    /\ pc \in {"scan", "build", "ready"}
    /\ pc # "scan" => nstr = <<>> /\ i = Len(m_pattern) + 1

\* What was built so far is what the entries of vec stand for, in their order, and
\* isError() tells whether one of them is an item no formatter knows (the loop
\* over vec at the end of init).
BuiltInOrder ==
    /\ Len(m_items) <= Len(vec)
    /\ \A k \in 1 .. Len(m_items) : m_items[k] = BuildItem(vec[k])
    /\ m_error <=> \E k \in 1 .. Len(m_items) : vec[k].type = 1 /\ ~Known(vec[k].str)
    /\ pc = "ready" => Len(m_items) = Len(vec)

\* Nothing of a pattern is lost, doubled or moved: spelled out again, the entries
\* found and the pending text are the part of the pattern already scanned, unless
\* a format has no end or is empty (the loop of LogFormatter::init).
Spelling(e) ==
    IF e.type = 0 THEN e.str
    ELSE <<"%">> \o e.str \o (IF e.fmt = <<>> THEN <<>> ELSE <<"{">> \o e.fmt \o <<"}">>)

SpelledOut(entries) == FlattenSeq([k \in DOMAIN entries |-> Spelling(entries[k])])

EmptyFormat == \E k \in 1 .. Len(m_pattern) - 1 : m_pattern[k] = "{" /\ m_pattern[k + 1] = "}"

NothingLost ==
    ~EmptyFormat /\ (\A k \in DOMAIN vec : vec[k] # PatternError) =>
        SpelledOut(vec) \o nstr = SubSeq(m_pattern, 1, i - 1)

\* What isError() tells, stated of the pattern and not of its scan: each "%" that
\* begins an item must be followed by a single known letter; what stands in a format
\* does not count (LogFormatter::init; Logger::setFormatter and the listener of
\* LogIniter refuse a pattern by it).  It is so where each "{" belongs to a format
\* that ends, and where nobody escapes a "%": "%%" is what EscapeMakesNoItem is about.
InFormat(k) == \E o \in 1 .. k - 1 : m_pattern[o] = "{" /\ \A j \in o .. k - 1 : m_pattern[j] # "}"

BeginsFormat(o) ==
    /\ o > 2 /\ Percent(o - 2) /\ m_pattern[o - 1] \in Letter
    /\ \E c \in o .. Len(m_pattern) : m_pattern[c] = "}"

FormatsEnd == \A o \in 1 .. Len(m_pattern) : m_pattern[o] = "{" => InFormat(o) \/ BeginsFormat(o)

Unescaped == \A k \in 1 .. Len(m_pattern) : ~(Percent(k) /\ Percent(k + 1) /\ ~InFormat(k))

WellSpelled(k) ==
    /\ k < Len(m_pattern) /\ m_pattern[k + 1] \in DOMAIN Prints
    /\ k + 2 <= Len(m_pattern) => m_pattern[k + 2] \notin NameSymbol

ErrorIsMisspelt ==
    pc = "ready" /\ FormatsEnd /\ Unescaped =>
        (m_error <=> \E k \in 1 .. Len(m_pattern) : Percent(k) /\ ~InFormat(k) /\ ~WellSpelled(k))

\* The constructor of a pattern of n symbols returns after at most 2n + 2 turns of
\* its loops: every turn, that after a format without end included, leaves fewer to
\* come.  A symbol has a turn of the scan, and one of the loop over vec at most, as
\* has the text that is pending; two turns are the ends of the loops.
TurnsLeft ==
    2 * (Len(m_pattern) + 1 - i)
    + (IF nstr = <<>> THEN 0 ELSE 1)
    + (Len(vec) - Len(m_items))
    + (CASE pc = "scan" -> 2 [] pc = "build" -> 1 [] OTHER -> 0)

EachTurnAdvances == [][TurnsLeft' \in 0 .. TurnsLeft - 1]_vars
=============================================================================
