--------------------------- MODULE MC_LogFormatter ----------------------------
(* Every pattern of at most MaxLen symbols over one known letter, one unknown  *)
(* letter, a space and the three symbols the scan looks for.                   *)
EXTENDS LogFormatter, SequencesExt

CONSTANTS MCLetters, MaxLen

MCPatterns == BoundedSeq(MCLetters \cup {"%", "{", "}", " "}, MaxLen)

\* The constructor returns whatever the pattern (the loops of LogFormatter::init).
ConstructorReturns == <>(pc = "ready")

\* "%%" is the escape of "%": it makes no item (the comment of log.cc:532).
EscapeMakesNoItem ==
    m_pattern = <<"%", "%">> => \A j \in DOMAIN vec : vec[j].type = 0

\* A pattern with a format that does not end is in error (m_error, log.h:337).
PatternErrorIsError ==
    pc = "ready" => ((\E k \in DOMAIN vec : vec[k] = PatternError) => m_error)

\* "%r" prints the time since the program started (the list of log.cc:642).
ElapsedPrinted ==
    LET event == [content |-> "content", elapse |-> "elapse"]
    IN  \A k \in DOMAIN m_items :
            vec[k].type = 1 /\ vec[k].str = <<"r">> => Output(event)[k] = event.elapse
=============================================================================
