------------------------ MODULE FileLogAppender_proofs ------------------------
(***************************************************************************)
(* Proofs about FileLogAppender, for any events and any number of them.    *)
(***************************************************************************)
EXTENDS FileLogAppender, SequenceTheorems, TLAPS

\* Appending after a concatenation appends to its second part.
LEMMA AppendAfter ==
    ASSUME NEW S, NEW s \in Seq(S), NEW t \in Seq(S), NEW e \in S
    PROVE  s \o Append(t, e) = Append(s \o t, e) /\ s \o Append(t, e) \in Seq(S)
BY ConcatProperties, AppendProperties, LenProperties

\* What a write that fails leaves in the file is still a sequence of events.
LEMMA PartlyWrittenType ==
    ASSUME file \in Seq(Event), NEW out \in Seq(Event), PartlyWritten(out)
    PROVE  file' \in Seq(Event)
<1>1. PICK k \in 0 .. Len(out) - 1 : file' = file \o SubSeq(out, 1, k)
  BY DEF PartlyWritten
<1>2. Len(out) \in Nat /\ \A j \in 1 .. Len(out) : out[j] \in Event
  BY LenProperties, ElementOfSeq
<1>3. SubSeq(out, 1, k) \in Seq(Event) BY <1>1, <1>2, SubSeqProperties
<1> QED BY <1>1, <1>3, ConcatProperties

\* While the stream has not failed nothing logged is missing, and everything is in
\* order; and until a write fails, also once the stream has failed to open or the
\* appender is destroyed.
InOrder == state = "alive" /\ ~failed => is_open /\ file \o buffer = logged
Complete ==
    /\ InOrder
    /\ ~broken /\ state # "killed" => file \o buffer = logged
    /\ PrefixSurvives

\* The whole of a sequence is a first part of it.
LEMMA WholeIsPrefix ==
    ASSUME NEW S, NEW s \in Seq(S), NEW t \in Seq(S), NEW whole, whole = s \o t
    PROVE  \E k \in 0 .. Len(whole) : s = SubSeq(whole, 1, k)
<1>1. Len(s) \in Nat /\ Len(t) \in Nat /\ Len(whole) = Len(s) + Len(t)
      /\ whole \in Seq(S) /\ \A j \in 1 .. Len(s) : whole[j] = s[j]
  BY ConcatProperties, LenProperties
<1>2. s = SubSeq(whole, 1, Len(s))
  <2>1. \A j \in 1 .. Len(s) : whole[j] \in S BY <1>1, ElementOfSeq
  <2>2. /\ SubSeq(whole, 1, Len(s)) \in Seq(S)
        /\ Len(SubSeq(whole, 1, Len(s))) = Len(s)
        /\ \A j \in 1 .. Len(s) : SubSeq(whole, 1, Len(s))[j] = whole[j]
    BY <1>1, <2>1, SubSeqProperties
  <2> QED BY <1>1, <2>2, SeqEqual
<1>3. Len(s) \in 0 .. Len(whole) BY <1>1
<1> QED BY <1>2, <1>3

\* The empty sequence before and after another.
LEMMA ConcatEmpty ==
    ASSUME NEW S, NEW s \in Seq(S)
    PROVE  s \o <<>> = s /\ <<>> \in Seq(S) /\ Len(<<>>) = 0
BY EmptySeq, ConcatEmptySeq

\* The types hold for any set of events.
THEOREM TypeCorrect == Spec => []TypeOK
<1>1. Init => TypeOK
  <2>1. <<>> \in Seq(Event) BY EmptySeq
  <2>2. ASSUME Init PROVE failed \in BOOLEAN /\ (~is_open => failed) BY <2>2 DEF Init
  <2> QED BY <2>1, <2>2 DEF Init, TypeOK
<1>2. TypeOK /\ [Next]_vars => TypeOK'
  <2> SUFFICES ASSUME TypeOK, [Next]_vars PROVE TypeOK' OBVIOUS
  <2>0. \A out \in Seq(Event) : Written(out) \/ PartlyWritten(out) =>
           file' \in Seq(Event) /\ broken' \in BOOLEAN
    BY PartlyWrittenType, ConcatProperties DEF TypeOK, Written, PartlyWritten
  <2>1. ASSUME NEW e \in Event, Log(e) PROVE TypeOK'
    <3>1. Append(buffer, e) \in Seq(Event) /\ Append(logged, e) \in Seq(Event)
      BY AppendProperties DEF TypeOK
    <3>2. file' \in Seq(Event) /\ broken' \in BOOLEAN
      BY <2>0, <2>1, <3>1 DEF Log, Written, PartlyWritten, stream, TypeOK
    <3> QED BY <2>1, <3>1, <3>2, EmptySeq DEF Log, Written, PartlyWritten, stream, TypeOK
  <2>2. CASE Reopen
    <3>1. file' \in Seq(Event) /\ broken' \in BOOLEAN
      BY <2>0, <2>2, EmptySeq DEF Reopen, Truncated, stream, TypeOK
    <3> QED BY <2>2, <3>1, EmptySeq DEF Reopen, Truncated, stream, TypeOK
  <2>3. CASE Destroy
    <3>1. file' \in Seq(Event) /\ broken' \in BOOLEAN BY <2>0, <2>3 DEF Destroy, TypeOK
    <3> QED BY <2>3, <3>1, EmptySeq DEF Destroy, TypeOK
  <2>4. CASE PathChanges BY <2>4 DEF PathChanges, stream, TypeOK
  <2>5. CASE Kill BY <2>5, EmptySeq DEF Kill, TypeOK
  <2>6. CASE UNCHANGED vars BY <2>6 DEF vars, stream, TypeOK
  <2> QED BY <2>1, <2>2, <2>3, <2>4, <2>5, <2>6 DEF Next
<1> QED BY <1>1, <1>2, PTL DEF Spec

\* Every step keeps what the file and the buffer hold.
LEMMA CompleteStep ==
    ASSUME TypeOK, TypeOK', Complete, [Next]_vars
    PROVE  Complete'
<1> DEFINE Whole == ~broken /\ state # "killed" => file \o buffer = logged
<1>0. /\ file \o buffer \in Seq(Event) /\ file \o <<>> = file /\ <<>> \o <<>> = <<>>
      /\ (file \o buffer) \o <<>> = file \o buffer
      /\ \A e \in Event : file \o Append(buffer, e) = Append(file \o buffer, e)
  BY ConcatProperties, ConcatEmpty, AppendAfter, EmptySeq DEF TypeOK
<1>1. InOrder' /\ Whole'
  <2>1. ASSUME NEW e \in Event, Log(e) PROVE InOrder' /\ Whole'
    <3>1. CASE failed BY <2>1, <3>1 DEF Log, Written, PartlyWritten, stream, Complete, InOrder
    <3>2. CASE ~failed
      <4>1. CASE buffer' = Append(buffer, e) /\ UNCHANGED <<file, failed>>
        BY <1>0, <2>1, <3>2, <4>1 DEF Log, Written, Complete, InOrder
      <4>2. CASE Written(Append(buffer, e)) /\ buffer' = <<>> /\ UNCHANGED failed
        <5>1. Append(buffer, e) \in Seq(Event) /\ file \in Seq(Event)
          BY AppendProperties DEF TypeOK
        <5>2. file \o Append(buffer, e) \in Seq(Event) BY <5>1, ConcatProperties
        <5>3. (file \o Append(buffer, e)) \o <<>> = file \o Append(buffer, e)
          BY <5>2, ConcatEmpty
        <5> QED BY <1>0, <2>1, <3>2, <4>2, <5>3 DEF Log, Written, Complete, InOrder
      <4>3. CASE PartlyWritten(Append(buffer, e)) /\ failed' = TRUE /\ UNCHANGED buffer
        BY <2>1, <4>3 DEF PartlyWritten, InOrder
      <4> QED BY <2>1, <3>2, <4>1, <4>2, <4>3 DEF Log
    <3> QED BY <3>1, <3>2
  <2>2. CASE Reopen
    <3>1. CASE failed /\ is_open BY <2>2, <3>1 DEF Reopen, Truncated, stream, Complete, InOrder
    <3>2. CASE ~(failed /\ is_open) /\ usable
      BY <1>0, <2>2, <3>2 DEF Reopen, Truncated, InOrder
    <3>3. CASE ~(failed /\ is_open) /\ ~usable
      BY <1>0, <2>2, <3>3 DEF Reopen, Truncated, Written, PartlyWritten, Complete, InOrder
    <3> QED BY <3>1, <3>2, <3>3
  <2>3. CASE Destroy
    BY <1>0, <2>3 DEF Destroy, Written, PartlyWritten, Complete, InOrder
  <2>4. CASE PathChanges BY <2>4 DEF PathChanges, stream, Complete, InOrder
  <2>5. CASE Kill BY <2>5 DEF Kill, InOrder
  <2>6. CASE UNCHANGED vars BY <2>6 DEF vars, stream, Complete, InOrder
  <2> QED BY <2>1, <2>2, <2>3, <2>4, <2>5, <2>6 DEF Next
<1>2. PrefixSurvives'
  <2>1. CASE state' # "killed"
    <3> SUFFICES ASSUME ~broken'
                 PROVE  \E k \in 0 .. Len(logged') : file' = SubSeq(logged', 1, k)
      BY DEF PrefixSurvives
    <3>1. logged' = file' \o buffer' BY <1>1, <2>1
    <3>2. file' \in Seq(Event) /\ buffer' \in Seq(Event) BY DEF TypeOK
    <3> QED BY <3>1, <3>2, WholeIsPrefix
  <2>2. CASE state' = "killed"
    <3>1. Kill \/ UNCHANGED vars
      BY <2>2 DEF Next, Log, Reopen, Destroy, PathChanges, Kill, TypeOK
    <3>2. file' = file /\ logged' = logged /\ broken' = broken BY <3>1 DEF Kill, vars, stream
    <3> QED BY <3>2 DEF Complete, PrefixSurvives
  <2> QED BY <2>1, <2>2
<1> QED BY <1>1, <1>2 DEF Complete

\* Complete always holds.
LEMMA AlwaysComplete == Spec => []Complete
<1>1. Init => Complete
  <2> SUFFICES ASSUME Init PROVE Complete OBVIOUS
  <2>1. file = <<>> /\ buffer = <<>> /\ logged = <<>> BY DEF Init
  <2>2. <<>> \o <<>> = <<>> BY ConcatEmpty, EmptySeq
  <2>3. <<>> \in Seq(Event) /\ Len(<<>>) = 0 BY EmptySeq
  <2>4. PrefixSurvives
    BY <2>1, <2>2, <2>3, WholeIsPrefix DEF PrefixSurvives
  <2>5. InOrder /\ file \o buffer = logged BY <2>1, <2>2 DEF Init, InOrder
  <2> QED BY <2>4, <2>5 DEF Complete
<1>2. TypeOK /\ TypeOK' /\ Complete /\ [Next]_vars => Complete' BY CompleteStep
<1> QED BY <1>1, <1>2, TypeCorrect, PTL DEF Spec

\* While its stream has not failed, an appender's file and buffer hold exactly the
\* events logged since the file was opened, also when writes may fail; until a write
\* fails, nothing is missing before the last event that reached the file, however
\* the process ends.
THEOREM StreamCorrect == Spec => [](InOrder /\ PrefixSurvives)
<1>1. Complete => InOrder /\ PrefixSurvives BY DEF Complete
<1> QED BY <1>1, AlwaysComplete, PTL

\* An appender that is destroyed before a write failed leaves all that was logged in
\* its file: what it has buffered is written, and it had nothing else.
THEOREM DestroyedCorrect == Spec => []CompleteWhenDestroyed
<1>1. TypeOK /\ Complete => CompleteWhenDestroyed
  <2> SUFFICES ASSUME TypeOK, Complete, state = "destroyed", ~broken
               PROVE  file = logged
    BY DEF CompleteWhenDestroyed
  <2>1. buffer = <<>> BY DEF TypeOK
  <2>2. file \o buffer = logged BY DEF Complete
  <2> QED BY <2>1, <2>2, ConcatEmpty DEF TypeOK
<1> QED BY <1>1, TypeCorrect, AlwaysComplete, PTL

\* Only a write that fails leaves a stream both failed and open.
FailedIsClosed == ~broken /\ failed => ~is_open

\* reopen() works for an appender that has no file open to which a write failed;
\* finding 9 of the README shows that this is needed.
THEOREM ReopenCorrect == Spec => ReopenWorks
<1>1. Init => FailedIsClosed
  <2> SUFFICES ASSUME Init, failed PROVE ~is_open BY DEF FailedIsClosed
  <2> QED BY DEF Init
<1>2. FailedIsClosed /\ [Next]_vars => FailedIsClosed'
  <2> SUFFICES ASSUME FailedIsClosed, [Next]_vars, ~broken'
               PROVE  failed' => ~is_open'
    BY DEF FailedIsClosed
  <2>1. ASSUME NEW e \in Event, Log(e) PROVE failed' => ~is_open'
    BY <2>1 DEF Log, Written, PartlyWritten, stream, FailedIsClosed
  <2>2. CASE Reopen BY <2>2 DEF Reopen, Truncated, Written, PartlyWritten, stream, FailedIsClosed
  <2>3. CASE Destroy \/ PathChanges \/ Kill \/ UNCHANGED vars
    BY <2>3 DEF Destroy, PathChanges, Kill, vars, stream, FailedIsClosed
  <2> QED BY <2>1, <2>2, <2>3 DEF Next
<1>3. FailedIsClosed /\ [Next]_vars => 
        [Reopen /\ usable /\ ~broken => returned' /\ is_open']_vars
  <2> SUFFICES ASSUME FailedIsClosed, Reopen, usable, ~broken PROVE returned' /\ is_open'
    OBVIOUS
  <2>1. ~(failed /\ is_open) BY DEF FailedIsClosed
  <2>2. is_open' = TRUE /\ failed' = FALSE BY <2>1 DEF Reopen, Truncated
  <2>3. returned' = ~failed' BY DEF Reopen, Truncated
  <2> QED BY <2>2, <2>3
<1> QED BY <1>1, <1>2, <1>3, PTL DEF Spec, ReopenWorks
=============================================================================
