--------------------------- MODULE Thread_proofs ----------------------------
(***************************************************************************)
(* Thread for any number of threads and names, and any owner: objects that *)
(* are joined first outlive their use, threads are reaped once, and Thread *)
(* implements JoinHandle.                                                  *)
(***************************************************************************)
EXTENDS Thread, TLAPS

\* One step of the system, by the thread it is about.
Step(t) ==
    \/ \E name \in Name : Construct(t, name)
    \/ Join(t) \/ Joined(t) \/ Destroy(t)
    \/ ReadName(t) \/ StoreId(t) \/ Label(t) \/ TakeCallback(t) \/ Return(t)

LEMMA NextCases ==
    ASSUME Next
    PROVE  \/ \E t \in Handle : Step(t)
           \/ \E a \in Handle \cup {Main}, name \in Name : SetName(a, name)
BY DEF Next, Step, Run

LEMMA InitTypes == Init => TypeOK
BY ThreadAssumption DEF Init, TypeOK

LEMMA NextTypes == TypeOK /\ [Next]_vars => TypeOK'
<1> SUFFICES ASSUME TypeOK, [Next]_vars PROVE TypeOK'
  OBVIOUS
<1>1. CASE UNCHANGED vars
  BY <1>1 DEF TypeOK, vars
<1>2. ASSUME NEW t \in Handle, NEW name \in Name, Construct(t, name) PROVE TypeOK'
  <2>1. /\ m_name' = [m_name EXCEPT ![t] = IF name = Empty THEN Unknow ELSE name]
        /\ UNCHANGED <<m_id, t_thread_name, joining>>
    BY <1>2 DEF Construct
  <2>2. CASE /\ object' = [object EXCEPT ![t] = "alive"]
             /\ m_thread' = [m_thread EXCEPT ![t] = TRUE]
             /\ pc' = [pc EXCEPT ![t] = "enter"]
             /\ pthread' = [pthread EXCEPT ![t] = "joinable"]
    BY <2>1, <2>2, ThreadAssumption DEF TypeOK
  <2>3. CASE object' = [object EXCEPT ![t] = "gone"] /\ UNCHANGED <<m_thread, pc, pthread>>
    BY <2>1, <2>3, ThreadAssumption DEF TypeOK
  <2>4. \/ /\ object' = [object EXCEPT ![t] = "alive"]
           /\ m_thread' = [m_thread EXCEPT ![t] = TRUE]
           /\ pc' = [pc EXCEPT ![t] = "enter"]
           /\ pthread' = [pthread EXCEPT ![t] = "joinable"]
        \/ object' = [object EXCEPT ![t] = "gone"] /\ UNCHANGED <<m_thread, pc, pthread>>
    BY <1>2 DEF Construct
  <2> QED BY <2>2, <2>3, <2>4
<1>3. ASSUME NEW t \in Handle, Join(t) \/ Joined(t) \/ Destroy(t) PROVE TypeOK'
  <2>1. CASE Join(t)
    BY <2>1 DEF TypeOK, Join
  <2>2. CASE Joined(t)
    BY <2>2, ThreadAssumption DEF TypeOK, Joined, Reap
  <2>3. CASE Destroy(t)
    <3>1. object' \in [Handle -> {"none", "alive", "gone"}]
      BY <2>3 DEF TypeOK, Destroy
    <3>2. pthread' \in [Handle -> {"none", "joinable", "joined", "detached", "misused"}]
      BY <2>3 DEF TypeOK, Destroy, Reap
    <3> QED
      BY <2>3, <3>1, <3>2 DEF TypeOK, Destroy
  <2> QED
    BY <1>3, <2>1, <2>2, <2>3
<1>4. ASSUME NEW t \in Handle, ReadName(t) \/ StoreId(t) PROVE TypeOK'
  <2>1. pc' \in [Handle -> {"none", "enter", "id", "label", "take", "call", "done", "wild"}]
    BY <1>4 DEF TypeOK, ReadName, StoreId, Access, Goto
  <2>2. CASE ReadName(t)
    BY <2>1, <2>2 DEF TypeOK, ReadName
  <2>3. CASE StoreId(t)
    BY <2>1, <2>3 DEF TypeOK, StoreId
  <2> QED
    BY <1>4, <2>2, <2>3
<1>5. ASSUME NEW t \in Handle, Label(t) \/ TakeCallback(t) \/ Return(t) PROVE TypeOK'
  <2>1. pc' \in [Handle -> {"none", "enter", "id", "label", "take", "call", "done", "wild"}]
    BY <1>5 DEF TypeOK, Label, TakeCallback, Return, Access, Goto
  <2> QED BY <1>5, <2>1 DEF TypeOK, Label, TakeCallback, Return
<1>6. ASSUME NEW a \in Handle \cup {Main}, NEW name \in Name, SetName(a, name) PROVE TypeOK'
  <2>1. a # Main => a \in Handle OBVIOUS
  <2>2. pc' \in [Handle -> {"none", "enter", "id", "label", "take", "call", "done", "wild"}]
    BY <1>6, <2>1 DEF TypeOK, SetName, Access, Goto
  <2>3. m_name' \in [Handle -> Name \ {Empty}] BY <1>6, <2>1 DEF TypeOK, SetName
  <2> QED BY <1>6, <2>2, <2>3 DEF TypeOK, SetName
<1> QED
  BY <1>1, <1>2, <1>3, <1>4, <1>5, <1>6, NextCases DEF Step

\* No thread and no object ever has the empty name, and every handle, position and
\* reaping is one the code knows.
THEOREM TypeCorrect == Spec => []TypeOK
<1> QED
  BY InitTypes, NextTypes, PTL DEF Spec

-----------------------------------------------------------------------------
(* The handle of an object says what the system holds of its thread, and an  *)
(* object that is joined first is gone only when its thread has ended.       *)

Idle(t)  == pc[t] = "none" /\ pthread[t] = "none" /\ ~m_thread[t]

Owned(t) ==
    /\ pc[t] \notin {"none", "wild"}
    /\ IF m_thread[t] THEN pthread[t] = "joinable"
                      ELSE pthread[t] = "joined" /\ pc[t] = "done"

Left(t) ==
    \/ Idle(t)
    \/ /\ pthread[t] \in {"joined", "detached"}
       /\ pc[t] # "none" /\ (t \in Joining => pc[t] = "done")

Accounted(t) ==
    /\ object[t] = "none"  => Idle(t)
    /\ object[t] = "alive" => Owned(t)
    /\ object[t] = "gone"  => Left(t)
    /\ joining = t => object[t] = "alive" /\ m_thread[t]

Inv == TypeOK /\ \A t \in Handle : Accounted(t)

LEMMA InitAccounted == Init => Inv
BY InitTypes, ThreadAssumption DEF Init, Inv, Accounted, Idle

\* A step about one thread leaves the accounts of the others.
LEMMA OthersAccounted ==
    ASSUME Inv, NEW t \in Handle, Step(t), NEW u \in Handle, u # t
    PROVE  Accounted(u)'
<1> DEFINE Same ==
        /\ object'[u] = object[u] /\ m_thread'[u] = m_thread[u]
        /\ pc'[u] = pc[u] /\ pthread'[u] = pthread[u]
        /\ joining' = u => joining = u
<1>1. ASSUME NEW name \in Name, Construct(t, name) PROVE Same
  BY <1>1 DEF Inv, TypeOK, Construct
<1>2. ASSUME Join(t) \/ Joined(t) \/ Destroy(t) PROVE Same
  BY <1>2, ThreadAssumption DEF Inv, TypeOK, Join, Joined, Destroy, Reap
<1>3. ASSUME ReadName(t) \/ StoreId(t) PROVE Same
  BY <1>3 DEF Inv, TypeOK, ReadName, StoreId, Access, Goto
<1>4. ASSUME Label(t) \/ TakeCallback(t) \/ Return(t) PROVE Same
  BY <1>4 DEF Inv, TypeOK, Label, TakeCallback, Return, Access, Goto
<1>5. Same
  BY <1>1, <1>2, <1>3, <1>4 DEF Step
<1> QED
  BY <1>5 DEF Inv, Accounted, Idle, Owned, Left

LEMMA OneAccounted ==
    ASSUME Inv, NEW t \in Handle, Step(t)
    PROVE  Accounted(t)'
<1> USE DEF Inv, TypeOK, Accounted, Idle, Owned, Left
<1>1. ASSUME NEW name \in Name, Construct(t, name) PROVE Accounted(t)'
  BY <1>1, ThreadAssumption DEF Construct, Free
<1>2. CASE Join(t)
  BY <1>2 DEF Join, Free
<1>3. CASE Joined(t)
  BY <1>3, ThreadAssumption DEF Joined, Reap
<1>4. CASE Destroy(t)
  BY <1>4, ThreadAssumption DEF Destroy, Reap, MayDestroy, Free
<1>5. CASE ReadName(t) \/ StoreId(t)
  BY <1>5 DEF ReadName, StoreId, Access, Goto
<1>6. CASE Label(t) \/ TakeCallback(t) \/ Return(t)
  BY <1>6 DEF Label, TakeCallback, Return, Access, Goto
<1> QED
  BY <1>1, <1>2, <1>3, <1>4, <1>5, <1>6 DEF Step

LEMMA NextAccounted == Inv /\ [Next]_vars => Inv'
<1> SUFFICES ASSUME Inv, [Next]_vars PROVE Inv'
  OBVIOUS
<1>1. TypeOK'
  BY NextTypes DEF Inv
<1>2. CASE UNCHANGED vars
  BY <1>2 DEF vars, Inv, TypeOK, Accounted, Idle, Owned, Left
<1>3. ASSUME NEW t \in Handle, Step(t) PROVE Inv'
  BY <1>1, <1>3, OthersAccounted, OneAccounted DEF Inv
<1>4. ASSUME NEW a \in Handle \cup {Main}, NEW name \in Name, SetName(a, name) PROVE Inv'
  <2>1. CASE a = Main
    BY <1>1, <1>4, <2>1 DEF SetName, Inv, Accounted, Idle, Owned, Left
  <2>2. CASE a # Main
    <3>1. /\ a \in Handle /\ pc[a] = "call"
          /\ pc' = [pc EXCEPT ![a] = IF object[a] = "alive" THEN "call" ELSE "wild"]
          /\ UNCHANGED <<object, m_thread, joining, pthread>>
      BY <1>4, <2>2 DEF SetName, Access, Goto
    <3>2. ASSUME NEW t \in Handle PROVE Accounted(t)'
      <4>1. CASE t = a
        BY <3>1, <4>1 DEF Inv, TypeOK, Accounted, Idle, Owned, Left
      <4>2. CASE t # a
        BY <3>1, <4>2 DEF Inv, TypeOK, Accounted, Idle, Owned, Left
      <4> QED BY <4>1, <4>2
    <3> QED BY <1>1, <3>2 DEF Inv
  <2> QED BY <2>1, <2>2
<1> QED
  BY <1>2, <1>3, <1>4, NextCases

LEMMA Accounting == Spec => []Inv
<1> QED
  BY InitAccounted, NextAccounted, PTL DEF Spec

\* Whatever the order of joins and destructions, each thread is joined or detached
\* exactly once, and never left joinable without an object.
THEOREM ReapedOnceCorrect == Spec => []ReapedOnce
<1>1. Inv => ReapedOnce
  BY DEF Inv, Accounted, Idle, Owned, Left, ReapedOnce, TypeOK
<1> QED
  BY <1>1, Accounting, PTL

\* run() and the callback use no Thread object that is gone when the owner joins that
\* object before it destroys it, whatever happens to the others; without the join the
\* destructor does not wait for them (Thread::~Thread, Thread::join).
THEOREM OutlivesCorrect == Spec => []ObjectOutlivesUse
<1>1. Inv => ObjectOutlivesUse
  BY ThreadAssumption DEF Inv, Accounted, Idle, Owned, Left, ObjectOutlivesUse, TypeOK
<1> QED
  BY <1>1, Accounting, PTL

\* A join that waits, waits for a thread that exists and is this object's to give up.
THEOREM JoinAwaitsThreadCorrect == Spec => []JoinAwaitsThread
<1>1. Inv => JoinAwaitsThread
  BY DEF Inv, Accounted, Owned, JoinAwaitsThread
<1> QED
  BY <1>1, Accounting, PTL

-----------------------------------------------------------------------------
(* From its first line on a thread's two names agree, and from its second its *)
(* id is known: only the thread itself changes either, in its callback.       *)

Known(t) ==
    /\ pc[t] \in {"id", "label", "take", "call"} => t_thread_name[t] = m_name[t]
    /\ pc[t] \in {"label", "take", "call"} => m_id[t]

LEMMA NextKnown ==
    Inv /\ (\A t \in Handle : Known(t)) /\ [Next]_vars => (\A t \in Handle : Known(t))'
<1> SUFFICES ASSUME Inv, \A t \in Handle : Known(t), [Next]_vars, NEW u \in Handle
             PROVE  Known(u)'
  OBVIOUS
<1>1. CASE UNCHANGED vars
  BY <1>1 DEF vars, Known
<1>2. ASSUME NEW t \in Handle, NEW name \in Name, Construct(t, name) PROVE Known(u)'
  BY <1>2 DEF Construct, Inv, TypeOK, Accounted, Idle, Known
<1>3. ASSUME NEW t \in Handle, Join(t) \/ Joined(t) \/ Destroy(t) PROVE Known(u)'
  BY <1>3 DEF Join, Joined, Destroy, Known
<1>4. ASSUME NEW t \in Handle, ReadName(t) \/ StoreId(t) PROVE Known(u)'
  BY <1>4 DEF ReadName, StoreId, Access, Goto, Inv, TypeOK, Known
<1>5. ASSUME NEW t \in Handle, Label(t) \/ TakeCallback(t) \/ Return(t) PROVE Known(u)'
  BY <1>5 DEF Label, TakeCallback, Return, Access, Goto, Inv, TypeOK, Known
<1>6. ASSUME NEW a \in Handle \cup {Main}, NEW name \in Name, SetName(a, name) PROVE Known(u)'
  BY <1>6, ThreadAssumption DEF SetName, Access, Goto, Inv, TypeOK, Known
<1> QED
  BY <1>1, <1>2, <1>3, <1>4, <1>5, <1>6, NextCases DEF Step

\* In a callback whose object exists the two names agree and the id is known, whatever the other
\* threads and the owner name themselves meanwhile.
THEOREM KnowsItselfCorrect == Spec => []CallbackKnowsItself
<1>1. Init => \A t \in Handle : Known(t)
  BY DEF Init, Known
<1>2. (\A t \in Handle : Known(t)) => CallbackKnowsItself
  BY DEF Known, CallbackKnowsItself
<1> QED
  BY <1>1, <1>2, NextKnown, Accounting, PTL DEF Spec

-----------------------------------------------------------------------------
(* Refinement: the steps of run() between entry and return are stutters of   *)
(* JoinHandle.                                                               *)

Work(t) == CASE pc[t] = "none" -> "none"
             [] pc[t] = "done" -> "over"
             [] OTHER          -> "running"

Held(t) == IF pthread[t] = "joinable" THEN "held" ELSE pthread[t]

Same == UNCHANGED <<[t \in Handle |-> Work(t)], [t \in Handle |-> Held(t)]>>

LEMMA Stutters ==
    ASSUME pthread' = pthread, \A t \in Handle : Work(t)' = Work(t)
    PROVE  Same
BY DEF Same, Held

LEMMA InitPromise == Init => Promise!Init
BY DEF Init, Promise!Init

LEMMA StepPromise ==
    ASSUME Inv, NEW t \in Handle, Step(t)
    PROVE  Promise!Next \/ Same
<1> USE DEF Inv, TypeOK
<1>1. ASSUME NEW name \in Name, Construct(t, name) PROVE Promise!Start(t) \/ Same
  <2>1. Idle(t)
    BY <1>1 DEF Construct, Accounted
  <2>2. CASE UNCHANGED <<pc, pthread>>
    BY <2>2, Stutters DEF Work
  <2>3. CASE pc' = [pc EXCEPT ![t] = "enter"] /\ pthread' = [pthread EXCEPT ![t] = "joinable"]
    BY <2>1, <2>3 DEF Idle, Promise!Start
  <2> QED
    BY <1>1, <2>2, <2>3 DEF Construct
<1>2. CASE Join(t)
  BY <1>2, Stutters DEF Join, Work
<1>3. ASSUME Joined(t) PROVE Promise!Join(t)
  <2>1. pthread[t] = "joinable" /\ pc[t] = "done"
    BY <1>3 DEF Joined, Accounted, Owned
  <2> QED
    BY <1>3, <2>1 DEF Joined, Reap, Promise!Join
<1>4. ASSUME Destroy(t) PROVE Promise!Detach(t) \/ Same
  <2>1. CASE m_thread[t]
    <3>1. pthread[t] = "joinable"
      BY <1>4, <2>1 DEF Destroy, Accounted, Owned
    <3> QED
      BY <1>4, <2>1, <3>1 DEF Destroy, Reap, Promise!Detach
  <2>2. CASE ~m_thread[t]
    BY <1>4, <2>2, Stutters DEF Destroy, Work
  <2> QED
    BY <2>1, <2>2
<1>5. CASE ReadName(t) \/ StoreId(t) \/ Label(t) \/ TakeCallback(t)
  <2>1. \A u \in Handle : Work(u)' = Work(u)
    BY <1>5 DEF ReadName, StoreId, Label, TakeCallback, Access, Goto, Work
  <2> QED
    BY <1>5, <2>1, Stutters DEF ReadName, StoreId, Label, TakeCallback
<1>6. ASSUME Return(t) PROVE Promise!Finish(t)
  BY <1>6 DEF Return, Goto, Promise!Finish
<1> QED
  BY <1>1, <1>2, <1>3, <1>4, <1>5, <1>6 DEF Step, Promise!Next

\* Thread implements JoinHandle: each callback runs once, and the handle is given up
\* once, by a join that comes after the callback or by a detach.
THEOREM Refinement == Spec => ImplementsJoinHandle
<1>1. Inv /\ [Next]_vars => [Promise!Next]_(Promise!vars)
  <2> SUFFICES ASSUME Inv, [Next]_vars PROVE Promise!Next \/ Same
    BY DEF Promise!vars, Same, Work, Held
  <2>1. CASE UNCHANGED vars
    BY <2>1, Stutters DEF vars, Work
  <2>2. ASSUME NEW a \in Handle \cup {Main}, NEW name \in Name, SetName(a, name) PROVE Same
    <3>1. \A t \in Handle : Work(t)' = Work(t)
      BY <2>2 DEF SetName, Access, Goto, Work, Inv, TypeOK
    <3> QED BY <2>2, <3>1, Stutters DEF SetName
  <2> QED
    BY <2>1, <2>2, StepPromise, NextCases
<1> QED
  BY <1>1, InitPromise, Accounting, PTL DEF Spec, ImplementsJoinHandle, Promise!Spec

=============================================================================
