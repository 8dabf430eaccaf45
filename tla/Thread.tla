------------------------------- MODULE Thread -------------------------------
(***************************************************************************)
(* sylar::Thread: an owner (the main thread of tests/test_thread.cc)       *)
(* creates, joins and destroys Thread objects while the threads they       *)
(* started run.  Each thread reads and writes its object through a plain   *)
(* pointer, one access after another, so the object must outlive them; the *)
(* destructor does not see to that.  What the program does once a thread   *)
(* has used an object that is gone is undefined, and the model stops there.*)
(***************************************************************************)
CONSTANTS
    Handle,   \* the Thread objects the program creates
    Name,     \* names of threads
    Empty,    \* the empty name
    Unknow,   \* "UNKNOW"
    Main,     \* the owner
    Nobody,   \* no thread
    Joining   \* the objects whose owner joins them before it destroys them

ASSUME ThreadAssumption ==
    /\ {Empty, Unknow} \subseteq Name /\ Empty # Unknow
    /\ Main \notin Handle /\ Nobody \notin Handle
    /\ Joining \subseteq Handle

VARIABLES
    object,         \* "none" before, "alive" during and "gone" after its life
    m_thread,       \* is m_thread other than 0
    m_id,           \* is m_id other than -1
    m_name,
    pc,             \* where the thread's run() is; "wild" once it used a gone object
    t_thread_name,  \* the thread_local of each thread
    joining,        \* the thread the owner is in pthread_join for
    pthread         \* what the system holds of the thread

vars == <<object, m_thread, m_id, m_name, pc, t_thread_name, joining, pthread>>

\* The types; no thread and no object ever has the empty name.
TypeOK ==
    /\ object \in [Handle -> {"none", "alive", "gone"}]
    /\ m_thread \in [Handle -> BOOLEAN]
    /\ m_id \in [Handle -> BOOLEAN]
    /\ m_name \in [Handle -> Name \ {Empty}]
    /\ pc \in [Handle -> {"none", "enter", "id", "label", "take", "call", "done", "wild"}]
    /\ t_thread_name \in [Handle \cup {Main} -> Name \ {Empty}]
    /\ joining \in Handle \cup {Nobody}
    /\ pthread \in [Handle -> {"none", "joinable", "joined", "detached", "misused"}]

Init ==
    /\ object = [t \in Handle |-> "none"]
    /\ m_thread = [t \in Handle |-> FALSE]
    /\ m_id = [t \in Handle |-> FALSE]
    /\ m_name = [t \in Handle |-> Unknow]
    /\ pc = [t \in Handle |-> "none"]
    /\ t_thread_name = [a \in Handle \cup {Main} |-> Unknow]
    /\ joining = Nobody
    /\ pthread = [t \in Handle |-> "none"]

-----------------------------------------------------------------------------
\* The owner.  It is blocked while it is in pthread_join.
Free == joining = Nobody

Construct_NoThrow(t, name) ==
    /\ Free
    /\ object[t] = "none"
    /\ m_name' = [m_name EXCEPT ![t] = IF name = Empty THEN Unknow ELSE name]
    /\ object' = [object EXCEPT ![t] = "alive"]
    /\ m_thread' = [m_thread EXCEPT ![t] = TRUE]
    /\ \/ /\ pc' = [pc EXCEPT ![t] = "enter"]
          /\ pthread' = [pthread EXCEPT ![t] = "joinable"]
       \/ UNCHANGED <<pc, pthread>>
    /\ UNCHANGED <<m_id, t_thread_name, joining>>

\* Thread::Thread.  When pthread_create fails the constructor throws, so there is
\* no thread and the destructor does not run.
Construct(t, name) ==
    /\ Free
    /\ object[t] = "none"
    /\ m_name' = [m_name EXCEPT ![t] = IF name = Empty THEN Unknow ELSE name]
    /\ \/ /\ object' = [object EXCEPT ![t] = "alive"]
          /\ m_thread' = [m_thread EXCEPT ![t] = TRUE]
          /\ pc' = [pc EXCEPT ![t] = "enter"]
          /\ pthread' = [pthread EXCEPT ![t] = "joinable"]
       \/ /\ object' = [object EXCEPT ![t] = "gone"]
          /\ UNCHANGED <<m_thread, pc, pthread>>
    /\ UNCHANGED <<m_id, t_thread_name, joining>>

\* pthread_join and pthread_detach: undefined for a thread that is not joinable.
Reap(t, how) ==
    pthread' = [pthread EXCEPT ![t] = IF @ = "joinable" THEN how ELSE "misused"]

\* Thread::join, up to the end of pthread_join; for a handle of 0 it does nothing.
Join(t) ==
    /\ Free
    /\ object[t] = "alive"
    /\ m_thread[t]
    /\ joining' = t
    /\ UNCHANGED <<object, m_thread, m_id, m_name, pc, t_thread_name, pthread>>

Joined_NoWait(t) ==
    /\ joining = t
    /\ Reap(t, "joined")
    /\ m_thread' = [m_thread EXCEPT ![t] = FALSE]
    /\ joining' = Nobody
    /\ UNCHANGED <<object, m_id, m_name, pc, t_thread_name>>

Joined_KeepHandle(t) ==
    /\ joining = t
    /\ pc[t] = "done"
    /\ Reap(t, "joined")
    /\ joining' = Nobody
    /\ UNCHANGED <<object, m_thread, m_id, m_name, pc, t_thread_name>>

\* The thread has ended: pthread_join returns and the handle is set to 0.
Joined(t) ==
    /\ joining = t
    /\ pc[t] = "done"
    /\ Reap(t, "joined")
    /\ m_thread' = [m_thread EXCEPT ![t] = FALSE]
    /\ joining' = Nobody
    /\ UNCHANGED <<object, m_id, m_name, pc, t_thread_name>>

\* A rule of the program, which the class does not enforce: some objects are joined
\* first, as all are in the test; the others are destroyed at any time.
MayDestroy(t) == t \in Joining => ~m_thread[t]

\* Thread::~Thread.
Destroy(t) ==
    /\ Free
    /\ object[t] = "alive"
    /\ MayDestroy(t)
    /\ object' = [object EXCEPT ![t] = "gone"]
    /\ IF m_thread[t] THEN Reap(t, "detached") ELSE UNCHANGED pthread
    /\ UNCHANGED <<m_thread, m_id, m_name, pc, t_thread_name, joining>>

-----------------------------------------------------------------------------
\* Thread::run, one access of the object after another.
Goto(t, from, to) == pc[t] = from /\ pc' = [pc EXCEPT ![t] = to]

Access(t, from, to) == Goto(t, from, IF object[t] = "alive" THEN to ELSE "wild")

ReadName(t) ==
    /\ Access(t, "enter", "id")
    /\ t_thread_name' = [t_thread_name EXCEPT ![t] = m_name[t]]
    /\ UNCHANGED <<object, m_thread, m_id, m_name, joining, pthread>>

StoreId(t) ==
    /\ Access(t, "id", "label")
    /\ m_id' = [m_id EXCEPT ![t] = TRUE]
    /\ UNCHANGED <<object, m_thread, m_name, t_thread_name, joining, pthread>>

\* pthread_setname_np with the first 15 bytes of the object's name.
Label(t) ==
    /\ Access(t, "label", "take")
    /\ UNCHANGED <<object, m_thread, m_id, m_name, t_thread_name, joining, pthread>>

\* The callback is swapped out of the object and called.
TakeCallback(t) ==
    /\ Access(t, "take", "call")
    /\ UNCHANGED <<object, m_thread, m_id, m_name, t_thread_name, joining, pthread>>

Return(t) ==
    /\ Goto(t, "call", "done")
    /\ UNCHANGED <<object, m_thread, m_id, m_name, t_thread_name, joining, pthread>>

Run(t) == ReadName(t) \/ StoreId(t) \/ Label(t) \/ TakeCallback(t) \/ Return(t)

\* Thread::SetName, called by a callback or, for a thread that has no Thread
\* object, by the owner; an empty name is ignored.
SetName_AllThreads(a, name) ==
    /\ name # Empty
    /\ IF a = Main THEN Free /\ UNCHANGED <<pc, m_name>>
       ELSE Access(a, "call", "call") /\ m_name' = [m_name EXCEPT ![a] = name]
    /\ t_thread_name' = [b \in Handle \cup {Main} |-> name]
    /\ UNCHANGED <<object, m_thread, m_id, joining, pthread>>

SetName(a, name) ==
    /\ name # Empty
    /\ IF a = Main THEN Free /\ UNCHANGED <<pc, m_name>>
       ELSE Access(a, "call", "call") /\ m_name' = [m_name EXCEPT ![a] = name]
    /\ t_thread_name' = [t_thread_name EXCEPT ![a] = name]
    /\ UNCHANGED <<object, m_thread, m_id, joining, pthread>>

Defined == \A t \in Handle : pc[t] # "wild"

Next ==
    /\ Defined
    /\ \/ \E t \in Handle, name \in Name : Construct(t, name)
       \/ \E t \in Handle : Join(t) \/ Joined(t) \/ Destroy(t) \/ Run(t)
       \/ \E a \in Handle \cup {Main}, name \in Name : SetName(a, name)

\* The system runs every thread, callbacks return, and pthread_join returns once
\* its thread has ended.
Spec ==
    /\ Init
    /\ [][Next]_vars
    /\ \A t \in Handle : WF_vars(Defined /\ Run(t)) /\ WF_vars(Defined /\ Joined(t))

-----------------------------------------------------------------------------
\* An owner that joins an object before it destroys it is safe, whatever it does to
\* its other objects: join() does not let go before run() and the callback have used
\* the object for the last time (the destructor alone, which detaches, does not wait).
ObjectOutlivesUse ==
    \A t \in Joining :
        /\ pc[t] \in {"enter", "id", "label", "take", "call"} => object[t] = "alive"
        /\ pc[t] # "wild"

\* Whatever the order of joins, repeated joins and destructions, each thread is
\* given up exactly once: joined or detached, never both, never twice, and no
\* object goes away leaving its thread joinable (m_thread is set to 0 by join).
ReapedOnce ==
    \A t \in Handle :
        /\ pthread[t] # "misused"
        /\ object[t] = "gone" => pthread[t] # "joinable"

\* In a callback whose object still exists Thread::GetName() and GetThis()->getName()
\* agree and getId() is known, whatever names other threads set meanwhile: what fun1 of
\* tests/test_thread.cc prints.
CallbackKnowsItself ==
    \A t \in Handle :
        pc[t] = "call" /\ object[t] = "alive" => m_id[t] /\ t_thread_name[t] = m_name[t]

\* Who is in pthread_join waits for a thread that was started and that nobody else
\* gave up, and the object join() goes back to is still there, so the wait ends with
\* the callback and not before (Thread::join, and the constructor that fails).
JoinAwaitsThread ==
    \A t \in Handle :
        joining = t => pc[t] # "none" /\ pthread[t] = "joinable" /\ object[t] = "alive"

\* The owner that joins a thread gets past it, unless some thread uses an object that
\* is gone.
JoinReturns == []Defined => \A t \in Handle : joining = t ~> joining # t

\* What holds only if the owner joins all objects: the destructor, which detaches a
\* thread that may still be at its first line, leaves it without its object.
NeverWild == Defined


\* Thread keeps the promises of JoinHandle.
Promise == INSTANCE JoinHandle WITH
    Thread <- Handle,
    work   <- [t \in Handle |-> CASE pc[t] = "none" -> "none"
                                  [] pc[t] = "done" -> "over"
                                  [] OTHER          -> "running"],
    handle <- [t \in Handle |-> IF pthread[t] = "joinable" THEN "held" ELSE pthread[t]]

ImplementsJoinHandle == Promise!Spec

=============================================================================
