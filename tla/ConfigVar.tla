----------------------------- MODULE ConfigVar ------------------------------
(***************************************************************************)
(* One ConfigVar<T>: its value and the listeners setValue calls before it  *)
(* stores a new value.  A listener is any code: until it returns it may    *)
(* register and remove listeners, set the same variable again (a second    *)
(* call on top of the first one), or throw.  Which of these the listeners  *)
(* of a program do never changes; Moves has the programs considered.       *)
(*                                                                         *)
(* The loop of setValue holds an iterator on the node of the listener that *)
(* runs.  A listener may erase that node too, and when it then returns the *)
(* loop goes on from an erased node, which is undefined: the model stops.  *)
(* The variable is used by one thread.                                     *)
(***************************************************************************)
EXTENDS Integers, Sequences

CONSTANTS
    Key,       \* keys under which listeners are registered
    Value,     \* values of T
    Default,   \* default_value of the constructor
    Moves,     \* what listeners may do: subsets of Move
    MaxDepth   \* bound on calls of setValue inside one another

\* Register listeners, remove any but the one that acts, remove that one too, set the
\* variable, throw.
Move == {"add", "del", "own", "set", "throw"}

ASSUME ConfigVarAssumption ==
    /\ Key \subseteq Nat
    /\ Default \in Value
    /\ Moves \subseteq SUBSET Move
    /\ MaxDepth \in Nat \ {0}

VARIABLES
    m_val,   \* ConfigVar::m_val
    m_cbs,   \* keys of ConfigVar::m_cbs
    moves,   \* what the listeners of this program do
    calls,   \* the calls of setValue in progress, the innermost one last
    wild,    \* a loop has gone on from an erased node
    news     \* history: the last new value each registered listener was told

vars == <<m_val, m_cbs, moves, calls, wild, news>>

\* v: the argument; at: the key of the node the loop is at; lost: that node has been
\* erased; guarded: called by fromString or other code that catches; kept: the listeners
\* registered since the call began; told: the listeners called so far, with the old
\* value they were given.
Call ==
    [v : Value, at : Key, lost : BOOLEAN, guarded : BOOLEAN,
     kept : SUBSET Key, told : SUBSET (Key \X Value)]

TypeOK ==
    /\ m_val \in Value
    /\ m_cbs \subseteq Key
    /\ moves \in Moves
    /\ calls \in Seq(Call)
    /\ Len(calls) <= MaxDepth
    /\ \A k \in DOMAIN calls :
           calls[k].kept \subseteq m_cbs /\ (calls[k].lost \/ calls[k].at \in m_cbs)
    /\ wild \in BOOLEAN
    /\ DOMAIN news \subseteq m_cbs
    /\ \A k \in DOMAIN news : news[k] \in Value

Idle    == calls = <<>>
Top     == calls[Len(calls)]

\* The program acts between calls, a listener while it runs.
May(move) == Idle \/ move \in moves

Tell(key, v) == news' = [k \in DOMAIN news \cup {key} |-> IF k = key THEN v ELSE news[k]]

\* What erasing the nodes under keys does to the iterator of a call.
Lost_Ahead(c, keys) ==
    c.lost \/ \E key \in keys : key > c.at /\ \A k \in m_cbs : k > c.at => key <= k

Lost(c, keys) == c.lost \/ c.at \in keys

\* The listeners under keys are gone, or replaced by others; some of them are erased.
Forget(keys, erased) ==
    /\ calls' = [k \in DOMAIN calls |->
                    [calls[k] EXCEPT !.kept = calls[k].kept \ keys,
                                     !.lost = Lost(calls[k], erased)]]
    /\ news' = [k \in DOMAIN news \ keys |-> news[k]]

-----------------------------------------------------------------------------
Init ==
    /\ m_val = Default
    /\ m_cbs = {}
    /\ moves \in Moves
    /\ calls = <<>>
    /\ wild = FALSE
    /\ news = [k \in {} |-> Default]

\* What follows key in the map, in the state the map is in now.
Later_Second(key) == {k \in m_cbs : k > key + 1}
Later_All(key)    == m_cbs

Later(key) == {k \in m_cbs : k > key}

IsFirst(key, keys) == key \in keys /\ \A k \in keys : key <= k

\* setValue, or fromString with a text that converts: an equal value returns at
\* once; the first listener is called, in the order of the keys.
SetValue(v, guarded) ==
    /\ May("set")
    /\ Len(calls) < MaxDepth
    /\ v # m_val
    /\ \/ /\ m_cbs = {}
          /\ m_val' = v
          /\ UNCHANGED <<m_cbs, calls, news>>
       \/ \E key \in m_cbs :
          /\ IsFirst(key, m_cbs)
          /\ calls' = Append(calls, [v |-> v, at |-> key, lost |-> FALSE, guarded |-> guarded,
                                     kept |-> m_cbs, told |-> {<<key, m_val>>}])
          /\ Tell(key, v)
          /\ UNCHANGED <<m_val, m_cbs>>
    /\ UNCHANGED <<moves, wild>>

\* The innermost call, once it has called the listener under key.
Told(key) ==
    [v |-> Top.v, at |-> key, lost |-> FALSE, guarded |-> Top.guarded,
     kept |-> Top.kept, told |-> Top.told \cup {<<key, m_val>>}]

\* A listener returns and the next one is called ...
NextListener ==
    /\ ~Idle /\ ~Top.lost
    /\ \E key \in m_cbs :
          /\ IsFirst(key, Later(Top.at))
          /\ calls' = [calls EXCEPT ![Len(calls)] = Told(key)]
          /\ Tell(key, Top.v)
    /\ UNCHANGED <<m_val, m_cbs, moves, wild>>

\* ... or it was the last one and the value is stored.
Store_Lost ==
    /\ ~Idle /\ ~Top.lost
    /\ Later(Top.at) = {}
    /\ calls' = SubSeq(calls, 1, Len(calls) - 1)
    /\ UNCHANGED <<m_val, m_cbs, moves, wild, news>>

Store ==
    /\ ~Idle /\ ~Top.lost
    /\ Later(Top.at) = {}
    /\ m_val' = Top.v
    /\ calls' = SubSeq(calls, 1, Len(calls) - 1)
    /\ UNCHANGED <<m_cbs, moves, wild, news>>

\* The node it was called from has been erased.
Stray ==
    /\ ~Idle /\ Top.lost
    /\ wild' = TRUE
    /\ UNCHANGED <<m_val, m_cbs, moves, calls, news>>

Return == ~wild /\ (NextListener \/ Store \/ Stray)

\* A listener throws: every call up to and including the innermost one made by
\* fromString, which catches, is abandoned; all of them when there is none.
Abandon ==
    \E n \in 0 .. Len(calls) - 1 :
        /\ n = 0 \/ calls[n + 1].guarded
        /\ \A k \in n + 2 .. Len(calls) : ~calls[k].guarded
        /\ calls' = SubSeq(calls, 1, n)

Throw_Stores ==
    /\ ~Idle
    /\ "throw" \in moves
    /\ Abandon
    /\ m_val' = Top.v
    /\ UNCHANGED <<m_cbs, moves, wild, news>>

Throw ==
    /\ ~Idle
    /\ "throw" \in moves
    /\ Abandon
    /\ UNCHANGED <<m_val, m_cbs, moves, wild, news>>

\* m_cbs[key] = cb; a listener that is there is replaced in its node.  (One that
\* replaces or removes itself uses nothing it has captured from then on.)
AddListener(key) ==
    /\ May("add")
    /\ m_cbs' = m_cbs \cup {key}
    /\ Forget({key}, {})
    /\ UNCHANGED <<m_val, moves, wild>>

DelListener(key) ==
    /\ May(IF ~Idle /\ key = Top.at THEN "own" ELSE "del")
    /\ m_cbs' = m_cbs \ {key}
    /\ Forget({key}, {key})
    /\ UNCHANGED <<m_val, moves, wild>>

CleanListener ==
    /\ May("own")
    /\ m_cbs' = {}
    /\ Forget(m_cbs, m_cbs)
    /\ UNCHANGED <<m_val, moves, wild>>

Next ==
    /\ ~wild
    /\ \/ \E v \in Value, guarded \in BOOLEAN : SetValue(v, guarded)
       \/ Return
       \/ Throw
       \/ \E key \in Key : AddListener(key) \/ DelListener(key)
       \/ CleanListener

\* A listener that may return, does so in the end.
Spec == Init /\ [][Next]_vars /\ WF_vars(Return)

-----------------------------------------------------------------------------
\* A value is stored only after every listener that was registered when setValue
\* was called, and still is, has been called with this new value (the loop of
\* setValue, whatever the listeners add, remove or set meanwhile).
StoredAfterAll ==
    [][m_val' # m_val /\ ~Idle =>
          \A key \in Top.kept : \E old \in Value : <<key, old>> \in Top.told]_vars

\* ... and the old value it was given is the one that is replaced: the listener
\* was told of exactly this change, if no listener sets the variable again.
HeardThisChange ==
    [][m_val' # m_val /\ ~Idle /\ "set" \notin moves =>
          \A key \in Top.kept : <<key, m_val>> \in Top.told]_vars

\* The same whatever listeners do: whoever changes the variable, its listeners are
\* told (worklog line 42).  The code does not keep it.
HeardAnyChange ==
    [][m_val' # m_val /\ ~Idle => \A key \in Top.kept : <<key, m_val>> \in Top.told]_vars

\* Between calls, the value each listener was last told is the value of the
\* variable, so what it keeps from it is up to date, if listeners neither throw
\* nor set the variable again.
LastNewsIsValue ==
    Idle /\ moves \subseteq {"add", "del"} => \A key \in DOMAIN news : news[key] = m_val

\* Every call of setValue returns, whatever the listeners register or remove and
\* whether they throw, if they do not set the variable again; or its loop loses its way.
SetValueReturns == ~Idle /\ "set" \notin moves ~> Idle \/ wild

\* A listener may remove any other one, the next one and the one before included,
\* while setValue is in its loop over them: the loop never goes on from an erased
\* node, if no listener removes itself or sets the variable again (the iterator of
\* setValue, and erase in delListener).
LoopKeepsPlace == moves \cap {"own", "set"} = {} => ~wild

\* The same for listeners that set the variable, and so remove one that runs further
\* out, or for those that remove themselves.  The code keeps neither.
AlwaysKeepsPlace   == ~wild
KeepsPlaceNested   == "own" \notin moves => ~wild

=============================================================================
