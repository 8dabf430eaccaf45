----------------------------- MODULE JoinHandle -----------------------------
(***************************************************************************)
(* What Thread promises its owner: a callback runs once, in a thread that  *)
(* is started at most once; the handle is given up once, by a join, which  *)
(* returns only when the callback is over, or by a detach.                 *)
(***************************************************************************)
CONSTANT Thread

VARIABLES
    work,    \* the callback: "none", "running" or "over"
    handle   \* "none", "held", "joined" or "detached"

vars == <<work, handle>>

Init ==
    /\ work = [t \in Thread |-> "none"]
    /\ handle = [t \in Thread |-> "none"]

Start(t) ==
    /\ work[t] = "none"
    /\ work' = [work EXCEPT ![t] = "running"]
    /\ handle' = [handle EXCEPT ![t] = "held"]

Finish(t) ==
    /\ work[t] = "running"
    /\ work' = [work EXCEPT ![t] = "over"]
    /\ UNCHANGED handle

Join(t) ==
    /\ work[t] = "over"
    /\ handle[t] = "held"
    /\ handle' = [handle EXCEPT ![t] = "joined"]
    /\ UNCHANGED work

Detach(t) ==
    /\ handle[t] = "held"
    /\ handle' = [handle EXCEPT ![t] = "detached"]
    /\ UNCHANGED work

Next == \E t \in Thread : Start(t) \/ Finish(t) \/ Join(t) \/ Detach(t)

Spec == Init /\ [][Next]_vars

=============================================================================
