----------------------------- MODULE MC_Thread ------------------------------
(* Two threads and their owner, who joins the first before he destroys it and *)
(* destroys the second when he likes; a given name and the default one.       *)
EXTENDS Thread

CONSTANTS t1, t2, empty, unknow, a

MCHandle == {t1, t2}
MCJoining == {t1}
MCName   == {empty, unknow, a}

=============================================================================
