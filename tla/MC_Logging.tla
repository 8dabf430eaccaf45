------------------------------ MODULE MC_Logging ------------------------------
(* Two threads, root with its two consoles and one other logger.               *)
EXTENDS Logging
CONSTANTS t1, t2, root, system
MCThread == {t1, t2}
MCLogger == {root, system}
MCOne == {t1}
MCLevels == {INFO, ERROR}
=============================================================================
