------------------------------ MODULE MC_Logger -------------------------------
(* Root, a logger of the manager and one made by the program; a file and a     *)
(* console they may share.                                                     *)
EXTENDS Logger
CONSTANTS root, system, own, f, s, p0, p1, bad
MCManaged == {root, system}
MCFree == {own}
MCNone == {}
MCFile == {f}
MCStdout == {s}
MCGood == {p0, p1}
MCBad == {bad}
MCLevels == {ERROR}
MCEvents == {INFO, ERROR}
=============================================================================
