-------------------------- MODULE MC_FileLogAppender --------------------------
(* Two kinds of events, four of them between two openings of the file.         *)
EXTENDS FileLogAppender
CONSTANTS e1, e2
MCEvent == {e1, e2}
=============================================================================
