---------------------------- MODULE MC_ConfigVar ----------------------------
(* Three keys: one below, one at and one above the listener that runs; listeners *)
(* that only register and remove others, that also throw, that also remove       *)
(* themselves, that do everything.                                               *)
EXTENDS ConfigVar

MCKey == 1 .. 3

MCMoves == {{"add", "del"}, {"add", "del", "throw"}, {"add", "del", "own"},
            {"add", "del", "set", "throw"}, Move}

=============================================================================
