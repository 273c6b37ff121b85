------------------------------- MODULE MCPty -------------------------------
(***************************************************************************)
(* Bounds for Pty: two readers of the program's side, one of the           *)
(* terminal's side, and three scenes: typing in canonical mode, switching  *)
(* between the raw modes under several readers, and polling.               *)
(***************************************************************************)
EXTENDS Pty

CONSTANTS s1, s2, m1

MCReaderEnd == [r \in Readers |-> IF r = m1 THEN "master" ELSE "slave"]

Mode(canon, echo, isig) == [icanon |-> canon, echo |-> echo, isig |-> isig, foreground |-> isig]
Cooked == Mode(TRUE, TRUE, TRUE)
Quietly == Mode(TRUE, FALSE, TRUE)
Cbreak == Mode(FALSE, TRUE, FALSE)
Raw == Mode(FALSE, FALSE, FALSE)

Editing ==
    [typed |-> {<<"x", "cr">>, <<"x", "x">>, <<"erase", "eof">>, <<"x", "intr">>},
     printed |-> {<<"nl">>}, modes |-> {Cooked, Quietly}, lengths |-> {0, 2}, wants |-> {},
     writes |-> 3, reads |-> 2, switches |-> 0, polls |-> 0, closes |-> 0]

Switching ==
    [typed |-> {<<"x", "cr">>}, printed |-> {<<"cr", "nl">>}, modes |-> {Cooked, Cbreak, Raw},
     lengths |-> {1}, wants |-> {},
     writes |-> 3, reads |-> 2, switches |-> 1, polls |-> 0, closes |-> 2]

Polling ==
    [typed |-> {<<"x", "x">>}, printed |-> {<<"x">>}, modes |-> {Cbreak, Raw}, lengths |-> {2},
     wants |-> {[e \in {"master"} |-> {"in"}], [e \in {"slave"} |-> {"in", "out"}],
                [e \in {"master"} |-> {"out"}], [e \in Ends |-> {"in"}]},
     writes |-> 3, reads |-> 2, switches |-> 0, polls |-> 1, closes |-> 1]

MCScenes == {Editing, Switching, Polling}
=============================================================================
