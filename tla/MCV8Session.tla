---------------------------- MODULE MCV8Session ----------------------------
(***************************************************************************)
(* The bounds of the runs of V8Session: one session that makes two bridge  *)
(* calls, two sessions that share one slot, and one session that is        *)
(* executed several times with different bridge codes.                     *)
(***************************************************************************)
EXTENDS V8Session

MCBudgets ==
    { [sends |-> 2, creates |-> 1, calls |-> 2, msgs |-> {Exec("a"), Stream, Term}],
      [sends |-> 1, creates |-> 2, calls |-> 1, msgs |-> {Exec("a")}],
      [sends |-> 2, creates |-> 1, calls |-> 1, msgs |-> {Exec("a"), Exec("b"), Globals}] }

MCOneSession == { [sends |-> 1, creates |-> 1, calls |-> 2, msgs |-> {Exec("a")}] }
=============================================================================
