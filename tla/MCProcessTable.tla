--------------------------- MODULE MCProcessTable ---------------------------
(***************************************************************************)
(* The scenes of the model-checked instances of ProcessTable, and the      *)
(* symmetry of the threads that call into the table.                       *)
(***************************************************************************)
EXTENDS ProcessTable, TLC

For(w, sel, p, fl, nh) ==
    [op |-> "for", waiter |-> w, selector |-> sel, of |-> p, flags |-> fl, nohang |-> nh]

Quiet(n) == [pids |-> 1..n, parents |-> 1..n, overlap |-> TRUE,
             ends |-> {"driver", "exit_process", "dispose"},
             signals |-> {}, masks |-> {}, maskers |-> {}, movers |-> {}, waits |-> {}]

\* Exits, waits, dispose and the reaper: a plain waitpid, and the wait of a
\* parent for any of its children, while another thread reports exits.
ExitWaits(n) == [Quiet(n) EXCEPT !.waits = {[op |-> "pid", pid |-> 2], For(1, "any", 1, {}, FALSE)}]

\* Orphaned process groups: process 3 can move to a group or session of its own.
Jobs == [Quiet(3) EXCEPT !.overlap = FALSE, !.ends = {"driver"}, !.signals = {"STOP"}, !.movers = {3}]

\* Stops, continuations and masks, with waits for them by pid, by group and by
\* the own group; the mask names SIGCONT, which cannot be blocked.
Stops == [Quiet(2) EXCEPT
             !.ends = {"driver"},
             !.signals = {"TSTP", "CONT"},
             !.masks = {{"TSTP", "CONT", "CHLD"}},
             !.maskers = {1},
             !.waits = {For(1, "group", 1, {"stopped"}, FALSE),
                        For(1, "own", 1, {"continued"}, TRUE),
                        For(1, "pid", 2, {"stopped", "continued"}, TRUE)}]

SafetyScenes == {Jobs, Stops, ExitWaits(2),
                 [ExitWaits(3) EXCEPT !.ends = {"driver", "dispose"}]}
LiveScenes == {ExitWaits(2)}

ThreadSymmetry == Permutations(Threads)
=============================================================================
