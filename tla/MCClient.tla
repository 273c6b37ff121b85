------------------------------ MODULE MCClient ------------------------------
EXTENDS Client

Silent == [request |-> 0, exec |-> 0, spawn |-> 0, job |-> 0,
           abandon |-> 0, timeout |-> 0, output |-> 0, die |-> 0]
Jobless == [schedules |-> 0, cancels |-> 0, fires |-> 0, disposes |-> 0,
            kinds |-> {"cron"}, overlaps |-> {"skip"}, threaded |-> TRUE]

WireScene(w) == [wire |-> w, cron |-> Jobless, action |-> "exec"]
CronScene(c) == [wire |-> Silent, cron |-> c, action |-> "callback"]

\* Two calls side by side, on a sidecar that may die.
Pair(k, l) == WireScene([[Silent EXCEPT ![k] = 1, !["die"] = 1] EXCEPT ![l] = @ + 1])
\* Calls that are abandoned or time out, so that late answers arrive.
Late == WireScene([Silent EXCEPT !["exec"] = 1, !["request"] = 1, !["abandon"] = 1, !["timeout"] = 1])
\* Output that makes receivers lag.
Busy == WireScene([Silent EXCEPT !["exec"] = 1, !["output"] = 2])

\* Jobs come and go while others run.
Registry == CronScene([Jobless EXCEPT !.schedules = 2, !.cancels = 1, !.kinds = {"cron", "once"}])
\* A driver that fires while a run is active.
Overlap == CronScene([Jobless EXCEPT !.schedules = 1, !.cancels = 1, !.fires = 2,
                                     !.overlaps = {"allow", "skip", "queue"}, !.threaded = FALSE])

\* A job over the wire, a shutdown, and a sidecar that may die.
Whole(threaded) ==
    [wire |-> [Silent EXCEPT !["job"] = 1, !["die"] = 1],
     cron |-> [Jobless EXCEPT !.schedules = 1, !.disposes = 1, !.threaded = threaded],
     action |-> "exec"]

MCPlans ==
    {Pair("request", "request"), Pair("exec", "request"), Pair("spawn", "spawn"), Late, Busy,
     Registry, Overlap, Whole(TRUE), Whole(FALSE)}
ShutdownPlans == {Whole(TRUE)}
=============================================================================
