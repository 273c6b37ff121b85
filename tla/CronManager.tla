---------------------------- MODULE CronManager ----------------------------
(***************************************************************************)
(* Scheduled jobs of the client: CronManager and execute_job in            *)
(* crates/client/src/cron.rs, and the default TimerScheduleDriver in       *)
(* config.rs.                                                              *)
(*                                                                         *)
(* jobs and timers are concurrent maps, and job flags are atomics, so a    *)
(* step is one access to them.  On a current-thread runtime a task is not  *)
(* interrupted between two awaits and the calls of the API, which are      *)
(* synchronous, are not interrupted at all (Turn).  Timers, runs of the    *)
(* queued re-run and calls of a custom driver are tasks.  Time is left     *)
(* open: a timer may fire whenever it sleeps.                              *)
(***************************************************************************)
EXTENDS Naturals

CONSTANTS
    Ids,      \* job ids
    Tasks,    \* bound: tasks that exist at one time
    Users,    \* threads that call the API
    Scenes    \* bounds on what they do, see Scene

\* schedules, cancels: how often a job is scheduled and cancelled; fires: how
\* often a custom driver calls a job's callback on its own; kinds, overlaps:
\* of the jobs scheduled; threaded: the runtime has several worker threads.
Scene == [schedules : Nat, cancels : Nat, fires : Nat, disposes : Nat,
          kinds : SUBSET {"cron", "once"}, overlaps : SUBSET {"allow", "skip", "queue"},
          threaded : BOOLEAN]

VARIABLES
    jobs,       \* id -> its CronJobState, or NoJob
    timers,     \* id -> the cancellation token in the driver's registry, or 0
    cancelled,  \* tokens that were cancelled
    nextToken,
    task,       \* task -> see Free
    user,       \* API thread -> its call, see NoApi
    disposed,   \* dispose was called
    scene       \* what is left of the bounds

vars == <<jobs, timers, cancelled, nextToken, task, user, disposed, scene>>

NoJob == [kind |-> "none"]
\* at: "free"; "sleep" (the timer); "fired" and "ready" (about to run
\*     execute_job, from the timer or as a task of its own); "queue", "mark"
\*     (the overlap check said so); "run" (the action); "after", "remove"
\*     (the timer task, after its callback)
\* token: that of a timer task, 0 for a task of its own
Free == [at |-> "free"]
\* at: "idle"; scheduling: "armed", "replace", "insert"; "cancel"; disposing:
\*     "dispose", "clear", "driver"
NoApi == [at |-> "idle"]

Init ==
    /\ jobs = [id \in Ids |-> NoJob]
    /\ timers = [id \in Ids |-> 0]
    /\ cancelled = {} /\ nextToken = 1
    /\ task = [t \in Tasks |-> Free]
    /\ user = [u \in Users |-> NoApi]
    /\ disposed = FALSE
    /\ scene \in Scenes

---------------------------------------------------------------------------
Spend(what) ==
    /\ scene[what] > 0
    /\ scene' = [scene EXCEPT ![what] = @ - 1]

\* On a current-thread runtime nobody else is between two of its awaits.
Turn(x) ==
    \/ scene.threaded
    \/ /\ \A t \in Tasks \ {x} : task[t].at \in {"free", "sleep", "ready", "run"}
       /\ \A u \in Users \ {x} : user[u].at = "idle"

\* The first free task of the bound.
Slot == CHOOSE t \in Tasks : task[t].at = "free"
HasSlot == \E t \in Tasks : task[t].at = "free"

---------------------------------------------------------------------------
(* TimerScheduleDriver. *)

\* A variant that forgets to cancel the token it removes.
MutDriverCancel(id) ==
    /\ timers' = [timers EXCEPT ![id] = 0]
    /\ UNCHANGED cancelled

\* The map loses id's token, which is cancelled.
DriverCancel(id) ==
    /\ timers' = [timers EXCEPT ![id] = 0]
    /\ cancelled' = cancelled \cup ({timers[id]} \ {0})

\* The timer task: select on the token and the sleep, then once more the
\* token.
TimerFires(t) ==
    /\ Turn(t) /\ task[t].at = "sleep"
    /\ task' = [task EXCEPT ![t] = IF @.token \in cancelled THEN Free
                                   ELSE [@ EXCEPT !.at = "fired"]]
    /\ UNCHANGED <<jobs, timers, cancelled, nextToken, user, disposed, scene>>

\* A variant that re-arms one-shots and drops cron entries.
MutStillScheduled(t) == task[t].kind # "cron" /\ timers[task[t].id] # 0

\* After the callback a cron entry that is still in the registry sleeps
\* again, whichever token the registry has.  Everything else is removed from
\* it: a one-shot, and a cron expression without another run.
StillScheduled(t) == task[t].kind = "cron" /\ timers[task[t].id] # 0

TimerAfter(t) ==
    /\ Turn(t) /\ task[t].at = "after"
    /\ task' = [task EXCEPT ![t].at = IF StillScheduled(t) THEN "sleep" ELSE "remove"]
    /\ UNCHANGED <<jobs, timers, cancelled, nextToken, user, disposed, scene>>

TimerRemove(t) ==
    /\ Turn(t) /\ task[t].at = "remove"
    /\ timers' = [timers EXCEPT ![task[t].id] = 0]
    /\ task' = [task EXCEPT ![t] = Free]
    /\ UNCHANGED <<jobs, cancelled, nextToken, user, disposed, scene>>

---------------------------------------------------------------------------
(* execute_job. *)

Ended(t) == IF task[t].token = 0 THEN Free ELSE [task[t] EXCEPT !.at = "after"]

\* A variant that runs at once what it should queue.
MutVerdict(job) == IF job # NoJob /\ job.running /\ job.overlap = "skip" THEN "return" ELSE "mark"

\* The overlap policy, decided on one look at the job.
Verdict(job) ==
    IF job = NoJob \/ ~job.running \/ job.overlap = "allow" THEN "mark"
    ELSE IF job.overlap = "skip" THEN "return" ELSE "queue"

Check(t) ==
    LET verdict == Verdict(jobs[task[t].id]) IN
    /\ Turn(t) /\ task[t].at \in {"ready", "fired"}
    /\ task' = [task EXCEPT ![t] = IF verdict = "return" THEN Ended(t)
                                   ELSE [@ EXCEPT !.at = verdict]]
    /\ UNCHANGED <<jobs, timers, cancelled, nextToken, user, disposed, scene>>

Registered(id) == jobs[id] # NoJob

Queue(t) ==
    LET id == task[t].id IN
    /\ Turn(t) /\ task[t].at = "queue"
    /\ jobs' = [jobs EXCEPT ![id] = IF Registered(id) THEN [@ EXCEPT !.queued = TRUE] ELSE @]
    /\ task' = [task EXCEPT ![t] = Ended(t)]
    /\ UNCHANGED <<timers, cancelled, nextToken, user, disposed, scene>>

Mark(t) ==
    LET id == task[t].id IN
    /\ Turn(t) /\ task[t].at = "mark"
    /\ jobs' = [jobs EXCEPT ![id] = IF Registered(id) THEN [@ EXCEPT !.running = TRUE] ELSE @]
    /\ task' = [task EXCEPT ![t] = IF Registered(id) THEN [@ EXCEPT !.at = "run"] ELSE Ended(t)]
    /\ UNCHANGED <<timers, cancelled, nextToken, user, disposed, scene>>

\* A variant that leaves the job marked as running.
MutFinished(job) == [job EXCEPT !.queued = FALSE]

Finished(job) == [job EXCEPT !.running = FALSE, !.queued = FALSE]

\* The action is through: whatever entry the id has now is marked as not
\* running, and a deferred run becomes a task.
Finish(t) ==
    LET id == task[t].id
        drain == Registered(id) /\ jobs[id].queued IN
    /\ Turn(t) /\ task[t].at = "run"
    /\ jobs' = [jobs EXCEPT ![id] = IF Registered(id) THEN Finished(@) ELSE @]
    /\ IF drain
       THEN /\ HasSlot
            /\ task' = [task EXCEPT ![t] = Ended(t),
                                    ![Slot] = [at |-> "ready", id |-> id, token |-> 0]]
       ELSE task' = [task EXCEPT ![t] = Ended(t)]
    /\ UNCHANGED <<timers, cancelled, nextToken, user, disposed, scene>>

\* A custom driver calls the callback of an entry it was given.
DriverFires(id) ==
    /\ Turn(0) /\ timers[id] # 0 /\ HasSlot
    /\ Spend("fires")
    /\ task' = [task EXCEPT ![Slot] = [at |-> "ready", id |-> id, token |-> 0]]
    /\ UNCHANGED <<jobs, timers, cancelled, nextToken, user, disposed>>

---------------------------------------------------------------------------
(* schedule_cron. *)

\* Nothing of an earlier job of this id is left, and nobody else is at it.
Unused(id) ==
    /\ jobs[id] = NoJob
    /\ \A t \in Tasks : task[t].at = "free" \/ task[t].id # id
    /\ \A u \in Users : user[u].at = "idle"

\* driver.schedule: the new token replaces id's old one, which is cancelled,
\* and its timer task starts.  fresh: whether the id was unused.
Schedule(u, id, kind, overlap) ==
    /\ Turn(u) /\ user[u].at = "idle" /\ HasSlot
    /\ Spend("schedules")
    /\ cancelled' = cancelled \cup ({timers[id]} \ {0})
    /\ timers' = [timers EXCEPT ![id] = nextToken]
    /\ nextToken' = nextToken + 1
    /\ task' = [task EXCEPT ![Slot] = [at |-> "sleep", id |-> id, token |-> nextToken, kind |-> kind,
                                    fresh |-> Unused(id)]]
    /\ user' = [user EXCEPT ![u] =
                  [at |-> "armed", id |-> id,
                   job |-> [kind |-> kind, overlap |-> overlap, running |-> FALSE,
                            queued |-> FALSE, token |-> nextToken, fresh |-> Unused(id)]]]
    /\ UNCHANGED <<jobs, disposed>>

\* An entry the id already has is taken out, and its timer handle cancelled.
\* The handle is the id.
Remove(u) ==
    LET id == user[u].id IN
    /\ Turn(u) /\ user[u].at = "armed"
    /\ jobs' = [jobs EXCEPT ![id] = NoJob]
    /\ user' = [user EXCEPT ![u].at = IF Registered(id) THEN "replace" ELSE "insert"]
    /\ UNCHANGED <<timers, cancelled, nextToken, task, disposed, scene>>

Replace(u) ==
    /\ Turn(u) /\ user[u].at = "replace"
    /\ DriverCancel(user[u].id)
    /\ user' = [user EXCEPT ![u].at = "insert"]
    /\ UNCHANGED <<jobs, nextToken, task, disposed, scene>>

\* The insert does nothing if another thread was faster.  The job is not
\* fresh if another call got at its timer in between.
Insert(u) ==
    LET id == user[u].id
        untouched == timers[id] = user[u].job.token IN
    /\ Turn(u) /\ user[u].at = "insert"
    /\ jobs' = [jobs EXCEPT ![id] = IF Registered(id) THEN @
                                   ELSE [user[u].job EXCEPT !.fresh = @ /\ untouched]]
    /\ user' = [user EXCEPT ![u] = NoApi]
    /\ UNCHANGED <<timers, cancelled, nextToken, task, disposed, scene>>

---------------------------------------------------------------------------
(* cancel_job and dispose. *)

CancelJob(u, id) ==
    /\ Turn(u) /\ user[u].at = "idle" /\ Registered(id)
    /\ Spend("cancels")
    /\ jobs' = [jobs EXCEPT ![id] = NoJob]
    /\ user' = [user EXCEPT ![u] = [at |-> "cancel", id |-> id]]
    /\ UNCHANGED <<timers, cancelled, nextToken, task, disposed>>

CancelTimer(u) ==
    /\ Turn(u) /\ user[u].at = "cancel"
    /\ DriverCancel(user[u].id)
    /\ user' = [user EXCEPT ![u] = NoApi]
    /\ UNCHANGED <<jobs, nextToken, task, disposed, scene>>

\* dispose cancels the timers of the registered jobs one by one, clears the
\* registry, and has the driver cancel whatever timers it still has.
Dispose(u) ==
    /\ Turn(u) /\ user[u].at = "idle" /\ ~disposed
    /\ Spend("disposes")
    /\ disposed' = TRUE
    /\ user' = [user EXCEPT ![u] = [at |-> "dispose", left |-> {id \in Ids : Registered(id)}]]
    /\ UNCHANGED <<jobs, timers, cancelled, nextToken, task>>

DisposeTimer(u) ==
    /\ Turn(u) /\ user[u].at = "dispose"
    /\ \E id \in user[u].left :
          /\ DriverCancel(id)
          /\ user' = [user EXCEPT ![u].left = @ \ {id}]
    /\ UNCHANGED <<jobs, nextToken, task, disposed, scene>>

DisposeJobs(u) ==
    /\ Turn(u) /\ user[u].at = "dispose" /\ user[u].left = {}
    /\ jobs' = [id \in Ids |-> NoJob]
    /\ user' = [user EXCEPT ![u] = [at |-> "driver"]]
    /\ UNCHANGED <<timers, cancelled, nextToken, task, disposed, scene>>

DisposeDriver(u) ==
    /\ Turn(u) /\ user[u].at = "driver"
    /\ cancelled' = cancelled \cup ({timers[id] : id \in Ids} \ {0})
    /\ timers' = [id \in Ids |-> 0]
    /\ user' = [user EXCEPT ![u] = NoApi]
    /\ UNCHANGED <<jobs, nextToken, task, disposed, scene>>

---------------------------------------------------------------------------
TaskStep(t) == TimerFires(t) \/ TimerAfter(t) \/ TimerRemove(t) \/ Check(t) \/ Queue(t) \/ Mark(t)
UserStep(u) ==
    \/ Remove(u) \/ Replace(u) \/ Insert(u) \/ CancelTimer(u)
    \/ DisposeTimer(u) \/ DisposeJobs(u) \/ DisposeDriver(u)
JobCall(u) ==
    \/ \E id \in Ids, kind \in scene.kinds, overlap \in scene.overlaps : Schedule(u, id, kind, overlap)
    \/ \E id \in Ids : CancelJob(u, id)

Next ==
    \/ \E t \in Tasks : TaskStep(t) \/ Finish(t)
    \/ \E u \in Users : UserStep(u) \/ JobCall(u) \/ Dispose(u)
    \/ \E id \in Ids : DriverFires(id)

Spec == Init /\ [][Next]_vars

---------------------------------------------------------------------------
(* Properties. *)

Idle == \A u \in Users : user[u].at = "idle"
Runs(id) == {t \in Tasks : task[t].at = "run" /\ task[t].id = id}

\* The job has a timer: its id is in the driver's registry with a token that
\* is not cancelled and that some timer task carries.
Armed(id) ==
    /\ timers[id] \notin cancelled \cup {0}
    /\ \E t \in Tasks : task[t].at # "free" /\ task[t].token = timers[id]

\* Every variable has its type; an id in the registry has a token that was
\* handed out.
TypeOK ==
    /\ \A id \in Ids : Registered(id) =>
          jobs[id] \in [kind : {"cron", "once"}, overlap : {"allow", "skip", "queue"},
                        running : BOOLEAN, queued : BOOLEAN,
                        token : 1..(nextToken - 1), fresh : BOOLEAN]
    /\ timers \in [Ids -> 0..(nextToken - 1)]
    /\ cancelled \subseteq 1..(nextToken - 1)
    /\ \A t \in Tasks : task[t].at # "free" => task[t].id \in Ids /\ task[t].token \in 0..(nextToken - 1)
    /\ \A t \in Tasks : task[t].at \in {"sleep", "after", "remove"} => task[t].token # 0

\* A recurring job, scheduled under an id nothing else used, is in the registry
\* of a VM that is not disposed of, and nobody is at it.
Steady(id) ==
    Registered(id) /\ jobs[id].kind = "cron" /\ jobs[id].fresh /\ Idle /\ ~disposed

\* A recurring job that was scheduled under an unused id has a timer as long
\* as it is registered, whatever runs, cancels and re-arms there are.
NeverUnarmed ==
    \A id \in Ids :
        Steady(id) => Armed(id)

\* A timer that will fire is in the registry, where cancel and dispose find
\* it.
TimersReachable ==
    \A t \in Tasks :
        task[t].at = "sleep" /\ task[t].fresh /\ task[t].token \notin cancelled =>
            timers[task[t].id] = task[t].token

\* The overlap policies hold on a current-thread runtime: a job that may not
\* overlap has one run at most, it says it is running exactly while it is,
\* and a deferred run has an active one that will start it.
PoliciesKept ==
    \A id \in Ids :
        ~scene.threaded /\ Registered(id) /\ jobs[id].fresh /\ jobs[id].overlap # "allow" =>
            /\ \A t, s \in Runs(id) : t = s
            /\ jobs[id].running <=> Runs(id) # {}
            /\ jobs[id].queued => Runs(id) # {}

\* A recurring job that stays registered runs again and again.
KeepsFiring ==
    \A id \in Ids :
        []<>(Runs(id) # {} \/ ~Steady(id))
=============================================================================
