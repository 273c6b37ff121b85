------------------------------- MODULE Client -------------------------------
(***************************************************************************)
(* The client library (crates/client): its connection to the sidecar       *)
(* (SidecarTransport), its scheduled jobs (CronManager), and AgentOs where *)
(* they meet.  A job's Exec action is an exec over the transport, made by  *)
(* the task that runs the job (run_action in cron.rs), and shutdown        *)
(* (agent_os.rs) disposes of the jobs, asks the sidecar to dispose of the  *)
(* VM and kills it.  Users call the API directly.                          *)
(***************************************************************************)
EXTENDS Naturals

CONSTANTS
    Ids, Tasks, Users,  \* of CronManager; the transport's callers are tasks and users
    EventCapacity,      \* of SidecarTransport
    Plans               \* records of a wire scene, a cron scene, and what jobs do

\* Tasks are those of the jobs, not of users; EVENT_CHANNEL_CAPACITY is 4096.
ASSUME UsersAssumption == Users # {} /\ Tasks \cap Users = {}
ASSUME CapacityAssumption == EventCapacity \in Nat \ {0}

VARIABLES
    child, inbox, alive, stdout, outbox, writer, reader, pending, nextId, call, events, wireScene,
    jobs, timers, cancelled, nextToken, task, user, disposed, cronScene,
    action,    \* what jobs do: "exec", or "callback", which stays in the client
    shutdown   \* the shutdown in progress: the user, and "no", "jobs", "vm" or "done"

Wire == INSTANCE SidecarTransport WITH
            Callers <- Tasks \cup Users, Scenes <- {s.wire : s \in Plans}, scene <- wireScene
Cron == INSTANCE CronManager WITH Scenes <- {s.cron : s \in Plans}, scene <- cronScene

\* The plans bound what CronManager's scenes bound.
ASSUME PlansAssumption == \A s \in Plans : s.cron \in Cron!Scene

wireVars == <<child, inbox, alive, stdout, outbox, writer, reader, pending, nextId, call, events,
              wireScene>>
cronVars == <<jobs, timers, cancelled, nextToken, task, user, disposed, cronScene>>
vars == <<wireVars, cronVars, action, shutdown>>

Init ==
    /\ Wire!Init /\ Cron!Init
    /\ \E s \in Plans : wireScene = s.wire /\ cronScene = s.cron /\ action = s.action
    /\ shutdown = [by |-> CHOOSE u \in Users : TRUE, at |-> "no"]

---------------------------------------------------------------------------
wireOnly == <<cronVars, action, shutdown>>   \* what a step of the transport leaves alone
cronOnly == <<wireVars, action, shutdown>>

\* The user is not in shutdown, and not in the middle of another call.
Outside(u) == shutdown.at \in {"no", "done"} \/ shutdown.by # u
Ready(u) == Outside(u) /\ call[u].at \in {"idle", "returned"} /\ user[u].at = "idle"

UserCall(u) ==
    /\ Ready(u)
    /\ \/ /\ Wire!Request(u) \/ Wire!Start(u, "exec") \/ Wire!Start(u, "spawn")
          /\ UNCHANGED wireOnly
       \/ Cron!JobCall(u) /\ UNCHANGED cronOnly

\* run_action for CronAction::Exec, with the default options: no timeout.
RunExec(t) ==
    /\ action = "exec" /\ task[t].at = "run" /\ call[t].at = "idle"
    /\ Wire!Spend("job") /\ Wire!Begin(t, "exec")
    /\ UNCHANGED wireOnly

\* The rest of execute_job, with the exec's result or its error.
ExecDone(t) ==
    /\ action = "exec" /\ call[t].at = "returned"
    /\ Cron!Finish(t)
    /\ call' = [call EXCEPT ![t] = Wire!Idle]
    /\ UNCHANGED <<child, inbox, alive, stdout, outbox, writer, reader, pending, nextId, events,
                   wireScene, action, shutdown>>

CallbackDone(t) == action = "callback" /\ Cron!Finish(t) /\ UNCHANGED cronOnly

\* shutdown: the jobs, then a DisposeVm request, then the child.  Only the
\* first caller gets past the disposed flag, and which user that is is fixed.
Shutdown ==
    /\ Ready(shutdown.by)
    /\ Cron!Dispose(shutdown.by)
    /\ shutdown' = [shutdown EXCEPT !.at = "jobs"]
    /\ UNCHANGED <<wireVars, action>>

DisposeVm ==
    /\ shutdown.at = "jobs" /\ user[shutdown.by].at = "idle"
    /\ Wire!Simple(shutdown.by)
    /\ shutdown' = [shutdown EXCEPT !.at = "vm"]
    /\ UNCHANGED <<cronVars, action, wireScene>>

KillChild ==
    /\ shutdown.at = "vm" /\ call[shutdown.by].at = "returned"
    /\ child' = "gone" /\ inbox' = {} /\ alive' = {}
    /\ shutdown' = [shutdown EXCEPT !.at = "done"]
    /\ UNCHANGED <<stdout, outbox, writer, reader, pending, nextId, call, events, wireScene,
                   cronVars, action>>

---------------------------------------------------------------------------
Callers == Tasks \cup Users
Shutting == DisposeVm \/ KillChild
JobStep == \E t \in Tasks :
    \/ Cron!TaskStep(t) /\ UNCHANGED cronOnly
    \/ RunExec(t) \/ ExecDone(t) \/ CallbackDone(t)
UserStep ==
    \/ \E u \in Users : Cron!UserStep(u) /\ UNCHANGED cronOnly
    \/ Shutting
WireStep ==
    /\ Wire!Write \/ Wire!ReaderStep \/ \E c \in Callers : Wire!CallStep(c)
    /\ UNCHANGED wireOnly

\* Of users, of a custom driver and of the sidecar.
Environment ==
    \/ \E u \in Users : UserCall(u)
    \/ Shutdown
    \/ /\ \E u \in Users : Outside(u) /\ (Wire!Abandon(u) \/ Wire!KillForTimeout(u))
       /\ UNCHANGED wireOnly
    \/ (\E id \in Ids : Cron!DriverFires(id)) /\ UNCHANGED cronOnly
    \/ Wire!SidecarStep /\ UNCHANGED wireOnly

Next == JobStep \/ UserStep \/ WireStep \/ Environment

\* While tasks of the transport, of the jobs or of the API can go on, one of
\* them is polled, and time passes.  (Weaker than fairness to every task, and
\* enough.)  Nothing is assumed of the sidecar.
Fairness == WF_vars(WireStep) /\ WF_vars(JobStep) /\ WF_vars(UserStep)

Spec == Init /\ [][Next]_vars
FairSpec == Spec /\ Fairness

---------------------------------------------------------------------------
(* Properties: those of the two parts, in the whole, and of shutdown. *)

\* The types of both parts; only tasks that run a job, and users, have calls.
TypeOK ==
    /\ Wire!TypeOK /\ Cron!TypeOK
    /\ \A t \in Tasks : call[t].at # "idle" => task[t].at = "run"

\* SidecarTransport: no request is lost or answered twice while the sidecar
\* lives; and the state of the client is well typed.
RequestsConserved == TypeOK /\ Wire!RequestsConserved

\* SidecarTransport: whoever awaits a request can be answered or rejected.
AwaitedPending == Wire!AwaitedPending

\* SidecarTransport: exec and spawn cannot miss the exit they wait for.
ExitNotMissed == Wire!ExitNotMissed

\* SidecarTransport: requests made before the disconnect is noticed come back.
InFlightRejected == Wire!InFlightRejected

\* CronManager: a recurring job under an id of its own stays armed.
NeverUnarmed == Cron!NeverUnarmed

\* CronManager: a timer that will fire can be cancelled.
TimersReachable == Cron!TimersReachable

\* CronManager: overlap policies on a current-thread runtime, also when a run
\* is an exec over the wire.
PoliciesKept == Cron!PoliciesKept

\* CronManager: a recurring job whose action ends runs again and again.
KeepsFiring == action = "callback" => Cron!KeepsFiring

\* shutdown returns when the sidecar is gone: its DisposeVm request is only a
\* best effort.
ShutdownReturns ==
    (child = "gone" /\ shutdown.at \in {"jobs", "vm"}) ~> (shutdown.at = "done")
=============================================================================
