---------------------------- MODULE ClientProofs ----------------------------
(***************************************************************************)
(* The client as a whole, for every number of jobs, tasks and users: each  *)
(* of its steps is a step of its jobs and one of its transport, or leaves  *)
(* these alone, so that what holds of the parts holds of the whole.        *)
(***************************************************************************)
EXTENDS Client, Sequences, TLAPS

\* shutdown runs in the task of a user.
ByUser == shutdown \in [by : Users, at : {"no", "jobs", "vm", "done"}]

\* The user who shuts down stays a user.
LEMMA ByUserKept ==
    ASSUME ByUser, [Next]_vars
    PROVE  ByUser'
<1>1. CASE Shutdown \/ DisposeVm \/ KillChild
  BY <1>1 DEF ByUser, Shutdown, DisposeVm, KillChild
<1>2. CASE UNCHANGED shutdown
  BY <1>2 DEF ByUser
<1>3. Shutdown \/ DisposeVm \/ KillChild \/ UNCHANGED shutdown
  <2>1. JobStep => UNCHANGED shutdown
    BY DEF JobStep, RunExec, ExecDone, CallbackDone, wireOnly, cronOnly
  <2>2. UserStep => DisposeVm \/ KillChild \/ UNCHANGED shutdown
    BY DEF UserStep, Shutting, cronOnly
  <2>3. WireStep => UNCHANGED shutdown
    BY DEF WireStep, wireOnly
  <2>4. Environment => Shutdown \/ UNCHANGED shutdown
    BY DEF Environment, UserCall, wireOnly, cronOnly
  <2>5. UNCHANGED vars => UNCHANGED shutdown
    BY DEF vars
  <2>6. QED
    BY <2>1, <2>2, <2>3, <2>4, <2>5 DEF Next
<1>4. QED
  BY <1>1, <1>2, <1>3

\* Every step of the client is a step of its jobs, or leaves them alone.
LEMMA CronSteps ==
    ASSUME ByUser, [Next]_vars
    PROVE  Cron!Next \/ UNCHANGED Cron!vars
<1>1. ASSUME UNCHANGED cronVars PROVE UNCHANGED Cron!vars
  BY Zenon, <1>1 DEF cronVars, Cron!vars
<1>2. ASSUME \/ \E t \in Tasks : Cron!TaskStep(t) \/ Cron!Finish(t)
             \/ \E u \in Users : Cron!UserStep(u) \/ Cron!JobCall(u) \/ Cron!Dispose(u)
             \/ \E id \in Ids : Cron!DriverFires(id)
      PROVE  Cron!Next
  BY Zenon, <1>2 DEF Cron!Next
<1>3. CASE JobStep
  BY Zenon, <1>1, <1>2, <1>3 DEF JobStep, RunExec, ExecDone, CallbackDone, wireOnly
<1>4. CASE UserStep
  BY Zenon, <1>1, <1>2, <1>4 DEF UserStep, Shutting, DisposeVm, KillChild
<1>5. CASE WireStep
  BY Zenon, <1>1, <1>5 DEF WireStep, wireOnly
<1>6. CASE Environment
  <2>1. shutdown.by \in Users
    BY DEF ByUser
  <2>2. ASSUME Shutdown PROVE Cron!Next
    BY Zenon, <1>2, <2>1, <2>2 DEF Shutdown
  <2>3. QED
    BY Zenon, <1>1, <1>2, <1>6, <2>2 DEF Environment, UserCall, wireOnly
<1>7. CASE UNCHANGED vars
  BY Zenon, <1>1, <1>7 DEF vars
<1>8. QED
  BY Zenon, <1>3, <1>4, <1>5, <1>6, <1>7 DEF Next

\* The steps of the client in its transport: those of a call, where a job that
\* is done leaves its call, and the child that is killed.
Leave(c) ==
    /\ call' = [call EXCEPT ![c] = Wire!Idle]
    /\ UNCHANGED <<child, inbox, alive, stdout, outbox, writer, reader, pending, nextId, events>>
Calls(c) ==
    \/ Wire!Simple(c) \/ Wire!Request(c) \/ \E k \in {"exec", "spawn"} : Wire!Begin(c, k) \/ Wire!Start(c, k)
    \/ Wire!Abandon(c) \/ Wire!KillForTimeout(c) \/ Wire!CallStep(c) \/ Leave(c)
Fails ==
    /\ child' = "gone" /\ inbox' = {} /\ alive' = {}
    /\ UNCHANGED <<stdout, outbox, writer, reader, pending, nextId, call, events>>
Steps ==
    \/ \E c \in Callers : Calls(c)
    \/ Wire!Write \/ Wire!ReaderStep \/ Wire!SidecarStep \/ Fails
    \/ UNCHANGED <<child, inbox, alive, stdout, outbox, writer, reader, pending, nextId, call, events>>

\* Every step of the client is one of its transport, or leaves it alone.
LEMMA WireSteps ==
    ASSUME ByUser, [Next]_vars
    PROVE  Steps
<1>1. ASSUME UNCHANGED wireVars PROVE Steps
  BY Zenon, <1>1 DEF wireVars, Steps
<1>2. ASSUME NEW c \in Tasks \cup Users,
             \/ Wire!Simple(c) \/ Wire!Request(c)
             \/ \E k \in {"exec", "spawn"} : Wire!Begin(c, k) \/ Wire!Start(c, k)
             \/ Wire!Abandon(c) \/ Wire!KillForTimeout(c) \/ Wire!CallStep(c)
      PROVE  Calls(c)
  BY Zenon, <1>2 DEF Calls
<1>3. ASSUME NEW c \in Tasks \cup Users, Calls(c) PROVE Steps
  BY Zenon, <1>3 DEF Steps, Callers
<1>4. CASE JobStep
  <2>1. PICK t \in Tasks : UNCHANGED wireVars \/ RunExec(t) \/ ExecDone(t)
    BY <1>4 DEF JobStep, CallbackDone, cronOnly
  <2>2. CASE RunExec(t)
    BY Zenon, <1>2, <1>3, <2>2 DEF RunExec
  <2>3. CASE ExecDone(t)
    <3>1. Leave(t)
      BY Zenon, <2>3 DEF ExecDone, Leave
    <3>2. QED
      BY Zenon, <1>3, <3>1 DEF Calls
  <2>4. QED
    BY Zenon, <1>1, <2>1, <2>2, <2>3
<1>5. CASE UserStep
  <2>1. CASE DisposeVm
    <3>1. shutdown.by \in Users /\ Wire!Simple(shutdown.by)
      BY <2>1 DEF DisposeVm, ByUser
    <3>2. QED
      BY Zenon, <1>2, <1>3, <3>1
  <2>2. CASE KillChild
    BY Zenon, <2>2 DEF KillChild, Steps, Fails
  <2>3. UNCHANGED wireVars \/ DisposeVm \/ KillChild
    BY Zenon, <1>5 DEF UserStep, Shutting, cronOnly
  <2>4. QED
    BY Zenon, <1>1, <2>1, <2>2, <2>3
<1>6. CASE WireStep
  BY Zenon, <1>2, <1>3, <1>6 DEF WireStep, Callers, Steps
<1>7. CASE Environment
  <2>1. ASSUME NEW u \in Users, UserCall(u) PROVE Steps
    BY Zenon, <1>1, <1>2, <1>3, <2>1 DEF UserCall, cronOnly
  <2>2. CASE Shutdown \/ UNCHANGED cronOnly
    BY Zenon, <1>1, <2>2 DEF Shutdown, cronOnly
  <2>3. ASSUME NEW u \in Users, Wire!Abandon(u) \/ Wire!KillForTimeout(u) PROVE Steps
    BY Zenon, <1>2, <1>3, <2>3
  <2>4. CASE Wire!SidecarStep
    BY Zenon, <2>4 DEF Steps
  <2>5. QED
    BY Zenon, <1>7, <2>1, <2>2, <2>3, <2>4 DEF Environment
<1>8. CASE UNCHANGED vars
  BY Zenon, <1>1, <1>8 DEF vars
<1>9. QED
  BY Zenon, <1>4, <1>5, <1>6, <1>7, <1>8 DEF Next

\* Only tasks that run a job over the wire have calls.
Serving == \A t \in Tasks : call[t].at # "idle" => task[t].at = "run" /\ action = "exec"

\* A step of a call changes no other call.
LEMMA CallsServe ==
    ASSUME call \in [Callers -> Wire!Call], Serving, NEW c \in Tasks \cup Users, Calls(c),
           UNCHANGED <<task, action>>,
           c \in Tasks => call[c].at # "idle" \/ (task[c].at = "run" /\ action = "exec")
    PROVE  Serving'
<1>1. \/ UNCHANGED call \/ \E r : call' = [call EXCEPT ![c] = r]
  BY Zenon DEF Calls, Leave, Wire!Simple, Wire!Request, Wire!Begin, Wire!Start, Wire!Ask, Wire!Abandon,
     Wire!KillForTimeout, Wire!CallStep, Wire!RequestReturns, Wire!ExecuteFailed, Wire!Started,
     Wire!StdinWritten, Wire!StdinClosed, Wire!Receive, Wire!Return
<1>2. ASSUME NEW t \in Tasks, t # c PROVE call'[t] = call[t]
  BY <1>1, <1>2 DEF Callers
<1>3. QED
  BY Zenon, <1>2 DEF Serving

\* The reader tells a call its answer, or that it lags.
LEMMA ReadServes ==
    ASSUME call \in [Callers -> Wire!Call], Serving, Wire!Write \/ Wire!ReaderStep \/ Wire!SidecarStep,
           UNCHANGED <<task, action>>
    PROVE  Serving'
<1>0. call \in [Tasks \cup Users -> Wire!Call]
  BY Zenon DEF Callers
<1>3. ASSUME NEW ids, NEW reply, Wire!Resolve(ids, reply), NEW c \in Tasks PROVE call'[c].at = call[c].at
  <2>1. call'[c] = call[c] \/ call'[c] = [call[c] EXCEPT !.reply = reply]
    BY Zenon, <1>3 DEF Wire!Resolve
  <2>2. [call[c] EXCEPT !.reply = reply].at = call[c].at
    BY <1>0 DEF Wire!Call
  <2>3. QED
    BY Zenon, <2>1, <2>2
<1>4. ASSUME NEW f, Wire!HandleEvent(f), NEW c \in Tasks PROVE call'[c].at = call[c].at
  <2>1. call'[c] = call[c] \/ call'[c] = [call[c] EXCEPT !.lagged = TRUE]
    BY Zenon, <1>4 DEF Wire!HandleEvent
  <2>2. [call[c] EXCEPT !.lagged = TRUE].at = call[c].at
    BY <1>0 DEF Wire!Call
  <2>3. QED
    BY Zenon, <2>1, <2>2
<1>5. ASSUME NEW c \in Tasks PROVE call'[c].at = call[c].at
  <2>1. CASE Wire!Read
    BY Zenon, <1>3, <1>4, <2>1 DEF Wire!Read, Wire!HandleResponse
  <2>2. CASE Wire!Disconnect
    BY Zenon, <1>3, <2>2 DEF Wire!Disconnect
  <2>3. CASE Wire!Write
    BY Zenon, <2>3 DEF Wire!Write
  <2>4. CASE Wire!SidecarStep
    <3>1. UNCHANGED call
      BY Zenon, <2>4 DEF Wire!SidecarStep, Wire!Answer, Wire!Output, Wire!Exit, Wire!Die
    <3>2. QED
      BY Zenon, <3>1
  <2>5. QED
    BY Zenon, <2>1, <2>2, <2>3, <2>4 DEF Wire!ReaderStep
<1>6. QED
  BY Zenon, <1>5 DEF Serving

\* A step of the jobs moves no task that runs one, but at its end.
LEMMA RunStays ==
    ASSUME DOMAIN task = Tasks, NEW t \in Tasks, task[t].at = "run",
           \/ \E s \in Tasks : Cron!TaskStep(s) \/ (Cron!Finish(s) /\ s # t)
           \/ \E u \in Users : Cron!UserStep(u) \/ Cron!JobCall(u) \/ Cron!Dispose(u)
           \/ \E id \in Ids : Cron!DriverFires(id)
    PROVE  task'[t].at = "run"
<1>1. ASSUME NEW s \in Tasks, task[s].at # "run", NEW r, task' = [task EXCEPT ![s] = r]
      PROVE  task'[t].at = "run"
  BY Zenon, <1>1
<1>2. CASE \E s \in Tasks : Cron!TaskStep(s)
  <2>1. PICK s \in Tasks : Cron!TaskStep(s)
    BY Zenon, <1>2
  <2>2. task[s].at # "run"
    BY Zenon, <2>1 DEF Cron!TaskStep, Cron!TimerFires, Cron!TimerAfter, Cron!TimerRemove, Cron!Check,
       Cron!Queue, Cron!Mark
  <2>3. \E r : task' = [task EXCEPT ![s] = r]
    BY Zenon, <2>1 DEF Cron!TaskStep, Cron!TimerFires, Cron!TimerAfter, Cron!TimerRemove, Cron!Check,
       Cron!Queue, Cron!Mark
  <2>4. QED
    BY Zenon, <1>1, <2>2, <2>3
<1>3. Cron!HasSlot => Cron!Slot # t
  <2>1. Cron!HasSlot => task[Cron!Slot].at = "free"
    BY Zenon DEF Cron!HasSlot, Cron!Slot
  <2>2. QED
    BY <2>1
<1>4. CASE \E s \in Tasks : Cron!Finish(s) /\ s # t
  <2>1. PICK s \in Tasks : Cron!Finish(s) /\ s # t
    BY Zenon, <1>4
  <2>2. task'[t] = task[t]
    BY Zenon, <1>3, <2>1 DEF Cron!Finish
  <2>3. QED
    BY Zenon, <2>2
<1>5. CASE \E id \in Ids : Cron!DriverFires(id)
  <2>1. task'[t] = task[t]
    BY Zenon, <1>3, <1>5 DEF Cron!DriverFires
  <2>2. QED
    BY Zenon, <2>1
<1>6. ASSUME NEW u, NEW id, NEW kind, NEW overlap, Cron!Schedule(u, id, kind, overlap)
      PROVE  task'[t].at = "run"
  <2>1. task'[t] = task[t]
    BY Zenon, <1>3, <1>6 DEF Cron!Schedule
  <2>2. QED
    BY Zenon, <2>1
<1>7. CASE \E u \in Users : Cron!UserStep(u) \/ Cron!JobCall(u) \/ Cron!Dispose(u)
  <2>1. ASSUME UNCHANGED task PROVE task'[t].at = "run"
    BY Zenon, <2>1
  <2>2. ASSUME NEW u \in Users, Cron!UserStep(u) PROVE UNCHANGED task
    BY Zenon, <2>2 DEF Cron!UserStep, Cron!Remove, Cron!Replace, Cron!Insert, Cron!CancelTimer,
       Cron!DisposeTimer, Cron!DisposeJobs, Cron!DisposeDriver
  <2>3. ASSUME NEW u \in Users, Cron!Dispose(u) \/ \E id \in Ids : Cron!CancelJob(u, id) PROVE UNCHANGED task
    BY Zenon, <2>3 DEF Cron!Dispose, Cron!CancelJob
  <2>4. QED
    BY Zenon, <1>6, <1>7, <2>1, <2>2, <2>3 DEF Cron!JobCall
<1>8. QED
  BY Zenon, <1>2, <1>4, <1>5, <1>7

\* So a task has a call only while it runs a job.
LEMMA ServingKept ==
    ASSUME call \in [Callers -> Wire!Call], DOMAIN task = Tasks, ByUser, Serving, [Next]_vars
    PROVE  Serving'
<1>1. ASSUME UNCHANGED call, UNCHANGED action,
             \A t \in Tasks : task[t].at = "run" /\ action = "exec" => task'[t].at = "run"
      PROVE  Serving'
  BY Zenon, <1>1 DEF Serving
<1>2. ASSUME NEW u \in Users,
             \/ Wire!Simple(u) \/ Wire!Request(u)
             \/ \E k \in {"exec", "spawn"} : Wire!Begin(u, k) \/ Wire!Start(u, k)
             \/ Wire!Abandon(u) \/ Wire!KillForTimeout(u),
             UNCHANGED <<task, action>>
      PROVE  Serving'
  <2>1. Calls(u) /\ u \notin Tasks
    BY Zenon, <1>2, UsersAssumption DEF Calls
  <2>2. QED
    BY Zenon, <1>2, <2>1, CallsServe
<1>3. CASE JobStep
  <2>1. PICK t \in Tasks : \/ Cron!TaskStep(t) /\ UNCHANGED cronOnly
                           \/ RunExec(t) \/ ExecDone(t) \/ CallbackDone(t)
    BY Zenon, <1>3 DEF JobStep
  <2>2. CASE Cron!TaskStep(t) /\ UNCHANGED cronOnly
    BY Zenon, <1>1, <2>2, RunStays DEF cronOnly, wireVars
  <2>3. CASE RunExec(t)
    <3>1. Wire!Begin(t, "exec") /\ UNCHANGED <<task, action>> /\ task[t].at = "run" /\ action = "exec"
      BY Zenon, <2>3 DEF RunExec, wireOnly, cronVars
    <3>2. Calls(t)
      BY Zenon, <3>1 DEF Calls
    <3>3. QED
      BY Zenon, <3>1, <3>2, CallsServe
  <2>4. CASE CallbackDone(t)
    <3>1. action # "exec" /\ UNCHANGED <<call, action>>
      BY <2>4 DEF CallbackDone, cronOnly, wireVars
    <3>2. QED
      BY Zenon, <1>1, <3>1
  <2>5. CASE ExecDone(t)
    <3>1. /\ Cron!Finish(t) /\ call' = [call EXCEPT ![t] = Wire!Idle] /\ UNCHANGED action
      BY Zenon, <2>5 DEF ExecDone
    <3>2. ASSUME NEW s \in Tasks, call'[s].at # "idle" PROVE task'[s].at = "run" /\ action = "exec"
      <4>1. CASE s = t
        <5>1. call'[s] = Wire!Idle
          BY <3>1, <4>1 DEF Callers
        <5>2. QED
          BY <3>2, <5>1 DEF Wire!Idle
      <4>2. CASE s # t
        <5>1. call'[s] = call[s]
          BY <3>1, <4>2 DEF Callers
        <5>2. task[s].at = "run" /\ action = "exec"
          BY Zenon, <3>2, <5>1 DEF Serving
        <5>3. QED
          BY Zenon, <3>1, <4>2, <5>2, RunStays
      <4>3. QED
        BY Zenon, <4>1, <4>2
    <3>3. QED
      BY Zenon, <3>1, <3>2 DEF Serving
  <2>6. QED
    BY Zenon, <2>1, <2>2, <2>3, <2>4, <2>5
<1>4. CASE UserStep
  <2>1. CASE \E u \in Users : Cron!UserStep(u) /\ UNCHANGED cronOnly
    BY Zenon, <1>1, <2>1, RunStays DEF cronOnly, wireVars
  <2>2. CASE DisposeVm
    <3>1. shutdown.by \in Users /\ Wire!Simple(shutdown.by) /\ UNCHANGED <<task, action>>
      BY <2>2 DEF DisposeVm, ByUser, cronVars
    <3>2. QED
      BY Zenon, <1>2, <3>1
  <2>3. CASE KillChild
    BY Zenon, <1>1, <2>3 DEF KillChild, cronVars
  <2>4. QED
    BY Zenon, <1>4, <2>1, <2>2, <2>3 DEF UserStep, Shutting
<1>5. CASE WireStep
  <2>1. UNCHANGED <<task, action>>
    BY Zenon, <1>5 DEF WireStep, wireOnly, cronVars
  <2>2. ASSUME NEW c \in Tasks \cup Users, Wire!CallStep(c) PROVE Serving'
    <3>1. Calls(c)
      BY Zenon, <2>2 DEF Calls
    <3>2. call[c].at # "idle"
      BY <2>2 DEF Wire!CallStep, Wire!RequestReturns, Wire!ExecuteFailed, Wire!Started, Wire!StdinWritten,
         Wire!StdinClosed, Wire!Receive
    <3>3. QED
      BY Zenon, <2>1, <3>1, <3>2, CallsServe
  <2>3. QED
    BY Zenon, <1>5, <2>1, <2>2, ReadServes DEF WireStep, Callers
<1>6. CASE Environment
  <2>1. ASSUME NEW u \in Users, UserCall(u) PROVE Serving'
    <3>1. CASE Cron!JobCall(u) /\ UNCHANGED cronOnly
      BY Zenon, <1>1, <3>1, RunStays DEF cronOnly, wireVars
    <3>2. CASE (Wire!Request(u) \/ Wire!Start(u, "exec") \/ Wire!Start(u, "spawn")) /\ UNCHANGED wireOnly
      BY Zenon, <1>2, <3>2 DEF wireOnly, cronVars
    <3>3. QED
      BY Zenon, <2>1, <3>1, <3>2 DEF UserCall
  <2>2. CASE Shutdown
    <3>1. shutdown.by \in Users /\ Cron!Dispose(shutdown.by) /\ UNCHANGED <<call, action>>
      BY <2>2 DEF Shutdown, ByUser, wireVars
    <3>2. QED
      BY Zenon, <1>1, <3>1, RunStays
  <2>3. ASSUME NEW u \in Users, Wire!Abandon(u) \/ Wire!KillForTimeout(u), UNCHANGED wireOnly PROVE Serving'
    BY Zenon, <1>2, <2>3 DEF wireOnly, cronVars
  <2>4. CASE (\E id \in Ids : Cron!DriverFires(id)) /\ UNCHANGED cronOnly
    BY Zenon, <1>1, <2>4, RunStays DEF cronOnly, wireVars
  <2>5. CASE Wire!SidecarStep /\ UNCHANGED wireOnly
    BY Zenon, <2>5, ReadServes DEF wireOnly, cronVars
  <2>6. QED
    BY Zenon, <1>6, <2>1, <2>2, <2>3, <2>4, <2>5 DEF Environment
<1>7. CASE UNCHANGED vars
  BY Zenon, <1>1, <1>7 DEF vars, wireVars, cronVars
<1>8. QED
  BY Zenon, <1>3, <1>4, <1>5, <1>6, <1>7 DEF Next

-----------------------------------------------------------------------------
WireProofs == INSTANCE SidecarTransportProofs WITH
                  Callers <- Tasks \cup Users, Scenes <- {s.wire : s \in Plans}, scene <- wireScene

\* The transport of the client is the transport the lemmas are about.
LEMMA SameCalls ==
    ASSUME NEW c
    PROVE  /\ Wire!Simple(c) => WireProofs!Simple(c)
           /\ Wire!Request(c) => WireProofs!Request(c)
           /\ \A k : Wire!Begin(c, k) => WireProofs!Begin(c, k)
           /\ \A k : Wire!Start(c, k) => WireProofs!Start(c, k)
<1>1. Wire!Simple(c) => WireProofs!Simple(c)
  BY DEF Wire!Simple, WireProofs!Simple, Wire!Ask, WireProofs!Ask, Wire!Post, WireProofs!Post,
     Wire!Idle, WireProofs!Idle, Wire!sidecarVars, WireProofs!sidecarVars, Wire!wireVars,
     WireProofs!wireVars
<1>2. Wire!Request(c) => WireProofs!Request(c)
  BY <1>1 DEF Wire!Request, WireProofs!Request, Wire!Spend, WireProofs!Spend
<1>3. \A k : Wire!Begin(c, k) => WireProofs!Begin(c, k)
  BY DEF Wire!Begin, WireProofs!Begin, Wire!Ask, WireProofs!Ask, Wire!Post, WireProofs!Post,
     Wire!Idle, WireProofs!Idle, Wire!sidecarVars, WireProofs!sidecarVars, Wire!wireVars,
     WireProofs!wireVars
<1>4. \A k : Wire!Start(c, k) => WireProofs!Start(c, k)
  BY <1>3 DEF Wire!Start, WireProofs!Start, Wire!Spend, WireProofs!Spend
<1>5. QED
  BY <1>1, <1>2, <1>3, <1>4

\* So are the ways a call is given up,
LEMMA SameInterrupts ==
    ASSUME NEW c
    PROVE  /\ Wire!Abandon(c) => WireProofs!Abandon(c)
           /\ Wire!KillForTimeout(c) => WireProofs!KillForTimeout(c)
<1>1. Wire!Abandon(c) => WireProofs!Abandon(c)
  BY DEF Wire!Abandon, WireProofs!Abandon, Wire!Awaits, WireProofs!Awaits, Wire!Spend,
     WireProofs!Spend, Wire!Idle, WireProofs!Idle, Wire!sidecarVars, WireProofs!sidecarVars,
     Wire!wireVars, WireProofs!wireVars
<1>2. Wire!KillForTimeout(c) => WireProofs!KillForTimeout(c)
  BY DEF Wire!KillForTimeout, WireProofs!KillForTimeout, Wire!Spend, WireProofs!Spend,
     Wire!Post, WireProofs!Post, Wire!sidecarVars, WireProofs!sidecarVars
<1>3. QED
  BY <1>1, <1>2

\* the steps of a call,
LEMMA SameCallSteps ==
    ASSUME NEW c, Wire!CallStep(c)
    PROVE  WireProofs!CallStep(c)
<1>1. Wire!RequestReturns(c) \/ Wire!ExecuteFailed(c) =>
          WireProofs!RequestReturns(c) \/ WireProofs!ExecuteFailed(c)
  BY DEF Wire!RequestReturns, WireProofs!RequestReturns, Wire!ExecuteFailed,
     WireProofs!ExecuteFailed, Wire!Replied, WireProofs!Replied, Wire!Awaits, WireProofs!Awaits,
     Wire!Return, WireProofs!Return, Wire!Idle, WireProofs!Idle, Wire!sidecarVars,
     WireProofs!sidecarVars, Wire!wireVars, WireProofs!wireVars
<1>2. Wire!Started(c) => WireProofs!Started(c)
  BY DEF Wire!Started, WireProofs!Started, Wire!Ask, WireProofs!Ask, Wire!Post, WireProofs!Post,
     Wire!sidecarVars, WireProofs!sidecarVars, Wire!wireVars, WireProofs!wireVars
<1>3. Wire!StdinWritten(c) \/ Wire!StdinClosed(c) =>
          WireProofs!StdinWritten(c) \/ WireProofs!StdinClosed(c)
  BY DEF Wire!StdinWritten, WireProofs!StdinWritten, Wire!StdinClosed, WireProofs!StdinClosed,
     Wire!Replied, WireProofs!Replied, Wire!Awaits, WireProofs!Awaits, Wire!Ask, WireProofs!Ask,
     Wire!Post, WireProofs!Post, Wire!sidecarVars, WireProofs!sidecarVars, Wire!wireVars,
     WireProofs!wireVars
<1>4. Wire!Receive(c) => WireProofs!Receive(c)
  BY DEF Wire!Receive, WireProofs!Receive, Wire!Return, WireProofs!Return, Wire!Idle,
     WireProofs!Idle, Wire!sidecarVars, WireProofs!sidecarVars, Wire!wireVars,
     WireProofs!wireVars
<1>5. QED
  BY <1>1, <1>2, <1>3, <1>4 DEF Wire!CallStep, WireProofs!CallStep

\* and the tasks of the transport and the sidecar.
LEMMA SameTaskSteps ==
    /\ Wire!Write => WireProofs!Write
    /\ Wire!ReaderStep => WireProofs!ReaderStep
    /\ Wire!SidecarStep => WireProofs!SidecarStep
<1>1. Wire!Write => WireProofs!Write
  BY DEF Wire!Write, WireProofs!Write
<1>2. Wire!Read => WireProofs!Read
  BY DEF Wire!Read, WireProofs!Read, Wire!HandleResponse, WireProofs!HandleResponse,
     Wire!HandleEvent, WireProofs!HandleEvent, Wire!Resolve, WireProofs!Resolve, Wire!Awaits,
     WireProofs!Awaits, Wire!Subscribed, WireProofs!Subscribed, Wire!Full, WireProofs!Full,
     Wire!sidecarVars, WireProofs!sidecarVars
<1>3. Wire!Disconnect => WireProofs!Disconnect
  BY DEF Wire!Disconnect, WireProofs!Disconnect, Wire!Resolve, WireProofs!Resolve, Wire!Awaits,
     WireProofs!Awaits, Wire!sidecarVars, WireProofs!sidecarVars
<1>4. /\ \A f : Wire!Answer(f) => WireProofs!Answer(f)
      /\ \A q : Wire!Output(q) => WireProofs!Output(q)
      /\ \A q : Wire!Exit(q) => WireProofs!Exit(q)
  BY DEF Wire!Answer, WireProofs!Answer, Wire!Output, WireProofs!Output, Wire!Exit,
     WireProofs!Exit, Wire!Emit, WireProofs!Emit, Wire!Spend, WireProofs!Spend
<1>5. Wire!Die => WireProofs!Die
  BY DEF Wire!Die, WireProofs!Die, Wire!Spend, WireProofs!Spend, Wire!wireVars,
     WireProofs!wireVars
<1>6. QED
  BY <1>1, <1>2, <1>3, <1>4, <1>5
     DEF Wire!ReaderStep, WireProofs!ReaderStep, Wire!SidecarStep, WireProofs!SidecarStep

\* In all, the steps the lemmas are about.
LEMMA SameSteps ==
    ASSUME Steps
    PROVE  WireProofs!Steps
<1>1. \A c : Leave(c) => WireProofs!Leave(c)
  BY Zenon DEF Leave, WireProofs!Leave, Wire!Idle, WireProofs!Idle
<1>2. \A c : Calls(c) => WireProofs!Calls(c)
  BY Zenon, <1>1, SameCalls, SameInterrupts, SameCallSteps DEF Calls, WireProofs!Calls
<1>3. Fails => WireProofs!Fails
  BY Zenon DEF Fails, WireProofs!Fails
<1>4. QED
  BY Zenon, <1>2, <1>3, SameTaskSteps DEF Steps, WireProofs!Steps, Callers

-----------------------------------------------------------------------------
CronProofs == INSTANCE CronManagerProofs WITH
                  Scenes <- {s.cron : s \in Plans}, scene <- cronScene

\* The jobs of the client are the jobs the lemmas are about: their tasks,
LEMMA SameJobTasks ==
    ASSUME NEW t
    PROVE  /\ Cron!TaskStep(t) => CronProofs!TaskStep(t)
           /\ Cron!Finish(t) => CronProofs!Finish(t)
           /\ Cron!DriverFires(t) => CronProofs!DriverFires(t)
<1>1. /\ Cron!TimerFires(t) => CronProofs!TimerFires(t)
      /\ Cron!TimerAfter(t) => CronProofs!TimerAfter(t)
      /\ Cron!TimerRemove(t) => CronProofs!TimerRemove(t)
  BY DEF Cron!TimerFires, CronProofs!TimerFires, Cron!TimerAfter, CronProofs!TimerAfter,
     Cron!TimerRemove, CronProofs!TimerRemove, Cron!Turn, CronProofs!Turn, Cron!StillScheduled,
     CronProofs!StillScheduled, Cron!Free, CronProofs!Free
<1>2. /\ Cron!Check(t) => CronProofs!Check(t)
      /\ Cron!Queue(t) => CronProofs!Queue(t)
      /\ Cron!Mark(t) => CronProofs!Mark(t)
  BY Zenon DEF Cron!Check, CronProofs!Check, Cron!Queue, CronProofs!Queue, Cron!Mark, CronProofs!Mark,
     Cron!Turn, CronProofs!Turn, Cron!Verdict, CronProofs!Verdict, Cron!Ended, CronProofs!Ended,
     Cron!Free, CronProofs!Free, Cron!NoJob, CronProofs!NoJob, Cron!Registered,
     CronProofs!Registered
<1>3. Cron!Finish(t) => CronProofs!Finish(t)
  BY DEF Cron!Finish, CronProofs!Finish, Cron!Turn, CronProofs!Turn, Cron!Ended, CronProofs!Ended,
     Cron!Free, CronProofs!Free, Cron!NoJob, CronProofs!NoJob, Cron!Registered,
     CronProofs!Registered, Cron!Finished, CronProofs!Finished, Cron!HasSlot,
     CronProofs!HasSlot, Cron!Slot, CronProofs!Slot
<1>4. Cron!DriverFires(t) => CronProofs!DriverFires(t)
  BY DEF Cron!DriverFires, CronProofs!DriverFires, Cron!Turn, CronProofs!Turn, Cron!HasSlot,
     CronProofs!HasSlot, Cron!Slot, CronProofs!Slot, Cron!Spend, CronProofs!Spend
<1>5. QED
  BY <1>1, <1>2, <1>3, <1>4 DEF Cron!TaskStep, CronProofs!TaskStep

\* and the calls of their users.
LEMMA SameJobCalls ==
    ASSUME NEW u
    PROVE  /\ Cron!UserStep(u) => CronProofs!UserStep(u)
           /\ Cron!JobCall(u) => CronProofs!JobCall(u)
           /\ Cron!Dispose(u) => CronProofs!Dispose(u)
<1>1. /\ Cron!Remove(u) => CronProofs!Remove(u)
      /\ Cron!Insert(u) => CronProofs!Insert(u)
  BY DEF Cron!Remove, CronProofs!Remove, Cron!Insert, CronProofs!Insert, Cron!Turn, CronProofs!Turn,
     Cron!Registered, CronProofs!Registered, Cron!NoJob, CronProofs!NoJob, Cron!NoApi,
     CronProofs!NoApi
<1>2. /\ Cron!Replace(u) => CronProofs!Replace(u)
      /\ Cron!CancelTimer(u) => CronProofs!CancelTimer(u)
      /\ Cron!DisposeTimer(u) => CronProofs!DisposeTimer(u)
  BY DEF Cron!Replace, CronProofs!Replace, Cron!CancelTimer, CronProofs!CancelTimer,
     Cron!DisposeTimer, CronProofs!DisposeTimer, Cron!DriverCancel, CronProofs!DriverCancel,
     Cron!Turn, CronProofs!Turn, Cron!NoApi, CronProofs!NoApi
<1>3. /\ Cron!DisposeJobs(u) => CronProofs!DisposeJobs(u)
      /\ Cron!DisposeDriver(u) => CronProofs!DisposeDriver(u)
      /\ Cron!Dispose(u) => CronProofs!Dispose(u)
  BY DEF Cron!DisposeJobs, CronProofs!DisposeJobs, Cron!DisposeDriver, CronProofs!DisposeDriver,
     Cron!Dispose, CronProofs!Dispose, Cron!Turn, CronProofs!Turn, Cron!NoJob, CronProofs!NoJob,
     Cron!NoApi, CronProofs!NoApi, Cron!Registered, CronProofs!Registered, Cron!Spend,
     CronProofs!Spend
<1>4. \A id : Cron!CancelJob(u, id) => CronProofs!CancelJob(u, id)
  BY DEF Cron!CancelJob, CronProofs!CancelJob, Cron!Turn, CronProofs!Turn, Cron!NoJob,
     CronProofs!NoJob, Cron!Registered, CronProofs!Registered, Cron!Spend, CronProofs!Spend
<1>5. \A id, kind, overlap :
         Cron!Schedule(u, id, kind, overlap) => CronProofs!Schedule(u, id, kind, overlap)
  BY DEF Cron!Schedule, CronProofs!Schedule, Cron!Turn, CronProofs!Turn, Cron!HasSlot,
     CronProofs!HasSlot, Cron!Slot, CronProofs!Slot, Cron!Spend, CronProofs!Spend, Cron!Unused,
     CronProofs!Unused, Cron!NoJob, CronProofs!NoJob
<1>6. QED
  BY Zenon, <1>1, <1>2, <1>3, <1>4, <1>5
     DEF Cron!UserStep, CronProofs!UserStep, Cron!JobCall, CronProofs!JobCall

\* In all, the steps the lemmas are about.
LEMMA SameJobs ==
    ASSUME Cron!Next \/ UNCHANGED Cron!vars
    PROVE  CronProofs!Next \/ UNCHANGED CronProofs!vars
<1>1. UNCHANGED Cron!vars => UNCHANGED CronProofs!vars
  BY Zenon DEF Cron!vars, CronProofs!vars
<1>2. Cron!Next => CronProofs!Next
  BY Zenon, SameJobTasks, SameJobCalls DEF Cron!Next, CronProofs!Next
<1>3. QED
  BY Zenon, <1>1, <1>2

-----------------------------------------------------------------------------
Inv ==
    /\ WireProofs!WireInv /\ CronProofs!ArmInv /\ CronProofs!RuleInv
    /\ ByUser /\ Serving

\* The invariant holds in the beginning,
LEMMA InitInv == Init => Inv
<1> SUFFICES ASSUME Init PROVE Inv
  OBVIOUS
<1>1. WireProofs!Init
  BY DEF Init, Wire!Init, WireProofs!Init, Wire!Idle, WireProofs!Idle
<1>2. CronProofs!Init
  BY DEF Init, Cron!Init, CronProofs!Init, Cron!NoJob, CronProofs!NoJob, Cron!Free,
     CronProofs!Free, Cron!NoApi, CronProofs!NoApi
<1>3. {s.cron : s \in Plans} \subseteq CronProofs!Scene
  BY Zenon, PlansAssumption DEF Cron!Scene, CronProofs!Scene
<1>4. ByUser
  BY UsersAssumption DEF ByUser, Init
<1>5. Serving
  BY <1>1 DEF WireProofs!Init, WireProofs!Idle, Serving
<1>6. WireProofs!WireInv
  BY Zenon, <1>1, CapacityAssumption, WireProofs!InitWire
<1>7. CronProofs!ArmInv /\ CronProofs!RuleInv
  BY Zenon, <1>2, <1>3, CronProofs!InitArm, CronProofs!InitRules
<1>8. QED
  BY Zenon, <1>4, <1>5, <1>6, <1>7 DEF Inv

\* and every step of the client keeps it.
LEMMA NextInv == Inv /\ [Next]_vars => Inv'
<1> SUFFICES ASSUME Inv, [Next]_vars PROVE Inv'
  OBVIOUS
<1>0. /\ WireProofs!WireInv /\ CronProofs!ArmInv /\ CronProofs!RuleInv /\ ByUser /\ Serving
  BY Zenon DEF Inv
<1>1. DOMAIN task = Tasks
  BY Zenon, <1>0 DEF CronProofs!ArmInv, CronProofs!Inv, CronProofs!Shape
<1>2. WireProofs!WireInv'
  BY Zenon, <1>0, CapacityAssumption, WireSteps, SameSteps, WireProofs!StepsKeep
<1>3. CronProofs!Next \/ UNCHANGED CronProofs!vars
  BY Zenon, <1>0, CronSteps, SameJobs
<1>4. CronProofs!ArmInv'
  BY Zenon, <1>0, <1>3, CronProofs!NextArm
<1>5. CronProofs!RuleInv'
  BY Zenon, <1>0, <1>3, UsersAssumption, CronProofs!NextRules
<1>6. call \in [Callers -> Wire!Call]
  BY Zenon, <1>0 DEF WireProofs!WireInv, WireProofs!Inv, WireProofs!WireType, Callers, Wire!Call,
     WireProofs!Call, Wire!Awaits, WireProofs!Awaits
<1>7. QED
  BY Zenon, <1>0, <1>1, <1>2, <1>4, <1>5, <1>6, ByUserKept, ServingKept DEF Inv

\* So it always holds.
LEMMA InvHolds == Spec => []Inv
  BY InitInv, NextInv, PTL DEF Spec

\* Whatever users, jobs, shutdown and the sidecar do, no request of the client
\* is lost or answered twice while the sidecar lives, and its state is well
\* typed: only a task that runs a job has a call.
THEOREM RequestsKept == Spec => []RequestsConserved
<1>1. Inv => RequestsConserved
  <2> SUFFICES ASSUME Inv PROVE RequestsConserved
    OBVIOUS
  <2>1. WireProofs!TypeOK /\ WireProofs!RequestsConserved /\ CronProofs!TypeOK /\ Serving
    BY Zenon, WireProofs!WireSafe, CronProofs!TokensType DEF Inv
  <2>2. Wire!TypeOK
    BY Zenon, <2>1 DEF Wire!TypeOK, WireProofs!TypeOK, Wire!WireType, WireProofs!WireType, Wire!Frame,
       WireProofs!Frame, Wire!Event, WireProofs!Event, Wire!Response, WireProofs!Response, Wire!EventFrame,
       WireProofs!EventFrame, Wire!Call, WireProofs!Call, Wire!Awaits, WireProofs!Awaits
  <2>3. Cron!TypeOK
    BY Zenon, <2>1 DEF Cron!TypeOK, CronProofs!TypeOK, Cron!Registered, CronProofs!Registered, Cron!NoJob,
       CronProofs!NoJob
  <2>4. Wire!RequestsConserved
    BY Zenon, <2>1 DEF Wire!RequestsConserved, WireProofs!RequestsConserved, Wire!Queued, WireProofs!Queued,
       Wire!Held, WireProofs!Held, Wire!Answered, WireProofs!Answered, Wire!Cardinality,
       WireProofs!Cardinality
  <2>5. QED
    BY Zenon, <2>1, <2>2, <2>3, <2>4 DEF RequestsConserved, TypeOK, Serving
<1>2. QED
  BY <1>1, InvHolds, PTL

\* Whatever users, jobs, shutdown and the sidecar do, a task of the client
\* that awaits a request has its id in the transport's pending map, where the
\* answer or the disconnect finds it, and no two tasks await the same id.
THEOREM NoRequestForgotten == Spec => []AwaitedPending
<1>1. Inv => AwaitedPending
  BY Zenon DEF Inv, WireProofs!WireInv, WireProofs!Inv, AwaitedPending, WireProofs!AwaitedPending,
     Wire!AwaitedPending, WireProofs!Waiting, Wire!Waiting, WireProofs!Awaits, Wire!Awaits
<1>2. QED
  BY <1>1, InvHolds, PTL

\* Whatever users, jobs, shutdown and the sidecar do, an exec or spawn that
\* waits for its process finds the exit in what it receives, or will, while
\* the sidecar lives, unless its receiver lagged (run_exec, run_spawn).
THEOREM ExitsFound == Spec => []ExitNotMissed
<1>1. Inv => ExitNotMissed
  BY Zenon, WireProofs!WireSafe DEF Inv, ExitNotMissed, Wire!ExitNotMissed, WireProofs!ExitNotMissed
<1>2. QED
  BY <1>1, InvHolds, PTL

\* Whatever users, jobs, shutdown and the sidecar do, the timer of a job that
\* will fire is in the registry, where cancel_cron_job and shutdown find it.
THEOREM TimersNeverLost == Spec => []TimersReachable
<1>1. Inv => TimersReachable
  BY Zenon, CronProofs!InvReachable DEF Inv, CronProofs!ArmInv, TimersReachable, Cron!TimersReachable,
     CronProofs!TimersReachable
<1>2. QED
  BY <1>1, InvHolds, PTL

\* Whatever users, jobs, shutdown and the sidecar do, a recurring job that was
\* scheduled under an unused id has a timer as long as it is registered.
THEOREM JobsStayArmed == Spec => []NeverUnarmed
<1>1. Inv => NeverUnarmed
  BY Zenon, CronProofs!ArmedKept DEF Inv, NeverUnarmed, Cron!NeverUnarmed, CronProofs!NeverUnarmed,
     Cron!Steady, CronProofs!Steady, Cron!Armed, CronProofs!Armed, Cron!Idle, CronProofs!Idle,
     Cron!Registered, CronProofs!Registered, Cron!NoJob, CronProofs!NoJob
<1>2. QED
  BY <1>1, InvHolds, PTL

\* Whatever users, jobs, shutdown and the sidecar do, on a current-thread
\* runtime a job keeps to its overlap policy, also when its runs are execs
\* over the wire (execute_job).
THEOREM OverlapPolicies == Spec => []PoliciesKept
<1>1. Inv => PoliciesKept
  BY Zenon, CronProofs!RulesKept DEF Inv, PoliciesKept, Cron!PoliciesKept, CronProofs!PoliciesKept, Cron!Runs,
     CronProofs!Runs, Cron!Registered, CronProofs!Registered, Cron!NoJob, CronProofs!NoJob
<1>2. QED
  BY <1>1, InvHolds, PTL
=============================================================================
