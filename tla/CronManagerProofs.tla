------------------------- MODULE CronManagerProofs -------------------------
(***************************************************************************)
(* The jobs of the client, for any number of jobs, tasks and users.        *)
(*                                                                         *)
(* First, that a timer which will fire is in the registry of the driver,   *)
(* on any runtime: TimersReachable, by Inv.  Second, that a recurring job  *)
(* under an id of its own stays armed: NeverUnarmed, by ArmInv, which adds *)
(* what calls in progress and tasks know of the timer they carry.  Third,  *)
(* that the overlap policies hold on one thread: PoliciesKept, by RuleInv. *)
(* The lemmas are about single steps, so that the client can use them.     *)
(***************************************************************************)
EXTENDS CronManager, TLAPS

\* What the steps need to know of the records of the tasks.
Shaped(r) ==
    /\ "at" \in DOMAIN r
    /\ r.at # "free" => /\ {"id", "token"} \subseteq DOMAIN r
                        /\ r.id \in Ids
                        /\ r.token # 0 => "fresh" \in DOMAIN r
    /\ r.at \in {"sleep", "after", "remove"} => r.token # 0
Shape ==
    /\ DOMAIN task = Tasks /\ DOMAIN timers = Ids /\ nextToken \in Nat \ {0}
    /\ \A t \in Tasks : Shaped(task[t])

\* A timer task, from its start to its end.
Timing(t) == task[t].at # "free" /\ task[t].token # 0
Live(t) == Timing(t) /\ task[t].fresh /\ task[t].token \notin cancelled

\* While it is not cancelled, the timer of a job that was scheduled under an
\* unused id is the one the registry has, wherever its task is, and no other
\* timer task of the id is left that could remove it.
Reachable ==
    \A t \in Tasks : Live(t) =>
        /\ timers[task[t].id] = task[t].token
        /\ \A u \in Tasks : Timing(u) /\ task[u].id = task[t].id => u = t

Inv == Shape /\ Reachable

-----------------------------------------------------------------------------
\* A timer task after a step is a timer task before it, the same one.
Same(t) ==
    Timing(t)' => /\ Timing(t)
                  /\ task'[t].id = task[t].id /\ task'[t].token = task[t].token
                  /\ task'[t].fresh = task[t].fresh

\* A step that starts no timer keeps the timers reachable if it cancels the
\* token of every entry it takes out of the registry, or the entry is that of
\* a task that ends.
LEMMA QuietStep ==
    ASSUME Inv, Shape', \A t \in Tasks : Same(t), cancelled \subseteq cancelled',
           \A t \in Tasks : Live(t) /\ Timing(t)' =>
              timers'[task[t].id] = timers[task[t].id] \/ task[t].token \in cancelled'
    PROVE  Inv'
<1>1. ASSUME NEW t \in Tasks, Live(t)' PROVE Live(t) /\ Timing(t)'
  BY Zenon, <1>1 DEF Live, Same
<1>2. ASSUME NEW t \in Tasks, Live(t)'
      PROVE  /\ timers'[task'[t].id] = task'[t].token
             /\ \A u \in Tasks : Timing(u)' /\ task'[u].id = task'[t].id => u = t
  <2>1. Live(t) /\ Timing(t)' /\ task'[t].token \notin cancelled'
    BY Zenon, <1>1, <1>2 DEF Live
  <2>2. timers[task[t].id] = task[t].token
    BY Zenon, <2>1 DEF Inv, Reachable
  <2>3. task'[t].id = task[t].id /\ task'[t].token = task[t].token
    BY Zenon, <2>1 DEF Same
  <2>4. timers'[task'[t].id] = task'[t].token
    BY Zenon, <2>1, <2>2, <2>3
  <2>5. ASSUME NEW u \in Tasks, Timing(u)', task'[u].id = task'[t].id PROVE u = t
    <3>1. Timing(u) /\ task[u].id = task[t].id
      BY Zenon, <2>3, <2>5 DEF Same
    <3>2. QED
      BY Zenon, <2>1, <3>1 DEF Inv, Reachable
  <2>6. QED
    BY Zenon, <2>4, <2>5
<1>3. QED
  BY Zenon, <1>2 DEF Inv, Reachable

-----------------------------------------------------------------------------
\* One task goes on, or ends, or a task that is no timer starts.
Moved(r, q) ==
    \/ q = Free
    \/ "at" \in DOMAIN q /\ q.at # "free" /\ {"id", "token"} \subseteq DOMAIN q /\ q.id \in Ids
       /\ \/ q.token = 0 /\ q.at \notin {"sleep", "after", "remove"}
          \/ /\ r.at # "free" /\ q.token # 0 /\ "fresh" \in DOMAIN q
             /\ q.id = r.id /\ q.token = r.token /\ q.fresh = r.fresh

\* Such a task has the shape of a task.
LEMMA MovedShape ==
    ASSUME NEW r, NEW q, Moved(r, q)
    PROVE  Shaped(q)
BY DEF Moved, Shaped, Free

\* Such a task is no new timer.
LEMMA MovedSame ==
    ASSUME NEW t \in Tasks, Moved(task[t], task'[t])
    PROVE  Same(t)
<1>1. Free.at = "free"
  BY DEF Free
<1>2. QED
  BY Zenon, <1>1 DEF Moved, Same, Timing

\* A task of the right shape whose place alone changes has moved.
LEMMA Goes ==
    ASSUME NEW r, Shaped(r), r.at # "free", NEW x, x # "free",
           r.token = 0 => x \notin {"sleep", "after", "remove"}
    PROVE  Moved(r, [r EXCEPT !.at = x])
BY DEF Moved, Shaped

\* So has one that is done with execute_job.
LEMMA Ends ==
    ASSUME NEW t \in Tasks, Shaped(task[t]), task[t].at # "free"
    PROVE  Moved(task[t], Ended(t))
<1>1. task[t].token # 0 => Moved(task[t], [task[t] EXCEPT !.at = "after"])
  BY Goes
<1>2. QED
  BY Zenon, <1>1 DEF Ended, Moved

\* The other tasks stay as they are.
Only(t) == DOMAIN task' = Tasks /\ \A u \in Tasks \ {t} : task'[u] = task[u]

\* A step that moves one task and leaves the registry alone.
LEMMA MoveStep ==
    ASSUME Inv, NEW t \in Tasks, Only(t), Moved(task[t], task'[t]),
           UNCHANGED <<timers, cancelled, nextToken>>
    PROVE  Inv'
<1>1. Shape'
  BY Zenon, MovedShape DEF Inv, Shape, Only
<1>2. \A u \in Tasks : Same(u)
  BY Zenon, MovedSame DEF Same, Timing, Only
<1>3. QED
  BY Zenon, <1>1, <1>2, QuietStep

\* The steps of a timer and of execute_job before the action.
LEMMA TaskStepInv ==
    ASSUME Inv, NEW t \in Tasks, TaskStep(t)
    PROVE  Inv'
<1>0. DOMAIN task = Tasks /\ DOMAIN timers = Ids /\ Shaped(task[t])
  BY Zenon DEF Inv, Shape
<1>1. ASSUME NEW r, Moved(task[t], r), task' = [task EXCEPT ![t] = r],
             UNCHANGED <<timers, cancelled, nextToken>>
      PROVE  Inv'
  <2>1. Only(t) /\ task'[t] = r
    BY Zenon, <1>0, <1>1 DEF Only
  <2>2. QED
    BY Zenon, <1>1, <2>1, MoveStep
<1>2. Moved(task[t], Free)
  BY Zenon DEF Moved
<1>3. task[t].at # "free" => Moved(task[t], Ended(t))
  BY Zenon, <1>0, Ends
<1>4. CASE TimerFires(t)
  <2>1. Moved(task[t], [task[t] EXCEPT !.at = "fired"])
    BY <1>0, <1>4, Goes DEF TimerFires
  <2>2. \/ task' = [task EXCEPT ![t] = Free]
        \/ task' = [task EXCEPT ![t] = [task[t] EXCEPT !.at = "fired"]]
    BY Zenon, <1>4 DEF TimerFires
  <2>3. QED
    BY Zenon, <1>1, <1>2, <1>4, <2>1, <2>2 DEF TimerFires
<1>5. CASE TimerAfter(t)
  <2>1. /\ Moved(task[t], [task[t] EXCEPT !.at = "sleep"])
        /\ Moved(task[t], [task[t] EXCEPT !.at = "remove"])
    <3>1. task[t].at = "after" /\ task[t].token # 0
      BY <1>0, <1>5 DEF TimerAfter, Shaped
    <3>2. QED
      BY <1>0, <3>1, Goes
  <2>2. \/ task' = [task EXCEPT ![t] = [task[t] EXCEPT !.at = "sleep"]]
        \/ task' = [task EXCEPT ![t] = [task[t] EXCEPT !.at = "remove"]]
    BY Zenon, <1>5 DEF TimerAfter
  <2>3. QED
    BY Zenon, <1>1, <1>5, <2>1, <2>2 DEF TimerAfter
<1>6. CASE TimerRemove(t)
  <2>1. /\ task[t].at = "remove" /\ Timing(t) /\ task' = [task EXCEPT ![t] = Free]
        /\ timers' = [timers EXCEPT ![task[t].id] = 0] /\ UNCHANGED <<cancelled, nextToken>>
    BY <1>0, <1>6 DEF TimerRemove, Shaped, Timing
  <2>2. Only(t) /\ task'[t] = Free /\ DOMAIN timers' = Ids
    BY Zenon, <1>0, <2>1 DEF Only
  <2>3. Shape'
    BY Zenon, <1>2, <2>1, <2>2, MovedShape DEF Inv, Shape, Only
  <2>4. \A u \in Tasks : Same(u)
    BY Zenon, <1>2, <2>2, MovedSame DEF Same, Timing, Only
  <2>5. ~ Timing(t)'
    BY <2>2 DEF Timing, Free
  <2>6. ASSUME NEW u \in Tasks, Live(u), Timing(u)'
        PROVE  timers'[task[u].id] = timers[task[u].id]
    <3>1. u # t /\ Timing(u)
      BY Zenon, <2>5, <2>6 DEF Live
    <3>2. task[u].id # task[t].id
      BY Zenon, <2>1, <2>6, <3>1 DEF Inv, Reachable
    <3>3. task[u].id \in Ids
      BY Zenon, <3>1 DEF Inv, Shape, Shaped, Timing
    <3>4. QED
      BY <1>0, <2>1, <3>2, <3>3
  <2>7. QED
    BY Zenon, <2>1, <2>3, <2>4, <2>6, QuietStep
<1>7. CASE Check(t)
  <2>1. /\ task[t].at # "free"
        /\ Moved(task[t], [task[t] EXCEPT !.at = "mark"])
        /\ Moved(task[t], [task[t] EXCEPT !.at = "queue"])
    BY <1>0, <1>7, Goes DEF Check
  <2>2. \/ task' = [task EXCEPT ![t] = Ended(t)]
        \/ task' = [task EXCEPT ![t] = [task[t] EXCEPT !.at = "mark"]]
        \/ task' = [task EXCEPT ![t] = [task[t] EXCEPT !.at = "queue"]]
    BY Zenon, <1>7 DEF Check, Verdict
  <2>3. QED
    BY Zenon, <1>1, <1>3, <1>7, <2>1, <2>2 DEF Check
<1>8. CASE Queue(t)
  <2>1. /\ task[t].at # "free" /\ task' = [task EXCEPT ![t] = Ended(t)]
        /\ UNCHANGED <<timers, cancelled, nextToken>>
    BY Zenon, <1>8 DEF Queue
  <2>2. QED
    BY Zenon, <1>1, <1>3, <2>1
<1>9. CASE Mark(t)
  <2>1. Moved(task[t], [task[t] EXCEPT !.at = "run"]) /\ task[t].at # "free"
    BY Zenon, <1>0, <1>9, Goes DEF Mark
  <2>2. /\ \/ task' = [task EXCEPT ![t] = Ended(t)]
           \/ task' = [task EXCEPT ![t] = [task[t] EXCEPT !.at = "run"]]
        /\ UNCHANGED <<timers, cancelled, nextToken>>
    BY Zenon, <1>9 DEF Mark
  <2>3. QED
    BY Zenon, <1>1, <1>3, <2>1, <2>2
<1>10. QED
  BY Zenon, <1>4, <1>5, <1>6, <1>7, <1>8, <1>9 DEF TaskStep

\* The slot a new task takes is free.
LEMMA FreeSlot ==
    ASSUME HasSlot
    PROVE  Slot \in Tasks /\ task[Slot].at = "free"
BY Zenon DEF HasSlot, Slot

\* A task of its own, for a queued run or the call of a driver, is no timer.
LEMMA OwnTask ==
    ASSUME NEW r, NEW id \in Ids
    PROVE  Moved(r, [at |-> "ready", id |-> id, token |-> 0])
BY DEF Moved

\* The end of a run, which may start the queued one.
LEMMA FinishInv ==
    ASSUME Inv, NEW t \in Tasks, Finish(t)
    PROVE  Inv'
<1> DEFINE new == [at |-> "ready", id |-> task[t].id, token |-> 0]
<1>0. DOMAIN task = Tasks /\ Shaped(task[t]) /\ task[t].at = "run"
  BY Zenon DEF Inv, Shape, Finish
<1>1. UNCHANGED <<timers, cancelled, nextToken>>
  BY Zenon DEF Finish
<1>2. Moved(task[t], Ended(t)) /\ task[t].id \in Ids
  <2>1. task[t].at # "free"
    BY <1>0
  <2>2. QED
    BY Zenon, <1>0, <2>1, Ends DEF Shaped
<1>3. \A u \in Tasks : Moved(task[u], new)
  BY Zenon, <1>2, OwnTask
<1>4. \/ task' = [task EXCEPT ![t] = Ended(t)]
      \/ HasSlot /\ task' = [task EXCEPT ![t] = Ended(t), ![Slot] = new]
  BY Zenon DEF Finish
<1> HIDE DEF new
<1>5. /\ DOMAIN task' = Tasks
      /\ \A u \in Tasks : task'[u] = task[u] \/ Moved(task[u], task'[u])
  <2>1. CASE task' = [task EXCEPT ![t] = Ended(t)]
    BY Zenon, <1>0, <1>2, <2>1
  <2>2. CASE HasSlot /\ task' = [task EXCEPT ![t] = Ended(t), ![Slot] = new]
    <3>1. Slot \in Tasks /\ Slot # t
      BY <1>0, <2>2, FreeSlot
    <3>2. /\ DOMAIN task' = Tasks /\ task'[Slot] = new /\ task'[t] = Ended(t)
          /\ \A u \in Tasks : u # t /\ u # Slot => task'[u] = task[u]
      BY <1>0, <2>2, <3>1
    <3>3. QED
      BY Zenon, <1>2, <1>3, <3>1, <3>2
  <2>3. QED
    BY Zenon, <1>4, <2>1, <2>2
<1>6. Shape'
  BY Zenon, <1>1, <1>5, MovedShape DEF Inv, Shape
<1>7. \A u \in Tasks : Same(u)
  BY Zenon, <1>5, MovedSame DEF Same, Timing
<1>8. QED
  BY Zenon, <1>1, <1>6, <1>7, QuietStep

\* A driver that calls a callback starts a task that is no timer.
LEMMA DriverFiresInv ==
    ASSUME Inv, NEW id \in Ids, DriverFires(id)
    PROVE  Inv'
<1> DEFINE new == [at |-> "ready", id |-> id, token |-> 0]
<1>1. /\ HasSlot /\ task' = [task EXCEPT ![Slot] = new]
      /\ UNCHANGED <<timers, cancelled, nextToken>>
  BY Zenon DEF DriverFires
<1>2. Slot \in Tasks /\ Moved(task[Slot], new)
  BY Zenon, <1>1, FreeSlot, OwnTask
<1> HIDE DEF new
<1>3. Only(Slot) /\ task'[Slot] = new
  BY Zenon, <1>1, <1>2 DEF Inv, Shape, Only
<1>4. QED
  BY Zenon, <1>1, <1>2, <1>3, MoveStep

\* A step of the API that takes entries out of the registry and cancels their
\* tokens, or leaves the registry alone.
LEMMA CancelStep ==
    ASSUME Inv, UNCHANGED <<task, nextToken>>, DOMAIN timers' = Ids,
           cancelled \subseteq cancelled',
           \A id \in Ids : timers[id] # 0 =>
               timers'[id] = timers[id] \/ timers[id] \in cancelled'
    PROVE  Inv'
<1>1. Shape'
  BY Zenon DEF Inv, Shape
<1>2. \A t \in Tasks : Same(t)
  BY Zenon DEF Same, Timing
<1>3. ASSUME NEW t \in Tasks, Live(t)
      PROVE  timers'[task[t].id] = timers[task[t].id] \/ task[t].token \in cancelled'
  <2>1. /\ timers[task[t].id] = task[t].token /\ task[t].token # 0 /\ task[t].id \in Ids
    BY Zenon, <1>3 DEF Inv, Shape, Shaped, Reachable, Live, Timing
  <2>2. QED
    BY Zenon, <2>1
<1>4. QED
  BY Zenon, <1>1, <1>2, <1>3, QuietStep

\* cancel takes the entry of an id out and cancels its token.
LEMMA DriverCancelInv ==
    ASSUME Inv, NEW id, DriverCancel(id), UNCHANGED <<task, nextToken>>
    PROVE  Inv'
<1>1. DOMAIN timers' = Ids /\ cancelled \subseteq cancelled'
  BY Zenon DEF DriverCancel, Inv, Shape
<1>2. \A i \in Ids : timers[i] # 0 => timers'[i] = timers[i] \/ timers[i] \in cancelled'
  BY Zenon DEF DriverCancel, Inv, Shape
<1>3. QED
  BY Zenon, <1>1, <1>2, CancelStep

\* The steps of schedule_cron after driver.schedule, of cancel_job and dispose.
LEMMA UserStepInv ==
    ASSUME Inv, NEW u \in Users,
           UserStep(u) \/ (\E id \in Ids : CancelJob(u, id)) \/ Dispose(u)
    PROVE  Inv'
<1>1. CASE UNCHANGED <<timers, cancelled, nextToken, task>>
  BY Zenon, <1>1, CancelStep DEF Inv, Shape
<1>2. CASE Replace(u) \/ CancelTimer(u) \/ DisposeTimer(u)
  <2>1. UNCHANGED <<task, nextToken>> /\ \E id : DriverCancel(id)
    BY Zenon, <1>2 DEF Replace, CancelTimer, DisposeTimer
  <2>2. QED
    BY Zenon, <2>1, DriverCancelInv
<1>3. CASE DisposeDriver(u)
  <2>1. /\ UNCHANGED <<task, nextToken>> /\ DOMAIN timers' = Ids
        /\ cancelled' = cancelled \cup ({timers[id] : id \in Ids} \ {0})
    BY Zenon, <1>3 DEF DisposeDriver
  <2>2. QED
    BY Zenon, <2>1, CancelStep
<1>4. QED
  BY Zenon, <1>1, <1>2, <1>3 DEF UserStep, Remove, Insert, DisposeJobs, CancelJob, Dispose

\* driver.schedule cancels the timer the id had, so that the new one is the
\* only one of the id that can be live.
LEMMA ScheduleInv ==
    ASSUME Inv, NEW u \in Users, NEW id \in Ids, NEW kind, NEW overlap,
           Schedule(u, id, kind, overlap)
    PROVE  Inv'
<1> DEFINE new == [at |-> "sleep", id |-> id, token |-> nextToken, kind |-> kind,
                   fresh |-> Unused(id)]
<1>1. /\ HasSlot /\ task' = [task EXCEPT ![Slot] = new]
      /\ timers' = [timers EXCEPT ![id] = nextToken] /\ nextToken' = nextToken + 1
      /\ cancelled' = cancelled \cup ({timers[id]} \ {0})
  BY Zenon DEF Schedule
<1>2. DOMAIN task = Tasks /\ DOMAIN timers = Ids /\ nextToken \in Nat \ {0}
  BY Zenon DEF Inv, Shape
<1>3. /\ new.at = "sleep" /\ new.id = id /\ new.token = nextToken /\ new.fresh = Unused(id)
      /\ Shaped(new)
  BY <1>2 DEF Shaped
<1>4. PICK n \in Tasks : n = Slot
  BY Zenon, <1>1, FreeSlot
<1> HIDE DEF new
<1>5. Only(n) /\ task'[n] = new
  BY Zenon, <1>1, <1>2, <1>4 DEF Only
<1>6. Shape'
  <2>1. nextToken' \in Nat \ {0}
    BY <1>1, <1>2
  <2>2. DOMAIN timers' = Ids
    BY Zenon, <1>1, <1>2
  <2>3. QED
    BY Zenon, <1>3, <1>5, <2>1, <2>2 DEF Inv, Shape, Only
<1>7. \A t \in Tasks \ {n} : (Timing(t)' <=> Timing(t)) /\ task'[t] = task[t]
  BY Zenon, <1>5 DEF Timing, Only
<1>8. ASSUME Live(n)', NEW t \in Tasks, Timing(t)', task'[t].id = task'[n].id
      PROVE  t = n
  <2>1. Unused(id)
    BY Zenon, <1>3, <1>5, <1>8 DEF Live
  <2>2. SUFFICES ASSUME t # n PROVE FALSE
    OBVIOUS
  <2>3. task[t].at # "free" /\ task[t].id = id
    BY Zenon, <1>3, <1>5, <1>7, <1>8, <2>2 DEF Timing
  <2>4. QED
    BY Zenon, <2>1, <2>3 DEF Unused
<1>9. ASSUME NEW t \in Tasks \ {n}, Live(t)'
      PROVE  /\ Live(t) /\ task[t].id # id /\ task'[t] = task[t]
             /\ timers'[task[t].id] = task[t].token
  <2>1. /\ Live(t) /\ task'[t] = task[t] /\ task[t].token # 0 /\ task[t].token \notin cancelled'
        /\ task[t].id \in Ids
    BY Zenon, <1>1, <1>7, <1>9 DEF Live, Timing, Inv, Shape, Shaped
  <2>2. timers[task[t].id] = task[t].token
    BY Zenon, <2>1 DEF Inv, Reachable
  <2>3. task[t].id # id
    BY Zenon, <1>1, <2>1, <2>2
  <2>4. timers'[task[t].id] = timers[task[t].id]
    BY <1>1, <1>2, <2>1, <2>3
  <2>5. QED
    BY Zenon, <2>1, <2>2, <2>3, <2>4
<1>10. Reachable'
  <2>1. ASSUME Live(n)'
        PROVE  timers'[task'[n].id] = task'[n].token
    BY Zenon, <1>1, <1>2, <1>3, <1>5
  <2>2. ASSUME NEW t \in Tasks \ {n}, Live(t)', NEW v \in Tasks, Timing(v)',
               task'[v].id = task'[t].id
        PROVE  v = t
    <3>1. v # n
      BY Zenon, <1>3, <1>5, <1>9, <2>2
    <3>2. Timing(v) /\ task[v].id = task[t].id /\ Live(t)
      BY Zenon, <1>7, <1>9, <2>2, <3>1
    <3>3. QED
      BY Zenon, <3>2 DEF Inv, Reachable
  <2>3. ASSUME NEW t \in Tasks, Live(t)'
        PROVE  /\ timers'[task'[t].id] = task'[t].token
               /\ \A v \in Tasks : Timing(v)' /\ task'[v].id = task'[t].id => v = t
    BY Zenon, <1>8, <1>9, <2>1, <2>2, <2>3
  <2>4. QED
    BY Zenon, <2>3 DEF Reachable
<1>11. QED
  BY Zenon, <1>6, <1>10 DEF Inv

-----------------------------------------------------------------------------
\* Before the first job there is no task.
LEMMA InitInv == Init => Inv
<1> SUFFICES ASSUME Init PROVE Inv
  OBVIOUS
<1>1. Free.at = "free" /\ Shaped(Free)
  BY DEF Free, Shaped
<1>2. Shape
  BY <1>1 DEF Init, Shape
<1>3. \A t \in Tasks : ~ Live(t)
  BY Zenon, <1>1 DEF Init, Live, Timing
<1>4. QED
  BY Zenon, <1>2, <1>3 DEF Inv, Reachable

\* A step that leaves the tasks and the registry alone keeps Inv.
LEMMA ElsewhereInv ==
    ASSUME Inv, UNCHANGED <<timers, cancelled, nextToken, task>>
    PROVE  Inv'
BY Zenon, CancelStep DEF Inv, Shape

\* Every step of a task, the API or a driver keeps Inv.
LEMMA NextInv == Inv /\ [Next]_vars => Inv'
<1> SUFFICES ASSUME Inv, [Next]_vars PROVE Inv'
  OBVIOUS
<1>1. CASE UNCHANGED vars
  BY Zenon, <1>1, ElsewhereInv DEF vars
<1>2. CASE \E t \in Tasks : TaskStep(t) \/ Finish(t)
  BY Zenon, <1>2, TaskStepInv, FinishInv
<1>3. CASE \E u \in Users : UserStep(u) \/ JobCall(u) \/ Dispose(u)
  BY Zenon, <1>3, UserStepInv, ScheduleInv DEF JobCall
<1>4. CASE \E id \in Ids : DriverFires(id)
  BY Zenon, <1>4, DriverFiresInv
<1>5. QED
  BY Zenon, <1>1, <1>2, <1>3, <1>4 DEF Next

\* The invariant says more than the property: it also covers tasks that run.
LEMMA InvReachable == Inv => TimersReachable
<1> SUFFICES ASSUME Inv, NEW t \in Tasks, task[t].at = "sleep", task[t].fresh,
                    task[t].token \notin cancelled
             PROVE  timers[task[t].id] = task[t].token
  BY Zenon DEF TimersReachable
<1>1. task[t].at # "free" /\ task[t].token # 0
  BY DEF Inv, Shape, Shaped
<1>2. QED
  BY Zenon, <1>1 DEF Inv, Reachable, Live, Timing

\* Whatever runs, cancels, replacements and disposals there are, on one thread
\* or several, a timer that sleeps and will fire is the one the registry has
\* for its id, where cancel and dispose find it (TimerScheduleDriver).
THEOREM JobTimersReachable == Spec => []TimersReachable
<1>1. QED
  BY InitInv, NextInv, InvReachable, PTL DEF Spec

-----------------------------------------------------------------------------
\* What a task, an entry of the registry and a call of the API look like.
TimerTask == [at : {"sleep", "fired", "queue", "mark", "run", "after", "remove"}, id : Ids,
              token : Nat \ {0}, kind : {"cron", "once"}, fresh : BOOLEAN]
OwnTasks == [at : {"ready", "queue", "mark", "run"}, id : Ids, token : {0}]
TaskRecord == {Free} \cup OwnTasks \cup TimerTask
JobEntry == [kind : {"cron", "once"}, overlap : {"allow", "skip", "queue"}, running : BOOLEAN,
             queued : BOOLEAN, token : Nat \ {0}, fresh : BOOLEAN]
Adder == [at : {"armed", "replace", "insert"}, id : Ids, job : JobEntry]
ApiCall == {NoApi} \cup Adder \cup [at : {"cancel"}, id : Ids]
           \cup [at : {"dispose"}, left : SUBSET Ids] \cup [at : {"driver"}]
CronType ==
    /\ task \in [Tasks -> TaskRecord] /\ jobs \in [Ids -> {NoJob} \cup JobEntry]
    /\ user \in [Users -> ApiCall] /\ timers \in [Ids -> Nat] /\ cancelled \subseteq Nat
    /\ nextToken \in Nat \ {0} /\ disposed \in BOOLEAN /\ scene \in Scene

\* The records of the tasks, by their place.
LEMMA TaskKinds ==
    ASSUME NEW r \in TaskRecord, r.at # "free"
    PROVE  /\ r \in OwnTasks \/ r \in TimerTask
           /\ r.id \in Ids /\ r.token \in Nat
           /\ r.token = 0 <=> r \in OwnTasks
           /\ r.token # 0 <=> r \in TimerTask
           /\ r.at \in {"sleep", "fired", "after", "remove"} => r \in TimerTask
BY DEF TaskRecord, Free, OwnTasks, TimerTask

\* A task that goes to another place keeps the rest of its record.
LEMMA TaskGoes ==
    ASSUME NEW r, NEW x,
           \/ r \in TimerTask /\ x \in {"sleep", "fired", "queue", "mark", "run", "after", "remove"}
           \/ r \in OwnTasks /\ x \in {"ready", "queue", "mark", "run"}
    PROVE  LET q == [r EXCEPT !.at = x] IN
           /\ q \in TaskRecord /\ q.at = x /\ q.id = r.id /\ q.token = r.token
           /\ r \in TimerTask => q \in TimerTask /\ q.kind = r.kind /\ q.fresh = r.fresh
<1>1. CASE r \in TimerTask /\ x \in {"sleep", "fired", "queue", "mark", "run", "after", "remove"}
  BY <1>1 DEF TaskRecord, TimerTask
<1>2. CASE r \in OwnTasks /\ x \in {"ready", "queue", "mark", "run"}
  BY <1>2 DEF TaskRecord, OwnTasks, TimerTask
<1>3. QED
  BY <1>1, <1>2

\* A task that is done with execute_job ends, or is again a timer.
LEMMA EndedType ==
    ASSUME NEW t \in Tasks, task[t] \in TaskRecord, task[t].at # "free"
    PROVE  /\ Ended(t) \in TaskRecord
           /\ task[t].token = 0 => Ended(t) = Free
           /\ task[t].token # 0 => /\ Ended(t) = [task[t] EXCEPT !.at = "after"]
                                   /\ task[t] \in TimerTask /\ Ended(t) \in TimerTask
<1>1. CASE task[t].token = 0
  BY <1>1 DEF Ended, TaskRecord
<1>2. CASE task[t].token # 0
  <2>1. task[t] \in TimerTask
    BY <1>2, TaskKinds
  <2>2. QED
    BY <1>2, <2>1, TaskGoes DEF Ended
<1>3. QED
  BY <1>1, <1>2

\* What a run does to the entry of its job.
Like(j, k) ==
    k = j \/ /\ j \in JobEntry /\ k \in JobEntry /\ k.kind = j.kind /\ k.overlap = j.overlap
             /\ k.token = j.token /\ k.fresh = j.fresh

\* Marks on an entry keep what it is.
LEMMA MarkedJob ==
    ASSUME NEW j \in JobEntry
    PROVE  /\ Like(j, [j EXCEPT !.queued = TRUE]) /\ Like(j, [j EXCEPT !.running = TRUE])
           /\ Like(j, Finished(j))
           /\ Finished(j).running = FALSE /\ Finished(j).queued = FALSE
           /\ [j EXCEPT !.queued = TRUE].running = j.running
           /\ [j EXCEPT !.running = TRUE].running = TRUE
           /\ [j EXCEPT !.running = TRUE].queued = j.queued
BY Zenon DEF Like, JobEntry, Finished

\* A timer task, at another place.
Again(r, q) ==
    /\ r \in TimerTask /\ q \in TimerTask
    /\ q.id = r.id /\ q.token = r.token /\ q.kind = r.kind /\ q.fresh = r.fresh

\* A timer of a recurring job that is in the registry, and will go on.
Going(t) ==
    /\ task[t] \in TimerTask /\ task[t].kind = "cron" /\ task[t].at # "remove"
    /\ task[t].token \notin cancelled /\ timers[task[t].id] # 0

\* What a step of a task leaves as it is, and how it may change the rest.
Worked ==
    /\ UNCHANGED <<cancelled, nextToken, user, disposed, scene>>
    /\ task' \in [Tasks -> TaskRecord] /\ timers' \in [Ids -> Nat]
    /\ jobs' \in [Ids -> {NoJob} \cup JobEntry]
    /\ \A id \in Ids : Like(jobs[id], jobs'[id])
    /\ \A id \in Ids : \/ timers'[id] = timers[id]
                       \/ timers'[id] = 0 /\ \E s \in Tasks : task[s].at = "remove" /\ task[s].id = id
    /\ \A s \in Tasks : /\ \/ task'[s] \in {task[s], Free} \/ task'[s] \in OwnTasks
                           \/ Again(task[s], task'[s])
                        /\ Going(s) => Again(task[s], task'[s]) /\ task'[s].at # "remove"

\* One task moves.
LEMMA OneMoves ==
    ASSUME CronType, NEW t \in Tasks, NEW q \in TaskRecord, task' = [task EXCEPT ![t] = q],
           q = Free \/ q \in OwnTasks \/ Again(task[t], q),
           Going(t) => Again(task[t], q) /\ q.at # "remove"
    PROVE  /\ task' \in [Tasks -> TaskRecord]
           /\ \A s \in Tasks : /\ \/ task'[s] \in {task[s], Free} \/ task'[s] \in OwnTasks
                                  \/ Again(task[s], task'[s])
                               /\ Going(s) => Again(task[s], task'[s]) /\ task'[s].at # "remove"
<1>1. /\ task' \in [Tasks -> TaskRecord] /\ task'[t] = q
      /\ \A s \in Tasks \ {t} : task'[s] = task[s]
  BY DEF CronType
<1>2. ASSUME NEW s \in Tasks, s # t, Going(s) PROVE Again(task[s], task'[s]) /\ task'[s].at # "remove"
  BY <1>1, <1>2 DEF Going, Again
<1>3. QED
  BY Zenon, <1>1, <1>2

\* An entry of the registry gets a mark.
LEMMA MarkedJobs ==
    ASSUME CronType, NEW id \in Ids, NEW k,
           jobs' = [jobs EXCEPT ![id] = IF Registered(id) THEN k ELSE jobs[id]],
           jobs[id] \in JobEntry => Like(jobs[id], k)
    PROVE  /\ jobs' \in [Ids -> {NoJob} \cup JobEntry]
           /\ \A i \in Ids : Like(jobs[i], jobs'[i])
           /\ \A i \in Ids \ {id} : jobs'[i] = jobs[i]
           /\ Registered(id) => jobs[id] \in JobEntry /\ jobs'[id] = k
           /\ ~ Registered(id) => jobs'[id] = jobs[id]
<1>1. jobs \in [Ids -> {NoJob} \cup JobEntry]
  BY DEF CronType
<1>2. Registered(id) => jobs[id] \in JobEntry /\ k \in {NoJob} \cup JobEntry
  BY <1>1 DEF Registered, Like
<1>3. PICK v \in {NoJob} \cup JobEntry : /\ jobs' = [jobs EXCEPT ![id] = v]
                                         /\ Registered(id) => v = k
                                         /\ ~ Registered(id) => v = jobs[id]
  BY Zenon, <1>1, <1>2
<1>4. /\ jobs' \in [Ids -> {NoJob} \cup JobEntry] /\ jobs'[id] = v
      /\ \A i \in Ids \ {id} : jobs'[i] = jobs[i]
  BY <1>1, <1>3
<1>5. QED
  BY Zenon, <1>2, <1>3, <1>4 DEF Like

\* The steps of a timer.
LEMMA TimerWorks ==
    ASSUME CronType, NEW t \in Tasks, TimerFires(t) \/ TimerAfter(t) \/ TimerRemove(t)
    PROVE  Worked
<1>0. /\ task[t] \in TaskRecord /\ task[t].at \in {"sleep", "after", "remove"}
      /\ timers \in [Ids -> Nat] /\ jobs \in [Ids -> {NoJob} \cup JobEntry]
      /\ UNCHANGED <<jobs, cancelled, nextToken, user, disposed, scene>>
  BY DEF CronType, TimerFires, TimerAfter, TimerRemove
<1>1. /\ task[t] \in TimerTask /\ task[t].id \in Ids /\ Free \in TaskRecord
      /\ \A i \in Ids : Like(jobs[i], jobs'[i])
  BY <1>0, TaskKinds DEF TaskRecord, Like
<1>2. \A x \in {"fired", "sleep", "remove"} :
         LET q == [task[t] EXCEPT !.at = x] IN
         q \in TaskRecord /\ q.at = x /\ Again(task[t], q)
  BY <1>1, TaskGoes DEF Again
<1>3. PICK q \in TaskRecord : /\ task' = [task EXCEPT ![t] = q]
                              /\ q = Free \/ q \in OwnTasks \/ Again(task[t], q)
                              /\ Going(t) => Again(task[t], q) /\ q.at # "remove"
  <2>1. CASE TimerFires(t)
    <3>1. Going(t) => task' = [task EXCEPT ![t] = [task[t] EXCEPT !.at = "fired"]]
      BY <2>1 DEF TimerFires, Going
    <3>2. \/ task' = [task EXCEPT ![t] = Free]
          \/ task' = [task EXCEPT ![t] = [task[t] EXCEPT !.at = "fired"]]
      BY Zenon, <2>1 DEF TimerFires
    <3>3. "fired" # "remove"
      OBVIOUS
    <3>4. CASE task' = [task EXCEPT ![t] = [task[t] EXCEPT !.at = "fired"]]
      BY Zenon, <1>2, <3>3, <3>4
    <3>5. QED
      BY Zenon, <1>1, <3>1, <3>2, <3>4
  <2>2. CASE TimerAfter(t)
    <3>1. Going(t) => StillScheduled(t)
      BY Zenon DEF Going, StillScheduled
    <3>2. CASE StillScheduled(t)
      <4>1. task' = [task EXCEPT ![t] = [task[t] EXCEPT !.at = "sleep"]] /\ "sleep" # "remove"
        BY <2>2, <3>2 DEF TimerAfter
      <4>2. QED
        BY Zenon, <1>2, <4>1
    <3>3. CASE ~ StillScheduled(t)
      <4>1. task' = [task EXCEPT ![t] = [task[t] EXCEPT !.at = "remove"]]
        BY <2>2, <3>3 DEF TimerAfter
      <4>2. QED
        BY Zenon, <1>2, <3>1, <3>3, <4>1
    <3>4. QED
      BY <3>2, <3>3
  <2>3. CASE TimerRemove(t)
    BY Zenon, <1>1, <2>3 DEF TimerRemove, Going
  <2>4. QED
    BY <2>1, <2>2, <2>3
<1>4. /\ task' \in [Tasks -> TaskRecord]
      /\ \A s \in Tasks : /\ \/ task'[s] \in {task[s], Free} \/ task'[s] \in OwnTasks
                             \/ Again(task[s], task'[s])
                          /\ Going(s) => Again(task[s], task'[s]) /\ task'[s].at # "remove"
  BY Zenon, <1>3, OneMoves
<1>5. \/ timers' = timers
      \/ timers' = [timers EXCEPT ![task[t].id] = 0] /\ task[t].at = "remove"
  BY Zenon DEF TimerFires, TimerAfter, TimerRemove
<1>6. /\ timers' \in [Ids -> Nat]
      /\ \A id \in Ids : \/ timers'[id] = timers[id]
                         \/ timers'[id] = 0 /\ task[t].at = "remove" /\ task[t].id = id
  BY <1>0, <1>1, <1>5
<1>7. QED
  BY Zenon, <1>0, <1>1, <1>4, <1>6 DEF Worked

\* What execute_job does to the entry of its job.
LEMMA RunJobs ==
    ASSUME CronType, NEW t \in Tasks, NEW id \in Ids, task[t].id = id,
           Queue(t) \/ Mark(t) \/ Finish(t)
    PROVE  /\ jobs' \in [Ids -> {NoJob} \cup JobEntry]
           /\ \A i \in Ids : Like(jobs[i], jobs'[i])
           /\ \A i \in Ids \ {id} : jobs'[i] = jobs[i]
           /\ ~ Registered(id) => jobs'[id] = jobs[id]
           /\ Registered(id) =>
                 /\ Queue(t) => jobs'[id].running = jobs[id].running
                 /\ Mark(t) => jobs'[id].running = TRUE /\ jobs'[id].queued = jobs[id].queued
                 /\ Finish(t) => jobs'[id].running = FALSE /\ jobs'[id].queued = FALSE
<1>1. CASE Queue(t)
  <2>1. PICK k : k = [jobs[id] EXCEPT !.queued = TRUE]
    OBVIOUS
  <2>2. jobs' = [jobs EXCEPT ![id] = IF Registered(id) THEN k ELSE jobs[id]]
    BY <1>1, <2>1 DEF Queue
  <2>3. jobs[id] \in JobEntry => Like(jobs[id], k) /\ k.running = jobs[id].running
    BY Zenon, <2>1, MarkedJob
  <2>4. ~ Mark(t) /\ ~ Finish(t)
    BY <1>1 DEF Queue, Mark, Finish
  <2>5. QED
    BY Zenon, <2>2, <2>3, <2>4, MarkedJobs
<1>2. CASE Mark(t)
  <2>1. PICK k : k = [jobs[id] EXCEPT !.running = TRUE]
    OBVIOUS
  <2>2. jobs' = [jobs EXCEPT ![id] = IF Registered(id) THEN k ELSE jobs[id]]
    BY <1>2, <2>1 DEF Mark
  <2>3. jobs[id] \in JobEntry => Like(jobs[id], k) /\ k.running = TRUE /\ k.queued = jobs[id].queued
    BY Zenon, <2>1, MarkedJob
  <2>4. ~ Queue(t) /\ ~ Finish(t)
    BY <1>2 DEF Queue, Mark, Finish
  <2>5. QED
    BY Zenon, <2>2, <2>3, <2>4, MarkedJobs
<1>3. CASE Finish(t)
  <2>1. PICK k : k = Finished(jobs[id])
    OBVIOUS
  <2>2. jobs' = [jobs EXCEPT ![id] = IF Registered(id) THEN k ELSE jobs[id]]
    BY <1>3, <2>1 DEF Finish
  <2>3. jobs[id] \in JobEntry => Like(jobs[id], k) /\ k.running = FALSE /\ k.queued = FALSE
    BY Zenon, <2>1, MarkedJob
  <2>4. ~ Queue(t) /\ ~ Mark(t)
    BY <1>3 DEF Queue, Mark, Finish
  <2>5. QED
    BY Zenon, <2>2, <2>3, <2>4, MarkedJobs
<1>4. QED
  BY Zenon, <1>1, <1>2, <1>3

\* The steps of execute_job.
LEMMA RunWorks ==
    ASSUME CronType, NEW t \in Tasks, Check(t) \/ Queue(t) \/ Mark(t) \/ Finish(t)
    PROVE  Worked
<1>0. /\ task \in [Tasks -> TaskRecord] /\ task[t] \in TaskRecord
      /\ task[t].at \in {"ready", "fired", "queue", "mark", "run"}
      /\ timers \in [Ids -> Nat] /\ jobs \in [Ids -> {NoJob} \cup JobEntry]
      /\ UNCHANGED <<timers, cancelled, nextToken, user, disposed, scene>>
  BY DEF CronType, Check, Queue, Mark, Finish
<1>1. /\ task[t].at # "free" /\ task[t].id \in Ids
      /\ task[t] \in TimerTask \/ task[t] \in OwnTasks
  BY <1>0, TaskKinds
<1>2. \A x \in {"queue", "mark", "run"} :
         LET q == [task[t] EXCEPT !.at = x] IN
         /\ q \in TaskRecord /\ q.at = x /\ (q \in OwnTasks \/ Again(task[t], q))
         /\ Going(t) => Again(task[t], q)
  <2>1. CASE task[t] \in TimerTask
    BY <2>1, TaskGoes DEF Again
  <2>2. CASE task[t] \in OwnTasks
    <3>1. ~ Going(t)
      BY <2>2 DEF Going, OwnTasks, TimerTask
    <3>2. QED
      BY <2>2, <3>1 DEF OwnTasks, TaskRecord
  <2>3. QED
    BY <1>1, <2>1, <2>2
<1>3. /\ Ended(t) \in TaskRecord /\ (Ended(t) = Free \/ Again(task[t], Ended(t)))
      /\ Going(t) => Again(task[t], Ended(t)) /\ Ended(t).at # "remove"
  <2>1. CASE task[t] \in TimerTask
    <3>1. Ended(t) = [task[t] EXCEPT !.at = "after"]
      BY <2>1 DEF Ended, TimerTask
    <3>2. QED
      BY <2>1, <3>1, TaskGoes DEF Again
  <2>2. CASE task[t] \in OwnTasks
    BY <2>2 DEF Ended, OwnTasks, TimerTask, Going, TaskRecord
  <2>3. QED
    BY <1>1, <2>1, <2>2
<1>4. /\ task' \in [Tasks -> TaskRecord]
      /\ \A s \in Tasks : /\ \/ task'[s] \in {task[s], Free} \/ task'[s] \in OwnTasks
                             \/ Again(task[s], task'[s])
                          /\ Going(s) => Again(task[s], task'[s]) /\ task'[s].at # "remove"
  <2>1. CASE task' = [task EXCEPT ![t] = Ended(t)]
    BY Zenon, <1>3, <2>1, OneMoves
  <2>2. CASE Check(t) \/ Queue(t) \/ Mark(t)
    <3>1. \/ task' = [task EXCEPT ![t] = Ended(t)]
          \/ \E x \in {"queue", "mark", "run"} : task' = [task EXCEPT ![t] = [task[t] EXCEPT !.at = x]]
      BY <2>2 DEF Check, Queue, Mark, Verdict
    <3>2. ASSUME NEW x \in {"queue", "mark", "run"}, task' = [task EXCEPT ![t] = [task[t] EXCEPT !.at = x]]
          PROVE  \E q \in TaskRecord : /\ task' = [task EXCEPT ![t] = q]
                                       /\ q = Free \/ q \in OwnTasks \/ Again(task[t], q)
                                       /\ Going(t) => Again(task[t], q) /\ q.at # "remove"
      <4>1. x # "remove"
        OBVIOUS
      <4>2. QED
        BY Zenon, <1>2, <3>2, <4>1
    <3>3. QED
      BY Zenon, <2>1, <3>1, <3>2, OneMoves
  <2>3. CASE Finish(t)
    <3>1. PICK n \in OwnTasks : n = [at |-> "ready", id |-> task[t].id, token |-> 0]
      BY Zenon, <1>1 DEF OwnTasks
    <3>2. \/ task' = [task EXCEPT ![t] = Ended(t)]
          \/ HasSlot /\ task' = [task EXCEPT ![t] = Ended(t), ![Slot] = n]
      BY Zenon, <2>3, <3>1 DEF Finish
    <3>3. CASE HasSlot /\ task' = [task EXCEPT ![t] = Ended(t), ![Slot] = n]
      <4>1. Slot \in Tasks /\ task[Slot].at = "free" /\ Slot # t
        BY <1>1, <3>3, FreeSlot
      <4>2. ~ Going(Slot)
        BY <4>1 DEF Going, TimerTask
      <4>3. PICK f \in [Tasks -> TaskRecord] :
               f = [task EXCEPT ![t] = Ended(t)] /\ task' = [f EXCEPT ![Slot] = n]
        BY Zenon, <1>0, <1>3, <3>3
      <4>4. /\ task' \in [Tasks -> TaskRecord] /\ task'[Slot] = n /\ task'[t] = Ended(t)
            /\ \A s \in Tasks : s # t /\ s # Slot => task'[s] = task[s]
        BY <1>0, <4>1, <4>3 DEF TaskRecord
      <4>5. ASSUME NEW s \in Tasks, task'[s] = task[s], Going(s)
            PROVE  Again(task[s], task'[s]) /\ task'[s].at # "remove"
        BY <4>5 DEF Going, Again
      <4>6. QED
        BY Zenon, <1>3, <4>1, <4>2, <4>4, <4>5
    <3>4. QED
      BY Zenon, <2>1, <3>2, <3>3
  <2>4. QED
    BY <2>2, <2>3
<1>5. jobs' \in [Ids -> {NoJob} \cup JobEntry] /\ \A i \in Ids : Like(jobs[i], jobs'[i])
  <2>1. CASE Check(t)
    BY <1>0, <2>1 DEF Check, Like
  <2>2. CASE Queue(t) \/ Mark(t) \/ Finish(t)
    BY Zenon, <1>1, <2>2, RunJobs
  <2>3. QED
    BY <2>1, <2>2
<1>6. QED
  BY Zenon, <1>0, <1>4, <1>5 DEF Worked

\* So types are kept.
LEMMA WorkedType ==
    ASSUME CronType, Worked
    PROVE  CronType'
BY Zenon DEF CronType, Worked

\* What is left of the bounds.
LEMMA SpendType ==
    ASSUME scene \in Scene, NEW what \in {"schedules", "cancels", "fires", "disposes"}, Spend(what)
    PROVE  scene' \in Scene /\ scene'.threaded = scene.threaded
<1>1. scene[what] \in Nat /\ scene[what] > 0
  BY DEF Scene, Spend
<1>2. scene[what] - 1 \in Nat
  BY <1>1
<1>3. QED
  BY <1>2 DEF Scene, Spend

\* A call of the driver starts a task that is no timer.
LEMMA FiresType ==
    ASSUME CronType, NEW id \in Ids, DriverFires(id)
    PROVE  /\ CronType' /\ UNCHANGED <<jobs, timers, cancelled, nextToken, user, disposed>>
           /\ scene'.threaded = scene.threaded
           /\ \E n \in Tasks : /\ task[n].at = "free"
                               /\ task' = [task EXCEPT ![n] = [at |-> "ready", id |-> id, token |-> 0]]
<1>1. Slot \in Tasks /\ task[Slot].at = "free"
  BY FreeSlot DEF DriverFires
<1>2. PICK r \in TaskRecord : r = [at |-> "ready", id |-> id, token |-> 0]
  BY Zenon DEF TaskRecord, OwnTasks
<1>3. /\ task' = [task EXCEPT ![Slot] = r] /\ Spend("fires")
      /\ UNCHANGED <<jobs, timers, cancelled, nextToken, user, disposed>>
  BY Zenon, <1>2 DEF DriverFires
<1>4. scene' \in Scene /\ scene'.threaded = scene.threaded
  BY <1>3, SpendType DEF CronType
<1>5. task' \in [Tasks -> TaskRecord]
  BY <1>1, <1>3 DEF CronType
<1>6. QED
  BY Zenon, <1>1, <1>2, <1>3, <1>4, <1>5 DEF CronType

\* A new timer and the call that started it.
LEMMA ScheduleType ==
    ASSUME CronType, NEW u \in Users, NEW id \in Ids, NEW kind \in {"cron", "once"},
           NEW overlap \in {"allow", "skip", "queue"}, Schedule(u, id, kind, overlap)
    PROVE  /\ CronType' /\ user[u].at = "idle" /\ UNCHANGED <<jobs, disposed>>
           /\ scene'.threaded = scene.threaded
           /\ nextToken' = nextToken + 1 /\ timers' = [timers EXCEPT ![id] = nextToken]
           /\ cancelled' = cancelled \cup ({timers[id]} \ {0})
           /\ \E n \in Tasks, r \in TimerTask :
                 /\ task[n].at = "free" /\ task' = [task EXCEPT ![n] = r]
                 /\ r.at = "sleep" /\ r.id = id /\ r.token = nextToken /\ r.kind = kind
                 /\ r.fresh = Unused(id)
           /\ \E a \in Adder :
                 /\ user' = [user EXCEPT ![u] = a] /\ a.at = "armed" /\ a.id = id
                 /\ a.job.token = nextToken /\ a.job.kind = kind /\ a.job.fresh = Unused(id)
                 /\ ~ a.job.running /\ ~ a.job.queued
<1>1. Slot \in Tasks /\ task[Slot].at = "free"
  BY FreeSlot DEF Schedule
<1>2. nextToken \in Nat \ {0} /\ Unused(id) \in BOOLEAN
  BY DEF CronType, Unused
<1>3. PICK f \in BOOLEAN : f = Unused(id)
  BY <1>2
<1>4. PICK r \in TimerTask : r = [at |-> "sleep", id |-> id, token |-> nextToken, kind |-> kind,
                                  fresh |-> f]
  <2>1. [at |-> "sleep", id |-> id, token |-> nextToken, kind |-> kind, fresh |-> f] \in TimerTask
    BY <1>2 DEF TimerTask
  <2>2. QED
    BY Zenon, <2>1
<1>4r. r.at = "sleep" /\ r.id = id /\ r.token = nextToken /\ r.kind = kind /\ r.fresh = f
  BY <1>4
<1>5. PICK j \in JobEntry : j = [kind |-> kind, overlap |-> overlap, running |-> FALSE,
                                 queued |-> FALSE, token |-> nextToken, fresh |-> f]
  <2>1. [kind |-> kind, overlap |-> overlap, running |-> FALSE, queued |-> FALSE,
         token |-> nextToken, fresh |-> f] \in JobEntry
    BY <1>2 DEF JobEntry
  <2>2. QED
    BY Zenon, <2>1
<1>5r. j.token = nextToken /\ j.kind = kind /\ j.fresh = f /\ ~ j.running /\ ~ j.queued
  BY <1>5
<1>6. PICK a \in Adder : a = [at |-> "armed", id |-> id, job |-> j]
  <2>1. [at |-> "armed", id |-> id, job |-> j] \in Adder
    BY DEF Adder
  <2>2. QED
    BY Zenon, <2>1
<1>6r. a.at = "armed" /\ a.id = id /\ a.job = j
  BY <1>6
<1>7. /\ user[u].at = "idle" /\ UNCHANGED <<jobs, disposed>> /\ nextToken' = nextToken + 1
      /\ timers' = [timers EXCEPT ![id] = nextToken] /\ Spend("schedules")
      /\ cancelled' = cancelled \cup ({timers[id]} \ {0})
  BY Zenon DEF Schedule
<1>8. task' = [task EXCEPT ![Slot] = r] /\ user' = [user EXCEPT ![u] = a]
  BY Zenon, <1>3, <1>4, <1>5, <1>6 DEF Schedule
<1>9. scene' \in Scene /\ scene'.threaded = scene.threaded
  BY <1>7, SpendType DEF CronType
<1>10. CronType'
  <2>1. task' \in [Tasks -> TaskRecord]
    BY <1>1, <1>8 DEF CronType, TaskRecord
  <2>2. user' \in [Users -> ApiCall]
    BY <1>8 DEF CronType, ApiCall
  <2>3. timers' \in [Ids -> Nat] /\ nextToken' \in Nat \ {0}
    BY <1>2, <1>7 DEF CronType
  <2>4. cancelled' \subseteq Nat
    BY Zenon, <1>7 DEF CronType
  <2>5. QED
    BY Zenon, <1>7, <1>9, <2>1, <2>2, <2>3, <2>4 DEF CronType
<1>11. QED
  BY Zenon, <1>1, <1>3, <1>4r, <1>5r, <1>6r, <1>7, <1>8, <1>9, <1>10

-----------------------------------------------------------------------------
\* schedule_cron after driver.schedule; and a call that has an id.
Adding(u) == user[u].at \in {"armed", "replace", "insert"}
On(u, id) == user[u].at \in {"armed", "replace", "insert", "cancel"} /\ user[u].id = id

\* Tokens are used once.
Tokens ==
    /\ \A id \in Ids : timers[id] < nextToken /\ (Registered(id) => jobs[id].token < nextToken)
    /\ \A i, j \in Ids : timers[i] = timers[j] /\ timers[i] # 0 => i = j
    /\ \A t \in Tasks : Timing(t) => task[t].token < nextToken
    /\ \A u \in Users : Adding(u) => user[u].job.token < nextToken
    /\ \A k \in cancelled : k # 0 /\ k < nextToken

\* The timer the registry has for the id is that of a recurring job, and goes on.
Carried(id) ==
    \E t \in Tasks : /\ Live(t) /\ task[t].id = id /\ task[t].token = timers[id]
                     /\ task[t].kind = "cron" /\ task[t].at # "remove"

\* A call that adds a job under an unused id, whose timer nobody has replaced:
\* nobody else is at the id.
Keeps(u, id) ==
    Adding(u) /\ user[u].id = id /\ user[u].job.fresh /\ user[u].job.token = timers[id]
Sole(u) ==
    \A id \in Ids :
        Keeps(u, id) => /\ user[u].at # "replace" /\ ~ Registered(id)
                        /\ \A v \in Users \ {u} : ~ On(v, id)
                        /\ user[u].job.kind = "cron" => Carried(id)

\* A recurring job that was added so has its timer, and nobody is at its id;
\* or the id is being scheduled again, and the job is about to be taken out.
Rearmed(id) == \E u \in Users : user[u].at = "armed" /\ user[u].id = id
Kept(id) ==
    Registered(id) /\ jobs[id].fresh /\ jobs[id].kind = "cron" /\ ~ disposed =>
        Rearmed(id) \/ (Carried(id) /\ \A u \in Users : ~ On(u, id))

Disposing == \A u \in Users : user[u].at \in {"dispose", "driver"} => disposed

ArmInv ==
    /\ Inv /\ CronType /\ Disposing /\ Tokens
    /\ (\A u \in Users : Sole(u)) /\ (\A id \in Ids : Kept(id))

\* Steps that hand out no token.
LEMMA TokensKept ==
    ASSUME ArmInv, CronType', UNCHANGED nextToken,
           \A id \in Ids : timers'[id] \in {0, timers[id]},
           \A k \in cancelled' : k \in cancelled \/ (k # 0 /\ \E id \in Ids : k = timers[id]),
           \A t \in Tasks : Same(t),
           \A id \in Ids : Registered(id)' => jobs'[id].token < nextToken,
           \A u \in Users : Adding(u)' => user'[u].job.token < nextToken
    PROVE  Tokens'
<1>1. /\ timers \in [Ids -> Nat] /\ timers' \in [Ids -> Nat] /\ nextToken \in Nat /\ nextToken' = nextToken
      /\ nextToken > 0
  BY DEF ArmInv, CronType
<1>2. /\ \A id \in Ids : timers'[id] < nextToken'
      /\ \A i, j \in Ids : timers'[i] = timers'[j] /\ timers'[i] # 0 => i = j
  BY <1>1 DEF ArmInv, Tokens
<1>3. \A t \in Tasks : Timing(t)' => task'[t].token < nextToken'
  BY Zenon, <1>1 DEF Same, ArmInv, Tokens
<1>4. ASSUME NEW k \in cancelled' PROVE k # 0 /\ k < nextToken'
  <2>1. k \in cancelled \/ (k # 0 /\ \E id \in Ids : k = timers[id])
    BY Zenon, <1>4
  <2>2. QED
    BY Zenon, <1>1, <2>1 DEF ArmInv, Tokens
<1>5. QED
  BY Zenon, <1>1, <1>2, <1>3, <1>4 DEF Tokens

\* Steps of tasks, and of a driver, leave the calls of the API alone.
LEMMA OthersArm ==
    ASSUME ArmInv, Inv', CronType', Tokens', UNCHANGED <<user, disposed>>,
           \A id \in Ids : Carried(id) => Carried(id)' /\ timers'[id] = timers[id],
           \A id \in Ids : timers'[id] \in {0, timers[id]},
           \A id \in Ids : Like(jobs[id], jobs'[id])
    PROVE  ArmInv'
<1>0. \A id \in Ids : Registered(id)' <=> Registered(id)
  <2>1. NoJob \notin JobEntry
    BY DEF NoJob, JobEntry
  <2>2. QED
    BY Zenon, <2>1 DEF Registered, Like
<1>1. ASSUME NEW u \in Users PROVE Sole(u)'
  <2> SUFFICES ASSUME NEW id \in Ids, Keeps(u, id)'
               PROVE  /\ user[u].at # "replace" /\ ~ Registered(id)'
                      /\ \A v \in Users \ {u} : ~ On(v, id)
                      /\ user[u].job.kind = "cron" => Carried(id)'
    BY Zenon DEF Sole, On
  <2>1. Adding(u) /\ user[u].id = id /\ user[u].job.fresh /\ user[u].job.token = timers'[id]
    BY Zenon DEF Keeps, Adding
  <2>2. user[u].job.token # 0
    <3>1. user[u] \in ApiCall
      BY DEF ArmInv, CronType
    <3>2. user[u] \in Adder
      BY <2>1, <3>1 DEF Adding, ApiCall, NoApi
    <3>3. QED
      BY <3>2 DEF Adder, JobEntry
  <2>3. Keeps(u, id)
    BY Zenon, <2>1, <2>2 DEF Keeps
  <2>4. QED
    BY Zenon, <1>0, <2>3 DEF ArmInv, Sole
<1>2. ASSUME NEW id \in Ids PROVE Kept(id)'
  <2> SUFFICES ASSUME Registered(id)', jobs'[id].fresh, jobs'[id].kind = "cron", ~ disposed
               PROVE  Rearmed(id) \/ (Carried(id)' /\ \A u \in Users : ~ On(u, id))
    BY Zenon DEF Kept, Rearmed, On
  <2>1. Registered(id) /\ jobs[id].fresh /\ jobs[id].kind = "cron"
    BY Zenon, <1>0 DEF Like
  <2>2. QED
    BY Zenon, <2>1 DEF ArmInv, Kept
<1>3. Disposing'
  BY Zenon DEF ArmInv, Disposing
<1>4. QED
  BY Zenon, <1>1, <1>2, <1>3 DEF ArmInv

\* So a run of a job, or the end of another timer, takes no timer away.
LEMMA WorkedArm ==
    ASSUME ArmInv, Inv', Worked
    PROVE  ArmInv'
<1>1. CronType'
  BY WorkedType DEF ArmInv
<1>2. \A t \in Tasks : Same(t)
  <2> SUFFICES ASSUME NEW t \in Tasks, Timing(t)'
               PROVE  /\ Timing(t) /\ task'[t].id = task[t].id /\ task'[t].token = task[t].token
                      /\ task'[t].fresh = task[t].fresh
    BY Zenon DEF Same
  <2>1. task'[t] # Free /\ task'[t] \notin OwnTasks
    BY DEF Timing, Free, OwnTasks
  <2>2. task'[t] = task[t] \/ Again(task[t], task'[t])
    BY Zenon, <2>1 DEF Worked
  <2>3. CASE task'[t] = task[t]
    BY Zenon, <2>3 DEF Timing
  <2>4. CASE Again(task[t], task'[t])
    <3>1. task[t].at # "free" /\ task[t].token # 0
      BY <2>4 DEF Again, TimerTask
    <3>2. QED
      BY Zenon, <2>4, <3>1 DEF Timing, Again
  <2>5. QED
    BY <2>2, <2>3, <2>4
<1>3. \A id \in Ids : timers'[id] \in {0, timers[id]}
  BY Zenon DEF Worked
<1>4. \A id \in Ids : Registered(id)' => jobs'[id].token < nextToken
  <2>1. NoJob \notin JobEntry
    BY DEF NoJob, JobEntry
  <2>2. QED
    BY Zenon, <2>1 DEF Worked, Like, Registered, ArmInv, Tokens
<1>5. Tokens'
  <2>1. \A u \in Users : Adding(u)' => user'[u].job.token < nextToken
    BY Zenon DEF Worked, Adding, ArmInv, Tokens
  <2>2. \A k \in cancelled' : k \in cancelled
    BY Zenon DEF Worked
  <2>3. QED
    BY Zenon, <1>1, <1>2, <1>3, <1>4, <2>1, <2>2, TokensKept DEF Worked
<1>6. ASSUME NEW id \in Ids, Carried(id) PROVE Carried(id)' /\ timers'[id] = timers[id]
  <2>1. PICK t \in Tasks : /\ Live(t) /\ task[t].id = id /\ task[t].token = timers[id]
                           /\ task[t].kind = "cron" /\ task[t].at # "remove"
    BY Zenon, <1>6 DEF Carried
  <2>2. task[t].at # "free" /\ task[t].token # 0 /\ task[t].token \notin cancelled /\ Timing(t)
    BY Zenon, <2>1 DEF Live, Timing
  <2>3. timers'[id] = timers[id]
    <3>1. ASSUME NEW s \in Tasks, task[s].at = "remove", task[s].id = id PROVE FALSE
      <4>1. Timing(s)
        BY <3>1 DEF ArmInv, Inv, Shape, Shaped, Timing
      <4>2. s = t
        BY Zenon, <2>1, <3>1, <4>1 DEF ArmInv, Inv, Reachable
      <4>3. QED
        BY <2>1, <3>1, <4>2
    <3>2. QED
      BY Zenon, <3>1 DEF Worked
  <2>4. task[t] \in TimerTask
    BY <2>2, TaskKinds DEF ArmInv, CronType
  <2>5. Going(t)
    BY Zenon, <2>1, <2>2, <2>4 DEF Going
  <2>6. Again(task[t], task'[t]) /\ task'[t].at # "remove"
    BY Zenon, <2>5 DEF Worked
  <2>7. /\ task'[t].at # "free" /\ task'[t].token = task[t].token /\ task'[t].id = id
        /\ task'[t].kind = "cron" /\ task'[t].fresh = task[t].fresh
    BY <2>1, <2>6 DEF Again, TimerTask
  <2>8. cancelled' = cancelled
    BY Zenon DEF Worked
  <2>9. Live(t)'
    BY Zenon, <2>1, <2>2, <2>7, <2>8 DEF Live, Timing
  <2>10. QED
    BY Zenon, <2>1, <2>3, <2>6, <2>7, <2>9 DEF Carried
<1>7. QED
  BY Zenon, <1>1, <1>3, <1>5, <1>6, OthersArm DEF Worked

\* A task that starts takes the place of none.
LEMMA FiresArm ==
    ASSUME ArmInv, Inv', NEW id \in Ids, DriverFires(id)
    PROVE  ArmInv'
<1>1. /\ CronType' /\ UNCHANGED <<jobs, timers, cancelled, nextToken, user, disposed>>
  BY FiresType DEF ArmInv
<1>2. PICK n \in Tasks : /\ task[n].at = "free"
                         /\ task' = [task EXCEPT ![n] = [at |-> "ready", id |-> id, token |-> 0]]
  BY FiresType DEF ArmInv
<1>3. /\ \A t \in Tasks \ {n} : task'[t] = task[t]
      /\ task'[n].token = 0
  BY <1>2 DEF ArmInv, CronType
<1>4. \A t \in Tasks : Same(t)
  BY Zenon, <1>3 DEF Same, Timing
<1>5. Tokens'
  <2>1. /\ \A i \in Ids : timers'[i] \in {0, timers[i]}
        /\ \A k \in cancelled' : k \in cancelled
        /\ \A i \in Ids : Registered(i)' => jobs'[i].token < nextToken
        /\ \A u \in Users : Adding(u)' => user'[u].job.token < nextToken
    BY Zenon, <1>1 DEF ArmInv, Tokens, Registered, Adding
  <2>2. QED
    BY Zenon, <1>1, <1>4, <2>1, TokensKept
<1>6. ASSUME NEW i \in Ids, Carried(i) PROVE Carried(i)'
  <2>1. PICK t \in Tasks : /\ Live(t) /\ task[t].id = i /\ task[t].token = timers[i]
                           /\ task[t].kind = "cron" /\ task[t].at # "remove"
    BY Zenon, <1>6 DEF Carried
  <2>2. t # n
    BY Zenon, <1>2, <2>1 DEF Live, Timing
  <2>3. Live(t)' /\ task'[t] = task[t]
    BY Zenon, <1>1, <1>3, <2>1, <2>2 DEF Live, Timing
  <2>4. QED
    BY Zenon, <1>1, <2>1, <2>3 DEF Carried
<1>7. QED
  BY Zenon, <1>1, <1>5, <1>6, OthersArm DEF Like

\* A call of the API changes one call; the tasks go on as they are.
Called(u) ==
    /\ UNCHANGED <<task, nextToken>> /\ \A v \in Users \ {u} : user'[v] = user[v]
    /\ CronType' /\ Inv'

\* Entries that are taken out of the registry take no other along.
LEMMA CancelCarried ==
    ASSUME ArmInv, UNCHANGED task, NEW id \in Ids, DriverCancel(id)
    PROVE  /\ timers'[id] = 0
           /\ \A i \in Ids : timers'[i] \in {0, timers[i]}
           /\ \A i \in Ids \ {id} : timers'[i] = timers[i] /\ (Carried(i) => Carried(i)')
           /\ \A k \in cancelled' : k \in cancelled \/ (k # 0 /\ \E i \in Ids : k = timers[i])
<1>0. timers \in [Ids -> Nat]
  BY DEF ArmInv, CronType
<1>1. timers' = [timers EXCEPT ![id] = 0] /\ cancelled' = cancelled \cup ({timers[id]} \ {0})
  BY Zenon DEF DriverCancel
<1>2. timers'[id] = 0 /\ \A i \in Ids \ {id} : timers'[i] = timers[i]
  BY <1>0, <1>1
<1>3. ASSUME NEW i \in Ids \ {id}, Carried(i) PROVE Carried(i)'
  <2>1. PICK t \in Tasks : /\ Live(t) /\ task[t].id = i /\ task[t].token = timers[i]
                           /\ task[t].kind = "cron" /\ task[t].at # "remove"
    BY Zenon, <1>3 DEF Carried
  <2>2. task[t].token \notin cancelled' /\ Timing(t) /\ task[t].fresh
    BY Zenon, <1>1, <2>1 DEF Live, Timing, ArmInv, Tokens
  <2>3. Live(t)'
    BY Zenon, <2>2 DEF Live, Timing
  <2>4. QED
    BY Zenon, <1>2, <2>1, <2>3 DEF Carried
<1>4. QED
  BY Zenon, <1>1, <1>2, <1>3

\* The records of the calls.
LEMMA CallKinds ==
    ASSUME CronType, NEW u \in Users
    PROVE  /\ user[u] \in ApiCall
           /\ Adding(u) => user[u] \in Adder /\ user[u].id \in Ids /\ user[u].job \in JobEntry
                           /\ user[u].job.token \in Nat \ {0}
           /\ user[u].at = "cancel" => user[u] \in [at : {"cancel"}, id : Ids]
           /\ user[u].at = "dispose" => user[u] \in [at : {"dispose"}, left : SUBSET Ids]
<1>1. user[u] \in ApiCall
  BY DEF CronType
<1>2. Adding(u) => user[u] \in Adder
  BY <1>1 DEF Adding, ApiCall, NoApi
<1>3. user[u] \in Adder => user[u].id \in Ids /\ user[u].job \in JobEntry
  BY DEF Adder
<1>4. user[u].job \in JobEntry => user[u].job.token \in Nat \ {0}
  BY DEF JobEntry
<1>5. user[u].at = "cancel" => user[u] \in [at : {"cancel"}, id : Ids]
  BY <1>1 DEF ApiCall, NoApi, Adder
<1>6. user[u].at = "dispose" => user[u] \in [at : {"dispose"}, left : SUBSET Ids]
  BY <1>1 DEF ApiCall, NoApi, Adder
<1>7. QED
  BY <1>1, <1>2, <1>3, <1>4, <1>5, <1>6

\* What a call of the API may do to a job and its timer.
Careful(u) ==
    /\ disposed => disposed'
    /\ \A id \in Ids :
          /\ timers'[id] \in {0, timers[id]}
          /\ timers'[id] # timers[id] => On(u, id) \/ disposed
          /\ timers'[id] = timers[id] /\ Carried(id) => Carried(id)'
          /\ Registered(id)' /\ ~ Registered(id) => On(u, id)
          /\ On(u, id)' => On(u, id) \/ (Registered(id) /\ ~ Registered(id)')
          /\ Registered(id)' /\ jobs'[id].fresh /\ jobs'[id].kind = "cron" =>
                \/ jobs'[id] = jobs[id]
                \/ /\ Keeps(u, id) /\ user[u].job.kind = "cron" /\ ~ On(u, id)'
                   /\ timers'[id] = timers[id]
          /\ user[u].at = "armed" /\ user[u].id = id => ~ Registered(id)'
          /\ Keeps(u, id)' => /\ Keeps(u, id) /\ user'[u].at # "replace"
                              /\ user'[u].job.kind = user[u].job.kind /\ ~ Registered(id)'
                              /\ timers'[id] = timers[id]

\* Such a call takes no timer from a job that stays.
LEMMA CalledArm ==
    ASSUME ArmInv, NEW u \in Users, Called(u), Tokens', Disposing', Careful(u)
    PROVE  ArmInv'
<1>1. ASSUME NEW v \in Users \ {u} PROVE Sole(v)'
  <2> SUFFICES ASSUME NEW id \in Ids, Keeps(v, id)'
               PROVE  /\ user'[v].at # "replace" /\ ~ Registered(id)'
                      /\ \A w \in Users \ {v} : ~ On(w, id)'
                      /\ user'[v].job.kind = "cron" => Carried(id)'
    BY Zenon DEF Sole
  <2>1. user'[v] = user[v] /\ Adding(v) /\ user[v].id = id
    BY Zenon DEF Called, Keeps, Adding
  <2>2. user[v].job.token # 0
    BY <2>1, CallKinds DEF ArmInv
  <2>3. timers'[id] = timers[id] /\ Keeps(v, id)
    BY Zenon, <2>1, <2>2 DEF Careful, Keeps
  <2>4. /\ user[v].at # "replace" /\ ~ Registered(id)
        /\ \A w \in Users \ {v} : ~ On(w, id)
        /\ user[v].job.kind = "cron" => Carried(id)
    BY Zenon, <2>3 DEF ArmInv, Sole
  <2>5. ~ On(u, id) /\ ~ On(u, id)'
    BY Zenon, <2>4 DEF Careful
  <2>6. ~ Registered(id)'
    BY Zenon, <2>4, <2>5 DEF Careful
  <2>7. ASSUME NEW w \in Users \ {v} PROVE ~ On(w, id)'
    <3>1. CASE w = u
      BY Zenon, <2>5, <3>1
    <3>2. CASE w # u
      BY Zenon, <2>4, <3>2 DEF On, Called
    <3>3. QED
      BY <3>1, <3>2
  <2>8. user[v].job.kind = "cron" => Carried(id)'
    BY Zenon, <2>3, <2>4 DEF Careful
  <2>9. QED
    BY Zenon, <2>1, <2>4, <2>6, <2>7, <2>8
<1>2. Sole(u)'
  <2> SUFFICES ASSUME NEW id \in Ids, Keeps(u, id)'
               PROVE  /\ user'[u].at # "replace" /\ ~ Registered(id)'
                      /\ \A w \in Users \ {u} : ~ On(w, id)'
                      /\ user'[u].job.kind = "cron" => Carried(id)'
    BY Zenon DEF Sole
  <2>1. /\ Keeps(u, id) /\ user'[u].at # "replace" /\ user'[u].job.kind = user[u].job.kind
        /\ ~ Registered(id)' /\ timers'[id] = timers[id]
    BY Zenon DEF Careful
  <2>2. /\ \A w \in Users \ {u} : ~ On(w, id)
        /\ user[u].job.kind = "cron" => Carried(id)
    BY Zenon, <2>1 DEF ArmInv, Sole
  <2>3. user[u].job.kind = "cron" => Carried(id)'
    BY Zenon, <2>1, <2>2 DEF Careful
  <2>4. \A w \in Users \ {u} : ~ On(w, id)'
    BY Zenon, <2>2 DEF On, Called
  <2>5. QED
    BY Zenon, <2>1, <2>3, <2>4
<1>3. ASSUME NEW id \in Ids PROVE Kept(id)'
  <2> SUFFICES ASSUME Registered(id)', jobs'[id].fresh, jobs'[id].kind = "cron", ~ disposed'
               PROVE  Rearmed(id)' \/ (Carried(id)' /\ \A v \in Users : ~ On(v, id)')
    BY Zenon DEF Kept
  <2>0. ~ disposed
    BY Zenon DEF Careful
  <2>1. CASE jobs'[id] = jobs[id]
    <3>1. Registered(id) /\ jobs[id].fresh /\ jobs[id].kind = "cron"
      BY Zenon, <2>1 DEF Registered
    <3>2. CASE Rearmed(id)
      <4>1. PICK v \in Users : user[v].at = "armed" /\ user[v].id = id
        BY Zenon, <3>2 DEF Rearmed
      <4>2. v # u
        BY Zenon, <4>1 DEF Careful
      <4>3. QED
        BY Zenon, <4>1, <4>2 DEF Rearmed, Called
    <3>3. CASE Carried(id) /\ \A v \in Users : ~ On(v, id)
      <4>1. ~ On(u, id)' /\ timers'[id] = timers[id] /\ Carried(id)'
        BY Zenon, <2>0, <3>3 DEF Careful
      <4>2. \A v \in Users : ~ On(v, id)'
        BY Zenon, <3>3, <4>1 DEF On, Called
      <4>3. QED
        BY Zenon, <4>1, <4>2
    <3>4. QED
      BY Zenon, <2>0, <3>1, <3>2, <3>3 DEF ArmInv, Kept
  <2>2. CASE /\ Keeps(u, id) /\ user[u].job.kind = "cron" /\ ~ On(u, id)'
             /\ timers'[id] = timers[id]
    <3>1. Carried(id) /\ \A v \in Users \ {u} : ~ On(v, id)
      BY Zenon, <2>2 DEF ArmInv, Sole
    <3>2. Carried(id)'
      BY Zenon, <2>2, <3>1 DEF Careful
    <3>3. \A v \in Users : ~ On(v, id)'
      BY Zenon, <2>2, <3>1 DEF On, Called
    <3>4. QED
      BY Zenon, <3>2, <3>3
  <2>3. QED
    BY Zenon, <2>1, <2>2 DEF Careful
<1>4. QED
  BY Zenon, <1>1, <1>2, <1>3 DEF ArmInv, Called

\* No call but driver.schedule hands out a token.
LEMMA CalledTokens ==
    ASSUME ArmInv, NEW u \in Users, Called(u),
           \A id \in Ids : timers'[id] \in {0, timers[id]},
           \A k \in cancelled' : k \in cancelled \/ (k # 0 /\ \E i \in Ids : k = timers[i]),
           \A id \in Ids : Registered(id)' => jobs'[id] = jobs[id] \/ jobs'[id].token < nextToken,
           Adding(u)' => user'[u].job.token < nextToken
    PROVE  Tokens'
<1>1. \A t \in Tasks : Same(t)
  BY Zenon DEF Same, Timing, Called
<1>2. \A id \in Ids : Registered(id)' => jobs'[id].token < nextToken
  BY Zenon DEF Registered, ArmInv, Tokens
<1>3. \A v \in Users : Adding(v)' => user'[v].job.token < nextToken
  BY Zenon DEF Adding, Called, ArmInv, Tokens
<1>4. QED
  BY Zenon, <1>1, <1>2, <1>3, TokensKept DEF Called

\* The record of a call that goes on.
LEMMA AdderGoes ==
    ASSUME NEW r \in Adder, NEW x \in {"replace", "insert"}
    PROVE  LET q == [r EXCEPT !.at = x] IN q \in Adder /\ q.at = x /\ q.id = r.id /\ q.job = r.job
BY DEF Adder

\* One call changes.
LEMMA OneCall ==
    ASSUME CronType, NEW u \in Users, NEW q \in ApiCall, user' = [user EXCEPT ![u] = q]
    PROVE  /\ user' \in [Users -> ApiCall] /\ user'[u] = q
           /\ \A v \in Users \ {u} : user'[v] = user[v]
BY DEF CronType

\* schedule_cron takes out the entry the id had.
LEMMA RemoveArm ==
    ASSUME ArmInv, Inv', NEW u \in Users, Remove(u)
    PROVE  ArmInv' /\ CronType'
<1>0. CronType
  BY DEF ArmInv
<1>1. /\ user[u].at = "armed" /\ Adding(u) /\ user[u] \in Adder /\ user[u].id \in Ids
      /\ user[u].job.token \in Nat \ {0}
  BY <1>0, CallKinds DEF Remove, Adding
<1>2. PICK id \in Ids : id = user[u].id
  BY <1>1
<1>3. PICK x \in {"replace", "insert"} : /\ x = IF Registered(id) THEN "replace" ELSE "insert"
                                         /\ user' = [user EXCEPT ![u].at = x]
  BY Zenon, <1>2 DEF Remove
<1>4. PICK q \in Adder : q = [user[u] EXCEPT !.at = x] /\ q.at = x /\ q.id = id /\ q.job = user[u].job
  BY Zenon, <1>1, <1>2, AdderGoes
<1>5. user' = [user EXCEPT ![u] = q] /\ q \in ApiCall
  BY Zenon, <1>3, <1>4 DEF ApiCall
<1>6. /\ user' \in [Users -> ApiCall] /\ user'[u] = q /\ \A v \in Users \ {u} : user'[v] = user[v]
  BY Zenon, <1>0, <1>5, OneCall
<1>7. /\ jobs' = [jobs EXCEPT ![id] = NoJob]
      /\ UNCHANGED <<timers, cancelled, nextToken, task, disposed, scene>>
  BY Zenon, <1>2 DEF Remove
<1>8. /\ jobs' \in [Ids -> {NoJob} \cup JobEntry] /\ jobs'[id] = NoJob
      /\ \A i \in Ids \ {id} : jobs'[i] = jobs[i]
  BY <1>0, <1>7 DEF CronType
<1>9. CronType'
  BY Zenon, <1>0, <1>6, <1>7, <1>8 DEF CronType
<1>10. Called(u)
  BY Zenon, <1>6, <1>7, <1>9 DEF Called
<1>11. Tokens'
  <2>1. \A i \in Ids : Registered(i)' => jobs'[i] = jobs[i]
    BY Zenon, <1>8 DEF Registered
  <2>2. Adding(u)' => user'[u].job.token < nextToken
    BY Zenon, <1>1, <1>4, <1>6 DEF ArmInv, Tokens
  <2>3. QED
    BY Zenon, <1>7, <1>10, <2>1, <2>2, CalledTokens
<1>12. Disposing'
  <2>1. q.at \notin {"dispose", "driver"}
    BY <1>4
  <2>2. QED
    BY Zenon, <1>6, <1>7, <2>1 DEF ArmInv, Disposing
<1>13. Careful(u)
  <2>1. ASSUME NEW i \in Ids, On(u, i)' PROVE On(u, i)
    BY Zenon, <1>1, <1>2, <1>4, <1>6, <2>1 DEF On
  <2>2. ASSUME NEW i \in Ids, Keeps(u, i)'
        PROVE  /\ Keeps(u, i) /\ user'[u].at # "replace" /\ user'[u].job.kind = user[u].job.kind
               /\ ~ Registered(i)'
    <3>1. i = id
      BY Zenon, <1>4, <1>6, <2>2 DEF Keeps
    <3>2. Keeps(u, i) /\ user'[u].job.kind = user[u].job.kind
      BY Zenon, <1>1, <1>2, <1>4, <1>6, <1>7, <2>2, <3>1 DEF Keeps
    <3>3. ~ Registered(i)
      BY Zenon, <3>2 DEF ArmInv, Sole
    <3>4. x # "replace"
      BY <1>3, <3>1, <3>3
    <3>5. QED
      BY Zenon, <1>4, <1>6, <1>8, <3>1, <3>2, <3>4 DEF Registered
  <2>3. \A i \in Ids : Carried(i) => Carried(i)'
    BY Zenon, <1>7 DEF Carried, Live, Timing
  <2>4. \A i \in Ids : Registered(i)' => jobs'[i] = jobs[i] /\ Registered(i) /\ i # id
    BY Zenon, <1>8 DEF Registered
  <2>5. QED
    BY Zenon, <1>2, <1>7, <2>1, <2>2, <2>3, <2>4 DEF Careful
<1>14. QED
  BY Zenon, <1>9, <1>10, <1>11, <1>12, <1>13, CalledArm

\* Calls that have the driver cancel the timer of an id.
LEMMA CancelsArm ==
    ASSUME ArmInv, Inv', NEW u \in Users, NEW id \in Ids, DriverCancel(id),
           UNCHANGED <<jobs, nextToken, task, disposed, scene>>,
           NEW q \in ApiCall, user' = [user EXCEPT ![u] = q], q.at \in {"idle", "insert", "dispose"},
           q.at = "insert" => Adding(u) /\ user[u].id = id /\ q.id = id /\ q.job = user[u].job,
           q.at = "dispose" => disposed, On(u, id) \/ disposed, user[u].at # "armed"
    PROVE  ArmInv' /\ CronType'
<1>0. CronType
  BY DEF ArmInv
<1>1. /\ user' \in [Users -> ApiCall] /\ user'[u] = q /\ \A v \in Users \ {u} : user'[v] = user[v]
  BY Zenon, <1>0, OneCall
<1>2. /\ timers'[id] = 0 /\ \A i \in Ids : timers'[i] \in {0, timers[i]}
      /\ \A i \in Ids \ {id} : timers'[i] = timers[i] /\ (Carried(i) => Carried(i)')
      /\ \A k \in cancelled' : k \in cancelled \/ (k # 0 /\ \E i \in Ids : k = timers[i])
  BY Zenon, CancelCarried
<1>3. CronType'
  <2>1. timers' \in [Ids -> Nat] /\ cancelled' \subseteq Nat
    BY Zenon, <1>0 DEF CronType, DriverCancel
  <2>2. QED
    BY Zenon, <1>0, <1>1, <2>1 DEF CronType
<1>4. Called(u)
  BY Zenon, <1>1, <1>3 DEF Called
<1>5. ASSUME Adding(u)'
      PROVE  /\ Adding(u) /\ user[u].id = id /\ q.id = id /\ q.job = user[u].job
             /\ q.job.token # 0
  <2>1. q.at = "insert"
    BY <1>1, <1>5 DEF Adding
  <2>2. QED
    BY <1>0, <2>1, CallKinds
<1>6. Tokens'
  <2>1. Adding(u)' => user'[u].job.token < nextToken
    BY Zenon, <1>1, <1>5 DEF ArmInv, Tokens
  <2>2. QED
    BY Zenon, <1>2, <1>4, <2>1, CalledTokens
<1>7. Disposing'
  <2>1. q.at # "driver"
    OBVIOUS
  <2>2. QED
    BY Zenon, <1>1, <2>1 DEF ArmInv, Disposing
<1>8. Careful(u)
  <2>1. ASSUME NEW i \in Ids, On(u, i)' PROVE On(u, i)
    <3>1. Adding(u)' /\ q.id = i
      BY <1>1, <2>1 DEF On, Adding
    <3>2. QED
      BY <1>5, <3>1 DEF On, Adding
  <2>2. ASSUME NEW i \in Ids, Keeps(u, i)' PROVE FALSE
    BY Zenon, <1>1, <1>2, <1>5, <2>2 DEF Keeps
  <2>3. \A i \in Ids : /\ timers'[i] = timers[i] /\ Carried(i) => Carried(i)'
                       /\ Registered(i)' => Registered(i)
    <3>1. ASSUME timers'[id] = timers[id], Carried(id) PROVE FALSE
      BY Zenon, <1>2, <3>1 DEF Carried, Live, Timing
    <3>2. QED
      BY Zenon, <1>2, <3>1 DEF Registered
  <2>4. QED
    BY Zenon, <1>2, <2>1, <2>2, <2>3 DEF Careful
<1>9. QED
  BY Zenon, <1>3, <1>4, <1>6, <1>7, <1>8, CalledArm

\* They are the second step of replacing and of cancelling a job, and dispose.
LEMMA ReplaceArm ==
    ASSUME ArmInv, Inv', NEW u \in Users, Replace(u) \/ CancelTimer(u) \/ DisposeTimer(u)
    PROVE  ArmInv' /\ CronType'
<1>0. CronType
  BY DEF ArmInv
<1>1. CASE Replace(u)
  <2>1. /\ user[u].at = "replace" /\ Adding(u) /\ user[u] \in Adder /\ user[u].id \in Ids
    BY <1>0, <1>1, CallKinds DEF Replace, Adding
  <2>2. PICK q \in Adder : /\ q = [user[u] EXCEPT !.at = "insert"] /\ q.at = "insert"
                           /\ q.id = user[u].id /\ q.job = user[u].job
    BY Zenon, <2>1, AdderGoes
  <2>3. /\ user' = [user EXCEPT ![u] = q] /\ q \in ApiCall /\ DriverCancel(user[u].id)
        /\ UNCHANGED <<jobs, nextToken, task, disposed, scene>>
    BY Zenon, <1>1, <2>2 DEF Replace, ApiCall
  <2>4. On(u, user[u].id) /\ user[u].at # "armed" /\ q.at # "dispose"
    BY <2>1, <2>2 DEF On
  <2>5. q.at \in {"idle", "insert", "dispose"}
    BY <2>2
  <2>6. QED
    BY Zenon, <2>1, <2>2, <2>3, <2>4, <2>5, CancelsArm
<1>2. CASE CancelTimer(u)
  <2>1. user[u].at = "cancel" /\ user[u].id \in Ids
    BY <1>0, <1>2, CallKinds DEF CancelTimer
  <2>a. NoApi \in ApiCall
    BY Zenon DEF ApiCall, NoApi
  <2>b. NoApi.at = "idle"
    BY DEF NoApi
  <2>2. PICK q \in ApiCall : q = NoApi /\ q.at = "idle"
    BY Zenon, <2>a, <2>b
  <2>3. /\ user' = [user EXCEPT ![u] = q] /\ DriverCancel(user[u].id)
        /\ UNCHANGED <<jobs, nextToken, task, disposed, scene>>
    BY Zenon, <1>2, <2>2 DEF CancelTimer
  <2>4. /\ On(u, user[u].id) /\ user[u].at # "armed" /\ q.at \notin {"dispose", "insert"}
        /\ q.at \in {"idle", "insert", "dispose"}
    BY <2>1, <2>2 DEF On
  <2>5. QED
    BY Zenon, <2>1, <2>3, <2>4, CancelsArm
<1>3. CASE DisposeTimer(u)
  <2>1. /\ user[u].at = "dispose" /\ user[u] \in [at : {"dispose"}, left : SUBSET Ids]
        /\ disposed
    BY <1>0, <1>3, CallKinds DEF DisposeTimer, ArmInv, Disposing
  <2>2. PICK id \in user[u].left : /\ DriverCancel(id)
                                   /\ user' = [user EXCEPT ![u].left = user[u].left \ {id}]
    BY Zenon, <1>3 DEF DisposeTimer
  <2>3. id \in Ids
    BY <2>1, <2>2
  <2>4. PICK q : q = [user[u] EXCEPT !.left = user[u].left \ {id}]
    OBVIOUS
  <2>5. q \in [at : {"dispose"}, left : SUBSET Ids] /\ q.at = "dispose"
    BY <2>1, <2>4
  <2>6. /\ user' = [user EXCEPT ![u] = q] /\ q \in ApiCall
        /\ UNCHANGED <<jobs, nextToken, task, disposed, scene>>
    BY Zenon, <1>3, <2>2, <2>4, <2>5 DEF DisposeTimer, ApiCall
  <2>7. /\ user[u].at # "armed" /\ q.at # "insert" /\ q.at \in {"idle", "insert", "dispose"}
    BY <2>1, <2>5
  <2>8. QED
    BY Zenon, <2>1, <2>2, <2>3, <2>6, <2>7, CancelsArm
<1>4. QED
  BY <1>1, <1>2, <1>3

\* Calls that only take entries out of the registry, or are part of dispose.
LEMMA TakesArm ==
    ASSUME ArmInv, Inv', NEW u \in Users, UNCHANGED <<nextToken, task>>,
           NEW q \in ApiCall, user' = [user EXCEPT ![u] = q], user[u].at # "armed",
           q.at \in {"idle", "cancel", "dispose", "driver"}, q.at \in {"dispose", "driver"} => disposed',
           jobs' \in [Ids -> {NoJob} \cup JobEntry], \A i \in Ids : jobs'[i] \in {NoJob, jobs[i]},
           q.at = "cancel" => Registered(q.id) /\ ~ Registered(q.id)',
           disposed => disposed', disposed' \in BOOLEAN, scene' \in Scene,
           \/ UNCHANGED <<timers, cancelled>>
           \/ /\ disposed /\ timers' = [id \in Ids |-> 0]
              /\ cancelled' = cancelled \cup ({timers[id] : id \in Ids} \ {0})
    PROVE  ArmInv' /\ CronType'
<1>0. CronType
  BY DEF ArmInv
<1>1. /\ user' \in [Users -> ApiCall] /\ user'[u] = q /\ \A v \in Users \ {u} : user'[v] = user[v]
  BY Zenon, <1>0, OneCall
<1>2. /\ timers' \in [Ids -> Nat] /\ cancelled' \subseteq Nat
      /\ \A i \in Ids : timers'[i] \in {0, timers[i]}
      /\ \A k \in cancelled' : k \in cancelled \/ (k # 0 /\ \E i \in Ids : k = timers[i])
  <2>1. CASE UNCHANGED <<timers, cancelled>>
    BY Zenon, <1>0, <2>1 DEF CronType
  <2>2. CASE /\ disposed /\ timers' = [id \in Ids |-> 0]
             /\ cancelled' = cancelled \cup ({timers[id] : id \in Ids} \ {0})
    <3>1. timers' \in [Ids -> Nat] /\ \A i \in Ids : timers'[i] = 0
      BY <2>2
    <3>2. \A k \in cancelled' : k \in cancelled \/ (k # 0 /\ \E i \in Ids : k = timers[i])
      BY Zenon, <2>2
    <3>3. cancelled' \subseteq Nat
      <4>1. cancelled \subseteq Nat /\ \A i \in Ids : timers[i] \in Nat
        BY <1>0 DEF CronType
      <4>2. QED
        BY Zenon, <3>2, <4>1
    <3>4. QED
      BY Zenon, <3>1, <3>2, <3>3
  <2>3. QED
    BY <2>1, <2>2
<1>3. CronType'
  <2>1. nextToken' \in Nat \ {0} /\ task' \in [Tasks -> TaskRecord]
    BY Zenon, <1>0 DEF CronType
  <2>2. QED
    BY Zenon, <1>1, <1>2, <2>1 DEF CronType
<1>4. Called(u)
  BY Zenon, <1>1, <1>3 DEF Called
<1>5. ~ Adding(u)' /\ \A i \in Ids : On(u, i)' => q.at = "cancel" /\ q.id = i
  BY <1>1 DEF Adding, On
<1>6. Tokens'
  <2>1. \A i \in Ids : Registered(i)' => jobs'[i] = jobs[i]
    BY Zenon DEF Registered
  <2>2. QED
    BY Zenon, <1>2, <1>4, <1>5, <2>1, CalledTokens
<1>7. Disposing'
  BY Zenon, <1>1 DEF ArmInv, Disposing
<1>8. Careful(u)
  <2>1. \A i \in Ids : Registered(i)' => jobs'[i] = jobs[i] /\ Registered(i)
    BY Zenon DEF Registered
  <2>2. \A i \in Ids : /\ timers'[i] # timers[i] => disposed
                       /\ timers'[i] = timers[i] /\ Carried(i) => Carried(i)'
    <3>1. CASE UNCHANGED <<timers, cancelled>>
      BY Zenon, <3>1 DEF Carried, Live, Timing
    <3>2. CASE disposed /\ timers' = [id \in Ids |-> 0]
      <4>1. \A i \in Ids : timers'[i] = 0
        BY <3>2
      <4>2. \A i \in Ids : timers[i] = 0 => ~ Carried(i)
        BY Zenon DEF Carried, Live, Timing
      <4>3. QED
        BY Zenon, <3>2, <4>1, <4>2
    <3>3. QED
      BY <3>1, <3>2
  <2>3. \A i \in Ids : ~ Keeps(u, i)'
    BY Zenon, <1>5 DEF Keeps
  <2>4. \A i \in Ids : On(u, i)' => Registered(i) /\ ~ Registered(i)'
    BY Zenon, <1>5
  <2>5. QED
    BY Zenon, <1>2, <2>1, <2>2, <2>3, <2>4 DEF Careful
<1>9. QED
  BY Zenon, <1>3, <1>4, <1>6, <1>7, <1>8, CalledArm

\* cancel_job, and the steps of dispose that are left.
LEMMA DisposeArm ==
    ASSUME ArmInv, Inv', NEW u \in Users,
           \/ \E id \in Ids : CancelJob(u, id)
           \/ Dispose(u) \/ DisposeJobs(u) \/ DisposeDriver(u)
    PROVE  ArmInv' /\ CronType'
<1>0. /\ CronType /\ scene \in Scene /\ jobs \in [Ids -> {NoJob} \cup JobEntry] /\ disposed \in BOOLEAN
      /\ user[u].at \in {"dispose", "driver"} => disposed
  BY Zenon DEF ArmInv, CronType, Disposing
<1>1. ASSUME NEW id \in Ids, CancelJob(u, id) PROVE ArmInv' /\ CronType'
  <2>a. [at |-> "cancel", id |-> id] \in ApiCall
    BY DEF ApiCall
  <2>1. PICK q \in ApiCall : q = [at |-> "cancel", id |-> id]
    BY Zenon, <2>a
  <2>2. q.at = "cancel" /\ q.id = id /\ q.at \in {"idle", "cancel", "dispose", "driver"}
        /\ q.at \notin {"dispose", "driver"}
    BY <2>1
  <2>3. /\ user[u].at = "idle" /\ Registered(id) /\ Spend("cancels") /\ user' = [user EXCEPT ![u] = q]
        /\ jobs' = [jobs EXCEPT ![id] = NoJob]
        /\ UNCHANGED <<timers, cancelled, nextToken, task, disposed>>
    BY Zenon, <1>1, <2>1 DEF CancelJob
  <2>4. /\ jobs' \in [Ids -> {NoJob} \cup JobEntry] /\ \A i \in Ids : jobs'[i] \in {NoJob, jobs[i]}
        /\ jobs'[id] = NoJob
    BY <1>0, <2>3
  <2>5. scene' \in Scene
    BY <1>0, <2>3, SpendType
  <2>6. ~ Registered(id)' /\ user[u].at # "armed" /\ disposed' \in BOOLEAN
    BY <1>0, <2>3, <2>4 DEF Registered
  <2>7. QED
    BY Zenon, <2>2, <2>3, <2>4, <2>5, <2>6, TakesArm
<1>2. CASE Dispose(u)
  <2>a. [at |-> "dispose", left |-> {id \in Ids : Registered(id)}] \in ApiCall
    BY DEF ApiCall
  <2>1. PICK q \in ApiCall : q = [at |-> "dispose", left |-> {id \in Ids : Registered(id)}]
    BY Zenon, <2>a
  <2>2. q.at = "dispose" /\ q.at \in {"idle", "cancel", "dispose", "driver"} /\ q.at # "cancel"
    BY <2>1
  <2>3. /\ user[u].at = "idle" /\ Spend("disposes") /\ user' = [user EXCEPT ![u] = q]
        /\ disposed' = TRUE /\ UNCHANGED <<jobs, timers, cancelled, nextToken, task>>
    BY Zenon, <1>2, <2>1 DEF Dispose
  <2>5. scene' \in Scene
    BY <1>0, <2>3, SpendType
  <2>6. user[u].at # "armed" /\ disposed' \in BOOLEAN
    BY <2>3
  <2>7. QED
    BY Zenon, <1>0, <2>2, <2>3, <2>5, <2>6, TakesArm
<1>3. CASE DisposeJobs(u)
  <2>a. [at |-> "driver"] \in ApiCall
    BY DEF ApiCall
  <2>1. PICK q \in ApiCall : q = [at |-> "driver"]
    BY Zenon, <2>a
  <2>2. q.at = "driver" /\ q.at \in {"idle", "cancel", "dispose", "driver"} /\ q.at # "cancel"
    BY <2>1
  <2>3. /\ user[u].at = "dispose" /\ user' = [user EXCEPT ![u] = q]
        /\ jobs' = [id \in Ids |-> NoJob]
        /\ UNCHANGED <<timers, cancelled, nextToken, task, disposed, scene>>
    BY Zenon, <1>3, <2>1 DEF DisposeJobs
  <2>4. jobs' \in [Ids -> {NoJob} \cup JobEntry] /\ \A i \in Ids : jobs'[i] \in {NoJob, jobs[i]}
    BY <2>3
  <2>6. user[u].at # "armed" /\ disposed /\ disposed'
    BY <1>0, <2>3
  <2>7. QED
    BY Zenon, <1>0, <2>2, <2>3, <2>4, <2>6, TakesArm
<1>4. CASE DisposeDriver(u)
  <2>a. NoApi \in ApiCall
    BY Zenon DEF ApiCall
  <2>1. PICK q \in ApiCall : q = NoApi
    BY Zenon, <2>a
  <2>2. /\ q.at \notin {"dispose", "driver"} /\ q.at \in {"idle", "cancel", "dispose", "driver"}
        /\ q.at # "cancel"
    BY <2>1 DEF NoApi
  <2>3. /\ user[u].at = "driver" /\ user' = [user EXCEPT ![u] = q]
        /\ cancelled' = cancelled \cup ({timers[id] : id \in Ids} \ {0})
        /\ timers' = [id \in Ids |-> 0]
        /\ UNCHANGED <<jobs, nextToken, task, disposed, scene>>
    BY Zenon, <1>4, <2>1 DEF DisposeDriver
  <2>6. user[u].at # "armed" /\ disposed /\ disposed'
    BY <1>0, <2>3
  <2>7. QED
    BY Zenon, <1>0, <2>2, <2>3, <2>6, TakesArm
<1>5. QED
  BY <1>1, <1>2, <1>3, <1>4

\* schedule_cron's last step: a job that is still fresh has the timer of the call.
LEMMA InsertArm ==
    ASSUME ArmInv, Inv', NEW u \in Users, Insert(u)
    PROVE  ArmInv' /\ CronType'
<1>0. CronType
  BY DEF ArmInv
<1>1. /\ user[u].at = "insert" /\ Adding(u) /\ user[u].id \in Ids /\ user[u].job \in JobEntry
      /\ user[u].job.token \in Nat \ {0}
  BY <1>0, CallKinds DEF Insert, Adding
<1>2. PICK id \in Ids : id = user[u].id
  BY <1>1
<1>3. PICK f \in BOOLEAN : f = (timers[id] = user[u].job.token)
  OBVIOUS
<1>4. PICK j : j = [user[u].job EXCEPT !.fresh = @ /\ f]
  OBVIOUS
<1>5. /\ j \in JobEntry /\ j.token = user[u].job.token /\ j.kind = user[u].job.kind
      /\ j.fresh => user[u].job.fresh /\ f
  BY <1>1, <1>4 DEF JobEntry
<1>6. /\ jobs' = [jobs EXCEPT ![id] = IF Registered(id) THEN @ ELSE j]
      /\ user' = [user EXCEPT ![u] = NoApi]
      /\ UNCHANGED <<timers, cancelled, nextToken, task, disposed, scene>>
  BY Zenon, <1>2, <1>3, <1>4 DEF Insert
<1>7. /\ jobs' \in [Ids -> {NoJob} \cup JobEntry]
      /\ jobs'[id] = (IF Registered(id) THEN jobs[id] ELSE j)
      /\ \A i \in Ids \ {id} : jobs'[i] = jobs[i]
  BY <1>0, <1>5, <1>6 DEF CronType
<1>8. NoApi \in ApiCall /\ NoApi.at = "idle"
  <2>1. NoApi \in ApiCall
    BY Zenon DEF ApiCall
  <2>2. NoApi.at = "idle"
    BY DEF NoApi
  <2>3. QED
    BY <2>1, <2>2
<1>9. /\ user' \in [Users -> ApiCall] /\ user'[u] = NoApi /\ \A v \in Users \ {u} : user'[v] = user[v]
  BY Zenon, <1>0, <1>6, <1>8, OneCall
<1>10. CronType'
  BY Zenon, <1>0, <1>6, <1>7, <1>9 DEF CronType
<1>11. Called(u)
  BY Zenon, <1>6, <1>9, <1>10 DEF Called
<1>12. ~ Adding(u)' /\ \A i \in Ids : ~ On(u, i)'
  BY <1>8, <1>9 DEF Adding, On
<1>13. Tokens'
  <2>1. user[u].job.token < nextToken
    BY Zenon, <1>1 DEF ArmInv, Tokens
  <2>2. \A i \in Ids : Registered(i)' => jobs'[i] = jobs[i] \/ jobs'[i].token < nextToken
    BY Zenon, <1>5, <1>7, <2>1
  <2>3. QED
    BY Zenon, <1>6, <1>11, <1>12, <2>2, CalledTokens
<1>14. Disposing'
  BY <1>6, <1>8, <1>9 DEF ArmInv, Disposing
<1>15. Careful(u)
  <2>1. On(u, id) /\ user[u].at # "armed"
    BY <1>1, <1>2 DEF On
  <2>2. \A i \in Ids : Registered(i)' /\ ~ Registered(i) => On(u, i)
    BY Zenon, <1>7, <2>1 DEF Registered
  <2>3. ASSUME NEW i \in Ids, Registered(i)', jobs'[i].fresh, jobs'[i].kind = "cron"
        PROVE  jobs'[i] = jobs[i] \/ (Keeps(u, i) /\ user[u].job.kind = "cron")
    <3>1. CASE i = id /\ ~ Registered(id)
      <4>1. user[u].job.fresh /\ f /\ user[u].job.kind = "cron"
        BY Zenon, <1>5, <1>7, <2>3, <3>1
      <4>2. QED
        BY Zenon, <1>1, <1>2, <1>3, <3>1, <4>1 DEF Keeps
    <3>2. CASE i # id \/ Registered(id)
      BY Zenon, <1>7, <3>2
    <3>3. QED
      BY Zenon, <3>1, <3>2
  <2>4. \A i \in Ids : Carried(i) => Carried(i)'
    BY Zenon, <1>6 DEF Carried, Live, Timing
  <2>5. \A i \in Ids : ~ Keeps(u, i)'
    BY Zenon, <1>12 DEF Keeps
  <2>6. QED
    BY Zenon, <1>6, <1>12, <2>1, <2>2, <2>3, <2>4, <2>5 DEF Careful
<1>16. QED
  BY Zenon, <1>10, <1>11, <1>13, <1>14, <1>15, CalledArm

\* driver.schedule: an unused id gets a timer of its own, a used one is scheduled again.
LEMMA ScheduleArm ==
    ASSUME ArmInv, Inv', NEW u \in Users, NEW id \in Ids, NEW kind \in {"cron", "once"},
           NEW overlap \in {"allow", "skip", "queue"}, Schedule(u, id, kind, overlap)
    PROVE  ArmInv'
<1>0. CronType
  BY DEF ArmInv
<1>1. /\ CronType' /\ user[u].at = "idle" /\ UNCHANGED <<jobs, disposed>>
      /\ nextToken' = nextToken + 1 /\ timers' = [timers EXCEPT ![id] = nextToken]
      /\ cancelled' = cancelled \cup ({timers[id]} \ {0})
  BY <1>0, ScheduleType
<1>2. PICK n \in Tasks, r \in TimerTask :
         /\ task[n].at = "free" /\ task' = [task EXCEPT ![n] = r]
         /\ r.at = "sleep" /\ r.id = id /\ r.token = nextToken /\ r.kind = kind
         /\ r.fresh = Unused(id)
  BY <1>0, ScheduleType
<1>3. PICK a \in Adder :
         /\ user' = [user EXCEPT ![u] = a] /\ a.at = "armed" /\ a.id = id
         /\ a.job.token = nextToken /\ a.job.kind = kind /\ a.job.fresh = Unused(id)
  BY <1>0, ScheduleType
<1>4. /\ timers'[id] = nextToken /\ \A i \in Ids \ {id} : timers'[i] = timers[i]
      /\ task'[n] = r /\ \A t \in Tasks \ {n} : task'[t] = task[t]
      /\ user'[u] = a /\ \A v \in Users \ {u} : user'[v] = user[v]
      /\ nextToken \in Nat \ {0} /\ timers \in [Ids -> Nat]
      /\ \A i \in Ids : timers[i] < nextToken
  BY <1>0, <1>1, <1>2, <1>3 DEF CronType, ArmInv, Tokens
<1>5. \A v \in Users \ {u} : Adding(v)' => Adding(v) /\ user[v].job.token \in Nat /\ user[v].job.token < nextToken
  BY <1>0, <1>4, CallKinds DEF Adding, ArmInv, Tokens
<1>6. Tokens'
  <2>1. /\ \A i \in Ids : timers'[i] < nextToken'
        /\ \A i, j \in Ids : timers'[i] = timers'[j] /\ timers'[i] # 0 => i = j
    <3>1. /\ nextToken' = nextToken + 1
          /\ \A i, j \in Ids : timers[i] = timers[j] /\ timers[i] # 0 => i = j
      BY Zenon, <1>1 DEF ArmInv, Tokens
    <3>2. \A i \in Ids : timers[i] \in Nat
      BY <1>4
    <3>3. QED
      BY <1>4, <3>1, <3>2
  <2>2. ASSUME NEW i \in Ids, Registered(i)' PROVE jobs'[i].token < nextToken'
    <3>1. jobs[i] \in JobEntry /\ jobs[i].token < nextToken /\ jobs'[i] = jobs[i]
      BY Zenon, <1>0, <1>1, <2>2 DEF Registered, CronType, ArmInv, Tokens
    <3>2. jobs[i].token \in Nat
      BY <3>1 DEF JobEntry
    <3>3. QED
      BY <1>1, <1>4, <3>1, <3>2
  <2>3. ASSUME NEW t \in Tasks, Timing(t)' PROVE task'[t].token < nextToken'
    <3>1. CASE t = n
      BY <1>1, <1>2, <1>4, <3>1
    <3>2. CASE t # n
      <4>1. Timing(t) /\ task'[t] = task[t]
        BY Zenon, <1>4, <2>3, <3>2 DEF Timing
      <4>2. task[t].token < nextToken /\ task[t].token \in Nat
        BY <1>0, <4>1, TaskKinds DEF CronType, ArmInv, Tokens, Timing
      <4>3. QED
        BY <1>1, <1>4, <4>1, <4>2
    <3>3. QED
      BY <3>1, <3>2
  <2>4. ASSUME NEW v \in Users, Adding(v)' PROVE user'[v].job.token < nextToken'
    <3>1. CASE v = u
      BY <1>1, <1>3, <1>4, <3>1
    <3>2. CASE v # u
      BY <1>1, <1>4, <1>5, <2>4, <3>2
    <3>3. QED
      BY <3>1, <3>2
  <2>5. ASSUME NEW k \in cancelled' PROVE k # 0 /\ k < nextToken'
    <3>1. k \in Nat /\ k # 0 /\ k < nextToken
      BY Zenon, <1>0, <1>1, <1>4, <2>5 DEF CronType, ArmInv, Tokens
    <3>2. QED
      BY <1>1, <1>4, <3>1
  <2>6. QED
    BY Zenon, <2>1, <2>2, <2>3, <2>4, <2>5 DEF Tokens
<1>7. ASSUME NEW i \in Ids \ {id}, Carried(i) PROVE Carried(i)'
  <2>1. PICK t \in Tasks : /\ Live(t) /\ task[t].id = i /\ task[t].token = timers[i]
                           /\ task[t].kind = "cron" /\ task[t].at # "remove"
    BY Zenon, <1>7 DEF Carried
  <2>2. t # n /\ task'[t] = task[t]
    BY Zenon, <1>2, <1>4, <2>1 DEF Live, Timing
  <2>3. task[t].token \notin cancelled' /\ Timing(t) /\ task[t].fresh
    BY Zenon, <1>1, <2>1 DEF Live, Timing, ArmInv, Tokens
  <2>4. Live(t)'
    BY Zenon, <2>2, <2>3 DEF Live, Timing
  <2>5. QED
    BY Zenon, <1>4, <2>1, <2>2, <2>4 DEF Carried
<1>8. ASSUME Unused(id), kind = "cron" PROVE Carried(id)'
  <2>1. nextToken \notin cancelled'
    <3>1. \A k \in cancelled : k \in Nat /\ k < nextToken
      BY Zenon, <1>0 DEF CronType, ArmInv, Tokens
    <3>2. QED
      BY <1>1, <1>4, <3>1
  <2>2. task'[n].at # "free" /\ task'[n].at # "remove" /\ task'[n].token # 0
    BY <1>2, <1>4
  <2>3. Live(n)'
    BY Zenon, <1>2, <1>4, <1>8, <2>1, <2>2 DEF Live, Timing
  <2>4. QED
    BY Zenon, <1>2, <1>4, <1>8, <2>2, <2>3 DEF Carried
<1>9. \A i \in Ids \ {id} : ~ On(u, i)'
  BY Zenon, <1>3, <1>4 DEF On
<1>10. ASSUME NEW v \in Users \ {u} PROVE Sole(v)'
  <2> SUFFICES ASSUME NEW i \in Ids, Keeps(v, i)'
               PROVE  /\ user'[v].at # "replace" /\ ~ Registered(i)'
                      /\ \A w \in Users \ {v} : ~ On(w, i)'
                      /\ user'[v].job.kind = "cron" => Carried(i)'
    BY Zenon DEF Sole
  <2>1. user[v].job.token = timers'[i] /\ Adding(v) /\ user[v].job.token # nextToken
        /\ user[v].id = i /\ user[v].job.fresh
    BY <1>4, <1>5 DEF Keeps
  <2>2. i # id /\ Keeps(v, i)
    BY Zenon, <1>4, <2>1 DEF Keeps
  <2>3. /\ user[v].at # "replace" /\ ~ Registered(i)
        /\ \A w \in Users \ {v} : ~ On(w, i)
        /\ user[v].job.kind = "cron" => Carried(i)
    BY Zenon, <2>2 DEF ArmInv, Sole
  <2>4. \A w \in Users \ {v} : ~ On(w, i)'
    BY Zenon, <1>4, <1>9, <2>2, <2>3 DEF On
  <2>5. QED
    BY Zenon, <1>1, <1>4, <1>7, <2>2, <2>3, <2>4 DEF Registered
<1>11. Sole(u)'
  <2> SUFFICES ASSUME NEW i \in Ids, Keeps(u, i)'
               PROVE  /\ user'[u].at # "replace" /\ ~ Registered(i)'
                      /\ \A w \in Users \ {u} : ~ On(w, i)'
                      /\ user'[u].job.kind = "cron" => Carried(i)'
    BY Zenon DEF Sole
  <2>1. i = id /\ Unused(id) /\ user'[u].at = "armed" /\ user'[u].job.kind = kind
    BY Zenon, <1>3, <1>4 DEF Keeps
  <2>2. ~ Registered(id)' /\ \A w \in Users \ {u} : user'[w].at = "idle"
    BY Zenon, <1>1, <1>4, <2>1 DEF Unused, Registered
  <2>3. \A w \in Users \ {u} : ~ On(w, i)'
    BY <2>2 DEF On
  <2>4. user'[u].at # "replace"
    BY <2>1
  <2>5. QED
    BY Zenon, <1>8, <2>1, <2>2, <2>3, <2>4
<1>12. ASSUME NEW i \in Ids PROVE Kept(i)'
  <2>1. CASE i = id
    BY Zenon, <1>3, <1>4, <2>1 DEF Kept, Rearmed
  <2>2. CASE i # id
    <3> SUFFICES ASSUME Registered(i)', jobs'[i].fresh, jobs'[i].kind = "cron", ~ disposed'
                 PROVE  Rearmed(i)' \/ (Carried(i)' /\ \A v \in Users : ~ On(v, i)')
      BY Zenon DEF Kept
    <3>1. Registered(i) /\ jobs[i].fresh /\ jobs[i].kind = "cron" /\ ~ disposed
      BY Zenon, <1>1 DEF Registered
    <3>2. CASE Rearmed(i)
      <4>1. PICK v \in Users : user[v].at = "armed" /\ user[v].id = i
        BY Zenon, <3>2 DEF Rearmed
      <4>2. v # u
        BY <1>1, <4>1
      <4>3. QED
        BY Zenon, <1>4, <4>1, <4>2 DEF Rearmed
    <3>3. CASE Carried(i) /\ \A v \in Users : ~ On(v, i)
      BY Zenon, <1>4, <1>7, <1>9, <2>2, <3>3 DEF On
    <3>4. QED
      BY Zenon, <3>1, <3>2, <3>3 DEF ArmInv, Kept
  <2>3. QED
    BY <2>1, <2>2
<1>13. Disposing'
  <2>1. user'[u].at \notin {"dispose", "driver"}
    BY <1>3, <1>4
  <2>2. QED
    BY Zenon, <1>1, <1>4, <2>1 DEF ArmInv, Disposing
<1>14. QED
  BY Zenon, <1>1, <1>6, <1>10, <1>11, <1>12, <1>13 DEF ArmInv

\* Nothing is scheduled in the beginning.
LEMMA InitArm ==
    ASSUME Scenes \subseteq Scene, Init
    PROVE  ArmInv
<1>1. Inv
  BY InitInv
<1>2. Free.at = "free" /\ NoApi.at = "idle"
  BY DEF Free, NoApi
<1>3. CronType
  <2>1. task \in [Tasks -> TaskRecord] /\ jobs \in [Ids -> {NoJob} \cup JobEntry]
    BY DEF Init, TaskRecord
  <2>2. user \in [Users -> ApiCall]
    BY DEF Init, ApiCall
  <2>3. /\ timers \in [Ids -> Nat] /\ cancelled \subseteq Nat /\ disposed \in BOOLEAN
    BY Zenon DEF Init
  <2>3n. nextToken \in Nat \ {0}
    BY DEF Init
  <2>3s. scene \in Scene
    BY Zenon DEF Init
  <2>4. QED
    BY Zenon, <2>1, <2>2, <2>3, <2>3n, <2>3s DEF CronType
<1>4. /\ \A u \in Users : user[u].at = "idle"
      /\ \A t \in Tasks : task[t].at = "free"
      /\ \A id \in Ids : timers[id] = 0 /\ jobs[id] = NoJob
      /\ cancelled = {} /\ nextToken = 1
  BY <1>2 DEF Init
<1>5. \A u \in Users : ~ Adding(u) /\ user[u].at \notin {"dispose", "driver"}
  BY <1>4 DEF Adding
<1>6. Disposing /\ Tokens
  <2>1. ASSUME NEW id \in Ids PROVE timers[id] < nextToken
    BY <1>4
  <2>2. QED
    BY Zenon, <1>4, <1>5, <2>1 DEF Disposing, Tokens, Registered, Timing
<1>7. (\A u \in Users : Sole(u)) /\ (\A id \in Ids : Kept(id))
  BY Zenon, <1>4, <1>5 DEF Sole, Keeps, Kept, Registered
<1>8. QED
  BY Zenon, <1>1, <1>3, <1>6, <1>7 DEF ArmInv

\* Every step of a task, the API or a driver keeps ArmInv.
LEMMA NextArm == ArmInv /\ [Next]_vars => ArmInv'
<1> SUFFICES ASSUME ArmInv, [Next]_vars PROVE ArmInv'
  OBVIOUS
<1>0. Inv' /\ CronType
  BY Zenon, NextInv DEF ArmInv
<1>1. CASE UNCHANGED vars
  <2>1. UNCHANGED <<jobs, timers, cancelled, nextToken, disposed, task, user, scene>>
    BY Zenon, <1>1 DEF vars
  <2>2. CronType' /\ Disposing' /\ Tokens'
    BY Zenon, <1>0, <2>1 DEF ArmInv, CronType, Disposing, Tokens, Adding, Registered, Timing
  <2>3. \A t \in Tasks : Live(t)' <=> Live(t)
    BY Zenon, <2>1 DEF Live, Timing
  <2>4. \A id \in Ids : /\ Carried(id)' <=> Carried(id)
                        /\ Registered(id)' <=> Registered(id)
                        /\ Rearmed(id)' <=> Rearmed(id)
    BY Zenon, <2>1, <2>3 DEF Carried, Registered, Rearmed
  <2>5. \A u \in Users, id \in Ids : (On(u, id)' <=> On(u, id)) /\ (Keeps(u, id)' <=> Keeps(u, id))
    BY Zenon, <2>1 DEF On, Keeps, Adding
  <2>6. ASSUME NEW u \in Users PROVE Sole(u)'
    BY Zenon, <2>1, <2>4, <2>5 DEF ArmInv, Sole
  <2>7. ASSUME NEW id \in Ids PROVE Kept(id)'
    BY Zenon, <2>1, <2>4, <2>5 DEF ArmInv, Kept
  <2>8. QED
    BY Zenon, <1>0, <2>2, <2>6, <2>7 DEF ArmInv
<1>2. ASSUME NEW t \in Tasks, TaskStep(t) \/ Finish(t) PROVE ArmInv'
  <2>1. Worked
    BY Zenon, <1>0, <1>2, TimerWorks, RunWorks DEF TaskStep
  <2>2. QED
    BY Zenon, <1>0, <2>1, WorkedArm
<1>3. ASSUME NEW u \in Users, UserStep(u) \/ Dispose(u) \/ \E id \in Ids : CancelJob(u, id) PROVE ArmInv'
  BY Zenon, <1>0, <1>3, RemoveArm, ReplaceArm, InsertArm, DisposeArm DEF UserStep
<1>4. ASSUME NEW u \in Users, NEW id \in Ids, NEW kind \in scene.kinds, NEW overlap \in scene.overlaps,
             Schedule(u, id, kind, overlap)
      PROVE  ArmInv'
  <2>1. kind \in {"cron", "once"} /\ overlap \in {"allow", "skip", "queue"}
    BY <1>0 DEF CronType, Scene
  <2>2. QED
    BY Zenon, <1>0, <1>4, <2>1, ScheduleArm
<1>5. ASSUME NEW id \in Ids, DriverFires(id) PROVE ArmInv'
  BY Zenon, <1>0, <1>5, FiresArm
<1>6. QED
  BY Zenon, <1>1, <1>2, <1>3, <1>4, <1>5 DEF Next, JobCall

\* Nobody is at the registry: the job's timer is the registry's, and goes on.
LEMMA ArmedKept == ArmInv => NeverUnarmed
<1> SUFFICES ASSUME ArmInv, NEW id \in Ids, Steady(id) PROVE Armed(id)
  BY Zenon DEF NeverUnarmed
<1>1. ~ Rearmed(id)
  BY DEF Steady, Idle, Rearmed
<1>2. Carried(id)
  BY Zenon, <1>1 DEF Steady, ArmInv, Kept
<1>3. PICK t \in Tasks : /\ Live(t) /\ task[t].id = id /\ task[t].token = timers[id]
  BY Zenon, <1>2 DEF Carried
<1>4. task[t].at # "free" /\ task[t].token # 0 /\ task[t].token \notin cancelled
  BY Zenon, <1>3 DEF Live, Timing
<1>5. QED
  BY <1>3, <1>4 DEF Armed

\* The registry, the tokens and the tasks have their types.
LEMMA TokensType == ArmInv => TypeOK
<1> SUFFICES ASSUME ArmInv PROVE TypeOK
  OBVIOUS
<1>0. /\ task \in [Tasks -> TaskRecord] /\ jobs \in [Ids -> {NoJob} \cup JobEntry]
      /\ timers \in [Ids -> Nat] /\ cancelled \subseteq Nat /\ nextToken \in Nat \ {0}
  BY DEF ArmInv, CronType
<1>1. ASSUME NEW id \in Ids, Registered(id)
      PROVE  jobs[id] \in [kind : {"cron", "once"}, overlap : {"allow", "skip", "queue"},
                           running : BOOLEAN, queued : BOOLEAN,
                           token : 1..(nextToken - 1), fresh : BOOLEAN]
  <2>1. jobs[id] \in JobEntry /\ jobs[id].token < nextToken
    BY <1>0, <1>1 DEF Registered, ArmInv, Tokens
  <2>2. jobs[id].token \in 1..(nextToken - 1)
    BY <1>0, <2>1 DEF JobEntry
  <2>3. QED
    BY <2>1, <2>2 DEF JobEntry
<1>2. timers \in [Ids -> 0..(nextToken - 1)] /\ cancelled \subseteq 1..(nextToken - 1)
  <2>1. ASSUME NEW id \in Ids PROVE timers[id] \in 0..(nextToken - 1)
    <3>1. timers[id] < nextToken /\ timers[id] \in Nat
      BY <1>0 DEF ArmInv, Tokens
    <3>2. QED
      BY <1>0, <3>1
  <2>2. \A k \in cancelled : k \in 1..(nextToken - 1)
    BY <1>0 DEF ArmInv, Tokens
  <2>3. QED
    BY <1>0, <2>1, <2>2
<1>3. ASSUME NEW t \in Tasks, task[t].at # "free"
      PROVE  /\ task[t].id \in Ids /\ task[t].token \in 0..(nextToken - 1)
             /\ task[t].at \in {"sleep", "after", "remove"} => task[t].token # 0
  <2>1. /\ task[t].id \in Ids /\ task[t].token \in Nat
        /\ task[t].at \in {"sleep", "after", "remove"} => task[t].token # 0
    BY <1>0, <1>3, TaskKinds
  <2>2. task[t].token # 0 => task[t].token < nextToken
    BY Zenon, <1>3 DEF ArmInv, Tokens, Timing
  <2>3. QED
    BY <1>0, <2>1, <2>2
<1>4. QED
  BY <1>1, <1>2, <1>3 DEF TypeOK

\* Whatever runs, cancels, replacements and re-arms there are, on one thread or
\* several, a recurring job that was scheduled under an unused id keeps a timer
\* as long as it is registered.  The scenes are what Scene says they are.
THEOREM JobsStayArmed ==
    ASSUME Scenes \subseteq Scene
    PROVE  Spec => []NeverUnarmed
<1>1. Init => ArmInv
  BY InitArm
<1>2. QED
  BY <1>1, NextArm, ArmedKept, PTL DEF Spec

-----------------------------------------------------------------------------
\* A task at a place of a job's run.
At(t, x, id) == task[t].at = x /\ task[t].id = id

\* A job the overlap policies are promised for: on a current-thread runtime.
Ruled(id) == ~ scene.threaded /\ Registered(id) /\ jobs[id].fresh /\ jobs[id].overlap # "allow"
Orderly(id) ==
    Ruled(id) =>
        /\ \A t, s \in Tasks : At(t, "run", id) /\ At(s, "run", id) => t = s
        /\ jobs[id].running <=> \E t \in Tasks : At(t, "run", id)
        /\ jobs[id].queued => \E t \in Tasks : At(t, "run", id)
        /\ \A t \in Tasks : At(t, "mark", id) => ~ jobs[id].running
        /\ \A t \in Tasks : At(t, "queue", id) => jobs[id].running

\* A job that is being added under an unused id has not run.
Young(u) ==
    \A id \in Ids :
        ~ scene.threaded /\ Adding(u) /\ user[u].id = id /\ user[u].job.fresh =>
            /\ ~ user[u].job.running /\ ~ user[u].job.queued
            /\ \A t \in Tasks : ~ At(t, "run", id) /\ ~ At(t, "mark", id) /\ ~ At(t, "queue", id)

RuleInv ==
    CronType /\ (\A id \in Ids : Orderly(id)) /\ (\A u \in Users : Young(u))

\* Steps that no run of the job takes part in.
LEMMA CalmOrderly ==
    ASSUME NEW id \in Ids, Orderly(id), scene'.threaded = scene.threaded,
           jobs'[id] \in {jobs[id], NoJob},
           \A t \in Tasks, x \in {"run", "mark", "queue"} : At(t, x, id)' <=> At(t, x, id)
    PROVE  Orderly(id)'
<1> SUFFICES ASSUME Ruled(id)' PROVE
        /\ \A t, s \in Tasks : At(t, "run", id)' /\ At(s, "run", id)' => t = s
        /\ jobs'[id].running <=> \E t \in Tasks : At(t, "run", id)'
        /\ jobs'[id].queued => \E t \in Tasks : At(t, "run", id)'
        /\ \A t \in Tasks : At(t, "mark", id)' => ~ jobs'[id].running
        /\ \A t \in Tasks : At(t, "queue", id)' => jobs'[id].running
  BY Zenon DEF Orderly
<1>1. jobs'[id] = jobs[id] /\ Ruled(id)
  BY Zenon DEF Ruled, Registered
<1>2. \A t \in Tasks : /\ At(t, "run", id)' <=> At(t, "run", id)
                       /\ At(t, "mark", id)' <=> At(t, "mark", id)
                       /\ At(t, "queue", id)' <=> At(t, "queue", id)
  BY Zenon
<1>3. QED
  BY Zenon, <1>1, <1>2 DEF Orderly

\* On one thread a task that takes a step is alone between two awaits.
LEMMA OnTurn ==
    ASSUME Tasks \cap Users = {}, ~ scene.threaded, NEW t \in Tasks, Turn(t)
    PROVE  /\ \A u \in Users : user[u].at = "idle"
           /\ \A s \in Tasks \ {t} : task[s].at \notin {"mark", "queue"}
<1>1. t \notin Users
  BY Zenon
<1>2. QED
  BY <1>1 DEF Turn

\* Where the steps of a task lead.
LEMMA TaskMoves ==
    ASSUME CronType, NEW t \in Tasks, TaskStep(t) \/ Finish(t)
    PROVE  /\ Turn(t) /\ task[t].id \in Ids
           /\ \A s \in Tasks \ {t} : task'[s] = task[s] \/ (task[s].at = "free" /\ task'[s].at = "ready")
           /\ \/ task'[t] = Free
              \/ task'[t].id = task[t].id /\ task'[t].at \in {"sleep", "fired", "after", "remove"}
              \/ /\ Check(t) /\ task'[t].id = task[t].id /\ task'[t].at \in {"mark", "queue"}
                 /\ task'[t].at = Verdict(jobs[task[t].id])
              \/ /\ Mark(t) /\ task'[t].id = task[t].id /\ task'[t].at = "run"
           /\ Mark(t) /\ Registered(task[t].id) => task'[t].at = "run" /\ task'[t].id = task[t].id
           /\ task[t].at = "run" <=> Finish(t)
           /\ task[t].at = "mark" <=> Mark(t)
           /\ task[t].at = "queue" <=> Queue(t)
           /\ jobs' # jobs => Queue(t) \/ Mark(t) \/ Finish(t)
<1>0. task \in [Tasks -> TaskRecord] /\ task[t] \in TaskRecord
  BY DEF CronType
<1>1. /\ Turn(t) /\ task[t].at \in {"sleep", "after", "remove", "ready", "fired", "queue", "mark", "run"}
      /\ task[t].at = "run" <=> Finish(t)
      /\ task[t].at = "mark" <=> Mark(t)
      /\ task[t].at = "queue" <=> Queue(t)
  BY DEF TaskStep, TimerFires, TimerAfter, TimerRemove, Check, Queue, Mark, Finish
<1>2. task[t].at # "free" /\ task[t].id \in Ids
  BY <1>0, <1>1, TaskKinds
<1>3. jobs' # jobs => Queue(t) \/ Mark(t) \/ Finish(t)
  BY Zenon DEF TaskStep, TimerFires, TimerAfter, TimerRemove, Check
<1>e. Ended(t) = Free \/ (Ended(t).at = "after" /\ Ended(t).id = task[t].id)
  <2>1. \/ Ended(t) = Free
        \/ Ended(t) = [task[t] EXCEPT !.at = "after"] /\ task[t] \in TimerTask
    BY <1>0, <1>2, TaskKinds, EndedType
  <2>2. task[t] \in TimerTask => /\ [task[t] EXCEPT !.at = "after"].at = "after"
                                 /\ [task[t] EXCEPT !.at = "after"].id = task[t].id
    BY DEF TimerTask
  <2>3. QED
    BY Zenon, <2>1, <2>2
<1>4. CASE TimerFires(t) \/ TimerAfter(t) \/ TimerRemove(t)
  <2>1. PICK r : task' = [task EXCEPT ![t] = r] /\
            (r = Free \/ \E x \in {"fired", "sleep", "remove"} : r = [task[t] EXCEPT !.at = x])
    BY Zenon, <1>4 DEF TimerFires, TimerAfter, TimerRemove
  <2>2. task'[t] = r /\ \A s \in Tasks \ {t} : task'[s] = task[s]
    BY <1>0, <2>1
  <2>3. task[t] \in TimerTask /\ ~ Mark(t)
    BY <1>0, <1>1, <1>4, TaskKinds DEF TimerFires, TimerAfter, TimerRemove
  <2>4. r = Free \/ (r.id = task[t].id /\ r.at \in {"sleep", "fired", "remove"})
    BY <2>1, <2>3 DEF TimerTask
  <2>5. r = Free \/ (r.id = task[t].id /\ r.at \in {"sleep", "fired", "after", "remove"})
    BY <2>4
  <2>6. QED
    BY Zenon, <1>1, <1>2, <1>3, <2>2, <2>3, <2>5
<1>5. CASE Check(t)
  <2>1. PICK v \in {"mark", "queue", "return"} : v = Verdict(jobs[task[t].id])
    BY DEF Verdict
  <2>2. task' = [task EXCEPT ![t] = IF v = "return" THEN Ended(t) ELSE [task[t] EXCEPT !.at = v]]
    BY Zenon, <1>5, <2>1 DEF Check
  <2>3. /\ task'[t] = IF v = "return" THEN Ended(t) ELSE [task[t] EXCEPT !.at = v]
        /\ \A s \in Tasks \ {t} : task'[s] = task[s]
    BY <1>0, <2>2
  <2>4. v # "return" => [task[t] EXCEPT !.at = v].id = task[t].id /\ [task[t] EXCEPT !.at = v].at = v
    BY <1>0, <1>2, TaskKinds, TaskGoes
  <2>5. ~ Mark(t)
    BY <1>5 DEF Check, Mark
  <2>6. CASE v = "return"
    <3>1. task'[t] = Ended(t)
      BY <2>3, <2>6
    <3>2. "after" \in {"sleep", "fired", "after", "remove"}
      OBVIOUS
    <3>3. QED
      BY Zenon, <1>1, <1>2, <1>3, <1>e, <2>3, <2>5, <3>1, <3>2
  <2>7. CASE v # "return"
    <3>1. task'[t].id = task[t].id /\ task'[t].at = v /\ v \in {"mark", "queue"}
      BY <2>3, <2>4, <2>7
    <3>2. QED
      BY Zenon, <1>1, <1>2, <1>3, <1>5, <2>1, <2>3, <2>5, <3>1
  <2>8. QED
    BY Zenon, <2>6, <2>7
<1>6. CASE Queue(t)
  <2>1. task'[t] = Ended(t) /\ \A s \in Tasks \ {t} : task'[s] = task[s]
    BY <1>0, <1>6 DEF Queue
  <2>2. ~ Mark(t)
    BY <1>6 DEF Queue, Mark
  <2>3. "after" \in {"sleep", "fired", "after", "remove"}
    OBVIOUS
  <2>4. QED
    BY Zenon, <1>1, <1>2, <1>3, <1>e, <2>1, <2>2, <2>3
<1>7. CASE Mark(t)
  <2>1. task' = [task EXCEPT ![t] = IF Registered(task[t].id) THEN [task[t] EXCEPT !.at = "run"] ELSE Ended(t)]
    BY Zenon, <1>7 DEF Mark
  <2>2. /\ task'[t] = IF Registered(task[t].id) THEN [task[t] EXCEPT !.at = "run"] ELSE Ended(t)
        /\ \A s \in Tasks \ {t} : task'[s] = task[s]
    BY <1>0, <2>1
  <2>3. [task[t] EXCEPT !.at = "run"].id = task[t].id /\ [task[t] EXCEPT !.at = "run"].at = "run"
    BY <1>0, <1>2, TaskKinds, TaskGoes
  <2>4. "after" \in {"sleep", "fired", "after", "remove"}
    OBVIOUS
  <2>5. CASE Registered(task[t].id)
    BY Zenon, <1>1, <1>2, <1>3, <1>7, <2>2, <2>3, <2>5
  <2>6. CASE ~ Registered(task[t].id)
    BY Zenon, <1>1, <1>2, <1>3, <1>e, <2>2, <2>4, <2>6
  <2>7. QED
    BY Zenon, <2>5, <2>6
<1>8. CASE Finish(t)
  <2>1. "after" \in {"sleep", "fired", "after", "remove"} /\ ~ Mark(t) /\ task[t].at = "run"
    BY <1>8 DEF Finish, Mark
  <2>2. CASE task' = [task EXCEPT ![t] = Ended(t)]
    <3>1. task'[t] = Ended(t) /\ \A s \in Tasks \ {t} : task'[s] = task[s]
      BY <1>0, <2>2
    <3>2. QED
      BY Zenon, <1>1, <1>2, <1>3, <1>e, <2>1, <3>1
  <2>3. CASE HasSlot /\ task' = [task EXCEPT ![t] = Ended(t),
                                   ![Slot] = [at |-> "ready", id |-> task[t].id, token |-> 0]]
    <3>1. Slot \in Tasks /\ task[Slot].at = "free" /\ Slot # t
      BY <2>1, <2>3, FreeSlot
    <3>2. /\ task'[t] = Ended(t) /\ task'[Slot].at = "ready"
          /\ \A s \in Tasks \ {t} : s # Slot => task'[s] = task[s]
      BY <1>0, <2>3, <3>1
    <3>3. QED
      BY Zenon, <1>1, <1>2, <1>3, <1>e, <2>1, <3>1, <3>2
  <2>4. QED
    BY Zenon, <1>8, <2>2, <2>3 DEF Finish
<1>9. QED
  BY Zenon, <1>4, <1>5, <1>6, <1>7, <1>8 DEF TaskStep

\* A run, from the check of the policy to its end, keeps to the policy.
LEMMA TaskRules ==
    ASSUME Tasks \cap Users = {}, RuleInv, NEW t \in Tasks, TaskStep(t) \/ Finish(t)
    PROVE  RuleInv'
<1>0. CronType
  BY DEF RuleInv
<1>1. Worked
  BY Zenon, <1>0, TimerWorks, RunWorks DEF TaskStep
<1>2. /\ CronType' /\ UNCHANGED <<user, scene>> /\ \A id \in Ids : Like(jobs[id], jobs'[id])
  BY Zenon, <1>0, <1>1, WorkedType DEF Worked
<1>3. Turn(t) /\ task[t].id \in Ids
  BY <1>0, TaskMoves
<1>4. ASSUME NEW u \in Users PROVE Young(u)'
  <2> SUFFICES ASSUME ~ scene.threaded, Adding(u) PROVE FALSE
    BY Zenon, <1>2 DEF Young, Adding
  <2>1. QED
    BY <1>3, OnTurn DEF Adding
<1>5. ASSUME NEW id \in Ids PROVE Orderly(id)'
  <2> SUFFICES ASSUME ~ scene.threaded PROVE Orderly(id)'
    BY Zenon, <1>2 DEF Orderly, Ruled
  <2>1. \A s \in Tasks \ {t} : task[s].at \notin {"mark", "queue"}
    BY Zenon, <1>3, OnTurn
  <2>2. ASSUME NEW s \in Tasks \ {t}, NEW x \in {"run", "mark", "queue"}
        PROVE  At(s, x, id)' <=> At(s, x, id)
    <3>1. task'[s] = task[s] \/ (task[s].at = "free" /\ task'[s].at = "ready")
      BY <1>0, TaskMoves
    <3>2. QED
      BY <3>1 DEF At
  <2>3. CASE id # task[t].id
    <3>1. jobs'[id] = jobs[id]
      <4>1. jobs' = jobs \/ Queue(t) \/ Mark(t) \/ Finish(t)
        BY <1>0, TaskMoves
      <4>2. QED
        BY Zenon, <1>0, <1>3, <2>3, <4>1, RunJobs
    <3>2. \A x \in {"run", "mark", "queue"} : ~ At(t, x, id)
      BY Zenon, <2>3 DEF At
    <3>3. \A x \in {"run", "mark", "queue"} : ~ At(t, x, id)'
      <4>1. task'[t] = Free \/ task'[t].id = task[t].id
        BY <1>0, TaskMoves
      <4>2. QED
        BY <2>3, <4>1 DEF At, Free
    <3>4. \A s \in Tasks, x \in {"run", "mark", "queue"} : At(s, x, id)' <=> At(s, x, id)
      BY Zenon, <2>2, <3>2, <3>3
    <3>5. jobs'[id] \in {jobs[id], NoJob} /\ scene'.threaded = scene.threaded
      BY Zenon, <1>2, <3>1
    <3>6. QED
      BY Zenon, <3>4, <3>5, CalmOrderly DEF RuleInv
  <2>4. CASE id = task[t].id
    <3> SUFFICES ASSUME Ruled(id)' PROVE
            /\ \A r, s \in Tasks : At(r, "run", id)' /\ At(s, "run", id)' => r = s
            /\ jobs'[id].running <=> \E s \in Tasks : At(s, "run", id)'
            /\ jobs'[id].queued => \E s \in Tasks : At(s, "run", id)'
            /\ \A s \in Tasks : At(s, "mark", id)' => ~ jobs'[id].running
            /\ \A s \in Tasks : At(s, "queue", id)' => jobs'[id].running
      BY Zenon DEF Orderly
    <3>1. Registered(id) /\ jobs[id].fresh /\ jobs[id].overlap # "allow"
      <4>1. NoJob \notin JobEntry
        BY DEF NoJob, JobEntry
      <4>2. QED
        BY Zenon, <1>2, <4>1 DEF Ruled, Registered, Like
    <3>2. /\ \A r, s \in Tasks : At(r, "run", id) /\ At(s, "run", id) => r = s
          /\ jobs[id].running <=> \E s \in Tasks : At(s, "run", id)
          /\ jobs[id].queued => \E s \in Tasks : At(s, "run", id)
          /\ \A s \in Tasks : At(s, "mark", id) => ~ jobs[id].running
          /\ \A s \in Tasks : At(s, "queue", id) => jobs[id].running
      BY Zenon, <3>1 DEF RuleInv, Orderly, Ruled
    <3>3. \A s \in Tasks \ {t} : /\ At(s, "run", id)' <=> At(s, "run", id)
                                 /\ ~ At(s, "mark", id) /\ ~ At(s, "mark", id)'
                                 /\ ~ At(s, "queue", id) /\ ~ At(s, "queue", id)'
      <4>1. \A s \in Tasks \ {t} : ~ At(s, "mark", id) /\ ~ At(s, "queue", id)
        BY <2>1 DEF At
      <4>2. QED
        BY <2>2, <4>1
    <3>4. CASE Mark(t)
      <4>1. At(t, "mark", id) /\ At(t, "run", id)'
        BY Zenon, <1>0, <2>4, <3>1, <3>4, TaskMoves DEF At
      <4>2. ~ At(t, "mark", id)' /\ ~ At(t, "queue", id)'
        BY <4>1 DEF At
      <4>3. jobs'[id].running = TRUE
        BY Zenon, <1>0, <2>4, <3>1, <3>4, RunJobs
      <4>4. \A s \in Tasks \ {t} : ~ At(s, "run", id)'
        BY Zenon, <3>2, <3>3, <4>1
      <4>5. QED
        BY Zenon, <3>3, <4>1, <4>2, <4>3, <4>4
    <3>5. CASE Queue(t)
      <4>1. task[t].at = "queue" /\ At(t, "queue", id) /\ ~ At(t, "run", id)
        BY <2>4, <3>5 DEF Queue, At
      <4>2. ~ Check(t) /\ ~ Mark(t)
        BY <4>1 DEF Check, Mark
      <4>3. ~ At(t, "mark", id)' /\ ~ At(t, "queue", id)' /\ ~ At(t, "run", id)'
        <5>1. task'[t] = Free \/ task'[t].at \in {"sleep", "fired", "after", "remove"}
          BY <1>0, <4>2, TaskMoves
        <5>2. QED
          BY <5>1 DEF At, Free
      <4>4. jobs[id].running /\ jobs'[id].running = jobs[id].running
        BY Zenon, <1>0, <2>4, <3>1, <3>2, <3>5, <4>1, RunJobs
      <4>5. QED
        BY Zenon, <3>2, <3>3, <4>1, <4>3, <4>4
    <3>6. CASE Finish(t)
      <4>1. At(t, "run", id) /\ task[t].at = "run"
        BY <2>4, <3>6 DEF Finish, At
      <4>2. ~ Check(t) /\ ~ Mark(t)
        BY <4>1 DEF Check, Mark
      <4>3. ~ At(t, "mark", id)' /\ ~ At(t, "queue", id)' /\ ~ At(t, "run", id)'
        <5>1. task'[t] = Free \/ task'[t].at \in {"sleep", "fired", "after", "remove"}
          BY <1>0, <4>2, TaskMoves
        <5>2. QED
          BY <5>1 DEF At, Free
      <4>4. jobs'[id].running = FALSE /\ jobs'[id].queued = FALSE
        BY Zenon, <1>0, <2>4, <3>1, <3>6, RunJobs
      <4>5. QED
        BY Zenon, <3>2, <3>3, <4>1, <4>3, <4>4
    <3>7. CASE ~ Mark(t) /\ ~ Queue(t) /\ ~ Finish(t)
      <4>1. /\ jobs' = jobs /\ ~ At(t, "mark", id) /\ ~ At(t, "queue", id) /\ ~ At(t, "run", id)
        BY <1>0, <3>7, TaskMoves DEF At
      <4>2. \/ task'[t] = Free \/ task'[t].at \in {"sleep", "fired", "after", "remove"}
            \/ task'[t].at \in {"mark", "queue"} /\ task'[t].at = Verdict(jobs[id])
        BY <1>0, <2>4, <3>7, TaskMoves
      <4>3. Verdict(jobs[id]) = (IF jobs[id].running THEN IF jobs[id].overlap = "skip" THEN "return" ELSE "queue"
                                 ELSE "mark")
        BY Zenon, <3>1 DEF Verdict, Registered
      <4>4. /\ ~ At(t, "run", id)'
            /\ At(t, "mark", id)' => ~ jobs[id].running
            /\ At(t, "queue", id)' => jobs[id].running
        BY <4>2, <4>3 DEF At, Free
      <4>5. QED
        BY Zenon, <3>2, <3>3, <4>1, <4>4
    <3>8. QED
      BY <3>4, <3>5, <3>6, <3>7
  <2>5. QED
    BY <2>3, <2>4
<1>6. QED
  BY Zenon, <1>2, <1>4, <1>5 DEF RuleInv

\* A call of the API that adds no job, or is not there yet.
LEMMA CallRules ==
    ASSUME RuleInv, CronType', NEW u \in Users, UNCHANGED task, scene'.threaded = scene.threaded,
           \A v \in Users \ {u} : user'[v] = user[v], \A id \in Ids : jobs'[id] \in {jobs[id], NoJob},
           Adding(u)' => Adding(u) /\ user'[u].id = user[u].id /\ user'[u].job = user[u].job
    PROVE  RuleInv'
<1>1. ASSUME NEW id \in Ids PROVE Orderly(id)'
  <2>1. \A t \in Tasks, x \in {"run", "mark", "queue"} : At(t, x, id)' <=> At(t, x, id)
    BY Zenon DEF At
  <2>2. QED
    BY Zenon, <2>1, CalmOrderly DEF RuleInv
<1>2. ASSUME NEW v \in Users PROVE Young(v)'
  <2>1. Adding(v)' => Adding(v) /\ user'[v].id = user[v].id /\ user'[v].job = user[v].job
    BY Zenon DEF Adding
  <2>2. QED
    BY Zenon, <2>1 DEF RuleInv, Young, At
<1>3. QED
  BY Zenon, <1>1, <1>2 DEF RuleInv

\* The call that adds a job: under an unused id it has not run.
LEMMA InsertRules ==
    ASSUME RuleInv, CronType', NEW u \in Users, Insert(u)
    PROVE  RuleInv'
<1>0. CronType
  BY DEF RuleInv
<1>1. /\ user[u].at = "insert" /\ Adding(u) /\ user[u].id \in Ids /\ user[u].job \in JobEntry
  BY <1>0, CallKinds DEF Insert, Adding
<1>2. PICK id \in Ids : id = user[u].id
  BY <1>1
<1>3. PICK f \in BOOLEAN : f = (timers[id] = user[u].job.token)
  OBVIOUS
<1>4. PICK j : j = [user[u].job EXCEPT !.fresh = @ /\ f]
  OBVIOUS
<1>5. /\ j.fresh => user[u].job.fresh
      /\ j.running = user[u].job.running /\ j.queued = user[u].job.queued
  BY <1>1, <1>4 DEF JobEntry
<1>6. /\ jobs' = [jobs EXCEPT ![id] = IF Registered(id) THEN @ ELSE j]
      /\ user' = [user EXCEPT ![u] = NoApi] /\ UNCHANGED <<task, scene>>
  BY Zenon, <1>2, <1>3, <1>4 DEF Insert
<1>7. /\ jobs'[id] = (IF Registered(id) THEN jobs[id] ELSE j)
      /\ \A i \in Ids \ {id} : jobs'[i] = jobs[i]
      /\ user'[u].at = "idle" /\ \A v \in Users \ {u} : user'[v] = user[v]
  BY <1>0, <1>6 DEF CronType, NoApi
<1>8. ~ Adding(u)'
  BY <1>7 DEF Adding
<1>9. CASE Registered(id)
  <2>1. \A i \in Ids : jobs'[i] \in {jobs[i], NoJob}
    BY Zenon, <1>7, <1>9
  <2>2. scene'.threaded = scene.threaded
    BY Zenon, <1>6
  <2>3. QED
    BY Zenon, <1>6, <1>7, <1>8, <2>1, <2>2, CallRules
<1>10. CASE ~ Registered(id)
  <2>1. Orderly(id)'
    <3> SUFFICES ASSUME Ruled(id)' PROVE
            /\ ~ jobs'[id].running /\ ~ jobs'[id].queued
            /\ \A t \in Tasks : ~ At(t, "run", id)' /\ ~ At(t, "mark", id)' /\ ~ At(t, "queue", id)'
      BY Zenon DEF Orderly
    <3>1. ~ scene.threaded /\ user[u].job.fresh /\ jobs'[id] = j
      BY Zenon, <1>5, <1>6, <1>7, <1>10 DEF Ruled
    <3>2. /\ ~ user[u].job.running /\ ~ user[u].job.queued
          /\ \A t \in Tasks : ~ At(t, "run", id) /\ ~ At(t, "mark", id) /\ ~ At(t, "queue", id)
      BY Zenon, <1>1, <1>2, <3>1 DEF RuleInv, Young
    <3>3. QED
      BY Zenon, <1>5, <1>6, <3>1, <3>2 DEF At
  <2>2. ASSUME NEW i \in Ids \ {id} PROVE Orderly(i)'
    <3>1. \A t \in Tasks, x \in {"run", "mark", "queue"} : At(t, x, i)' <=> At(t, x, i)
      BY Zenon, <1>6 DEF At
    <3>2. jobs'[i] \in {jobs[i], NoJob} /\ scene'.threaded = scene.threaded
      BY Zenon, <1>6, <1>7
    <3>3. QED
      BY Zenon, <3>1, <3>2, CalmOrderly DEF RuleInv
  <2>3. ASSUME NEW v \in Users PROVE Young(v)'
    <3>1. CASE v = u
      BY Zenon, <1>8, <3>1 DEF Young
    <3>2. CASE v # u
      <4>1. Young(v) /\ user'[v] = user[v] /\ task' = task /\ scene' = scene
        BY Zenon, <1>6, <1>7, <3>2 DEF RuleInv
      <4>2. QED
        BY Zenon, <4>1 DEF Young, At, Adding
    <3>3. QED
      BY <3>1, <3>2
  <2>4. QED
    BY Zenon, <2>1, <2>2, <2>3 DEF RuleInv
<1>11. QED
  BY <1>9, <1>10

\* A driver that calls the callback starts a task that has not looked at the job.
LEMMA FiresRules ==
    ASSUME RuleInv, NEW i \in Ids, DriverFires(i)
    PROVE  RuleInv'
<1>0. CronType
  BY DEF RuleInv
<1>1. CronType' /\ UNCHANGED <<jobs, user>> /\ scene'.threaded = scene.threaded
  BY Zenon, <1>0, FiresType
<1>2. PICK n \in Tasks : /\ task[n].at = "free"
                         /\ task' = [task EXCEPT ![n] = [at |-> "ready", id |-> i, token |-> 0]]
  BY <1>0, FiresType
<1>3. task'[n].at = "ready" /\ \A t \in Tasks \ {n} : task'[t] = task[t]
  BY <1>0, <1>2 DEF CronType
<1>4. \A id \in Ids, t \in Tasks, x \in {"run", "mark", "queue"} : At(t, x, id)' <=> At(t, x, id)
  BY <1>2, <1>3 DEF At
<1>5. ASSUME NEW id \in Ids PROVE Orderly(id)'
  BY Zenon, <1>1, <1>4, CalmOrderly DEF RuleInv
<1>6. ASSUME NEW u \in Users PROVE Young(u)'
  <2>1. \A id \in Ids, t \in Tasks : /\ At(t, "run", id)' => At(t, "run", id)
                                     /\ At(t, "mark", id)' => At(t, "mark", id)
                                     /\ At(t, "queue", id)' => At(t, "queue", id)
    BY Zenon, <1>4
  <2>2. QED
    BY Zenon, <1>1, <2>1 DEF RuleInv, Young, Adding
<1>7. QED
  BY Zenon, <1>1, <1>5, <1>6 DEF RuleInv

\* The timer of a new job sleeps, and nothing of the id has run if it was unused.
LEMMA ScheduleRules ==
    ASSUME RuleInv, NEW u \in Users, NEW i \in Ids, NEW kind \in {"cron", "once"},
           NEW overlap \in {"allow", "skip", "queue"}, Schedule(u, i, kind, overlap)
    PROVE  RuleInv'
<1>0. CronType
  BY DEF RuleInv
<1>1. CronType' /\ UNCHANGED jobs /\ scene'.threaded = scene.threaded
  BY <1>0, ScheduleType
<1>2. PICK n \in Tasks, r \in TimerTask :
         task[n].at = "free" /\ task' = [task EXCEPT ![n] = r] /\ r.at = "sleep"
  BY <1>0, ScheduleType
<1>3. PICK a \in Adder :
         /\ user' = [user EXCEPT ![u] = a] /\ a.id = i /\ a.job.fresh = Unused(i)
         /\ ~ a.job.running /\ ~ a.job.queued
  BY <1>0, ScheduleType
<1>4. /\ task'[n].at = "sleep" /\ \A t \in Tasks \ {n} : task'[t] = task[t]
      /\ user'[u] = a /\ \A v \in Users \ {u} : user'[v] = user[v]
  BY <1>0, <1>2, <1>3 DEF CronType
<1>5. \A id \in Ids, t \in Tasks, x \in {"run", "mark", "queue"} : At(t, x, id)' <=> At(t, x, id)
  BY <1>2, <1>4 DEF At
<1>6. ASSUME NEW id \in Ids PROVE Orderly(id)'
  BY Zenon, <1>1, <1>5, CalmOrderly DEF RuleInv
<1>7. \A id \in Ids, t \in Tasks : /\ At(t, "run", id)' => At(t, "run", id)
                                   /\ At(t, "mark", id)' => At(t, "mark", id)
                                   /\ At(t, "queue", id)' => At(t, "queue", id)
  BY Zenon, <1>5
<1>8. ASSUME NEW v \in Users PROVE Young(v)'
  <2>1. CASE v = u
    <3> SUFFICES ASSUME NEW id \in Ids, user'[u].id = id, user'[u].job.fresh PROVE
            /\ ~ user'[u].job.running /\ ~ user'[u].job.queued
            /\ \A t \in Tasks : ~ At(t, "run", id)' /\ ~ At(t, "mark", id)' /\ ~ At(t, "queue", id)'
      BY Zenon, <2>1 DEF Young
    <3>1. id = i /\ Unused(i)
      BY Zenon, <1>3, <1>4
    <3>2. \A t \in Tasks : ~ At(t, "run", id) /\ ~ At(t, "mark", id) /\ ~ At(t, "queue", id)
      BY <3>1 DEF Unused, At
    <3>3. QED
      BY Zenon, <1>3, <1>4, <1>7, <3>2
  <2>2. CASE v # u
    BY Zenon, <1>1, <1>4, <1>7, <2>2 DEF RuleInv, Young, Adding
  <2>3. QED
    BY <2>1, <2>2
<1>9. QED
  BY Zenon, <1>1, <1>6, <1>8 DEF RuleInv

\* The other steps of the calls.
LEMMA OtherCallRules ==
    ASSUME RuleInv, CronType', NEW u \in Users,
           \/ Remove(u) \/ Replace(u) \/ CancelTimer(u) \/ DisposeTimer(u) \/ DisposeJobs(u)
           \/ DisposeDriver(u) \/ Dispose(u) \/ \E id \in Ids : CancelJob(u, id)
    PROVE  RuleInv'
<1>0. CronType /\ jobs \in [Ids -> {NoJob} \cup JobEntry] /\ user \in [Users -> ApiCall]
  BY Zenon DEF RuleInv, CronType
<1>1. UNCHANGED task /\ scene'.threaded = scene.threaded
  <2>1. CASE UNCHANGED scene
    BY Zenon, <2>1 DEF Remove, Replace, CancelTimer, DisposeTimer, DisposeJobs, DisposeDriver, Dispose, CancelJob
  <2>2. CASE Dispose(u) \/ \E id \in Ids : CancelJob(u, id)
    BY <1>0, <2>2, SpendType DEF Dispose, CancelJob, CronType
  <2>3. QED
    BY Zenon, <2>1, <2>2 DEF Remove, Replace, CancelTimer, DisposeTimer, DisposeJobs, DisposeDriver
<1>2. \A id \in Ids : jobs'[id] \in {jobs[id], NoJob}
  <2>1. CASE UNCHANGED jobs
    BY Zenon, <2>1
  <2>2. CASE DisposeJobs(u)
    BY Zenon, <1>0, <2>2 DEF DisposeJobs
  <2>3. CASE Remove(u)
    BY <1>0, <2>3 DEF Remove
  <2>4. CASE \E id \in Ids : CancelJob(u, id)
    BY <1>0, <2>4 DEF CancelJob
  <2>5. QED
    BY Zenon, <2>1, <2>2, <2>3, <2>4 DEF Replace, CancelTimer, DisposeTimer, DisposeDriver, Dispose
<1>3. \E q : user' = [user EXCEPT ![u] = q]
  BY Zenon DEF Remove, Replace, CancelTimer, DisposeTimer, DisposeJobs, DisposeDriver, Dispose, CancelJob
<1>4. \A v \in Users \ {u} : user'[v] = user[v]
  BY <1>0, <1>3
<1>5. ASSUME Adding(u)' PROVE Adding(u) /\ user'[u].id = user[u].id /\ user'[u].job = user[u].job
  <2>1. CASE Remove(u) \/ Replace(u)
    <3>1. Adding(u) /\ user[u] \in Adder
      BY <1>0, <2>1, CallKinds DEF Remove, Replace, Adding
    <3>2. PICK x \in {"replace", "insert"} : user' = [user EXCEPT ![u].at = x]
      BY <2>1 DEF Remove, Replace
    <3>3. user'[u] = [user[u] EXCEPT !.at = x]
      BY <1>0, <3>2
    <3>4. QED
      BY <3>1, <3>3, AdderGoes
  <2>2. CASE CancelTimer(u) \/ DisposeDriver(u)
    <3>1. user' = [user EXCEPT ![u] = NoApi]
      BY Zenon, <2>2 DEF CancelTimer, DisposeDriver
    <3>2. user'[u].at = "idle"
      BY <1>0, <3>1 DEF NoApi
    <3>3. QED
      BY <1>5, <3>2 DEF Adding
  <2>3. CASE DisposeJobs(u) \/ Dispose(u) \/ \E id \in Ids : CancelJob(u, id)
    <3>1. user'[u].at \in {"driver", "dispose", "cancel"}
      <4>1. CASE DisposeJobs(u)
        <5>1. user' = [user EXCEPT ![u] = [at |-> "driver"]]
          BY Zenon, <4>1 DEF DisposeJobs
        <5>2. QED
          BY <1>0, <5>1
      <4>2. CASE Dispose(u)
        <5>1. user' = [user EXCEPT ![u] = [at |-> "dispose", left |-> {id \in Ids : Registered(id)}]]
          BY Zenon, <4>2 DEF Dispose
        <5>2. QED
          BY <1>0, <5>1
      <4>3. CASE \E id \in Ids : CancelJob(u, id)
        <5>1. PICK id \in Ids : user' = [user EXCEPT ![u] = [at |-> "cancel", id |-> id]]
          BY Zenon, <4>3 DEF CancelJob
        <5>2. QED
          BY <1>0, <5>1
      <4>4. QED
        BY Zenon, <2>3, <4>1, <4>2, <4>3
    <3>2. QED
      BY <1>5, <3>1 DEF Adding
  <2>4. CASE DisposeTimer(u)
    <3>1. user[u] \in [at : {"dispose"}, left : SUBSET Ids]
      BY <1>0, <2>4, CallKinds DEF DisposeTimer
    <3>2. PICK id \in user[u].left : user' = [user EXCEPT ![u].left = user[u].left \ {id}]
      BY Zenon, <2>4 DEF DisposeTimer
    <3>3. user'[u] = [user[u] EXCEPT !.left = user[u].left \ {id}]
      BY Zenon, <1>0, <3>2
    <3>4. user'[u].at = "dispose"
      BY <3>1, <3>3
    <3>5. QED
      BY <1>5, <3>4 DEF Adding
  <2>5. QED
    BY Zenon, <2>1, <2>2, <2>3, <2>4
<1>6. QED
  BY Zenon, <1>1, <1>2, <1>4, <1>5, CallRules

\* No job has run before the first.
LEMMA InitRules ==
    ASSUME Scenes \subseteq Scene, Init
    PROVE  RuleInv
<1>1. CronType
  BY Zenon, InitArm DEF ArmInv
<1>2. \A id \in Ids : ~ Registered(id)
  BY Zenon DEF Init, Registered
<1>3. \A u \in Users : ~ Adding(u)
  BY DEF Init, Adding, NoApi
<1>4. QED
  BY Zenon, <1>1, <1>2, <1>3 DEF RuleInv, Orderly, Ruled, Young

\* Every step of a task, the API or a driver keeps to the policies.
LEMMA NextRules ==
    ASSUME Tasks \cap Users = {}, ArmInv, RuleInv, [Next]_vars
    PROVE  RuleInv'
<1>0. CronType /\ CronType'
  BY Zenon, NextArm DEF ArmInv
<1>1. CASE UNCHANGED vars
  <2>1. UNCHANGED <<jobs, task, user, scene>>
    BY Zenon, <1>1 DEF vars
  <2>2. \A id \in Ids : Orderly(id)'
    BY Zenon, <2>1 DEF RuleInv, Orderly, Ruled, At, Registered
  <2>3. \A u \in Users : Young(u)'
    BY Zenon, <2>1 DEF RuleInv, Young, At, Adding
  <2>4. QED
    BY Zenon, <1>0, <2>2, <2>3 DEF RuleInv
<1>2. ASSUME NEW t \in Tasks, TaskStep(t) \/ Finish(t) PROVE RuleInv'
  BY Zenon, <1>2, TaskRules
<1>3. ASSUME NEW u \in Users, UserStep(u) \/ Dispose(u) \/ \E id \in Ids : CancelJob(u, id) PROVE RuleInv'
  BY Zenon, <1>0, <1>3, InsertRules, OtherCallRules DEF UserStep
<1>4. ASSUME NEW u \in Users, NEW id \in Ids, NEW kind \in scene.kinds, NEW overlap \in scene.overlaps,
             Schedule(u, id, kind, overlap)
      PROVE  RuleInv'
  <2>1. kind \in {"cron", "once"} /\ overlap \in {"allow", "skip", "queue"}
    BY <1>0 DEF CronType, Scene
  <2>2. QED
    BY Zenon, <1>4, <2>1, ScheduleRules
<1>5. ASSUME NEW id \in Ids, DriverFires(id) PROVE RuleInv'
  BY Zenon, <1>5, FiresRules
<1>6. QED
  BY Zenon, <1>1, <1>2, <1>3, <1>4, <1>5 DEF Next, JobCall

\* What the invariant says of the runs of a job.
LEMMA RulesKept == RuleInv => PoliciesKept
<1> SUFFICES ASSUME RuleInv, NEW id \in Ids, Ruled(id)
             PROVE  /\ \A t, s \in Runs(id) : t = s
                    /\ jobs[id].running <=> Runs(id) # {}
                    /\ jobs[id].queued => Runs(id) # {}
  BY Zenon DEF PoliciesKept, Ruled
<1>1. \A t : t \in Runs(id) <=> t \in Tasks /\ At(t, "run", id)
  BY DEF Runs, At
<1>2. /\ \A t, s \in Tasks : At(t, "run", id) /\ At(s, "run", id) => t = s
      /\ jobs[id].running <=> \E t \in Tasks : At(t, "run", id)
      /\ jobs[id].queued => \E t \in Tasks : At(t, "run", id)
  BY Zenon DEF RuleInv, Orderly
<1>3. QED
  BY Zenon, <1>1, <1>2

\* On a current-thread runtime a job that may not overlap has one run at most,
\* says it is running exactly while it is, and never forgets a deferred run,
\* with any number of timers, drivers and callers (execute_job).  Tasks are no
\* API threads.
THEOREM OverlapPolicies ==
    ASSUME Scenes \subseteq Scene, Tasks \cap Users = {}
    PROVE  Spec => []PoliciesKept
<1>1. Init => ArmInv /\ RuleInv
  BY InitArm, InitRules
<1>2. (ArmInv /\ RuleInv) /\ [Next]_vars => (ArmInv /\ RuleInv)'
  BY NextArm, NextRules
<1>3. QED
  BY <1>1, <1>2, RulesKept, PTL DEF Spec
=============================================================================
