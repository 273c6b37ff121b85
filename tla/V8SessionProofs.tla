-------------------------- MODULE V8SessionProofs --------------------------
(***************************************************************************)
(* That the slots of the V8 runtime are counted exactly, that no timer     *)
(* outlives its execution, that no awaited answer of a bridge call is lost *)
(* and that success means nothing is outstanding, for any number of        *)
(* sessions, slots and calls and any capacity of the channels.  The first  *)
(* half concerns slots and timers only (Inv); the second half the whole    *)
(* record of a thread and the way of an answer (FullInv).                  *)
(***************************************************************************)
EXTENDS V8Session, FiniteSetTheorems, TLAPS

\* Where the thread of a session is while its timer may run.
Timed == Executing \ {"start", "arm", "report"}
Backs == {"top", "drain", "tick"}

\* What the steps below need to know of the types.
Shaped(t) == {"pc", "back"} \subseteq DOMAIN t /\ t.back \in Backs
Shape ==
    /\ DOMAIN thr = Sessions /\ DOMAIN timer = Sessions
    /\ \A s \in Sessions : Shaped(thr[s])

\* A thread belongs to a session with an entry, or to the one being joined;
\* so that the id of a new session has no thread and no timer.
Owned ==
    \A s \in Sessions :
       thr[s].pc # None => s \in entries \/ (mgr.op = "join" /\ mgr.s = s)

Inv == Shape /\ Owned /\ TimerScoped /\ IsFiniteSet(Holders) /\ SlotCount

-----------------------------------------------------------------------------
\* How a step changes who holds a slot.
SlotStep(s) ==
    \/ /\ thr[s].pc \in Holding <=> thr'[s].pc \in Holding
       /\ slots' = slots
    \/ /\ thr[s].pc \notin Holding /\ thr'[s].pc \in Holding
       /\ slots < MaxConcurrency /\ slots' = slots + 1
    \/ /\ thr[s].pc \in Holding /\ thr'[s].pc \notin Holding
       /\ slots' = slots - 1

\* What every step of one session does: it leaves the others alone, and ends
\* with a timer only inside an execution.
Change(s) ==
    /\ DOMAIN thr' = Sessions /\ DOMAIN timer' = Sessions
    /\ \A u \in Sessions \ {s} : thr'[u] = thr[u] /\ timer'[u] = timer[u]
    /\ Shaped(thr'[s])
    /\ timer'[s] # "off" => thr'[s].pc \in Timed
    /\ SlotStep(s)

\* One session's step keeps what is said of all of them.
LEMMA ChangeKeeps ==
    ASSUME Inv, NEW s \in Sessions, Change(s)
    PROVE  Shape' /\ TimerScoped' /\ IsFiniteSet(Holders)' /\ SlotCount'
<1>1. Shape'
  BY Zenon DEF Inv, Shape, Change
<1>2. TimerScoped'
  BY Zenon DEF Inv, TimerScoped, Timed, Change
<1>3. \A u \in Sessions : u # s => (u \in Holders' <=> u \in Holders)
  BY Zenon DEF Holders, Change
<1>4. IsFiniteSet(Holders)' /\ SlotCount'
  <2>0. MaxConcurrency \in Nat /\ slots \in Nat /\ slots <= MaxConcurrency
        /\ slots = Cardinality(Holders) /\ IsFiniteSet(Holders)
    BY FS_CardinalityType, ConstantsOK DEF Inv, SlotCount
  <2>1. CASE (thr[s].pc \in Holding <=> thr'[s].pc \in Holding) /\ slots' = slots
    <3>1. Holders' = Holders
      BY Zenon, <1>3, <2>1 DEF Holders
    <3>2. QED
      BY <2>0, <2>1, <3>1 DEF SlotCount
  <2>2. CASE /\ thr[s].pc \notin Holding /\ thr'[s].pc \in Holding
             /\ slots < MaxConcurrency /\ slots' = slots + 1
    <3>1. Holders' = Holders \cup {s} /\ s \notin Holders
      BY Zenon, <1>3, <2>2 DEF Holders
    <3>2. IsFiniteSet(Holders') /\ Cardinality(Holders') = Cardinality(Holders) + 1
      BY <2>0, <3>1, FS_AddElement
    <3>3. QED
      BY <2>0, <2>2, <3>2 DEF SlotCount
  <2>3. CASE /\ thr[s].pc \in Holding /\ thr'[s].pc \notin Holding
             /\ slots' = slots - 1
    <3>1. Holders' = Holders \ {s} /\ s \in Holders
      BY Zenon, <1>3, <2>3 DEF Holders
    <3>2. IsFiniteSet(Holders') /\ Cardinality(Holders') = Cardinality(Holders) - 1
      BY <2>0, <3>1, FS_RemoveElement
    <3>3. QED
      BY <2>0, <2>3, <3>2 DEF SlotCount
  <2>4. QED
    BY <2>1, <2>2, <2>3 DEF Change, SlotStep
<1>5. QED
  BY <1>1, <1>2, <1>4

-----------------------------------------------------------------------------
\* Where guest code returns to, or is thrown out to: the event loop or its end.
LEMMA ReturnedType ==
    ASSUME NEW t, Shaped(t)
    PROVE  Shaped(Returned(t)) /\ Returned(t).pc \in Backs \cup {"after"}
<1> DEFINE u == [t EXCEPT !.in = "script", !.back = "top"]
<1>1. /\ {"pc", "back"} \subseteq DOMAIN u /\ u.back = "top"
      /\ \A x : /\ DOMAIN [u EXCEPT !.pc = x] = DOMAIN u
               /\ [u EXCEPT !.pc = x].pc = x /\ [u EXCEPT !.pc = x].back = "top"
  BY DEF Shaped
<1>2. \E x \in Backs \cup {"after"} : Returned(t) = [u EXCEPT !.pc = x]
  BY Zenon DEF Returned, Shaped, Backs
<1>3. QED
  BY <1>1, <1>2 DEF Shaped, Backs

\* An exception goes where a return would go, or ends the event loop.
LEMMA ThrewType ==
    ASSUME NEW t, Shaped(t), NEW r \in Threw(t)
    PROVE  Shaped(r) /\ r.pc \in Backs \cup {"after"}
<1>1. /\ Shaped([t EXCEPT !.out = "error"])
      /\ Shaped([t EXCEPT !.out = "error", !.work = FALSE])
  BY DEF Shaped
<1>2. /\ Shaped(Returned([t EXCEPT !.out = "error"]))
      /\ Returned([t EXCEPT !.out = "error"]).pc \in Backs \cup {"after"}
  BY <1>1, ReturnedType
<1>3. /\ Shaped(Returned([t EXCEPT !.out = "error", !.work = FALSE]))
      /\ Returned([t EXCEPT !.out = "error", !.work = FALSE]).pc \in Backs \cup {"after"}
  BY <1>1, ReturnedType
<1>4. Shaped(Returned(t)) /\ Returned(t).pc \in Backs \cup {"after"}
  BY ReturnedType
<1>5. /\ Shaped([Returned(t) EXCEPT !.out = "error", !.pc = "after"])
      /\ [Returned(t) EXCEPT !.out = "error", !.pc = "after"].pc = "after"
  BY <1>4 DEF Shaped
<1>6. r \in {Returned(t), Returned([t EXCEPT !.out = "error"]),
             Returned([t EXCEPT !.out = "error", !.work = FALSE]),
             [Returned(t) EXCEPT !.out = "error", !.pc = "after"]}
  BY DEF Threw
<1>7. QED
  BY Zenon, <1>2, <1>3, <1>4, <1>5, <1>6

\* A dispatched frame enters the guest, ends the loop or goes on with it.
LEMMA DispatchedType ==
    ASSUME NEW t, Shaped(t), NEW cmd, NEW back \in Backs
    PROVE  /\ Shaped(Dispatched(t, cmd, back))
           /\ Dispatched(t, cmd, back).pc \in Backs \cup {"run", "after"}
BY DEF Dispatched, Shaped

\* A command starts an execution, ends the thread or leaves it idle.
LEMMA ObeyType ==
    ASSUME NEW t, Shaped(t), t.pc = "idle", NEW cmd
    PROVE  Shaped(Obey(t, cmd)) /\ Obey(t, cmd).pc \in {"idle", "start", "release"}
BY DEF Obey, Shaped

\* A step of one thread leaves the records of the others alone.
Only(s) == DOMAIN thr' = Sessions /\ \A u \in Sessions \ {s} : thr'[u] = thr[u]

\* A step within an execution moves one thread from a timed place to another.
LEMMA WithinChange ==
    ASSUME Inv, NEW s \in Sessions, Only(s), Shaped(thr'[s]),
           thr[s].pc \in Timed, thr'[s].pc \in Timed, timer' = timer, slots' = slots
    PROVE  Change(s)
<1>1. Timed \subseteq Holding
  BY DEF Timed, Holding
<1>2. QED
  BY Zenon, <1>1 DEF Only, Change, SlotStep, Inv, Shape

\* A step outside the timed part of an execution has no timer to leave behind.
LEMMA OutsideChange ==
    ASSUME Inv, NEW s \in Sessions, Only(s), Shaped(thr'[s]),
           thr[s].pc \notin Timed, timer' = timer, SlotStep(s)
    PROVE  Change(s)
<1>1. timer[s] = "off"
  BY Zenon DEF Inv, TimerScoped, Timed
<1>2. QED
  BY Zenon, <1>1 DEF Only, Change, Inv, Shape

\* Guest code keeps the slot and the timer of its execution.
LEMMA GuestChange ==
    ASSUME Inv, NEW s \in Sessions, GuestCalls(s) \/ GuestEnds(s)
    PROVE  Change(s)
<1>0. DOMAIN thr = Sessions /\ Shaped(thr[s])
  BY Zenon DEF Inv, Shape
<1>1. thr[s].pc = "run" /\ timer' = timer /\ slots' = slots
  BY Zenon DEF GuestCalls, GuestEnds, GuestSyncCall, GuestAsyncCall, GuestLeavesWork,
     GuestReturns, GuestThrows, GuestTerminated
<1>2. Only(s) /\ Shaped(thr'[s]) /\ thr'[s].pc \in Backs \cup {"run", "sync", "after"}
  <2>1. CASE GuestSyncCall(s)
    BY <1>0, <1>1, <2>1 DEF GuestSyncCall, Only, Shaped
  <2>2. CASE GuestAsyncCall(s)
    BY <1>0, <1>1, <2>2 DEF GuestAsyncCall, Only, Shaped
  <2>3. CASE GuestLeavesWork(s)
    BY <1>0, <1>1, <2>3 DEF GuestLeavesWork, Only, Shaped
  <2>4. CASE GuestReturns(s)
    <3>1. PICK done : thr' = [thr EXCEPT ![s] = Returned([thr[s] EXCEPT !.work = thr[s].work /\ ~ done])]
      BY Zenon, <2>4 DEF GuestReturns
    <3> DEFINE t == [thr[s] EXCEPT !.work = thr[s].work /\ ~ done]
    <3>2. Shaped(t)
      BY <1>0 DEF Shaped
    <3>3. Shaped(Returned(t)) /\ Returned(t).pc \in Backs \cup {"after"}
      BY <3>2, ReturnedType
    <3>4. thr' = [thr EXCEPT ![s] = Returned(t)]
      BY <3>1
    <3> HIDE DEF t
    <3>5. QED
      BY Zenon, <1>0, <3>3, <3>4 DEF Only
  <2>5. CASE GuestThrows(s) \/ GuestTerminated(s)
    <3>1. PICK t \in Threw(thr[s]) : thr' = [thr EXCEPT ![s] = t]
      BY Zenon, <2>5 DEF GuestThrows, GuestTerminated
    <3>2. Shaped(t) /\ t.pc \in Backs \cup {"after"}
      BY <1>0, ThrewType
    <3>3. QED
      BY Zenon, <1>0, <3>1, <3>2 DEF Only
  <2>6. QED
    BY Zenon, <2>1, <2>2, <2>3, <2>4, <2>5 DEF GuestCalls, GuestEnds
<1>3. thr[s].pc \in Timed /\ thr'[s].pc \in Timed
  BY <1>1, <1>2 DEF Timed, Executing, Backs
<1>4. QED
  BY Zenon, <1>1, <1>2, <1>3, WithinChange

\* So do the sync calls, the event loop and the verdict on the execution.
LEMMA LoopChange ==
    ASSUME Inv, NEW s \in Sessions,
           \/ SyncReceives(s) \/ SyncAborted(s) \/ LoopTop(s) \/ DrainFrame(s) \/ DrainEnds(s)
           \/ LoopReceives(s) \/ LoopAborted(s) \/ LoopTick(s) \/ LoopLeft(s) \/ Judge(s)
    PROVE  Change(s)
<1>0. DOMAIN thr = Sessions /\ Shaped(thr[s])
  BY Zenon DEF Inv, Shape
<1>1. /\ thr[s].pc \in {"sync", "top", "drain", "tick", "recv", "after", "judge"}
      /\ timer' = timer /\ slots' = slots
  BY DEF SyncReceives, SyncAborted, LoopTop, DrainFrame, DrainEnds, LoopReceives,
     LoopAborted, LoopTick, LoopLeft, Judge
<1>2. /\ Only(s) /\ Shaped(thr'[s])
      /\ thr'[s].pc \in Backs \cup {"run", "sync", "recv", "after", "judge", "cancel"}
  <2>1. CASE SyncReceives(s)
    BY <1>0, <2>1 DEF SyncReceives, Only, Shaped
  <2>2. CASE SyncAborted(s)
    BY <1>0, <2>2 DEF SyncAborted, Only, Shaped
  <2>3. CASE LoopTop(s)
    BY <1>0, <2>3 DEF LoopTop, Only, Shaped, Backs
  <2>4. CASE DrainFrame(s)
    <3> DEFINE t == [thr[s] EXCEPT !.defq = Tail(thr[s].defq), !.batch = thr[s].batch - 1]
               cmd == Head(thr[s].defq)
    <3>1. Shaped(t) /\ thr[s].pc \in Backs
      BY <1>0, <2>4 DEF DrainFrame, Shaped, Backs
    <3>2. /\ Shaped(Dispatched(t, cmd, thr[s].pc))
          /\ Dispatched(t, cmd, thr[s].pc).pc \in Backs \cup {"run", "after"}
      BY <3>1, DispatchedType
    <3>3. thr' = [thr EXCEPT ![s] = Dispatched(t, cmd, thr[s].pc)]
      BY <2>4 DEF DrainFrame
    <3> HIDE DEF t, cmd
    <3>4. QED
      BY Zenon, <1>0, <3>2, <3>3 DEF Only
  <2>5. CASE DrainEnds(s)
    BY <1>0, <2>5 DEF DrainEnds, Only, Shaped
  <2>6. CASE LoopReceives(s)
    <3> DEFINE cmd == Head(chan[s])
               t == [thr[s] EXCEPT !.pc = "after", !.out = "terminated"]
    <3>1. Shaped(t) /\ t.pc = "after"
      BY <1>0 DEF Shaped
    <3>2. /\ Shaped(Dispatched(thr[s], cmd, "top"))
          /\ Dispatched(thr[s], cmd, "top").pc \in Backs \cup {"run", "after"}
      BY <1>0, DispatchedType DEF Backs
    <3>3. thr' = [thr EXCEPT ![s] = IF cmd = Shutdown THEN t ELSE Dispatched(thr[s], cmd, "top")]
      BY <2>6 DEF LoopReceives
    <3> HIDE DEF t, cmd
    <3>4. QED
      BY Zenon, <1>0, <3>1, <3>2, <3>3 DEF Only
  <2>7. CASE LoopAborted(s)
    BY <1>0, <2>7 DEF LoopAborted, Only, Shaped
  <2>8. CASE LoopTick(s)
    BY <1>0, <2>8 DEF LoopTick, Only, Shaped, Backs
  <2>9. CASE LoopLeft(s)
    BY <1>0, <2>9 DEF LoopLeft, Only, Shaped
  <2>10. CASE Judge(s)
    BY <1>0, <2>10 DEF Judge, Only, Shaped
  <2>11. QED
    BY Zenon, <2>1, <2>2, <2>3, <2>4, <2>5, <2>6, <2>7, <2>8, <2>9, <2>10
<1>3. thr[s].pc \in Timed /\ thr'[s].pc \in Timed
  BY <1>1, <1>2 DEF Timed, Executing, Backs
<1>4. QED
  BY Zenon, <1>1, <1>2, <1>3, WithinChange

\* The fresh thread, and the thread that ended.
LEMMA FreshThread ==
    Shaped(NewThread) /\ Shaped(NoThread) /\ NewThread.pc = "slot" /\ NoThread.pc = None
BY DEF NewThread, NoThread, Shaped, Backs

\* Which places outside the timed part of an execution hold a slot.
LEMMA OutsidePlaces ==
    /\ "slot" \notin Holding /\ "queued" \notin Holding /\ None \notin Holding
    /\ {"idle", "start", "arm", "report", "release"} \subseteq Holding
    /\ {"slot", "queued", None, "idle", "start", "arm", "report", "release"} \cap Timed = {}
BY DEF Holding, Executing, None, Timed

\* The command loop and the ends of an execution.
LEMMA CommandChange ==
    ASSUME Inv, NEW s \in Sessions,
           \/ AcquireSlot(s) \/ SlotsTaken(s) \/ PollForSlot(s) \/ NextCommand(s)
           \/ Release(s) \/ CreateIsolate(s) \/ Report(s)
    PROVE  Change(s)
<1>0. DOMAIN thr = Sessions /\ Shaped(thr[s])
  BY Zenon DEF Inv, Shape
<1>1. CASE AcquireSlot(s)
  <2>1. Only(s) /\ Shaped(thr'[s]) /\ thr'[s].pc = "idle"
    BY <1>0, <1>1 DEF AcquireSlot, Only, Shaped
  <2>2. SlotStep(s) /\ thr[s].pc \notin Timed /\ timer' = timer
    BY Zenon, <1>1, <2>1, OutsidePlaces DEF AcquireSlot, SlotStep
  <2>3. QED
    BY Zenon, <2>1, <2>2, OutsideChange
<1>2. CASE SlotsTaken(s)
  <2>1. Only(s) /\ Shaped(thr'[s]) /\ thr'[s].pc = "queued"
    BY <1>0, <1>2 DEF SlotsTaken, Only, Shaped
  <2>2. SlotStep(s) /\ thr[s].pc \notin Timed /\ timer' = timer
    BY Zenon, <1>2, <2>1, OutsidePlaces DEF SlotsTaken, SlotStep
  <2>3. QED
    BY Zenon, <2>1, <2>2, OutsideChange
<1>3. CASE PollForSlot(s)
  <2>1. Only(s) /\ Shaped(thr'[s]) /\ thr'[s].pc \in {"slot", None}
    <3>1. \/ thr' = [thr EXCEPT ![s].early = Append(@, Head(chan[s])), ![s].pc = "slot"]
          \/ thr' = [thr EXCEPT ![s].pc = "slot"]
          \/ thr' = [thr EXCEPT ![s] = NoThread]
      BY Zenon, <1>3 DEF PollForSlot
    <3>2. QED
      BY <1>0, <3>1, FreshThread DEF Only, Shaped
  <2>2. SlotStep(s) /\ thr[s].pc \notin Timed /\ timer' = timer
    BY Zenon, <1>3, <2>1, OutsidePlaces DEF PollForSlot, SlotStep
  <2>3. QED
    BY Zenon, <2>1, <2>2, OutsideChange
<1>4. CASE NextCommand(s)
  <2>1. Only(s) /\ Shaped(thr'[s]) /\ thr'[s].pc \in {"idle", "start", "release"}
    <3> DEFINE t == [thr[s] EXCEPT !.early = Tail(thr[s].early)]
               cmd == Head(thr[s].early)
               u == [thr[s] EXCEPT !.pc = "release"]
    <3>1. /\ Shaped(t) /\ t.pc = "idle" /\ thr[s].pc = "idle"
          /\ Shaped(u) /\ u.pc = "release"
      BY <1>0, <1>4 DEF NextCommand, Shaped
    <3>2. Shaped(Obey(t, cmd)) /\ Obey(t, cmd).pc \in {"idle", "start", "release"}
      BY Zenon, <3>1, ObeyType
    <3>3. /\ Shaped(Obey(thr[s], Head(chan[s])))
          /\ Obey(thr[s], Head(chan[s])).pc \in {"idle", "start", "release"}
      BY <1>0, <3>1, ObeyType
    <3>4. \/ thr' = [thr EXCEPT ![s] = Obey(t, cmd)]
          \/ thr' = [thr EXCEPT ![s] = Obey(thr[s], Head(chan[s]))]
          \/ thr' = [thr EXCEPT ![s] = u]
      BY <1>4 DEF NextCommand
    <3> HIDE DEF t, cmd, u
    <3>5. QED
      BY Zenon, <1>0, <3>1, <3>2, <3>3, <3>4 DEF Only
  <2>2. SlotStep(s) /\ thr[s].pc \notin Timed /\ timer' = timer
    BY Zenon, <1>4, <2>1, OutsidePlaces DEF NextCommand, SlotStep
  <2>3. QED
    BY Zenon, <2>1, <2>2, OutsideChange
<1>5. CASE Release(s)
  <2>1. Only(s) /\ Shaped(thr'[s]) /\ thr'[s].pc = None
    BY <1>0, <1>5, FreshThread DEF Release, Only
  <2>2. SlotStep(s) /\ thr[s].pc \notin Timed /\ timer' = timer
    BY Zenon, <1>5, <2>1, OutsidePlaces DEF Release, SlotStep
  <2>3. QED
    BY Zenon, <2>1, <2>2, OutsideChange
<1>6. CASE CreateIsolate(s)
  <2>1. Only(s) /\ Shaped(thr'[s]) /\ thr'[s].pc \in {"start", "arm"}
    <3>1. \/ thr' = [thr EXCEPT ![s].iso = None]
          \/ thr' = [thr EXCEPT ![s].iso = thr[s].last, ![s].pc = "arm"]
      BY Zenon, <1>6 DEF CreateIsolate
    <3>2. thr[s].pc = "start"
      BY Zenon, <1>6 DEF CreateIsolate
    <3>3. QED
      BY <1>0, <3>1, <3>2 DEF Only, Shaped
  <2>2. SlotStep(s) /\ thr[s].pc \notin Timed /\ timer' = timer
    BY Zenon, <1>6, <2>1, OutsidePlaces DEF CreateIsolate, SlotStep
  <2>3. QED
    BY Zenon, <2>1, <2>2, OutsideChange
<1>7. CASE Report(s)
  <2>1. Only(s) /\ Shaped(thr'[s]) /\ thr'[s].pc = "idle"
    BY <1>0, <1>7 DEF Report, NewThread, Only, Shaped, Backs
  <2>2. SlotStep(s) /\ thr[s].pc \notin Timed /\ timer' = timer
    BY Zenon, <1>7, <2>1, OutsidePlaces DEF Report, SlotStep
  <2>3. QED
    BY Zenon, <2>1, <2>2, OutsideChange
<1>8. QED
  BY Zenon, <1>1, <1>2, <1>3, <1>4, <1>5, <1>6, <1>7

\* The steps that start, fire and join a timer.
LEMMA TimerChange ==
    ASSUME Inv, NEW s \in Sessions, Arm(s) \/ CancelTimer(s) \/ TimerStep(s)
    PROVE  Change(s)
<1>0. DOMAIN thr = Sessions /\ DOMAIN timer = Sessions /\ Shaped(thr[s])
  BY Zenon DEF Inv, Shape
<1>1. CASE Arm(s)
  <2>1. PICK ok \in BOOLEAN :
          /\ thr' = [thr EXCEPT ![s].out = IF ok THEN "ok" ELSE "error",
                                ![s].pc = IF ok THEN "run" ELSE "report"]
          /\ timer' = [timer EXCEPT ![s] = IF ok /\ s \in Limited THEN "running" ELSE "off"]
    BY Zenon, <1>1 DEF Arm
  <2>2. Only(s) /\ Shaped(thr'[s]) /\ thr'[s].pc = IF ok THEN "run" ELSE "report"
    BY <1>0, <2>1 DEF Only, Shaped
  <2>3. /\ DOMAIN timer' = Sessions /\ \A u \in Sessions \ {s} : timer'[u] = timer[u]
        /\ timer'[s] # "off" => ok
    BY <1>0, <2>1
  <2>4. "run" \in Timed /\ "run" \in Holding
    BY DEF Timed, Executing, Holding
  <2>5. slots' = slots /\ thr[s].pc = "arm"
    BY Zenon, <1>1 DEF Arm
  <2>6. thr'[s].pc \in Holding /\ thr[s].pc \in Holding
    BY <2>2, <2>4, <2>5, OutsidePlaces
  <2>7. QED
    BY Zenon, <2>2, <2>3, <2>4, <2>5, <2>6 DEF Change, SlotStep, Only
<1>2. CASE CancelTimer(s)
  <2>1. Only(s) /\ Shaped(thr'[s]) /\ thr'[s].pc = "report"
    BY <1>0, <1>2 DEF CancelTimer, Only, Shaped
  <2>2. /\ DOMAIN timer' = Sessions /\ \A u \in Sessions \ {s} : timer'[u] = timer[u]
        /\ timer'[s] = "off"
    BY Zenon, <1>0, <1>2 DEF CancelTimer
  <2>3. slots' = slots /\ thr[s].pc = "cancel"
    BY Zenon, <1>2 DEF CancelTimer
  <2>4. "cancel" \in Holding /\ "report" \in Holding
    BY DEF Holding, Executing
  <2>5. QED
    BY Zenon, <2>1, <2>2, <2>3, <2>4 DEF Change, SlotStep, Only
<1>3. CASE TimerStep(s)
  <2>1. /\ thr' = thr /\ slots' = slots /\ timer[s] \in {"running", "fired"}
        /\ DOMAIN timer' = Sessions /\ \A u \in Sessions \ {s} : timer'[u] = timer[u]
    BY <1>0, <1>3 DEF TimerStep, TimerFires, TimerSignals
  <2>2. thr[s].pc \in Timed
    BY <2>1 DEF Inv, TimerScoped, Timed
  <2>3. QED
    BY Zenon, <1>0, <2>1, <2>2 DEF Change, SlotStep
<1>4. QED
  BY Zenon, <1>1, <1>2, <1>3

\* A new session has an id without a thread, so without a timer and a slot.
LEMMA CreateChange ==
    ASSUME Inv, NEW s \in Sessions, CreateSession(s)
    PROVE  Change(s)
<1>1. thr[s].pc = None
  BY DEF Inv, Owned, CreateSession, Free
<1>2. Only(s) /\ thr'[s] = NewThread /\ timer' = timer /\ slots' = slots
  BY Zenon DEF Inv, Shape, CreateSession, Only
<1>3. SlotStep(s) /\ thr[s].pc \notin Timed
  BY Zenon, <1>1, <1>2, FreshThread, OutsidePlaces DEF SlotStep
<1>4. QED
  BY Zenon, <1>2, <1>3, FreshThread, OutsideChange

-----------------------------------------------------------------------------
\* No step leaves a thread behind that has neither an entry nor a joiner.
LEMMA OwnedKept ==
    ASSUME Inv, NEW s \in Sessions, Change(s), UNCHANGED <<entries, mgr>>,
           thr[s].pc # None
    PROVE  Owned'
BY Zenon DEF Inv, Owned, Change

\* Only a thread that exists takes steps, and it leaves the manager alone.
LEMMA RunningThread ==
    ASSUME NEW s \in Sessions, ThreadStep(s) \/ GuestCalls(s) \/ GuestEnds(s)
    PROVE  thr[s].pc # None /\ UNCHANGED <<entries, mgr>>
<1>1. CASE ThreadStep(s)
  BY Zenon, <1>1 DEF ThreadStep, AcquireSlot, SlotsTaken, PollForSlot, NextCommand, Release,
     CreateIsolate, Arm, SyncReceives, SyncAborted, LoopTop, DrainFrame, DrainEnds,
     LoopReceives, LoopAborted, LoopTick, LoopLeft, Judge, CancelTimer, Report, mgrVars, None
<1>2. CASE GuestCalls(s) \/ GuestEnds(s)
  BY Zenon, <1>2 DEF GuestCalls, GuestEnds, GuestSyncCall, GuestAsyncCall, GuestLeavesWork,
     GuestReturns, GuestThrows, GuestTerminated, mgrVars, None
<1>3. QED
  BY <1>1, <1>2

\* A command of the host or of the manager touches neither a thread nor a slot.
LEMMA ManagerKeeps ==
    ASSUME Inv, UNCHANGED <<thr, timer, slots>>, Owned'
    PROVE  Inv'
<1>1. Shape' /\ TimerScoped'
  BY Zenon DEF Inv, Shape, TimerScoped
<1>2. Holders' = Holders
  BY Zenon DEF Holders
<1>3. IsFiniteSet(Holders)' /\ SlotCount'
  BY Zenon, <1>2 DEF Inv, SlotCount
<1>4. QED
  BY Zenon, <1>1, <1>3 DEF Inv

\* Before the first session there is no thread, no timer and no slot taken.
LEMMA InitInv == Init => Inv
<1> SUFFICES ASSUME Init PROVE Inv
  OBVIOUS
<1>1. Shape
  BY Zenon, FreshThread DEF Init, Shape
<1>2. \A s \in Sessions : thr[s].pc = None /\ timer[s] = "off"
  BY Zenon, FreshThread DEF Init
<1>3. Owned /\ TimerScoped
  BY Zenon, <1>2 DEF Owned, TimerScoped
<1>4. Holders = {}
  BY Zenon, <1>2, OutsidePlaces DEF Holders
<1>5. IsFiniteSet(Holders) /\ SlotCount
  BY <1>4, FS_EmptySet, ConstantsOK DEF SlotCount, Init
<1>6. QED
  BY Zenon, <1>1, <1>3, <1>5 DEF Inv

\* Every step of the host, the manager, a thread, a guest or a timer keeps Inv.
LEMMA NextInv == Inv /\ [Next]_vars => Inv'
<1> SUFFICES ASSUME Inv, [Next]_vars PROVE Inv'
  OBVIOUS
<1>1. ASSUME NEW s \in Sessions, CreateSession(s) PROVE Inv'
  <2>1. Change(s)
    BY Zenon, <1>1, CreateChange
  <2>2. Owned'
    <3>1. \A u \in Sessions : thr[u].pc # None => u \in entries
      BY Zenon, <1>1 DEF Inv, Owned, CreateSession, Free
    <3>2. QED
      BY Zenon, <1>1, <2>1, <3>1 DEF Owned, Change, CreateSession
  <2>3. QED
    BY Zenon, <2>1, <2>2, ChangeKeeps DEF Inv
<1>2. ASSUME \/ \E s \in Sessions : DestroySession(s)
             \/ \E s \in Sessions, msg \in Messages : SendToSession(s, msg)
             \/ \E c \in CallIds : Respond(c)
      PROVE Inv'
  <2>1. mgr = Free /\ UNCHANGED <<thr, timer, slots, entries>>
    BY Zenon, <1>2 DEF DestroySession, SendToSession, Respond, threadVars
  <2>2. \A u \in Sessions : thr[u].pc # None => u \in entries
    BY <2>1 DEF Inv, Owned, Free
  <2>3. QED
    BY Zenon, <2>1, <2>2, ManagerKeeps DEF Owned
<1>3. ASSUME SignalAbort PROVE Inv'
  <2>1. mgr.op = "signal" /\ UNCHANGED <<thr, timer, slots, entries>>
    BY Zenon, <1>3 DEF SignalAbort, threadVars
  <2>2. \A u \in Sessions : thr[u].pc # None => u \in entries
    BY <2>1 DEF Inv, Owned
  <2>3. QED
    BY Zenon, <2>1, <2>2, ManagerKeeps DEF Owned
<1>4. ASSUME Send PROVE Inv'
  <2>1. /\ mgr.op = "send" /\ UNCHANGED <<thr, timer, slots>>
        /\ \/ entries' = entries
           \/ entries' = entries \ {mgr.s} /\ mgr' = [op |-> "join", s |-> mgr.s]
    BY Zenon, <1>4 DEF Send, threadVars
  <2>2. \A u \in Sessions : thr[u].pc # None => u \in entries
    BY <2>1 DEF Inv, Owned
  <2>3. Owned'
    BY <2>1, <2>2 DEF Owned
  <2>4. QED
    BY Zenon, <2>1, <2>3, ManagerKeeps
<1>5. ASSUME Join PROVE Inv'
  <2>1. thr[mgr.s].pc = None /\ UNCHANGED <<thr, timer, slots, entries>>
    BY Zenon, <1>5 DEF Join, threadVars
  <2>2. Owned'
    BY Zenon, <2>1 DEF Inv, Owned
  <2>3. QED
    BY Zenon, <2>1, <2>2, ManagerKeeps
<1>6. ASSUME NEW s \in Sessions, ThreadStep(s) \/ GuestCalls(s) \/ GuestEnds(s) PROVE Inv'
  <2>1. Change(s)
    BY Zenon, <1>6, CommandChange, LoopChange, TimerChange, GuestChange DEF ThreadStep
  <2>2. Owned'
    BY Zenon, <1>6, <2>1, RunningThread, OwnedKept
  <2>3. QED
    BY Zenon, <2>1, <2>2, ChangeKeeps DEF Inv
<1>7. ASSUME NEW s \in Sessions, TimerStep(s) PROVE Inv'
  <2>1. UNCHANGED <<thr, entries, mgr>>
    BY Zenon, <1>7 DEF TimerStep, TimerFires, TimerSignals, mgrVars
  <2>2. Owned'
    BY Zenon, <2>1 DEF Inv, Owned
  <2>3. QED
    BY Zenon, <1>7, <2>2, TimerChange, ChangeKeeps DEF Inv
<1>8. ASSUME UNCHANGED vars PROVE Inv'
  <2>1. UNCHANGED <<thr, timer, slots, entries, mgr>>
    BY Zenon, <1>8 DEF vars
  <2>2. Owned'
    BY Zenon, <2>1 DEF Inv, Owned
  <2>3. QED
    BY Zenon, <2>1, <2>2, ManagerKeeps
<1>9. QED
  BY Zenon, <1>1, <1>2, <1>3, <1>4, <1>5, <1>6, <1>7, <1>8 DEF Next, HostStep, ManagerStep

-----------------------------------------------------------------------------
(***************************************************************************)
(* The record of a thread: its type, and what its fields say of each other.*)
(***************************************************************************)

Places == Holding \cup {"slot", "queued", None}
Quiet == {"slot", "queued", "idle", "start", "arm"}
Ending == {"after", "judge", "cancel", "report"}

\* Call ids below n are given out.  A batch is a part of the deferred queue; an
\* execution starts without calls of its own and ends well only when nothing is
\* outstanding; a sync call is not the call of a promise.
Sound(t, n) ==
    /\ t \in ThreadType
    /\ t.batch <= Len(t.defq)
    /\ t.pc \in Quiet => t.own = {}
    /\ t.pc \in Ending /\ t.out = "ok" => t.pend = {} /\ t.work = FALSE
    /\ t.pend \subseteq 1 .. n - 1
    /\ t.pc = "sync" => t.call \in 1 .. n - 1 /\ t.call \notin t.pend

\* The calls an execution waits for, and where it may still get their answers.
Active == {"run", "sync", "top", "drain", "tick", "recv", "after"}
Wanted(t) == (t.pend \cap t.own) \cup (IF t.pc = "sync" THEN {t.call} ELSE {})

\* A step that waits for nothing new and defers nothing.
Calm(t, u) ==
    u.pc \in Active =>
      u.defq = t.defq /\ \A c \in Wanted(u) : t.pc \in Active /\ c \in Wanted(t)

\* The fields that Sound and Calm speak of, besides pc and out.
Alike(t, u) ==
    /\ u \in ThreadType
    /\ u.defq = t.defq /\ u.batch = t.batch /\ u.pend = t.pend /\ u.own = t.own
    /\ u.call = t.call /\ u.work = t.work

\* Places are disjoint where the proofs need it.
LEMMA PlaceFacts ==
    /\ Quiet \subseteq Places /\ Ending \subseteq Places /\ Active \subseteq Places
    /\ {"release", None} \subseteq Places
    /\ Quiet \cap (Ending \cup Active) = {} /\ Active \cap Ending = {"after"} /\ "sync" \in Active
    /\ {"release", None} \cap (Quiet \cup Ending \cup Active) = {}
BY DEF Places, Quiet, Ending, Active, Holding, Executing, None

\* What is sound stays so when ids are given out, and waits for none of them.
LEMMA SoundLater ==
    ASSUME NEW n \in Nat, NEW t, Sound(t, n)
    PROVE  Sound(t, n + 1) /\ \A c \in Wanted(t) : c # n
<1>1. 1 .. n - 1 \subseteq 1 .. (n + 1) - 1 /\ n \notin 1 .. n - 1
  OBVIOUS
<1>2. Sound(t, n + 1)
  BY <1>1 DEF Sound
<1>3. \A c \in Wanted(t) : c # n
  BY <1>1 DEF Sound, Wanted
<1> QED BY <1>2, <1>3

\* A thread moves to x with what it has.
LEMMA Moved ==
    ASSUME NEW n \in Nat, NEW t, Sound(t, n), NEW u, Alike(t, u),
           u.pc # "sync",
           u.pc \in Quiet => t.own = {},
           u.pc \in Ending /\ u.out = "ok" => t.pend = {} /\ t.work = FALSE,
           u.pc \in Active => t.pc \in Active \/ t.own = {}
    PROVE  Sound(u, n) /\ Calm(t, u)
<1>1. Sound(u, n)
  BY DEF Sound, Alike
<1>2. Calm(t, u)
  BY DEF Sound, Alike, Calm, Wanted
<1> QED BY <1>1, <1>2

\* A change of place changes nothing else.
LEMMA Put ==
    ASSUME NEW t \in ThreadType, NEW x \in Places
    PROVE  /\ Alike(t, [t EXCEPT !.pc = x]) /\ [t EXCEPT !.pc = x].pc = x
           /\ [t EXCEPT !.pc = x].out = t.out
BY Zenon DEF ThreadType, Places, Alike

\* Guest code that returns: the event loop is skipped only when a clean
\* execution leaves nothing behind.
LEMMA ReturnedSound ==
    ASSUME NEW n \in Nat, NEW t, Sound(t, n), t.pc = "run"
    PROVE  /\ Sound(Returned(t), n) /\ Calm(t, Returned(t))
           /\ Alike(t, Returned(t)) /\ Returned(t).out = t.out
<1> DEFINE v(x) == [t EXCEPT !.in = "script", !.back = "top", !.pc = x]
<1>1. PICK x \in {"top", "drain", "tick", "after"} :
         Returned(t) = v(x) /\ (x = "after" => ~ Enters(t))
  <2>1. t.back \in {"top", "drain", "tick"}
    BY Zenon DEF Sound, ThreadType
  <2>2. QED
    BY Zenon, <2>1 DEF Returned
<1>2. x \in Places
  BY PlaceFacts DEF Active
<1>3. Alike(t, v(x)) /\ v(x).pc = x /\ v(x).out = t.out
  BY Zenon, <1>2 DEF Sound, ThreadType, Places, Alike, Guest
<1>4. x = "after" /\ t.out = "ok" => t.pend = {} /\ t.work = FALSE
  <2>1. t.work \in BOOLEAN
    BY Zenon DEF Sound, ThreadType
  <2>2. QED
    BY <1>1, <2>1 DEF Enters, Waits
<1> HIDE DEF v
<1>5. x \notin Quiet /\ x # "sync" /\ t.pc \in Active /\ (x \in Ending => x = "after")
  BY DEF Quiet, Active, Ending
<1>6. Sound(v(x), n) /\ Calm(t, v(x))
  BY Zenon, <1>3, <1>4, <1>5, Moved
<1> QED BY <1>1, <1>3, <1>6

\* Guest code that throws: so does the loop it is thrown out of.
LEMMA ThrewSound ==
    ASSUME NEW n \in Nat, NEW t, Sound(t, n), t.pc = "run", NEW r \in Threw(t)
    PROVE  Sound(r, n) /\ Calm(t, r)
<1> DEFINE e == [t EXCEPT !.out = "error"]
           f == [t EXCEPT !.out = "error", !.work = FALSE]
           g == [Returned(t) EXCEPT !.out = "error", !.pc = "after"]
<1>0. t \in ThreadType
  BY DEF Sound
<1>1. Alike(t, e) /\ e.pc = "run"
  BY Zenon, <1>0 DEF ThreadType, Alike
<1>2. Sound(e, n)
  BY <1>1 DEF Sound, Alike, Quiet, Ending
<1>3. /\ f \in ThreadType /\ f.pc = "run" /\ f.defq = t.defq /\ f.batch = t.batch
      /\ f.pend = t.pend /\ f.own = t.own
  BY Zenon, <1>0 DEF ThreadType
<1>4. Sound(f, n)
  BY <1>3 DEF Sound, Quiet, Ending
<1> HIDE DEF e, f
<1>5. Sound(Returned(e), n) /\ Calm(e, Returned(e))
  BY <1>1, <1>2, ReturnedSound
<1>6. Sound(Returned(f), n) /\ Calm(f, Returned(f))
  BY <1>3, <1>4, ReturnedSound
<1>7. Calm(t, Returned(e))
  BY <1>1, <1>5 DEF Calm, Wanted, Alike
<1>8. Calm(t, Returned(f))
  BY <1>3, <1>6 DEF Calm, Wanted
<1>9. Sound(Returned(t), n) /\ Alike(t, Returned(t))
  BY ReturnedSound
<1>10. Alike(Returned(t), g) /\ g.pc = "after" /\ g.out = "error"
  <2>1. Returned(t) \in ThreadType /\ "after" \in Places
    BY <1>9, PlaceFacts DEF Sound, Ending
  <2>2. PICK w : w = Returned(t)
    OBVIOUS
  <2>3. QED
    BY Zenon, <2>1, <2>2 DEF ThreadType, Places, Alike
<1> HIDE DEF g
<1>11. Alike(t, g)
  BY <1>9, <1>10 DEF Alike
<1>12. Sound(g, n) /\ Calm(t, g)
  BY Zenon, <1>10, <1>11, Moved DEF Quiet, Active
<1>13. Sound(Returned(t), n) /\ Calm(t, Returned(t))
  BY ReturnedSound
<1>14. r \in {Returned(t), Returned(e), Returned(f), g}
  BY DEF Threw, e, f, g
<1> QED BY <1>5, <1>6, <1>7, <1>8, <1>12, <1>13, <1>14

\* A frame is dispatched: the answer of a promise leaves it settled, and no
\* other answer is awaited less.
LEMMA DispatchedSound ==
    ASSUME NEW n \in Nat, NEW t, Sound(t, n), t.pc \in {"drain", "tick", "recv"},
           NEW cmd \in Commands, NEW back \in {"top", "drain", "tick"}
    PROVE  LET u == Dispatched(t, cmd, back)
           IN  /\ Sound(u, n) /\ u.defq = t.defq /\ u.pc # "sync"
               /\ \A c \in Wanted(u) : c \in Wanted(t) /\ cmd # Resp(c)
<1> DEFINE u1 == [t EXCEPT !.pend = @ \ {cmd.call}, !.pc = "run", !.in = "resolve", !.back = back]
           u2 == [t EXCEPT !.pc = "run", !.in = "stream", !.back = back]
           u3 == [t EXCEPT !.pc = "after", !.out = "terminated"]
           u4 == [t EXCEPT !.pc = back]
<1>0. t \in ThreadType /\ {"run", "after", back} \subseteq Places /\ {"resolve", "stream"} \subseteq Guest
  BY PlaceFacts DEF Sound, Active, Guest
<1>1. CASE cmd.k = "resp" /\ cmd.call \in t.pend
  <2>1. Dispatched(t, cmd, back) = u1
    BY <1>1 DEF Dispatched
  <2>2. /\ u1 \in ThreadType /\ u1.pend = t.pend \ {cmd.call} /\ u1.pc = "run"
        /\ u1.defq = t.defq /\ u1.batch = t.batch /\ u1.own = t.own
    BY Zenon, <1>0 DEF ThreadType, Places
  <2> HIDE DEF u1
  <2>3. Sound(u1, n)
    BY <2>2 DEF Sound, Quiet, Ending
  <2>4. \A c \in Wanted(u1) : c \in Wanted(t) /\ cmd # Resp(c)
    BY <2>2 DEF Wanted, Resp
  <2> QED BY <2>1, <2>2, <2>3, <2>4
<1>2. CASE ~ (cmd.k = "resp" /\ cmd.call \in t.pend)
  <2>1. \A c \in t.pend : cmd # Resp(c)
    BY <1>2 DEF Resp
  <2>2. PICK u : Dispatched(t, cmd, back) = u /\ Alike(t, u) /\ u.pc \in {"run", "after", back}
                 /\ (u.pc = "after" => u.out = "terminated")
    <3>1. Alike(t, u2) /\ u2.pc = "run"
      BY Zenon, <1>0 DEF ThreadType, Places, Alike
    <3>2. Alike(t, u3) /\ u3.pc = "after" /\ u3.out = "terminated"
      BY Zenon, <1>0 DEF ThreadType, Places, Alike
    <3>3. Alike(t, u4) /\ u4.pc = back
      BY Zenon, <1>0 DEF ThreadType, Places, Alike
    <3>4. Dispatched(t, cmd, back) \in {u2, u3, u4}
      BY <1>2 DEF Dispatched
    <3> HIDE DEF u2, u3, u4
    <3> QED BY <3>1, <3>2, <3>3, <3>4
  <2>3. Sound(u, n)
    BY Zenon, <2>2, Moved DEF Quiet, Ending, Active
  <2>4. \A c \in Wanted(u) : c \in Wanted(t) /\ cmd # Resp(c)
    BY <2>1, <2>2 DEF Wanted, Alike
  <2> QED BY <2>2, <2>3, <2>4 DEF Alike
<1> QED BY <1>1, <1>2

\* A command of the command loop.
LEMMA ObeySound ==
    ASSUME NEW n \in Nat, NEW t, Sound(t, n), t.pc = "idle", NEW cmd \in Commands
    PROVE  Sound(Obey(t, cmd), n) /\ Obey(t, cmd).pc \notin Active
<1> DEFINE u(x) == [t EXCEPT !.pc = "start", !.last = x]
           v == [t EXCEPT !.pc = "release"]
<1>0. t \in ThreadType /\ {"start", "release"} \subseteq Places /\ t.own = {}
  BY PlaceFacts DEF Sound, Quiet
<1>1. ASSUME NEW x \in Codes \cup {""} PROVE Alike(t, u(x)) /\ u(x).pc = "start"
  BY Zenon, <1>0, <1>1 DEF ThreadType, Places, Alike
<1>2. Alike(t, v) /\ v.pc = "release"
  BY Zenon, <1>0 DEF ThreadType, Places, Alike
<1>3. \/ Obey(t, cmd) = t \/ Obey(t, cmd) = v
      \/ \E x \in Codes \cup {""} : Obey(t, cmd) = u(x)
  <2>1. cmd.k = "exec" => cmd.code \in Codes
    BY DEF Commands, Messages, Exec, Globals, Stream, Term, Resp, Shutdown
  <2>2. t.last \in Codes \cup {""}
    BY Zenon, <1>0 DEF ThreadType
  <2> QED BY Zenon, <2>1, <2>2 DEF Obey
<1> HIDE DEF u, v
<1>4. Sound(v, n) /\ v.pc \notin Active
  BY Zenon, <1>0, <1>2, Moved DEF Quiet, Ending, Active
<1>5. ASSUME NEW x \in Codes \cup {""} PROVE Sound(u(x), n) /\ u(x).pc \notin Active
  BY Zenon, <1>0, <1>1, <1>5, Moved DEF Quiet, Ending, Active
<1> QED BY Zenon, <1>3, <1>4, <1>5 DEF Active

\* The threads that are not executing.
LEMMA FreshSound ==
    /\ \A n \in Nat : Sound(NewThread, n) /\ Sound(NoThread, n)
    /\ NewThread.pc \notin Active /\ NoThread.pc \notin Active
<1>1. NewThread \in ThreadType /\ NoThread \in ThreadType
  <2>1. /\ "slot" \in Places /\ None \in Places /\ "script" \in Guest /\ 0 \in 0 .. MaxCalls
        /\ <<>> \in Seq(Commands) /\ 0 \in Nat /\ 1 \in 1 .. 2
    BY PlaceFacts, ConstantsOK DEF Guest, Quiet
  <2>2. NewThread \in ThreadType
    BY <2>1 DEF NewThread, ThreadType, Places
  <2>3. NoThread \in ThreadType
    BY <2>1, <2>2, Put DEF NoThread, Alike
  <2> QED BY <2>2, <2>3
<1>2. /\ NewThread.batch = 0 /\ NewThread.defq = <<>> /\ NewThread.own = {} /\ NewThread.pend = {}
      /\ NoThread.batch = 0 /\ NoThread.defq = <<>> /\ NoThread.own = {} /\ NoThread.pend = {}
      /\ NewThread.pc = "slot" /\ NoThread.pc = None
  BY DEF NewThread, NoThread
<1> QED BY <1>1, <1>2 DEF Sound, Active, Ending, None

\* What is in a queue after a command is added or taken.
LEMMA InAppend ==
    ASSUME NEW q \in Seq(Commands), NEW x, NEW m
    PROVE  InSeq(m, Append(q, x)) <=> m = x \/ InSeq(m, q)
BY DEF InSeq
\* A command that is not taken stays.
LEMMA InTail ==
    ASSUME NEW q \in Seq(Commands), q # <<>>, NEW m, InSeq(m, q), m # Head(q)
    PROVE  InSeq(m, Tail(q))
<1>1. PICK i \in 1 .. Len(q) : q[i] = m
  BY DEF InSeq
<1>2. i # 1
  BY <1>1
<1>3. i - 1 \in 1 .. Len(Tail(q)) /\ Tail(q)[i - 1] = m
  BY <1>1, <1>2
<1> QED BY <1>3 DEF InSeq
\* The ends of a queue are commands.
LEMMA QueueType ==
    ASSUME NEW q \in Seq(Commands)
    PROVE  /\ \A x \in Commands : Append(q, x) \in Seq(Commands) /\ Len(Append(q, x)) = Len(q) + 1
           /\ q # <<>> => /\ Head(q) \in Commands /\ Tail(q) \in Seq(Commands)
                          /\ Len(Tail(q)) = Len(q) - 1 /\ Len(q) > 0
OBVIOUS

-----------------------------------------------------------------------------
(***************************************************************************)
(* Where an answer is on its way to the execution that waits for it.       *)
(***************************************************************************)

OnWay(s, c) ==
    \/ c \in host /\ router[c] = s
    \/ mgr.op = "send" /\ mgr.s = s /\ mgr.msg = Resp(c)
    \/ InSeq(Resp(c), chan[s])
    \/ InSeq(Resp(c), thr[s].defq)

\* Everything session s waits for is on its way.
Delivered(s) == thr[s].pc \in Active => \A c \in Wanted(thr[s]) : OnWay(s, c)

\* The ids still to be given out are ids of the model.
Bounded ==
    /\ budget \in [sends : Nat, creates : Nat, calls : Nat, msgs : SUBSET Messages]
    /\ nextCall - 1 + budget.calls <= MaxCalls

FullInv ==
    /\ Inv /\ TypeOK /\ Bounded
    /\ \A s \in Sessions : Sound(thr[s], nextCall) /\ Delivered(s)

\* The step of a thread that makes no bridge call: it may take one command from
\* its channel, and loses no answer it waits for.
Local(s, u) ==
    /\ thr' = [thr EXCEPT ![s] = u]
    /\ Sound(u, nextCall)
    /\ chan' = chan \/ (Received(s) /\ Rest(s))
    /\ UNCHANGED <<mgrVars, callVars>>
    /\ Delivered(s)'

\* What FullInv says of one thread.
LEMMA OneThread ==
    ASSUME FullInv, NEW s \in Sessions
    PROVE  /\ thr \in [Sessions -> ThreadType] /\ Sound(thr[s], nextCall) /\ nextCall \in Nat
           /\ thr[s] \in ThreadType /\ chan[s] \in Seq(Commands) /\ Delivered(s)
           /\ DOMAIN chan = Sessions
BY ConstantsOK DEF FullInv, TypeOK

\* A calm step is local.
LEMMA CalmLocal ==
    ASSUME FullInv, NEW s \in Sessions, NEW u, thr' = [thr EXCEPT ![s] = u],
           Sound(u, nextCall), Calm(thr[s], u), UNCHANGED <<mgrVars, callVars, chan>>
    PROVE  Local(s, u)
<1>1. thr'[s] = u /\ Delivered(s)
  BY OneThread
<1>2. Delivered(s)'
  BY <1>1 DEF Delivered, OnWay, Calm, mgrVars, callVars
<1> QED BY <1>2 DEF Local

\* So is a step out of what an execution waits for.
LEMMA DoneLocal ==
    ASSUME FullInv, NEW s \in Sessions, NEW u, thr' = [thr EXCEPT ![s] = u],
           Sound(u, nextCall), u.pc \notin Active, UNCHANGED <<mgrVars, callVars>>,
           chan' = chan \/ (Received(s) /\ Rest(s))
    PROVE  Local(s, u)
<1>1. thr'[s] = u
  BY OneThread
<1>2. Delivered(s)'
  BY <1>1 DEF Delivered
<1> QED BY <1>2 DEF Local

\* The command loop.
LEMMA CommandLocal ==
    ASSUME FullInv, NEW s \in Sessions,
           \/ AcquireSlot(s) \/ SlotsTaken(s) \/ PollForSlot(s) \/ NextCommand(s)
           \/ Release(s) \/ CreateIsolate(s) \/ Report(s)
    PROVE  \E u : Local(s, u)
<1> DEFINE t == thr[s]
<1>0. /\ thr \in [Sessions -> ThreadType] /\ Sound(t, nextCall) /\ nextCall \in Nat
      /\ t \in ThreadType /\ chan[s] \in Seq(Commands)
  BY OneThread
<1>b. t.early \in Seq(Commands)
  BY Zenon, <1>0 DEF ThreadType
<1>a. {"idle", "queued", "slot", "release", "arm"} \subseteq Places
  BY PlaceFacts DEF Quiet
<1> HIDE DEF t
<1>1. ASSUME NEW x \in {"idle", "queued", "slot", "release"}, t.pc \in Quiet,
             thr' = [thr EXCEPT ![s] = [t EXCEPT !.pc = x]], chan' = chan,
             UNCHANGED <<mgrVars, callVars>>
      PROVE  \E u : Local(s, u)
  <2>1. Alike(t, [t EXCEPT !.pc = x]) /\ [t EXCEPT !.pc = x].pc = x
    BY <1>0, <1>a, Put
  <2>2. Sound([t EXCEPT !.pc = x], nextCall) /\ x \notin Active
    <3>1. t.own = {} /\ x \notin Ending /\ x \notin Active /\ x # "sync"
      BY <1>0, <1>1 DEF Sound, Ending, Active
    <3> QED BY Zenon, <1>0, <2>1, <3>1, Moved
  <2> QED BY Zenon, <1>1, <2>1, <2>2, DoneLocal
<1>2. CASE AcquireSlot(s)
  <2>1. /\ thr' = [thr EXCEPT ![s] = [t EXCEPT !.pc = "idle"]] /\ chan' = chan
        /\ t.pc \in Quiet /\ UNCHANGED <<mgrVars, callVars>>
    BY <1>2 DEF AcquireSlot, t, Quiet
  <2> QED BY <1>1, <2>1
<1>3. CASE SlotsTaken(s)
  <2>1. /\ thr' = [thr EXCEPT ![s] = [t EXCEPT !.pc = "queued"]] /\ chan' = chan
        /\ t.pc \in Quiet /\ UNCHANGED <<mgrVars, callVars>>
    BY <1>3 DEF SlotsTaken, t, Quiet
  <2> QED BY <1>1, <2>1
<1>4. CASE PollForSlot(s)
  <2>0. t.pc \in Quiet /\ UNCHANGED <<mgrVars, callVars>> /\ t.pc = "queued"
    BY <1>4 DEF PollForSlot, t, Quiet
  <2>1. CASE Received(s) /\ Rest(s) /\ thr' = [thr EXCEPT ![s].early = Append(@, Head(chan[s])), ![s].pc = "slot"]
    <3> DEFINE u == [t EXCEPT !.early = Append(t.early, Head(chan[s])), !.pc = "slot"]
    <3>1. thr' = [thr EXCEPT ![s] = u]
      BY Zenon, <2>1, <1>0 DEF t
    <3>2. Append(t.early, Head(chan[s])) \in Seq(Commands)
      BY <1>0, <1>b, <2>1, QueueType DEF Received
    <3>3. Alike(t, u) /\ u.pc = "slot"
      BY Zenon, <1>0, <1>a, <3>2 DEF ThreadType, Places, Alike
    <3> HIDE DEF u
    <3>4. t.own = {}
      BY <1>0, <2>0 DEF Sound
    <3>5. Sound(u, nextCall) /\ u.pc \notin Active
      BY Zenon, <1>0, <3>3, <3>4, Moved DEF Ending, Active
    <3> QED BY Zenon, <2>0, <2>1, <3>1, <3>5, DoneLocal
  <2>2. CASE thr' = [thr EXCEPT ![s].pc = "slot"] /\ chan' = chan
    BY <1>1, <2>0, <2>2 DEF t
  <2>3. CASE thr' = [thr EXCEPT ![s] = NoThread] /\ (chan' = chan \/ (Received(s) /\ Rest(s)))
    BY Zenon, <1>0, <2>0, <2>3, FreshSound, DoneLocal
  <2> QED BY Zenon, <1>4, <2>1, <2>2, <2>3 DEF PollForSlot
<1>5. CASE NextCommand(s)
  <2>0. t.pc = "idle" /\ t.pc \in Quiet /\ UNCHANGED <<mgrVars, callVars>>
    BY <1>5 DEF NextCommand, t, Quiet
  <2>1. CASE t.early # <<>> /\ thr' = [thr EXCEPT ![s] = Obey([t EXCEPT !.early = Tail(t.early)], Head(t.early))]
             /\ chan' = chan
    <3> DEFINE u == [t EXCEPT !.early = Tail(t.early)]
    <3>1. Tail(t.early) \in Seq(Commands) /\ Head(t.early) \in Commands
      BY <1>b, <2>1, QueueType
    <3>2. Alike(t, u) /\ u.pc = t.pc /\ u.out = t.out
      BY Zenon, <1>0, <3>1 DEF ThreadType, Alike
    <3> HIDE DEF u
    <3>3. Sound(u, nextCall)
      BY <1>0, <2>0, <3>2 DEF Sound, Alike
    <3>4. Sound(Obey(u, Head(t.early)), nextCall) /\ Obey(u, Head(t.early)).pc \notin Active
      BY <1>0, <2>0, <3>1, <3>2, <3>3, ObeySound
    <3>5. thr' = [thr EXCEPT ![s] = Obey(u, Head(t.early))]
      BY <2>1 DEF u
    <3> QED BY Zenon, <2>0, <2>1, <3>4, <3>5, DoneLocal
  <2>2. CASE Received(s) /\ Rest(s) /\ thr' = [thr EXCEPT ![s] = Obey(t, Head(chan[s]))]
    <3>1. Head(chan[s]) \in Commands
      BY <1>0, <2>2 DEF Received
    <3>2. Sound(Obey(t, Head(chan[s])), nextCall) /\ Obey(t, Head(chan[s])).pc \notin Active
      BY <1>0, <2>0, <3>1, ObeySound
    <3> QED BY Zenon, <2>0, <2>2, <3>2, DoneLocal
  <2>3. CASE thr' = [thr EXCEPT ![s].pc = "release"] /\ chan' = chan
    BY <1>1, <2>0, <2>3 DEF t
  <2> QED BY <1>5, <2>1, <2>2, <2>3 DEF NextCommand, t
<1>6. CASE Release(s)
  <2>1. thr' = [thr EXCEPT ![s] = NoThread] /\ chan' = chan /\ UNCHANGED <<mgrVars, callVars>>
    BY <1>6 DEF Release
  <2> QED BY Zenon, <1>0, <2>1, FreshSound, DoneLocal
<1>7. CASE CreateIsolate(s)
  <2>0. t.pc = "start" /\ chan' = chan /\ UNCHANGED <<mgrVars, callVars>>
    BY <1>7 DEF CreateIsolate, t
  <2>1. PICK x \in Codes \cup {"", None}, y \in {"start", "arm"} :
           thr' = [thr EXCEPT ![s] = [t EXCEPT !.iso = x, !.pc = y]]
    <3>1. CASE thr' = [thr EXCEPT ![s].iso = None]
      <4>1. [t EXCEPT !.iso = None] = [t EXCEPT !.iso = None, !.pc = "start"]
        BY Zenon, <1>0, <2>0 DEF ThreadType
      <4> QED BY Zenon, <3>1, <4>1 DEF t
    <3>2. CASE thr' = [thr EXCEPT ![s].iso = thr[s].last, ![s].pc = "arm"]
      <4>1. t.last \in Codes \cup {""}
        BY Zenon, <1>0 DEF ThreadType
      <4> QED BY Zenon, <3>2, <4>1 DEF t
    <3> QED BY Zenon, <1>7, <3>1, <3>2 DEF CreateIsolate
  <2> DEFINE u == [t EXCEPT !.iso = x, !.pc = y]
  <2>2. y \in Places /\ y \notin Active /\ y \notin Ending /\ y \in Quiet
    BY Zenon, PlaceFacts DEF Quiet, Ending, Active
  <2>3. Alike(t, u) /\ u.pc = y
    BY Zenon, <1>0, <2>2 DEF ThreadType, Places, Alike
  <2> HIDE DEF u
  <2>4. t.own = {}
    BY Zenon, <1>0, <2>0 DEF Sound, Quiet
  <2>5. Sound(u, nextCall)
    BY Zenon, <1>0, <2>2, <2>3, <2>4, Moved DEF Active
  <2> QED BY Zenon, <2>0, <2>1, <2>2, <2>3, <2>5, DoneLocal DEF u
<1>8. CASE Report(s)
  <2> DEFINE u == [NewThread EXCEPT !.pc = "idle", !.early = t.early,
                                   !.iso = t.iso, !.last = t.last, !.pend = t.pend]
  <2>0. thr' = [thr EXCEPT ![s] = u] /\ chan' = chan /\ UNCHANGED <<mgrVars, callVars>>
    BY <1>8 DEF Report, t
  <2>1. NewThread \in ThreadType
    BY <1>0, FreshSound DEF Sound
  <2>2. /\ u \in ThreadType /\ u.pc = "idle" /\ u.pend = t.pend
        /\ u.batch = NewThread.batch /\ u.defq = NewThread.defq /\ u.own = NewThread.own
    BY Zenon, <1>0, <1>a, <2>1 DEF ThreadType, Places
  <2>3. NewThread.batch = 0 /\ NewThread.defq = <<>> /\ NewThread.own = {}
    BY DEF NewThread
  <2> HIDE DEF u
  <2>4. Sound(u, nextCall) /\ u.pc \notin Active
    BY <1>0, <2>2, <2>3 DEF Sound, Ending, Active
  <2> QED BY Zenon, <2>0, <2>4, DoneLocal
<1> QED BY <1>2, <1>3, <1>4, <1>5, <1>6, <1>7, <1>8

\* The end of a stretch of guest code, and of an execution.
LEMMA EndsLocal ==
    ASSUME FullInv, NEW s \in Sessions,
           \/ GuestLeavesWork(s) \/ GuestEnds(s) \/ Arm(s) \/ SyncAborted(s) \/ LoopTop(s)
           \/ DrainEnds(s) \/ LoopAborted(s) \/ LoopTick(s) \/ LoopLeft(s) \/ Judge(s) \/ CancelTimer(s)
    PROVE  \E u : Local(s, u)
<1> DEFINE t == thr[s]
<1>0. /\ thr \in [Sessions -> ThreadType] /\ Sound(t, nextCall) /\ nextCall \in Nat
      /\ t \in ThreadType
  BY OneThread
<1>a. t.work \in BOOLEAN /\ t.defq \in Seq(Commands) /\ t.batch \in Nat
  BY Zenon, <1>0 DEF ThreadType
<1>b. Places = Places \cup Active \cup Ending
  BY PlaceFacts
<1>c. SUFFICES \E u : /\ thr' = [thr EXCEPT ![s] = u] /\ Sound(u, nextCall) /\ Calm(t, u)
                     /\ UNCHANGED <<mgrVars, callVars, chan>>
  BY Zenon, CalmLocal
<1>d. UNCHANGED <<mgrVars, callVars, chan>>
  BY Zenon DEF GuestLeavesWork, GuestEnds, GuestReturns, GuestThrows, GuestTerminated, Arm, SyncAborted,
     LoopTop, DrainEnds, LoopAborted, LoopTick, LoopLeft, Judge, CancelTimer
<1> HIDE DEF t
<1>1. CASE GuestLeavesWork(s)
  <2> DEFINE u == [t EXCEPT !.work = TRUE]
  <2>1. thr' = [thr EXCEPT ![s] = u] /\ t.pc = "run"
    BY <1>1 DEF GuestLeavesWork, t
  <2>2. /\ u \in ThreadType /\ u.pc = "run" /\ u.defq = t.defq /\ u.batch = t.batch
        /\ u.pend = t.pend /\ u.own = t.own
    BY Zenon, <1>0, <2>1 DEF ThreadType
  <2> HIDE DEF u
  <2>3. Sound(u, nextCall)
    BY <1>0, <2>2 DEF Sound, Quiet, Ending
  <2>4. Calm(t, u)
    BY <2>1, <2>2 DEF Calm, Wanted, Active
  <2> QED BY Zenon, <1>d, <2>1, <2>3, <2>4
<1>2. CASE GuestReturns(s)
  <2>1. t.pc = "run"
    BY <1>2 DEF GuestReturns, t
  <2>2. PICK done \in BOOLEAN : thr' = [thr EXCEPT ![s] = Returned([t EXCEPT !.work = t.work /\ ~ done])]
    BY Zenon, <1>2 DEF GuestReturns, t
  <2>3. (t.work /\ ~ done) \in BOOLEAN
    OBVIOUS
  <2> DEFINE v == [t EXCEPT !.work = t.work /\ ~ done]
  <2>4. /\ v \in ThreadType /\ v.pc = "run" /\ v.defq = t.defq /\ v.batch = t.batch
        /\ v.pend = t.pend /\ v.own = t.own
    BY Zenon, <1>0, <2>1, <2>3 DEF ThreadType
  <2>5. thr' = [thr EXCEPT ![s] = Returned(v)]
    BY <2>2
  <2> HIDE DEF v
  <2>6. Sound(v, nextCall)
    BY <1>0, <2>4 DEF Sound, Quiet, Ending
  <2>7. Sound(Returned(v), nextCall) /\ Calm(v, Returned(v))
    BY <1>0, <2>4, <2>6, ReturnedSound
  <2>8. Calm(t, Returned(v))
    BY <2>1, <2>4, <2>7 DEF Calm, Wanted, Active
  <2> QED BY Zenon, <1>d, <2>5, <2>7, <2>8
<1>3. CASE GuestThrows(s) \/ GuestTerminated(s)
  <2>1. t.pc = "run" /\ \E r \in Threw(t) : thr' = [thr EXCEPT ![s] = r]
    BY <1>3 DEF GuestThrows, GuestTerminated, t
  <2> QED BY Zenon, <1>0, <1>d, <2>1, ThrewSound
<1>4. CASE Arm(s)
  <2>1. t.pc = "arm"
    BY <1>4 DEF Arm, t
  <2>2. PICK ok \in BOOLEAN : thr' = [thr EXCEPT ![s].out = IF ok THEN "ok" ELSE "error",
                                             ![s].pc = IF ok THEN "run" ELSE "report"]
    BY Zenon, <1>4 DEF Arm
  <2>3. PICK o \in {"ok", "error"}, x \in {"run", "report"} :
           thr' = [thr EXCEPT ![s] = [t EXCEPT !.out = o, !.pc = x]] /\ (x = "report" => o # "ok")
    BY Zenon, <2>2 DEF t
  <2> DEFINE u == [t EXCEPT !.out = o, !.pc = x]
  <2>4. /\ o \in {"ok", "error", "terminated", "timeout"} /\ x \in Places
        /\ x # "sync" /\ x \notin Quiet /\ (x \in Ending => o # "ok")
    BY <2>3, PlaceFacts DEF Active, Ending, Quiet
  <2>5. t.own = {}
    BY <1>0, <2>1 DEF Sound, Quiet
  <2>6. Alike(t, u) /\ u.pc = x /\ u.out = o
    BY Zenon, <1>0, <2>4 DEF ThreadType, Places, Alike
  <2> HIDE DEF u
  <2>7. Sound(u, nextCall) /\ Calm(t, u)
    BY Zenon, <1>0, <2>4, <2>5, <2>6, Moved
  <2> QED BY Zenon, <1>d, <2>3, <2>7 DEF u
<1>5. CASE SyncAborted(s)
  <2> DEFINE u == [t EXCEPT !.pc = "run", !.call = 0]
  <2>1. t.pc = "sync" /\ thr' = [thr EXCEPT ![s] = u]
    BY Zenon, <1>5 DEF SyncAborted, t
  <2>2. "run" \in Places /\ 0 \in 0 .. MaxCalls
    BY PlaceFacts, ConstantsOK DEF Active
  <2>3. /\ u \in ThreadType /\ u.pc = "run" /\ u.defq = t.defq /\ u.batch = t.batch
        /\ u.pend = t.pend /\ u.own = t.own
    BY Zenon, <1>0, <2>2 DEF ThreadType, Places
  <2> HIDE DEF u
  <2>4. Sound(u, nextCall) /\ Calm(t, u)
    BY <1>0, <2>1, <2>3 DEF Sound, Calm, Wanted, Active, Quiet, Ending
  <2> QED BY Zenon, <1>d, <2>1, <2>4
<1>6. CASE LoopTop(s)
  <2> DEFINE x == IF t.defq # <<>> THEN "drain" ELSE IF Waits(t) THEN "recv" ELSE "after"
             u == [t EXCEPT !.pc = x, !.batch = Len(t.defq)]
  <2>1. t.pc = "top" /\ thr' = [thr EXCEPT ![s] = u]
    BY Zenon, <1>6 DEF LoopTop, t
  <2>2. /\ x \in Places /\ Len(t.defq) \in Nat /\ x \notin Quiet /\ x # "sync"
        /\ x \in Ending => t.pend = {} /\ t.work = FALSE
    <3>1. x \in {"drain", "recv", "after"} /\ (x = "after" => ~ Waits(t))
      BY Zenon
    <3>2. ~ Waits(t) => t.pend = {} /\ t.work = FALSE
      BY Zenon, <1>a DEF Waits
    <3>3. x \in Places /\ x \notin Quiet /\ x # "sync" /\ (x \in Ending => x = "after")
      BY <3>1, PlaceFacts DEF Active, Ending, Quiet
    <3>4. Len(t.defq) \in Nat
      BY <1>a
    <3> QED BY <3>1, <3>2, <3>3, <3>4
  <2> HIDE DEF x
  <2>3. /\ u \in ThreadType /\ u.pc = x /\ u.defq = t.defq /\ u.batch = Len(t.defq)
        /\ u.pend = t.pend /\ u.own = t.own /\ u.work = t.work
    BY Zenon, <1>0, <2>2 DEF ThreadType, Places
  <2> HIDE DEF u
  <2>4. Sound(u, nextCall)
    BY <1>0, <2>2, <2>3 DEF Sound
  <2>5. Calm(t, u)
    BY <2>1, <2>2, <2>3 DEF Calm, Wanted, Active
  <2> QED BY Zenon, <1>d, <2>1, <2>4, <2>5
<1>7. CASE DrainEnds(s)
  <2> DEFINE x == IF Waits(t) \/ (t.pc = "tick" /\ t.defq # <<>>) THEN "recv" ELSE "after"
             u == [t EXCEPT !.pc = x]
  <2>1. t.pc \in {"drain", "tick"} /\ thr' = [thr EXCEPT ![s] = u]
    BY <1>7 DEF DrainEnds, t
  <2>2. /\ x \in Places /\ x \notin Quiet /\ x # "sync"
        /\ x \in Ending => t.pend = {} /\ t.work = FALSE
    BY <1>a, PlaceFacts DEF Active, Ending, Quiet, Waits
  <2>3. t.pc \in Active
    BY <2>1 DEF Active
  <2> HIDE DEF x
  <2>4. Alike(t, u) /\ u.pc = x
    BY <1>0, <2>2, Put
  <2> HIDE DEF u
  <2>5. Sound(u, nextCall) /\ Calm(t, u)
    BY Zenon, <1>0, <2>2, <2>3, <2>4, Moved
  <2> QED BY Zenon, <1>d, <2>1, <2>5
<1>8. CASE LoopAborted(s)
  <2> DEFINE u == [t EXCEPT !.pc = "after", !.out = "terminated"]
  <2>1. t.pc = "recv" /\ thr' = [thr EXCEPT ![s] = u]
    BY Zenon, <1>8 DEF LoopAborted, t
  <2>2. "after" \in Places /\ "after" \notin Quiet /\ t.pc \in Active
    BY <2>1, PlaceFacts DEF Active, Quiet
  <2>3. Alike(t, u) /\ u.pc = "after" /\ u.out = "terminated"
    BY Zenon, <1>0, <2>2 DEF ThreadType, Places, Alike
  <2> HIDE DEF u
  <2>4. Sound(u, nextCall) /\ Calm(t, u)
    BY Zenon, <1>0, <2>2, <2>3, Moved
  <2> QED BY Zenon, <1>d, <2>1, <2>4
<1>9. CASE LoopTick(s)
  <2> DEFINE u == [t EXCEPT !.pc = "tick", !.batch = Len(t.defq)]
  <2>1. t.pc = "recv" /\ thr' = [thr EXCEPT ![s] = u]
    BY Zenon, <1>9 DEF LoopTick, t
  <2>2. "tick" \in Places /\ Len(t.defq) \in Nat
    BY <1>a, PlaceFacts DEF Active
  <2>3. /\ u \in ThreadType /\ u.pc = "tick" /\ u.defq = t.defq /\ u.batch = Len(t.defq)
        /\ u.pend = t.pend /\ u.own = t.own
    BY Zenon, <1>0, <2>2 DEF ThreadType, Places
  <2> HIDE DEF u
  <2>4. Sound(u, nextCall)
    BY <1>0, <2>2, <2>3 DEF Sound, Quiet, Ending
  <2>5. Calm(t, u)
    BY <2>1, <2>2, <2>3 DEF Calm, Wanted, Active
  <2> QED BY Zenon, <1>d, <2>1, <2>4, <2>5
<1>10. CASE LoopLeft(s)
  <2> DEFINE u == [t EXCEPT !.pass = 2, !.pc = "run", !.in = "handles"]
             v == [t EXCEPT !.pc = "judge", !.batch = 0]
  <2>1. /\ t.pc = "after" /\ t.pc \in Active
        /\ thr' = [thr EXCEPT ![s] = u] \/ thr' = [thr EXCEPT ![s] = v]
    BY Zenon, <1>10 DEF LoopLeft, t, Active
  <2>2. {"run", "judge"} \subseteq Places /\ 2 \in 1 .. 2 /\ 0 \in Nat /\ "handles" \in Guest
    BY PlaceFacts DEF Active, Ending, Guest
  <2>3. Alike(t, u) /\ u.pc = "run"
    BY Zenon, <1>0, <2>2 DEF ThreadType, Places, Alike
  <2>4. /\ v \in ThreadType /\ v.pc = "judge" /\ v.defq = t.defq /\ v.batch = 0 /\ v.pend = t.pend
        /\ v.own = t.own /\ v.out = t.out /\ v.work = t.work
    BY Zenon, <1>0, <2>2 DEF ThreadType, Places
  <2> HIDE DEF u, v
  <2>5. Sound(u, nextCall) /\ Calm(t, u)
    BY Zenon, <1>0, <2>1, <2>3, Moved DEF Quiet, Ending
  <2>6. Sound(v, nextCall)
    <3>1. /\ t.pend \subseteq 1 .. nextCall - 1 /\ 0 <= Len(t.defq)
          /\ t.out = "ok" => t.pend = {} /\ t.work = FALSE
      BY <1>0, <1>a, <2>1 DEF Sound, Ending
    <3> QED BY Zenon, <2>4, <3>1 DEF Sound, Quiet
  <2>7. Calm(t, v)
    BY <2>4 DEF Calm, Active
  <2> QED BY <1>d, <2>1, <2>5, <2>6, <2>7
<1>11. CASE Judge(s)
  <2>1. PICK o \in {t.out, "terminated", "timeout"} :
           t.pc = "judge" /\ thr' = [thr EXCEPT ![s] = [t EXCEPT !.pc = "cancel", !.out = o]]
    BY Zenon, <1>11 DEF Judge, t
  <2> DEFINE u == [t EXCEPT !.pc = "cancel", !.out = o]
  <2>2. "cancel" \in Places /\ o \in {"ok", "error", "terminated", "timeout"}
    <3>1. t.out \in {"ok", "error", "terminated", "timeout"}
      BY Zenon, <1>0 DEF ThreadType
    <3> QED BY <3>1, PlaceFacts DEF Ending
  <2>3. Alike(t, u) /\ u.pc = "cancel" /\ u.out = o
    BY Zenon, <1>0, <2>2 DEF ThreadType, Places, Alike
  <2>4. o = "ok" => t.pend = {} /\ t.work = FALSE
    BY <1>0, <2>1 DEF Sound, Ending
  <2>5. "cancel" \notin Quiet /\ "cancel" \notin Active
    BY DEF Quiet, Active
  <2> HIDE DEF u
  <2>6. Sound(u, nextCall) /\ Calm(t, u)
    BY Zenon, <1>0, <2>3, <2>4, <2>5, Moved
  <2> QED BY Zenon, <1>d, <2>1, <2>6 DEF u
<1>12. CASE CancelTimer(s)
  <2> DEFINE u == [t EXCEPT !.pc = "report"]
  <2>1. t.pc = "cancel" /\ thr' = [thr EXCEPT ![s] = u]
    BY <1>12 DEF CancelTimer, t
  <2>2. "report" \in Places /\ "report" \notin Quiet /\ "report" \notin Active
    BY PlaceFacts DEF Ending, Quiet, Active
  <2>3. Alike(t, u) /\ u.pc = "report" /\ u.out = t.out
    BY <1>0, <2>2, Put
  <2>4. t.out = "ok" => t.pend = {} /\ t.work = FALSE
    BY <1>0, <2>1 DEF Sound, Ending
  <2> HIDE DEF u
  <2>5. Sound(u, nextCall) /\ Calm(t, u)
    BY Zenon, <1>0, <2>2, <2>3, <2>4, Moved
  <2> QED BY Zenon, <1>d, <2>1, <2>5
<1> QED
  BY Zenon, <1>1, <1>2, <1>3, <1>4, <1>5, <1>6, <1>7, <1>8, <1>9, <1>10, <1>11, <1>12 DEF GuestEnds

\* The steps that take a command out of a queue.
LEMMA QueueLocal ==
    ASSUME FullInv, NEW s \in Sessions, SyncReceives(s) \/ DrainFrame(s) \/ LoopReceives(s)
    PROVE  \E u : Local(s, u)
<1> DEFINE t == thr[s]
<1>0. /\ thr \in [Sessions -> ThreadType] /\ Sound(t, nextCall) /\ nextCall \in Nat
      /\ t \in ThreadType /\ chan[s] \in Seq(Commands) /\ Delivered(s) /\ DOMAIN chan = Sessions
  BY OneThread
<1>a. t.defq \in Seq(Commands) /\ t.batch \in Nat /\ t.call \in 0 .. MaxCalls
  BY Zenon, <1>0 DEF ThreadType
<1>b. UNCHANGED <<mgrVars, callVars>>
  BY Zenon DEF SyncReceives, DrainFrame, LoopReceives
<1>c. \A u : thr' = [thr EXCEPT ![s] = u] => thr'[s] = u
  BY <1>0
\* Nothing but m leaves the two queues.
<1>d. ASSUME NEW u, NEW m, thr' = [thr EXCEPT ![s] = u], Sound(u, nextCall), t.pc \in Active,
             \A c \in Wanted(u) : c \in Wanted(t) /\ m # Resp(c),
             chan' = chan \/ (Received(s) /\ Rest(s)),
             \A c : c # m /\ (InSeq(c, chan[s]) \/ InSeq(c, t.defq))
                       => InSeq(c, chan'[s]) \/ InSeq(c, u.defq)
      PROVE  Local(s, u)
  <2>1. thr'[s] = u
    BY Zenon, <1>c, <1>d
  <2>2. ASSUME NEW c \in Wanted(u) PROVE OnWay(s, c)'
    <3>1. OnWay(s, c) /\ Resp(c) # m
      BY <1>0, <1>d, <2>2 DEF Delivered
    <3>2. \/ c \in host /\ router[c] = s
          \/ mgr.op = "send" /\ mgr.s = s /\ mgr.msg = Resp(c)
          \/ InSeq(Resp(c), chan'[s]) \/ InSeq(Resp(c), u.defq)
      BY <1>d, <3>1 DEF OnWay
    <3> QED BY <1>b, <2>1, <3>2 DEF OnWay, mgrVars, callVars
  <2>3. Delivered(s)'
    BY <2>1, <2>2 DEF Delivered
  <2> QED BY <1>b, <1>d, <2>3 DEF Local
<1>e. ASSUME Received(s), Rest(s)
      PROVE  /\ Head(chan[s]) \in Commands /\ chan'[s] = Tail(chan[s])
             /\ \A c : c # Head(chan[s]) /\ InSeq(c, chan[s]) => InSeq(c, chan'[s])
  <2>1. Head(chan[s]) \in Commands /\ chan'[s] = Tail(chan[s])
    BY <1>0, <1>e, QueueType DEF Received, Rest
  <2> QED BY <1>0, <1>e, <2>1, InTail DEF Received
<1> HIDE DEF t
<1>1. CASE SyncReceives(s)
  <2> DEFINE cmd == Head(chan[s])
             u == [t EXCEPT !.pc = "run", !.call = 0]
             v == [t EXCEPT !.defq = Append(t.defq, cmd)]
  <2>1. /\ t.pc = "sync" /\ t.pc \in Active /\ Received(s) /\ Rest(s)
        /\ \/ cmd \in {Resp(t.call), Shutdown} /\ thr' = [thr EXCEPT ![s] = u]
           \/ cmd \notin {Resp(t.call), Shutdown} /\ thr' = [thr EXCEPT ![s] = v]
    BY Zenon, <1>1 DEF SyncReceives, Defer, t, Active
  <2>2. "run" \in Places /\ 0 \in 0 .. MaxCalls
    BY PlaceFacts, ConstantsOK DEF Active
  <2>3. /\ cmd \in Commands
        /\ \A c : c # cmd /\ InSeq(c, chan[s]) => InSeq(c, chan'[s])
    BY <1>e, <2>1
  <2> HIDE DEF cmd
  <2>4. CASE cmd \in {Resp(t.call), Shutdown} /\ thr' = [thr EXCEPT ![s] = u]
    <3>1. /\ u \in ThreadType /\ u.pc = "run" /\ u.defq = t.defq /\ u.batch = t.batch
          /\ u.pend = t.pend /\ u.own = t.own
      BY Zenon, <1>0, <2>2 DEF ThreadType, Places
    <3> HIDE DEF u
    <3>2. Sound(u, nextCall)
      BY <1>0, <3>1 DEF Sound, Quiet, Ending
    <3>3. \A c \in Wanted(u) : c \in Wanted(t) /\ c # t.call
      BY <1>0, <2>1, <3>1 DEF Wanted, Sound
    <3>4. \A c \in Wanted(u) : c \in Wanted(t) /\ cmd # Resp(c)
      BY <2>4, <3>3 DEF Resp, Shutdown
    <3>5. Local(s, u)
      BY Zenon, <1>d, <2>1, <2>3, <2>4, <3>1, <3>2, <3>4
    <3> QED BY <3>5
  <2>5. CASE cmd \notin {Resp(t.call), Shutdown} /\ thr' = [thr EXCEPT ![s] = v]
    <3>1. Append(t.defq, cmd) \in Seq(Commands) /\ Len(Append(t.defq, cmd)) = Len(t.defq) + 1
      BY <1>a, <2>3, QueueType
    <3>2. /\ v \in ThreadType /\ v.pc = "sync" /\ v.defq = Append(t.defq, cmd) /\ v.batch = t.batch
          /\ v.pend = t.pend /\ v.own = t.own /\ v.call = t.call /\ v.out = t.out /\ v.work = t.work
      BY Zenon, <1>0, <2>1, <3>1 DEF ThreadType
    <3> HIDE DEF v
    <3>3. Sound(v, nextCall)
      <4>1. t.batch <= Len(t.defq) /\ Len(t.defq) \in Nat
        BY <1>0, <1>a DEF Sound
      <4>2. v.batch <= Len(v.defq)
        BY <1>a, <3>1, <3>2, <4>1
      <4> QED BY <1>0, <2>1, <3>2, <4>2 DEF Sound, Quiet, Ending
    <3>4. Wanted(v) = Wanted(t)
      BY <2>1, <3>2 DEF Wanted
    <3>5. \A c : InSeq(c, chan[s]) \/ InSeq(c, t.defq) => InSeq(c, chan'[s]) \/ InSeq(c, v.defq)
      BY <1>a, <2>3, <3>2, InAppend
    <3>6. \A c : Shutdown # Resp(c)
      BY DEF Shutdown, Resp
    <3>7. Local(s, v)
      BY Zenon, <1>d, <2>1, <2>5, <3>3, <3>4, <3>5, <3>6
    <3> QED BY <3>7
  <2> QED BY <2>1, <2>4, <2>5
<1>2. CASE DrainFrame(s)
  <2> DEFINE cmd == Head(t.defq)
             v == [t EXCEPT !.defq = Tail(t.defq), !.batch = t.batch - 1]
             u == Dispatched(v, cmd, t.pc)
  <2>1. /\ t.pc \in {"drain", "tick"} /\ t.pc \in Active /\ t.batch > 0
        /\ thr' = [thr EXCEPT ![s] = u] /\ chan' = chan
    BY <1>2 DEF DrainFrame, t, Active
  <2>2. t.defq # <<>>
    <3>1. t.batch <= Len(t.defq)
      BY <1>0 DEF Sound
    <3> QED BY <1>a, <2>1, <3>1
  <2>3. /\ cmd \in Commands /\ Tail(t.defq) \in Seq(Commands) /\ t.batch - 1 \in Nat
        /\ t.batch - 1 <= Len(Tail(t.defq))
    <3>1. t.batch <= Len(t.defq)
      BY <1>0 DEF Sound
    <3>2. cmd \in Commands /\ Tail(t.defq) \in Seq(Commands) /\ Len(Tail(t.defq)) = Len(t.defq) - 1
      BY <1>a, <2>2, QueueType
    <3>3. Len(t.defq) \in Nat
      BY <1>a
    <3> QED BY <1>a, <2>1, <3>1, <3>2, <3>3
  <2>4. /\ v \in ThreadType /\ v.pc = t.pc /\ v.defq = Tail(t.defq) /\ v.batch = t.batch - 1
        /\ v.pend = t.pend /\ v.own = t.own
    BY Zenon, <1>0, <2>3 DEF ThreadType
  <2>5. \A c : c # cmd /\ InSeq(c, t.defq) => InSeq(c, Tail(t.defq))
    BY <1>a, <2>2, InTail
  <2> HIDE DEF v, cmd
  <2>6. Sound(v, nextCall)
    BY <1>0, <2>1, <2>3, <2>4 DEF Sound, Quiet, Ending
  <2>7. /\ Sound(u, nextCall) /\ u.defq = v.defq
        /\ \A c \in Wanted(u) : c \in Wanted(v) /\ cmd # Resp(c)
    <3>1. v.pc \in {"drain", "tick", "recv"} /\ t.pc \in {"top", "drain", "tick"}
      BY <2>1, <2>4
    <3> QED BY <1>0, <2>3, <2>6, <3>1, DispatchedSound
  <2>8. Wanted(v) = Wanted(t)
    BY <2>1, <2>4 DEF Wanted
  <2> HIDE DEF u
  <2>9. Local(s, u)
    BY Zenon, <1>d, <2>1, <2>4, <2>5, <2>7, <2>8
  <2> QED BY <2>9
<1>3. CASE LoopReceives(s)
  <2> DEFINE cmd == Head(chan[s])
             v == [t EXCEPT !.pc = "after", !.out = "terminated"]
             u == Dispatched(t, cmd, "top")
  <2>1. /\ t.pc = "recv" /\ t.pc \in Active /\ Received(s) /\ Rest(s)
        /\ \/ cmd = Shutdown /\ thr' = [thr EXCEPT ![s] = v]
           \/ thr' = [thr EXCEPT ![s] = u]
    BY Zenon, <1>3 DEF LoopReceives, t, Active
  <2>2. /\ cmd \in Commands
        /\ \A c : c # cmd /\ InSeq(c, chan[s]) => InSeq(c, chan'[s])
    BY <1>e, <2>1
  <2> HIDE DEF cmd
  <2>3. CASE cmd = Shutdown /\ thr' = [thr EXCEPT ![s] = v]
    <3>1. "after" \in Places /\ "after" \notin Quiet
      BY PlaceFacts DEF Active, Quiet
    <3>2. Alike(t, v) /\ v.pc = "after" /\ v.out = "terminated"
      BY Zenon, <1>0, <3>1 DEF ThreadType, Places, Alike
    <3> HIDE DEF v
    <3>3. Sound(v, nextCall)
      BY Zenon, <1>0, <2>1, <3>1, <3>2, Moved
    <3>4. \A c \in Wanted(v) : c \in Wanted(t) /\ cmd # Resp(c)
      BY <2>1, <2>3, <3>2 DEF Wanted, Alike, Shutdown, Resp
    <3>5. v.defq = t.defq
      BY <3>2 DEF Alike
    <3>6. Local(s, v)
      BY Zenon, <1>d, <2>1, <2>2, <2>3, <3>3, <3>4, <3>5
    <3> QED BY <3>6
  <2>4. CASE thr' = [thr EXCEPT ![s] = u]
    <3>1. /\ Sound(u, nextCall) /\ u.defq = t.defq
          /\ \A c \in Wanted(u) : c \in Wanted(t) /\ cmd # Resp(c)
      BY <1>0, <2>1, <2>2, DispatchedSound
    <3> HIDE DEF u
    <3>2. Local(s, u)
      BY Zenon, <1>d, <2>1, <2>2, <2>4, <3>1
    <3> QED BY <3>2
  <2> QED BY <2>1, <2>3, <2>4
<1> QED BY <1>1, <1>2, <1>3

\* A local step keeps everything but what its timer and slot add.
LEMMA LocalKeeps ==
    ASSUME FullInv, NEW s \in Sessions, NEW u, Local(s, u)
    PROVE  /\ Bounded' /\ \A v \in Sessions : Sound(thr[v], nextCall)' /\ Delivered(v)'
           /\ thr' \in [Sessions -> ThreadType] /\ chan' \in [Sessions -> Seq(Commands)]
           /\ \A v \in Sessions : Len(chan'[v]) <= Capacity
           /\ UNCHANGED <<entries, mgr, router, nextCall, host>>
<1>0. /\ thr \in [Sessions -> ThreadType] /\ chan \in [Sessions -> Seq(Commands)]
      /\ \A v \in Sessions : Len(chan[v]) <= Capacity
      /\ \A v \in Sessions : Sound(thr[v], nextCall) /\ Delivered(v)
  BY DEF FullInv, TypeOK
<1>1. UNCHANGED <<entries, mgr, budget, router, nextCall, host>>
  BY DEF Local, mgrVars, callVars
<1>2. Bounded'
  BY <1>1 DEF FullInv, Bounded
<1>3. thr' = [thr EXCEPT ![s] = u] /\ u \in ThreadType /\ Sound(u, nextCall) /\ Delivered(s)'
  BY DEF Local, Sound
<1>4. thr' \in [Sessions -> ThreadType] /\ thr'[s] = u /\ \A v \in Sessions : v # s => thr'[v] = thr[v]
  BY <1>0, <1>3
<1>5. /\ chan' \in [Sessions -> Seq(Commands)]
      /\ \A v \in Sessions : Len(chan'[v]) <= Capacity
      /\ \A v \in Sessions : v # s => chan'[v] = chan[v]
  <2>1. CASE chan' = chan
    BY <1>0, <2>1
  <2>2. CASE Received(s) /\ Rest(s)
    <3>1. chan' = [chan EXCEPT ![s] = Tail(chan[s])] /\ chan[s] \in Seq(Commands) /\ chan[s] # <<>>
      BY <1>0, <2>2 DEF Received, Rest
    <3>2. Tail(chan[s]) \in Seq(Commands) /\ Len(Tail(chan[s])) = Len(chan[s]) - 1 /\ Len(chan[s]) \in Nat
      BY <3>1, QueueType
    <3>3. Len(chan[s]) <= Capacity /\ Capacity \in Nat
      BY <1>0, ConstantsOK
    <3>4. Len(Tail(chan[s])) <= Capacity
      BY <3>2, <3>3
    <3> QED BY <1>0, <3>1, <3>2, <3>4
  <2> QED BY <2>1, <2>2 DEF Local
<1>6. ASSUME NEW v \in Sessions PROVE Sound(thr[v], nextCall)' /\ Delivered(v)'
  <2>1. CASE v = s
    BY <1>1, <1>3, <1>4, <2>1
  <2>2. CASE v # s
    <3>1. thr'[v] = thr[v] /\ chan'[v] = chan[v] /\ Sound(thr[v], nextCall) /\ Delivered(v)
      BY <1>0, <1>4, <1>5, <1>6, <2>2
    <3> QED BY <1>1, <3>1 DEF Delivered, OnWay
  <2> QED BY <2>1, <2>2
<1> QED BY <1>1, <1>2, <1>4, <1>5, <1>6

\* The types of what is signalled to an execution.
Signals ==
    /\ abort \in [Sessions -> {None, "armed", "terminated", "timedout"}]
    /\ term \in [Sessions -> BOOLEAN]
    /\ timer \in [Sessions -> {"off", "running", "fired", "done"}]

\* A step of a session keeps them.
LEMMA SignalsKept ==
    ASSUME FullInv, NEW s \in Sessions,
           ThreadStep(s) \/ GuestCalls(s) \/ GuestEnds(s) \/ TimerStep(s)
    PROVE  Signals'
<1>0. Signals
  BY Zenon DEF FullInv, TypeOK, Signals
<1>1. /\ \/ abort' = abort \/ \E x \in {None, "armed"} : abort' = [abort EXCEPT ![s] = x]
         \/ abort' = [abort EXCEPT ![s] = Signal(abort[s], "timedout")]
      /\ term' = term \/ \E b \in BOOLEAN : term' = [term EXCEPT ![s] = b]
      /\ timer' = timer \/ \E x \in {"off", "running", "fired", "done"} : timer' = [timer EXCEPT ![s] = x]
  <2>1. CASE \/ AcquireSlot(s) \/ SlotsTaken(s) \/ PollForSlot(s) \/ NextCommand(s) \/ SyncReceives(s)
             \/ SyncAborted(s) \/ LoopTop(s) \/ DrainEnds(s) \/ LoopTick(s) \/ LoopLeft(s) \/ Judge(s)
             \/ GuestSyncCall(s) \/ GuestAsyncCall(s) \/ GuestLeavesWork(s) \/ GuestReturns(s) \/ GuestThrows(s)
    BY Zenon, <2>1 DEF AcquireSlot, SlotsTaken, PollForSlot, NextCommand, SyncReceives, SyncAborted, LoopTop,
       DrainEnds, LoopTick, LoopLeft, Judge, GuestSyncCall, GuestAsyncCall, GuestLeavesWork,
       GuestReturns, GuestThrows
  <2>2. CASE Release(s) \/ GuestTerminated(s) \/ LoopAborted(s) \/ CreateIsolate(s)
    BY Zenon, <2>2 DEF Release, GuestTerminated, LoopAborted, CreateIsolate
  <2>3. CASE DrainFrame(s) \/ LoopReceives(s)
    <3>1. \E m : term' = [term EXCEPT ![s] = @ \/ m = Term]
      BY Zenon, <2>3 DEF DrainFrame, LoopReceives
    <3>2. abort' = abort /\ timer' = timer
      BY Zenon, <2>3 DEF DrainFrame, LoopReceives
    <3>3. \E b \in BOOLEAN : term' = [term EXCEPT ![s] = b]
      BY Zenon, <3>1
    <3> QED BY Zenon, <3>2, <3>3
  <2>4. CASE Arm(s)
    <3>1. abort' = [abort EXCEPT ![s] = "armed"]
      BY Zenon, <2>4 DEF Arm
    <3>2. PICK ok \in BOOLEAN :
            /\ timer' = [timer EXCEPT ![s] = IF ok /\ s \in Limited THEN "running" ELSE "off"]
            /\ term' = [term EXCEPT ![s] = @ /\ ok]
      BY Zenon, <2>4 DEF Arm
    <3>3. \E b \in BOOLEAN : term' = [term EXCEPT ![s] = b]
      BY Zenon, <3>2
    <3> QED BY Zenon, <3>1, <3>2, <3>3
  <2>5. CASE CancelTimer(s) \/ Report(s)
    BY <2>5 DEF CancelTimer, Report
  <2>6. CASE TimerStep(s)
    BY Zenon, <2>6 DEF TimerStep, TimerFires, TimerSignals
  <2> QED BY Zenon, <2>1, <2>2, <2>3, <2>4, <2>5, <2>6 DEF ThreadStep, GuestCalls, GuestEnds
<1>2. abort' \in [Sessions -> {None, "armed", "terminated", "timedout"}]
  BY <1>0, <1>1 DEF Signals, Signal
<1>3. term' \in [Sessions -> BOOLEAN]
  BY Zenon, <1>0, <1>1 DEF Signals
<1>4. timer' \in [Sessions -> {"off", "running", "fired", "done"}]
  BY <1>0, <1>1 DEF Signals
<1> QED BY <1>2, <1>3, <1>4 DEF Signals

\* The slot count is a number.
LEMMA SlotsType == Inv => slots \in Nat
BY FS_CardinalityType DEF Inv, SlotCount

\* The calls of a thread are call ids.
LEMMA CallFields ==
    ASSUME NEW t \in ThreadType
    PROVE  t.own \in SUBSET CallIds /\ t.pend \in SUBSET CallIds
BY Zenon DEF ThreadType

\* The record of a thread that makes a sync or an async call.
SyncCalled(t, n, o) == [t EXCEPT !.pc = "sync", !.call = n, !.own = o]
AsyncCalled(t, p, o) == [t EXCEPT !.pend = p, !.own = o]

\* A sync call changes the place, the call and the calls of the execution.
LEMMA SyncRecord ==
    ASSUME NEW t \in ThreadType, NEW n \in 0 .. MaxCalls, NEW o, o \subseteq CallIds
    PROVE  LET a == SyncCalled(t, n, o)
           IN  /\ a \in ThreadType /\ a.pc = "sync" /\ a.call = n /\ a.own = o
               /\ a.defq = t.defq /\ a.pend = t.pend /\ a.batch = t.batch
<1>1. "sync" \in Places
  BY PlaceFacts
<1> QED BY Zenon, <1>1 DEF ThreadType, Places, SyncCalled

\* An async call changes the promises and the calls of the execution.
LEMMA AsyncRecord ==
    ASSUME NEW t \in ThreadType, NEW p, p \subseteq CallIds, NEW o, o \subseteq CallIds
    PROVE  LET b == AsyncCalled(t, p, o)
           IN  /\ b \in ThreadType /\ b.pc = t.pc /\ b.own = o
               /\ b.defq = t.defq /\ b.pend = p /\ b.batch = t.batch
BY Zenon DEF ThreadType, AsyncCalled

\* A bridge call: its id is new, and the host has it.
LEMMA CallKeeps ==
    ASSUME FullInv, NEW s \in Sessions, GuestSyncCall(s) \/ GuestAsyncCall(s)
    PROVE  /\ Bounded' /\ \A v \in Sessions : Sound(thr[v], nextCall)' /\ Delivered(v)'
           /\ thr' \in [Sessions -> ThreadType] /\ UNCHANGED <<entries, mgr, chan>>
           /\ router' \in [CallIds -> Sessions \cup {None}] /\ nextCall' \in 1 .. MaxCalls + 1
           /\ host' \subseteq CallIds
<1> DEFINE t == thr[s]
           n == nextCall
<1>0. /\ thr \in [Sessions -> ThreadType] /\ Sound(t, n) /\ n \in Nat
      /\ t \in ThreadType /\ Delivered(s)
      /\ \A v \in Sessions : Sound(thr[v], n) /\ Delivered(v)
  BY OneThread DEF FullInv
<1>1. /\ t.pc = "run" /\ NewCall(s) /\ UNCHANGED <<entries, mgr, chan>>
      /\ budget.calls > 0 /\ nextCall' = n + 1 /\ budget' = [budget EXCEPT !.calls = @ - 1]
      /\ router' = [router EXCEPT ![n] = s] /\ host' = host \cup {n}
  BY DEF GuestSyncCall, GuestAsyncCall, NewCall
<1>2. /\ n \in CallIds /\ Bounded' /\ nextCall' \in 1 .. MaxCalls + 1
  <2>1. /\ budget \in [sends : Nat, creates : Nat, calls : Nat, msgs : SUBSET Messages]
        /\ n - 1 + budget.calls <= MaxCalls /\ MaxCalls \in Nat /\ n \in 1 .. MaxCalls + 1
    BY ConstantsOK DEF FullInv, Bounded, TypeOK
  <2>2. budget.calls \in Nat
    BY <2>1
  <2>3. n \in CallIds /\ nextCall' \in 1 .. MaxCalls + 1 /\ budget.calls - 1 \in Nat
    BY <1>1, <2>1, <2>2 DEF CallIds
  <2>4. /\ budget' \in [sends : Nat, creates : Nat, calls : Nat, msgs : SUBSET Messages]
        /\ budget'.calls = budget.calls - 1
    BY <1>1, <2>1, <2>3
  <2>5. nextCall' - 1 + budget'.calls <= MaxCalls
    BY <1>1, <2>1, <2>2, <2>4
  <2> QED BY <2>3, <2>4, <2>5 DEF Bounded
<1>3. /\ router \in [CallIds -> Sessions \cup {None}] /\ host \subseteq CallIds
      /\ router' \in [CallIds -> Sessions \cup {None}] /\ host' \subseteq CallIds
      /\ n \in host' /\ router'[n] = s
      /\ \A c \in host : c # n => c \in host' /\ router'[c] = router[c]
  BY <1>1, <1>2 DEF FullInv, TypeOK
<1> HIDE DEF n, t
<1>4. PICK u : /\ thr' = [thr EXCEPT ![s] = u] /\ Sound(u, n + 1) /\ u.defq = t.defq
               /\ \A c \in Wanted(u) : c = n \/ (c # n /\ c \in Wanted(t))
  <2> DEFINE a == SyncCalled(t, n, t.own \cup {n})
             b == AsyncCalled(t, t.pend \cup {n}, t.own \cup {n})
  <2>a. t \in ThreadType /\ t.pc = "run"
    BY <1>0, <1>1
  <2>0. t.pend \subseteq 1 .. n - 1 /\ t.batch <= Len(t.defq) /\ n \notin t.pend /\ t.own \subseteq CallIds
        /\ t.pend \subseteq CallIds /\ n \in 0 .. MaxCalls /\ "sync" \in Places /\ n \in 1 .. (n + 1) - 1
        /\ t.pend \subseteq 1 .. (n + 1) - 1
    <3>1. t.pend \subseteq 1 .. n - 1 /\ t.batch <= Len(t.defq)
      BY <1>0 DEF Sound
    <3>2. t.own \subseteq CallIds /\ t.pend \subseteq CallIds
      BY <2>a, CallFields
    <3>3. n \in 0 .. MaxCalls /\ n \in 1 .. (n + 1) - 1
      BY <1>2, ConstantsOK DEF CallIds
    <3>4. n \notin t.pend /\ t.pend \subseteq 1 .. (n + 1) - 1
      BY <1>0, <3>1
    <3> QED BY <3>1, <3>2, <3>3, <3>4, PlaceFacts
  <2>1. CASE GuestSyncCall(s)
    <3>1. thr' = [thr EXCEPT ![s] = a]
      BY Zenon, <2>1 DEF GuestSyncCall, SyncCalled, t, n
    <3>3. /\ a \in ThreadType /\ a.pc = "sync" /\ a.call = n /\ a.own = t.own \cup {n} /\ a.defq = t.defq
          /\ a.pend = t.pend /\ a.batch = t.batch
      <4>1. t.own \cup {n} \subseteq CallIds /\ n \in 0 .. MaxCalls /\ "sync" \in Places
        BY <1>2, <2>0
      <4> QED BY <2>a, <4>1, SyncRecord
    <3> HIDE DEF a
    <3>4. Sound(a, n + 1)
      BY <2>0, <3>3 DEF Sound, Quiet, Ending
    <3>5. \A c \in Wanted(a) : c = n \/ (c # n /\ c \in Wanted(t))
      BY <1>1, <2>0, <3>3 DEF Wanted
    <3> QED BY Zenon, <3>1, <3>3, <3>4, <3>5
  <2>2. CASE GuestAsyncCall(s)
    <3>1. thr' = [thr EXCEPT ![s] = b]
      BY Zenon, <2>2 DEF GuestAsyncCall, AsyncCalled, t, n
    <3>3. /\ b \in ThreadType /\ b.pc = "run" /\ b.own = t.own \cup {n} /\ b.defq = t.defq
          /\ b.pend = t.pend \cup {n} /\ b.batch = t.batch
      <4>1. t.own \cup {n} \subseteq CallIds /\ t.pend \cup {n} \subseteq CallIds
        BY <1>2, <2>0
      <4> QED BY <2>a, <4>1, AsyncRecord
    <3> HIDE DEF b
    <3>4. Sound(b, n + 1)
      BY <2>0, <3>3 DEF Sound, Quiet, Ending
    <3>5. \A c \in Wanted(b) : c = n \/ (c # n /\ c \in Wanted(t))
      BY <1>1, <2>0, <3>3 DEF Wanted
    <3> QED BY Zenon, <3>1, <3>3, <3>4, <3>5
  <2> QED BY <2>1, <2>2
<1>5. thr' \in [Sessions -> ThreadType] /\ thr'[s] = u /\ \A v \in Sessions : v # s => thr'[v] = thr[v]
  BY <1>0, <1>4 DEF Sound
<1>6. ASSUME NEW v \in Sessions, NEW c, c # n, OnWay(v, c), thr'[v].defq = thr[v].defq PROVE OnWay(v, c)'
  BY <1>1, <1>3, <1>6 DEF OnWay
<1>7. ASSUME NEW v \in Sessions PROVE Sound(thr[v], nextCall)' /\ Delivered(v)'
  <2>1. CASE v = s
    <3>1. Sound(thr[v], nextCall)'
      BY <1>1, <1>4, <1>5, <2>1
    <3>2. ASSUME NEW c \in Wanted(u) PROVE OnWay(s, c)'
      <4>1. CASE c = n
        BY <1>3, <4>1 DEF OnWay
      <4>2. CASE c # n /\ c \in Wanted(t)
        <5>1. OnWay(s, c)
          BY <1>0, <1>1, <4>2 DEF Delivered, Active, t
        <5> QED BY <1>4, <1>5, <1>6, <4>2, <5>1 DEF t
      <4> QED BY <1>4, <4>1, <4>2
    <3> QED BY <1>5, <2>1, <3>1, <3>2 DEF Delivered
  <2>2. CASE v # s
    <3>1. thr'[v] = thr[v] /\ Sound(thr[v], n) /\ Delivered(v)
      BY <1>0, <1>5, <2>2
    <3>2. Sound(thr[v], n + 1) /\ \A c \in Wanted(thr[v]) : c # n
      BY <1>0, <3>1, SoundLater
    <3>3. Sound(thr[v], nextCall)'
      BY <1>1, <3>1, <3>2
    <3>4. ASSUME thr[v].pc \in Active, NEW c \in Wanted(thr[v]) PROVE OnWay(v, c)'
      <4>1. OnWay(v, c) /\ c # n
        BY <3>1, <3>2, <3>4 DEF Delivered
      <4> QED BY <1>6, <3>1, <4>1
    <3> QED BY <3>1, <3>3, <3>4 DEF Delivered
  <2> QED BY <2>1, <2>2
<1> QED BY <1>1, <1>2, <1>3, <1>5, <1>7

-----------------------------------------------------------------------------
(***************************************************************************)
(* The host and the manager.                                               *)
(***************************************************************************)

\* What a step of the host or the manager has to show, besides Inv.
Handed ==
    /\ entries \subseteq Sessions
    /\ mgr \in {Free} \cup [op : {"signal", "send"}, s : Sessions, msg : Commands]
                      \cup [op : {"join"}, s : Sessions]
    /\ chan \in [Sessions -> Seq(Commands)]
    /\ \A s \in Sessions : Len(chan[s]) <= Capacity
    /\ Signals
    /\ router \in [CallIds -> Sessions \cup {None}]
    /\ host \subseteq CallIds
    /\ Bounded
    /\ \A s \in Sessions : Delivered(s)

\* It is a part of FullInv.
LEMMA HandedHolds ==
    ASSUME FullInv
    PROVE  Handed /\ thr \in [Sessions -> ThreadType] /\ nextCall \in 1 .. MaxCalls + 1
BY DEF FullInv, TypeOK, Handed, Signals

\* Which command holds the mutex, and that the thread of an execution has an
\* entry unless it is being joined.
LEMMA ManagerForms ==
    ASSUME FullInv
    PROVE  /\ mgr.op \in {"signal", "send"} => mgr \in [op : {"signal", "send"}, s : Sessions, msg : Commands]
           /\ mgr.op = "join" => mgr.s \in Sessions
           /\ mgr = Free => mgr.op # "send" /\ \A s \in Sessions : thr[s].pc \in Active => s \in entries
           /\ mgr.op = "send" => mgr.s \in Sessions /\ mgr.msg \in Commands
<1>1. mgr \in {Free} \cup [op : {"signal", "send"}, s : Sessions, msg : Commands]
                      \cup [op : {"join"}, s : Sessions]
  BY DEF FullInv, TypeOK
<1>2. mgr = Free => mgr.op # "send" /\ mgr.op # "join"
  BY DEF Free
<1>3. mgr = Free => \A s \in Sessions : thr[s].pc \in Active => s \in entries
  BY <1>2 DEF FullInv, Inv, Owned, Active, None
<1> QED BY <1>1, <1>2, <1>3 DEF Free

\* A message enters the commands of a channel.
LEMMA MessageType == Messages \subseteq Commands /\ Shutdown \in Commands /\ \A c \in CallIds : Resp(c) \in Commands
BY DEF Commands

\* Sending and creating leave the calls of the budget alone.
LEMMA BudgetKept ==
    ASSUME Bounded, nextCall' = nextCall,
           \/ budget.sends > 0 /\ budget' = [budget EXCEPT !.sends = @ - 1]
           \/ budget.creates > 0 /\ budget' = [budget EXCEPT !.creates = @ - 1]
    PROVE  Bounded'
<1>1. budget \in [sends : Nat, creates : Nat, calls : Nat, msgs : SUBSET Messages]
  BY DEF Bounded
<1>2. budget.sends \in Nat /\ budget.creates \in Nat
  BY <1>1
<1>3. /\ budget' \in [sends : Nat, creates : Nat, calls : Nat, msgs : SUBSET Messages]
      /\ budget'.calls = budget.calls
  BY <1>1, <1>2
<1> QED BY <1>3 DEF Bounded

\* Commands that only take the mutex.
LEMMA TakenKeeps ==
    ASSUME FullInv, NEW s \in Sessions, DestroySession(s) \/ \E msg \in Messages : SendToSession(s, msg)
    PROVE  Handed' /\ UNCHANGED <<thr, nextCall>>
<1>0. Handed
  BY HandedHolds
<1>1. /\ mgr = Free /\ UNCHANGED <<entries, chan, abort, timer, router, host, thr, nextCall>>
      /\ \E b \in BOOLEAN : term' = [term EXCEPT ![s] = b]
      /\ \E x \in {"signal", "send"}, m \in Messages \cup {Shutdown} :
            mgr' = [op |-> x, s |-> s, msg |-> m]
  <2>1. CASE DestroySession(s)
    <3>1. /\ mgr = Free /\ UNCHANGED <<entries, chan, abort, timer, router, host, thr, nextCall>>
          /\ mgr' = [op |-> "signal", s |-> s, msg |-> Shutdown]
      BY Zenon, <2>1 DEF DestroySession, threadVars
    <3>2. \E b \in BOOLEAN : term' = [term EXCEPT ![s] = b]
      <4>1. (term[s] \/ thr[s].iso # None) \in BOOLEAN
        OBVIOUS
      <4> QED BY Zenon, <2>1, <4>1 DEF DestroySession
    <3> QED BY Zenon, <3>1, <3>2
  <2>2. CASE \E msg \in Messages : SendToSession(s, msg)
    <3>0. PICK m \in Messages : SendToSession(s, m)
      BY Zenon, <2>2
    <3>1. /\ mgr = Free /\ UNCHANGED <<entries, chan, abort, timer, router, host, thr, nextCall>>
          /\ mgr' = [op |-> IF m = Term THEN "signal" ELSE "send", s |-> s, msg |-> m]
      BY Zenon, <3>0 DEF SendToSession, threadVars
    <3>2. \E b \in BOOLEAN : term' = [term EXCEPT ![s] = b]
      <4>1. (term[s] \/ (m = Term /\ thr[s].iso # None)) \in BOOLEAN
        OBVIOUS
      <4> QED BY Zenon, <3>0, <4>1 DEF SendToSession
    <3>3. (IF m = Term THEN "signal" ELSE "send") \in {"signal", "send"}
      OBVIOUS
    <3> QED BY Zenon, <3>1, <3>2, <3>3
  <2> QED BY Zenon, <2>1, <2>2
<1>2. mgr.op # "send"
  BY <1>1, ManagerForms
<1>3. mgr' \in [op : {"signal", "send"}, s : Sessions, msg : Commands]
  BY <1>1, MessageType
<1>4. Signals'
  BY <1>0, <1>1 DEF Handed, Signals
<1>5. Bounded'
  <2>1. CASE DestroySession(s)
    BY Zenon, <1>0, <1>1, <2>1 DEF DestroySession, Handed, Bounded
  <2>2. CASE \E msg \in Messages : SendToSession(s, msg)
    BY <1>0, <1>1, <2>2, BudgetKept DEF SendToSession, Handed
  <2> QED BY <2>1, <2>2
<1>6. \A v \in Sessions : Delivered(v)'
  BY Zenon, <1>0, <1>1, <1>2 DEF Handed, Delivered, OnWay
<1> QED BY Zenon, <1>0, <1>1, <1>3, <1>4, <1>5, <1>6 DEF Handed

\* The answer of a call goes from the host to the manager.
LEMMA RespondKeeps ==
    ASSUME FullInv, NEW c \in CallIds, Respond(c)
    PROVE  Handed' /\ UNCHANGED <<thr, nextCall>>
<1>0. Handed
  BY HandedHolds
<1>1. /\ mgr = Free /\ UNCHANGED <<entries, chan, abort, term, timer, thr, nextCall, budget>>
      /\ c \in host /\ host' = host \ {c} /\ router' = [router EXCEPT ![c] = None]
      /\ mgr' = IF router[c] \in entries
                THEN [op |-> "send", s |-> router[c], msg |-> Resp(c)] ELSE Free
  BY DEF Respond
<1>2. mgr.op # "send" /\ \A v \in Sessions : thr[v].pc \in Active => v \in entries
  BY <1>1, ManagerForms
<1>3. mgr' \in {Free} \cup [op : {"signal", "send"}, s : Sessions, msg : Commands]
                      \cup [op : {"join"}, s : Sessions]
  BY <1>0, <1>1, MessageType DEF Handed
<1>4. router' \in [CallIds -> Sessions \cup {None}] /\ host' \subseteq CallIds
      /\ \A d \in host : d # c => d \in host' /\ router'[d] = router[d]
  BY Zenon, <1>0, <1>1 DEF Handed
<1>5. Signals' /\ Bounded'
  BY <1>0, <1>1 DEF Handed, Signals, Bounded
<1>6. ASSUME NEW v \in Sessions PROVE Delivered(v)'
  <2>1. ASSUME thr[v].pc \in Active, NEW d \in Wanted(thr[v]) PROVE OnWay(v, d)'
    <3>1. OnWay(v, d) /\ v \in entries
      BY <1>0, <1>2, <2>1 DEF Handed, Delivered
    <3>2. CASE d = c /\ d \in host /\ router[d] = v
      <4>1. mgr' = [op |-> "send", s |-> v, msg |-> Resp(d)]
        BY <1>1, <3>1, <3>2
      <4>2. mgr'.op = "send" /\ mgr'.s = v /\ mgr'.msg = Resp(d)
        BY <4>1
      <4> QED BY <4>2 DEF OnWay
    <3>3. CASE ~ (d = c /\ d \in host /\ router[d] = v)
      BY Zenon, <1>1, <1>2, <1>4, <3>1, <3>3 DEF OnWay
    <3> QED BY <3>2, <3>3
  <2> QED BY <1>1, <2>1 DEF Delivered
<1> QED BY Zenon, <1>0, <1>1, <1>3, <1>4, <1>5, <1>6 DEF Handed

\* A message reaches the channel it is sent to.
LEMMA ManagerHands ==
    ASSUME FullInv, ManagerStep
    PROVE  Handed' /\ UNCHANGED <<thr, nextCall>>
<1>0. Handed
  BY HandedHolds
<1>1. CASE SignalAbort
  <2>1. /\ mgr.op = "signal" /\ UNCHANGED <<entries, chan, term, timer, router, host, thr, nextCall, budget>>
        /\ abort' = [abort EXCEPT ![mgr.s] = Signal(@, "terminated")]
        /\ mgr' = [mgr EXCEPT !.op = "send"]
    BY <1>1 DEF SignalAbort, threadVars
  <2>2. mgr \in [op : {"signal", "send"}, s : Sessions, msg : Commands]
    BY <2>1, ManagerForms
  <2>3. mgr' \in [op : {"signal", "send"}, s : Sessions, msg : Commands]
    BY <2>1, <2>2
  <2>4. Signals' /\ Bounded'
    <3>1. mgr.s \in Sessions
      BY <2>2
    <3>2. abort' \in [Sessions -> {None, "armed", "terminated", "timedout"}]
      BY <1>0, <2>1, <3>1 DEF Handed, Signals, Signal
    <3> QED BY <1>0, <2>1, <3>2 DEF Handed, Signals, Bounded
  <2>5. \A v \in Sessions : Delivered(v)'
    BY <1>0, <2>1 DEF Handed, Delivered, OnWay
  <2> QED BY <1>0, <2>1, <2>3, <2>4, <2>5 DEF Handed
<1>2. CASE Send
  <2>1. /\ mgr.op = "send" /\ UNCHANGED <<abort, term, timer, router, host, thr, nextCall, budget>>
        /\ Len(chan[mgr.s]) < Capacity /\ chan' = [chan EXCEPT ![mgr.s] = Append(@, mgr.msg)]
        /\ mgr' \in {Free, [op |-> "join", s |-> mgr.s]}
        /\ entries' \subseteq entries
    BY <1>2 DEF Send, Room, threadVars
  <2>2. mgr.s \in Sessions /\ mgr.msg \in Commands
    BY <2>1, ManagerForms
  <2>3. /\ Append(chan[mgr.s], mgr.msg) \in Seq(Commands) /\ Len(chan[mgr.s]) \in Nat
        /\ Len(Append(chan[mgr.s], mgr.msg)) = Len(chan[mgr.s]) + 1
    BY <1>0, <2>2, QueueType DEF Handed
  <2>4. Len(Append(chan[mgr.s], mgr.msg)) <= Capacity
    BY <2>1, <2>3, ConstantsOK
  <2>5. /\ chan' \in [Sessions -> Seq(Commands)] /\ \A v \in Sessions : Len(chan'[v]) <= Capacity
        /\ chan'[mgr.s] = Append(chan[mgr.s], mgr.msg)
        /\ \A v \in Sessions : v # mgr.s => chan'[v] = chan[v]
    BY <1>0, <2>1, <2>2, <2>3, <2>4 DEF Handed
  <2>6. mgr' \in {Free} \cup [op : {"signal", "send"}, s : Sessions, msg : Commands]
                      \cup [op : {"join"}, s : Sessions]
    BY <2>1, <2>2
  <2>7. Signals' /\ Bounded'
    BY <1>0, <2>1 DEF Handed, Signals, Bounded
  <2>8. ASSUME NEW v \in Sessions PROVE Delivered(v)'
    <3>1. \A m : InSeq(m, chan[v]) \/ (v = mgr.s /\ m = mgr.msg) => InSeq(m, chan'[v])
      <4>1. chan[v] \in Seq(Commands)
        BY <1>0 DEF Handed
      <4>2. CASE v = mgr.s
        <5>1. chan'[v] = Append(chan[v], mgr.msg)
          BY <2>5, <4>2
        <5> QED BY <4>1, <5>1, InAppend
      <4>3. CASE v # mgr.s
        BY <2>5, <4>3
      <4> QED BY <4>2, <4>3
    <3>2. ASSUME thr[v].pc \in Active, NEW d \in Wanted(thr[v]) PROVE OnWay(v, d)'
      <4>1. OnWay(v, d)
        BY <1>0, <3>2 DEF Handed, Delivered
      <4> QED BY Zenon, <2>1, <3>1, <4>1 DEF OnWay
    <3> QED BY <2>1, <3>2 DEF Delivered
  <2> QED BY <1>0, <2>1, <2>5, <2>6, <2>7, <2>8 DEF Handed
<1>3. CASE Join
  <2>1. /\ mgr.op = "join" /\ UNCHANGED <<entries, abort, term, timer, router, host, thr, nextCall, budget>>
        /\ thr[mgr.s].pc = None /\ mgr' = Free /\ chan' = [chan EXCEPT ![mgr.s] = <<>>]
    BY <1>3 DEF Join, threadVars
  <2>2. <<>> \in Seq(Commands) /\ Len(<<>>) <= Capacity /\ mgr.s \in Sessions
    BY <2>1, ManagerForms, ConstantsOK
  <2>a. chan \in [Sessions -> Seq(Commands)] /\ \A v \in Sessions : Len(chan[v]) <= Capacity
    BY <1>0 DEF Handed
  <2>3. /\ chan' \in [Sessions -> Seq(Commands)] /\ \A v \in Sessions : Len(chan'[v]) <= Capacity
        /\ \A v \in Sessions : v # mgr.s => chan'[v] = chan[v]
    BY <2>1, <2>2, <2>a
  <2>4. Signals' /\ Bounded'
    BY <1>0, <2>1 DEF Handed, Signals, Bounded
  <2>5. ASSUME NEW v \in Sessions PROVE Delivered(v)'
    <3>1. ASSUME thr[v].pc \in Active, NEW d \in Wanted(thr[v]) PROVE OnWay(v, d)'
      <4>1. OnWay(v, d) /\ v # mgr.s
        BY Zenon, <1>0, <2>1, <3>1 DEF Handed, Delivered, Active, None
      <4> QED BY <2>1, <2>3, <4>1 DEF OnWay
    <3> QED BY Zenon, <2>1, <3>1 DEF Delivered
  <2> QED BY <1>0, <2>1, <2>3, <2>4, <2>5 DEF Handed
<1> QED BY <1>1, <1>2, <1>3 DEF ManagerStep

\* A new session: its channel is empty and its thread waits for nothing.
LEMMA CreateKeeps ==
    ASSUME FullInv, NEW s \in Sessions, CreateSession(s)
    PROVE  /\ Handed' /\ thr' = [thr EXCEPT ![s] = NewThread] /\ nextCall' = nextCall
<1>0. Handed /\ thr \in [Sessions -> ThreadType]
  BY HandedHolds
<1>1. /\ UNCHANGED <<slots, mgr, timer, router, nextCall, host>> /\ entries' = entries \cup {s}
      /\ thr' = [thr EXCEPT ![s] = NewThread] /\ chan' = [chan EXCEPT ![s] = <<>>]
      /\ abort' = [abort EXCEPT ![s] = None] /\ term' = [term EXCEPT ![s] = FALSE]
      /\ budget.creates > 0 /\ budget' = [budget EXCEPT !.creates = @ - 1]
  BY Zenon DEF CreateSession
<1>2. <<>> \in Seq(Commands) /\ Len(<<>>) <= Capacity
  BY ConstantsOK
<1>a. chan \in [Sessions -> Seq(Commands)] /\ \A v \in Sessions : Len(chan[v]) <= Capacity
  BY <1>0 DEF Handed
<1>3. /\ chan' \in [Sessions -> Seq(Commands)] /\ \A v \in Sessions : Len(chan'[v]) <= Capacity
      /\ \A v \in Sessions : v # s => chan'[v] = chan[v]
  BY <1>1, <1>2, <1>a
<1>4. Signals'
  BY <1>0, <1>1 DEF Handed, Signals
<1>5. Bounded'
  BY <1>0, <1>1, BudgetKept DEF Handed
<1>6. ASSUME NEW v \in Sessions PROVE Delivered(v)'
  <2>1. CASE v = s
    <3>1. thr'[v] = NewThread
      BY <1>0, <1>1, <2>1
    <3> QED BY <3>1, FreshSound DEF Delivered
  <2>2. CASE v # s
    <3>1. thr'[v] = thr[v] /\ chan'[v] = chan[v] /\ Delivered(v)
      BY <1>0, <1>1, <1>3, <2>2 DEF Handed
    <3> QED BY <1>1, <3>1 DEF Delivered, OnWay
  <2> QED BY <2>1, <2>2
<1> QED BY <1>0, <1>1, <1>3, <1>4, <1>5, <1>6 DEF Handed

\* The parts of FullInv put together again.
LEMMA Together ==
    ASSUME Inv, Handed, nextCall \in 1 .. MaxCalls + 1, thr \in [Sessions -> ThreadType],
           \A s \in Sessions : Sound(thr[s], nextCall)
    PROVE  FullInv
BY SlotsType DEF FullInv, TypeOK, Handed, Signals

\* Initially there are no threads, calls or messages.
LEMMA InitFull == Init => FullInv
<1> SUFFICES ASSUME Init PROVE FullInv
  OBVIOUS
<1>1. Inv
  BY InitInv
<1>2. NoThread \in ThreadType /\ NoThread.pc \notin Active /\ \A n \in Nat : Sound(NoThread, n)
  BY FreshSound DEF Sound
<1>3. thr \in [Sessions -> ThreadType] /\ \A s \in Sessions : thr[s] = NoThread
  BY <1>2 DEF Init
<1>4. nextCall = 1 /\ nextCall \in 1 .. MaxCalls + 1 /\ \A s \in Sessions : Sound(thr[s], nextCall)
  BY <1>2, <1>3, ConstantsOK DEF Init
<1>5. Bounded
  <2>1. budget \in [sends : Nat, creates : Nat, calls : 0 .. MaxCalls, msgs : SUBSET Messages]
    BY ConstantsOK DEF Init
  <2>2. budget.calls \in 0 .. MaxCalls /\ MaxCalls \in Nat
    BY <2>1, ConstantsOK
  <2>3. budget \in [sends : Nat, creates : Nat, calls : Nat, msgs : SUBSET Messages]
    BY <2>1
  <2> QED BY <1>4, <2>2, <2>3 DEF Bounded
<1>6. \A s \in Sessions : Delivered(s)
  BY <1>2, <1>3 DEF Delivered
<1>7. /\ entries \subseteq Sessions /\ chan \in [Sessions -> Seq(Commands)]
      /\ \A s \in Sessions : Len(chan[s]) <= Capacity
      /\ mgr = Free /\ router \in [CallIds -> Sessions \cup {None}] /\ host \subseteq CallIds
  BY ConstantsOK DEF Init
<1>8. Signals
  BY DEF Init, Signals
<1>9. Handed
  BY <1>5, <1>6, <1>7, <1>8 DEF Handed
<1> QED BY <1>1, <1>3, <1>4, <1>9, Together

\* Every step keeps FullInv.
LEMMA NextFull == FullInv /\ [Next]_vars => FullInv'
<1> SUFFICES ASSUME FullInv, [Next]_vars PROVE FullInv'
  OBVIOUS
<1>0. Inv' /\ slots' \in Nat
  <2>1. Inv'
    BY NextInv DEF FullInv
  <2>2. slots' \in Nat
    BY <2>1, FS_CardinalityType DEF Inv, SlotCount
  <2> QED BY <2>1, <2>2
<1>1. /\ Handed /\ thr \in [Sessions -> ThreadType] /\ nextCall \in 1 .. MaxCalls + 1 /\ nextCall \in Nat
      /\ \A s \in Sessions : Sound(thr[s], nextCall)
  BY HandedHolds, ConstantsOK DEF FullInv
\* The parts of FullInv put together again.
<1>2. ASSUME Handed', nextCall' \in 1 .. MaxCalls + 1, thr' \in [Sessions -> ThreadType],
             \A s \in Sessions : Sound(thr[s], nextCall)'
      PROVE  FullInv'
  BY Zenon, <1>0, <1>2 DEF FullInv, TypeOK, Handed, Signals
<1>3. ASSUME Handed', UNCHANGED <<thr, nextCall>> PROVE FullInv'
  BY <1>1, <1>2, <1>3
<1>4. ASSUME NEW s \in Sessions, CreateSession(s) PROVE FullInv'
  <2>1. Handed' /\ thr' = [thr EXCEPT ![s] = NewThread] /\ nextCall' = nextCall
    BY <1>4, CreateKeeps
  <2>2. NewThread \in ThreadType /\ Sound(NewThread, nextCall)
    BY <1>1, FreshSound DEF Sound
  <2>3. thr' \in [Sessions -> ThreadType] /\ \A v \in Sessions : Sound(thr'[v], nextCall)
    BY <1>1, <2>1, <2>2
  <2> QED BY <1>1, <1>2, <2>1, <2>3
<1>5. ASSUME NEW s \in Sessions, NEW u, Local(s, u), Signals' PROVE FullInv'
  <2>1. /\ Bounded' /\ \A v \in Sessions : Sound(thr[v], nextCall)' /\ Delivered(v)'
        /\ thr' \in [Sessions -> ThreadType] /\ chan' \in [Sessions -> Seq(Commands)]
        /\ \A v \in Sessions : Len(chan'[v]) <= Capacity
        /\ UNCHANGED <<entries, mgr, router, nextCall, host>>
    BY <1>5, LocalKeeps
  <2>2. Handed'
    BY Zenon, <1>1, <1>5, <2>1 DEF Handed
  <2> QED BY <1>1, <1>2, <2>1, <2>2
<1>6. ASSUME NEW s \in Sessions, ThreadStep(s) \/ GuestLeavesWork(s) \/ GuestEnds(s) PROVE FullInv'
  <2>1. Signals'
    BY <1>6, SignalsKept DEF GuestCalls
  <2>2. \E u : Local(s, u)
    BY <1>6, CommandLocal, EndsLocal, QueueLocal DEF ThreadStep
  <2> QED BY <1>5, <2>1, <2>2
<1>7. ASSUME NEW s \in Sessions, GuestSyncCall(s) \/ GuestAsyncCall(s) PROVE FullInv'
  <2>1. Signals'
    BY <1>7, SignalsKept DEF GuestCalls
  <2>2. /\ Bounded' /\ \A v \in Sessions : Sound(thr[v], nextCall)' /\ Delivered(v)'
        /\ thr' \in [Sessions -> ThreadType] /\ UNCHANGED <<entries, mgr, chan>>
        /\ router' \in [CallIds -> Sessions \cup {None}] /\ nextCall' \in 1 .. MaxCalls + 1
        /\ host' \subseteq CallIds
    BY <1>7, CallKeeps
  <2>3. Handed'
    BY Zenon, <1>1, <2>1, <2>2 DEF Handed
  <2> QED BY <1>2, <2>2, <2>3
<1>8. ASSUME NEW s \in Sessions, TimerStep(s) PROVE FullInv'
  <2>1. Signals'
    BY <1>8, SignalsKept
  <2>2. UNCHANGED <<entries, mgr, budget, thr, chan, router, nextCall, host>>
    BY <1>8 DEF TimerStep, TimerFires, TimerSignals, mgrVars, callVars
  <2>3. Bounded' /\ \A v \in Sessions : Delivered(v)'
    BY Zenon, <1>1, <2>2 DEF Handed, Bounded, Delivered, OnWay
  <2>4. Handed'
    BY Zenon, <1>1, <2>1, <2>2, <2>3 DEF Handed
  <2> QED BY <1>3, <2>2, <2>4
<1>9. CASE UNCHANGED vars
  <2>1. UNCHANGED <<entries, mgr, budget, thr, chan, router, nextCall, host, abort, term, timer>>
    BY <1>9 DEF vars
  <2>2. Bounded' /\ Signals' /\ \A v \in Sessions : Delivered(v)'
    BY Zenon, <1>1, <2>1 DEF Handed, Bounded, Delivered, OnWay, Signals
  <2>3. Handed'
    BY Zenon, <1>1, <2>1, <2>2 DEF Handed
  <2> QED BY <1>3, <2>1, <2>3
<1>10. ASSUME \/ \E s \in Sessions : DestroySession(s)
              \/ \E s \in Sessions, msg \in Messages : SendToSession(s, msg)
              \/ \E c \in CallIds : Respond(c)
              \/ ManagerStep
       PROVE FullInv'
  <2>1. Handed' /\ UNCHANGED <<thr, nextCall>>
    BY <1>10, TakenKeeps, RespondKeeps, ManagerHands
  <2> QED BY <1>3, <2>1
<1> QED
  BY Zenon, <1>4, <1>6, <1>7, <1>8, <1>9, <1>10 DEF Next, HostStep, GuestCalls

\* What FullInv says about the properties of the module.
LEMMA FullImplies == FullInv => SlotsExact /\ ResponseNotLost /\ OkMeansSettled /\ TimerScoped
<1> SUFFICES ASSUME FullInv PROVE SlotsExact /\ ResponseNotLost /\ OkMeansSettled /\ TimerScoped
  OBVIOUS
<1>1. SlotsExact /\ TimerScoped
  BY DEF FullInv, Inv, SlotsExact
<1>2. OkMeansSettled
  BY Zenon DEF FullInv, Sound, Ending, OkMeansSettled
<1>3. ResponseNotLost
  BY Zenon DEF FullInv, Delivered, OnWay, Wanted, Active, ResponseNotLost
<1> QED BY <1>1, <1>2, <1>3

\* Whatever the guest and the host do, the slot count of the manager is the
\* number of threads that hold a slot and within max_concurrency, and the state
\* keeps its type: no channel grows past its capacity (session_thread,
\* create_session).
THEOREM SlotsAccounted == Spec => []SlotsExact
BY InitFull, NextFull, FullImplies, PTL DEF Spec

\* No timer thread outlives the execution it was started for
\* (TimeoutGuard.cancel).
THEOREM TimersScoped == Spec => []TimerScoped
BY InitFull, NextFull, FullImplies, PTL DEF Spec

\* The answer of a bridge call an execution waits for is with the host, with
\* the manager, in the session's channel or deferred, whatever the sync calls
\* and the event loop take from the channel meanwhile (recv_response,
\* run_event_loop).
THEOREM ResponsesKept == Spec => []ResponseNotLost
BY InitFull, NextFull, FullImplies, PTL DEF Spec

\* An execution is reported as a success only when no promise of its session
\* waits for an answer and the guest left no work behind (session_thread).
THEOREM SuccessMeansSettled == Spec => []OkMeansSettled
BY InitFull, NextFull, FullImplies, PTL DEF Spec
=============================================================================
