---------------------------- MODULE ProcessTable ----------------------------
(***************************************************************************)
(* The process table, its waiters and its zombie reaper:                   *)
(* crates/kernel/src/process_table.rs, driven as KernelVm drives it        *)
(* (kernel.rs), with StubDriverProcess as the driver of every process.     *)
(*                                                                         *)
(* A call does part of its work under the table's mutex and the rest after *)
(* releasing it: driver kills, which may re-enter the table, reaper        *)
(* bookkeeping, the exit callback, notify_all.  What is left to do is the  *)
(* thread's sequence todo; an item that makes further calls puts their     *)
(* items in front, as a call stack would.  Every item is one step.         *)
(*                                                                         *)
(* KernelVm methods that take &mut self run alone, those that take &self   *)
(* only exclude the former, and a driver may report an exit on any thread  *)
(* at any time.  A process has one driver, its owner: the requests that    *)
(* assert_driver_owns refuses for another driver's sake change nothing.    *)
(***************************************************************************)
EXTENDS Naturals, Sequences, FiniteSets, SequencesExt

CONSTANTS
    Pids,         \* pids, in the order allocate_pid hands them out
    Threads,      \* threads that call into the table
    Reaper,       \* the zombie reaper's thread
    Scenes,       \* which calls a behaviour makes (below)
    MaxEvents     \* bound on the wait events pending for a process

InitPid == 1
NoPid == 0

\* Signals by their number, and the ones treated specially.
SignalOrder == <<"HUP", "KILL", "TERM", "CHLD", "CONT", "STOP", "TSTP">>
Signals == {SignalOrder[i] : i \in DOMAIN SignalOrder}
Unblockable == {"KILL", "STOP", "CONT"}
StopSignals == {"STOP", "TSTP"}
\* StubDriverProcess ignores these and finishes on any other.
Ignored == {"CHLD", "CONT", "STOP", "TSTP"}

\* waitpid(pid), and waitpid_for(waiter, selector, flags).
NoWait == [op |-> "none"]
WaitPid == [op : {"pid"}, pid : Pids]
WaitFor == [op : {"for"}, waiter : Pids, selector : {"any", "pid", "group", "own"}, of : Pids,
            flags : SUBSET {"stopped", "continued"}, nohang : BOOLEAN]

\* A scene: the pids in use and the ones that become parents, whether calls
\* overlap, how processes end, the signals sent with kill, the sets of signals
\* passed to sigprocmask and the pids that call it, the pids that call setpgid
\* or setsid, and the arguments of the waitpid calls.
Scene == [pids : SUBSET Pids, parents : SUBSET Pids, overlap : BOOLEAN,
          ends : SUBSET {"driver", "exit_process", "dispose"}, signals : SUBSET Signals,
          masks : SUBSET SUBSET Signals, maskers : SUBSET Pids, movers : SUBSET Pids,
          waits : SUBSET (WaitPid \cup WaitFor)]

ASSUME ProcessTableAssumption ==
    /\ Pids \subseteq Nat \ {0} /\ IsFiniteSet(Pids) /\ InitPid \in Pids
    /\ Reaper \notin Threads
    /\ Scenes \subseteq Scene
    /\ MaxEvents \in Nat

VARIABLES
    status,       \* "unused", "allocated", "running", "stopped", "exited", or "gone"
    ppid, pgid, sid,
    events,       \* pending_wait_events: "stopped" and "continued"
    blocked, pending,
    finished,     \* processes whose driver has an exit code
    deadlines,    \* zombies scheduled with the reaper
    terminating,  \* terminating_all
    disposed,     \* the VM's terminated flag
    owned,        \* driver_pids: the pids a driver may act on
    todo,         \* what a thread still has to do outside the mutex
    mode,         \* "none", "driver", or how the call borrows the VM: "shared", "mut"
    wait,         \* the wait a thread is in
    asleep,       \* threads waiting on the condition variable
    cleaned,      \* how often the exit callback has run for a process
    scene         \* one of Scenes

groupVars == <<pgid, sid>>
entryVars == <<status, ppid, groupVars, events, blocked, pending>>
vmVars == <<terminating, disposed, owned, cleaned, scene>>
sharedVars == <<finished, deadlines, vmVars>>
threadVars == <<todo, mode, wait, asleep>>
vars == <<entryVars, sharedVars, threadVars>>

AllThreads == Threads \cup {Reaper}

Init ==
    /\ status = [p \in Pids |-> "unused"]
    /\ ppid = [p \in Pids |-> NoPid]
    /\ pgid = [p \in Pids |-> NoPid] /\ sid = [p \in Pids |-> NoPid]
    /\ events = [p \in Pids |-> <<>>]
    /\ blocked = [p \in Pids |-> {}] /\ pending = [p \in Pids |-> {}]
    /\ finished = {} /\ deadlines = {}
    /\ terminating = FALSE /\ disposed = FALSE /\ owned = {}
    /\ todo = [th \in AllThreads |-> <<>>]
    /\ mode = [th \in AllThreads |-> "none"]
    /\ wait = [th \in AllThreads |-> NoWait]
    /\ asleep = {}
    /\ cleaned = [p \in Pids |-> 0]
    /\ scene \in Scenes

---------------------------------------------------------------------------
Present(p) == p \in Pids /\ status[p] \in {"running", "stopped", "exited"}
Alive(p) == p \in Pids /\ status[p] \in {"running", "stopped"}
Lowest(S) == CHOOSE p \in S : \A q \in S : p <= q
InOrder(S) ==
    CHOOSE s \in [1 .. Cardinality(S) -> S] : \A i, j \in DOMAIN s : i < j => s[i] < s[j]
MapSeq(s, op(_)) == [i \in DOMAIN s |-> op(s[i])]
Filter(s, S) == FlattenSeq(MapSeq(s, LAMBDA x : IF x \in S THEN <<x>> ELSE <<>>))

(* Items of todo. *)
Insert(p, parent, g, s) == [do |-> "insert", pid |-> p, parent |-> parent, pgid |-> g, sid |-> s]
Own(p) == [do |-> "own", pid |-> p]
DriverKill(p, sig) == [do |-> "kill", pid |-> p, sig |-> sig]
MarkExited(p) == [do |-> "exit", pid |-> p]
MarkStatus(p, st) == [do |-> "mark", pid |-> p, status |-> st]
Schedule(p) == [do |-> "schedule", pid |-> p]
Cancel(p) == [do |-> "cancel", pid |-> p]
ExitCallback(p) == [do |-> "callback", pid |-> p]
Cleanup(p) == [do |-> "cleanup", pid |-> p]
Reap(p) == [do |-> "reap", pid |-> p]
NotifyAll == [do |-> "notify"]
EndTerminate == [do |-> "terminated"]
EndDispose == [do |-> "disposed"]

\* deliver_signals, for a sequence of <<pid, signal>>: the driver kills, then
\* the status changes, decided by the status at the time of collection.
DeliverSignals(ds) ==
    LET stops == Filter(ds, {p \in Pids : status[p] = "running"} \X StopSignals)
        conts == Filter(ds, {p \in Pids : status[p] = "stopped"} \X {"CONT"})
    IN MapSeq(ds, LAMBDA d : DriverKill(d[1], d[2]))
       \o MapSeq(stops, LAMBDA d : MarkStatus(d[1], "stopped"))
       \o MapSeq(conts, LAMBDA d : MarkStatus(d[1], "running"))

\* queue_or_schedule_signal: whether the signal is held back.
HeldBack(p, sig) == sig \in blocked[p] /\ sig \notin Unblockable

\* Both for a sequence ds of <<pid, signal>>: the ones to deliver now, and
\* the pending sets with the others added.
ToDeliver(ds) == Filter(ds, {d \in Pids \X Signals : ~HeldBack(d[1], d[2])})
WithQueued(ds) ==
    [p \in Pids |-> pending[p] \cup
        {sig \in Signals : HeldBack(p, sig) /\ \E i \in DOMAIN ds : ds[i] = <<p, sig>>}]

\* A thread continues with the given items, and has returned if there are none.
Continue(th, items) ==
    /\ todo' = [todo EXCEPT ![th] = items]
    /\ mode' = [mode EXCEPT ![th] = IF items = <<>> THEN "none" ELSE @]

\* A call by an idle thread, which borrows the VM as m and starts with items.
Begin(th, m, items) ==
    /\ mode[th] = "none"
    /\ m = "mut" => \A u \in Threads : mode[u] \notin {"shared", "mut"}
    /\ m = "shared" => \A u \in Threads : mode[u] # "mut"
    /\ todo' = [todo EXCEPT ![th] = items]
    /\ mode' = [mode EXCEPT ![th] = IF items = <<>> THEN "none" ELSE m]

---------------------------------------------------------------------------
(* Process groups, for the statuses st and the parents pp. *)

Members(st, g) == {p \in Pids : st[p] \in {"running", "stopped"} /\ pgid[p] = g}
HasParentOutsideGroup(st, pp, p) ==
    /\ pp[p] \notin {NoPid, InitPid}
    /\ st[pp[p]] \in {"running", "stopped"}
    /\ sid[pp[p]] = sid[p] /\ pgid[pp[p]] # pgid[p]
IsOrphaned(st, pp, g) ==
    Members(st, g) # {} /\ \A p \in Members(st, g) : ~HasParentOutsideGroup(st, pp, p)
HasStoppedMember(st, g) == \E p \in Members(st, g) : st[p] = "stopped"

Setpgid(th, p, g) ==
    /\ p \in owned /\ Present(p)
    /\ g # p => /\ Members(status, g) # {}
                /\ sid[Lowest(Members(status, g))] = sid[p]
    /\ pgid' = [pgid EXCEPT ![p] = g]
    /\ Begin(th, "shared", <<>>)
    /\ UNCHANGED <<status, ppid, sid, events, blocked, pending, sharedVars, wait, asleep>>

Setsid(th, p) ==
    /\ p \in owned /\ Present(p) /\ pgid[p] # p
    /\ sid' = [sid EXCEPT ![p] = p]
    /\ pgid' = [pgid EXCEPT ![p] = p]
    /\ Begin(th, "shared", <<>>)
    /\ UNCHANGED <<status, ppid, events, blocked, pending, sharedVars, wait, asleep>>

---------------------------------------------------------------------------
(* Birth and signals. *)

\* KernelVm::register_process: allocate_pid, then ProcessTable::register, which
\* reads the parent's group and session under one lock and inserts the record
\* under another, then the entry in driver_pids.  A parent that has exited, or
\* that has left the table, still becomes the ppid.
Register(th, parent) ==
    LET unused == {p \in scene.pids : status[p] = "unused"}
        p == Lowest(unused) IN
    /\ unused # {} /\ ~disposed
    /\ Begin(th, "mut", << IF Present(parent) THEN Insert(p, parent, pgid[parent], sid[parent])
                           ELSE Insert(p, parent, p, p), Own(p) >>)
    /\ status' = [status EXCEPT ![p] = "allocated"]
    /\ UNCHANGED <<ppid, groupVars, events, blocked, pending, sharedVars, wait, asleep>>

Send(th, targets, sig) ==
    LET ds == MapSeq(InOrder(targets), LAMBDA p : <<p, sig>>) IN
    /\ \A p \in targets : Len(events[p]) < MaxEvents
    /\ Begin(th, "shared", DeliverSignals(ToDeliver(ds)))
    /\ pending' = WithQueued(ds)
    /\ UNCHANGED <<status, ppid, groupVars, events, blocked, sharedVars, wait, asleep>>

\* kill of one process does nothing to a zombie; kill of a group, which the pty
\* layer asks for, includes them.
Kill(th, p, sig) == p \in owned /\ Alive(p) /\ Send(th, {p}, sig)

KillGroup(th, g, sig) ==
    /\ \E p \in Pids : Present(p) /\ pgid[p] = g
    /\ Send(th, {p \in Pids : Present(p) /\ pgid[p] = g}, sig)

NewMask(how, old, set) ==
    CASE how = "block" -> old \cup set
      [] how = "unblock" -> old \ set
      [] how = "set" -> set

\* sigprocmask delivers the pending signals the new mask lets through.
MutReleased(p, mask) == {}
Released(p, mask) == pending[p] \ mask

Sigprocmask(th, p, how, set) ==
    LET mask == NewMask(how, blocked[p], set)
        due == Filter(SignalOrder, Released(p, mask)) IN
    /\ p \in owned /\ Present(p)
    /\ Begin(th, "shared", DeliverSignals(MapSeq(due, LAMBDA sig : <<p, sig>>)))
    /\ blocked' = [blocked EXCEPT ![p] = mask]
    /\ pending' = [pending EXCEPT ![p] = @ \ Released(p, mask)]
    /\ UNCHANGED <<status, ppid, groupVars, events, sharedVars, wait, asleep>>

\* The driver reports an exit, once: KernelProcessHandle::finish or kill.
DriverFinish(th, p) ==
    /\ status[p] \notin {"unused", "allocated"} /\ p \notin finished
    /\ finished' = finished \cup {p}
    /\ Begin(th, "driver", <<MarkExited(p)>>)
    /\ UNCHANGED <<entryVars, deadlines, vmVars, wait, asleep>>

\* KernelVm::exit_process marks the process and leaves its driver alone.
ExitProcess(th, p) ==
    /\ p \in owned
    /\ Begin(th, "mut", <<MarkExited(p)>>)
    /\ UNCHANGED <<entryVars, sharedVars, wait, asleep>>

\* dispose: terminate_all, then the end of ownership.  A stub driver never survives SIGTERM, so that driver.wait
\* has an exit code for every process and nobody is left for SIGKILL.
Dispose(th) ==
    LET running == InOrder({p \in Pids : status[p] = "running"}) IN
    /\ ~disposed
    /\ Begin(th, "mut", MapSeq(running, LAMBDA p : DriverKill(p, "TERM"))
                        \o MapSeq(running, LAMBDA p : MarkExited(p))
                        \o <<EndTerminate, EndDispose>>)
    /\ terminating' = TRUE
    /\ deadlines' = {}
    /\ UNCHANGED <<entryVars, finished, disposed, owned, cleaned, scene, wait, asleep>>

---------------------------------------------------------------------------
(* The items of todo, one step each. *)

DoInsert(th, item, rest) ==
    /\ status' = [status EXCEPT ![item.pid] = "running"]
    /\ ppid' = [ppid EXCEPT ![item.pid] = item.parent]
    /\ pgid' = [pgid EXCEPT ![item.pid] = item.pgid]
    /\ sid' = [sid EXCEPT ![item.pid] = item.sid]
    /\ Continue(th, rest)
    /\ UNCHANGED <<events, blocked, pending, sharedVars, asleep>>

DoOwn(th, item, rest) ==
    /\ owned' = owned \cup {item.pid}
    /\ Continue(th, rest)
    /\ UNCHANGED <<entryVars, finished, deadlines, terminating, disposed, cleaned, scene, asleep>>

\* StubDriverProcess::kill, and finish when the signal is fatal.
DoKill(th, item, rest) ==
    LET ends == item.sig \notin Ignored /\ item.pid \notin finished IN
    /\ finished' = IF ends THEN finished \cup {item.pid} ELSE finished
    /\ Continue(th, (IF ends THEN <<MarkExited(item.pid)>> ELSE <<>>) \o rest)
    /\ UNCHANGED <<entryVars, deadlines, vmVars, asleep>>

\* SIGCHLD for a running parent.
ChildSignal(p) ==
    IF ppid[p] \in Pids /\ status[ppid[p]] = "running" THEN << <<ppid[p], "CHLD">> >> ELSE <<>>

\* The locked part of mark_exited_inner.
NewParent(p) == IF p # InitPid /\ Alive(InitPid) THEN InitPid ELSE NoPid
MutAffectedGroups(p) == {pgid[p]}
AffectedGroups(p) == {pgid[p]} \cup {pgid[q] : q \in {r \in Pids : Present(r) /\ ppid[r] = p}}

MutExits(p) == Present(p)
Exits(p) == Alive(p)

\* What mark_exited_inner does once it has released the lock.
AfterExit(p, deliveries) ==
    <<IF terminating THEN Cancel(p) ELSE Schedule(p)>> \o deliveries
    \o <<ExitCallback(p), NotifyAll>>

DoExit(th, item, rest) ==
    LET p == item.pid
        st == [status EXCEPT ![p] = "exited"]
        pp == [q \in Pids |-> IF Present(q) /\ ppid[q] = p THEN NewParent(p) ELSE ppid[q]]
        signalled == {g \in AffectedGroups(p) : IsOrphaned(st, pp, g) /\ HasStoppedMember(st, g)}
        targets == FlattenSeq(MapSeq(InOrder(signalled), LAMBDA g : InOrder(Members(st, g))))
        ds == (IF terminating THEN <<>> ELSE ChildSignal(p))
              \o FlattenSeq(MapSeq(targets, LAMBDA q : << <<q, "HUP">>, <<q, "CONT">> >>))
    IN
    /\ IF Exits(p)
       THEN /\ status' = st
            /\ ppid' = pp
            /\ pending' = WithQueued(ds)
            /\ Continue(th, AfterExit(p, DeliverSignals(ToDeliver(ds))) \o rest)
       ELSE /\ Continue(th, rest)
            /\ UNCHANGED <<status, ppid, pending>>
    /\ UNCHANGED <<groupVars, events, blocked, sharedVars, asleep>>

\* mark_wait_event_inner, and the event its callers pass with the status.
WaitEvent(st) == IF st = "stopped" THEN "stopped" ELSE "continued"
DoMark(th, item, rest) ==
    LET p == item.pid
        ds == ChildSignal(p) IN
    /\ IF Alive(p) /\ status[p] # item.status
       THEN /\ status' = [status EXCEPT ![p] = item.status]
            /\ events' = [events EXCEPT ![p] = Append(@, WaitEvent(item.status))]
            /\ pending' = WithQueued(ds)
            /\ Continue(th, DeliverSignals(ToDeliver(ds)) \o <<NotifyAll>> \o rest)
       ELSE /\ Continue(th, rest)
            /\ UNCHANGED <<status, events, pending>>
    /\ UNCHANGED <<ppid, groupVars, blocked, sharedVars, asleep>>

DoSchedule(th, item, rest) ==
    /\ deadlines' = deadlines \cup {item.pid}
    /\ Continue(th, rest)
    /\ UNCHANGED <<entryVars, finished, vmVars, asleep>>

DoCancel(th, item, rest) ==
    /\ deadlines' = deadlines \ {item.pid}
    /\ Continue(th, rest)
    /\ UNCHANGED <<entryVars, finished, vmVars, asleep>>

\* cleanup_process_resources, of which this module keeps the ownership: from
\* the exit callback, and again once waitpid has reaped the process.
DoCleanup(th, item, rest) ==
    /\ owned' = owned \ {item.pid}
    /\ cleaned' = [cleaned EXCEPT ![item.pid] = IF item.do = "callback" THEN @ + 1 ELSE @]
    /\ Continue(th, rest)
    /\ UNCHANGED <<entryVars, finished, deadlines, terminating, disposed, scene, asleep>>

MutDoNotify(th, rest) ==
    /\ Continue(th, rest)
    /\ UNCHANGED <<entryVars, sharedVars, asleep>>
DoNotify(th, rest) ==
    /\ asleep' = {}
    /\ Continue(th, rest)
    /\ UNCHANGED <<entryVars, sharedVars>>

DoTerminated(th, rest) ==
    /\ terminating' = FALSE
    /\ Continue(th, rest)
    /\ UNCHANGED <<entryVars, finished, deadlines, disposed, owned, cleaned, scene, asleep>>

DoDisposed(th, rest) ==
    /\ owned' = {} /\ disposed' = TRUE
    /\ Continue(th, rest)
    /\ UNCHANGED <<entryVars, finished, deadlines, terminating, cleaned, scene, asleep>>

\* The reaper with a pid that was due: a zombie whose parent may still ask for
\* it is scheduled again.
MutRescheduled(p) == FALSE
Rescheduled(p) == status[p] = "exited"
DoReap(th, item, rest) ==
    LET p == item.pid IN
    /\ IF status[p] = "exited" /\ ~Alive(ppid[p])
       THEN status' = [status EXCEPT ![p] = "gone"] /\ UNCHANGED deadlines
       ELSE /\ deadlines' = IF Rescheduled(p) THEN deadlines \cup {p} ELSE deadlines
            /\ UNCHANGED status
    /\ Continue(th, <<NotifyAll>> \o rest)
    /\ UNCHANGED <<ppid, groupVars, events, blocked, pending, finished, vmVars, asleep>>

Work(th) ==
    /\ todo[th] # <<>>
    /\ LET item == Head(todo[th])
           rest == Tail(todo[th]) IN
       \/ item.do = "insert" /\ DoInsert(th, item, rest)
       \/ item.do = "own" /\ DoOwn(th, item, rest)
       \/ item.do = "kill" /\ DoKill(th, item, rest)
       \/ item.do = "exit" /\ DoExit(th, item, rest)
       \/ item.do = "mark" /\ DoMark(th, item, rest)
       \/ item.do = "schedule" /\ DoSchedule(th, item, rest)
       \/ item.do = "cancel" /\ DoCancel(th, item, rest)
       \/ item.do \in {"callback", "cleanup"} /\ DoCleanup(th, item, rest)
       \/ item.do = "notify" /\ DoNotify(th, rest)
       \/ item.do = "terminated" /\ DoTerminated(th, rest)
       \/ item.do = "disposed" /\ DoDisposed(th, rest)
       \/ item.do = "reap" /\ DoReap(th, item, rest)
    /\ UNCHANGED wait

\* take_next_due_pid: the deadline of a scheduled zombie passes.
ReaperTake(p) ==
    /\ todo[Reaper] = <<>> /\ p \in deadlines
    /\ deadlines' = deadlines \ {p}
    /\ todo' = [todo EXCEPT ![Reaper] = <<Reap(p)>>]
    /\ mode' = [mode EXCEPT ![Reaper] = "driver"]
    /\ UNCHANGED <<entryVars, finished, vmVars, wait, asleep>>

---------------------------------------------------------------------------
(* waitpid and waitpid_for. *)

Children(r) ==
    {p \in Pids : /\ Present(p) /\ ppid[p] = r.waiter
                  /\ CASE r.selector = "any" -> TRUE
                       [] r.selector = "pid" -> p = r.of
                       [] r.selector = "group" -> pgid[p] = r.of
                       [] r.selector = "own" -> pgid[p] = pgid[r.waiter]}
Takes(r, p) == {i \in DOMAIN events[p] : events[p][i] \in r.flags}
\* What a round of the loop finds: an error, nothing yet, or something.
Fails(r) == IF r.op = "pid" THEN ~Present(r.pid) ELSE ~Present(r.waiter) \/ Children(r) = {}
Ready(r) ==
    IF r.op = "pid" THEN {r.pid} \cap {p \in Pids : status[p] = "exited"}
    ELSE {p \in Children(r) : Takes(r, p) # {} \/ status[p] = "exited"}

WaitReturns(th, items) ==
    /\ wait' = [wait EXCEPT ![th] = NoWait]
    /\ UNCHANGED asleep
    /\ todo' = [todo EXCEPT ![th] = items]
    /\ mode' = [mode EXCEPT ![th] = IF items = <<>> THEN "none" ELSE "mut"]

\* One round: the first child with an event, oldest event first, an exit last.
WaitLoop(th, r) ==
    /\ \/ /\ Fails(r)
          /\ WaitReturns(th, <<>>)
          /\ UNCHANGED entryVars
       \/ /\ ~Fails(r) /\ Ready(r) # {}
          /\ LET p == Lowest(Ready(r))
                 taken == IF r.op = "pid" THEN {} ELSE Takes(r, p) IN
             IF taken # {}
             THEN /\ events' = [events EXCEPT ![p] =
                        RemoveAt(@, Lowest(taken))]
                  /\ WaitReturns(th, <<>>)
                  /\ UNCHANGED status
             ELSE /\ status' = [status EXCEPT ![p] = "gone"]
                  /\ WaitReturns(th, <<Cancel(p), NotifyAll, Cleanup(p)>>)
                  /\ UNCHANGED events
          /\ UNCHANGED <<ppid, groupVars, blocked, pending>>
       \/ /\ ~Fails(r) /\ Ready(r) = {}
          /\ IF r.op = "for" /\ r.nohang
             THEN WaitReturns(th, <<>>)
             ELSE /\ wait' = [wait EXCEPT ![th] = r]
                  /\ asleep' = asleep \cup {th}
                  /\ mode' = [mode EXCEPT ![th] = "mut"]
                  /\ UNCHANGED todo
          /\ UNCHANGED entryVars
    /\ UNCHANGED sharedVars

Wait(th, r) ==
    /\ r.op = "for" => r.waiter \in owned
    /\ mode[th] = "none"
    /\ \A u \in Threads : mode[u] \notin {"shared", "mut"}
    /\ WaitLoop(th, r)

WaitWake(th) ==
    /\ wait[th] # NoWait /\ th \notin asleep
    /\ WaitLoop(th, wait[th])

\* std::sync::Condvar may wake a thread nobody notified.
SpuriousWake(th) ==
    /\ th \in asleep
    /\ asleep' = asleep \ {th}
    /\ UNCHANGED <<entryVars, sharedVars, todo, mode, wait>>

---------------------------------------------------------------------------
Call(th) ==
    \/ \E p \in {q \in scene.parents : status[q] \notin {"unused", "allocated"}} \cup {NoPid} :
          Register(th, p)
    \/ \E p \in Pids, sig \in scene.signals : Kill(th, p, sig) \/ KillGroup(th, p, sig)
    \/ \E p \in scene.maskers, set \in scene.masks, how \in {"block", "unblock", "set"} :
          Sigprocmask(th, p, how, set)
    \/ \E p \in scene.movers, g \in Pids : Setpgid(th, p, g)
    \/ \E p \in scene.movers : Setsid(th, p)
    \/ \E p \in Pids : "driver" \in scene.ends /\ DriverFinish(th, p)
    \/ \E p \in Pids : "exit_process" \in scene.ends /\ ExitProcess(th, p)
    \/ "dispose" \in scene.ends /\ Dispose(th)
    \/ \E r \in scene.waits : Wait(th, r)

MayCall == scene.overlap \/ \A u \in Threads : mode[u] = "none"

Next ==
    \/ \E th \in Threads : MayCall /\ Call(th)
    \/ \E th \in Threads : WaitWake(th) \/ SpuriousWake(th)
    \/ \E th \in AllThreads : Work(th)
    \/ \E p \in Pids : ReaperTake(p)

\* Threads that are not blocked are scheduled, and deadlines pass.
Fairness ==
    /\ \A th \in AllThreads : WF_vars(Work(th))
    /\ \A th \in Threads : WF_vars(WaitWake(th))
    /\ \A p \in Pids : SF_vars(ReaperTake(p))

Spec == Init /\ [][Next]_vars
FairSpec == Spec /\ Fairness
---------------------------------------------------------------------------
(* Properties. *)

Items == {"insert", "own", "kill", "exit", "mark", "schedule", "cancel", "callback", "cleanup",
          "reap", "notify", "terminated", "disposed"}
InTodo(item) == \E th \in AllThreads : \E i \in DOMAIN todo[th] : todo[th][i] = item

\* Every part of the table has its type: the fields of ProcessRecord, the
\* reaper's deadlines and what each thread is doing.
TypeOK ==
    /\ status \in [Pids -> {"unused", "allocated", "running", "stopped", "exited", "gone"}]
    /\ ppid \in [Pids -> Pids \cup {NoPid}]
    /\ pgid \in [Pids -> Pids \cup {NoPid}] /\ sid \in [Pids -> Pids \cup {NoPid}]
    /\ events \in [Pids -> Seq({"stopped", "continued"})]
    /\ blocked \in [Pids -> SUBSET Signals] /\ pending \in [Pids -> SUBSET Signals]
    /\ finished \subseteq Pids /\ deadlines \subseteq Pids /\ owned \subseteq Pids
    /\ terminating \in BOOLEAN /\ disposed \in BOOLEAN
    /\ DOMAIN todo = AllThreads
    /\ \A th \in AllThreads : \A i \in DOMAIN todo[th] : todo[th][i].do \in Items
    /\ mode \in [AllThreads -> {"none", "driver", "shared", "mut"}]
    /\ DOMAIN wait = AllThreads
    /\ \A th \in AllThreads : wait[th] \in scene.waits \cup {NoWait}
    /\ asleep \subseteq {th \in Threads : wait[th] # NoWait}
    /\ cleaned \in [Pids -> Nat]
    /\ scene \in Scenes

\* A signal is pending only while its process blocks it: sigprocmask and
\* queue_or_schedule_signal together never strand a signal that nothing will
\* deliver, and SIGKILL, SIGSTOP and SIGCONT are never pending; and the state
\* is well typed.
PendingAreBlocked ==
    /\ TypeOK
    /\ \A p \in Pids : pending[p] \subseteq blocked[p] \ Unblockable

\* A thread sleeps in waitpid only while its wait can neither return nor fail,
\* or while some thread still has notify_all ahead of it.  (setpgid, which can
\* take the last matching child out of a waited-for group without notifying,
\* needs &self and cannot run while a wait holds &mut self.)
NoLostWakeup ==
    \A th \in asleep : Fails(wait[th]) \/ Ready(wait[th]) # {} => InTodo(NotifyAll)

\* Every zombie will be looked at by the reaper: it has a deadline, or is in the
\* reaper's hand, or the thread that marked it has yet to schedule it.  Only
\* terminate_all, which clears the deadlines, ends this.
ZombiesScheduled ==
    ~terminating /\ ~disposed /\ ~InTodo(EndDispose) =>
        \A p \in Pids : status[p] = "exited" =>
            p \in deadlines \/ InTodo(Schedule(p)) \/ InTodo(Reap(p))

\* However many threads report the exit of a process (its driver, exit_process,
\* a fatal signal, terminate_all), the exit callback is run at most once.
CallbackOnce == \A p \in Pids : cleaned[p] + (IF InTodo(ExitCallback(p)) THEN 1 ELSE 0) <= 1

\* When an exit orphans a process group that has a stopped member, every
\* living member is about to be sent SIGHUP, or has it pending; the group may
\* be the exiting process's own or one of its children's.
OrphanedBy(p, g) ==
    /\ status[p] # "exited" /\ status'[p] = "exited"
    /\ ~IsOrphaned(status, ppid, g)
    /\ IsOrphaned(status', ppid', g) /\ HasStoppedMember(status', g)
OrphansAreSignalled ==
    [][\A p, g \in Pids : OrphanedBy(p, g) =>
          \A q \in Members(status', g) : "HUP" \in pending'[q] \/ InTodo(DriverKill(q, "HUP"))']_vars

\* A wait whose process has exited, or that can no longer match a child, returns.
WaiterReturns ==
    \A th \in Threads :
        wait[th] # NoWait /\ (Fails(wait[th]) \/ Ready(wait[th]) # {}) ~> wait[th] = NoWait

\* A zombie that no living parent can wait for leaves the table, unless the VM
\* is being disposed of.
OrphansReaped ==
    \A p \in Pids :
        status[p] = "exited" /\ ~Alive(ppid[p]) ~> status[p] = "gone" \/ terminating \/ disposed
=============================================================================
