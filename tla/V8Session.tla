----------------------------- MODULE V8Session -----------------------------
(***************************************************************************)
(* The session layer of the V8 runtime (crates/v8-runtime/src): the        *)
(* session manager of session.rs, one thread per session with its bounded  *)
(* command channel, the concurrency slots, the bridge calls of host_call.rs*)
(* with the call_id router of embedded_runtime.rs, the abort channel of an *)
(* execution and the CPU timer of timeout.rs.                              *)
(*                                                                         *)
(* A dispatched command holds the mutex of the manager until it returns,   *)
(* also while it waits for room in a channel and while it joins a thread:  *)
(* mgr is the command that holds it.  The guest is nondeterministic: it    *)
(* may call the host, leave work behind, return, throw or run on.  Three   *)
(* steps of an execution run guest code: the script, a callback that a     *)
(* stream event starts and the continuation of a resolved promise.         *)
(***************************************************************************)
EXTENDS Naturals, Sequences, FiniteSets

CONSTANTS
    Sessions,        \* session ids
    Limited,         \* the sessions created with a cpu_time_limit_ms
    MaxConcurrency,  \* concurrency slots of the manager
    Codes,           \* bridge codes an Execute carries ("" stands for the last one)
    Capacity,        \* bound of a session's channel (256 in the code)
    MaxCalls,        \* bound: bridge calls of a behaviour
    Budgets          \* bounds: the budgets a behaviour may start with

\* SessionCommand and SessionMessage.
Exec(code) == [k |-> "exec", code |-> code]
Globals == [k |-> "globals"]
Stream == [k |-> "stream"]
Term == [k |-> "term"]
Resp(c) == [k |-> "resp", call |-> c]
Shutdown == [k |-> "shutdown"]

CallIds == 1 .. MaxCalls
Messages == {Exec(code) : code \in Codes} \cup {Globals, Stream, Term}
Commands == Messages \cup {Shutdown} \cup {Resp(c) : c \in CallIds}

ASSUME ConstantsOK ==
    /\ Limited \subseteq Sessions
    /\ MaxConcurrency \in Nat \ {0} /\ Capacity \in Nat \ {0}
    /\ MaxCalls \in Nat
    /\ Budgets \subseteq [sends : Nat, creates : Nat, calls : 0 .. MaxCalls, msgs : SUBSET Messages]

VARIABLES
    entries,   \* SessionManager.sessions: the ids with an entry (and an open tx)
    slots,     \* SlotControl: the count of slots taken
    mgr,       \* the command that holds the manager's mutex
    thr,       \* thr[s]: the session thread, its locals and its isolate
    chan,      \* chan[s]: the command channel
    abort,     \* abort[s]: SharedExecutionAbort
    term,      \* term[s]: V8 was asked to terminate and no guest code died of it yet
    timer,     \* timer[s]: the thread of the TimeoutGuard
    router,    \* CallIdRouter
    nextCall,  \* SharedCallIdCounter
    host,      \* bridge calls the host has received and not answered
    budget     \* what may still be sent, created and called, and the messages sent

vars == <<entries, slots, mgr, thr, chan, abort, term, timer, router, nextCall, host, budget>>

None == "none"
Free == [op |-> "free"]

\* Where a session thread is.  Between "start" and "report" it is in an execution.
Executing == {"start", "arm", "run", "sync", "top", "drain", "tick", "recv", "after",
              "judge", "cancel", "report"}
Holding == Executing \cup {"idle", "release"}
Guest == {"script", "stream", "resolve", "handles"}

\* A fresh thread: nothing received, no isolate, no promise.
NewThread ==
    [pc |-> "slot", early |-> <<>>, iso |-> None, last |-> "", defq |-> <<>>,
     batch |-> 0, pend |-> {}, own |-> {}, call |-> 0, in |-> "script", back |-> "top",
     work |-> FALSE, pass |-> 1, out |-> "ok"]

NoThread == [NewThread EXCEPT !.pc = None]

Init ==
    /\ entries = {}
    /\ slots = 0
    /\ mgr = Free
    /\ thr = [s \in Sessions |-> NoThread]
    /\ chan = [s \in Sessions |-> <<>>]
    /\ abort = [s \in Sessions |-> None]
    /\ term = [s \in Sessions |-> FALSE]
    /\ timer = [s \in Sessions |-> "off"]
    /\ router = [c \in CallIds |-> None]
    /\ nextCall = 1
    /\ host = {}
    /\ budget \in Budgets

-----------------------------------------------------------------------------
(***************************************************************************)
(* Commands of the host.                                                   *)
(***************************************************************************)

threadVars == <<slots, thr, timer, router, nextCall>>

\* create_session: a taken id is refused, which leaves nothing behind.
CreateSession(s) ==
    /\ mgr = Free
    /\ budget.creates > 0
    /\ s \notin entries
    /\ entries' = entries \cup {s}
    /\ thr' = [thr EXCEPT ![s] = NewThread]
    /\ chan' = [chan EXCEPT ![s] = <<>>]
    /\ abort' = [abort EXCEPT ![s] = None]
    /\ term' = [term EXCEPT ![s] = FALSE]
    /\ budget' = [budget EXCEPT !.creates = @ - 1]
    /\ UNCHANGED <<slots, mgr, timer, router, nextCall, host>>

\* destroy_session starts: the isolate is told to terminate if its handle is
\* published; a second step signals the abort channel.
DestroySession(s) ==
    /\ mgr = Free
    /\ s \in entries
    /\ mgr' = [op |-> "signal", s |-> s, msg |-> Shutdown]
    /\ term' = [term EXCEPT ![s] = @ \/ thr[s].iso # None]
    /\ UNCHANGED <<entries, chan, abort, host, budget, threadVars>>

\* send_to_session: TerminateExecution is also signalled out of band; every
\* message then goes through the channel.
SendToSession(s, msg) ==
    /\ mgr = Free
    /\ budget.sends > 0 /\ msg \in budget.msgs
    /\ s \in entries
    /\ mgr' = [op |-> IF msg = Term THEN "signal" ELSE "send", s |-> s, msg |-> msg]
    /\ term' = [term EXCEPT ![s] = @ \/ (msg = Term /\ thr[s].iso # None)]
    /\ budget' = [budget EXCEPT !.sends = @ - 1]
    /\ UNCHANGED <<entries, chan, abort, host, threadVars>>

\* A BridgeResponse takes the router's entry and goes to the session named
\* there, whatever session the host named; the session may be gone.
Respond(c) ==
    /\ mgr = Free
    /\ c \in host
    /\ host' = host \ {c}
    /\ router' = [router EXCEPT ![c] = None]
    /\ mgr' = IF router[c] \in entries
              THEN [op |-> "send", s |-> router[c], msg |-> Resp(c)] ELSE Free
    /\ UNCHANGED <<entries, slots, thr, chan, abort, term, timer, nextCall, budget>>

\* signal_execution_abort: no execution, no effect; the first reason stays.
Signal(a, reason) == IF a = "armed" THEN reason ELSE a

SignalAbort ==
    /\ mgr.op = "signal"
    /\ abort' = [abort EXCEPT ![mgr.s] = Signal(@, "terminated")]
    /\ mgr' = [mgr EXCEPT !.op = "send"]
    /\ UNCHANGED <<entries, chan, term, host, budget, threadVars>>

Room(s) == Len(chan[s]) < Capacity

\* tx.send blocks while the channel is full.  A session that is destroyed then
\* loses its entry and its sender, and the manager waits for its thread.
Send ==
    /\ mgr.op = "send"
    /\ Room(mgr.s)
    /\ chan' = [chan EXCEPT ![mgr.s] = Append(@, mgr.msg)]
    /\ mgr' = IF mgr.msg = Shutdown THEN [op |-> "join", s |-> mgr.s] ELSE Free
    /\ entries' = IF mgr.msg = Shutdown THEN entries \ {mgr.s} ELSE entries
    /\ UNCHANGED <<abort, term, host, budget, threadVars>>

Join ==
    /\ mgr.op = "join"
    /\ thr[mgr.s].pc = None
    /\ mgr' = Free
    /\ chan' = [chan EXCEPT ![mgr.s] = <<>>]
    /\ UNCHANGED <<entries, abort, term, host, budget, threadVars>>

-----------------------------------------------------------------------------
(***************************************************************************)
(* The session thread: its slot and its command loop.                      *)
(***************************************************************************)

mgrVars == <<entries, mgr, budget>>
callVars == <<router, nextCall, host>>

Received(s) == chan[s] # <<>>
Disconnected(s) == s \notin entries /\ chan[s] = <<>>
Rest(s) == chan' = [chan EXCEPT ![s] = Tail(@)]

AcquireSlot(s) ==
    /\ thr[s].pc = "slot"
    /\ slots < MaxConcurrency
    /\ slots' = slots + 1
    /\ thr' = [thr EXCEPT ![s].pc = "idle"]
    /\ UNCHANGED <<mgrVars, chan, abort, term, timer, callVars>>

\* Without a slot the thread sleeps at most 50 ms, then looks into its channel
\* before it looks at the slots again: it keeps a command for later and leaves
\* when the session is shut down.
SlotsTaken(s) ==
    /\ thr[s].pc = "slot"
    /\ slots >= MaxConcurrency
    /\ thr' = [thr EXCEPT ![s].pc = "queued"]
    /\ UNCHANGED <<mgrVars, slots, chan, abort, term, timer, callVars>>

PollForSlot(s) ==
    /\ thr[s].pc = "queued"
    /\ \/ /\ Received(s) /\ Head(chan[s]) # Shutdown
          /\ thr' = [thr EXCEPT ![s].early = Append(@, Head(chan[s])), ![s].pc = "slot"]
          /\ Rest(s)
       \/ /\ ~ Received(s) /\ ~ Disconnected(s)
          /\ thr' = [thr EXCEPT ![s].pc = "slot"]
          /\ UNCHANGED chan
       \/ /\ Received(s) /\ Head(chan[s]) = Shutdown
          /\ thr' = [thr EXCEPT ![s] = NoThread]
          /\ Rest(s)
       \/ /\ Disconnected(s)
          /\ thr' = [thr EXCEPT ![s] = NoThread]
          /\ UNCHANGED chan
    /\ UNCHANGED <<mgrVars, slots, abort, term, timer, callVars>>

\* What the command loop does with a command.  Execute remembers the bridge
\* code; a response, stream event or terminate request is late and only logged.
Obey(t, cmd) ==
    CASE cmd.k = "exec" ->
            [t EXCEPT !.pc = "start", !.last = IF cmd.code = "" THEN @ ELSE cmd.code]
      [] cmd.k = "shutdown" -> [t EXCEPT !.pc = "release"]
      [] OTHER -> t

NextCommand(s) ==
    /\ thr[s].pc = "idle"
    /\ \/ /\ thr[s].early # <<>>
          /\ thr' = [thr EXCEPT ![s] = Obey([thr[s] EXCEPT !.early = Tail(thr[s].early)],
                                         Head(thr[s].early))]
          /\ UNCHANGED chan
       \/ /\ thr[s].early = <<>> /\ Received(s)
          /\ thr' = [thr EXCEPT ![s] = Obey(@, Head(chan[s]))]
          /\ Rest(s)
       \/ /\ thr[s].early = <<>> /\ Disconnected(s)
          /\ thr' = [thr EXCEPT ![s].pc = "release"]
          /\ UNCHANGED chan
    /\ UNCHANGED <<mgrVars, slots, abort, term, timer, callVars>>

\* A variant that ends without giving the slot back.
MutRelease(s) ==
    /\ thr[s].pc = "release"
    /\ thr' = [thr EXCEPT ![s] = NoThread]
    /\ term' = [term EXCEPT ![s] = FALSE]
    /\ UNCHANGED <<mgrVars, slots, chan, abort, timer, callVars>>

\* The isolate goes, then the slot; the thread ends.
Release(s) ==
    /\ thr[s].pc = "release"
    /\ thr' = [thr EXCEPT ![s] = NoThread]
    /\ slots' = slots - 1
    /\ term' = [term EXCEPT ![s] = FALSE]
    /\ UNCHANGED <<mgrVars, chan, abort, timer, callVars>>

-----------------------------------------------------------------------------
(***************************************************************************)
(* An execution.                                                           *)
(***************************************************************************)

\* The isolate of another bridge code is dropped, a missing one is created and
\* its handle published (a request to terminate it died with the old one).
CreateIsolate(s) ==
    /\ thr[s].pc = "start"
    /\ IF thr[s].iso \notin {None, thr[s].last}
       THEN /\ thr' = [thr EXCEPT ![s].iso = None]
            /\ term' = [term EXCEPT ![s] = FALSE]
       ELSE /\ thr' = [thr EXCEPT ![s].iso = thr[s].last, ![s].pc = "arm"]
            /\ UNCHANGED term
    /\ UNCHANGED <<mgrVars, slots, chan, abort, timer, callVars>>

\* The abort channel and the deferred queue are made, the init script runs (it
\* may fail, which ends the execution), the timer starts and the script runs.
Arm(s) ==
    /\ thr[s].pc = "arm"
    /\ abort' = [abort EXCEPT ![s] = "armed"]
    /\ \E ok \in BOOLEAN :
          /\ thr' = [thr EXCEPT ![s].out = IF ok THEN "ok" ELSE "error",
                                ![s].pc = IF ok THEN "run" ELSE "report"]
          /\ timer' = [timer EXCEPT ![s] = IF ok /\ s \in Limited THEN "running" ELSE "off"]
          /\ term' = [term EXCEPT ![s] = @ /\ ok]
    /\ UNCHANGED <<mgrVars, slots, chan, callVars>>

\* Timer thread: the limit elapses, V8 is told to terminate; then the abort
\* channel is closed.
TimerFires(s) ==
    /\ timer[s] = "running"
    /\ timer' = [timer EXCEPT ![s] = "fired"]
    /\ term' = [term EXCEPT ![s] = TRUE]
    /\ UNCHANGED <<mgrVars, slots, thr, chan, abort, callVars>>

TimerSignals(s) ==
    /\ timer[s] = "fired"
    /\ timer' = [timer EXCEPT ![s] = "done"]
    /\ abort' = [abort EXCEPT ![s] = Signal(@, "timedout")]
    /\ UNCHANGED <<mgrVars, slots, thr, chan, term, callVars>>

-----------------------------------------------------------------------------
(***************************************************************************)
(* Guest code.                                                             *)
(***************************************************************************)

\* A call takes an id and a router entry before the host hears of it.
NewCall(s) ==
    /\ budget.calls > 0
    /\ budget' = [budget EXCEPT !.calls = @ - 1]
    /\ nextCall' = nextCall + 1
    /\ router' = [router EXCEPT ![nextCall] = s]
    /\ host' = host \cup {nextCall}

GuestSyncCall(s) ==
    /\ thr[s].pc = "run"
    /\ NewCall(s)
    /\ thr' = [thr EXCEPT ![s].pc = "sync", ![s].call = nextCall, ![s].own = @ \cup {nextCall}]
    /\ UNCHANGED <<entries, mgr, slots, chan, abort, term, timer>>

GuestAsyncCall(s) ==
    /\ thr[s].pc = "run"
    /\ NewCall(s)
    /\ thr' = [thr EXCEPT ![s].pend = @ \cup {nextCall}, ![s].own = @ \cup {nextCall}]
    /\ UNCHANGED <<entries, mgr, slots, chan, abort, term, timer>>

\* A timer, a stdin listener, a child process: work that keeps the event loop
\* turning until a callback finishes it.
GuestLeavesWork(s) ==
    /\ thr[s].pc = "run"
    /\ ~ thr[s].work
    /\ thr' = [thr EXCEPT ![s].work = TRUE]
    /\ UNCHANGED <<mgrVars, slots, chan, abort, term, timer, callVars>>

\* A variant that forgets timers and handles.
MutWaits(t) == t.pend # {}

\* The condition under which the event loop runs (on).
Waits(t) == t.pend # {} \/ t.work

\* The loop is entered after the script, or after the wait for handles, when a
\* promise or a deferred message waits; work alone counts if nothing failed.
Enters(t) == t.defq # <<>> \/ (Waits(t) /\ (t.pend # {} \/ t.out = "ok"))

\* Where the thread goes when guest code returns.
Returned(t) ==
    LET u == [t EXCEPT !.in = "script", !.back = "top"]
    IN  CASE t.in \in {"script", "handles"} ->
                [u EXCEPT !.pc = IF Enters(t) THEN "top" ELSE "after"]
          [] OTHER -> [u EXCEPT !.pc = t.back]

GuestReturns(s) ==
    /\ thr[s].pc = "run"
    /\ \E done \in IF thr[s].in \in {"stream", "resolve"} THEN BOOLEAN ELSE {FALSE} :
          thr' = [thr EXCEPT ![s] = Returned([thr[s] EXCEPT !.work = thr[s].work /\ ~ done])]
    /\ UNCHANGED <<mgrVars, slots, chan, abort, term, timer, callVars>>

\* An exception fails the script, and the event loop when a stream callback
\* raised it; in the continuation of a promise it matters only when it rejects
\* the script's or module's own promise.  A script that failed still goes
\* through the event loop when something is pending.
Threw(t) ==
    CASE t.in = "script" -> {Returned([t EXCEPT !.out = "error"])}
      [] t.in = "stream" -> {[Returned(t) EXCEPT !.out = "error", !.pc = "after"]}
      [] t.in = "resolve" -> {Returned(t), Returned([t EXCEPT !.out = "error", !.work = FALSE])}
      [] OTHER -> {Returned(t)}

GuestThrows(s) ==
    /\ thr[s].pc = "run"
    /\ \E t \in Threw(thr[s]) : thr' = [thr EXCEPT ![s] = t]
    /\ UNCHANGED <<mgrVars, slots, chan, abort, term, timer, callVars>>

\* V8 ends guest code it was asked to terminate; the request is used up.
GuestTerminated(s) ==
    /\ thr[s].pc = "run"
    /\ term[s]
    /\ term' = [term EXCEPT ![s] = FALSE]
    /\ \E t \in Threw(thr[s]) : thr' = [thr EXCEPT ![s] = t]
    /\ UNCHANGED <<mgrVars, slots, chan, abort, timer, callVars>>

-----------------------------------------------------------------------------
(***************************************************************************)
(* recv_response: a sync call waits on the channel and on the abort        *)
(* channel.  What is not its own response is deferred to the event loop;   *)
(* a Shutdown is used up and only fails the call.                          *)
(***************************************************************************)

\* A variant that forgets what a sync call takes from the channel.
MutDefer(q, cmd) == IF cmd.k = "resp" THEN q ELSE Append(q, cmd)

Defer(q, cmd) == Append(q, cmd)

SyncReceives(s) ==
    /\ thr[s].pc = "sync"
    /\ Received(s)
    /\ LET cmd == Head(chan[s])
       IN  thr' = [thr EXCEPT ![s] =
                     IF cmd \in {Resp(@.call), Shutdown} THEN [@ EXCEPT !.pc = "run", !.call = 0]
                     ELSE [@ EXCEPT !.defq = Defer(thr[s].defq, cmd)]]
    /\ Rest(s)
    /\ UNCHANGED <<mgrVars, slots, abort, term, timer, callVars>>

\* Variants that hear only one of the two reasons.
MutAbortedByTimer(s) == abort[s] = "timedout"
MutAbortedByHost(s) == abort[s] = "terminated"

\* The sender of the abort channel is gone.
Aborted(s) == abort[s] # "armed"

\* The abort channel, or the end of the command channel, fails the call.
SyncAborted(s) ==
    /\ thr[s].pc = "sync"
    /\ Aborted(s) \/ Disconnected(s)
    /\ thr' = [thr EXCEPT ![s].pc = "run", ![s].call = 0]
    /\ UNCHANGED <<mgrVars, slots, chan, abort, term, timer, callVars>>

-----------------------------------------------------------------------------
(***************************************************************************)
(* run_event_loop.                                                         *)
(***************************************************************************)

\* Head of the loop: leave it, drain the deferred queue or receive.
LoopTop(s) ==
    /\ thr[s].pc = "top"
    /\ thr' = [thr EXCEPT ![s].pc = IF thr[s].defq # <<>> THEN "drain"
                                    ELSE IF Waits(thr[s]) THEN "recv" ELSE "after",
                          ![s].batch = Len(thr[s].defq)]
    /\ UNCHANGED <<mgrVars, slots, chan, abort, term, timer, callVars>>

\* dispatch_event_loop_frame: a response resolves its promise, a stream event
\* calls into the guest, a terminate request ends the loop, the rest is dropped.
Dispatched(t, cmd, back) ==
    CASE cmd.k = "resp" /\ cmd.call \in t.pend ->
            [t EXCEPT !.pend = @ \ {cmd.call}, !.pc = "run", !.in = "resolve", !.back = back]
      [] cmd.k = "stream" -> [t EXCEPT !.pc = "run", !.in = "stream", !.back = back]
      [] cmd.k = "term" -> [t EXCEPT !.pc = "after", !.out = "terminated"]
      [] OTHER -> [t EXCEPT !.pc = back]

\* One frame of a batch taken from the deferred queue.
DrainFrame(s) ==
    /\ thr[s].pc \in {"drain", "tick"}
    /\ thr[s].batch > 0
    /\ LET cmd == Head(thr[s].defq)
       IN  /\ thr' = [thr EXCEPT ![s] =
                        Dispatched([thr[s] EXCEPT !.defq = Tail(thr[s].defq),
                                                  !.batch = thr[s].batch - 1],
                                   cmd, thr[s].pc)]
           /\ term' = [term EXCEPT ![s] = @ \/ cmd = Term]
    /\ UNCHANGED <<mgrVars, slots, chan, abort, timer, callVars>>

\* After the batch the loop ends when nothing is awaited; at its head it does
\* not look again at what was deferred meanwhile, between two polls it does.
DrainEnds(s) ==
    /\ thr[s].pc \in {"drain", "tick"}
    /\ thr[s].batch = 0
    /\ thr' = [thr EXCEPT ![s].pc =
                 IF Waits(thr[s]) \/ (thr[s].pc = "tick" /\ thr[s].defq # <<>>)
                 THEN "recv" ELSE "after"]
    /\ UNCHANGED <<mgrVars, slots, chan, abort, term, timer, callVars>>

LoopReceives(s) ==
    /\ thr[s].pc = "recv"
    /\ Received(s)
    /\ LET cmd == Head(chan[s])
       IN  /\ thr' = [thr EXCEPT ![s] =
                        IF cmd = Shutdown THEN [@ EXCEPT !.pc = "after", !.out = "terminated"]
                        ELSE Dispatched(@, cmd, "top")]
           /\ term' = [term EXCEPT ![s] = @ \/ cmd = Term]
    /\ Rest(s)
    /\ UNCHANGED <<mgrVars, slots, abort, timer, callVars>>

LoopAborted(s) ==
    /\ thr[s].pc = "recv"
    /\ Aborted(s)
    /\ thr' = [thr EXCEPT ![s].pc = "after", ![s].out = "terminated"]
    /\ term' = [term EXCEPT ![s] = TRUE]
    /\ UNCHANGED <<mgrVars, slots, chan, abort, timer, callVars>>

\* Nothing arrives within 1 ms (a closed channel counts as nothing): what was
\* deferred meanwhile is drained.
LoopTick(s) ==
    /\ thr[s].pc = "recv"
    /\ ~ Received(s)
    /\ thr[s].defq # <<>>
    /\ thr' = [thr EXCEPT ![s].pc = "tick", ![s].batch = Len(thr[s].defq)]
    /\ UNCHANGED <<mgrVars, slots, chan, abort, term, timer, callVars>>

\* After the loop: a clean execution asks the guest for its active handles and
\* may go through the loop once more.
LoopLeft(s) ==
    /\ thr[s].pc = "after"
    /\ thr' = [thr EXCEPT ![s] =
                 IF @.pass = 1 /\ @.out = "ok"
                 THEN [@ EXCEPT !.pass = 2, !.pc = "run", !.in = "handles"]
                 ELSE [@ EXCEPT !.pc = "judge", !.batch = 0]]
    /\ UNCHANGED <<mgrVars, slots, chan, abort, term, timer, callVars>>

-----------------------------------------------------------------------------
\* The reason of an abort is read, and whether the timer fired.
Judge(s) ==
    /\ thr[s].pc = "judge"
    /\ thr' = [thr EXCEPT ![s].pc = "cancel",
                 ![s].out = IF timer[s] \in {"fired", "done"} \/ abort[s] = "timedout"
                            THEN "timeout"
                            ELSE IF abort[s] = "terminated" THEN "terminated" ELSE @]
    /\ UNCHANGED <<mgrVars, slots, chan, abort, term, timer, callVars>>

\* A variant that forgets the timer.
MutCancelTimer(s) ==
    /\ thr[s].pc = "cancel"
    /\ thr' = [thr EXCEPT ![s].pc = "report"]
    /\ UNCHANGED <<mgrVars, slots, chan, abort, term, timer, callVars>>

\* TimeoutGuard.cancel joins the timer thread, which may have fired meanwhile.
CancelTimer(s) ==
    /\ thr[s].pc = "cancel"
    /\ timer[s] # "fired"
    /\ timer' = [timer EXCEPT ![s] = "off"]
    /\ thr' = [thr EXCEPT ![s].pc = "report"]
    /\ UNCHANGED <<mgrVars, slots, chan, abort, term, callVars>>

\* The result goes to the host and the abort channel is dropped.  The locals
\* of the execution go with it; the pending promises are the session's.
Report(s) ==
    /\ thr[s].pc = "report"
    /\ thr' = [thr EXCEPT ![s] = [NewThread EXCEPT !.pc = "idle", !.early = thr[s].early,
                                   !.iso = thr[s].iso, !.last = thr[s].last, !.pend = thr[s].pend]]
    /\ abort' = [abort EXCEPT ![s] = None]
    /\ UNCHANGED <<mgrVars, slots, chan, term, timer, callVars>>

-----------------------------------------------------------------------------
HostStep ==
    \/ \E s \in Sessions : CreateSession(s) \/ DestroySession(s)
    \/ \E s \in Sessions, msg \in Messages : SendToSession(s, msg)
    \/ \E c \in CallIds : Respond(c)

ManagerStep == SignalAbort \/ Send \/ Join

GuestCalls(s) == GuestSyncCall(s) \/ GuestAsyncCall(s) \/ GuestLeavesWork(s)
GuestEnds(s) == GuestReturns(s) \/ GuestThrows(s) \/ GuestTerminated(s)

\* Steps of the session thread that are not the guest's own.
ThreadStep(s) ==
    \/ AcquireSlot(s) \/ SlotsTaken(s) \/ PollForSlot(s) \/ NextCommand(s) \/ Release(s)
    \/ CreateIsolate(s) \/ Arm(s) \/ SyncReceives(s) \/ SyncAborted(s)
    \/ LoopTop(s) \/ DrainFrame(s) \/ DrainEnds(s) \/ LoopReceives(s) \/ LoopAborted(s)
    \/ LoopTick(s) \/ LoopLeft(s) \/ Judge(s) \/ CancelTimer(s) \/ Report(s)

TimerStep(s) == TimerFires(s) \/ TimerSignals(s)

Next ==
    \/ HostStep
    \/ ManagerStep
    \/ \E s \in Sessions : ThreadStep(s) \/ GuestCalls(s) \/ GuestEnds(s) \/ TimerStep(s)

Spec == Init /\ [][Next]_vars

\* The threads of the program run: a session some thread of which can step
\* does step, and so does the manager.  A script may run for ever unless V8
\* was asked to terminate it; a callback returns.
RuntimeStep(s) ==
    \/ ThreadStep(s)
    \/ TimerSignals(s)
    \/ GuestTerminated(s)
    \/ thr[s].in # "script" /\ GuestEnds(s)

Fairness == WF_vars(ManagerStep) /\ \A s \in Sessions : WF_vars(RuntimeStep(s))

FairSpec == Spec /\ Fairness

-----------------------------------------------------------------------------
(***************************************************************************)
(* Properties.                                                             *)
(***************************************************************************)

InSeq(m, q) == \E i \in 1 .. Len(q) : q[i] = m

ThreadType ==
    [pc : Holding \cup {"slot", "queued", None}, early : Seq(Commands), iso : Codes \cup {"", None},
     last : Codes \cup {""}, defq : Seq(Commands), batch : Nat,
     pend : SUBSET CallIds, own : SUBSET CallIds, call : 0 .. MaxCalls, in : Guest,
     back : {"top", "drain", "tick"}, work : BOOLEAN, pass : 1 .. 2,
     out : {"ok", "error", "terminated", "timeout"}]

\* Every variable has the type of the field it stands for; a channel never
\* holds more than its capacity (session.rs, create_session).
TypeOK ==
    /\ entries \subseteq Sessions
    /\ slots \in Nat
    /\ mgr \in {Free} \cup [op : {"signal", "send"}, s : Sessions, msg : Commands]
                      \cup [op : {"join"}, s : Sessions]
    /\ thr \in [Sessions -> ThreadType]
    /\ chan \in [Sessions -> Seq(Commands)]
    /\ \A s \in Sessions : Len(chan[s]) <= Capacity
    /\ abort \in [Sessions -> {None, "armed", "terminated", "timedout"}]
    /\ term \in [Sessions -> BOOLEAN]
    /\ timer \in [Sessions -> {"off", "running", "fired", "done"}]
    /\ router \in [CallIds -> Sessions \cup {None}]
    /\ nextCall \in 1 .. MaxCalls + 1
    /\ host \subseteq CallIds

\* The count of slots is the number of threads that hold one.
Holders == {s \in Sessions : thr[s].pc \in Holding}
SlotCount == slots = Cardinality(Holders) /\ slots <= MaxConcurrency

\* The count of slots is the number of threads that hold one, and never more
\* than max_concurrency, whatever way a session ends: in the queue, idle or
\* out of an aborted execution (session_thread); and channels stay within their
\* capacity and the state well typed.
SlotsExact == TypeOK /\ SlotCount

\* A call the current execution waits for, synchronously or through a promise,
\* is not answered yet or its answer is on its way: with the manager, in the
\* channel or deferred.  A sync call that takes the answer of another call from
\* the channel does not lose it (recv_response, run_event_loop).
ResponseNotLost ==
    \A s \in Sessions :
       thr[s].pc \in {"run", "sync", "top", "drain", "tick", "recv"} =>
          \A c \in (thr[s].pend \cap thr[s].own)
                   \cup (IF thr[s].pc = "sync" THEN {thr[s].call} ELSE {}) :
             \/ c \in host
             \/ mgr.op = "send" /\ mgr.s = s /\ mgr.msg = Resp(c)
             \/ InSeq(Resp(c), chan[s])
             \/ InSeq(Resp(c), thr[s].defq)

\* An execution reports success only when nothing of it is outstanding: no
\* promise of the session waits for an answer and the guest left no work.
OkMeansSettled ==
    \A s \in Sessions :
       thr[s].pc \in {"judge", "cancel", "report"} /\ thr[s].out = "ok"
          => thr[s].pend = {} /\ ~ thr[s].work

\* The timer thread of an execution never outlives it: when a session is idle,
\* waits for a slot or is gone, no timer is left that could terminate the next
\* execution (TimeoutGuard.cancel).
TimerScoped ==
    \A s \in Sessions : timer[s] # "off" => thr[s].pc \in Executing \ {"start", "arm", "report"}

\* An execution whose timer fires ends, even one whose script never returns:
\* V8 stops guest code, the abort channel ends a sync call and the event loop.
TimeoutEnds == \A s \in Limited : timer[s] = "fired" ~> timer[s] = "off"

\* Nothing is ahead of the Shutdown that would start another execution.
NoExecAhead(s) ==
    \A code \in Codes : ~ InSeq(Exec(code), chan[s]) /\ ~ InSeq(Exec(code), thr[s].early)

\* The execution heard the abort signal, and V8 the request if a script runs.
Interrupted(s) ==
    abort[s] = "terminated" /\ (thr[s].pc \in {"run", "sync"} /\ thr[s].in = "script" => term[s])

\* destroy_session joins the thread and returns when the session was not about
\* to start an execution: it waited for a slot, was idle, or was executing and
\* was interrupted, whatever its script does.
DestroyReturns ==
    (/\ mgr.op = "join"
     /\ NoExecAhead(mgr.s)
     /\ thr[mgr.s].pc \in Executing => Interrupted(mgr.s)) ~> mgr = Free

\* destroy_session always returns when the scripts do, also when an inner loop
\* consumed Shutdown ("drop the sender so the session thread's rx.recv()
\* returns Err if Shutdown was consumed by an inner loop, then join").
DestroyAlwaysReturns ==
    (\A s \in Sessions : []<>(thr[s].pc # "run")) => (mgr.op = "join" ~> mgr = Free)
=============================================================================
