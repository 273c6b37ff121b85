-------------------------- MODULE SidecarTransport --------------------------
(***************************************************************************)
(* The client's connection to its sidecar process: SidecarTransport in     *)
(* crates/client/src/transport.rs, and the calls of process.rs that live   *)
(* on it, exec and spawn.                                                  *)
(*                                                                         *)
(* Four parties run concurrently: the calling tasks, run_writer, which     *)
(* moves frames from the outbound channel to the child's stdin,            *)
(* run_reader, which routes what arrives on its stdout, and the sidecar    *)
(* itself, which is external: it answers requests in any order, starts and *)
(* ends processes, and may die at any time.  A step of a task is what it   *)
(* does between two awaits.  request's map insert and channel send are one *)
(* step: nothing can answer, and nothing else uses, an id before the send. *)
(*                                                                         *)
(* No callback is ever registered for sidecar requests, so these frames    *)
(* are read and dropped; they are left out, as are payloads.               *)
(***************************************************************************)
EXTENDS Naturals, Sequences, FiniteSets

CONSTANTS
    Callers,        \* tasks that make calls, or pump a spawned process
    EventCapacity,  \* EVENT_CHANNEL_CAPACITY
    Scenes          \* bounds on what the environment does: see Budgets

\* How often a request, exec or spawn is called, a job calls exec, the caller
\* of one drops it, the timeout of an exec elapses, a process writes output,
\* and the sidecar dies.
Budgets == {"request", "exec", "spawn", "job", "abandon", "timeout", "output", "die"}

VARIABLES
    child,    \* the sidecar process is "up" or "gone"
    inbox,    \* requests in the child's stdin or in its hands
    alive,    \* processes running in the sidecar
    stdout,   \* frames the sidecar wrote and run_reader has not read
    outbox,   \* the outbound channel (writer_tx)
    writer,   \* run_writer is "running" or "stopped"
    reader,   \* run_reader is "running" or "stopped"
    pending,  \* ids in the pending map
    nextId,   \* request_counter
    call,     \* per task, its call: see Idle
    events,   \* per task, what its event receiver has not received
    scene     \* what is left of the bounds

sidecarVars == <<child, inbox, alive>>
wireVars == <<stdout, outbox, writer, reader, pending, nextId>>
vars == <<sidecarVars, wireVars, call, events, scene>>

\* kind: "none", "request", "exec" or "spawn"
\* at: "idle", the request it awaits ("request", "execute", "stdin",
\*     "close"), "events" or "returned"; a spawn returns when it publishes
\*     the exit code its waiters watch
\* id, reply: the request it awaits and its oneshot channel: "none", "ok",
\*     "rejected", or "dropped" when the sender is gone
\* process: the wire process id, here the id of the Execute request
\* killed: killed_for_timeout; lagged: the receiver lost events; late: the
\*     request was made after the disconnect
Idle == [kind |-> "none", at |-> "idle", id |-> 0, reply |-> "none",
         process |-> 0, killed |-> FALSE, lagged |-> FALSE, late |-> FALSE]
Awaits == {"request", "execute", "stdin", "close"}

Init ==
    /\ child = "up" /\ inbox = {} /\ alive = {}
    /\ stdout = <<>> /\ outbox = <<>>
    /\ writer = "running" /\ reader = "running"
    /\ pending = {} /\ nextId = 1
    /\ call = [c \in Callers |-> Idle]
    /\ events = [c \in Callers |-> <<>>]
    /\ scene \in Scenes

Spend(what) ==
    /\ scene[what] > 0
    /\ scene' = [scene EXCEPT ![what] = @ - 1]

---------------------------------------------------------------------------
(* request. *)

\* A variant that hands out the same id twice.
MutPost(op, process) ==
    /\ UNCHANGED nextId
    /\ pending' = pending \cup {nextId}
    /\ outbox' = Append(outbox, [id |-> nextId, op |-> op, process |-> process])
    /\ UNCHANGED <<stdout, writer, reader>>

\* The id, the pending entry and the frame.  Once run_writer is gone the send
\* fails and the entry is taken out again.
Post(op, process) ==
    /\ nextId' = nextId + 1
    /\ IF writer = "running"
       THEN /\ pending' = pending \cup {nextId}
            /\ outbox' = Append(outbox, [id |-> nextId, op |-> op, process |-> process])
       ELSE UNCHANGED <<pending, outbox>>
    /\ UNCHANGED <<stdout, writer, reader>>

\* Task c, with call record r, posts a request and awaits it.
Ask(c, r, op, process) ==
    /\ Post(op, process)
    /\ call' = [call EXCEPT ![c] =
                  [r EXCEPT !.at = op, !.id = nextId, !.process = process, !.late = reader = "stopped",
                            !.reply = IF writer = "running" THEN "none" ELSE "dropped"]]

Replied(c) == call[c].at \in Awaits /\ call[c].reply # "none"
Return(c) ==
    /\ call' = [call EXCEPT ![c] = [Idle EXCEPT !.kind = call[c].kind, !.at = "returned"]]
    /\ events' = [events EXCEPT ![c] = <<>>]

\* A call that needs one request and its answer.
Simple(c) ==
    /\ call[c].at \in {"idle", "returned"}
    /\ Ask(c, [Idle EXCEPT !.kind = "request"], "request", 0)
    /\ UNCHANGED <<sidecarVars, events>>

Request(c) == Spend("request") /\ Simple(c)

RequestReturns(c) ==
    /\ call[c].at = "request" /\ Replied(c)
    /\ Return(c)
    /\ UNCHANGED <<sidecarVars, wireVars, scene>>

\* The caller drops the future of a call; its pending entry stays.  The pump
\* of a spawned process is a task of its own and is not dropped.
Abandon(c) ==
    /\ call[c].kind \in {"request", "exec"} /\ call[c].at \in Awaits \cup {"events"}
    /\ Spend("abandon")
    /\ call' = [call EXCEPT ![c] = Idle]
    /\ events' = [events EXCEPT ![c] = <<>>]
    /\ UNCHANGED <<sidecarVars, wireVars>>

---------------------------------------------------------------------------
(* exec, and spawn with its pump run_spawn. *)

\* Both subscribe to the events before they post the Execute request.
Begin(c, kind) ==
    /\ call[c].at \in {"idle", "returned"}
    /\ Ask(c, [Idle EXCEPT !.kind = kind], "execute", nextId)
    /\ UNCHANGED <<sidecarVars, events>>

Start(c, kind) == Spend(kind) /\ Begin(c, kind)

\* A rejected or failed Execute ends both: exec with an error, spawn by
\* publishing exit code 1.
ExecuteFailed(c) ==
    /\ call[c].at = "execute" /\ Replied(c) /\ call[c].reply # "ok"
    /\ Return(c)
    /\ UNCHANGED <<sidecarVars, wireVars, scene>>

\* exec goes on to its stdin requests, and ignores what becomes of them.
Started(c) ==
    /\ call[c].at = "execute" /\ call[c].reply = "ok"
    /\ IF call[c].kind = "spawn"
       THEN /\ call' = [call EXCEPT ![c].at = "events"]
            /\ UNCHANGED wireVars
       ELSE \E op \in {"stdin", "close"} : Ask(c, call[c], op, call[c].process)
    /\ UNCHANGED <<sidecarVars, events, scene>>

StdinWritten(c) ==
    /\ call[c].at = "stdin" /\ Replied(c)
    /\ Ask(c, call[c], "close", call[c].process)
    /\ UNCHANGED <<sidecarVars, events, scene>>

StdinClosed(c) ==
    /\ call[c].at = "close" /\ Replied(c)
    /\ call' = [call EXCEPT ![c].at = "events"]
    /\ UNCHANGED <<sidecarVars, wireVars, events, scene>>

\* The event loops end on the exit event of their own process only.  Their
\* end on a closed stream is not a step: the tasks themselves hold the
\* transport, and with it the sender of the event channel.
Receive(c) ==
    /\ call[c].at = "events" /\ events[c] # <<>>
    /\ IF Head(events[c]) = [type |-> "exited", process |-> call[c].process]
       THEN Return(c)
       ELSE events' = [events EXCEPT ![c] = Tail(@)] /\ UNCHANGED call
    /\ UNCHANGED <<sidecarVars, wireVars, scene>>

\* The timeout of exec: one kill request from a detached task.
KillForTimeout(c) ==
    /\ call[c].kind = "exec" /\ call[c].at = "events" /\ ~call[c].killed
    /\ Spend("timeout")
    /\ call' = [call EXCEPT ![c].killed = TRUE]
    /\ Post("kill", call[c].process)
    /\ UNCHANGED <<sidecarVars, events>>

---------------------------------------------------------------------------
(* The I/O tasks. *)

\* run_writer.  A write to a dead child fails, and ends the task.
Write ==
    /\ writer = "running" /\ outbox # <<>>
    /\ IF child = "up"
       THEN /\ inbox' = inbox \cup {Head(outbox)}
            /\ outbox' = Tail(outbox)
            /\ UNCHANGED writer
       ELSE /\ writer' = "stopped" /\ outbox' = <<>>
            /\ UNCHANGED inbox
    /\ UNCHANGED <<child, alive, stdout, reader, pending, nextId, call, events, scene>>

\* Drops the senders of the given ids, or answers them.
Resolve(ids, reply) ==
    call' = [c \in Callers |->
               IF call[c].at \in Awaits /\ call[c].reply = "none" /\ call[c].id \in ids
               THEN [call[c] EXCEPT !.reply = reply] ELSE call[c]]

\* A variant that keeps the entry of an answered request.
MutHandleResponse(f) ==
    /\ Resolve({f.id} \cap pending, f.result)
    /\ UNCHANGED <<pending, events>>

\* handle_frame for a response.
HandleResponse(f) ==
    /\ Resolve({f.id} \cap pending, f.result)
    /\ pending' = pending \ {f.id}
    /\ UNCHANGED events

\* A variant that subscribes when the process has started.
MutSubscribed(c) == call[c].at = "events"

Subscribed(c) == call[c].kind \in {"exec", "spawn"} /\ call[c].at # "returned"

Full(c) == Len(events[c]) = EventCapacity

\* handle_frame for an event: every receiver gets it, and one that is
\* EventCapacity events behind loses its oldest.
HandleEvent(f) ==
    LET full == {c \in Callers : Subscribed(c) /\ Full(c)} IN
    /\ events' = [c \in Callers |->
                    IF c \in full THEN Append(Tail(events[c]), f.event)
                    ELSE IF Subscribed(c) THEN Append(events[c], f.event) ELSE events[c]]
    /\ call' = [c \in Callers |-> IF c \in full THEN [call[c] EXCEPT !.lagged = TRUE] ELSE call[c]]
    /\ UNCHANGED pending

Read ==
    /\ reader = "running" /\ stdout # <<>>
    /\ stdout' = Tail(stdout)
    /\ LET f == Head(stdout) IN
       IF f.type = "response" THEN HandleResponse(f) ELSE HandleEvent(f)
    /\ UNCHANGED <<sidecarVars, outbox, writer, reader, nextId, scene>>

\* A variant without fail_all_pending.
MutDisconnect ==
    /\ reader = "running" /\ child = "gone" /\ stdout = <<>>
    /\ reader' = "stopped"
    /\ UNCHANGED <<sidecarVars, stdout, outbox, writer, pending, nextId, call, events, scene>>

\* The end of run_reader: fail_all_pending drops the senders in the map.
Disconnect ==
    /\ reader = "running" /\ child = "gone" /\ stdout = <<>>
    /\ reader' = "stopped"
    /\ pending' = {}
    /\ Resolve(pending, "dropped")
    /\ UNCHANGED <<sidecarVars, stdout, outbox, writer, nextId, events, scene>>

---------------------------------------------------------------------------
(* The sidecar (external). *)

Emit(f) == stdout' = Append(stdout, f)

Answer(f) ==
    /\ child = "up" /\ f \in inbox
    /\ inbox' = inbox \ {f}
    /\ \E result \in IF f.op = "execute" THEN {"ok", "rejected"} ELSE {"ok"} :
          /\ Emit([type |-> "response", id |-> f.id, result |-> result])
          /\ alive' = IF f.op = "execute" /\ result = "ok" THEN alive \cup {f.process} ELSE alive
    /\ UNCHANGED <<child, outbox, writer, reader, pending, nextId, call, events, scene>>

Output(p) ==
    /\ child = "up" /\ p \in alive /\ Spend("output")
    /\ Emit([type |-> "event", event |-> [type |-> "output", process |-> p]])
    /\ UNCHANGED <<child, inbox, alive, outbox, writer, reader, pending, nextId, call, events>>

Exit(p) ==
    /\ child = "up" /\ p \in alive
    /\ alive' = alive \ {p}
    /\ Emit([type |-> "event", event |-> [type |-> "exited", process |-> p]])
    /\ UNCHANGED <<child, inbox, outbox, writer, reader, pending, nextId, call, events, scene>>

Die ==
    /\ child = "up" /\ Spend("die")
    /\ child' = "gone"
    /\ inbox' = {} /\ alive' = {}
    /\ UNCHANGED <<wireVars, call, events>>

---------------------------------------------------------------------------
SidecarStep == (\E f \in inbox : Answer(f)) \/ (\E p \in alive : Output(p) \/ Exit(p)) \/ Die
CallStep(c) ==
    \/ RequestReturns(c) \/ ExecuteFailed(c) \/ Started(c)
    \/ StdinWritten(c) \/ StdinClosed(c) \/ Receive(c)
ReaderStep == Read \/ Disconnect

Next ==
    \/ \E c \in Callers :
          \/ Request(c) \/ Start(c, "exec") \/ Start(c, "spawn")
          \/ Abandon(c) \/ KillForTimeout(c) \/ CallStep(c)
    \/ Write \/ ReaderStep \/ SidecarStep

Spec == Init /\ [][Next]_vars

---------------------------------------------------------------------------
(* Properties. *)

Frame == [id : Nat, op : Awaits \cup {"kill"}, process : Nat]
Event == [type : {"output", "exited"}, process : Nat]
Response == [type : {"response"}, id : Nat, result : {"ok", "rejected"}]
EventFrame == [type : {"event"}, event : Event]
Call == [kind : {"none", "request", "exec", "spawn"}, at : Awaits \cup {"idle", "events", "returned"},
         id : Nat, reply : {"none", "ok", "rejected", "dropped"}, process : Nat,
         killed : BOOLEAN, lagged : BOOLEAN, late : BOOLEAN]

WireType ==
    /\ inbox \subseteq Frame /\ alive \subseteq Nat
    /\ stdout \in Seq(Response \cup EventFrame) /\ outbox \in Seq(Frame)
    /\ nextId \in Nat \ {0} /\ pending \subseteq 1..(nextId - 1)
    /\ call \in [Callers -> Call]

\* Every variable has its type, and no receiver holds more than the channel's
\* capacity.
TypeOK ==
    /\ WireType
    /\ child \in {"up", "gone"}
    /\ writer \in {"running", "stopped"} /\ reader \in {"running", "stopped"}
    /\ \A c \in Callers : events[c] \in Seq(Event) /\ Len(events[c]) <= EventCapacity

Waiting(c) == call[c].at \in Awaits /\ call[c].reply = "none"

\* Where request id is between the caller and its answer.
Queued(id) == {k \in DOMAIN outbox : outbox[k].id = id}
Held(id) == {f \in inbox : f.id = id}
Answered(id) == {k \in DOMAIN stdout : stdout[k].type = "response" /\ stdout[k].id = id}

\* No request gets lost in a working transport, and none is answered twice:
\* while the sidecar lives, the ids in the pending map are exactly those with
\* one frame, or one answer, on its way, also when the call was abandoned.
RequestsConserved ==
    child = "up" =>
        \A id \in 1..(nextId - 1) :
           Cardinality(Queued(id)) + Cardinality(Held(id)) + Cardinality(Answered(id))
              = IF id \in pending THEN 1 ELSE 0

\* A task that awaits a request has its id in the pending map, where an answer
\* or the disconnect finds it, and no two tasks await the same id.
AwaitedPending ==
    /\ \A c \in Callers : Waiting(c) => call[c].id \in pending
    /\ \A c, d \in Callers : Waiting(c) /\ Waiting(d) /\ c # d => call[c].id # call[d].id

\* exec and spawn subscribe before they post Execute, so that no exit is
\* missed: while the sidecar lives, a task that waits for the exit of its
\* process will find it in what its receiver holds, or what the reader still
\* has to route, or the process is still running.  Only a receiver that
\* lagged can have lost it.
ExitNotMissed ==
    \A c \in Callers :
        child = "up" /\ call[c].at \in {"stdin", "close", "events"} /\ ~call[c].lagged =>
            LET exited == [type |-> "exited", process |-> call[c].process] IN
            \/ call[c].process \in alive
            \/ \E k \in DOMAIN events[c] : events[c][k] = exited
            \/ \E k \in DOMAIN stdout : stdout[k].type = "event" /\ stdout[k].event = exited

\* When the sidecar is gone, every request made before the reader noticed
\* comes back, with its answer or a disconnect error.
InFlightRejected ==
    (child = "gone") ~> (\A c \in Callers : Waiting(c) => call[c].late)
=============================================================================
