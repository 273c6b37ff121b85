----------------------- MODULE SidecarTransportProofs -----------------------
(***************************************************************************)
(* The transport, for every number of callers.  First, that no request is  *)
(* forgotten by the pending map: AwaitedPending, by Inv.  Second, that no  *)
(* request is lost or answered twice: RequestsConserved, by Conserved,     *)
(* which says where a request is.  Third, that no call misses the exit of  *)
(* its process: ExitNotMissed, by Exits, which follows the process from    *)
(* the request that starts it.  The lemmas are about single steps, so that *)
(* the client, which interleaves them with its own, can use them.          *)
(***************************************************************************)
EXTENDS SidecarTransport, FiniteSetTheorems, TLAPS

Inv == WireType /\ AwaitedPending

\* What the invariant is about.
invVars == <<inbox, alive, stdout, outbox, pending, nextId, call>>

\* The invariant survives when tasks only stop waiting, and those that still
\* wait find their request in the map.
LEMMA StopWaiting ==
    ASSUME AwaitedPending,
           \A c \in Callers : Waiting(c)' => /\ Waiting(c)
                                                  /\ call'[c].id = call[c].id
                                                  /\ call'[c].id \in pending'
    PROVE  AwaitedPending'
  BY Zenon DEF AwaitedPending

\* Posting a request takes a new id.
LEMMA PostType ==
    ASSUME Inv, NEW op \in Awaits \cup {"kill"}, NEW process \in Nat, Post(op, process)
    PROVE  /\ nextId' \in Nat \ {0} /\ pending' \subseteq 1..(nextId' - 1)
           /\ outbox' \in Seq(Frame) /\ stdout' = stdout
           /\ pending \subseteq pending' /\ nextId \notin pending
<1>1. nextId \in Nat /\ nextId > 0 /\ pending \subseteq 1..(nextId - 1) /\ nextId' = nextId + 1
  BY DEF Inv, WireType, Post
<1>2. pending' = pending \cup {nextId} \/ pending' = pending
  BY DEF Post
<1>3. [id |-> nextId, op |-> op, process |-> process] \in Frame
  BY <1>1 DEF Frame
<1>4. outbox' \in Seq(Frame) /\ stdout' = stdout
  <2>1. outbox \in Seq(Frame) /\ stdout' = stdout
    BY DEF Inv, WireType, Post
  <2>2. \/ outbox' = outbox
        \/ outbox' = Append(outbox, [id |-> nextId, op |-> op, process |-> process])
    BY DEF Post
  <2>3. QED
    BY <1>3, <2>1, <2>2
<1>5. /\ \A i \in 1..(nextId - 1) : i \in 1..(nextId' - 1) /\ i # nextId
      /\ nextId \in 1..(nextId' - 1) /\ nextId' \in Nat \ {0}
  BY <1>1
<1>6. pending' \subseteq 1..(nextId' - 1) /\ nextId \notin pending /\ pending \subseteq pending'
  BY Zenon, <1>1, <1>2, <1>5
<1>7. QED
  BY Zenon, <1>4, <1>5, <1>6

\* A task that asks awaits the new id, which nobody else does.
LEMMA AskKeeps ==
    ASSUME Inv, NEW c \in Callers, NEW r \in Call, NEW op \in Awaits,
           NEW process \in Nat, Ask(c, r, op, process), UNCHANGED <<inbox, alive>>
    PROVE  Inv'
<1> DEFINE new == [r EXCEPT !.at = op, !.id = nextId, !.process = process,
                            !.late = reader = "stopped",
                            !.reply = IF writer = "running" THEN "none" ELSE "dropped"]
<1>1. Post(op, process) /\ call' = [call EXCEPT ![c] = new]
  BY DEF Ask
<1>2. /\ nextId' \in Nat \ {0} /\ pending' \subseteq 1..(nextId' - 1)
      /\ outbox' \in Seq(Frame) /\ stdout' = stdout
      /\ pending \subseteq pending' /\ nextId \notin pending
  BY <1>1, PostType
<1>3. new \in Call
  <2>1. nextId \in Nat /\ (reader = "stopped") \in BOOLEAN
    BY DEF Inv, WireType
  <2>2. QED
    BY Zenon, <2>1 DEF Call
<1>4. call \in [Callers -> Call]
  BY DEF Inv, WireType
<1>5. call' \in [Callers -> Call]
  BY <1>1, <1>3, <1>4
<1>6. WireType'
  BY Zenon, <1>2, <1>5 DEF Inv, WireType
<1>7. /\ call'[c] = new
      /\ \A d \in Callers \ {c} : call'[d] = call[d]
  BY <1>1, <1>4
<1>8. Waiting(c)' => call'[c].id = nextId /\ nextId \in pending'
  <2>1. new.id = nextId /\ new.reply = (IF writer = "running" THEN "none" ELSE "dropped")
    BY DEF Call
  <2>2. Waiting(c)' => writer = "running"
    BY <1>7, <2>1 DEF Waiting
  <2>3. writer = "running" => nextId \in pending'
    BY <1>1 DEF Post
  <2>4. QED
    BY <1>7, <2>1, <2>2, <2>3
<1>9. \A d \in Callers \ {c} : Waiting(d)' =>
          /\ Waiting(d) /\ call'[d].id = call[d].id /\ call[d].id \in pending
  BY <1>7 DEF Waiting, Inv, AwaitedPending
<1>10. \A d, e \in Callers : Waiting(d)' /\ Waiting(e)' /\ d # e
                             => call'[d].id # call'[e].id
  <2> SUFFICES ASSUME NEW d \in Callers, NEW e \in Callers, Waiting(d)', Waiting(e)',
                      d # e
               PROVE  call'[d].id # call'[e].id
    OBVIOUS
  <2>1. CASE d = c
    BY <1>2, <1>8, <1>9, <2>1
  <2>2. CASE e = c
    BY <1>2, <1>8, <1>9, <2>2
  <2>3. CASE d # c /\ e # c
    BY <1>9, <2>3 DEF Inv, AwaitedPending
  <2>4. QED
    BY <2>1, <2>2, <2>3
<1>11. AwaitedPending'
  BY Zenon, <1>2, <1>8, <1>9, <1>10 DEF AwaitedPending
<1>12. QED
  BY <1>6, <1>11 DEF Inv

\* A task's call gets a record with which it waits for nothing new.
LEMMA CallEnds ==
    ASSUME Inv, NEW c \in Callers, NEW r \in Call,
           call' = [call EXCEPT ![c] = r],
           r.at \in Awaits /\ r.reply = "none" => r.at = call[c].at /\ r.id = call[c].id
                                                       /\ r.reply = call[c].reply,
           UNCHANGED <<inbox, alive, stdout, outbox, pending, nextId>>
    PROVE  Inv'
<1>1. call \in [Callers -> Call]
  BY DEF Inv, WireType
<1>2. call' \in [Callers -> Call]
  BY <1>1
<1>3. WireType'
  BY <1>2 DEF Inv, WireType
<1>4. \A d \in Callers : Waiting(d)' => /\ Waiting(d) /\ call'[d].id = call[d].id
                                             /\ call'[d].id \in pending'
  <2> SUFFICES ASSUME NEW d \in Callers, Waiting(d)'
               PROVE  Waiting(d) /\ call'[d].id = call[d].id /\ call'[d].id \in pending'
    OBVIOUS
  <2>1. call'[d] = IF d = c THEN r ELSE call[d]
    BY <1>1
  <2>2. Waiting(d) /\ call'[d].id = call[d].id
    BY <2>1 DEF Waiting
  <2>3. QED
    BY <2>2 DEF Inv, AwaitedPending
<1>5. QED
  BY <1>3, <1>4, StopWaiting DEF Inv

\* The records that end a wait, or a call.
LEMMA IdleCall ==
    ASSUME Inv, NEW c \in Callers
    PROVE  /\ Idle \in Call /\ Idle.at = "idle"
           /\ call[c] \in Call
           /\ [Idle EXCEPT !.kind = call[c].kind, !.at = "returned"] \in Call
           /\ \A k \in {"request", "exec", "spawn"} : [Idle EXCEPT !.kind = k] \in Call
  BY Zenon DEF Inv, WireType, Idle, Call

\* The steps of a task between two awaits.
LEMMA CallStepKeeps ==
    ASSUME Inv, NEW c \in Callers, CallStep(c)
    PROVE  Inv'
<1>0. /\ call[c] \in Call /\ call[c].process \in Nat /\ UNCHANGED <<inbox, alive>>
      /\ {"stdin", "close", "request", "execute"} = Awaits
      /\ "events" \notin Awaits /\ "returned" \notin Awaits
  <2>1. call[c] \in Call
    BY Zenon, IdleCall
  <2>2. call[c].process \in Nat
    BY Zenon, <2>1 DEF Call
  <2>3. UNCHANGED <<inbox, alive>>
    BY DEF CallStep, RequestReturns, ExecuteFailed, Started, StdinWritten, StdinClosed, Receive,
       sidecarVars
  <2>4. QED
    BY <2>1, <2>2, <2>3 DEF Awaits
<1>1. ASSUME Return(c), UNCHANGED wireVars PROVE Inv'
  <2> DEFINE r == [Idle EXCEPT !.kind = call[c].kind, !.at = "returned"]
  <2>1. r \in Call /\ call' = [call EXCEPT ![c] = r]
    BY Zenon, <1>1, IdleCall DEF Return
  <2>2. r.at = "returned"
    BY DEF Idle
  <2> HIDE DEF r
  <2>3. QED
    BY Zenon, <1>0, <1>1, <2>1, <2>2, CallEnds DEF wireVars
<1>2. ASSUME call' = [call EXCEPT ![c].at = "events"], UNCHANGED wireVars PROVE Inv'
  <2> DEFINE r == [call[c] EXCEPT !.at = "events"]
  <2>1. r \in Call /\ r.at = "events" /\ call' = [call EXCEPT ![c] = r]
    BY <1>0, <1>2 DEF Call
  <2> HIDE DEF r
  <2>2. QED
    BY Zenon, <1>0, <1>2, <2>1, CallEnds DEF wireVars
<1>3. ASSUME NEW op \in {"stdin", "close"}, Ask(c, call[c], op, call[c].process)
      PROVE  Inv'
  BY <1>0, <1>3, AskKeeps
<1>4. ASSUME UNCHANGED call, UNCHANGED wireVars PROVE Inv'
  BY <1>0, <1>4 DEF Inv, AwaitedPending, Waiting, WireType,
     wireVars
<1>5. CASE RequestReturns(c) \/ ExecuteFailed(c)
  BY <1>1, <1>5 DEF RequestReturns, ExecuteFailed
<1>6. CASE Started(c)
  BY <1>2, <1>3, <1>6 DEF Started
<1>7. CASE StdinWritten(c) \/ StdinClosed(c)
  BY <1>2, <1>3, <1>7 DEF StdinWritten, StdinClosed
<1>8. CASE Receive(c)
  BY <1>1, <1>4, <1>8 DEF Receive
<1>9. QED
  BY <1>5, <1>6, <1>7, <1>8 DEF CallStep

\* New calls, of a user, a job or shutdown.
LEMMA NewCallKeeps ==
    ASSUME Inv, NEW c \in Callers,
           \/ Simple(c) \/ Request(c)
           \/ \E k \in {"exec", "spawn"} : Begin(c, k) \/ Start(c, k)
    PROVE  Inv'
<1>0. "request" \in Awaits /\ "execute" \in Awaits /\ nextId \in Nat
  BY DEF Awaits, Inv, WireType
<1>1. CASE Simple(c) \/ Request(c)
  <2>1. /\ Ask(c, [Idle EXCEPT !.kind = "request"], "request", 0)
        /\ UNCHANGED <<inbox, alive>>
    BY <1>1 DEF Request, Simple, sidecarVars
  <2>2. QED
    BY Zenon, <1>0, <2>1, IdleCall, AskKeeps
<1>2. ASSUME NEW k \in {"exec", "spawn"}, Begin(c, k) \/ Start(c, k)
      PROVE  Inv'
  <2>1. /\ Ask(c, [Idle EXCEPT !.kind = k], "execute", nextId)
        /\ UNCHANGED <<inbox, alive>>
    BY <1>2 DEF Start, Begin, sidecarVars
  <2>2. QED
    BY Zenon, <1>0, <2>1, IdleCall, AskKeeps
<1>3. QED
  BY <1>1, <1>2

\* A dropped future, and the kill request of an exec that timed out.
LEMMA InterruptKeeps ==
    ASSUME Inv, NEW c \in Callers, Abandon(c) \/ KillForTimeout(c)
    PROVE  Inv'
<1>0. call[c] \in Call /\ call \in [Callers -> Call]
  BY DEF Inv, WireType
<1>1. CASE Abandon(c)
  <2>1. /\ call' = [call EXCEPT ![c] = Idle]
        /\ UNCHANGED <<inbox, alive, stdout, outbox, pending, nextId>>
    BY <1>1 DEF Abandon, sidecarVars, wireVars
  <2>2. Idle.at \notin Awaits
    BY DEF Idle, Awaits
  <2>3. QED
    BY Zenon, <2>1, <2>2, IdleCall, CallEnds
<1>2. CASE KillForTimeout(c)
  <2> DEFINE r == [call[c] EXCEPT !.killed = TRUE]
  <2>1. /\ Post("kill", call[c].process) /\ UNCHANGED <<inbox, alive>>
        /\ call' = [call EXCEPT ![c] = r]
    BY <1>2 DEF KillForTimeout, sidecarVars
  <2>2. /\ r \in Call /\ r.at = call[c].at /\ r.reply = call[c].reply /\ r.id = call[c].id
        /\ call[c].process \in Nat
    BY Zenon, <1>0 DEF Call
  <2>3. /\ nextId' \in Nat \ {0} /\ pending' \subseteq 1..(nextId' - 1)
        /\ outbox' \in Seq(Frame) /\ stdout' = stdout /\ pending \subseteq pending'
    BY Zenon, <2>1, <2>2, PostType
  <2> HIDE DEF r
  <2>4. call' \in [Callers -> Call]
    BY <1>0, <2>1, <2>2
  <2>5. WireType'
    BY Zenon, <2>1, <2>3, <2>4 DEF Inv, WireType
  <2>6. \A d \in Callers : /\ call'[d].at = call[d].at /\ call'[d].reply = call[d].reply
                           /\ call'[d].id = call[d].id
    BY <1>0, <2>1, <2>2
  <2>7. \A d \in Callers : Waiting(d)' => /\ Waiting(d) /\ call'[d].id = call[d].id
                                               /\ call'[d].id \in pending'
    BY Zenon, <2>3, <2>6 DEF Waiting, Inv, AwaitedPending
  <2>8. QED
    BY <2>5, <2>7, StopWaiting DEF Inv
<1>3. QED
  BY <1>1, <1>2

\* The senders of some ids are used or dropped, and these leave the map.
LEMMA ResolveKeeps ==
    ASSUME Inv, NEW ids, NEW reply \in {"ok", "rejected", "dropped"},
           Resolve(ids, reply), pending' = pending \ ids,
           UNCHANGED <<inbox, alive, outbox, nextId>>, stdout' \in Seq(Response \cup EventFrame)
    PROVE  Inv'
<1>1. call \in [Callers -> Call]
  BY DEF Inv, WireType
<1>2. call' = [c \in Callers |->
                 IF call[c].at \in Awaits /\ call[c].reply = "none" /\ call[c].id \in ids
                 THEN [call[c] EXCEPT !.reply = reply] ELSE call[c]]
  BY DEF Resolve
<1>3. \A c \in Callers : [call[c] EXCEPT !.reply = reply] \in Call
  BY Zenon, <1>1 DEF Call
<1>4. call' \in [Callers -> Call]
  BY <1>1, <1>2, <1>3
<1>5. WireType'
  BY Zenon, <1>4 DEF Inv, WireType
<1>6. \A c \in Callers : Waiting(c)' => Waiting(c) /\ call'[c] = call[c] /\ call[c].id \notin ids
  <2> SUFFICES ASSUME NEW c \in Callers, Waiting(c)'
               PROVE  Waiting(c) /\ call'[c] = call[c] /\ call[c].id \notin ids
    OBVIOUS
  <2>1. CASE call[c].at \in Awaits /\ call[c].reply = "none" /\ call[c].id \in ids
    <3>1. call'[c].reply = reply
      BY <1>1, <1>2, <2>1 DEF Call
    <3>2. QED
      BY <3>1 DEF Waiting
  <2>2. CASE ~(call[c].at \in Awaits /\ call[c].reply = "none" /\ call[c].id \in ids)
    BY <1>2, <2>2 DEF Waiting
  <2>3. QED
    BY <2>1, <2>2
<1>7. \A c \in Callers : Waiting(c)' => /\ Waiting(c) /\ call'[c].id = call[c].id
                                             /\ call'[c].id \in pending'
  BY <1>6 DEF Inv, AwaitedPending
<1>8. QED
  BY <1>5, <1>7, StopWaiting DEF Inv

\* The reader: a response resolves its request, an event leaves all of them
\* alone, and a disconnect drops them all.
LEMMA ReaderKeeps ==
    ASSUME Inv, ReaderStep
    PROVE  Inv'
<1>0. /\ stdout \in Seq(Response \cup EventFrame) /\ call \in [Callers -> Call]
      /\ UNCHANGED <<inbox, alive, outbox, nextId>>
  BY DEF Inv, WireType, ReaderStep, Read, Disconnect, sidecarVars
<1>1. CASE Read
  <2> DEFINE f == Head(stdout)
  <2>1. f \in Response \cup EventFrame
        /\ stdout' \in Seq(Response \cup EventFrame)
    BY <1>0, <1>1 DEF Read
  <2>2. CASE f.type = "response"
    <3>1. HandleResponse(f)
      BY <1>1, <2>2 DEF Read
    <3>2. f.result \in {"ok", "rejected"}
      BY <2>1, <2>2 DEF Response, EventFrame
    <3> HIDE DEF f
    <3>3. Resolve({f.id} \cap pending, f.result) /\ pending' = pending \ ({f.id} \cap pending)
      BY <3>1 DEF HandleResponse
    <3>4. QED
      BY <1>0, <2>1, <3>2, <3>3, ResolveKeeps
  <2>3. CASE f.type # "response"
    <3>1. HandleEvent(f)
      BY <1>1, <2>3 DEF Read
    <3> HIDE DEF f
    <3>2. PICK full : call' = [c \in Callers |-> IF c \in full
                                                 THEN [call[c] EXCEPT !.lagged = TRUE] ELSE call[c]]
      BY Zenon, <3>1 DEF HandleEvent
    <3>3. \A c \in Callers : LET r == [call[c] EXCEPT !.lagged = TRUE] IN
             r \in Call /\ r.at = call[c].at /\ r.reply = call[c].reply /\ r.id = call[c].id
      BY Zenon, <1>0 DEF Call
    <3>4. /\ call' \in [Callers -> Call]
          /\ \A c \in Callers : /\ call'[c].at = call[c].at /\ call'[c].reply = call[c].reply
                                /\ call'[c].id = call[c].id
      BY <1>0, <3>2, <3>3
    <3>5. pending' = pending
      BY <3>1 DEF HandleEvent
    <3>6. WireType'
      BY <1>0, <2>1, <3>4, <3>5 DEF Inv, WireType
    <3>7. \A c \in Callers : Waiting(c)' => /\ Waiting(c) /\ call'[c].id = call[c].id
                                                 /\ call'[c].id \in pending'
      BY <3>4, <3>5 DEF Waiting, Inv, AwaitedPending
    <3>8. QED
      BY <3>6, <3>7, StopWaiting DEF Inv
  <2>4. QED
    BY <2>2, <2>3
<1>2. CASE Disconnect
  <2>1. Resolve(pending, "dropped") /\ pending' = pending \ pending /\ stdout' = stdout
    BY <1>2 DEF Disconnect
  <2>2. QED
    BY <1>0, <2>1, ResolveKeeps
<1>3. QED
  BY <1>1, <1>2 DEF ReaderStep

\* Steps in which frames move, and the calls and the map stay as they are.
LEMMA FramesMove ==
    ASSUME Inv, UNCHANGED <<call, pending, nextId>>,
           inbox' \subseteq Frame /\ alive' \subseteq Nat,
           stdout' \in Seq(Response \cup EventFrame), outbox' \in Seq(Frame)
    PROVE  Inv'
<1>1. WireType'
  BY DEF Inv, WireType
<1>2. AwaitedPending'
  BY DEF Inv, AwaitedPending, Waiting
<1>3. QED
  BY <1>1, <1>2 DEF Inv

\* The writer, the sidecar, and its end.
LEMMA SidecarKeeps ==
    ASSUME Inv, Write \/ SidecarStep
    PROVE  Inv'
<1>0. /\ inbox \subseteq Frame /\ alive \subseteq Nat
      /\ stdout \in Seq(Response \cup EventFrame) /\ outbox \in Seq(Frame)
  BY DEF Inv, WireType
<1>1. CASE Write
  <2>1. outbox # <<>> /\ UNCHANGED <<call, pending, nextId, stdout, alive>>
    BY <1>1 DEF Write
  <2>2. Head(outbox) \in Frame /\ Tail(outbox) \in Seq(Frame)
        /\ <<>> \in Seq(Frame)
    BY <1>0, <2>1
  <2>3. (inbox' = inbox \/ inbox' = inbox \cup {Head(outbox)})
        /\ (outbox' = Tail(outbox) \/ outbox' = <<>>)
    BY <1>1 DEF Write
  <2>4. inbox' \subseteq Frame /\ outbox' \in Seq(Frame)
    BY Zenon, <1>0, <2>2, <2>3
  <2>5. QED
    BY <1>0, <2>1, <2>4, FramesMove
<1>2. ASSUME NEW f \in inbox, Answer(f) PROVE Inv'
  <2>1. f \in Frame /\ f.id \in Nat /\ f.process \in Nat
    BY <1>0 DEF Frame
  <2>2. PICK result \in {"ok", "rejected"} :
           /\ stdout' = Append(stdout, [type |-> "response", id |-> f.id, result |-> result])
           /\ alive' \subseteq alive \cup {f.process}
    BY <1>2 DEF Answer, Emit
  <2>3. [type |-> "response", id |-> f.id, result |-> result] \in Response
    BY <2>1 DEF Response
  <2>4. stdout' \in Seq(Response \cup EventFrame) /\ alive' \subseteq Nat
    BY <1>0, <2>1, <2>2, <2>3
  <2>5. UNCHANGED <<call, pending, nextId, outbox>> /\ inbox' \subseteq inbox
    BY <1>2 DEF Answer
  <2>6. QED
    BY <1>0, <2>4, <2>5, FramesMove
<1>3. ASSUME NEW p \in alive, Output(p) \/ Exit(p) PROVE Inv'
  <2>1. PICK type \in {"output", "exited"} :
           stdout' = Append(stdout, [type |-> "event", event |-> [type |-> type, process |-> p]])
    BY <1>3 DEF Output, Exit, Emit
  <2>2. [type |-> "event", event |-> [type |-> type, process |-> p]] \in EventFrame
    BY <1>0 DEF EventFrame, Event
  <2>3. stdout' \in Seq(Response \cup EventFrame)
    BY <1>0, <2>1, <2>2
  <2>4. UNCHANGED <<call, pending, nextId, outbox, inbox>> /\ alive' \subseteq alive
    BY <1>3 DEF Output, Exit
  <2>5. QED
    BY <1>0, <2>3, <2>4, FramesMove
<1>4. CASE Die
  <2>1. UNCHANGED <<call, pending, nextId, outbox, stdout>> /\ inbox' = {} /\ alive' = {}
    BY <1>4 DEF Die, wireVars
  <2>2. QED
    BY <1>0, <2>1, FramesMove
<1>5. QED
  BY <1>1, <1>2, <1>3, <1>4 DEF SidecarStep

\* A step of others.
LEMMA OthersKeep ==
    ASSUME Inv, UNCHANGED invVars
    PROVE  Inv'
  BY DEF Inv, invVars, AwaitedPending, Waiting, WireType

\* A new transport has no requests.
LEMMA InitHolds == Init => Inv
<1>1. Idle \in Call /\ Idle.at \notin Awaits
  BY DEF Idle, Call, Awaits
<1>2. Init => WireType
  BY <1>1 DEF Init, WireType
<1>3. Init => AwaitedPending
  BY <1>1 DEF Init, AwaitedPending, Waiting
<1>4. QED
  BY <1>2, <1>3 DEF Inv

\* Whatever the callers, the I/O tasks and the sidecar do, a task that awaits
\* a request has its id in the transport's pending map, where the answer or
\* the disconnect finds it, and no two tasks await the same id.
THEOREM NoRequestForgotten == Spec => []AwaitedPending
<1>1. Inv /\ [Next]_vars => Inv'
  <2> SUFFICES ASSUME Inv, [Next]_vars PROVE Inv'
    OBVIOUS
  <2>1. CASE UNCHANGED vars
    BY <2>1, OthersKeep DEF vars, sidecarVars, wireVars, invVars
  <2>2. ASSUME NEW c \in Callers,
               \/ Request(c) \/ Start(c, "exec") \/ Start(c, "spawn")
               \/ Abandon(c) \/ KillForTimeout(c) \/ CallStep(c)
        PROVE  Inv'
    BY <2>2, NewCallKeeps, InterruptKeeps, CallStepKeeps
  <2>3. QED
    BY <2>1, <2>2, ReaderKeeps, SidecarKeeps DEF Next
<1>2. Inv => AwaitedPending
  BY DEF Inv
<1>3. QED
  BY <1>1, <1>2, InitHolds, PTL DEF Spec

-----------------------------------------------------------------------------
(* The requests. *)

\* What the ends of a channel do to the places in it.
LEMMA Appended ==
    ASSUME NEW S, NEW s \in Seq(S), NEW x \in S
    PROVE  /\ Append(s, x) \in Seq(S) /\ Len(s) \in Nat
           /\ DOMAIN Append(s, x) = DOMAIN s \cup {Len(s) + 1} /\ Len(s) + 1 \notin DOMAIN s
           /\ Append(s, x)[Len(s) + 1] = x
           /\ \A k \in DOMAIN s : Append(s, x)[k] = s[k]
OBVIOUS

\* What is left of a sequence once its head is taken: every element is an old one, one place on.
LEMMA Taken ==
    ASSUME NEW S, NEW s \in Seq(S), s # <<>>
    PROVE  /\ Tail(s) \in Seq(S) /\ 1 \in DOMAIN s /\ Head(s) = s[1] /\ Head(s) \in S
           /\ \A k \in DOMAIN Tail(s) : k + 1 \in DOMAIN s /\ k + 1 # 1 /\ Tail(s)[k] = s[k + 1]
           /\ \A k \in DOMAIN s \ {1} : k - 1 \in DOMAIN Tail(s) /\ Tail(s)[k - 1] = s[k]
           /\ \A k, l \in DOMAIN Tail(s) : k + 1 = l + 1 => k = l
<1>1. /\ Tail(s) \in Seq(S) /\ Len(s) \in Nat /\ Len(s) > 0 /\ Len(Tail(s)) = Len(s) - 1
      /\ DOMAIN s = 1..Len(s) /\ DOMAIN Tail(s) = 1..(Len(s) - 1)
      /\ Head(s) = s[1] /\ Head(s) \in S
  OBVIOUS
<1>2. \A k \in 1..(Len(s) - 1) : Tail(s)[k] = s[k + 1]
  OBVIOUS
<1>3. \A k \in 1..Len(s) : k # 1 => k - 1 \in 1..(Len(s) - 1) /\ (k - 1) + 1 = k
  BY <1>1
<1>4. \A k \in 1..(Len(s) - 1) : k + 1 \in 1..Len(s) /\ k + 1 # 1
  BY <1>1
<1>5. \A k, l \in 1..(Len(s) - 1) : k + 1 = l + 1 => k = l
  BY <1>1
<1>6. 1 \in 1..Len(s)
  BY <1>1
<1>7. \A k \in DOMAIN s \ {1} : k - 1 \in DOMAIN Tail(s) /\ Tail(s)[k - 1] = s[k]
  BY Zenon, <1>1, <1>2, <1>3
<1>8. QED
  BY Zenon, <1>1, <1>2, <1>4, <1>5, <1>6, <1>7

\* Where a request is between the caller and its answer.
IsQueued(id) == \E k \in DOMAIN outbox : outbox[k].id = id
IsHeld(id) == \E f \in inbox : f.id = id
IsAnswered(id) == \E k \in DOMAIN stdout : stdout[k].type = "response" /\ stdout[k].id = id

\* It is at one place, and there once, and in the pending map while it is.
Once ==
    /\ \A k, l \in DOMAIN outbox : outbox[k].id = outbox[l].id => k = l
    /\ \A f, g \in inbox : f.id = g.id => f = g
    /\ \A k, l \in DOMAIN stdout :
          stdout[k].type = "response" /\ stdout[l].type = "response" /\ stdout[k].id = stdout[l].id => k = l
Placed(id) ==
    /\ ~ (IsQueued(id) /\ IsHeld(id)) /\ ~ (IsQueued(id) /\ IsAnswered(id)) /\ ~ (IsHeld(id) /\ IsAnswered(id))
    /\ id \in pending <=> IsQueued(id) \/ IsHeld(id) \/ IsAnswered(id)
Conserved ==
    child = "up" => writer = "running" /\ reader = "running" /\ Once /\ \A id \in Nat : Placed(id)

\* A request that is posted gets an id that is nowhere yet.
LEMMA PostConserves ==
    ASSUME Inv, Conserved, NEW op \in Awaits \cup {"kill"}, NEW process \in Nat, Post(op, process),
           UNCHANGED <<child, inbox>>
    PROVE  Conserved'
<1> SUFFICES ASSUME child = "up" PROVE writer' = "running" /\ reader' = "running" /\ Once'
                                       /\ \A id \in Nat : Placed(id)'
  BY Zenon DEF Conserved
<1>0. writer = "running" /\ reader = "running" /\ Once /\ \A id \in Nat : Placed(id)
  BY Zenon DEF Conserved
<1>1. PICK x \in Frame : x = [id |-> nextId, op |-> op, process |-> process]
  <2>1. nextId \in Nat
    BY DEF Inv, WireType
  <2>2. [id |-> nextId, op |-> op, process |-> process] \in Frame
    BY <2>1 DEF Frame
  <2>3. QED
    BY Zenon, <2>2
<1>2. x.id = nextId
  BY <1>1
<1>3. /\ pending' = pending \cup {nextId} /\ outbox' = Append(outbox, x)
      /\ UNCHANGED <<stdout, writer, reader>> /\ outbox \in Seq(Frame) /\ nextId \notin pending
      /\ nextId \in Nat
  BY <1>0, <1>1, PostType DEF Post, Inv, WireType
<1>4. PICK n : n = Len(outbox) + 1
  OBVIOUS
<1>5. /\ DOMAIN outbox' = DOMAIN outbox \cup {n} /\ n \notin DOMAIN outbox /\ outbox'[n] = x
      /\ \A k \in DOMAIN outbox : outbox'[k] = outbox[k]
  <2>1. /\ DOMAIN Append(outbox, x) = DOMAIN outbox \cup {n} /\ n \notin DOMAIN outbox
        /\ Append(outbox, x)[n] = x
        /\ \A k \in DOMAIN outbox : Append(outbox, x)[k] = outbox[k]
    BY <1>3, <1>4, Appended
  <2>2. QED
    BY Zenon, <1>3, <2>1
<1>6. \A k \in DOMAIN outbox : outbox[k].id # nextId
  BY Zenon, <1>0, <1>3 DEF Placed, IsQueued
<1>7. Once'
  <2>1. \A k, l \in DOMAIN outbox' : outbox'[k].id = outbox'[l].id => k = l
    BY Zenon, <1>0, <1>2, <1>5, <1>6 DEF Once
  <2>2. QED
    BY Zenon, <1>0, <1>3, <2>1 DEF Once
<1>8. ASSUME NEW id \in Nat PROVE Placed(id)'
  <2>1. /\ IsQueued(id)' <=> IsQueued(id) \/ id = nextId
        /\ IsHeld(id)' <=> IsHeld(id)
        /\ IsAnswered(id)' <=> IsAnswered(id)
    <3>1. IsQueued(id)' <=> IsQueued(id) \/ id = nextId
      BY Zenon, <1>2, <1>5 DEF IsQueued
    <3>2. (IsHeld(id)' <=> IsHeld(id)) /\ (IsAnswered(id)' <=> IsAnswered(id))
      BY Zenon, <1>3 DEF IsHeld, IsAnswered
    <3>3. QED
      BY Zenon, <3>1, <3>2
  <2>2. QED
    BY Zenon, <1>0, <1>3, <2>1 DEF Placed
<1>9. QED
  BY Zenon, <1>0, <1>3, <1>7, <1>8

\* The writer moves a request from the channel to the sidecar.
LEMMA WriteConserves ==
    ASSUME Inv, Conserved, Write
    PROVE  Conserved'
<1> SUFFICES ASSUME child = "up" PROVE writer' = "running" /\ reader' = "running" /\ Once'
                                       /\ \A id \in Nat : Placed(id)'
  BY Zenon DEF Conserved, Write
<1>0. writer = "running" /\ reader = "running" /\ Once /\ \A id \in Nat : Placed(id)
  BY Zenon DEF Conserved
<1>1. /\ outbox \in Seq(Frame) /\ outbox # <<>> /\ UNCHANGED <<stdout, writer, reader, pending>>
      /\ inbox' = inbox \cup {Head(outbox)} /\ outbox' = Tail(outbox)
  BY Zenon DEF Write, Inv, WireType
<1>2. PICK x \in Frame : x = Head(outbox) /\ x = outbox[1] /\ 1 \in DOMAIN outbox
  BY Zenon, <1>1, Taken
<1>3. x.id \in Nat
  BY <1>2 DEF Frame
<1>4. /\ \A k \in DOMAIN outbox' : k + 1 \in DOMAIN outbox /\ k + 1 # 1 /\ outbox'[k] = outbox[k + 1]
      /\ \A k \in DOMAIN outbox \ {1} : k - 1 \in DOMAIN outbox' /\ outbox'[k - 1] = outbox[k]
      /\ \A k, l \in DOMAIN outbox' : k + 1 = l + 1 => k = l
  <2>1. /\ \A k \in DOMAIN Tail(outbox) : k + 1 \in DOMAIN outbox /\ k + 1 # 1 /\ Tail(outbox)[k] = outbox[k + 1]
        /\ \A k \in DOMAIN outbox \ {1} : k - 1 \in DOMAIN Tail(outbox) /\ Tail(outbox)[k - 1] = outbox[k]
        /\ \A k, l \in DOMAIN Tail(outbox) : k + 1 = l + 1 => k = l
    BY Zenon, <1>1, Taken
  <2>2. QED
    BY Zenon, <1>1, <2>1
<1>5. IsQueued(x.id) /\ ~ IsHeld(x.id)
  BY Zenon, <1>0, <1>2, <1>3 DEF IsQueued, Placed
<1>6. ASSUME NEW id \in Nat
      PROVE  /\ IsQueued(id)' <=> IsQueued(id) /\ id # x.id
             /\ IsHeld(id)' <=> IsHeld(id) \/ id = x.id
             /\ IsAnswered(id)' <=> IsAnswered(id)
  <2>1. IsQueued(id)' => IsQueued(id) /\ id # x.id
    <3> SUFFICES ASSUME NEW k \in DOMAIN outbox', outbox'[k].id = id PROVE IsQueued(id) /\ id # x.id
      BY Zenon DEF IsQueued
    <3>1. k + 1 \in DOMAIN outbox /\ k + 1 # 1 /\ outbox[k + 1].id = id
      BY Zenon, <1>4
    <3>2. QED
      BY Zenon, <1>0, <1>2, <3>1 DEF IsQueued, Once
  <2>2. IsQueued(id) /\ id # x.id => IsQueued(id)'
    <3> SUFFICES ASSUME NEW k \in DOMAIN outbox, outbox[k].id = id, id # x.id PROVE IsQueued(id)'
      BY Zenon DEF IsQueued
    <3>1. k # 1
      BY Zenon, <1>2
    <3>2. k - 1 \in DOMAIN outbox' /\ outbox'[k - 1].id = id
      BY Zenon, <1>4, <3>1
    <3>3. QED
      BY Zenon, <3>2 DEF IsQueued
  <2>3. IsHeld(id)' <=> IsHeld(id) \/ id = x.id
    BY Zenon, <1>1, <1>2 DEF IsHeld
  <2>4. IsAnswered(id)' <=> IsAnswered(id)
    BY Zenon, <1>1 DEF IsAnswered
  <2>5. QED
    BY Zenon, <2>1, <2>2, <2>3, <2>4
<1>7. Once'
  <2>1. ASSUME NEW k \in DOMAIN outbox', NEW l \in DOMAIN outbox', outbox'[k].id = outbox'[l].id
        PROVE  k = l
    <3>1. /\ k + 1 \in DOMAIN outbox /\ outbox'[k] = outbox[k + 1]
          /\ l + 1 \in DOMAIN outbox /\ outbox'[l] = outbox[l + 1]
      BY Zenon, <1>4
    <3>2. outbox[k + 1].id = outbox[l + 1].id
      BY Zenon, <2>1, <3>1
    <3>3. k + 1 = l + 1
      BY Zenon, <1>0, <3>1, <3>2 DEF Once
    <3>4. QED
      BY Zenon, <1>4, <3>3
  <2>2. \A f, g \in inbox' : f.id = g.id => f = g
    BY Zenon, <1>0, <1>1, <1>2, <1>5 DEF Once, IsHeld
  <2>3. QED
    BY Zenon, <1>0, <1>1, <2>1, <2>2 DEF Once
<1>8. ASSUME NEW id \in Nat PROVE Placed(id)'
  BY Zenon, <1>0, <1>1, <1>5, <1>6, <1>8 DEF Placed
<1>9. QED
  BY Zenon, <1>0, <1>1, <1>7, <1>8

\* The sidecar answers a request it holds.
LEMMA AnswerConserves ==
    ASSUME Inv, Conserved, NEW f \in inbox, Answer(f)
    PROVE  Conserved'
<1> SUFFICES ASSUME child = "up" PROVE writer' = "running" /\ reader' = "running" /\ Once'
                                       /\ \A id \in Nat : Placed(id)'
  BY Zenon DEF Conserved, Answer
<1>0. writer = "running" /\ reader = "running" /\ Once /\ \A id \in Nat : Placed(id)
  BY Zenon DEF Conserved
<1>1. /\ stdout \in Seq(Response \cup EventFrame) /\ f \in Frame
      /\ UNCHANGED <<outbox, writer, reader, pending>> /\ inbox' = inbox \ {f}
  BY Zenon DEF Answer, Inv, WireType
<1>2. f.id \in Nat
  BY <1>1 DEF Frame
<1>3. PICK result \in {"ok", "rejected"} :
         stdout' = Append(stdout, [type |-> "response", id |-> f.id, result |-> result])
  BY DEF Answer, Emit
<1>4. PICK x \in Response \cup EventFrame : x = [type |-> "response", id |-> f.id, result |-> result]
  <2>1. [type |-> "response", id |-> f.id, result |-> result] \in Response
    BY <1>2 DEF Response
  <2>2. QED
    BY Zenon, <2>1
<1>5. x.type = "response" /\ x.id = f.id
  BY <1>4
<1>6. PICK n : n = Len(stdout) + 1
  OBVIOUS
<1>7. /\ DOMAIN stdout' = DOMAIN stdout \cup {n} /\ n \notin DOMAIN stdout /\ stdout'[n] = x
      /\ \A k \in DOMAIN stdout : stdout'[k] = stdout[k]
  <2>1. /\ DOMAIN Append(stdout, x) = DOMAIN stdout \cup {n} /\ n \notin DOMAIN stdout
        /\ Append(stdout, x)[n] = x
        /\ \A k \in DOMAIN stdout : Append(stdout, x)[k] = stdout[k]
    BY <1>1, <1>6, Appended
  <2>2. QED
    BY Zenon, <1>3, <1>4, <2>1
<1>8. IsHeld(f.id) /\ ~ IsAnswered(f.id)
  BY Zenon, <1>0, <1>2 DEF IsHeld, Placed
<1>9. ASSUME NEW id \in Nat
      PROVE  /\ IsQueued(id)' <=> IsQueued(id)
             /\ IsHeld(id)' <=> IsHeld(id) /\ id # f.id
             /\ IsAnswered(id)' <=> IsAnswered(id) \/ id = f.id
  <2>1. IsQueued(id)' <=> IsQueued(id)
    BY Zenon, <1>1 DEF IsQueued
  <2>2. IsHeld(id)' <=> IsHeld(id) /\ id # f.id
    BY Zenon, <1>0, <1>1 DEF IsHeld, Once
  <2>3. IsAnswered(id)' <=> IsAnswered(id) \/ id = f.id
    BY Zenon, <1>5, <1>7 DEF IsAnswered
  <2>4. QED
    BY Zenon, <2>1, <2>2, <2>3
<1>10. Once'
  <2>1. \A k, l \in DOMAIN stdout' :
          stdout'[k].type = "response" /\ stdout'[l].type = "response" /\ stdout'[k].id = stdout'[l].id => k = l
    <3> SUFFICES ASSUME NEW k \in DOMAIN stdout', NEW l \in DOMAIN stdout', stdout'[k].type = "response",
                        stdout'[l].type = "response", stdout'[k].id = stdout'[l].id
                 PROVE  k = l
      BY Zenon
    <3>1. CASE k = n /\ l # n
      BY Zenon, <1>5, <1>7, <1>8, <3>1 DEF IsAnswered
    <3>2. CASE l = n /\ k # n
      BY Zenon, <1>5, <1>7, <1>8, <3>2 DEF IsAnswered
    <3>3. CASE k # n /\ l # n
      BY Zenon, <1>0, <1>7, <3>3 DEF Once
    <3>4. QED
      BY Zenon, <3>1, <3>2, <3>3
  <2>2. QED
    BY Zenon, <1>0, <1>1, <2>1 DEF Once
<1>11. ASSUME NEW id \in Nat PROVE Placed(id)'
  BY Zenon, <1>0, <1>1, <1>8, <1>9, <1>11 DEF Placed
<1>12. QED
  BY Zenon, <1>0, <1>1, <1>10, <1>11

\* What the sidecar says of a process is no answer.
LEMMA EmitConserves ==
    ASSUME Inv, Conserved, NEW p \in alive, Output(p) \/ Exit(p)
    PROVE  Conserved'
<1> SUFFICES ASSUME child = "up" PROVE writer' = "running" /\ reader' = "running" /\ Once'
                                       /\ \A id \in Nat : Placed(id)'
  BY Zenon DEF Conserved, Output, Exit
<1>0. writer = "running" /\ reader = "running" /\ Once /\ \A id \in Nat : Placed(id)
  BY Zenon DEF Conserved
<1>1. /\ stdout \in Seq(Response \cup EventFrame) /\ p \in Nat
      /\ UNCHANGED <<outbox, writer, reader, pending, inbox>>
  BY Zenon DEF Output, Exit, Inv, WireType
<1>2. PICK type \in {"output", "exited"} :
         stdout' = Append(stdout, [type |-> "event", event |-> [type |-> type, process |-> p]])
  BY DEF Output, Exit, Emit
<1>4. PICK x \in Response \cup EventFrame : x = [type |-> "event", event |-> [type |-> type, process |-> p]]
  <2>1. [type |-> "event", event |-> [type |-> type, process |-> p]] \in EventFrame
    BY <1>1 DEF EventFrame, Event
  <2>2. QED
    BY Zenon, <2>1
<1>5. x.type # "response"
  BY <1>4
<1>6. PICK n : n = Len(stdout) + 1
  OBVIOUS
<1>7. /\ DOMAIN stdout' = DOMAIN stdout \cup {n} /\ n \notin DOMAIN stdout /\ stdout'[n] = x
      /\ \A k \in DOMAIN stdout : stdout'[k] = stdout[k]
  <2>1. /\ DOMAIN Append(stdout, x) = DOMAIN stdout \cup {n} /\ n \notin DOMAIN stdout
        /\ Append(stdout, x)[n] = x
        /\ \A k \in DOMAIN stdout : Append(stdout, x)[k] = stdout[k]
    BY <1>1, <1>6, Appended
  <2>2. QED
    BY Zenon, <1>2, <1>4, <2>1
<1>9. ASSUME NEW id \in Nat PROVE Placed(id)'
  <2>1. IsAnswered(id)' <=> IsAnswered(id)
    BY Zenon, <1>5, <1>7 DEF IsAnswered
  <2>2. (IsQueued(id)' <=> IsQueued(id)) /\ (IsHeld(id)' <=> IsHeld(id))
    BY Zenon, <1>1 DEF IsQueued, IsHeld
  <2>3. QED
    BY Zenon, <1>0, <1>1, <2>1, <2>2 DEF Placed
<1>10. Once'
  <2>1. \A k, l \in DOMAIN stdout' :
          stdout'[k].type = "response" /\ stdout'[l].type = "response" /\ stdout'[k].id = stdout'[l].id => k = l
    BY Zenon, <1>0, <1>5, <1>7 DEF Once
  <2>2. QED
    BY Zenon, <1>0, <1>1, <2>1 DEF Once
<1>11. QED
  BY Zenon, <1>0, <1>1, <1>9, <1>10

\* The reader takes the oldest frame: an answer leaves with its entry, an
\* event leaves the requests alone.
LEMMA ReadConserves ==
    ASSUME Inv, Conserved, Read
    PROVE  Conserved'
<1> SUFFICES ASSUME child = "up" PROVE writer' = "running" /\ reader' = "running" /\ Once'
                                       /\ \A id \in Nat : Placed(id)'
  BY Zenon DEF Conserved, Read, sidecarVars
<1>0. writer = "running" /\ reader = "running" /\ Once /\ \A id \in Nat : Placed(id)
  BY Zenon DEF Conserved
<1>1. /\ stdout \in Seq(Response \cup EventFrame) /\ stdout # <<>> /\ UNCHANGED <<outbox, inbox, writer, reader>>
      /\ stdout' = Tail(stdout)
  BY Zenon DEF Read, Inv, WireType, sidecarVars
<1>2. PICK x \in Response \cup EventFrame : x = Head(stdout) /\ x = stdout[1] /\ 1 \in DOMAIN stdout
  BY Zenon, <1>1, Taken
<1>3. /\ \A k \in DOMAIN stdout' : k + 1 \in DOMAIN stdout /\ k + 1 # 1 /\ stdout'[k] = stdout[k + 1]
      /\ \A k \in DOMAIN stdout \ {1} : k - 1 \in DOMAIN stdout' /\ stdout'[k - 1] = stdout[k]
      /\ \A k, l \in DOMAIN stdout' : k + 1 = l + 1 => k = l
  <2>1. /\ \A k \in DOMAIN Tail(stdout) : k + 1 \in DOMAIN stdout /\ k + 1 # 1 /\ Tail(stdout)[k] = stdout[k + 1]
        /\ \A k \in DOMAIN stdout \ {1} : k - 1 \in DOMAIN Tail(stdout) /\ Tail(stdout)[k - 1] = stdout[k]
        /\ \A k, l \in DOMAIN Tail(stdout) : k + 1 = l + 1 => k = l
    BY Zenon, <1>1, Taken
  <2>2. QED
    BY Zenon, <1>1, <2>1
<1>4. Once'
  <2>1. ASSUME NEW k \in DOMAIN stdout', NEW l \in DOMAIN stdout', stdout'[k].type = "response",
               stdout'[l].type = "response", stdout'[k].id = stdout'[l].id
        PROVE  k = l
    <3>1. /\ k + 1 \in DOMAIN stdout /\ stdout'[k] = stdout[k + 1]
          /\ l + 1 \in DOMAIN stdout /\ stdout'[l] = stdout[l + 1]
      BY Zenon, <1>3
    <3>2. stdout[k + 1].type = "response" /\ stdout[l + 1].type = "response" /\ stdout[k + 1].id = stdout[l + 1].id
      BY Zenon, <2>1, <3>1
    <3>3. k + 1 = l + 1
      BY Zenon, <1>0, <3>1, <3>2 DEF Once
    <3>4. QED
      BY Zenon, <1>3, <3>3
  <2>2. \A k, l \in DOMAIN stdout' :
          stdout'[k].type = "response" /\ stdout'[l].type = "response" /\ stdout'[k].id = stdout'[l].id => k = l
    BY Zenon, <2>1
  <2>3. QED
    BY Zenon, <1>0, <1>1, <2>2 DEF Once
<1>5. ASSUME NEW id \in Nat
      PROVE  /\ IsQueued(id)' <=> IsQueued(id)
             /\ IsHeld(id)' <=> IsHeld(id)
             /\ IsAnswered(id)' <=> IsAnswered(id) /\ ~ (x.type = "response" /\ x.id = id)
  <2>1. (IsQueued(id)' <=> IsQueued(id)) /\ (IsHeld(id)' <=> IsHeld(id))
    BY Zenon, <1>1 DEF IsQueued, IsHeld
  <2>2. ASSUME NEW k \in DOMAIN stdout', stdout'[k].type = "response", stdout'[k].id = id
        PROVE  IsAnswered(id) /\ ~ (x.type = "response" /\ x.id = id)
    <3>1. k + 1 \in DOMAIN stdout /\ k + 1 # 1 /\ stdout[k + 1].type = "response" /\ stdout[k + 1].id = id
      BY Zenon, <1>3, <2>2
    <3>2. QED
      BY Zenon, <1>0, <1>2, <3>1 DEF IsAnswered, Once
  <2>3. ASSUME NEW k \in DOMAIN stdout, stdout[k].type = "response", stdout[k].id = id,
               ~ (x.type = "response" /\ x.id = id)
        PROVE  IsAnswered(id)'
    <3>1. k # 1
      BY Zenon, <1>2, <2>3
    <3>2. k - 1 \in DOMAIN stdout' /\ stdout'[k - 1] = stdout[k]
      BY Zenon, <1>3, <3>1
    <3>3. QED
      BY Zenon, <2>3, <3>2 DEF IsAnswered
  <2>4. QED
    BY Zenon, <2>1, <2>2, <2>3 DEF IsAnswered
<1>6. CASE x.type = "response"
  <2>1. pending' = pending \ {x.id}
    BY Zenon, <1>2, <1>6 DEF Read, HandleResponse
  <2>2. x.id \in Nat
    BY <1>6 DEF Response, EventFrame
  <2>3. IsAnswered(x.id)
    BY Zenon, <1>2, <1>6 DEF IsAnswered
  <2>4. ~ IsQueued(x.id) /\ ~ IsHeld(x.id)
    BY Zenon, <1>0, <2>2, <2>3 DEF Placed
  <2>5. ASSUME NEW id \in Nat PROVE Placed(id)'
    <3>1. Placed(id)
      BY Zenon, <1>0
    <3>2. QED
      BY Zenon, <1>5, <1>6, <2>1, <2>4, <3>1 DEF Placed
  <2>6. QED
    BY Zenon, <1>0, <1>1, <1>4, <2>5
<1>7. CASE x.type # "response"
  <2>1. pending' = pending
    BY Zenon, <1>2, <1>7 DEF Read, HandleEvent
  <2>2. ASSUME NEW id \in Nat PROVE Placed(id)'
    <3>1. Placed(id)
      BY Zenon, <1>0
    <3>2. QED
      BY Zenon, <1>5, <1>7, <2>1, <3>1 DEF Placed
  <2>3. QED
    BY Zenon, <1>0, <1>1, <1>4, <2>2
<1>8. QED
  BY Zenon, <1>6, <1>7

\* Steps that leave the frames and the map alone.
LEMMA QuietConserves ==
    ASSUME Conserved, UNCHANGED <<child, writer, reader, outbox, inbox, stdout, pending>>
    PROVE  Conserved'
  BY Zenon DEF Conserved, Once, Placed, IsQueued, IsHeld, IsAnswered

\* A dead sidecar owes nothing.
LEMMA GoneConserves ==
    ASSUME child' = "gone"
    PROVE  Conserved'
<1>1. "gone" # "up"
  OBVIOUS
<1>2. QED
  BY Zenon, <1>1 DEF Conserved

\* A new transport carries nothing.
LEMMA InitConserves ==
    ASSUME Init
    PROVE  Conserved
<1>1. /\ inbox = {} /\ pending = {} /\ writer = "running" /\ reader = "running"
      /\ DOMAIN outbox = {} /\ DOMAIN stdout = {}
  BY DEF Init
<1>2. QED
  BY Zenon, <1>1 DEF Conserved, Once, Placed, IsQueued, IsHeld, IsAnswered

\* A place taken at most once holds one thing or none.
LEMMA AtMostOne ==
    ASSUME NEW S, \A x, y \in S : x = y
    PROVE  Cardinality(S) = IF S = {} THEN 0 ELSE 1
<1>1. CASE S = {}
  BY <1>1, FS_EmptySet
<1>2. CASE S # {}
  <2>0. PICK x \in S : TRUE
    BY Zenon, <1>2
  <2>1. S = {x}
    BY Zenon, <2>0
  <2>2. Cardinality({x}) = 1
    BY Zenon, FS_Singleton
  <2>3. QED
    BY <1>2, <2>1, <2>2
<1>3. QED
  BY <1>1, <1>2

\* Counted, this is what the runs check.
LEMMA CountRequests ==
    ASSUME Conserved, nextId \in Nat
    PROVE  RequestsConserved
<1> SUFFICES ASSUME child = "up", NEW id \in 1..(nextId - 1)
             PROVE  Cardinality(Queued(id)) + Cardinality(Held(id)) + Cardinality(Answered(id))
                      = IF id \in pending THEN 1 ELSE 0
  BY Zenon DEF RequestsConserved
<1>1. id \in Nat
  OBVIOUS
<1>2. Once /\ Placed(id)
  BY Zenon, <1>1 DEF Conserved
<1>3. /\ Cardinality(Queued(id)) = IF IsQueued(id) THEN 1 ELSE 0
      /\ Cardinality(Held(id)) = IF IsHeld(id) THEN 1 ELSE 0
      /\ Cardinality(Answered(id)) = IF IsAnswered(id) THEN 1 ELSE 0
  <2>1. /\ \A x, y \in Queued(id) : x = y
        /\ \A x, y \in Held(id) : x = y
        /\ \A x, y \in Answered(id) : x = y
    BY Zenon, <1>2 DEF Once, Queued, Held, Answered
  <2>2. /\ (Queued(id) = {}) <=> ~ IsQueued(id)
        /\ (Held(id) = {}) <=> ~ IsHeld(id)
        /\ (Answered(id) = {}) <=> ~ IsAnswered(id)
    BY Zenon DEF IsQueued, IsHeld, IsAnswered, Queued, Held, Answered
  <2>3. /\ Cardinality(Queued(id)) = IF Queued(id) = {} THEN 0 ELSE 1
        /\ Cardinality(Held(id)) = IF Held(id) = {} THEN 0 ELSE 1
        /\ Cardinality(Answered(id)) = IF Answered(id) = {} THEN 0 ELSE 1
    BY Zenon, <2>1, AtMostOne
  <2>4. QED
    BY <2>2, <2>3
<1>4. QED
  BY <1>2, <1>3 DEF Placed

-----------------------------------------------------------------------------
(* The exits. *)

\* A call that runs a process, the exit it waits for, and where that is.
Running == {"execute", "stdin", "close", "events"}
Exited(p) == [type |-> "exited", process |-> p]
Safe(c, p) ==
    \/ p \in alive
    \/ \E k \in DOMAIN events[c] : events[c][k] = Exited(p)
    \/ \E k \in DOMAIN stdout : stdout[k].type = "event" /\ stdout[k].event = Exited(p)

\* It awaits its Execute request, which is request id; the sidecar granted it.
Asking(c) == call[c].at = "execute" /\ call[c].reply = "none"
Granted(id) == \E k \in DOMAIN stdout :
    stdout[k].type = "response" /\ stdout[k].id = id /\ stdout[k].result = "ok"
Expecting(c, id) ==
    \/ call[c].at \in {"stdin", "close", "events"}
    \/ call[c].at = "execute" /\ call[c].reply = "ok"
    \/ Asking(c) /\ Granted(id)
Executes(id) ==
    /\ \A k \in DOMAIN outbox : outbox[k].id = id => outbox[k].op = "execute" /\ outbox[k].process = id
    /\ \A f \in inbox : f.id = id => f.op = "execute" /\ f.process = id

\* From the grant on, the exit of the process finds its receiver.
Watched(c, p, id) ==
    /\ call[c].at \in Running => call[c].kind \in {"exec", "spawn"}
    /\ ~ call[c].lagged /\ Expecting(c, id) => Safe(c, p)
    /\ Asking(c) => p = id /\ Executes(id)
Exits ==
    child = "up" => \A c \in Callers : \A p, id \in Nat :
                       p = call[c].process /\ id = call[c].id => Watched(c, p, id)

\* What the writer and the sidecar have to keep.
LEMMA FramesWatched ==
    ASSUME Exits, child = "up", UNCHANGED call,
           \A c \in Callers : \A p, id \in Nat : Safe(c, p) => Safe(c, p)',
           \A c \in Callers : \A p, id \in Nat :
              p = call[c].process /\ id = call[c].id /\ Asking(c) =>
                 /\ Granted(id)' => Granted(id) \/ Safe(c, p)'
                 /\ Executes(id)'
    PROVE  Exits'
<1> SUFFICES ASSUME NEW c \in Callers, NEW p \in Nat, NEW id \in Nat, p = call[c].process, id = call[c].id
             PROVE  Watched(c, p, id)'
  BY Zenon DEF Exits
<1>1. Watched(c, p, id) /\ call' = call
  BY Zenon DEF Exits
<1>2. Asking(c)' <=> Asking(c)
  BY Zenon, <1>1 DEF Asking
<1>3. Expecting(c, id)' => Expecting(c, id) \/ Safe(c, p)'
  BY Zenon, <1>1, <1>2 DEF Expecting
<1>4. QED
  BY Zenon, <1>1, <1>2, <1>3 DEF Watched

\* The writer,
LEMMA WriteWatched ==
    ASSUME Inv, Exits, Write
    PROVE  Exits'
<1> SUFFICES ASSUME child = "up" PROVE Exits'
  BY Zenon DEF Exits, Write
<1>1. /\ outbox \in Seq(Frame) /\ outbox # <<>> /\ UNCHANGED <<stdout, alive, events, call>>
      /\ inbox' = inbox \cup {Head(outbox)} /\ outbox' = Tail(outbox)
  BY Zenon DEF Write, Inv, WireType
<1>2. /\ 1 \in DOMAIN outbox /\ Head(outbox) = outbox[1]
      /\ \A k \in DOMAIN Tail(outbox) : k + 1 \in DOMAIN outbox /\ Tail(outbox)[k] = outbox[k + 1]
  BY Zenon, <1>1, Taken
<1>3. \A k \in DOMAIN outbox' : k + 1 \in DOMAIN outbox /\ outbox'[k] = outbox[k + 1]
  BY Zenon, <1>1, <1>2
<1>4. ASSUME NEW c \in Callers, NEW p \in Nat, NEW id \in Nat
      PROVE  (Safe(c, p)' <=> Safe(c, p)) /\ (Granted(id)' <=> Granted(id))
  BY Zenon, <1>1 DEF Safe, Granted
<1>5. ASSUME NEW id \in Nat, Executes(id) PROVE Executes(id)'
  <2>1. \A k \in DOMAIN outbox' : outbox'[k].id = id => outbox'[k].op = "execute" /\ outbox'[k].process = id
    BY Zenon, <1>3, <1>5 DEF Executes
  <2>2. \A f \in inbox' : f.id = id => f.op = "execute" /\ f.process = id
    BY Zenon, <1>1, <1>2, <1>5 DEF Executes
  <2>3. QED
    BY Zenon, <2>1, <2>2 DEF Executes
<1>6. \A c \in Callers : \A p, id \in Nat :
         p = call[c].process /\ id = call[c].id /\ Asking(c) => Executes(id)
  BY Zenon DEF Exits, Watched
<1>7. QED
  BY Zenon, <1>1, <1>4, <1>5, <1>6, FramesWatched

\* the sidecar's answer, which starts the process when it grants an Execute,
LEMMA AnswerWatched ==
    ASSUME Inv, Exits, NEW f \in inbox, Answer(f)
    PROVE  Exits'
<1> SUFFICES ASSUME child = "up" PROVE Exits'
  BY Zenon DEF Exits, Answer
<1>1. /\ stdout \in Seq(Response \cup EventFrame) /\ f \in Frame
      /\ UNCHANGED <<outbox, events, call>> /\ inbox' = inbox \ {f}
  BY Zenon DEF Answer, Inv, WireType
<1>2. f.id \in Nat
  BY <1>1 DEF Frame
<1>3. PICK result \in {"ok", "rejected"} :
         /\ stdout' = Append(stdout, [type |-> "response", id |-> f.id, result |-> result])
         /\ alive' = IF f.op = "execute" /\ result = "ok" THEN alive \cup {f.process} ELSE alive
  BY DEF Answer, Emit
<1>4. PICK x \in Response \cup EventFrame : x = [type |-> "response", id |-> f.id, result |-> result]
  <2>1. [type |-> "response", id |-> f.id, result |-> result] \in Response
    BY <1>2 DEF Response
  <2>2. QED
    BY Zenon, <2>1
<1>5. x.type = "response" /\ x.id = f.id /\ x.result = result
  BY <1>4
<1>6. PICK n : n = Len(stdout) + 1
  OBVIOUS
<1>7. /\ DOMAIN stdout' = DOMAIN stdout \cup {n} /\ n \notin DOMAIN stdout /\ stdout'[n] = x
      /\ \A k \in DOMAIN stdout : stdout'[k] = stdout[k]
  <2>1. /\ DOMAIN Append(stdout, x) = DOMAIN stdout \cup {n} /\ n \notin DOMAIN stdout
        /\ Append(stdout, x)[n] = x
        /\ \A k \in DOMAIN stdout : Append(stdout, x)[k] = stdout[k]
    BY <1>1, <1>6, Appended
  <2>2. QED
    BY Zenon, <1>3, <1>4, <2>1
<1>8. alive \subseteq alive'
  BY Zenon, <1>3
<1>9. ASSUME NEW c \in Callers, NEW p \in Nat, Safe(c, p) PROVE Safe(c, p)'
  BY Zenon, <1>1, <1>7, <1>8, <1>9 DEF Safe
<1>10. ASSUME NEW c \in Callers, NEW p \in Nat, NEW id \in Nat, p = call[c].process, id = call[c].id, Asking(c)
       PROVE  (Granted(id)' => Granted(id) \/ Safe(c, p)') /\ Executes(id)'
  <2>1. p = id /\ Executes(id)
    BY Zenon, <1>10 DEF Exits, Watched
  <2>2. Executes(id)'
    BY Zenon, <1>1, <2>1 DEF Executes
  <2>3. Granted(id)' => Granted(id) \/ (f.id = id /\ result = "ok")
    BY Zenon, <1>5, <1>7 DEF Granted
  <2>4. f.id = id => f.op = "execute" /\ f.process = p
    BY Zenon, <2>1 DEF Executes
  <2>5. f.id = id /\ result = "ok" => p \in alive'
    BY Zenon, <1>3, <2>4
  <2>6. QED
    BY Zenon, <2>2, <2>3, <2>5 DEF Safe
<1>11. QED
  BY Zenon, <1>1, <1>9, <1>10, FramesWatched

\* and what it says of processes: the last of it is the exit.
LEMMA EmitWatched ==
    ASSUME Inv, Exits, NEW q \in alive, Output(q) \/ Exit(q)
    PROVE  Exits'
<1> SUFFICES ASSUME child = "up" PROVE Exits'
  BY Zenon DEF Exits, Output, Exit
<1>1. /\ stdout \in Seq(Response \cup EventFrame) /\ q \in Nat
      /\ UNCHANGED <<outbox, inbox, events, call>>
  BY Zenon DEF Output, Exit, Inv, WireType
<1>2. PICK type \in {"output", "exited"} :
         /\ stdout' = Append(stdout, [type |-> "event", event |-> [type |-> type, process |-> q]])
         /\ alive' = alive \/ (alive' = alive \ {q} /\ type = "exited")
  BY DEF Output, Exit, Emit
<1>4. PICK x \in Response \cup EventFrame : x = [type |-> "event", event |-> [type |-> type, process |-> q]]
  <2>1. [type |-> "event", event |-> [type |-> type, process |-> q]] \in EventFrame
    BY <1>1 DEF EventFrame, Event
  <2>2. QED
    BY Zenon, <2>1
<1>5. x.type = "event" /\ x.type # "response" /\ (type = "exited" => x.event = Exited(q))
  BY <1>4 DEF Exited
<1>6. PICK n : n = Len(stdout) + 1
  OBVIOUS
<1>7. /\ DOMAIN stdout' = DOMAIN stdout \cup {n} /\ n \notin DOMAIN stdout /\ stdout'[n] = x
      /\ \A k \in DOMAIN stdout : stdout'[k] = stdout[k]
  <2>1. /\ DOMAIN Append(stdout, x) = DOMAIN stdout \cup {n} /\ n \notin DOMAIN stdout
        /\ Append(stdout, x)[n] = x
        /\ \A k \in DOMAIN stdout : Append(stdout, x)[k] = stdout[k]
    BY <1>1, <1>6, Appended
  <2>2. QED
    BY Zenon, <1>2, <1>4, <2>1
<1>8. ASSUME NEW c \in Callers, NEW p \in Nat, Safe(c, p) PROVE Safe(c, p)'
  <2>1. CASE p \in alive
    <3>1. CASE p \in alive'
      BY Zenon, <3>1 DEF Safe
    <3>2. CASE p \notin alive'
      <4>1. p = q /\ type = "exited"
        BY Zenon, <1>2, <2>1, <3>2
      <4>2. QED
        BY Zenon, <1>5, <1>7, <4>1 DEF Safe
    <3>3. QED
      BY Zenon, <3>1, <3>2
  <2>2. CASE \E k \in DOMAIN events[c] : events[c][k] = Exited(p)
    BY Zenon, <1>1, <2>2 DEF Safe
  <2>3. CASE \E k \in DOMAIN stdout : stdout[k].type = "event" /\ stdout[k].event = Exited(p)
    BY Zenon, <1>7, <2>3 DEF Safe
  <2>4. QED
    BY Zenon, <1>8, <2>1, <2>2, <2>3 DEF Safe
<1>9. ASSUME NEW c \in Callers, NEW p \in Nat, NEW id \in Nat, p = call[c].process, id = call[c].id, Asking(c)
      PROVE  (Granted(id)' => Granted(id)) /\ Executes(id)'
  <2>1. Executes(id)
    BY Zenon, <1>9 DEF Exits, Watched
  <2>2. Executes(id)'
    BY Zenon, <1>1, <2>1 DEF Executes
  <2>3. Granted(id)' => Granted(id)
    BY Zenon, <1>5, <1>7 DEF Granted
  <2>4. QED
    BY Zenon, <2>2, <2>3
<1>10. QED
  BY Zenon, <1>1, <1>8, <1>9, FramesWatched

\* What the receivers hold, and the parties' states.
Routed ==
    /\ child \in {"up", "gone"}
    /\ writer \in {"running", "stopped"} /\ reader \in {"running", "stopped"}
    /\ events \in [Callers -> Seq(Event)]
    /\ \A c \in Callers : Len(events[c]) <= EventCapacity

\* What the reader has to keep of a call: it may only learn its answer, or
\* that it lags.
LEMMA ReadsWatched ==
    ASSUME Exits, child = "up", UNCHANGED <<outbox, inbox>>,
           \A c \in Callers :
              /\ call'[c].at = call[c].at /\ call'[c].kind = call[c].kind
              /\ call'[c].id = call[c].id /\ call'[c].process = call[c].process
              /\ call'[c].reply = "none" => call[c].reply = "none"
              /\ call[c].lagged => call'[c].lagged,
           \A c \in Callers : \A p, id \in Nat : p = call[c].process /\ id = call[c].id =>
              /\ Expecting(c, id)' => Expecting(c, id)
              /\ call[c].at \in Running /\ Safe(c, p) => Safe(c, p)' \/ call'[c].lagged
    PROVE  Exits'
<1> SUFFICES ASSUME NEW c \in Callers, NEW p \in Nat, NEW id \in Nat, p = call'[c].process, id = call'[c].id
             PROVE  Watched(c, p, id)'
  BY Zenon DEF Exits
<1>1. p = call[c].process /\ id = call[c].id
  BY Zenon
<1>2. Watched(c, p, id)
  BY Zenon, <1>1 DEF Exits
<1>3. Asking(c)' => Asking(c)
  BY Zenon DEF Asking
<1>4. Executes(id) => Executes(id)'
  BY Zenon DEF Executes
<1>5. Expecting(c, id) => call[c].at \in Running
  BY DEF Expecting, Running, Asking
<1>6. ~ call'[c].lagged /\ Expecting(c, id)' => Safe(c, p)'
  BY Zenon, <1>1, <1>2, <1>5 DEF Watched
<1>7. QED
  BY Zenon, <1>2, <1>3, <1>4, <1>6 DEF Watched

\* An answer is for one request; an event goes to every receiver.
LEMMA ReadWatched ==
    ASSUME Inv, Exits, Routed, Read
    PROVE  Exits'
<1> SUFFICES ASSUME child = "up" PROVE Exits'
  BY Zenon DEF Exits, Read, sidecarVars
<1>1. /\ stdout \in Seq(Response \cup EventFrame) /\ stdout # <<>> /\ UNCHANGED <<outbox, inbox, alive>>
      /\ stdout' = Tail(stdout) /\ call \in [Callers -> Call]
  BY Zenon DEF Read, Inv, WireType, sidecarVars
<1>2. PICK x \in Response \cup EventFrame : x = Head(stdout) /\ x = stdout[1] /\ 1 \in DOMAIN stdout
  BY Zenon, <1>1, Taken
<1>3. /\ \A k \in DOMAIN stdout' : k + 1 \in DOMAIN stdout /\ stdout'[k] = stdout[k + 1]
      /\ \A k \in DOMAIN stdout \ {1} : k - 1 \in DOMAIN stdout' /\ stdout'[k - 1] = stdout[k]
  <2>1. /\ \A k \in DOMAIN Tail(stdout) : k + 1 \in DOMAIN stdout /\ Tail(stdout)[k] = stdout[k + 1]
        /\ \A k \in DOMAIN stdout \ {1} : k - 1 \in DOMAIN Tail(stdout) /\ Tail(stdout)[k - 1] = stdout[k]
    BY Zenon, <1>1, Taken
  <2>2. QED
    BY Zenon, <1>1, <2>1
<1>4. ASSUME NEW id \in Nat, Granted(id)' PROVE Granted(id)
  <2>1. PICK k \in DOMAIN stdout' : stdout'[k].type = "response" /\ stdout'[k].id = id /\ stdout'[k].result = "ok"
    BY Zenon, <1>4 DEF Granted
  <2>2. k + 1 \in DOMAIN stdout /\ stdout'[k] = stdout[k + 1]
    BY Zenon, <1>3
  <2>3. QED
    BY Zenon, <2>1, <2>2 DEF Granted
<1>5. ASSUME NEW p \in Nat, NEW k \in DOMAIN stdout, stdout[k].type = "event", stdout[k].event = Exited(p)
      PROVE  \/ \E l \in DOMAIN stdout' : stdout'[l].type = "event" /\ stdout'[l].event = Exited(p)
             \/ x.type = "event" /\ x.event = Exited(p)
  <2>1. CASE k = 1
    BY Zenon, <1>2, <1>5, <2>1
  <2>2. CASE k # 1
    <3>1. k - 1 \in DOMAIN stdout' /\ stdout'[k - 1] = stdout[k]
      BY Zenon, <1>3, <2>2
    <3>2. QED
      BY Zenon, <1>5, <3>1
  <2>3. QED
    BY Zenon, <2>1, <2>2
<1>6. CASE x.type = "response"
  <2>1. UNCHANGED events /\ Resolve({x.id} \cap pending, x.result)
    BY Zenon, <1>2, <1>6 DEF Read, HandleResponse
  <2>2. x.result \in {"ok", "rejected"} /\ "response" # "event"
    BY <1>6 DEF Response, EventFrame
  <2>3. ASSUME NEW c \in Callers
        PROVE  \/ call'[c] = call[c]
               \/ /\ call[c].at \in Awaits /\ call[c].reply = "none" /\ call[c].id = x.id
                  /\ call'[c] = [call[c] EXCEPT !.reply = x.result]
    BY Zenon, <2>1 DEF Resolve
  <2>4. ASSUME NEW c \in Callers
        PROVE  LET r == [call[c] EXCEPT !.reply = x.result] IN
               /\ r.at = call[c].at /\ r.kind = call[c].kind /\ r.id = call[c].id
               /\ r.process = call[c].process /\ r.lagged = call[c].lagged /\ r.reply = x.result
    BY <1>1 DEF Call
  <2>5. ASSUME NEW c \in Callers
        PROVE  /\ call'[c].at = call[c].at /\ call'[c].kind = call[c].kind
               /\ call'[c].id = call[c].id /\ call'[c].process = call[c].process
               /\ call'[c].reply = "none" => call[c].reply = "none"
               /\ call[c].lagged => call'[c].lagged
               /\ call'[c].reply = "ok" => call[c].reply = "ok"
                                           \/ (call[c].reply = "none" /\ call[c].id = x.id /\ x.result = "ok")
    BY Zenon, <2>2, <2>3, <2>4
  <2>6. ASSUME NEW c \in Callers, NEW id \in Nat, id = call[c].id, Expecting(c, id)'
        PROVE  Expecting(c, id)
    <3>1. x.id = id /\ x.result = "ok" => Granted(id)
      BY Zenon, <1>2, <1>6 DEF Granted
    <3>2. QED
      BY Zenon, <1>4, <2>5, <2>6, <3>1 DEF Expecting, Asking
  <2>7. ASSUME NEW c \in Callers, NEW p \in Nat, Safe(c, p) PROVE Safe(c, p)'
    BY Zenon, <1>1, <1>5, <1>6, <2>1, <2>2, <2>7 DEF Safe
  <2>8. QED
    BY Zenon, <1>1, <2>5, <2>6, <2>7, ReadsWatched
<1>7. CASE x.type # "response"
  <2>1. HandleEvent(x)
    BY Zenon, <1>2, <1>7 DEF Read
  <2>2. x.event \in Event
    BY <1>7 DEF Response, EventFrame
  <2>3. PICK full : /\ full = {c \in Callers : Subscribed(c) /\ Full(c)}
                    /\ events' = [c \in Callers |->
                                    IF c \in full THEN Append(Tail(events[c]), x.event)
                                    ELSE IF Subscribed(c) THEN Append(events[c], x.event) ELSE events[c]]
                    /\ call' = [c \in Callers |->
                                  IF c \in full THEN [call[c] EXCEPT !.lagged = TRUE] ELSE call[c]]
    BY Zenon, <2>1 DEF HandleEvent
  <2>4. ASSUME NEW c \in Callers
        PROVE  LET r == [call[c] EXCEPT !.lagged = TRUE] IN
               /\ r.at = call[c].at /\ r.kind = call[c].kind /\ r.id = call[c].id
               /\ r.process = call[c].process /\ r.lagged /\ r.reply = call[c].reply
    BY <1>1 DEF Call
  <2>5. ASSUME NEW c \in Callers
        PROVE  /\ call'[c].at = call[c].at /\ call'[c].kind = call[c].kind
               /\ call'[c].id = call[c].id /\ call'[c].process = call[c].process
               /\ call'[c].reply = call[c].reply
               /\ call[c].lagged => call'[c].lagged
               /\ c \in full => call'[c].lagged
    BY Zenon, <2>3, <2>4
  <2>6. ASSUME NEW c \in Callers, NEW id \in Nat, Expecting(c, id)'
        PROVE  Expecting(c, id)
    BY Zenon, <1>4, <2>5, <2>6 DEF Expecting, Asking
  <2>7. ASSUME NEW c \in Callers, NEW p \in Nat, NEW id \in Nat, p = call[c].process, id = call[c].id,
               call[c].at \in Running, Safe(c, p)
        PROVE  Safe(c, p)' \/ call'[c].lagged
    <3> SUFFICES ASSUME c \notin full PROVE Safe(c, p)'
      BY Zenon, <2>5
    <3>1. call[c].kind \in {"exec", "spawn"}
      BY Zenon, <2>7 DEF Exits, Watched
    <3>2. Subscribed(c)
      BY <2>7, <3>1 DEF Subscribed, Running
    <3>3. events'[c] = Append(events[c], x.event)
      BY Zenon, <2>3, <3>2
    <3>4. events[c] \in Seq(Event)
      BY Zenon DEF Routed
    <3>5. PICK n : n = Len(events[c]) + 1
      OBVIOUS
    <3>6. /\ DOMAIN Append(events[c], x.event) = DOMAIN events[c] \cup {n}
          /\ Append(events[c], x.event)[n] = x.event
          /\ \A k \in DOMAIN events[c] : Append(events[c], x.event)[k] = events[c][k]
      BY <2>2, <3>4, <3>5, Appended
    <3>7. /\ n \in DOMAIN events'[c] /\ events'[c][n] = x.event
          /\ \A k \in DOMAIN events[c] : k \in DOMAIN events'[c] /\ events'[c][k] = events[c][k]
      BY Zenon, <3>3, <3>6
    <3>8. QED
      BY Zenon, <1>1, <1>5, <2>7, <3>7 DEF Safe
  <2>8. QED
    BY Zenon, <1>1, <2>5, <2>6, <2>7, ReadsWatched
<1>8. QED
  BY Zenon, <1>6, <1>7

\* The steps of a call: it leaves the processes, asks for one, or goes on
\* with the one it was granted.
Posts ==
    \/ UNCHANGED <<outbox, pending, nextId>>
    \/ \E op \in Awaits \cup {"kill"} : \E process \in Nat : Post(op, process)
Leaves(c) ==
    call'[c].at \notin Running /\ (UNCHANGED events \/ events' = [events EXCEPT ![c] = <<>>])
Asks(c) ==
    /\ Post("execute", nextId) /\ UNCHANGED events
    /\ call'[c].at = "execute" /\ call'[c].kind \in {"exec", "spawn"}
    /\ call'[c].id = nextId /\ call'[c].process = nextId /\ call'[c].reply \in {"none", "dropped"}
GoesOn(c) ==
    /\ call[c].at \in {"stdin", "close", "events"} \/ (call[c].at = "execute" /\ call[c].reply = "ok")
    /\ call'[c].at \in {"stdin", "close", "events"}
    /\ call'[c].kind = call[c].kind /\ call'[c].process = call[c].process /\ call'[c].lagged = call[c].lagged
    /\ \/ UNCHANGED events
       \/ /\ events[c] # <<>> /\ Head(events[c]) # Exited(call[c].process)
          /\ events' = [events EXCEPT ![c] = Tail(@)]
Moves(c) ==
    /\ UNCHANGED <<child, inbox, alive, stdout, writer, reader>> /\ Posts
    /\ \A d \in Callers \ {c} : call'[d] = call[d]
    /\ Leaves(c) \/ Asks(c) \/ GoesOn(c)

\* A new request is not the Execute of another call.
LEMMA PostExecutes ==
    ASSUME Inv, Posts, UNCHANGED inbox, NEW id \in Nat, id # nextId, Executes(id)
    PROVE  Executes(id)'
<1>1. CASE UNCHANGED outbox
  BY Zenon, <1>1 DEF Executes
<1>2. ASSUME NEW op \in Awaits \cup {"kill"}, NEW process \in Nat, Post(op, process), ~ UNCHANGED outbox
      PROVE  Executes(id)'
  <2>1. outbox \in Seq(Frame) /\ nextId \in Nat
    BY DEF Inv, WireType
  <2>2. PICK x \in Frame : x = [id |-> nextId, op |-> op, process |-> process]
    <3>1. [id |-> nextId, op |-> op, process |-> process] \in Frame
      BY <2>1 DEF Frame
    <3>2. QED
      BY Zenon, <3>1
  <2>3. x.id = nextId
    BY <2>2
  <2>4. outbox' = Append(outbox, x)
    BY Zenon, <1>2, <2>2 DEF Post
  <2>5. PICK n : n = Len(outbox) + 1
    OBVIOUS
  <2>6. /\ DOMAIN Append(outbox, x) = DOMAIN outbox \cup {n} /\ Append(outbox, x)[n] = x
        /\ \A k \in DOMAIN outbox : Append(outbox, x)[k] = outbox[k]
    BY <2>1, <2>5, Appended
  <2>7. /\ DOMAIN outbox' = DOMAIN outbox \cup {n} /\ outbox'[n] = x
        /\ \A k \in DOMAIN outbox : outbox'[k] = outbox[k]
    BY Zenon, <2>4, <2>6
  <2>8. QED
    BY Zenon, <2>3, <2>7 DEF Executes
<1>3. QED
  BY Zenon, <1>1, <1>2 DEF Posts

\* The new request of a call that asks for a process.
LEMMA AskExecutes ==
    ASSUME Inv, Conserved, child = "up", UNCHANGED <<inbox, stdout>>, Post("execute", nextId)
    PROVE  \A id \in Nat : id = nextId => Executes(id)' /\ ~ Granted(id)'
<1> SUFFICES ASSUME NEW id \in Nat, id = nextId PROVE Executes(id)' /\ ~ Granted(id)'
  BY Zenon
<1>0. "execute" \in Awaits \cup {"kill"}
  BY DEF Awaits
<1>1. nextId \in Nat /\ outbox \in Seq(Frame) /\ writer = "running"
  BY DEF Inv, WireType, Conserved
<1>2. nextId \notin pending
  BY Zenon, <1>0, <1>1, PostType
<1>3. ~ IsQueued(id) /\ ~ IsHeld(id) /\ ~ IsAnswered(id)
  BY Zenon, <1>2 DEF Conserved, Placed
<1>4. PICK x \in Frame : x = [id |-> nextId, op |-> "execute", process |-> nextId]
  <2>1. [id |-> nextId, op |-> "execute", process |-> nextId] \in Frame
    BY <1>0, <1>1 DEF Frame
  <2>2. QED
    BY Zenon, <2>1
<1>5. x.op = "execute" /\ x.process = nextId
  BY <1>4
<1>6. outbox' = Append(outbox, x)
  BY Zenon, <1>1, <1>4 DEF Post
<1>7. PICK n : n = Len(outbox) + 1
  OBVIOUS
<1>8. /\ DOMAIN Append(outbox, x) = DOMAIN outbox \cup {n} /\ Append(outbox, x)[n] = x
      /\ \A k \in DOMAIN outbox : Append(outbox, x)[k] = outbox[k]
  BY <1>1, <1>7, Appended
<1>9. /\ DOMAIN outbox' = DOMAIN outbox \cup {n} /\ outbox'[n] = x
      /\ \A k \in DOMAIN outbox : outbox'[k] = outbox[k]
  BY Zenon, <1>6, <1>8
<1>10. Executes(id)'
  BY Zenon, <1>3, <1>5, <1>9 DEF Executes, IsQueued, IsHeld
<1>11. ~ Granted(id)'
  BY Zenon, <1>3 DEF Granted, IsAnswered
<1>12. QED
  BY Zenon, <1>10, <1>11

\* A step of one call takes no exit from it, nor from another.
LEMMA MoveWatched ==
    ASSUME Inv, Conserved, Exits, Routed, NEW c \in Callers, Moves(c)
    PROVE  Exits'
<1> SUFFICES ASSUME child = "up", NEW d \in Callers, NEW p \in Nat, NEW id \in Nat,
                    p = call'[d].process, id = call'[d].id
             PROVE  Watched(d, p, id)'
  BY Zenon DEF Exits, Moves
<1>0. /\ nextId \in Nat /\ events \in [Callers -> Seq(Event)]
      /\ UNCHANGED <<inbox, alive, stdout, writer>>
  BY DEF Inv, WireType, Routed, Moves
<1>1. (Granted(id)' <=> Granted(id)) /\ Posts
  BY Zenon, <1>0 DEF Granted, Moves
<1>2. CASE d # c
  <2>1. call'[d] = call[d] /\ events'[d] = events[d]
    BY <1>0, <1>2 DEF Moves, Leaves, Asks, GoesOn
  <2>2. Watched(d, p, id)
    BY Zenon, <2>1 DEF Exits
  <2>3. Asking(d) => id # nextId
    <3>1. Asking(d) => id \in pending
      BY <2>1 DEF Asking, Inv, AwaitedPending, Waiting, Awaits
    <3>2. QED
      BY <1>0, <3>1 DEF Inv, WireType
  <2>4. Asking(d) => Executes(id)'
    BY Zenon, <1>0, <1>1, <2>2, <2>3, PostExecutes DEF Watched
  <2>5. (Asking(d)' <=> Asking(d)) /\ (Expecting(d, id)' <=> Expecting(d, id))
    BY Zenon, <1>1, <2>1 DEF Asking, Expecting
  <2>6. Safe(d, p)' <=> Safe(d, p)
    BY Zenon, <1>0, <2>1 DEF Safe
  <2>7. QED
    BY Zenon, <2>1, <2>2, <2>4, <2>5, <2>6 DEF Watched
<1>3. CASE d = c /\ Leaves(c)
  <2>1. call'[d].at \notin Running
    BY Zenon, <1>3 DEF Leaves
  <2>2. ~ Expecting(d, id)' /\ ~ Asking(d)'
    BY <2>1 DEF Expecting, Asking, Running
  <2>3. QED
    BY Zenon, <2>1, <2>2 DEF Watched
<1>4. CASE d = c /\ Asks(c)
  <2>1. /\ call'[d].at = "execute" /\ call'[d].kind \in {"exec", "spawn"} /\ id = nextId /\ p = id
        /\ call'[d].reply # "ok" /\ Post("execute", nextId)
    BY <1>4 DEF Asks
  <2>2. Executes(id)' /\ ~ Granted(id)'
    BY Zenon, <1>0, <2>1, AskExecutes
  <2>3. ~ Expecting(d, id)'
    BY <2>1, <2>2 DEF Expecting
  <2>4. QED
    BY Zenon, <2>1, <2>2, <2>3 DEF Watched
<1>5. CASE d = c /\ GoesOn(c)
  <2>1. /\ call'[d].at \in {"stdin", "close", "events"} /\ call'[d].kind = call[d].kind
        /\ call'[d].process = call[d].process /\ call'[d].lagged = call[d].lagged
        /\ call[d].at \in {"stdin", "close", "events"} \/ (call[d].at = "execute" /\ call[d].reply = "ok")
    BY Zenon, <1>5 DEF GoesOn
  <2>2. PICK i \in Nat : i = call[d].id
    BY Zenon DEF Inv, WireType, Call
  <2>3. Watched(d, p, i)
    BY Zenon, <2>1, <2>2 DEF Exits
  <2>4. Expecting(d, i) /\ call[d].at \in Running
    BY <2>1 DEF Expecting, Running
  <2>5. ~ Asking(d)' /\ call'[d].at \in Running
    BY <2>1 DEF Asking, Running
  <2>6. ASSUME Safe(d, p) PROVE Safe(d, p)'
    <3>1. CASE UNCHANGED events
      BY Zenon, <1>0, <2>6, <3>1 DEF Safe
    <3>2. CASE /\ events[d] # <<>> /\ Head(events[d]) # Exited(call[d].process)
               /\ events' = [events EXCEPT ![d] = Tail(@)]
      <4>1. events'[d] = Tail(events[d]) /\ events[d] \in Seq(Event)
        BY <1>0, <3>2
      <4>2. /\ Head(events[d]) = events[d][1]
            /\ \A k \in DOMAIN events[d] \ {1} : k - 1 \in DOMAIN Tail(events[d])
                                                 /\ Tail(events[d])[k - 1] = events[d][k]
        BY Zenon, <3>2, <4>1, Taken
      <4>3. events[d][1] # Exited(p)
        BY Zenon, <2>1, <3>2, <4>2
      <4>4. ASSUME NEW k \in DOMAIN events[d], events[d][k] = Exited(p)
            PROVE  \E l \in DOMAIN events'[d] : events'[d][l] = Exited(p)
        <5>1. k # 1
          BY Zenon, <4>3, <4>4
        <5>2. k - 1 \in DOMAIN events'[d] /\ events'[d][k - 1] = events[d][k]
          BY Zenon, <4>1, <4>2, <5>1
        <5>3. QED
          BY Zenon, <4>4, <5>2
      <4>5. QED
        BY Zenon, <1>0, <2>6, <4>4 DEF Safe
    <3>3. QED
      BY Zenon, <1>5, <3>1, <3>2 DEF GoesOn
  <2>7. QED
    BY Zenon, <2>1, <2>3, <2>4, <2>5, <2>6 DEF Watched
<1>6. QED
  BY Zenon, <1>2, <1>3, <1>4, <1>5 DEF Moves

\* The steps of tasks and users on the transport are such steps.
Leave(c) ==
    /\ call' = [call EXCEPT ![c] = Idle]
    /\ UNCHANGED <<child, inbox, alive, stdout, outbox, writer, reader, pending, nextId, events>>
Calls(c) ==
    \/ Simple(c) \/ Request(c) \/ \E k \in {"exec", "spawn"} : Begin(c, k) \/ Start(c, k)
    \/ Abandon(c) \/ KillForTimeout(c) \/ CallStep(c) \/ Leave(c)

\* A step in which a call asks something.
LEMMA AskMoves ==
    ASSUME Inv, NEW c \in Callers, NEW r \in Call, NEW op \in Awaits, NEW process \in Nat,
           Ask(c, r, op, process), UNCHANGED <<child, inbox, alive, events>>
    PROVE  /\ UNCHANGED <<child, inbox, alive, stdout, writer, reader>> /\ Posts
           /\ \A d \in Callers \ {c} : call'[d] = call[d]
           /\ Post(op, process)
           /\ call'[c].at = op /\ call'[c].id = nextId /\ call'[c].process = process
           /\ call'[c].kind = r.kind /\ call'[c].lagged = r.lagged /\ call'[c].reply \in {"none", "dropped"}
<1> DEFINE new == [r EXCEPT !.at = op, !.id = nextId, !.process = process, !.late = reader = "stopped",
                            !.reply = IF writer = "running" THEN "none" ELSE "dropped"]
<1>1. Post(op, process) /\ call' = [call EXCEPT ![c] = new] /\ call \in [Callers -> Call]
  BY DEF Ask, Inv, WireType
<1>2. /\ new.at = op /\ new.id = nextId /\ new.process = process /\ new.kind = r.kind
      /\ new.lagged = r.lagged /\ new.reply \in {"none", "dropped"}
  BY DEF Call
<1> HIDE DEF new
<1>3. call'[c] = new /\ \A d \in Callers \ {c} : call'[d] = call[d]
  BY <1>1
<1>4. UNCHANGED <<stdout, writer, reader>>
  BY <1>1 DEF Post
<1>5. Posts
  BY Zenon, <1>1 DEF Posts
<1>6. QED
  BY Zenon, <1>1, <1>2, <1>3, <1>4, <1>5

\* Every step of a call is one of the moves that the invariants are shown to survive.
LEMMA CallsMove ==
    ASSUME Inv, NEW c \in Callers, Calls(c)
    PROVE  Moves(c)
<1>0. /\ call \in [Callers -> Call] /\ call[c] \in Call /\ call[c].process \in Nat /\ nextId \in Nat
      /\ {"request", "execute", "stdin", "close"} = Awaits
  BY Zenon DEF Inv, WireType, Call, Awaits
<1>1. /\ Idle \in Call /\ Idle.at \notin Running
      /\ [Idle EXCEPT !.kind = call[c].kind, !.at = "returned"].at \notin Running
      /\ \A k \in {"request", "exec", "spawn"} : [Idle EXCEPT !.kind = k] \in Call
                                                 /\ [Idle EXCEPT !.kind = k].kind = k
  <2>1. Idle.at \notin Running /\ [Idle EXCEPT !.kind = call[c].kind, !.at = "returned"].at \notin Running
    BY DEF Idle, Running
  <2>2. \A k \in {"request", "exec", "spawn"} : [Idle EXCEPT !.kind = k].kind = k
    BY DEF Idle
  <2>3. QED
    BY Zenon, <2>1, <2>2, IdleCall
<1>2. ASSUME NEW r, call' = [call EXCEPT ![c] = r], r.at \notin Running, UNCHANGED sidecarVars, UNCHANGED wireVars,
             UNCHANGED events \/ events' = [events EXCEPT ![c] = <<>>]
      PROVE  Moves(c)
  <2>1. call'[c] = r /\ \A d \in Callers \ {c} : call'[d] = call[d]
    BY <1>0, <1>2
  <2>2. Leaves(c)
    BY Zenon, <1>2, <2>1 DEF Leaves
  <2>3. QED
    BY Zenon, <1>2, <2>1, <2>2 DEF Moves, Posts, sidecarVars, wireVars
<1>3. ASSUME Return(c), UNCHANGED sidecarVars, UNCHANGED wireVars PROVE Moves(c)
  BY Zenon, <1>1, <1>2, <1>3 DEF Return
<1>4. CASE RequestReturns(c) \/ ExecuteFailed(c)
  BY Zenon, <1>3, <1>4 DEF RequestReturns, ExecuteFailed
<1>5. CASE Abandon(c)
  BY Zenon, <1>1, <1>2, <1>5 DEF Abandon
<1>6. CASE Leave(c)
  BY Zenon, <1>1, <1>2, <1>6 DEF Leave, sidecarVars, wireVars
<1>7. CASE Simple(c) \/ Request(c)
  <2>1. /\ Ask(c, [Idle EXCEPT !.kind = "request"], "request", 0)
        /\ UNCHANGED <<child, inbox, alive, events>> /\ 0 \in Nat
    BY <1>7 DEF Request, Simple, sidecarVars
  <2>2. PICK r \in Call : r = [Idle EXCEPT !.kind = "request"]
    BY Zenon, <1>1
  <2>3. /\ UNCHANGED <<child, inbox, alive, stdout, writer, reader>> /\ Posts
        /\ \A d \in Callers \ {c} : call'[d] = call[d]
        /\ call'[c].at = "request"
    BY Zenon, <1>0, <2>1, <2>2, AskMoves
  <2>4. Leaves(c)
    BY <2>1, <2>3 DEF Leaves, Running
  <2>5. QED
    BY Zenon, <2>3, <2>4 DEF Moves
<1>8. ASSUME NEW k \in {"exec", "spawn"}, Begin(c, k) \/ Start(c, k) PROVE Moves(c)
  <2>1. /\ Ask(c, [Idle EXCEPT !.kind = k], "execute", nextId)
        /\ UNCHANGED <<child, inbox, alive, events>>
    BY <1>8 DEF Start, Begin, sidecarVars
  <2>2. PICK r \in Call : r = [Idle EXCEPT !.kind = k] /\ r.kind = k
    BY Zenon, <1>1
  <2>3. /\ UNCHANGED <<child, inbox, alive, stdout, writer, reader>> /\ Posts
        /\ \A d \in Callers \ {c} : call'[d] = call[d]
        /\ Post("execute", nextId)
        /\ call'[c].at = "execute" /\ call'[c].id = nextId /\ call'[c].process = nextId
        /\ call'[c].kind = k /\ call'[c].reply \in {"none", "dropped"}
    <3>1. "execute" \in Awaits /\ Ask(c, r, "execute", nextId)
      BY Zenon, <1>0, <2>1, <2>2
    <3>2. /\ UNCHANGED <<child, inbox, alive, stdout, writer, reader>> /\ Posts
          /\ \A d \in Callers \ {c} : call'[d] = call[d]
          /\ Post("execute", nextId)
          /\ call'[c].at = "execute" /\ call'[c].id = nextId /\ call'[c].process = nextId
          /\ call'[c].kind = r.kind /\ call'[c].reply \in {"none", "dropped"}
      BY <1>0, <2>1, <3>1, AskMoves
    <3>3. QED
      BY Zenon, <2>2, <3>2
  <2>4. Asks(c)
    BY Zenon, <2>1, <2>3 DEF Asks
  <2>5. QED
    BY Zenon, <2>3, <2>4 DEF Moves
<1>9. ASSUME NEW op \in {"stdin", "close"}, Ask(c, call[c], op, call[c].process),
             UNCHANGED sidecarVars, UNCHANGED events,
             call[c].at \in {"stdin", "close", "events"} \/ (call[c].at = "execute" /\ call[c].reply = "ok")
      PROVE  Moves(c)
  <2>1. UNCHANGED <<child, inbox, alive, events>>
    BY <1>9 DEF sidecarVars
  <2>2. /\ UNCHANGED <<child, inbox, alive, stdout, writer, reader>> /\ Posts
        /\ \A d \in Callers \ {c} : call'[d] = call[d]
        /\ call'[c].at = op /\ call'[c].process = call[c].process
        /\ call'[c].kind = call[c].kind /\ call'[c].lagged = call[c].lagged
    <3>1. op \in Awaits
      BY Zenon, <1>0
    <3>2. QED
      BY <1>0, <1>9, <2>1, <3>1, AskMoves
  <2>3. GoesOn(c)
    BY <1>9, <2>1, <2>2 DEF GoesOn
  <2>4. QED
    BY Zenon, <2>2, <2>3 DEF Moves
<1>10. ASSUME call' = [call EXCEPT ![c].at = "events"], UNCHANGED sidecarVars, UNCHANGED wireVars, UNCHANGED events,
              call[c].at \in {"stdin", "close", "events"} \/ (call[c].at = "execute" /\ call[c].reply = "ok")
       PROVE  Moves(c)
  <2>1. call'[c] = [call[c] EXCEPT !.at = "events"] /\ \A d \in Callers \ {c} : call'[d] = call[d]
    BY <1>0, <1>10
  <2>2. /\ call'[c].at = "events" /\ call'[c].process = call[c].process
        /\ call'[c].kind = call[c].kind /\ call'[c].lagged = call[c].lagged
    BY <1>0, <2>1 DEF Call
  <2>3. GoesOn(c)
    BY <1>10, <2>2 DEF GoesOn
  <2>4. QED
    BY Zenon, <1>10, <2>1, <2>3 DEF Moves, Posts, sidecarVars, wireVars
<1>11. CASE Started(c)
  BY <1>9, <1>10, <1>11 DEF Started
<1>12. CASE StdinWritten(c) \/ StdinClosed(c)
  BY <1>9, <1>10, <1>12 DEF StdinWritten, StdinClosed
<1>13. CASE Receive(c)
  <2>1. CASE Return(c)
    BY Zenon, <1>3, <1>13, <2>1 DEF Receive
  <2>2. CASE ~ Return(c)
    <3>1. /\ call[c].at = "events" /\ events[c] # <<>> /\ Head(events[c]) # Exited(call[c].process)
          /\ events' = [events EXCEPT ![c] = Tail(@)] /\ UNCHANGED call
      BY Zenon, <1>13, <2>2 DEF Receive, Exited
    <3>2. GoesOn(c)
      BY <3>1 DEF GoesOn
    <3>3. QED
      BY Zenon, <1>13, <3>1, <3>2 DEF Moves, Posts, Receive, sidecarVars, wireVars
  <2>3. QED
    BY Zenon, <2>1, <2>2
<1>14. CASE KillForTimeout(c)
  <2>1. /\ call[c].at = "events" /\ Post("kill", call[c].process)
        /\ UNCHANGED <<child, inbox, alive, events>>
        /\ call'[c] = [call[c] EXCEPT !.killed = TRUE] /\ \A d \in Callers \ {c} : call'[d] = call[d]
    BY <1>0, <1>14 DEF KillForTimeout, sidecarVars
  <2>2. /\ call'[c].at = "events" /\ call'[c].process = call[c].process
        /\ call'[c].kind = call[c].kind /\ call'[c].lagged = call[c].lagged
    BY <1>0, <2>1 DEF Call
  <2>3. GoesOn(c)
    BY <2>1, <2>2 DEF GoesOn
  <2>4. Posts
    BY Zenon, <1>0, <2>1 DEF Posts
  <2>5. UNCHANGED <<stdout, writer, reader>>
    BY <2>1 DEF Post
  <2>6. QED
    BY Zenon, <2>1, <2>3, <2>4, <2>5 DEF Moves
<1>15. QED
  BY Zenon, <1>4, <1>5, <1>6, <1>7, <1>8, <1>11, <1>12, <1>13, <1>14 DEF Calls, CallStep

\* The receivers hold events, no more than the channel's capacity: when a
\* call moves,
LEMMA MoveRouted ==
    ASSUME EventCapacity \in Nat \ {0}, Routed, NEW c \in Callers, Moves(c)
    PROVE  Routed'
<1>0. /\ events \in [Callers -> Seq(Event)] /\ \A d \in Callers : Len(events[d]) <= EventCapacity
      /\ UNCHANGED <<child, writer, reader>>
  BY DEF Routed, Moves
<1>1. CASE UNCHANGED events
  BY Zenon, <1>0, <1>1 DEF Routed
<1>2. ASSUME NEW s \in Seq(Event), Len(s) <= Len(events[c]), events' = [events EXCEPT ![c] = s] PROVE Routed'
  <2>1. events' \in [Callers -> Seq(Event)]
    BY <1>0, <1>2
  <2>2. ASSUME NEW d \in Callers PROVE Len(events'[d]) <= EventCapacity
    <3>1. CASE d = c
      <4>1. events'[d] = s /\ Len(events[c]) <= EventCapacity
        BY <1>0, <1>2, <3>1
      <4>2. QED
        BY <1>0, <1>2, <4>1
    <3>2. CASE d # c
      BY <1>0, <1>2, <3>2
    <3>3. QED
      BY <3>1, <3>2
  <2>3. QED
    BY Zenon, <1>0, <2>1, <2>2 DEF Routed
<1>3. CASE events' = [events EXCEPT ![c] = <<>>]
  <2>1. <<>> \in Seq(Event) /\ Len(<<>>) <= Len(events[c])
    BY <1>0
  <2>2. QED
    BY Zenon, <1>2, <1>3, <2>1
<1>4. CASE events[c] # <<>> /\ events' = [events EXCEPT ![c] = Tail(@)]
  <2>1. Tail(events[c]) \in Seq(Event) /\ Len(Tail(events[c])) <= Len(events[c])
    BY <1>0, <1>4
  <2>2. QED
    BY Zenon, <1>2, <1>4, <2>1
<1>5. QED
  BY Zenon, <1>1, <1>3, <1>4 DEF Moves, Leaves, Asks, GoesOn

\* when the reader routes one, which drops the oldest of a full receiver,
LEMMA ReadRouted ==
    ASSUME EventCapacity \in Nat \ {0}, Inv, Routed, Read
    PROVE  Routed'
<1>0. /\ events \in [Callers -> Seq(Event)] /\ \A d \in Callers : Len(events[d]) <= EventCapacity
      /\ UNCHANGED <<child, writer, reader>>
      /\ stdout \in Seq(Response \cup EventFrame) /\ stdout # <<>>
  BY DEF Routed, Read, sidecarVars, Inv, WireType
<1>1. PICK x \in Response \cup EventFrame : x = Head(stdout)
  BY Zenon, <1>0, Taken
<1>2. CASE x.type = "response"
  <2>1. UNCHANGED events
    BY Zenon, <1>1, <1>2 DEF Read, HandleResponse
  <2>2. QED
    BY Zenon, <1>0, <2>1 DEF Routed
<1>3. CASE x.type # "response"
  <2>1. HandleEvent(x)
    BY Zenon, <1>1, <1>3 DEF Read
  <2>2. x.event \in Event
    BY <1>3 DEF Response, EventFrame
  <2>3. events' = [c \in Callers |->
                     IF c \in {d \in Callers : Subscribed(d) /\ Full(d)} THEN Append(Tail(events[c]), x.event)
                     ELSE IF Subscribed(c) THEN Append(events[c], x.event) ELSE events[c]]
    BY Zenon, <2>1 DEF HandleEvent
  <2>4. ASSUME NEW c \in Callers PROVE events'[c] \in Seq(Event) /\ Len(events'[c]) <= EventCapacity
    <3>1. events[c] \in Seq(Event) /\ Len(events[c]) <= EventCapacity
      BY <1>0
    <3>2. CASE Subscribed(c) /\ Full(c)
      <4>1. events'[c] = Append(Tail(events[c]), x.event) /\ Len(events[c]) = EventCapacity
        BY Zenon, <2>3, <3>2 DEF Full
      <4>2. Tail(events[c]) \in Seq(Event) /\ Len(Tail(events[c])) = EventCapacity - 1
        BY <3>1, <4>1
      <4>3. QED
        BY <2>2, <4>1, <4>2
    <3>3. CASE Subscribed(c) /\ ~ Full(c)
      <4>1. events'[c] = Append(events[c], x.event) /\ Len(events[c]) # EventCapacity
        BY Zenon, <2>3, <3>3 DEF Full
      <4>2. QED
        BY <2>2, <3>1, <4>1
    <3>4. CASE ~ Subscribed(c)
      <4>1. events'[c] = events[c]
        BY Zenon, <2>3, <3>4
      <4>2. QED
        BY Zenon, <3>1, <4>1
    <3>5. QED
      BY Zenon, <3>2, <3>3, <3>4
  <2>5. events' \in [Callers -> Seq(Event)]
    BY <2>3, <2>4
  <2>6. QED
    BY Zenon, <1>0, <2>4, <2>5 DEF Routed
<1>4. QED
  BY Zenon, <1>2, <1>3

\* and when the receivers have no part in the step.
LEMMA OthersRouted ==
    ASSUME Routed, UNCHANGED events, child' \in {child, "gone"}, writer' \in {writer, "stopped"},
           reader' \in {reader, "stopped"}
    PROVE  Routed'
  BY Zenon DEF Routed

\* A step that changes neither calls nor what is on its way between client and sidecar keeps Exits.
LEMMA QuietWatched ==
    ASSUME Exits, UNCHANGED <<child, inbox, alive, stdout, outbox, call, events>>
    PROVE  Exits'
<1> SUFFICES ASSUME child = "up", NEW c \in Callers, NEW p \in Nat, NEW id \in Nat,
                    p = call[c].process, id = call[c].id
             PROVE  Watched(c, p, id)'
  BY Zenon DEF Exits
<1>1. Watched(c, p, id)
  BY Zenon DEF Exits
<1>2. /\ Safe(c, p)' <=> Safe(c, p)
      /\ Granted(id)' <=> Granted(id)
      /\ Executes(id)' <=> Executes(id)
  BY Zenon DEF Safe, Granted, Executes
<1>3. (Asking(c)' <=> Asking(c)) /\ (Expecting(c, id)' <=> Expecting(c, id))
  BY Zenon, <1>2 DEF Asking, Expecting
<1>4. QED
  BY Zenon, <1>1, <1>2, <1>3 DEF Watched

\* All that holds of the transport, and its steps, also those a client takes
\* part in: a task leaves its call, or the child is killed.
WireInv == Inv /\ Conserved /\ Exits /\ Routed
Fails ==
    /\ child' = "gone" /\ inbox' = {} /\ alive' = {}
    /\ UNCHANGED <<stdout, outbox, writer, reader, pending, nextId, call, events>>
Steps ==
    \/ \E c \in Callers : Calls(c)
    \/ Write \/ ReaderStep \/ SidecarStep \/ Fails
    \/ UNCHANGED <<child, inbox, alive, stdout, outbox, writer, reader, pending, nextId, call, events>>

\* A step of a call,
LEMMA CallsKeep ==
    ASSUME EventCapacity \in Nat \ {0}, WireInv, NEW c \in Callers, Calls(c)
    PROVE  WireInv'
<1>0. Inv /\ Conserved /\ Exits /\ Routed
  BY Zenon DEF WireInv
<1>1. Inv'
  <2>1. CASE Leave(c)
    <3>1. Idle \in Call /\ Idle.at \notin Awaits
      <4>1. Idle.at \notin Awaits
        BY DEF Idle, Awaits
      <4>2. QED
        BY Zenon, <1>0, <4>1, IdleCall
    <3>2. QED
      BY Zenon, <1>0, <2>1, <3>1, CallEnds DEF Leave
  <2>2. QED
    BY Zenon, <1>0, <2>1, NewCallKeeps, InterruptKeeps, CallStepKeeps DEF Calls
<1>2. Moves(c)
  BY Zenon, <1>0, CallsMove
<1>3. Conserved'
  <2>1. CASE UNCHANGED <<outbox, pending, nextId>>
    BY Zenon, <1>0, <1>2, <2>1, QuietConserves DEF Moves
  <2>2. CASE \E op \in Awaits \cup {"kill"} : \E process \in Nat : Post(op, process)
    BY Zenon, <1>0, <1>2, <2>2, PostConserves DEF Moves
  <2>3. QED
    BY Zenon, <1>2, <2>1, <2>2 DEF Moves, Posts
<1>4. QED
  BY Zenon, <1>0, <1>1, <1>2, <1>3, MoveWatched, MoveRouted DEF WireInv

\* and every step, keeps it.
LEMMA StepsKeep ==
    ASSUME EventCapacity \in Nat \ {0}, WireInv, Steps
    PROVE  WireInv'
<1>0. Inv /\ Conserved /\ Exits /\ Routed
  BY Zenon DEF WireInv
<1>1. CASE \E c \in Callers : Calls(c)
  BY Zenon, <1>1, CallsKeep
<1>2. CASE Write
  <2>1. Routed'
    BY <1>0, <1>2, OthersRouted DEF Write
  <2>2. QED
    BY Zenon, <1>0, <1>2, <2>1, SidecarKeeps, WriteConserves, WriteWatched DEF WireInv
<1>3. CASE Read
  BY Zenon, <1>0, <1>3, ReaderKeeps, ReadConserves, ReadWatched, ReadRouted DEF WireInv, ReaderStep
<1>4. ASSUME child' = "gone", Inv', Routed' PROVE WireInv'
  <2>1. "gone" # "up"
    OBVIOUS
  <2>2. Exits'
    BY Zenon, <1>4, <2>1 DEF Exits
  <2>3. QED
    BY Zenon, <1>4, <2>2, GoneConserves DEF WireInv
<1>5. CASE Disconnect
  <2>1. child' = "gone" /\ Routed'
    BY <1>0, <1>5, OthersRouted DEF Disconnect, sidecarVars
  <2>2. QED
    BY Zenon, <1>0, <1>4, <1>5, <2>1, ReaderKeeps DEF ReaderStep
<1>6. CASE Fails
  <2>1. child' = "gone" /\ Routed'
    BY <1>0, <1>6, OthersRouted DEF Fails
  <2>2. Inv'
    <3>1. /\ inbox' \subseteq Frame /\ alive' \subseteq Nat
          /\ stdout' \in Seq(Response \cup EventFrame) /\ outbox' \in Seq(Frame)
      BY <1>0, <1>6 DEF Fails, Inv, WireType
    <3>2. QED
      BY Zenon, <1>0, <1>6, <3>1, FramesMove DEF Fails
  <2>3. QED
    BY Zenon, <1>4, <2>1, <2>2
<1>7. CASE Die
  <2>1. Fails
    BY Zenon, <1>7 DEF Die, Fails, wireVars
  <2>2. QED
    BY Zenon, <1>6, <2>1
<1>8. ASSUME NEW f \in inbox, Answer(f) PROVE WireInv'
  <2>1. Routed'
    BY <1>0, <1>8, OthersRouted DEF Answer
  <2>2. QED
    BY Zenon, <1>0, <1>8, <2>1, SidecarKeeps, AnswerConserves, AnswerWatched DEF WireInv, SidecarStep
<1>9. ASSUME NEW p \in alive, Output(p) \/ Exit(p) PROVE WireInv'
  <2>1. Routed'
    BY <1>0, <1>9, OthersRouted DEF Output, Exit
  <2>2. QED
    BY Zenon, <1>0, <1>9, <2>1, SidecarKeeps, EmitConserves, EmitWatched DEF WireInv, SidecarStep
<1>10. CASE UNCHANGED <<child, inbox, alive, stdout, outbox, writer, reader, pending, nextId, call, events>>
  <2>1. Inv'
    BY Zenon, <1>0, <1>10, OthersKeep DEF invVars
  <2>2. Conserved'
    BY Zenon, <1>0, <1>10, QuietConserves
  <2>3. Routed'
    BY <1>0, <1>10, OthersRouted
  <2>4. Exits'
    BY Zenon, <1>0, <1>10, QuietWatched
  <2>5. QED
    BY Zenon, <2>1, <2>2, <2>3, <2>4 DEF WireInv
<1>11. QED
  BY Zenon, <1>1, <1>2, <1>3, <1>5, <1>6, <1>7, <1>8, <1>9, <1>10 DEF Steps, ReaderStep, SidecarStep

\* A new transport.
LEMMA InitWire ==
    ASSUME EventCapacity \in Nat \ {0}, Init
    PROVE  WireInv
<1>1. Inv /\ Conserved
  BY Zenon, InitHolds, InitConserves
<1>2. Routed
  <2>1. events = [c \in Callers |-> <<>>] /\ <<>> \in Seq(Event) /\ Len(<<>>) <= EventCapacity
    BY DEF Init
  <2>2. QED
    BY <2>1 DEF Init, Routed
<1>3. Exits
  <2>1. \A c \in Callers : call[c] = Idle
    BY DEF Init
  <2>2. Idle.at \notin Running
    BY DEF Idle, Running
  <2>3. ASSUME NEW c \in Callers, NEW id \in Nat PROVE ~ Expecting(c, id) /\ ~ Asking(c)
    <3>1. call[c].at \notin Running
      BY Zenon, <2>1, <2>2
    <3>2. QED
      BY <3>1 DEF Expecting, Asking, Running
  <2>4. QED
    BY Zenon, <2>1, <2>2, <2>3 DEF Exits, Watched
<1>4. QED
  BY Zenon, <1>1, <1>2, <1>3 DEF WireInv

\* What the invariant is for.
LEMMA WireSafe ==
    ASSUME WireInv
    PROVE  TypeOK /\ RequestsConserved /\ ExitNotMissed
<1>1. TypeOK
  BY DEF WireInv, Inv, Routed, TypeOK
<1>2. RequestsConserved
  <2>1. Conserved /\ nextId \in Nat
    BY DEF WireInv, Inv, WireType
  <2>2. QED
    BY Zenon, <2>1, CountRequests
<1>3. ExitNotMissed
  <2> SUFFICES ASSUME NEW c \in Callers, child = "up", call[c].at \in {"stdin", "close", "events"},
                      ~ call[c].lagged
               PROVE  \/ call[c].process \in alive
                      \/ \E k \in DOMAIN events[c] :
                            events[c][k] = [type |-> "exited", process |-> call[c].process]
                      \/ \E k \in DOMAIN stdout :
                            /\ stdout[k].type = "event"
                            /\ stdout[k].event = [type |-> "exited", process |-> call[c].process]
    BY Zenon DEF ExitNotMissed
  <2>1. call[c] \in Call
    BY Zenon DEF WireInv, Inv, WireType
  <2>2. PICK p, id \in Nat : p = call[c].process /\ id = call[c].id
    BY Zenon, <2>1 DEF Call
  <2>3. Safe(c, p)
    BY Zenon, <2>2 DEF WireInv, Exits, Watched, Expecting
  <2>4. QED
    BY Zenon, <2>2, <2>3 DEF Safe, Exited
<1>4. QED
  BY Zenon, <1>1, <1>2, <1>3

\* Whatever the callers, the I/O tasks and the sidecar do, no request is lost
\* or answered twice while the sidecar lives, and no call misses the exit of
\* its process unless its receiver lagged.
THEOREM TransportSafe ==
    ASSUME EventCapacity \in Nat \ {0}
    PROVE  Spec => [](TypeOK /\ RequestsConserved /\ ExitNotMissed)
<1>1. Init => WireInv
  BY Zenon, InitWire
<1>2. WireInv /\ [Next]_vars => WireInv'
  <2> SUFFICES ASSUME WireInv, [Next]_vars PROVE WireInv'
    OBVIOUS
  <2>1. Steps
    <3>1. CASE UNCHANGED vars
      BY Zenon, <3>1 DEF vars, sidecarVars, wireVars, Steps
    <3>2. CASE Next
      BY Zenon, <3>2 DEF Next, Steps, Calls
    <3>3. QED
      BY Zenon, <3>1, <3>2
  <2>2. QED
    BY Zenon, <2>1, StepsKeep
<1>3. WireInv => TypeOK /\ RequestsConserved /\ ExitNotMissed
  BY Zenon, WireSafe
<1>4. QED
  BY <1>1, <1>2, <1>3, PTL DEF Spec
=============================================================================
