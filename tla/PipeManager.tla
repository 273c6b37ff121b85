---------------------------- MODULE PipeManager ----------------------------
(***************************************************************************)
(* The kernel's anonymous pipes (crates/kernel/src/pipe_manager.rs).       *)
(*                                                                         *)
(* Every operation runs under the one mutex of the manager from its entry, *)
(* or from its wake-up, until it returns or waits on the one condition     *)
(* variable.  Such a stretch is one step here.  A call that finds nothing  *)
(* to do leaves its thread "waiting"; notify_all makes every waiting       *)
(* thread "woken", and a woken thread goes round the loop of its call      *)
(* again.                                                                  *)
(*                                                                         *)
(* A byte is the position at which the pipe accepted it: the first byte    *)
(* any successful write hands over is 1, the next 2, and so on.  That is   *)
(* all the properties tell apart.  The two closed flags of a pipe and its  *)
(* two desc_to_pipe entries always change together, so `open' stands for   *)
(* both.  A waiter is queued in the step that draws its id from a counter, *)
(* so the queue of a pipe is in the order of the ids: a set stands for it, *)
(* and its front is the smallest member.                                   *)
(***************************************************************************)
EXTENDS Integers, Sequences, FiniteSets

CONSTANTS
    Pipes,          \* identifiers create_pipe hands out
    Readers,        \* threads that call read / read_with_timeout
    Writers,        \* threads that call write / write_blocking
    ReadLengths,    \* lengths a read may ask for
    WriteLengths,   \* payload lengths (a payload is never empty here)
    Timeouts,       \* a subset of BOOLEAN: may a read carry a deadline?
    Capacity,       \* MAX_PIPE_BUFFER_BYTES
    PipeBuf,        \* PIPE_BUF_BYTES
    MaxBytes,       \* bound: no write starts once this many bytes were accepted
    MaxWaiters      \* bound: no read starts once this many waiters were numbered

ASSUME PipeAssumption ==
    /\ ReadLengths \subseteq Nat \ {0}
    /\ WriteLengths \subseteq Nat \ {0}
    /\ Timeouts \subseteq BOOLEAN
    /\ Capacity \in Nat \ {0}
    /\ PipeBuf \in Nat /\ PipeBuf <= Capacity
    /\ MaxBytes \in Nat /\ MaxWaiters \in Nat
    /\ Readers \cap Writers = {}

Threads == Readers \cup Writers
Ends == {"read", "write"}
Byte == Nat \ {0}
WaiterId == Nat \ {0}
NoWaiter == 0
NoCall == [op |-> "none"]
NoReturn == [outcome |-> "none"]

VARIABLES
    created,     \* pipes create_pipe has returned
    open,        \* per pipe, the ends not yet closed
    buffer,      \* per pipe, the bytes held
    waiting,     \* per pipe, the waiter ids queued in waiting_reads
    waiters,     \* waiter id -> PendingRead, shared by all pipes
    nextWaiter,  \* next_waiter_id
    at,          \* per thread: "idle", "waiting" on the condvar, or "woken"
    call,        \* per thread, the locals of the call in progress
    ret,         \* per thread, how its last call returned
    written,     \* per pipe, how many bytes writes were told were accepted
    got          \* per reader and pipe, all bytes its reads have returned

pipeVars == <<created, open, buffer, waiting>>
waiterVars == <<waiters, nextWaiter>>
threadVars == <<at, call, ret>>
vars == <<pipeVars, waiterVars, threadVars, written, got>>

---------------------------------------------------------------------------

With(f, k, v) == [i \in DOMAIN f \cup {k} |-> IF i = k THEN v ELSE f[i]]
Without(f, k) == [i \in DOMAIN f \ {k} |-> f[i]]

Exists(p) == open[p] # {}
Available(p) == IF Len(buffer[p]) < Capacity THEN Capacity - Len(buffer[p]) ELSE 0
SmallerOf(a, b) == IF a < b THEN a ELSE b

\* The next n bytes the pipe accepts.
Stamps(p, n) == [i \in 1..n |-> written[p] + i]

\* notify_waiters_and_pollers, seen from the condition variable: everyone who
\* waits is woken.
MutWakeNobody == at
WakeAll == [t \in Threads |-> IF at[t] = "waiting" THEN "woken" ELSE at[t]]

\* `self' notifies and goes to state `next'.
NotifyAll(self, next) == at' = [WakeAll EXCEPT ![self] = next]

\* The call returns: its locals are gone.
Return(t, p, outcome) ==
    /\ call' = [call EXCEPT ![t] = NoCall]
    /\ ret' = [ret EXCEPT ![t] = [outcome |-> outcome, pipe |-> p]]

Quiet(t) == at' = [at EXCEPT ![t] = "idle"]

Wait(t, c) ==
    /\ call' = [call EXCEPT ![t] = c]
    /\ ret' = [ret EXCEPT ![t] = NoReturn]

---------------------------------------------------------------------------

Init ==
    /\ created = {}
    /\ open = [p \in Pipes |-> {}]
    /\ buffer = [p \in Pipes |-> <<>>]
    /\ waiting = [p \in Pipes |-> {}]
    /\ waiters = [i \in {} |-> NoCall]
    /\ nextWaiter = 1
    /\ at = [t \in Threads |-> "idle"]
    /\ call = [t \in Threads |-> NoCall]
    /\ ret = [t \in Threads |-> NoReturn]
    /\ written = [p \in Pipes |-> 0]
    /\ got = [r \in Readers |-> [p \in Pipes |-> <<>>]]

\* create_pipe
CreatePipe(p) ==
    /\ p \notin created
    /\ created' = created \cup {p}
    /\ open' = [open EXCEPT ![p] = Ends]
    /\ UNCHANGED <<buffer, waiting, waiterVars, threadVars, written, got>>

---------------------------------------------------------------------------
(***************************************************************************)
(* write_with_mode.  c is the record of the call's locals.                 *)
(***************************************************************************)
WriteBroken(w, c) ==
    /\ ~({"read", "write"} \subseteq open[c.pipe])
    /\ Return(w, c.pipe, IF Exists(c.pipe) THEN "EPIPE" ELSE "EBADF")
    /\ Quiet(w)
    /\ UNCHANGED <<pipeVars, waiterVars, written, got>>

\* Queued waiters that still have a PendingRead; others are popped and skipped.
LiveWaits(p) == waiting[p] \cap DOMAIN waiters

\* What is left of a payload of len bytes once n of them were handed over.
MutRemainder(p, n, len) == <<>>
Remainder(p, n, len) == SubSeq(Stamps(p, len), n + 1, len)

\* Direct handoff: the first waiter still in the table takes what it asked
\* for, the whole rest goes to the buffer.
WriteHandoff(w, c) ==
    LET p == c.pipe IN
    /\ Ends \subseteq open[p]
    /\ \E id \in LiveWaits(p) :
          LET n == SmallerOf(waiters[id].length, c.length) IN
          /\ \A other \in LiveWaits(p) : id <= other
          /\ waiting' = [waiting EXCEPT ![p] = {other \in @ : other > id}]
          /\ waiters' = [waiters EXCEPT ![id] =
                           [@ EXCEPT !.state = "data", !.data = Stamps(p, n)]]
          /\ buffer' = [buffer EXCEPT ![p] = @ \o Remainder(p, n, c.length)]
    /\ written' = [written EXCEPT ![p] = @ + c.length]
    /\ Return(w, p, "ok")
    /\ NotifyAll(w, "idle")
    /\ UNCHANGED <<created, open, nextWaiter, got>>

\* How many bytes the buffer takes of the payload: all of a small one or
\* nothing, whatever fits of a large one.
Accepted(p, n) ==
    IF n <= PipeBuf THEN (IF Available(p) >= n THEN n ELSE 0)
    ELSE SmallerOf(Available(p), n)

WriteBuffer(w, c) ==
    LET p == c.pipe
        n == Accepted(p, c.length)
    IN
    /\ Ends \subseteq open[p]
    /\ LiveWaits(p) = {}
    /\ n > 0
    /\ waiting' = [waiting EXCEPT ![p] = {}]
    /\ buffer' = [buffer EXCEPT ![p] = @ \o Stamps(p, n)]
    /\ written' = [written EXCEPT ![p] = @ + n]
    /\ Return(w, p, "ok")
    /\ NotifyAll(w, "idle")
    /\ UNCHANGED <<created, open, waiterVars, got>>

WriteFull(w, c) ==
    LET p == c.pipe IN
    /\ Ends \subseteq open[p]
    /\ LiveWaits(p) = {}
    /\ Accepted(p, c.length) = 0
    /\ waiting' = [waiting EXCEPT ![p] = {}]
    /\ IF c.nonblocking
       THEN Return(w, p, "EAGAIN") /\ Quiet(w)
       ELSE Wait(w, c) /\ at' = [at EXCEPT ![w] = "waiting"]
    /\ UNCHANGED <<created, open, buffer, waiterVars, written, got>>

WriteLoop(w, c) ==
    \/ WriteBroken(w, c)
    \/ WriteHandoff(w, c)
    \/ WriteBuffer(w, c)
    \/ WriteFull(w, c)

Write(w, p, n, nonblocking) ==
    /\ at[w] = "idle"
    /\ "write" \in open[p]
    /\ written[p] < MaxBytes
    /\ WriteLoop(w, [op |-> "write", pipe |-> p, length |-> n,
                     nonblocking |-> nonblocking])

WriteWake(w) ==
    /\ at[w] = "woken"
    /\ WriteLoop(w, call[w])

---------------------------------------------------------------------------
(***************************************************************************)
(* read_with_timeout.                                                      *)
(***************************************************************************)
HasResult(c) == c.waiter \in DOMAIN waiters /\ waiters[c.waiter].state # "pending"

ReadResult(r, c) ==
    /\ HasResult(c)
    /\ got' = [got EXCEPT ![r][c.pipe] = @ \o waiters[c.waiter].data]
    /\ Return(r, c.pipe, IF waiters[c.waiter].state = "eof" THEN "eof" ELSE "ok")
    /\ waiters' = Without(waiters, c.waiter)
    /\ Quiet(r)
    /\ UNCHANGED <<pipeVars, nextWaiter, written>>

ReadGone(r, c) ==
    /\ ~HasResult(c)
    /\ ~Exists(c.pipe)
    /\ Return(r, c.pipe, "EBADF")
    /\ Quiet(r)
    /\ UNCHANGED <<pipeVars, waiterVars, written, got>>

\* drain_buffer: up to `length' bytes from the front.  The waiter this call
\* may have registered stays in the table and in the queue.
ReadBuffer(r, c) ==
    LET p == c.pipe
        n == SmallerOf(c.length, Len(buffer[p]))
    IN
    /\ ~HasResult(c)
    /\ Exists(p)
    /\ buffer[p] # <<>>
    /\ got' = [got EXCEPT ![r][p] = @ \o SubSeq(buffer[p], 1, n)]
    /\ buffer' = [buffer EXCEPT ![p] = SubSeq(@, n + 1, Len(@))]
    /\ Return(r, p, "ok")
    /\ NotifyAll(r, "idle")
    /\ UNCHANGED <<created, open, waiting, waiterVars, written>>

ReadEof(r, c) ==
    LET p == c.pipe IN
    /\ ~HasResult(c)
    /\ Exists(p)
    /\ buffer[p] = <<>>
    /\ "write" \notin open[p]
    /\ waiters' = Without(waiters, c.waiter)
    /\ Return(r, p, "eof")
    /\ Quiet(r)
    /\ UNCHANGED <<pipeVars, nextWaiter, written, got>>

MustBlock(c) ==
    /\ ~HasResult(c)
    /\ buffer[c.pipe] = <<>>
    /\ "write" \in open[c.pipe]

PendingRead(n) == [length |-> n, state |-> "pending", data |-> <<>>]

\* Nothing to return: register a waiter, once per call, and wait.
ReadBlock(r, c) ==
    LET p == c.pipe IN
    /\ MustBlock(c)
    /\ IF c.waiter # NoWaiter
       THEN /\ Wait(r, c)
            /\ at' = [at EXCEPT ![r] = "waiting"]
            /\ UNCHANGED <<waiting, waiterVars>>
       ELSE /\ waiters' = With(waiters, nextWaiter, PendingRead(c.length))
            /\ waiting' = [waiting EXCEPT ![p] = @ \cup {nextWaiter}]
            /\ nextWaiter' = nextWaiter + 1
            /\ Wait(r, [c EXCEPT !.waiter = nextWaiter])
            /\ NotifyAll(r, "waiting")
    /\ UNCHANGED <<created, open, buffer, written, got>>

Unqueued(q, id) == q \ {id}

\* The deadline has passed: the waiter is withdrawn, whatever it holds.
Expire(r, c) ==
    /\ waiters' = Without(waiters, c.waiter)
    /\ waiting' = [waiting EXCEPT ![c.pipe] = Unqueued(@, c.waiter)]
    /\ Return(r, c.pipe, "EAGAIN")
    /\ NotifyAll(r, "idle")
    /\ UNCHANGED <<created, open, buffer, written, got>>

\* `now >= deadline' inside the loop.  A call that had no waiter has used up
\* a waiter id and registered and withdrawn it.
ReadExpired(r, c) ==
    /\ c.timed
    /\ MustBlock(c)
    /\ nextWaiter' = IF c.waiter = NoWaiter THEN nextWaiter + 1 ELSE nextWaiter
    /\ Expire(r, c)

ReadLoop(r, c) ==
    \/ ReadResult(r, c)
    \/ ReadGone(r, c)
    \/ ReadBuffer(r, c)
    \/ ReadEof(r, c)
    \/ ReadBlock(r, c)
    \/ ReadExpired(r, c)

Read(r, p, n, timed) ==
    /\ at[r] = "idle"
    /\ "read" \in open[p]
    /\ nextWaiter <= MaxWaiters
    /\ ReadLoop(r, [op |-> "read", pipe |-> p, length |-> n, timed |-> timed,
                    waiter |-> NoWaiter])

\* Back from the condition variable: a waiter no longer in the table is
\* forgotten, then the loop goes round.
ReadWake(r) ==
    /\ at[r] = "woken"
    /\ ReadLoop(r, IF call[r].waiter \in DOMAIN waiters THEN call[r]
                   ELSE [call[r] EXCEPT !.waiter = NoWaiter])

\* wait_timeout reports timed_out.  The thread may have been notified in the
\* meantime: the report only says that its time had run out.
ReadTimeout(r) ==
    /\ at[r] \in {"waiting", "woken"}
    /\ call[r].timed
    /\ Expire(r, call[r])
    /\ UNCHANGED nextWaiter

---------------------------------------------------------------------------
\* close of one end.  Closing the write end answers every queued read with
\* end of file; once both ends are closed the pipe is dropped.
Close(p, end) ==
    LET dropped == open[p] = {end} IN
    /\ end \in open[p]
    /\ open' = [open EXCEPT ![p] = @ \ {end}]
    /\ waiters' = IF end = "read" THEN waiters
                  ELSE [i \in DOMAIN waiters |->
                          IF i \in waiting[p] THEN [waiters[i] EXCEPT !.state = "eof",
                                                                  !.data = <<>>]
                          ELSE waiters[i]]
    /\ waiting' = IF end = "write" \/ dropped THEN [waiting EXCEPT ![p] = {}]
                  ELSE waiting
    /\ buffer' = IF dropped THEN [buffer EXCEPT ![p] = <<>>] ELSE buffer
    /\ at' = WakeAll
    /\ UNCHANGED <<created, nextWaiter, call, ret, written, got>>

\* std::sync::Condvar may wake a thread nobody notified.
SpuriousWake(t) ==
    /\ at[t] = "waiting"
    /\ at' = [at EXCEPT ![t] = "woken"]
    /\ UNCHANGED <<pipeVars, waiterVars, call, ret, written, got>>

Next ==
    \/ \E p \in Pipes : CreatePipe(p)
    \/ \E p \in Pipes, e \in Ends : Close(p, e)
    \/ \E w \in Writers, p \in Pipes, n \in WriteLengths, nb \in BOOLEAN :
          Write(w, p, n, nb)
    \/ \E r \in Readers, p \in Pipes, n \in ReadLengths, timed \in Timeouts :
          Read(r, p, n, timed)
    \/ \E w \in Writers : WriteWake(w)
    \/ \E r \in Readers : ReadWake(r)
    \/ \E r \in Readers : ReadTimeout(r)
    \/ \E t \in Threads : SpuriousWake(t)

\* A woken thread eventually gets the mutex, and a deadline eventually passes.
Fairness ==
    /\ \A w \in Writers : WF_vars(WriteWake(w))
    /\ \A r \in Readers : WF_vars(ReadWake(r)) /\ WF_vars(ReadTimeout(r))

Spec == Init /\ [][Next]_vars
FairSpec == Spec /\ Fairness

---------------------------------------------------------------------------
WriteCall == [op : {"write"}, pipe : Pipes, length : WriteLengths, nonblocking : BOOLEAN]
ReadCall == [op : {"read"}, pipe : Pipes, length : ReadLengths, timed : BOOLEAN,
             waiter : Nat]
Pending == [length : ReadLengths, state : {"pending", "data", "eof"}, data : Seq(Byte)]
Outcome == {"ok", "eof", "EAGAIN", "EPIPE", "EBADF"}

DataType ==
    /\ created \subseteq Pipes
    /\ open \in [Pipes -> SUBSET Ends]
    /\ buffer \in [Pipes -> Seq(Byte)]
    /\ waiting \in [Pipes -> SUBSET WaiterId]
    /\ DOMAIN waiters \subseteq WaiterId
    /\ waiters \in [DOMAIN waiters -> Pending]
    /\ nextWaiter \in WaiterId
    /\ written \in [Pipes -> Nat]
    /\ got \in [Readers -> [Pipes -> Seq(Byte)]]

ThreadType ==
    /\ at \in [Threads -> {"idle", "waiting", "woken"}]
    /\ call \in [Threads -> {NoCall} \cup ReadCall \cup WriteCall]
    /\ \A t \in Threads : at[t] = "idle" => call[t] = NoCall
    /\ \A r \in Readers : at[r] # "idle" => call[r] \in ReadCall
    /\ \A w \in Writers : at[w] # "idle" => call[w] \in WriteCall
    /\ ret \in [Threads -> {NoReturn} \cup [outcome : Outcome, pipe : Pipes]]

\* Every variable has its type, and a thread has a call exactly while it is
\* inside one: readers read, writers write.
TypeOK == DataType /\ ThreadType

\* A queued id is in the table, unanswered, in no other queue, and its pipe
\* can still be written.
QueueBacked ==
    /\ \A id \in DOMAIN waiters : id < nextWaiter
    /\ \A p \in Pipes : \A id \in waiting[p] :
          /\ id \in DOMAIN waiters
          /\ waiters[id].state = "pending"
          /\ \A q \in Pipes : id \in waiting[q] => q = p
          /\ "write" \in open[p]

\* A reader inside a call owns a waiter that no other call owns and that is
\* queued at its pipe for as long as it is unanswered.
CallsBacked ==
    \A r \in Readers : at[r] # "idle" =>
        /\ call[r].waiter \in DOMAIN waiters
        /\ ~HasResult(call[r]) => call[r].waiter \in waiting[call[r].pipe]
        /\ \A other \in Readers :
              at[other] # "idle" /\ call[other].waiter = call[r].waiter => other = r

\* What the queues, the table of waiters and the calls in progress owe each
\* other, under every interleaving of reads, writes, closes and deadlines.
WaitersBacked == QueueBacked /\ CallsBacked

\* No wake-up is lost: a thread that sleeps on the condition variable without
\* having been notified would find nothing to do if it woke.  A sleeping
\* reader's waiter is queued and unanswered, its pipe is empty and can still
\* be written; a sleeping writer has no reader to hand to and no room.
NoLostWakeup ==
    /\ \A r \in Readers : at[r] = "waiting" =>
          /\ MustBlock(call[r])
          /\ call[r].waiter \in waiting[call[r].pipe]
    /\ \A w \in Writers : at[w] = "waiting" =>
          /\ Ends \subseteq open[call[w].pipe]
          /\ LiveWaits(call[w].pipe) = {}
          /\ Accepted(call[w].pipe, call[w].length) = 0

\* What the waiter of reader r's call on pipe p holds for it.
Held(r, p) ==
    IF call[r].op = "read" /\ call[r].pipe = p /\ call[r].waiter \in DOMAIN waiters
    THEN waiters[call[r].waiter].data ELSE <<>>

\* Bytes of p that some reader got, that a call in progress is about to get,
\* or that are still buffered.
Accounted(p) ==
    {buffer[p][i] : i \in 1..Len(buffer[p])}
    \cup UNION {{got[r][p][i] : i \in 1..Len(got[r][p])} : r \in Readers}
    \cup UNION {{Held(r, p)[i] : i \in 1..Len(Held(r, p))} : r \in Readers}

\* A byte a write was told is accepted can be read as long as the read end is
\* open (the test buffered_writes_are_read_back_and_partial_reads_preserve_remainder
\* says so of sequential calls).
WritesAreReadBack ==
    \A p \in Pipes : "read" \in open[p] => 1..written[p] \subseteq Accounted(p)

\* A blocked call whose pipe has lost the other end returns, and so does a
\* read whose waiter was answered: closing an end releases every reader and
\* writer, whatever else is queued on the condition variable.
CallsReturn ==
    /\ \A r \in Readers :
          (call[r].op = "read" /\ (HasResult(call[r]) \/ "write" \notin open[call[r].pipe]))
              ~> at[r] = "idle"
    /\ \A w \in Writers :
          (call[w].op = "write" /\ ~(Ends \subseteq open[call[w].pipe])) ~> at[w] = "idle"
=============================================================================
