-------------------------------- MODULE Pty --------------------------------
(***************************************************************************)
(* One pseudo-terminal of the kernel's PTY manager (crates/kernel/src/     *)
(* pty.rs) and the pollers that watch it (poll.rs, kernel.rs poll_targets).*)
(*                                                                         *)
(* As in PipeManager, a stretch under the manager's mutex is one step and  *)
(* a blocked read waits on the one condition variable.  A write notifies   *)
(* after it has released the mutex, and only when it succeeded; then it    *)
(* raises its signals.  A buffer is named after the end that reads it:     *)
(* buf["slave"] is input_buffer, buf["master"] is output_buffer.           *)
(* Other PTYs share only the condition variable.  Whether a read or a poll *)
(* has a deadline is left open until it passes.                            *)
(***************************************************************************)
EXTENDS Integers, SequencesExt

CONSTANTS
    Readers,     \* threads that call read / read_with_timeout
    ReaderEnd,   \* the end each of them reads
    Writers,     \* threads that call write
    Pollers,     \* threads that call poll_targets
    MaxBuffer,   \* MAX_PTY_BUFFER_BYTES
    MaxCanon,    \* MAX_CANON
    Scenes       \* bounds: what is done to the PTY, and how often

Ends == {"master", "slave"}
Chars == {"x", "cr", "nl", "erase", "eof", "intr", "bs", "sp"}
Modes == [icanon : BOOLEAN, echo : BOOLEAN, isig : BOOLEAN, foreground : BOOLEAN]

\* A scene fixes the payloads written to the master and to the slave, the
\* termios settings, the lengths read and the interests polled for, and bounds
\* the number of calls of each kind.
ASSUME PtyAssumption ==
    /\ ReaderEnd \in [Readers -> Ends]
    /\ {MaxBuffer, MaxCanon} \subseteq Nat
    /\ \A s \in Scenes :
          /\ s.typed \cup s.printed \subseteq Seq(Chars)
          /\ s.modes \subseteq Modes
          /\ s.lengths \subseteq Nat
          /\ {s.writes, s.reads, s.switches, s.polls, s.closes} \subseteq Nat

VARIABLES
    open,     \* ends not yet closed
    buf,      \* per end, the chunks it can read
    queue,    \* per end, the waiter ids of waiting_input_reads / waiting_output_reads
    waiters,  \* waiter id -> PendingRead
    nextId,   \* next_waiter_id
    line,     \* line_buffer
    mode,     \* termios, and whether a foreground process group is set
    rd,       \* per reader: where it is and the locals of its call
    wr,       \* per writer: what it still has to do after the mutex
    pl,       \* per poller: where it is in poll_targets
    scene,    \* the scene played, with what is left of its bounds
    silent,   \* history: a failed write changed something nobody was told of
    torn      \* history: some write to the master failed

ptyVars == <<open, buf, queue, waiters, nextId, line, mode>>
vars == <<ptyVars, rd, wr, pl, scene, silent, torn>>

Other(e) == IF e = "master" THEN "slave" ELSE "master"
NoWaiter == 0
Pending == [state |-> "pending", data |-> <<>>]
Idle == [at |-> "idle", len |-> 1, waiter |-> NoWaiter]
Done == [at |-> "idle", signal |-> FALSE]
NoPoll == [at |-> "idle", want |-> <<>>, left |-> {}, changed |-> FALSE]

Init ==
    /\ open = Ends
    /\ buf = [e \in Ends |-> <<>>]
    /\ queue = [e \in Ends |-> <<>>]
    /\ waiters = [i \in {} |-> Pending]
    /\ nextId = 1
    /\ line = <<>>
    /\ scene \in Scenes
    /\ mode \in scene.modes
    /\ rd = [r \in Readers |-> Idle]
    /\ wr = [w \in Writers |-> Done]
    /\ pl = [p \in Pollers |-> NoPoll]
    /\ silent = FALSE
    /\ torn = FALSE

Spend(what) ==
    /\ scene[what] > 0
    /\ scene' = [scene EXCEPT ![what] = @ - 1]

Size(chunks) == FoldLeft(LAMBDA n, c : n + Len(c), 0, chunks)

-----------------------------------------------------------------------------
(***************************************************************************)
(* notify_waiters_and_pollers.  The generation of the PollNotifier only    *)
(* matters through the comparison with the value a poller observed.        *)
(***************************************************************************)
Woken(r) == IF rd[r].at = "waiting" THEN [rd[r] EXCEPT !.at = "woken"] ELSE rd[r]

Notified(p) ==
    CASE pl[p].at = "look" -> [pl[p] EXCEPT !.changed = TRUE]
      [] pl[p].at = "asleep" -> [pl[p] EXCEPT !.at = "woken"]
      [] OTHER -> pl[p]

NotifyExcept(r, state) ==
    /\ rd' = [x \in Readers |-> IF x = r THEN state ELSE Woken(x)]
    /\ pl' = [p \in Pollers |-> Notified(p)]
    /\ silent' = FALSE

Notify ==
    /\ rd' = [x \in Readers |-> Woken(x)]
    /\ pl' = [p \in Pollers |-> Notified(p)]
    /\ silent' = FALSE

Quiet(r) == rd' = [rd EXCEPT ![r] = Idle] /\ UNCHANGED <<pl, silent>>

-----------------------------------------------------------------------------
(***************************************************************************)
(* write.  t collects what the bytes of a payload do, in order: the PTY,   *)
(* whether a signal is to be raised and whether an error stopped it.       *)
(***************************************************************************)
Ongoing == [buf |-> buf, queue |-> queue, waiters |-> waiters, line |-> line,
            signal |-> FALSE, failed |-> FALSE]

Fits(chunks, data) == Size(chunks) + Len(data) <= MaxBuffer

\* deliver_input, deliver_output: the first queued reader gets the data; an id
\* whose PendingRead is gone is dropped and the data goes to the buffer.
Deliver(t, end, data) ==
    LET q == t.queue[end]
        u == IF q = <<>> THEN t ELSE [t EXCEPT !.queue[end] = Tail(q)]
    IN  IF t.failed THEN t
        ELSE IF q # <<>> /\ Head(q) \in DOMAIN t.waiters
        THEN [u EXCEPT !.waiters[Head(q)] = [state |-> "data", data |-> data]]
        ELSE IF Fits(u.buf[end], data) THEN [u EXCEPT !.buf[end] = Append(@, data)]
        ELSE [u EXCEPT !.failed = TRUE]

Echo(t, data) == IF mode.echo THEN Deliver(t, "master", data) ELSE t

\* A variant that keeps the line it has delivered.
MutCleared(t) == t

\* clear() of the line buffer, reached only if what precedes it succeeded.
Cleared(t) == IF t.failed THEN t ELSE [t EXCEPT !.line = <<>>]

LineFull(t) == Len(t.line) >= MaxCanon

\* One byte in canonical mode.
Canonical(t, c) ==
    CASE c = "eof" -> Cleared(Deliver(t, "slave", t.line))
      [] c \in {"erase", "bs"} ->
            IF t.line = <<>> THEN t
            ELSE Echo([t EXCEPT !.line = Front(@)], <<"bs", "sp", "bs">>)
      [] c = "nl" ->
            LET u == [t EXCEPT !.line = Append(@, "nl")]
            IN  Cleared(Deliver(Echo(u, <<"cr", "nl">>), "slave", u.line))
      [] OTHER -> IF LineFull(t) THEN t ELSE Echo([t EXCEPT !.line = Append(@, c)], <<c>>)

Translated(c) == IF c = "cr" THEN "nl" ELSE c

\* process_input for one byte; the rest of a payload is skipped after an error.
TypeChar(t, raw) ==
    LET c == Translated(raw)
    IN  IF t.failed THEN t
        ELSE IF mode.isig /\ c = "intr"
        THEN [t EXCEPT !.signal = @ \/ mode.foreground, !.line = IF mode.icanon THEN <<>> ELSE @]
        ELSE IF mode.icanon THEN Canonical(t, c)
        ELSE Deliver(Echo(t, <<c>>), "slave", <<c>>)

RawMode == ~ mode.icanon /\ ~ mode.echo /\ ~ mode.isig

ProcessInput(data) ==
    IF RawMode THEN Deliver(Ongoing, "slave", [i \in DOMAIN data |-> Translated(data[i])])
    ELSE FoldLeft(TypeChar, Ongoing, data)

\* process_output: a newline not preceded by a return gets one.
ProcessOutput(data) ==
    FoldLeft(LAMBDA out, c : IF c = "nl" /\ (out = <<>> \/ Last(out) # "cr")
                             THEN out \o <<"cr", "nl">> ELSE Append(out, c),
             <<>>, data)

\* A variant that forgets what the write owes its readers.
MutOwes(t) == Done

\* An error leaves the function before the notification and drops the signals.
Owes(t) == IF t.failed THEN Done ELSE [at |-> "notify", signal |-> t.signal]

\* The effect of a payload on the PTY, under the mutex.
Apply(w, t) ==
    /\ buf' = t.buf /\ queue' = t.queue /\ waiters' = t.waiters /\ line' = t.line
    /\ wr' = [wr EXCEPT ![w] = Owes(t)]
    /\ silent' = (silent \/ (t.failed /\ t # [Ongoing EXCEPT !.failed = TRUE]))
    /\ UNCHANGED <<open, nextId, mode, rd, pl>>

WriteMaster(w, data) ==
    /\ wr[w].at = "idle" /\ open = Ends
    /\ Spend("writes")
    /\ Apply(w, ProcessInput(data))
    /\ torn' = (torn \/ ProcessInput(data).failed)

WriteSlave(w, data) ==
    /\ wr[w].at = "idle" /\ open = Ends
    /\ Spend("writes")
    /\ Apply(w, Deliver(Ongoing, "master", ProcessOutput(data)))
    /\ UNCHANGED torn

WriteNotifies(w) ==
    /\ wr[w].at = "notify"
    /\ wr' = [wr EXCEPT ![w] = IF @.signal THEN [@ EXCEPT !.at = "raise"] ELSE Done]
    /\ Notify
    /\ UNCHANGED <<ptyVars, scene, torn>>

\* on_signal kills the foreground group; the PTY is not concerned.
WriteRaises(w) ==
    /\ wr[w].at = "raise"
    /\ wr' = [wr EXCEPT ![w] = Done]
    /\ UNCHANGED <<ptyVars, rd, pl, scene, silent, torn>>

-----------------------------------------------------------------------------
(***************************************************************************)
(* read_with_timeout.  c is the record of the call's locals.               *)
(***************************************************************************)
With(f, k, v) == [i \in DOMAIN f \cup {k} |-> IF i = k THEN v ELSE f[i]]
Without(f, k) == [i \in DOMAIN f \ {k} |-> f[i]]

HasResult(c) == c.waiter \in DOMAIN waiters /\ waiters[c.waiter].state # "pending"

ReadResult(r, c) ==
    /\ HasResult(c)
    /\ waiters' = Without(waiters, c.waiter)
    /\ Quiet(r)
    /\ UNCHANGED <<open, buf, queue, nextId, line, mode>>

\* drain_buffer: whole chunks, an empty one included, while they fit, then a
\* part of the next.
Drained(chunks, n) ==
    FoldLeft(LAMBDA t, c :
                IF t.left = 0 THEN [t EXCEPT !.rest = Append(@, c)]
                ELSE IF Len(c) <= t.left THEN [t EXCEPT !.left = @ - Len(c)]
                ELSE [left |-> 0, rest |-> Append(t.rest, SubSeq(c, t.left + 1, Len(c)))],
             [left |-> n, rest |-> <<>>], chunks).rest

ReadBuffer(r, c) ==
    LET e == ReaderEnd[r] IN
    /\ ~ HasResult(c)
    /\ e \in open
    /\ buf[e] # <<>>
    /\ buf' = [buf EXCEPT ![e] = Drained(@, c.len)]
    /\ NotifyExcept(r, Idle)
    /\ UNCHANGED <<open, queue, waiters, nextId, line, mode>>

\* The end or the PTY is gone (an error) or the other end was closed (end of
\* file).
ReadHangup(r, c) ==
    LET e == ReaderEnd[r] IN
    /\ ~ HasResult(c)
    /\ open # Ends
    /\ e \in open => buf[e] = <<>>
    /\ waiters' = IF open = {} THEN waiters ELSE Without(waiters, c.waiter)
    /\ Quiet(r)
    /\ UNCHANGED <<open, buf, queue, nextId, line, mode>>

MustBlock(r, c) == ~ HasResult(c) /\ open = Ends /\ buf[ReaderEnd[r]] = <<>>

\* Nothing to return: register a waiter, once per call, and wait.
ReadBlock(r, c) ==
    /\ MustBlock(r, c)
    /\ IF c.waiter # NoWaiter
       THEN /\ rd' = [rd EXCEPT ![r] = [c EXCEPT !.at = "waiting"]]
            /\ UNCHANGED <<queue, waiters, nextId, pl, silent>>
       ELSE /\ waiters' = With(waiters, nextId, Pending)
            /\ queue' = [queue EXCEPT ![ReaderEnd[r]] = Append(@, nextId)]
            /\ nextId' = nextId + 1
            /\ NotifyExcept(r, [c EXCEPT !.at = "waiting", !.waiter = nextId])
    /\ UNCHANGED <<open, buf, line, mode>>

\* A variant that leaves the waiter of a timed-out read in the queue.
MutUnqueued(q, id) == q

Unqueued(q, id) == SelectSeq(q, LAMBDA x : x # id)

\* The deadline: the waiter is withdrawn, with what it may have been given.
Expire(r, c) ==
    /\ waiters' = Without(waiters, c.waiter)
    /\ queue' = [e \in Ends |-> Unqueued(queue[e], c.waiter)]
    /\ NotifyExcept(r, Idle)
    /\ UNCHANGED <<open, buf, line, mode>>

\* `now >= deadline' inside the loop; a call without a waiter has just
\* registered one.
ReadExpired(r, c) ==
    /\ MustBlock(r, c)
    /\ nextId' = IF c.waiter = NoWaiter THEN nextId + 1 ELSE nextId
    /\ Expire(r, c)

ReadLoop(r, c) ==
    \/ ReadResult(r, c)
    \/ ReadBuffer(r, c)
    \/ ReadHangup(r, c)
    \/ ReadBlock(r, c)
    \/ ReadExpired(r, c)

Read(r, len) ==
    /\ rd[r].at = "idle"
    /\ ReaderEnd[r] \in open
    /\ Spend("reads")
    /\ ReadLoop(r, [at |-> "idle", len |-> len, waiter |-> NoWaiter])
    /\ UNCHANGED <<wr, torn>>

\* Back from the condition variable: a waiter no longer in the table is
\* forgotten, then the loop goes round.
ReadWake(r) ==
    /\ rd[r].at = "woken"
    /\ ReadLoop(r, IF rd[r].waiter \in DOMAIN waiters THEN rd[r]
                   ELSE [rd[r] EXCEPT !.waiter = NoWaiter])
    /\ UNCHANGED <<wr, scene, torn>>

\* wait_timeout reports timed_out; a notification may have come meanwhile.
ReadTimeout(r) ==
    /\ rd[r].at \in {"waiting", "woken"}
    /\ Expire(r, rd[r])
    /\ UNCHANGED <<nextId, wr, scene, torn>>

-----------------------------------------------------------------------------
\* close of an end answers every queued read of both ends with end of file;
\* the PTY goes with its second end.
Close(e) ==
    /\ e \in open
    /\ open' = open \ {e}
    /\ waiters' = [i \in DOMAIN waiters |->
                     IF \E x \in Ends : Contains(queue[x], i) THEN [Pending EXCEPT !.state = "eof"]
                     ELSE waiters[i]]
    /\ queue' = [x \in Ends |-> <<>>]
    /\ IF open = {e} THEN buf' = [x \in Ends |-> <<>>] /\ line' = <<>>
                     ELSE UNCHANGED <<buf, line>>
    /\ Spend("closes")
    /\ Notify
    /\ UNCHANGED <<nextId, mode, wr, torn>>

\* set_discipline, set_termios, set_foreground_pgid.
SetMode(m) ==
    /\ open # {}
    /\ m # mode
    /\ Spend("switches")
    /\ mode' = m
    /\ UNCHANGED <<open, buf, queue, waiters, nextId, line, rd, wr, pl, silent, torn>>

-----------------------------------------------------------------------------
(***************************************************************************)
(* poll_targets: snapshot of the generation, a look at each target under   *)
(* the PTY's mutex, then wait_for_change.                                  *)
(***************************************************************************)
\* PtyManager::poll has something to report (a closed end's fd is POLLNVAL).
Ready(e, want) ==
    \/ open # Ends
    \/ "in" \in want /\ buf[e] # <<>>
    \/ "out" \in want /\ (Size(buf[Other(e)]) < MaxBuffer \/ queue[Other(e)] # <<>>)

SetPoll(p, state) ==
    /\ pl' = [pl EXCEPT ![p] = state]
    /\ UNCHANGED <<ptyVars, rd, wr, silent, torn>>

Poll(p, want) ==
    /\ pl[p].at = "idle"
    /\ Spend("polls")
    /\ SetPoll(p, [at |-> "look", want |-> want, left |-> DOMAIN want, changed |-> FALSE])

PollLook(p, e) ==
    /\ pl[p].at = "look"
    /\ e \in pl[p].left
    /\ SetPoll(p, IF Ready(e, pl[p].want[e]) THEN NoPoll ELSE [pl[p] EXCEPT !.left = @ \ {e}])
    /\ UNCHANGED scene

\* A variant that takes the snapshot only when it goes to sleep.
MutUnchanged(p) == TRUE

Unchanged(p) == ~ pl[p].changed

\* wait_for_change: sleep only if the generation is still the one observed.
PollSleep(p) ==
    /\ pl[p].at = "look"
    /\ pl[p].left = {}
    /\ SetPoll(p, [pl[p] EXCEPT !.at = IF Unchanged(p) THEN "asleep" ELSE "woken"])
    /\ UNCHANGED scene

PollAgain(p) ==
    /\ pl[p].at = "woken"
    /\ SetPoll(p, [pl[p] EXCEPT !.at = "look", !.left = DOMAIN pl[p].want, !.changed = FALSE])
    /\ UNCHANGED scene

\* The timeout passes without a change.
PollTimeout(p) ==
    /\ pl[p].at = "asleep"
    /\ SetPoll(p, NoPoll)
    /\ UNCHANGED scene

-----------------------------------------------------------------------------
WriterStep(w) == WriteNotifies(w) \/ WriteRaises(w)
PollerStep(p) == (\E e \in Ends : PollLook(p, e)) \/ PollSleep(p) \/ PollAgain(p)

Next ==
    \/ \E w \in Writers, data \in scene.typed : WriteMaster(w, data)
    \/ \E w \in Writers, data \in scene.printed : WriteSlave(w, data)
    \/ \E w \in Writers : WriterStep(w)
    \/ \E r \in Readers, len \in scene.lengths : Read(r, len)
    \/ \E r \in Readers : ReadWake(r) \/ ReadTimeout(r)
    \/ \E e \in Ends : Close(e)
    \/ \E m \in scene.modes : SetMode(m)
    \/ \E p \in Pollers, want \in scene.wants : Poll(p, want)
    \/ \E p \in Pollers : PollerStep(p) \/ PollTimeout(p)

Spec == Init /\ [][Next]_vars

\* A thread that has been woken, or still has work after the mutex, runs.
FairSpec ==
    /\ Spec
    /\ \A w \in Writers : WF_vars(WriterStep(w))
    /\ \A r \in Readers : WF_vars(ReadWake(r))

-----------------------------------------------------------------------------
(***************************************************************************)
(* Properties.                                                             *)
(***************************************************************************)
Blocked(r) == rd[r].at \in {"waiting", "woken"}

\* Every variable has the type of the field it stands for, and a buffer never
\* holds more than MAX_PTY_BUFFER_BYTES.
TypeOK ==
    /\ open \subseteq Ends
    /\ \A e \in Ends : /\ buf[e] \in Seq(Seq(Chars)) /\ Size(buf[e]) <= MaxBuffer
                       /\ queue[e] \in Seq(Nat)
    /\ \A i \in DOMAIN waiters : waiters[i] \in [state : {"pending", "data", "eof"}, data : Seq(Chars)]
    /\ nextId \in Nat \ {0}
    /\ line \in Seq(Chars)
    /\ mode \in Modes
    /\ rd \in [Readers -> [at : {"idle", "waiting", "woken"}, len : Nat, waiter : Nat]]
    /\ wr \in [Writers -> [at : {"idle", "notify", "raise"}, signal : BOOLEAN]]
    /\ silent \in BOOLEAN /\ torn \in BOOLEAN

\* Data is never handed to a waiter nobody collects from, and never overtakes a
\* reader that was there first: a queued waiter is pending and belongs to a
\* blocked reader of that end, and while readers queue the buffer is empty.
\* Every waiter in the table has an owner (read_with_timeout, deliver_input);
\* and buffers stay within their limit and the state well typed.
QueueExact ==
    /\ TypeOK
    /\ \A e \in Ends :
          /\ queue[e] # <<>> => buf[e] = <<>>
          /\ \A i \in 1 .. Len(queue[e]) :
                /\ queue[e][i] \in DOMAIN waiters
                /\ waiters[queue[e][i]].state = "pending"
                /\ \E r \in Readers : ReaderEnd[r] = e /\ rd[r].waiter = queue[e][i] /\ Blocked(r)
    /\ \A i \in DOMAIN waiters : \E r \in Readers : rd[r].waiter = i /\ Blocked(r)

\* A reader sleeps on data or end of file it could return only while a writer
\* still owes its notification, or after a write that failed half-way: that
\* one returns before notify_waiters_and_pollers.
NoLostWakeup ==
    \A r \in Readers :
       rd[r].at = "waiting" /\ (HasResult(rd[r]) \/ buf[ReaderEnd[r]] # <<>> \/ open # Ends) =>
          silent \/ \E w \in Writers : wr[w].at = "notify"

\* The same for a poller that sleeps although a target of its is ready: no
\* change between its look at the targets and its sleep goes unnoticed.
PollerAlert ==
    \A p \in Pollers :
       pl[p].at = "asleep" /\ (\E e \in DOMAIN pl[p].want : Ready(e, pl[p].want[e])) =>
          silent \/ \E w \in Writers : wr[w].at = "notify"

\* In canonical mode a program reads lines: a newline ends the chunk it is in,
\* as long as no write to the master failed.
LinesWhole ==
    (\A m \in scene.modes : m.icanon) /\ ~ torn =>
       \A i \in 1 .. Len(buf["slave"]) :
          LET c == buf["slave"][i] IN ~ Contains(SubSeq(c, 1, Len(c) - 1), "nl")

\* A blocked reader that was handed data, or whose PTY lost an end, returns;
\* only a write that failed half-way may leave it asleep, and never once an
\* end is closed.
ReaderReleased ==
    \A r \in Readers :
       (Blocked(r) /\ (HasResult(rd[r]) \/ open # Ends)) ~> (rd[r].at = "idle" \/ (silent /\ open = Ends))
=============================================================================
